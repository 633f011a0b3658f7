---------------------------- MODULE ServiceConfig ----------------------------
(***************************************************************************)
(* The YAML file of the service and what LoadServerConfig makes of it.  A  *)
(* section or a value that the file lacks, or that does not convert, is    *)
(* Missing.                                                                *)
(***************************************************************************)
EXTENDS Integers, FiniteSetsExt

CONSTANT Missing

MIN_MODEL_REFRESH_INTERVAL == 5
DEFAULT_SCHEDUELR_QUEUE_SIZE == 4

ModelControl ==
    [enable_automatic_refresh : BOOLEAN \cup {Missing},
     refresh_interval : Int \cup {Missing},
     enable_warmup : BOOLEAN \cup {Missing}]

YamlFile ==
    [model_repo_path : STRING \cup {Missing},
     model_control : ModelControl \cup {Missing},
     grpc_server : [addr : STRING \cup {Missing}] \cup {Missing},
     scheduler : [max_queue_size : Int \cup {Missing}] \cup {Missing}]

\* A conversion without a default throws, and main does not catch it.
LoadThrows(file) ==
    \/ file.model_repo_path = Missing
    \/ /\ file.model_control # Missing
       /\ \/ file.model_control.enable_automatic_refresh = Missing
          \/ /\ file.model_control.enable_automatic_refresh = TRUE
             /\ file.model_control.refresh_interval = Missing
          \/ file.model_control.enable_warmup = Missing

OrDefault(value, default) == IF value = Missing THEN default ELSE value

RefreshInterval(control) == Max({MIN_MODEL_REFRESH_INTERVAL, control.refresh_interval})

\* A file that does not throw.  make_shared zeroes what no section sets: the
\* defaults of addr and max_queue_size need their sections to be there.
LoadServerConfig(file) ==
    LET control == file.model_control
        auto    == control # Missing /\ control.enable_automatic_refresh = TRUE
    IN  [auto_update |-> auto,
         update_interval |-> IF auto THEN RefreshInterval(control) ELSE 0,
         grpc_server_addr |-> IF file.grpc_server = Missing THEN ""
                              ELSE OrDefault(file.grpc_server.addr, "0.0.0.0:50051"),
         max_queue_size |-> IF file.scheduler = Missing THEN 0
                            ELSE OrDefault(file.scheduler.max_queue_size,
                                           DEFAULT_SCHEDUELR_QUEUE_SIZE)]
=============================================================================
