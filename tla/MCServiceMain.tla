---------------------------- MODULE MCServiceMain ----------------------------
(* Instances of ServiceMain for TLC. *)
EXTENDS ServiceMain

CONSTANTS term1, term2, int1, other

MCSigTerms == {term1, term2}
MCSigInts == {int1}
MCOthers == {other}

Control(auto, interval) ==
    [enable_automatic_refresh |-> auto, refresh_interval |-> interval, enable_warmup |-> TRUE]
Yaml(control, grpc, scheduler) ==
    [model_repo_path |-> "repository", model_control |-> control,
     grpc_server |-> grpc, scheduler |-> scheduler]

\* Complete and incomplete files; two of them make LoadServerConfig throw.
MCFiles ==
    { Yaml(Control(TRUE, 1), [addr |-> Missing], [max_queue_size |-> Missing]),
      Yaml(Control(FALSE, Missing), Missing, [max_queue_size |-> 1]),
      Yaml(Missing, [addr |-> "0.0.0.0:50052"], Missing),
      Yaml(Control(TRUE, Missing), Missing, Missing),
      [Yaml(Missing, Missing, Missing) EXCEPT !.model_repo_path = Missing] }

\* For the run about a single question: the file does not matter.
CompleteFile == { Yaml(Control(TRUE, 60), [addr |-> "0.0.0.0:50051"], [max_queue_size |-> 1]) }
=============================================================================
