-------------------------- MODULE MCModelRunContext --------------------------
(* Instances of ModelRunContext for TLC. *)
EXTENDS ModelRunContext, ModelConfiguration

CONSTANTS r1, r2, Missing

PairOfPayloads == {r1, r2}

\* What config.pbtxt and the service configuration make of a model: the number
\* of its contexts, and so of its runners, and the size of its queue.
CpuModel(count) ==
    [platform |-> "demo",
     instance_group |-> <<[kind |-> "KIND_CPU", count |-> count, gpus |-> FALSE]>>]

Service == INSTANCE ServiceConfig
QueueOf(size) ==
    Service!LoadServerConfig(
        [model_repo_path |-> "repository", model_control |-> Missing,
         grpc_server |-> Missing, scheduler |-> [max_queue_size |-> size]]).max_queue_size

OneSlot == QueueOf(1)

\* A count that is left out reads as 0.
TwoInstances == GetInstanceNum(CpuModel(2))
CountLeftOut == GetInstanceNum(CpuModel(0))

\* A model reloaded with a configuration that leaves the instance count out:
\* runner 0 meets idx = contexts_.size(), runner 1 an idx beyond it.
Shrinking == [k \in 0 .. 1 |-> IF k = 0 THEN TwoInstances ELSE CountLeftOut]

\* A model reloaded with as many instances as before.
Steady == [k \in 0 .. 1 |-> TwoInstances]

\* A model whose first configuration leaves the count out.
Defaulted == [k \in 0 .. 0 |-> CountLeftOut]
=============================================================================
