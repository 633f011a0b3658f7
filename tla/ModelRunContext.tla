--------------------------- MODULE ModelRunContext ---------------------------
(***************************************************************************)
(* One entry of ModelManager::model_map_ from its creation to its          *)
(* destruction: a SimpleScheduler, the backends its infer function is      *)
(* bound to one after the other, and the threads that share them.          *)
(*                                                                         *)
(*   - Callers run ModelManager::InferAsync, which holds model_map_mu_     *)
(*     around SimpleScheduler::Enqueue.                                    *)
(*   - The manager runs the branches of LoadModels that add, update and    *)
(*     delete this model, or ModelManager::Stop; it is the owner of the    *)
(*     scheduler.                                                          *)
(*   - The runners of the scheduler call ModelBackend::Run.                *)
(*                                                                         *)
(* Backend k is the object the k-th infer function is bound to by a raw    *)
(* pointer.  Touching a destroyed backend, or a context past the end of    *)
(* contexts_, is undefined behaviour: the step either works on what is     *)
(* left in the freed memory or brings the process down.                    *)
(***************************************************************************)
EXTENDS Naturals, Sequences, FiniteSets

CONSTANTS
    Payloads, TotalRunners, MaxQueueSize, MaxUpdates, None,
    NumContexts,    \* of every backend: contexts_.size()
    Manager         \* the manager thread, as a holder of model_map_mu_

\* The scheduler of the model is created with one runner for each context of
\* its first backend.
ASSUME ContextAssumption ==
    /\ TotalRunners \in Nat
    /\ MaxQueueSize \in Nat
    /\ MaxUpdates \in Nat
    /\ NumContexts \in [0 .. MaxUpdates -> Nat]
    /\ NumContexts[0] = TotalRunners
    /\ None \notin Payloads
    /\ Manager \notin Payloads \cup {None}

VARIABLES
    \* the state of the scheduler
    running, buffer, broken, func, owner, expired, enq, wpc, held, bound,
    answers, waitedFor, crashed,
    \* the state around it
    mapLock,    \* who holds model_map_mu_: a payload's caller, Manager or None
    listed,     \* the model is in model_map_
    mpc,        \* where the manager is
    call,       \* of every payload: where its InferAsync call is
    life,       \* of every backend: unborn, alive or dead
    current,    \* the backend of backend_info_
    rpc,        \* of every runner: where it is in ModelBackend::Run
    counter     \* of every backend: running_inference_process_

Sched == INSTANCE SimpleScheduler

Runners == Sched!Runners
Backends == 0 .. MaxUpdates

schedVars == <<running, buffer, broken, func, owner, expired, enq, wpc, held,
               bound, answers, waitedFor, crashed>>
managerVars == <<listed, mpc, life, current>>
callerVars  == <<mapLock, call>>
backendVars == <<rpc, counter>>
vars == <<schedVars, managerVars, callerVars, backendVars>>

-----------------------------------------------------------------------------

\* LoadModels has loaded the first backend and constructed the scheduler.
Init ==
    /\ Sched!Init
    /\ mapLock = None
    /\ listed = FALSE
    /\ mpc = "starting"
    /\ call = [p \in Payloads |-> "new"]
    /\ life = [k \in Backends |-> IF k = 0 THEN "alive" ELSE "unborn"]
    /\ current = 0
    /\ rpc = [w \in Runners |-> "out"]
    /\ counter = [k \in Backends |-> 0]

(***************************************************************************)
(* InferAsync.  model_map_mu_ is held from the lookup to the return of     *)
(* Enqueue, across a push that blocks on a full queue.                     *)
(***************************************************************************)
InferFind(p) ==
    /\ call[p] = "new"
    /\ mapLock = None
    /\ call' = [call EXCEPT ![p] = IF listed THEN "found" ELSE "nobackend"]
    /\ mapLock' = IF listed THEN p ELSE None
    /\ UNCHANGED <<schedVars, managerVars, backendVars>>

InferEnqueue(p) ==
    /\ call[p] = "found"
    /\ Sched!Enqueue(p)
    /\ IF enq'[p] = "pushing"
       THEN UNCHANGED callerVars
       ELSE /\ call' = [call EXCEPT ![p] = "returned"]
            /\ mapLock' = None
    /\ UNCHANGED <<managerVars, backendVars>>

(***************************************************************************)
(* The manager: add the model.                                             *)
(***************************************************************************)
StartScheduler ==
    /\ mpc = "starting"
    /\ Sched!Start \/ (\E w \in Runners : Sched!SpawnRunner(w)) \/ Sched!StartReturn
    /\ UNCHANGED <<managerVars, callerVars, backendVars>>

InsertModel ==
    /\ mpc = "starting"
    /\ owner = "started"
    /\ mapLock = None
    /\ listed' = TRUE
    /\ mpc' = "idle"
    /\ UNCHANGED <<schedVars, life, current, callerVars, backendVars>>

(***************************************************************************)
(* Update the model: load the new backend (a load that fails changes       *)
(* nothing), install its Run and swap it in under model_map_mu_, and then, *)
(* outside the mutex, destroy the old backend.                             *)
(***************************************************************************)
\* Slip: the old backend is released before the new one is loaded.
LoadUpdate_ReleaseFirst ==
    /\ mpc = "idle"
    /\ func < MaxUpdates
    /\ life' = [life EXCEPT ![func + 1] = "alive", ![current] = "dead"]
    /\ mpc' = "loaded"
    /\ UNCHANGED <<schedVars, listed, current, callerVars, backendVars>>

LoadUpdate ==
    /\ mpc = "idle"
    /\ func < MaxUpdates
    /\ life' = [life EXCEPT ![func + 1] = "alive"]
    /\ mpc' = "loaded"
    /\ UNCHANGED <<schedVars, listed, current, callerVars, backendVars>>

InstallUpdate ==
    /\ mpc = "loaded"
    /\ mapLock = None
    /\ Sched!UpdateBackendInferFunc
    /\ current' = func + 1
    /\ mpc' = "installed"
    /\ UNCHANGED <<listed, life, callerVars, backendVars>>

\* Slip: the old backend is forgotten.
ReleaseOldBackend_Forgotten ==
    /\ mpc = "installed"
    /\ mpc' = "idle"
    /\ UNCHANGED <<schedVars, listed, life, current, callerVars, backendVars>>

ReleaseOldBackend ==
    /\ mpc = "installed"
    /\ life' = [life EXCEPT ![current - 1] = "dead"]
    /\ mpc' = "idle"
    /\ UNCHANGED <<schedVars, listed, current, callerVars, backendVars>>

(***************************************************************************)
(* Delete the model, outside model_map_mu_ once it is erased, or clear the *)
(* map in ModelManager::Stop, which keeps the mutex.  Either way the       *)
(* members of ModelRunContext are destroyed in the reverse order of their  *)
(* declaration: first backend_info_, then scheduler_, whose destructor     *)
(* calls Stop.                                                             *)
(***************************************************************************)
\* Slip: the model is erased without model_map_mu_.
EraseModel_Unlocked ==
    /\ mpc = "idle"
    /\ listed' = FALSE
    /\ mpc' = "erased"
    /\ UNCHANGED <<schedVars, life, current, callerVars, backendVars>>

EraseModel ==
    /\ mpc = "idle"
    /\ mapLock = None
    /\ listed' = FALSE
    /\ mpc' = "erased"
    /\ UNCHANGED <<schedVars, life, current, callerVars, backendVars>>

ClearMap ==
    /\ mpc = "idle"
    /\ mapLock = None
    /\ mapLock' = Manager
    /\ listed' = FALSE
    /\ mpc' = "erased"
    /\ UNCHANGED <<schedVars, life, current, call, backendVars>>

DestroyBackend ==
    /\ mpc = "erased"
    /\ life' = [life EXCEPT ![current] = "dead"]
    /\ mpc' = "stopping"
    /\ UNCHANGED <<schedVars, listed, current, callerVars, backendVars>>

StopScheduler ==
    /\ mpc = "stopping"
    /\ Sched!StopCall \/ Sched!Stop
    /\ UNCHANGED <<managerVars, callerVars, backendVars>>

\* Slip: the destructor does not wait for Stop.
Destroyed_NoStop ==
    /\ mpc = "stopping"
    /\ mpc' = "gone"
    /\ mapLock' = IF mapLock = Manager THEN None ELSE mapLock
    /\ UNCHANGED <<schedVars, listed, life, current, call, backendVars>>

Destroyed ==
    /\ mpc = "stopping"
    /\ owner = "stopped"
    /\ mpc' = "gone"
    /\ mapLock' = IF mapLock = Manager THEN None ELSE mapLock
    /\ UNCHANGED <<schedVars, listed, life, current, call, backendVars>>

-----------------------------------------------------------------------------
(***************************************************************************)
(* ModelBackend::Run, called by runner w through the function it has read: *)
(* count, check idx, run the context, uncount.  The check lets idx =       *)
(* contexts_.size() pass, and its early return does not uncount.           *)
(***************************************************************************)

RunCount(w) ==
    /\ wpc[w] = "infer"
    /\ rpc[w] = "out"
    /\ rpc' = [rpc EXCEPT ![w] = "check"]
    /\ counter' = [counter EXCEPT ![bound[w]] = @ + 1]
    /\ UNCHANGED schedVars

RunInvalid(w) ==
    /\ rpc[w] = "check"
    /\ w > NumContexts[bound[w]]
    /\ rpc' = [rpc EXCEPT ![w] = "done"]
    /\ UNCHANGED <<counter, schedVars>>

RunContext(w) ==
    /\ rpc[w] = "check"
    /\ w <= NumContexts[bound[w]]
    /\ rpc' = [rpc EXCEPT ![w] = "context"]
    /\ UNCHANGED <<counter, schedVars>>

RunUncount(w) ==
    /\ rpc[w] = "context"
    /\ rpc' = [rpc EXCEPT ![w] = "done"]
    /\ counter' = [counter EXCEPT ![bound[w]] = @ - 1]
    /\ UNCHANGED schedVars

\* The runner is about to touch memory that is not there.
BadAccess(w) ==
    /\ wpc[w] = "infer" /\ rpc[w] # "done"
    /\ \/ life[bound[w]] = "dead"
       \/ rpc[w] \in {"check", "context"} /\ w = NumContexts[bound[w]]

Run(w) ==
    /\ \/ RunCount(w) \/ RunInvalid(w) \/ RunContext(w) \/ RunUncount(w)
       \/ BadAccess(w) /\ Sched!InferCrash(w) /\ UNCHANGED backendVars
    /\ UNCHANGED <<managerVars, callerVars>>

\* Slip: a failed run is tried again, with the same function.
RunReturn_Retry(w) ==
    /\ rpc[w] = "done"
    /\ wpc[w] = "infer"
    /\ rpc' = [rpc EXCEPT ![w] = "out"]
    /\ wpc' = [wpc EXCEPT ![w] = "invoke"]
    /\ UNCHANGED <<running, buffer, broken, func, owner, expired, enq, held,
                   bound, answers, waitedFor, crashed, counter, managerVars,
                   callerVars>>

RunReturn(w) ==
    /\ rpc[w] = "done"
    /\ Sched!RunnerReturn(w)
    /\ rpc' = [rpc EXCEPT ![w] = "out"]
    /\ UNCHANGED <<counter, managerVars, callerVars>>

\* The rest of ProcessLoop.
RunnerStep(w) ==
    /\ wpc[w] # "infer"
    /\ Sched!ProcessLoop(w)
    /\ UNCHANGED <<managerVars, callerVars, backendVars>>

-----------------------------------------------------------------------------

ManagerStep ==
    \/ StartScheduler \/ InsertModel
    \/ LoadUpdate \/ InstallUpdate \/ ReleaseOldBackend
    \/ EraseModel \/ ClearMap \/ DestroyBackend \/ StopScheduler \/ Destroyed

TimerExpires ==
    /\ Sched!TimerExpires
    /\ UNCHANGED <<managerVars, callerVars, backendVars>>

Terminated ==
    /\ crashed \/ ( /\ mpc = "gone"
                    /\ \A p \in Payloads : call[p] \in {"nobackend", "returned"} )
    /\ UNCHANGED vars

Next ==
    \/ /\ ~crashed
       /\ \/ \E p \in Payloads : InferFind(p) \/ InferEnqueue(p)
          \/ ManagerStep
          \/ TimerExpires
          \/ \E w \in Runners : Run(w) \/ RunReturn(w) \/ RunnerStep(w)
    \/ Terminated

Spec == Init /\ [][Next]_vars

\* The threads of SimpleScheduler's fairness; a call of InferAsync that has
\* found its model goes on, and so does the destruction of a removed model.
Fairness ==
    /\ \A w \in Runners : WF_vars(~crashed /\ (Run(w) \/ RunReturn(w) \/ RunnerStep(w)))
    /\ \A p \in Payloads : WF_vars(~crashed /\ InferEnqueue(p))
    /\ WF_vars(~crashed /\ (DestroyBackend \/ StopScheduler \/ Destroyed))
    /\ WF_vars(~crashed /\ TimerExpires)

FairSpec == Spec /\ Fairness

-----------------------------------------------------------------------------

TypeOK ==
    /\ Sched!TypeOK
    /\ mapLock \in Payloads \cup {Manager, None}
    /\ listed \in BOOLEAN
    /\ mpc \in {"starting", "idle", "loaded", "installed", "erased",
                "stopping", "gone"}
    /\ call \in [Payloads -> {"new", "found", "nobackend", "returned"}]
    /\ life \in [Backends -> {"unborn", "alive", "dead"}]
    /\ current \in Backends
    /\ rpc \in [Runners -> {"out", "check", "context", "done"}]
    /\ counter \in [Backends -> Nat]

(***************************************************************************)
(* model_map_mu_ closes the race between Enqueue's test of running_ and    *)
(* Stop that SimpleScheduler has on its own: the scheduler of a model in   *)
(* the map is running, and stays so until the call that has found it is    *)
(* over.  No request is turned away, or dropped with Success, by a         *)
(* scheduler that is being stopped.                                        *)
(***************************************************************************)
EnqueueNeverMeetsStop ==
    \A p \in Payloads :
        /\ call[p] = "found" => running /\ ~broken
        /\ enq[p] \notin {"rejected", "lost"}

(***************************************************************************)
(* So a removal whose drain does not time out leaves nobody without an     *)
(* answer, whenever the request came in.                                   *)
(***************************************************************************)
DrainedRemovalAnswersAll ==
    mpc = "gone" /\ ~expired =>
        \A p \in Payloads : call[p] = "returned" => answers[p] = 1

(***************************************************************************)
(* The backends are released: at rest the model keeps the backend its      *)
(* infer function is bound to and no other, and once it is gone, none.     *)
(***************************************************************************)
Alive == {k \in Backends : life[k] = "alive"}

NoBackendLeak ==
    /\ mpc = "idle" => current = func /\ Alive = {current}
    /\ mpc = "gone" => Alive = {}

(***************************************************************************)
(* Undefined behaviour needs a reload or a removal.  Until the backend of  *)
(* a removed model is destroyed, a runner that calls the installed infer   *)
(* function touches only what is there, however often the model has been   *)
(* reloaded and with whatever number of contexts; the one exception is the *)
(* idx that Run's check lets through, contexts_.size().  And a model that  *)
(* has never been reloaded does not bring the server down.                 *)
(***************************************************************************)
InstalledFunctionIsSafe ==
    mpc \notin {"stopping", "gone"} =>
        /\ \A w \in Runners : bound[w] = func /\ BadAccess(w) => w = NumContexts[func]
        /\ func = 0 => ~crashed /\ \A w \in Runners : ~BadAccess(w)

(***************************************************************************)
(* InferAsync returns, although it may block with model_map_mu_ held, and  *)
(* a removed model is destroyed, although its runners may be anywhere.     *)
(***************************************************************************)
InferReturns ==
    \A p \in Payloads : call[p] = "found" ~> (call[p] = "returned" \/ crashed)

RemovalCompletes ==
    mpc = "erased" ~> (mpc = "gone" \/ crashed)

CallsAndRemovalReturn == InferReturns /\ RemovalCompletes

(***************************************************************************)
(* An update takes: from some point on no runner runs a backend that is no *)
(* longer the current one.                                                 *)
(***************************************************************************)
OldBackendAbandoned ==
    \A k \in Backends :
        func > k ~> ([](\A w \in Runners : wpc[w] = "infer" => bound[w] # k) \/ crashed)

(***************************************************************************)
(* What ModelBackend::WaitInferComplete is there for ("inference instance  *)
(* still running"): a backend is not destroyed under a runner that is      *)
(* inside it.  Nothing calls WaitInferComplete.                            *)
(***************************************************************************)
Inside(k) == {w \in Runners : rpc[w] \in {"check", "context"} /\ bound[w] = k}

NoRunOnDeadBackend ==
    \A k \in Backends : life[k] = "dead" => Inside(k) = {}

(***************************************************************************)
(* What model_config.proto says of the count of an instance group on the   *)
(* CPU, "Default is 1": a model that leaves it out has an instance, and so *)
(* answers what it accepts unless it is removed first.                     *)
(***************************************************************************)
DefaultCountServes ==
    \A p \in Payloads :
        enq[p] = "accepted" ~> (answers[p] = 1 \/ ~listed \/ crashed)
=============================================================================
