------------------------ MODULE ModelRunContextProofs ------------------------
(***************************************************************************)
(* Proofs about ModelRunContext for any number of runners, requests and    *)
(* updates, any queue size and any context counts.                         *)
(*                                                                         *)
(* The composition refines SimpleScheduler, so what SimpleSchedulerProofs  *)
(* proves of the scheduler holds in it.  On top of that, CInv says who     *)
(* holds model_map_mu_, where the manager and the owner stand to each      *)
(* other, and which backends are alive at each point of the manager.       *)
(***************************************************************************)
EXTENDS ModelRunContext, FiniteSetTheorems, TLAPS

\* The scheduler with the theorems proved of it.
SP == INSTANCE SimpleSchedulerProofs

-----------------------------------------------------------------------------

\* Seen from the scheduler, every step of the composition is one of its own
\* steps or none.
LEMMA StepOfScheduler ==
  ASSUME [Next]_vars
  PROVE  [Sched!Next]_Sched!schedVars
<1> USE DEF schedVars, Sched!schedVars, Sched!Next
<1>1. CASE UNCHANGED vars
  BY <1>1 DEF vars
<1>2. ASSUME NEW p \in Payloads, ~crashed, InferFind(p)
      PROVE  UNCHANGED Sched!schedVars
  BY <1>2 DEF InferFind
<1>3. ASSUME NEW p \in Payloads, ~crashed, InferEnqueue(p)
      PROVE  Sched!Next
  BY <1>3 DEF InferEnqueue
<1>4. ASSUME ~crashed, ManagerStep
      PROVE  [Sched!Next]_Sched!schedVars
  <2>1. CASE StartScheduler \/ StopScheduler
    BY <1>4, <2>1 DEF StartScheduler, StopScheduler, Sched!Owner, Runners
  <2>2. CASE InstallUpdate
    BY <1>4, <2>2 DEF InstallUpdate, Sched!Owner
  <2>3. CASE InsertModel \/ LoadUpdate \/ ReleaseOldBackend
    BY <2>3 DEF InsertModel, LoadUpdate, ReleaseOldBackend
  <2>4. CASE EraseModel \/ ClearMap \/ DestroyBackend \/ Destroyed
    BY <2>4 DEF EraseModel, ClearMap, DestroyBackend, Destroyed
  <2> QED
    BY <1>4, <2>1, <2>2, <2>3, <2>4 DEF ManagerStep
<1>5. ASSUME ~crashed, TimerExpires
      PROVE  Sched!Next
  BY <1>5 DEF TimerExpires
<1>6. ASSUME NEW w \in Runners, ~crashed, Run(w)
      PROVE  [Sched!Next]_Sched!schedVars
  BY <1>6 DEF Run, RunCount, RunInvalid, RunContext, RunUncount, Runners
<1>7. ASSUME NEW w \in Runners, ~crashed, RunReturn(w) \/ RunnerStep(w)
      PROVE  Sched!Next
  BY <1>7 DEF RunReturn, RunnerStep, Sched!ProcessLoop, Runners
<1>8. CASE Terminated
  BY <1>8 DEF Terminated, vars
<1> QED
  BY <1>1, <1>2, <1>3, <1>4, <1>5, <1>6, <1>7, <1>8 DEF Next

-----------------------------------------------------------------------------

\* The scheduler of ModelRunContext and that of SimpleSchedulerProofs are the
\* same one.
LEMMA SameScheduler ==
  /\ Sched!Init => SP!Init
  /\ [Sched!Next]_Sched!schedVars => [SP!Next]_SP!schedVars
<1> USE DEF Sched!queueVars, SP!queueVars, Sched!ownerVars, SP!ownerVars,
            Sched!runnerVars, SP!runnerVars, Sched!schedVars, SP!schedVars
<1>1. Sched!Init => SP!Init
  BY DEF Sched!Init, SP!Init, Sched!Runners, SP!Runners
<1>2. Sched!Runners = SP!Runners
  BY DEF Sched!Runners, SP!Runners
<1>3. ASSUME NEW p \in Payloads, Sched!Enqueue(p)
      PROVE  SP!Enqueue(p)
  BY <1>3 DEF Sched!Enqueue, SP!Enqueue, Sched!EnqueueTest, SP!EnqueueTest,
              Sched!EnqueuePush, SP!EnqueuePush, Sched!EnqueueBroken, SP!EnqueueBroken,
              Sched!Queue!Put, SP!Queue!Put
<1>4. Sched!Owner => SP!Owner
  <2>1. Sched!Start => SP!Start
    BY DEF Sched!Start, SP!Start
  <2>2. ASSUME NEW w \in Sched!Runners, Sched!SpawnRunner(w)
        PROVE  SP!SpawnRunner(w)
    BY <1>2, <2>2 DEF Sched!SpawnRunner, SP!SpawnRunner
  <2>3. Sched!StartReturn => SP!StartReturn
    BY <1>2 DEF Sched!StartReturn, SP!StartReturn
  <2>4. Sched!UpdateBackendInferFunc => SP!UpdateBackendInferFunc
    BY DEF Sched!UpdateBackendInferFunc, SP!UpdateBackendInferFunc
  <2>5. Sched!StopCall => SP!StopCall
    BY DEF Sched!StopCall, SP!StopCall
  <2>6. Sched!Stop => SP!Stop
    BY <1>2 DEF Sched!Stop, SP!Stop, Sched!StopDrained, SP!StopDrained,
                Sched!StopClearRunning, SP!StopClearRunning, Sched!StopBreak, SP!StopBreak,
                Sched!Queue!Close, SP!Queue!Close, Sched!StopJoined, SP!StopJoined
  <2> QED
    BY <1>2, <2>1, <2>2, <2>3, <2>4, <2>5, <2>6 DEF Sched!Owner, SP!Owner
<1>5. Sched!TimerExpires => SP!TimerExpires
  BY DEF Sched!TimerExpires, SP!TimerExpires
<1>6. ASSUME NEW w \in Sched!Runners, Sched!ProcessLoop(w)
      PROVE  SP!ProcessLoop(w)
  BY <1>6 DEF Sched!ProcessLoop, SP!ProcessLoop, Sched!RunnerTest, SP!RunnerTest,
              Sched!RunnerPop, SP!RunnerPop, Sched!Queue!Get, SP!Queue!Get,
              Sched!RunnerPopNull, SP!RunnerPopNull, Sched!RunnerRead, SP!RunnerRead,
              Sched!RunnerInvoke, SP!RunnerInvoke, Sched!RunnerReturn, SP!RunnerReturn,
              Sched!RunnerComplete, SP!RunnerComplete
<1>7. ASSUME NEW w \in Sched!Runners, Sched!InferCrash(w)
      PROVE  SP!InferCrash(w)
  BY <1>7 DEF Sched!InferCrash, SP!InferCrash
<1>8. Sched!Terminated => SP!Terminated
  BY DEF Sched!Terminated, SP!Terminated
<1> QED
  BY <1>1, <1>2, <1>3, <1>4, <1>5, <1>6, <1>7, <1>8 DEF Sched!Next, SP!Next

\* So what SimpleSchedulerProofs proves holds of the model's scheduler.
LEMMA ProvedOfScheduler == Spec => []SP!IInv /\ []SP!DrainedStopCompletesAll
<1>1. SP!SchedulerAssumption
  BY ContextAssumption DEF SP!SchedulerAssumption
<1>2. SP!Spec => []SP!IInv
  BY <1>1, SP!InductiveInvariant
<1>3. SP!Spec => []SP!DrainedStopCompletesAll
  BY <1>1, SP!StopCompletesAll
<1>4. Init => SP!Init
  BY SameScheduler DEF Init
<1>5. [Next]_vars => [SP!Next]_SP!schedVars
  BY StepOfScheduler, SameScheduler
<1> QED
  BY <1>2, <1>3, <1>4, <1>5, PTL DEF Spec, SP!Spec

-----------------------------------------------------------------------------

\* model_map_mu_ and InferAsync: a call that has found the model holds the
\* mutex and the model is still in the map.
LockInv ==
    /\ listed <=> mpc \in {"idle", "loaded", "installed"}
    /\ \A p \in Payloads :
          /\ call[p] = "found" => mapLock = p /\ listed
          /\ call[p] \in {"new", "nobackend"} => enq[p] = "new"
          /\ call[p] = "returned" => enq[p] = "accepted"
          /\ enq[p] = "pushing" => call[p] = "found"
          /\ enq[p] \notin {"rejected", "lost"}

\* The manager and the Start and Stop it runs.  Stop's waiting set is
\* everything that was ever accepted, since nobody can find the model.
OwnerInv ==
    /\ running <=> owner \in {"spawning", "started", "draining", "clearing"}
    /\ broken <=> owner \in {"joining", "stopped"}
    /\ mpc = "starting" => owner \in {"new", "spawning", "started"}
    /\ mpc \in {"idle", "loaded", "installed", "erased"} => owner = "started"
    /\ mpc = "stopping" => owner \notin {"new", "spawning"}
    /\ mpc = "gone" => owner = "stopped"
    /\ owner \notin {"new", "spawning", "started"}
          => waitedFor = {p \in Payloads : enq[p] = "accepted"}

\* The backends that are alive at each point of the manager.
Kept == CASE mpc \in {"starting", "idle", "erased"} -> {func}
          [] mpc = "loaded"                         -> {func, func + 1}
          [] mpc = "installed"                      -> {func - 1, func}
          [] OTHER                                  -> {}

BackendInv ==
    /\ current = func
    /\ mpc = "starting" => func = 0
    /\ mpc = "loaded" => func < MaxUpdates
    /\ mpc = "installed" => func > 0
    /\ \A k \in Backends : life[k] = "alive" <=> k \in Kept

\* The model is in the map, or its backend has not been destroyed yet.
Standing == mpc \in {"starting", "idle", "loaded", "installed", "erased"}

\* A runner never runs ahead of the manager, and before the first update
\* nothing has gone wrong.
BoundInv ==
    /\ \A w \in Runners : bound[w] <= func
    /\ func = 0 /\ Standing => ~crashed

\* A runner is in Run only when it is calling its infer function.
RunInv == \A w \in Runners : rpc[w] # "out" => wpc[w] = "infer"

\* running_inference_process_ is never less than the number of runners between
\* its increment and its decrement, so that the decrement stays above zero.
CounterCoversRunners ==
    \A k \in Backends : Cardinality(Inside(k)) <= counter[k]

CInv ==
    /\ TypeOK
    /\ LockInv
    /\ OwnerInv
    /\ BackendInv
    /\ BoundInv
    /\ RunInv
    /\ CounterCoversRunners

-----------------------------------------------------------------------------

\* The runners change the queue, their own state and the counters only.
LEMMA RunnerFrame ==
  ASSUME NEW w \in Runners, Run(w) \/ RunReturn(w) \/ RunnerStep(w)
  PROVE  /\ UNCHANGED <<managerVars, callerVars>>
         /\ UNCHANGED <<running, broken, func, owner, expired, enq, waitedFor>>
<1> USE DEF Sched!queueVars, Sched!ownerVars
<1>1. CASE Run(w)
  BY <1>1 DEF Run, RunCount, RunInvalid, RunContext, RunUncount, Sched!InferCrash, schedVars
<1>2. CASE RunReturn(w)
  BY <1>2 DEF RunReturn, Sched!RunnerReturn
<1>3. CASE RunnerStep(w)
  BY <1>3 DEF RunnerStep, Sched!ProcessLoop, Sched!RunnerTest, Sched!RunnerPop,
              Sched!Queue!Get, Sched!RunnerPopNull, Sched!RunnerRead, Sched!RunnerInvoke,
              Sched!RunnerReturn, Sched!RunnerComplete
<1> QED
  BY <1>1, <1>2, <1>3

\* The lock discipline of InferAsync against InsertModel, EraseModel and
\* ClearMap, and what Enqueue finds under it.
LEMMA LockStep ==
  ASSUME CInv, [Next]_vars
  PROVE  LockInv'
<1> USE ContextAssumption DEF LockInv, managerVars, callerVars, schedVars
<1>t. TypeOK /\ LockInv /\ OwnerInv
  BY DEF CInv
<1>e. enq \in [Payloads -> {"new", "pushing", "accepted", "rejected", "lost"}]
  BY <1>t DEF TypeOK, Sched!TypeOK
<1>c. call \in [Payloads -> {"new", "found", "nobackend", "returned"}]
  BY <1>t DEF TypeOK
<1>1. ASSUME NEW p \in Payloads, InferFind(p)
      PROVE  LockInv'
  BY <1>t, <1>c, <1>1 DEF InferFind
<1>2. ASSUME NEW p \in Payloads, InferEnqueue(p)
      PROVE  LockInv'
  <2>1. running /\ ~broken /\ mapLock = p /\ listed
    BY <1>t, <1>2 DEF InferEnqueue, OwnerInv
  <2>2. CASE Sched!EnqueueTest(p)
    BY <1>t, <1>e, <1>c, <1>2, <2>1, <2>2 DEF InferEnqueue, Sched!EnqueueTest
  <2>3. CASE Sched!EnqueuePush(p)
    BY <1>t, <1>e, <1>c, <1>2, <2>1, <2>3 DEF InferEnqueue, Sched!EnqueuePush
  <2>4. ~Sched!EnqueueBroken(p)
    BY <2>1 DEF Sched!EnqueueBroken
  <2> QED
    BY <1>2, <2>2, <2>3, <2>4 DEF InferEnqueue, Sched!Enqueue
<1>3. CASE ManagerStep
  <2> USE DEF Sched!queueVars, Sched!ownerVars, Sched!runnerVars
  <2>1. CASE StartScheduler
    BY <1>t, <2>1 DEF StartScheduler, Sched!Start, Sched!SpawnRunner, Sched!StartReturn
  <2>2. CASE InsertModel
    BY <1>t, <2>2 DEF InsertModel
  <2>3. CASE LoadUpdate \/ InstallUpdate \/ ReleaseOldBackend
    BY <1>t, <2>3 DEF LoadUpdate, InstallUpdate, ReleaseOldBackend,
                      Sched!UpdateBackendInferFunc
  <2>4. CASE EraseModel \/ ClearMap
    BY <1>t, <2>4 DEF EraseModel, ClearMap
  <2>5. CASE DestroyBackend \/ Destroyed
    BY <1>t, <2>5 DEF DestroyBackend, Destroyed
  <2>6. CASE StopScheduler
    BY <1>t, <2>6 DEF StopScheduler, Sched!StopCall, Sched!Stop, Sched!StopDrained,
                      Sched!StopClearRunning, Sched!StopBreak, Sched!StopJoined
  <2> QED
    BY <1>3, <2>1, <2>2, <2>3, <2>4, <2>5, <2>6 DEF ManagerStep
<1>4. CASE TimerExpires
  BY <1>t, <1>4 DEF TimerExpires, Sched!TimerExpires
<1>5. ASSUME NEW w \in Runners, Run(w) \/ RunReturn(w) \/ RunnerStep(w)
      PROVE  LockInv'
  BY <1>t, <1>5, RunnerFrame
<1>6. CASE UNCHANGED vars
  BY <1>t, <1>6 DEF vars
<1> QED
  BY <1>1, <1>2, <1>3, <1>4, <1>5, <1>6 DEF Next, Terminated

\* The manager and the scheduler it owns go through their phases together.
LEMMA OwnerStep ==
  ASSUME CInv, [Next]_vars
  PROVE  OwnerInv'
<1> USE ContextAssumption DEF OwnerInv, managerVars, callerVars, schedVars,
        Sched!queueVars, Sched!ownerVars, Sched!runnerVars
<1>t. LockInv /\ OwnerInv
  BY DEF CInv
<1>o. owner \in {"new", "spawning", "started", "draining", "clearing", "breaking",
                 "joining", "stopped"}
  BY DEF CInv, TypeOK, Sched!TypeOK
<1>1. ASSUME NEW p \in Payloads, InferFind(p)
      PROVE  OwnerInv'
  BY <1>t, <1>1 DEF InferFind
<1>2. ASSUME NEW p \in Payloads, InferEnqueue(p)
      PROVE  OwnerInv'
  <2>1. owner = "started"
    BY <1>t, <1>2 DEF InferEnqueue, LockInv
  <2>2. UNCHANGED <<running, broken, owner, mpc>>
    BY <1>2 DEF InferEnqueue, Sched!Enqueue, Sched!EnqueueTest, Sched!EnqueuePush,
                Sched!Queue!Put, Sched!EnqueueBroken
  <2> QED
    BY <1>t, <2>1, <2>2
<1>3. CASE ManagerStep
  <2>1. CASE StartScheduler
    BY <1>t, <2>1 DEF StartScheduler, Sched!Start, Sched!SpawnRunner, Sched!StartReturn
  <2>2. CASE InsertModel \/ LoadUpdate \/ ReleaseOldBackend
    BY <1>t, <2>2 DEF InsertModel, LoadUpdate, ReleaseOldBackend
  <2>3. CASE InstallUpdate
    BY <1>t, <2>3 DEF InstallUpdate, Sched!UpdateBackendInferFunc
  <2>4. CASE EraseModel \/ ClearMap \/ DestroyBackend \/ Destroyed
    BY <1>t, <2>4 DEF EraseModel, ClearMap, DestroyBackend, Destroyed
  <2>5. CASE StopScheduler
    <3>1. CASE Sched!StopCall
      BY <1>t, <2>5, <3>1 DEF StopScheduler, Sched!StopCall
    <3>2. CASE Sched!Stop
      BY <1>t, <1>o, <2>5, <3>2 DEF StopScheduler, Sched!Stop, Sched!StopDrained,
             Sched!StopClearRunning, Sched!StopBreak, Sched!Queue!Close, Sched!StopJoined
    <3> QED
      BY <2>5, <3>1, <3>2 DEF StopScheduler
  <2> QED
    BY <1>3, <2>1, <2>2, <2>3, <2>4, <2>5 DEF ManagerStep
<1>4. CASE TimerExpires
  BY <1>t, <1>4 DEF TimerExpires, Sched!TimerExpires
<1>5. ASSUME NEW w \in Runners, Run(w) \/ RunReturn(w) \/ RunnerStep(w)
      PROVE  OwnerInv'
  BY <1>t, <1>5, RunnerFrame
<1>6. CASE UNCHANGED vars
  BY <1>t, <1>6 DEF vars
<1> QED
  BY <1>1, <1>2, <1>3, <1>4, <1>5, <1>6 DEF Next, Terminated

\* Only the manager makes, swaps and destroys backends.
LEMMA BackendStep ==
  ASSUME CInv, [Next]_vars
  PROVE  BackendInv'
<1> USE ContextAssumption DEF BackendInv, Kept, Backends, managerVars, schedVars,
        Sched!queueVars, Sched!ownerVars, Sched!runnerVars
<1>t. BackendInv
  BY DEF CInv
<1>l. life \in [0 .. MaxUpdates -> {"unborn", "alive", "dead"}] /\ func \in 0 .. MaxUpdates
  BY DEF CInv, TypeOK, Sched!TypeOK
<1>1. ASSUME UNCHANGED <<func, current, life, mpc>>
      PROVE  BackendInv'
  BY <1>t, <1>1
<1>2. ASSUME NEW p \in Payloads, InferFind(p) \/ InferEnqueue(p)
      PROVE  BackendInv'
  BY <1>1, <1>2 DEF InferFind, InferEnqueue, Sched!Enqueue, Sched!EnqueueTest,
                    Sched!EnqueuePush, Sched!EnqueueBroken
<1>3. CASE ManagerStep
  <2>1. CASE StartScheduler
    BY <1>1, <2>1 DEF StartScheduler, Sched!Start, Sched!SpawnRunner, Sched!StartReturn
  <2>2. CASE InsertModel
    BY <1>t, <2>2 DEF InsertModel
  <2>3. CASE LoadUpdate
    BY <1>t, <1>l, <2>3 DEF LoadUpdate
  <2>4. CASE InstallUpdate
    BY <1>t, <1>l, <2>4 DEF InstallUpdate, Sched!UpdateBackendInferFunc
  <2>5. CASE ReleaseOldBackend
    BY <1>t, <1>l, <2>5 DEF ReleaseOldBackend
  <2>6. CASE EraseModel \/ ClearMap
    BY <1>t, <2>6 DEF EraseModel, ClearMap
  <2>7. CASE DestroyBackend
    BY <1>t, <1>l, <2>7 DEF DestroyBackend
  <2>8. CASE StopScheduler
    BY <1>1, <2>8 DEF StopScheduler, Sched!StopCall, Sched!Stop, Sched!StopDrained,
                      Sched!StopClearRunning, Sched!StopBreak, Sched!StopJoined
  <2>9. CASE Destroyed
    BY <1>t, <2>9 DEF Destroyed
  <2> QED
    BY <1>3, <2>1, <2>2, <2>3, <2>4, <2>5, <2>6, <2>7, <2>8, <2>9 DEF ManagerStep
<1>4. CASE TimerExpires
  BY <1>1, <1>4 DEF TimerExpires, Sched!TimerExpires
<1>5. ASSUME NEW w \in Runners, Run(w) \/ RunReturn(w) \/ RunnerStep(w)
      PROVE  BackendInv'
  BY <1>1, <1>5, RunnerFrame
<1>6. CASE UNCHANGED vars
  BY <1>1, <1>6 DEF vars
<1> QED
  BY <1>2, <1>3, <1>4, <1>5, <1>6 DEF Next, Terminated

\* The installed backend is alive until the model is removed, so that a runner
\* that is bound to it can only read past the end of contexts_; and the first
\* backend has a context for each runner.
LEMMA InstalledIsAlive ==
  ASSUME CInv, Standing, NEW w \in Runners, bound[w] = func, BadAccess(w)
  PROVE  w = NumContexts[func]
<1>1. func \in Backends
  BY DEF CInv, TypeOK, Sched!TypeOK, Backends
<1>2. life[func] = "alive"
  BY <1>1 DEF CInv, BackendInv, Kept, Standing
<1> QED
  BY <1>2 DEF BadAccess

LEMMA NoBadAccess ==
  ASSUME CInv, func = 0, Standing, NEW w \in Runners
  PROVE  ~BadAccess(w)
<1>1. bound[w] = 0
  BY DEF CInv, BoundInv, TypeOK, Sched!TypeOK, Runners
<1>2. w < NumContexts[0] /\ w \in Nat /\ NumContexts[0] \in Nat
  BY ContextAssumption DEF Runners, Sched!Runners
<1> QED
  BY <1>1, <1>2, InstalledIsAlive

\* A runner reads the function installed at that moment, and the number of
\* that function only grows.
LEMMA BoundStep ==
  ASSUME CInv, [Next]_vars
  PROVE  BoundInv'
<1> USE ContextAssumption DEF BoundInv, Standing, managerVars, callerVars, schedVars,
        Sched!queueVars, Sched!ownerVars, Sched!runnerVars
<1>t. BoundInv
  BY DEF CInv
<1>b. bound \in [Runners -> 0 .. MaxUpdates] /\ func \in 0 .. MaxUpdates
  BY DEF CInv, TypeOK, Sched!TypeOK, Runners
<1>1. ASSUME UNCHANGED <<bound, func, mpc, crashed>>
      PROVE  BoundInv'
  BY <1>t, <1>1
<1>2. ASSUME NEW p \in Payloads, InferFind(p) \/ InferEnqueue(p)
      PROVE  BoundInv'
  BY <1>1, <1>2 DEF InferFind, InferEnqueue, Sched!Enqueue, Sched!EnqueueTest,
                    Sched!EnqueuePush, Sched!EnqueueBroken
<1>3. CASE ManagerStep
  <2>1. CASE StartScheduler
    BY <1>1, <2>1 DEF StartScheduler, Sched!Start, Sched!SpawnRunner, Sched!StartReturn
  <2>2. CASE InsertModel \/ LoadUpdate
    BY <1>t, <2>2 DEF InsertModel, LoadUpdate
  <2>3. CASE InstallUpdate
    <3>1. func' = func + 1 /\ mpc' = "installed" /\ bound' = bound
      BY <2>3 DEF InstallUpdate, Sched!UpdateBackendInferFunc
    <3> QED
      BY <1>t, <1>b, <3>1
  <2>4. CASE ReleaseOldBackend
    <3>1. func' > 0 /\ bound' = bound /\ func' = func
      BY <2>4 DEF ReleaseOldBackend, CInv, BackendInv
    <3> QED
      BY <1>t, <1>b, <3>1
  <2>5. CASE EraseModel \/ ClearMap \/ DestroyBackend \/ Destroyed
    BY <1>t, <2>5 DEF EraseModel, ClearMap, DestroyBackend, Destroyed
  <2>6. CASE StopScheduler
    BY <1>1, <2>6 DEF StopScheduler, Sched!StopCall, Sched!Stop, Sched!StopDrained,
                      Sched!StopClearRunning, Sched!StopBreak, Sched!StopJoined
  <2> QED
    BY <1>3, <2>1, <2>2, <2>3, <2>4, <2>5, <2>6 DEF ManagerStep
<1>4. CASE TimerExpires
  BY <1>1, <1>4 DEF TimerExpires, Sched!TimerExpires
<1>5. ASSUME NEW w \in Runners, Run(w)
      PROVE  BoundInv'
  <2>1. CASE BadAccess(w) /\ Sched!InferCrash(w)
    <3>1. UNCHANGED <<bound, func, mpc>>
      BY <1>5, <2>1, RunnerFrame DEF Sched!InferCrash
    <3>2. ~(func = 0 /\ Standing)
      BY <2>1, NoBadAccess DEF Standing
    <3> QED
      BY <1>t, <3>1, <3>2
  <2> QED
    BY <1>1, <1>5, <2>1 DEF Run, RunCount, RunInvalid, RunContext, RunUncount
<1>6. ASSUME NEW w \in Runners, RunReturn(w) \/ RunnerStep(w)
      PROVE  BoundInv'
  <2>1. UNCHANGED <<func, mpc>>
    BY <1>6, RunnerFrame
  <2>2. bound' = bound \/ bound' = [bound EXCEPT ![w] = func]
    BY <1>6 DEF RunReturn, RunnerStep, Sched!ProcessLoop, Sched!RunnerTest,
                Sched!RunnerPop, Sched!RunnerPopNull, Sched!RunnerRead,
                Sched!RunnerInvoke, Sched!RunnerReturn, Sched!RunnerComplete
  <2>3. crashed' = crashed \/ bound[w] # func
    BY <1>6 DEF RunReturn, RunnerStep, Sched!ProcessLoop, Sched!RunnerTest,
                Sched!RunnerPop, Sched!RunnerPopNull, Sched!RunnerRead,
                Sched!RunnerInvoke, Sched!RunnerReturn, Sched!RunnerComplete
  <2>4. \A v \in Runners : bound'[v] <= func'
    <3>1. \A v \in Runners : bound[v] <= func
      BY <1>t
    <3> QED
      BY <1>b, <2>1, <2>2, <3>1
  <2>5. func = 0 => bound[w] = func
    BY <1>t, <1>b
  <2> QED
    BY <1>t, <2>1, <2>3, <2>4, <2>5
<1>7. CASE UNCHANGED vars
  BY <1>1, <1>7 DEF vars
<1> QED
  BY <1>2, <1>3, <1>4, <1>5, <1>6, <1>7 DEF Next, Terminated

\* Outside the runners' own steps nothing that Run depends on changes, except
\* that Start creates a runner.
LEMMA OthersFrame ==
  ASSUME CInv, [Next]_vars,
         ~ \E w \in Runners : Run(w) \/ RunReturn(w) \/ RunnerStep(w)
  PROVE  /\ UNCHANGED <<rpc, bound, counter>>
         /\ wpc' = wpc \/ \E w \in Runners : wpc[w] = "unborn" /\ wpc' = [wpc EXCEPT ![w] = "test"]
<1> USE DEF managerVars, callerVars, backendVars, schedVars,
        Sched!queueVars, Sched!ownerVars, Sched!runnerVars
<1>1. ASSUME NEW p \in Payloads, InferFind(p) \/ InferEnqueue(p)
      PROVE  UNCHANGED <<rpc, bound, counter, wpc>>
  BY <1>1 DEF InferFind, InferEnqueue, Sched!Enqueue, Sched!EnqueueTest,
              Sched!EnqueuePush, Sched!EnqueueBroken
<1>2. CASE StartScheduler
  BY <1>2 DEF StartScheduler, Sched!Start, Sched!SpawnRunner, Sched!StartReturn
<1>3. CASE InsertModel \/ LoadUpdate \/ InstallUpdate \/ ReleaseOldBackend
  BY <1>3 DEF InsertModel, LoadUpdate, InstallUpdate, ReleaseOldBackend,
              Sched!UpdateBackendInferFunc
<1>4. CASE EraseModel \/ ClearMap \/ DestroyBackend \/ Destroyed
  BY <1>4 DEF EraseModel, ClearMap, DestroyBackend, Destroyed
<1>5. CASE StopScheduler
  BY <1>5 DEF StopScheduler, Sched!StopCall, Sched!Stop, Sched!StopDrained,
              Sched!StopClearRunning, Sched!StopBreak, Sched!StopJoined
<1>6. CASE TimerExpires
  BY <1>6 DEF TimerExpires, Sched!TimerExpires
<1>7. CASE UNCHANGED vars
  BY <1>7 DEF vars
<1> QED
  BY <1>1, <1>2, <1>3, <1>4, <1>5, <1>6, <1>7 DEF Next, ManagerStep, Terminated

\* The loop outside Run changes the runner's own place only, and rebinds it
\* only while it is not in Run.
LEMMA LoopFrame ==
  ASSUME NEW w \in Runners, RunnerStep(w), TypeOK
  PROVE  /\ wpc[w] # "infer"
         /\ UNCHANGED <<rpc, counter>>
         /\ \A v \in Runners : v # w => wpc'[v] = wpc[v] /\ bound'[v] = bound[v]
<1>1. wpc \in [Runners -> {"unborn", "test", "pop", "read", "invoke", "infer",
                           "complete", "exited"}]
      /\ bound \in [Runners -> 0 .. MaxUpdates]
  BY DEF TypeOK, Sched!TypeOK, Runners
<1> QED
  BY <1>1 DEF RunnerStep, Sched!ProcessLoop, Sched!RunnerTest, Sched!RunnerPop,
              Sched!RunnerPopNull, Sched!RunnerRead, Sched!RunnerInvoke,
              Sched!RunnerReturn, Sched!RunnerComplete, backendVars

\* A runner enters Run from the call of its infer function and leaves it
\* before that call returns.
LEMMA RunStep ==
  ASSUME CInv, [Next]_vars
  PROVE  RunInv'
<1>t. /\ RunInv
      /\ wpc \in [Runners -> {"unborn", "test", "pop", "read", "invoke", "infer",
                              "complete", "exited"}]
      /\ rpc \in [Runners -> {"out", "check", "context", "done"}]
  BY DEF CInv, TypeOK, Sched!TypeOK, Runners
<1>1. ASSUME NEW w \in Runners, Run(w)
      PROVE  RunInv'
  BY <1>1, <1>t DEF RunInv, Run, RunCount, RunInvalid, RunContext, RunUncount,
                    Sched!InferCrash, backendVars, schedVars
<1>2. ASSUME NEW w \in Runners, RunReturn(w)
      PROVE  RunInv'
  BY <1>2, <1>t DEF RunInv, RunReturn, Sched!RunnerReturn
<1>3. ASSUME NEW w \in Runners, RunnerStep(w)
      PROVE  RunInv'
  BY <1>3, <1>t, LoopFrame DEF RunInv, CInv
<1>4. CASE ~ \E w \in Runners : Run(w) \/ RunReturn(w) \/ RunnerStep(w)
  BY <1>4, <1>t, OthersFrame DEF RunInv
<1> QED
  BY <1>1, <1>2, <1>3, <1>4

\* Run keeps its count: an increment when a runner gets in, a decrement or
\* none when it gets out.
LEMMA CounterStep ==
  ASSUME CInv, [Next]_vars
  PROVE  counter' \in [Backends -> Nat] /\ CounterCoversRunners'
<1>t. /\ CounterCoversRunners
      /\ counter \in [Backends -> Nat]
      /\ rpc \in [Runners -> {"out", "check", "context", "done"}]
      /\ bound \in [Runners -> Backends]
      /\ RunInv
  BY DEF CInv, TypeOK, Sched!TypeOK, Runners, Backends
<1>f. ASSUME NEW k \in Backends
      PROVE  IsFiniteSet(Inside(k)) /\ Cardinality(Inside(k)) \in Nat
  <2>1. IsFiniteSet(Runners)
    BY ContextAssumption, FS_Interval DEF Runners, Sched!Runners
  <2>2. Inside(k) \in SUBSET Runners
    BY DEF Inside
  <2> QED
    BY <2>1, <2>2, FS_Subset, FS_CardinalityType
<1>1. ASSUME counter' = counter,
             \A k \in Backends : Inside(k)' = Inside(k)
      PROVE  counter' \in [Backends -> Nat] /\ CounterCoversRunners'
  BY <1>1, <1>t DEF CounterCoversRunners
<1>2. ASSUME NEW w \in Runners, RunCount(w)
      PROVE  counter' \in [Backends -> Nat] /\ CounterCoversRunners'
  <2>b. PICK b \in Backends : b = bound[w]
    BY <1>t
  <2>1. bound' = bound /\ w \notin Inside(b)
    BY <1>2, <1>t, <2>b DEF RunCount, schedVars, Inside
  <2>2. counter' \in [Backends -> Nat] /\ counter'[b] = counter[b] + 1
        /\ \A k \in Backends \ {b} : counter'[k] = counter[k]
    BY <1>2, <1>t, <2>b, <2>1 DEF RunCount
  <2>3. Inside(b)' = Inside(b) \cup {w}
        /\ \A k \in Backends \ {b} : Inside(k)' = Inside(k)
    BY <1>2, <1>t, <2>b, <2>1 DEF RunCount, Inside
  <2>4. Cardinality(Inside(b) \cup {w}) = Cardinality(Inside(b)) + 1
    BY <1>f, <2>1, FS_AddElement
  <2> QED
    BY <1>t, <1>f, <2>1, <2>2, <2>3, <2>4 DEF CounterCoversRunners
<1>3. ASSUME NEW w \in Runners, RunInvalid(w) \/ RunUncount(w)
      PROVE  counter' \in [Backends -> Nat] /\ CounterCoversRunners'
  <2>b. PICK b \in Backends : b = bound[w]
    BY <1>t
  <2>1. bound' = bound /\ w \in Inside(b)
    BY <1>3, <1>t, <2>b DEF RunInvalid, RunUncount, schedVars, Inside
  <2>2. Inside(b)' = Inside(b) \ {w}
        /\ \A k \in Backends \ {b} : Inside(k)' = Inside(k)
    BY <1>3, <1>t, <2>b, <2>1 DEF RunInvalid, RunUncount, Inside
  <2>3. Cardinality(Inside(b) \ {w}) = Cardinality(Inside(b)) - 1
    BY <1>f, <2>1, FS_RemoveElement
  <2>4. Cardinality(Inside(b) \ {w}) \in Nat
    BY <1>f, <2>1, FS_RemoveElement, FS_CardinalityType
  <2>5. counter[b] \in Nat /\ Cardinality(Inside(b)) <= counter[b]
    BY <1>t, <2>1 DEF CounterCoversRunners
  <2>6. counter[b] - 1 \in Nat
    BY <1>f, <2>1, <2>3, <2>4, <2>5
  <2>7. counter' \in [Backends -> Nat] /\ counter'[b] \in {counter[b], counter[b] - 1}
        /\ \A k \in Backends \ {b} : counter'[k] = counter[k]
    BY <1>3, <1>t, <2>b, <2>6 DEF RunInvalid, RunUncount
  <2> QED
    BY <1>t, <1>f, <2>1, <2>2, <2>3, <2>5, <2>7 DEF CounterCoversRunners
<1>4. ASSUME NEW w \in Runners,
             RunContext(w) \/ (Sched!InferCrash(w) /\ UNCHANGED backendVars) \/ RunReturn(w)
      PROVE  counter' \in [Backends -> Nat] /\ CounterCoversRunners'
  <2>1. counter' = counter /\ bound' = bound
    BY <1>4 DEF RunContext, RunReturn, Sched!InferCrash, Sched!RunnerReturn, schedVars, backendVars
  <2>2. \A k \in Backends : Inside(k)' = Inside(k)
    BY <1>4, <1>t, <2>1 DEF RunContext, RunReturn, Inside, backendVars
  <2> QED
    BY <1>1, <2>1, <2>2
<1>5. ASSUME NEW w \in Runners, RunnerStep(w)
      PROVE  counter' \in [Backends -> Nat] /\ CounterCoversRunners'
  <2>1. rpc[w] = "out" /\ counter' = counter /\ rpc' = rpc
        /\ \A v \in Runners : v # w => bound'[v] = bound[v]
    BY <1>5, <1>t, LoopFrame DEF RunInv, CInv
  <2>2. \A k \in Backends : Inside(k)' = Inside(k)
    BY <2>1 DEF Inside
  <2> QED
    BY <1>1, <2>1, <2>2
<1>6. CASE ~ \E w \in Runners : Run(w) \/ RunReturn(w) \/ RunnerStep(w)
  BY <1>1, <1>6, OthersFrame DEF Inside
<1> QED
  BY <1>2, <1>3, <1>4, <1>5, <1>6 DEF Run

\* The types of the state around the scheduler; the counters are CounterStep's.
LEMMA TypeStep ==
  ASSUME CInv, SP!IInv', [Next]_vars
  PROVE  TypeOK'
<1> USE ContextAssumption DEF managerVars, callerVars, backendVars, schedVars
<1>t. TypeOK /\ BackendInv'
  BY BackendStep DEF CInv
<1>1. Sched!TypeOK'
  BY DEF SP!IInv, SP!TypeOK, Sched!TypeOK, SP!Runners, Sched!Runners
<1>2. current' \in Backends
  BY <1>1, <1>t DEF BackendInv, Sched!TypeOK, Backends
<1>3. counter' \in [Backends -> Nat]
  BY CounterStep
<1> DEFINE AroundOK ==
      /\ mapLock \in Payloads \cup {Manager, None}
      /\ listed \in BOOLEAN
      /\ mpc \in {"starting", "idle", "loaded", "installed", "erased", "stopping", "gone"}
      /\ call \in [Payloads -> {"new", "found", "nobackend", "returned"}]
      /\ life \in [Backends -> {"unborn", "alive", "dead"}]
      /\ rpc \in [Runners -> {"out", "check", "context", "done"}]
<1>a. AroundOK
  BY <1>t DEF TypeOK
<1>4. ASSUME NEW p \in Payloads, InferFind(p) \/ InferEnqueue(p)
      PROVE  AroundOK'
  BY <1>a, <1>4 DEF InferFind, InferEnqueue
<1>5. ASSUME ManagerStep
      PROVE  AroundOK'
  <2>1. CASE StartScheduler \/ InsertModel \/ StopScheduler \/ Destroyed
    BY <1>a, <2>1 DEF StartScheduler, InsertModel, StopScheduler, Destroyed
  <2>2. CASE LoadUpdate \/ InstallUpdate \/ ReleaseOldBackend
    BY <1>a, <2>2 DEF LoadUpdate, InstallUpdate, ReleaseOldBackend
  <2>3. CASE EraseModel \/ ClearMap \/ DestroyBackend
    BY <1>a, <2>3 DEF EraseModel, ClearMap, DestroyBackend
  <2> QED
    BY <1>5, <2>1, <2>2, <2>3 DEF ManagerStep
<1>6. ASSUME TimerExpires
      PROVE  AroundOK'
  BY <1>a, <1>6 DEF TimerExpires
<1>7. ASSUME NEW w \in Runners, Run(w) \/ RunReturn(w) \/ RunnerStep(w)
      PROVE  AroundOK'
  BY <1>a, <1>7 DEF Run, RunCount, RunInvalid, RunContext, RunUncount, RunReturn, RunnerStep
<1>8. ASSUME UNCHANGED vars
      PROVE  AroundOK'
  BY <1>a, <1>8 DEF vars
<1>9. AroundOK'
  BY <1>4, <1>5, <1>6, <1>7, <1>8 DEF Next, Terminated
<1> QED
  BY <1>1, <1>2, <1>3, <1>9 DEF TypeOK

\* The entry as LoadModels creates it satisfies CInv.
LEMMA InitInv == Init => CInv
<1> SUFFICES ASSUME Init
             PROVE  CInv
  OBVIOUS
<1> USE ContextAssumption DEF Init, Sched!Init, Runners, Sched!Runners, Backends
<1>1. TypeOK
  <2>1. SP!SchedulerAssumption
    BY DEF SP!SchedulerAssumption
  <2>2. SP!IInv
    BY <2>1, SameScheduler, SP!InitInv
  <2>3. Sched!TypeOK
    BY <2>2 DEF SP!IInv, SP!TypeOK, Sched!TypeOK, SP!Runners
  <2>4. 0 \in Backends
    OBVIOUS
  <2>5. /\ life \in [Backends -> {"unborn", "alive", "dead"}]
        /\ counter \in [Backends -> Nat]
        /\ rpc \in [Runners -> {"out", "check", "context", "done"}]
        /\ call \in [Payloads -> {"new", "found", "nobackend", "returned"}]
    OBVIOUS
  <2> QED
    BY <2>3, <2>4, <2>5 DEF TypeOK
<1>2. LockInv
  BY DEF LockInv
<1>3. OwnerInv
  BY DEF OwnerInv
<1>4. BackendInv
  BY DEF BackendInv, Kept
<1>5. BoundInv /\ RunInv
  BY DEF BoundInv, RunInv
<1>6. CounterCoversRunners
  <2>1. \A k \in Backends : Inside(k) = {}
    BY DEF Inside
  <2>2. ASSUME NEW k \in Backends
        PROVE  Cardinality(Inside(k)) <= counter[k]
    <3>1. Cardinality(Inside(k)) = 0 /\ counter[k] = 0
      BY <2>1, FS_EmptySet
    <3> QED
      BY <3>1
  <2> QED
    BY <2>2 DEF CounterCoversRunners
<1> QED
  BY <1>1, <1>2, <1>3, <1>4, <1>5, <1>6 DEF CInv

-----------------------------------------------------------------------------

\* CInv holds in every state of the composition.
THEOREM InductiveInvariant == Spec => []CInv
<1>1. CInv /\ SP!IInv' /\ [Next]_vars => CInv'
  <2> SUFFICES ASSUME CInv, SP!IInv', [Next]_vars
               PROVE  CInv'
    OBVIOUS
  <2>1. LockInv' /\ OwnerInv'
    BY LockStep, OwnerStep
  <2>2. BackendInv' /\ BoundInv'
    BY BackendStep, BoundStep
  <2>3. RunInv' /\ CounterCoversRunners'
    BY RunStep, CounterStep
  <2>4. TypeOK'
    BY TypeStep
  <2> QED
    BY <2>1, <2>2, <2>3, <2>4 DEF CInv
<1> QED
  BY <1>1, InitInv, ProvedOfScheduler, PTL DEF Spec

\* Every variable keeps its type; in particular no counter of running
\* inferences ever goes below zero.
THEOREM TypeCorrect == Spec => []TypeOK
<1>1. CInv => TypeOK
  BY DEF CInv
<1> QED
  BY <1>1, InductiveInvariant, PTL

\* Because InferAsync keeps model_map_mu_ until Enqueue returns, no request is
\* turned away or dropped by a scheduler that is being stopped.
THEOREM LockedEnqueue == Spec => []EnqueueNeverMeetsStop
<1>1. CInv => EnqueueNeverMeetsStop
  BY DEF CInv, EnqueueNeverMeetsStop, LockInv, OwnerInv
<1> QED
  BY <1>1, InductiveInvariant, PTL

\* A removed model whose drain did not time out has answered every request it
\* ever took.
THEOREM RemovalAnswersAll == Spec => []DrainedRemovalAnswersAll
<1>1. CInv /\ SP!DrainedStopCompletesAll => DrainedRemovalAnswersAll
  BY DEF CInv, SP!DrainedStopCompletesAll, DrainedRemovalAnswersAll, LockInv, OwnerInv
<1> QED
  BY <1>1, InductiveInvariant, ProvedOfScheduler, PTL

\* Updates and removal leave no backend behind, however many there are.
THEOREM BackendsReleased == Spec => []NoBackendLeak
<1>1. CInv => NoBackendLeak
  <2> SUFFICES ASSUME CInv
               PROVE  NoBackendLeak
    OBVIOUS
  <2>1. current = func /\ Alive = Kept \cap Backends /\ func \in Backends
    BY DEF CInv, BackendInv, Alive, TypeOK, Sched!TypeOK, Backends
  <2> QED
    BY <2>1 DEF NoBackendLeak, Kept
<1> QED
  BY <1>1, InductiveInvariant, PTL

\* Through any reloads, a runner of the installed function touches only what is
\* there unless its idx is contexts_.size(), which without reloads none is.
THEOREM InstalledSafe == Spec => []InstalledFunctionIsSafe
<1>1. CInv => InstalledFunctionIsSafe
  <2> SUFFICES ASSUME CInv, Standing
               PROVE  /\ \A w \in Runners : bound[w] = func /\ BadAccess(w) => w = NumContexts[func]
                      /\ func = 0 => ~crashed /\ \A w \in Runners : ~BadAccess(w)
    BY DEF InstalledFunctionIsSafe, CInv, TypeOK, Standing
  <2>1. \A w \in Runners : bound[w] = func /\ BadAccess(w) => w = NumContexts[func]
    BY InstalledIsAlive
  <2>2. func = 0 => ~crashed /\ \A w \in Runners : ~BadAccess(w)
    BY NoBadAccess DEF CInv, BoundInv
  <2> QED
    BY <2>1, <2>2
<1> QED
  BY <1>1, InductiveInvariant, PTL
=============================================================================
