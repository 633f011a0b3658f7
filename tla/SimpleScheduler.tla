--------------------------- MODULE SimpleScheduler ---------------------------
(***************************************************************************)
(* class SimpleScheduler of core/scheduler: a queue of payloads and        *)
(* total_runners_ threads that pop them one at a time, call the backend's  *)
(* infer function and complete the payload.                                *)
(*                                                                         *)
(* Three kinds of threads meet here.  Callers run Enqueue, each for one    *)
(* payload.  The runners run ProcessLoop.  The owner is the thread that    *)
(* constructs the scheduler, calls Start, replaces the infer function when *)
(* the model is reloaded, and calls Stop (from the destructor).  Steps end *)
(* where another thread can notice: at every access to running_, to the    *)
(* queue or to infer_func_, and at the joins.                              *)
(*                                                                         *)
(* The queue is used through BoundedFifo, which BlockingQueue implements.  *)
(***************************************************************************)
EXTENDS Naturals, Sequences, FiniteSets

CONSTANTS
    Payloads,       \* the requests; each is enqueued at most once
    TotalRunners,   \* total_runners_
    MaxQueueSize,   \* scheduler_config.max_queue_size_
    MaxUpdates,     \* bound: how many times infer_func_ is replaced
    None            \* no payload

ASSUME SchedulerAssumption ==
    /\ TotalRunners \in Nat
    /\ MaxQueueSize \in Nat
    /\ MaxUpdates \in Nat
    /\ None \notin Payloads

\* The idx that ProcessLoop gets.
Runners == 0 .. (TotalRunners - 1)

VARIABLES
    running,    \* running_
    buffer,     \* queue_.buffer_
    broken,     \* queue_.broken_
    func,       \* infer_func_: the number of the function object installed
    owner,      \* where the owner is in Start and Stop
    expired,    \* Stop's timer has passed MAX_SCHEDULER_DEPLETION_WAIT_TIME
    enq,        \* of every payload: how far its Enqueue call has got
    wpc,        \* of every runner: where it is in ProcessLoop
    held,       \* of every runner: infer_payload, the payload it has popped
    bound,      \* of every runner: the function object it has read to call
    answers,    \* of every payload: how many times it was completed
    waitedFor,  \* history: the payloads already enqueued when Stop was called
    crashed     \* undefined behaviour has brought the process down

queueVars  == <<buffer, broken>>
ownerVars  == <<running, func, owner, expired, waitedFor>>
runnerVars == <<wpc, held, bound, answers, crashed>>
schedVars  == <<running, buffer, broken, func, owner, expired, enq, wpc, held,
                bound, answers, waitedFor, crashed>>

Queue == INSTANCE BoundedFifo
            WITH queue <- buffer, closed <- broken,
                 Items <- Payloads, Capacity <- MaxQueueSize

\* The payloads still in the queue.
Queued == {buffer[i] : i \in DOMAIN buffer}

-----------------------------------------------------------------------------

Init ==
    /\ running = FALSE
    /\ buffer = <<>>
    /\ broken = FALSE
    /\ func = 0
    /\ owner = "new"
    /\ expired = FALSE
    /\ enq = [p \in Payloads |-> "new"]
    /\ wpc = [w \in Runners |-> "unborn"]
    /\ held = [w \in Runners |-> None]
    /\ bound = [w \in Runners |-> 0]
    /\ answers = [p \in Payloads |-> 0]
    /\ waitedFor = {}
    /\ crashed = FALSE

(***************************************************************************)
(* Enqueue: running_ is tested first and the push comes later, so Stop can *)
(* run in between.  push drops the payload when the queue is broken and    *)
(* Enqueue returns Success all the same: that payload is "lost".           *)
(***************************************************************************)
EnqueueTest(p) ==
    /\ enq[p] = "new"
    /\ enq' = [enq EXCEPT ![p] = IF running THEN "pushing" ELSE "rejected"]
    /\ UNCHANGED <<queueVars, ownerVars, runnerVars>>

EnqueuePush(p) ==
    /\ enq[p] = "pushing"
    /\ Queue!Put(p)
    /\ enq' = [enq EXCEPT ![p] = "accepted"]
    /\ UNCHANGED <<ownerVars, runnerVars>>

\* Slip: push waits for room without looking at broken_.
EnqueueBroken_OnlyRoom(p) ==
    /\ enq[p] = "pushing"
    /\ broken
    /\ Len(buffer) < MaxQueueSize
    /\ enq' = [enq EXCEPT ![p] = "lost"]
    /\ UNCHANGED <<queueVars, ownerVars, runnerVars>>

EnqueueBroken(p) ==
    /\ enq[p] = "pushing"
    /\ broken
    /\ enq' = [enq EXCEPT ![p] = "lost"]
    /\ UNCHANGED <<queueVars, ownerVars, runnerVars>>

Enqueue(p) == EnqueueTest(p) \/ EnqueuePush(p) \/ EnqueueBroken(p)

(***************************************************************************)
(* Start: running_ is set before the threads exist; they are created in    *)
(* the order of their idx.                                                 *)
(***************************************************************************)
Start ==
    /\ owner = "new"
    /\ ~running
    /\ running' = TRUE
    /\ owner' = "spawning"
    /\ UNCHANGED <<queueVars, runnerVars, func, expired, enq, waitedFor>>

SpawnRunner(w) ==
    /\ owner = "spawning"
    /\ wpc[w] = "unborn"
    /\ \A v \in Runners : v < w => wpc[v] # "unborn"
    /\ wpc' = [wpc EXCEPT ![w] = "test"]
    /\ UNCHANGED <<queueVars, ownerVars, enq, held, bound, answers, crashed>>

StartReturn ==
    /\ owner = "spawning"
    /\ \A w \in Runners : wpc[w] # "unborn"
    /\ owner' = "started"
    /\ UNCHANGED <<queueVars, runnerVars, running, func, expired, enq, waitedFor>>

\* The assignment installs a copy of the new function object and destroys
\* the old one, which lives on the heap, before infer_func_mu_ is released.
UpdateBackendInferFunc ==
    /\ owner = "started"
    /\ func < MaxUpdates
    /\ func' = func + 1
    /\ UNCHANGED <<queueVars, runnerVars, running, owner, expired, enq, waitedFor>>

(***************************************************************************)
(* Stop: poll the queue until it is empty or the timer has run out, clear  *)
(* running_, break the queue, join the runners.  How long an inference     *)
(* takes is up to the backend, so the timer may run out at any poll.       *)
(***************************************************************************)
StopCall ==
    /\ owner = "started"
    /\ running
    /\ owner' = "draining"
    /\ waitedFor' = {p \in Payloads : enq[p] = "accepted"}
    /\ UNCHANGED <<queueVars, runnerVars, running, func, expired, enq>>

TimerExpires ==
    /\ owner = "draining"
    /\ ~expired
    /\ expired' = TRUE
    /\ UNCHANGED <<queueVars, runnerVars, running, func, owner, enq, waitedFor>>

\* Slip: Stop does not wait for the queue to be empty.
StopDrained_NoWait ==
    /\ owner = "draining"
    /\ owner' = "clearing"
    /\ UNCHANGED <<queueVars, runnerVars, running, func, expired, enq, waitedFor>>

StopDrained ==
    /\ owner = "draining"
    /\ buffer = <<>> \/ expired
    /\ owner' = "clearing"
    /\ UNCHANGED <<queueVars, runnerVars, running, func, expired, enq, waitedFor>>

StopClearRunning ==
    /\ owner = "clearing"
    /\ running' = FALSE
    /\ owner' = "breaking"
    /\ UNCHANGED <<queueVars, runnerVars, func, expired, enq, waitedFor>>

StopBreak ==
    /\ owner = "breaking"
    /\ Queue!Close
    /\ owner' = "joining"
    /\ UNCHANGED <<runnerVars, running, func, expired, enq, waitedFor>>

\* Slip: the threads are detached, not joined.
StopJoined_Detached ==
    /\ owner = "joining"
    /\ owner' = "stopped"
    /\ UNCHANGED <<queueVars, runnerVars, running, func, expired, enq, waitedFor>>

StopJoined ==
    /\ owner = "joining"
    /\ \A w \in Runners : wpc[w] = "exited"
    /\ owner' = "stopped"
    /\ UNCHANGED <<queueVars, runnerVars, running, func, expired, enq, waitedFor>>

Stop == StopDrained \/ StopClearRunning \/ StopBreak \/ StopJoined

(***************************************************************************)
(* ProcessLoop.  infer_func_ is copied under infer_func_mu_, but the copy  *)
(* is never used: what is called is the member, read once more without the *)
(* mutex.  RunnerRead is that read, RunnerInvoke the use of what was read. *)
(* The status the function returns only selects the message given to       *)
(* OnInferCompleted, so both outcomes take the same steps.                 *)
(***************************************************************************)
RunnerTest(w) ==
    /\ wpc[w] = "test"
    /\ wpc' = [wpc EXCEPT ![w] = IF running THEN "pop" ELSE "exited"]
    /\ UNCHANGED <<queueVars, ownerVars, enq, held, bound, answers, crashed>>

RunnerPop(w) ==
    /\ wpc[w] = "pop"
    /\ Queue!Get
    /\ held' = [held EXCEPT ![w] = Head(buffer)]
    /\ wpc' = [wpc EXCEPT ![w] = "read"]
    /\ UNCHANGED <<ownerVars, enq, bound, answers, crashed>>

\* pop on a broken queue returns nullptr: continue.
RunnerPopNull(w) ==
    /\ wpc[w] = "pop"
    /\ broken
    /\ wpc' = [wpc EXCEPT ![w] = "test"]
    /\ UNCHANGED <<queueVars, ownerVars, enq, held, bound, answers, crashed>>

RunnerRead(w) ==
    /\ wpc[w] = "read"
    /\ bound' = [bound EXCEPT ![w] = func]
    /\ wpc' = [wpc EXCEPT ![w] = "invoke"]
    /\ UNCHANGED <<queueVars, ownerVars, enq, held, answers, crashed>>

\* A function object that was destroyed since it was read is freed memory:
\* it still holds the old function, or the process crashes.
RunnerInvoke(w) ==
    /\ wpc[w] = "invoke"
    /\ \/ /\ wpc' = [wpc EXCEPT ![w] = "infer"]
          /\ UNCHANGED crashed
       \/ /\ bound[w] # func
          /\ crashed' = TRUE
          /\ UNCHANGED wpc
    /\ UNCHANGED <<queueVars, ownerVars, enq, held, bound, answers>>

\* Slip: a failed inference continues the loop without completing the payload.
RunnerReturn_Continue(w) ==
    /\ wpc[w] = "infer"
    /\ \/ /\ wpc' = [wpc EXCEPT ![w] = "complete"]
          /\ UNCHANGED held
       \/ /\ wpc' = [wpc EXCEPT ![w] = "test"]
          /\ held' = [held EXCEPT ![w] = None]
    /\ UNCHANGED <<queueVars, ownerVars, enq, bound, answers, crashed>>

RunnerReturn(w) ==
    /\ wpc[w] = "infer"
    /\ wpc' = [wpc EXCEPT ![w] = "complete"]
    /\ UNCHANGED <<queueVars, ownerVars, enq, held, bound, answers, crashed>>

\* The function is the backend's: what it does wrong can end the process.
InferCrash(w) ==
    /\ wpc[w] = "infer"
    /\ crashed' = TRUE
    /\ UNCHANGED <<queueVars, ownerVars, enq, wpc, held, bound, answers>>

\* Slip: the loop is left after the first payload.
RunnerComplete_Break(w) ==
    /\ wpc[w] = "complete"
    /\ answers' = [answers EXCEPT ![held[w]] = @ + 1]
    /\ held' = [held EXCEPT ![w] = None]
    /\ wpc' = [wpc EXCEPT ![w] = "exited"]
    /\ UNCHANGED <<queueVars, ownerVars, enq, bound, crashed>>

RunnerComplete(w) ==
    /\ wpc[w] = "complete"
    /\ answers' = [answers EXCEPT ![held[w]] = @ + 1]
    /\ held' = [held EXCEPT ![w] = None]
    /\ wpc' = [wpc EXCEPT ![w] = "test"]
    /\ UNCHANGED <<queueVars, ownerVars, enq, bound, crashed>>

ProcessLoop(w) ==
    \/ RunnerTest(w) \/ RunnerPop(w) \/ RunnerPopNull(w)
    \/ RunnerRead(w) \/ RunnerInvoke(w) \/ RunnerReturn(w) \/ RunnerComplete(w)

-----------------------------------------------------------------------------

Owner ==
    \/ Start \/ (\E w \in Runners : SpawnRunner(w)) \/ StartReturn
    \/ UpdateBackendInferFunc
    \/ StopCall \/ Stop

\* Nothing is left to do: the process is gone, or the scheduler has been
\* stopped and every Enqueue has returned.
Terminated ==
    /\ crashed \/ ( /\ owner = "stopped"
                    /\ \A p \in Payloads : enq[p] \notin {"new", "pushing"} )
    /\ UNCHANGED schedVars

Next ==
    \/ /\ ~crashed
       /\ \/ \E p \in Payloads : Enqueue(p)
          \/ Owner
          \/ TimerExpires
          \/ \E w \in Runners : ProcessLoop(w) \/ InferCrash(w)
    \/ Terminated

Spec == Init /\ [][Next]_schedVars

\* Runners and callers are threads the operating system schedules, infer
\* functions return, a started Stop runs on, its timer runs out.  Nothing
\* makes a request arrive, a model change or Stop be called.
Fairness ==
    /\ \A w \in Runners :
          /\ WF_schedVars(~crashed /\ ProcessLoop(w))
          /\ WF_schedVars(~crashed /\ SpawnRunner(w))
    /\ \A p \in Payloads :
          WF_schedVars(~crashed /\ (EnqueuePush(p) \/ EnqueueBroken(p)))
    /\ WF_schedVars(~crashed /\ StartReturn)
    /\ WF_schedVars(~crashed /\ Stop)
    /\ WF_schedVars(~crashed /\ TimerExpires)

FairSpec == Spec /\ Fairness

-----------------------------------------------------------------------------

TypeOK ==
    /\ running \in BOOLEAN
    /\ buffer \in Seq(Payloads)
    /\ broken \in BOOLEAN
    /\ func \in 0 .. MaxUpdates
    /\ owner \in {"new", "spawning", "started", "draining", "clearing",
                  "breaking", "joining", "stopped"}
    /\ expired \in BOOLEAN
    /\ enq \in [Payloads -> {"new", "pushing", "accepted", "rejected", "lost"}]
    /\ wpc \in [Runners -> {"unborn", "test", "pop", "read", "invoke", "infer",
                            "complete", "exited"}]
    /\ held \in [Runners -> Payloads \cup {None}]
    /\ bound \in [Runners -> 0 .. MaxUpdates]
    /\ answers \in [Payloads -> Nat]
    /\ waitedFor \in SUBSET Payloads
    /\ crashed \in BOOLEAN

(***************************************************************************)
(* An accepted payload is in exactly one place: in the queue, in the hands *)
(* of one runner, or completed once.  It is neither lost between pop and   *)
(* OnInferCompleted nor given to two runners, and a payload whose Enqueue  *)
(* has not pushed it is nowhere.                                           *)
(***************************************************************************)
QueuedOnce ==
    \A i, j \in DOMAIN buffer : buffer[i] = buffer[j] => i = j

HeldOnce ==
    \A w \in Runners : held[w] # None =>
        /\ held[w] \notin Queued
        /\ \A v \in Runners : held[v] = held[w] => v = w

Pending(p) == p \in Queued \/ \E w \in Runners : held[w] = p

AcceptedPending ==
    \A p \in Payloads :
        /\ answers[p] = 0 => (enq[p] = "accepted" <=> Pending(p))
        /\ answers[p] # 0 => answers[p] = 1 /\ enq[p] = "accepted" /\ ~Pending(p)

ExactlyOnePlace == QueuedOnce /\ HeldOnce /\ AcceptedPending

(***************************************************************************)
(* Stop keeps its word unless its timer runs out: when it returns, every   *)
(* payload that was enqueued before it was called has been completed,      *)
(* those that runners still held when running_ was cleared included.       *)
(***************************************************************************)
DrainedStopCompletesAll ==
    owner = "stopped" /\ ~expired => \A p \in waitedFor : answers[p] = 1

(***************************************************************************)
(* The scheduler implements RequestLifecycle: at most one answer, none for *)
(* a rejected request, none once Stop has returned and the runners'        *)
(* memory may go.                                                          *)
(***************************************************************************)
requestState ==
    [p \in Payloads |->
        CASE answers[p] # 0                   -> "answered"
          [] enq[p] = "rejected"              -> "rejected"
          [] enq[p] \in {"new", "pushing"}    -> "new"
          [] OTHER                            -> "accepted"]

Lifecycle == INSTANCE RequestLifecycle
                WITH Requests <- Payloads, state <- requestState,
                     over <- owner = "stopped"

ImplementsLifecycle == Lifecycle!Spec

(***************************************************************************)
(* An accepted payload is completed unless Stop breaks the queue first,    *)
(* even when it came while the scheduler was being filled.                 *)
(***************************************************************************)
AcceptedAnswered ==
    \A p \in Payloads :
        enq[p] = "accepted" ~> (answers[p] = 1 \/ broken \/ crashed)

(***************************************************************************)
(* Nobody waits for ever: a caller blocked on the full queue returns, and  *)
(* Stop returns, whatever the runners and the callers are doing when it is *)
(* called.                                                                 *)
(***************************************************************************)
EnqueueReturns ==
    \A p \in Payloads :
        enq[p] = "pushing" ~> (enq[p] \in {"accepted", "lost"} \/ crashed)

StopReturns ==
    owner = "draining" ~> (owner = "stopped" \/ crashed)

NobodyWaitsForEver == EnqueueReturns /\ StopReturns

(***************************************************************************)
(* What the comment in Stop says, "wait for already-enqueued-requests to   *)
(* finish": when Stop returns, they have finished.  The code gives up on   *)
(* those still queued when its timer runs out.                             *)
(***************************************************************************)
StopFinishesEnqueued ==
    owner = "stopped" => \A p \in waitedFor : answers[p] = 1
=============================================================================
