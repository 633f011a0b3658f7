------------------------ MODULE SimpleSchedulerProofs ------------------------
(***************************************************************************)
(* Proofs about SimpleScheduler for any number of runners, requests and    *)
(* updates and any queue size.                                             *)
(*                                                                         *)
(* The inductive invariant IInv adds two facts to the properties: which    *)
(* runners hold a payload, and what Stop has achieved at each of its       *)
(* points.                                                                 *)
(***************************************************************************)
EXTENDS SimpleScheduler, TLAPS

\* The points of ProcessLoop between pop and OnInferCompleted.
Busy == {"read", "invoke", "infer", "complete"}

RunnersHold ==
    \A w \in Runners : held[w] # None <=> wpc[w] \in Busy

\* Once Stop has left its waiting loop on an empty queue, nothing it waits
\* for is queued again; once it has joined, every runner is gone.
StopProgress ==
    /\ owner \in {"clearing", "breaking", "joining", "stopped"} /\ ~expired
          => waitedFor \cap Queued = {}
    /\ \A p \in waitedFor : enq[p] = "accepted"
    /\ owner = "stopped" => \A w \in Runners : wpc[w] = "exited"

IInv == TypeOK /\ ExactlyOnePlace /\ RunnersHold /\ StopProgress

-----------------------------------------------------------------------------

\* What push_back does to the content of a queue.
LEMMA AppendContent ==
  ASSUME NEW S, NEW s \in Seq(S), NEW x \in S,
         x \notin {s[i] : i \in DOMAIN s},
         \A i, j \in DOMAIN s : s[i] = s[j] => i = j
  PROVE  /\ {Append(s, x)[i] : i \in DOMAIN Append(s, x)} = {s[i] : i \in DOMAIN s} \cup {x}
         /\ \A i, j \in DOMAIN Append(s, x) : Append(s, x)[i] = Append(s, x)[j] => i = j
<1> DEFINE t == Append(s, x)
<1>1. /\ DOMAIN s = 1 .. Len(s)
      /\ DOMAIN t = 1 .. (Len(s) + 1)
      /\ Len(s) \in Nat
      /\ t[Len(s) + 1] = x
      /\ \A i \in 1 .. Len(s) : t[i] = s[i]
  OBVIOUS
<1> HIDE DEF t
<1>2. {t[i] : i \in DOMAIN t} = {s[i] : i \in DOMAIN s} \cup {x}
  <2>1. ASSUME NEW i \in DOMAIN t
        PROVE  t[i] \in {s[j] : j \in DOMAIN s} \cup {x}
    <3>1. i \in DOMAIN s \/ i = Len(s) + 1
      BY <1>1
    <3> QED
      BY <1>1, <3>1
  <2>2. ASSUME NEW i \in DOMAIN s
        PROVE  s[i] \in {t[j] : j \in DOMAIN t}
    <3>1. i \in DOMAIN t /\ t[i] = s[i]
      BY <1>1
    <3> QED
      BY <3>1
  <2>3. x \in {t[j] : j \in DOMAIN t}
    <3>1. Len(s) + 1 \in DOMAIN t
      BY <1>1
    <3> QED
      BY <3>1, <1>1
  <2> QED
    BY <2>1, <2>2, <2>3
<1>3. ASSUME NEW i \in DOMAIN t, NEW j \in DOMAIN t, t[i] = t[j]
      PROVE  i = j
  <2>1. (i \in DOMAIN s \/ i = Len(s) + 1) /\ (j \in DOMAIN s \/ j = Len(s) + 1)
    BY <1>1
  <2> QED
    BY <1>1, <1>3, <2>1
<1> QED
  BY <1>2, <1>3 DEF t

\* What front and pop_front do to the content of a queue without duplicates.
LEMMA TailContent ==
  ASSUME NEW S, NEW s \in Seq(S), s # <<>>,
         \A i, j \in DOMAIN s : s[i] = s[j] => i = j
  PROVE  /\ {Tail(s)[i] : i \in DOMAIN Tail(s)} = {s[i] : i \in DOMAIN s} \ {Head(s)}
         /\ Head(s) \in {s[i] : i \in DOMAIN s}
         /\ \A i, j \in DOMAIN Tail(s) : Tail(s)[i] = Tail(s)[j] => i = j
<1> DEFINE t == Tail(s)
<1>1. /\ DOMAIN s = 1 .. Len(s)
      /\ Len(s) \in Nat /\ Len(s) > 0
      /\ DOMAIN t = 1 .. (Len(s) - 1)
      /\ \A i \in 1 .. (Len(s) - 1) : t[i] = s[i + 1]
      /\ Head(s) = s[1]
  OBVIOUS
<1> HIDE DEF t
<1>2. {t[i] : i \in DOMAIN t} = {s[i] : i \in DOMAIN s} \ {Head(s)}
  <2>1. ASSUME NEW i \in DOMAIN t
        PROVE  t[i] \in {s[j] : j \in DOMAIN s} \ {Head(s)}
    <3>1. i + 1 \in DOMAIN s /\ i + 1 # 1 /\ 1 \in DOMAIN s /\ t[i] = s[i + 1]
      BY <1>1
    <3> QED
      BY <1>1, <3>1
  <2>2. ASSUME NEW i \in DOMAIN s, s[i] # Head(s)
        PROVE  s[i] \in {t[j] : j \in DOMAIN t}
    <3>1. i - 1 \in DOMAIN t /\ t[i - 1] = s[i]
      BY <1>1, <2>2
    <3> QED
      BY <3>1
  <2> QED
    BY <2>1, <2>2
<1>3. ASSUME NEW i \in DOMAIN t, NEW j \in DOMAIN t, t[i] = t[j]
      PROVE  i = j
  <2>1. /\ i + 1 \in DOMAIN s /\ j + 1 \in DOMAIN s
        /\ s[i + 1] = s[j + 1]
        /\ i \in Nat /\ j \in Nat
    BY <1>1, <1>3
  <2>2. i + 1 = j + 1
    BY <2>1
  <2> QED
    BY <2>1, <2>2
<1>4. Head(s) \in {s[i] : i \in DOMAIN s}
  <2>1. 1 \in DOMAIN s
    BY <1>1
  <2> QED
    BY <1>1, <2>1
<1> QED
  BY <1>2, <1>3, <1>4 DEF t

-----------------------------------------------------------------------------

\* Every step keeps every variable of the scheduler within its type: a runner
\* completes a payload only when it holds one.
LEMMA TypeStep ==
  ASSUME TypeOK, RunnersHold, [Next]_schedVars
  PROVE  TypeOK'
<1> USE SchedulerAssumption DEF TypeOK, queueVars, ownerVars, runnerVars
<1>1. ASSUME NEW p \in Payloads, EnqueueTest(p)
      PROVE  TypeOK'
  BY <1>1 DEF EnqueueTest
<1>2. ASSUME NEW p \in Payloads, EnqueuePush(p)
      PROVE  TypeOK'
  <2>1. buffer' \in Seq(Payloads)
    BY <1>2 DEF EnqueuePush, Queue!Put
  <2> QED
    BY <1>2, <2>1 DEF EnqueuePush, Queue!Put
<1>3. ASSUME NEW p \in Payloads, EnqueueBroken(p)
      PROVE  TypeOK'
  BY <1>3 DEF EnqueueBroken
<1>4. CASE Start
  BY <1>4 DEF Start
<1>5. ASSUME NEW w \in Runners, SpawnRunner(w)
      PROVE  TypeOK'
  BY <1>5 DEF SpawnRunner
<1>6. CASE StartReturn
  BY <1>6 DEF StartReturn
<1>7. CASE UpdateBackendInferFunc
  BY <1>7 DEF UpdateBackendInferFunc
<1>8. CASE StopCall
  BY <1>8 DEF StopCall
<1>9. CASE TimerExpires
  BY <1>9 DEF TimerExpires
<1>10. CASE StopDrained
  BY <1>10 DEF StopDrained
<1>11. CASE StopClearRunning
  BY <1>11 DEF StopClearRunning
<1>12. CASE StopBreak
  BY <1>12 DEF StopBreak, Queue!Close
<1>13. CASE StopJoined
  BY <1>13 DEF StopJoined
<1>14. ASSUME NEW w \in Runners, RunnerTest(w)
       PROVE  TypeOK'
  BY <1>14 DEF RunnerTest
<1>15. ASSUME NEW w \in Runners, RunnerPop(w)
       PROVE  TypeOK'
  <2>1. buffer' \in Seq(Payloads) /\ Head(buffer) \in Payloads
    BY <1>15 DEF RunnerPop, Queue!Get
  <2> QED
    BY <1>15, <2>1 DEF RunnerPop, Queue!Get
<1>16. ASSUME NEW w \in Runners, RunnerPopNull(w)
       PROVE  TypeOK'
  BY <1>16 DEF RunnerPopNull
<1>17. ASSUME NEW w \in Runners, RunnerRead(w)
       PROVE  TypeOK'
  BY <1>17 DEF RunnerRead
<1>18. ASSUME NEW w \in Runners, RunnerInvoke(w)
       PROVE  TypeOK'
  BY <1>18 DEF RunnerInvoke
<1>19. ASSUME NEW w \in Runners, RunnerReturn(w)
       PROVE  TypeOK'
  BY <1>19 DEF RunnerReturn
<1>20. ASSUME NEW w \in Runners, InferCrash(w)
       PROVE  TypeOK'
  BY <1>20 DEF InferCrash
<1>21. ASSUME NEW w \in Runners, RunnerComplete(w)
       PROVE  TypeOK'
  <2>1. held[w] \in Payloads
    BY <1>21 DEF RunnerComplete, RunnersHold, Busy
  <2>2. answers' \in [Payloads -> Nat]
    BY <1>21, <2>1 DEF RunnerComplete
  <2> QED
    BY <1>21, <2>2 DEF RunnerComplete
<1>22. CASE UNCHANGED schedVars
  BY <1>22 DEF schedVars
<1> QED
  BY <1>1, <1>2, <1>3, <1>4, <1>5, <1>6, <1>7, <1>8, <1>9, <1>10, <1>11, <1>12,
     <1>13, <1>14, <1>15, <1>16, <1>17, <1>18, <1>19, <1>20, <1>21, <1>22
  DEF Next, Enqueue, Owner, Stop, ProcessLoop, Terminated

\* Steps that move no payload keep every payload in its place.
LEMMA NothingMoves ==
  ASSUME ExactlyOnePlace, UNCHANGED <<buffer, held, answers, enq>>
  PROVE  ExactlyOnePlace' /\ Queued' = Queued
BY DEF ExactlyOnePlace, QueuedOnce, HeldOnce, AcceptedPending, Pending, Queued

\* Enqueue, pop and OnInferCompleted move a payload from one place to the next.
LEMMA OnePlaceStep ==
  ASSUME IInv, [Next]_schedVars
  PROVE  ExactlyOnePlace'
<1> USE SchedulerAssumption DEF queueVars, ownerVars, runnerVars
<1>t. TypeOK /\ ExactlyOnePlace /\ RunnersHold
  BY DEF IInv
<1>1. ASSUME NEW p \in Payloads, EnqueueTest(p) \/ EnqueueBroken(p)
      PROVE  ExactlyOnePlace'
  <2>1. /\ enq[p] \in {"new", "pushing"} /\ enq'[p] # "accepted"
        /\ \A q \in Payloads \ {p} : enq'[q] = enq[q]
        /\ buffer' = buffer /\ held' = held /\ answers' = answers
    BY <1>1, <1>t DEF EnqueueTest, EnqueueBroken, TypeOK
  <2> QED
    BY <2>1, <1>t DEF ExactlyOnePlace, QueuedOnce, HeldOnce, AcceptedPending, Pending, Queued
<1>2. ASSUME NEW p \in Payloads, EnqueuePush(p)
      PROVE  ExactlyOnePlace'
  <2>1. /\ enq[p] = "pushing" /\ enq'[p] = "accepted"
        /\ \A q \in Payloads \ {p} : enq'[q] = enq[q]
        /\ buffer' = Append(buffer, p) /\ held' = held /\ answers' = answers
        /\ buffer \in Seq(Payloads)
    BY <1>2, <1>t DEF EnqueuePush, TypeOK, Queue!Put
  <2>2. answers[p] = 0 /\ ~Pending(p)
    BY <2>1, <1>t DEF ExactlyOnePlace, AcceptedPending
  <2>3. Queued' = Queued \cup {p} /\ QueuedOnce'
    BY <2>1, <2>2, <1>t, AppendContent DEF ExactlyOnePlace, QueuedOnce, Queued, Pending
  <2>4. HeldOnce'
    BY <2>1, <2>2, <2>3, <1>t DEF ExactlyOnePlace, HeldOnce, Pending
  <2>5. AcceptedPending'
    BY <2>1, <2>2, <2>3, <1>t DEF ExactlyOnePlace, AcceptedPending, Pending
  <2> QED
    BY <2>3, <2>4, <2>5 DEF ExactlyOnePlace
<1>3. ASSUME NEW w \in Runners, RunnerPop(w)
      PROVE  ExactlyOnePlace'
  <2> DEFINE h == Head(buffer)
  <2>1. /\ buffer' = Tail(buffer) /\ buffer # <<>> /\ buffer \in Seq(Payloads)
        /\ held[w] = None /\ held' = [held EXCEPT ![w] = h]
        /\ answers' = answers /\ enq' = enq
    BY <1>3, <1>t DEF RunnerPop, TypeOK, RunnersHold, Busy, Queue!Get
  <2>2. Queued' = Queued \ {h} /\ h \in Queued /\ QueuedOnce'
    <3>1. \A i, j \in DOMAIN buffer : buffer[i] = buffer[j] => i = j
      BY <1>t DEF ExactlyOnePlace, QueuedOnce
    <3>2. /\ {Tail(buffer)[i] : i \in DOMAIN Tail(buffer)}
                = {buffer[i] : i \in DOMAIN buffer} \ {Head(buffer)}
          /\ Head(buffer) \in {buffer[i] : i \in DOMAIN buffer}
          /\ \A i, j \in DOMAIN Tail(buffer) : Tail(buffer)[i] = Tail(buffer)[j] => i = j
      BY <2>1, <3>1, TailContent
    <3> QED
      BY <2>1, <3>2 DEF QueuedOnce, Queued
  <2>3. h \in Payloads
    BY <2>1
  <2> HIDE DEF h
  <2>4. /\ held'[w] = h /\ \A v \in Runners \ {w} : held'[v] = held[v]
        /\ \A v \in Runners : held[v] # h
    BY <2>1, <2>2, <2>3, <1>t DEF TypeOK, ExactlyOnePlace, HeldOnce
  <2>5. HeldOnce'
    BY <2>1, <2>2, <2>4, <1>t DEF ExactlyOnePlace, HeldOnce
  <2>6. ASSUME NEW p \in Payloads
        PROVE  Pending(p)' <=> Pending(p)
    BY <2>1, <2>2, <2>3, <2>4, <1>t DEF Pending
  <2>7. AcceptedPending'
    BY <2>1, <2>6, <1>t DEF ExactlyOnePlace, AcceptedPending
  <2> QED
    BY <2>2, <2>5, <2>7 DEF ExactlyOnePlace
<1>4. ASSUME NEW w \in Runners, RunnerComplete(w)
      PROVE  ExactlyOnePlace'
  <2>1. PICK p \in Payloads : p = held[w]
    BY <1>4, <1>t DEF RunnerComplete, TypeOK, RunnersHold, Busy
  <2>2. answers[p] = 0 /\ enq[p] = "accepted"
    BY <2>1, <1>t DEF ExactlyOnePlace, AcceptedPending, Pending
  <2>3. /\ answers'[p] = 1
        /\ \A q \in Payloads \ {p} : answers'[q] = answers[q]
        /\ held'[w] = None /\ \A v \in Runners \ {w} : held'[v] = held[v]
        /\ buffer' = buffer /\ enq' = enq /\ Queued' = Queued
    BY <1>4, <2>1, <2>2, <1>t DEF RunnerComplete, TypeOK, Queued
  <2>4. QueuedOnce' /\ HeldOnce'
    BY <2>1, <2>3, <1>t DEF ExactlyOnePlace, QueuedOnce, HeldOnce
  <2>5. ~Pending(p)'
    BY <2>1, <2>3, <1>t DEF ExactlyOnePlace, HeldOnce, Pending
  <2>6. ASSUME NEW q \in Payloads, q # p
        PROVE  Pending(q)' <=> Pending(q)
    BY <2>1, <2>3, <2>6 DEF Pending
  <2>7. AcceptedPending'
    BY <2>2, <2>3, <2>5, <2>6, <1>t DEF ExactlyOnePlace, AcceptedPending
  <2> QED
    BY <2>4, <2>7 DEF ExactlyOnePlace
<1>5. CASE UNCHANGED <<buffer, held, answers, enq>>
  BY <1>5, <1>t, NothingMoves
<1> QED
  BY <1>1, <1>2, <1>3, <1>4, <1>5
  DEF Next, Enqueue, Owner, Stop, ProcessLoop, Terminated, schedVars,
      Start, SpawnRunner, StartReturn, UpdateBackendInferFunc, StopCall,
      TimerExpires, StopDrained, StopClearRunning, StopBreak, StopJoined,
      Queue!Close, RunnerTest, RunnerPopNull, RunnerRead, RunnerInvoke,
      RunnerReturn, InferCrash

\* A runner holds a payload from pop to OnInferCompleted.
LEMMA RunnersHoldStep ==
  ASSUME IInv, [Next]_schedVars
  PROVE  RunnersHold'
<1> USE SchedulerAssumption DEF Busy, RunnersHold, queueVars, ownerVars, runnerVars
<1>t. TypeOK /\ RunnersHold
  BY DEF IInv
<1>1. ASSUME NEW w \in Runners, RunnerPop(w)
      PROVE  RunnersHold'
  <2>1. Head(buffer) \in Payloads
    BY <1>1, <1>t DEF RunnerPop, Queue!Get, TypeOK
  <2> QED
    BY <1>1, <1>t, <2>1 DEF RunnerPop, TypeOK
<1>2. ASSUME NEW w \in Runners, RunnerComplete(w)
      PROVE  RunnersHold'
  BY <1>2, <1>t DEF RunnerComplete, TypeOK
<1>3. ASSUME NEW w \in Runners,
             \/ SpawnRunner(w) \/ RunnerTest(w) \/ RunnerPopNull(w)
             \/ RunnerRead(w) \/ RunnerInvoke(w) \/ RunnerReturn(w)
      PROVE  RunnersHold'
  BY <1>3, <1>t
  DEF SpawnRunner, RunnerTest, RunnerPopNull, RunnerRead, RunnerInvoke,
      RunnerReturn, TypeOK
<1>4. CASE UNCHANGED <<wpc, held>>
  BY <1>4, <1>t
<1> QED
  BY <1>1, <1>2, <1>3, <1>4
  DEF Next, Enqueue, Owner, Stop, ProcessLoop, Terminated, schedVars,
      EnqueueTest, EnqueuePush, EnqueueBroken, Start, StartReturn,
      UpdateBackendInferFunc, StopCall, TimerExpires, StopDrained,
      StopClearRunning, StopBreak, StopJoined, InferCrash

\* What Stop waits for is accepted, is not queued once it has drained the
\* queue, and the runners it has joined are gone.
LEMMA StopStep ==
  ASSUME IInv, [Next]_schedVars
  PROVE  StopProgress'
<1> USE SchedulerAssumption DEF StopProgress, queueVars, ownerVars, runnerVars
<1>t. TypeOK /\ ExactlyOnePlace /\ StopProgress
  BY DEF IInv
<1>1. ASSUME NEW p \in Payloads, EnqueuePush(p)
      PROVE  StopProgress'
  <2>1. buffer \in Seq(Payloads) /\ buffer' = Append(buffer, p)
    BY <1>1, <1>t DEF EnqueuePush, Queue!Put, TypeOK
  <2>2. p \notin waitedFor /\ p \notin Queued
    BY <1>1, <1>t DEF EnqueuePush, TypeOK, ExactlyOnePlace, AcceptedPending, Pending
  <2>3. Queued' = Queued \cup {p}
    <3>1. \A i, j \in DOMAIN buffer : buffer[i] = buffer[j] => i = j
      BY <1>t DEF ExactlyOnePlace, QueuedOnce
    <3> QED
      BY <2>1, <2>2, <3>1, AppendContent DEF Queued
  <2> QED
    BY <1>1, <1>t, <2>2, <2>3 DEF EnqueuePush, TypeOK
<1>2. ASSUME NEW w \in Runners, RunnerPop(w)
      PROVE  StopProgress'
  <2>1. Queued' \subseteq Queued
    <3>1. buffer \in Seq(Payloads) /\ buffer # <<>> /\ buffer' = Tail(buffer)
      BY <1>2, <1>t DEF RunnerPop, Queue!Get, TypeOK
    <3>2. \A i, j \in DOMAIN buffer : buffer[i] = buffer[j] => i = j
      BY <1>t DEF ExactlyOnePlace, QueuedOnce
    <3>3. {Tail(buffer)[i] : i \in DOMAIN Tail(buffer)}
             = {buffer[i] : i \in DOMAIN buffer} \ {Head(buffer)}
      BY <3>1, <3>2, TailContent
    <3> QED
      BY <3>1, <3>3 DEF Queued
  <2> QED
    BY <1>2, <1>t, <2>1 DEF RunnerPop, TypeOK
<1>3. CASE StopCall
  BY <1>3, <1>t DEF StopCall, TypeOK
<1>4. CASE StopDrained
  <2>1. buffer = <<>> => Queued = {}
    BY DEF Queued
  <2>2. Queued' = Queued
    BY <1>4 DEF StopDrained, Queued
  <2> QED
    BY <1>4, <1>t, <2>1, <2>2 DEF StopDrained, TypeOK
<1>5. CASE StopJoined
  <2>1. Queued' = Queued
    BY <1>5 DEF StopJoined, Queued
  <2> QED
    BY <1>5, <1>t, <2>1 DEF StopJoined, TypeOK
<1>6. CASE TimerExpires \/ StopClearRunning \/ StopBreak
  <2>1. Queued' = Queued
    BY <1>6 DEF TimerExpires, StopClearRunning, StopBreak, Queue!Close, Queued
  <2> QED
    BY <1>6, <1>t, <2>1 DEF TimerExpires, StopClearRunning, StopBreak, Queue!Close, TypeOK
<1>7. ASSUME NEW p \in Payloads, EnqueueTest(p) \/ EnqueueBroken(p)
      PROVE  StopProgress'
  <2>1. Queued' = Queued
    BY <1>7 DEF EnqueueTest, EnqueueBroken, Queued
  <2> QED
    BY <1>7, <1>t, <2>1 DEF EnqueueTest, EnqueueBroken, TypeOK
<1>8. CASE Start \/ StartReturn \/ UpdateBackendInferFunc
  <2>1. Queued' = Queued
    BY <1>8 DEF Start, StartReturn, UpdateBackendInferFunc, Queued
  <2> QED
    BY <1>8, <1>t, <2>1 DEF Start, StartReturn, UpdateBackendInferFunc, TypeOK
<1>9. ASSUME NEW w \in Runners,
             \/ SpawnRunner(w) \/ RunnerTest(w) \/ RunnerPopNull(w)
             \/ RunnerRead(w) \/ RunnerInvoke(w) \/ RunnerReturn(w)
             \/ InferCrash(w) \/ RunnerComplete(w)
      PROVE  StopProgress'
  <2> USE DEF SpawnRunner, RunnerTest, RunnerPopNull, RunnerRead, RunnerInvoke,
              RunnerReturn, InferCrash, RunnerComplete
  <2>1. /\ Queued' = Queued /\ owner' = owner /\ expired' = expired
        /\ waitedFor' = waitedFor /\ enq' = enq
    BY <1>9 DEF Queued
  <2>2. owner # "stopped"
    BY <1>9, <1>t
  <2> QED
    BY <1>t, <2>1, <2>2
<1>10. CASE UNCHANGED schedVars
  <2>1. Queued' = Queued
    BY <1>10 DEF schedVars, Queued
  <2> QED
    BY <1>10, <1>t, <2>1 DEF schedVars
<1> QED
  BY <1>1, <1>2, <1>3, <1>4, <1>5, <1>6, <1>7, <1>8, <1>9, <1>10
  DEF Next, Enqueue, Owner, Stop, ProcessLoop, Terminated

-----------------------------------------------------------------------------

\* A new scheduler has accepted nothing and holds nothing.
LEMMA InitInv == Init => IInv
<1> SUFFICES ASSUME Init
             PROVE  IInv
  OBVIOUS
<1> USE SchedulerAssumption DEF Init
<1>1. buffer \in Seq(Payloads) /\ Queued = {} /\ DOMAIN buffer = {}
  BY DEF Queued
<1>2. running \in BOOLEAN /\ broken \in BOOLEAN /\ expired \in BOOLEAN /\ crashed \in BOOLEAN
  BY Zenon
<1>3. TypeOK
  BY <1>1, <1>2 DEF TypeOK
<1>4. ExactlyOnePlace
  BY <1>1 DEF ExactlyOnePlace, QueuedOnce, HeldOnce, AcceptedPending, Pending
<1>5. RunnersHold /\ StopProgress
  BY DEF RunnersHold, StopProgress, Busy
<1> QED
  BY <1>3, <1>4, <1>5 DEF IInv

\* The invariant the other theorems follow from.
THEOREM InductiveInvariant == Spec => []IInv
<1>1. IInv /\ [Next]_schedVars => IInv'
  <2> SUFFICES ASSUME IInv, [Next]_schedVars
               PROVE  IInv'
    OBVIOUS
  <2>1. TypeOK'
    BY TypeStep DEF IInv
  <2> QED
    BY <2>1, OnePlaceStep, RunnersHoldStep, StopStep DEF IInv
<1> QED
  BY InitInv, <1>1, PTL DEF Spec

\* Every variable of the scheduler keeps its type.
THEOREM TypeCorrect == Spec => []TypeOK
<1>1. IInv => TypeOK
  BY DEF IInv
<1> QED
  BY <1>1, InductiveInvariant, PTL

\* No accepted payload is lost, duplicated or completed twice, however
\* Enqueue, the runners and Stop interleave.
THEOREM PayloadsInOnePlace == Spec => []ExactlyOnePlace
<1>1. IInv => ExactlyOnePlace
  BY DEF IInv
<1> QED
  BY <1>1, InductiveInvariant, PTL

\* A Stop whose timer does not run out returns only when everything enqueued
\* before it was called has been completed.
THEOREM StopCompletesAll == Spec => []DrainedStopCompletesAll
<1>1. IInv => DrainedStopCompletesAll
  <2> SUFFICES ASSUME IInv, owner = "stopped", ~expired, NEW p \in waitedFor
               PROVE  answers[p] = 1
    BY DEF DrainedStopCompletesAll
  <2>1. p \in Payloads /\ enq[p] = "accepted" /\ p \notin Queued
    BY DEF IInv, TypeOK, StopProgress
  <2>2. \A w \in Runners : held[w] = None
    BY DEF IInv, StopProgress, RunnersHold, Busy
  <2>3. ~Pending(p)
    BY <2>1, <2>2, SchedulerAssumption DEF Pending
  <2> QED
    BY <2>1, <2>3 DEF IInv, ExactlyOnePlace, AcceptedPending
<1> QED
  BY <1>1, InductiveInvariant, PTL

\* A step that touches one request changes the state of that one only.
LEMMA OneRequestChanges ==
  ASSUME NEW p \in Payloads, NEW v,
         \A q \in Payloads \ {p} : answers'[q] = answers[q] /\ enq'[q] = enq[q],
         requestState'[p] = v
  PROVE  requestState' = [requestState EXCEPT ![p] = v]
<1>1. ASSUME NEW q \in Payloads, q # p
      PROVE  requestState'[q] = requestState[q]
  BY <1>1 DEF requestState
<1>2. /\ requestState = [q \in Payloads |-> requestState[q]]
      /\ requestState' = [q \in Payloads |-> requestState'[q]]
  BY DEF requestState
<1> QED
  BY <1>1, <1>2

\* The scheduler implements RequestLifecycle: one answer at most for an
\* accepted request, none for a rejected one, none after Stop has returned.
THEOREM SchedulerIsLifecycle == Spec => ImplementsLifecycle
<1>1. Init => Lifecycle!Init
  BY DEF Init, Lifecycle!Init, requestState
<1>2. IInv /\ IInv' /\ [Next]_schedVars => [Lifecycle!Next]_Lifecycle!lifecycleVars
  <2> SUFFICES ASSUME IInv, IInv', [Next]_schedVars
               PROVE  [Lifecycle!Next]_Lifecycle!lifecycleVars
    OBVIOUS
  <2> USE SchedulerAssumption DEF queueVars, ownerVars, runnerVars
  <2>t. TypeOK /\ TypeOK' /\ ExactlyOnePlace /\ RunnersHold /\ StopProgress
    BY DEF IInv
  <2>1. ASSUME NEW p \in Payloads, EnqueueTest(p)
        PROVE  [Lifecycle!Next]_Lifecycle!lifecycleVars
    <3>1. answers[p] = 0 /\ answers' = answers /\ owner' = owner
      BY <2>1, <2>t DEF EnqueueTest, ExactlyOnePlace, AcceptedPending
    <3>2. CASE running
      <4>1. requestState' = requestState
        BY <2>1, <2>t, <3>1, <3>2 DEF EnqueueTest, TypeOK, requestState
      <4> QED
        BY <3>1, <4>1 DEF Lifecycle!lifecycleVars
    <3>3. CASE ~running
      <4>1. requestState[p] = "new"
        BY <2>1, <2>t, <3>1 DEF EnqueueTest, requestState
      <4>2. requestState' = [requestState EXCEPT ![p] = "rejected"]
        <5>1. requestState'[p] = "rejected"
          BY <2>1, <2>t, <3>1, <3>3 DEF EnqueueTest, TypeOK, requestState
        <5>2. \A q \in Payloads \ {p} : answers'[q] = answers[q] /\ enq'[q] = enq[q]
          BY <2>1, <2>t, <3>1 DEF EnqueueTest, TypeOK
        <5> QED
          BY <5>1, <5>2, OneRequestChanges
      <4>3. Lifecycle!Reject(p)
        BY <3>1, <4>1, <4>2 DEF Lifecycle!Reject
      <4> QED
        BY <4>3 DEF Lifecycle!Next
    <3> QED
      BY <3>2, <3>3
  <2>2. ASSUME NEW p \in Payloads, EnqueuePush(p) \/ EnqueueBroken(p)
        PROVE  [Lifecycle!Next]_Lifecycle!lifecycleVars
    <3> USE DEF EnqueuePush, EnqueueBroken
    <3>1. answers[p] = 0 /\ answers' = answers /\ owner' = owner
      BY <2>2, <2>t DEF ExactlyOnePlace, AcceptedPending
    <3>2. requestState[p] = "new"
      BY <2>2, <3>1 DEF requestState
    <3>3. requestState' = [requestState EXCEPT ![p] = "accepted"]
      <4>1. requestState'[p] = "accepted"
        BY <2>2, <2>t, <3>1 DEF TypeOK, requestState
      <4>2. \A q \in Payloads \ {p} : answers'[q] = answers[q] /\ enq'[q] = enq[q]
        BY <2>2, <2>t, <3>1 DEF TypeOK
      <4> QED
        BY <4>1, <4>2, OneRequestChanges
    <3>4. Lifecycle!Accept(p)
      BY <3>1, <3>2, <3>3 DEF Lifecycle!Accept
    <3> QED
      BY <3>4 DEF Lifecycle!Next
  <2>3. ASSUME NEW w \in Runners, RunnerComplete(w)
        PROVE  [Lifecycle!Next]_Lifecycle!lifecycleVars
    <3>1. PICK p \in Payloads : p = held[w]
      BY <2>3, <2>t DEF RunnerComplete, TypeOK, RunnersHold, Busy
    <3>2. answers[p] = 0 /\ enq[p] = "accepted"
      BY <3>1, <2>t DEF ExactlyOnePlace, AcceptedPending, Pending
    <3>3. owner # "stopped" /\ owner' = owner
      BY <2>3, <2>t DEF RunnerComplete, StopProgress
    <3>4. answers' = [answers EXCEPT ![p] = 1] /\ enq' = enq
      BY <2>3, <3>1, <3>2, <2>t DEF RunnerComplete, TypeOK
    <3>5. requestState[p] = "accepted"
      BY <3>2 DEF requestState
    <3>6. requestState' = [requestState EXCEPT ![p] = "answered"]
      <4>1. requestState'[p] = "answered"
        BY <3>2, <3>4, <2>t DEF TypeOK, requestState
      <4>2. \A q \in Payloads \ {p} : answers'[q] = answers[q] /\ enq'[q] = enq[q]
        BY <3>4, <2>t DEF TypeOK
      <4> QED
        BY <4>1, <4>2, OneRequestChanges
    <3>7. Lifecycle!Answer(p)
      BY <3>3, <3>5, <3>6 DEF Lifecycle!Answer
    <3> QED
      BY <3>7 DEF Lifecycle!Next
  <2>4. CASE StopJoined
    <3>1. requestState' = requestState
      BY <2>4 DEF StopJoined, requestState
    <3>2. Lifecycle!Finish
      BY <2>4, <3>1 DEF StopJoined, Lifecycle!Finish
    <3> QED
      BY <3>2 DEF Lifecycle!Next
  <2>5. ASSUME UNCHANGED <<answers, enq>>,
               (owner = "stopped")' = (owner = "stopped")
        PROVE  [Lifecycle!Next]_Lifecycle!lifecycleVars
    <3>1. requestState' = requestState
      BY <2>5 DEF requestState
    <3> QED
      BY <2>5, <3>1 DEF Lifecycle!lifecycleVars
  <2> QED
    BY <2>1, <2>2, <2>3, <2>4, <2>5
    DEF Next, Enqueue, Owner, Stop, ProcessLoop, Terminated, schedVars,
        Start, SpawnRunner, StartReturn, UpdateBackendInferFunc, StopCall,
        TimerExpires, StopDrained, StopClearRunning, StopBreak, RunnerTest,
        RunnerPop, RunnerPopNull, RunnerRead, RunnerInvoke, RunnerReturn,
        InferCrash
<1> QED
  BY <1>1, <1>2, InductiveInvariant, PTL
  DEF Spec, ImplementsLifecycle, Lifecycle!Spec
=============================================================================
