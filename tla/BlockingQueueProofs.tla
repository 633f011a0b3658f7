------------------------- MODULE BlockingQueueProofs -------------------------
(***************************************************************************)
(* Proofs about BlockingQueue for any number of threads, any capacity and  *)
(* any set of items.                                                       *)
(***************************************************************************)
EXTENDS BlockingQueue, TLAPS, FiniteSetTheorems

\* Every step keeps every variable of the queue within its type: an item
\* leaves buffer_ only as the result of a pop, and a producer has an item to
\* push exactly while it is inside push.
THEOREM TypeCorrect == Spec => []TypeOK
<1>1. Init => TypeOK
  <2> SUFFICES ASSUME Init
               PROVE  TypeOK
    OBVIOUS
  <2>1. buffer \in Seq(Items)
    BY DEF Init
  <2>2. broken \in BOOLEAN
    BY DEF Init
  <2>3. /\ pc \in [Threads -> {"idle", "running", "waiting"}]
        /\ arg \in [Producers -> Items \cup {None}]
        /\ got \in [Consumers -> Items \cup {None}]
        /\ fresh \in SUBSET Items
    BY DEF Init
  <2>4. \A p \in Producers : pc[p] = "idle" /\ arg[p] = None
    BY DEF Init, Threads
  <2> QED
    BY <2>1, <2>2, <2>3, <2>4 DEF TypeOK
<1>2. TypeOK /\ [Next]_vars => TypeOK'
  <2> SUFFICES ASSUME TypeOK, [Next]_vars
               PROVE  TypeOK'
    OBVIOUS
  <2> USE QueueAssumption DEF TypeOK, Threads
  <2>1. ASSUME NEW p \in Producers, NEW i \in Items, PushCall(p, i)
        PROVE  TypeOK'
    BY <2>1 DEF PushCall
  <2>2. ASSUME NEW p \in Producers, PushWait(p)
        PROVE  TypeOK'
    BY <2>2 DEF PushWait
  <2>3. ASSUME NEW p \in Producers, PushItem(p)
        PROVE  TypeOK'
    <3>1. arg[p] \in Items
      BY <2>3 DEF PushItem
    <3>2. buffer' \in Seq(Items)
      BY <2>3, <3>1 DEF PushItem
    <3>3. pc' \in [Threads -> {"idle", "running", "waiting"}]
      BY <2>3 DEF PushItem, ReturnAndNotifyOne, Waiting
    <3>4. \A q \in Producers : pc'[q] # "idle" <=> arg'[q] # None
      BY <2>3 DEF PushItem, ReturnAndNotifyOne, Waiting
    <3> QED
      BY <2>3, <3>2, <3>3, <3>4 DEF PushItem
  <2>4. ASSUME NEW p \in Producers, PushBroken(p)
        PROVE  TypeOK'
    BY <2>4 DEF PushBroken
  <2>5. ASSUME NEW c \in Consumers, PopCall(c)
        PROVE  TypeOK'
    BY <2>5 DEF PopCall
  <2>6. ASSUME NEW c \in Consumers, PopWait(c)
        PROVE  TypeOK'
    BY <2>6 DEF PopWait
  <2>7. ASSUME NEW c \in Consumers, PopItem(c)
        PROVE  TypeOK'
    <3>1. buffer' \in Seq(Items) /\ Head(buffer) \in Items
      BY <2>7 DEF PopItem
    <3>2. pc' \in [Threads -> {"idle", "running", "waiting"}]
      BY <2>7 DEF PopItem, ReturnAndNotifyOne, Waiting
    <3>3. \A q \in Producers : pc'[q] # "idle" <=> arg'[q] # None
      BY <2>7 DEF PopItem, ReturnAndNotifyOne, Waiting
    <3> QED
      BY <2>7, <3>1, <3>2, <3>3 DEF PopItem
  <2>8. ASSUME NEW c \in Consumers, PopBroken(c)
        PROVE  TypeOK'
    BY <2>8 DEF PopBroken
  <2>9. ASSUME NEW t \in Threads, SpuriousWakeup(t)
        PROVE  TypeOK'
    BY <2>9 DEF SpuriousWakeup
  <2>10. CASE BreakAll
    BY <2>10 DEF BreakAll
  <2>11. CASE UNCHANGED vars
    BY <2>11 DEF vars
  <2> QED
    BY <2>1, <2>2, <2>3, <2>4, <2>5, <2>6, <2>7, <2>8, <2>9, <2>10, <2>11
    DEF Next, Push, Pop
<1> QED
  BY <1>1, <1>2, PTL DEF Spec

-----------------------------------------------------------------------------

\* The threads of a finite side that are awake can be counted, and a side
\* with more of them awake counts at least as many.
LEMMA AwakeCount ==
  ASSUME NEW S, IsFiniteSet(S), NEW A \in SUBSET S, NEW B \in SUBSET A
  PROVE  /\ IsFiniteSet(A)
         /\ IsFiniteSet(B)
         /\ Cardinality(A) \in Nat
         /\ Cardinality(B) \in Nat
         /\ Cardinality(B) <= Cardinality(A)
<1>1. IsFiniteSet(A)
  BY FS_Subset
<1>2. IsFiniteSet(B) /\ Cardinality(B) <= Cardinality(A)
  BY <1>1, FS_Subset
<1> QED
  BY <1>1, <1>2, FS_CardinalityType

\* A step that only wakes threads up, or that lets them enter push or pop,
\* keeps the accounts of both sides.
LEMMA WakingKeepsWakeups ==
  ASSUME TypeOK, TypeOK', NoLostWakeup,
         buffer' = buffer,
         \A t \in Threads : pc[t] = "running" => pc'[t] = "running",
         \A t \in Threads : pc'[t] = "waiting" => pc[t] = "waiting"
  PROVE  ConsumerWakeups' /\ ProducerWakeups'
<1> USE DEF TypeOK, Threads
<1>1. Waiting(Consumers)' # {} => Waiting(Consumers) # {}
  BY DEF Waiting
<1>2. Waiting(Producers)' # {} => Waiting(Producers) # {}
  BY DEF Waiting
<1>3. /\ Running(Consumers)' \in SUBSET Consumers
      /\ Running(Consumers) \in SUBSET (Running(Consumers)')
      /\ Running(Producers)' \in SUBSET Producers
      /\ Running(Producers) \in SUBSET (Running(Producers)')
  BY DEF Running
<1>4. /\ Cardinality(Running(Consumers)) \in Nat
      /\ Cardinality(Running(Consumers)') \in Nat
      /\ Cardinality(Running(Consumers)) <= Cardinality(Running(Consumers)')
  BY <1>3, AwakeCount, QueueAssumption
<1>5. /\ Cardinality(Running(Producers)) \in Nat
      /\ Cardinality(Running(Producers)') \in Nat
      /\ Cardinality(Running(Producers)) <= Cardinality(Running(Producers)')
  BY <1>3, AwakeCount, QueueAssumption
<1>6. Len(buffer) \in Nat /\ Capacity \in Nat
  BY QueueAssumption
<1>7. ConsumerWakeups'
  <2> SUFFICES ASSUME Waiting(Consumers)' # {}
               PROVE  Len(buffer') <= Cardinality(Running(Consumers)')
    BY DEF ConsumerWakeups
  <2> QED
    BY <1>1, <1>4, <1>6 DEF NoLostWakeup, ConsumerWakeups
<1>8. ProducerWakeups'
  <2> SUFFICES ASSUME Waiting(Producers)' # {}
               PROVE  Capacity <= Len(buffer') + Cardinality(Running(Producers)')
    BY DEF ProducerWakeups
  <2> QED
    BY <1>2, <1>5, <1>6 DEF NoLostWakeup, ProducerWakeups
<1> QED
  BY <1>7, <1>8

\* When nobody sleeps there is no wakeup to lose.
LEMMA NobodySleeps ==
  ASSUME Waiting(Threads)' = {}
  PROVE  NoLostWakeup'
BY DEF NoLostWakeup, ConsumerWakeups, ProducerWakeups, BrokenWakesAll,
       Waiting, Threads

\* push and pop never lose a wakeup, although each calls notify_one on the
\* other side's condition variable and wakeups may be spurious; breakAll
\* leaves nobody asleep.
THEOREM WakeupsKept == Spec => []NoLostWakeup
<1>1. Init => NoLostWakeup
  <2> SUFFICES ASSUME Init
               PROVE  NoLostWakeup
    OBVIOUS
  <2>1. Waiting(Producers) = {} /\ Waiting(Consumers) = {} /\ Waiting(Threads) = {}
    BY DEF Init, Waiting, Threads
  <2> QED
    BY <2>1 DEF NoLostWakeup, ConsumerWakeups, ProducerWakeups, BrokenWakesAll
<1>2. TypeOK /\ TypeOK' /\ NoLostWakeup /\ [Next]_vars => NoLostWakeup'
  <2> SUFFICES ASSUME TypeOK, TypeOK', NoLostWakeup, [Next]_vars
               PROVE  NoLostWakeup'
    OBVIOUS
  <2>a. /\ Len(buffer) \in Nat
        /\ Len(buffer') \in Nat
        /\ Capacity \in Nat
        /\ Producers \cap Consumers = {}
    BY QueueAssumption DEF TypeOK
  <2>b. /\ IsFiniteSet(Running(Consumers))
        /\ Cardinality(Running(Consumers)) \in Nat
        /\ Cardinality(Running(Consumers)') \in Nat
    <3>1. /\ Running(Consumers) \in SUBSET Consumers
          /\ Running(Consumers)' \in SUBSET Consumers
      BY DEF Running
    <3> QED
      BY <3>1, AwakeCount, QueueAssumption
  <2>c. /\ IsFiniteSet(Running(Producers))
        /\ Cardinality(Running(Producers)) \in Nat
        /\ Cardinality(Running(Producers)') \in Nat
    <3>1. /\ Running(Producers) \in SUBSET Producers
          /\ Running(Producers)' \in SUBSET Producers
      BY DEF Running
    <3> QED
      BY <3>1, AwakeCount, QueueAssumption
  <2>1. ASSUME NEW p \in Producers, NEW i \in Items, PushCall(p, i)
        PROVE  NoLostWakeup'
    <3>1. ConsumerWakeups' /\ ProducerWakeups'
      BY <2>1, WakingKeepsWakeups DEF PushCall, TypeOK, Threads
    <3>2. BrokenWakesAll'
      BY <2>1 DEF PushCall, TypeOK, Threads, NoLostWakeup, BrokenWakesAll, Waiting
    <3> QED
      BY <3>1, <3>2 DEF NoLostWakeup
  <2>2. ASSUME NEW p \in Producers, PushWait(p)
        PROVE  NoLostWakeup'
    <3>1. ConsumerWakeups'
      <4>1. Running(Consumers)' = Running(Consumers) /\ Waiting(Consumers)' = Waiting(Consumers)
        BY <2>2, <2>a DEF PushWait, TypeOK, Threads, Running, Waiting
      <4> QED
        BY <4>1, <2>2 DEF PushWait, NoLostWakeup, ConsumerWakeups
    <3>2. ProducerWakeups'
      <4>1. Capacity <= Len(buffer') + Cardinality(Running(Producers)')
        BY <2>2, <2>a, <2>c DEF PushWait
      <4> QED
        BY <4>1 DEF ProducerWakeups
    <3>3. BrokenWakesAll'
      BY <2>2 DEF PushWait, BrokenWakesAll
    <3> QED
      BY <3>1, <3>2, <3>3 DEF NoLostWakeup
  <2>3. ASSUME NEW p \in Producers, PushItem(p)
        PROVE  NoLostWakeup'
    <3>1. Len(buffer') = Len(buffer) + 1
      BY <2>3 DEF PushItem, TypeOK
    <3>2. ProducerWakeups'
      <4>1. Running(Producers)' = Running(Producers) \ {p} /\ p \in Running(Producers)
        BY <2>3, <2>a DEF PushItem, ReturnAndNotifyOne, TypeOK, Threads, Running, Waiting
      <4>2. Waiting(Producers)' = Waiting(Producers)
        BY <2>3, <2>a DEF PushItem, ReturnAndNotifyOne, TypeOK, Threads, Waiting
      <4>3. Cardinality(Running(Producers)') = Cardinality(Running(Producers)) - 1
        BY <4>1, <2>c, FS_RemoveElement
      <4> SUFFICES ASSUME Waiting(Producers)' # {}
                   PROVE  Capacity <= Len(buffer') + Cardinality(Running(Producers)')
        BY DEF ProducerWakeups
      <4> QED
        BY <3>1, <4>2, <4>3, <2>a, <2>c DEF NoLostWakeup, ProducerWakeups
    <3>3. ConsumerWakeups'
      <4>1. CASE Waiting(Consumers) = {}
        <5>1. Waiting(Consumers)' = {}
          BY <4>1, <2>3 DEF PushItem, ReturnAndNotifyOne, TypeOK, Threads, Waiting
        <5> QED
          BY <5>1 DEF ConsumerWakeups
      <4>2. CASE Waiting(Consumers) # {}
        <5>1. PICK w \in Waiting(Consumers) :
                 pc' = [pc EXCEPT ![p] = "idle", ![w] = "running"]
          BY <4>2, <2>3 DEF PushItem, ReturnAndNotifyOne
        <5>2. Running(Consumers)' = Running(Consumers) \cup {w} /\ w \notin Running(Consumers)
          BY <5>1, <2>a DEF TypeOK, Threads, Running, Waiting
        <5>3. Cardinality(Running(Consumers)') = Cardinality(Running(Consumers)) + 1
          BY <5>2, <2>b, FS_AddElement
        <5> QED
          BY <3>1, <4>2, <5>3, <2>a, <2>b DEF NoLostWakeup, ConsumerWakeups
      <4> QED
        BY <4>1, <4>2
    <3>4. BrokenWakesAll'
      BY <2>3 DEF PushItem, BrokenWakesAll
    <3> QED
      BY <3>2, <3>3, <3>4 DEF NoLostWakeup
  <2>4. ASSUME NEW p \in Producers, PushBroken(p)
        PROVE  NoLostWakeup'
    <3>1. Waiting(Threads)' = {}
      BY <2>4 DEF PushBroken, TypeOK, Threads, NoLostWakeup, BrokenWakesAll, Waiting
    <3> QED
      BY <3>1, NobodySleeps
  <2>5. ASSUME NEW c \in Consumers, PopCall(c)
        PROVE  NoLostWakeup'
    <3>1. ConsumerWakeups' /\ ProducerWakeups'
      BY <2>5, WakingKeepsWakeups DEF PopCall, TypeOK, Threads
    <3>2. BrokenWakesAll'
      BY <2>5 DEF PopCall, TypeOK, Threads, NoLostWakeup, BrokenWakesAll, Waiting
    <3> QED
      BY <3>1, <3>2 DEF NoLostWakeup
  <2>6. ASSUME NEW c \in Consumers, PopWait(c)
        PROVE  NoLostWakeup'
    <3>1. ConsumerWakeups'
      <4>1. Len(buffer') <= Cardinality(Running(Consumers)')
        BY <2>6, <2>b DEF PopWait
      <4> QED
        BY <4>1 DEF ConsumerWakeups
    <3>2. ProducerWakeups'
      <4>1. Running(Producers)' = Running(Producers) /\ Waiting(Producers)' = Waiting(Producers)
        BY <2>6, <2>a DEF PopWait, TypeOK, Threads, Running, Waiting
      <4> QED
        BY <4>1, <2>6 DEF PopWait, NoLostWakeup, ProducerWakeups
    <3>3. BrokenWakesAll'
      BY <2>6 DEF PopWait, BrokenWakesAll
    <3> QED
      BY <3>1, <3>2, <3>3 DEF NoLostWakeup
  <2>7. ASSUME NEW c \in Consumers, PopItem(c)
        PROVE  NoLostWakeup'
    <3>1. Len(buffer') = Len(buffer) - 1
      BY <2>7 DEF PopItem, TypeOK
    <3>2. ConsumerWakeups'
      <4>1. Running(Consumers)' = Running(Consumers) \ {c} /\ c \in Running(Consumers)
        BY <2>7, <2>a DEF PopItem, ReturnAndNotifyOne, TypeOK, Threads, Running, Waiting
      <4>2. Waiting(Consumers)' = Waiting(Consumers)
        BY <2>7, <2>a DEF PopItem, ReturnAndNotifyOne, TypeOK, Threads, Waiting
      <4>3. Cardinality(Running(Consumers)') = Cardinality(Running(Consumers)) - 1
        BY <4>1, <2>b, FS_RemoveElement
      <4> SUFFICES ASSUME Waiting(Consumers)' # {}
                   PROVE  Len(buffer') <= Cardinality(Running(Consumers)')
        BY DEF ConsumerWakeups
      <4> QED
        BY <3>1, <4>2, <4>3, <2>a, <2>b DEF NoLostWakeup, ConsumerWakeups
    <3>3. ProducerWakeups'
      <4>1. CASE Waiting(Producers) = {}
        <5>1. Waiting(Producers)' = {}
          BY <4>1, <2>7 DEF PopItem, ReturnAndNotifyOne, TypeOK, Threads, Waiting
        <5> QED
          BY <5>1 DEF ProducerWakeups
      <4>2. CASE Waiting(Producers) # {}
        <5>1. PICK w \in Waiting(Producers) :
                 pc' = [pc EXCEPT ![c] = "idle", ![w] = "running"]
          BY <4>2, <2>7 DEF PopItem, ReturnAndNotifyOne
        <5>2. Running(Producers)' = Running(Producers) \cup {w} /\ w \notin Running(Producers)
          BY <5>1, <2>a DEF TypeOK, Threads, Running, Waiting
        <5>3. Cardinality(Running(Producers)') = Cardinality(Running(Producers)) + 1
          BY <5>2, <2>c, FS_AddElement
        <5> QED
          BY <3>1, <4>2, <5>3, <2>a, <2>c DEF NoLostWakeup, ProducerWakeups
      <4> QED
        BY <4>1, <4>2
    <3>4. BrokenWakesAll'
      BY <2>7 DEF PopItem, BrokenWakesAll
    <3> QED
      BY <3>2, <3>3, <3>4 DEF NoLostWakeup
  <2>8. ASSUME NEW c \in Consumers, PopBroken(c)
        PROVE  NoLostWakeup'
    <3>1. Waiting(Threads)' = {}
      BY <2>8 DEF PopBroken, TypeOK, Threads, NoLostWakeup, BrokenWakesAll, Waiting
    <3> QED
      BY <3>1, NobodySleeps
  <2>9. ASSUME NEW t \in Threads, SpuriousWakeup(t)
        PROVE  NoLostWakeup'
    <3>1. ConsumerWakeups' /\ ProducerWakeups'
      BY <2>9, WakingKeepsWakeups DEF SpuriousWakeup, TypeOK, Threads
    <3>2. BrokenWakesAll'
      BY <2>9 DEF SpuriousWakeup, TypeOK, Threads, NoLostWakeup, BrokenWakesAll, Waiting
    <3> QED
      BY <3>1, <3>2 DEF NoLostWakeup
  <2>10. CASE BreakAll
    <3>1. Waiting(Threads)' = {}
      BY <2>10 DEF BreakAll, TypeOK, Threads, Waiting
    <3> QED
      BY <3>1, NobodySleeps
  <2>11. CASE UNCHANGED vars
    BY <2>11 DEF vars, NoLostWakeup, ConsumerWakeups, ProducerWakeups,
                 BrokenWakesAll, Waiting, Running
  <2> QED
    BY <2>1, <2>2, <2>3, <2>4, <2>5, <2>6, <2>7, <2>8, <2>9, <2>10, <2>11
    DEF Next, Push, Pop
<1> QED
  BY <1>1, <1>2, TypeCorrect, PTL DEF Spec

-----------------------------------------------------------------------------

\* The queue implements BoundedFifo: whatever the threads do, buffer_ and
\* broken_ change as those of a bounded first-in-first-out queue with atomic
\* operations.
THEOREM QueueIsFifo == Spec => FifoSpec
<1>1. Init => Fifo!Init
  BY DEF Init, Fifo!Init
<1>2. TypeOK /\ [Next]_vars => [Fifo!Next]_Fifo!fifoVars
  <2> SUFFICES ASSUME TypeOK, [Next]_vars
               PROVE  [Fifo!Next]_Fifo!fifoVars
    OBVIOUS
  <2> USE DEF Fifo!Next, Fifo!fifoVars
  <2>1. ASSUME NEW p \in Producers, PushItem(p)
        PROVE  Fifo!Next
    <3>1. arg[p] \in Items
      BY <2>1, QueueAssumption DEF PushItem, TypeOK, Threads
    <3>2. Fifo!Put(arg[p])
      BY <2>1 DEF PushItem, Fifo!Put
    <3> QED
      BY <3>1, <3>2
  <2>2. ASSUME NEW c \in Consumers, PopItem(c)
        PROVE  Fifo!Next
    BY <2>2 DEF PopItem, Fifo!Get
  <2>3. ASSUME BreakAll
        PROVE  Fifo!Next
    BY <2>3 DEF BreakAll, Fifo!Close
  <2>4. ASSUME UNCHANGED <<buffer, broken>>
        PROVE  [Fifo!Next]_Fifo!fifoVars
    BY <2>4
  <2> QED
    BY <2>1, <2>2, <2>3, <2>4
    DEF Next, Push, Pop, PushCall, PushWait, PushBroken, PopCall, PopWait,
        PopBroken, SpuriousWakeup, vars
<1> QED
  BY <1>1, <1>2, TypeCorrect, PTL DEF Spec, FifoSpec, Fifo!Spec
=============================================================================
