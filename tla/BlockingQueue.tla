---------------------------- MODULE BlockingQueue ----------------------------
(***************************************************************************)
(* template BlockingQueue<T> of core/scheduler/simple_scheduler.h: a deque *)
(* guarded by mutex_, the condition variables push_event_ (consumers wait  *)
(* on it) and pop_event_ (producers wait on it), and the flag broken_.     *)
(*                                                                         *)
(* Every critical section runs under mutex_ from its acquisition to the    *)
(* return or to the wait that releases it, so it is one step.  A thread    *)
(* that is notified, or that wakes up spuriously, has to take mutex_ again *)
(* and re-evaluates its predicate: it is back where it entered.            *)
(***************************************************************************)
EXTENDS Naturals, Sequences, FiniteSets

CONSTANTS
    Producers,  \* threads that call push
    Consumers,  \* threads that call pop
    Items,      \* payloads; every one is pushed at most once
    Capacity,   \* capacity_
    None        \* no item

ASSUME QueueAssumption ==
    /\ IsFiniteSet(Producers)
    /\ IsFiniteSet(Consumers)
    /\ Producers \cap Consumers = {}
    /\ Capacity \in Nat
    /\ None \notin Items

VARIABLES
    buffer,     \* buffer_
    broken,     \* broken_
    pc,         \* where each thread is: idle, running (in push or pop, wants
                \* mutex_) or waiting (asleep on its condition variable)
    arg,        \* the item a producer is pushing
    got,        \* what the last pop of a consumer returned
    fresh       \* the items no producer has pushed yet

vars == <<buffer, broken, pc, arg, got, fresh>>

Threads == Producers \cup Consumers

\* The threads of S that sleep on the condition variable of their side.
Waiting(S) == {t \in S : pc[t] = "waiting"}

\* The threads of S that are inside push or pop and not asleep.
Running(S) == {t \in S : pc[t] = "running"}

-----------------------------------------------------------------------------

Init ==
    /\ buffer = <<>>
    /\ broken = FALSE
    /\ pc = [t \in Threads |-> "idle"]
    /\ arg = [p \in Producers |-> None]
    /\ got = [c \in Consumers |-> None]
    /\ fresh = Items

\* Thread t returns and, when some thread of S sleeps, one of them is notified.
ReturnAndNotifyOne(t, S) ==
    \/ /\ Waiting(S) = {}
       /\ pc' = [pc EXCEPT ![t] = "idle"]
    \/ \E w \in Waiting(S) :
          pc' = [pc EXCEPT ![t] = "idle", ![w] = "running"]

PushCall(p, i) ==
    /\ pc[p] = "idle"
    /\ i \in fresh
    /\ pc' = [pc EXCEPT ![p] = "running"]
    /\ arg' = [arg EXCEPT ![p] = i]
    /\ fresh' = fresh \ {i}
    /\ UNCHANGED <<buffer, broken, got>>

\* The predicate is false: pop_event_.wait releases mutex_ and sleeps.
PushWait(p) ==
    /\ pc[p] = "running"
    /\ ~broken
    /\ Len(buffer) >= Capacity
    /\ pc' = [pc EXCEPT ![p] = "waiting"]
    /\ UNCHANGED <<buffer, broken, arg, got, fresh>>

\* Slip: push_event_ is not notified.
PushItem_Silent(p) ==
    /\ pc[p] = "running" /\ ~broken /\ Len(buffer) < Capacity
    /\ buffer' = Append(buffer, arg[p])
    /\ pc' = [pc EXCEPT ![p] = "idle"]
    /\ arg' = [arg EXCEPT ![p] = None]
    /\ UNCHANGED <<broken, got, fresh>>

\* Slip: the predicate compares with <= instead of <.
PushItem_OneTooMany(p) ==
    /\ pc[p] = "running" /\ ~broken /\ Len(buffer) <= Capacity
    /\ buffer' = Append(buffer, arg[p])
    /\ ReturnAndNotifyOne(p, Consumers)
    /\ arg' = [arg EXCEPT ![p] = None]
    /\ UNCHANGED <<broken, got, fresh>>

PushItem(p) ==
    /\ pc[p] = "running"
    /\ ~broken
    /\ Len(buffer) < Capacity
    /\ buffer' = Append(buffer, arg[p])
    /\ ReturnAndNotifyOne(p, Consumers)
    /\ arg' = [arg EXCEPT ![p] = None]
    /\ UNCHANGED <<broken, got, fresh>>

\* push returns nothing, so its caller cannot tell that the item was dropped.
PushBroken(p) ==
    /\ pc[p] = "running"
    /\ broken
    /\ pc' = [pc EXCEPT ![p] = "idle"]
    /\ arg' = [arg EXCEPT ![p] = None]
    /\ UNCHANGED <<buffer, broken, got, fresh>>

PopCall(c) ==
    /\ pc[c] = "idle"
    /\ pc' = [pc EXCEPT ![c] = "running"]
    /\ UNCHANGED <<buffer, broken, arg, got, fresh>>

PopWait(c) ==
    /\ pc[c] = "running"
    /\ ~broken
    /\ buffer = <<>>
    /\ pc' = [pc EXCEPT ![c] = "waiting"]
    /\ UNCHANGED <<buffer, broken, arg, got, fresh>>

\* Slip: pop_event_ is not notified.
PopItem_Silent(c) ==
    /\ pc[c] = "running" /\ ~broken /\ buffer # <<>>
    /\ got' = [got EXCEPT ![c] = Head(buffer)]
    /\ buffer' = Tail(buffer)
    /\ pc' = [pc EXCEPT ![c] = "idle"]
    /\ UNCHANGED <<broken, arg, fresh>>

PopItem(c) ==
    /\ pc[c] = "running"
    /\ ~broken
    /\ buffer # <<>>
    /\ got' = [got EXCEPT ![c] = Head(buffer)]
    /\ buffer' = Tail(buffer)
    /\ ReturnAndNotifyOne(c, Producers)
    /\ UNCHANGED <<broken, arg, fresh>>

\* A broken queue yields T(), the null payload, even when it is not empty.
PopBroken(c) ==
    /\ pc[c] = "running"
    /\ broken
    /\ got' = [got EXCEPT ![c] = None]
    /\ pc' = [pc EXCEPT ![c] = "idle"]
    /\ UNCHANGED <<buffer, broken, arg, fresh>>

\* breakAll, called by SimpleScheduler::Stop and by the destructor: both
\* condition variables are notified.
BreakAll ==
    /\ broken' = TRUE
    /\ pc' = [t \in Threads |-> IF pc[t] = "waiting" THEN "running" ELSE pc[t]]
    /\ UNCHANGED <<buffer, arg, got, fresh>>

\* A condition variable may wake a thread that nobody notified.
SpuriousWakeup(t) ==
    /\ pc[t] = "waiting"
    /\ pc' = [pc EXCEPT ![t] = "running"]
    /\ UNCHANGED <<buffer, broken, arg, got, fresh>>

Push(p) == PushWait(p) \/ PushItem(p) \/ PushBroken(p)

Pop(c) == PopWait(c) \/ PopItem(c) \/ PopBroken(c)

Next ==
    \/ \E p \in Producers, i \in Items : PushCall(p, i)
    \/ \E p \in Producers : Push(p)
    \/ \E c \in Consumers : PopCall(c)
    \/ \E c \in Consumers : Pop(c)
    \/ \E t \in Threads : SpuriousWakeup(t)
    \/ BreakAll

Spec == Init /\ [][Next]_vars

\* A thread that wants mutex_ gets it some day (no critical section blocks
\* with it held), and the runners call pop again as soon as they return from
\* it.  Nothing makes a producer push, breakAll happen or a wakeup be spurious.
Fairness ==
    /\ \A p \in Producers : WF_vars(Push(p))
    /\ \A c \in Consumers : WF_vars(Pop(c)) /\ WF_vars(PopCall(c))

FairSpec == Spec /\ Fairness

-----------------------------------------------------------------------------

TypeOK ==
    /\ buffer \in Seq(Items)
    /\ broken \in BOOLEAN
    /\ pc \in [Threads -> {"idle", "running", "waiting"}]
    /\ arg \in [Producers -> Items \cup {None}]
    /\ got \in [Consumers -> Items \cup {None}]
    /\ fresh \in SUBSET Items
    /\ \A p \in Producers : pc[p] # "idle" <=> arg[p] # None

(***************************************************************************)
(* No wakeup is lost, although push and pop call notify_one, not           *)
(* notify_all: as long as a consumer sleeps, the others that are awake     *)
(* inside pop are at least as many as the queued items, and as long as a   *)
(* producer sleeps, those awake inside push are at least as many as the    *)
(* free slots.  After breakAll nobody sleeps.                              *)
(***************************************************************************)
ConsumerWakeups ==
    Waiting(Consumers) # {} => Len(buffer) <= Cardinality(Running(Consumers))

ProducerWakeups ==
    Waiting(Producers) # {} =>
        Capacity <= Len(buffer) + Cardinality(Running(Producers))

BrokenWakesAll ==
    broken => Waiting(Threads) = {}

NoLostWakeup == ConsumerWakeups /\ ProducerWakeups /\ BrokenWakesAll

(***************************************************************************)
(* The queue implements BoundedFifo: only a push that found room adds,     *)
(* only a pop of an open queue removes, in order, and breakAll freezes     *)
(* what is left; the fair version adds that queued items are taken.        *)
(***************************************************************************)
Fifo == INSTANCE BoundedFifo WITH queue <- buffer, closed <- broken

FifoSpec == Fifo!Spec

ImplementsBoundedFifo == Fifo!FairSpec

(***************************************************************************)
(* A producer blocked on a full queue gets through, or the queue breaks    *)
(* under it: with consumers that keep popping, push returns.               *)
(***************************************************************************)
PushReturns ==
    \A p \in Producers : (pc[p] # "idle") ~> (pc[p] = "idle")
=============================================================================
