----------------------------- MODULE BoundedFifo -----------------------------
(***************************************************************************)
(* What SimpleScheduler relies on when it uses BlockingQueue<T>: a bounded *)
(* first-in-first-out queue with one atomic step per push or pop that      *)
(* takes effect, and a switch, thrown once, after which nothing goes in    *)
(* and nothing comes out any more.                                         *)
(*                                                                         *)
(* BlockingQueue.tla shows that the mutex and the two condition variables  *)
(* of the code implement this; SimpleScheduler.tla builds on it.           *)
(***************************************************************************)
EXTENDS Naturals, Sequences

CONSTANTS
    Items,      \* what can be queued
    Capacity    \* BlockingQueue::capacity_

VARIABLES
    queue,      \* BlockingQueue::buffer_
    closed      \* BlockingQueue::broken_

fifoVars == <<queue, closed>>

\* A push that finds the queue open and below its capacity.
Put(i) ==
    /\ ~closed
    /\ Len(queue) < Capacity
    /\ queue' = Append(queue, i)
    /\ UNCHANGED closed

\* A pop that finds the queue open and not empty.
Get ==
    /\ ~closed
    /\ queue # <<>>
    /\ queue' = Tail(queue)
    /\ UNCHANGED closed

\* breakAll: what is still queued stays queued, for ever.
Close ==
    /\ closed' = TRUE
    /\ UNCHANGED queue

Init ==
    /\ queue = <<>>
    /\ closed = FALSE

Next ==
    \/ \E i \in Items : Put(i)
    \/ Get
    \/ Close

Spec == Init /\ [][Next]_fifoVars

\* With consumers that keep popping, an open queue does not stay full of work.
FairSpec == Spec /\ WF_fifoVars(Get)
=============================================================================
