--------------------------- MODULE MCBlockingQueue ---------------------------
(* Instances of BlockingQueue for TLC. *)
EXTENDS BlockingQueue

CONSTANTS p1, p2, p3, c1, c2, c3, i1, i2, i3, i4

\* Three producers on a queue of two slots, three consumers: both sides can
\* have several sleepers, and a notification can reach the wrong one.
MCProducers == {p1, p2, p3}
MCConsumers == {c1, c2, c3}
MCItems == {i1, i2, i3, i4}
=============================================================================
