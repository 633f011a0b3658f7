-------------------------- MODULE MCSimpleScheduler --------------------------
(* Instances of SimpleScheduler for TLC. *)
EXTENDS SimpleScheduler

CONSTANTS r1, r2, r3

\* As many payloads as two runners and the queue hold: an Enqueue blocks
\* behind a runner that has not come round.
MCPayloads == {r1, r2, r3}
=============================================================================
