---------------------------- MODULE MCGrpcServer ----------------------------
(* The instance of GrpcServer for TLC. *)
EXTENDS GrpcServer, TLC

\* Two inferences, so that a runner answers one while the next is enqueued,
\* and a status call that meets both; the third handler waits for a call.
Calls == (Infer :> 2) @@ (Status :> 1) @@ (Health :> 0)
=============================================================================
