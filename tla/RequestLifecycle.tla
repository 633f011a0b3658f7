-------------------------- MODULE RequestLifecycle --------------------------
(***************************************************************************)
(* What a scheduler owes to those who hand requests to it.  A request is   *)
(* accepted or rejected; an accepted one is answered (its                  *)
(* OnInferCompleted is called) at most once, a rejected one never; and     *)
(* once the scheduler is over, that is once Stop has returned and its      *)
(* owner is free to destroy it, no answer comes any more.                  *)
(***************************************************************************)
CONSTANTS
    Requests

VARIABLES
    state,      \* of every request: new, accepted, rejected or answered
    over        \* the scheduler has been stopped

lifecycleVars == <<state, over>>

Init ==
    /\ state = [r \in Requests |-> "new"]
    /\ over = FALSE

Accept(r) ==
    /\ state[r] = "new"
    /\ state' = [state EXCEPT ![r] = "accepted"]
    /\ UNCHANGED over

Reject(r) ==
    /\ state[r] = "new"
    /\ state' = [state EXCEPT ![r] = "rejected"]
    /\ UNCHANGED over

Answer(r) ==
    /\ ~over
    /\ state[r] = "accepted"
    /\ state' = [state EXCEPT ![r] = "answered"]
    /\ UNCHANGED over

Finish ==
    /\ over' = TRUE
    /\ UNCHANGED state

Next ==
    \/ \E r \in Requests : Accept(r) \/ Reject(r) \/ Answer(r)
    \/ Finish

Spec == Init /\ [][Next]_lifecycleVars
=============================================================================
