----------------------------- MODULE ServiceMain -----------------------------
(***************************************************************************)
(* main: load the configuration, start the service, wait for a signal, and *)
(* stop, after a pause when the signal was SIGTERM.                        *)
(*                                                                         *)
(* signalHandler runs on whatever thread the signal is delivered to, on    *)
(* top of what that thread is doing.  While a handler runs, its thread     *)
(* takes no second signal of the same kind, but one of the other kind can  *)
(* interrupt it.  The handler takes exit_mu_, which the interrupted code   *)
(* may hold.  Nothing is known of the other threads but that they exist    *)
(* once the service has been constructed.                                  *)
(***************************************************************************)
EXTENDS ServiceConfig, Sequences

CONSTANTS
    SigTerms, SigInts,  \* the signals sent to the process
    OtherThreads,
    Main,               \* the main thread
    Files,              \* the configuration files
    Nobody

Signals == SigTerms \cup SigInts
Threads == OtherThreads \cup {Main}

ASSUME MainAssumption ==
    /\ SigTerms \cap SigInts = {}
    /\ Main \notin OtherThreads
    /\ Main \notin Signals
    /\ Nobody \notin Signals \cup {Main}
    /\ Files \subseteq YamlFile

VARIABLES
    config,     \* service_config
    bound,      \* BuildAndStart returned a server
    exiting,    \* exiting_
    mutex,      \* exit_mu_: Nobody, Main outside a handler, or a signal's handler
    mpc,        \* where main is
    hpc,        \* of every signal: where its handler is
    stack,      \* of every thread: the handlers on it, the running one last
    late,       \* history: the signals that looked at exiting_ after its reset
    setAt,      \* history: where main was when exiting_ was set
    slept       \* history: main paused before stopping

mainVars    == <<config, bound, mpc, slept>>
handlerVars == <<hpc, stack, late, setAt>>
vars == <<mainVars, handlerVars, exiting, mutex>>

-----------------------------------------------------------------------------

\* The signal handlers have been installed.
Init ==
    /\ \E file \in Files : config = [file |-> file, values |-> Missing]
    /\ bound = FALSE
    /\ exiting = "NoSignal"
    /\ mutex = Nobody
    /\ mpc = "loading"
    /\ hpc = [s \in Signals |-> "pending"]
    /\ stack = [t \in Threads |-> <<>>]
    /\ late = {}
    /\ setAt = "never"
    /\ slept = FALSE

(***************************************************************************)
(* main.                                                                   *)
(***************************************************************************)
MainStep(from) == mpc = from /\ stack[Main] = <<>>

LoadConfig ==
    /\ MainStep("loading")
    /\ IF LoadThrows(config.file)
       THEN mpc' = "crashed" /\ UNCHANGED config
       ELSE mpc' = "starting" /\ config' = [config EXCEPT !.values = LoadServerConfig(config.file)]
    /\ UNCHANGED <<bound, slept, handlerVars, exiting, mutex>>

\* The constructor of InferenceCore may throw.  Start succeeds with or without
\* a server: an empty address is never bound, another may be in use.
StartCore ==
    /\ MainStep("starting")
    /\ mpc' \in {"reset", "crashed"}
    /\ bound' \in IF config.values.grpc_server_addr = "" THEN {FALSE} ELSE BOOLEAN
    /\ UNCHANGED <<config, slept, handlerVars, exiting, mutex>>

ResetLock ==
    /\ MainStep("reset")
    /\ mutex = Nobody
    /\ mutex' = Main
    /\ mpc' = "resetting"
    /\ UNCHANGED <<config, bound, slept, handlerVars, exiting>>

ResetFlag ==
    /\ MainStep("resetting")
    /\ exiting' = "NoSignal"
    /\ mutex' = Nobody
    /\ mpc' = "test"
    /\ UNCHANGED <<config, bound, slept, handlerVars>>

LoopTest ==
    /\ MainStep("test")
    /\ mpc' = IF exiting = "NoSignal" THEN "lock" ELSE "decide"
    /\ UNCHANGED <<config, bound, slept, handlerVars, exiting, mutex>>

WaitLock ==
    /\ MainStep("lock")
    /\ mutex = Nobody
    /\ mutex' = Main
    /\ mpc' = "locked"
    /\ UNCHANGED <<config, bound, slept, handlerVars, exiting>>

WaitBegin ==
    /\ MainStep("locked")
    /\ mutex' = Nobody
    /\ mpc' = "waiting"
    /\ UNCHANGED <<config, bound, slept, handlerVars, exiting>>

\* The hour is over, or for no reason.
WaitTimeout ==
    /\ MainStep("waiting")
    /\ mpc' = "waking"
    /\ UNCHANGED <<config, bound, slept, handlerVars, exiting, mutex>>

WaitReacquire ==
    /\ MainStep("waking")
    /\ mutex = Nobody
    /\ mutex' = Main
    /\ mpc' = "woken"
    /\ UNCHANGED <<config, bound, slept, handlerVars, exiting>>

LoopEnd ==
    /\ MainStep("woken")
    /\ mutex' = Nobody
    /\ mpc' = "test"
    /\ UNCHANGED <<config, bound, slept, handlerVars, exiting>>

\* Slip: the pause is for the other signal.
Decide_Immediate ==
    /\ MainStep("decide")
    /\ mpc' = IF exiting = "ImmediateExit" THEN "sleeping" ELSE "stopping"
    /\ UNCHANGED <<config, bound, slept, handlerVars, exiting, mutex>>

Decide ==
    /\ MainStep("decide")
    /\ mpc' = IF exiting = "GraceExit" THEN "sleeping" ELSE "stopping"
    /\ UNCHANGED <<config, bound, slept, handlerVars, exiting, mutex>>

\* Slip: while instead of if.
SleepEnd_While ==
    /\ MainStep("sleeping")
    /\ slept' = TRUE
    /\ mpc' = "decide"
    /\ UNCHANGED <<config, bound, handlerVars, exiting, mutex>>

SleepEnd ==
    /\ MainStep("sleeping")
    /\ slept' = TRUE
    /\ mpc' = "stopping"
    /\ UNCHANGED <<config, bound, handlerVars, exiting, mutex>>

\* Without a server a null pointer is dereferenced.  With one, Stop returns or
\* not: it waits for the calls in progress, and one whose payload a scheduler
\* has dropped is never finished (StopReturns in GrpcServer).
StopCore ==
    /\ MainStep("stopping")
    /\ mpc' \in IF bound THEN {"exited", "hung"} ELSE {"crashed"}
    /\ UNCHANGED <<config, bound, slept, handlerVars, exiting, mutex>>

Over == mpc \in {"exited", "crashed"}
Hung == mpc = "hung"

(***************************************************************************)
(* signalHandler.                                                          *)
(***************************************************************************)
\* The handlers die with the process.
Running(s, t) == ~Over /\ stack[t] # <<>> /\ stack[t][Len(stack[t])] = s

SameKind(s, r) == s \in SigTerms <=> r \in SigTerms

Return(t) == stack' = [stack EXCEPT ![t] = SubSeq(stack[t], 1, Len(stack[t]) - 1)]

Deliver(s, t) ==
    /\ ~Over
    /\ hpc[s] = "pending"
    /\ t # Main => mpc \notin {"loading", "starting"}
    /\ \A i \in DOMAIN stack[t] : ~SameKind(s, stack[t][i])
    /\ hpc' = [hpc EXCEPT ![s] = "entered"]
    /\ stack' = [stack EXCEPT ![t] = Append(stack[t], s)]
    /\ UNCHANGED <<mainVars, late, setAt, exiting, mutex>>

HandlerTest(s, t) ==
    /\ Running(s, t)
    /\ hpc[s] = "entered"
    /\ late' = IF mpc \in {"loading", "starting", "reset", "resetting"} THEN late
               ELSE late \cup {s}
    /\ \/ /\ exiting = "NoSignal"
          /\ hpc' = [hpc EXCEPT ![s] = "locking"]
          /\ UNCHANGED stack
       \/ /\ exiting # "NoSignal"
          /\ hpc' = [hpc EXCEPT ![s] = "ignored"]
          /\ Return(t)
    /\ UNCHANGED <<mainVars, setAt, exiting, mutex>>

\* Slip: the lock is not waited for, and the handler returns without it.
HandlerLock_Try(s, t) ==
    /\ Running(s, t)
    /\ hpc[s] = "locking"
    /\ \/ /\ mutex = Nobody
          /\ mutex' = s
          /\ hpc' = [hpc EXCEPT ![s] = "locked"]
          /\ UNCHANGED stack
       \/ /\ mutex # Nobody
          /\ hpc' = [hpc EXCEPT ![s] = "ignored"]
          /\ Return(t)
          /\ UNCHANGED mutex
    /\ UNCHANGED <<mainVars, late, setAt, exiting>>

\* Slip: no lock.
HandlerLock_Not(s, t) ==
    /\ Running(s, t)
    /\ hpc[s] = "locking"
    /\ hpc' = [hpc EXCEPT ![s] = "locked"]
    /\ UNCHANGED <<mainVars, stack, late, setAt, exiting, mutex>>

HandlerLock(s, t) ==
    /\ Running(s, t)
    /\ hpc[s] = "locking"
    /\ mutex = Nobody
    /\ mutex' = s
    /\ hpc' = [hpc EXCEPT ![s] = "locked"]
    /\ UNCHANGED <<mainVars, stack, late, setAt, exiting>>

HandlerSet(s, t) ==
    /\ Running(s, t)
    /\ hpc[s] = "locked"
    /\ exiting' = IF s \in SigTerms THEN "GraceExit" ELSE "ImmediateExit"
    /\ setAt' = IF exiting = "NoSignal" THEN mpc ELSE setAt
    /\ mutex' = Nobody
    /\ hpc' = [hpc EXCEPT ![s] = "notifying"]
    /\ UNCHANGED <<mainVars, stack, late>>

\* Slip: nobody is notified.
HandlerNotify_Not(s, t) ==
    /\ Running(s, t)
    /\ hpc[s] = "notifying"
    /\ hpc' = [hpc EXCEPT ![s] = "done"]
    /\ Return(t)
    /\ UNCHANGED <<mainVars, late, setAt, exiting, mutex>>

HandlerNotify(s, t) ==
    /\ Running(s, t)
    /\ hpc[s] = "notifying"
    /\ mpc' = IF mpc = "waiting" THEN "waking" ELSE mpc
    /\ hpc' = [hpc EXCEPT ![s] = "done"]
    /\ Return(t)
    /\ UNCHANGED <<config, bound, slept, late, setAt, exiting, mutex>>

-----------------------------------------------------------------------------

MainProgram ==
    \/ LoadConfig \/ StartCore \/ ResetLock \/ ResetFlag
    \/ LoopTest \/ WaitLock \/ WaitBegin \/ WaitTimeout \/ WaitReacquire \/ LoopEnd
    \/ Decide \/ SleepEnd \/ StopCore

signalHandler(t) ==
    \E s \in Signals :
        HandlerTest(s, t) \/ HandlerLock(s, t) \/ HandlerSet(s, t) \/ HandlerNotify(s, t)

\* A handler waits for a mutex that its own thread holds, in the code it
\* interrupted or in a handler further down the stack: it waits for ever.
Stuck ==
    \E t \in Threads, s \in Signals :
        /\ Running(s, t)
        /\ hpc[s] = "locking"
        /\ \/ t = Main /\ mutex = Main
           \/ \E i \in DOMAIN stack[t] : stack[t][i] = mutex

Terminated ==
    /\ Over \/ Stuck \/ Hung
    /\ UNCHANGED vars

Next ==
    \/ MainProgram
    \/ \E s \in Signals, t \in Threads : Deliver(s, t)
    \/ \E t \in Threads : signalHandler(t)
    \/ Terminated

Spec == Init /\ [][Next]_vars

(***************************************************************************)
(* Threads run on, and the hour passes.  main gives the mutex up while it  *)
(* waits, so that a handler that asks for it gets it at some time, however *)
(* often main wakes up.  No signal need be sent.                           *)
(***************************************************************************)
Fairness ==
    /\ WF_vars(MainProgram)
    /\ \A t \in Threads :
          /\ WF_vars(signalHandler(t))
          /\ SF_vars(\E s \in Signals : HandlerLock(s, t))

FairSpec == Spec /\ Fairness

-----------------------------------------------------------------------------

TypeOK ==
    /\ \E file \in Files :
          config \in [file : {file},
                     values : IF LoadThrows(file) THEN {Missing}
                              ELSE {Missing, LoadServerConfig(file)}]
    /\ bound \in BOOLEAN
    /\ exiting \in {"NoSignal", "GraceExit", "ImmediateExit"}
    /\ mutex \in Signals \cup {Main, Nobody}
    /\ mpc \in {"loading", "starting", "reset", "resetting", "test", "lock", "locked",
                "waiting", "waking", "woken", "decide", "sleeping", "stopping",
                "hung", "exited", "crashed"}
    /\ hpc \in [Signals -> {"pending", "entered", "locking", "locked", "notifying", "done",
                        "ignored"}]
    /\ stack \in [Threads -> Seq(Signals)]
    /\ late \subseteq Signals
    /\ setAt \in {"never", "loading", "starting", "reset", "test", "lock",
                  "waiting", "waking", "decide", "sleeping", "stopping"}
    /\ slept \in BOOLEAN

(***************************************************************************)
(* A signal that comes once main has reset the flag is not forgotten: when *)
(* its handler has returned, exiting_ is set, and nothing resets it.       *)
(***************************************************************************)
LateSignalKept ==
    \A s \in late : hpc[s] \in {"notifying", "done", "ignored"} => exiting # "NoSignal"

(***************************************************************************)
(* The server does without the pause only if the handler of a SIGINT got   *)
(* through, however the handlers of several signals overtake each other.   *)
(***************************************************************************)
GraceUnlessInterrupted ==
    mpc \in {"stopping", "hung", "exited"} /\ ~slept =>
        \E s \in SigInts : hpc[s] \in {"notifying", "done"}

(***************************************************************************)
(* main sleeps through a signal, for up to an hour, only if it came        *)
(* between the test of the flag in the loop's condition and the lock of    *)
(* the mutex in its body; otherwise somebody is about to notify it.        *)
(***************************************************************************)
WakeupMissedOnlyInWindow ==
    mpc = "waiting" /\ exiting # "NoSignal" =>
        setAt = "lock" \/ \E s \in Signals : hpc[s] = "notifying"

(***************************************************************************)
(* A signal that comes after the reset ends the process, unless a handler  *)
(* blocks its own thread for ever or the Stop of the service never returns.*)
(***************************************************************************)
LateSignalEndsService == \A s \in Signals : s \in late ~> (Over \/ Stuck \/ Hung)

(***************************************************************************)
(* What main's comments say, "catch exit signals" and "wait for exit       *)
(* signals", without the proviso: any signal that is caught ends it.       *)
(***************************************************************************)
CaughtSignalEndsService == \A s \in Signals : hpc[s] # "pending" ~> (Over \/ Stuck \/ Hung)
=============================================================================
