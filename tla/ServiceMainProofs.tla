-------------------------- MODULE ServiceMainProofs --------------------------
(***************************************************************************)
(* Proofs about ServiceMain for any signals, threads and files.            *)
(*                                                                         *)
(* SInv says who holds exit_mu_ (MutexInv), what a value of exiting_ tells *)
(* of main and of the handlers (FlagInv), and where main was when the flag *)
(* was set behind its back (WindowInv).                                    *)
(***************************************************************************)
EXTENDS ServiceMain, TLAPS

Starting == mpc \in {"loading", "starting", "reset", "resetting"}

MutexInv ==
    /\ mpc \in {"resetting", "locked", "woken"} => mutex = Main
    /\ \A s \in Signals : hpc[s] = "locked" => mutex = s

FlagInv ==
    /\ Starting => late = {}
    /\ mpc \in {"decide", "sleeping", "stopping", "hung", "exited"} => exiting # "NoSignal"
    /\ exiting = "ImmediateExit" => \E s \in SigInts : hpc[s] \in {"notifying", "done"}

WindowInv ==
    mpc \in {"lock", "locked"} /\ exiting # "NoSignal" => setAt = "lock"

SInv ==
    /\ TypeOK
    /\ MutexInv
    /\ FlagInv
    /\ WindowInv
    /\ LateSignalKept
    /\ GraceUnlessInterrupted
    /\ WakeupMissedOnlyInWindow

-----------------------------------------------------------------------------

\* A handler is on the stack of the thread it runs on.
LEMMA ReturnType ==
  ASSUME TypeOK, NEW s \in Signals, NEW t \in Threads, Running(s, t), Return(t)
  PROVE  stack' \in [Threads -> Seq(Signals)]
<1>1. stack[t] \in Seq(Signals) /\ stack[t] # <<>>
  BY DEF TypeOK, Running
<1>2. SubSeq(stack[t], 1, Len(stack[t]) - 1) \in Seq(Signals)
  BY <1>1
<1> QED
  BY <1>2 DEF TypeOK, Return

\* Nobody else holds the mutex while a handler sets the flag, so main is not
\* inside one of its own critical sections.
LEMMA SetOutsideSections ==
  ASSUME SInv, NEW s \in Signals, NEW t \in Threads, HandlerSet(s, t)
  PROVE  mpc \in {"loading", "starting", "reset", "test", "lock", "waiting", "waking",
                  "decide", "sleeping", "stopping", "hung"}
BY MainAssumption DEF SInv, MutexInv, TypeOK, HandlerSet, Running, Over

LEMMA HandlerTypes ==
  ASSUME SInv, NEW s \in Signals, NEW t \in Threads,
         Deliver(s, t) \/ HandlerTest(s, t) \/ HandlerLock(s, t)
            \/ HandlerSet(s, t) \/ HandlerNotify(s, t)
  PROVE  TypeOK'
<1> USE DEF SInv
<1>c. UNCHANGED <<config, bound, slept>>
  BY DEF Deliver, HandlerTest, HandlerLock, HandlerSet, HandlerNotify, mainVars
<1>0. TypeOK
  BY DEF SInv
<1>1. CASE Deliver(s, t)
  <2>1. stack' \in [Threads -> Seq(Signals)]
    <3>1. Append(stack[t], s) \in Seq(Signals)
      BY <1>0 DEF TypeOK
    <3> QED
      BY <1>0, <1>1, <3>1 DEF TypeOK, Deliver
  <2>2. hpc' \in [Signals -> {"pending", "entered", "locking", "locked", "notifying", "done",
                        "ignored"}]
    BY <1>0, <1>1 DEF TypeOK, Deliver
  <2> QED
    BY <1>0, <1>1, <2>1, <2>2, <1>c DEF TypeOK, Deliver, mainVars
<1>2. CASE HandlerTest(s, t)
  <2>1. stack' \in [Threads -> Seq(Signals)]
    BY <1>0, <1>2, ReturnType DEF TypeOK, HandlerTest
  <2>2. hpc' \in [Signals -> {"pending", "entered", "locking", "locked", "notifying", "done",
                        "ignored"}]
    BY <1>0, <1>2 DEF TypeOK, HandlerTest
  <2> QED
    BY <1>0, <1>2, <2>1, <2>2, <1>c DEF TypeOK, HandlerTest, mainVars
<1>3. CASE HandlerLock(s, t)
  <2>2. hpc' \in [Signals -> {"pending", "entered", "locking", "locked", "notifying", "done",
                        "ignored"}]
    BY <1>0, <1>3 DEF TypeOK, HandlerLock
  <2> QED
    BY <1>0, <1>3, <2>2, <1>c DEF TypeOK, HandlerLock, mainVars
<1>4. CASE HandlerSet(s, t)
  <2>1. setAt' \in {"never", "loading", "starting", "reset", "test", "lock",
                  "waiting", "waking", "decide", "sleeping", "stopping"}
    BY <1>0, <1>4, SetOutsideSections DEF TypeOK, HandlerSet, FlagInv
  <2>2. hpc' \in [Signals -> {"pending", "entered", "locking", "locked", "notifying", "done",
                        "ignored"}]
    BY <1>0, <1>4 DEF TypeOK, HandlerSet
  <2> QED
    BY <1>0, <1>4, <2>1, <2>2, <1>c DEF TypeOK, HandlerSet, mainVars
<1>5. CASE HandlerNotify(s, t)
  <2>1. stack' \in [Threads -> Seq(Signals)]
    BY <1>0, <1>5, ReturnType DEF HandlerNotify
  <2>2. hpc' \in [Signals -> {"pending", "entered", "locking", "locked", "notifying", "done",
                        "ignored"}]
    BY <1>0, <1>5 DEF TypeOK, HandlerNotify
  <2> QED
    BY <1>0, <1>5, <2>1, <2>2, <1>c DEF TypeOK, HandlerNotify
<1> QED
  BY <1>1, <1>2, <1>3, <1>4, <1>5

\* A step of main leaves the handlers' state alone.
LEMMA MainKeepsInvariant ==
  ASSUME SInv, MainProgram
  PROVE  SInv'
<1> USE DEF SInv
<1>h. UNCHANGED handlerVars
  BY DEF MainProgram, LoadConfig, StartCore, ResetLock, ResetFlag, LoopTest,
       WaitLock, WaitBegin, WaitTimeout, WaitReacquire, LoopEnd, Decide, SleepEnd, StopCore
<1>t. TypeOK'
  <2>1. CASE LoadConfig
    <3>1. PICK file \in Files :
             config \in [file : {file}, values : IF LoadThrows(file) THEN {Missing}
                                               ELSE {Missing, LoadServerConfig(file)}]
      BY DEF TypeOK
    <3>2. config' \in [file : {file}, values : IF LoadThrows(file) THEN {Missing}
                                               ELSE {Missing, LoadServerConfig(file)}]
      BY <2>1, <3>1 DEF LoadConfig
    <3> QED
      BY <2>1, <3>2, <1>h DEF TypeOK, LoadConfig, handlerVars
  <2>2. CASE StartCore
    BY <2>2, <1>h DEF TypeOK, StartCore, handlerVars
  <2>3. CASE ResetLock
    BY <2>3, <1>h DEF TypeOK, ResetLock, handlerVars
  <2>4. CASE ResetFlag
    BY <2>4, <1>h DEF TypeOK, ResetFlag, handlerVars
  <2>5. CASE LoopTest
    BY <2>5, <1>h DEF TypeOK, LoopTest, handlerVars
  <2>6. CASE WaitLock
    BY <2>6, <1>h DEF TypeOK, WaitLock, handlerVars
  <2>7. CASE WaitBegin
    BY <2>7, <1>h DEF TypeOK, WaitBegin, handlerVars
  <2>8. CASE WaitTimeout
    BY <2>8, <1>h DEF TypeOK, WaitTimeout, handlerVars
  <2>9. CASE WaitReacquire
    BY <2>9, <1>h DEF TypeOK, WaitReacquire, handlerVars
  <2>10. CASE LoopEnd
    BY <2>10, <1>h DEF TypeOK, LoopEnd, handlerVars
  <2>11. CASE Decide
    BY <2>11, <1>h DEF TypeOK, Decide, handlerVars
  <2>12. CASE SleepEnd
    BY <2>12, <1>h DEF TypeOK, SleepEnd, handlerVars
  <2>13. CASE StopCore
    BY <2>13, <1>h DEF TypeOK, StopCore, handlerVars
  <2> QED
    BY <2>1, <2>2, <2>3, <2>4, <2>5, <2>6, <2>7, <2>8, <2>9, <2>10, <2>11, <2>12, <2>13
       DEF MainProgram
<1>r. (MutexInv /\ FlagInv /\ WindowInv /\ LateSignalKept
        /\ GraceUnlessInterrupted /\ WakeupMissedOnlyInWindow)'
  <2> USE <1>h, MainAssumption DEF TypeOK, MainStep, MutexInv, FlagInv, WindowInv, Starting,
        LateSignalKept, GraceUnlessInterrupted, WakeupMissedOnlyInWindow, handlerVars
  <2>1. CASE LoadConfig
    BY <2>1 DEF LoadConfig
  <2>2. CASE StartCore
    BY <2>2 DEF StartCore
  <2>3. CASE ResetLock
    BY <2>3 DEF ResetLock
  <2>4. CASE ResetFlag
    BY <2>4 DEF ResetFlag
  <2>5. CASE LoopTest
    BY <2>5 DEF LoopTest
  <2>6. CASE WaitLock
    BY <2>6 DEF WaitLock
  <2>7. CASE WaitBegin
    BY <2>7 DEF WaitBegin
  <2>8. CASE WaitTimeout
    BY <2>8 DEF WaitTimeout
  <2>9. CASE WaitReacquire
    BY <2>9 DEF WaitReacquire
  <2>10. CASE LoopEnd
    BY <2>10 DEF LoopEnd
  <2>11. CASE Decide
    BY <2>11 DEF Decide
  <2>12. CASE SleepEnd
    BY <2>12 DEF SleepEnd
  <2>13. CASE StopCore
    BY <2>13 DEF StopCore
  <2> QED
    BY <2>1, <2>2, <2>3, <2>4, <2>5, <2>6, <2>7, <2>8, <2>9, <2>10, <2>11, <2>12, <2>13
       DEF MainProgram
<1> QED
  BY <1>t, <1>r

LEMMA HandlersKeepInvariant ==
  ASSUME SInv, NEW s \in Signals, NEW t \in Threads,
         Deliver(s, t) \/ HandlerTest(s, t) \/ HandlerLock(s, t)
            \/ HandlerSet(s, t) \/ HandlerNotify(s, t)
  PROVE  SInv'
<1> USE DEF SInv
<1>t. TypeOK'
  BY HandlerTypes
<1>1. CASE Deliver(s, t)
  <2>1. MutexInv'
    BY <1>1, MainAssumption DEF TypeOK, Deliver, MutexInv, Signals, mainVars
  <2>2. FlagInv'
    BY <1>1, MainAssumption DEF TypeOK, Deliver, FlagInv, Starting, MutexInv, Signals, mainVars
  <2>3. WindowInv'
    BY <1>1, MainAssumption DEF TypeOK, Deliver, WindowInv, MutexInv, Signals, mainVars
  <2>4. LateSignalKept'
    BY <1>1, MainAssumption DEF TypeOK, Deliver, LateSignalKept, FlagInv, Starting, Signals, mainVars
  <2>5. GraceUnlessInterrupted'
    BY <1>1, MainAssumption DEF TypeOK, Deliver, GraceUnlessInterrupted, Signals, mainVars
  <2>6. WakeupMissedOnlyInWindow'
    BY <1>1, MainAssumption DEF TypeOK, Deliver, WakeupMissedOnlyInWindow, Signals, mainVars
  <2> QED
    BY <1>t, <2>1, <2>2, <2>3, <2>4, <2>5, <2>6
<1>2. CASE HandlerTest(s, t)
  <2>1. MutexInv'
    BY <1>2, MainAssumption DEF TypeOK, HandlerTest, MutexInv, Signals, mainVars
  <2>2. FlagInv'
    BY <1>2, MainAssumption DEF TypeOK, HandlerTest, FlagInv, Starting, MutexInv, Signals, mainVars
  <2>3. WindowInv'
    BY <1>2, MainAssumption DEF TypeOK, HandlerTest, WindowInv, MutexInv, Signals, mainVars
  <2>4. LateSignalKept'
    BY <1>2, MainAssumption DEF TypeOK, HandlerTest, LateSignalKept, FlagInv, Starting, Signals, mainVars
  <2>5. GraceUnlessInterrupted'
    BY <1>2, MainAssumption DEF TypeOK, HandlerTest, GraceUnlessInterrupted, Signals, mainVars
  <2>6. WakeupMissedOnlyInWindow'
    BY <1>2, MainAssumption DEF TypeOK, HandlerTest, WakeupMissedOnlyInWindow, Signals, mainVars
  <2> QED
    BY <1>t, <2>1, <2>2, <2>3, <2>4, <2>5, <2>6
<1>3. CASE HandlerLock(s, t)
  <2>1. MutexInv'
    BY <1>3, MainAssumption DEF TypeOK, HandlerLock, MutexInv, Signals, mainVars
  <2>2. FlagInv'
    BY <1>3, MainAssumption DEF TypeOK, HandlerLock, FlagInv, Starting, MutexInv, Signals, mainVars
  <2>3. WindowInv'
    BY <1>3, MainAssumption DEF TypeOK, HandlerLock, WindowInv, MutexInv, Signals, mainVars
  <2>4. LateSignalKept'
    BY <1>3, MainAssumption DEF TypeOK, HandlerLock, LateSignalKept, FlagInv, Starting, Signals, mainVars
  <2>5. GraceUnlessInterrupted'
    BY <1>3, MainAssumption DEF TypeOK, HandlerLock, GraceUnlessInterrupted, Signals, mainVars
  <2>6. WakeupMissedOnlyInWindow'
    BY <1>3, MainAssumption DEF TypeOK, HandlerLock, WakeupMissedOnlyInWindow, Signals, mainVars
  <2> QED
    BY <1>t, <2>1, <2>2, <2>3, <2>4, <2>5, <2>6
<1>4. CASE HandlerSet(s, t)
  <2>1. MutexInv'
    BY <1>4, MainAssumption DEF TypeOK, HandlerSet, MutexInv, Signals, mainVars
  <2>2. FlagInv'
    BY <1>4, MainAssumption DEF TypeOK, HandlerSet, FlagInv, Starting, MutexInv, Signals, mainVars
  <2>3. WindowInv'
    BY <1>4, MainAssumption DEF TypeOK, HandlerSet, WindowInv, MutexInv, Signals, mainVars
  <2>4. LateSignalKept'
    BY <1>4, MainAssumption DEF TypeOK, HandlerSet, LateSignalKept, FlagInv, Starting, Signals, mainVars
  <2>5. GraceUnlessInterrupted'
    BY <1>4, MainAssumption DEF TypeOK, HandlerSet, GraceUnlessInterrupted, Signals, mainVars
  <2>6. WakeupMissedOnlyInWindow'
    BY <1>4, MainAssumption DEF TypeOK, HandlerSet, WakeupMissedOnlyInWindow, Signals, mainVars
  <2> QED
    BY <1>t, <2>1, <2>2, <2>3, <2>4, <2>5, <2>6
<1>5. CASE HandlerNotify(s, t)
  <2>1. MutexInv'
    BY <1>5, MainAssumption DEF TypeOK, HandlerNotify, MutexInv, Signals, mainVars
  <2>2. FlagInv'
    BY <1>5, MainAssumption DEF TypeOK, HandlerNotify, FlagInv, Starting, MutexInv, Signals, mainVars
  <2>3. WindowInv'
    BY <1>5, MainAssumption DEF TypeOK, HandlerNotify, WindowInv, MutexInv, Signals, mainVars
  <2>4. LateSignalKept'
    BY <1>5, MainAssumption DEF TypeOK, HandlerNotify, LateSignalKept, FlagInv, Starting, Signals, mainVars
  <2>5. GraceUnlessInterrupted'
    BY <1>5, MainAssumption DEF TypeOK, HandlerNotify, GraceUnlessInterrupted, Signals, mainVars
  <2>6. WakeupMissedOnlyInWindow'
    BY <1>5, MainAssumption DEF TypeOK, HandlerNotify, WakeupMissedOnlyInWindow, Signals, mainVars
  <2> QED
    BY <1>t, <2>1, <2>2, <2>3, <2>4, <2>5, <2>6
<1> QED
  BY <1>1, <1>2, <1>3, <1>4, <1>5

\* The invariant holds in every reachable state.
THEOREM Invariance == Spec => []SInv
<1>1. Init => SInv
  <2> SUFFICES ASSUME Init PROVE SInv
    OBVIOUS
  <2>1. TypeOK
    <3>1. PICK file \in Files : config = [file |-> file, values |-> Missing]
      BY DEF Init
    <3>2. config \in [file : {file}, values : IF LoadThrows(file) THEN {Missing}
                                              ELSE {Missing, LoadServerConfig(file)}]
      BY <3>1
    <3>3. stack \in [Threads -> Seq(Signals)]
      BY DEF Init
    <3> QED
      BY <3>2, <3>3 DEF Init, TypeOK
  <2> QED
    BY <2>1, MainAssumption DEF Init, SInv, MutexInv, FlagInv, WindowInv, Starting,
       LateSignalKept, GraceUnlessInterrupted, WakeupMissedOnlyInWindow
<1>2. SInv /\ [Next]_vars => SInv'
  <2> SUFFICES ASSUME SInv, [Next]_vars PROVE SInv'
    OBVIOUS
  <2>1. CASE MainProgram
    BY <2>1, MainKeepsInvariant
  <2>2. CASE \E s \in Signals, t \in Threads :
               Deliver(s, t) \/ HandlerTest(s, t) \/ HandlerLock(s, t)
                  \/ HandlerSet(s, t) \/ HandlerNotify(s, t)
    BY <2>2, HandlersKeepInvariant
  <2>3. CASE UNCHANGED vars
    BY <2>3 DEF vars, mainVars, handlerVars, SInv, TypeOK, MutexInv, FlagInv, WindowInv,
       Starting, LateSignalKept, GraceUnlessInterrupted, WakeupMissedOnlyInWindow
  <2> QED
    BY <2>1, <2>2, <2>3 DEF Next, signalHandler, Terminated
<1> QED
  BY <1>1, <1>2, PTL DEF Spec

\* Type correctness; for config that it is what LoadServerConfig makes of the
\* file, or not yet loaded.
THEOREM TypeCorrect == Spec => []TypeOK
BY Invariance, PTL DEF SInv

\* No signal that looks at exiting_ after main's reset is lost, for any number
\* of signals on any number of threads.
THEOREM SignalKept == Spec => []LateSignalKept
BY Invariance, PTL DEF SInv

\* The pause is left out only for a SIGINT.
THEOREM Grace == Spec => []GraceUnlessInterrupted
BY Invariance, PTL DEF SInv

\* The one window in which wait_for misses a notification.
THEOREM MissedOnlyInWindow == Spec => []WakeupMissedOnlyInWindow
BY Invariance, PTL DEF SInv
=============================================================================
