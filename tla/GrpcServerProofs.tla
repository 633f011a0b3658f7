-------------------------- MODULE GrpcServerProofs --------------------------
(***************************************************************************)
(* Proofs about GrpcServer for any number of calls.                        *)
(*                                                                         *)
(* GInv is inductive.  CoreInv says how far InferenceCore has got and what *)
(* that means for the server, the queues and the threads.  LifeInv is the  *)
(* life of a HandlerState: which values its step, its tag, its reply and   *)
(* its call can have together.  ThreadInv says what a thread that is       *)
(* inside Process knows of the state it works on, and InferInv where an    *)
(* inference is when its scheduler has it, or had it.                      *)
(***************************************************************************)
EXTENDS GrpcServer, TLAPS

CoreInv ==
    /\ \/ spc = "constructed" /\ server = "none"
       \/ spc \in {"starting", "started"} /\ server \in {"up", "null"}
       \/ spc = "shutdown" /\ server = "closing"
       \/ spc \in {"closing", "joined", "stopped"} /\ server = "down"
    /\ \A h \in Handlers :
          /\ spc = "constructed" => tpc[h] = "unborn" /\ ~open[h]
          /\ spc \in {"starting", "started", "shutdown"} => open[h]
          /\ spc \notin {"constructed", "starting"} => tpc[h] # "unborn"
          /\ spc \in {"joined", "stopped"} => tpc[h] = "exited"
          /\ tpc[h] = "exited" => ~open[h]
    /\ crashed => \/ server = "null"
                  \/ \E h \in Handlers : tpc[h] = "born" /\ ~open[h]

\* A state from StateNew to StateRelease: posted, called, processed, finished.
Life(s) ==
    \/ step[s] = "unborn" /\ tag[s] = "none" /\ reply[s] = "none" /\ rpc[s] = "none"
    \/ step[s] = "START" /\ tag[s] \in {"requested", "failed"} /\ reply[s] = "none"
          /\ rpc[s] = "none"
    \/ step[s] = "START" /\ tag[s] \in {"ok", "none"} /\ reply[s] = "none"
          /\ rpc[s] = "serving"
    \/ step[s] = "PROCESS" /\ tag[s] = "none" /\ reply[s] \in {"none", "completing"}
          /\ rpc[s] = "serving"
    \/ step[s] = "FINISH" /\ tag[s] = "none" /\ reply[s] = "stepped" /\ rpc[s] = "serving"
    \/ step[s] = "FINISH" /\ tag[s] = "finishing" /\ reply[s] = "finished"
          /\ rpc[s] = "serving"
    \/ step[s] = "FINISH" /\ tag[s] \in {"ok", "failed"} /\ reply[s] = "finished"
          /\ rpc[s] = "finished"
    \/ step[s] = "freed" /\ tag[s] = "none" /\ reply[s] = "none" /\ rpc[s] = "none"
    \/ step[s] = "freed" /\ tag[s] = "none" /\ reply[s] = "finished" /\ rpc[s] = "finished"

\* Only the last state made can be one that waits for a call; a request fails
\* only once the server closes; no call is in progress when it is down.
StateInv(h, k) ==
    /\ Life(<<h, k>>)
    /\ step[<<h, k>>] = "unborn" <=> k > made[h]
    /\ step[<<h, k>>] = "START" => k = made[h]
    /\ step[<<h, k>>] = "START" /\ tag[<<h, k>>] = "failed" => server \in {"closing", "down"}
    /\ step[<<h, k>>] = "START" /\ tag[<<h, k>>] = "none" => tpc[h] = "called" /\ cur[h] = k
    /\ rpc[<<h, k>>] = "serving" => k <= MaxCalls[h] /\ server # "down"
    /\ tpc[h] = "exited" => tag[<<h, k>>] = "none"
    /\ server = "up" /\ k = made[h] => step[<<h, k>>] = "START"

LifeInv == \A h \in Handlers : \A k \in HandlerStates(h) : StateInv(h, k)

ThreadOf(h) ==
    /\ tpc[h] \in {"unborn", "born"} <=> made[h] = 0
    /\ tpc[h] \in {"unborn", "born"} => cur[h] = 0
    /\ tpc[h] \in {"called", "action", "enqueuing", "returning", "completing"} =>
          cur[h] \in HandlerStates(h)
    /\ tpc[h] = "called" => step[<<h, cur[h]>>] = "START" /\ tag[<<h, cur[h]>>] = "none"
    /\ tpc[h] \in {"action", "enqueuing"} =>
          step[<<h, cur[h]>>] = "PROCESS" /\ reply[<<h, cur[h]>>] = "none"
    /\ tpc[h] \in {"returning", "completing"} => step[<<h, cur[h]>>] \in {"PROCESS", "FINISH"}
    /\ tpc[h] = "completing" => reply[<<h, cur[h]>>] # "none"

ThreadInv == \A h \in Handlers : ThreadOf(h)

InferenceOf(k) ==
    /\ request[k] = "new" => reply[<<Infer, k>>] = "none"
    /\ request[k] = "accepted" => step[<<Infer, k>>] = "PROCESS" /\ reply[<<Infer, k>>] = "none"
    /\ request[k] \in {"rejected", "answered"} => reply[<<Infer, k>>] # "none"
    /\ tpc[Infer] \in {"action", "enqueuing"} /\ cur[Infer] = k => request[k] = "new"

InferInv == \A k \in HandlerStates(Infer) : InferenceOf(k)

GInv == TypeOK /\ CoreInv /\ LifeInv /\ ThreadInv /\ InferInv

-----------------------------------------------------------------------------

LEMMA StatePairs ==
  /\ \A h \in Handlers : \A k \in HandlerStates(h) : <<h, k>> \in States
  /\ \A s \in States : \E h \in Handlers : \E k \in HandlerStates(h) : s = <<h, k>>
BY DEF States

\* The queue of a handler is open while one of its calls is in progress.
LEMMA ServingOpen ==
  ASSUME GInv, NEW h \in Handlers, NEW k \in HandlerStates(h), rpc[<<h, k>>] = "serving"
  PROVE  open[h]
<1>1. StateInv(h, k) /\ ThreadOf(h)
  BY DEF GInv, LifeInv, ThreadInv
<1>2. k > 0 /\ server # "none"
  BY <1>1, GrpcAssumption DEF GInv, CoreInv, StateInv, Life, ThreadOf, HandlerStates
<1> QED
  BY <1>1, <1>2 DEF GInv, CoreInv, StateInv

\* A step that touches neither a thread nor a state.
LEMMA Untouched ==
  ASSUME GInv, UNCHANGED <<threadVars, stateVars, request>>
  PROVE  ThreadInv' /\ InferInv' /\ (server' = server => LifeInv')
<1> USE DEF GInv, threadVars, stateVars
<1>1. ThreadInv' /\ InferInv'
  BY DEF ThreadInv, ThreadOf, InferInv, InferenceOf
<1>2. ASSUME server' = server, NEW h \in Handlers, NEW k \in HandlerStates(h)
      PROVE  StateInv(h, k)'
  <2>1. StateInv(h, k)
    BY DEF LifeInv
  <2> QED
    BY <1>2, <2>1 DEF StateInv, Life
<1> QED
  BY <1>1, <1>2 DEF LifeInv

\* Start and Stop keep the invariant: what each of their steps finds the queues,
\* the threads and the calls in is CoreInv.
LEMMA CoreSteps ==
  ASSUME GInv, ~crashed,
         BuildAndStart \/ StartReturn \/ Shutdown \/ ShutdownNull
            \/ ShutdownReturn \/ JoinHandlers \/ StopManager
  PROVE  GInv'
<1> USE DEF GInv, coreVars, threadVars, stateVars, inferVars
<1>1. CASE BuildAndStart
  <2>1. TypeOK'
    BY <1>1 DEF TypeOK, BuildAndStart
  <2>2. CoreInv'
    BY <1>1 DEF TypeOK, CoreInv, BuildAndStart
  <2>3. ASSUME NEW g \in Handlers, NEW j \in HandlerStates(g) PROVE StateInv(g, j)'
    <3>1. StateInv(g, j)
      BY DEF LifeInv
    <3>2. made[g] = 0
      BY <1>1 DEF ThreadInv, ThreadOf, CoreInv, BuildAndStart
    <3>3. j > 0
      BY GrpcAssumption DEF HandlerStates
    <3> QED
      BY <1>1, <3>1, <3>2, <3>3 DEF StateInv, Life, BuildAndStart, HandlerStates
  <2>4. ThreadInv' /\ InferInv'
    BY <1>1, Untouched DEF BuildAndStart
  <2> QED
    BY <2>1, <2>2, <2>3, <2>4 DEF LifeInv
<1>2. CASE StartReturn
  <2>1. TypeOK'
    BY <1>2 DEF TypeOK, StartReturn
  <2>2. CoreInv'
    BY <1>2 DEF TypeOK, CoreInv, StartReturn
  <2>3. ThreadInv' /\ InferInv' /\ LifeInv'
    BY <1>2, Untouched DEF StartReturn
  <2> QED
    BY <2>1, <2>2, <2>3
<1>3. CASE Shutdown
  <2>1. TypeOK'
    BY <1>3, StatePairs DEF TypeOK, Shutdown
  <2>2. CoreInv'
    BY <1>3 DEF TypeOK, CoreInv, Shutdown
  <2>3. ASSUME NEW g \in Handlers, NEW j \in HandlerStates(g) PROVE StateInv(g, j)'
    <3>1. StateInv(g, j)
      BY DEF LifeInv
    <3> QED
      BY <1>3, <3>1, StatePairs DEF StateInv, Life, Shutdown, CoreInv
  <2>4. ASSUME NEW g \in Handlers PROVE ThreadOf(g)'
    <3>1. ThreadOf(g)
      BY DEF ThreadInv
    <3> QED
      BY <1>3, <3>1, StatePairs DEF TypeOK, ThreadOf, Shutdown, LifeInv, StateInv, Life
  <2>5. ASSUME NEW j \in HandlerStates(Infer) PROVE InferenceOf(j)'
    <3>1. InferenceOf(j) /\ Infer \in Handlers
      BY DEF InferInv, Handlers
    <3> QED
      BY <1>3, <3>1 DEF TypeOK, InferenceOf, Shutdown
  <2> QED
    BY <2>1, <2>2, <2>3, <2>4, <2>5 DEF LifeInv, ThreadInv, InferInv
<1>4. CASE ShutdownNull
  <2>1. TypeOK'
    BY <1>4 DEF TypeOK, ShutdownNull
  <2>2. CoreInv'
    BY <1>4 DEF TypeOK, CoreInv, ShutdownNull
  <2>3. ThreadInv' /\ InferInv' /\ LifeInv'
    BY <1>4, Untouched DEF ShutdownNull
  <2> QED
    BY <2>1, <2>2, <2>3
<1>5. CASE ShutdownReturn
  <2>1. TypeOK'
    BY <1>5 DEF TypeOK, ShutdownReturn
  <2>2. CoreInv'
    BY <1>5 DEF TypeOK, CoreInv, ShutdownReturn
  <2>3. ASSUME NEW g \in Handlers, NEW j \in HandlerStates(g) PROVE StateInv(g, j)'
    <3>1. StateInv(g, j)
      BY DEF LifeInv
    <3> QED
      BY <1>5, <3>1, StatePairs DEF StateInv, Life, ShutdownReturn, CoreInv
  <2>4. ThreadInv' /\ InferInv'
    BY <1>5, Untouched DEF ShutdownReturn
  <2> QED
    BY <2>1, <2>2, <2>3, <2>4 DEF LifeInv
<1>6. CASE JoinHandlers
  <2>1. TypeOK'
    BY <1>6 DEF TypeOK, JoinHandlers
  <2>2. CoreInv'
    BY <1>6 DEF TypeOK, CoreInv, JoinHandlers
  <2>3. ThreadInv' /\ InferInv' /\ LifeInv'
    BY <1>6, Untouched DEF JoinHandlers
  <2> QED
    BY <2>1, <2>2, <2>3
<1>7. CASE StopManager
  <2>1. TypeOK'
    BY <1>7 DEF TypeOK, StopManager, Schedulers!Finish
  <2>2. CoreInv'
    BY <1>7 DEF TypeOK, CoreInv, StopManager
  <2>3. ThreadInv' /\ InferInv' /\ LifeInv'
    BY <1>7, Untouched DEF StopManager, Schedulers!Finish
  <2> QED
    BY <2>1, <2>2, <2>3
<1> QED
  BY <1>1, <1>2, <1>3, <1>4, <1>5, <1>6, <1>7

\* So do the two that go from handler to handler.
LEMMA QueueSteps ==
  ASSUME GInv, ~crashed, NEW h \in Handlers,
         StartHandler(h) \/ ShutdownQueue(h)
  PROVE  GInv'
<1> USE DEF GInv, coreVars, threadVars, stateVars, inferVars
<1>0. ThreadOf(h)
  BY DEF ThreadInv
<1>1. CASE StartHandler(h)
  <2>1. TypeOK'
    BY <1>1 DEF TypeOK, StartHandler
  <2>2. CoreInv'
    BY <1>1 DEF TypeOK, CoreInv, StartHandler
  <2>3. ASSUME NEW g \in Handlers, NEW j \in HandlerStates(g) PROVE StateInv(g, j)'
    <3>1. StateInv(g, j)
      BY DEF LifeInv
    <3> QED
      BY <1>1, <3>1 DEF StateInv, Life, StartHandler
  <2>4. ASSUME NEW g \in Handlers PROVE ThreadOf(g)'
    <3>1. ThreadOf(g)
      BY DEF ThreadInv
    <3> QED
      BY <1>1, <3>1 DEF TypeOK, ThreadOf, StartHandler
  <2>5. ASSUME NEW j \in HandlerStates(Infer) PROVE InferenceOf(j)'
    <3>1. InferenceOf(j) /\ Infer \in Handlers
      BY DEF InferInv, Handlers
    <3> QED
      BY <1>1, <3>1 DEF TypeOK, InferenceOf, StartHandler
  <2> QED
    BY <2>1, <2>2, <2>3, <2>4, <2>5 DEF LifeInv, ThreadInv, InferInv
<1>2. CASE ShutdownQueue(h)
  <2>1. TypeOK'
    BY <1>2 DEF TypeOK, ShutdownQueue
  <2>2. CoreInv'
    BY <1>2 DEF TypeOK, CoreInv, ShutdownQueue
  <2>3. ThreadInv' /\ InferInv' /\ LifeInv'
    BY <1>2, Untouched DEF ShutdownQueue
  <2> QED
    BY <2>1, <2>2, <2>3
<1> QED
  BY <1>1, <1>2

\* gRPC and OnCompleted move a state one row on in Life.
LEMMA CompletionSteps ==
  ASSUME GInv, ~crashed, NEW h \in Handlers, NEW k \in HandlerStates(h),
         Arrive(h, k) \/ Finished(h, k) \/ OnCompletedStep(h, k) \/ OnCompletedFinish(h, k)
  PROVE  GInv'
<1> USE DEF GInv, coreVars, threadVars, stateVars, inferVars
<1>0. StateInv(h, k) /\ ThreadOf(h) /\ <<h, k>> \in States
  BY StatePairs DEF LifeInv, ThreadInv
<1>1. CASE Arrive(h, k)
  <2>1. /\ tag' \in [States -> {"none", "requested", "finishing", "ok", "failed"}]
        /\ tag'[<<h, k>>] = "ok"
        /\ \A g \in Handlers : \A j \in HandlerStates(g) :
              (g # h \/ j # k) => tag'[<<g, j>>] = tag[<<g, j>>]
    BY <1>1, StatePairs DEF TypeOK, Arrive
  <2>2. /\ rpc' \in [States -> {"none", "serving", "finished"}]
        /\ rpc'[<<h, k>>] = "serving"
        /\ \A g \in Handlers : \A j \in HandlerStates(g) :
              (g # h \/ j # k) => rpc'[<<g, j>>] = rpc[<<g, j>>]
    BY <1>1, StatePairs DEF TypeOK, Arrive
  <2>3. TypeOK'
    BY <1>1, <2>1, <2>2 DEF TypeOK, Arrive
  <2>4. CoreInv'
    BY <1>1, <2>1, <2>2 DEF TypeOK, CoreInv, Arrive
  <2>5. ASSUME NEW g \in Handlers, NEW j \in HandlerStates(g) PROVE StateInv(g, j)'
    <3>1. StateInv(g, j)
      BY DEF LifeInv
    <3> QED
      BY <1>1, <2>1, <2>2, <3>1 DEF StateInv, Life, Arrive, CoreInv
  <2>6. ASSUME NEW g \in Handlers PROVE ThreadOf(g)'
    <3>1. ThreadOf(g)
      BY DEF ThreadInv
    <3> QED
      BY <1>1, <2>1, <2>2, <3>1 DEF TypeOK, ThreadOf, Arrive
  <2>7. ASSUME NEW j \in HandlerStates(Infer) PROVE InferenceOf(j)'
    <3>1. InferenceOf(j) /\ Infer \in Handlers
      BY DEF InferInv, Handlers
    <3> QED
      BY <1>1, <2>1, <2>2, <3>1 DEF TypeOK, InferenceOf, Arrive
  <2> QED
    BY <2>3, <2>4, <2>5, <2>6, <2>7 DEF LifeInv, ThreadInv, InferInv
<1>2. CASE Finished(h, k)
  <2>1. /\ tag' \in [States -> {"none", "requested", "finishing", "ok", "failed"}]
        /\ tag'[<<h, k>>] \in {"ok", "failed"}
        /\ \A g \in Handlers : \A j \in HandlerStates(g) :
              (g # h \/ j # k) => tag'[<<g, j>>] = tag[<<g, j>>]
    BY <1>2, StatePairs DEF TypeOK, Finished
  <2>2. /\ rpc' \in [States -> {"none", "serving", "finished"}]
        /\ rpc'[<<h, k>>] = "finished"
        /\ \A g \in Handlers : \A j \in HandlerStates(g) :
              (g # h \/ j # k) => rpc'[<<g, j>>] = rpc[<<g, j>>]
    BY <1>2, StatePairs DEF TypeOK, Finished
  <2>3. TypeOK'
    BY <1>2, <2>1, <2>2 DEF TypeOK, Finished
  <2>4. CoreInv'
    BY <1>2, <2>1, <2>2 DEF TypeOK, CoreInv, Finished
  <2>5. ASSUME NEW g \in Handlers, NEW j \in HandlerStates(g) PROVE StateInv(g, j)'
    <3>1. StateInv(g, j)
      BY DEF LifeInv
    <3> QED
      BY <1>2, <2>1, <2>2, <3>1 DEF StateInv, Life, Finished
  <2>6. ASSUME NEW g \in Handlers PROVE ThreadOf(g)'
    <3>1. ThreadOf(g)
      BY DEF ThreadInv
    <3> QED
      BY <1>2, <2>1, <2>2, <3>1 DEF TypeOK, ThreadOf, Finished
  <2>7. ASSUME NEW j \in HandlerStates(Infer) PROVE InferenceOf(j)'
    <3>1. InferenceOf(j) /\ Infer \in Handlers
      BY DEF InferInv, Handlers
    <3> QED
      BY <1>2, <2>1, <2>2, <3>1 DEF TypeOK, InferenceOf, Finished
  <2> QED
    BY <2>3, <2>4, <2>5, <2>6, <2>7 DEF LifeInv, ThreadInv, InferInv
<1>3. CASE OnCompletedStep(h, k)
  <2>1. /\ step' \in [States -> {"unborn", "START", "PROCESS", "FINISH", "freed"}]
        /\ step'[<<h, k>>] = "FINISH"
        /\ \A g \in Handlers : \A j \in HandlerStates(g) :
              (g # h \/ j # k) => step'[<<g, j>>] = step[<<g, j>>]
    BY <1>3, StatePairs DEF TypeOK, OnCompletedStep
  <2>2. /\ reply' \in [States -> {"none", "completing", "stepped", "finished"}]
        /\ reply'[<<h, k>>] = "stepped"
        /\ \A g \in Handlers : \A j \in HandlerStates(g) :
              (g # h \/ j # k) => reply'[<<g, j>>] = reply[<<g, j>>]
    BY <1>3, StatePairs DEF TypeOK, OnCompletedStep
  <2>3. TypeOK'
    BY <1>3, <2>1, <2>2 DEF TypeOK, OnCompletedStep
  <2>4. CoreInv'
    BY <1>3, <2>1, <2>2 DEF TypeOK, CoreInv, OnCompletedStep
  <2>5. ASSUME NEW g \in Handlers, NEW j \in HandlerStates(g) PROVE StateInv(g, j)'
    <3>1. StateInv(g, j)
      BY DEF LifeInv
    <3> QED
      BY <1>3, <2>1, <2>2, <3>1 DEF StateInv, Life, OnCompletedStep
  <2>6. ASSUME NEW g \in Handlers PROVE ThreadOf(g)'
    <3>1. ThreadOf(g)
      BY DEF ThreadInv
    <3> QED
      BY <1>3, <2>1, <2>2, <3>1, <1>0 DEF TypeOK, ThreadOf, OnCompletedStep, StateInv, Life
  <2>7. ASSUME NEW j \in HandlerStates(Infer) PROVE InferenceOf(j)'
    <3>1. InferenceOf(j) /\ Infer \in Handlers
      BY DEF InferInv, Handlers
    <3> QED
      BY <1>3, <2>1, <2>2, <3>1 DEF TypeOK, InferenceOf, OnCompletedStep
  <2> QED
    BY <2>3, <2>4, <2>5, <2>6, <2>7 DEF LifeInv, ThreadInv, InferInv
<1>4. CASE OnCompletedFinish(h, k)
  <2>0. crashed' = FALSE /\ tpc[h] # "exited"
    <3>1. open[h] = TRUE
      BY <1>0, <1>4, ServingOpen DEF TypeOK, StateInv, Life, OnCompletedFinish
    <3>2. crashed' = FALSE
      BY <1>4, <3>1, Zenon DEF OnCompletedFinish
    <3>3. tpc[h] # "exited"
      BY <3>1 DEF CoreInv
    <3> QED
      BY <3>2, <3>3
  <2>1. /\ tag' \in [States -> {"none", "requested", "finishing", "ok", "failed"}]
        /\ tag'[<<h, k>>] = "finishing"
        /\ \A g \in Handlers : \A j \in HandlerStates(g) :
              (g # h \/ j # k) => tag'[<<g, j>>] = tag[<<g, j>>]
    BY <1>4, StatePairs DEF TypeOK, OnCompletedFinish
  <2>2. /\ reply' \in [States -> {"none", "completing", "stepped", "finished"}]
        /\ reply'[<<h, k>>] = "finished"
        /\ \A g \in Handlers : \A j \in HandlerStates(g) :
              (g # h \/ j # k) => reply'[<<g, j>>] = reply[<<g, j>>]
    BY <1>4, StatePairs DEF TypeOK, OnCompletedFinish
  <2>3. TypeOK'
    BY <1>4, <2>0, <2>1, <2>2 DEF TypeOK, OnCompletedFinish
  <2>4. CoreInv'
    BY <1>4, <2>0, <2>1, <2>2 DEF TypeOK, CoreInv, OnCompletedFinish
  <2>5. ASSUME NEW g \in Handlers, NEW j \in HandlerStates(g) PROVE StateInv(g, j)'
    <3>1. StateInv(g, j)
      BY DEF LifeInv
    <3>2. CASE g = h /\ j = k
      BY <1>4, <2>0, <2>1, <2>2, <3>1, <3>2, <1>0 DEF StateInv, Life, OnCompletedFinish
    <3>3. CASE ~(g = h /\ j = k)
      BY <1>4, <2>0, <2>1, <2>2, <3>1, <3>3 DEF StateInv, Life, OnCompletedFinish
    <3> QED
      BY <3>2, <3>3
  <2>6. ASSUME NEW g \in Handlers PROVE ThreadOf(g)'
    <3>1. ThreadOf(g)
      BY DEF ThreadInv
    <3> QED
      BY <1>4, <2>0, <2>1, <2>2, <3>1, <1>0 DEF TypeOK, ThreadOf, OnCompletedFinish,
         StateInv, Life
  <2>7. ASSUME NEW j \in HandlerStates(Infer) PROVE InferenceOf(j)'
    <3>1. InferenceOf(j) /\ Infer \in Handlers
      BY DEF InferInv, Handlers
    <3> QED
      BY <1>4, <2>0, <2>1, <2>2, <3>1 DEF TypeOK, InferenceOf, OnCompletedFinish
  <2> QED
    BY <2>3, <2>4, <2>5, <2>6, <2>7 DEF LifeInv, ThreadInv, InferInv
<1> QED
  BY <1>1, <1>2, <1>3, <1>4

\* So does an event in HandleEvents.
LEMMA EventSteps ==
  ASSUME GInv, ~crashed, NEW h \in Handlers, NEW k \in HandlerStates(h),
         ProcessStart(h, k) \/ ProcessFinish(h, k)
  PROVE  GInv'
<1> USE DEF GInv, coreVars, threadVars, stateVars, inferVars
<1>0. StateInv(h, k) /\ ThreadOf(h) /\ <<h, k>> \in States
  BY StatePairs DEF LifeInv, ThreadInv
<1>1. CASE ProcessStart(h, k)
  <2>1. /\ tag' \in [States -> {"none", "requested", "finishing", "ok", "failed"}]
        /\ tag'[<<h, k>>] = "none"
        /\ \A g \in Handlers : \A j \in HandlerStates(g) :
              (g # h \/ j # k) => tag'[<<g, j>>] = tag[<<g, j>>]
    BY <1>1, StatePairs DEF TypeOK, ProcessStart
  <2>2. TypeOK'
    BY <1>1, <2>1, <1>0, GrpcAssumption DEF TypeOK, ProcessStart, HandlerStates, StateInv
  <2>3. CoreInv'
    BY <1>1, <2>1 DEF TypeOK, CoreInv, ProcessStart
  <2>4. ASSUME NEW g \in Handlers, NEW j \in HandlerStates(g) PROVE StateInv(g, j)'
    <3>1. StateInv(g, j)
      BY DEF LifeInv
    <3> QED
      BY <1>1, <2>1, <3>1, <1>0 DEF StateInv, Life, ProcessStart, TypeOK
  <2>5. ASSUME NEW g \in Handlers PROVE ThreadOf(g)'
    <3>1. ThreadOf(g)
      BY DEF ThreadInv
    <3> QED
      BY <1>1, <2>1, <3>1, <1>0 DEF TypeOK, ThreadOf, ProcessStart, StateInv, Life
  <2>6. ASSUME NEW j \in HandlerStates(Infer) PROVE InferenceOf(j)'
    <3>1. InferenceOf(j) /\ Infer \in Handlers
      BY DEF InferInv, Handlers
    <3> QED
      BY <1>1, <2>1, <3>1 DEF TypeOK, InferenceOf, ProcessStart
  <2> QED
    BY <2>2, <2>3, <2>4, <2>5, <2>6 DEF LifeInv, ThreadInv, InferInv
<1>2. CASE ProcessFinish(h, k)
  <2>1. /\ tag' \in [States -> {"none", "requested", "finishing", "ok", "failed"}]
        /\ tag'[<<h, k>>] = "none"
        /\ \A g \in Handlers : \A j \in HandlerStates(g) :
              (g # h \/ j # k) => tag'[<<g, j>>] = tag[<<g, j>>]
    BY <1>2, StatePairs, <1>0 DEF TypeOK, ProcessFinish, StateInv, Life
  <2>2. /\ step' \in [States -> {"unborn", "START", "PROCESS", "FINISH", "freed"}]
        /\ step'[<<h, k>>] = "freed"
        /\ \A g \in Handlers : \A j \in HandlerStates(g) :
              (g # h \/ j # k) => step'[<<g, j>>] = step[<<g, j>>]
    BY <1>2, StatePairs, <1>0 DEF TypeOK, ProcessFinish, StateInv, Life
  <2>3. TypeOK'
    BY <1>2, <2>1, <2>2 DEF TypeOK, ProcessFinish
  <2>4. CoreInv'
    BY <1>2, <2>1, <2>2 DEF TypeOK, CoreInv, ProcessFinish
  <2>5. ASSUME NEW g \in Handlers, NEW j \in HandlerStates(g) PROVE StateInv(g, j)'
    <3>1. StateInv(g, j)
      BY DEF LifeInv
    <3> QED
      BY <1>2, <2>1, <2>2, <3>1, <1>0 DEF StateInv, Life, ProcessFinish
  <2>6. ASSUME NEW g \in Handlers PROVE ThreadOf(g)'
    <3>1. ThreadOf(g)
      BY DEF ThreadInv
    <3> QED
      BY <1>2, <2>1, <2>2, <3>1 DEF TypeOK, ThreadOf, ProcessFinish
  <2>7. ASSUME NEW j \in HandlerStates(Infer) PROVE InferenceOf(j)'
    <3>1. InferenceOf(j) /\ Infer \in Handlers
      BY DEF InferInv, Handlers
    <3> QED
      BY <1>2, <2>1, <2>2, <3>1, <1>0 DEF TypeOK, InferenceOf, ProcessFinish, StateInv, Life
  <2> QED
    BY <2>3, <2>4, <2>5, <2>6, <2>7 DEF LifeInv, ThreadInv, InferInv
<1> QED
  BY <1>1, <1>2

\* A thread that ends, or answers in its own TakeAction.
LEMMA ThreadSteps ==
  ASSUME GInv, ~crashed, NEW h \in Handlers,
         HandlerExit(h) \/ TakeAction(h) \/ TakeActionReturn(h)
  PROVE  GInv'
<1> USE DEF GInv, coreVars, threadVars, stateVars, inferVars
<1>0. ThreadOf(h)
  BY DEF ThreadInv
<1>1. CASE HandlerExit(h)
  <2>1. TypeOK'
    BY <1>1 DEF TypeOK, HandlerExit
  <2>2. CoreInv'
    BY <1>1 DEF TypeOK, CoreInv, HandlerExit
  <2>3. ASSUME NEW g \in Handlers, NEW j \in HandlerStates(g) PROVE StateInv(g, j)'
    <3>1. StateInv(g, j)
      BY DEF LifeInv
    <3> QED
      BY <1>1, <3>1 DEF StateInv, Life, HandlerExit
  <2>4. ASSUME NEW g \in Handlers PROVE ThreadOf(g)'
    <3>1. ThreadOf(g)
      BY DEF ThreadInv
    <3> QED
      BY <1>1, <3>1 DEF TypeOK, ThreadOf, HandlerExit
  <2>5. ASSUME NEW j \in HandlerStates(Infer) PROVE InferenceOf(j)'
    <3>1. InferenceOf(j) /\ Infer \in Handlers
      BY DEF InferInv, Handlers
    <3> QED
      BY <1>1, <3>1 DEF TypeOK, InferenceOf, HandlerExit
  <2> QED
    BY <2>1, <2>2, <2>3, <2>4, <2>5 DEF LifeInv, ThreadInv, InferInv
<1>2. CASE TakeAction(h)
  <2>1. /\ reply' \in [States -> {"none", "completing", "stepped", "finished"}]
        /\ reply'[<<h, cur[h]>>] = "completing"
        /\ \A g \in Handlers : \A j \in HandlerStates(g) :
              (g # h \/ j # cur[h]) => reply'[<<g, j>>] = reply[<<g, j>>]
    BY <1>2, StatePairs, <1>0 DEF TypeOK, TakeAction, ThreadOf
  <2>2. TypeOK'
    BY <1>2, <2>1 DEF TypeOK, TakeAction
  <2>3. CoreInv'
    BY <1>2, <2>1 DEF TypeOK, CoreInv, TakeAction
  <2>4. ASSUME NEW g \in Handlers, NEW j \in HandlerStates(g) PROVE StateInv(g, j)'
    <3>1. StateInv(g, j)
      BY DEF LifeInv
    <3>2. CASE g = h /\ j = cur[h]
      BY <1>2, <2>1, <3>1, <3>2, <1>0 DEF StateInv, Life, TakeAction, ThreadOf
    <3>3. CASE ~(g = h /\ j = cur[h])
      BY <1>2, <2>1, <3>1, <3>3 DEF StateInv, Life, TakeAction
    <3> QED
      BY <3>2, <3>3
  <2>5. ASSUME NEW g \in Handlers PROVE ThreadOf(g)'
    <3>1. ThreadOf(g)
      BY DEF ThreadInv
    <3> QED
      BY <1>2, <2>1, <3>1 DEF TypeOK, ThreadOf, TakeAction
  <2>6. ASSUME NEW j \in HandlerStates(Infer) PROVE InferenceOf(j)'
    <3>1. InferenceOf(j) /\ Infer \in Handlers
      BY DEF InferInv, Handlers
    <3> QED
      BY <1>2, <2>1, <3>1 DEF TypeOK, InferenceOf, TakeAction
  <2> QED
    BY <2>2, <2>3, <2>4, <2>5, <2>6 DEF LifeInv, ThreadInv, InferInv
<1>3. CASE TakeActionReturn(h)
  <2>1. TypeOK'
    BY <1>3 DEF TypeOK, TakeActionReturn
  <2>2. CoreInv'
    BY <1>3 DEF TypeOK, CoreInv, TakeActionReturn
  <2>3. ASSUME NEW g \in Handlers, NEW j \in HandlerStates(g) PROVE StateInv(g, j)'
    <3>1. StateInv(g, j)
      BY DEF LifeInv
    <3> QED
      BY <1>3, <3>1 DEF StateInv, Life, TakeActionReturn
  <2>4. ASSUME NEW g \in Handlers PROVE ThreadOf(g)'
    <3>1. ThreadOf(g)
      BY DEF ThreadInv
    <3> QED
      BY <1>3, <3>1 DEF TypeOK, ThreadOf, TakeActionReturn
  <2>5. ASSUME NEW j \in HandlerStates(Infer) PROVE InferenceOf(j)'
    <3>1. InferenceOf(j) /\ Infer \in Handlers
      BY DEF InferInv, Handlers
    <3> QED
      BY <1>3, <3>1 DEF TypeOK, InferenceOf, TakeActionReturn
  <2> QED
    BY <2>1, <2>2, <2>3, <2>4, <2>5 DEF LifeInv, ThreadInv, InferInv
<1> QED
  BY <1>1, <1>2, <1>3

\* InferAsync: the inference is new until it is accepted or rejected.
LEMMA InferSteps ==
  ASSUME GInv, ~crashed,
         InferCall \/ InferAccepted \/ InferReturn \/ InferRejected
  PROVE  GInv'
<1> USE DEF GInv, coreVars, threadVars, stateVars, inferVars
<1>0. /\ Infer \in Handlers /\ ThreadOf(Infer)
      /\ tpc[Infer] = "enqueuing" =>
            cur[Infer] \in HandlerStates(Infer) /\ InferenceOf(cur[Infer])
  BY DEF ThreadInv, ThreadOf, InferInv, Handlers
<1>1. CASE InferCall
  <2>1. TypeOK'
    BY <1>1 DEF TypeOK, InferCall
  <2>2. CoreInv'
    BY <1>1 DEF TypeOK, CoreInv, InferCall
  <2>3. ASSUME NEW g \in Handlers, NEW j \in HandlerStates(g) PROVE StateInv(g, j)'
    <3>1. StateInv(g, j)
      BY DEF LifeInv
    <3> QED
      BY <1>1, <3>1 DEF StateInv, Life, InferCall
  <2>4. ASSUME NEW g \in Handlers PROVE ThreadOf(g)'
    <3>1. ThreadOf(g)
      BY DEF ThreadInv
    <3> QED
      BY <1>1, <3>1 DEF TypeOK, ThreadOf, InferCall
  <2>5. ASSUME NEW j \in HandlerStates(Infer) PROVE InferenceOf(j)'
    <3>1. InferenceOf(j) /\ Infer \in Handlers
      BY DEF InferInv, Handlers
    <3> QED
      BY <1>1, <3>1 DEF TypeOK, InferenceOf, InferCall
  <2> QED
    BY <2>1, <2>2, <2>3, <2>4, <2>5 DEF LifeInv, ThreadInv, InferInv
<1>2. CASE InferAccepted
  <2>1. TypeOK'
    BY <1>2, <1>0 DEF TypeOK, InferAccepted, Schedulers!Accept
  <2>2. CoreInv'
    BY <1>2 DEF TypeOK, CoreInv, InferAccepted
  <2>3. ASSUME NEW g \in Handlers, NEW j \in HandlerStates(g) PROVE StateInv(g, j)'
    <3>1. StateInv(g, j)
      BY DEF LifeInv
    <3> QED
      BY <1>2, <3>1 DEF StateInv, Life, InferAccepted
  <2>4. ASSUME NEW g \in Handlers PROVE ThreadOf(g)'
    <3>1. ThreadOf(g)
      BY DEF ThreadInv
    <3> QED
      BY <1>2, <3>1, <1>0 DEF TypeOK, ThreadOf, InferAccepted
  <2>5. ASSUME NEW j \in HandlerStates(Infer) PROVE InferenceOf(j)'
    <3>1. InferenceOf(j) /\ Infer \in Handlers
      BY DEF InferInv, Handlers
    <3> QED
      BY <1>2, <3>1, <1>0 DEF TypeOK, InferenceOf, InferAccepted, Schedulers!Accept, ThreadOf
  <2> QED
    BY <2>1, <2>2, <2>3, <2>4, <2>5 DEF LifeInv, ThreadInv, InferInv
<1>3. CASE InferReturn
  <2>1. TypeOK'
    BY <1>3 DEF TypeOK, InferReturn
  <2>2. CoreInv'
    BY <1>3 DEF TypeOK, CoreInv, InferReturn
  <2>3. ASSUME NEW g \in Handlers, NEW j \in HandlerStates(g) PROVE StateInv(g, j)'
    <3>1. StateInv(g, j)
      BY DEF LifeInv
    <3> QED
      BY <1>3, <3>1 DEF StateInv, Life, InferReturn
  <2>4. ASSUME NEW g \in Handlers PROVE ThreadOf(g)'
    <3>1. ThreadOf(g)
      BY DEF ThreadInv
    <3> QED
      BY <1>3, <3>1 DEF TypeOK, ThreadOf, InferReturn
  <2>5. ASSUME NEW j \in HandlerStates(Infer) PROVE InferenceOf(j)'
    <3>1. InferenceOf(j) /\ Infer \in Handlers
      BY DEF InferInv, Handlers
    <3> QED
      BY <1>3, <3>1 DEF TypeOK, InferenceOf, InferReturn
  <2> QED
    BY <2>1, <2>2, <2>3, <2>4, <2>5 DEF LifeInv, ThreadInv, InferInv
<1>4. CASE InferRejected
  <2>1. /\ reply' \in [States -> {"none", "completing", "stepped", "finished"}]
        /\ reply'[<<Infer, cur[Infer]>>] = "completing"
        /\ \A g \in Handlers : \A j \in HandlerStates(g) :
              (g # Infer \/ j # cur[Infer]) => reply'[<<g, j>>] = reply[<<g, j>>]
    BY <1>4, StatePairs, <1>0 DEF TypeOK, InferRejected
  <2>2. TypeOK'
    BY <1>4, <2>1, <1>0 DEF TypeOK, InferRejected, Schedulers!Reject
  <2>3. CoreInv'
    BY <1>4, <2>1 DEF TypeOK, CoreInv, InferRejected
  <2>4. ASSUME NEW g \in Handlers, NEW j \in HandlerStates(g) PROVE StateInv(g, j)'
    <3>1. StateInv(g, j)
      BY DEF LifeInv
    <3>2. CASE g = Infer /\ j = cur[Infer]
      BY <1>4, <2>1, <3>1, <3>2, <1>0 DEF StateInv, Life, InferRejected, ThreadOf
    <3>3. CASE ~(g = Infer /\ j = cur[Infer])
      BY <1>4, <2>1, <3>1, <3>3 DEF StateInv, Life, InferRejected
    <3> QED
      BY <3>2, <3>3
  <2>5. ASSUME NEW g \in Handlers PROVE ThreadOf(g)'
    <3>1. ThreadOf(g)
      BY DEF ThreadInv
    <3> QED
      BY <1>4, <2>1, <3>1, <1>0 DEF TypeOK, ThreadOf, InferRejected
  <2>6. ASSUME NEW j \in HandlerStates(Infer) PROVE InferenceOf(j)'
    <3>1. InferenceOf(j) /\ Infer \in Handlers
      BY DEF InferInv, Handlers
    <3>2. CASE j = cur[Infer]
      BY <1>4, <2>1, <3>1, <3>2, <1>0 DEF TypeOK, InferenceOf, InferRejected,
         Schedulers!Reject, ThreadOf
    <3>3. CASE ~(j = cur[Infer])
      BY <1>4, <2>1, <3>1, <3>3, <1>0 DEF TypeOK, InferenceOf, InferRejected,
         Schedulers!Reject, ThreadOf
    <3> QED
      BY <3>2, <3>3
  <2> QED
    BY <2>2, <2>3, <2>4, <2>5, <2>6 DEF LifeInv, ThreadInv, InferInv
<1> QED
  BY <1>1, <1>2, <1>3, <1>4

\* A runner answers an accepted inference, or its scheduler drops it.
LEMMA SchedulerSteps ==
  ASSUME GInv, ~crashed, NEW k \in HandlerStates(Infer),
         OnInferCompleted(k) \/ DropPayload(k)
  PROVE  GInv'
<1> USE DEF GInv, coreVars, threadVars, stateVars, inferVars
<1>0. /\ Infer \in Handlers
      /\ StateInv(Infer, k) /\ ThreadOf(Infer) /\ InferenceOf(k)
  BY DEF LifeInv, ThreadInv, InferInv, Handlers
<1>1. CASE OnInferCompleted(k)
  <2>1. /\ reply' \in [States -> {"none", "completing", "stepped", "finished"}]
        /\ reply'[<<Infer, k>>] = "completing"
        /\ \A g \in Handlers : \A j \in HandlerStates(g) :
              (g # Infer \/ j # k) => reply'[<<g, j>>] = reply[<<g, j>>]
    BY <1>1, StatePairs, <1>0 DEF TypeOK, OnInferCompleted
  <2>2. TypeOK'
    BY <1>1, <2>1, <1>0 DEF TypeOK, OnInferCompleted, Schedulers!Answer
  <2>3. CoreInv'
    BY <1>1, <2>1 DEF TypeOK, CoreInv, OnInferCompleted
  <2>4. ASSUME NEW g \in Handlers, NEW j \in HandlerStates(g) PROVE StateInv(g, j)'
    <3>1. StateInv(g, j)
      BY DEF LifeInv
    <3>2. CASE g = Infer /\ j = k
      BY <1>1, <2>1, <3>1, <3>2, <1>0 DEF StateInv, Life, OnInferCompleted, InferenceOf,
         Schedulers!Answer
    <3>3. CASE ~(g = Infer /\ j = k)
      BY <1>1, <2>1, <3>1, <3>3 DEF StateInv, Life, OnInferCompleted
    <3> QED
      BY <3>2, <3>3
  <2>5. ASSUME NEW g \in Handlers PROVE ThreadOf(g)'
    <3>1. ThreadOf(g)
      BY DEF ThreadInv
    <3> QED
      BY <1>1, <2>1, <3>1, <1>0 DEF TypeOK, ThreadOf, OnInferCompleted, Schedulers!Answer,
         InferenceOf
  <2>6. ASSUME NEW j \in HandlerStates(Infer) PROVE InferenceOf(j)'
    <3>1. InferenceOf(j) /\ Infer \in Handlers
      BY DEF InferInv, Handlers
    <3> QED
      BY <1>1, <2>1, <3>1, <1>0 DEF TypeOK, InferenceOf, OnInferCompleted, Schedulers!Answer
  <2> QED
    BY <2>2, <2>3, <2>4, <2>5, <2>6 DEF LifeInv, ThreadInv, InferInv
<1>2. CASE DropPayload(k)
  <2>1. TypeOK'
    BY <1>2 DEF TypeOK, DropPayload
  <2>2. CoreInv'
    BY <1>2 DEF TypeOK, CoreInv, DropPayload
  <2>3. ThreadInv' /\ InferInv' /\ LifeInv'
    BY <1>2, Untouched DEF DropPayload
  <2> QED
    BY <2>1, <2>2, <2>3
<1> QED
  BY <1>1, <1>2

\* StartNewRequest makes the next state, in the thread's first step or in the
\* place of the state whose call has come.
LEMMA RequestSteps ==
  ASSUME GInv, ~crashed, NEW h \in Handlers, StartNewRequest(h)
  PROVE  GInv'
<1> USE DEF GInv
<1> DEFINE k == made[h] + 1
<1>1. ThreadOf(h) /\ made[h] \in Nat /\ MaxCalls[h] \in Nat
  BY GrpcAssumption DEF ThreadInv, TypeOK
<1>2. tpc[h] = "called" =>
         /\ cur[h] \in HandlerStates(h) /\ cur[h] = made[h] /\ cur[h] <= MaxCalls[h]
         /\ step[<<h, cur[h]>>] = "START" /\ tag[<<h, cur[h]>>] = "none"
         /\ reply[<<h, cur[h]>>] = "none" /\ rpc[<<h, cur[h]>>] = "serving"
         /\ server # "down" /\ open[h]
  <2>1. CASE tpc[h] = "called"
    <3>1. cur[h] \in HandlerStates(h) /\ step[<<h, cur[h]>>] = "START"
             /\ tag[<<h, cur[h]>>] = "none"
      BY <1>1, <2>1 DEF ThreadOf
    <3>2. StateInv(h, cur[h])
      BY <3>1 DEF LifeInv
    <3>3. rpc[<<h, cur[h]>>] = "serving" /\ reply[<<h, cur[h]>>] = "none"
      BY <3>1, <3>2 DEF StateInv, Life
    <3> QED
      BY <3>1, <3>2, <3>3, ServingOpen DEF StateInv
  <2> QED
    BY <2>1
<1>3. tpc[h] = "born" => made[h] = 0 /\ cur[h] = 0
  BY <1>1 DEF ThreadOf
<1>4. k \in HandlerStates(h) /\ <<h, k>> \in States
  BY <1>1, <1>2, <1>3, StatePairs DEF HandlerStates, StartNewRequest
<1>u. /\ step[<<h, k>>] = "unborn" /\ tag[<<h, k>>] = "none"
      /\ reply[<<h, k>>] = "none" /\ rpc[<<h, k>>] = "none"
  <2>1. StateInv(h, k)
    BY <1>4 DEF LifeInv
  <2> QED
    BY <1>1, <2>1 DEF StateInv, Life
<1>5. CASE UNCHANGED <<tpc, made, step, tag>> /\ crashed' = TRUE
  <2>1. server = "null" \/ (tpc[h] = "born" /\ ~open[h])
    BY <1>2, <1>5 DEF StartNewRequest
  <2>2. UNCHANGED <<server, running, spc, open, cur, reply, rpc, request, over, dropped>>
    BY DEF StartNewRequest, coreVars, inferVars
  <2>3. TypeOK'
    BY <1>5, <2>2 DEF TypeOK
  <2>4. CoreInv'
    BY <1>5, <2>1, <2>2 DEF CoreInv
  <2>5. ThreadInv' /\ InferInv' /\ LifeInv'
    BY <1>5, <2>2, Untouched DEF threadVars, stateVars
  <2> QED
    BY <2>3, <2>4, <2>5
<1>6. CASE open[h] /\ ~(UNCHANGED <<tpc, made, step, tag>> /\ crashed' = TRUE)
  <2>0. /\ UNCHANGED <<server, running, spc, open, cur, reply, rpc, request, over, dropped,
                       crashed>>
        /\ tpc[h] \in {"born", "called"}
        /\ made' = [made EXCEPT ![h] = k]
        /\ step' = [s \in States |-> CASE s = <<h, k>> -> "START"
                                       [] s = <<h, cur[h]>> -> "PROCESS"
                                       [] OTHER -> step[s]]
        /\ tag' = [tag EXCEPT ![<<h, k>>] = IF server \in {"up", "null"} THEN "requested"
                                                                         ELSE "failed"]
        /\ tpc' = [tpc EXCEPT ![h] = IF tpc[h] = "born" THEN "next" ELSE "action"]
    BY <1>6 DEF StartNewRequest, coreVars, inferVars
  <2>s. /\ step' \in [States -> {"unborn", "START", "PROCESS", "FINISH", "freed"}]
        /\ step'[<<h, k>>] = "START"
        /\ tpc[h] = "called" => step'[<<h, cur[h]>>] = "PROCESS"
        /\ \A g \in Handlers : \A j \in HandlerStates(g) :
              (g # h \/ (j # k /\ j # cur[h])) => step'[<<g, j>>] = step[<<g, j>>]
    BY <1>1, <1>2, <1>4, <2>0, StatePairs DEF TypeOK
  <2>t. /\ tag' \in [States -> {"none", "requested", "finishing", "ok", "failed"}]
        /\ tag'[<<h, k>>] = IF server \in {"up", "null"} THEN "requested" ELSE "failed"
        /\ \A g \in Handlers : \A j \in HandlerStates(g) :
              (g # h \/ j # k) => tag'[<<g, j>>] = tag[<<g, j>>]
    BY <1>4, <2>0, StatePairs DEF TypeOK
  <2>m. /\ made' \in [Handlers -> Nat] /\ made'[h] = k
        /\ \A g \in Handlers : g # h => made'[g] = made[g]
    BY <1>1, <2>0 DEF TypeOK
  <2>p. /\ tpc'[h] = IF tpc[h] = "born" THEN "next" ELSE "action"
        /\ \A g \in Handlers : g # h => tpc'[g] = tpc[g]
    BY <2>0 DEF TypeOK
  <2>1. TypeOK'
    <3>1. \A g \in Handlers : cur[g] <= made'[g] /\ made'[g] <= MaxCalls[g] + 1
      <4>1. cur[h] <= made[h] /\ cur[h] \in Nat /\ k <= MaxCalls[h] + 1
        BY <1>1, <1>4 DEF TypeOK, HandlerStates
      <4>2. cur[h] <= made'[h] /\ made'[h] <= MaxCalls[h] + 1
        BY <1>1, <2>m, <4>1
      <4> QED
        BY <2>m, <4>2 DEF TypeOK
    <3>2. tpc' \in [Handlers -> {"unborn", "born", "next", "called", "action",
                                 "enqueuing", "returning", "completing", "exited"}]
      BY <2>0 DEF TypeOK
    <3> QED
      BY <2>0, <2>s, <2>t, <2>m, <3>1, <3>2 DEF TypeOK
  <2>2. CoreInv'
    BY <1>6, <2>0, <2>p DEF CoreInv
  <2>3. ASSUME NEW g \in Handlers, NEW j \in HandlerStates(g) PROVE StateInv(g, j)'
    <3>1. StateInv(g, j)
      BY DEF LifeInv
    <3>2. CASE g # h
      BY <2>0, <2>s, <2>t, <2>m, <2>p, <3>1, <3>2 DEF StateInv, Life
    <3>3. CASE g = h /\ j = k
      <4>1. server # "none" /\ server \in {"up", "null", "closing", "down"}
        BY <1>6 DEF CoreInv, TypeOK
      <4> QED
        BY <1>1, <1>u, <2>0, <2>s, <2>t, <2>m, <2>p, <3>3, <4>1 DEF StateInv, Life
    <3>4. CASE g = h /\ j = cur[h] /\ tpc[h] = "called"
      BY <1>1, <1>2, <2>0, <2>s, <2>t, <2>m, <2>p, <3>4 DEF StateInv, Life
    <3>5. CASE g = h /\ j # k /\ ~(j = cur[h] /\ tpc[h] = "called")
      <4>1. j \in Nat /\ j > 0 /\ j # cur[h]
        BY <1>1, <1>3, <2>0, <3>5 DEF HandlerStates
      <4>2. step'[<<g, j>>] = step[<<g, j>>] /\ tag'[<<g, j>>] = tag[<<g, j>>]
        BY <2>s, <2>t, <3>5, <4>1
      <4>3. step[<<g, j>>] # "START" /\ j # made[h]
        BY <1>2, <1>3, <2>0, <3>1, <3>5, <4>1 DEF StateInv
      <4> QED
        BY <1>1, <2>0, <2>m, <2>p, <3>1, <3>5, <4>1, <4>2, <4>3 DEF StateInv, Life
    <3> QED
      BY <3>2, <3>3, <3>4, <3>5
  <2>4. ASSUME NEW g \in Handlers PROVE ThreadOf(g)'
    <3>1. ThreadOf(g)
      BY DEF ThreadInv
    <3>2. CASE g = h
      BY <1>1, <1>2, <1>3, <1>4, <2>0, <2>s, <2>t, <2>m, <2>p, <3>2 DEF ThreadOf
    <3>3. CASE g # h
      BY <2>0, <2>s, <2>t, <2>m, <2>p, <3>1, <3>3 DEF ThreadOf
    <3> QED
      BY <3>2, <3>3
  <2>5. ASSUME NEW j \in HandlerStates(Infer) PROVE InferenceOf(j)'
    <3>1. InferenceOf(j) /\ Infer \in Handlers
      BY DEF InferInv, Handlers
    <3>2. CASE h # Infer
      BY <2>0, <2>s, <2>p, <3>1, <3>2 DEF InferenceOf
    <3>3. CASE h = Infer /\ tpc[h] = "called" /\ j = cur[h]
      <4>1. request[j] = "new"
        BY <1>2, <3>1, <3>3 DEF InferenceOf, TypeOK
      <4> QED
        BY <1>2, <2>0, <3>3, <4>1 DEF InferenceOf
    <3>4. CASE h = Infer /\ ~(tpc[h] = "called" /\ j = cur[h])
      <4>1. request[j] = "accepted" => j # k /\ j # cur[h]
        BY <1>1, <1>u, <1>3, <2>0, <3>1, <3>4 DEF InferenceOf, HandlerStates
      <4> QED
        BY <2>0, <2>s, <2>p, <3>1, <3>4, <4>1 DEF InferenceOf
    <3> QED
      BY <3>2, <3>3, <3>4
  <2> QED
    BY <2>1, <2>2, <2>3, <2>4, <2>5 DEF LifeInv, ThreadInv, InferInv
<1> QED
  BY <1>5, <1>6 DEF StartNewRequest

-----------------------------------------------------------------------------

\* GInv holds in every reachable state.
THEOREM Invariance == Spec => []GInv
<1>1. Init => GInv
  <2> SUFFICES ASSUME Init PROVE GInv
    OBVIOUS
  <2>1. TypeOK
    <3>1. \A h \in Handlers : cur[h] <= made[h] /\ made[h] <= MaxCalls[h] + 1
      BY GrpcAssumption DEF Init
    <3>2. request \in [HandlerStates(Infer) -> {"new", "accepted", "rejected", "answered"}]
             /\ over \in BOOLEAN
      BY DEF Init, Schedulers!Init
    <3> QED
      BY <3>1, <3>2 DEF Init, TypeOK
  <2>2. CoreInv
    BY DEF Init, CoreInv
  <2>3. ASSUME NEW h \in Handlers, NEW k \in HandlerStates(h) PROVE StateInv(h, k)
    <3>1. <<h, k>> \in States /\ k > 0
      BY GrpcAssumption, StatePairs DEF HandlerStates
    <3> QED
      BY <3>1 DEF Init, StateInv, Life
  <2>4. ThreadInv
    BY DEF Init, ThreadInv, ThreadOf
  <2>5. ASSUME NEW k \in HandlerStates(Infer) PROVE InferenceOf(k)
    <3>1. <<Infer, k>> \in States /\ Infer \in Handlers
      BY StatePairs DEF Handlers
    <3> QED
      BY <3>1 DEF Init, InferenceOf, Schedulers!Init
  <2> QED
    BY <2>1, <2>2, <2>3, <2>4, <2>5 DEF GInv, LifeInv, InferInv
<1>2. GInv /\ [Next]_vars => GInv'
  <2> SUFFICES ASSUME GInv, [Next]_vars PROVE GInv'
    OBVIOUS
  <2>1. CASE UNCHANGED vars
    <3>1. TypeOK' /\ CoreInv'
      BY <2>1 DEF vars, coreVars, threadVars, stateVars, inferVars, GInv, TypeOK, CoreInv
    <3>2. ThreadInv' /\ InferInv' /\ LifeInv'
      BY <2>1, Untouched DEF vars, coreVars, inferVars
    <3> QED
      BY <3>1, <3>2 DEF GInv
  <2>2. CASE ~crashed /\ (Start \/ StopCall \/ Stop)
    BY <2>2, CoreSteps, QueueSteps DEF Start, StopCall, Stop
  <2>3. ASSUME NEW h \in Handlers, ~crashed, HandleEvents(h) PROVE GInv'
    BY <2>3, RequestSteps, EventSteps, ThreadSteps DEF HandleEvents
  <2>4. ASSUME NEW h \in Handlers, ~crashed, Completion(h) PROVE GInv'
    BY <2>4, CompletionSteps DEF Completion, OnCompleted
  <2>5. CASE ~crashed /\ (InferAsync \/ Runner)
    BY <2>5, InferSteps, SchedulerSteps DEF InferAsync, Runner
  <2>6. ASSUME NEW h \in Handlers, NEW k \in HandlerStates(h), ~crashed, Arrive(h, k) PROVE GInv'
    BY <2>6, CompletionSteps
  <2>7. ASSUME NEW k \in HandlerStates(Infer), ~crashed, DropPayload(k) PROVE GInv'
    BY <2>7, SchedulerSteps
  <2> QED
    BY <2>1, <2>2, <2>3, <2>4, <2>5, <2>6, <2>7 DEF Next, Terminated
<1> QED
  BY <1>1, <1>2, PTL DEF Spec

\* Type correctness; in particular no handler makes more states than there are
\* calls, and one.
THEOREM TypeCorrect == Spec => []TypeOK
BY Invariance, PTL DEF GInv

\* Nobody posts on a queue that Stop has shut down, but a thread that has not
\* posted its first request; and only that, or an address that could not be
\* bound, brings the process down.
THEOREM OpenQueues == Spec => []PostsOnOpenQueues
<1>1. GInv => PostsOnOpenQueues
  <2> SUFFICES ASSUME GInv PROVE PostsOnOpenQueues
    OBVIOUS
  <2>1. ASSUME NEW h \in Handlers, tpc[h] = "called" PROVE open[h]
    <3>1. /\ cur[h] \in HandlerStates(h)
          /\ step[<<h, cur[h]>>] = "START" /\ tag[<<h, cur[h]>>] = "none"
      BY <2>1 DEF GInv, ThreadInv, ThreadOf
    <3>2. StateInv(h, cur[h])
      BY <3>1 DEF GInv, LifeInv
    <3> QED
      BY <3>1, <3>2, ServingOpen DEF StateInv, Life
  <2>2. ASSUME NEW h \in Handlers, NEW k \in HandlerStates(h),
               reply[<<h, k>>] \in {"completing", "stepped"}
        PROVE  open[h]
    <3>1. StateInv(h, k)
      BY DEF GInv, LifeInv
    <3> QED
      BY <2>2, <3>1, ServingOpen DEF StateInv, Life
  <2> QED
    BY <2>1, <2>2 DEF PostsOnOpenQueues, GInv, CoreInv
<1> QED
  BY <1>1, Invariance, PTL

\* A HandlerState that has been deleted is known to nobody.
THEOREM FreedForgotten == Spec => []FreedIsForgotten
<1>1. GInv => FreedIsForgotten
  <2> SUFFICES ASSUME GInv, NEW h \in Handlers, NEW k \in HandlerStates(h),
                      step[<<h, k>>] = "freed"
               PROVE  /\ tag[<<h, k>>] = "none"
                      /\ reply[<<h, k>>] \in {"none", "finished"}
                      /\ rpc[<<h, k>>] # "serving"
                      /\ cur[h] = k => tpc[h] \in {"next", "exited"}
                      /\ h = Infer => request[k] # "accepted"
    BY DEF FreedIsForgotten
  <2>1. /\ tag[<<h, k>>] = "none"
        /\ reply[<<h, k>>] \in {"none", "finished"}
        /\ rpc[<<h, k>>] # "serving"
    BY DEF GInv, LifeInv, StateInv, Life
  <2>2. cur[h] = k => tpc[h] \in {"next", "exited"}
    <3>1. ThreadOf(h) /\ k > 0
      BY GrpcAssumption DEF GInv, ThreadInv, HandlerStates
    <3> QED
      BY <3>1 DEF ThreadOf, GInv, TypeOK
  <2>3. h = Infer => request[k] # "accepted"
    BY DEF GInv, InferInv, InferenceOf
  <2> QED
    BY <2>1, <2>2, <2>3
<1> QED
  BY <1>1, Invariance, PTL

\* Nothing is left of any call when the handlers have been joined, so that the
\* model manager is stopped behind the last of them.
THEOREM NothingLeft == Spec => []NothingLeftAtStop
<1>1. GInv => NothingLeftAtStop
  <2> SUFFICES ASSUME GInv, spc \in {"joined", "stopped"}
               PROVE  /\ \A s \in States : step[s] \in {"unborn", "freed"} /\ rpc[s] # "serving"
                      /\ \A k \in HandlerStates(Infer) : request[k] # "accepted"
    BY DEF NothingLeftAtStop
  <2>1. ASSUME NEW h \in Handlers, NEW k \in HandlerStates(h)
        PROVE  step[<<h, k>>] \in {"unborn", "freed"} /\ rpc[<<h, k>>] # "serving"
    <3>1. StateInv(h, k) /\ tpc[h] = "exited" /\ server = "down"
      BY DEF GInv, LifeInv, CoreInv
    <3> QED
      BY <3>1 DEF StateInv, Life
  <2>2. ASSUME NEW k \in HandlerStates(Infer) PROVE request[k] # "accepted"
    <3>1. InferenceOf(k) /\ Infer \in Handlers
      BY DEF GInv, InferInv, Handlers
    <3> QED
      BY <2>1, <3>1 DEF InferenceOf
  <2> QED
    BY <2>1, <2>2, StatePairs
<1> QED
  BY <1>1, Invariance, PTL

\* A handler of a server that is up always has exactly one request posted, or
\* a call with which it will post the next.
THEOREM Listens == Spec => []AlwaysListening
<1>1. GInv => AlwaysListening
  <2> SUFFICES ASSUME GInv, server = "up", NEW h \in Handlers,
                      tpc[h] \notin {"unborn", "born", "called"}
               PROVE  \E k \in HandlerStates(h) : Listening(h) = {k}
    BY DEF AlwaysListening
  <2>1. made[h] \in HandlerStates(h)
    <3>1. made[h] \in Nat /\ made[h] <= MaxCalls[h] + 1 /\ MaxCalls[h] \in Nat
      BY GrpcAssumption DEF GInv, TypeOK
    <3>2. made[h] # 0
      BY DEF GInv, ThreadInv, ThreadOf
    <3> QED
      BY <3>1, <3>2 DEF HandlerStates
  <2>2. ASSUME NEW k \in HandlerStates(h) PROVE StateInv(h, k)
    BY DEF GInv, LifeInv
  <2>3. made[h] \in Listening(h)
    BY <2>1, <2>2 DEF StateInv, Life, Listening
  <2>4. \A k \in Listening(h) : k = made[h]
    BY <2>2 DEF StateInv, Listening
  <2> QED
    BY <2>1, <2>3, <2>4
<1> QED
  BY <1>1, Invariance, PTL
-----------------------------------------------------------------------------

\* A step that leaves step, reply and rpc alone moves no state.
LEMMA StatesAtRest ==
  ASSUME UNCHANGED <<step, reply, rpc>>
  PROVE  \A s \in States : StateMoves(s)
BY DEF StateMoves

\* Nor does one of InferenceCore's thread.
LEMMA CoreMoves ==
  ASSUME Start \/ StopCall \/ Stop
  PROVE  \A s \in States : StateMoves(s)
<1>1. UNCHANGED <<step, reply, rpc>>
  BY DEF Start, StopCall, Stop, BuildAndStart, StartHandler, StartReturn, Shutdown, ShutdownNull,
         ShutdownReturn, ShutdownQueue, JoinHandlers, StopManager, stateVars
<1> QED
  BY <1>1, StatesAtRest

\* A call arrives, is answered, and the answer is sent.
LEMMA CompletionMoves ==
  ASSUME GInv, NEW h \in Handlers, NEW k \in HandlerStates(h),
         Arrive(h, k) \/ Finished(h, k) \/ OnCompletedStep(h, k) \/ OnCompletedFinish(h, k),
         NEW s \in States
  PROVE  StateMoves(s)
<1>1. Life(<<h, k>>) /\ <<h, k>> \in States
  BY StatePairs DEF GInv, LifeInv, StateInv
<1>2. TypeOK
  BY DEF GInv
<1>3. CASE Arrive(h, k)
  BY <1>1, <1>2, <1>3 DEF Arrive, StateMoves, Life, TypeOK
<1>4. CASE Finished(h, k)
  BY <1>1, <1>2, <1>4 DEF Finished, StateMoves, Life, TypeOK
<1>5. CASE OnCompletedStep(h, k)
  BY <1>1, <1>2, <1>5 DEF OnCompletedStep, StateMoves, Life, TypeOK
<1>6. CASE OnCompletedFinish(h, k)
  BY <1>1, <1>2, <1>6 DEF OnCompletedFinish, StateMoves, Life, TypeOK
<1> QED
  BY <1>3, <1>4, <1>5, <1>6

\* The thread of a handler makes a state, processes one and deletes one; a
\* status or health call is completed in it.
LEMMA EventMoves ==
  ASSUME GInv, NEW h \in Handlers, HandleEvents(h), NEW s \in States
  PROVE  StateMoves(s)
<1>1. TypeOK /\ ThreadOf(h)
  BY DEF GInv, ThreadInv
<1>2. CASE StartNewRequest(h)
  <2>1. CASE UNCHANGED step
    BY <1>2, <2>1, StatesAtRest DEF StartNewRequest
  <2>2. CASE step' = [r \in States |-> CASE r = <<h, made[h] + 1>> -> "START"
                                         [] r = <<h, cur[h]>> -> "PROCESS"
                                         [] OTHER -> step[r]]
    <3>1. made[h] \in Nat /\ cur[h] \in Nat /\ cur[h] <= made[h]
      BY <1>1 DEF TypeOK
    <3>2. CASE s = <<h, made[h] + 1>>
      <4>1. made[h] + 1 \in HandlerStates(h)
        BY <3>2, StatePairs DEF States
      <4>2. step[s] = "unborn"
        BY <3>1, <3>2, <4>1 DEF GInv, LifeInv, StateInv
      <4>3. step'[s] = "START"
        BY <2>2, <3>1, <3>2
      <4>4. reply'[s] = reply[s] /\ rpc'[s] = rpc[s]
        BY <1>2 DEF StartNewRequest
      <4> QED
        BY <4>2, <4>3, <4>4 DEF StateMoves
    <3>3. CASE s = <<h, cur[h]>> /\ s # <<h, made[h] + 1>>
      <4>1. cur[h] \in HandlerStates(h)
        BY <3>3 DEF States
      <4>2. cur[h] # 0
        BY <4>1, GrpcAssumption DEF HandlerStates
      <4>3. step[s] = "START"
        BY <1>1, <1>2, <3>3, <4>2 DEF ThreadOf, StartNewRequest
      <4> QED
        BY <1>2, <2>2, <3>3, <4>3 DEF StartNewRequest, StateMoves
    <3>4. CASE s # <<h, cur[h]>> /\ s # <<h, made[h] + 1>>
      BY <1>2, <2>2, <3>4 DEF StartNewRequest, StateMoves
    <3> QED
      BY <3>2, <3>3, <3>4
  <2> QED
    BY <1>2, <2>1, <2>2 DEF StartNewRequest
<1>3. ASSUME NEW k \in HandlerStates(h), ProcessStart(h, k) PROVE StateMoves(s)
  BY <1>3, StatesAtRest DEF ProcessStart
<1>4. ASSUME NEW k \in HandlerStates(h), ProcessFinish(h, k) PROVE StateMoves(s)
  <2>1. Life(<<h, k>>) /\ <<h, k>> \in States
    BY StatePairs DEF GInv, LifeInv, StateInv
  <2>2. step[<<h, k>>] \in {"START", "FINISH"}
           /\ (step[<<h, k>>] = "START" => tag[<<h, k>>] = "failed")
    BY <1>4, <2>1 DEF ProcessFinish, Life
  <2> QED
    BY <1>1, <1>4, <2>1, <2>2 DEF ProcessFinish, StateMoves, TypeOK
<1>5. CASE TakeAction(h)
  <2>1. cur[h] \in HandlerStates(h) /\ step[<<h, cur[h]>>] = "PROCESS"
           /\ reply[<<h, cur[h]>>] = "none"
    BY <1>1, <1>5 DEF TakeAction, ThreadOf
  <2>2. Life(<<h, cur[h]>>)
    BY <2>1 DEF GInv, LifeInv, StateInv
  <2>3. rpc[<<h, cur[h]>>] = "serving"
    BY <2>1, <2>2 DEF Life
  <2> QED
    BY <1>1, <1>5, <2>1, <2>3 DEF TakeAction, StateMoves, TypeOK
<1>6. CASE TakeActionReturn(h) \/ HandlerExit(h)
  BY <1>6, StatesAtRest DEF TakeActionReturn, HandlerExit, stateVars
<1> QED
  BY <1>2, <1>3, <1>4, <1>5, <1>6 DEF HandleEvents

\* An inference is completed by its handler if it was turned away, and by its
\* runner if it was accepted: of the two requests, new and accepted, neither has
\* had a reply.
LEMMA InferMoves ==
  ASSUME GInv, InferAsync \/ Runner, NEW s \in States
  PROVE  StateMoves(s)
<1>1. TypeOK /\ ThreadOf(Infer) /\ Infer \in Handlers
  BY DEF GInv, ThreadInv, Handlers
<1>2. CASE InferCall \/ InferAccepted \/ InferReturn
  BY <1>2, StatesAtRest DEF InferCall, InferAccepted, InferReturn, stateVars
<1>3. CASE InferRejected
  <2>1. cur[Infer] \in HandlerStates(Infer) /\ step[<<Infer, cur[Infer]>>] = "PROCESS"
           /\ reply[<<Infer, cur[Infer]>>] = "none"
    BY <1>1, <1>3 DEF InferRejected, ThreadOf
  <2>2. rpc[<<Infer, cur[Infer]>>] = "serving"
    BY <1>1, <2>1 DEF GInv, LifeInv, StateInv, Life
  <2> QED
    BY <1>1, <1>3, <2>1, <2>2 DEF InferRejected, StateMoves, TypeOK
<1>4. ASSUME NEW k \in HandlerStates(Infer), OnInferCompleted(k) PROVE StateMoves(s)
  <2>1. step[<<Infer, k>>] = "PROCESS" /\ reply[<<Infer, k>>] = "none"
    BY <1>4 DEF GInv, InferInv, InferenceOf, OnInferCompleted, Schedulers!Answer
  <2>2. rpc[<<Infer, k>>] = "serving"
    BY <1>1, <2>1 DEF GInv, LifeInv, StateInv, Life
  <2> QED
    BY <1>1, <1>4, <2>1, <2>2 DEF OnInferCompleted, StateMoves, TypeOK
<1> QED
  BY <1>2, <1>3, <1>4 DEF InferAsync, Runner

\* Every state goes through its life once, and every call is completed once,
\* whoever completes it.
THEOREM LivesOnce == Spec => CompletedOnce
<1>1. GInv /\ [Next]_vars => [\A s \in States : StateMoves(s)]_vars
  <2> SUFFICES ASSUME GInv, Next PROVE \A s \in States : StateMoves(s)
    OBVIOUS
  <2>1. CASE Start \/ StopCall \/ Stop
    BY <2>1, CoreMoves
  <2>2. ASSUME NEW h \in Handlers, HandleEvents(h) PROVE \A s \in States : StateMoves(s)
    BY <2>2, EventMoves
  <2>3. ASSUME NEW h \in Handlers, Completion(h) PROVE \A s \in States : StateMoves(s)
    BY <2>3, CompletionMoves DEF Completion, OnCompleted
  <2>4. CASE InferAsync \/ Runner
    BY <2>4, InferMoves
  <2>5. ASSUME NEW h \in Handlers, NEW k \in HandlerStates(h), Arrive(h, k)
        PROVE  \A s \in States : StateMoves(s)
    BY <2>5, CompletionMoves
  <2>6. ASSUME NEW k \in HandlerStates(Infer), DropPayload(k)
        PROVE  \A s \in States : StateMoves(s)
    BY <2>6, StatesAtRest DEF DropPayload, stateVars
  <2>7. CASE Terminated
    BY <2>7, StatesAtRest DEF Terminated, vars, stateVars
  <2> QED
    BY <2>1, <2>2, <2>3, <2>4, <2>5, <2>6, <2>7 DEF Next
<1> QED
  BY <1>1, Invariance, PTL DEF Spec, CompletedOnce
=============================================================================
