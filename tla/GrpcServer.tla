----------------------------- MODULE GrpcServer -----------------------------
(***************************************************************************)
(* GrpcServer with its three handlers, and InferenceCore, which starts and *)
(* stops it together with the model manager.                               *)
(*                                                                         *)
(* A handler has one thread and one completion queue.  For every call it   *)
(* makes a HandlerState, posts it as the tag of a request, and posts it    *)
(* again as the tag of Finish when the call has been answered; the k-th    *)
(* call of a handler is served by its k-th state.  StatusHandler and       *)
(* HealthHandler answer in their own thread.  InferHandler passes the      *)
(* request on, and a runner of some scheduler answers it: what schedulers  *)
(* promise is RequestLifecycle.                                            *)
(*                                                                         *)
(* gRPC is external: a request posted while the server is up waits for a   *)
(* call, one posted later comes back failed; posting on a queue that has   *)
(* been shut down ends the process; Server::Shutdown returns when no call  *)
(* is in progress; Next returns false when the queue has been shut down    *)
(* and every tag has come back.                                            *)
(***************************************************************************)
EXTENDS Naturals

CONSTANTS
    Infer, Status, Health,  \* the handlers
    MaxCalls                \* bound: the number of calls each one gets

Handlers == {Infer, Status, Health}

ASSUME GrpcAssumption ==
    /\ Infer # Status /\ Status # Health /\ Health # Infer
    /\ MaxCalls \in [Handlers -> Nat]

\* The states a handler makes: one for every call, and one that waits for a
\* call that does not come.
HandlerStates(h) == 1 .. MaxCalls[h] + 1
States == UNION {{h} \X HandlerStates(h) : h \in Handlers}

VARIABLES
    server,     \* grpc_server_: none, up, null, closing or down
    running,    \* running_
    spc,        \* where InferenceCore's thread is in Start and Stop
    open,       \* of every handler: its completion queue is not shut down
    tpc,        \* of every handler: where its thread is
    cur,        \* of every handler: the state its thread works on
    made,       \* of every handler: how many states it has made
    step,       \* of every state: step_, unborn before and freed after
    tag,        \* of every state: what gRPC has of its tag, an operation or an event
    reply,      \* of every state: how far its OnCompleted has got
    rpc,        \* of every state: the call it serves, as the client sees it
    request,    \* of every inference: what the schedulers did with it
    over,       \* the model manager has stopped
    dropped,    \* the inferences a scheduler gave up on
    crashed

coreVars   == <<server, running, spc, open>>
threadVars == <<tpc, cur, made>>
stateVars  == <<step, tag, reply, rpc>>
inferVars  == <<request, over, dropped>>
vars == <<coreVars, threadVars, stateVars, inferVars, crashed>>

Schedulers == INSTANCE RequestLifecycle
                WITH Requests <- HandlerStates(Infer), state <- request

\* The handlers that Start and Stop deal with before h.
Before(h) == CASE h = Infer -> {} [] h = Status -> {Infer} [] h = Health -> {Infer, Status}

-----------------------------------------------------------------------------

\* InferenceCore has been constructed.
Init ==
    /\ server = "none"
    /\ running = FALSE
    /\ spc = "constructed"
    /\ open = [h \in Handlers |-> FALSE]
    /\ tpc = [h \in Handlers |-> "unborn"]
    /\ cur = [h \in Handlers |-> 0]
    /\ made = [h \in Handlers |-> 0]
    /\ step = [s \in States |-> "unborn"]
    /\ tag = [s \in States |-> "none"]
    /\ reply = [s \in States |-> "none"]
    /\ rpc = [s \in States |-> "none"]
    /\ Schedulers!Init
    /\ dropped = {}
    /\ crashed = FALSE

(***************************************************************************)
(* InferenceCore::Start.  BuildAndStart returns null when the address      *)
(* cannot be bound, which nobody checks.                                   *)
(***************************************************************************)
BuildAndStart ==
    /\ spc = "constructed"
    /\ server' \in {"up", "null"}
    /\ open' = [h \in Handlers |-> TRUE]
    /\ spc' = "starting"
    /\ UNCHANGED <<running, threadVars, stateVars, inferVars, crashed>>

StartHandler(h) ==
    /\ spc = "starting"
    /\ tpc[h] = "unborn"
    /\ \A g \in Before(h) : tpc[g] # "unborn"
    /\ tpc' = [tpc EXCEPT ![h] = "born"]
    /\ UNCHANGED <<coreVars, cur, made, stateVars, inferVars, crashed>>

StartReturn ==
    /\ spc = "starting"
    /\ \A h \in Handlers : tpc[h] # "unborn"
    /\ running' = TRUE
    /\ spc' = "started"
    /\ UNCHANGED <<server, open, threadVars, stateVars, inferVars, crashed>>

(***************************************************************************)
(* InferenceCore::Stop: shut the server down, then the queues, join the    *)
(* handlers, and only then stop the model manager.                         *)
(***************************************************************************)
\* Shutdown sends the requests that no call has come for back as failed.
Shutdown ==
    /\ spc = "started" /\ running
    /\ server = "up"
    /\ server' = "closing"
    /\ tag' = [s \in States |-> IF tag[s] = "requested" THEN "failed" ELSE tag[s]]
    /\ spc' = "shutdown"
    /\ UNCHANGED <<running, open, threadVars, step, reply, rpc, inferVars, crashed>>

ShutdownNull ==
    /\ spc = "started" /\ running
    /\ server = "null"
    /\ crashed' = TRUE
    /\ UNCHANGED <<coreVars, threadVars, stateVars, inferVars>>

\* Slip: Shutdown does not wait for the calls in progress.
ShutdownReturn_NoWait ==
    /\ spc = "shutdown"
    /\ server' = "down"
    /\ spc' = "closing"
    /\ UNCHANGED <<running, open, threadVars, stateVars, inferVars, crashed>>

ShutdownReturn ==
    /\ spc = "shutdown"
    /\ \A s \in States : rpc[s] # "serving"
    /\ server' = "down"
    /\ spc' = "closing"
    /\ UNCHANGED <<running, open, threadVars, stateVars, inferVars, crashed>>

\* Slip: one queue is forgotten.
ShutdownQueue_NotHealth(h) ==
    /\ spc = "closing"
    /\ open[h] /\ h # Health
    /\ \A g \in Before(h) : ~open[g]
    /\ open' = [open EXCEPT ![h] = FALSE]
    /\ UNCHANGED <<server, running, spc, threadVars, stateVars, inferVars, crashed>>

ShutdownQueue(h) ==
    /\ spc = "closing"
    /\ open[h]
    /\ \A g \in Before(h) : ~open[g]
    /\ open' = [open EXCEPT ![h] = FALSE]
    /\ UNCHANGED <<server, running, spc, threadVars, stateVars, inferVars, crashed>>

JoinHandlers ==
    /\ spc = "closing"
    /\ \A h \in Handlers : ~open[h] /\ tpc[h] = "exited"
    /\ running' = FALSE
    /\ spc' = "joined"
    /\ UNCHANGED <<server, open, threadVars, stateVars, inferVars, crashed>>

StopManager ==
    /\ spc = "joined"
    /\ Schedulers!Finish
    /\ spc' = "stopped"
    /\ UNCHANGED <<server, running, open, threadVars, stateVars, dropped, crashed>>

(***************************************************************************)
(* gRPC: a call comes for a posted request, and a Finish is done with, the *)
(* client being there or not.                                              *)
(***************************************************************************)
Arrive(h, k) ==
    /\ server = "up"
    /\ k <= MaxCalls[h]
    /\ tag[<<h, k>>] = "requested"
    /\ tag' = [tag EXCEPT ![<<h, k>>] = "ok"]
    /\ rpc' = [rpc EXCEPT ![<<h, k>>] = "serving"]
    /\ UNCHANGED <<coreVars, threadVars, step, reply, inferVars, crashed>>

Finished(h, k) ==
    /\ tag[<<h, k>>] = "finishing"
    /\ \E result \in {"ok", "failed"} : tag' = [tag EXCEPT ![<<h, k>>] = result]
    /\ rpc' = [rpc EXCEPT ![<<h, k>>] = "finished"]
    /\ UNCHANGED <<coreVars, threadVars, step, reply, inferVars, crashed>>

-----------------------------------------------------------------------------
(***************************************************************************)
(* HandlerState::OnCompleted, in the handler's thread or in a runner's:    *)
(* the step is set before the state is given to gRPC.                      *)
(***************************************************************************)
OnCompletedStep(h, k) ==
    /\ reply[<<h, k>>] = "completing"
    /\ step' = [step EXCEPT ![<<h, k>>] = "FINISH"]
    /\ reply' = [reply EXCEPT ![<<h, k>>] = "stepped"]
    /\ UNCHANGED <<coreVars, threadVars, tag, rpc, inferVars, crashed>>

\* The thread does not touch the state after this.
OnCompletedFinish(h, k) ==
    /\ reply[<<h, k>>] = "stepped"
    /\ tag' = [tag EXCEPT ![<<h, k>>] = "finishing"]
    /\ reply' = [reply EXCEPT ![<<h, k>>] = "finished"]
    /\ crashed' = ~open[h]
    /\ UNCHANGED <<coreVars, threadVars, step, rpc, inferVars>>

\* Slip: the step is set after Finish.
OnCompleted_FinishFirst(h, k) ==
    \/ /\ reply[<<h, k>>] = "completing"
       /\ tag' = [tag EXCEPT ![<<h, k>>] = "finishing"]
       /\ reply' = [reply EXCEPT ![<<h, k>>] = "stepped"]
       /\ UNCHANGED <<coreVars, threadVars, step, rpc, inferVars, crashed>>
    \/ /\ reply[<<h, k>>] = "stepped"
       /\ step' = [step EXCEPT ![<<h, k>>] = "FINISH"]
       /\ reply' = [reply EXCEPT ![<<h, k>>] = "finished"]
       /\ UNCHANGED <<coreVars, threadVars, tag, rpc, inferVars, crashed>>

OnCompleted(h, k) == OnCompletedStep(h, k) \/ OnCompletedFinish(h, k)

(***************************************************************************)
(* HandleEvents and Process.                                               *)
(***************************************************************************)
\* The next state is posted: at the start of the thread, and when a call has
\* come, before it is worked on.  A server that is null is not there to post
\* on: the process crashes, or nothing ever comes back.
StartNewRequest(h) ==
    /\ tpc[h] \in {"born", "called"}
    /\ LET k == made[h] + 1 IN
       \/ /\ open[h]
          /\ made' = [made EXCEPT ![h] = k]
          /\ step' = [s \in States |-> CASE s = <<h, k>> -> "START"
                                         [] s = <<h, cur[h]>> -> "PROCESS"
                                         [] OTHER -> step[s]]
          /\ tag' = [tag EXCEPT ![<<h, k>>] = IF server \in {"up", "null"} THEN "requested"
                                                                       ELSE "failed"]
          /\ tpc' = [tpc EXCEPT ![h] = IF tpc[h] = "born" THEN "next" ELSE "action"]
          /\ UNCHANGED crashed
       \/ /\ ~open[h] \/ server = "null"
          /\ crashed' = TRUE
          /\ UNCHANGED <<tpc, made, step, tag>>
    /\ UNCHANGED <<coreVars, cur, reply, rpc, inferVars>>

\* Slip: a failed request is taken for a call.
ProcessStart_NotOk(h, k) ==
    /\ tpc[h] = "next"
    /\ tag[<<h, k>>] \in {"ok", "failed"} /\ step[<<h, k>>] = "START"
    /\ tag' = [tag EXCEPT ![<<h, k>>] = "none"]
    /\ cur' = [cur EXCEPT ![h] = k]
    /\ tpc' = [tpc EXCEPT ![h] = "called"]
    /\ UNCHANGED <<coreVars, made, step, reply, rpc, inferVars, crashed>>

\* Slip: the next call is not asked for.
ProcessStart_NoNext(h, k) ==
    /\ tpc[h] = "next"
    /\ tag[<<h, k>>] = "ok" /\ step[<<h, k>>] = "START"
    /\ tag' = [tag EXCEPT ![<<h, k>>] = "none"]
    /\ step' = [step EXCEPT ![<<h, k>>] = "PROCESS"]
    /\ cur' = [cur EXCEPT ![h] = k]
    /\ tpc' = [tpc EXCEPT ![h] = "action"]
    /\ UNCHANGED <<coreVars, made, reply, rpc, inferVars, crashed>>

\* Next returns a tag whose request has a call: Process starts on it.
ProcessStart(h, k) ==
    /\ tpc[h] = "next"
    /\ tag[<<h, k>>] = "ok" /\ step[<<h, k>>] = "START"
    /\ tag' = [tag EXCEPT ![<<h, k>>] = "none"]
    /\ cur' = [cur EXCEPT ![h] = k]
    /\ tpc' = [tpc EXCEPT ![h] = "called"]
    /\ UNCHANGED <<coreVars, made, step, reply, rpc, inferVars, crashed>>

\* It returns anything else: a state that is finished, or whose request has
\* failed, is deleted, and one that is still in PROCESS left alone.
ProcessFinish(h, k) ==
    /\ tpc[h] = "next"
    /\ tag[<<h, k>>] \in {"ok", "failed"}
    /\ ~(tag[<<h, k>>] = "ok" /\ step[<<h, k>>] = "START")
    /\ tag' = [tag EXCEPT ![<<h, k>>] = "none"]
    /\ step' = [step EXCEPT ![<<h, k>>] = IF @ = "PROCESS" THEN @ ELSE "freed"]
    /\ UNCHANGED <<coreVars, threadVars, reply, rpc, inferVars, crashed>>

\* Next returns false.
HandlerExit(h) ==
    /\ tpc[h] = "next"
    /\ ~open[h]
    /\ \A k \in HandlerStates(h) : tag[<<h, k>>] = "none"
    /\ tpc' = [tpc EXCEPT ![h] = "exited"]
    /\ UNCHANGED <<coreVars, cur, made, stateVars, inferVars, crashed>>

(***************************************************************************)
(* TakeAction.  GetStatus, and GetHealth asked for "ready", take           *)
(* model_map_mu_; GetHealth asked for "live" or for nonsense does not.     *)
(* Whatever they return, OnCompleted follows.                              *)
(***************************************************************************)
MapMuFree == tpc[Infer] \notin {"enqueuing", "returning"}

TakeAction(h) ==
    /\ h # Infer
    /\ tpc[h] = "action"
    /\ h = Status => MapMuFree
    /\ reply' = [reply EXCEPT ![<<h, cur[h]>>] = "completing"]
    /\ tpc' = [tpc EXCEPT ![h] = "completing"]
    /\ UNCHANGED <<coreVars, cur, made, step, tag, rpc, inferVars, crashed>>

\* The handler's own thread is back from OnCompleted.
TakeActionReturn(h) ==
    /\ tpc[h] = "completing"
    /\ reply[<<h, cur[h]>>] = "finished"
    /\ tpc' = [tpc EXCEPT ![h] = "next"]
    /\ UNCHANGED <<coreVars, cur, made, stateVars, inferVars, crashed>>

(***************************************************************************)
(* InferHandler::TakeAction: InferAsync, which holds model_map_mu_ until   *)
(* the payload is in a queue, may block.  A request that is turned away is *)
(* completed at once; an accepted one is left to its runner, which may be  *)
(* faster than the return of InferAsync.                                   *)
(***************************************************************************)
InferCall ==
    /\ tpc[Infer] = "action"
    /\ tpc' = [tpc EXCEPT ![Infer] = "enqueuing"]
    /\ UNCHANGED <<coreVars, cur, made, stateVars, inferVars, crashed>>

\* Slip: an accepted request is completed by the handler too.
InferAccepted_Completed ==
    /\ tpc[Infer] = "enqueuing"
    /\ Schedulers!Accept(cur[Infer])
    /\ reply' = [reply EXCEPT ![<<Infer, cur[Infer]>>] = "completing"]
    /\ tpc' = [tpc EXCEPT ![Infer] = "completing"]
    /\ UNCHANGED <<coreVars, cur, made, step, tag, rpc, dropped, crashed>>

InferAccepted ==
    /\ tpc[Infer] = "enqueuing"
    /\ Schedulers!Accept(cur[Infer])
    /\ tpc' = [tpc EXCEPT ![Infer] = "returning"]
    /\ UNCHANGED <<coreVars, cur, made, stateVars, dropped, crashed>>

InferReturn ==
    /\ tpc[Infer] = "returning"
    /\ tpc' = [tpc EXCEPT ![Infer] = "next"]
    /\ UNCHANGED <<coreVars, cur, made, stateVars, inferVars, crashed>>

\* Slip: a request that was turned away is left without an answer.
InferRejected_Silent ==
    /\ tpc[Infer] = "enqueuing"
    /\ Schedulers!Reject(cur[Infer])
    /\ tpc' = [tpc EXCEPT ![Infer] = "next"]
    /\ UNCHANGED <<coreVars, cur, made, stateVars, dropped, crashed>>

InferRejected ==
    /\ tpc[Infer] = "enqueuing"
    /\ Schedulers!Reject(cur[Infer])
    /\ reply' = [reply EXCEPT ![<<Infer, cur[Infer]>>] = "completing"]
    /\ tpc' = [tpc EXCEPT ![Infer] = "completing"]
    /\ UNCHANGED <<coreVars, cur, made, step, tag, rpc, dropped, crashed>>

\* A runner calls the payload's OnInferCompleted: the response is filled in,
\* with the outputs or with an error, and OnCompleted is called.
OnInferCompleted(k) ==
    /\ k \notin dropped
    /\ Schedulers!Answer(k)
    /\ reply' = [reply EXCEPT ![<<Infer, k>>] = "completing"]
    /\ UNCHANGED <<coreVars, threadVars, step, tag, rpc, dropped, crashed>>

\* The scheduler of a model that is removed gives up on its queue.
DropPayload(k) ==
    /\ request[k] = "accepted"
    /\ k \notin dropped
    /\ dropped' = dropped \cup {k}
    /\ UNCHANGED <<coreVars, threadVars, stateVars, request, over, crashed>>

-----------------------------------------------------------------------------

HandleEvents(h) ==
    \/ StartNewRequest(h)
    \/ \E k \in HandlerStates(h) : ProcessStart(h, k) \/ ProcessFinish(h, k)
    \/ TakeAction(h) \/ TakeActionReturn(h)
    \/ HandlerExit(h)

InferAsync == InferCall \/ InferAccepted \/ InferReturn \/ InferRejected

Start == BuildAndStart \/ (\E h \in Handlers : StartHandler(h)) \/ StartReturn

StopCall == Shutdown \/ ShutdownNull

Stop ==
    \/ ShutdownReturn
    \/ \E h \in Handlers : ShutdownQueue(h)
    \/ JoinHandlers \/ StopManager

Completion(h) ==
    \E k \in HandlerStates(h) : OnCompleted(h, k) \/ Finished(h, k)

Runner == \E k \in HandlerStates(Infer) : OnInferCompleted(k)

Terminated ==
    /\ crashed \/ spc = "stopped" \/ dropped # {}
    /\ UNCHANGED vars

Next ==
    \/ /\ ~crashed
       /\ \/ Start \/ StopCall \/ Stop
          \/ \E h \in Handlers : HandleEvents(h) \/ Completion(h)
          \/ InferAsync \/ Runner
          \/ \E h \in Handlers : \E k \in HandlerStates(h) : Arrive(h, k)
          \/ \E k \in HandlerStates(Infer) : DropPayload(k)
    \/ Terminated

Spec == Init /\ [][Next]_vars

\* The threads run on, InferAsync returns and runners answer what was not
\* dropped (ModelRunContext and SimpleScheduler say when), and gRPC sends what
\* is finished.  Nothing makes a call come or Stop be called.
Fairness ==
    /\ \A h \in Handlers : WF_vars(~crashed /\ HandleEvents(h))
    /\ \A h \in Handlers : WF_vars(~crashed /\ Completion(h))
    /\ WF_vars(~crashed /\ InferAsync)
    /\ WF_vars(~crashed /\ Runner)
    /\ WF_vars(~crashed /\ Stop)

FairSpec == Spec /\ Fairness

-----------------------------------------------------------------------------

TypeOK ==
    /\ server \in {"none", "up", "null", "closing", "down"}
    /\ running \in BOOLEAN
    /\ spc \in {"constructed", "starting", "started", "shutdown", "closing",
                "joined", "stopped"}
    /\ open \in [Handlers -> BOOLEAN]
    /\ tpc \in [Handlers -> {"unborn", "born", "next", "called", "action",
                             "enqueuing", "returning", "completing", "exited"}]
    /\ cur \in [Handlers -> Nat]
    /\ made \in [Handlers -> Nat]
    /\ \A h \in Handlers : cur[h] <= made[h] /\ made[h] <= MaxCalls[h] + 1
    /\ step \in [States -> {"unborn", "START", "PROCESS", "FINISH", "freed"}]
    /\ tag \in [States -> {"none", "requested", "finishing", "ok", "failed"}]
    /\ reply \in [States -> {"none", "completing", "stepped", "finished"}]
    /\ rpc \in [States -> {"none", "serving", "finished"}]
    /\ request \in [HandlerStates(Infer) -> {"new", "accepted", "rejected", "answered"}]
    /\ over \in BOOLEAN
    /\ dropped \in SUBSET HandlerStates(Infer)
    /\ crashed \in BOOLEAN

(***************************************************************************)
(* A queue is not shut down while somebody is going to post on it: neither *)
(* a thread that has a call and is about to ask for the next one, nor a    *)
(* handler or a runner on its way to Finish.  It rests on Shutdown waiting *)
(* for the calls in progress, on the queues coming after the server, and   *)
(* on StartNewRequest coming before TakeAction.  So two things bring the   *)
(* process down: an address that could not be bound, and a Stop that       *)
(* overtakes a thread which has not posted its first request.              *)
(***************************************************************************)
PostsOnOpenQueues ==
    /\ \A h \in Handlers : ~open[h] =>
        /\ tpc[h] # "called"
        /\ \A k \in HandlerStates(h) : reply[<<h, k>>] \notin {"completing", "stepped"}
    /\ crashed => \/ server = "null"
                  \/ \E h \in Handlers : tpc[h] = "born" /\ ~open[h]

(***************************************************************************)
(* A state is deleted by its handler when nobody refers to it any more:    *)
(* gRPC has no tag of it, no thread is on its way through OnCompleted or   *)
(* inside InferAsync with it, and no runner will answer it.                *)
(***************************************************************************)
FreedIsForgotten ==
    \A h \in Handlers : \A k \in HandlerStates(h) :
        step[<<h, k>>] = "freed" =>
            /\ tag[<<h, k>>] = "none"
            /\ reply[<<h, k>>] \in {"none", "finished"}
            /\ rpc[<<h, k>>] # "serving"
            /\ cur[h] = k => tpc[h] \in {"next", "exited"}
            /\ h = Infer => request[k] # "accepted"

(***************************************************************************)
(* When the handlers are joined every state made has been deleted, every   *)
(* call finished and every accepted inference answered, so that the model  *)
(* manager, which is stopped next, is no longer used.                      *)
(***************************************************************************)
NothingLeftAtStop ==
    spc \in {"joined", "stopped"} =>
        /\ \A s \in States : step[s] \in {"unborn", "freed"} /\ rpc[s] # "serving"
        /\ \A k \in HandlerStates(Infer) : request[k] # "accepted"

(***************************************************************************)
(* While the server is up every handler that has started waits for a call, *)
(* or has one it will ask for the next call with: exactly one state is     *)
(* posted.                                                                 *)
(***************************************************************************)
Listening(h) == {k \in HandlerStates(h) : tag[<<h, k>>] \in {"requested", "ok"}
                                         /\ step[<<h, k>>] = "START"}

AlwaysListening ==
    server = "up" => \A h \in Handlers :
        tpc[h] \notin {"unborn", "born", "called"} =>
            \E k \in HandlerStates(h) : Listening(h) = {k}

(***************************************************************************)
(* A HandlerState lives once, and its call is completed once: by the       *)
(* handler's thread or by a runner, never by both, and only between the    *)
(* start of Process and the delete.  A state whose request has failed is   *)
(* deleted without having been processed, and no other.                    *)
(***************************************************************************)
StateMoves(s) ==
    /\ <<step[s], step'[s]>> \in
          {<<"unborn", "START">>, <<"START", "PROCESS">>, <<"PROCESS", "FINISH">>,
           <<"FINISH", "freed">>, <<"START", "freed">>} \/ step'[s] = step[s]
    /\ <<reply[s], reply'[s]>> \in
          {<<"none", "completing">>, <<"completing", "stepped">>, <<"stepped", "finished">>}
             \/ reply'[s] = reply[s]
    /\ <<rpc[s], rpc'[s]>> \in {<<"none", "serving">>, <<"serving", "finished">>}
          \/ rpc'[s] = rpc[s]
    /\ reply'[s] # reply[s] => step[s] \in {"PROCESS", "FINISH"} /\ rpc[s] = "serving"
    /\ step[s] = "START" /\ step'[s] = "freed" => tag[s] = "failed"

CompletedOnce == [][\A s \in States : StateMoves(s)]_vars

(***************************************************************************)
(* Every call is finished, unless its payload was dropped.                 *)
(***************************************************************************)
CallsFinish ==
    \A h \in Handlers : \A k \in 1 .. MaxCalls[h] :
        rpc[<<h, k>>] = "serving" ~>
            (rpc[<<h, k>>] = "finished" \/ crashed \/ (h = Infer /\ k \in dropped))

\* Stop returns, unless a payload was dropped: Shutdown waits for its call.
StopReturns ==
    spc = "shutdown" ~> (spc = "stopped" \/ crashed \/ dropped # {})
=============================================================================
