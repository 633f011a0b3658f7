# model-inference-server in TLA+

TLA+ modules that model the concurrent core of the server, the TLC
configurations that check them on small instances, and TLAPS proofs of their main
properties for every instance. `PROJECT.json` lists components, runs,
mutants, the map from definitions to source lines, findings, hazards and theorems.
Paths below are relative to the repository.

## 1. Inventory of the system

| Part | State | Operations | Who meets there |
|---|---|---|---|
| `BlockingQueue<T>` (`src/core/scheduler/simple_scheduler.h`) | deque, capacity, `broken_`, one mutex, two condition variables | `push`, `pop`, `size`, `breakAll` | callers of `Enqueue`, runners, `Stop` |
| `SimpleScheduler` (`src/core/scheduler/simple_scheduler.cc`) | `running_`, `infer_func_` and its mutex, the queue, the runner threads | `Enqueue`, `UpdateBackendInferFunc`, `Start`, `Stop`, `ProcessLoop` | gRPC handler thread, updater thread, runners |
| `ModelBackend`, `DemoBackend` (`src/core/backend`) | contexts, input and output maps, `running_inference_process_` | construction from a model configuration, `Run`, `WaitInferComplete` (never called) | runners; the updater destroys it |
| `ModelManager` (`src/core/model_manager`) | `model_map_` and its mutex, `running_`, updater thread with `cond_mu_` | `Start`, `Stop`, `LoadModels`, `UploadLoop`, `InferAsync`, `GetModelStatus`, `GetNumberOfLiveModels` | three handler threads, updater, main thread |
| `GrpcServer` (`src/core/server/grpc_server.cc`) | three completion queues and handler threads, a `HandlerState` per call | `Start`, `Stop`, `HandleEvents`, `Process`, `TakeAction`, `OnCompleted` | handler threads, runners that complete a call, main thread |
| `GrpcInferRequestContext`, `InferencePayload` | request, response, output buffers, `max_output_index_` | `RegisterInferOutput`, `GetOutputBuffer`, `OnInferCompleted` | handler thread creates, runner fills and completes |
| `InferenceCore` (`src/core/server/inference_core.cc`) | `running_`, manager, gRPC server | `Start`, `Stop`, `InferAsync`, `GetStatus`, `GetHealth` | handler threads, main thread |
| `main` (`src/core/main.cc`) | `exiting_` with mutex and condition variable | signal handler, wait loop, shutdown | signals, main thread |
| configuration (`src/core/service_config.cc`) | `ServerConfig` | `LoadServerConfig` | read once |
| `InferRequestContext` (`src/clients`) | a request and a response, used again and again | `AddInferInput(s)`, `Infer`, `GetInferOutput`, `Clear` | one client thread; the server's answers |
| utilities, protocol files, example client | - | file access, timer, messages | - |

An inference travels: gRPC handler thread -> `InferenceCore::InferAsync` ->
`ModelManager::InferAsync` (under `model_map_mu_`) -> `SimpleScheduler::Enqueue`
-> queue -> runner -> `ModelBackend::Run` -> `InferencePayload::OnInferCompleted` ->
`GrpcInferRequestContext::OnInferCompleted` -> `HandlerState::OnCompleted` -> the
completion queue, whose handler thread deletes the state. The updater thread meanwhile
scans the repository directory and adds, reloads and deletes models.

What is hard in it: condition variables with `notify_one`; test-then-act on
`running_`; the order of `Stop`; the unlocked read of `infer_func_`; raw pointers to
backends that the updater destroys; a blocking push under `model_map_mu_`; a timer
that ends the drain; instance counts that change at a reload; requests that must be
completed exactly once; and, at the edges, directories that vanish, calls in
progress at shutdown, and signals. `PROJECT.json` lists each hazard at its line.

What makes each part correct:

* queue: first in first out, bounded, no lost wakeup, nobody asleep once broken;
* scheduler: every accepted payload is completed exactly once unless `Stop` times out, nothing
  is completed after `Stop`, `Enqueue` and `Stop` return;
* model: `Enqueue` never meets `Stop`, no backend is used after its destruction or leaked,
  a reload takes effect;
* manager: the map follows the repository, a failed update keeps the old version, `Stop` ends
  the updater;
* gRPC server: every call is finished once and its state deleted once and not used
  afterwards, shutdown terminates;
* payload and client: the outputs of a response match its description, a call carries the inputs that
  were added and no others, a client never reads the answer to another call;
* main: no exit signal is lost, and the kind of exit is one that was asked for.

## 2. Plan

In this order, the most important behaviour first.

| Step | Modules | State |
|---|---|---|
| 1 | `BoundedFifo`, `BlockingQueue` | checked, proved |
| 2 | `RequestLifecycle`, `SimpleScheduler` | checked, proved |
| 3 | `ModelRunContext`: scheduler, backends and manager of one model | checked, proved |
| 4 | `ModelConfiguration`, `ServiceConfig`: what configuration files turn into | checked in 3, 5 and 8 |
| 5 | `ModelManager`: repository, updater, several models | checked, proved |
| 6 | `InferExchange`: inputs and outputs from a client through a payload and back | checked, proved |
| 7 | `GrpcServer` with `InferenceCore`, on top of `RequestLifecycle` | checked, proved |
| 8 | `ServiceMain`: signals, the wait loop, start and stop | checked, proved |

## 3. Modules

### BoundedFifo and BlockingQueue

`BoundedFifo` is the promise: an atomic bounded queue with a switch that closes
it. `BlockingQueue` is the code: a critical section of `push` or `pop` is one step, because
`mutex_` is held from its acquisition to the return or the wait; a wait puts the
thread to sleep (`pc = "waiting"`), a notification or a spurious wakeup puts it
back to where it competes for `mutex_` and tests its predicate again (`"running"`).
`notify_one` picks any sleeper. The two overloads of `push` and of `pop` are the same step.

### RequestLifecycle and SimpleScheduler

`RequestLifecycle` is the promise to callers. `SimpleScheduler` has one
action per access that another thread can notice. `Enqueue` is split at the gap between
the test of `running_` and the push; `Stop` into its poll, the
clearing of `running_`, `breakAll` and the joins; `ProcessLoop` into the loop test, pop,
the read of `infer_func_`, its use, the return and the completion. The
timer of `Stop` may run out at any poll, since the length of an inference is not bounded.
The copy of `infer_func_` taken under the mutex has no effect in the code and
none in the model. `UpdateBackendInferFunc` destroys the previous function object (a
`std::bind` result too large for the small buffer of `std::function`, so it is on the
heap); a runner that has read it but not entered it then works on freed memory: either
it still finds the old function or the process crashes (`crashed`). An infer
function that misbehaves may crash the process too (`InferCrash`).

The scheduler uses the queue through `BoundedFifo`; that `BlockingQueue` implements
`BoundedFifo` is checked and proved separately.

### ModelRunContext

One entry of `model_map_`. It instantiates `SimpleScheduler` and adds what surrounds
it: `mapLock` is `model_map_mu_`, `call` the progress of each `InferAsync`, `mpc` the
thread that runs `LoadModels` or `ModelManager::Stop`, `life` the backends, `rpc`
and `counter` the runner's place in `ModelBackend::Run` and
`running_inference_process_`. Backend `k` is what the `k`-th function calls. `NumContexts` gives
each backend's `contexts_.size()`; the number of runners is fixed by the first. A load that
fails leaves everything as it is, so it has no action. Destruction follows
the declaration order of `ModelRunContext`: backend first, then the scheduler with its
`Stop`. Each step that touches a dead backend or a context past the end may crash
or go on with what is left in memory (`BadAccess`).

### ModelManager

All models at once, each reduced to the version `model_map_` serves. `repo` is the repository
directory, which somebody else changes at any time (`ChangeRepo`, external): per model no directory,
or a configuration that parses or not and the numbered subdirectories. Whether a parsed configuration
can be loaded is decided by `ModelConfiguration`. `LoadModels` is cut where it touches the file system or `model_map_mu_`:
the listing with the search for deleted models (`ScanList`), per model the read of the configuration
(`ReadConfig`) and of the versions (`ReadVersion`), then the three loops
(`AddModel`, `UpdateModel`, `DeleteModel`), in which `LoadModel` reads the
configuration a second time. `directory_iterator` throws for a directory
that has gone since the listing; nobody catches it (`VersionsVanished`, `crashed`). The first scan
is run by the constructing thread, later ones by the updater, whose `wait_for` is split into
the test of its predicate, the sleep, and the ways out of it; `cond_mu_` is held
through a scan, so that `Stop` waits for it. `running_` is atomic but not protected by
`cond_mu_`: `StopCall` may come between the test and the sleep, and only the mutex around
`notify_all` keeps that wakeup from being lost. `before` and `quiet` are history.

Adding, updating and deleting a model are steps here; what happens inside, and `InferAsync`, is
`ModelRunContext`. `GetModelStatus` and `GetNumberOfLiveModels` change nothing; the time they wait for `model_map_mu_` is
in `GrpcServer`.

### ModelConfiguration and ServiceConfig

Operators, no state. `ModelConfiguration` goes from a parsed `config.pbtxt` to a backend: the platform
name, the checks of `ProcessModelConfig`, the loop of `CreateExecuteContexts` and the number of
contexts it makes. The two disagree on groups that are neither CPU nor GPU, and a group with a count
of 0 is never looked at by the second: `Loadable` in `ModelManager` says independently what the
outcome is, and `QuietScanReconciles` compares. It leaves a `KIND_AUTO` group with instances open, on which code and
documentation disagree (section 4). `ServiceConfig` goes from a YAML file to `ServerConfig`:
which missing values throw, which get a default, and that a default inside a missing section is not applied.
`MCModelRunContext` takes the number of runners and the size of the queue from them.

### GrpcServer

The three handlers with their threads and completion queues, `GrpcServer::Start` and `Stop`, and
`InferenceCore` around them. The k-th call of a handler is served by its k-th `HandlerState`, whose
`step_` is `step`; `tag` is what gRPC knows of it (a posted request, a `Finish` under way, an event waiting in the
queue), `rpc` the call as its client sees it, and `reply` how far an `OnCompleted` has got,
in the handler's own thread or in a runner's. The steps are those that another thread can notice:
`OnCompleted` sets `step_` and then calls `Finish`, after which the handler's thread may delete the state while the runner is
still returning; `InferAsync` may have been overtaken by its runner; `model_map_mu_` is held through a blocked
`Enqueue`, which keeps a status call waiting. What the schedulers do with an accepted request is
`RequestLifecycle`, which `SimpleScheduler` implements, plus `DropPayload`, the case found in `scheduler_timeout`. gRPC is external:
requests that are posted get a call or come back failed; posting on a queue that has been shut down ends the process;
`Shutdown` waits for the calls in progress; `Next` returns false when the queue is shut down and
empty. `BuildAndStart` may return null.

### ServiceMain

`main` step by step and `signalHandler` as an activity on top of whatever its thread was doing: `stack` holds the
handlers on each thread, a second signal of the same kind is not taken while one is being handled, one of the
other kind is. `exit_mu_` can be held by `main` or by a handler, and a handler that asks for a mutex
held below it on its own stack waits for ever (`Stuck`). `wait_for` may end without a notification.
`service_core.Stop()` may return or hang (`Hung`), as in `GrpcServer`, where `Shutdown` waits for a payload that was dropped.
`late`, `setAt` and `slept` are history.

### InferExchange

One client context and the payloads of its calls, end to end. Inputs are described in one list of the
request and stored in another; outputs are described in the order they are registered and stored by
index. A call may be lost, fail, or be given up on while the server goes on with it, and the context be used again with
or without `Clear`. `added` and the field `asked` are history: what the client was told is in the request, and what was there when
the call went out. `GetInferOutput` compares the index after a cast to `int32_t`; `Two31` is where that turns negative, 2^31 in
the code and 4 in the run, above every number of outputs. A negative index passes the check and reads outside of the list (`"undefined"`). The demo backend registers no output; the model lets a backend register any, under any index.

### MC modules and proofs

The `MC` modules hold the instances. Definitions with a suffix after an underscore (`PushItem_Silent`) are slips of
the pen in the code that the definition after them models; no specification uses them, they show that
each property can fail.

## 4. Runs

| Run | Instance | Checks |
|---|---|---|
| `queue` | 3 producers, 3 consumers, 4 items, capacity 2 | `NoLostWakeup`, `ImplementsBoundedFifo` with its fairness, `PushReturns` |
| `scheduler` | 3 payloads, 2 runners, 1 slot, 1 update | `ExactlyOnePlace`, `DrainedStopCompletesAll`, `ImplementsLifecycle`, `AcceptedAnswered`, `NobodyWaitsForEver` |
| `scheduler_timeout` | 3 payloads, 1 runner, 2 slots | `StopFinishesEnqueued`: violated |
| `model` | 2 payloads, 2 runners, 1 slot, a reload from 2 to 0 instances | `EnqueueNeverMeetsStop`, `DrainedRemovalAnswersAll`, `NoBackendLeak`, `InstalledFunctionIsSafe`, `CallsAndRemovalReturn`, `OldBackendAbandoned` |
| `model_reload` | the same, but the reload keeps 2 instances | `NoRunOnDeadBackend`: violated |
| `model_default` | 2 payloads, a configuration without an instance count | `DefaultCountServes`: violated |
| `manager` | 2 models, 6 kinds of directory, 3 changes | `QuietScanReconciles`, `PlansStayTrue`, `StopOvertakesUpdater`, `EventuallyInSync`, `StopReturns` |
| `grpc` | 2 inferences, 1 status call, a health handler that waits | `PostsOnOpenQueues`, `FreedIsForgotten`, `NothingLeftAtStop`, `AlwaysListening`, `CompletedOnce`, `CallsFinish`, `StopReturns` |
| `main` | 2 SIGTERM, 1 SIGINT, main and another thread, 5 configuration files | `TypeOK`, `LateSignalKept`, `GraceUnlessInterrupted`, `WakeupMissedOnlyInWindow`, `LateSignalEndsService` |
| `main_signal` | the same signals, one file | `CaughtSignalEndsService`: violated |
| `exchange` | 2 tensors, 2 inputs and 2 outputs a call, indices -1 to 2, 2 calls | `TypeOK`, `CallCarriesWhatWasAdded`, `LastRegistrationAnswered`, `DescribedOutputsReadable`, `ReadsLastAnswer` |
| `exchange_order` | the same | `OutputsInDescribedOrder`: violated |

The type invariants of `BlockingQueue`, `SimpleScheduler`, `ModelRunContext`, `ModelManager` and `GrpcServer` are theorems and
not checked again.

Bounds. The queue has more threads than slots on either side, so that both
condition variables have several sleepers and a notification can meet the wrong one. The
scheduler has more payloads than runners and slots together can take without blocking one
caller. One reload is enough for every relation between an old and a
new function: runners never compare more than the function they read with the one
installed. The reload to 0 instances gives runner 0 `idx = size` and runner 1 `idx > size`.
`MaxUpdates` and, in `ModelManager`, `MaxChanges` are the only bounds that cut behaviour off;
payloads are finite because each is one request. Three changes let a directory vanish and
come back with another version, or a version be replaced and withdrawn, within one scan; scans themselves are
not bounded. Two models are enough for one to be planned while the other is read. Two inferences let a runner answer
the first while the handler is inside `InferAsync` with the second, and the state posted for a third meets the shutdown. Two
signals of one kind and one of the other let handlers nest on one thread, run side by side on two, and wait for each
other. Two calls with two outputs let a late answer meet the next call, and indices be repeated, left out or registered
in the wrong order.

Fairness. Runners, callers that are inside `Enqueue`, and a started `Stop` are threads
the operating system keeps running (weak fairness on their steps); infer functions return; the
timer of `Stop` advances. Nothing forces a request, a reload, a removal or
`Stop` to happen. In `ModelManager` the constructing thread, the updater and a started `Stop` run on
and the updater's interval passes (`wait_for` has a timeout); nothing makes the repository
change. In `GrpcServer` the handler threads, runners with a payload that was not dropped, `InferAsync` and a started
`Stop` run on and gRPC sends what is finished; no call need come. In `ServiceMain` threads run on and the hour passes; a
handler that asks for `exit_mu_` gets it at some time if it is free again and again (strong fairness), since `main` gives it up
at every wait; no signal need be sent. In `BlockingQueue` consumers call `pop` again, as runners do, and
no wakeup is assumed to be spurious. Weak fairness on a blocked push is enough because an
instance has finitely many payloads; with an endless stream of callers the code's mutex
and condition variables promise no caller its turn.

What the violated properties show:

* `StopFinishesEnqueued`: `Stop` announces that it waits for the enqueued requests, but
  its limit of 120 is compared with milliseconds; what is still queued then is
  never completed.
* `NoRunOnDeadBackend`: `LoadModels` destroys the replaced backend at once, and a removed model
  destroys its backend before its scheduler; runners may be inside. `WaitInferComplete`
  was written for this and is never called.
* `DefaultCountServes`: `model_config.proto` says that the count of an instance group defaults to 1. A count that
  is left out reads as 0: the model is loaded without a context, gets a scheduler without a
  runner, and what it accepts is never answered. With one instance the property holds.
* `CaughtSignalEndsService`: the handlers are installed before the service starts, and the flag they set is
  reset after it has; a signal in between is caught and forgotten.
* `OutputsInDescribedOrder`: `grpc_service.proto` says that the raw outputs are in the order of the description. The
  description follows the order in which the backend registers its outputs and the bytes follow their indices: a backend
  that registers output 1 before output 0 answers with the bytes of each under the description of the other.

`EnqueueNeverMeetsStop` is worth a remark: on its own, `SimpleScheduler::Enqueue` can return
`Success` for a payload that a concurrent `Stop` drops (`enq = "lost"`, reached in
`scheduler`). In the server this cannot happen, because `InferAsync` keeps
`model_map_mu_` until `Enqueue` returns and a model leaves the map before its
scheduler stops.

What the passing runs say with a proviso is worth reading too. `WakeupMissedOnlyInWindow`: `main` can sleep for an hour
with `exiting_` set, if the signal came between the test in the loop's condition and the lock in its body.
`LateSignalEndsService` allows `Stuck`: a signal taken by the main thread while it holds `exit_mu_`, or on top of
the other handler, waits for itself. `PostsOnOpenQueues` allows two ways to crash: a port that cannot be bound
(`BuildAndStart` returns null and nobody looks), and a `Stop` so early that a handler thread has not posted
its first request. `StopReturns` of the server allows a dropped payload, which keeps `Shutdown` waiting.
`LateSignalEndsService` also allows a `Stop` that hangs. `DescribedOutputsReadable` promises that as many
outputs can be read as are described, if each was registered under an index of its own; which bytes they are is the subject
of `OutputsInDescribedOrder`. It says too that every index from 2^31 on passes the check in `GetInferOutput`.
`InstalledFunctionIsSafe` allows a runner of index `contexts_.size()` to read past the end after a reload with fewer instances,
and leaves out the runners still bound to an older function, which are the subject of `NoRunOnDeadBackend`. `ReadsLastAnswer`
allows a client to read the answer of an earlier call after one that timed out. `CallsFinish` and `StopReturns` of the server
take for granted that `InferAsync` returns, which a scheduler without runners (`DefaultCountServes`) does not give.

Differences between code and documents that have no run of their own, and on which no property takes a side:
`ModelManager::InferAsync` reads the version of a request and does not use it (`model_manager.cc:324`), while
`grpc_service.proto:152` says that it is the version used; `DemoBackend` refuses a `KIND_AUTO` group with instances
(`demo_backend.cc:46`), while `model_config.proto:24` says that they are created on the CPU if there is no GPU. Other things
seen on the way: the early return of `ModelBackend::Run` never uncounts, so that `WaitInferComplete`, were it called,
could wait for ever; `GetStatus` takes `model_map_mu_` twice, so that the count and the list of models may belong
to different moments, and ignores the name in the request; without their sections in the file the address is empty
and the queue has no slot.

## 5. Proofs

`BlockingQueueProofs` assumes `QueueAssumption` (finite, disjoint sets of threads, a
natural capacity). `TypeOK /\ NoLostWakeup` is inductive: a sleeping consumer
stands for `Len(buffer) <= ` the number of consumers awake in `pop`, and every push that could
break this wakes one more. The theorems are `TypeCorrect`, `WakeupsKept` and
`QueueIsFifo` (the refinement of `BoundedFifo!Spec`).

`SimpleSchedulerProofs` assumes `SchedulerAssumption`. Neither `ExactlyOnePlace` nor
`DrainedStopCompletesAll` is inductive: a runner at `OnInferCompleted` could hold nothing,
and a payload could be back in the queue after the drain. `IInv` adds which runners hold
a payload (`RunnersHold`) and what `Stop` has achieved at each point (`StopProgress`); two
lemmas say what `push_back` and `pop_front` do to the content of a queue. From
`Spec => []IInv` follow `TypeCorrect`, `PayloadsInOnePlace`, `StopCompletesAll` and
`SchedulerIsLifecycle` (the refinement of `RequestLifecycle`).

`ModelRunContextProofs` assumes `ContextAssumption`. First the lemma `StepOfScheduler`: every step
is a step of the scheduler or leaves it alone, which brings in what
`SimpleSchedulerProofs` proves (instantiated as `SP`). Then `CInv` is inductive: `LockInv` (a
call that has found the model holds `model_map_mu_` and the model is in the map), `OwnerInv`
(manager and scheduler go through their phases together, and `Stop` waits for everything ever
accepted), `BackendInv` (the backends alive at each point of the manager), `BoundInv` (a runner is
never bound to a function not yet installed), `RunInv` and `CounterCoversRunners` (the count of a backend is at least the number of runners inside its `Run`). None
of the checked properties is inductive alone: that `Enqueue` finds the scheduler running
depends on who holds the mutex, that the counter never goes below zero on how many runners
are inside. `LockedEnqueue`, `RemovalAnswersAll`, `BackendsReleased`, `InstalledSafe`
and `TypeCorrect` follow; `RemovalAnswersAll` joins `CInv` with the scheduler's
`StopCompletesAll`. They hold for any number of reloads, which `MaxUpdates` bounds for TLC only.

`ModelManagerProofs` assumes `ManagerAssumption`, of which the essential part is that every
directory has a highest version. `MInv` is inductive: `PhaseInv` (who scans when, and what the
updater can be doing at each point of `Stop`), `PlacesInv` (a model is still to be read, being read,
planned once, or to be deleted, never two of these), `PlansStayTrue`, and `QuietInv`, which follows
each model through an undisturbed scan, and that it does not crash (`QuietScanSurvives`): until it is settled the map has its old
value and the plan its highest version; once settled the map has what `Reconcile` says.
`QuietScanReconciles` only speaks of the end of a scan and is not inductive without it.
`OtherStep` says once what every step outside a
scan leaves alone. `TypeCorrect`, `PlansKept`, `QuietScan` and `StopOvertakes` follow, for any set of models, any directories and any
number of changes.

`ServiceMainProofs` assumes `MainAssumption`. `SInv` adds to the three properties who holds `exit_mu_` (`MutexInv`),
what the flag tells (`FlagInv`: no signal is late before the reset, the flag is set once the loop has ended, a SIGINT's
handler has got through when it says so) and that a flag set while `main` is between its test and its wait was set before the
lock (`WindowInv`). The argument is the mutex: a handler sets the flag only while it holds it, so `main` is in none
of its critical sections, and there is exactly one point left where the notification finds nobody. `LateSignalKept`, for example, is not inductive
without `FlagInv`: a second reset would undo it. `TypeCorrect`,
`SignalKept`, `Grace` and `MissedOnlyInWindow` follow, for any number of signals and threads.

`GrpcServerProofs` assumes `GrpcAssumption` (three different handlers, each with some number of calls). `GInv` is
inductive: `CoreInv` ties the point `InferenceCore` has reached to the server, the queues and the threads; `LifeInv` lists
which values of `step_`, the tag, the progress of `OnCompleted` and the call can go together in one
`HandlerState` (`Life`), and that only the last state a handler has made can be waiting for a call; `ThreadInv` is what
a thread inside `Process` knows of its state, and `InferInv` that an inference is with its scheduler only while its state is in
`PROCESS` and nobody has begun to complete it. None of the properties is inductive alone. That nobody posts on a closed queue
rests on the lemma `ServingOpen`: `Shutdown` waits for the calls in progress and the queues are closed behind it, so
a call in progress means an open queue. That a deleted state is forgotten rests on the order in `OnCompleted`, `step_` before
`Finish`, which is one line of `Life`. `TypeCorrect`, `OpenQueues`, `FreedForgotten`, `NothingLeft` and `Listens` follow.
`LivesOnce` is the action property `CompletedOnce`: there the handler of a request that was turned
away and the runner of one that was accepted are kept apart by `InferInv`.

`InferExchangeProofs` assumes `ExchangeAssumption` (natural bounds, a null that is no tensor, and 2^31 above the
number of outputs and raw outputs). `XInv` is inductive: `RequestInv` (both lists of
inputs are what was added, in the context and in every payload), `PayloadInv` (after any sequence of registrations the descriptions
are in the order of registration and the buffer of an index is the last registered there), `AnswerInv` (the same of what
an answer keeps) and `ClientInv` (whose answer the context has). `IsLast` states the last registration without the maximum
that `LastRegistered` computes, so that one more registration can be followed (`LastAfterAppend`); `LastIs` brings the two
together. That every described output can be read when each has an index of its own is the pigeonhole principle
(`DifferentIndices`, from `FS_Injection`): there are at least as many raw outputs as registrations. `TypeCorrect`, `Inputs`,
`LastRegistration`, `ReadBack` and `LastAnswer` follow, for any number of tensors, inputs, outputs and calls.

Every invariant and every action property of a passing run is thus a theorem. Only model-checked is what needs fairness, which
is out of the prover's reach: `PushReturns`, `AcceptedAnswered`, `NobodyWaitsForEver`,
`CallsAndRemovalReturn`, `OldBackendAbandoned`, `EventuallyInSync`, `StopReturns`, `CallsFinish`,
`LateSignalEndsService`, and the fairness part of `ImplementsBoundedFifo`.

## 6. Not modelled

`PROJECT.json` gives the reason for each component. Left out for good: protocol declarations, status
printing, file access, the example client (single synchronous calls, no state), logging, time stamps, and functions without
a caller (`GetInput`, `GetOutput`, `RunWarmup`, `WaitInferComplete`, most of the file utilities).
A second `SimpleScheduler::Start`, which returns an error, and one after `Stop`, which would start runners on a broken
queue, are not modelled because nothing calls them. The repository root is always there in `ModelManager`; were it removed, every scan would end like the removal
of a model's directory. A change within one directory is seen by a read as a whole. `Handler::Start` and `Stop` are declared to return a `Status`
and return nothing, which is undefined behaviour that the compilers in use let pass; logging and locking in a signal
handler are not safe in general, of which only the lock is modelled; the request number that all client contexts
share without a lock is never read by the server. In the client, the tensors and the names of the outputs wanted are left out because the server reads neither.
