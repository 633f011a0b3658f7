---------------------------- MODULE ModelManager ----------------------------
(***************************************************************************)
(* ModelManager over all models: the repository directory, the scans that  *)
(* bring model_map_ in line with it, the updater thread with its condition *)
(* variable, and Stop.                                                     *)
(*                                                                         *)
(* The first scan is run by the thread that constructs the manager, the    *)
(* later ones by the updater, which holds cond_mu_ from its wakeup to the  *)
(* end of the scan.  Somebody else changes the repository at any time, so  *)
(* each access to the file system is a step of its own.  What happens      *)
(* inside one model when it is added, updated or deleted is the subject of *)
(* ModelRunContext; here each is one step on model_map_.                   *)
(***************************************************************************)
EXTENDS ModelConfiguration

CONSTANTS
    Models,         \* names of models
    Folders,        \* what the directory of a model may contain
    AutoUpdate,     \* model_control_cfg_.auto_update_
    MaxChanges,     \* bound: how often the repository is changed
    None            \* no directory, no model, no version

NoVersion == -1

\* The loop starts from -1: a name that stoll takes for less does not count.
GetHighestVersion(dirs) ==
    CHOOSE v \in dirs \cup {NoVersion} : \A d \in dirs \cup {NoVersion} : d <= v

\* A directory has a config.pbtxt, which parses or not (a missing file reads
\* as an empty one, which parses), and finitely many subdirectories that
\* stoll takes for versions, so that one of them is the highest.
ASSUME ManagerAssumption ==
    /\ Folders \subseteq [parses : BOOLEAN, config : ModelConfig, versions : SUBSET Int]
    /\ \A f \in Folders : \E v \in f.versions \cup {NoVersion} :
          \A d \in f.versions \cup {NoVersion} : d <= v
    /\ AutoUpdate \in BOOLEAN
    /\ MaxChanges \in Nat
    /\ None \notin Models \cup Folders
    /\ None \notin Int

VARIABLES
    repo,       \* of every model: its directory
    changes,    \* how often the repository was changed
    modelMap,   \* model_map_: of every model the version served
    running,    \* running_
    mpc,        \* where the thread is that constructs and stops the manager
    upc,        \* where the updater thread is
    spc,        \* no scan, at its start, or under way
    todo,       \* the rest of cur_models
    reading,    \* the model whose configuration has been parsed
    added, updated, deleted,    \* the vectors of LoadModels
    before,     \* history: model_map_ at the start of the scan
    quiet,      \* history: the repository is as at the start of the scan
    crashed     \* an exception has left a thread

repoVars  == <<repo, changes>>
scanVars  == <<spc, todo, reading, added, updated, deleted, before>>
vars == <<repoVars, modelMap, running, mpc, upc, scanVars, quiet, crashed>>

\* A version found for a model.
ModelLoadInfo(m, v) == [model_name |-> m, model_version |-> v]

-----------------------------------------------------------------------------

\* Start has set running_ and called LoadModels.
Init ==
    /\ repo \in [Models -> Folders \cup {None}]
    /\ changes = 0
    /\ modelMap = [m \in Models |-> None]
    /\ running = TRUE
    /\ mpc = "constructing"
    /\ upc = "none"
    /\ spc = "start"
    /\ todo = {} /\ reading = None
    /\ added = {} /\ updated = {} /\ deleted = {}
    /\ before = modelMap
    /\ quiet = TRUE
    /\ crashed = FALSE

\* Whoever maintains the repository replaces or removes a directory.
ChangeRepo(m) ==
    /\ changes < MaxChanges
    /\ \E f \in Folders \cup {None} : f # repo[m] /\ repo' = [repo EXCEPT ![m] = f]
    /\ changes' = changes + 1
    /\ quiet' = FALSE
    /\ UNCHANGED <<modelMap, running, mpc, upc, scanVars, crashed>>

(***************************************************************************)
(* GetModelStateUpdate.                                                    *)
(***************************************************************************)
\* List the repository, and under model_map_mu_ find what is no longer there.
ScanList ==
    /\ spc = "start"
    /\ spc' = "scan"
    /\ todo' = {m \in Models : repo[m] # None}
    /\ deleted' = {m \in Models : modelMap[m] # None /\ repo[m] = None}
    /\ before' = modelMap
    /\ quiet' = TRUE
    /\ UNCHANGED <<repoVars, modelMap, running, mpc, upc, reading, added, updated,
                   crashed>>

\* Read and parse config.pbtxt.  A directory that is gone by now reads as an
\* empty file.
ReadConfig(m) ==
    /\ reading = None
    /\ m \in todo
    /\ todo' = todo \ {m}
    /\ reading' = IF repo[m] # None /\ ~repo[m].parses THEN None ELSE m
    /\ UNCHANGED <<repoVars, modelMap, running, mpc, upc, spc, added, updated,
                   deleted, before, quiet, crashed>>

\* Slip: a model is only looked up to find out whether its version differs.
ReadVersion_NotFound(m) ==
    /\ reading = m
    /\ repo[m] # None
    /\ LET v == GetHighestVersion(repo[m].versions)
       IN  /\ added' = IF v # NoVersion /\ modelMap[m] # v
                       THEN added \cup {ModelLoadInfo(m, v)} ELSE added
           /\ UNCHANGED updated
    /\ reading' = None
    /\ UNCHANGED <<repoVars, modelMap, running, mpc, upc, spc, todo, deleted,
                   before, quiet, crashed>>

\* Slip: only a higher version is an update.
ReadVersion_OnlyHigher(m) ==
    /\ reading = m
    /\ repo[m] # None
    /\ LET v == GetHighestVersion(repo[m].versions)
       IN  /\ added' = IF v # NoVersion /\ modelMap[m] = None
                       THEN added \cup {ModelLoadInfo(m, v)} ELSE added
           /\ updated' = IF modelMap[m] # None /\ v > modelMap[m]
                         THEN updated \cup {ModelLoadInfo(m, v)} ELSE updated
    /\ reading' = None
    /\ UNCHANGED <<repoVars, modelMap, running, mpc, upc, spc, todo, deleted,
                   before, quiet, crashed>>

\* List the versions; under model_map_mu_ see whether the highest is new.
ReadVersion(m) ==
    /\ reading = m
    /\ repo[m] # None
    /\ LET v == GetHighestVersion(repo[m].versions)
       IN  /\ added' = IF v # NoVersion /\ modelMap[m] = None
                       THEN added \cup {ModelLoadInfo(m, v)} ELSE added
           /\ updated' = IF v # NoVersion /\ modelMap[m] \notin {None, v}
                         THEN updated \cup {ModelLoadInfo(m, v)} ELSE updated
    /\ reading' = None
    /\ UNCHANGED <<repoVars, modelMap, running, mpc, upc, spc, todo, deleted,
                   before, quiet, crashed>>

\* directory_iterator throws for a directory that is not there, and nobody
\* catches it.
VersionsVanished(m) ==
    /\ reading = m
    /\ repo[m] = None
    /\ crashed' = TRUE
    /\ UNCHANGED <<repoVars, modelMap, running, mpc, upc, scanVars, quiet>>

(***************************************************************************)
(* The three loops of LoadModels, one after the other.  LoadModel reads    *)
(* the configuration again, and keeps the version found before.            *)
(***************************************************************************)
Planned == spc = "scan" /\ todo = {} /\ reading = None

CanLoad(m) ==
    IF repo[m] = None THEN LoadModel(EmptyConfig)
    ELSE repo[m].parses /\ LoadModel(repo[m].config)

AddModel(a) ==
    /\ Planned
    /\ a \in added
    /\ added' = added \ {a}
    /\ modelMap' = IF CanLoad(a.model_name) /\ modelMap[a.model_name] = None
                   THEN [modelMap EXCEPT ![a.model_name] = a.model_version]
                   ELSE modelMap
    /\ UNCHANGED <<repoVars, running, mpc, upc, spc, todo, reading, updated, deleted,
                   before, quiet, crashed>>

UpdateModel(u) ==
    /\ Planned /\ added = {}
    /\ u \in updated
    /\ updated' = updated \ {u}
    /\ modelMap' = IF CanLoad(u.model_name) /\ modelMap[u.model_name] # None
                   THEN [modelMap EXCEPT ![u.model_name] = u.model_version]
                   ELSE modelMap
    /\ UNCHANGED <<repoVars, running, mpc, upc, spc, todo, reading, added, deleted,
                   before, quiet, crashed>>

DeleteModel(m) ==
    /\ Planned /\ added = {} /\ updated = {}
    /\ m \in deleted
    /\ deleted' = deleted \ {m}
    /\ modelMap' = [modelMap EXCEPT ![m] = None]
    /\ UNCHANGED <<repoVars, running, mpc, upc, spc, todo, reading, added, updated,
                   before, quiet, crashed>>

ScanComplete == Planned /\ added = {} /\ updated = {} /\ deleted = {}

\* LoadModels returns to the constructor, or to UploadLoop, which releases
\* cond_mu_ and goes round.
ScanReturn ==
    /\ ScanComplete
    /\ spc' = "none"
    /\ upc' = IF upc = "scanning" THEN "loop" ELSE upc
    /\ UNCHANGED <<repoVars, modelMap, running, mpc, todo, reading, added, updated,
                   deleted, before, quiet, crashed>>

LoadModels ==
    \/ ScanList
    \/ \E m \in Models : ReadConfig(m) \/ ReadVersion(m) \/ VersionsVanished(m)
    \/ \E a \in added : AddModel(a)
    \/ \E u \in updated : UpdateModel(u)
    \/ \E m \in deleted : DeleteModel(m)
    \/ ScanReturn

(***************************************************************************)
(* UploadLoop.  cond_mu_ is held at "checked", "awake" and "scanning".     *)
(* wait_for tests its predicate and goes to sleep under the mutex, but     *)
(* running_ can change in between: it is not protected by the mutex.       *)
(***************************************************************************)
CondMuFree == upc \notin {"checked", "awake", "scanning"}

updaterFrame == <<repoVars, modelMap, running, mpc, todo, reading, added, updated,
                  deleted, before, quiet, crashed>>

UpdaterTest ==
    /\ upc = "loop"
    /\ upc' = IF running THEN "checked" ELSE "awake"
    /\ UNCHANGED <<spc, updaterFrame>>

UpdaterSleep ==
    /\ upc = "checked"
    /\ upc' = "waiting"
    /\ UNCHANGED <<spc, updaterFrame>>

\* The interval is over.
UpdaterTimeout ==
    /\ upc = "waiting"
    /\ upc' = "awake"
    /\ UNCHANGED <<spc, updaterFrame>>

UpdaterNotified ==
    /\ upc = "notified"
    /\ upc' = IF running THEN "waiting" ELSE "awake"
    /\ UNCHANGED <<spc, updaterFrame>>

\* Slip: a wakeup leads to a scan whatever running_ says.
UpdaterDecide_Always ==
    /\ upc = "awake"
    /\ upc' = "scanning"
    /\ spc' = "start"
    /\ UNCHANGED updaterFrame

UpdaterDecide ==
    /\ upc = "awake"
    /\ upc' = IF running THEN "scanning" ELSE "exited"
    /\ spc' = IF running THEN "start" ELSE spc
    /\ UNCHANGED updaterFrame

UploadLoop ==
    UpdaterTest \/ UpdaterSleep \/ UpdaterTimeout \/ UpdaterNotified \/ UpdaterDecide

(***************************************************************************)
(* The thread that owns the manager: the rest of Start, and Stop, which    *)
(* InferenceCore::Stop calls when the gRPC server has stopped.             *)
(***************************************************************************)
mainFrame == <<repoVars, scanVars, quiet, crashed>>

StartReturn ==
    /\ mpc = "constructing"
    /\ spc = "none"
    /\ mpc' = "serving"
    /\ upc' = IF AutoUpdate THEN "loop" ELSE "none"
    /\ UNCHANGED <<modelMap, running, mainFrame>>

StopCall ==
    /\ mpc = "serving"
    /\ running' = FALSE
    /\ mpc' = "notifying"
    /\ UNCHANGED <<modelMap, upc, mainFrame>>

\* Slip: notify_all without cond_mu_.
StopNotify_Unlocked ==
    /\ mpc = "notifying"
    /\ upc' = IF upc = "waiting" THEN "notified" ELSE upc
    /\ mpc' = "joining"
    /\ UNCHANGED <<modelMap, running, mainFrame>>

StopNotify ==
    /\ mpc = "notifying"
    /\ CondMuFree
    /\ upc' = IF upc = "waiting" THEN "notified" ELSE upc
    /\ mpc' = "joining"
    /\ UNCHANGED <<modelMap, running, mainFrame>>

StopJoin ==
    /\ mpc = "joining"
    /\ upc \in {"none", "exited"}
    /\ mpc' = "clearing"
    /\ UNCHANGED <<modelMap, running, upc, mainFrame>>

StopClear ==
    /\ mpc = "clearing"
    /\ modelMap' = [m \in Models |-> None]
    /\ mpc' = "stopped"
    /\ UNCHANGED <<running, upc, mainFrame>>

Stop == StopNotify \/ StopJoin \/ StopClear

-----------------------------------------------------------------------------

Terminated ==
    /\ crashed \/ mpc = "stopped"
    /\ UNCHANGED vars

Next ==
    \/ /\ ~crashed
       /\ \/ \E m \in Models : ChangeRepo(m)
          \/ LoadModels
          \/ UploadLoop
          \/ StartReturn \/ StopCall \/ Stop
    \/ Terminated

Spec == Init /\ [][Next]_vars

\* The threads run on and the updater's interval passes.  Nothing makes the
\* repository change, a request arrive or Stop be called.
Fairness ==
    /\ WF_vars(~crashed /\ LoadModels)
    /\ WF_vars(~crashed /\ UploadLoop)
    /\ WF_vars(~crashed /\ StartReturn)
    /\ WF_vars(~crashed /\ Stop)

FairSpec == Spec /\ Fairness

-----------------------------------------------------------------------------

LoadInfos == [model_name : Models, model_version : Nat]

TypeOK ==
    /\ repo \in [Models -> Folders \cup {None}]
    /\ changes \in 0 .. MaxChanges
    /\ modelMap \in [Models -> Nat \cup {None}]
    /\ running \in BOOLEAN
    /\ mpc \in {"constructing", "serving", "notifying", "joining", "clearing", "stopped"}
    /\ upc \in {"none", "loop", "checked", "waiting", "notified", "awake",
                "scanning", "exited"}
    /\ spc \in {"none", "start", "scan"}
    /\ todo \in SUBSET Models
    /\ reading \in Models \cup {None}
    /\ added \in SUBSET LoadInfos
    /\ updated \in SUBSET LoadInfos
    /\ deleted \in SUBSET Models
    /\ before \in [Models -> Nat \cup {None}]
    /\ quiet \in BOOLEAN
    /\ crashed \in BOOLEAN

(***************************************************************************)
(* What a scan is for.  Reconcile is the map that belongs to a repository: *)
(* models without a directory go, those with a version and a configuration *)
(* that this server can serve, on the CPU, with the demo platform, are     *)
(* served in their highest version, and what cannot be loaded stays as it  *)
(* is.  A scan during which nobody touches the repository survives and     *)
(* leaves exactly this, whatever the three vectors and the failed loads.   *)
(*                                                                         *)
(* One configuration is left open: model_config.proto has the instances of *)
(* a KIND_AUTO group created on the CPU when there is no GPU, DemoBackend  *)
(* refuses them ("gpu not supported yet.").                                *)
(***************************************************************************)
Loadable(config) ==
    /\ config.platform = "demo"
    /\ config.instance_group # <<>>
    /\ \A g \in Groups(config) :
          \/ g.kind = "KIND_CPU" /\ ~g.gpus
          \/ g.kind \in {"KIND_AUTO", "KIND_MODEL"} /\ g.count <= 0

LeftOpen(config) == \E g \in Groups(config) : g.kind = "KIND_AUTO" /\ g.count > 0

Servable(f) ==
    f.parses /\ Loadable(f.config) /\ GetHighestVersion(f.versions) # NoVersion

Reconcile(map, dirs) ==
    [m \in Models |->
        IF dirs[m] = None THEN None
        ELSE IF Servable(dirs[m]) THEN GetHighestVersion(dirs[m].versions)
        ELSE map[m]]

QuietScanReconciles ==
    quiet => /\ ~crashed
             /\ ScanComplete => \A m \in Models :
                   \/ modelMap[m] = Reconcile(before, repo)[m]
                   \/ repo[m] # None /\ LeftOpen(repo[m].config)

(***************************************************************************)
(* The vectors stay true until they are used, because only one thread at a *)
(* time changes the map: what is to be added is not there, what is to be   *)
(* updated or deleted is.  LoadModels' complaint that an updated model     *)
(* does not exist is never heard, and no insert meets an existing entry.   *)
(***************************************************************************)
PlansStayTrue ==
    /\ \A a \in added : modelMap[a.model_name] = None
    /\ \A u \in updated : modelMap[u.model_name] \notin {None, u.model_version}
    /\ \A m \in deleted : modelMap[m] # None

(***************************************************************************)
(* Once Stop has notified, the updater neither sleeps through another      *)
(* interval nor scans again, and when Stop has returned no model is left   *)
(* and none comes back.                                                    *)
(***************************************************************************)
StopOvertakesUpdater ==
    /\ mpc \in {"joining", "clearing", "stopped"} =>
          upc \notin {"checked", "waiting", "scanning"}
    /\ mpc = "stopped" => (\A m \in Models : modelMap[m] = None) /\ upc \in {"none", "exited"}

(***************************************************************************)
(* With automatic refresh the map follows the repository: once changes     *)
(* cease, every servable model is served in its highest version and every  *)
(* removed one is gone, for good, unless the manager is stopped.           *)
(***************************************************************************)
InSync(m) ==
    /\ repo[m] = None => modelMap[m] = None
    /\ repo[m] # None =>
          (Servable(repo[m]) => modelMap[m] = GetHighestVersion(repo[m].versions))

EventuallyInSync ==
    <>[](\A m \in Models : InSync(m)) \/ <>(~running \/ crashed)

\* Stop returns, whatever the updater was doing.
StopReturns == mpc = "notifying" ~> (mpc = "stopped" \/ crashed)
=============================================================================
