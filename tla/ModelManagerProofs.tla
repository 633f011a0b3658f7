------------------------- MODULE ModelManagerProofs -------------------------
(***************************************************************************)
(* Proofs about ModelManager for any models, directories and changes.      *)
(*                                                                         *)
(* MInv says which thread scans and what the threads may do in each phase  *)
(* (PhaseInv), that every model is in one place of a scan at most          *)
(* (PlacesInv), and what a scan that nobody disturbs has achieved for each *)
(* model (QuietInv).                                                       *)
(***************************************************************************)
EXTENDS ModelManager, TLAPS

PhaseInv ==
    /\ running <=> mpc \in {"constructing", "serving"}
    /\ mpc = "constructing" => upc = "none"
    /\ mpc # "constructing" => (spc # "none" <=> upc = "scanning")
    /\ upc = "checked" => mpc \in {"serving", "notifying"}
    /\ mpc \in {"joining", "clearing", "stopped"} =>
          upc \in {"none", "loop", "notified", "awake", "exited"}
    /\ mpc \in {"clearing", "stopped"} => upc \in {"none", "exited"}
    /\ mpc = "stopped" => \A m \in Models : modelMap[m] = None

Plans == added \cup updated

PlacesInv ==
    /\ spc # "scan" => todo = {} /\ reading = None /\ Plans = {} /\ deleted = {}
    /\ todo \cap deleted = {}
    /\ reading \notin todo \cup deleted
    /\ \A x \in Plans : x.model_name \notin todo \cup deleted \cup {reading}
    /\ \A x, y \in Plans : x.model_name = y.model_name => x = y

\* The scan has dealt with m: it is in none of the places.
Settled(m) ==
    /\ m \notin todo \cup deleted \cup {reading}
    /\ \A x \in Plans : x.model_name # m

\* How far an undisturbed scan has come with m.
QuietModel(m) ==
    /\ m \in todo \/ reading = m => repo[m] # None /\ modelMap[m] = before[m]
    /\ reading = m => repo[m].parses
    /\ m \in deleted => repo[m] = None
    /\ \A x \in Plans : x.model_name = m =>
          /\ repo[m] # None
          /\ modelMap[m] = before[m]
          /\ x.model_version = GetHighestVersion(repo[m].versions)
    /\ Settled(m) => modelMap[m] = Reconcile(before, repo)[m]

QuietInv == quiet /\ spc = "scan" => \A m \in Models : QuietModel(m)

\* Only a directory removed during a scan brings the process down.
QuietScanSurvives == quiet => ~crashed

MInv ==
    /\ TypeOK
    /\ PhaseInv
    /\ PlacesInv
    /\ PlansStayTrue
    /\ QuietInv
    /\ QuietScanSurvives

-----------------------------------------------------------------------------

\* GetHighestVersion returns a version of the directory or -1, never less.
LEMMA HighestVersion ==
  ASSUME NEW f \in Folders
  PROVE  /\ GetHighestVersion(f.versions) \in Int
         /\ GetHighestVersion(f.versions) # NoVersion => GetHighestVersion(f.versions) \in Nat
<1> DEFINE v == GetHighestVersion(f.versions)
<1>1. f.versions \in SUBSET Int
  BY ManagerAssumption
<1>2. v \in f.versions \cup {NoVersion} /\ \A d \in f.versions \cup {NoVersion} : d <= v
  BY ManagerAssumption DEF GetHighestVersion
<1>3. v \in Int /\ -1 <= v
  BY <1>1, <1>2 DEF NoVersion
<1> QED
  BY <1>3 DEF NoVersion

\* The checks on the way from config.pbtxt to a backend, in the platform
\* switch, two constructors and a loop, let through what can be served.
LEMMA LoadModelLoads ==
  ASSUME NEW c \in ModelConfig
  PROVE  LoadModel(c) <=> Loadable(c)
<1>1. \A g \in Groups(c) : g.kind \in Kinds /\ g.count \in Int /\ g.gpus \in BOOLEAN
  <2>1. c.instance_group \in Seq(InstanceGroup)
    BY DEF ModelConfig
  <2>2. \A i \in DOMAIN c.instance_group : c.instance_group[i] \in InstanceGroup
    BY <2>1
  <2>3. \A g \in Groups(c) : g \in InstanceGroup
    BY <2>2 DEF Groups
  <2> QED
    BY <2>3 DEF InstanceGroup
<1>2. \A g \in Groups(c) : (g.count <= 0) <=> ~(g.count > 0)
  BY <1>1
<1>3. ConvertStringToPlatformType(c.platform) = "demo" <=> c.platform = "demo"
  BY DEF ConvertStringToPlatformType
<1>4. LoadModel(c) <=> c.platform = "demo" /\ ProcessModelConfig(c) /\ CreateExecuteContexts(c)
  BY <1>3 DEF LoadModel, CreateModelBackend, CreateBackend
<1>5. c.platform = "demo" => c.platform # ""
  OBVIOUS
<1> QED
  BY <1>1, <1>2, <1>4, <1>5
  DEF ProcessModelConfig, CreateExecuteContexts, Loadable, Kinds

\* Every variable keeps its type; only versions above -1 are served.
LEMMA TypeStep ==
  ASSUME MInv, [Next]_vars
  PROVE  TypeOK'
<1> USE ManagerAssumption DEF TypeOK, repoVars, scanVars
<1>t. TypeOK /\ PlansStayTrue
  BY DEF MInv
<1>1. ASSUME NEW m \in Models, ChangeRepo(m)
      PROVE  TypeOK'
  <2>1. changes' \in 0 .. MaxChanges
    BY <1>t, <1>1 DEF ChangeRepo
  <2>2. repo' \in [Models -> Folders \cup {None}]
    BY <1>t, <1>1 DEF ChangeRepo
  <2>3. quiet' = FALSE /\ UNCHANGED <<modelMap, running, mpc, upc, scanVars, crashed>>
    BY <1>1 DEF ChangeRepo
  <2> QED
    <3>1. quiet' \in BOOLEAN
      BY <2>3
    <3>2. UNCHANGED <<modelMap, running, mpc, upc, spc, todo, reading, added, updated,
                      deleted, before, crashed>>
      BY <2>3
    <3> QED
      BY <1>t, <2>1, <2>2, <3>1, <3>2
<1>2. CASE ScanList
  BY <1>t, <1>2 DEF ScanList
<1>3. ASSUME NEW m \in Models, ReadConfig(m)
      PROVE  TypeOK'
  BY <1>t, <1>3 DEF ReadConfig
<1>4. ASSUME NEW m \in Models, ReadVersion(m)
      PROVE  TypeOK'
  <2> DEFINE v == GetHighestVersion(repo[m].versions)
  <2>1. repo[m] \in Folders
    BY <1>t, <1>4 DEF ReadVersion
  <2>2. v # NoVersion => ModelLoadInfo(m, v) \in LoadInfos
    BY <2>1, HighestVersion DEF LoadInfos, ModelLoadInfo
  <2>3. added' \in SUBSET LoadInfos /\ updated' \in SUBSET LoadInfos
    BY <1>t, <1>4, <2>2 DEF ReadVersion
  <2> QED
    BY <1>t, <1>4, <2>3 DEF ReadVersion
<1>5. ASSUME NEW m \in Models, VersionsVanished(m)
      PROVE  TypeOK'
  BY <1>t, <1>5 DEF VersionsVanished
<1>6. ASSUME NEW a \in added, AddModel(a)
      PROVE  TypeOK'
  <2>1. a.model_name \in Models /\ a.model_version \in Nat
    BY <1>t DEF LoadInfos
  <2>2. modelMap' \in [Models -> Nat \cup {None}]
    BY <1>t, <1>6, <2>1 DEF AddModel
  <2> QED
    BY <1>t, <1>6, <2>2 DEF AddModel
<1>7. ASSUME NEW u \in updated, UpdateModel(u)
      PROVE  TypeOK'
  <2>1. u.model_name \in Models /\ u.model_version \in Nat
    BY <1>t DEF LoadInfos
  <2>2. modelMap' \in [Models -> Nat \cup {None}]
    BY <1>t, <1>7, <2>1 DEF UpdateModel
  <2> QED
    BY <1>t, <1>7, <2>2 DEF UpdateModel
<1>8. ASSUME NEW m \in deleted, DeleteModel(m)
      PROVE  TypeOK'
  BY <1>t, <1>8 DEF DeleteModel
<1>9. CASE ScanReturn
  BY <1>t, <1>9 DEF ScanReturn
<1>10. CASE UploadLoop
  BY <1>t, <1>10 DEF UploadLoop, UpdaterTest, UpdaterSleep, UpdaterTimeout,
                     UpdaterNotified, UpdaterDecide, updaterFrame
<1>11. CASE StartReturn \/ StopCall \/ Stop
  <2>1. UNCHANGED mainFrame
    BY <1>11 DEF StartReturn, StopCall, Stop, StopNotify, StopJoin, StopClear
  <2>2. running' \in BOOLEAN /\ modelMap' \in [Models -> Nat \cup {None}]
    BY <1>t, <1>11 DEF StartReturn, StopCall, Stop, StopNotify, StopJoin, StopClear
  <2>3. /\ mpc' \in {"constructing", "serving", "notifying", "joining", "clearing", "stopped"}
        /\ upc' \in {"none", "loop", "checked", "waiting", "notified", "awake",
                      "scanning", "exited"}
    BY <1>t, <1>11 DEF StartReturn, StopCall, Stop, StopNotify, StopJoin, StopClear
  <2> QED
    BY <1>t, <2>1, <2>2, <2>3 DEF mainFrame
<1>12. CASE UNCHANGED vars
  BY <1>t, <1>12 DEF vars
<1> QED
  BY <1>1, <1>2, <1>3, <1>4, <1>5, <1>6, <1>7, <1>8, <1>9, <1>10, <1>11, <1>12
  DEF Next, LoadModels, Terminated

(***************************************************************************)
(* Who changes what: the map changes only within a scan or after the       *)
(* updater is gone, and the places of a scan change only within it.        *)
(***************************************************************************)

\* The actions of a scan that use up its vectors, and those that fill them.
Applying ==
    \/ \E a \in added : AddModel(a)
    \/ \E u \in updated : UpdateModel(u)
    \/ \E m \in deleted : DeleteModel(m)

Scanning == ScanList \/ (\E m \in Models : ReadConfig(m) \/ ReadVersion(m)) \/ Applying

\* Every other step leaves the places of a scan alone, and the map unless no
\* scan is under way; a scan that it starts or ends has nothing in them.
LEMMA OtherStep ==
  ASSUME MInv, [Next]_vars, ~Scanning
  PROVE  /\ UNCHANGED <<todo, reading, added, updated, deleted, before>>
         /\ spc' = "scan" => spc = "scan"
         /\ spc = "scan" => UNCHANGED modelMap
         /\ quiet' => quiet /\ UNCHANGED repo
         /\ spc = "scan" /\ spc' # "scan" => ScanComplete
<1> USE DEF MInv, PhaseInv, repoVars, scanVars
<1>1. CASE \E m \in Models : ChangeRepo(m)
  BY <1>1 DEF ChangeRepo
<1>2. CASE \E m \in Models : VersionsVanished(m)
  BY <1>2 DEF VersionsVanished
<1>3. CASE ScanReturn
  BY <1>3 DEF ScanReturn
<1>4. CASE UploadLoop
  <2>1. UNCHANGED updaterFrame
    BY <1>4 DEF UploadLoop, UpdaterTest, UpdaterSleep, UpdaterTimeout, UpdaterNotified,
                UpdaterDecide
  <2>2. spc' = spc \/ (spc' = "start" /\ upc = "awake")
    BY <1>4 DEF UploadLoop, UpdaterTest, UpdaterSleep, UpdaterTimeout, UpdaterNotified,
                UpdaterDecide
  <2>3. upc = "awake" => spc = "none"
    BY DEF TypeOK
  <2> QED
    BY <2>1, <2>2, <2>3 DEF updaterFrame
<1>5. CASE StartReturn \/ StopCall \/ StopNotify \/ StopJoin
  BY <1>5 DEF StartReturn, StopCall, StopNotify, StopJoin, mainFrame
<1>6. CASE StopClear
  BY <1>6 DEF StopClear, mainFrame
<1>7. CASE UNCHANGED vars
  BY <1>7 DEF vars
<1> QED
  BY <1>1, <1>2, <1>3, <1>4, <1>5, <1>6, <1>7
  DEF Next, LoadModels, Terminated, Stop, Scanning, Applying

\* The threads keep to their phases, and a stopped manager stays empty.
LEMMA PhaseStep ==
  ASSUME MInv, [Next]_vars
  PROVE  PhaseInv'
<1> USE DEF MInv, PhaseInv, repoVars, scanVars
<1>1. CASE Scanning
  <2>1. spc' = "scan" /\ spc # "none" /\ UNCHANGED <<running, mpc, upc>>
    BY <1>1, ManagerAssumption
    DEF Scanning, Applying, ScanList, ReadConfig, ReadVersion, AddModel, UpdateModel,
        DeleteModel, Planned, TypeOK, PlacesInv
  <2>2. mpc # "stopped"
    BY <2>1
  <2> QED
    BY <2>1, <2>2
<1>2. CASE \E m \in Models : ChangeRepo(m) \/ VersionsVanished(m)
  BY <1>2 DEF ChangeRepo, VersionsVanished
<1>3. CASE ScanReturn
  BY <1>3 DEF ScanReturn, ScanComplete, Planned
<1>4. CASE UploadLoop
  BY <1>4 DEF UploadLoop, UpdaterTest, UpdaterSleep, UpdaterTimeout, UpdaterNotified,
              UpdaterDecide, updaterFrame, TypeOK
<1>5. CASE StartReturn \/ StopCall
  BY <1>5 DEF StartReturn, StopCall, mainFrame, TypeOK
<1>6. CASE Stop
  BY <1>6 DEF Stop, StopNotify, StopJoin, StopClear, CondMuFree, mainFrame, TypeOK
<1>7. CASE UNCHANGED vars
  BY <1>7 DEF vars
<1> QED
  BY <1>1, <1>2, <1>3, <1>4, <1>5, <1>6, <1>7
  DEF Next, LoadModels, Terminated, Scanning, Applying

-----------------------------------------------------------------------------

\* What is read becomes a plan if it is a version, and one that is not served.
LEMMA ReadVersionPlans ==
  ASSUME TypeOK, NEW m \in Models, ReadVersion(m)
  PROVE  LET v == GetHighestVersion(repo[m].versions)
             x == ModelLoadInfo(m, v)
         IN  /\ x.model_name = m /\ x.model_version = v
             /\ Plans' = IF v # NoVersion /\ modelMap[m] # v THEN Plans \cup {x} ELSE Plans
<1> DEFINE v == GetHighestVersion(repo[m].versions)
<1> DEFINE x == ModelLoadInfo(m, v)
<1>1. x.model_name = m /\ x.model_version = v
  BY DEF ModelLoadInfo
<1>2. /\ added' = IF v # NoVersion /\ modelMap[m] = None THEN added \cup {x} ELSE added
      /\ updated' = IF v # NoVersion /\ modelMap[m] \notin {None, v}
                    THEN updated \cup {x} ELSE updated
  BY DEF ReadVersion
<1>3. v # None
  <2>1. repo[m] \in Folders
    BY DEF ReadVersion, TypeOK
  <2> QED
    BY <2>1, HighestVersion, ManagerAssumption
<1> HIDE DEF v, x
<1>4. Plans' = IF v # NoVersion /\ modelMap[m] # v THEN Plans \cup {x} ELSE Plans
  BY <1>2, <1>3 DEF Plans
<1> QED
  BY <1>1, <1>4 DEF v, x

\* A model stays in one place of a scan at most.
LEMMA PlacesStep ==
  ASSUME MInv, [Next]_vars
  PROVE  PlacesInv'
<1> USE DEF MInv, PlacesInv
<1>1. CASE ScanList
  BY <1>1, ManagerAssumption DEF ScanList, Plans, TypeOK
<1>2. ASSUME NEW m \in Models, ReadConfig(m)
      PROVE  PlacesInv'
  BY <1>2, ManagerAssumption DEF ReadConfig, Plans, TypeOK
<1>3. ASSUME NEW m \in Models, ReadVersion(m)
      PROVE  PlacesInv'
  <2>1. /\ \A x \in Plans' \ Plans : x.model_name = m
        /\ \A x, y \in Plans' \ Plans : x = y
        /\ Plans \subseteq Plans'
    BY <1>3, ReadVersionPlans
  <2>2. reading = m /\ reading' = None /\ UNCHANGED <<spc, todo, deleted>>
    BY <1>3 DEF ReadVersion
  <2>3. spc = "scan" /\ m \notin todo \cup deleted /\ \A x \in Plans : x.model_name # m
    BY <2>2, ManagerAssumption
  <2>4. \A x \in Plans' : x.model_name \in Models
    <3>1. \A x \in Plans : x.model_name \in Models
      BY DEF Plans, TypeOK, LoadInfos
    <3> QED
      BY <2>1, <3>1
  <2>5. None \notin Models /\ todo \subseteq Models /\ deleted \subseteq Models
    BY ManagerAssumption DEF TypeOK
  <2> QED
    BY <2>1, <2>2, <2>3, <2>4, <2>5
<1>4. CASE Applying
  <2>1. /\ spc' = "scan" /\ Plans' \subseteq Plans /\ deleted' \subseteq deleted
        /\ UNCHANGED <<todo, reading>>
    BY <1>4 DEF Applying, AddModel, UpdateModel, DeleteModel, Planned, Plans
  <2> QED
    BY <2>1
<1>5. CASE ~Scanning
  BY <1>5, OtherStep DEF Plans, ScanComplete, Planned
<1> QED
  BY <1>1, <1>2, <1>3, <1>4, <1>5 DEF Scanning

\* What the vectors say of the map stays true until they are used.
LEMMA PlansStep ==
  ASSUME MInv, [Next]_vars
  PROVE  PlansStayTrue'
<1> USE DEF MInv, PlansStayTrue
<1>1. CASE ScanList
  BY <1>1 DEF ScanList, PlacesInv, Plans
<1>2. ASSUME NEW m \in Models, ReadConfig(m)
      PROVE  PlansStayTrue'
  BY <1>2 DEF ReadConfig
<1>3. ASSUME NEW m \in Models, ReadVersion(m)
      PROVE  PlansStayTrue'
  BY <1>3 DEF ReadVersion, ModelLoadInfo
<1>n. /\ \A x, y \in Plans : x.model_name = y.model_name => x = y
      /\ \A x \in Plans : x.model_name \notin deleted
      /\ \A x \in Plans : x.model_name \in Models
      /\ added \cap updated = {}
      /\ DOMAIN modelMap = Models
  BY DEF PlacesInv, Plans, TypeOK, LoadInfos
<1>4. ASSUME NEW a \in added, AddModel(a)
      PROVE  PlansStayTrue'
  <2>1. \A m \in Models : m # a.model_name => modelMap'[m] = modelMap[m]
    BY <1>4, <1>n DEF AddModel
  <2>2. added' = added \ {a} /\ UNCHANGED <<updated, deleted>>
    BY <1>4 DEF AddModel
  <2>3. \A x \in (Plans \ {a}) : x.model_name # a.model_name
    BY <1>n DEF Plans
  <2>4. \A x \in (Plans \ {a}) : modelMap'[x.model_name] = modelMap[x.model_name]
    BY <1>n, <2>1, <2>3
  <2>5. \A m \in deleted : modelMap'[m] = modelMap[m]
    BY <1>n, <2>1 DEF Plans, TypeOK
  <2> QED
    BY <1>n, <2>2, <2>4, <2>5 DEF Plans
<1>5. ASSUME NEW u \in updated, UpdateModel(u)
      PROVE  PlansStayTrue'
  <2>1. \A m \in Models : m # u.model_name => modelMap'[m] = modelMap[m]
    BY <1>5, <1>n DEF UpdateModel
  <2>2. updated' = updated \ {u} /\ UNCHANGED <<added, deleted>>
    BY <1>5 DEF UpdateModel
  <2>3. \A x \in (Plans \ {u}) : x.model_name # u.model_name
    BY <1>n DEF Plans
  <2>4. \A x \in (Plans \ {u}) : modelMap'[x.model_name] = modelMap[x.model_name]
    BY <1>n, <2>1, <2>3
  <2>5. \A m \in deleted : modelMap'[m] = modelMap[m]
    BY <1>n, <2>1 DEF Plans, TypeOK
  <2> QED
    BY <1>n, <2>2, <2>4, <2>5 DEF Plans
<1>6. ASSUME NEW m \in deleted, DeleteModel(m)
      PROVE  PlansStayTrue'
  BY <1>6, <1>n DEF DeleteModel, TypeOK
<1>7. CASE ~Scanning
  <2>1. CASE spc = "scan"
    BY <1>7, <2>1, OtherStep
  <2>2. CASE spc # "scan"
    BY <1>7, <2>2, OtherStep DEF PlacesInv, Plans
  <2> QED
    BY <2>1, <2>2
<1> QED
  BY <1>1, <1>2, <1>3, <1>4, <1>5, <1>6, <1>7 DEF Scanning, Applying

\* A step of the scan on one model leaves what is known of the others.
LEMMA QuietOther ==
  ASSUME NEW m \in Models, NEW n \in Models, m # n, TypeOK, TypeOK', QuietModel(n),
         repo' = repo, before' = before,
         modelMap'[n] = modelMap[n],
         n \in todo' <=> n \in todo,
         n \in deleted' <=> n \in deleted,
         reading' = n <=> reading = n,
         \A x \in Plans \cup Plans' : x.model_name = n => (x \in Plans <=> x \in Plans')
  PROVE  QuietModel(n)'
<1>1. Settled(n)' <=> Settled(n)
  BY DEF Settled
<1>2. Reconcile(before, repo)[n]' = Reconcile(before, repo)[n]
  BY DEF Reconcile
<1> QED
  BY <1>1, <1>2 DEF QuietModel

\* Carrying out a plan in an undisturbed scan settles its model.
LEMMA QuietPlan ==
  ASSUME MInv, TypeOK', NEW x \in Plans, quiet, spc = "scan",
         \A n \in Models : QuietModel(n),
         UNCHANGED <<repo, before, todo, reading, deleted>>,
         Plans' = Plans \ {x},
         modelMap' = IF CanLoad(x.model_name)
                     THEN [modelMap EXCEPT ![x.model_name] = x.model_version] ELSE modelMap
  PROVE  \A n \in Models : QuietModel(n)'
<1> DEFINE m == x.model_name
<1>1. /\ m \in Models /\ x.model_version \in Nat
      /\ DOMAIN modelMap = Models
  BY DEF MInv, TypeOK, Plans, LoadInfos
<1>2. /\ m \notin todo /\ m \notin deleted /\ reading # m
      /\ \A y \in Plans' : y.model_name # m
  BY DEF MInv, PlacesInv
<1>3. /\ repo[m] # None /\ modelMap[m] = before[m]
      /\ x.model_version = GetHighestVersion(repo[m].versions)
  BY <1>1 DEF QuietModel
<1> HIDE DEF m
<1>4. modelMap'[m] = IF CanLoad(m) THEN x.model_version ELSE modelMap[m]
  BY <1>1 DEF m
<1>5. Reconcile(before, repo)[m]' = modelMap'[m]
  <2>1. x.model_version # NoVersion
    BY <1>1 DEF NoVersion
  <2>2. Servable(repo[m]) <=> CanLoad(m)
    <3>1. repo[m] \in Folders
      BY <1>1, <1>3 DEF MInv, TypeOK, m
    <3>2. repo[m].config \in ModelConfig
      BY <3>1, ManagerAssumption
    <3> QED
      BY <1>3, <2>1, <3>2, LoadModelLoads DEF Servable, CanLoad
  <2> QED
    BY <1>1, <1>3, <1>4, <2>2 DEF Reconcile
<1>6. QuietModel(m)'
  BY <1>2, <1>5 DEF QuietModel
<1>7. ASSUME NEW n \in Models, n # m
      PROVE  QuietModel(n)'
  <2>1. modelMap'[n] = modelMap[n]
    BY <1>1, <1>7 DEF m
  <2>2. \A y \in Plans \cup Plans' : y.model_name = n => (y \in Plans <=> y \in Plans')
    BY <1>7 DEF m
  <2> QED
    BY <1>1, <1>7, <2>1, <2>2, QuietOther DEF MInv
<1> QED
  BY <1>6, <1>7

\* A scan that nobody disturbs deals with each model as it should.
LEMMA QuietStep ==
  ASSUME MInv, [Next]_vars
  PROVE  QuietInv'
<1> USE DEF MInv, QuietInv
<1>t. TypeOK'
  BY TypeStep
<1>1. CASE ScanList
  <2>1. /\ todo' = {m \in Models : repo[m] # None}
        /\ deleted' = {m \in Models : modelMap[m] # None /\ repo[m] = None}
        /\ before' = modelMap /\ repo' = repo /\ modelMap' = modelMap
        /\ reading' = None /\ Plans' = {}
    BY <1>1 DEF ScanList, PlacesInv, Plans, repoVars
  <2>2. ASSUME NEW m \in Models
        PROVE  QuietModel(m)'
    <3>1. Settled(m)' => repo[m] = None /\ modelMap[m] = None
      BY <2>1 DEF Settled
    <3>2. Settled(m)' => Reconcile(before, repo)[m]' = None
      BY <2>1, <3>1 DEF Reconcile
    <3> QED
      BY <2>1, <3>1, <3>2, ManagerAssumption DEF QuietModel
  <2> QED
    BY <2>2
<1>2. ASSUME NEW m \in Models, ReadConfig(m), quiet', spc' = "scan"
      PROVE  QuietModel(m)' /\ \A n \in Models : n # m => QuietModel(n)'
  <2>1. /\ reading = None /\ m \in todo /\ todo' = todo \ {m}
        /\ reading' = IF repo[m] # None /\ ~repo[m].parses THEN None ELSE m
        /\ UNCHANGED <<repo, modelMap, before, deleted, Plans, quiet, spc>>
    BY <1>2 DEF ReadConfig, Plans, repoVars
  <2>2. QuietModel(m) /\ m \notin deleted /\ \A x \in Plans : x.model_name # m
    BY <1>2, <2>1 DEF PlacesInv
  <2>3. repo[m] # None /\ modelMap[m] = before[m]
    BY <2>1, <2>2 DEF QuietModel
  <2>4. ~repo[m].parses => Reconcile(before, repo)[m]' = before[m]
    BY <2>1, <2>3 DEF Reconcile, Servable
  <2>5. QuietModel(m)'
    BY <2>1, <2>2, <2>3, <2>4, ManagerAssumption DEF QuietModel, Settled
  <2>6. ASSUME NEW n \in Models, n # m
        PROVE  QuietModel(n)'
    <3>1. reading' = n <=> reading = n
      BY <2>1, <2>6, ManagerAssumption
    <3>2. QuietModel(n)
      BY <1>2, <2>1
    <3> QED
      BY <1>t, <2>1, <2>6, <3>1, <3>2, QuietOther
  <2> QED
    BY <2>5, <2>6
<1>3. ASSUME NEW m \in Models, ReadVersion(m), quiet', spc' = "scan"
      PROVE  QuietModel(m)' /\ \A n \in Models : n # m => QuietModel(n)'
  <2> DEFINE v == GetHighestVersion(repo[m].versions)
  <2> DEFINE x == ModelLoadInfo(m, v)
  <2>1. /\ x.model_name = m /\ x.model_version = v
        /\ Plans' = IF v # NoVersion /\ modelMap[m] # v THEN Plans \cup {x} ELSE Plans
    BY <1>3, ReadVersionPlans
  <2>2. /\ reading = m /\ reading' = None
        /\ UNCHANGED <<repo, modelMap, before, todo, deleted, quiet, spc>>
    BY <1>3 DEF ReadVersion, repoVars
  <2>3. m \notin todo /\ m \notin deleted /\ \A y \in Plans : y.model_name # m
    BY <2>2 DEF PlacesInv
  <2>4. repo[m] # None /\ modelMap[m] = before[m]
    BY <1>3, <2>2 DEF QuietModel
  <2>5. v = NoVersion \/ modelMap[m] = v => Reconcile(before, repo)[m]' = modelMap[m]
    BY <2>2, <2>4 DEF Reconcile, Servable
  <2>6. QuietModel(m)'
    <3> HIDE DEF v, x
    <3>1. m \notin todo' /\ m \notin deleted' /\ reading' # m
      BY <2>2, <2>3, ManagerAssumption
    <3>2. \A y \in Plans' : y.model_name = m => y.model_version = v
      BY <2>1, <2>3
    <3>3. Settled(m)' => v = NoVersion \/ modelMap[m] = v
      BY <2>1 DEF Settled
    <3> QED
      BY <2>2, <2>4, <2>5, <3>1, <3>2, <3>3 DEF QuietModel, v
  <2>7. ASSUME NEW n \in Models, n # m
        PROVE  QuietModel(n)'
    <3> HIDE DEF v, x
    <3>1. QuietModel(n) /\ (reading' = n <=> reading = n)
      BY <1>3, <2>2, <2>7, ManagerAssumption
    <3>2. \A y \in Plans \cup Plans' : y.model_name = n => (y \in Plans <=> y \in Plans')
      BY <2>1, <2>7
    <3> QED
      BY <1>t, <2>2, <2>7, <3>1, <3>2, QuietOther
  <2> QED
    BY <2>6, <2>7
<1>d. added \cap updated = {}
  BY DEF PlansStayTrue
<1>4. ASSUME NEW a \in added, AddModel(a), quiet', spc' = "scan"
      PROVE  \A n \in Models : QuietModel(n)'
  <2>1. /\ spc = "scan" /\ added' = added \ {a}
        /\ UNCHANGED <<repo, before, todo, reading, deleted, updated, quiet>>
    BY <1>4 DEF AddModel, Planned, repoVars
  <2>2. a \in Plans /\ Plans' = Plans \ {a}
    BY <1>d, <2>1 DEF Plans
  <2>3. modelMap' = IF CanLoad(a.model_name)
                    THEN [modelMap EXCEPT ![a.model_name] = a.model_version] ELSE modelMap
    BY <1>4 DEF AddModel, PlansStayTrue
  <2> QED
    BY <1>t, <1>4, <2>1, <2>2, <2>3, QuietPlan
<1>5. ASSUME NEW u \in updated, UpdateModel(u), quiet', spc' = "scan"
      PROVE  \A n \in Models : QuietModel(n)'
  <2>1. /\ spc = "scan" /\ updated' = updated \ {u}
        /\ UNCHANGED <<repo, before, todo, reading, deleted, added, quiet>>
    BY <1>5 DEF UpdateModel, Planned, repoVars
  <2>2. u \in Plans /\ Plans' = Plans \ {u}
    BY <1>d, <2>1 DEF Plans
  <2>3. modelMap' = IF CanLoad(u.model_name)
                    THEN [modelMap EXCEPT ![u.model_name] = u.model_version] ELSE modelMap
    BY <1>5 DEF UpdateModel, PlansStayTrue
  <2> QED
    BY <1>t, <1>5, <2>1, <2>2, <2>3, QuietPlan
<1>6. ASSUME NEW m \in deleted, DeleteModel(m), quiet', spc' = "scan"
      PROVE  QuietModel(m)' /\ \A n \in Models : n # m => QuietModel(n)'
  <2>1. /\ spc = "scan" /\ deleted' = deleted \ {m} /\ modelMap' = [modelMap EXCEPT ![m] = None]
        /\ UNCHANGED <<repo, before, todo, reading, Plans, quiet>>
    BY <1>6 DEF DeleteModel, Planned, Plans, repoVars
  <2>2. m \in Models /\ DOMAIN modelMap = Models
    BY DEF TypeOK
  <2>3. m \notin todo /\ reading # m /\ \A x \in Plans : x.model_name # m
    BY DEF PlacesInv
  <2>4. repo[m] = None
    BY <1>6, <2>1, <2>2 DEF QuietModel
  <2>5. modelMap'[m] = Reconcile(before, repo)[m]'
    BY <2>1, <2>2, <2>4 DEF Reconcile
  <2>6. QuietModel(m)'
    BY <2>1, <2>3, <2>5 DEF QuietModel
  <2>7. ASSUME NEW n \in Models, n # m
        PROVE  QuietModel(n)'
    <3>1. modelMap'[n] = modelMap[n] /\ QuietModel(n)
      BY <1>6, <2>1, <2>2, <2>7
    <3> QED
      BY <1>t, <2>1, <2>2, <2>7, <3>1, QuietOther
  <2> QED
    BY <2>6, <2>7
<1>7. ASSUME ~Scanning, quiet', spc' = "scan"
      PROVE  \A n \in Models : QuietModel(n)'
  <2>1. /\ spc = "scan" /\ quiet
        /\ UNCHANGED <<repo, modelMap, todo, reading, added, updated, deleted, before>>
    BY <1>7, OtherStep
  <2>2. ASSUME NEW n \in Models
        PROVE  QuietModel(n)'
    <3>1. Settled(n)' <=> Settled(n)
      BY <2>1 DEF Settled, Plans
    <3>2. Reconcile(before, repo)[n]' = Reconcile(before, repo)[n]
      BY <2>1 DEF Reconcile
    <3> QED
      BY <2>1, <3>1, <3>2 DEF QuietModel, Plans
  <2> QED
    BY <2>2
<1> QED
  BY <1>1, <1>2, <1>3, <1>4, <1>5, <1>6, <1>7 DEF Scanning, Applying

\* Only a directory removed during the scan brings the process down.
LEMMA SurvivesStep ==
  ASSUME MInv, [Next]_vars
  PROVE  QuietScanSurvives'
<1> USE DEF MInv, QuietScanSurvives
<1>1. ASSUME NEW m \in Models, VersionsVanished(m)
      PROVE  QuietScanSurvives'
  <2>1. reading = m /\ repo[m] = None /\ quiet' = quiet
    BY <1>1 DEF VersionsVanished
  <2>2. spc = "scan"
    BY <2>1, ManagerAssumption DEF PlacesInv
  <2>3. ~quiet
    BY <2>1, <2>2 DEF QuietInv, QuietModel
  <2> QED
    BY <2>1, <2>3
<1>2. CASE ~ \E m \in Models : VersionsVanished(m)
  BY <1>2 DEF Next, LoadModels, UploadLoop, Stop, Terminated, ChangeRepo, ScanList, ReadConfig,
              ReadVersion, AddModel, UpdateModel, DeleteModel, ScanReturn, UpdaterTest,
              UpdaterSleep, UpdaterTimeout, UpdaterNotified, UpdaterDecide, updaterFrame,
              StartReturn, StopCall, StopNotify, StopJoin, StopClear, mainFrame, vars
<1> QED
  BY <1>1, <1>2

-----------------------------------------------------------------------------

\* The manager starts in the invariant.
LEMMA InitInv == Init => MInv
<1> SUFFICES ASSUME Init
             PROVE  MInv
  OBVIOUS
<1> USE ManagerAssumption DEF Init
<1>1. TypeOK
  <2>1. modelMap \in [Models -> Nat \cup {None}]
    OBVIOUS
  <2>2. before \in [Models -> Nat \cup {None}]
    BY <2>1
  <2>3. changes \in 0 .. MaxChanges
    OBVIOUS
  <2> QED
    BY <2>1, <2>2, <2>3 DEF TypeOK
<1>2. PhaseInv /\ PlacesInv /\ PlansStayTrue /\ QuietInv /\ QuietScanSurvives
  BY DEF PhaseInv, PlacesInv, Plans, PlansStayTrue, QuietInv, QuietScanSurvives
<1> QED
  BY <1>1, <1>2 DEF MInv

\* MInv holds throughout.
THEOREM InductiveInvariant == Spec => []MInv
<1>1. MInv /\ [Next]_vars => MInv'
  BY TypeStep, PhaseStep, PlacesStep, PlansStep, QuietStep, SurvivesStep
  DEF MInv
<1> QED
  BY InitInv, <1>1, PTL DEF Spec

\* TypeOK: in particular no model is ever served in version -1.
THEOREM TypeCorrect == Spec => []TypeOK
<1>1. MInv => TypeOK
  BY DEF MInv
<1> QED
  BY InductiveInvariant, <1>1, PTL

\* The vectors of LoadModels stay true while other threads run: no insert
\* meets an entry, no update or erase misses one.
THEOREM PlansKept == Spec => []PlansStayTrue
<1>1. MInv => PlansStayTrue
  BY DEF MInv
<1> QED
  BY InductiveInvariant, <1>1, PTL

\* LoadModels without a change of the repository meanwhile does not bring the
\* server down and leaves the map that belongs to the repository, for any
\* models and directories.
THEOREM QuietScan == Spec => []QuietScanReconciles
<1>1. MInv => QuietScanReconciles
  <2> SUFFICES ASSUME MInv, ScanComplete, quiet, NEW m \in Models
               PROVE  modelMap[m] = Reconcile(before, repo)[m]
    BY DEF QuietScanReconciles, MInv, QuietScanSurvives
  <2>1. Settled(m)
    BY ManagerAssumption DEF ScanComplete, Planned, Settled, Plans
  <2> QED
    BY <2>1 DEF MInv, QuietInv, QuietModel, ScanComplete, Planned
<1> QED
  BY InductiveInvariant, <1>1, PTL

\* Stop outruns the updater, and leaves no model.
THEOREM StopOvertakes == Spec => []StopOvertakesUpdater
<1>1. MInv => StopOvertakesUpdater
  BY DEF MInv, PhaseInv, StopOvertakesUpdater
<1> QED
  BY InductiveInvariant, <1>1, PTL
=============================================================================
