------------------------ MODULE NothingOverlookedProofs ------------------------
(***************************************************************************)
(* NothingOverlooked: a reason for a run is not used up without its run.   *)
(* A reconcile compares what it is to write with what is there, writes it, *)
(* and remembers only in local variables that it did.  The proof follows   *)
(* what was written until it is in the current run's configuration.        *)
(***************************************************************************)
EXTENDS StartFencedProofs

(***************************************************************************)
(* What is assumed of the environment.                                     *)
(***************************************************************************)
\* The steps between the comparison that finds a change and the record of its run.
windowSteps == {"updateVariables", "updateRunTriggers"} \cup startSteps

\* There are more IDs than what the operator and its caches remember.
Plentiful ==
  /\ \A a, b, c, d \in RunIDs \cup {None} : \E r \in RunIDs : r \notin {a, b, c, d}
  /\ \A a, b \in ConfigVersionIDs \cup {None} : \E c \in ConfigVersionIDs : c \notin {a, b}

\* Users write neither to Terraform Cloud nor, during a reconcile, to the Workspace,
\* and a module stays a module; nothing fails between a comparison and its run;
\* caches are up to date when they are read, and archives are unpacked, in time.
Punctual ==
  /\ Attentive /\ ~KindEdits /\ OutOfBand = {} /\ Plentiful
  /\ EditAt \subseteq {"idle"} /\ AbortAt \cap windowSteps = {}
  /\ {"workspace", "configMap", "upload"} \subseteq Timely
  /\ UploadOutcomes \subseteq {"uploaded"}

(***************************************************************************)
(* The inductive invariant, beside IInv, HeldInv and FencedInv.            *)
(***************************************************************************)
NoRunPending == \A r \in RunIDs : ~isPending(runs[r].status)

\* The run that the reconcile has found is the workspace's current one.
FoundRun ==
  local.run # None => \A w \in WorkspaceIDs : Live(w) => local.run = workspaces[w].currentRun

\* An unfinished run is the current one, and the one on record.
RunFacts ==
  /\ local.toCancel = {}
  /\ pc = "CheckWorkspace" => local.run = None
  /\ pc \in {"recordWorkspaceID", "recordRunID"} => FoundRun
  /\ \A w \in WorkspaceIDs : ~Live(w) => workspaces[w].currentRun = None
  /\ \A r \in RunIDs : isPending(runs[r].status) =>
       /\ r = workspaces[runs[r].workspace].currentRun
       /\ pc = "recordRun" => r = local.run
       /\ pc # "recordRun" => r = cr.status.runID /\ isPending(cr.status.runStatus)
  /\ pc = "recordRunStatus" /\ ~isPending(local.runStatus) => NoRunPending

\* The configuration version is of the workspace and has the template of the spec;
\* once it is unpacked the workspace has it, too.
Prepared(c) ==
  /\ c \in ConfigVersionIDs
  /\ configVersions[c].workspace = cr.status.workspaceID
  /\ configVersions[c].template = cr.spec.template
  /\ configVersions[c].latest
  /\ \/ configVersions[c].status = "pending"
     \/ /\ configVersions[c].status = "uploaded"
        /\ workspaces[cr.status.workspaceID].template = cr.spec.template

VersionFacts ==
  /\ cr.status.configVersionID # None => pc \in {"readConfigVersion", "resetConfigVersion"}
  /\ \A c \in ConfigVersionIDs :
       configVersions[c].status = "pending" /\ configVersions[c].template # None =>
         \/ pc = "recordConfigVersion" /\ c = local.configVersion
         \/ pc = "readConfigVersion" /\ c = cr.status.configVersionID
  /\ pc = "UploadConfigurationFile" =>
       /\ local.configVersion \in ConfigVersionIDs
       /\ configVersions[local.configVersion].workspace = cr.status.workspaceID
       /\ configVersions[local.configVersion].status = "pending"
  /\ pc = "recordConfigVersion" => Prepared(local.configVersion)
  /\ pc \in {"readConfigVersion", "resetConfigVersion"} => Prepared(cr.status.configVersionID)
  /\ pc = "resetConfigVersion" =>
       configVersions[cr.status.configVersionID].status = "uploaded"

\* The template of a module on its way to the run.
TemplateFacts ==
  ~cr.spec.vcs =>
    /\ pc \in windowSteps => configMap = cr.spec.template
    /\ pc \in {"CreateConfigurationVersion", "UploadConfigurationFile"} =>
         local.template = cr.spec.template
    /\ pc = "createRun" => workspaces[cr.status.workspaceID].template = cr.spec.template

\* The current run has what the operator has last written to the workspace.
Executed(w) ==
  LET r == workspaces[w].currentRun
  IN /\ r # None
     /\ workspaces[w].value # None
     /\ runs[r].config.value = workspaces[w].value
     /\ ~cr.spec.vcs => runs[r].config.template = configMap

\* The reconcile knows of a reason for a run.
ReasonAtHand == pc # "recordRun" /\ (local.updated \/ pc \in startSteps)

Started == cr.status.runID # None \/ pc = "recordRun"

\* From the first run on, either all that was written has been run, or the reconcile
\* is about to.
StartedFacts ==
  Started =>
    /\ \E w \in WorkspaceIDs : Live(w)
    /\ \A w \in WorkspaceIDs : Live(w) =>
         workspaces[w].template # None /\ (Executed(w) \/ ReasonAtHand)

ActiveFacts == RunFacts /\ VersionFacts /\ TemplateFacts /\ StartedFacts

ExecutedInv == cr.phase = "active" => (pc # "idle" => fresh) /\ ActiveFacts

(***************************************************************************)
(* The Workspace while it is active.                                       *)
(***************************************************************************)
\* A reconcile works with the current copy.
LEMMA ActiveCopy ==
  ASSUME IInv, HeldInv, ExecutedInv, cr.phase = "active", pc # "idle"
  PROVE  /\ fresh /\ instance = cr /\ status = cr.status /\ spec = cr.spec
         /\ pc \notin deleteSteps
<1>1. fresh /\ instance = cr
  BY DEF ExecutedInv, IInv, OperatorInv, CopyInv
<1>2. pc \notin deleteSteps
  BY <1>1 DEF HeldInv, PathFacts
<1> QED BY <1>1, <1>2 DEF status, spec

\* A Workspace that is deleted does not become active again.
LEMMA StaysActive ==
  ASSUME Attentive, IInv, IInv', HeldInv, [Next]_vars, cr'.phase = "active"
  PROVE  cr.phase = "active"
<1>1. CASE UNCHANGED cr
  BY <1>1
<1>2. CASE Effects
  BY <1>2 DEF Effects, Nothing, Creates, Records, Holds, Starts, Continues, Ends,
     DeletesWorkspace, Deletes, Releases, ObjectSame
<1>3. CASE UNCHANGED vars \/ Abort \/ InitializeReconciliation \/ InstanceGone \/ TerraformCloudStep
  BY <1>1, <1>3 DEF vars, kubeVars, Abort, InitializeReconciliation, InstanceGone,
     TerraformCloudStep
<1> QED
  BY <1>2, <1>3, CondDeleteEffects, ReconcileWorkspaceEffects, ProcessRunEffects,
     StartConditionsEffects, StartRunEffects, KubernetesEffects
     DEF Next, Reconcile, reconcileSteps

\* A live workspace is the one on record, once a reconcile has looked.
LEMMA RecordedWorkspace ==
  ASSUME IInv, HeldInv, FencedInv, ExecutedInv, cr.phase = "active",
         pc \notin {"idle", "CheckWorkspace", "recordWorkspaceID"}
  PROVE  /\ cr.status.workspaceID \in WorkspaceIDs
         /\ \A w \in WorkspaceIDs : Live(w) => w = cr.status.workspaceID
<1>1. instance = cr /\ status = cr.status /\ pc \notin deleteSteps
  BY ActiveCopy
<1>2. status.workspaceID \in WorkspaceIDs
  BY <1>1, InstanceType DEF BeforeWorkspaceID, deleteSteps
<1> QED BY <1>1, <1>2 DEF FencedInv, SettledFacts

(***************************************************************************)
(* Steps that leave the facts alone.                                       *)
(***************************************************************************)
\* Workspaces keep their runs, and the contents that runs are made of.
CurrentRunsKept ==
  \A w \in WorkspaceIDs :
    Live(w)' = Live(w) /\ workspaces'[w].currentRun = workspaces[w].currentRun

ContentKept ==
  \A w \in WorkspaceIDs :
    workspaces'[w].value = workspaces[w].value /\ workspaces'[w].template = workspaces[w].template

LEMMA SameContent == UNCHANGED workspaces => CurrentRunsKept /\ ContentKept
BY DEF CurrentRunsKept, ContentKept, Live

LEMMA RunFactsKept ==
  ASSUME IInv, RunFacts, UNCHANGED runs, CurrentRunsKept,
         pc # "recordRun", pc' # "recordRun",
         \/ /\ cr'.status.runID = cr.status.runID
            /\ isPending(cr'.status.runStatus) = isPending(cr.status.runStatus)
         \/ NoRunPending,
         local'.toCancel = {},
         pc' = "CheckWorkspace" => local'.run = None,
         pc' \in {"recordWorkspaceID", "recordRunID"} => FoundRun',
         pc' = "recordRunStatus" /\ ~isPending(local'.runStatus) => NoRunPending
  PROVE  RunFacts'
<1>1. \A r \in RunIDs : isPending(runs[r].status) => runs[r].workspace \in WorkspaceIDs
  BY PendingRun
<1> QED BY <1>1 DEF RunFacts, CurrentRunsKept, NoRunPending

LEMMA StartedFactsKept ==
  ASSUME StartedFacts, CurrentRunsKept, ContentKept, UNCHANGED <<runs, configMap>>,
         cr'.spec.vcs = cr.spec.vcs, Started' => Started,
         Started' => ReasonAtHand' \/ \A w \in WorkspaceIDs : Live(w) => Executed(w)
  PROVE  StartedFacts'
<1>1. ASSUME NEW w \in WorkspaceIDs, Executed(w) PROVE Executed(w)'
  BY <1>1 DEF Executed, CurrentRunsKept, ContentKept
<1> QED BY <1>1 DEF StartedFacts, CurrentRunsKept, ContentKept

\* Before the comparisons, and when the reconcile ends without a reason.
LEMMA Elsewhere ==
  ASSUME IInv, FencedInv, ActiveFacts,
         UNCHANGED <<runs, configVersions, configMap>>, CurrentRunsKept, ContentKept,
         cr'.spec.vcs = cr.spec.vcs, cr'.status.configVersionID = cr.status.configVersionID,
         cr'.status.runID # None => cr.status.runID # None,
         \/ /\ cr'.status.runID = cr.status.runID
            /\ isPending(cr'.status.runStatus) = isPending(cr.status.runStatus)
         \/ NoRunPending,
         pc \notin {"recordConfigVersion", "readConfigVersion", "resetConfigVersion", "recordRun"},
         pc' \notin windowSteps,
         pc \in windowSteps /\ cr.status.runID # None =>
           \A w \in WorkspaceIDs : Live(w) => Executed(w),
         local'.toCancel = {},
         pc' = "CheckWorkspace" => local'.run = None,
         pc' \in {"recordWorkspaceID", "recordRunID"} => FoundRun',
         pc' = "recordRunStatus" /\ ~isPending(local'.runStatus) => NoRunPending
  PROVE  ActiveFacts'
<1>1. RunFacts'
  BY RunFactsKept DEF ActiveFacts, windowSteps, startSteps
<1>2. VersionFacts'
  BY DEF ActiveFacts, VersionFacts, windowSteps, startSteps, moduleSteps
<1>3. TemplateFacts'
  BY DEF TemplateFacts, windowSteps, startSteps, moduleSteps
<1>4. pc' # "recordRun" /\ (Started' => Started)
  BY DEF Started, windowSteps, startSteps
<1>5. Started /\ pc \notin windowSteps => ~ReasonAtHand
  BY DEF FencedInv, StartFacts, ReasonAtHand, windowSteps
<1>6. Started' => \A w \in WorkspaceIDs : Live(w) => Executed(w)
  BY <1>4, <1>5 DEF ActiveFacts, StartedFacts, Started
<1>7. StartedFacts'
  BY <1>4, <1>6, StartedFactsKept DEF ActiveFacts, StartedFacts
<1> QED BY <1>1, <1>2, <1>3, <1>7 DEF ActiveFacts

(***************************************************************************)
(* The steps before the comparisons.                                       *)
(***************************************************************************)
\* What holds in every state of an active Workspace.
Known == IInv /\ HeldInv /\ FencedInv /\ ExecutedInv /\ cr.phase = "active"

\* What a reconcile of an active Workspace knows when it has looked at its ID.
LEMMA KnownFacts ==
  ASSUME Known
  PROVE  /\ IInv /\ HeldInv /\ FencedInv /\ ExecutedInv /\ cr.phase = "active"
         /\ ActiveFacts /\ local \in Locals /\ local.toCancel = {}
         /\ cr \in Object /\ cr.status \in WorkspaceStatus /\ cr.spec \in WorkspaceSpec
         /\ workspaces \in [WorkspaceIDs -> Workspace]
         /\ pc # "idle" => /\ fresh /\ instance = cr /\ status = cr.status /\ spec = cr.spec
                           /\ pc \notin deleteSteps
         /\ pc \notin {"idle", "CheckWorkspace", "recordWorkspaceID"} =>
              /\ cr.status.workspaceID \in WorkspaceIDs
              /\ \A w \in WorkspaceIDs : Live(w) => w = cr.status.workspaceID
<1>1. IInv /\ HeldInv /\ FencedInv /\ ExecutedInv /\ cr.phase = "active"
  BY DEF Known
<1>2. ActiveFacts /\ local.toCancel = {}
  BY <1>1 DEF ExecutedInv, ActiveFacts, RunFacts
<1>3. /\ local \in Locals /\ cr \in Object /\ workspaces \in [WorkspaceIDs -> Workspace]
  BY <1>1 DEF IInv, CloudInv, TerraformCloudTypeOK, ObjectsInv, KubernetesApiTypeOK,
     OperatorInv, OperatorTypeOK
<1>4. cr.status \in WorkspaceStatus /\ cr.spec \in WorkspaceSpec
  BY <1>3, KubernetesApiAssumption DEF Object
<1> QED BY <1>1, <1>2, <1>3, <1>4, ActiveCopy, RecordedWorkspace

\* No workspace is live, or only the one that the spec names.
LEMMA NamedWorkspace ==
  ASSUME HeldInv
  PROVE  /\ WorkspacesNamed(cr.spec.organization) = {w \in WorkspaceIDs : Live(w)}
         /\ \A v, w \in WorkspaceIDs : Live(v) /\ Live(w) => v = w
BY DEF HeldInv, OneWorkspace, WorkspacesNamed, Live

LEMMA InitExecuted == Init => ExecutedInv
<1> SUFFICES ASSUME Init PROVE ExecutedInv
  OBVIOUS
<1>1. /\ cr.status = BlankStatus /\ pc = "idle" /\ local = NoLocals
      /\ workspaces = [w \in WorkspaceIDs |-> NoWorkspace] /\ runs = [r \in RunIDs |-> NoRun]
      /\ configVersions = [c \in ConfigVersionIDs |-> NoConfigVersion]
  BY DEF Init, KubernetesApiInit, TerraformCloudInit
<1>0. /\ BlankStatus.configVersionID = None /\ BlankStatus.runID = None
      /\ NoConfigVersion.status = "" /\ NoRun.status = "" /\ NoWorkspace.currentRun = None
      /\ NoLocals.toCancel = {}
  BY DEF BlankStatus, NoConfigVersion, NoRun, NoWorkspace, NoLocals
<1>2. RunFacts
  BY <1>0, <1>1 DEF RunFacts, isPending, PendingStatuses
<1>3. VersionFacts
  BY <1>0, <1>1 DEF VersionFacts
<1>4. TemplateFacts /\ StartedFacts
  BY <1>0, <1>1 DEF TemplateFacts, StartedFacts, Started, windowSteps, startSteps,
     moduleSteps
<1> QED BY <1>1, <1>2, <1>3, <1>4 DEF ExecutedInv, ActiveFacts

LEMMA InitializeExecuted ==
  ASSUME Punctual, Known, InitializeReconciliation
  PROVE  ExecutedInv'
<1>1. /\ cacheFresh /\ cached = cr /\ pc = "idle" /\ local = NoLocals
      /\ UNCHANGED <<local, tfcVars, kubeVars>> /\ fresh' = cacheFresh
  BY DEF Punctual, InitializeReconciliation, Known, IInv, ObjectsInv, FencedInv, StartFacts
<1>0. NoLocals.toCancel = {} /\ NoLocals.run = None
  BY DEF NoLocals
<1>2. pc' = "CheckWorkspace" /\ local'.toCancel = {} /\ local'.run = None
  BY <1>0, <1>1 DEF InitializeReconciliation, Known
<1>3. ActiveFacts'
  BY <1>1, <1>2, Elsewhere, SameContent, KnownFacts DEF tfcVars, kubeVars, windowSteps,
     startSteps, moduleSteps
<1> QED BY <1>1, <1>3 DEF ExecutedInv

\* The reconcile ends early.
LEMMA EndsExecuted ==
  ASSUME Known, UNCHANGED <<runs, configVersions, configMap, cr>>, CurrentRunsKept,
         ContentKept, pc' = "idle", local' = NoLocals,
         pc \notin {"recordConfigVersion", "readConfigVersion", "resetConfigVersion", "recordRun"},
         pc \in windowSteps /\ cr.status.runID # None =>
           \A w \in WorkspaceIDs : Live(w) => Executed(w)
  PROVE  ExecutedInv'
<1>1. local'.toCancel = {} /\ pc' \notin windowSteps
  BY DEF NoLocals, windowSteps, startSteps, moduleSteps
<1>2. ActiveFacts'
  BY <1>1, Elsewhere, KnownFacts
<1> QED BY <1>2 DEF ExecutedInv

LEMMA CheckWorkspaceExecuted ==
  ASSUME Known, CheckWorkspace
  PROVE  ExecutedInv'
<1>0. /\ pc = "CheckWorkspace" /\ UNCHANGED <<kubeVars, runs, configVersions, outOfBand>>
      /\ local.run = None
  BY KnownFacts DEF CheckWorkspace, ActiveFacts, RunFacts
<1>1. /\ IInv /\ FencedInv /\ ActiveFacts /\ local \in Locals /\ local.toCancel = {}
      /\ fresh /\ spec = cr.spec
      /\ workspaces \in [WorkspaceIDs -> Workspace]
  BY <1>0, KnownFacts
<1>2. /\ WorkspacesNamed(spec.organization) = {w \in WorkspaceIDs : Live(w)}
      /\ \A v, w \in WorkspaceIDs : Live(v) /\ Live(w) => v = w
  BY <1>1, NamedWorkspace DEF Known
<1>3. CASE Return /\ UNCHANGED workspaces
  BY <1>0, <1>3, EndsExecuted, SameContent DEF Return, kubeVars, windowSteps, startSteps,
     moduleSteps
<1>4. ASSUME NEW w \in WorkspacesNamed(spec.organization), UNCHANGED workspaces,
             local' = [local EXCEPT !.workspace = w, !.run = workspaces[w].currentRun],
             Goto("recordWorkspaceID")
      PROVE  ExecutedInv'
  <2>1. local'.toCancel = {} /\ local'.run = workspaces[w].currentRun
    BY <1>1, <1>4 DEF Locals
  <2>2. FoundRun'
    BY <1>2, <1>4, <2>1 DEF FoundRun, Live
  <2>3. pc' \notin windowSteps /\ pc' = "recordWorkspaceID" /\ pc \notin windowSteps
    BY <1>0, <1>4 DEF Goto, windowSteps, startSteps, moduleSteps
  <2>4. ActiveFacts'
    BY <1>0, <1>1, <1>4, <2>1, <2>2, <2>3, Elsewhere, SameContent DEF kubeVars
  <2> QED BY <1>1, <1>4, <2>4 DEF ExecutedInv, Goto
<1>5. ASSUME WorkspacesNamed(spec.organization) = {}, NEW w \in FreeWorkspaces,
             CreateWorkspace(w, spec.organization, spec.vcs),
             local' = [local EXCEPT !.workspace = w], Goto("recordWorkspaceID")
      PROVE  ExecutedInv'
  <2>1. \A v \in WorkspaceIDs : ~Live(v)
    BY <1>2, <1>5
  <2>2. NoRunPending /\ NoRunPending'
    BY <1>0, <2>1 DEF NoRunPending, Known, HeldInv, RunsInv
  <2>3. ~Started /\ ~Started'
    BY <1>0, <1>1, <1>5, <2>1 DEF ActiveFacts, StartedFacts, Started, Goto, kubeVars
  <2>4. local'.toCancel = {} /\ local'.run = None /\ pc' = "recordWorkspaceID"
    BY <1>0, <1>1, <1>5 DEF Locals, Goto
  <2>5. \A v \in WorkspaceIDs : ~Live(v)' => workspaces'[v].currentRun = None
    BY <1>1, <1>5, <2>1 DEF CreateWorkspace, NoWorkspace, Live, ActiveFacts, RunFacts
  <2>6. RunFacts'
    BY <2>2, <2>4, <2>5 DEF RunFacts, NoRunPending, FoundRun
  <2>7. VersionFacts' /\ TemplateFacts'
    BY <1>0, <1>1, <2>4 DEF ActiveFacts, VersionFacts, TemplateFacts, windowSteps, startSteps,
       moduleSteps, kubeVars
  <2>8. StartedFacts'
    BY <2>3 DEF StartedFacts
  <2> QED BY <1>1, <1>5, <2>6, <2>7, <2>8 DEF ExecutedInv, ActiveFacts, Goto
<1> QED BY <1>3, <1>4, <1>5 DEF CheckWorkspace

\* Before the comparisons only the status changes.
LEMMA BeforeExecuted ==
  ASSUME Known, UNCHANGED <<workspaces, runs, configVersions, configMap>>,
         pc \notin windowSteps, pc' \notin windowSteps \cup {"CheckWorkspace"},
         fresh' \/ pc' = "idle",
         cr'.spec.vcs = cr.spec.vcs, cr'.status.configVersionID = cr.status.configVersionID,
         cr'.status.runID # None => cr.status.runID # None,
         \/ /\ cr'.status.runID = cr.status.runID
            /\ isPending(cr'.status.runStatus) = isPending(cr.status.runStatus)
         \/ NoRunPending,
         local'.toCancel = {},
         pc' \in {"recordWorkspaceID", "recordRunID"} => FoundRun',
         pc' = "recordRunStatus" /\ ~isPending(local'.runStatus) => NoRunPending
  PROVE  ExecutedInv'
<1>1. /\ pc \notin {"recordConfigVersion", "readConfigVersion", "resetConfigVersion", "recordRun"}
      /\ pc' # "CheckWorkspace"
  BY DEF windowSteps, startSteps, moduleSteps
<1>2. ActiveFacts'
  BY <1>1, Elsewhere, SameContent, KnownFacts
<1> QED BY <1>2 DEF ExecutedInv

\* A write of the status succeeds.
LEMMA KnownUpdate ==
  ASSUME Known, pc # "idle", NEW s, NEW step, Update(WithStatus(s), step)
  PROVE  /\ cr'.status = s /\ cr'.spec = cr.spec /\ cr'.phase = cr.phase /\ fresh'
         /\ pc' = step /\ UNCHANGED local
<1>1. /\ fresh /\ IInv /\ cr \in Object
  BY KnownFacts
<1>2. /\ WriteObject(WithStatus(s)) /\ pc' = step /\ UNCHANGED <<fresh, local>>
  BY <1>1 DEF Update
<1>3. cr'.status = s /\ cr'.spec = cr.spec
  BY <1>1, <1>2, WrittenStatus
<1>4. cr'.phase = cr.phase
  BY <1>1, <1>2 DEF WriteObject, WithStatus, Object
<1> QED BY <1>1, <1>2, <1>3, <1>4

\* An unfinished run is the one that a reconcile has found and recorded.
LEMMA PendingIsCurrent ==
  ASSUME Known, NEW r \in RunIDs, isPending(runs[r].status), pc # "recordRun"
  PROVE  /\ r = cr.status.runID /\ isPending(cr.status.runStatus)
         /\ runs[r].workspace \in WorkspaceIDs /\ Live(runs[r].workspace)
         /\ r = workspaces[runs[r].workspace].currentRun
BY KnownFacts DEF ActiveFacts, RunFacts, HeldInv, RunsInv

LEMMA RecordWorkspaceIDExecuted ==
  ASSUME Known, RecordWorkspaceID
  PROVE  ExecutedInv'
<1>0. /\ pc = "recordWorkspaceID" /\ UNCHANGED <<tfcVars, unchangedObjects>>
      /\ fresh /\ status = cr.status /\ cr.status \in WorkspaceStatus /\ local \in Locals
      /\ FoundRun /\ local.toCancel = {} /\ IInv
  BY KnownFacts DEF RecordWorkspaceID, ActiveFacts, RunFacts
<1>1. /\ pc' = "recordRunID" /\ fresh' /\ local'.run = local.run /\ local'.toCancel = {}
      /\ cr'.spec = cr.spec
      /\ cr'.status.runID = cr.status.runID /\ cr'.status.runStatus = cr.status.runStatus
      /\ cr'.status.configVersionID = cr.status.configVersionID
  <2>1. CASE Goto("recordRunID") /\ UNCHANGED <<cr, cached, cacheFresh, local>>
    BY <1>0, <2>1 DEF Goto
  <2>2. CASE /\ instance' = WithStatus([status EXCEPT !.workspaceID = local.workspace,
                                                      !.outputs = None])
             /\ WriteObject(instance') /\ local' = [local EXCEPT !.outputsReset = TRUE]
             /\ pc' = "recordRunID" /\ UNCHANGED <<fresh, aborts>>
    <3> DEFINE s == [status EXCEPT !.workspaceID = local.workspace, !.outputs = None]
    <3>1. /\ s.runID = cr.status.runID /\ s.runStatus = cr.status.runStatus
          /\ s.configVersionID = cr.status.configVersionID /\ WriteObject(WithStatus(s))
      BY <1>0, <2>2 DEF WorkspaceStatus
    <3>2. local'.run = local.run /\ local'.toCancel = {}
      BY <1>0, <2>2 DEF Locals
    <3> HIDE DEF s
    <3>3. cr'.status = s /\ cr'.spec = cr.spec
      BY <1>0, <3>1, WrittenStatus
    <3> QED BY <1>0, <2>2, <3>1, <3>2, <3>3
  <2> QED BY <1>0, <2>1, <2>2 DEF RecordWorkspaceID
<1>2. FoundRun'
  BY <1>0, <1>1 DEF FoundRun, tfcVars, Live
<1> QED
  BY <1>0, <1>1, <1>2, BeforeExecuted DEF tfcVars, unchangedObjects, windowSteps, startSteps,
     moduleSteps

LEMMA RecordRunIDExecuted ==
  ASSUME Known, RecordRunID
  PROVE  ExecutedInv'
<1>0. /\ pc = "recordRunID" /\ UNCHANGED <<tfcVars, unchangedObjects>>
      /\ fresh /\ status = cr.status /\ cr.status \in WorkspaceStatus
      /\ FoundRun /\ local.toCancel = {}
  BY KnownFacts DEF RecordRunID, ActiveFacts, RunFacts
<1>1. CASE Goto("addFinalizer") /\ UNCHANGED <<cr, cached, cacheFresh, local>>
  BY <1>0, <1>1, BeforeExecuted DEF Goto, tfcVars, unchangedObjects, windowSteps, startSteps,
     moduleSteps
<1>2. CASE /\ status.runID # None /\ local.run # None /\ status.runID # local.run
           /\ Update(WithStatus([status EXCEPT !.runID = local.run]), "addFinalizer")
  <2> DEFINE s == [status EXCEPT !.runID = local.run]
  <2>1. /\ s.runStatus = cr.status.runStatus /\ s.configVersionID = cr.status.configVersionID
        /\ Update(WithStatus(s), "addFinalizer")
    BY <1>0, <1>2 DEF WorkspaceStatus
  <2> HIDE DEF s
  <2>2. /\ cr'.status = s /\ cr'.spec = cr.spec /\ fresh' /\ pc' = "addFinalizer"
        /\ UNCHANGED local
    BY <1>0, <2>1, KnownUpdate
  <2>3. NoRunPending
    BY <1>0, <1>2, PendingIsCurrent DEF NoRunPending, FoundRun
  <2> QED
    BY <1>0, <1>2, <2>1, <2>2, <2>3, BeforeExecuted DEF tfcVars, unchangedObjects, windowSteps,
       startSteps, moduleSteps
<1> QED BY <1>1, <1>2 DEF RecordRunID

LEMMA AddFinalizerExecuted ==
  ASSUME Known, AddFinalizer
  PROVE  ExecutedInv'
<1>0. /\ pc = "addFinalizer" /\ UNCHANGED <<tfcVars, unchangedObjects>>
      /\ fresh /\ local.toCancel = {} /\ cr \in Object
  BY KnownFacts DEF AddFinalizer
<1>1. /\ pc' = "runInProgress" /\ fresh' /\ UNCHANGED local
      /\ cr'.status = cr.status /\ cr'.spec = cr.spec
  BY <1>0 DEF AddFinalizer, Goto, Update, WriteObject, WithFinalizer, Object
<1> QED
  BY <1>0, <1>1, BeforeExecuted DEF tfcVars, unchangedObjects, windowSteps, startSteps,
     moduleSteps

LEMMA RunInProgressExecuted ==
  ASSUME Known, RunInProgress
  PROVE  ExecutedInv'
<1>0. /\ pc = "runInProgress" /\ UNCHANGED <<tfcVars, kubeVars>>
      /\ fresh /\ status = cr.status /\ local \in Locals /\ local.toCancel = {}
  BY KnownFacts DEF RunInProgress
<1>1. CASE Return
  BY <1>0, <1>1, EndsExecuted, SameContent DEF Return, tfcVars, kubeVars, windowSteps,
     startSteps, moduleSteps
<1>2. CASE Goto("processFinishedRun") /\ UNCHANGED local
  BY <1>0, <1>2, BeforeExecuted DEF Goto, tfcVars, kubeVars, windowSteps, startSteps, moduleSteps
<1>3. CASE /\ local' = [local EXCEPT !.runStatus =
                          IF status.runID = None THEN "" ELSE runs[status.runID].status]
           /\ Goto("recordRunStatus")
  <2>1. /\ local'.toCancel = {}
        /\ local'.runStatus = IF status.runID = None THEN "" ELSE runs[status.runID].status
    BY <1>0, <1>3 DEF Locals
  <2>2. ASSUME ~isPending(local'.runStatus), NEW r \in RunIDs, isPending(runs[r].status)
        PROVE  FALSE
    <3>1. r = status.runID /\ r # None
      BY <1>0, <2>2, PendingIsCurrent, TerraformCloudAssumption
    <3> QED BY <2>1, <2>2, <3>1
  <2> QED
    BY <1>0, <1>3, <2>1, <2>2, BeforeExecuted DEF Goto, NoRunPending, tfcVars, kubeVars,
       windowSteps, startSteps, moduleSteps
<1> QED BY <1>1, <1>2, <1>3 DEF RunInProgress

LEMMA RecordRunStatusExecuted ==
  ASSUME Known, RecordRunStatus
  PROVE  ExecutedInv'
<1>0. /\ pc = "recordRunStatus" /\ UNCHANGED <<tfcVars, unchangedObjects>> /\ Return
      /\ fresh /\ status = cr.status /\ cr.status \in WorkspaceStatus /\ IInv
      /\ isPending(cr.status.runStatus)
      /\ isPending(local.runStatus) \/ NoRunPending
  BY KnownFacts DEF RecordRunStatus, ActiveFacts, RunFacts, FencedInv, StartFacts
<1>1. CASE UNCHANGED cr
  BY <1>0, <1>1, EndsExecuted, SameContent DEF Return, tfcVars, unchangedObjects, windowSteps,
     startSteps, moduleSteps
<1>2. CASE WriteObject(WithStatus([status EXCEPT !.runStatus = local.runStatus]))
  <2> DEFINE s == [status EXCEPT !.runStatus = local.runStatus]
  <2>1. /\ s.runID = cr.status.runID /\ s.configVersionID = cr.status.configVersionID
        /\ s.runStatus = local.runStatus /\ WriteObject(WithStatus(s))
    BY <1>0, <1>2 DEF WorkspaceStatus
  <2> HIDE DEF s
  <2>2. cr'.status = s /\ cr'.spec = cr.spec
    BY <1>0, <2>1, WrittenStatus
  <2>3. pc' = "idle" /\ local'.toCancel = {}
    <3>1. NoLocals.toCancel = {}
      BY DEF NoLocals
    <3> QED BY <1>0, <3>1 DEF Return
  <2> QED
    BY <1>0, <2>1, <2>2, <2>3, BeforeExecuted DEF tfcVars, unchangedObjects, windowSteps,
       startSteps, moduleSteps
<1> QED BY <1>1, <1>2 DEF RecordRunStatus

LEMMA ProcessFinishedRunExecuted ==
  ASSUME Known, ProcessFinishedRun \/ RecordOutputs \/ UpsertSecretOutputs
  PROVE  ExecutedInv'
<1>0. /\ pc \in {"processFinishedRun", "recordOutputs", "UpsertSecretOutputs"}
      /\ UNCHANGED <<tfcVars, configMap>>
      /\ fresh /\ status = cr.status /\ cr.status \in WorkspaceStatus
      /\ local \in Locals /\ local.toCancel = {}
  BY KnownFacts DEF ProcessFinishedRun, RecordOutputs, UpsertSecretOutputs, kubeVars,
     unchangedObjects
<1>1. CASE Return /\ UNCHANGED cr
  BY <1>0, <1>1, EndsExecuted, SameContent DEF Return, tfcVars, windowSteps, startSteps,
     moduleSteps
<1>2. ASSUME NEW step \in {"updateTerraformTemplate", "recordOutputs", "UpsertSecretOutputs"},
             Goto(step), UNCHANGED cr, local'.toCancel = {}
      PROVE  ExecutedInv'
  BY <1>0, <1>2, BeforeExecuted DEF Goto, tfcVars, windowSteps, startSteps, moduleSteps
<1>3. CASE ProcessFinishedRun
  <2>1. \/ Return
        \/ /\ Goto("updateTerraformTemplate") \/ Goto("recordOutputs")
           /\ local'.toCancel = local.toCancel
    BY <1>0, <1>3 DEF ProcessFinishedRun, Locals
  <2> QED BY <1>0, <1>1, <1>2, <1>3, <2>1 DEF ProcessFinishedRun, kubeVars
<1>4. CASE RecordOutputs
  <2>1. CASE Goto("UpsertSecretOutputs") /\ UNCHANGED <<cr, cached, cacheFresh, local>>
    BY <1>0, <1>2, <2>1
  <2>2. CASE Update(WithStatus([status EXCEPT !.outputs = local.outputs]), "UpsertSecretOutputs")
    <3> DEFINE s == [status EXCEPT !.outputs = local.outputs]
    <3>1. /\ s.runID = cr.status.runID /\ s.configVersionID = cr.status.configVersionID
          /\ s.runStatus = cr.status.runStatus /\ Update(WithStatus(s), "UpsertSecretOutputs")
      BY <1>0, <2>2 DEF WorkspaceStatus
    <3> HIDE DEF s
    <3>2. /\ cr'.status = s /\ cr'.spec = cr.spec /\ fresh' /\ pc' = "UpsertSecretOutputs"
          /\ UNCHANGED local
      BY <1>0, <3>1, KnownUpdate
    <3> QED
      BY <1>0, <3>1, <3>2, BeforeExecuted DEF tfcVars, windowSteps, startSteps, moduleSteps
  <2> QED BY <1>4, <2>1, <2>2 DEF RecordOutputs
<1>5. CASE UpsertSecretOutputs
  BY <1>0, <1>2, <1>5 DEF UpsertSecretOutputs
<1> QED BY <1>3, <1>4, <1>5

(***************************************************************************)
(* The comparisons.                                                        *)
(***************************************************************************)
LEMMA UpdateTerraformTemplateExecuted ==
  ASSUME Punctual, Known, UpdateTerraformTemplate
  PROVE  ExecutedInv'
<1>0. /\ pc = "updateTerraformTemplate"
      /\ UNCHANGED <<tfcVars, cr, cached, cacheFresh, cachedConfigMap, secret, edits>>
      /\ fresh /\ spec = cr.spec /\ local \in Locals /\ local.toCancel = {}
      /\ cachedConfigMap = configMap /\ IInv /\ ActiveFacts /\ FencedInv
  BY KnownFacts DEF UpdateTerraformTemplate, Punctual
<1>1. /\ pc' = "updateVariables" /\ UNCHANGED fresh
      /\ local' \in {local, [local EXCEPT !.updated = TRUE]}
      /\ ~cr.spec.vcs => configMap' = cr.spec.template
      /\ cr.spec.vcs => UNCHANGED configMap
      /\ UNCHANGED configMap \/ local' = [local EXCEPT !.updated = TRUE]
  BY <1>0 DEF UpdateTerraformTemplate, UpsertTerraformConfig, Goto
<1>2. local'.toCancel = {} /\ (UNCHANGED configMap \/ local'.updated)
  BY <1>0, <1>1 DEF Locals
<1>3. CurrentRunsKept /\ ContentKept /\ UNCHANGED <<runs, configVersions>>
  BY <1>0, SameContent DEF tfcVars
<1>4. RunFacts'
  BY <1>0, <1>1, <1>2, <1>3, RunFactsKept DEF ActiveFacts
<1>5. VersionFacts' /\ TemplateFacts'
  BY <1>0, <1>1, <1>3 DEF ActiveFacts, VersionFacts, TemplateFacts
<1>6. Started' => Started
  BY <1>0, <1>1 DEF Started
<1>7. ~ReasonAtHand
  BY <1>0 DEF FencedInv, StartFacts, ReasonAtHand, startSteps, moduleSteps
<1>8. StartedFacts'
  <2>1. CASE UNCHANGED configMap
    BY <1>0, <1>3, <1>6, <1>7, <2>1, StartedFactsKept DEF ActiveFacts, StartedFacts
  <2>2. CASE local'.updated
    BY <1>0, <1>1, <1>3, <1>6, <2>2 DEF ActiveFacts, StartedFacts, ReasonAtHand, CurrentRunsKept,
       ContentKept
  <2> QED BY <1>2, <2>1, <2>2
<1> QED BY <1>0, <1>1, <1>4, <1>5, <1>8 DEF ExecutedInv, ActiveFacts

\* The workspace that a comparison looks at is the live one.
LEMMA KnownComparison ==
  ASSUME Known, pc \in compareSteps, NEW w \in WorkspacesNamed(spec.organization)
  PROVE  /\ w \in WorkspaceIDs /\ Live(w) /\ workspaces[w] \in Workspace
         /\ workspaces \in [WorkspaceIDs -> Workspace]
         /\ \A v \in WorkspaceIDs : Live(v) => v = w
BY ComparedWorkspace, KnownFacts

\* Without a workspace there has been no run.
LEMMA NoneStarted ==
  ASSUME Known, pc # "idle", WorkspacesNamed(spec.organization) = {}
  PROVE  ~Started
<1>1. spec = cr.spec /\ HeldInv /\ ActiveFacts
  BY KnownFacts
<1>2. \A w \in WorkspaceIDs : ~Live(w)
  BY <1>1, NamedWorkspace
<1> QED BY <1>1, <1>2 DEF ActiveFacts, StartedFacts

LEMMA UpdateVariablesExecuted ==
  ASSUME Known, UpdateVariables
  PROVE  ExecutedInv'
<1>0. /\ pc = "updateVariables" /\ UNCHANGED <<kubeVars, runs, configVersions, outOfBand>>
      /\ fresh /\ spec = cr.spec /\ local \in Locals /\ local.toCancel = {}
      /\ IInv /\ ActiveFacts
  BY KnownFacts DEF UpdateVariables
<1>1. CASE WorkspacesNamed(spec.organization) = {} /\ Return /\ UNCHANGED workspaces
  <2>1. cr.status.runID = None
    BY <1>0, <1>1, NoneStarted DEF Started
  <2> QED BY <1>0, <1>1, <2>1, EndsExecuted, SameContent DEF Return, kubeVars
<1>2. ASSUME NEW w \in WorkspacesNamed(spec.organization),
             workspaces' = [workspaces EXCEPT ![w].value = spec.value],
             local' = [local EXCEPT !.updated =
                         @ \/ workspaces[w].value \notin {None, spec.value}],
             Goto("updateRunTriggers")
      PROVE  ExecutedInv'
  <2>1. /\ w \in WorkspaceIDs /\ Live(w) /\ workspaces[w] \in Workspace
        /\ workspaces \in [WorkspaceIDs -> Workspace]
        /\ \A v \in WorkspaceIDs : Live(v) => v = w
    BY <1>0, KnownComparison DEF compareSteps
  <2>2. /\ \A v \in WorkspaceIDs \ {w} : workspaces'[v] = workspaces[v]
        /\ workspaces'[w].live = workspaces[w].live
        /\ workspaces'[w].currentRun = workspaces[w].currentRun
        /\ workspaces'[w].template = workspaces[w].template
        /\ workspaces'[w].value = spec.value
    BY <1>2, <2>1 DEF Workspace
  <2>3. CurrentRunsKept
    BY <2>2 DEF CurrentRunsKept, Live
  <2>4. /\ local'.toCancel = {} /\ pc' = "updateRunTriggers"
        /\ local'.updated = (local.updated \/ workspaces[w].value \notin {None, spec.value})
    BY <1>0, <1>2 DEF Locals, Goto
  <2>5. RunFacts'
    BY <1>0, <2>3, <2>4, RunFactsKept DEF ActiveFacts, kubeVars
  <2>6. VersionFacts' /\ TemplateFacts'
    BY <1>0, <2>4 DEF ActiveFacts, VersionFacts, TemplateFacts, kubeVars, windowSteps
  <2>7. Started' => Started
    BY <1>0, <2>4 DEF Started, kubeVars
  <2>8. ASSUME Started PROVE Executed(w)' \/ ReasonAtHand'
    <3>1. CASE local.updated
      BY <2>4, <3>1 DEF ReasonAtHand
    <3>2. CASE ~local.updated
      <4>1. Executed(w)
        BY <1>0, <2>1, <2>8, <3>2
           DEF ActiveFacts, StartedFacts, ReasonAtHand, startSteps, moduleSteps
      <4>2. CASE workspaces[w].value = spec.value
        BY <1>0, <2>2, <4>1, <4>2 DEF Executed, kubeVars
      <4>3. CASE workspaces[w].value # spec.value
        BY <2>4, <4>1, <4>3 DEF Executed, ReasonAtHand
      <4> QED BY <4>2, <4>3
    <3> QED BY <3>1, <3>2
  <2>9. StartedFacts'
    BY <1>0, <2>1, <2>2, <2>3, <2>7, <2>8 DEF ActiveFacts, StartedFacts, CurrentRunsKept
  <2> QED BY <1>0, <1>2, <2>5, <2>6, <2>9 DEF ExecutedInv, ActiveFacts, Goto
<1> QED BY <1>1, <1>2 DEF UpdateVariables

LEMMA TriggerContent ==
  ASSUME NEW w, NEW t, workspaces \in [WorkspaceIDs -> Workspace],
         workspaces' = [workspaces EXCEPT ![w].trigger = t]
  PROVE  CurrentRunsKept /\ ContentKept
<1>1. \A v \in WorkspaceIDs : workspaces[v] \in Workspace
  OBVIOUS
<1>2. \A v \in WorkspaceIDs :
        /\ workspaces'[v].live = workspaces[v].live
        /\ workspaces'[v].currentRun = workspaces[v].currentRun
        /\ workspaces'[v].value = workspaces[v].value
        /\ workspaces'[v].template = workspaces[v].template
  BY <1>1 DEF Workspace
<1> QED BY <1>2 DEF CurrentRunsKept, ContentKept, Live

\* When the comparisons find no reason, the current run has all that was written.
LEMMA NoReason ==
  ASSUME Known, pc = "updateRunTriggers", ~local.updated, cr.status.runID # None
  PROVE  \A w \in WorkspaceIDs : Live(w) => Executed(w)
BY KnownFacts DEF ActiveFacts, StartedFacts, Started, ReasonAtHand, startSteps, moduleSteps

LEMMA UpdateRunTriggersExecuted ==
  ASSUME Known, UpdateRunTriggers
  PROVE  ExecutedInv'
<1>0. /\ pc = "updateRunTriggers" /\ UNCHANGED <<kubeVars, runs, configVersions, outOfBand>>
      /\ fresh /\ spec = cr.spec /\ status = cr.status
      /\ local \in Locals /\ local.toCancel = {}
      /\ IInv /\ ActiveFacts /\ workspaces \in [WorkspaceIDs -> Workspace]
  BY KnownFacts DEF UpdateRunTriggers
<1>1. CASE WorkspacesNamed(spec.organization) = {} /\ Return /\ UNCHANGED workspaces
  <2>1. cr.status.runID = None
    BY <1>0, <1>1, NoneStarted DEF Started
  <2> QED BY <1>0, <1>1, <2>1, EndsExecuted, SameContent DEF Return, kubeVars
<1>2. ASSUME NEW w \in WorkspacesNamed(spec.organization), NEW trigger,
             workspaces' = [workspaces EXCEPT ![w].trigger = trigger],
             NEW updated,
             updated = (local.updated \/ spec.trigger \notin {None, workspaces[w].trigger}),
             IF StartCondition(updated)
               THEN /\ local' = [local EXCEPT !.updated = updated]
                    /\ Goto("startRun")
               ELSE Return
      PROVE  ExecutedInv'
  <2>1. CurrentRunsKept /\ ContentKept
    BY <1>0, <1>2, TriggerContent
  <2>2. CASE ~StartCondition(updated)
    <3>1. ~local.updated /\ cr.status.runID # None
      BY <1>0, <1>2, <2>2 DEF StartCondition
    <3>2. \A v \in WorkspaceIDs : Live(v) => Executed(v)
      BY <1>0, <3>1, NoReason
    <3> QED BY <1>0, <1>2, <2>1, <2>2, <3>2, EndsExecuted DEF Return, kubeVars
  <2>3. CASE StartCondition(updated)
    <3>1. local'.toCancel = {} /\ pc' = "startRun" /\ UNCHANGED fresh
      BY <1>0, <1>2, <2>3 DEF Locals, Goto
    <3>2. RunFacts'
      BY <1>0, <2>1, <3>1, RunFactsKept DEF ActiveFacts, kubeVars
    <3>3. VersionFacts' /\ TemplateFacts'
      BY <1>0, <3>1 DEF ActiveFacts, VersionFacts, TemplateFacts, kubeVars, windowSteps
    <3>4. (Started' => Started) /\ ReasonAtHand'
      BY <1>0, <3>1 DEF Started, ReasonAtHand, startSteps, kubeVars
    <3>5. StartedFacts'
      BY <1>0, <2>1, <3>4, StartedFactsKept DEF ActiveFacts, kubeVars
    <3> QED BY <1>0, <3>1, <3>2, <3>3, <3>5 DEF ExecutedInv, ActiveFacts
  <2> QED BY <2>2, <2>3
<1> QED BY <1>1, <1>2 DEF UpdateRunTriggers

(***************************************************************************)
(* The start of the run.                                                   *)
(***************************************************************************)
\* What a reconcile on its way to a run knows.
LEMMA StartKnown ==
  ASSUME Known, pc \in startSteps
  PROVE  /\ fresh /\ spec = cr.spec /\ status = cr.status /\ instance = cr
         /\ local \in Locals /\ local.toCancel = {} /\ IInv /\ ActiveFacts
         /\ cr.status \in WorkspaceStatus /\ cr.status.workspaceID \in WorkspaceIDs
         /\ cr.spec.template \in Templates /\ cr.spec.value \in Values
         /\ \A w \in WorkspaceIDs : Live(w) => w = cr.status.workspaceID
         /\ pc \in moduleSteps => ~cr.spec.vcs
         /\ ~isPending(cr.status.runStatus) /\ (pc # "recordRun" => NoRunPending)
         /\ Started => /\ Live(cr.status.workspaceID)
                       /\ workspaces[cr.status.workspaceID].template # None
<1>1. pc \notin {"idle", "CheckWorkspace", "recordWorkspaceID"}
  BY DEF startSteps, moduleSteps
<1>2. /\ fresh /\ spec = cr.spec /\ status = cr.status /\ instance = cr
      /\ local \in Locals /\ local.toCancel = {} /\ IInv /\ ActiveFacts /\ FencedInv
      /\ cr.status \in WorkspaceStatus /\ cr.status.workspaceID \in WorkspaceIDs
      /\ cr.spec \in WorkspaceSpec
      /\ \A w \in WorkspaceIDs : Live(w) => w = cr.status.workspaceID
  BY <1>1, KnownFacts
<1>3. ~isPending(cr.status.runStatus) /\ (pc \in moduleSteps => ~cr.spec.vcs)
  BY <1>2 DEF FencedInv, StartFacts, finishedSteps
<1>4. pc # "recordRun" => NoRunPending
  BY <1>3, PendingIsCurrent DEF NoRunPending
<1>5. Started => /\ Live(cr.status.workspaceID)
                 /\ workspaces[cr.status.workspaceID].template # None
  BY <1>2 DEF ActiveFacts, StartedFacts
<1> QED BY <1>2, <1>3, <1>4, <1>5 DEF WorkspaceSpec

\* A reconcile that gives up before the first run.
LEMMA GivesUp ==
  ASSUME Known, UNCHANGED <<workspaces, runs, configVersions, configMap, cr>>, Return,
         pc \in {"startRun", "CreateConfigurationVersion", "createRun"},
         ~Started
  PROVE  ExecutedInv'
BY EndsExecuted, SameContent DEF Return, Started

\* It goes on to the next step.
LEMMA OnTheWay ==
  ASSUME Known, pc \in startSteps, pc' \in startSteps \ {"recordRun"},
         pc # "recordRun", UNCHANGED <<workspaces, runs, configMap>>, fresh',
         cr'.spec = cr.spec, cr'.status.runID = cr.status.runID,
         cr'.status.runStatus = cr.status.runStatus,
         cr'.status.workspaceID = cr.status.workspaceID, local'.toCancel = {},
         VersionFacts',
         ~cr.spec.vcs =>
           /\ pc' \in {"CreateConfigurationVersion", "UploadConfigurationFile"} =>
                local'.template = cr.spec.template
           /\ pc' = "createRun" => workspaces[cr.status.workspaceID].template = cr.spec.template
  PROVE  ExecutedInv'
<1>1. IInv /\ ActiveFacts
  BY StartKnown
<1>2. pc' \notin {"CheckWorkspace", "recordWorkspaceID", "recordRunID", "recordRunStatus"}
  BY DEF startSteps, moduleSteps
<1>3. RunFacts'
  BY <1>1, <1>2, SameContent, RunFactsKept DEF ActiveFacts
<1>4. TemplateFacts'
  BY <1>1 DEF ActiveFacts, TemplateFacts, windowSteps
<1>5. ReasonAtHand' /\ (Started' => Started)
  BY DEF ReasonAtHand, Started
<1>6. StartedFacts'
  BY <1>1, <1>5, SameContent, StartedFactsKept DEF ActiveFacts
<1> QED BY <1>1, <1>3, <1>4, <1>6 DEF ExecutedInv, ActiveFacts

LEMMA StartRunExecuted ==
  ASSUME Punctual, Known, StartRun
  PROVE  ExecutedInv'
<1>0. /\ pc = "startRun" /\ UNCHANGED <<tfcVars, kubeVars>>
      /\ cachedConfigMap = configMap /\ pc \in startSteps
  BY DEF StartRun, Punctual, startSteps
<1>1. /\ fresh /\ spec = cr.spec /\ status = cr.status
      /\ local \in Locals /\ local.toCancel = {} /\ ActiveFacts
      /\ cr.spec.template \in Templates
      /\ Started => /\ Live(cr.status.workspaceID)
                    /\ workspaces[cr.status.workspaceID].template # None
  BY <1>0, StartKnown
<1>2. CASE spec.vcs
  <2>1. CASE Goto("createRun") /\ UNCHANGED local
    <3>1. VersionFacts'
      BY <1>0, <1>1, <2>1 DEF ActiveFacts, VersionFacts, Goto, tfcVars, kubeVars
    <3> QED
      BY <1>0, <1>1, <1>2, <2>1, <3>1, OnTheWay DEF Goto, tfcVars, kubeVars, startSteps
  <2>2. CASE Return /\ ~(/\ workspaces[status.workspaceID].live
                         /\ workspaces[status.workspaceID].template # None)
    BY <1>0, <1>1, <2>2, GivesUp DEF Live, tfcVars, kubeVars
  <2> QED BY <1>2, <2>1, <2>2 DEF StartRun, prepareVCSRun
<1>3. CASE ~spec.vcs
  <2>1. cr.status.configVersionID = None /\ configMap = cr.spec.template /\ configMap # None
    BY <1>0, <1>1, <1>3, TerraformCloudAssumption
       DEF ActiveFacts, VersionFacts, TemplateFacts, windowSteps
  <2>2. /\ local' = [local EXCEPT !.template = cachedConfigMap]
        /\ Goto("CreateConfigurationVersion")
    BY <1>0, <1>1, <1>3, <2>1 DEF StartRun, prepareModuleRun
  <2>3. local'.toCancel = {} /\ local'.template = cr.spec.template
    BY <1>0, <1>1, <2>1, <2>2 DEF Locals
  <2>4. VersionFacts'
    BY <1>0, <1>1, <2>2 DEF ActiveFacts, VersionFacts, Goto, tfcVars, kubeVars
  <2> QED
    BY <1>0, <1>1, <2>2, <2>3, <2>4, OnTheWay DEF Goto, tfcVars, kubeVars, startSteps, moduleSteps
<1> QED BY <1>2, <1>3

LEMMA CreateConfigurationVersionExecuted ==
  ASSUME Punctual, Known, CreateConfigurationVersion
  PROVE  ExecutedInv'
<1>0. /\ pc = "CreateConfigurationVersion" /\ pc \in moduleSteps /\ pc \in startSteps
      /\ UNCHANGED <<kubeVars, workspaces, runs, outOfBand>>
  BY DEF CreateConfigurationVersion, startSteps, moduleSteps
<1>1. /\ fresh /\ spec = cr.spec /\ status = cr.status
      /\ local \in Locals /\ local.toCancel = {} /\ ActiveFacts /\ IInv
      /\ Started => Live(cr.status.workspaceID)
      /\ ~cr.spec.vcs
  BY <1>0, StartKnown
<1>2. cr.status.configVersionID = None /\ local.template = cr.spec.template
  BY <1>0, <1>1 DEF ActiveFacts, VersionFacts, TemplateFacts
<1>3. FreeConfigVersions # {}
  <2>1. /\ cached.status.configVersionID \in ConfigVersionIDs \cup {None}
        /\ local.configVersion \in ConfigVersionIDs \cup {None}
    BY <1>1 DEF Locals, IInv, ObjectsInv, KubernetesApiTypeOK, Object, WorkspaceStatus
  <2>2. PICK c \in ConfigVersionIDs :
          c \notin {cached.status.configVersionID, local.configVersion}
    BY <2>1 DEF Punctual, Plentiful
  <2>3. c # None
    BY TerraformCloudAssumption
  <2>4. ~(configVersions[c].status = "pending" /\ configVersions[c].template # None)
    BY <1>0, <1>1 DEF ActiveFacts, VersionFacts
  <2> QED BY <1>0, <1>1, <1>2, <2>2, <2>3, <2>4 DEF FreeConfigVersions, RememberedStatuses
<1>4. CASE Return /\ UNCHANGED configVersions /\ ~workspaces[status.workspaceID].live
  BY <1>0, <1>1, <1>4, GivesUp DEF Live, kubeVars
<1>5. ASSUME NEW c \in FreeConfigVersions, CreateConfigVersion(c, status.workspaceID),
             local' = [local EXCEPT !.configVersion = c], Goto("UploadConfigurationFile")
      PROVE  ExecutedInv'
  <2>1. /\ local'.toCancel = {} /\ local'.template = local.template
        /\ local'.configVersion = c /\ c \in ConfigVersionIDs
    BY <1>1, <1>5 DEF Locals, FreeConfigVersions
  <2>2. /\ \A d \in ConfigVersionIDs \ {c} : configVersions'[d] = configVersions[d]
        /\ configVersions'[c].status = "pending" /\ configVersions'[c].template = None
        /\ configVersions'[c].workspace = cr.status.workspaceID
    BY <1>1, <1>5, <2>1 DEF CreateConfigVersion, NoConfigVersion, IInv, CloudInv,
       TerraformCloudTypeOK
  <2>3. VersionFacts'
    BY <1>0, <1>1, <1>2, <1>5, <2>1, <2>2 DEF ActiveFacts, VersionFacts, Goto, kubeVars
  <2> QED
    BY <1>0, <1>1, <1>2, <1>5, <2>1, <2>3, OnTheWay DEF Goto, kubeVars, startSteps, moduleSteps
<1> QED BY <1>3, <1>4, <1>5 DEF CreateConfigurationVersion

LEMMA UploadConfigurationFileExecuted ==
  ASSUME Known, UploadConfigurationFile
  PROVE  ExecutedInv'
<1>0. /\ pc = "UploadConfigurationFile" /\ pc \in moduleSteps /\ pc \in startSteps
      /\ UNCHANGED <<kubeVars, workspaces, runs, outOfBand>>
  BY DEF UploadConfigurationFile, startSteps, moduleSteps
<1>1. /\ fresh /\ local \in Locals /\ local.toCancel = {} /\ ActiveFacts /\ IInv
      /\ ~cr.spec.vcs
  BY <1>0, StartKnown
<1> DEFINE c == local.configVersion
<1>2. /\ local.template = cr.spec.template /\ cr.status.configVersionID = None
      /\ c \in ConfigVersionIDs /\ configVersions[c].workspace = cr.status.workspaceID
      /\ configVersions[c].status = "pending"
  BY <1>0, <1>1 DEF ActiveFacts, VersionFacts, TemplateFacts
<1>3. UploadConfigVersion(c, local.template) /\ Goto("recordConfigVersion") /\ UNCHANGED local
  BY <1>0, <1>2 DEF UploadConfigurationFile
<1> HIDE DEF c
<1>4. \A d \in ConfigVersionIDs : configVersions[d] \in ConfigVersion
  BY <1>1 DEF IInv, CloudInv, TerraformCloudTypeOK
<1>5. /\ configVersions'[c].workspace = cr.status.workspaceID
      /\ configVersions'[c].status = "pending" /\ configVersions'[c].latest
      /\ configVersions'[c].template = cr.spec.template
  BY <1>2, <1>3, <1>4 DEF UploadConfigVersion, ConfigVersion
<1>6. \A d \in ConfigVersionIDs \ {c} :
        /\ configVersions'[d].status = configVersions[d].status
        /\ configVersions'[d].template = configVersions[d].template
  BY <1>2, <1>3, <1>4 DEF UploadConfigVersion, ConfigVersion
<1>7. Prepared(c)'
  BY <1>0, <1>2, <1>3, <1>5 DEF Prepared, kubeVars, c
<1>8. VersionFacts'
  BY <1>0, <1>1, <1>2, <1>3, <1>5, <1>6, <1>7 DEF ActiveFacts, VersionFacts, Goto, kubeVars, c
<1> QED
  BY <1>0, <1>1, <1>3, <1>8, OnTheWay DEF Goto, kubeVars, startSteps, moduleSteps

LEMMA ConfigVersionStepExecuted ==
  ASSUME Punctual, Known, RecordConfigVersion \/ ReadConfigVersion \/ ResetConfigVersion
  PROVE  ExecutedInv'
<1>0. /\ pc \in {"recordConfigVersion", "readConfigVersion", "resetConfigVersion"}
      /\ pc \in startSteps /\ UNCHANGED <<tfcVars, unchangedObjects>>
  BY DEF RecordConfigVersion, ReadConfigVersion, ResetConfigVersion, startSteps, moduleSteps,
     kubeVars, unchangedObjects
<1>1. /\ fresh /\ local.toCancel = {} /\ ActiveFacts /\ IInv /\ status = cr.status
      /\ cr.status \in WorkspaceStatus /\ cr.spec.template \in Templates
  BY <1>0, StartKnown
<1>2. ASSUME NEW c, NEW step, Update(WithStatus([status EXCEPT !.configVersionID = c]), step)
      PROVE  /\ cr'.spec = cr.spec /\ cr'.status.configVersionID = c
             /\ cr'.status.runID = cr.status.runID
             /\ cr'.status.runStatus = cr.status.runStatus
             /\ cr'.status.workspaceID = cr.status.workspaceID
             /\ pc' = step /\ fresh' /\ UNCHANGED local
  <2> DEFINE s == [status EXCEPT !.configVersionID = c]
  <2>1. /\ s.configVersionID = c /\ s.runID = cr.status.runID
        /\ s.runStatus = cr.status.runStatus /\ s.workspaceID = cr.status.workspaceID
        /\ Update(WithStatus(s), step)
    BY <1>1, <1>2 DEF WorkspaceStatus
  <2> HIDE DEF s
  <2>2. /\ cr'.status = s /\ cr'.spec = cr.spec /\ fresh' /\ pc' = step /\ UNCHANGED local
    BY <1>0, <2>1, KnownUpdate DEF startSteps, moduleSteps
  <2> QED BY <2>1, <2>2
<1>3. ASSUME cr'.spec = cr.spec, cr'.status.workspaceID = cr.status.workspaceID
      PROVE  \A c \in ConfigVersionIDs : Prepared(c) => Prepared(c)'
  BY <1>0, <1>3 DEF Prepared, tfcVars
<1>4. CASE RecordConfigVersion
  <2>1. pc = "recordConfigVersion" /\ Prepared(local.configVersion)
    BY <1>1, <1>4 DEF RecordConfigVersion, ActiveFacts, VersionFacts
  <2>2. /\ cr'.spec = cr.spec /\ cr'.status.configVersionID = local.configVersion
        /\ cr'.status.runID = cr.status.runID
        /\ cr'.status.runStatus = cr.status.runStatus
        /\ cr'.status.workspaceID = cr.status.workspaceID
        /\ pc' = "readConfigVersion" /\ fresh' /\ UNCHANGED local
    BY <1>2, <1>4 DEF RecordConfigVersion
  <2>3. VersionFacts'
    <3>1. Prepared(local.configVersion)' /\ local.configVersion \in ConfigVersionIDs
      BY <1>3, <2>1, <2>2 DEF Prepared
    <3>2. Prepared(cr.status.configVersionID)'
      BY <2>2, <3>1 DEF Prepared
    <3> QED BY <1>0, <1>1, <2>1, <2>2, <3>2 DEF ActiveFacts, VersionFacts, tfcVars
  <2> QED
    BY <1>0, <1>1, <2>1, <2>2, <2>3, OnTheWay
       DEF tfcVars, unchangedObjects, startSteps, moduleSteps
<1>5. CASE ReadConfigVersion
  <2> DEFINE c == cr.status.configVersionID
  <2>1. pc = "readConfigVersion" /\ Prepared(c) /\ configVersions[c].status # "pending"
    BY <1>1, <1>5 DEF ReadConfigVersion, ActiveFacts, VersionFacts, Punctual
  <2>2. configVersions[c].status = "uploaded"
    BY <2>1 DEF Prepared
  <2>3. Goto("resetConfigVersion") /\ UNCHANGED <<local, kubeVars>>
    BY <1>1, <1>5, <2>2 DEF ReadConfigVersion
  <2>4. Prepared(cr.status.configVersionID)' /\ (configVersions[c].status = "uploaded")'
    BY <1>0, <2>1, <2>2, <2>3 DEF Prepared, tfcVars, kubeVars
  <2>5. VersionFacts'
    BY <1>0, <1>1, <2>1, <2>2, <2>3, <2>4 DEF ActiveFacts, VersionFacts, Goto, tfcVars, kubeVars
  <2> QED
    BY <1>0, <1>1, <2>1, <2>3, <2>5, OnTheWay
       DEF Goto, tfcVars, kubeVars, startSteps, moduleSteps
<1>6. CASE ResetConfigVersion
  <2>1. /\ pc = "resetConfigVersion" /\ Prepared(cr.status.configVersionID)
        /\ configVersions[cr.status.configVersionID].status = "uploaded"
    BY <1>1, <1>6 DEF ResetConfigVersion, ActiveFacts, VersionFacts
  <2>2. workspaces[cr.status.workspaceID].template = cr.spec.template
    BY <2>1 DEF Prepared
  <2>3. /\ cr'.spec = cr.spec /\ cr'.status.configVersionID = None
        /\ cr'.status.runID = cr.status.runID
        /\ cr'.status.runStatus = cr.status.runStatus
        /\ cr'.status.workspaceID = cr.status.workspaceID
        /\ pc' = "createRun" /\ fresh' /\ UNCHANGED local
    BY <1>2, <1>6 DEF ResetConfigVersion
  <2>4. VersionFacts'
    BY <1>0, <1>1, <2>1, <2>3 DEF ActiveFacts, VersionFacts, tfcVars
  <2> QED
    BY <1>0, <1>1, <2>1, <2>2, <2>3, <2>4, OnTheWay
       DEF tfcVars, unchangedObjects, startSteps, moduleSteps
<1> QED BY <1>4, <1>5, <1>6

\* There is an ID for the new run.
LEMMA RunAvailable ==
  ASSUME Punctual, Known, pc = "createRun"
  PROVE  FreeRuns # {}
<1> DEFINE w == cr.status.workspaceID
<1>1. /\ status = cr.status /\ local \in Locals /\ local.toCancel = {} /\ ActiveFacts /\ IInv
      /\ w \in WorkspaceIDs /\ NoRunPending /\ cr.status \in WorkspaceStatus
      /\ \A v \in WorkspaceIDs : Live(v) => v = w
  BY StartKnown DEF startSteps
<1>2. /\ cached.status.runID \in RunIDs \cup {None} /\ cr.status.runID \in RunIDs \cup {None}
      /\ workspaces[w].currentRun \in RunIDs \cup {None} /\ local.run \in RunIDs \cup {None}
  BY <1>1 DEF Locals, IInv, CloudInv, TerraformCloudTypeOK, ObjectsInv, KubernetesApiTypeOK,
     Object, WorkspaceStatus, Workspace
<1> HIDE DEF w
<1>3. PICK r \in RunIDs :
        r \notin {cached.status.runID, cr.status.runID, workspaces[w].currentRun, local.run}
  BY <1>2 DEF Punctual, Plentiful
<1>4. r # None
  BY TerraformCloudAssumption
<1>5. \A v \in WorkspaceIDs : workspaces[v].currentRun # r
  BY <1>1, <1>3, <1>4 DEF ActiveFacts, RunFacts
<1>6. ~isPending(runs[r].status)
  BY <1>1 DEF NoRunPending
<1> QED BY <1>1, <1>3, <1>5, <1>6 DEF FreeRuns, RememberedStatuses

LEMMA CreateApplyRunExecuted ==
  ASSUME Punctual, Known, CreateApplyRun
  PROVE  ExecutedInv'
<1>0. /\ pc = "createRun" /\ pc \in startSteps /\ UNCHANGED <<kubeVars, configVersions, outOfBand>>
  BY DEF CreateApplyRun, startSteps
<1>w. PICK w \in WorkspaceIDs : w = cr.status.workspaceID
  BY <1>0, StartKnown
<1>1. /\ fresh /\ status = cr.status /\ instance = cr /\ local \in Locals /\ local.toCancel = {}
      /\ ActiveFacts /\ IInv /\ FencedInv /\ NoRunPending /\ status.workspaceID = w
      /\ cr.spec.value \in Values
      /\ \A v \in WorkspaceIDs : Live(v) => v = w
      /\ Started => Live(w) /\ workspaces[w].template # None
  BY <1>0, <1>w, StartKnown, KnownFacts
<1>2. CASE Return /\ UNCHANGED <<runs, workspaces>>
             /\ ~(workspaces[w].live /\ workspaces[w].template # None)
  BY <1>0, <1>w, <1>1, <1>2, GivesUp DEF Live, kubeVars
<1>3. ASSUME NEW r \in FreeRuns, CreateRun(r, w, FALSE, TRUE), Live(w),
             workspaces[w].template # None,
             local' = [local EXCEPT !.run = r], Goto("recordRun")
      PROVE  ExecutedInv'
  <2>1. r \in RunIDs /\ local'.run = r /\ local'.toCancel = {} /\ r # None
    BY <1>1, <1>3, TerraformCloudAssumption DEF FreeRuns, Locals
  <2>2. /\ workspaces \in [WorkspaceIDs -> Workspace] /\ workspaces[w] \in Workspace
        /\ runs \in [RunIDs -> Run]
    BY <1>1 DEF IInv, CloudInv, TerraformCloudTypeOK
  <2>3. ActiveRunsOf(w) = {}
    BY <1>1 DEF ActiveRunsOf, RunsOf, NoRunPending
  <2>4. /\ \A q \in RunIDs \ {r} : runs'[q] = runs[q]
        /\ runs'[r].workspace = w
        /\ runs'[r].config = [template |-> workspaces[w].template,
                              value |-> workspaces[w].value]
    BY <1>3, <2>1, <2>2 DEF CreateRun
  <2>5. workspaces' = [workspaces EXCEPT ![w] = [workspaces[w] EXCEPT !.currentRun = r]]
    BY <1>3, <2>3 DEF CreateRun
  <2>0. /\ [workspaces[w] EXCEPT !.currentRun = r].live = workspaces[w].live
        /\ [workspaces[w] EXCEPT !.currentRun = r].currentRun = r
        /\ [workspaces[w] EXCEPT !.currentRun = r].template = workspaces[w].template
        /\ [workspaces[w] EXCEPT !.currentRun = r].value = workspaces[w].value
    BY <2>2 DEF Workspace
  <2>6. /\ \A v \in WorkspaceIDs \ {w} : workspaces'[v] = workspaces[v]
        /\ Live(w)' /\ workspaces'[w].currentRun = r
        /\ workspaces'[w].template = workspaces[w].template
        /\ workspaces'[w].value = workspaces[w].value
    BY <1>3, <2>0, <2>2, <2>5 DEF Live
  <2>7. pc' = "recordRun" /\ UNCHANGED <<fresh, cr, configMap, configVersions>>
    BY <1>0, <1>3 DEF Goto, kubeVars
  <2>8. RunFacts'
    <3>1. \A q \in RunIDs : isPending(runs'[q].status) => q = r
      BY <1>1, <2>4 DEF NoRunPending
    <3>2. \A v \in WorkspaceIDs : ~Live(v)' => workspaces'[v].currentRun = None
      BY <1>1, <2>6 DEF Live, ActiveFacts, RunFacts
    <3> QED BY <2>1, <2>4, <2>6, <2>7, <3>1, <3>2 DEF RunFacts
  <2>9. VersionFacts' /\ TemplateFacts'
    BY <1>0, <1>1, <2>7 DEF ActiveFacts, VersionFacts, TemplateFacts, windowSteps, startSteps
  <2>10. Executed(w)'
    <3>1. workspaces[w].value # None
      BY <1>0, <1>1, <1>3, TerraformCloudAssumption DEF FencedInv, SettledFacts
    <3>2. ~cr.spec.vcs => workspaces[w].template = configMap
      BY <1>0, <1>w, <1>1 DEF ActiveFacts, TemplateFacts, windowSteps
    <3> QED BY <2>1, <2>4, <2>6, <2>7, <3>1, <3>2 DEF Executed
  <2>11. StartedFacts'
    <3>1. \A v \in WorkspaceIDs : Live(v)' => v = w
      BY <1>1, <2>6 DEF Live
    <3> QED BY <1>1, <1>3, <2>6, <2>10, <3>1 DEF StartedFacts
  <2> QED BY <1>1, <2>7, <2>8, <2>9, <2>11 DEF ExecutedInv, ActiveFacts
<1>4. FreeRuns # {}
  BY <1>0, RunAvailable
<1> QED BY <1>1, <1>2, <1>3, <1>4 DEF CreateApplyRun, Live

LEMMA RecordRunExecuted ==
  ASSUME Known, RecordRun
  PROVE  ExecutedInv'
<1>0. /\ pc = "recordRun" /\ pc \in startSteps /\ UNCHANGED <<tfcVars, unchangedObjects>>
      /\ Return
  BY DEF RecordRun, startSteps
<1>1. /\ fresh /\ status = cr.status /\ cr.status \in WorkspaceStatus /\ ActiveFacts /\ IInv
  BY <1>0, StartKnown
<1> DEFINE s == [status EXCEPT !.runID = local.run, !.runStatus = "pending"]
<1>2. /\ s.configVersionID = cr.status.configVersionID /\ s.workspaceID = cr.status.workspaceID
      /\ s.runID = local.run /\ isPending(s.runStatus) /\ WriteObject(WithStatus(s))
  BY <1>0, <1>1 DEF RecordRun, WorkspaceStatus, isPending, PendingStatuses
<1> HIDE DEF s
<1>3. cr'.status = s /\ cr'.spec = cr.spec
  BY <1>1, <1>2, WrittenStatus
<1>4. /\ pc' = "idle" /\ local'.toCancel = {} /\ UNCHANGED configMap
  <2>1. NoLocals.toCancel = {}
    BY DEF NoLocals
  <2> QED BY <1>0, <2>1 DEF Return, unchangedObjects
<1>5. RunFacts'
  BY <1>0, <1>1, <1>2, <1>3, <1>4 DEF ActiveFacts, RunFacts, tfcVars, Live
<1>6. VersionFacts' /\ TemplateFacts'
  BY <1>0, <1>1, <1>2, <1>3, <1>4 DEF ActiveFacts, VersionFacts, TemplateFacts, windowSteps,
     startSteps, moduleSteps, tfcVars
<1>7. StartedFacts'
  <2>1. Started /\ ~ReasonAtHand
    BY <1>0 DEF Started, ReasonAtHand
  <2>2. CurrentRunsKept /\ ContentKept
    BY <1>0, SameContent DEF tfcVars
  <2> QED BY <1>0, <1>1, <1>3, <1>4, <2>1, <2>2, StartedFactsKept DEF ActiveFacts, StartedFacts,
         tfcVars
<1> QED BY <1>4, <1>5, <1>6, <1>7 DEF ExecutedInv, ActiveFacts

(***************************************************************************)
(* The environment.                                                        *)
(***************************************************************************)
LEMMA SameFacts ==
  ASSUME Known, UNCHANGED <<workspaces, runs, configVersions, configMap, cr, pc, fresh, local>>
  PROVE  ExecutedInv'
BY DEF Known, ExecutedInv, ActiveFacts, RunFacts, VersionFacts, TemplateFacts, StartedFacts,
   FoundRun, NoRunPending, Prepared, Executed, Started, ReasonAtHand, Live

\* Workspaces keep the templates they have.
LEMMA TemplatesKept ==
  ASSUME Known, UNCHANGED <<configVersions, configMap, cr, pc, local>>,
         \A w \in WorkspaceIDs :
           workspaces[w].template # None => workspaces'[w].template = workspaces[w].template
  PROVE  VersionFacts' /\ TemplateFacts'
<1>1. /\ ActiveFacts /\ cr.spec.template # None
      /\ pc \in startSteps => cr.status.workspaceID \in WorkspaceIDs
  BY KnownFacts, StartKnown, TerraformCloudAssumption DEF WorkspaceSpec
<1>2. ASSUME NEW c \in ConfigVersionIDs, Prepared(c), pc \in startSteps
      PROVE  Prepared(c)'
  BY <1>1, <1>2 DEF Prepared
<1>3. pc' = "recordConfigVersion" => Prepared(local.configVersion)'
  <2>1. pc' = "recordConfigVersion" =>
          /\ Prepared(local.configVersion) /\ local.configVersion \in ConfigVersionIDs
          /\ pc \in startSteps
    BY <1>1 DEF ActiveFacts, VersionFacts, Prepared, startSteps, moduleSteps
  <2> QED BY <1>2, <2>1
<1>4. pc' \in {"readConfigVersion", "resetConfigVersion"} => Prepared(cr.status.configVersionID)'
  <2>1. pc' \in {"readConfigVersion", "resetConfigVersion"} =>
          /\ Prepared(cr.status.configVersionID)
          /\ cr.status.configVersionID \in ConfigVersionIDs
          /\ pc \in startSteps
    BY <1>1 DEF ActiveFacts, VersionFacts, Prepared, startSteps, moduleSteps
  <2> QED BY <1>2, <2>1
<1>5. VersionFacts'
  BY <1>1, <1>3, <1>4 DEF ActiveFacts, VersionFacts
<1>6. TemplateFacts'
  BY <1>1 DEF ActiveFacts, TemplateFacts, startSteps
<1> QED BY <1>5, <1>6

\* A run goes on or ends: it is the only one, and stays the current one.
LEMMA RunProgressExecuted ==
  ASSUME Known, NEW r \in RunIDs, RunProgress(r), UNCHANGED <<kubeVars, operatorVars>>
  PROVE  ExecutedInv'
<1>0. UNCHANGED <<configVersions, configMap, cr, pc, fresh, local>>
  BY DEF RunProgress, RunStarts, RunFinishes, kubeVars, operatorVars
<1>1. /\ ActiveFacts /\ IInv /\ HeldInv /\ workspaces \in [WorkspaceIDs -> Workspace]
      /\ runs \in [RunIDs -> Run] /\ local.toCancel = {}
      /\ pc # "idle" => fresh
  BY KnownFacts DEF IInv, CloudInv, TerraformCloudTypeOK
<1>2. /\ isPending(runs[r].status) /\ runs[r] \in Run
      /\ runs[r].workspace \in WorkspaceIDs /\ workspaces[runs[r].workspace] \in Workspace
      /\ r = workspaces[runs[r].workspace].currentRun
  <2>1. isPending(runs[r].status)
    BY DEF RunProgress, RunStarts, RunFinishes, isPending, PendingStatuses
  <2> QED BY <1>1, <2>1, PendingRun DEF ActiveFacts, RunFacts
<1>3. \A q \in RunIDs : isPending(runs[q].status) => q = r
  BY <1>1, <1>2 DEF ActiveFacts, RunFacts, HeldInv, OneWorkspace, RunsInv
<1>4. /\ \E t : runs' = [runs EXCEPT ![r].status = t]
      /\ CurrentRunsKept /\ ContentKept
  <2>1. CASE RunStarts(r)
    BY <2>1, SameContent DEF RunStarts
  <2>2. CASE RunFinishes(r)
    <3>1. PICK final, d : RunEnds(r, final, d)
      BY <2>2, RunFinishesStatus
    <3> DEFINE w == runs[r].workspace
    <3>2. ActiveRunsOf(w) \ {r} = {}
      BY <1>3 DEF ActiveRunsOf, RunsOf
    <3>3. workspaces' = [workspaces EXCEPT ![w] =
            [workspaces[w] EXCEPT !.currentRun = workspaces[w].currentRun, !.deployed = d]]
      BY <3>1, <3>2 DEF RunEnds
    <3>4. runs' = [runs EXCEPT ![r].status = final]
      BY <3>1 DEF RunEnds
    <3> HIDE DEF w
    <3>5. \A v \in WorkspaceIDs : workspaces[v] \in Workspace
      BY <1>1
    <3>6. \A v \in WorkspaceIDs :
            /\ workspaces'[v].live = workspaces[v].live
            /\ workspaces'[v].currentRun = workspaces[v].currentRun
            /\ workspaces'[v].value = workspaces[v].value
            /\ workspaces'[v].template = workspaces[v].template
      BY <1>1, <3>3, <3>5 DEF Workspace
    <3> QED BY <3>4, <3>6 DEF CurrentRunsKept, ContentKept, Live
  <2> QED BY <2>1, <2>2 DEF RunProgress
<1>5. /\ \A q \in RunIDs \ {r} : runs'[q] = runs[q]
      /\ runs'[r].workspace = runs[r].workspace /\ runs'[r].config = runs[r].config
  <2>1. PICK t : runs' = [runs EXCEPT ![r] = [runs[r] EXCEPT !.status = t]]
    BY <1>4
  <2>2. /\ [runs[r] EXCEPT !.status = t].workspace = runs[r].workspace
        /\ [runs[r] EXCEPT !.status = t].config = runs[r].config
    BY <1>2 DEF Run
  <2> QED BY <1>1, <2>1, <2>2
<1>6. RunFacts'
  <2>1. \A q \in RunIDs : isPending(runs'[q].status) => q = r
    BY <1>3, <1>5
  <2>2. NoRunPending => FALSE
    BY <1>2 DEF NoRunPending
  <2>3. FoundRun' = FoundRun
    BY <1>0, <1>4 DEF FoundRun, CurrentRunsKept
  <2>4. \A w \in WorkspaceIDs : ~Live(w)' => workspaces'[w].currentRun = None
    BY <1>1, <1>4 DEF ActiveFacts, RunFacts, CurrentRunsKept
  <2>5. /\ pc' = "recordRun" => r = local'.run
        /\ pc' # "recordRun" => r = cr'.status.runID /\ isPending(cr'.status.runStatus)
        /\ r = workspaces'[runs'[r].workspace].currentRun
    BY <1>0, <1>1, <1>2, <1>4, <1>5 DEF ActiveFacts, RunFacts, CurrentRunsKept
  <2>6. ~(pc' = "recordRunStatus" /\ ~isPending(local'.runStatus))
    BY <1>0, <1>1, <2>2 DEF ActiveFacts, RunFacts
  <2>7. /\ local'.toCancel = {}
        /\ pc' = "CheckWorkspace" => local'.run = None
        /\ pc' \in {"recordWorkspaceID", "recordRunID"} => FoundRun'
    BY <1>0, <1>1, <2>3 DEF ActiveFacts, RunFacts
  <2> QED BY <2>1, <2>4, <2>5, <2>6, <2>7 DEF RunFacts
<1>7. VersionFacts' /\ TemplateFacts'
  BY <1>0, <1>4, TemplatesKept DEF ContentKept
<1>8. StartedFacts'
  <2>1. ASSUME NEW w \in WorkspaceIDs PROVE Executed(w)' = Executed(w)
    BY <1>0, <1>1, <1>4, <1>5, <2>1 DEF Executed, CurrentRunsKept, ContentKept
  <2> QED
    BY <1>0, <1>1, <1>4, <2>1 DEF ActiveFacts, StartedFacts, Started, ReasonAtHand,
       CurrentRunsKept, ContentKept
<1> QED BY <1>0, <1>1, <1>6, <1>7, <1>8 DEF ExecutedInv, ActiveFacts

\* The archive that is unpacked is the one a reconcile has uploaded for its run.
LEMMA ConfigVersionProcessedExecuted ==
  ASSUME Punctual, Known, NEW c \in ConfigVersionIDs, ConfigVersionProcessed(c),
         UNCHANGED <<kubeVars, operatorVars>>
  PROVE  ExecutedInv'
<1>0. UNCHANGED <<runs, configMap, cr, pc, fresh, local>>
  BY DEF ConfigVersionProcessed, kubeVars, operatorVars
<1>1. /\ pc \in {"recordConfigVersion", "readConfigVersion"} /\ pc \in startSteps
      /\ Prepared(c) /\ configVersions[c].status = "pending"
      /\ pc = "recordConfigVersion" => c = local.configVersion
      /\ pc = "readConfigVersion" => c = cr.status.configVersionID
  BY KnownFacts DEF ConfigVersionProcessed, ActiveFacts, VersionFacts, startSteps, moduleSteps
<1>w. PICK w \in WorkspaceIDs : w = cr.status.workspaceID
  BY <1>1, StartKnown
<1>2. /\ fresh /\ ActiveFacts /\ IInv /\ cr.spec.template \in Templates
      /\ \A v \in WorkspaceIDs : Live(v) => v = w
      /\ cr.spec.template # None
  BY <1>1, <1>w, StartKnown, TerraformCloudAssumption
<1>3. /\ workspaces \in [WorkspaceIDs -> Workspace] /\ workspaces[w] \in Workspace
      /\ configVersions \in [ConfigVersionIDs -> ConfigVersion]
      /\ configVersions[c] \in ConfigVersion
  BY <1>2 DEF IInv, CloudInv, TerraformCloudTypeOK
<1>4. /\ configVersions' = [configVersions EXCEPT ![c] =
                              [configVersions[c] EXCEPT !.status = "uploaded"]]
      /\ workspaces' = [workspaces EXCEPT ![w] =
                          [workspaces[w] EXCEPT !.template = cr.spec.template]]
  BY <1>1, <1>w DEF ConfigVersionProcessed, Punctual, Prepared
<1>5. /\ \A d \in ConfigVersionIDs \ {c} : configVersions'[d] = configVersions[d]
      /\ configVersions'[c].status = "uploaded"
      /\ configVersions'[c].workspace = configVersions[c].workspace
      /\ configVersions'[c].template = configVersions[c].template
      /\ configVersions'[c].latest = configVersions[c].latest
  <2>1. /\ [configVersions[c] EXCEPT !.status = "uploaded"].status = "uploaded"
        /\ [configVersions[c] EXCEPT !.status = "uploaded"].workspace = configVersions[c].workspace
        /\ [configVersions[c] EXCEPT !.status = "uploaded"].template = configVersions[c].template
        /\ [configVersions[c] EXCEPT !.status = "uploaded"].latest = configVersions[c].latest
    BY <1>3 DEF ConfigVersion
  <2> QED BY <1>3, <1>4, <2>1
<1>6. /\ \A v \in WorkspaceIDs \ {w} : workspaces'[v] = workspaces[v]
      /\ workspaces'[w].live = workspaces[w].live
      /\ workspaces'[w].currentRun = workspaces[w].currentRun
      /\ workspaces'[w].value = workspaces[w].value
      /\ workspaces'[w].template = cr.spec.template
  BY <1>3, <1>4 DEF Workspace
<1>7. CurrentRunsKept
  BY <1>6 DEF CurrentRunsKept, Live
<1>8. RunFacts'
  <2>1. /\ pc \notin {"recordRun", "CheckWorkspace", "recordWorkspaceID", "recordRunID",
                      "recordRunStatus"}
        /\ local.toCancel = {}
    BY <1>1, KnownFacts
  <2> QED BY <1>0, <1>2, <1>7, <2>1, RunFactsKept DEF ActiveFacts
<1>9. VersionFacts'
  <2>1. Prepared(c)'
    BY <1>0, <1>w, <1>1, <1>5, <1>6 DEF Prepared
  <2>2. pc' = "recordConfigVersion" => Prepared(local.configVersion)'
    BY <1>0, <1>1, <2>1
  <2>3. pc' = "readConfigVersion" => Prepared(cr.status.configVersionID)'
    BY <1>0, <1>1, <2>1
  <2> QED BY <1>0, <1>1, <1>2, <1>5, <2>2, <2>3 DEF ActiveFacts, VersionFacts
<1>10. TemplateFacts'
  BY <1>0, <1>1, <1>2 DEF ActiveFacts, TemplateFacts
<1>11. StartedFacts'
  <2>1. \A v \in WorkspaceIDs : Live(v)' => workspaces'[v].template # None
    BY <1>2, <1>6, <1>7 DEF CurrentRunsKept
  <2>2. ReasonAtHand'
    BY <1>0, <1>1 DEF ReasonAtHand
  <2>3. Started' = Started
    BY <1>0 DEF Started
  <2> QED BY <1>2, <1>7, <2>1, <2>2, <2>3 DEF ActiveFacts, StartedFacts, CurrentRunsKept
<1> QED BY <1>0, <1>2, <1>8, <1>9, <1>10, <1>11 DEF ExecutedInv, ActiveFacts

\* The first commit of a repository arrives before there can be a run.
LEMMA VCSIngressExecuted ==
  ASSUME Known, NEW w \in WorkspaceIDs, VCSIngress(w), UNCHANGED <<kubeVars, operatorVars>>
  PROVE  ExecutedInv'
<1>0. UNCHANGED <<runs, configVersions, configMap, cr, pc, fresh, local>>
  BY DEF VCSIngress, kubeVars, operatorVars
<1>1. /\ ActiveFacts /\ IInv /\ cr.spec \in WorkspaceSpec /\ local.toCancel = {}
      /\ workspaces \in [WorkspaceIDs -> Workspace] /\ workspaces[w] \in Workspace
      /\ pc # "idle" => fresh
  BY KnownFacts
<1>2. Live(w) /\ workspaces[w].template = None
  BY DEF VCSIngress, Live
<1>3. PICK t \in Templates :
        workspaces' = [workspaces EXCEPT ![w] = [workspaces[w] EXCEPT !.template = t]]
  BY DEF VCSIngress
<1>4. /\ \A v \in WorkspaceIDs \ {w} : workspaces'[v] = workspaces[v]
      /\ workspaces'[w].live = workspaces[w].live
      /\ workspaces'[w].currentRun = workspaces[w].currentRun
  BY <1>1, <1>3 DEF Workspace
<1>5. ~Started /\ ~Started'
  BY <1>0, <1>1, <1>2 DEF ActiveFacts, StartedFacts, Started
<1>7. CurrentRunsKept
  BY <1>4 DEF CurrentRunsKept, Live
<1>8. FoundRun' = FoundRun /\ NoRunPending' = NoRunPending
  BY <1>0, <1>7 DEF FoundRun, NoRunPending, CurrentRunsKept
<1>9. RunFacts'
  BY <1>0, <1>1, <1>5, <1>7, <1>8, RunFactsKept DEF ActiveFacts, RunFacts, Started
<1>10. VersionFacts' /\ TemplateFacts'
  BY <1>0, <1>2, <1>4, TemplatesKept
<1> QED BY <1>0, <1>1, <1>5, <1>9, <1>10 DEF ExecutedInv, ActiveFacts, StartedFacts

LEMMA TerraformCloudStepExecuted ==
  ASSUME Punctual, Known, TerraformCloudStep
  PROVE  ExecutedInv'
<1>1. \A w \in WorkspaceIDs : ~UserIntervenes(w, FreeRuns)
  BY DEF Punctual, UserIntervenes
<1> QED
  BY <1>1, RunProgressExecuted, ConfigVersionProcessedExecuted, VCSIngressExecuted
     DEF TerraformCloudStep

LEMMA KubernetesStepExecuted ==
  ASSUME Punctual, Known, KubernetesStep, cr'.phase = "active"
  PROVE  ExecutedInv'
<1>0. UNCHANGED <<tfcVars, pc, instance, local>> /\ cr \in Object
  BY KnownFacts DEF KubernetesStep
<1>1. CASE UserEdits /\ pc \in EditAt
  <2>1. pc = "idle" /\ pc' = "idle" /\ local.toCancel = {} /\ local'.toCancel = {}
    BY <1>0, <1>1, KnownFacts DEF Punctual
  <2>2. /\ cr'.status = cr.status /\ cr'.spec.vcs = cr.spec.vcs /\ UNCHANGED configMap
    BY <1>0, <1>1 DEF UserEdits, Object, Punctual
  <2> QED
    BY <1>0, <2>1, <2>2, BeforeExecuted DEF tfcVars, windowSteps, startSteps, moduleSteps
<1>2. CASE UserDeletes
  BY <1>0, <1>2 DEF UserDeletes, Object
<1>3. CASE (CacheSync \/ ConfigMapCacheSync \/ GarbageCollect) /\ UNCHANGED fresh
  BY <1>0, <1>3, SameFacts DEF CacheSync, ConfigMapCacheSync, GarbageCollect, Known, tfcVars
<1> QED BY <1>1, <1>2, <1>3 DEF KubernetesStep

LEMMA AbortExecuted ==
  ASSUME Punctual, Known, Abort
  PROVE  ExecutedInv'
<1>1. pc \notin windowSteps /\ pc' = "idle" /\ local' = NoLocals /\ UNCHANGED <<tfcVars, kubeVars>>
  BY DEF Abort, Punctual
<1> QED
  BY <1>1, EndsExecuted, SameContent DEF tfcVars, kubeVars, windowSteps, startSteps, moduleSteps

(***************************************************************************)
(* The theorem.                                                            *)
(***************************************************************************)
LEMMA ExecutedNext ==
  Punctual /\ IInv /\ HeldInv /\ FencedInv /\ ExecutedInv /\ [Next]_vars => ExecutedInv'
<1> SUFFICES ASSUME Punctual, IInv, HeldInv, FencedInv, ExecutedInv, [Next]_vars,
                    cr'.phase = "active"
             PROVE  ExecutedInv'
  BY DEF ExecutedInv
<1>1. Known
  BY StaysActive, NextInv DEF Known, Punctual
<1>2. CASE UNCHANGED vars
  BY <1>1, <1>2, SameFacts DEF vars, tfcVars, kubeVars, operatorVars
<1>3. ~condDeleteSteps
  BY <1>1, KnownFacts DEF condDeleteSteps, CondDeleteWorkspace, FinalizeWorkspace, DeleteRuns,
     ForceCancel, DeleteResources, CreateDestroyRun, AwaitDestroy, DeleteWorkspace,
     RemoveFinalizer, deleteSteps
<1>4. CASE reconcileSteps
  BY <1>1, <1>4, CheckWorkspaceExecuted, RecordWorkspaceIDExecuted, RecordRunIDExecuted,
     AddFinalizerExecuted, RunInProgressExecuted, RecordRunStatusExecuted,
     ProcessFinishedRunExecuted, UpdateTerraformTemplateExecuted, UpdateVariablesExecuted,
     UpdateRunTriggersExecuted DEF reconcileSteps
<1>5. CASE startRunSteps
  BY <1>1, <1>5, StartRunExecuted, CreateConfigurationVersionExecuted,
     UploadConfigurationFileExecuted, ConfigVersionStepExecuted, CreateApplyRunExecuted,
     RecordRunExecuted DEF startRunSteps
<1> QED
  BY <1>1, <1>2, <1>3, <1>4, <1>5, InitializeExecuted, TerraformCloudStepExecuted,
     KubernetesStepExecuted, AbortExecuted DEF Next, Reconcile, InstanceGone

LEMMA ExecutedInvariance == ASSUME Punctual PROVE Spec => []ExecutedInv
<1>1. Attentive /\ Steady
  BY DEF Punctual, Steady
<1>2. IInv /\ HeldInv /\ FencedInv /\ ExecutedInv /\ [Next]_vars => ExecutedInv'
  BY ExecutedNext
<1> QED
  BY <1>1, <1>2, InitExecuted, Invariance, HeldInvariance, FencedInvariance, PTL DEF Spec

\* The comparisons end without a reason only when the current run has it all.
LEMMA NoReasonStep ==
  IInv /\ HeldInv /\ FencedInv /\ ExecutedInv /\ [Next]_vars
    => (pc = "updateRunTriggers" /\ pc' = "idle" /\ aborts' = aborts /\ cr.phase = "active"
          => \A w \in WorkspacesNamed(spec.organization) :
               LET r == workspaces[w].currentRun
               IN /\ r # None
                  /\ runs[r].config.value = spec.value
                  /\ ~spec.vcs => runs[r].config.template = spec.template)
<1> SUFFICES ASSUME IInv, HeldInv, FencedInv, ExecutedInv, [Next]_vars, cr.phase = "active",
                    pc = "updateRunTriggers", pc' = "idle", aborts' = aborts,
                    NEW w \in WorkspacesNamed(spec.organization)
             PROVE  LET r == workspaces[w].currentRun
                    IN /\ r # None
                       /\ runs[r].config.value = spec.value
                       /\ ~spec.vcs => runs[r].config.template = spec.template
  OBVIOUS
<1>1. Known /\ aborts \in Nat
  BY WorkspaceOperatorAssumption DEF Known, IInv, OperatorInv, OperatorTypeOK
<1>2. UpdateRunTriggers
  BY <1>1 DEF Next, vars, operatorVars, Reconcile, Abort, InitializeReconciliation, InstanceGone,
     condDeleteSteps, CondDeleteWorkspace, FinalizeWorkspace, DeleteRuns, ForceCancel,
     DeleteResources, CreateDestroyRun, AwaitDestroy, DeleteWorkspace, RemoveFinalizer,
     reconcileSteps, CheckWorkspace, RecordWorkspaceID, RecordRunID, AddFinalizer,
     RunInProgress, RecordRunStatus, ProcessFinishedRun, RecordOutputs, UpsertSecretOutputs,
     UpdateTerraformTemplate, UpdateVariables,
     startRunSteps, StartRun, CreateConfigurationVersion, UploadConfigurationFile,
     RecordConfigVersion, ReadConfigVersion, ResetConfigVersion, CreateApplyRun, RecordRun,
     TerraformCloudStep, KubernetesStep
<1>3. /\ instance = cr /\ spec = cr.spec /\ status = cr.status /\ ActiveFacts
      /\ w \in WorkspaceIDs /\ Live(w)
  BY <1>1, KnownFacts, KnownComparison DEF compareSteps
<1>4. ~local.updated /\ cr.status.runID # None
  BY <1>2, <1>3 DEF UpdateRunTriggers, StartCondition, Goto
<1>5. Executed(w)
  BY <1>1, <1>3, <1>4, NoReason
<1>6. workspaces[w].value = spec.value
  BY <1>3 DEF FencedInv, SettledFacts
<1>7. ~spec.vcs => configMap = spec.template
  BY <1>3 DEF ActiveFacts, TemplateFacts, windowSteps
<1> QED BY <1>3, <1>5, <1>6, <1>7 DEF Executed

\* No reason for a run is used up without its run: however long runs take, however
\* they end and whatever users write to the Workspace between two reconciles, one
\* that finds nothing to do leaves a current run that was started with the spec.
THEOREM NoReasonOverlooked ==
  ASSUME Punctual PROVE Spec => NothingOverlooked
<1>1. Attentive /\ Steady
  BY DEF Punctual, Steady
<1> QED
  BY <1>1, NoReasonStep, Invariance, HeldInvariance, FencedInvariance, ExecutedInvariance, PTL
     DEF Spec, NothingOverlooked

================================================================================
