--------------------------- MODULE StartFencedProofs ---------------------------
(***************************************************************************)
(* StartFenced: however old the copy a reconcile works with, it does not   *)
(* start a run beside one that the Workspace records.                      *)
(***************************************************************************)
EXTENDS WorkspaceLifecycleProofs

(***************************************************************************)
(* What is assumed of users, beside Attentive.                             *)
(***************************************************************************)
\* Users leave variables in Terraform Cloud alone and do not turn a module into a
\* VCS repository or back: either one makes a reconcile on an old copy start a run
\* beside the one that it does not know of.
Steady == Attentive /\ ~KindEdits /\ "variable" \notin OutOfBand

(***************************************************************************)
(* The inductive invariant, beside IInv and HeldInv: what an old copy is   *)
(* still good for.                                                         *)
(***************************************************************************)
\* The status at the API server records an unfinished run.
RunRecorded == isPending(cr.status.runStatus)

\* The reconcile's copy knows of it.
Aware == RunRecorded => isPending(instance.status.runStatus)

\* The workspace that a copy names has the variable and the trigger of its spec:
\* a comparison with it finds nothing to update.
Settled(copy) ==
  \A w \in WorkspaceIDs : copy.status.workspaceID = w /\ Live(w) =>
    workspaces[w].value = copy.spec.value /\ workspaces[w].trigger = copy.spec.trigger

\* What a copy may be while a run is recorded: it knows of a run, or it was taken
\* when the reconcile that started it had not got there, and has the same spec.
NotMisled(copy) == isPending(copy.status.runStatus) \/ Settled(copy)

\* A configuration version is recorded for modules only, a run status with a run.
Plausible(copy) ==
  /\ copy.spec.vcs = cr.spec.vcs
  /\ copy.spec.vcs => copy.status.configVersionID = None
  /\ copy.status.runID = None => copy.status.runStatus = ""

CopiesFenced ==
  /\ Plausible(cr) /\ Plausible(cached)
  /\ pc # "idle" => Plausible(instance)
  /\ fresh => cached.spec = instance.spec
  /\ RunRecorded => NotMisled(cached) /\ (pc # "idle" => NotMisled(instance))

moduleSteps ==
  {"CreateConfigurationVersion", "UploadConfigurationFile", "recordConfigVersion",
   "readConfigVersion", "resetConfigVersion"}

startSteps == {"startRun", "createRun", "recordRun"} \cup moduleSteps

\* The steps after the finished run has been processed.
compareSteps ==
  {"UpsertSecretOutputs", "updateTerraformTemplate", "updateVariables", "updateRunTriggers"}

outputSteps == {"processFinishedRun", "recordOutputs"}

\* The steps that take the recorded run for finished.
finishedSteps == outputSteps \cup compareSteps \cup startSteps

\* What a reconcile knows about recorded runs when it comes to a step.
StartFacts ==
  /\ pc = "idle" => local = NoLocals
  /\ pc = "recordRunStatus" => isPending(instance.status.runStatus)
  /\ pc \in finishedSteps => ~isPending(instance.status.runStatus)
  /\ local.outputsReset => Aware
  /\ pc \notin compareSteps \cup startSteps \cup {"recordOutputs"} => local.outputs = None
  /\ pc = "recordOutputs" /\ instance.status.runID = None => local.outputs = None
  /\ pc \in compareSteps \cup startSteps /\ instance.status.runID = None => Aware
  /\ local.updated => pc \in {"updateVariables", "updateRunTriggers"} \cup startSteps
  /\ local.updated /\ instance.spec.vcs => Aware
  /\ pc \in moduleSteps => ~instance.spec.vcs
  /\ pc = "startRun" /\ instance.spec.vcs => Aware
  /\ pc = "createRun" => Aware
  /\ pc = "recordRun" => local.run # None

\* What it has brought to the copy's spec by then.
SettledFacts ==
  \A w \in WorkspaceIDs : Live(w) =>
    /\ pc \notin deleteSteps \cup {"idle", "CheckWorkspace", "recordWorkspaceID"} =>
         w = instance.status.workspaceID
    /\ pc \in {"updateRunTriggers"} \cup startSteps => workspaces[w].value = instance.spec.value
    /\ pc \in startSteps => workspaces[w].trigger = instance.spec.trigger

FencedInv == CopiesFenced /\ StartFacts /\ SettledFacts

(***************************************************************************)
(* The copies.                                                             *)
(***************************************************************************)
SettingsKept(w) ==
  Live(w)' => /\ Live(w)
              /\ workspaces'[w].value = workspaces[w].value
              /\ workspaces'[w].trigger = workspaces[w].trigger

AllSettingsKept == \A w \in WorkspaceIDs : SettingsKept(w)

\* The workspaces that copies name keep their settings.
NamedSettingsKept ==
  \A w \in WorkspaceIDs :
    w = cached.status.workspaceID \/ (pc # "idle" /\ w = instance.status.workspaceID)
      => SettingsKept(w)

\* While a run is recorded, an old copy stays what it is good for.
LEMMA CopiesFencedKept ==
  ASSUME CopiesFenced,
         RunRecorded' => RunRecorded /\ NamedSettingsKept,
         Plausible(cr)', cr'.spec.vcs = cr.spec.vcs,
         cached' \in {cached, cr}, InstanceKept,
         fresh' => cached'.spec = instance'.spec
  PROVE  CopiesFenced'
<1>2. /\ Plausible(cached)'
      /\ pc' # "idle" => Plausible(instance)'
  BY DEF CopiesFenced, Plausible, InstanceKept
<1>3. ASSUME RunRecorded', NEW copy, isPending(copy.status.runStatus) \/ Settled(copy),
             \/ copy.status.workspaceID = cached.status.workspaceID
             \/ pc # "idle" /\ copy.status.workspaceID = instance.status.workspaceID
      PROVE  \/ isPending(copy.status.runStatus)
             \/ \A w \in WorkspaceIDs : copy.status.workspaceID = w /\ Live(w)' =>
                  /\ workspaces'[w].value = copy.spec.value
                  /\ workspaces'[w].trigger = copy.spec.trigger
  BY <1>3 DEF NamedSettingsKept, SettingsKept, Settled
<1>4. ASSUME RunRecorded' PROVE NotMisled(cached)'
  <2>1. CASE cached' = cr
    BY <1>4, <2>1 DEF RunRecorded, NotMisled
  <2>2. CASE cached' = cached
    BY <1>3, <1>4, <2>2 DEF CopiesFenced, NotMisled, Settled
  <2> QED BY <2>1, <2>2
<1>5. ASSUME RunRecorded', pc' # "idle" PROVE NotMisled(instance)'
  <2>1. CASE instance' = cr'
    BY <1>5, <2>1 DEF RunRecorded, NotMisled
  <2>2. CASE instance' = cached
    BY <1>3, <1>5, <2>2 DEF CopiesFenced, NotMisled, Settled
  <2>3. CASE instance' = instance /\ pc # "idle"
    BY <1>3, <1>5, <2>3 DEF CopiesFenced, NotMisled, Settled
  <2> QED BY <1>5, <2>1, <2>2, <2>3 DEF InstanceKept
<1> QED BY <1>2, <1>4, <1>5 DEF CopiesFenced

(***************************************************************************)
(* Terraform Cloud's side: the settings of a workspace change by the steps *)
(* that write them.                                                        *)
(***************************************************************************)
LEMMA SameSettings == UNCHANGED workspaces => AllSettingsKept
BY DEF AllSettingsKept, SettingsKept, Live

LEMMA OtherFieldWritten ==
  ASSUME workspaces \in [WorkspaceIDs -> Workspace], NEW w, NEW ws,
         workspaces' = [workspaces EXCEPT ![w] = ws],
         w \in WorkspaceIDs => /\ ws.live = workspaces[w].live
                               /\ ws.value = workspaces[w].value
                               /\ ws.trigger = workspaces[w].trigger
  PROVE  AllSettingsKept
BY DEF AllSettingsKept, SettingsKept, Live

LEMMA RunEndsSettings ==
  ASSUME NEW r \in RunIDs, IInv, isPending(runs[r].status), NEW final, NEW d,
         RunEnds(r, final, d)
  PROVE  AllSettingsKept
<1> DEFINE w == runs[r].workspace
<1>1. w \in WorkspaceIDs /\ workspaces[w] \in Workspace
  BY PendingRun
<1>2. \E current : workspaces' = [workspaces EXCEPT ![w] =
        [workspaces[w] EXCEPT !.currentRun = current, !.deployed = d]]
  BY DEF RunEnds
<1>3. workspaces \in [WorkspaceIDs -> Workspace]
  BY DEF IInv, CloudInv, TerraformCloudTypeOK
<1> QED BY <1>1, <1>2, <1>3, OtherFieldWritten DEF Workspace

LEMMA CancelRunSettings ==
  ASSUME NEW r \in RunIDs, IInv, isPending(runs[r].status), CancelRun(r)
  PROVE  AllSettingsKept
BY RunEndsSettings DEF CancelRun

LEMMA RunProgressSettings ==
  ASSUME NEW r \in RunIDs, IInv, RunProgress(r)
  PROVE  AllSettingsKept
<1>1. isPending(runs[r].status)
  BY DEF RunProgress, RunStarts, RunFinishes, isPending, PendingStatuses
<1>2. CASE RunStarts(r)
  BY <1>2, SameSettings DEF RunStarts
<1>3. CASE RunFinishes(r)
  <2>1. \E final \in Outcomes \cup {"planned_and_finished"} : \E d : RunEnds(r, final, d)
    BY <1>3, RunFinishesStatus
  <2> QED BY <1>1, <2>1, RunEndsSettings
<1> QED BY <1>2, <1>3 DEF RunProgress

LEMMA CreateRunSettings ==
  ASSUME NEW r \in RunIDs, NEW w \in WorkspaceIDs, NEW destroy, NEW operator,
         IInv, CreateRun(r, w, destroy, operator)
  PROVE  AllSettingsKept
<1>1. workspaces \in [WorkspaceIDs -> Workspace] /\ workspaces[w] \in Workspace
  BY DEF IInv, CloudInv, TerraformCloudTypeOK
<1>2. \/ UNCHANGED workspaces
      \/ workspaces' = [workspaces EXCEPT ![w] = [workspaces[w] EXCEPT !.currentRun = r]]
  BY DEF CreateRun
<1> QED BY <1>1, <1>2, SameSettings, OtherFieldWritten DEF Workspace

LEMMA DeleteWorkspaceSettings ==
  ASSUME NEW w \in WorkspaceIDs, IInv, DeleteWorkspaceByID(w)
  PROVE  AllSettingsKept
BY DEF IInv, CloudInv, TerraformCloudTypeOK, DeleteWorkspaceByID, NoWorkspace,
       AllSettingsKept, SettingsKept, Live

LEMMA TemplateSettings ==
  ASSUME NEW w, NEW t, IInv, workspaces' = [workspaces EXCEPT ![w].template = t]
  PROVE  AllSettingsKept
<1>1. /\ workspaces \in [WorkspaceIDs -> Workspace]
      /\ workspaces' = [workspaces EXCEPT ![w] = [workspaces[w] EXCEPT !.template = t]]
  BY DEF IInv, CloudInv, TerraformCloudTypeOK
<1>2. w \in WorkspaceIDs => workspaces[w] \in Workspace
  BY <1>1
<1> QED BY <1>1, <1>2, OtherFieldWritten DEF Workspace

LEMMA TerraformCloudSettings ==
  ASSUME Steady, IInv, TerraformCloudStep
  PROVE  AllSettingsKept
<1>1. ASSUME NEW c \in ConfigVersionIDs, ConfigVersionProcessed(c)
      PROVE  AllSettingsKept
  <2>1. \/ UNCHANGED workspaces
        \/ workspaces' = [workspaces EXCEPT ![configVersions[c].workspace].template =
                                               configVersions[c].template]
    BY <1>1 DEF ConfigVersionProcessed
  <2> QED BY <2>1, SameSettings, TemplateSettings
<1>2. ASSUME NEW w \in WorkspaceIDs, VCSIngress(w)
      PROVE  AllSettingsKept
  BY <1>2, TemplateSettings DEF VCSIngress
<1>3. ASSUME NEW w \in WorkspaceIDs, UserIntervenes(w, FreeRuns)
      PROVE  AllSettingsKept
  <2>1. \/ \E r \in FreeRuns : CreateRun(r, w, FALSE, FALSE)
        \/ DeleteWorkspaceByID(w)
    BY <1>3 DEF UserIntervenes, Steady
  <2> QED BY <2>1, CreateRunSettings, DeleteWorkspaceSettings DEF FreeRuns
<1> QED BY <1>1, <1>2, <1>3, RunProgressSettings DEF TerraformCloudStep

(***************************************************************************)
(* How steps end.                                                          *)
(***************************************************************************)
LEMMA AwareKept ==
  ASSUME Aware, UNCHANGED <<cr, instance>>
  PROVE  Aware'
BY DEF Aware, RunRecorded

\* What the reconcile has brought to the spec stays as it is.
LEMMA SettledFactsKept ==
  ASSUME SettledFacts, AllSettingsKept,
         instance'.status.workspaceID = instance.status.workspaceID,
         instance'.spec = instance.spec,
         pc \notin deleteSteps \cup {"idle", "CheckWorkspace", "recordWorkspaceID"},
         pc' = "updateRunTriggers" => pc = "updateRunTriggers",
         pc' \in startSteps => pc \in startSteps
  PROVE  SettledFacts'
BY DEF SettledFacts, AllSettingsKept, SettingsKept

\* The reconcile is over, or has not looked at the workspace's ID.
LEMMA Unsettled ==
  ASSUME pc' \in deleteSteps \cup {"idle", "CheckWorkspace", "recordWorkspaceID"}
  PROVE  SettledFacts'
BY DEF SettledFacts, startSteps, moduleSteps, deleteSteps

LEMMA NothingStarted ==
  ASSUME pc' = "idle", local' = NoLocals
  PROVE  StartFacts' /\ SettledFacts'
<1>1. StartFacts'
  BY DEF StartFacts, NoLocals, finishedSteps, outputSteps, compareSteps, startSteps, moduleSteps
<1> QED BY <1>1, Unsettled

\* The objects stay as they are.
LEMMA QuietFenced ==
  ASSUME FencedInv, UNCHANGED <<cr, cached>>, NamedSettingsKept \/ ~RunRecorded,
         pc' = "idle" \/ (UNCHANGED <<instance, fresh>> /\ pc # "idle"),
         fresh' => fresh /\ UNCHANGED instance,
         StartFacts', SettledFacts'
  PROVE  FencedInv'
<1>1. InstanceKept
  BY DEF InstanceKept
<1>2. RunRecorded' = RunRecorded /\ Plausible(cr)' /\ (fresh' => cached'.spec = instance'.spec)
  BY DEF FencedInv, CopiesFenced, RunRecorded, Plausible
<1>3. CopiesFenced'
  BY <1>1, <1>2, CopiesFencedKept DEF FencedInv
<1> QED BY <1>3 DEF FencedInv

LEMMA ReturnFenced ==
  ASSUME FencedInv, Return, UNCHANGED <<cr, cached>>, NamedSettingsKept \/ ~RunRecorded
  PROVE  FencedInv'
BY QuietFenced, NothingStarted DEF Return

\* A write of the reconcile's own copy: nothing else changes.
LEMMA WriteFenced ==
  ASSUME IInv, FencedInv, fresh, NEW object, WriteObject(object),
         UNCHANGED workspaces, Plausible(cr)',
         object.spec = cr.spec, RunRecorded' => RunRecorded,
         (pc' = "idle" /\ ~fresh') \/ instance' = object,
         StartFacts', SettledFacts'
  PROVE  FencedInv'
<1>1. instance = cr /\ cr' = object /\ cached' = cached
  BY DEF IInv, OperatorInv, CopyInv, WriteObject
<1>2. InstanceKept
  BY <1>1 DEF InstanceKept
<1>3. NamedSettingsKept
  BY SameSettings DEF AllSettingsKept, NamedSettingsKept
<1>4. fresh' => cached'.spec = instance'.spec
  BY <1>1 DEF FencedInv, CopiesFenced
<1>5. CopiesFenced'
  BY <1>1, <1>2, <1>3, <1>4, CopiesFencedKept DEF FencedInv
<1> QED BY <1>5 DEF FencedInv

\* After a write the copy is the object at the API server.
LEMMA AwareOfOwn == cr' = instance' => Aware'
BY DEF Aware, RunRecorded

\* A new status in the copy and at the API server.
LEMMA WrittenStatus ==
  ASSUME IInv, fresh, NEW s, WriteObject(WithStatus(s))
  PROVE  /\ cr' = WithStatus(s) /\ cr'.status = s /\ cr'.spec = cr.spec
         /\ WithStatus(s).spec = cr.spec /\ instance = cr
<1>1. instance = cr /\ cr \in Object
  BY DEF IInv, OperatorInv, CopyInv, ObjectsInv, KubernetesApiTypeOK
<1> QED BY <1>1 DEF WriteObject, WithStatus, Object

(***************************************************************************)
(* Every step keeps FencedInv.                                             *)
(***************************************************************************)
\* The finalization only looks and deletes.
LEMMA DeleteStepFenced ==
  ASSUME FencedInv, UNCHANGED <<cr, cached, instance, fresh>>, AllSettingsKept,
         pc \in deleteSteps, pc' \in deleteSteps,
         local'.outputs = local.outputs, local'.outputsReset = local.outputsReset,
         local'.updated = local.updated
  PROVE  FencedInv'
<1>1. StartFacts'
  BY AwareKept DEF FencedInv, StartFacts, deleteSteps, finishedSteps, outputSteps,
     compareSteps, startSteps, moduleSteps
<1>2. SettledFacts' /\ pc # "idle"
  BY Unsettled DEF deleteSteps
<1>3. NamedSettingsKept
  BY DEF AllSettingsKept, NamedSettingsKept
<1> QED BY <1>1, <1>2, <1>3, QuietFenced

LEMMA CondDeleteFenced ==
  IInv /\ FencedInv /\ condDeleteSteps => FencedInv'
<1> SUFFICES ASSUME IInv, FencedInv, condDeleteSteps PROVE FencedInv'
  OBVIOUS
<1>1. pc \in deleteSteps /\ pc # "idle" /\ local \in Locals
  BY DEF condDeleteSteps, CondDeleteWorkspace, FinalizeWorkspace, DeleteRuns, ForceCancel,
         DeleteResources, CreateDestroyRun, AwaitDestroy, DeleteWorkspace, RemoveFinalizer,
         deleteSteps, IInv, OperatorInv, OperatorTypeOK
<1>2. AllSettingsKept
  <2>1. CASE UNCHANGED workspaces
    BY <2>1, SameSettings
  <2>2. CASE ForceCancel
    <3>1. \/ UNCHANGED workspaces
          \/ \E r \in RunIDs : isPending(runs[r].status) /\ CancelRun(r)
      BY <1>1, <2>2 DEF ForceCancel, Locals
    <3> QED BY <3>1, SameSettings, CancelRunSettings
  <2>3. CASE CreateDestroyRun \/ DeleteWorkspace
    <3>1. status.workspaceID \in WorkspaceIDs
      BY <1>1, <2>3, InstanceType DEF CreateDestroyRun, DeleteWorkspace, BeforeWorkspaceID
    <3>2. \/ UNCHANGED workspaces
          \/ \E r \in FreeRuns : CreateRun(r, status.workspaceID, TRUE, TRUE)
          \/ DeleteWorkspaceByID(status.workspaceID)
      BY <2>3 DEF CreateDestroyRun, DeleteWorkspace
    <3>3. CASE DeleteWorkspaceByID(status.workspaceID)
      <4> DEFINE w == status.workspaceID
      <4>1. w \in WorkspaceIDs /\ DeleteWorkspaceByID(w)
        BY <3>1, <3>3
      <4> HIDE DEF w
      <4> QED BY <4>1, DeleteWorkspaceSettings
    <3>4. ASSUME NEW r \in FreeRuns, CreateRun(r, status.workspaceID, TRUE, TRUE)
          PROVE  AllSettingsKept
      <4> DEFINE w == status.workspaceID
      <4>1. w \in WorkspaceIDs /\ r \in RunIDs /\ CreateRun(r, w, TRUE, TRUE)
        BY <3>1, <3>4 DEF FreeRuns
      <4> HIDE DEF w
      <4> QED BY <4>1, CreateRunSettings
    <3> QED BY <3>2, <3>3, <3>4, SameSettings
  <2> QED
    BY <2>1, <2>2, <2>3
       DEF condDeleteSteps, CondDeleteWorkspace, FinalizeWorkspace, DeleteRuns,
           DeleteResources, AwaitDestroy, RemoveFinalizer, tfcVars
<1>3. CASE RemoveFinalizer
  <2>1. Return /\ UNCHANGED workspaces
    BY <1>3 DEF RemoveFinalizer, tfcVars
  <2>2. CASE ~fresh
    BY <1>2, <1>3, <2>1, <2>2, ReturnFenced DEF RemoveFinalizer, AllSettingsKept, NamedSettingsKept
  <2>3. CASE fresh
    <3> DEFINE object == [WithFinalizer(FALSE) EXCEPT !.phase = "gone"]
    <3>1. WriteObject(object) /\ object.spec = cr.spec /\ object.status = cr.status
      BY <1>3, <2>3 DEF RemoveFinalizer, WithFinalizer, IInv, ObjectsInv, KubernetesApiTypeOK, Object
    <3> HIDE DEF object
    <3>2. cr' = object
      BY <3>1 DEF WriteObject
    <3>3. Plausible(cr)' /\ (RunRecorded' => RunRecorded)
      BY <3>1, <3>2 DEF FencedInv, CopiesFenced, Plausible, RunRecorded
    <3> QED BY <2>1, <2>3, <3>1, <3>3, NothingStarted, WriteFenced DEF Return
  <2> QED BY <2>2, <2>3
<1>4. CASE Return /\ ~RemoveFinalizer
  <2>1. UNCHANGED <<cr, cached>>
    BY <1>4 DEF condDeleteSteps, CondDeleteWorkspace, FinalizeWorkspace, DeleteRuns, ForceCancel,
         DeleteResources, CreateDestroyRun, AwaitDestroy, DeleteWorkspace, kubeVars
  <2> QED BY <1>2, <1>4, <2>1, ReturnFenced DEF AllSettingsKept, NamedSettingsKept
<1>5. CASE ~Return /\ ~RemoveFinalizer
  <2>1. /\ UNCHANGED <<cr, cached, instance, fresh>> /\ pc' \in deleteSteps
        /\ local'.outputs = local.outputs /\ local'.outputsReset = local.outputsReset
        /\ local'.updated = local.updated
    BY <1>1, <1>5
       DEF condDeleteSteps, CondDeleteWorkspace, FinalizeWorkspace, DeleteRuns, ForceCancel,
           DeleteResources, CreateDestroyRun, AwaitDestroy, DeleteWorkspace, kubeVars, Goto,
           deleteSteps, Locals
  <2> QED BY <1>1, <1>2, <2>1, DeleteStepFenced
<1> QED BY <1>3, <1>4, <1>5

LEMMA CheckWorkspaceFenced ==
  IInv /\ FencedInv /\ CheckWorkspace => FencedInv'
<1> SUFFICES ASSUME IInv, FencedInv, CheckWorkspace PROVE FencedInv'
  OBVIOUS
<1>1. UNCHANGED <<cr, cached>> /\ pc = "CheckWorkspace" /\ local \in Locals
  BY DEF CheckWorkspace, kubeVars, IInv, OperatorInv, OperatorTypeOK
<1>2. NamedSettingsKept
  <2>1. CASE UNCHANGED workspaces
    BY <2>1, SameSettings DEF AllSettingsKept, NamedSettingsKept
  <2>2. ASSUME NEW w \in FreeWorkspaces, CreateWorkspace(w, spec.organization, spec.vcs)
        PROVE  NamedSettingsKept
    <3>1. w # cached.status.workspaceID /\ w # instance.status.workspaceID
      BY <1>1 DEF FreeWorkspaces, RememberedStatuses, status
    <3>2. \A v \in WorkspaceIDs \ {w} : workspaces'[v] = workspaces[v]
      BY <2>2 DEF CreateWorkspace, IInv, CloudInv, TerraformCloudTypeOK
    <3> QED BY <3>1, <3>2 DEF NamedSettingsKept, SettingsKept, Live
  <2> QED BY <2>1, <2>2 DEF CheckWorkspace
<1>3. CASE Return
  BY <1>1, <1>2, <1>3, ReturnFenced
<1>4. CASE ~Return
  <2>1. /\ pc' = "recordWorkspaceID" /\ UNCHANGED <<instance, fresh>>
        /\ local'.outputs = local.outputs /\ local'.outputsReset = local.outputsReset
        /\ local'.updated = local.updated
    BY <1>1, <1>4 DEF CheckWorkspace, Goto, Locals
  <2>2. StartFacts'
    BY <1>1, <2>1, AwareKept DEF FencedInv, StartFacts, finishedSteps, outputSteps,
       compareSteps, startSteps, moduleSteps
  <2> QED BY <1>1, <1>2, <2>1, <2>2, Unsettled, QuietFenced
<1> QED BY <1>3, <1>4

LEMMA RecordWorkspaceIDFenced ==
  IInv /\ HeldInv /\ FencedInv /\ RecordWorkspaceID => FencedInv'
<1> SUFFICES ASSUME IInv, HeldInv, FencedInv, RecordWorkspaceID PROVE FencedInv'
  OBVIOUS
<1>1. /\ UNCHANGED workspaces /\ pc = "recordWorkspaceID" /\ NamedSettingsKept
      /\ \A w \in WorkspaceIDs : Live(w) => w = local.workspace
  BY SameSettings DEF RecordWorkspaceID, tfcVars, HeldInv, PathFacts, AllSettingsKept,
     NamedSettingsKept
<1>2. status \in WorkspaceStatus /\ local \in Locals
  BY <1>1, InstanceType
<1>3. ~local.updated /\ local.outputs = None
  BY <1>1 DEF FencedInv, StartFacts, compareSteps, startSteps, moduleSteps
<1>4. CASE /\ status.workspaceID = local.workspace
           /\ Goto("recordRunID") /\ UNCHANGED <<cr, cached, cacheFresh, local>>
  <2>1. StartFacts'
    BY <1>3, <1>4, AwareKept DEF FencedInv, StartFacts, Goto, finishedSteps, outputSteps,
       compareSteps, startSteps, moduleSteps
  <2>2. SettledFacts'
    BY <1>1, <1>4 DEF SettledFacts, Goto, startSteps, moduleSteps, Live, status
  <2> QED BY <1>1, <1>4, <2>1, <2>2, QuietFenced DEF Goto
<1>5. CASE Return /\ UNCHANGED <<cr, cached, cacheFresh>>
  BY <1>1, <1>5, ReturnFenced
<1>6. CASE /\ fresh /\ WriteObject(instance') /\ pc' = "recordRunID" /\ UNCHANGED <<fresh, aborts>>
           /\ instance' = WithStatus([status EXCEPT !.workspaceID = local.workspace,
                                                    !.outputs = None])
           /\ local' = [local EXCEPT !.outputsReset = TRUE]
  <2> DEFINE s == [status EXCEPT !.workspaceID = local.workspace, !.outputs = None]
  <2>1. /\ s.workspaceID = local.workspace /\ s.runID = status.runID
        /\ s.runStatus = status.runStatus /\ s.configVersionID = status.configVersionID
    BY <1>2 DEF WorkspaceStatus
  <2>2. instance' = WithStatus(s) /\ WriteObject(WithStatus(s))
    BY <1>6
  <2>3. /\ local'.outputs = None /\ local'.updated = local.updated
    BY <1>2, <1>3, <1>6 DEF Locals
  <2> HIDE DEF s
  <2>4. /\ cr' = WithStatus(s) /\ cr'.status = s /\ cr'.spec = cr.spec
        /\ WithStatus(s).spec = cr.spec /\ instance = cr
    BY <1>6, <2>2, WrittenStatus
  <2>5. Plausible(cr)' /\ (RunRecorded' => RunRecorded)
    BY <2>1, <2>4 DEF FencedInv, CopiesFenced, Plausible, RunRecorded, status
  <2>6. StartFacts'
    BY <1>3, <1>6, <2>2, <2>3, <2>4, AwareOfOwn DEF StartFacts, finishedSteps, outputSteps,
       compareSteps, startSteps, moduleSteps
  <2>7. SettledFacts'
    BY <1>1, <1>6, <2>1, <2>2, <2>4 DEF SettledFacts, startSteps, moduleSteps, Live
  <2> QED BY <1>1, <1>6, <2>2, <2>4, <2>5, <2>6, <2>7, WriteFenced
<1> QED BY <1>4, <1>5, <1>6 DEF RecordWorkspaceID

\* The steps under a workspace's ID that write no variable and no trigger.
LEMMA GotoFenced ==
  ASSUME FencedInv, UNCHANGED <<cr, cached>>, AllSettingsKept, NEW step, Goto(step),
         pc \notin deleteSteps \cup {"idle", "CheckWorkspace", "recordWorkspaceID"},
         step = "updateRunTriggers" => pc = "updateRunTriggers",
         step \in startSteps => pc \in startSteps,
         StartFacts'
  PROVE  FencedInv'
<1>1. SettledFacts'
  BY SettledFactsKept DEF FencedInv, Goto
<1> QED BY <1>1, QuietFenced DEF AllSettingsKept, NamedSettingsKept, Goto

\* A new status, that records no run which was not recorded.
LEMMA StatusFenced ==
  ASSUME IInv, FencedInv, fresh, NEW s, WriteObject(WithStatus(s)), UNCHANGED workspaces,
         s.workspaceID = status.workspaceID,
         isPending(s.runStatus) => isPending(status.runStatus),
         s.runID = None => s.runStatus = "",
         spec.vcs => s.configVersionID = None,
         \/ pc' = "idle" /\ ~fresh' /\ local' = NoLocals
         \/ /\ instance' = WithStatus(s) /\ StartFacts'
            /\ pc \notin deleteSteps \cup {"idle", "CheckWorkspace", "recordWorkspaceID"}
            /\ pc' = "updateRunTriggers" => pc = "updateRunTriggers"
            /\ pc' \in startSteps => pc \in startSteps
  PROVE  FencedInv'
<1>1. /\ cr' = WithStatus(s) /\ cr'.status = s /\ cr'.spec = cr.spec
      /\ WithStatus(s).spec = cr.spec /\ instance = cr
  BY WrittenStatus
<1>2. Plausible(cr)' /\ (RunRecorded' => RunRecorded)
  BY <1>1 DEF Plausible, RunRecorded, status, spec
<1>3. StartFacts' /\ SettledFacts'
  <2>1. CASE pc' = "idle" /\ local' = NoLocals
    BY <2>1, NothingStarted
  <2>2. CASE /\ instance' = WithStatus(s) /\ StartFacts'
             /\ pc \notin deleteSteps \cup {"idle", "CheckWorkspace", "recordWorkspaceID"}
             /\ pc' = "updateRunTriggers" => pc = "updateRunTriggers"
             /\ pc' \in startSteps => pc \in startSteps
    BY <1>1, <2>2, SameSettings, SettledFactsKept DEF FencedInv, status
  <2> QED BY <2>1, <2>2
<1> QED BY <1>1, <1>2, <1>3, WriteFenced

LEMMA ReconcileWorkspaceFenced ==
  IInv /\ FencedInv /\ (RecordRunID \/ AddFinalizer) => FencedInv'
<1> SUFFICES ASSUME IInv, FencedInv, RecordRunID \/ AddFinalizer PROVE FencedInv'
  OBVIOUS
<1>0. /\ pc \in {"recordRunID", "addFinalizer"} /\ UNCHANGED workspaces
      /\ pc \notin deleteSteps \cup {"idle", "CheckWorkspace", "recordWorkspaceID"}
  BY DEF RecordRunID, AddFinalizer, tfcVars, deleteSteps
<1>1. /\ status \in WorkspaceStatus /\ local \in Locals
      /\ AllSettingsKept /\ NamedSettingsKept
  BY <1>0, InstanceType, SameSettings DEF AllSettingsKept, NamedSettingsKept
<1>2. Plausible(instance) /\ ~local.updated /\ local.outputs = None
        /\ (local.outputsReset => Aware)
  BY <1>0 DEF FencedInv, CopiesFenced, StartFacts, compareSteps, startSteps, moduleSteps
<1>3. ASSUME UNCHANGED local, pc' \in {"addFinalizer", "runInProgress"}, Aware => Aware'
      PROVE  StartFacts'
  BY <1>2, <1>3 DEF StartFacts, finishedSteps, outputSteps, compareSteps, startSteps, moduleSteps
<1>4. ASSUME NEW step \in {"addFinalizer", "runInProgress"}, Goto(step),
             UNCHANGED <<cr, cached, local>>
      PROVE  FencedInv'
  <2>1. StartFacts'
    BY <1>3, <1>4, AwareKept DEF Goto
  <2> QED BY <1>0, <1>1, <1>4, <2>1, GotoFenced DEF startSteps, moduleSteps
<1>5. CASE Return /\ UNCHANGED <<cr, cached, cacheFresh>>
  BY <1>1, <1>5, ReturnFenced
<1>6. CASE RecordRunID
  <2> DEFINE s == [status EXCEPT !.runID = local.run]
  <2>1. CASE /\ status.runID # None /\ local.run # None /\ fresh
             /\ WriteObject(WithStatus(s)) /\ instance' = WithStatus(s)
             /\ pc' = "addFinalizer" /\ UNCHANGED <<fresh, local, aborts>>
    <3>1. /\ s.workspaceID = status.workspaceID /\ s.runStatus = status.runStatus
          /\ s.configVersionID = status.configVersionID /\ s.runID # None
      BY <1>1, <2>1 DEF WorkspaceStatus
    <3>2. WriteObject(WithStatus(s)) /\ instance' = WithStatus(s)
      BY <2>1
    <3>3. spec.vcs => s.configVersionID = None
      BY <1>2, <3>1 DEF Plausible, status, spec
    <3> HIDE DEF s
    <3>4. StartFacts'
      BY <1>3, <2>1, <3>2, AwareOfOwn DEF WriteObject
    <3> QED BY <1>0, <2>1, <3>1, <3>2, <3>3, <3>4, StatusFenced DEF startSteps, moduleSteps
  <2> QED BY <1>4, <1>5, <1>6, <2>1 DEF RecordRunID, Update
<1>7. CASE AddFinalizer
  <2> DEFINE object == WithFinalizer(TRUE)
  <2>1. CASE /\ fresh /\ WriteObject(object) /\ instance' = object
             /\ pc' = "runInProgress" /\ UNCHANGED <<fresh, local, aborts>>
    <3>1. /\ object.spec = cr.spec /\ object.status = cr.status /\ instance = cr
          /\ cr' = object
      BY <2>1 DEF WithFinalizer, WriteObject, IInv, OperatorInv, CopyInv, ObjectsInv,
         KubernetesApiTypeOK, Object
    <3> HIDE DEF object
    <3>2. Plausible(cr)' /\ (RunRecorded' => RunRecorded)
      BY <3>1 DEF FencedInv, CopiesFenced, Plausible, RunRecorded
    <3>3. StartFacts'
      BY <1>3, <2>1, <3>1, AwareOfOwn
    <3>4. SettledFacts'
      BY <1>0, <1>1, <2>1, <3>1, SettledFactsKept DEF FencedInv, startSteps, moduleSteps
    <3> QED BY <1>0, <2>1, <3>1, <3>2, <3>3, <3>4, WriteFenced
  <2> QED BY <1>4, <1>5, <1>7, <2>1 DEF AddFinalizer, Update
<1> QED BY <1>6, <1>7

LEMMA ProcessRunFenced ==
  IInv /\ FencedInv
    /\ (RunInProgress \/ RecordRunStatus \/ ProcessFinishedRun \/ RecordOutputs
          \/ UpsertSecretOutputs)
    => FencedInv'
<1> SUFFICES ASSUME IInv, FencedInv,
                    RunInProgress \/ RecordRunStatus \/ ProcessFinishedRun \/ RecordOutputs
                      \/ UpsertSecretOutputs
             PROVE  FencedInv'
  OBVIOUS
<1>0. /\ pc \in {"runInProgress", "recordRunStatus", "processFinishedRun",
                 "recordOutputs", "UpsertSecretOutputs"}
      /\ UNCHANGED workspaces
      /\ pc \notin deleteSteps \cup {"idle", "CheckWorkspace", "recordWorkspaceID"}
  BY DEF RunInProgress, RecordRunStatus, ProcessFinishedRun, RecordOutputs,
         UpsertSecretOutputs, tfcVars, deleteSteps
<1>1. /\ status \in WorkspaceStatus /\ local \in Locals
      /\ AllSettingsKept /\ NamedSettingsKept
  BY <1>0, InstanceType, SameSettings DEF AllSettingsKept, NamedSettingsKept
<1>2. Plausible(instance) /\ ~local.updated /\ (local.outputsReset => Aware)
  BY <1>0 DEF FencedInv, CopiesFenced, StartFacts, startSteps, moduleSteps
<1>3. ASSUME NEW step \in {"processFinishedRun", "recordRunStatus", "updateTerraformTemplate",
                           "recordOutputs", "UpsertSecretOutputs"},
             Goto(step), UNCHANGED <<cr, cached>>, StartFacts'
      PROVE  FencedInv'
  BY <1>0, <1>1, <1>3, GotoFenced DEF startSteps, moduleSteps
<1>4. CASE Return /\ UNCHANGED <<cr, cached>>
  BY <1>1, <1>4, ReturnFenced
<1>5. ASSUME local'.updated = local.updated, local'.outputsReset = local.outputsReset,
             pc' \in {"processFinishedRun", "recordRunStatus", "updateTerraformTemplate",
                      "recordOutputs", "UpsertSecretOutputs"},
             Aware => Aware',
             pc' = "recordRunStatus" => isPending(instance'.status.runStatus),
             pc' # "recordRunStatus" => ~isPending(instance'.status.runStatus),
             pc' \in {"processFinishedRun", "recordRunStatus"} => local'.outputs = None,
             pc' = "recordOutputs" /\ instance'.status.runID = None => local'.outputs = None,
             pc' \in compareSteps /\ instance'.status.runID = None => Aware'
      PROVE  StartFacts'
  BY <1>2, <1>5 DEF StartFacts, finishedSteps, outputSteps, compareSteps, startSteps, moduleSteps
<1>6. CASE RunInProgress
  <2>1. local.outputs = None
    BY <1>6 DEF RunInProgress, FencedInv, StartFacts, compareSteps, startSteps, moduleSteps
  <2>2. CASE /\ ~isPending(status.runStatus)
             /\ Goto("processFinishedRun") /\ UNCHANGED local
    <3>1. StartFacts'
      BY <1>5, <1>6, <2>1, <2>2, AwareKept DEF RunInProgress, kubeVars, Goto, status, compareSteps
    <3> QED BY <1>3, <1>6, <2>2, <3>1 DEF RunInProgress, kubeVars
  <2>3. CASE /\ isPending(status.runStatus)
             /\ \E t : local' = [local EXCEPT !.runStatus = t]
             /\ Goto("recordRunStatus")
    <3>1. /\ local'.updated = local.updated /\ local'.outputsReset = local.outputsReset
          /\ local'.outputs = local.outputs
      BY <1>1, <2>3 DEF Locals
    <3>2. StartFacts'
      BY <1>5, <1>6, <2>1, <2>3, <3>1, AwareKept DEF RunInProgress, kubeVars, Goto, status, compareSteps
    <3> QED BY <1>3, <1>6, <2>3, <3>2 DEF RunInProgress, kubeVars
  <2> QED BY <1>4, <1>6, <2>2, <2>3 DEF RunInProgress, kubeVars
<1>7. CASE RecordRunStatus
  <2> DEFINE s == [status EXCEPT !.runStatus = local.runStatus]
  <2>1. CASE fresh /\ WriteObject(WithStatus(s))
    <3>1. /\ s.workspaceID = status.workspaceID /\ s.runID = status.runID
          /\ s.configVersionID = status.configVersionID
      BY <1>1 DEF WorkspaceStatus
    <3>2. isPending(status.runStatus) /\ status.runID # None
      BY <1>2, <1>7 DEF RecordRunStatus, FencedInv, StartFacts, Plausible, status,
         isPending, PendingStatuses
    <3>3. spec.vcs => s.configVersionID = None
      BY <1>2, <3>1 DEF Plausible, status, spec
    <3>4. WriteObject(WithStatus(s)) /\ pc' = "idle" /\ ~fresh' /\ local' = NoLocals
      BY <1>7, <2>1 DEF RecordRunStatus, Return
    <3> HIDE DEF s
    <3> QED BY <1>0, <2>1, <3>1, <3>2, <3>3, <3>4, StatusFenced
  <2> QED BY <1>4, <1>7, <2>1 DEF RecordRunStatus
<1>8. CASE ProcessFinishedRun
  <2>1. ~isPending(status.runStatus) /\ local.outputs = None
    BY <1>8 DEF ProcessFinishedRun, FencedInv, StartFacts, finishedSteps, outputSteps,
       compareSteps, startSteps, moduleSteps, status
  <2>2. CASE status.runStatus = "errored" /\ Goto("updateTerraformTemplate") /\ UNCHANGED local
    <3>1. status.runID # None
      BY <1>2, <2>2 DEF Plausible, status
    <3>2. StartFacts'
      BY <1>5, <1>8, <2>1, <2>2, <3>1, AwareKept DEF ProcessFinishedRun, kubeVars, Goto, status
    <3> QED BY <1>3, <1>8, <2>2, <3>2 DEF ProcessFinishedRun, kubeVars
  <2>3. CASE Goto("recordOutputs") /\ UNCHANGED local
    <3>1. StartFacts'
      BY <1>5, <1>8, <2>1, <2>3, AwareKept DEF ProcessFinishedRun, kubeVars, Goto, status, compareSteps
    <3> QED BY <1>3, <1>8, <2>3, <3>1 DEF ProcessFinishedRun, kubeVars
  <2>4. CASE /\ status.runID # None /\ Goto("recordOutputs")
             /\ \E outputs : local' = [local EXCEPT !.outputs = outputs]
    <3>1. local'.updated = local.updated /\ local'.outputsReset = local.outputsReset
      BY <1>1, <2>4 DEF Locals
    <3>2. StartFacts'
      BY <1>5, <1>8, <2>1, <2>4, <3>1, AwareKept DEF ProcessFinishedRun, kubeVars, Goto, status, compareSteps
    <3> QED BY <1>3, <1>8, <2>4, <3>2 DEF ProcessFinishedRun, kubeVars
  <2> QED BY <1>4, <1>8, <2>2, <2>3, <2>4 DEF ProcessFinishedRun, kubeVars
<1>9. CASE RecordOutputs
  <2> DEFINE s == [status EXCEPT !.outputs = local.outputs]
  <2>1. /\ ~isPending(status.runStatus)
        /\ status.runID = None => local.outputs = None
    BY <1>9 DEF RecordOutputs, FencedInv, StartFacts, finishedSteps, outputSteps, status
  <2>2. CASE /\ fresh /\ WriteObject(WithStatus(s)) /\ instance' = WithStatus(s)
             /\ pc' = "UpsertSecretOutputs" /\ UNCHANGED <<fresh, local, aborts>>
    <3>1. /\ s.workspaceID = status.workspaceID /\ s.runID = status.runID
          /\ s.runStatus = status.runStatus /\ s.configVersionID = status.configVersionID
      BY <1>1 DEF WorkspaceStatus
    <3>2. spec.vcs => s.configVersionID = None
      BY <1>2, <3>1 DEF Plausible, status, spec
    <3>3. status.runID = None => s.runStatus = ""
      BY <1>2, <3>1 DEF Plausible, status
    <3>4. WriteObject(WithStatus(s)) /\ instance' = WithStatus(s)
      BY <2>2
    <3> HIDE DEF s
    <3>5. instance'.status = s /\ cr' = instance'
      BY <2>2, <3>4, WrittenStatus
    <3>6. StartFacts'
      BY <1>5, <2>1, <2>2, <3>1, <3>5, AwareOfOwn
    <3> QED BY <1>0, <2>2, <3>1, <3>2, <3>3, <3>4, <3>6, StatusFenced DEF startSteps, moduleSteps
  <2>3. CASE /\ ~(\/ local.outputs # status.outputs
                  \/ local.outputs = None /\ ~local.outputsReset)
             /\ Goto("UpsertSecretOutputs") /\ UNCHANGED <<cr, cached, local>>
    <3>1. status.runID = None => Aware
      BY <1>2, <2>1, <2>3
    <3>2. StartFacts'
      BY <1>5, <2>1, <2>3, <3>1, AwareKept DEF Goto, status
    <3> QED BY <1>3, <2>3, <3>2
  <2> QED BY <1>4, <1>9, <2>2, <2>3 DEF RecordOutputs, Update
<1>10. CASE UpsertSecretOutputs
  <2>1. /\ ~isPending(status.runStatus)
        /\ status.runID = None => Aware
    BY <1>10 DEF UpsertSecretOutputs, FencedInv, StartFacts, finishedSteps, compareSteps, status
  <2>2. StartFacts'
    BY <1>5, <1>10, <2>1, AwareKept DEF UpsertSecretOutputs, Goto, status
  <2> QED BY <1>3, <1>10, <2>2 DEF UpsertSecretOutputs
<1> QED BY <1>6, <1>7, <1>8, <1>9, <1>10

\* One of the comparisons writes the workspace that the copy names.  While a run
\* is recorded that the copy has for finished, it has nothing to write.
LEMMA ComparedWorkspace ==
  ASSUME IInv, FencedInv, pc \in compareSteps, NEW w \in WorkspacesNamed(spec.organization)
  PROVE  /\ w \in WorkspaceIDs /\ Live(w) /\ w = status.workspaceID
         /\ \A v \in WorkspaceIDs : Live(v) => v = w
         /\ workspaces[w] \in Workspace /\ workspaces \in [WorkspaceIDs -> Workspace]
         /\ RunRecorded =>
              workspaces[w].value = spec.value /\ workspaces[w].trigger = spec.trigger
<1>1. w \in WorkspaceIDs /\ Live(w)
  BY DEF WorkspacesNamed, Live
<1>2. pc \notin deleteSteps \cup {"idle", "CheckWorkspace", "recordWorkspaceID"}
  BY DEF compareSteps, deleteSteps
<1>3. \A v \in WorkspaceIDs : Live(v) => v = instance.status.workspaceID
  BY <1>2 DEF FencedInv, SettledFacts
<1>4. RunRecorded => Settled(instance)
  BY <1>2 DEF FencedInv, CopiesFenced, NotMisled, StartFacts, finishedSteps
<1>5. RunRecorded =>
        workspaces[w].value = spec.value /\ workspaces[w].trigger = spec.trigger
  BY <1>1, <1>3, <1>4 DEF Settled, spec
<1> QED BY <1>1, <1>3, <1>5 DEF status, IInv, CloudInv, TerraformCloudTypeOK

\* What a reconcile knows goes on from comparison to comparison.
LEMMA ComparisonFacts ==
  ASSUME FencedInv, pc \in compareSteps, UNCHANGED <<cr, instance>>,
         pc' \in {"updateVariables", "updateRunTriggers", "startRun"},
         local'.outputsReset = local.outputsReset,
         local'.updated /\ spec.vcs => Aware,
         pc' = "startRun" /\ spec.vcs => Aware
  PROVE  StartFacts'
<1>1. /\ ~isPending(instance.status.runStatus)
      /\ local.outputsReset => Aware
      /\ instance.status.runID = None => Aware
  BY DEF FencedInv, StartFacts, finishedSteps
<1>2. Aware => Aware'
  BY AwareKept
<1> QED
  BY <1>1, <1>2 DEF StartFacts, finishedSteps, outputSteps, compareSteps, startSteps,
     moduleSteps, spec

LEMMA StartConditionsFenced ==
  Steady /\ IInv /\ FencedInv
    /\ (UpdateTerraformTemplate \/ UpdateVariables \/ UpdateRunTriggers) => FencedInv'
<1> SUFFICES ASSUME Steady, IInv, FencedInv,
                    UpdateTerraformTemplate \/ UpdateVariables \/ UpdateRunTriggers
             PROVE  FencedInv'
  OBVIOUS
<1>0. /\ pc \in {"updateTerraformTemplate", "updateVariables", "updateRunTriggers"}
      /\ UNCHANGED <<runs, cr, cached>>
  BY DEF UpdateTerraformTemplate, UpdateVariables, UpdateRunTriggers, tfcVars, kubeVars
<1>1. /\ pc \in compareSteps /\ local \in Locals /\ status \in WorkspaceStatus
      /\ pc \notin deleteSteps \cup {"idle", "CheckWorkspace", "recordWorkspaceID"}
  BY <1>0, InstanceType DEF compareSteps, deleteSteps
<1>2. /\ local.updated /\ spec.vcs => Aware
      /\ Plausible(instance)
      /\ instance.status.runID = None => Aware
      /\ ~RunRecorded => Aware
  BY <1>1 DEF FencedInv, CopiesFenced, StartFacts, spec, Aware
<1>3. CASE Return /\ UNCHANGED workspaces
  BY <1>0, <1>3, SameSettings, ReturnFenced DEF AllSettingsKept, NamedSettingsKept
<1>4. CASE UpdateTerraformTemplate
  <2>1. CASE Goto("updateVariables")
    <3>1. /\ local' \in {local, [local EXCEPT !.updated = TRUE]}
          /\ spec.vcs => local' = local
      BY <1>4, <2>1 DEF UpdateTerraformTemplate, UpsertTerraformConfig, Goto, Return
    <3>2. /\ local'.outputsReset = local.outputsReset
          /\ local'.updated /\ spec.vcs => Aware
      BY <1>1, <1>2, <3>1 DEF Locals
    <3>3. StartFacts'
      BY <1>0, <1>1, <2>1, <3>2, ComparisonFacts DEF Goto
    <3>4. AllSettingsKept
      BY <1>4, SameSettings DEF UpdateTerraformTemplate, tfcVars
    <3> QED BY <1>0, <1>1, <2>1, <3>3, <3>4, GotoFenced DEF startSteps, moduleSteps
  <2> QED BY <1>3, <1>4, <2>1 DEF UpdateTerraformTemplate, UpsertTerraformConfig, tfcVars
<1>5. CASE UpdateVariables
  <2>1. ASSUME NEW w \in WorkspacesNamed(spec.organization),
               workspaces' = [workspaces EXCEPT ![w].value = spec.value],
               local' = [local EXCEPT !.updated =
                           @ \/ workspaces[w].value \notin {None, spec.value}],
               Goto("updateRunTriggers")
        PROVE  FencedInv'
    <3>1. /\ w \in WorkspaceIDs /\ w = status.workspaceID
          /\ \A v \in WorkspaceIDs : Live(v) => v = w
          /\ workspaces[w] \in Workspace /\ workspaces \in [WorkspaceIDs -> Workspace]
          /\ RunRecorded => workspaces[w].value = spec.value
      BY <1>1, ComparedWorkspace
    <3>2. /\ \A v \in WorkspaceIDs \ {w} : workspaces'[v] = workspaces[v]
          /\ workspaces'[w].live = workspaces[w].live
          /\ workspaces'[w].value = spec.value
          /\ workspaces'[w].trigger = workspaces[w].trigger
      BY <2>1, <3>1 DEF Workspace
    <3>3. NamedSettingsKept \/ ~RunRecorded
      BY <3>1, <3>2 DEF NamedSettingsKept, SettingsKept, Live
    <3>4. /\ local'.outputsReset = local.outputsReset
          /\ local'.updated /\ spec.vcs => Aware
      BY <1>1, <1>2, <2>1, <3>1 DEF Locals
    <3>5. StartFacts'
      BY <1>0, <1>1, <2>1, <3>4, ComparisonFacts DEF Goto
    <3>6. SettledFacts'
      BY <2>1, <3>1, <3>2 DEF Goto, SettledFacts, startSteps, moduleSteps, Live, status, spec
    <3> QED BY <1>0, <1>1, <2>1, <3>3, <3>5, <3>6, QuietFenced DEF Goto
  <2> QED BY <1>3, <1>5, <2>1 DEF UpdateVariables
<1>6. CASE UpdateRunTriggers
  <2>1. ASSUME NEW w \in WorkspacesNamed(spec.organization),
               workspaces' = [workspaces EXCEPT ![w].trigger = spec.trigger],
               NEW updated,
               updated = (local.updated \/ spec.trigger \notin {None, workspaces[w].trigger}),
               IF StartCondition(updated)
                 THEN /\ local' = [local EXCEPT !.updated = updated]
                      /\ Goto("startRun")
                 ELSE Return
        PROVE  FencedInv'
    <3>1. /\ w \in WorkspaceIDs /\ w = status.workspaceID
          /\ \A v \in WorkspaceIDs : Live(v) => v = w
          /\ workspaces[w] \in Workspace /\ workspaces \in [WorkspaceIDs -> Workspace]
          /\ RunRecorded => workspaces[w].trigger = spec.trigger
      BY <1>1, ComparedWorkspace
    <3>2. /\ \A v \in WorkspaceIDs \ {w} : workspaces'[v] = workspaces[v]
          /\ workspaces'[w].live = workspaces[w].live
          /\ workspaces'[w].value = workspaces[w].value
          /\ workspaces'[w].trigger = spec.trigger
      BY <2>1, <3>1 DEF Workspace
    <3>3. NamedSettingsKept \/ ~RunRecorded
      BY <3>1, <3>2 DEF NamedSettingsKept, SettingsKept, Live
    <3>4. CASE Return
      BY <1>0, <3>3, <3>4, ReturnFenced
    <3>5. CASE /\ StartCondition(updated)
               /\ local' = [local EXCEPT !.updated = updated] /\ Goto("startRun")
      <4>1. updated /\ spec.vcs => Aware
        BY <1>2, <2>1, <3>1
      <4>2. spec.vcs => Aware
        BY <1>2, <3>5, <4>1 DEF StartCondition, Plausible, status, spec
      <4>3. local'.outputsReset = local.outputsReset
        BY <1>1, <3>5 DEF Locals
      <4>4. StartFacts'
        BY <1>0, <1>1, <3>5, <4>2, <4>3, ComparisonFacts DEF Goto
      <4>5. SettledFacts'
        <5>1. pc = "updateRunTriggers" /\ workspaces[w].value = spec.value
          BY <1>6, <3>1 DEF UpdateRunTriggers, FencedInv, SettledFacts, WorkspacesNamed, Live, spec
        <5> QED
          BY <3>1, <3>2, <3>5, <5>1 DEF Goto, SettledFacts, Live, status, spec
      <4> QED BY <1>0, <1>1, <3>3, <3>5, <4>4, <4>5, QuietFenced DEF Goto
    <3> QED BY <2>1, <3>4, <3>5
  <2>2. Ignored = {}
    BY DEF Steady, Attentive
  <2> QED BY <1>3, <1>6, <2>1, <2>2 DEF UpdateRunTriggers
<1> QED BY <1>4, <1>5, <1>6

\* What a reconcile knows goes on until the run starts.
LEMMA StartRunFacts ==
  ASSUME FencedInv, pc \in startSteps, pc' \in startSteps \ {"startRun"},
         UNCHANGED <<cr, instance>> \/ cr' = instance',
         instance'.status.runStatus = instance.status.runStatus,
         instance'.spec = instance.spec,
         local'.outputsReset = local.outputsReset, local'.updated = local.updated,
         pc' \in moduleSteps => ~spec.vcs,
         pc' = "createRun" => Aware \/ cr' = instance',
         pc' = "recordRun" => local'.run # None
  PROVE  StartFacts'
<1>1. /\ ~isPending(instance.status.runStatus)
      /\ local.outputsReset => Aware
      /\ instance.status.runID = None => Aware
      /\ local.updated /\ instance.spec.vcs => Aware
  BY DEF FencedInv, StartFacts, finishedSteps
<1>2. Aware => Aware'
  BY AwareKept, AwareOfOwn
<1>3. CASE cr' = instance'
  BY <1>1, <1>3, AwareOfOwn
     DEF StartFacts, finishedSteps, outputSteps, compareSteps, startSteps, moduleSteps, spec
<1>4. CASE UNCHANGED <<cr, instance>>
  BY <1>1, <1>2, <1>4, AwareOfOwn
     DEF StartFacts, finishedSteps, outputSteps, compareSteps, startSteps, moduleSteps, spec
<1> QED BY <1>3, <1>4

LEMMA StartRunFenced ==
  IInv /\ FencedInv /\ startRunSteps => FencedInv'
<1> SUFFICES ASSUME IInv, FencedInv, startRunSteps PROVE FencedInv'
  OBVIOUS
<1>0. /\ pc \in startSteps
      /\ ~CreateApplyRun => UNCHANGED workspaces
  BY DEF startRunSteps, StartRun, CreateConfigurationVersion, UploadConfigurationFile,
         RecordConfigVersion, ReadConfigVersion, ResetConfigVersion, CreateApplyRun, RecordRun,
         tfcVars, startSteps, moduleSteps
<1>1. pc \notin deleteSteps \cup {"idle", "CheckWorkspace", "recordWorkspaceID"}
  BY <1>0 DEF deleteSteps, startSteps, moduleSteps
<1>2. /\ local \in Locals /\ status \in WorkspaceStatus /\ status.workspaceID \in WorkspaceIDs
  BY <1>0, <1>1, InstanceType DEF BeforeWorkspaceID, startSteps, moduleSteps
<1>3. /\ Plausible(instance) /\ ~isPending(status.runStatus)
      /\ pc \in moduleSteps => ~spec.vcs
      /\ pc = "startRun" /\ spec.vcs => Aware
      /\ pc = "createRun" => Aware
  BY <1>0, <1>1 DEF FencedInv, CopiesFenced, StartFacts, finishedSteps, status, spec
<1>4. ASSUME UNCHANGED <<workspaces, cr, cached>>, Return
      PROVE  FencedInv'
  BY <1>4, SameSettings, ReturnFenced DEF AllSettingsKept, NamedSettingsKept
<1>5. ASSUME NEW step \in startSteps \ {"startRun"}, AllSettingsKept,
             UNCHANGED <<cr, cached>>, Goto(step),
             local'.outputsReset = local.outputsReset, local'.updated = local.updated,
             step \in moduleSteps => ~spec.vcs,
             step = "createRun" => Aware,
             step = "recordRun" => local'.run # None
      PROVE  FencedInv'
  <2>1. StartFacts'
    BY <1>0, <1>5, StartRunFacts DEF Goto
  <2> QED BY <1>0, <1>1, <1>5, <2>1, GotoFenced DEF startSteps, moduleSteps
<1>6. CASE StartRun
  <2>1. CASE spec.vcs
    BY <1>3, <1>4, <1>5, <1>6, <2>1, SameSettings
       DEF StartRun, prepareVCSRun, tfcVars, kubeVars, startSteps, moduleSteps
  <2>2. CASE ~spec.vcs
    <3>1. \/ Return
          \/ /\ Goto("readConfigVersion") \/ Goto("CreateConfigurationVersion")
             /\ local'.outputsReset = local.outputsReset /\ local'.updated = local.updated
      BY <1>2, <1>6, <2>2 DEF StartRun, prepareModuleRun, Locals
    <3>2. UNCHANGED <<workspaces, cr, cached>>
      BY <1>6 DEF StartRun, tfcVars, kubeVars
    <3> QED BY <1>4, <1>5, <2>2, <3>1, <3>2, SameSettings DEF startSteps, moduleSteps
  <2> QED BY <2>1, <2>2
<1>7. CASE CreateConfigurationVersion \/ UploadConfigurationFile \/ ReadConfigVersion
  <2>1. /\ UNCHANGED <<workspaces, cr, cached>> /\ ~spec.vcs
        /\ pc \in moduleSteps
    BY <1>3, <1>7 DEF CreateConfigurationVersion, UploadConfigurationFile, ReadConfigVersion,
       tfcVars, kubeVars, moduleSteps
  <2>2. \/ Return
        \/ /\ Goto("UploadConfigurationFile") \/ Goto("recordConfigVersion")
                \/ Goto("resetConfigVersion")
           /\ local'.outputsReset = local.outputsReset /\ local'.updated = local.updated
    BY <1>2, <1>7 DEF CreateConfigurationVersion, UploadConfigurationFile, ReadConfigVersion, Locals
  <2> QED BY <1>4, <1>5, <2>1, <2>2, SameSettings DEF startSteps, moduleSteps
<1>8. ASSUME NEW c, NEW step \in {"readConfigVersion", "createRun"},
             Update(WithStatus([status EXCEPT !.configVersionID = c]), step),
             UNCHANGED workspaces, pc \in moduleSteps
      PROVE  FencedInv'
  <2> DEFINE s == [status EXCEPT !.configVersionID = c]
  <2>1. CASE /\ fresh /\ WriteObject(WithStatus(s)) /\ instance' = WithStatus(s)
             /\ pc' = step /\ UNCHANGED <<fresh, local, aborts>>
    <3>1. /\ s.workspaceID = status.workspaceID /\ s.runID = status.runID
          /\ s.runStatus = status.runStatus
      BY <1>2 DEF WorkspaceStatus
    <3>2. WriteObject(WithStatus(s)) /\ instance' = WithStatus(s)
      BY <2>1
    <3>3. s.runID = None => s.runStatus = ""
      BY <1>3, <3>1 DEF Plausible, status
    <3> HIDE DEF s
    <3>4. cr' = instance' /\ instance'.status = s /\ instance'.spec = instance.spec
      BY <2>1, <3>2, WrittenStatus
    <3>5. pc' \in startSteps \ {"startRun"}
      BY <2>1 DEF startSteps, moduleSteps
    <3>6. StartFacts'
      BY <1>0, <1>3, <1>8, <2>1, <3>1, <3>4, <3>5, StartRunFacts DEF status
    <3> QED BY <1>0, <1>1, <1>3, <1>8, <2>1, <3>1, <3>2, <3>3, <3>5, <3>6, StatusFenced
  <2> QED BY <1>4, <1>8, <2>1 DEF Update
<1>9. CASE RecordConfigVersion \/ ResetConfigVersion
  BY <1>8, <1>9 DEF RecordConfigVersion, ResetConfigVersion, tfcVars, moduleSteps
<1>10. CASE CreateApplyRun
  <2>1. CASE Return /\ UNCHANGED <<runs, workspaces>>
    BY <1>4, <1>10, <2>1 DEF CreateApplyRun, kubeVars
  <2>2. ASSUME NEW r \in FreeRuns, CreateRun(r, status.workspaceID, FALSE, TRUE),
               local' = [local EXCEPT !.run = r], Goto("recordRun")
        PROVE  FencedInv'
    <3>1. r \in RunIDs /\ UNCHANGED <<cr, cached>>
      BY <1>10 DEF FreeRuns, CreateApplyRun, kubeVars
    <3>2. AllSettingsKept
      BY <1>2, <2>2, <3>1, CreateRunSettings
    <3>3. /\ local'.outputsReset = local.outputsReset /\ local'.updated = local.updated
          /\ local'.run = r
      BY <1>2, <2>2 DEF Locals
    <3>4. r # None
      BY <3>1, TerraformCloudAssumption
    <3> QED BY <1>5, <2>2, <3>1, <3>2, <3>3, <3>4 DEF startSteps, moduleSteps
  <2> QED BY <1>10, <2>1, <2>2 DEF CreateApplyRun
<1>11. CASE RecordRun
  <2>1. UNCHANGED workspaces /\ Return /\ pc = "recordRun"
    BY <1>11 DEF RecordRun, tfcVars
  <2>2. CASE ~fresh
    BY <1>4, <1>11, <2>1, <2>2 DEF RecordRun
  <2>3. CASE fresh
    <3> DEFINE s == [status EXCEPT !.runID = local.run, !.runStatus = "pending"]
    <3>1. /\ s.workspaceID = status.workspaceID /\ s.configVersionID = status.configVersionID
          /\ isPending(s.runStatus) /\ s.runID = local.run
      BY <1>2 DEF WorkspaceStatus, isPending, PendingStatuses
    <3>2. WriteObject(WithStatus(s))
      BY <1>11, <2>3 DEF RecordRun
    <3> HIDE DEF s
    <3>3. /\ cr'.status = s /\ cr'.spec = cr.spec /\ cached' = cached /\ instance = cr
      BY <2>3, <3>2, WrittenStatus DEF WriteObject
    <3>4. Settled(cached)'
      <4>1. cached.spec = instance.spec
        BY <2>3 DEF FencedInv, CopiesFenced
      <4>2. \A w \in WorkspaceIDs : Live(w) =>
              workspaces[w].value = cached.spec.value /\ workspaces[w].trigger = cached.spec.trigger
        BY <1>0, <4>1 DEF FencedInv, SettledFacts
      <4> QED BY <2>1, <3>3, <4>2 DEF Settled, Live
    <3>5. Plausible(cr)' /\ Plausible(cached)'
      <4>1. local.run # None
        BY <2>1 DEF FencedInv, StartFacts
      <4> QED BY <1>3, <3>1, <3>3, <4>1 DEF FencedInv, CopiesFenced, Plausible, status, spec
    <3>6. CopiesFenced'
      BY <2>1, <3>4, <3>5 DEF CopiesFenced, NotMisled, Return
    <3> QED BY <2>1, <3>6, NothingStarted DEF FencedInv, Return
  <2> QED BY <2>2, <2>3
<1> QED BY <1>6, <1>7, <1>9, <1>10, <1>11 DEF startRunSteps

\* A step of the environment: the reconcile stays where it is.
LEMMA EnvironmentFenced ==
  ASSUME IInv, FencedInv, AllSettingsKept, UNCHANGED <<pc, instance, local>>,
         fresh' => fresh /\ cr' = cr, cached' \in {cached, cr},
         cr'.status = cr.status, cr'.spec.vcs = cr.spec.vcs
  PROVE  FencedInv'
<1>1. RunRecorded' = RunRecorded /\ Aware' = Aware /\ Plausible(cr)' /\ InstanceKept
  BY DEF FencedInv, CopiesFenced, RunRecorded, Aware, Plausible, InstanceKept
<1>2. fresh' => cached'.spec = instance'.spec
  BY DEF FencedInv, CopiesFenced, IInv, OperatorInv, CopyInv
<1>3. CopiesFenced'
  BY <1>1, <1>2, CopiesFencedKept DEF FencedInv, AllSettingsKept, NamedSettingsKept
<1>4. StartFacts'
  BY <1>1 DEF FencedInv, StartFacts, NoLocals
<1>5. SettledFacts'
  BY DEF FencedInv, SettledFacts, AllSettingsKept, SettingsKept
<1> QED BY <1>3, <1>4, <1>5 DEF FencedInv

LEMMA KubernetesStepFenced ==
  ~KindEdits /\ IInv /\ FencedInv /\ KubernetesStep => FencedInv'
<1> SUFFICES ASSUME ~KindEdits, IInv, FencedInv, KubernetesStep PROVE FencedInv'
  OBVIOUS
<1>1. /\ UNCHANGED <<pc, instance, local>> /\ AllSettingsKept
      /\ fresh' => fresh /\ cr' = cr
  BY SameSettings DEF KubernetesStep, CacheSync, ConfigMapCacheSync, GarbageCollect, tfcVars
<1>2. cr \in Object
  BY DEF IInv, ObjectsInv, KubernetesApiTypeOK
<1>3. cached' \in {cached, cr} /\ cr'.status = cr.status /\ cr'.spec.vcs = cr.spec.vcs
  <2>1. CASE UserEdits
    BY <1>2, <2>1 DEF UserEdits, Object
  <2>2. CASE UserDeletes
    BY <1>2, <2>2 DEF UserDeletes, Object
  <2>3. CASE CacheSync \/ ConfigMapCacheSync \/ GarbageCollect
    BY <2>3 DEF CacheSync, ConfigMapCacheSync, GarbageCollect
  <2> QED BY <2>1, <2>2, <2>3 DEF KubernetesStep
<1> QED BY <1>1, <1>3, EnvironmentFenced

LEMMA FencedInit == Init => FencedInv
<1> SUFFICES ASSUME Init PROVE FencedInv
  OBVIOUS
<1>1. /\ cr.status = BlankStatus /\ cached = cr /\ pc = "idle" /\ local = NoLocals /\ ~fresh
      /\ workspaces = [w \in WorkspaceIDs |-> NoWorkspace]
  BY DEF Init, KubernetesApiInit, TerraformCloudInit
<1>2. /\ BlankStatus.runStatus = "" /\ BlankStatus.runID = None
      /\ BlankStatus.configVersionID = None
  BY DEF BlankStatus
<1>3. ~RunRecorded /\ Plausible(cr)
  BY <1>1, <1>2 DEF RunRecorded, Plausible, isPending, PendingStatuses
<1>4. StartFacts
  BY <1>1 DEF StartFacts, NoLocals, finishedSteps, outputSteps, compareSteps, startSteps,
     moduleSteps
<1>5. SettledFacts
  BY <1>1 DEF SettledFacts, Live, NoWorkspace
<1> QED BY <1>1, <1>3, <1>4, <1>5 DEF FencedInv, CopiesFenced

LEMMA InitializeFenced ==
  IInv /\ FencedInv /\ InitializeReconciliation => FencedInv'
<1> SUFFICES ASSUME IInv, FencedInv, InitializeReconciliation PROVE FencedInv'
  OBVIOUS
<1>1. /\ UNCHANGED <<workspaces, cr, cached, local>> /\ instance' = cached
      /\ pc = "idle" /\ pc' \in {"condDeleteWorkspace", "CheckWorkspace"}
  BY DEF InitializeReconciliation, tfcVars, kubeVars
<1>2. CopiesFenced'
  BY <1>1, SameSettings, CopiesFencedKept
     DEF FencedInv, CopiesFenced, Plausible, RunRecorded, InstanceKept, AllSettingsKept,
         NamedSettingsKept
<1>0. NoLocals.outputs = None /\ ~NoLocals.outputsReset /\ ~NoLocals.updated
  BY DEF NoLocals
<1>3. local'.outputs = None /\ ~local'.outputsReset /\ ~local'.updated
  BY <1>0, <1>1 DEF FencedInv, StartFacts
<1>4. StartFacts'
  BY <1>1, <1>3 DEF StartFacts, finishedSteps, outputSteps, compareSteps, startSteps, moduleSteps
<1> QED BY <1>1, <1>2, <1>4, Unsettled DEF FencedInv, deleteSteps

LEMMA FencedNext ==
  Steady /\ IInv /\ HeldInv /\ FencedInv /\ [Next]_vars => FencedInv'
<1> SUFFICES ASSUME Steady, IInv, HeldInv, FencedInv, [Next]_vars PROVE FencedInv'
  OBVIOUS
<1>1. CASE UNCHANGED vars
  <2>1. AllSettingsKept
    BY <1>1, SameSettings DEF vars, tfcVars
  <2> QED BY <1>1, <2>1, EnvironmentFenced DEF vars, kubeVars, operatorVars
<1>2. CASE Abort
  <2>1. AllSettingsKept
    BY <1>2, SameSettings DEF Abort, tfcVars
  <2> QED
    BY <1>2, <2>1, QuietFenced, NothingStarted
       DEF Abort, kubeVars, AllSettingsKept, NamedSettingsKept
<1>3. CASE TerraformCloudStep
  <2>1. AllSettingsKept
    BY <1>3, TerraformCloudSettings
  <2> QED BY <1>3, <2>1, EnvironmentFenced DEF TerraformCloudStep, kubeVars, operatorVars
<1>4. CASE KubernetesStep
  BY <1>4, KubernetesStepFenced DEF Steady
<1> QED
  BY <1>1, <1>2, <1>3, <1>4, InitializeFenced, CondDeleteFenced, CheckWorkspaceFenced,
     RecordWorkspaceIDFenced, ReconcileWorkspaceFenced, ProcessRunFenced,
     StartConditionsFenced, StartRunFenced
     DEF Next, Reconcile, InstanceGone, reconcileSteps

LEMMA FencedInvariance == ASSUME Steady PROVE Spec => []FencedInv
<1>1. Attentive
  BY DEF Steady
<1>2. IInv /\ HeldInv /\ FencedInv /\ [Next]_vars => FencedInv'
  BY FencedNext
<1> QED BY <1>1, <1>2, FencedInit, Invariance, HeldInvariance, PTL DEF Spec

\* A run starts in the workspace on record, under the finalizer, and when none
\* is recorded as unfinished.
LEMMA StartStep ==
  IInv /\ HeldInv /\ FencedInv /\ [Next]_vars
    => (pc = "createRun" /\ pc' = "recordRun"
          => /\ cr.finalizer
             /\ ~isPending(cr.status.runStatus)
             /\ cr.status.workspaceID = runs'[local'.run].workspace)
<1> SUFFICES ASSUME IInv, HeldInv, FencedInv, [Next]_vars, pc = "createRun", pc' = "recordRun"
             PROVE  /\ cr.finalizer
                    /\ ~isPending(cr.status.runStatus)
                    /\ cr.status.workspaceID = runs'[local'.run].workspace
  OBVIOUS
<1>1. CreateApplyRun /\ ~Return
  BY DEF Next, vars, operatorVars, Reconcile, Abort, InitializeReconciliation, InstanceGone,
     condDeleteSteps, CondDeleteWorkspace, FinalizeWorkspace, DeleteRuns, ForceCancel,
     DeleteResources, CreateDestroyRun, AwaitDestroy, DeleteWorkspace, RemoveFinalizer,
     reconcileSteps, CheckWorkspace, RecordWorkspaceID, RecordRunID, AddFinalizer,
     RunInProgress, RecordRunStatus, ProcessFinishedRun, RecordOutputs, UpsertSecretOutputs,
     UpdateTerraformTemplate, UpdateVariables, UpdateRunTriggers,
     startRunSteps, StartRun, CreateConfigurationVersion, UploadConfigurationFile,
     RecordConfigVersion, ReadConfigVersion, ResetConfigVersion, RecordRun, Return,
     TerraformCloudStep, KubernetesStep
<1>2. PICK r \in FreeRuns : /\ workspaces[status.workspaceID].live
                            /\ CreateRun(r, status.workspaceID, FALSE, TRUE)
                            /\ local' = [local EXCEPT !.run = r]
  BY <1>1 DEF CreateApplyRun
<1>3. status.workspaceID \in WorkspaceIDs /\ local \in Locals /\ r \in RunIDs
  BY InstanceType DEF BeforeWorkspaceID, FreeRuns
<1>4. runs'[local'.run].workspace = status.workspaceID
  BY <1>2, <1>3 DEF CreateRun, Locals, IInv, CloudInv, TerraformCloudTypeOK
<1>5. instance.finalizer
  BY DEF HeldInv, PathFacts, deleteSteps, unheldSteps
<1>6. cr.finalizer /\ cr.status.workspaceID = status.workspaceID
  BY <1>2, <1>3, <1>5 DEF HeldInv, CopiesInv, Outdated, Live, status
<1>7. ~isPending(cr.status.runStatus)
  BY DEF FencedInv, StartFacts, Aware, RunRecorded, finishedSteps, startSteps
<1> QED BY <1>4, <1>6, <1>7

\* However old its copy is, however often reconciles are cut short and whatever
\* runs users start or workspaces they delete, a reconcile does not start a run
\* beside one that the status records, nor without the finalizer that will stop
\* it, nor in another workspace than the one on record.
THEOREM RunsFenced ==
  ASSUME Steady PROVE Spec => StartFenced
<1>1. Attentive
  BY DEF Steady
<1> QED
  BY <1>1, StartStep, Invariance, HeldInvariance, FencedInvariance, PTL DEF Spec, StartFenced

===============================================================================
