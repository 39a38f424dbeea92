-------------------------- MODULE WorkspaceOperator --------------------------
(***************************************************************************)
(* WorkspaceHelper.Reconcile (workspacehelper/workspace_helper.go) for one *)
(* Workspace object, running against Terraform Cloud and Kubernetes.       *)
(*                                                                         *)
(* The controller has one worker, so one reconcile of the object runs at a *)
(* time.  It is not atomic: pc names the function whose next call is due,  *)
(* one action makes one call to an API together with the code around it,   *)
(* and the environment moves between any two calls.  Whatever a reconcile  *)
(* has in memory, its copy of the object included, is lost when it         *)
(* returns.  Every path ends in a requeue, or leaves the object gone, so   *)
(* the worker at pc = "idle" can always start the next one.                *)
(***************************************************************************)
EXTENDS KubernetesApi

CONSTANTS
  EditAt,            \* where a reconcile may be when users edit the object
  AbortAt,           \* the calls that may fail: a subset of Steps
  MaxAborts,         \* bound: how many of them do
  Ignored            \* the calls that may fail without the code noticing

Steps ==
  {"idle", "condDeleteWorkspace", "finalizeWorkspace", "DeleteRuns",
   "ForceCancel", "DeleteResources", "createDestroyRun", "awaitDestroy",
   "DeleteWorkspace", "removeFinalizer", "CheckWorkspace", "recordWorkspaceID",
   "recordRunID", "addFinalizer", "runInProgress", "recordRunStatus",
   "processFinishedRun", "recordOutputs", "UpsertSecretOutputs",
   "updateTerraformTemplate", "updateVariables", "updateRunTriggers",
   "startRun", "CreateConfigurationVersion", "UploadConfigurationFile",
   "recordConfigVersion", "readConfigVersion", "resetConfigVersion",
   "createRun", "recordRun"}

ASSUME WorkspaceOperatorAssumption ==
  /\ EditAt \subseteq Steps
  /\ AbortAt \subseteq Steps \ {"idle"}
  /\ MaxAborts \in Nat
  /\ Ignored \subseteq {"finalizeWorkspace", "DeleteWorkspace", "CreateRunTrigger"}

VARIABLES
  pc,
  instance,          \* the reconcile's copy of the object
  fresh,             \* instance is at the API server's version
  local,             \* the reconcile's other variables
  aborts             \* failed calls so far

operatorVars == <<pc, instance, fresh, local, aborts>>
vars == <<tfcVars, kubeVars, operatorVars>>

Locals ==
  [workspace: WorkspaceIDs \cup {None}, run: RunIDs \cup {None},
   toCancel: SUBSET RunIDs, runStatus: PendingStatuses \cup FinalStatuses \cup {""},
   outputs: Outputs, outputsReset: BOOLEAN, updated: BOOLEAN,
   template: Templates \cup {None}, configVersion: ConfigVersionIDs \cup {None}]

NoLocals ==
  [workspace |-> None, run |-> None, toCancel |-> {}, runStatus |-> "",
   outputs |-> None, outputsReset |-> FALSE, updated |-> FALSE,
   template |-> None, configVersion |-> None]

TypeOK ==
  /\ TerraformCloudTypeOK
  /\ KubernetesApiTypeOK
  /\ pc \in Steps
  /\ instance \in Object \cup {None}
  /\ pc # "idle" => instance \in Object
  /\ fresh \in BOOLEAN
  /\ local \in Locals
  /\ aborts \in 0 .. MaxAborts

Init ==
  /\ TerraformCloudInit
  /\ KubernetesApiInit
  /\ pc = "idle"
  /\ instance = None
  /\ fresh = FALSE
  /\ local = NoLocals
  /\ aborts = 0

status == instance.status
spec == instance.spec

\* IDs are unique: Terraform Cloud reuses one in the model only when no run, no
\* workspace and no status or local variable mentions it any more.
RememberedStatuses ==
  {cr.status, cached.status} \cup (IF pc = "idle" THEN {} ELSE {status})

FreeRuns ==
  {r \in RunIDs :
     /\ ~isPending(runs[r].status)
     /\ \A w \in WorkspaceIDs : workspaces[w].currentRun # r
     /\ \A s \in RememberedStatuses : s.runID # r
     /\ r # local.run /\ r \notin local.toCancel}

FreeWorkspaces ==
  {w \in WorkspaceIDs :
     /\ ~workspaces[w].live
     /\ \A s \in RememberedStatuses :
          s.workspaceID # w /\ (s.outputs # None => s.outputs.workspace # w)
     /\ w # local.workspace}

FreeConfigVersions ==
  {c \in ConfigVersionIDs :
     /\ \A s \in RememberedStatuses : s.configVersionID # c
     /\ c # local.configVersion
     /\ ~(configVersions[c].status = "pending" /\ configVersions[c].template # None)}

(***************************************************************************)
(* How a step ends.                                                        *)
(***************************************************************************)
Goto(step) == pc' = step /\ UNCHANGED <<instance, fresh, aborts>>

\* Reconcile returns, with an error or without one.
Return ==
  /\ pc' = "idle"
  /\ instance' = None
  /\ fresh' = FALSE
  /\ local' = NoLocals
  /\ UNCHANGED aborts

\* A write of the object: the answer replaces the copy; a conflict, or the
\* object's disappearance, ends the reconcile.
Update(object, step) ==
  \/ /\ fresh
     /\ WriteObject(object)
     /\ instance' = object
     /\ pc' = step
     /\ UNCHANGED <<fresh, local, aborts>>
  \/ /\ ~fresh
     /\ Return
     /\ UNCHANGED <<cr, cached, cacheFresh>>

\* The status is a subresource: client.Status().Update writes nothing else, and
\* client.Update writes everything else.
WithStatus(newStatus) == [cr EXCEPT !.status = newStatus]
WithFinalizer(finalizer) == [cr EXCEPT !.finalizer = finalizer]

\* An error of the call that is due, a lost answer to the one before, a crash
\* or a restart of the operator: the reconcile is over.
Abort ==
  /\ pc \in AbortAt
  /\ aborts < MaxAborts
  /\ aborts' = aborts + 1
  /\ pc' = "idle"
  /\ instance' = None
  /\ fresh' = FALSE
  /\ local' = NoLocals
  /\ UNCHANGED <<tfcVars, kubeVars>>

unchangedObjects == <<configMap, cachedConfigMap, secret, edits>>

(***************************************************************************)
(* initializeReconciliation and the test of the deletion timestamp.        *)
(***************************************************************************)
InitializeReconciliation ==
  /\ pc = "idle"
  /\ "workspace" \in Timely => cacheFresh
  /\ cached.phase # "gone"
  /\ instance' = cached
  /\ fresh' = cacheFresh
  /\ pc' = IF cached.phase = "deleting" THEN "condDeleteWorkspace"
                                        ELSE "CheckWorkspace"
  /\ UNCHANGED <<local, aborts, tfcVars, kubeVars>>

\* The object is not in the cache: nothing to do.
InstanceGone ==
  /\ pc = "idle"
  /\ cached.phase = "gone"
  /\ UNCHANGED vars

(***************************************************************************)
(* condDeleteWorkspace and finalizeWorkspace.                              *)
(***************************************************************************)
\* Mutant: a workspace that is already deleted is an error here, too.
CondDeleteWorkspaceMustExist ==
  /\ pc = "condDeleteWorkspace"
  /\ UNCHANGED <<tfcVars, kubeVars>>
  /\ IF status.workspaceID = None \/ ~workspaces[status.workspaceID].live
       THEN Return
       ELSE /\ Goto(IF instance.finalizer THEN "finalizeWorkspace"
                                          ELSE "removeFinalizer")
            /\ UNCHANGED local

\* The first look at the workspace: an empty ID is an error, a workspace that
\* is not there is not.
CondDeleteWorkspace ==
  /\ pc = "condDeleteWorkspace"
  /\ UNCHANGED <<tfcVars, kubeVars>>
  /\ IF status.workspaceID = None
       THEN Return
       ELSE /\ Goto(IF instance.finalizer THEN "finalizeWorkspace"
                                          ELSE "removeFinalizer")
            /\ UNCHANGED local

\* Mutant: nothing is finalized for a Workspace that records no run.
FinalizeWorkspaceWithRun ==
  /\ pc = "finalizeWorkspace"
  /\ UNCHANGED <<tfcVars, kubeVars, instance, fresh, local, aborts>>
  /\ pc' = IF workspaces[status.workspaceID].live /\ status.runID # None
             THEN "DeleteRuns" ELSE "removeFinalizer"

\* The second look: any error at all skips the finalization.
FinalizeWorkspace ==
  /\ pc = "finalizeWorkspace"
  /\ UNCHANGED <<tfcVars, kubeVars, instance, fresh, local>>
  /\ \/ /\ pc' = IF workspaces[status.workspaceID].live THEN "DeleteRuns"
                                                        ELSE "removeFinalizer"
        /\ UNCHANGED aborts
     \/ /\ "finalizeWorkspace" \in Ignored
        /\ aborts < MaxAborts
        /\ aborts' = aborts + 1
        /\ pc' = "removeFinalizer"

DeleteRuns ==
  /\ pc = "DeleteRuns"
  /\ UNCHANGED <<tfcVars, kubeVars>>
  /\ IF ~workspaces[status.workspaceID].live
       THEN Return
       ELSE /\ local' = [local EXCEPT !.toCancel = ActiveRunsOf(status.workspaceID)]
            /\ Goto("ForceCancel")

\* Each run that was listed as pending is cancelled.  Terraform Cloud may
\* refuse, and does so when the run has finished in the meantime.
ForceCancel ==
  /\ pc = "ForceCancel"
  /\ UNCHANGED <<kubeVars, configVersions, outOfBand>>
  /\ \/ /\ local.toCancel = {}
        /\ Goto("DeleteResources")
        /\ UNCHANGED <<local, runs, workspaces>>
     \/ \E r \in local.toCancel :
          \/ /\ isPending(runs[r].status)
             /\ CancelRun(r)
             /\ local' = [local EXCEPT !.toCancel = @ \ {r}]
             /\ Goto("ForceCancel")
          \/ Return /\ UNCHANGED <<runs, workspaces>>

DeleteResources ==
  /\ pc = "DeleteResources"
  /\ UNCHANGED <<tfcVars, kubeVars>>
  /\ LET ws == workspaces[status.workspaceID]
     IN IF ~ws.live
          THEN Return
          ELSE /\ Goto(IF ws.currentRun = None THEN "DeleteWorkspace"
                                               ELSE "createDestroyRun")
               /\ UNCHANGED local

CreateDestroyRun ==
  /\ pc = "createDestroyRun"
  /\ UNCHANGED <<kubeVars, configVersions, outOfBand>>
  /\ IF workspaces[status.workspaceID].live /\ FreeRuns # {}
       THEN LET r == CHOOSE r \in FreeRuns : TRUE
            IN /\ CreateRun(r, status.workspaceID, TRUE, TRUE)
               /\ local' = [local EXCEPT !.run = r]
               /\ Goto("awaitDestroy")
       ELSE Return /\ UNCHANGED <<runs, workspaces>>

\* Mutant: an errored destroy run counts as finished.
AwaitDestroyFinished ==
  /\ pc = "awaitDestroy"
  /\ ~isPending(runs[local.run].status)
  /\ Goto("DeleteWorkspace")
  /\ UNCHANGED <<tfcVars, kubeVars, local>>

\* The poll loop inside DeleteResources; it blocks the worker.  Every status
\* that is final and not "errored" counts as success.
AwaitDestroy ==
  /\ pc = "awaitDestroy"
  /\ ~isPending(runs[local.run].status)
  /\ UNCHANGED <<tfcVars, kubeVars>>
  /\ IF runs[local.run].status \in {"", "errored"}
       THEN Return
       ELSE Goto("DeleteWorkspace") /\ UNCHANGED local

\* An error is logged and otherwise ignored.
DeleteWorkspace ==
  /\ pc = "DeleteWorkspace"
  /\ pc' = "removeFinalizer"
  /\ UNCHANGED <<kubeVars, instance, fresh, local, outOfBand>>
  /\ \/ /\ workspaces[status.workspaceID].live
        /\ DeleteWorkspaceByID(status.workspaceID)
        /\ UNCHANGED aborts
     \/ /\ ~workspaces[status.workspaceID].live
        /\ UNCHANGED <<workspaces, runs, configVersions, aborts>>
     \/ /\ "DeleteWorkspace" \in Ignored
        /\ aborts < MaxAborts
        /\ aborts' = aborts + 1
        /\ UNCHANGED <<workspaces, runs, configVersions>>

\* Without its finalizer the object goes away.
RemoveFinalizer ==
  /\ pc = "removeFinalizer"
  /\ IF fresh
       THEN WriteObject([WithFinalizer(FALSE) EXCEPT !.phase = "gone"])
       ELSE UNCHANGED <<cr, cached, cacheFresh>>
  /\ Return
  /\ UNCHANGED <<tfcVars, unchangedObjects>>

(***************************************************************************)
(* reconcileWorkspace.                                                     *)
(***************************************************************************)
\* The workspace is looked up by its name in the organization of the spec, and
\* created when there is none.
CheckWorkspace ==
  /\ pc = "CheckWorkspace"
  /\ UNCHANGED <<kubeVars, runs, configVersions, outOfBand>>
  /\ \/ \E w \in WorkspacesNamed(spec.organization) :
          /\ local' = [local EXCEPT !.workspace = w, !.run = workspaces[w].currentRun]
          /\ Goto("recordWorkspaceID")
          /\ UNCHANGED workspaces
     \/ /\ WorkspacesNamed(spec.organization) = {}
        /\ IF FreeWorkspaces = {}
             THEN Return /\ UNCHANGED workspaces
             ELSE LET w == CHOOSE w \in FreeWorkspaces : TRUE
                  IN /\ CreateWorkspace(w, spec.organization, spec.vcs)
                     /\ local' = [local EXCEPT !.workspace = w]
                     /\ Goto("recordWorkspaceID")

\* Mutant: the outputs of the old workspace stay.
RecordWorkspaceIDOnly ==
  /\ pc = "recordWorkspaceID"
  /\ UNCHANGED <<tfcVars, unchangedObjects>>
  /\ IF status.workspaceID = local.workspace
       THEN Goto("recordRunID") /\ UNCHANGED <<cr, cached, cacheFresh, local>>
       ELSE Update(WithStatus([status EXCEPT !.workspaceID = local.workspace]),
                   "recordRunID")

\* Mutant: the ID is set in the copy and left to a later write of the status.
RecordWorkspaceIDInMemory ==
  /\ pc = "recordWorkspaceID"
  /\ instance' = WithStatus([status EXCEPT !.workspaceID = local.workspace,
                                          !.outputs = None])
  /\ pc' = "recordRunID"
  /\ UNCHANGED <<tfcVars, kubeVars, fresh, local, aborts>>

\* A different workspace from the recorded one: its ID is recorded and the
\* outputs are emptied, the run ID and the run status stay.
RecordWorkspaceID ==
  /\ pc = "recordWorkspaceID"
  /\ UNCHANGED <<tfcVars, unchangedObjects>>
  /\ IF status.workspaceID = local.workspace
       THEN Goto("recordRunID") /\ UNCHANGED <<cr, cached, cacheFresh, local>>
       ELSE \/ /\ fresh
               /\ instance' = WithStatus([status EXCEPT !.workspaceID = local.workspace,
                                                       !.outputs = None])
               /\ WriteObject(instance')
               /\ local' = [local EXCEPT !.outputsReset = TRUE]
               /\ pc' = "recordRunID"
               /\ UNCHANGED <<fresh, aborts>>
            \/ ~fresh /\ Return /\ UNCHANGED <<cr, cached, cacheFresh>>

\* The workspace's current run is adopted, once there has been a run.
RecordRunID ==
  /\ pc = "recordRunID"
  /\ UNCHANGED <<tfcVars, unchangedObjects>>
  /\ IF status.runID # None /\ local.run # None /\ status.runID # local.run
       THEN Update(WithStatus([status EXCEPT !.runID = local.run]), "addFinalizer")
       ELSE Goto("addFinalizer") /\ UNCHANGED <<cr, cached, cacheFresh, local>>

\* Mutant: the finalizer waits until there is something to finalize.
AddFinalizerAfterFirstRun ==
  /\ pc = "addFinalizer"
  /\ UNCHANGED <<tfcVars, unchangedObjects>>
  /\ IF instance.finalizer \/ status.runID = None
       THEN Goto("runInProgress") /\ UNCHANGED <<cr, cached, cacheFresh, local>>
       ELSE Update(WithFinalizer(TRUE), "runInProgress")

AddFinalizer ==
  /\ pc = "addFinalizer"
  /\ UNCHANGED <<tfcVars, unchangedObjects>>
  /\ IF instance.finalizer
       THEN Goto("runInProgress") /\ UNCHANGED <<cr, cached, cacheFresh, local>>
       ELSE Update(WithFinalizer(TRUE), "runInProgress")

(***************************************************************************)
(* runInProgress and processFinishedRun.                                   *)
(***************************************************************************)
\* Mutant: a run in the queue is not yet in progress.
RunInProgressApplying ==
  /\ pc = "runInProgress"
  /\ UNCHANGED <<tfcVars, kubeVars>>
  /\ IF status.runStatus # "applying"
       THEN Goto("processFinishedRun") /\ UNCHANGED local
       ELSE /\ local' = [local EXCEPT !.runStatus = runs[status.runID].status]
            /\ Goto("recordRunStatus")

\* While the recorded status is pending the run is looked up; a run that is not
\* there is an error.
RunInProgress ==
  /\ pc = "runInProgress"
  /\ UNCHANGED <<tfcVars, kubeVars>>
  /\ IF ~isPending(status.runStatus)
       THEN Goto("processFinishedRun") /\ UNCHANGED local
       ELSE \/ /\ status.runID # None => runs[status.runID].status # ""
               /\ local' = [local EXCEPT !.runStatus =
                              IF status.runID = None THEN "" ELSE runs[status.runID].status]
               /\ Goto("recordRunStatus")
            \/ /\ status.runID # None
               /\ runs[status.runID].status = ""
               /\ Return

\* The reconcile requeues whether the status has changed or not.
RecordRunStatus ==
  /\ pc = "recordRunStatus"
  /\ Return
  /\ IF fresh /\ status.runStatus # local.runStatus
       THEN WriteObject(WithStatus([status EXCEPT !.runStatus = local.runStatus]))
       ELSE UNCHANGED <<cr, cached, cacheFresh>>
  /\ UNCHANGED <<tfcVars, unchangedObjects>>

\* What the current state version of workspace w yields.
StateOutputs(w) ==
  IF workspaces[w].deployed = Destroyed THEN None
  ELSE [workspace |-> w, config |-> workspaces[w].deployed]

\* Mutant: the outputs of a workspace without a state version are read.
ProcessFinishedRunWithoutState ==
  /\ pc = "processFinishedRun"
  /\ UNCHANGED <<tfcVars, kubeVars>>
  /\ IF status.runStatus = "errored"
       THEN Goto("updateTerraformTemplate") /\ UNCHANGED local
       ELSE /\ local' = [local EXCEPT !.outputs =
                  IF status.runID = None THEN None ELSE StateOutputs(status.workspaceID)]
            /\ Goto("recordOutputs")

\* After an errored run the outputs are left alone.  A workspace without a
\* state version is an error.
ProcessFinishedRun ==
  /\ pc = "processFinishedRun"
  /\ UNCHANGED <<tfcVars, kubeVars>>
  /\ IF status.runStatus = "errored"
       THEN Goto("updateTerraformTemplate") /\ UNCHANGED local
       ELSE \/ /\ status.runID = None
               /\ Goto("recordOutputs")
               /\ UNCHANGED local
            \/ LET w == status.workspaceID
               IN /\ status.runID # None
                  /\ IF workspaces[w].live /\ workspaces[w].deployed # None
                       THEN /\ local' = [local EXCEPT !.outputs = StateOutputs(w)]
                            /\ Goto("recordOutputs")
                       ELSE Return

\* Mutant: outputs are recorded once.
RecordFirstOutputs ==
  /\ pc = "recordOutputs"
  /\ UNCHANGED <<tfcVars, unchangedObjects>>
  /\ IF status.outputs = None
       THEN Update(WithStatus([status EXCEPT !.outputs = local.outputs]),
                   "UpsertSecretOutputs")
       ELSE /\ Goto("UpsertSecretOutputs")
            /\ UNCHANGED <<cr, cached, cacheFresh, local>>

\* reflect.DeepEqual tells the empty list that was read from Terraform Cloud
\* from the nil that was read from Kubernetes: no outputs are written again by
\* every reconcile, except the one that has just emptied the list in memory.
RecordOutputs ==
  /\ pc = "recordOutputs"
  /\ UNCHANGED <<tfcVars, unchangedObjects>>
  /\ IF \/ local.outputs # status.outputs
        \/ local.outputs = None /\ ~local.outputsReset
       THEN Update(WithStatus([status EXCEPT !.outputs = local.outputs]),
                   "UpsertSecretOutputs")
       ELSE /\ Goto("UpsertSecretOutputs")
            /\ UNCHANGED <<cr, cached, cacheFresh, local>>

UpsertSecretOutputs ==
  /\ pc = "UpsertSecretOutputs"
  /\ secret' = [outputs |-> status.outputs]
  /\ Goto("updateTerraformTemplate")
  /\ UNCHANGED <<tfcVars, cr, cached, cacheFresh, configMap, cachedConfigMap,
                 edits, local>>

(***************************************************************************)
(* The four conditions that start a run.                                   *)
(***************************************************************************)
\* The template is compared with the cached ConfigMap; the write fails when
\* the cache is behind.
UpsertTerraformConfig ==
  \/ /\ cachedConfigMap = spec.template
     /\ Goto("updateVariables")
     /\ UNCHANGED <<local, configMap>>
  \/ /\ cachedConfigMap # spec.template
     /\ IF cachedConfigMap = configMap
          THEN /\ configMap' = spec.template
               /\ local' = [local EXCEPT !.updated = TRUE]
               /\ Goto("updateVariables")
          ELSE Return /\ UNCHANGED configMap

UpdateTerraformTemplate ==
  /\ pc = "updateTerraformTemplate"
  /\ "configMap" \in Timely => cachedConfigMap = configMap
  /\ UNCHANGED <<tfcVars, cr, cached, cacheFresh, cachedConfigMap, secret, edits>>
  /\ IF spec.vcs THEN Goto("updateVariables") /\ UNCHANGED <<local, configMap>>
                 ELSE UpsertTerraformConfig

\* Mutant: a changed variable is no reason for a run.
UpdateVariablesSilently ==
  /\ pc = "updateVariables"
  /\ \E w \in WorkspacesNamed(spec.organization) :
       workspaces' = [workspaces EXCEPT ![w].value = spec.value]
  /\ Goto("updateRunTriggers")
  /\ UNCHANGED <<kubeVars, runs, configVersions, outOfBand, local>>

\* Mutant: a variable that exists is left as it is.
UpdateMissingVariables ==
  /\ pc = "updateVariables"
  /\ \E w \in WorkspacesNamed(spec.organization) :
       workspaces' = [workspaces EXCEPT ![w].value =
                        IF @ = None THEN spec.value ELSE @]
  /\ Goto("updateRunTriggers")
  /\ UNCHANGED <<kubeVars, runs, configVersions, outOfBand, local>>

\* CheckVariables for one non-sensitive variable, in the workspace that has the
\* CR's name: creating it is not reported as an update, changing it is.
UpdateVariables ==
  /\ pc = "updateVariables"
  /\ UNCHANGED <<kubeVars, runs, configVersions, outOfBand>>
  /\ \/ /\ WorkspacesNamed(spec.organization) = {}
        /\ Return
        /\ UNCHANGED workspaces
     \/ \E w \in WorkspacesNamed(spec.organization) :
          /\ workspaces' = [workspaces EXCEPT ![w].value = spec.value]
          /\ local' = [local EXCEPT !.updated =
                         @ \/ workspaces[w].value \notin {None, spec.value}]
          /\ Goto("updateRunTriggers")

\* Mutant: the first run is left to the comparisons.
StartConditionWithoutFirst(updated) == updated \/ status.configVersionID # None

\* The end of the comparisons: a run is due when one of them found a change,
\* when there has been none, or when one is half prepared.
StartCondition(updated) ==
  updated \/ status.runID = None \/ status.configVersionID # None

\* Mutant: a trigger is never created, because its creation always fails.
UpdateRunTriggersRefused ==
  /\ pc = "updateRunTriggers"
  /\ UNCHANGED <<tfcVars, kubeVars>>
  /\ LET updated == local.updated \/ spec.trigger # None
     IN IF StartCondition(updated)
          THEN /\ local' = [local EXCEPT !.updated = updated]
               /\ Goto("startRun")
          ELSE Return

\* CheckRunTriggers for at most one trigger: an unwanted one is deleted, a
\* missing one is created.  The error of the creation is lost.
UpdateRunTriggers ==
  /\ pc = "updateRunTriggers"
  /\ UNCHANGED <<kubeVars, runs, configVersions, outOfBand>>
  /\ \/ /\ WorkspacesNamed(spec.organization) = {}
        /\ Return
        /\ UNCHANGED workspaces
     \/ \E w \in WorkspacesNamed(spec.organization) :
          LET missing == spec.trigger \notin {None, workspaces[w].trigger}
              updated == local.updated \/ missing
          IN /\ \E trigger \in {spec.trigger} \cup
                   (IF missing /\ "CreateRunTrigger" \in Ignored THEN {None} ELSE {}) :
                  workspaces' = [workspaces EXCEPT ![w].trigger = trigger]
             /\ IF StartCondition(updated)
                  THEN /\ local' = [local EXCEPT !.updated = updated]
                       /\ Goto("startRun")
                  ELSE Return

(***************************************************************************)
(* startRun, prepareModuleRun and prepareVCSRun.                           *)
(***************************************************************************)
\* A VCS workspace waits for its first configuration version.
prepareVCSRun ==
  IF /\ workspaces[status.workspaceID].live
     /\ workspaces[status.workspaceID].template # None
    THEN Goto("createRun") /\ UNCHANGED local
    ELSE Return

\* A module-backed one takes its template from the cached ConfigMap, or resumes
\* with the configuration version that the status records.
prepareModuleRun ==
  \/ /\ status.configVersionID # None
     /\ Goto("readConfigVersion")
     /\ UNCHANGED local
  \/ /\ status.configVersionID = None
     /\ IF cachedConfigMap = None
          THEN Return
          ELSE /\ local' = [local EXCEPT !.template = cachedConfigMap]
               /\ Goto("CreateConfigurationVersion")

StartRun ==
  /\ pc = "startRun"
  /\ "configMap" \in Timely => cachedConfigMap = configMap
  /\ UNCHANGED <<tfcVars, kubeVars>>
  /\ IF spec.vcs THEN prepareVCSRun ELSE prepareModuleRun

CreateConfigurationVersion ==
  /\ pc = "CreateConfigurationVersion"
  /\ UNCHANGED <<kubeVars, workspaces, runs, outOfBand>>
  /\ IF workspaces[status.workspaceID].live /\ FreeConfigVersions # {}
       THEN LET c == CHOOSE c \in FreeConfigVersions : TRUE
            IN /\ CreateConfigVersion(c, status.workspaceID)
               /\ local' = [local EXCEPT !.configVersion = c]
               /\ Goto("UploadConfigurationFile")
       ELSE Return /\ UNCHANGED configVersions

UploadConfigurationFile ==
  /\ pc = "UploadConfigurationFile"
  /\ UNCHANGED <<kubeVars, workspaces, runs, outOfBand>>
  /\ IF configVersions[local.configVersion].status = ""
       THEN Return /\ UNCHANGED configVersions
       ELSE /\ UploadConfigVersion(local.configVersion, local.template)
            /\ Goto("recordConfigVersion")
            /\ UNCHANGED local

RecordConfigVersion ==
  /\ pc = "recordConfigVersion"
  /\ Update(WithStatus([status EXCEPT !.configVersionID = local.configVersion]),
            "readConfigVersion")
  /\ UNCHANGED <<tfcVars, unchangedObjects>>

\* Until the configuration version is uploaded the reconcile just requeues.
ReadConfigVersion ==
  /\ pc = "readConfigVersion"
  /\ LET s == configVersions[status.configVersionID].status
     IN /\ "upload" \in Timely => s # "pending"
        /\ IF s = "uploaded" THEN Goto("resetConfigVersion") /\ UNCHANGED local
                             ELSE Return
  /\ UNCHANGED <<tfcVars, kubeVars>>

ResetConfigVersion ==
  /\ pc = "resetConfigVersion"
  /\ Update(WithStatus([status EXCEPT !.configVersionID = None]), "createRun")
  /\ UNCHANGED <<tfcVars, unchangedObjects>>

\* The options carry no configuration version: prepareModuleRun sets it in its
\* own copy of them.
CreateApplyRun ==
  /\ pc = "createRun"
  /\ UNCHANGED <<kubeVars, configVersions, outOfBand>>
  /\ LET w == status.workspaceID
     IN IF workspaces[w].live /\ workspaces[w].template # None /\ FreeRuns # {}
          THEN LET r == CHOOSE r \in FreeRuns : TRUE
               IN /\ CreateRun(r, w, FALSE, TRUE)
                  /\ local' = [local EXCEPT !.run = r]
                  /\ Goto("recordRun")
          ELSE Return /\ UNCHANGED <<runs, workspaces>>

RecordRun ==
  /\ pc = "recordRun"
  /\ IF fresh
       THEN WriteObject(WithStatus([status EXCEPT !.runID = local.run,
                                                  !.runStatus = "pending"]))
       ELSE UNCHANGED <<cr, cached, cacheFresh>>
  /\ Return
  /\ UNCHANGED <<tfcVars, unchangedObjects>>

(***************************************************************************)
(* The specification.                                                      *)
(***************************************************************************)
condDeleteSteps ==
  \/ CondDeleteWorkspace \/ FinalizeWorkspace \/ DeleteRuns \/ ForceCancel
  \/ DeleteResources \/ CreateDestroyRun \/ AwaitDestroy \/ DeleteWorkspace
  \/ RemoveFinalizer

reconcileSteps ==
  \/ CheckWorkspace \/ RecordWorkspaceID \/ RecordRunID \/ AddFinalizer
  \/ RunInProgress \/ RecordRunStatus
  \/ ProcessFinishedRun \/ RecordOutputs \/ UpsertSecretOutputs
  \/ UpdateTerraformTemplate \/ UpdateVariables \/ UpdateRunTriggers

startRunSteps ==
  \/ StartRun \/ CreateConfigurationVersion \/ UploadConfigurationFile
  \/ RecordConfigVersion \/ ReadConfigVersion \/ ResetConfigVersion
  \/ CreateApplyRun \/ RecordRun

Reconcile ==
  InitializeReconciliation \/ InstanceGone \/ condDeleteSteps \/ reconcileSteps
    \/ startRunSteps

TerraformCloudStep ==
  /\ \/ \E r \in RunIDs : RunProgress(r)
     \/ \E c \in ConfigVersionIDs : ConfigVersionProcessed(c)
     \/ \E w \in WorkspaceIDs : VCSIngress(w)
     \/ \E w \in WorkspaceIDs : UserIntervenes(w, FreeRuns)
  /\ UNCHANGED <<kubeVars, operatorVars>>

\* Somebody else's write of the object takes away the freshness of the copy.
KubernetesStep ==
  /\ \/ /\ UserEdits
        /\ pc \in EditAt
        /\ fresh' = FALSE
     \/ UserDeletes /\ fresh' = FALSE
     \/ (CacheSync \/ ConfigMapCacheSync \/ GarbageCollect) /\ UNCHANGED fresh
  /\ UNCHANGED <<tfcVars, pc, instance, local, aborts>>

Next == Reconcile \/ Abort \/ TerraformCloudStep \/ KubernetesStep

Spec == Init /\ [][Next]_vars

\* The worker never stops; informers and Terraform Cloud make progress.  Nothing
\* is assumed of users or of failures.
Fairness ==
  /\ WF_vars(Reconcile)
  /\ \A r \in RunIDs : WF_vars(RunProgress(r) /\ UNCHANGED <<kubeVars, operatorVars>>)
  /\ \A c \in ConfigVersionIDs :
       WF_vars(ConfigVersionProcessed(c) /\ UNCHANGED <<kubeVars, operatorVars>>)
  /\ \A w \in WorkspaceIDs :
       WF_vars(VCSIngress(w) /\ UNCHANGED <<kubeVars, operatorVars>>)
  /\ WF_vars(CacheSync /\ UNCHANGED <<tfcVars, operatorVars>>)
  /\ WF_vars(ConfigMapCacheSync /\ UNCHANGED <<tfcVars, operatorVars>>)

FairSpec == Spec /\ Fairness

(***************************************************************************)
(* The abstract specification that the operator implements, on condition   *)
(* that every spec names one organization, that no error goes unnoticed,   *)
(* that runs apply or fail, and that users leave runs and workspaces alone *)
(* in Terraform Cloud.                                                     *)
(***************************************************************************)
Attended == {r \in RunIDs : runs[r].operator /\ isPending(runs[r].status)}
HasResources == \E w \in WorkspaceIDs : workspaces[w].deployed \notin {None, Destroyed}

Lifecycle == INSTANCE WorkspaceLifecycle WITH
  phase <- cr.phase, held <- cr.finalizer, workspace <- cr.status.workspaceID,
  attended <- Attended, resources <- HasResources

\* Every step of a reconcile, of Terraform Cloud and of Kubernetes is a step of
\* the life of a Workspace, or changes nothing of it: a run starts under a
\* finalizer, and the finalizer goes when runs and infrastructure are gone.
ImplementsLifecycle == Lifecycle!Spec

(***************************************************************************)
(* Safety.                                                                 *)
(***************************************************************************)
\* A Workspace that waits for its finalizer names the workspace to finalize: an
\* empty ID is an error that condDeleteWorkspace returns for ever.
FinalizerHasWorkspace == cr.finalizer => cr.status.workspaceID # None

\* The published outputs come from the recorded workspace, also after another
\* workspace has taken its place (organization changed, workspace recreated).
OutputsBelong ==
  cr.status.outputs # None => cr.status.outputs.workspace = cr.status.workspaceID

\* While a run of the operator is active the finalizer that will stop it is in
\* place: no deletion, crash or stale copy leaves a run nobody looks after.
RunOnlyUnderFinalizer ==
  \A r \in RunIDs : runs[r].operator /\ isPending(runs[r].status) => cr.finalizer

\* Once the Workspace is gone, nothing is left of what its runs created.
NoLeakedResources ==
  cr.phase = "gone" =>
    \A w \in WorkspaceIDs :
      /\ workspaces[w].deployed \in {None, Destroyed}
      /\ ActiveRunsOf(w) = {}

\* No workspace is deleted while resources of it exist: deleting it loses the
\* state they are known by.
DestroyBeforeDelete ==
  [][\A w \in WorkspaceIDs :
       workspaces[w].live /\ ~workspaces'[w].live
         => workspaces[w].deployed \in {None, Destroyed}]_vars

\* However old the copy a reconcile works with, it starts a run only for a
\* Workspace that holds the finalizer, records the run's workspace and records
\* no unfinished run.
StartFenced ==
  [][pc = "createRun" /\ pc' = "recordRun"
       => /\ cr.finalizer
          /\ ~isPending(cr.status.runStatus)
          /\ cr.status.workspaceID = runs'[local'.run].workspace]_vars

\* A reconcile that finds no reason for a run, of a Workspace that is still there,
\* leaves a workspace whose current run was started with the spec of its copy: no
\* reason was used up by an earlier reconcile that did not come to its run.
NothingOverlooked ==
  [][pc = "updateRunTriggers" /\ pc' = "idle" /\ aborts' = aborts /\ cr.phase = "active"
       => \A w \in WorkspacesNamed(spec.organization) :
            LET r == workspaces[w].currentRun
            IN /\ r # None
               /\ runs[r].config.value = spec.value
               /\ ~spec.vcs => runs[r].config.template = spec.template]_vars

(***************************************************************************)
(* Liveness, under FairSpec.                                               *)
(***************************************************************************)
ConfigOf(s) == [template |-> s.template, value |-> s.value]

\* Every spec the user leaves alone is executed: a run applies it in a workspace
\* of the organization it names.
SpecChangeExecutesRun ==
  \A s \in Specs :
    cr.phase = "active" /\ cr.spec = s ~>
      \/ cr.phase # "active"
      \/ cr.spec # s
      \/ \E r \in RunIDs :
           /\ runs[r].config = ConfigOf(s) /\ ~runs[r].destroy
           /\ workspaces[runs[r].workspace].organization = s.organization

\* The last run settles at what the spec says, and unless it fails the
\* infrastructure does, too.
EventuallyDeployed ==
  <>[](cr.phase = "active" =>
         \E w \in WorkspacesNamed(cr.spec.organization) :
           LET r == workspaces[w].currentRun
           IN /\ r # None
              /\ runs[r].config = ConfigOf(cr.spec)
              /\ runs[r].status = "errored" \/ workspaces[w].deployed = ConfigOf(cr.spec))

\* Once users leave it alone the operator stops starting runs.
OperatorSettles == <>[](pc # "createRun")

\* What users change in Terraform Cloud is changed back to what the spec says.
VariableRestored ==
  <>[](cr.phase = "active" =>
         \E w \in WorkspacesNamed(cr.spec.organization) :
           workspaces[w].value = cr.spec.value)

\* The outputs in the status and in the Secret settle at those of the state,
\* provided that the last run applied.
OutputsFollowState ==
  <>[](cr.phase = "active" /\ \E w \in WorkspacesNamed(cr.spec.organization) :
         /\ workspaces[w].currentRun # None
         /\ runs[workspaces[w].currentRun].status = "applied")
    => <>[](cr.phase = "active" =>
              \E w \in WorkspacesNamed(cr.spec.organization) :
                /\ cr.status.outputs = StateOutputs(w)
                /\ secret = [outputs |-> cr.status.outputs])

\* The finalizer comes to an end.
DeletionCompletes == cr.phase = "deleting" ~> cr.phase = "gone"
=============================================================================
