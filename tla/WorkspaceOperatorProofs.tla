----------------------- MODULE WorkspaceOperatorProofs -----------------------
(***************************************************************************)
(* Type correctness of WorkspaceOperator, FinalizerHasWorkspace and        *)
(* OutputsBelong, for every value of the constants.                        *)
(***************************************************************************)
EXTENDS WorkspaceOperator, TLAPS

(***************************************************************************)
(* The inductive invariant.                                                *)
(***************************************************************************)
\* A run that is under way has a workspace.
RunsAnchored ==
  \A r \in RunIDs : isPending(runs[r].status) => runs[r].workspace # None

CloudInv == TerraformCloudTypeOK /\ RunsAnchored

\* What both properties say, of any copy of the object.
WellFormed(object) ==
  /\ object.finalizer => object.status.workspaceID # None
  /\ object.status.outputs # None =>
       object.status.outputs.workspace = object.status.workspaceID

ObjectsInv ==
  /\ KubernetesApiTypeOK
  /\ WellFormed(cr) /\ WellFormed(cached)
  /\ cacheFresh => cached = cr

OperatorTypeOK ==
  /\ pc \in Steps
  /\ instance \in Object \cup {None}
  /\ pc # "idle" => instance \in Object
  /\ fresh \in BOOLEAN
  /\ local \in Locals
  /\ aborts \in 0 .. MaxAborts

\* Optimistic concurrency: a copy that may be written is the current version.
CopyInv ==
  /\ pc # "idle" => WellFormed(instance)
  /\ fresh => pc # "idle" /\ instance = cr

\* The steps of a reconcile that has not looked at the workspace's ID yet.
BeforeWorkspaceID ==
  {"idle", "condDeleteWorkspace", "CheckWorkspace", "recordWorkspaceID"}

\* What a reconcile has established when it comes to a step.
StepFacts ==
  /\ pc \in BeforeWorkspaceID => local.outputs = None
  /\ pc \notin BeforeWorkspaceID => instance.status.workspaceID # None
  /\ pc = "recordWorkspaceID" => local.workspace # None
  /\ local.outputs # None => local.outputs.workspace = instance.status.workspaceID

OperatorInv == OperatorTypeOK /\ CopyInv /\ StepFacts

IInv == CloudInv /\ ObjectsInv /\ OperatorInv

USE TerraformCloudAssumption, KubernetesApiAssumption, WorkspaceOperatorAssumption

(***************************************************************************)
(* Terraform Cloud's side.                                                 *)
(***************************************************************************)
LEMMA CloudStutter == CloudInv /\ UNCHANGED tfcVars => CloudInv'
  BY DEF CloudInv, TerraformCloudTypeOK, RunsAnchored, tfcVars

LEMMA CreateWorkspaceInv ==
  ASSUME NEW w \in WorkspaceIDs, NEW o \in Organizations, NEW vcs \in BOOLEAN,
         CloudInv, CreateWorkspace(w, o, vcs),
         UNCHANGED <<runs, configVersions, outOfBand>>
  PROVE  CloudInv'
<1>1. [NoWorkspace EXCEPT !.live = TRUE, !.organization = o, !.vcs = vcs] \in Workspace
  BY DEF Workspace, NoWorkspace
<1> QED
  BY <1>1 DEF CloudInv, TerraformCloudTypeOK, RunsAnchored, CreateWorkspace

LEMMA DeleteWorkspaceInv ==
  ASSUME NEW w \in WorkspaceIDs, CloudInv, DeleteWorkspaceByID(w),
         outOfBand' \in 0 .. MaxOutOfBand
  PROVE  CloudInv'
<1>1. NoWorkspace \in Workspace /\ NoRun \in Run /\ NoConfigVersion \in ConfigVersion
  BY DEF Workspace, NoWorkspace, Run, NoRun, ConfigVersion, NoConfigVersion
<1>2. TerraformCloudTypeOK'
  BY <1>1 DEF CloudInv, TerraformCloudTypeOK, DeleteWorkspaceByID
<1>3. RunsAnchored'
  BY DEF CloudInv, TerraformCloudTypeOK, RunsAnchored, DeleteWorkspaceByID, NoRun,
         isPending, PendingStatuses
<1> QED BY <1>2, <1>3 DEF CloudInv

\* A write of one field or two of a workspace that keeps its type.
LEMMA WriteWorkspaceInv ==
  ASSUME NEW w \in WorkspaceIDs, NEW ws \in Workspace, CloudInv,
         workspaces' = [workspaces EXCEPT ![w] = ws],
         UNCHANGED runs, configVersions' \in [ConfigVersionIDs -> ConfigVersion],
         outOfBand' \in 0 .. MaxOutOfBand
  PROVE  CloudInv'
BY DEF CloudInv, TerraformCloudTypeOK, RunsAnchored

LEMMA CreateRunInv ==
  ASSUME NEW r \in RunIDs, NEW w \in WorkspaceIDs,
         NEW destroy \in BOOLEAN, NEW operator \in BOOLEAN, CloudInv,
         CreateRun(r, w, destroy, operator),
         UNCHANGED configVersions, outOfBand' \in 0 .. MaxOutOfBand
  PROVE  CloudInv'
<1> DEFINE config == [template |-> workspaces[w].template, value |-> workspaces[w].value]
           run == [status |-> "pending", workspace |-> w, config |-> config,
                   destroy |-> destroy, operator |-> operator]
<1>1. workspaces[w] \in Workspace
  BY DEF CloudInv, TerraformCloudTypeOK
<1>2. config \in Configs
  BY <1>1 DEF Workspace, Configs
<1>3. run \in Run
  BY <1>2 DEF Run, PendingStatuses
<1>4. [workspaces[w] EXCEPT !.currentRun = r] \in Workspace
  BY <1>1 DEF Workspace
<1>5. runs' = [runs EXCEPT ![r] = run]
  BY DEF CreateRun
<1>6. workspaces' \in {workspaces, [workspaces EXCEPT ![w] = [workspaces[w] EXCEPT !.currentRun = r]]}
  BY DEF CreateRun, CloudInv, TerraformCloudTypeOK
<1>7. TerraformCloudTypeOK'
  BY <1>3, <1>4, <1>5, <1>6 DEF CloudInv, TerraformCloudTypeOK
<1>8. RunsAnchored'
  BY <1>5 DEF CloudInv, RunsAnchored, TerraformCloudTypeOK
<1> QED BY <1>7, <1>8 DEF CloudInv

\* Run r, which has a workspace, reaches a final status.
LEMMA RunEndsInv ==
  ASSUME NEW r \in RunIDs, NEW final \in FinalStatuses,
         NEW deployed \in Configs \cup {None, Destroyed}, CloudInv,
         runs[r].workspace # None, RunEnds(r, final, deployed),
         UNCHANGED <<configVersions, outOfBand>>
  PROVE  CloudInv'
<1> DEFINE w == runs[r].workspace
<1>1. w \in WorkspaceIDs /\ workspaces[w] \in Workspace /\ runs[r] \in Run
  BY DEF CloudInv, TerraformCloudTypeOK, Run
<1>2. runs' = [runs EXCEPT ![r].status = final]
  BY DEF RunEnds
<1>3. PICK current \in RunIDs \cup {None} :
        workspaces' = [workspaces EXCEPT ![w].currentRun = current,
                                         ![w].deployed = deployed]
  <2>1. ActiveRunsOf(w) \subseteq RunIDs
    BY DEF ActiveRunsOf, RunsOf
  <2>2. workspaces[w].currentRun \in RunIDs \cup {None}
    BY <1>1 DEF Workspace
  <2> QED BY <2>1, <2>2 DEF RunEnds
<1>4. [workspaces[w] EXCEPT !.currentRun = current, !.deployed = deployed] \in Workspace
  BY <1>1 DEF Workspace
<1>5. [runs[r] EXCEPT !.status = final] \in Run
  BY <1>1 DEF Run
<1>6. TerraformCloudTypeOK'
  BY <1>1, <1>2, <1>3, <1>4, <1>5 DEF CloudInv, TerraformCloudTypeOK
<1>7. RunsAnchored'
  BY <1>2 DEF CloudInv, TerraformCloudTypeOK, RunsAnchored
<1> QED BY <1>6, <1>7 DEF CloudInv

LEMMA StoppedStatesType ==
  ASSUME NEW r \in RunIDs, CloudInv, runs[r].workspace # None
  PROVE  /\ StoppedStates(r) \subseteq Configs \cup {None, Destroyed}
         /\ workspaces[runs[r].workspace].deployed \in Configs \cup {None, Destroyed}
         /\ runs[r].config \in Configs \cup {None}
<1>1. runs[r] \in Run /\ runs[r].workspace \in WorkspaceIDs
  BY DEF CloudInv, TerraformCloudTypeOK, Run
<1>2. workspaces[runs[r].workspace] \in Workspace
  BY <1>1 DEF CloudInv, TerraformCloudTypeOK
<1>3. workspaces[runs[r].workspace].deployed \in Configs \cup {None, Destroyed}
  BY <1>2 DEF Workspace
<1>4. runs[r].config \in Configs \cup {None}
  BY <1>1 DEF Run
<1> QED BY <1>3, <1>4 DEF StoppedStates

LEMMA CancelRunInv ==
  ASSUME NEW r \in RunIDs, CloudInv, isPending(runs[r].status), CancelRun(r),
         UNCHANGED <<configVersions, outOfBand>>
  PROVE  CloudInv'
<1>1. runs[r].workspace # None
  BY DEF CloudInv, RunsAnchored
<1>2. StoppedStates(r) \subseteq Configs \cup {None, Destroyed}
  BY <1>1, StoppedStatesType
<1> QED BY <1>1, <1>2, RunEndsInv DEF CancelRun, FinalStatuses

LEMMA RunProgressInv ==
  ASSUME NEW r \in RunIDs, CloudInv, RunProgress(r)
  PROVE  CloudInv'
<1>1. runs[r].workspace # None
  BY DEF CloudInv, RunsAnchored, RunProgress, RunStarts, RunFinishes, isPending, PendingStatuses
<1>2. CASE RunStarts(r)
  <2> DEFINE run == [runs[r] EXCEPT !.status = "applying"]
  <2>0. runs[r] \in Run
    BY DEF CloudInv, TerraformCloudTypeOK
  <2>1. run \in Run /\ run.workspace = runs[r].workspace
    BY <2>0 DEF Run, PendingStatuses
  <2> QED BY <1>1, <1>2, <2>1 DEF RunStarts, CloudInv, TerraformCloudTypeOK, RunsAnchored
<1>3. CASE RunFinishes(r)
  <2> DEFINE deployed == workspaces[runs[r].workspace].deployed
  <2>1. /\ StoppedStates(r) \subseteq Configs \cup {None, Destroyed}
        /\ deployed \in Configs \cup {None, Destroyed}
        /\ runs[r].config \in Configs \cup {None}
    BY <1>1, StoppedStatesType
  <2>2. UNCHANGED <<configVersions, outOfBand>>
    BY <1>3 DEF RunFinishes
  <2>3. ASSUME NEW final \in FinalStatuses, NEW d \in Configs \cup {None, Destroyed},
               RunEnds(r, final, d)
        PROVE  CloudInv'
    BY <1>1, <2>2, <2>3, RunEndsInv
  <2>4. CASE RunEnds(r, "planned_and_finished", deployed)
    BY <2>1, <2>3, <2>4 DEF FinalStatuses
  <2>5. CASE RunEnds(r, "applied", IF runs[r].destroy THEN Destroyed ELSE runs[r].config)
    <3>1. (IF runs[r].destroy THEN Destroyed ELSE runs[r].config) \in
            Configs \cup {None, Destroyed}
      BY <2>1
    <3> QED BY <2>3, <2>5, <3>1 DEF FinalStatuses
  <2>6. ASSUME NEW final \in Outcomes \ {"applied"}, NEW d \in StoppedStates(r),
               RunEnds(r, final, IF final = "discarded" THEN deployed ELSE d)
        PROVE  CloudInv'
    <3>1. (IF final = "discarded" THEN deployed ELSE d) \in Configs \cup {None, Destroyed}
      BY <2>1
    <3>2. final \in FinalStatuses
      BY DEF FinalStatuses
    <3> QED BY <2>3, <2>6, <3>1, <3>2
  <2> QED BY <1>3, <2>4, <2>5, <2>6 DEF RunFinishes
<1> QED BY <1>2, <1>3 DEF RunProgress

LEMMA CreateConfigVersionInv ==
  ASSUME NEW c \in ConfigVersionIDs, NEW w \in WorkspaceIDs, CloudInv,
         CreateConfigVersion(c, w), UNCHANGED <<workspaces, runs, outOfBand>>
  PROVE  CloudInv'
<1>1. [NoConfigVersion EXCEPT !.status = "pending", !.workspace = w] \in ConfigVersion
  BY DEF ConfigVersion, NoConfigVersion
<1> QED BY <1>1 DEF CreateConfigVersion, CloudInv, TerraformCloudTypeOK, RunsAnchored

LEMMA UploadConfigVersionInv ==
  ASSUME NEW c, NEW t \in Templates \cup {None}, CloudInv,
         UploadConfigVersion(c, t), UNCHANGED <<workspaces, runs, outOfBand>>
  PROVE  CloudInv'
<1>1. ASSUME NEW d \in ConfigVersionIDs
      PROVE  /\ [configVersions[d] EXCEPT !.latest = FALSE] \in ConfigVersion
             /\ [configVersions[d] EXCEPT !.template = t, !.latest = TRUE] \in ConfigVersion
  <2>1. configVersions[d] \in ConfigVersion
    BY DEF CloudInv, TerraformCloudTypeOK
  <2> QED BY <2>1 DEF ConfigVersion
<1> QED
  BY <1>1 DEF UploadConfigVersion, CloudInv, TerraformCloudTypeOK, RunsAnchored

LEMMA ConfigVersionProcessedInv ==
  ASSUME NEW c \in ConfigVersionIDs, CloudInv, ConfigVersionProcessed(c)
  PROVE  CloudInv'
<1> DEFINE w == configVersions[c].workspace
           t == configVersions[c].template
<1>1. configVersions[c] \in ConfigVersion
  BY DEF CloudInv, TerraformCloudTypeOK
<1>2. t \in Templates \cup {None} /\ w \in WorkspaceIDs \cup {None}
  BY <1>1 DEF ConfigVersion
<1>3. PICK final \in {"uploaded", "errored"} :
        configVersions' = [configVersions EXCEPT ![c] = [configVersions[c] EXCEPT !.status = final]]
  BY DEF ConfigVersionProcessed
<1>4. [configVersions[c] EXCEPT !.status = final] \in ConfigVersion
  BY <1>1 DEF ConfigVersion
<1>5. configVersions' \in [ConfigVersionIDs -> ConfigVersion]
  BY <1>3, <1>4 DEF CloudInv, TerraformCloudTypeOK
<1>6. workspaces' \in {workspaces, [workspaces EXCEPT ![w] = [workspaces[w] EXCEPT !.template = t]]}
  BY DEF ConfigVersionProcessed
<1>7. w \in WorkspaceIDs => [workspaces[w] EXCEPT !.template = t] \in Workspace
  <2>1. w \in WorkspaceIDs => workspaces[w] \in Workspace
    BY DEF CloudInv, TerraformCloudTypeOK
  <2> QED BY <1>2, <2>1 DEF Workspace
<1>8. workspaces' \in [WorkspaceIDs -> Workspace]
  BY <1>2, <1>6, <1>7 DEF CloudInv, TerraformCloudTypeOK
<1> QED BY <1>5, <1>8 DEF CloudInv, TerraformCloudTypeOK, RunsAnchored, ConfigVersionProcessed

LEMMA VCSIngressInv ==
  ASSUME NEW w \in WorkspaceIDs, CloudInv, VCSIngress(w)
  PROVE  CloudInv'
<1>1. PICK t \in Templates :
        workspaces' = [workspaces EXCEPT ![w] = [workspaces[w] EXCEPT !.template = t]]
  BY DEF VCSIngress
<1>2. [workspaces[w] EXCEPT !.template = t] \in Workspace
  <2>1. workspaces[w] \in Workspace
    BY DEF CloudInv, TerraformCloudTypeOK
  <2> QED BY <2>1 DEF Workspace
<1> QED BY <1>1, <1>2, WriteWorkspaceInv DEF VCSIngress, CloudInv, TerraformCloudTypeOK

LEMMA UserIntervenesInv ==
  ASSUME NEW w \in WorkspaceIDs, CloudInv, UserIntervenes(w, FreeRuns)
  PROVE  CloudInv'
<1>1. outOfBand' \in 0 .. MaxOutOfBand
  BY DEF UserIntervenes, CloudInv, TerraformCloudTypeOK
<1>2. workspaces[w] \in Workspace
  BY DEF CloudInv, TerraformCloudTypeOK
<1>3. FreeRuns \subseteq RunIDs
  BY DEF FreeRuns
<1>4. CASE \E r \in FreeRuns : CreateRun(r, w, FALSE, FALSE) /\ UNCHANGED configVersions
  BY <1>1, <1>3, <1>4, CreateRunInv
<1>5. CASE DeleteWorkspaceByID(w)
  BY <1>1, <1>5, DeleteWorkspaceInv
<1>6. CASE \E v \in Values : /\ workspaces' = [workspaces EXCEPT ![w].value = v]
                             /\ UNCHANGED <<runs, configVersions>>
  <2>1. PICK v \in Values :
          workspaces' = [workspaces EXCEPT ![w] = [workspaces[w] EXCEPT !.value = v]]
    BY <1>6
  <2>2. [workspaces[w] EXCEPT !.value = v] \in Workspace
    BY <1>2 DEF Workspace
  <2> QED BY <1>1, <1>6, <2>1, <2>2, WriteWorkspaceInv DEF CloudInv, TerraformCloudTypeOK
<1> QED BY <1>4, <1>5, <1>6 DEF UserIntervenes

(***************************************************************************)
(* Kubernetes' side.                                                       *)
(***************************************************************************)
LEMMA ObjectsStutter == ObjectsInv /\ UNCHANGED kubeVars => ObjectsInv'
  BY DEF ObjectsInv, KubernetesApiTypeOK, WellFormed, kubeVars

\* A write of a well-formed object.
LEMMA WriteObjectInv ==
  ASSUME NEW o \in Object, ObjectsInv, WellFormed(o), WriteObject(o),
         UNCHANGED unchangedObjects
  PROVE  ObjectsInv' /\ cr' = o
BY DEF ObjectsInv, KubernetesApiTypeOK, WellFormed, WriteObject, unchangedObjects

LEMMA UserEditsInv == ObjectsInv /\ UserEdits => ObjectsInv'
<1> SUFFICES ASSUME ObjectsInv, UserEdits PROVE ObjectsInv'
  OBVIOUS
<1>1. PICK s \in Specs : cr' = [cr EXCEPT !.spec = s]
  BY DEF UserEdits
<1>2. cr' \in Object /\ cr'.finalizer = cr.finalizer /\ cr'.status = cr.status
  BY <1>1 DEF ObjectsInv, KubernetesApiTypeOK, Object
<1>3. edits' \in 0 .. MaxEdits
  BY DEF UserEdits, ObjectsInv, KubernetesApiTypeOK
<1>4. KubernetesApiTypeOK'
  BY <1>2, <1>3 DEF UserEdits, ObjectsInv, KubernetesApiTypeOK
<1>5. (WellFormed(cr) /\ WellFormed(cached))' /\ ~cacheFresh'
  BY <1>2 DEF UserEdits, ObjectsInv, WellFormed
<1> QED BY <1>4, <1>5 DEF ObjectsInv

LEMMA UserDeletesInv == ObjectsInv /\ UserDeletes => ObjectsInv'
<1> SUFFICES ASSUME ObjectsInv, UserDeletes PROVE ObjectsInv'
  OBVIOUS
<1>1. cr' \in Object /\ cr'.finalizer = cr.finalizer /\ cr'.status = cr.status
  BY DEF UserDeletes, ObjectsInv, KubernetesApiTypeOK, Object
<1> QED BY <1>1 DEF UserDeletes, ObjectsInv, KubernetesApiTypeOK, WellFormed

LEMMA KubernetesOwnSteps ==
  ObjectsInv /\ (CacheSync \/ ConfigMapCacheSync \/ GarbageCollect) => ObjectsInv'
<1>1. ObjectsInv /\ CacheSync => ObjectsInv'
  BY DEF ObjectsInv, KubernetesApiTypeOK, WellFormed, CacheSync
<1>2. ObjectsInv /\ ConfigMapCacheSync => ObjectsInv'
  BY DEF ObjectsInv, KubernetesApiTypeOK, WellFormed, ConfigMapCacheSync
<1>3. ObjectsInv /\ GarbageCollect => ObjectsInv'
  BY DEF ObjectsInv, KubernetesApiTypeOK, WellFormed, GarbageCollect
<1> QED BY <1>1, <1>2, <1>3

(***************************************************************************)
(* The operator's side.                                                    *)
(***************************************************************************)
\* Steps of the environment that leave the operator and the object alone.
LEMMA OperatorStutter ==
  OperatorInv /\ UNCHANGED operatorVars /\ cr' = cr => OperatorInv'
BY DEF OperatorInv, OperatorTypeOK, CopyInv, StepFacts, WellFormed, operatorVars

\* Nothing is left of a reconcile that has returned.
LEMMA IdleInv ==
  ASSUME pc' = "idle", instance' = None, fresh' = FALSE, local' = NoLocals,
         aborts' \in 0 .. MaxAborts
  PROVE  OperatorInv'
<1>1. NoLocals \in Locals /\ NoLocals.outputs = None
  BY DEF NoLocals, Locals, Outputs
<1> QED
  BY <1>1 DEF OperatorInv, OperatorTypeOK, CopyInv, StepFacts, Steps, BeforeWorkspaceID

LEMMA ReturnInv == OperatorInv /\ Return => OperatorInv'
BY IdleInv DEF OperatorInv, OperatorTypeOK, Return

\* From a step that has the workspace's ID to a later one, with the copy and
\* the object as they were.
LEMMA GotoInv ==
  ASSUME OperatorInv, NEW step \in Steps \ BeforeWorkspaceID, pc' = step,
         instance.status.workspaceID # None, pc # "idle",
         UNCHANGED <<instance, fresh, cr>>, aborts' \in 0 .. MaxAborts,
         local' \in Locals, local'.outputs = local.outputs
  PROVE  OperatorInv'
BY DEF OperatorInv, OperatorTypeOK, CopyInv, StepFacts, WellFormed, BeforeWorkspaceID

\* A write of the object that keeps the workspace's ID.
LEMMA UpdateInv ==
  ASSUME ObjectsInv, OperatorInv, NEW step \in Steps \ BeforeWorkspaceID,
         pc # "idle",
         NEW o, Update(o, step), UNCHANGED unchangedObjects,
         fresh => o \in Object /\ WellFormed(o) /\ o.status.workspaceID # None
                    /\ o.status.workspaceID = instance.status.workspaceID
  PROVE  ObjectsInv' /\ OperatorInv'
<1>1. CASE fresh /\ WriteObject(o) /\ instance' = o /\ pc' = step
              /\ UNCHANGED <<fresh, local, aborts>>
  <2>1. ObjectsInv' /\ cr' = o
    BY <1>1, WriteObjectInv
  <2> QED BY <1>1, <2>1 DEF OperatorInv, OperatorTypeOK, CopyInv, StepFacts, WellFormed, BeforeWorkspaceID
<1>2. CASE Return /\ UNCHANGED <<cr, cached, cacheFresh>>
  <2>1. UNCHANGED kubeVars
    BY <1>2 DEF kubeVars, unchangedObjects
  <2> QED BY <1>2, <2>1, ReturnInv, ObjectsStutter
<1> QED BY <1>1, <1>2 DEF Update

(***************************************************************************)
(* How the steps of a reconcile end, for the whole invariant.  A step      *)
(* either leaves the objects alone, and then what is left to show is       *)
(* CloudInv', or writes the object and leaves Terraform Cloud alone.       *)
(***************************************************************************)
LEMMA InstanceType ==
  ASSUME IInv, pc # "idle"
  PROVE  /\ instance \in Object /\ cr \in Object
         /\ status \in WorkspaceStatus /\ spec \in WorkspaceSpec
         /\ local \in Locals
         /\ pc \notin BeforeWorkspaceID => status.workspaceID \in WorkspaceIDs
<1>1. instance \in Object /\ cr \in Object /\ local \in Locals
  BY DEF IInv, ObjectsInv, KubernetesApiTypeOK, OperatorInv, OperatorTypeOK
<1>2. status \in WorkspaceStatus /\ spec \in WorkspaceSpec
  BY <1>1 DEF Object, status, spec
<1>3. pc \notin BeforeWorkspaceID => status.workspaceID \in WorkspaceIDs
  BY <1>2 DEF IInv, OperatorInv, StepFacts, WorkspaceStatus, status
<1> QED BY <1>1, <1>2, <1>3

LEMMA ReturnStep ==
  ASSUME IInv, Return, UNCHANGED kubeVars, UNCHANGED tfcVars \/ CloudInv'
  PROVE  IInv'
BY ReturnInv, ObjectsStutter, CloudStutter DEF IInv

\* A step that leaves its copy alone and moves on.
LEMMA GotoStep ==
  ASSUME IInv, NEW step \in Steps \ BeforeWorkspaceID,
         pc # "idle", pc \notin BeforeWorkspaceID \/ status.workspaceID # None,
         Goto(step) \/ (pc' = step /\ aborts' = aborts + 1 /\ aborts < MaxAborts
                          /\ UNCHANGED <<instance, fresh>>),
         local' \in Locals, local'.outputs = local.outputs,
         UNCHANGED kubeVars, UNCHANGED tfcVars \/ CloudInv'
  PROVE  IInv'
<1>1. aborts' \in 0 .. MaxAborts
  BY DEF IInv, OperatorInv, OperatorTypeOK, Goto
<1>2. instance.status.workspaceID # None
  BY DEF IInv, OperatorInv, StepFacts, status
<1>3. OperatorInv'
  BY <1>1, <1>2, GotoInv DEF IInv, Goto, kubeVars
<1> QED BY <1>3, ObjectsStutter, CloudStutter DEF IInv

\* A write of the object by a step that has the workspace's ID.
LEMMA UpdateStep ==
  ASSUME IInv, NEW step \in Steps \ BeforeWorkspaceID, pc \notin BeforeWorkspaceID,
         NEW o, Update(o, step), UNCHANGED <<tfcVars, unchangedObjects>>,
         fresh => o \in Object /\ WellFormed(o)
                    /\ o.status.workspaceID = instance.status.workspaceID
  PROVE  IInv'
<1>1. pc # "idle" /\ instance.status.workspaceID # None
  BY DEF IInv, OperatorInv, StepFacts, BeforeWorkspaceID
<1>2. ObjectsInv' /\ OperatorInv'
  BY <1>1, UpdateInv DEF IInv
<1> QED BY <1>2, CloudStutter DEF IInv

\* The last write of a reconcile.
LEMMA FinalWrite ==
  ASSUME IInv, NEW o \in Object, WellFormed(o), WriteObject(o), Return,
         UNCHANGED <<tfcVars, unchangedObjects>>
  PROVE  IInv'
BY ReturnInv, WriteObjectInv, CloudStutter DEF IInv

\* A step that skips its write.
LEMMA ObjectsUnwritten ==
  UNCHANGED <<cr, cached, cacheFresh>> /\ UNCHANGED unchangedObjects => UNCHANGED kubeVars
BY DEF kubeVars, unchangedObjects

\* A write of the status, or of the finalizer, through a fresh copy.
LEMMA WithStatusType ==
  ASSUME IInv, fresh, NEW s \in WorkspaceStatus,
         s.outputs # None => s.outputs.workspace = s.workspaceID,
         cr.finalizer => s.workspaceID # None
  PROVE  /\ WithStatus(s) \in Object /\ WellFormed(WithStatus(s))
         /\ WithStatus(s).status = s
<1>1. cr \in Object
  BY DEF IInv, ObjectsInv, KubernetesApiTypeOK
<1> QED BY <1>1 DEF WithStatus, Object, WellFormed

(***************************************************************************)
(* One lemma for the steps of each function of the operator.               *)
(***************************************************************************)
LEMMA InitInv == Init => IInv
<1> SUFFICES ASSUME Init PROVE IInv
  OBVIOUS
<1>1. CloudInv
  <2>1. NoWorkspace \in Workspace /\ NoRun \in Run /\ NoConfigVersion \in ConfigVersion
    BY DEF Workspace, NoWorkspace, Run, NoRun, ConfigVersion, NoConfigVersion
  <2>2. 0 \in 0 .. MaxOutOfBand
    OBVIOUS
  <2>3. TerraformCloudTypeOK
    BY <2>1, <2>2 DEF Init, TerraformCloudInit, TerraformCloudTypeOK
  <2>4. RunsAnchored
    BY DEF Init, TerraformCloudInit, RunsAnchored, NoRun, isPending, PendingStatuses
  <2> QED BY <2>3, <2>4 DEF CloudInv
<1>2. ObjectsInv
  <2>1. BlankStatus \in WorkspaceStatus
    BY DEF BlankStatus, WorkspaceStatus, Outputs
  <2>2. /\ cr.phase = "active" /\ cr.spec \in Specs /\ cr.finalizer = FALSE
        /\ cr.status = BlankStatus /\ cr \in Object
    BY <2>1 DEF Init, KubernetesApiInit, Object
  <2>3. WellFormed(cr)
    <3>1. BlankStatus.outputs = None
      BY DEF BlankStatus
    <3> QED BY <2>2, <3>1 DEF WellFormed
  <2>4. 0 \in 0 .. MaxEdits
    OBVIOUS
  <2>5. KubernetesApiTypeOK
    BY <2>2, <2>4 DEF Init, KubernetesApiInit, KubernetesApiTypeOK
  <2>6. cached = cr
    BY DEF Init, KubernetesApiInit
  <2> QED BY <2>3, <2>5, <2>6 DEF ObjectsInv
<1>3. OperatorInv
  <2>1. NoLocals \in Locals /\ NoLocals.outputs = None
    BY DEF NoLocals, Locals, Outputs
  <2>2. 0 \in 0 .. MaxAborts
    OBVIOUS
  <2>3. pc = "idle" /\ instance = None /\ fresh = FALSE /\ local = NoLocals /\ aborts = 0
    BY DEF Init
  <2> QED BY <2>1, <2>2, <2>3 DEF OperatorInv, OperatorTypeOK, CopyInv, StepFacts,
                                  Steps, BeforeWorkspaceID
<1> QED BY <1>1, <1>2, <1>3 DEF IInv

LEMMA InitializeReconciliationInv == IInv /\ InitializeReconciliation => IInv'
<1> SUFFICES ASSUME IInv, InitializeReconciliation PROVE IInv'
  OBVIOUS
<1>1. CloudInv' /\ ObjectsInv'
  BY CloudStutter, ObjectsStutter DEF IInv, InitializeReconciliation
<1>2. cached \in Object /\ WellFormed(cached) /\ cacheFresh \in BOOLEAN
        /\ (cacheFresh => cached = cr)
  BY DEF IInv, ObjectsInv, KubernetesApiTypeOK
<1>3. pc' \in {"condDeleteWorkspace", "CheckWorkspace"} /\ pc = "idle"
        /\ instance' = cached /\ fresh' = cacheFresh /\ cr' = cr
        /\ UNCHANGED <<local, aborts>>
  BY DEF InitializeReconciliation, kubeVars
<1>4. OperatorTypeOK'
  BY <1>2, <1>3 DEF IInv, OperatorInv, OperatorTypeOK, Steps
<1>5. CopyInv'
  BY <1>2, <1>3 DEF CopyInv, WellFormed
<1>6. StepFacts'
  BY <1>3 DEF IInv, OperatorInv, StepFacts, BeforeWorkspaceID
<1> QED BY <1>1, <1>4, <1>5, <1>6 DEF IInv, OperatorInv

LEMMA AbortInv == IInv /\ Abort => IInv'
<1> SUFFICES ASSUME IInv, Abort PROVE IInv'
  OBVIOUS
<1>1. aborts' \in 0 .. MaxAborts
  BY DEF Abort, IInv, OperatorInv, OperatorTypeOK
<1>2. OperatorInv'
  BY <1>1, IdleInv DEF Abort
<1> QED BY <1>2, CloudStutter, ObjectsStutter DEF Abort, IInv

LEMMA CondDeleteInv == IInv /\ condDeleteSteps => IInv'
<1> SUFFICES ASSUME IInv, condDeleteSteps PROVE IInv'
  OBVIOUS
<1>1. pc # "idle"
  BY DEF condDeleteSteps, CondDeleteWorkspace, FinalizeWorkspace, DeleteRuns, ForceCancel,
         DeleteResources, CreateDestroyRun, AwaitDestroy, DeleteWorkspace, RemoveFinalizer
<1>2. /\ instance \in Object /\ cr \in Object /\ local \in Locals
      /\ status \in WorkspaceStatus
      /\ pc \notin BeforeWorkspaceID => status.workspaceID \in WorkspaceIDs
  BY <1>1, InstanceType
<1>3. CloudInv
  BY DEF IInv
<1>4. CASE CondDeleteWorkspace
  <2>1. CASE Return
    BY <1>4, <2>1, ReturnStep DEF CondDeleteWorkspace
  <2>2. CASE ~Return
    BY <1>1, <1>2, <1>4, <2>2, GotoStep DEF CondDeleteWorkspace, BeforeWorkspaceID, Steps
  <2> QED BY <2>1, <2>2
<1>5. CASE FinalizeWorkspace
  <2>1. pc' \in {"DeleteRuns", "removeFinalizer"}
          /\ (aborts' = aborts \/ (aborts < MaxAborts /\ aborts' = aborts + 1))
    BY <1>5 DEF FinalizeWorkspace
  <2> QED
    BY <1>1, <1>2, <1>5, <2>1, GotoStep DEF FinalizeWorkspace, BeforeWorkspaceID, Steps, Goto
<1>6. CASE DeleteRuns
  <2>1. CASE Return
    BY <1>6, <2>1, ReturnStep DEF DeleteRuns
  <2>2. CASE local' = [local EXCEPT !.toCancel = ActiveRunsOf(status.workspaceID)] /\ Goto("ForceCancel")
    <3>1. ActiveRunsOf(status.workspaceID) \subseteq RunIDs
      BY DEF ActiveRunsOf, RunsOf
    <3>2. local' \in Locals /\ local'.outputs = local.outputs
      BY <1>2, <2>2, <3>1 DEF Locals
    <3> QED BY <1>1, <1>6, <2>2, <3>2, GotoStep DEF DeleteRuns, BeforeWorkspaceID, Steps
  <2> QED BY <1>6, <2>1, <2>2 DEF DeleteRuns
<1>7. CASE ForceCancel
  <2>1. CASE local.toCancel = {} /\ Goto("DeleteResources") /\ UNCHANGED <<local, runs, workspaces>>
    BY <1>1, <1>2, <1>7, <2>1, GotoStep DEF ForceCancel, BeforeWorkspaceID, Steps, tfcVars
  <2>2. CASE Return /\ UNCHANGED <<runs, workspaces>>
    BY <1>7, <2>2, ReturnStep DEF ForceCancel, tfcVars
  <2>3. ASSUME NEW r \in local.toCancel, isPending(runs[r].status), CancelRun(r),
               local' = [local EXCEPT !.toCancel = @ \ {r}], Goto("ForceCancel")
        PROVE  IInv'
    <3>1. r \in RunIDs
      BY <1>2 DEF Locals
    <3>2. CloudInv'
      BY <1>3, <1>7, <2>3, <3>1, CancelRunInv DEF ForceCancel
    <3>3. local' \in Locals /\ local'.outputs = local.outputs
      BY <1>2, <2>3 DEF Locals
    <3> QED BY <1>1, <1>7, <2>3, <3>2, <3>3, GotoStep DEF ForceCancel, BeforeWorkspaceID, Steps
  <2> QED BY <1>7, <2>1, <2>2, <2>3 DEF ForceCancel
<1>8. CASE DeleteResources
  <2>1. CASE Return
    BY <1>8, <2>1, ReturnStep DEF DeleteResources
  <2>2. CASE ~Return
    <3>1. \/ Goto("DeleteWorkspace") /\ UNCHANGED local
          \/ Goto("createDestroyRun") /\ UNCHANGED local
      BY <1>8, <2>2 DEF DeleteResources
    <3> QED BY <1>1, <1>2, <1>8, <3>1, GotoStep DEF DeleteResources, BeforeWorkspaceID, Steps
  <2> QED BY <2>1, <2>2
<1>9. CASE CreateDestroyRun
  <2>1. CASE Return /\ UNCHANGED <<runs, workspaces>>
    BY <1>9, <2>1, ReturnStep DEF CreateDestroyRun, tfcVars
  <2>2. ASSUME NEW r \in FreeRuns, CreateRun(r, status.workspaceID, TRUE, TRUE),
               local' = [local EXCEPT !.run = r], Goto("awaitDestroy")
        PROVE  IInv'
    <3>1. r \in RunIDs
      BY DEF FreeRuns
    <3>2. status.workspaceID \in WorkspaceIDs
      BY <1>2, <1>9 DEF CreateDestroyRun, BeforeWorkspaceID
    <3>3. outOfBand' \in 0 .. MaxOutOfBand
      BY <1>3, <1>9 DEF CreateDestroyRun, CloudInv, TerraformCloudTypeOK
    <3>4. CloudInv'
      BY <1>3, <1>9, <2>2, <3>1, <3>2, <3>3, CreateRunInv DEF CreateDestroyRun
    <3>5. local' \in Locals /\ local'.outputs = local.outputs
      BY <1>2, <2>2, <3>1 DEF Locals
    <3> QED BY <1>1, <1>9, <2>2, <3>4, <3>5, GotoStep DEF CreateDestroyRun, BeforeWorkspaceID, Steps
  <2> QED BY <1>9, <2>1, <2>2 DEF CreateDestroyRun
<1>10. CASE AwaitDestroy
  <2>1. CASE Return
    BY <1>10, <2>1, ReturnStep DEF AwaitDestroy
  <2>2. CASE Goto("DeleteWorkspace") /\ UNCHANGED local
    BY <1>1, <1>2, <1>10, <2>2, GotoStep DEF AwaitDestroy, BeforeWorkspaceID, Steps
  <2> QED BY <1>10, <2>1, <2>2 DEF AwaitDestroy
<1>11. CASE DeleteWorkspace
  <2>1. status.workspaceID \in WorkspaceIDs
    BY <1>2, <1>11 DEF DeleteWorkspace, BeforeWorkspaceID
  <2>2. outOfBand' \in 0 .. MaxOutOfBand
    BY <1>3, <1>11 DEF DeleteWorkspace, CloudInv, TerraformCloudTypeOK
  <2>3. CloudInv' \/ UNCHANGED tfcVars
    BY <1>3, <1>11, <2>1, <2>2, DeleteWorkspaceInv DEF DeleteWorkspace, tfcVars
  <2>4. aborts' = aborts \/ (aborts < MaxAborts /\ aborts' = aborts + 1)
    BY <1>11 DEF DeleteWorkspace
  <2> QED BY <1>1, <1>2, <1>11, <2>3, <2>4, GotoStep DEF DeleteWorkspace, BeforeWorkspaceID, Steps, Goto
<1>12. CASE RemoveFinalizer
  <2> DEFINE o == [WithFinalizer(FALSE) EXCEPT !.phase = "gone"]
  <2>1. o \in Object /\ o.finalizer = FALSE /\ o.status = cr.status
    BY <1>2 DEF Object, WithFinalizer
  <2>2. WellFormed(cr)
    BY DEF IInv, ObjectsInv
  <2>3. WellFormed(o)
    BY <2>1, <2>2 DEF WellFormed
  <2>4. CASE fresh
    BY <1>12, <2>1, <2>3, <2>4, FinalWrite DEF RemoveFinalizer
  <2>5. CASE ~fresh
    BY <1>12, <2>5, ReturnStep, ObjectsUnwritten DEF RemoveFinalizer
  <2> QED BY <2>4, <2>5
<1> QED
  BY <1>4, <1>5, <1>6, <1>7, <1>8, <1>9, <1>10, <1>11, <1>12 DEF condDeleteSteps

LEMMA ReconcileWorkspaceInv ==
  IInv /\ (CheckWorkspace \/ RecordWorkspaceID \/ RecordRunID \/ AddFinalizer) => IInv'
<1> SUFFICES ASSUME IInv, CheckWorkspace \/ RecordWorkspaceID \/ RecordRunID \/ AddFinalizer
             PROVE  IInv'
  OBVIOUS
<1>1. pc # "idle"
  BY DEF CheckWorkspace, RecordWorkspaceID, RecordRunID, AddFinalizer
<1>2. /\ instance \in Object /\ cr \in Object /\ local \in Locals
      /\ status \in WorkspaceStatus /\ spec \in WorkspaceSpec
      /\ pc \notin BeforeWorkspaceID => status.workspaceID \in WorkspaceIDs
  BY <1>1, InstanceType
<1>3. /\ CloudInv /\ ObjectsInv /\ OperatorTypeOK /\ StepFacts
      /\ WellFormed(instance) /\ (fresh => instance = cr)
  BY <1>1 DEF IInv, OperatorInv, CopyInv
<1>4. CASE CheckWorkspace
  <2>1. CASE Return /\ UNCHANGED workspaces
    BY <1>4, <2>1, ReturnStep DEF CheckWorkspace, tfcVars
  <2>2. ASSUME NEW w \in WorkspaceIDs, NEW run \in RunIDs \cup {None},
               local' = [local EXCEPT !.workspace = w, !.run = run],
               Goto("recordWorkspaceID"), CloudInv'
        PROVE  IInv'
    <3>1. local' \in Locals /\ local'.outputs = local.outputs /\ local'.workspace = w
      BY <1>2, <2>2 DEF Locals
    <3>2. local.outputs = None
      BY <1>3, <1>4 DEF StepFacts, CheckWorkspace, BeforeWorkspaceID
    <3>3. UNCHANGED <<instance, fresh, aborts>> /\ pc' = "recordWorkspaceID"
            /\ UNCHANGED kubeVars /\ cr' = cr
      BY <1>4, <2>2 DEF Goto, CheckWorkspace, kubeVars
    <3>4. OperatorTypeOK'
      BY <1>2, <1>3, <3>1, <3>3 DEF OperatorTypeOK, Steps
    <3>5. CopyInv'
      BY <1>1, <1>3, <3>3 DEF CopyInv, WellFormed
    <3>6. StepFacts'
      BY <3>1, <3>2, <3>3 DEF StepFacts, BeforeWorkspaceID
    <3> QED BY <1>3, <2>2, <3>3, <3>4, <3>5, <3>6, ObjectsStutter DEF IInv, OperatorInv
  <2>3. CASE \E w \in WorkspacesNamed(spec.organization) :
               /\ local' = [local EXCEPT !.workspace = w, !.run = workspaces[w].currentRun]
               /\ Goto("recordWorkspaceID")
               /\ UNCHANGED workspaces
    <3>1. PICK w \in WorkspaceIDs :
               /\ local' = [local EXCEPT !.workspace = w, !.run = workspaces[w].currentRun]
               /\ Goto("recordWorkspaceID")
               /\ UNCHANGED workspaces
      BY <2>3 DEF WorkspacesNamed
    <3>2. workspaces[w].currentRun \in RunIDs \cup {None}
      BY <1>3 DEF CloudInv, TerraformCloudTypeOK, Workspace
    <3>3. CloudInv'
      BY <1>3, <1>4, <3>1, CloudStutter DEF CheckWorkspace, tfcVars
    <3> QED BY <2>2, <3>1, <3>2, <3>3
  <2>4. ASSUME NEW w \in FreeWorkspaces,
               CreateWorkspace(w, spec.organization, spec.vcs),
               local' = [local EXCEPT !.workspace = w], Goto("recordWorkspaceID")
        PROVE  IInv'
    <3>1. w \in WorkspaceIDs
      BY DEF FreeWorkspaces
    <3>2. spec.organization \in Organizations /\ spec.vcs \in BOOLEAN
      BY <1>2 DEF WorkspaceSpec
    <3>3. CloudInv'
      <4>1. UNCHANGED <<runs, configVersions, outOfBand>>
        BY <1>4 DEF CheckWorkspace
      <4> QED BY <1>3, <2>4, <3>1, <3>2, <4>1, CreateWorkspaceInv
    <3>4. local.run \in RunIDs \cup {None}
      BY <1>2 DEF Locals
    <3>5. local' = [local EXCEPT !.workspace = w, !.run = local.run]
      BY <1>2, <2>4 DEF Locals
    <3> QED BY <2>2, <2>4, <3>1, <3>3, <3>4, <3>5
  <2> QED BY <1>4, <2>1, <2>3, <2>4 DEF CheckWorkspace
<1>5. CASE RecordWorkspaceID
  <2> DEFINE s == [status EXCEPT !.workspaceID = local.workspace, !.outputs = None]
  <2>1. local.workspace \in WorkspaceIDs /\ local.outputs = None
    BY <1>2, <1>3, <1>5 DEF RecordWorkspaceID, StepFacts, Locals, BeforeWorkspaceID
  <2>2. CASE status.workspaceID = local.workspace
    BY <1>1, <1>2, <1>5, <2>1, <2>2, GotoStep, ObjectsUnwritten
       DEF RecordWorkspaceID, BeforeWorkspaceID, Steps
  <2>3. CASE Return /\ UNCHANGED <<cr, cached, cacheFresh>>
    BY <1>5, <2>3, ReturnStep, ObjectsUnwritten DEF RecordWorkspaceID
  <2>4. CASE /\ fresh
             /\ instance' = WithStatus(s)
             /\ WriteObject(instance')
             /\ local' = [local EXCEPT !.outputsReset = TRUE]
             /\ pc' = "recordRunID"
             /\ UNCHANGED <<fresh, aborts>>
    <3>1. s \in WorkspaceStatus /\ s.workspaceID = local.workspace /\ s.outputs = None
      BY <1>2, <2>1 DEF WorkspaceStatus, Outputs
    <3>2. WithStatus(s) \in Object /\ WellFormed(WithStatus(s)) /\ WithStatus(s).status = s
      BY <2>1, <2>4, <3>1, WithStatusType
    <3>3. ObjectsInv' /\ cr' = instance'
      BY <1>3, <1>5, <2>4, <3>2, WriteObjectInv DEF RecordWorkspaceID
    <3>4. local' \in Locals /\ local'.outputs = None
      BY <1>2, <2>1, <2>4 DEF Locals
    <3>5. OperatorTypeOK'
      BY <1>3, <2>4, <3>2, <3>4 DEF OperatorTypeOK, Steps
    <3>6. CopyInv'
      BY <2>4, <3>2, <3>3 DEF CopyInv, WellFormed
    <3>7. StepFacts'
      BY <2>1, <2>4, <3>1, <3>2, <3>4 DEF StepFacts, BeforeWorkspaceID
    <3> QED
      BY <1>3, <1>5, <3>3, <3>5, <3>6, <3>7, CloudStutter DEF IInv, OperatorInv, RecordWorkspaceID
  <2> QED BY <1>5, <2>2, <2>3, <2>4 DEF RecordWorkspaceID
<1>6. CASE RecordRunID
  <2>1. pc \notin BeforeWorkspaceID
    BY <1>6 DEF RecordRunID, BeforeWorkspaceID
  <2> DEFINE s == [status EXCEPT !.runID = local.run]
  <2>2. CASE Update(WithStatus(s), "addFinalizer")
    <3>1. s \in WorkspaceStatus /\ s.workspaceID = status.workspaceID /\ s.outputs = status.outputs
      BY <1>2 DEF WorkspaceStatus, Locals
    <3>2. s.outputs # None => s.outputs.workspace = s.workspaceID
      BY <1>3, <3>1 DEF WellFormed, status
    <3>3. fresh => /\ WithStatus(s) \in Object /\ WellFormed(WithStatus(s))
                   /\ WithStatus(s).status = s
      BY <1>2, <1>3, <2>1, <3>1, <3>2, WithStatusType DEF WellFormed, status
    <3> QED
      BY <1>6, <2>1, <2>2, <3>1, <3>3, UpdateStep DEF RecordRunID, Steps, BeforeWorkspaceID, status
  <2>3. CASE Goto("addFinalizer") /\ UNCHANGED <<cr, cached, cacheFresh, local>>
    BY <1>1, <1>2, <1>6, <2>1, <2>3, GotoStep, ObjectsUnwritten
       DEF RecordRunID, Steps, BeforeWorkspaceID
  <2> QED BY <1>6, <2>2, <2>3 DEF RecordRunID
<1>7. CASE AddFinalizer
  <2>1. pc \notin BeforeWorkspaceID
    BY <1>7 DEF AddFinalizer, BeforeWorkspaceID
  <2>2. CASE Update(WithFinalizer(TRUE), "runInProgress")
    <3>1. /\ WithFinalizer(TRUE) \in Object /\ WithFinalizer(TRUE).status = cr.status
          /\ cr.status \in WorkspaceStatus
      BY <1>2 DEF WithFinalizer, Object
    <3>2. fresh => cr.status.workspaceID # None
      BY <1>3, <2>1 DEF StepFacts
    <3>3. fresh => WellFormed(WithFinalizer(TRUE))
      BY <1>3, <3>1, <3>2 DEF WellFormed
    <3> QED
      BY <1>3, <1>7, <2>1, <2>2, <3>1, <3>3, UpdateStep DEF AddFinalizer, Steps, BeforeWorkspaceID
  <2>3. CASE Goto("runInProgress") /\ UNCHANGED <<cr, cached, cacheFresh, local>>
    BY <1>1, <1>2, <1>7, <2>1, <2>3, GotoStep, ObjectsUnwritten
       DEF AddFinalizer, Steps, BeforeWorkspaceID
  <2> QED BY <1>7, <2>2, <2>3 DEF AddFinalizer
<1> QED BY <1>4, <1>5, <1>6, <1>7

\* Runs, outputs and templates that are read or compared.
LEMMA ProcessRunInv ==
  IInv /\ (\/ RunInProgress \/ RecordRunStatus \/ ProcessFinishedRun
           \/ RecordOutputs \/ UpsertSecretOutputs) => IInv'
<1> SUFFICES ASSUME IInv, \/ RunInProgress \/ RecordRunStatus \/ ProcessFinishedRun
                          \/ RecordOutputs \/ UpsertSecretOutputs
             PROVE  IInv'
  OBVIOUS
<1>0. pc \notin BeforeWorkspaceID
  BY DEF RunInProgress, RecordRunStatus, ProcessFinishedRun, RecordOutputs,
         UpsertSecretOutputs, BeforeWorkspaceID
<1>1. pc # "idle"
  BY <1>0 DEF BeforeWorkspaceID
<1>2. /\ instance \in Object /\ cr \in Object /\ local \in Locals
      /\ status \in WorkspaceStatus /\ status.workspaceID \in WorkspaceIDs
  BY <1>0, <1>1, InstanceType
<1>3. /\ CloudInv /\ ObjectsInv /\ OperatorTypeOK /\ StepFacts /\ OperatorInv
      /\ WellFormed(instance) /\ (fresh => instance = cr)
  BY <1>1 DEF IInv, OperatorInv, CopyInv
<1>4. CASE RunInProgress
  <2>1. CASE Return
    BY <1>4, <2>1, ReturnStep DEF RunInProgress
  <2>2. CASE Goto("processFinishedRun") /\ UNCHANGED local
    BY <1>0, <1>1, <1>2, <1>4, <2>2, GotoStep DEF RunInProgress, Steps, BeforeWorkspaceID
  <2>3. CASE /\ status.runID # None => runs[status.runID].status # ""
             /\ local' = [local EXCEPT !.runStatus =
                            IF status.runID = None THEN "" ELSE runs[status.runID].status]
             /\ Goto("recordRunStatus")
    <3>1. status.runID \in RunIDs \cup {None}
      BY <1>2 DEF WorkspaceStatus
    <3>2. \A r \in RunIDs : runs[r].status \in PendingStatuses \cup FinalStatuses \cup {""}
      BY <1>3 DEF CloudInv, TerraformCloudTypeOK, Run
    <3>3. local' \in Locals /\ local'.outputs = local.outputs
      BY <1>2, <2>3, <3>1, <3>2 DEF Locals
    <3> QED
      BY <1>0, <1>1, <1>4, <2>3, <3>3, GotoStep DEF RunInProgress, Steps, BeforeWorkspaceID
  <2> QED BY <1>4, <2>1, <2>2, <2>3 DEF RunInProgress
<1>5. CASE RecordRunStatus
  <2> DEFINE s == [status EXCEPT !.runStatus = local.runStatus]
  <2>1. CASE fresh /\ WriteObject(WithStatus(s))
    <3>1. s \in WorkspaceStatus /\ s.workspaceID = status.workspaceID /\ s.outputs = status.outputs
      BY <1>2 DEF WorkspaceStatus, Locals
    <3>2. s.outputs # None => s.outputs.workspace = s.workspaceID
      BY <1>3, <3>1 DEF WellFormed, status
    <3>3. s.workspaceID # None
      BY <1>0, <1>3, <3>1 DEF StepFacts, status
    <3>4. WithStatus(s) \in Object /\ WellFormed(WithStatus(s))
      BY <2>1, <3>1, <3>2, <3>3, WithStatusType
    <3> QED BY <1>5, <2>1, <3>4, FinalWrite DEF RecordRunStatus
  <2>2. CASE UNCHANGED <<cr, cached, cacheFresh>>
    BY <1>5, <2>2, ReturnStep, ObjectsUnwritten DEF RecordRunStatus
  <2> QED BY <1>5, <2>1, <2>2 DEF RecordRunStatus
<1>6. CASE ProcessFinishedRun
  <2>1. CASE Return
    BY <1>6, <2>1, ReturnStep DEF ProcessFinishedRun
  <2>2. CASE Goto("updateTerraformTemplate") /\ UNCHANGED local
    BY <1>0, <1>1, <1>2, <1>6, <2>2, GotoStep DEF ProcessFinishedRun, Steps, BeforeWorkspaceID
  <2>3. CASE Goto("recordOutputs") /\ UNCHANGED local
    BY <1>0, <1>1, <1>2, <1>6, <2>3, GotoStep DEF ProcessFinishedRun, Steps, BeforeWorkspaceID
  <2>4. CASE /\ workspaces[status.workspaceID].deployed # None
             /\ local' = [local EXCEPT !.outputs = StateOutputs(status.workspaceID)]
             /\ Goto("recordOutputs")
    <3> DEFINE w == status.workspaceID
               o == StateOutputs(w)
    <3>1. workspaces[w] \in Workspace
      BY <1>2, <1>3 DEF CloudInv, TerraformCloudTypeOK
    <3>2. workspaces[w].deployed \in Configs \cup {None, Destroyed}
      BY <3>1 DEF Workspace
    <3>3. o \in Outputs /\ (o # None => o.workspace = w)
      BY <1>2, <2>4, <3>2 DEF StateOutputs, Outputs
    <3>4. local' \in Locals /\ local'.outputs = o
      BY <1>2, <2>4, <3>3 DEF Locals
    <3>5. pc' = "recordOutputs" /\ UNCHANGED <<instance, fresh, aborts>>
            /\ UNCHANGED kubeVars /\ cr' = cr /\ UNCHANGED tfcVars
      BY <1>6, <2>4 DEF Goto, ProcessFinishedRun, kubeVars
    <3>6. OperatorTypeOK'
      BY <1>2, <1>3, <3>4, <3>5 DEF OperatorTypeOK, Steps
    <3>7. CopyInv'
      BY <1>1, <1>3, <3>5 DEF CopyInv, WellFormed
    <3>8. StepFacts'
      BY <1>0, <1>3, <3>3, <3>4, <3>5 DEF StepFacts, BeforeWorkspaceID, status
    <3> QED
      BY <1>3, <3>5, <3>6, <3>7, <3>8, ObjectsStutter, CloudStutter DEF IInv, OperatorInv
  <2> QED BY <1>6, <2>1, <2>2, <2>3, <2>4 DEF ProcessFinishedRun
<1>7. CASE RecordOutputs
  <2> DEFINE s == [status EXCEPT !.outputs = local.outputs]
  <2>1. CASE Update(WithStatus(s), "UpsertSecretOutputs")
    <3>1. s \in WorkspaceStatus /\ s.workspaceID = status.workspaceID /\ s.outputs = local.outputs
      BY <1>2 DEF WorkspaceStatus, Locals
    <3>2. s.outputs # None => s.outputs.workspace = s.workspaceID
      BY <1>3, <3>1 DEF StepFacts, status
    <3>3. s.workspaceID # None
      BY <1>0, <1>3, <3>1 DEF StepFacts, status
    <3>4. fresh => /\ WithStatus(s) \in Object /\ WellFormed(WithStatus(s))
                   /\ WithStatus(s).status = s
      BY <3>1, <3>2, <3>3, WithStatusType
    <3> QED
      BY <1>0, <1>7, <2>1, <3>1, <3>4, UpdateStep DEF RecordOutputs, Steps, BeforeWorkspaceID, status
  <2>2. CASE Goto("UpsertSecretOutputs") /\ UNCHANGED <<cr, cached, cacheFresh, local>>
    BY <1>0, <1>1, <1>2, <1>7, <2>2, GotoStep, ObjectsUnwritten
       DEF RecordOutputs, Steps, BeforeWorkspaceID
  <2> QED BY <1>7, <2>1, <2>2 DEF RecordOutputs
<1>8. CASE UpsertSecretOutputs
  <2>1. secret' \in [outputs: Outputs] /\ UNCHANGED <<cr, cached, cacheFresh, configMap, cachedConfigMap, edits, tfcVars>>
    BY <1>2, <1>8 DEF UpsertSecretOutputs, WorkspaceStatus
  <2>2. ObjectsInv'
    BY <1>3, <2>1 DEF ObjectsInv, KubernetesApiTypeOK, WellFormed
  <2>3. pc' = "updateTerraformTemplate" /\ UNCHANGED <<instance, fresh, aborts, local, cr>>
    BY <1>8 DEF UpsertSecretOutputs, Goto
  <2>4. instance.status.workspaceID # None
    BY <1>0, <1>3 DEF StepFacts
  <2>5. OperatorInv'
    BY <1>1, <1>2, <1>3, <2>3, <2>4, GotoInv DEF Steps, BeforeWorkspaceID, OperatorTypeOK
  <2> QED BY <1>3, <2>1, <2>2, <2>5, CloudStutter DEF IInv
<1> QED BY <1>4, <1>5, <1>6, <1>7, <1>8

\* The reconcile's variables keep their types when one of them is set.
LEMMA LocalsType ==
  ASSUME local \in Locals
  PROVE  /\ \A b \in BOOLEAN : [local EXCEPT !.updated = b] \in Locals
         /\ \A t \in Templates \cup {None} : [local EXCEPT !.template = t] \in Locals
<1>1. ASSUME NEW b \in BOOLEAN
      PROVE  [local EXCEPT !.updated = b] \in Locals
  BY DEF Locals
<1>2. ASSUME NEW t \in Templates \cup {None}
      PROVE  [local EXCEPT !.template = t] \in Locals
  BY DEF Locals
<1> QED BY <1>1, <1>2

LEMMA StartConditionsInv ==
  IInv /\ (UpdateTerraformTemplate \/ UpdateVariables \/ UpdateRunTriggers) => IInv'
<1> SUFFICES ASSUME IInv, UpdateTerraformTemplate \/ UpdateVariables \/ UpdateRunTriggers
             PROVE  IInv'
  OBVIOUS
<1>0. pc \notin BeforeWorkspaceID
  BY DEF UpdateTerraformTemplate, UpdateVariables, UpdateRunTriggers, BeforeWorkspaceID
<1>1. pc # "idle"
  BY <1>0 DEF BeforeWorkspaceID
<1>2. /\ instance \in Object /\ local \in Locals /\ spec \in WorkspaceSpec
      /\ status \in WorkspaceStatus /\ status.workspaceID \in WorkspaceIDs
  BY <1>0, <1>1, InstanceType
<1>3. CloudInv /\ ObjectsInv /\ OperatorInv /\ OperatorTypeOK /\ StepFacts
  BY DEF IInv, OperatorInv
<1>4. CASE UpdateTerraformTemplate
  <2>1. CASE Return /\ UNCHANGED configMap
    <3>1. UNCHANGED kubeVars /\ UNCHANGED tfcVars
      BY <1>4, <2>1 DEF UpdateTerraformTemplate, kubeVars
    <3> QED BY <2>1, <3>1, ReturnStep
  <2>2. CASE /\ Goto("updateVariables")
             /\ \/ UNCHANGED <<local, configMap>>
                \/ /\ configMap' = spec.template
                   /\ local' = [local EXCEPT !.updated = TRUE]
    <3>1. local' \in Locals /\ local'.outputs = local.outputs
      <4>1. CASE UNCHANGED local
        BY <1>2, <4>1
      <4>2. CASE local' = [local EXCEPT !.updated = TRUE]
        <5>1. local' \in Locals
          BY <1>2, <4>2, LocalsType
        <5> QED BY <1>2, <4>2, <5>1 DEF Locals
      <4> QED BY <2>2, <4>1, <4>2
    <3>2. configMap' \in Templates \cup {None}
      BY <1>2, <1>3, <2>2 DEF WorkspaceSpec, ObjectsInv, KubernetesApiTypeOK
    <3>3. UNCHANGED <<tfcVars, cr, cached, cacheFresh, cachedConfigMap, secret, edits>>
      BY <1>4 DEF UpdateTerraformTemplate
    <3>4. ObjectsInv'
      BY <1>3, <3>2, <3>3 DEF ObjectsInv, KubernetesApiTypeOK, WellFormed
    <3>5. pc' = "updateVariables" /\ UNCHANGED <<instance, fresh, aborts>>
      BY <2>2 DEF Goto
    <3>6. instance.status.workspaceID # None
      BY <1>0, <1>3 DEF StepFacts
    <3>7. OperatorInv'
      BY <1>1, <1>3, <3>1, <3>3, <3>5, <3>6, GotoInv DEF Steps, BeforeWorkspaceID, OperatorTypeOK
    <3> QED BY <1>3, <3>3, <3>4, <3>7, CloudStutter DEF IInv
  <2>3. CASE spec.vcs
    BY <1>4, <2>2, <2>3 DEF UpdateTerraformTemplate
  <2>4. CASE UpsertTerraformConfig
    BY <2>1, <2>2, <2>4 DEF UpsertTerraformConfig
  <2> QED BY <1>4, <2>3, <2>4 DEF UpdateTerraformTemplate
<1>5. CASE UpdateVariables
  <2>1. CASE Return /\ UNCHANGED workspaces
    BY <1>5, <2>1, ReturnStep DEF UpdateVariables, tfcVars
  <2>2. ASSUME NEW w \in WorkspacesNamed(spec.organization),
               workspaces' = [workspaces EXCEPT ![w].value = spec.value],
               local' = [local EXCEPT !.updated =
                           @ \/ workspaces[w].value \notin {None, spec.value}],
               Goto("updateRunTriggers")
        PROVE  IInv'
    <3> DEFINE ws == [workspaces[w] EXCEPT !.value = spec.value]
    <3>1. w \in WorkspaceIDs
      BY DEF WorkspacesNamed
    <3>2. ws \in Workspace
      <4>1. workspaces[w] \in Workspace /\ spec.value \in Values
        BY <1>2, <1>3, <3>1 DEF CloudInv, TerraformCloudTypeOK, WorkspaceSpec
      <4> QED BY <4>1 DEF Workspace
    <3>3. CloudInv'
      BY <1>3, <1>5, <2>2, <3>1, <3>2, WriteWorkspaceInv
         DEF UpdateVariables, CloudInv, TerraformCloudTypeOK
    <3>4. local' \in Locals /\ local'.outputs = local.outputs
      BY <1>2, <2>2 DEF Locals
    <3> QED
      BY <1>0, <1>1, <1>5, <2>2, <3>3, <3>4, GotoStep DEF UpdateVariables, Steps, BeforeWorkspaceID
  <2> QED BY <1>5, <2>1, <2>2 DEF UpdateVariables
<1>6. CASE UpdateRunTriggers
  <2>1. CASE Return /\ UNCHANGED workspaces
    BY <1>6, <2>1, ReturnStep DEF UpdateRunTriggers, tfcVars
  <2>2. ASSUME NEW w \in WorkspacesNamed(spec.organization),
               NEW trigger \in {spec.trigger, None},
               workspaces' = [workspaces EXCEPT ![w].trigger = trigger],
               \/ /\ local' = [local EXCEPT !.updated =
                        local.updated \/ spec.trigger \notin {None, workspaces[w].trigger}]
                  /\ Goto("startRun")
               \/ Return
        PROVE  IInv'
    <3> DEFINE ws == [workspaces[w] EXCEPT !.trigger = trigger]
    <3>1. w \in WorkspaceIDs
      BY DEF WorkspacesNamed
    <3>2. ws \in Workspace
      <4>1. workspaces[w] \in Workspace /\ trigger \in Triggers \cup {None}
        BY <1>2, <1>3, <3>1 DEF CloudInv, TerraformCloudTypeOK, WorkspaceSpec
      <4> QED BY <4>1 DEF Workspace
    <3>3. CloudInv'
      BY <1>3, <1>6, <2>2, <3>1, <3>2, WriteWorkspaceInv
         DEF UpdateRunTriggers, CloudInv, TerraformCloudTypeOK
    <3>4. CASE Return
      BY <1>6, <3>3, <3>4, ReturnStep DEF UpdateRunTriggers
    <3>5. CASE ~Return
      <4> DEFINE updated == local.updated \/ spec.trigger \notin {None, workspaces[w].trigger}
      <4>1. local' = [local EXCEPT !.updated = updated] /\ Goto("startRun")
        BY <2>2, <3>5
      <4>2. updated \in BOOLEAN
        BY <1>2 DEF Locals
      <4>3. local' \in Locals
        BY <1>2, <4>1, <4>2, LocalsType
      <4>4. local'.outputs = local.outputs
        BY <1>2, <4>1 DEF Locals
      <4> QED
        BY <1>0, <1>1, <1>6, <3>3, <4>1, <4>3, <4>4, GotoStep DEF UpdateRunTriggers, Steps, BeforeWorkspaceID
    <3> QED BY <3>4, <3>5
  <2> DEFINE Missing(w) == spec.trigger \notin {None, workspaces[w].trigger}
             Updated(w) == local.updated \/ Missing(w)
             Created(w) == {spec.trigger} \cup
               (IF Missing(w) /\ "CreateRunTrigger" \in Ignored THEN {None} ELSE {})
             Body(w) ==
               /\ \E trigger \in Created(w) :
                    workspaces' = [workspaces EXCEPT ![w].trigger = trigger]
               /\ IF StartCondition(Updated(w))
                    THEN /\ local' = [local EXCEPT !.updated = Updated(w)]
                         /\ Goto("startRun")
                    ELSE Return
  <2>3. ASSUME NEW w \in WorkspacesNamed(spec.organization), Body(w)
        PROVE  IInv'
    <3>1. PICK trigger \in {spec.trigger, None} :
            workspaces' = [workspaces EXCEPT ![w].trigger = trigger]
      BY <2>3
    <3> QED BY <2>2, <2>3, <3>1
  <2>4. (Return /\ UNCHANGED workspaces) \/ \E w \in WorkspacesNamed(spec.organization) : Body(w)
    BY <1>6 DEF UpdateRunTriggers
  <2> QED BY <2>1, <2>3, <2>4
<1> QED BY <1>4, <1>5, <1>6

LEMMA StartRunInv == IInv /\ startRunSteps => IInv'
<1> SUFFICES ASSUME IInv, startRunSteps PROVE IInv'
  OBVIOUS
<1>0. pc \notin BeforeWorkspaceID
  BY DEF startRunSteps, StartRun, CreateConfigurationVersion, UploadConfigurationFile,
         RecordConfigVersion, ReadConfigVersion, ResetConfigVersion, CreateApplyRun, RecordRun,
         BeforeWorkspaceID
<1>1. pc # "idle"
  BY <1>0 DEF BeforeWorkspaceID
<1>2. /\ instance \in Object /\ local \in Locals
      /\ status \in WorkspaceStatus /\ status.workspaceID \in WorkspaceIDs
  BY <1>0, <1>1, InstanceType
<1>3. /\ CloudInv /\ ObjectsInv /\ StepFacts /\ WellFormed(instance)
  BY <1>1 DEF IInv, OperatorInv, CopyInv
\* A status that differs from the copy's in the run or configuration version.
<1>4. ASSUME NEW s \in WorkspaceStatus, s.workspaceID = status.workspaceID,
             s.outputs = status.outputs, fresh
      PROVE  /\ WithStatus(s) \in Object /\ WellFormed(WithStatus(s))
             /\ WithStatus(s).status.workspaceID = instance.status.workspaceID
  <2>1. s.outputs # None => s.outputs.workspace = s.workspaceID
    BY <1>3, <1>4 DEF WellFormed, status
  <2>2. s.workspaceID # None
    BY <1>0, <1>3, <1>4 DEF StepFacts, status
  <2>3. /\ WithStatus(s) \in Object /\ WellFormed(WithStatus(s))
        /\ WithStatus(s).status = s
    BY <1>4, <2>1, <2>2, WithStatusType
  <2> QED BY <1>4, <2>3 DEF status
<1>5. CASE StartRun
  <2>1. CASE Return
    BY <1>5, <2>1, ReturnStep DEF StartRun
  <2>2. CASE ~Return
    <3>1. cachedConfigMap \in Templates \cup {None}
      BY <1>3 DEF ObjectsInv, KubernetesApiTypeOK
    <3>2. local' \in Locals /\ local'.outputs = local.outputs
      <4>1. CASE UNCHANGED local
        BY <1>2, <4>1
      <4>2. CASE local' = [local EXCEPT !.template = cachedConfigMap]
        <5>1. local' \in Locals
          BY <1>2, <3>1, <4>2, LocalsType
        <5> QED BY <1>2, <4>2, <5>1 DEF Locals
      <4> QED BY <1>5, <2>2, <4>1, <4>2 DEF StartRun, prepareVCSRun, prepareModuleRun
    <3>3. \E step \in {"createRun", "readConfigVersion", "CreateConfigurationVersion"} :
            Goto(step)
      BY <1>5, <2>2 DEF StartRun, prepareVCSRun, prepareModuleRun
    <3>4. PICK step \in Steps \ BeforeWorkspaceID : Goto(step)
      BY <3>3 DEF Steps, BeforeWorkspaceID
    <3>5. UNCHANGED kubeVars /\ UNCHANGED tfcVars
      BY <1>5 DEF StartRun
    <3> QED
      BY <1>0, <1>1, <3>2, <3>4, <3>5, GotoStep
  <2> QED BY <2>1, <2>2
<1>6. CASE CreateConfigurationVersion
  <2>1. CASE Return /\ UNCHANGED configVersions
    BY <1>6, <2>1, ReturnStep DEF CreateConfigurationVersion, tfcVars
  <2>2. ASSUME NEW c \in FreeConfigVersions, CreateConfigVersion(c, status.workspaceID),
               local' = [local EXCEPT !.configVersion = c], Goto("UploadConfigurationFile")
        PROVE  IInv'
    <3>1. c \in ConfigVersionIDs
      BY DEF FreeConfigVersions
    <3>2. CloudInv'
      BY <1>2, <1>3, <1>6, <2>2, <3>1, CreateConfigVersionInv DEF CreateConfigurationVersion
    <3>3. local' \in Locals /\ local'.outputs = local.outputs
      BY <1>2, <2>2, <3>1 DEF Locals
    <3> QED
      BY <1>0, <1>1, <1>6, <2>2, <3>2, <3>3, GotoStep
         DEF CreateConfigurationVersion, Steps, BeforeWorkspaceID
  <2> QED BY <1>6, <2>1, <2>2 DEF CreateConfigurationVersion
<1>7. CASE UploadConfigurationFile
  <2>1. CASE Return /\ UNCHANGED configVersions
    BY <1>7, <2>1, ReturnStep DEF UploadConfigurationFile, tfcVars
  <2>2. CASE /\ UploadConfigVersion(local.configVersion, local.template)
             /\ Goto("recordConfigVersion") /\ UNCHANGED local
    <3>1. local.template \in Templates \cup {None}
      BY <1>2 DEF Locals
    <3>2. CloudInv'
      BY <1>3, <1>7, <2>2, <3>1, UploadConfigVersionInv DEF UploadConfigurationFile
    <3> QED
      BY <1>0, <1>1, <1>2, <1>7, <2>2, <3>2, GotoStep
         DEF UploadConfigurationFile, Steps, BeforeWorkspaceID
  <2> QED BY <1>7, <2>1, <2>2 DEF UploadConfigurationFile
<1>8. CASE RecordConfigVersion
  <2> DEFINE s == [status EXCEPT !.configVersionID = local.configVersion]
  <2>1. s \in WorkspaceStatus /\ s.workspaceID = status.workspaceID /\ s.outputs = status.outputs
    BY <1>2 DEF WorkspaceStatus, Locals
  <2> QED
    BY <1>0, <1>4, <1>8, <2>1, UpdateStep DEF RecordConfigVersion, Steps, BeforeWorkspaceID
<1>9. CASE ReadConfigVersion
  <2>1. CASE Return
    BY <1>9, <2>1, ReturnStep DEF ReadConfigVersion
  <2>2. CASE Goto("resetConfigVersion") /\ UNCHANGED local
    BY <1>0, <1>1, <1>2, <1>9, <2>2, GotoStep DEF ReadConfigVersion, Steps, BeforeWorkspaceID
  <2> QED BY <1>9, <2>1, <2>2 DEF ReadConfigVersion
<1>10. CASE ResetConfigVersion
  <2> DEFINE s == [status EXCEPT !.configVersionID = None]
  <2>1. s \in WorkspaceStatus /\ s.workspaceID = status.workspaceID /\ s.outputs = status.outputs
    BY <1>2 DEF WorkspaceStatus
  <2> QED
    BY <1>0, <1>4, <1>10, <2>1, UpdateStep DEF ResetConfigVersion, Steps, BeforeWorkspaceID
<1>11. CASE CreateApplyRun
  <2>1. CASE Return /\ UNCHANGED <<runs, workspaces>>
    BY <1>11, <2>1, ReturnStep DEF CreateApplyRun, tfcVars
  <2>2. ASSUME NEW r \in FreeRuns, CreateRun(r, status.workspaceID, FALSE, TRUE),
               local' = [local EXCEPT !.run = r], Goto("recordRun")
        PROVE  IInv'
    <3>1. r \in RunIDs
      BY DEF FreeRuns
    <3>2. UNCHANGED configVersions /\ outOfBand' \in 0 .. MaxOutOfBand
      BY <1>3, <1>11 DEF CreateApplyRun, CloudInv, TerraformCloudTypeOK
    <3>3. CloudInv'
      BY <1>2, <1>3, <2>2, <3>1, <3>2, CreateRunInv
    <3>4. local' \in Locals /\ local'.outputs = local.outputs
      BY <1>2, <2>2, <3>1 DEF Locals
    <3> QED
      BY <1>0, <1>1, <1>11, <2>2, <3>3, <3>4, GotoStep DEF CreateApplyRun, Steps, BeforeWorkspaceID
  <2> QED BY <1>11, <2>1, <2>2 DEF CreateApplyRun
<1>12. CASE RecordRun
  <2> DEFINE s == [status EXCEPT !.runID = local.run, !.runStatus = "pending"]
  <2>1. s \in WorkspaceStatus /\ s.workspaceID = status.workspaceID /\ s.outputs = status.outputs
    BY <1>2 DEF WorkspaceStatus, Locals, PendingStatuses
  <2>2. CASE fresh
    BY <1>4, <1>12, <2>1, <2>2, FinalWrite DEF RecordRun
  <2>3. CASE ~fresh
    BY <1>12, <2>3, ReturnStep, ObjectsUnwritten DEF RecordRun
  <2> QED BY <2>2, <2>3
<1> QED
  BY <1>5, <1>6, <1>7, <1>8, <1>9, <1>10, <1>11, <1>12 DEF startRunSteps

(***************************************************************************)
(* The environment.                                                        *)
(***************************************************************************)
LEMMA TerraformCloudStepInv == IInv /\ TerraformCloudStep => IInv'
<1> SUFFICES ASSUME IInv, TerraformCloudStep PROVE IInv'
  OBVIOUS
<1>1. CloudInv'
  BY RunProgressInv, ConfigVersionProcessedInv, VCSIngressInv, UserIntervenesInv
     DEF IInv, TerraformCloudStep
<1>2. ObjectsInv' /\ OperatorInv'
  BY ObjectsStutter, OperatorStutter DEF IInv, TerraformCloudStep, kubeVars
<1> QED BY <1>1, <1>2 DEF IInv

LEMMA KubernetesStepInv == IInv /\ KubernetesStep => IInv'
<1> SUFFICES ASSUME IInv, KubernetesStep PROVE IInv'
  OBVIOUS
<1>1. CloudInv'
  BY CloudStutter DEF IInv, KubernetesStep
<1>2. ObjectsInv'
  BY UserEditsInv, UserDeletesInv, KubernetesOwnSteps DEF IInv, KubernetesStep
<1>3. UNCHANGED <<pc, instance, local, aborts>> /\ (fresh' = FALSE \/ (fresh' = fresh /\ cr' = cr))
  BY DEF KubernetesStep, CacheSync, ConfigMapCacheSync, GarbageCollect
<1>4. OperatorTypeOK'
  BY <1>3 DEF IInv, OperatorInv, OperatorTypeOK
<1>5. CopyInv'
  BY <1>3 DEF IInv, OperatorInv, CopyInv, WellFormed
<1>6. StepFacts'
  BY <1>3 DEF IInv, OperatorInv, StepFacts
<1> QED BY <1>1, <1>2, <1>4, <1>5, <1>6 DEF IInv, OperatorInv

(***************************************************************************)
(* The theorems.                                                           *)
(***************************************************************************)
\* Every step keeps the inductive invariant.
LEMMA NextInv == IInv /\ [Next]_vars => IInv'
<1>1. IInv /\ UNCHANGED vars => IInv'
  BY CloudStutter, ObjectsStutter, OperatorStutter DEF IInv, vars, kubeVars
<1>2. IInv /\ Reconcile => IInv'
  BY <1>1, InitializeReconciliationInv, CondDeleteInv, ReconcileWorkspaceInv, ProcessRunInv,
     StartConditionsInv, StartRunInv DEF Reconcile, reconcileSteps, InstanceGone
<1> QED
  BY <1>1, <1>2, AbortInv, TerraformCloudStepInv, KubernetesStepInv DEF Next

\* The inductive invariant holds in every reachable state.
LEMMA Invariance == Spec => []IInv
BY InitInv, NextInv, PTL DEF Spec

\* Every variable keeps its type: a step of the operator never reads a field of
\* an object it has not fetched, and never stores the answer of a call that
\* gave none (a missing run, a workspace without a state version).
THEOREM TypeCorrect == Spec => []TypeOK
<1>1. IInv => TypeOK
  BY DEF IInv, CloudInv, ObjectsInv, OperatorInv, OperatorTypeOK, TypeOK
<1> QED BY <1>1, Invariance, PTL

\* addFinalizer is never reached before the workspace's ID is in the status at
\* the API server, whatever edits, conflicts, crashes and failures intervene:
\* condDeleteWorkspace always finds the workspace it is to finalize.
THEOREM FinalizerNamesWorkspace == Spec => []FinalizerHasWorkspace
<1>1. IInv => FinalizerHasWorkspace
  BY DEF IInv, ObjectsInv, WellFormed, FinalizerHasWorkspace
<1> QED BY <1>1, Invariance, PTL

\* The outputs in the status are those of the workspace in the status, however
\* often the organization changes or the workspace is deleted behind the
\* operator's back.
THEOREM OutputsOfRecordedWorkspace == Spec => []OutputsBelong
<1>1. IInv => OutputsBelong
  BY DEF IInv, ObjectsInv, WellFormed, OutputsBelong
<1> QED BY <1>1, Invariance, PTL

=============================================================================
