----------------------- MODULE WorkspaceLifecycleProofs -----------------------
(***************************************************************************)
(* No run without a finalizer, no infrastructure without a Workspace, and  *)
(* the refinement of WorkspaceLifecycle by WorkspaceOperator.              *)
(***************************************************************************)
EXTENDS WorkspaceOperatorProofs

(***************************************************************************)
(* What is assumed of the environment, beside the modules' assumptions.    *)
(***************************************************************************)
\* Specs name one organization, and no failed call goes unnoticed.
OneOrganization == \A s, t \in Specs : s.organization = t.organization
Attentive == OneOrganization /\ Ignored = {}

\* Runs apply or fail, and users do not start runs or delete workspaces in
\* Terraform Cloud.
Undisturbed == OutOfBand \subseteq {"variable"} /\ Outcomes \subseteq {"applied", "errored"}

(***************************************************************************)
(* The inductive invariant, beside IInv: copies and workspaces.            *)
(***************************************************************************)
deleteSteps ==
  {"condDeleteWorkspace", "finalizeWorkspace", "DeleteRuns", "ForceCancel",
   "DeleteResources", "createDestroyRun", "awaitDestroy", "DeleteWorkspace",
   "removeFinalizer"}

\* The steps of a reconcile that come before the finalizer is in its copy.
unheldSteps == {"CheckWorkspace", "recordWorkspaceID", "recordRunID", "addFinalizer"}

Live(w) == workspaces[w].live

\* The names of workspaces are unique in the organization.
OneWorkspace ==
  /\ \A w \in WorkspaceIDs : Live(w) => workspaces[w].organization = cr.spec.organization
  /\ \A v, w \in WorkspaceIDs : Live(v) /\ Live(w) => v = w

\* A copy may be old, but the workspace it names is the one on record, or it
\* is no more; and when it has a finalizer that the Workspace has lost, it is.
Outdated(copy) ==
  \A w \in WorkspaceIDs : copy.status.workspaceID = w /\ Live(w) =>
    /\ cr.status.workspaceID = w
    /\ copy.finalizer => cr.finalizer

\* The finalizer is what keeps a deleted object from being gone.
HeldBack(copy) ==
  /\ copy.phase = "deleting" => copy.finalizer
  /\ copy.phase = "gone" => ~copy.finalizer

CopiesInv ==
  /\ Outdated(cached)
  /\ pc # "idle" => Outdated(instance)
  /\ HeldBack(cr) /\ HeldBack(cached)

\* What a reconcile has established when it comes to a step.
PathFacts ==
  /\ pc \in deleteSteps => instance.phase = "deleting" /\ instance.finalizer
  /\ pc \in deleteSteps /\ fresh => cached = instance
  /\ pc \notin deleteSteps \cup {"idle"} => instance.phase = "active"
  /\ pc \notin deleteSteps \cup unheldSteps \cup {"idle"} => instance.finalizer
  /\ pc = "recordWorkspaceID" => \A w \in WorkspaceIDs : Live(w) => w = local.workspace
  /\ pc = "removeFinalizer" =>
       \A w \in WorkspaceIDs : instance.status.workspaceID = w => ~Live(w)

\* Unfinished runs are in a workspace, and those of the operator in the one
\* on record, under the finalizer.
RunsInv ==
  \A r \in RunIDs : isPending(runs[r].status) =>
    /\ runs[r].workspace \in WorkspaceIDs
    /\ Live(runs[r].workspace)
    /\ runs[r].operator => cr.finalizer /\ runs[r].workspace = cr.status.workspaceID

HeldInv == OneWorkspace /\ CopiesInv /\ PathFacts /\ RunsInv

(***************************************************************************)
(* Steps that do no harm: no workspace appears, no run starts, and the     *)
(* Workspace keeps its finalizer and the workspace on record.              *)
(***************************************************************************)
WorkspacesKept ==
  \A w \in WorkspaceIDs : Live(w)' =>
    Live(w) /\ workspaces'[w].organization = workspaces[w].organization

RunsKept ==
  \A r \in RunIDs : isPending(runs'[r].status) =>
    /\ isPending(runs[r].status)
    /\ runs'[r].workspace = runs[r].workspace
    /\ runs'[r].operator = runs[r].operator
    /\ Live(runs[r].workspace) => Live(runs[r].workspace)'

\* A copy that is replaced is replaced by a newer one.
ObjectsKept ==
  /\ cr'.status.workspaceID = cr.status.workspaceID
  /\ cr.finalizer => cr'.finalizer
  /\ HeldBack(cr')
  /\ cached' \in {cached, cr}

InstanceKept ==
  pc' # "idle" =>
    \/ instance' = cr'
    \/ instance' = cached
    \/ instance' = instance /\ pc # "idle"

LEMMA OneWorkspaceKept ==
  ASSUME OneOrganization, IInv, IInv', OneWorkspace, WorkspacesKept
  PROVE  OneWorkspace'
<1>1. cr.spec.organization = cr'.spec.organization
  BY DEF OneOrganization, IInv, ObjectsInv, KubernetesApiTypeOK, Object
<1> QED BY <1>1 DEF OneWorkspace, WorkspacesKept, Live

LEMMA CopiesKept ==
  ASSUME CopiesInv, WorkspacesKept, ObjectsKept, InstanceKept
  PROVE  CopiesInv'
<1>1. ASSUME NEW copy, Outdated(copy)
      PROVE  \A w \in WorkspaceIDs : copy.status.workspaceID = w /\ Live(w)' =>
               cr'.status.workspaceID = w /\ (copy.finalizer => cr'.finalizer)
  BY <1>1 DEF Outdated, WorkspacesKept, ObjectsKept
<1>2. Outdated(cr) /\ Outdated(cr)'
  BY DEF Outdated
<1>3. Outdated(cached)'
  BY <1>1, <1>2 DEF CopiesInv, ObjectsKept, Outdated
<1>4. pc' # "idle" => Outdated(instance)'
  BY <1>1, <1>2 DEF CopiesInv, ObjectsKept, InstanceKept, Outdated
<1>5. (HeldBack(cr) /\ HeldBack(cached))'
  BY DEF CopiesInv, ObjectsKept, HeldBack
<1> QED BY <1>3, <1>4, <1>5 DEF CopiesInv

LEMMA RunsInvKept ==
  ASSUME RunsInv, RunsKept, ObjectsKept
  PROVE  RunsInv'
BY DEF RunsInv, RunsKept, ObjectsKept

LEMMA Kept ==
  ASSUME OneOrganization, IInv, IInv', HeldInv,
         WorkspacesKept, RunsKept, ObjectsKept, InstanceKept, PathFacts'
  PROVE  HeldInv'
BY OneWorkspaceKept, CopiesKept, RunsInvKept DEF HeldInv

LEMMA CloudUnchanged == UNCHANGED <<workspaces, runs>> => WorkspacesKept /\ RunsKept
BY DEF WorkspacesKept, RunsKept, Live

\* The workspaces' other fields do not matter.
LEMMA FieldWritten ==
  ASSUME UNCHANGED runs, workspaces \in [WorkspaceIDs -> Workspace],
         NEW w, NEW ws, workspaces' = [workspaces EXCEPT ![w] = ws],
         w \in WorkspaceIDs =>
           ws.live = workspaces[w].live /\ ws.organization = workspaces[w].organization
  PROVE  WorkspacesKept /\ RunsKept
<1>1. \A v \in WorkspaceIDs : /\ workspaces'[v].live = workspaces[v].live
                              /\ workspaces'[v].organization = workspaces[v].organization
  OBVIOUS
<1> QED BY <1>1 DEF WorkspacesKept, RunsKept, Live

(***************************************************************************)
(* Terraform Cloud's side.                                                 *)
(***************************************************************************)
\* What an unfinished run and its workspace are.
LEMMA PendingRun ==
  ASSUME NEW r \in RunIDs, IInv, isPending(runs[r].status)
  PROVE  /\ runs[r].workspace \in WorkspaceIDs
         /\ runs[r] \in Run /\ workspaces[runs[r].workspace] \in Workspace
<1>1. runs[r] \in Run /\ runs[r].workspace # None
  BY DEF IInv, CloudInv, TerraformCloudTypeOK, RunsAnchored
<1>2. runs[r].workspace \in WorkspaceIDs
  BY <1>1 DEF Run
<1> QED BY <1>1, <1>2 DEF IInv, CloudInv, TerraformCloudTypeOK

LEMMA RunEndsKeeps ==
  ASSUME NEW r \in RunIDs, IInv, isPending(runs[r].status),
         NEW final, ~isPending(final), NEW deployed, RunEnds(r, final, deployed)
  PROVE  WorkspacesKept /\ RunsKept
<1> DEFINE w == runs[r].workspace
<1>1. w \in WorkspaceIDs /\ workspaces[w] \in Workspace
  BY PendingRun
<1>2. /\ runs' = [runs EXCEPT ![r] = [runs[r] EXCEPT !.status = final]]
      /\ \E current : workspaces' = [workspaces EXCEPT ![w] =
           [workspaces[w] EXCEPT !.currentRun = current, !.deployed = deployed]]
  BY DEF RunEnds
<1>3. workspaces \in [WorkspaceIDs -> Workspace] /\ runs \in [RunIDs -> Run]
  BY DEF IInv, CloudInv, TerraformCloudTypeOK
<1>4. \A v \in WorkspaceIDs : /\ workspaces'[v].live = workspaces[v].live
                              /\ workspaces'[v].organization = workspaces[v].organization
  BY <1>1, <1>2, <1>3 DEF Workspace
<1>5. \A q \in RunIDs : isPending(runs'[q].status) => runs'[q] = runs[q]
  BY <1>2, <1>3 DEF Run
<1>6. \A q \in RunIDs : isPending(runs[q].status) => runs[q].workspace \in WorkspaceIDs
  BY PendingRun
<1> QED BY <1>4, <1>5, <1>6 DEF WorkspacesKept, RunsKept, Live

LEMMA CancelRunKeeps ==
  ASSUME NEW r \in RunIDs, IInv, isPending(runs[r].status), CancelRun(r)
  PROVE  WorkspacesKept /\ RunsKept
BY RunEndsKeeps DEF CancelRun, isPending, PendingStatuses

\* How a run ends by itself; a destroy run leaves what there was, or nothing.
LEMMA RunFinishesStatus ==
  ASSUME NEW r \in RunIDs, RunFinishes(r)
  PROVE  \E final \in Outcomes \cup {"planned_and_finished"} : \E d :
           /\ RunEnds(r, final, d)
           /\ runs[r].destroy =>
                /\ d \in {workspaces[runs[r].workspace].deployed, Destroyed}
                /\ final \in {"applied", "planned_and_finished"} => d \in {None, Destroyed}
<1> DEFINE deployed == workspaces[runs[r].workspace].deployed
           noChanges == IF runs[r].destroy THEN deployed \in {None, Destroyed}
                                           ELSE deployed = runs[r].config
           Left(final, d) ==
             /\ RunEnds(r, final, d)
             /\ runs[r].destroy =>
                  /\ d \in {deployed, Destroyed}
                  /\ final \in {"applied", "planned_and_finished"} => d \in {None, Destroyed}
<1>1. ASSUME noChanges, RunEnds(r, "planned_and_finished", deployed)
      PROVE  Left("planned_and_finished", deployed)
  BY <1>1
<1>2. ASSUME RunEnds(r, "applied", IF runs[r].destroy THEN Destroyed ELSE runs[r].config)
      PROVE  Left("applied", IF runs[r].destroy THEN Destroyed ELSE runs[r].config)
  BY <1>2
<1>3. ASSUME NEW final \in Outcomes \ {"applied"}, NEW d \in StoppedStates(r),
             RunEnds(r, final, IF final = "discarded" THEN deployed ELSE d)
      PROVE  Left(final, IF final = "discarded" THEN deployed ELSE d)
  <2>1. runs[r].destroy => d = deployed
    BY DEF StoppedStates
  <2>2. final # "planned_and_finished"
    BY TerraformCloudAssumption
  <2> QED BY <1>3, <2>1, <2>2
<1>4. \/ noChanges /\ RunEnds(r, "planned_and_finished", deployed)
      \/ /\ "applied" \in Outcomes
         /\ RunEnds(r, "applied", IF runs[r].destroy THEN Destroyed ELSE runs[r].config)
      \/ \E final \in Outcomes \ {"applied"}, d \in StoppedStates(r) :
           RunEnds(r, final, IF final = "discarded" THEN deployed ELSE d)
  BY Zenon DEF RunFinishes
<1>5. \E final \in Outcomes \cup {"planned_and_finished"} : \E d : Left(final, d)
  <2> HIDE DEF Left, noChanges, deployed
  <2>1. CASE noChanges /\ RunEnds(r, "planned_and_finished", deployed)
    BY <1>1, <2>1
  <2>2. CASE /\ "applied" \in Outcomes
             /\ RunEnds(r, "applied", IF runs[r].destroy THEN Destroyed ELSE runs[r].config)
    BY <1>2, <2>2
  <2>3. CASE \E final \in Outcomes \ {"applied"}, d \in StoppedStates(r) :
               RunEnds(r, final, IF final = "discarded" THEN deployed ELSE d)
    BY <1>3, <2>3
  <2> QED BY <1>4, <2>1, <2>2, <2>3
<1> QED BY <1>5

LEMMA RunProgressKeeps ==
  ASSUME NEW r \in RunIDs, IInv, RunProgress(r)
  PROVE  WorkspacesKept /\ RunsKept
<1>1. isPending(runs[r].status)
  BY DEF RunProgress, RunStarts, RunFinishes, isPending, PendingStatuses
<1>2. CASE RunStarts(r)
  <2>1. runs' = [runs EXCEPT ![r] = [runs[r] EXCEPT !.status = "applying"]]
    BY <1>2 DEF RunStarts
  <2>2. runs \in [RunIDs -> Run]
    BY DEF IInv, CloudInv, TerraformCloudTypeOK
  <2>3. \A q \in RunIDs : isPending(runs'[q].status) =>
          /\ isPending(runs[q].status) /\ runs'[q].workspace = runs[q].workspace
          /\ runs'[q].operator = runs[q].operator
    BY <1>1, <2>1, <2>2 DEF Run
  <2> QED BY <1>2, <2>3 DEF RunStarts, WorkspacesKept, RunsKept, Live
<1>3. CASE RunFinishes(r)
  <2>1. PICK final \in Outcomes \cup {"planned_and_finished"} :
          \E d : RunEnds(r, final, d)
    BY <1>3, RunFinishesStatus
  <2> QED BY <1>1, <2>1, RunEndsKeeps, TerraformCloudAssumption DEF isPending, PendingStatuses
<1> QED BY <1>2, <1>3 DEF RunProgress

LEMMA DeleteWorkspaceKeeps ==
  ASSUME NEW w \in WorkspaceIDs, IInv, DeleteWorkspaceByID(w)
  PROVE  /\ WorkspacesKept /\ RunsKept
         /\ ~Live(w)'
<1>1. workspaces \in [WorkspaceIDs -> Workspace] /\ runs \in [RunIDs -> Run]
  BY DEF IInv, CloudInv, TerraformCloudTypeOK
<1>2. /\ workspaces' = [workspaces EXCEPT ![w] = NoWorkspace]
      /\ runs' = [r \in RunIDs |-> IF runs[r].workspace = w THEN NoRun ELSE runs[r]]
  BY DEF DeleteWorkspaceByID
<1>3. ~Live(w)' /\ \A v \in WorkspaceIDs \ {w} : workspaces'[v] = workspaces[v]
  BY <1>1, <1>2 DEF Live, NoWorkspace
<1>4. \A r \in RunIDs : isPending(runs'[r].status) =>
        runs'[r] = runs[r] /\ runs[r].workspace \in WorkspaceIDs \ {w}
  BY <1>1, <1>2, PendingRun DEF NoRun, isPending, PendingStatuses
<1> QED BY <1>3, <1>4 DEF WorkspacesKept, RunsKept, Live

\* A new run, in a live workspace; one of the operator's is under the finalizer
\* and in the workspace on record.
LEMMA CreateRunKeeps ==
  ASSUME NEW r \in RunIDs, NEW w \in WorkspaceIDs, NEW destroy, NEW operator,
         IInv, CreateRun(r, w, destroy, operator)
  PROVE  /\ WorkspacesKept
         /\ RunsInv /\ ObjectsKept /\ Live(w)
              /\ (operator => cr.finalizer /\ w = cr.status.workspaceID) => RunsInv'
<1>1. workspaces \in [WorkspaceIDs -> Workspace] /\ runs \in [RunIDs -> Run]
  BY DEF IInv, CloudInv, TerraformCloudTypeOK
<1>2. /\ runs'[r].workspace = w /\ runs'[r].operator = operator
      /\ \A q \in RunIDs \ {r} : runs'[q] = runs[q]
  BY <1>1 DEF CreateRun
<1>3. \A v \in WorkspaceIDs : /\ workspaces'[v].live = workspaces[v].live
                              /\ workspaces'[v].organization = workspaces[v].organization
  BY <1>1 DEF CreateRun, Workspace
<1> QED BY <1>2, <1>3 DEF WorkspacesKept, RunsInv, ObjectsKept, Live

LEMMA ConfigVersionProcessedKeeps ==
  ASSUME NEW c \in ConfigVersionIDs, IInv, ConfigVersionProcessed(c)
  PROVE  WorkspacesKept /\ RunsKept
<1> DEFINE w == configVersions[c].workspace
<1>1. \/ UNCHANGED workspaces
      \/ workspaces' = [workspaces EXCEPT ![w] =
           [workspaces[w] EXCEPT !.template = configVersions[c].template]]
  BY DEF ConfigVersionProcessed
<1>2. UNCHANGED runs /\ workspaces \in [WorkspaceIDs -> Workspace]
  BY DEF ConfigVersionProcessed, IInv, CloudInv, TerraformCloudTypeOK
<1>3. CASE UNCHANGED workspaces
  BY <1>2, <1>3, CloudUnchanged
<1>4. w \in WorkspaceIDs => workspaces[w] \in Workspace
  BY <1>2
<1> QED BY <1>1, <1>2, <1>3, <1>4, FieldWritten DEF Workspace

LEMMA VCSIngressKeeps ==
  ASSUME NEW w \in WorkspaceIDs, IInv, VCSIngress(w)
  PROVE  WorkspacesKept /\ RunsKept
<1>1. \E t \in Templates : workspaces' = [workspaces EXCEPT ![w] =
                             [workspaces[w] EXCEPT !.template = t]]
  BY DEF VCSIngress
<1>2. /\ UNCHANGED runs /\ workspaces \in [WorkspaceIDs -> Workspace]
      /\ workspaces[w] \in Workspace
  BY DEF VCSIngress, IInv, CloudInv, TerraformCloudTypeOK
<1> QED BY <1>1, <1>2, FieldWritten DEF Workspace

LEMMA ValueWritten ==
  ASSUME NEW w \in WorkspaceIDs, NEW v, IInv, UNCHANGED runs,
         workspaces' = [workspaces EXCEPT ![w].value = v]
  PROVE  WorkspacesKept /\ RunsKept
<1>1. /\ workspaces' = [workspaces EXCEPT ![w] = [workspaces[w] EXCEPT !.value = v]]
      /\ workspaces \in [WorkspaceIDs -> Workspace] /\ workspaces[w] \in Workspace
  BY DEF IInv, CloudInv, TerraformCloudTypeOK
<1> QED BY <1>1, FieldWritten DEF Workspace

LEMMA TriggerWritten ==
  ASSUME NEW w \in WorkspaceIDs, NEW t, IInv, UNCHANGED runs,
         workspaces' = [workspaces EXCEPT ![w].trigger = t]
  PROVE  WorkspacesKept /\ RunsKept
<1>1. /\ workspaces' = [workspaces EXCEPT ![w] = [workspaces[w] EXCEPT !.trigger = t]]
      /\ workspaces \in [WorkspaceIDs -> Workspace] /\ workspaces[w] \in Workspace
  BY DEF IInv, CloudInv, TerraformCloudTypeOK
<1> QED BY <1>1, FieldWritten DEF Workspace

(***************************************************************************)
(* What a reconcile has established, and how its steps end.                *)
(***************************************************************************)
LEMMA PathEnds == pc' = "idle" => PathFacts'
BY DEF PathFacts, deleteSteps

\* The environment moves.
LEMMA PathWaits ==
  ASSUME IInv, PathFacts, WorkspacesKept, UNCHANGED <<pc, instance, local>>,
         fresh' => fresh /\ cr' = cr,
         cached' \in {cached, cr}
  PROVE  PathFacts'
BY DEF PathFacts, WorkspacesKept, IInv, OperatorInv, CopyInv

LEMMA PathHeld ==
  ASSUME PathFacts, pc \notin deleteSteps \cup unheldSteps \cup {"idle"},
         pc' \notin deleteSteps \cup unheldSteps \cup {"idle"},
         instance'.phase = instance.phase, instance'.finalizer = instance.finalizer
  PROVE  PathFacts'
BY DEF PathFacts, deleteSteps, unheldSteps

LEMMA PathDeletes ==
  ASSUME PathFacts, pc \in deleteSteps, pc' \in deleteSteps,
         UNCHANGED <<instance, fresh, cached>>,
         pc' = "removeFinalizer" =>
           \A w \in WorkspaceIDs : instance.status.workspaceID = w => ~Live(w)'
  PROVE  PathFacts'
BY DEF PathFacts, deleteSteps

\* The objects stay as they are.
LEMMA QuietStep ==
  ASSUME OneOrganization, IInv, IInv', HeldInv, WorkspacesKept, RunsKept,
         UNCHANGED <<cr, cached>>,
         pc' = "idle" \/ (instance' = instance /\ pc # "idle" /\ PathFacts')
  PROVE  HeldInv'
<1>1. ObjectsKept /\ InstanceKept
  BY DEF ObjectsKept, InstanceKept, HeldInv, CopiesInv
<1>2. PathFacts'
  BY PathEnds
<1> QED BY <1>1, <1>2, Kept

LEMMA ReturnHeld ==
  ASSUME OneOrganization, IInv, IInv', HeldInv, Return,
         UNCHANGED <<workspaces, runs, cr, cached>>
  PROVE  HeldInv'
BY QuietStep, CloudUnchanged DEF Return

\* The Workspace is written and the reconcile goes on, or it is not and the
\* reconcile ends.
LEMMA UpdateHeld ==
  ASSUME OneOrganization, IInv, IInv', HeldInv, NEW object, NEW step,
         Update(object, step), UNCHANGED <<workspaces, runs>>,
         pc \notin deleteSteps \cup {"idle"}, step \notin deleteSteps \cup {"recordWorkspaceID"},
         fresh => /\ object.phase = cr.phase
                  /\ object.status.workspaceID = cr.status.workspaceID
                  /\ cr.finalizer => object.finalizer
                  /\ step \notin unheldSteps => object.finalizer
  PROVE  HeldInv'
<1>1. CASE fresh /\ WriteObject(object) /\ instance' = object /\ pc' = step
  <2>1. instance = cr /\ instance.phase = "active"
    BY <1>1 DEF IInv, OperatorInv, CopyInv, HeldInv, PathFacts
  <2>2. cr' = object /\ cached' = cached
    BY <1>1 DEF WriteObject
  <2>3. ObjectsKept /\ InstanceKept
    BY <1>1, <2>1, <2>2 DEF ObjectsKept, InstanceKept, HeldBack
  <2>4. PathFacts'
    BY <1>1, <2>1 DEF PathFacts, deleteSteps, unheldSteps
  <2> QED BY <2>3, <2>4, CloudUnchanged, Kept
<1>2. CASE Return /\ UNCHANGED <<cr, cached, cacheFresh>>
  BY <1>2, ReturnHeld
<1> QED BY <1>1, <1>2 DEF Update

\* The status is written, and the workspace on record stays the same.
LEMMA WithStatusKeeps ==
  ASSUME IInv, NEW s, fresh, s.workspaceID = status.workspaceID
  PROVE  /\ WithStatus(s).phase = cr.phase
         /\ WithStatus(s).status.workspaceID = cr.status.workspaceID
         /\ WithStatus(s).finalizer = cr.finalizer
<1>1. instance = cr /\ cr \in Object
  BY DEF IInv, OperatorInv, CopyInv, ObjectsInv, KubernetesApiTypeOK
<1> QED BY <1>1 DEF WithStatus, Object, status

LEMMA StatusHeld ==
  ASSUME OneOrganization, IInv, IInv', HeldInv, NEW s, NEW step,
         Update(WithStatus(s), step), UNCHANGED <<workspaces, runs>>,
         s.workspaceID = status.workspaceID,
         pc \notin deleteSteps \cup {"idle"}, step \notin deleteSteps \cup {"recordWorkspaceID"},
         step \notin unheldSteps => pc \notin unheldSteps
  PROVE  HeldInv'
<1>1. fresh => instance = cr /\ (pc \notin unheldSteps => cr.finalizer)
  BY DEF IInv, OperatorInv, CopyInv, HeldInv, PathFacts
<1> QED BY <1>1, WithStatusKeeps, UpdateHeld

\* The last write of a reconcile.
LEMMA LastWriteHeld ==
  ASSUME OneOrganization, IInv, IInv', HeldInv, NEW s, pc' = "idle",
         \/ fresh /\ WriteObject(WithStatus(s))
         \/ UNCHANGED <<cr, cached>>,
         UNCHANGED <<workspaces, runs>>, s.workspaceID = status.workspaceID,
         pc \notin deleteSteps \cup {"idle"}
  PROVE  HeldInv'
<1>1. CASE UNCHANGED <<cr, cached>>
  BY <1>1, QuietStep, CloudUnchanged
<1>2. CASE fresh /\ WriteObject(WithStatus(s))
  <2>1. instance = cr /\ instance.phase = "active"
    BY <1>2 DEF IInv, OperatorInv, CopyInv, HeldInv, PathFacts
  <2>2. ObjectsKept /\ InstanceKept
    BY <1>2, <2>1, WithStatusKeeps DEF ObjectsKept, InstanceKept, HeldBack, WriteObject
  <2> QED BY <2>2, PathEnds, CloudUnchanged, Kept
<1> QED BY <1>1, <1>2

(***************************************************************************)
(* Every step keeps HeldInv.                                               *)
(***************************************************************************)
LEMMA DeleteStepHeld ==
  ASSUME OneOrganization, IInv, IInv', HeldInv, WorkspacesKept, RunsKept,
         UNCHANGED <<instance, fresh, cr, cached>>,
         pc \in deleteSteps, pc' \in deleteSteps,
         pc' = "removeFinalizer" =>
           \A w \in WorkspaceIDs : instance.status.workspaceID = w => ~Live(w)'
  PROVE  HeldInv'
BY PathDeletes, QuietStep DEF HeldInv, deleteSteps

LEMMA CondDeleteHeld ==
  Attentive /\ IInv /\ IInv' /\ HeldInv /\ condDeleteSteps => HeldInv'
<1> SUFFICES ASSUME Attentive, IInv, IInv', HeldInv, condDeleteSteps PROVE HeldInv'
  OBVIOUS
<1>0. OneOrganization /\ Ignored = {}
  BY DEF Attentive
<1>1. pc \in deleteSteps /\ pc # "idle"
  BY DEF condDeleteSteps, CondDeleteWorkspace, FinalizeWorkspace, DeleteRuns, ForceCancel,
         DeleteResources, CreateDestroyRun, AwaitDestroy, DeleteWorkspace, RemoveFinalizer,
         deleteSteps
<1>2. instance.phase = "deleting" /\ instance.finalizer /\ (fresh => cached = instance)
  BY <1>1 DEF HeldInv, PathFacts
<1>3. pc # "condDeleteWorkspace" => status.workspaceID \in WorkspaceIDs
  BY <1>1, InstanceType DEF BeforeWorkspaceID, deleteSteps
<1>4. CASE CondDeleteWorkspace
  BY <1>0, <1>1, <1>2, <1>4, ReturnHeld, DeleteStepHeld, CloudUnchanged
     DEF CondDeleteWorkspace, Goto, tfcVars, kubeVars, deleteSteps
<1>5. CASE FinalizeWorkspace
  <2>1. pc' = IF workspaces[status.workspaceID].live THEN "DeleteRuns" ELSE "removeFinalizer"
    BY <1>0, <1>5 DEF FinalizeWorkspace
  <2>2. UNCHANGED <<workspaces, runs, instance, fresh, cr, cached>>
    BY <1>5 DEF FinalizeWorkspace, tfcVars, kubeVars
  <2> QED BY <1>0, <1>1, <2>1, <2>2, DeleteStepHeld, CloudUnchanged DEF deleteSteps, Live, status
<1>6. CASE DeleteRuns
  BY <1>0, <1>1, <1>6, ReturnHeld, DeleteStepHeld, CloudUnchanged
     DEF DeleteRuns, Goto, tfcVars, kubeVars, deleteSteps
<1>7. CASE ForceCancel
  <2>1. CASE Return /\ UNCHANGED <<runs, workspaces>>
    BY <1>0, <1>7, <2>1, ReturnHeld DEF ForceCancel, kubeVars
  <2>2. CASE Goto("DeleteResources") /\ UNCHANGED <<local, runs, workspaces>>
    BY <1>0, <1>1, <1>7, <2>2, DeleteStepHeld, CloudUnchanged
       DEF ForceCancel, Goto, kubeVars, deleteSteps
  <2>3. ASSUME NEW r \in RunIDs, isPending(runs[r].status), CancelRun(r), Goto("ForceCancel")
        PROVE  HeldInv'
    <3>1. WorkspacesKept /\ RunsKept
      BY <2>3, CancelRunKeeps
    <3> QED BY <1>0, <1>1, <1>7, <2>3, <3>1, DeleteStepHeld DEF ForceCancel, Goto, kubeVars, deleteSteps
  <2>4. local.toCancel \subseteq RunIDs
    BY DEF IInv, OperatorInv, OperatorTypeOK, Locals
  <2> QED BY <1>7, <2>1, <2>2, <2>3, <2>4 DEF ForceCancel
<1>8. CASE DeleteResources
  BY <1>0, <1>1, <1>8, ReturnHeld, DeleteStepHeld, CloudUnchanged
     DEF DeleteResources, Goto, tfcVars, kubeVars, deleteSteps
<1>9. CASE CreateDestroyRun
  <2>1. CASE Return /\ UNCHANGED <<runs, workspaces>>
    BY <1>0, <1>9, <2>1, ReturnHeld DEF CreateDestroyRun, kubeVars
  <2>2. ASSUME NEW r \in FreeRuns, CreateRun(r, status.workspaceID, TRUE, TRUE),
               Goto("awaitDestroy"), workspaces[status.workspaceID].live
        PROVE  HeldInv'
    <3>1. r \in RunIDs /\ status.workspaceID \in WorkspaceIDs
      BY <1>3, <1>9, <2>2 DEF FreeRuns, CreateDestroyRun
    <3>2. Live(status.workspaceID) /\ cr.finalizer /\ status.workspaceID = cr.status.workspaceID
      BY <1>1, <1>2, <2>2, <3>1 DEF HeldInv, CopiesInv, Outdated, Live, status
    <3>3. ObjectsKept /\ InstanceKept /\ UNCHANGED <<cached, fresh, instance>>
      BY <1>1, <1>9, <2>2 DEF CreateDestroyRun, Goto, kubeVars, ObjectsKept, InstanceKept, HeldInv, CopiesInv
    <3>4. WorkspacesKept /\ RunsInv'
      BY <2>2, <3>1, <3>2, <3>3, CreateRunKeeps DEF HeldInv
    <3>5. PathFacts'
      BY <1>1, <2>2, <3>3, PathDeletes DEF HeldInv, Goto, deleteSteps
    <3> QED BY <1>0, <3>3, <3>4, <3>5, OneWorkspaceKept, CopiesKept DEF HeldInv
  <2> QED BY <1>9, <2>1, <2>2 DEF CreateDestroyRun
<1>10. CASE AwaitDestroy
  BY <1>0, <1>1, <1>10, ReturnHeld, DeleteStepHeld, CloudUnchanged
     DEF AwaitDestroy, Goto, tfcVars, kubeVars, deleteSteps
<1>11. CASE DeleteWorkspace
  <2>1. status.workspaceID \in WorkspaceIDs
    BY <1>3, <1>11 DEF DeleteWorkspace
  <2>2. pc' = "removeFinalizer" /\ UNCHANGED <<instance, fresh, cr, cached>>
    BY <1>11 DEF DeleteWorkspace, kubeVars
  <2>3. WorkspacesKept /\ RunsKept /\ ~Live(status.workspaceID)'
    <3>1. CASE DeleteWorkspaceByID(status.workspaceID)
      <4> DEFINE w == status.workspaceID
      <4>1. WorkspacesKept /\ RunsKept /\ ~workspaces'[w].live
        BY <2>1, <3>1, DeleteWorkspaceKeeps DEF Live
      <4> QED BY <2>2, <4>1 DEF Live, status
    <3>2. CASE ~workspaces[status.workspaceID].live /\ UNCHANGED <<workspaces, runs>>
      BY <2>2, <3>2, CloudUnchanged DEF Live, status
    <3> QED BY <1>0, <1>11, <3>1, <3>2 DEF DeleteWorkspace
  <2>4. \A w \in WorkspaceIDs : instance.status.workspaceID = w => ~Live(w)'
    BY <2>2, <2>3 DEF Live, status
  <2> QED BY <1>0, <1>1, <2>2, <2>3, <2>4, DeleteStepHeld DEF deleteSteps
<1>12. CASE RemoveFinalizer
  <2>1. pc' = "idle" /\ UNCHANGED <<workspaces, runs>>
    BY <1>12 DEF RemoveFinalizer, Return, tfcVars
  <2>2. CASE ~fresh
    BY <1>0, <1>12, <2>1, <2>2, QuietStep, CloudUnchanged DEF RemoveFinalizer
  <2>3. CASE fresh
    <3>1. /\ cr = instance /\ cached = cr /\ cr \in Object
          /\ cr' = [cr EXCEPT !.finalizer = FALSE, !.phase = "gone"] /\ cached' = cached
      BY <1>2, <1>12, <2>3 DEF RemoveFinalizer, WriteObject, WithFinalizer, IInv,
         OperatorInv, CopyInv, ObjectsInv, KubernetesApiTypeOK
    <3>2. cr'.finalizer = FALSE /\ cr'.phase = "gone" /\ cr'.status = cr.status
      BY <3>1 DEF Object
    <3>3. \A w \in WorkspaceIDs : cr.status.workspaceID = w => ~Live(w)
      BY <1>12, <3>1 DEF RemoveFinalizer, HeldInv, PathFacts
    <3>4. RunsInv'
      BY <2>1, <3>3 DEF HeldInv, RunsInv, Live
    <3>5. CopiesInv'
      BY <2>1, <3>1, <3>2, <3>3 DEF HeldInv, CopiesInv, Outdated, HeldBack, Live
    <3>6. OneWorkspace'
      BY <1>0, <2>1, OneWorkspaceKept, CloudUnchanged DEF HeldInv
    <3> QED BY <2>1, <3>4, <3>5, <3>6, PathEnds DEF HeldInv
  <2> QED BY <2>2, <2>3
<1> QED
  BY <1>4, <1>5, <1>6, <1>7, <1>8, <1>9, <1>10, <1>11, <1>12 DEF condDeleteSteps

LEMMA CheckWorkspaceHeld ==
  OneOrganization /\ IInv /\ IInv' /\ HeldInv /\ CheckWorkspace => HeldInv'
<1> SUFFICES ASSUME OneOrganization, IInv, IInv', HeldInv, CheckWorkspace PROVE HeldInv'
  OBVIOUS
<1>1. /\ UNCHANGED <<runs, cr, cached>>
      /\ pc = "CheckWorkspace" /\ instance \in Object /\ spec \in WorkspaceSpec
  BY InstanceType DEF CheckWorkspace, kubeVars
<1>2. spec.organization = cr.spec.organization /\ spec.organization \in Organizations
  BY <1>1 DEF OneOrganization, spec, IInv, ObjectsInv, KubernetesApiTypeOK, Object, WorkspaceSpec
<1>3. instance.phase = "active"
  BY <1>1 DEF HeldInv, PathFacts, deleteSteps
<1>4. CASE Return /\ UNCHANGED workspaces
  BY <1>1, <1>4, ReturnHeld
<1>5. ASSUME NEW w \in WorkspacesNamed(spec.organization), local'.workspace = w,
             Goto("recordWorkspaceID"), UNCHANGED workspaces
      PROVE  HeldInv'
  <2>1. w \in WorkspaceIDs /\ Live(w)
    BY DEF WorkspacesNamed, Live
  <2>2. \A v \in WorkspaceIDs : Live(v) => v = w
    BY <2>1 DEF HeldInv, OneWorkspace
  <2>3. PathFacts'
    BY <1>3, <1>5, <2>2 DEF PathFacts, Goto, deleteSteps, unheldSteps, Live
  <2> QED BY <1>1, <1>5, <2>3, QuietStep, CloudUnchanged DEF Goto
<1>6. ASSUME NEW w \in FreeWorkspaces, WorkspacesNamed(spec.organization) = {},
             CreateWorkspace(w, spec.organization, spec.vcs), local'.workspace = w,
             Goto("recordWorkspaceID")
      PROVE  HeldInv'
  <2>1. \A v \in WorkspaceIDs : ~Live(v)
    BY <1>2, <1>6 DEF WorkspacesNamed, HeldInv, OneWorkspace, Live
  <2>2. /\ w \in WorkspaceIDs /\ workspaces \in [WorkspaceIDs -> Workspace]
        /\ workspaces' = [workspaces EXCEPT ![w] =
             [NoWorkspace EXCEPT !.live = TRUE, !.organization = spec.organization,
                                 !.vcs = spec.vcs]]
    BY <1>6 DEF FreeWorkspaces, CreateWorkspace, IInv, CloudInv, TerraformCloudTypeOK
  <2>3. \A v \in WorkspaceIDs : workspaces'[v].live =>
          v = w /\ workspaces'[v].organization = spec.organization
    BY <2>1, <2>2 DEF Live, NoWorkspace
  <2>4. cr.status.workspaceID # w /\ cached.status.workspaceID # w
           /\ instance.status.workspaceID # w
    BY <1>1 DEF FreeWorkspaces, RememberedStatuses, status
  <2>5. OneWorkspace'
    BY <1>1, <1>2, <2>3 DEF OneWorkspace, Live
  <2>6. CopiesInv'
    BY <1>1, <1>6, <2>3, <2>4 DEF HeldInv, CopiesInv, Outdated, HeldBack, Live, Goto
  <2>7. RunsInv'
    BY <1>1, <2>1 DEF HeldInv, RunsInv
  <2>8. PathFacts'
    BY <1>3, <1>6, <2>3 DEF PathFacts, Goto, deleteSteps, unheldSteps, Live
  <2> QED BY <2>5, <2>6, <2>7, <2>8 DEF HeldInv
<1>7. CASE \E w \in WorkspacesNamed(spec.organization) :
             /\ local' = [local EXCEPT !.workspace = w, !.run = workspaces[w].currentRun]
             /\ Goto("recordWorkspaceID") /\ UNCHANGED workspaces
  BY <1>5, <1>7 DEF IInv, OperatorInv, OperatorTypeOK, Locals
<1>8. CASE \E w \in FreeWorkspaces :
             /\ WorkspacesNamed(spec.organization) = {}
             /\ CreateWorkspace(w, spec.organization, spec.vcs)
             /\ local' = [local EXCEPT !.workspace = w] /\ Goto("recordWorkspaceID")
  BY <1>6, <1>8 DEF IInv, OperatorInv, OperatorTypeOK, Locals
<1> QED BY <1>4, <1>7, <1>8 DEF CheckWorkspace

LEMMA RecordWorkspaceIDHeld ==
  OneOrganization /\ IInv /\ IInv' /\ HeldInv /\ RecordWorkspaceID => HeldInv'
<1> SUFFICES ASSUME OneOrganization, IInv, IInv', HeldInv, RecordWorkspaceID PROVE HeldInv'
  OBVIOUS
<1>1. /\ UNCHANGED <<workspaces, runs>> /\ pc = "recordWorkspaceID"
      /\ instance.phase = "active" /\ \A w \in WorkspaceIDs : Live(w) => w = local.workspace
  BY DEF RecordWorkspaceID, tfcVars, HeldInv, PathFacts, deleteSteps
<1>2. CASE Goto("recordRunID") /\ UNCHANGED <<cr, cached, cacheFresh, local>>
  <2>1. PathFacts'
    BY <1>1, <1>2 DEF PathFacts, Goto, deleteSteps, unheldSteps
  <2> QED BY <1>1, <1>2, <2>1, QuietStep, CloudUnchanged DEF Goto
<1>3. CASE Return /\ UNCHANGED <<cr, cached, cacheFresh>>
  BY <1>1, <1>3, ReturnHeld
<1>4. CASE /\ fresh /\ WriteObject(instance') /\ pc' = "recordRunID"
           /\ instance' = WithStatus([status EXCEPT !.workspaceID = local.workspace,
                                                    !.outputs = None])
  <2>1. instance = cr /\ cr \in Object /\ status \in WorkspaceStatus
    BY <1>1, <1>4, InstanceType DEF IInv, OperatorInv, CopyInv
  <2>2. /\ cr' = instance' /\ cached' = cached
        /\ cr'.phase = cr.phase /\ cr'.finalizer = cr.finalizer
        /\ cr'.status.workspaceID = local.workspace
    BY <1>4, <2>1 DEF WriteObject, WithStatus, Object, WorkspaceStatus, status
  <2>3. Outdated(cached)' /\ Outdated(instance)'
    BY <1>1, <2>2 DEF HeldInv, CopiesInv, Outdated, Live
  <2>4. CopiesInv'
    BY <1>1, <2>1, <2>2, <2>3 DEF HeldInv, CopiesInv, HeldBack
  <2>5. RunsInv'
    BY <1>1, <2>2 DEF HeldInv, RunsInv, Live
  <2>6. PathFacts'
    BY <1>1, <1>4, <2>1, <2>2 DEF PathFacts, deleteSteps, unheldSteps
  <2>7. OneWorkspace'
    BY <1>1, OneWorkspaceKept, CloudUnchanged DEF HeldInv
  <2> QED BY <2>4, <2>5, <2>6, <2>7 DEF HeldInv
<1> QED BY <1>2, <1>3, <1>4 DEF RecordWorkspaceID

\* The steps that go on with the objects as they are, under the finalizer.
LEMMA HeldGoto ==
  ASSUME OneOrganization, IInv, IInv', HeldInv, WorkspacesKept, RunsKept,
         UNCHANGED <<cr, cached>>, NEW step, Goto(step),
         pc \notin deleteSteps \cup unheldSteps \cup {"idle"},
         step \notin deleteSteps \cup unheldSteps \cup {"idle"}
  PROVE  HeldInv'
BY PathHeld, QuietStep DEF HeldInv, Goto

LEMMA ReconcileWorkspaceHeld ==
  OneOrganization /\ IInv /\ IInv' /\ HeldInv /\ (RecordRunID \/ AddFinalizer) => HeldInv'
<1> SUFFICES ASSUME OneOrganization, IInv, IInv', HeldInv, RecordRunID \/ AddFinalizer
             PROVE  HeldInv'
  OBVIOUS
<1>0. pc \in {"recordRunID", "addFinalizer"} /\ UNCHANGED <<workspaces, runs>>
  BY DEF RecordRunID, AddFinalizer, tfcVars
<1>1. instance.phase = "active" /\ status \in WorkspaceStatus
  BY <1>0, InstanceType DEF HeldInv, PathFacts, deleteSteps
<1>2. CASE RecordRunID
  <2> DEFINE s == [status EXCEPT !.runID = local.run]
  <2>1. CASE Update(WithStatus(s), "addFinalizer")
    <3>1. s.workspaceID = status.workspaceID
      BY <1>1 DEF WorkspaceStatus
    <3>2. "addFinalizer" \in unheldSteps \ (deleteSteps \cup {"recordWorkspaceID"})
      BY DEF unheldSteps, deleteSteps
    <3>3. pc \notin deleteSteps \cup {"idle"}
      BY <1>0 DEF deleteSteps
    <3> HIDE DEF s
    <3> QED BY <1>0, <2>1, <3>1, <3>2, <3>3, StatusHeld
  <2>2. CASE Goto("addFinalizer") /\ UNCHANGED <<cr, cached, cacheFresh, local>>
    <3>1. PathFacts'
      BY <1>1, <2>2 DEF PathFacts, Goto, deleteSteps, unheldSteps
    <3> QED BY <1>0, <2>2, <3>1, QuietStep, CloudUnchanged DEF Goto
  <2> QED BY <1>2, <2>1, <2>2 DEF RecordRunID
<1>3. CASE AddFinalizer
  <2>1. CASE Update(WithFinalizer(TRUE), "runInProgress")
    <3>1. fresh => /\ WithFinalizer(TRUE).phase = cr.phase
                   /\ WithFinalizer(TRUE).status = cr.status
                   /\ WithFinalizer(TRUE).finalizer
      BY DEF WithFinalizer, IInv, ObjectsInv, KubernetesApiTypeOK, Object
    <3> QED BY <1>0, <2>1, <3>1, UpdateHeld DEF deleteSteps
  <2>2. CASE /\ instance.finalizer
             /\ Goto("runInProgress") /\ UNCHANGED <<cr, cached, cacheFresh, local>>
    <3>1. PathFacts'
      BY <1>1, <2>2 DEF PathFacts, Goto, deleteSteps
    <3> QED BY <1>0, <2>2, <3>1, QuietStep, CloudUnchanged DEF Goto
  <2> QED BY <1>3, <2>1, <2>2 DEF AddFinalizer
<1> QED BY <1>2, <1>3

LEMMA ProcessRunHeld ==
  OneOrganization /\ IInv /\ IInv' /\ HeldInv
    /\ (RunInProgress \/ RecordRunStatus \/ ProcessFinishedRun \/ RecordOutputs
          \/ UpsertSecretOutputs)
    => HeldInv'
<1> SUFFICES ASSUME OneOrganization, IInv, IInv', HeldInv,
                    RunInProgress \/ RecordRunStatus \/ ProcessFinishedRun \/ RecordOutputs
                      \/ UpsertSecretOutputs
             PROVE  HeldInv'
  OBVIOUS
<1>0. /\ pc \notin deleteSteps \cup unheldSteps \cup {"idle"}
      /\ UNCHANGED <<workspaces, runs>> /\ status \in WorkspaceStatus
  <2>1. /\ pc \in {"runInProgress", "recordRunStatus", "processFinishedRun",
                   "recordOutputs", "UpsertSecretOutputs"}
        /\ UNCHANGED <<workspaces, runs>>
    BY DEF RunInProgress, RecordRunStatus, ProcessFinishedRun, RecordOutputs,
           UpsertSecretOutputs, tfcVars
  <2>2. pc \notin deleteSteps \cup unheldSteps \cup {"idle"}
    BY <2>1 DEF deleteSteps, unheldSteps
  <2> QED BY <2>1, <2>2, InstanceType
<1>1. WorkspacesKept /\ RunsKept
  BY <1>0, CloudUnchanged
<1>2. ASSUME NEW step \in {"processFinishedRun", "recordRunStatus", "updateTerraformTemplate",
                           "recordOutputs", "UpsertSecretOutputs"},
             Goto(step), UNCHANGED <<cr, cached>>
      PROVE  HeldInv'
  BY <1>0, <1>1, <1>2, HeldGoto DEF deleteSteps, unheldSteps
<1>3. CASE RunInProgress \/ ProcessFinishedRun
  BY <1>0, <1>2, <1>3, ReturnHeld DEF RunInProgress, ProcessFinishedRun, kubeVars
<1>4. CASE RecordRunStatus
  <2> DEFINE s == [status EXCEPT !.runStatus = local.runStatus]
  <2>1. s.workspaceID = status.workspaceID
    BY <1>0 DEF WorkspaceStatus
  <2>2. pc' = "idle" /\ ((fresh /\ WriteObject(WithStatus(s))) \/ UNCHANGED <<cr, cached>>)
    BY <1>4 DEF RecordRunStatus, Return
  <2> HIDE DEF s
  <2> QED BY <1>0, <2>1, <2>2, LastWriteHeld
<1>5. CASE RecordOutputs
  <2> DEFINE s == [status EXCEPT !.outputs = local.outputs]
  <2>1. s.workspaceID = status.workspaceID
    BY <1>0 DEF WorkspaceStatus
  <2>2. CASE Update(WithStatus(s), "UpsertSecretOutputs")
    <3> HIDE DEF s
    <3> QED BY <1>0, <2>1, <2>2, StatusHeld DEF deleteSteps
  <2>3. CASE Goto("UpsertSecretOutputs") /\ UNCHANGED <<cr, cached>>
    BY <1>2, <2>3
  <2> QED BY <1>5, <2>2, <2>3 DEF RecordOutputs
<1>6. CASE UpsertSecretOutputs
  BY <1>2, <1>6 DEF UpsertSecretOutputs
<1> QED BY <1>3, <1>4, <1>5, <1>6

LEMMA StartConditionsHeld ==
  OneOrganization /\ IInv /\ IInv' /\ HeldInv
    /\ (UpdateTerraformTemplate \/ UpdateVariables \/ UpdateRunTriggers) => HeldInv'
<1> SUFFICES ASSUME OneOrganization, IInv, IInv', HeldInv,
                    UpdateTerraformTemplate \/ UpdateVariables \/ UpdateRunTriggers
             PROVE  HeldInv'
  OBVIOUS
<1>0. /\ pc \in {"updateTerraformTemplate", "updateVariables", "updateRunTriggers"}
      /\ UNCHANGED <<runs, cr, cached>>
  BY DEF UpdateTerraformTemplate, UpdateVariables, UpdateRunTriggers, tfcVars, kubeVars
<1>1. pc \notin deleteSteps \cup unheldSteps \cup {"idle"}
  BY <1>0 DEF deleteSteps, unheldSteps
<1>2. CASE Return /\ UNCHANGED workspaces
  BY <1>0, <1>2, ReturnHeld
<1>3. ASSUME WorkspacesKept, RunsKept,
             Return \/ \E step \in {"updateVariables", "updateRunTriggers", "startRun"} : Goto(step)
      PROVE  HeldInv'
  <2>1. CASE Return
    BY <1>0, <1>3, <2>1, QuietStep DEF Return
  <2>2. CASE ~Return
    BY <1>0, <1>1, <1>3, <2>2, HeldGoto DEF deleteSteps, unheldSteps
  <2> QED BY <2>1, <2>2
<1>4. CASE UpdateTerraformTemplate
  BY <1>0, <1>3, <1>4, CloudUnchanged
     DEF UpdateTerraformTemplate, UpsertTerraformConfig, tfcVars
<1>5. CASE UpdateVariables
  <2>1. ASSUME NEW w \in WorkspacesNamed(spec.organization),
               workspaces' = [workspaces EXCEPT ![w].value = spec.value],
               Goto("updateRunTriggers")
        PROVE  HeldInv'
    <3>1. WorkspacesKept /\ RunsKept
      BY <1>0, <2>1, ValueWritten DEF WorkspacesNamed
    <3> QED BY <1>3, <2>1, <3>1
  <2> QED BY <1>2, <1>5, <2>1 DEF UpdateVariables
<1>6. CASE UpdateRunTriggers
  <2>1. ASSUME NEW w \in WorkspacesNamed(spec.organization), NEW trigger,
               workspaces' = [workspaces EXCEPT ![w].trigger = trigger],
               Return \/ Goto("startRun")
        PROVE  HeldInv'
    <3>1. WorkspacesKept /\ RunsKept
      BY <1>0, <2>1, TriggerWritten DEF WorkspacesNamed
    <3> QED BY <1>3, <2>1, <3>1
  <2>2. \/ Return /\ UNCHANGED workspaces
        \/ \E w \in WorkspacesNamed(spec.organization) : \E trigger :
             /\ workspaces' = [workspaces EXCEPT ![w].trigger = trigger]
             /\ Return \/ Goto("startRun")
    BY <1>6 DEF UpdateRunTriggers
  <2> QED BY <1>2, <2>1, <2>2
<1> QED BY <1>4, <1>5, <1>6

LEMMA StartRunHeld ==
  OneOrganization /\ IInv /\ IInv' /\ HeldInv /\ startRunSteps => HeldInv'
<1> SUFFICES ASSUME OneOrganization, IInv, IInv', HeldInv, startRunSteps PROVE HeldInv'
  OBVIOUS
<1>0. /\ pc \in {"startRun", "CreateConfigurationVersion", "UploadConfigurationFile",
                 "recordConfigVersion", "readConfigVersion", "resetConfigVersion",
                 "createRun", "recordRun"}
      /\ ~CreateApplyRun => UNCHANGED <<workspaces, runs>>
  BY DEF startRunSteps, StartRun, CreateConfigurationVersion, UploadConfigurationFile,
         RecordConfigVersion, ReadConfigVersion, ResetConfigVersion, CreateApplyRun, RecordRun,
         tfcVars
<1>1. pc \notin deleteSteps \cup unheldSteps \cup {"idle"}
  BY <1>0 DEF deleteSteps, unheldSteps
<1>2. instance.finalizer /\ status \in WorkspaceStatus /\ status.workspaceID \in WorkspaceIDs
  BY <1>0, <1>1, InstanceType DEF HeldInv, PathFacts, BeforeWorkspaceID
<1>3. ASSUME UNCHANGED <<workspaces, runs, cr, cached>>,
             \/ Return
             \/ \E step \in {"createRun", "readConfigVersion", "CreateConfigurationVersion",
                             "UploadConfigurationFile", "recordConfigVersion",
                             "resetConfigVersion"} : Goto(step)
      PROVE  HeldInv'
  BY <1>1, <1>3, ReturnHeld, HeldGoto, CloudUnchanged DEF deleteSteps, unheldSteps
<1>4. CASE \/ StartRun \/ CreateConfigurationVersion \/ UploadConfigurationFile
           \/ ReadConfigVersion
  BY <1>3, <1>4
     DEF StartRun, prepareVCSRun, prepareModuleRun, CreateConfigurationVersion,
         UploadConfigurationFile, ReadConfigVersion, tfcVars, kubeVars
<1>5. ASSUME NEW c, NEW step \in {"readConfigVersion", "createRun"},
             Update(WithStatus([status EXCEPT !.configVersionID = c]), step),
             UNCHANGED <<workspaces, runs>>
      PROVE  HeldInv'
  <2> DEFINE s == [status EXCEPT !.configVersionID = c]
  <2>1. s.workspaceID = status.workspaceID
    BY <1>2 DEF WorkspaceStatus
  <2>2. Update(WithStatus(s), step)
    BY <1>5
  <2> HIDE DEF s
  <2> QED BY <1>1, <1>5, <2>1, <2>2, StatusHeld DEF deleteSteps, unheldSteps
<1>6. CASE RecordConfigVersion \/ ResetConfigVersion
  BY <1>5, <1>6 DEF RecordConfigVersion, ResetConfigVersion, tfcVars
<1>7. CASE CreateApplyRun
  <2>1. CASE Return /\ UNCHANGED <<runs, workspaces>>
    BY <1>7, <2>1, ReturnHeld DEF CreateApplyRun, kubeVars
  <2>2. ASSUME NEW r \in FreeRuns, CreateRun(r, status.workspaceID, FALSE, TRUE),
               Goto("recordRun"), workspaces[status.workspaceID].live
        PROVE  HeldInv'
    <3>1. r \in RunIDs /\ UNCHANGED <<cr, cached>>
      BY <1>7 DEF FreeRuns, CreateApplyRun, kubeVars
    <3>2. Live(status.workspaceID) /\ cr.finalizer /\ status.workspaceID = cr.status.workspaceID
      BY <1>1, <1>2, <2>2 DEF HeldInv, CopiesInv, Outdated, Live, status
    <3>3. ObjectsKept /\ InstanceKept
      BY <1>1, <2>2, <3>1 DEF Goto, ObjectsKept, InstanceKept, HeldInv, CopiesInv
    <3>4. WorkspacesKept /\ RunsInv'
      BY <1>2, <2>2, <3>1, <3>2, <3>3, CreateRunKeeps DEF HeldInv
    <3>5. PathFacts'
      BY <1>1, <2>2, PathHeld DEF HeldInv, Goto, deleteSteps, unheldSteps
    <3> QED BY <3>3, <3>4, <3>5, OneWorkspaceKept, CopiesKept DEF HeldInv
  <2> QED BY <1>7, <2>1, <2>2 DEF CreateApplyRun
<1>8. CASE RecordRun
  <2> DEFINE s == [status EXCEPT !.runID = local.run, !.runStatus = "pending"]
  <2>1. s.workspaceID = status.workspaceID /\ UNCHANGED <<workspaces, runs>>
    BY <1>2, <1>8 DEF WorkspaceStatus, RecordRun, tfcVars
  <2>2. pc' = "idle" /\ ((fresh /\ WriteObject(WithStatus(s))) \/ UNCHANGED <<cr, cached>>)
    BY <1>8 DEF RecordRun, Return
  <2> HIDE DEF s
  <2> QED BY <1>1, <2>1, <2>2, LastWriteHeld
<1> QED BY <1>4, <1>6, <1>7, <1>8 DEF startRunSteps

\* A step of the environment: the reconcile stays where it is.
LEMMA EnvironmentHeld ==
  ASSUME OneOrganization, IInv, IInv', HeldInv, WorkspacesKept, RunsInv', ObjectsKept,
         UNCHANGED <<pc, instance, local>>, fresh' => fresh /\ cr' = cr
  PROVE  HeldInv'
BY PathWaits, OneWorkspaceKept, CopiesKept DEF HeldInv, InstanceKept, ObjectsKept

LEMMA TerraformCloudStepHeld ==
  OneOrganization /\ IInv /\ IInv' /\ HeldInv /\ TerraformCloudStep => HeldInv'
<1> SUFFICES ASSUME OneOrganization, IInv, IInv', HeldInv, TerraformCloudStep PROVE HeldInv'
  OBVIOUS
<1>1. UNCHANGED <<pc, instance, local, fresh, cr, cached>> /\ ObjectsKept
  BY DEF TerraformCloudStep, kubeVars, operatorVars, ObjectsKept, HeldInv, CopiesInv
<1>2. WorkspacesKept /\ RunsKept => HeldInv'
  BY <1>1, RunsInvKept, EnvironmentHeld DEF HeldInv
<1>3. ASSUME NEW w \in WorkspaceIDs, UserIntervenes(w, FreeRuns)
      PROVE  HeldInv'
  <2>1. CASE \E r \in FreeRuns : CreateRun(r, w, FALSE, FALSE)
    <3>1. WorkspacesKept /\ RunsInv'
      BY <1>1, <1>3, <2>1, CreateRunKeeps DEF HeldInv, FreeRuns, UserIntervenes, Live
    <3> QED BY <1>1, <3>1, EnvironmentHeld
  <2>2. CASE DeleteWorkspaceByID(w)
    BY <1>2, <2>2, DeleteWorkspaceKeeps
  <2>3. CASE \E v \in Values : /\ workspaces' = [workspaces EXCEPT ![w].value = v]
                               /\ UNCHANGED <<runs, configVersions>>
    BY <1>2, <2>3, ValueWritten
  <2> QED BY <1>3, <2>1, <2>2, <2>3 DEF UserIntervenes
<1> QED
  BY <1>2, <1>3, RunProgressKeeps, ConfigVersionProcessedKeeps, VCSIngressKeeps
     DEF TerraformCloudStep

LEMMA KubernetesStepHeld ==
  OneOrganization /\ IInv /\ IInv' /\ HeldInv /\ KubernetesStep => HeldInv'
<1> SUFFICES ASSUME OneOrganization, IInv, IInv', HeldInv, KubernetesStep PROVE HeldInv'
  OBVIOUS
<1>1. UNCHANGED <<pc, instance, local, workspaces, runs>>
  BY DEF KubernetesStep, tfcVars
<1>2. cr \in Object
  BY DEF IInv, ObjectsInv, KubernetesApiTypeOK
<1>3. ObjectsKept
  <2>1. CASE UserEdits
    BY <1>2, <2>1 DEF UserEdits, Object, ObjectsKept, HeldBack
  <2>2. CASE UserDeletes
    BY <1>2, <2>2 DEF UserDeletes, Object, ObjectsKept, HeldBack
  <2>3. CASE CacheSync \/ ConfigMapCacheSync \/ GarbageCollect
    BY <2>3 DEF CacheSync, ConfigMapCacheSync, GarbageCollect, ObjectsKept, HeldInv, CopiesInv
  <2> QED BY <2>1, <2>2, <2>3 DEF KubernetesStep
<1>4. WorkspacesKept /\ RunsInv'
  BY <1>1, <1>3, CloudUnchanged, RunsInvKept DEF HeldInv
<1>5. fresh' => fresh /\ cr' = cr
  BY DEF KubernetesStep, CacheSync, ConfigMapCacheSync, GarbageCollect
<1> QED BY <1>1, <1>3, <1>4, <1>5, EnvironmentHeld

LEMMA HeldInit == OneOrganization /\ Init => HeldInv
<1> SUFFICES ASSUME Init PROVE HeldInv
  OBVIOUS
<1>1. /\ cr.phase = "active" /\ cr.status = BlankStatus /\ cached = cr /\ pc = "idle"
      /\ workspaces = [w \in WorkspaceIDs |-> NoWorkspace] /\ runs = [r \in RunIDs |-> NoRun]
  BY DEF Init, KubernetesApiInit, TerraformCloudInit
<1>2. /\ \A w \in WorkspaceIDs : ~Live(w)
      /\ \A r \in RunIDs : ~isPending(runs[r].status)
  BY <1>1 DEF Live, NoWorkspace, NoRun, isPending, PendingStatuses
<1>3. OneWorkspace /\ RunsInv /\ PathFacts
  BY <1>1, <1>2 DEF OneWorkspace, RunsInv, PathFacts, deleteSteps
<1>4. CopiesInv
  BY <1>1, <1>2 DEF CopiesInv, Outdated, HeldBack
<1> QED BY <1>3, <1>4 DEF HeldInv

LEMMA HeldNext == Attentive /\ IInv /\ IInv' /\ HeldInv /\ [Next]_vars => HeldInv'
<1> SUFFICES ASSUME Attentive, IInv, IInv', HeldInv, [Next]_vars PROVE HeldInv'
  OBVIOUS
<1>0. OneOrganization
  BY DEF Attentive
<1>1. CASE UNCHANGED vars
  BY <1>1 DEF vars, tfcVars, kubeVars, operatorVars, HeldInv, OneWorkspace, Live, CopiesInv,
     Outdated, HeldBack, PathFacts, RunsInv
<1>2. CASE Abort
  BY <1>0, <1>2, QuietStep, CloudUnchanged DEF Abort, tfcVars, kubeVars
<1>3. CASE InitializeReconciliation
  <2>1. /\ UNCHANGED <<workspaces, runs, cr, cached>> /\ instance' = cached
        /\ fresh' = cacheFresh
        /\ pc' = IF cached.phase = "deleting" THEN "condDeleteWorkspace" ELSE "CheckWorkspace"
        /\ cached.phase \in {"active", "deleting"}
    BY <1>3 DEF InitializeReconciliation, tfcVars, kubeVars, IInv, ObjectsInv,
       KubernetesApiTypeOK, Object
  <2>2. PathFacts'
    BY <2>1 DEF PathFacts, deleteSteps, unheldSteps, HeldInv, CopiesInv, HeldBack
  <2>3. ObjectsKept
    BY <2>1 DEF ObjectsKept, HeldInv, CopiesInv
  <2>4. InstanceKept
    BY <2>1 DEF InstanceKept
  <2> QED BY <1>0, <2>1, <2>2, <2>3, <2>4, CloudUnchanged, Kept
<1> QED
  BY <1>0, <1>1, <1>2, <1>3, CondDeleteHeld, CheckWorkspaceHeld, RecordWorkspaceIDHeld,
     ReconcileWorkspaceHeld, ProcessRunHeld, StartConditionsHeld, StartRunHeld,
     TerraformCloudStepHeld, KubernetesStepHeld
     DEF Next, Reconcile, InstanceGone, reconcileSteps

LEMMA HeldInvariance == ASSUME Attentive PROVE Spec => []HeldInv
<1>1. Init => HeldInv
  BY HeldInit DEF Attentive
<1>2. IInv /\ IInv' /\ HeldInv /\ [Next]_vars => HeldInv'
  BY HeldNext
<1> QED BY <1>1, <1>2, Invariance, PTL DEF Spec

\* An unfinished run of the operator is under the finalizer, however old the
\* copies are that reconciles work with and wherever they are cut short:
\* addFinalizer comes before startRun, and removeFinalizer after the runs.
THEOREM RunsUnderFinalizer ==
  ASSUME Attentive PROVE Spec => []RunOnlyUnderFinalizer
<1>1. HeldInv => RunOnlyUnderFinalizer
  BY DEF HeldInv, RunsInv, RunOnlyUnderFinalizer
<1> QED BY <1>1, HeldInvariance, PTL

(***************************************************************************)
(* The inductive invariant: infrastructure.                                *)
(***************************************************************************)
Empty(w) == workspaces[w].deployed \in {None, Destroyed}

\* Without runs of users all runs are the operator's; what runs deployed is in
\* the workspace on record; and a workspace without a run is empty.
DeployedInv ==
  /\ \A r \in RunIDs : isPending(runs[r].status) =>
       runs[r].operator /\ workspaces[runs[r].workspace].currentRun # None
  /\ \A w \in WorkspaceIDs : ~Empty(w) =>
       Live(w) /\ w = cr.status.workspaceID /\ cr.finalizer
  /\ \A w \in WorkspaceIDs : workspaces[w].currentRun = None => workspaces[w].deployed = None

\* Every step of the finalizer leaves less: no more runs, then no more
\* infrastructure.
FinalizerFacts ==
  \A w \in WorkspaceIDs : instance.status.workspaceID = w =>
    /\ pc = "ForceCancel" => ActiveRunsOf(w) \subseteq local.toCancel
    /\ pc \in {"DeleteResources", "createDestroyRun"} => ActiveRunsOf(w) = {}
    /\ pc = "awaitDestroy" =>
         /\ local.run \in RunIDs
         /\ ActiveRunsOf(w) \subseteq {local.run}
         /\ isPending(runs[local.run].status) =>
              runs[local.run].workspace = w /\ runs[local.run].destroy
         /\ runs[local.run].status \in
              PendingStatuses \cup {"applied", "planned_and_finished", "errored"}
         /\ runs[local.run].status \in {"applied", "planned_and_finished"} => Empty(w)
    /\ pc = "DeleteWorkspace" => ActiveRunsOf(w) = {} /\ Empty(w)

ResourcesInv == DeployedInv /\ (pc # "idle" => FinalizerFacts)

(***************************************************************************)
(* What a step does to the Workspace, its runs and its infrastructure.     *)
(***************************************************************************)
ObjectSame == cr'.phase = cr.phase /\ cr'.finalizer = cr.finalizer
RecordSame == cr'.status.workspaceID = cr.status.workspaceID
CloudSame ==
  /\ UNCHANGED runs
  /\ \A w \in WorkspaceIDs :
       /\ Live(w)' = Live(w)
       /\ workspaces'[w].currentRun = workspaces[w].currentRun
       /\ workspaces'[w].deployed = workspaces[w].deployed

Nothing == ObjectSame /\ RecordSame /\ CloudSame

Creates ==
  /\ ObjectSame /\ RecordSame /\ UNCHANGED runs
  /\ \A w \in WorkspaceIDs : workspaces'[w] = workspaces[w] \/ ~Live(w)
  /\ \A w \in WorkspaceIDs : workspaces'[w] = workspaces[w]
       \/ (workspaces'[w].deployed = None /\ workspaces'[w].currentRun = None)

Records ==
  /\ ObjectSame /\ UNCHANGED <<workspaces, runs>>
  /\ cr.phase = "active"
  /\ cr'.status.workspaceID \in WorkspaceIDs
  /\ \A w \in WorkspaceIDs : Live(w) => w = cr'.status.workspaceID

Holds ==
  /\ RecordSame /\ UNCHANGED <<workspaces, runs>>
  /\ cr.phase = "active" /\ cr'.phase = cr.phase
  /\ cr'.finalizer = TRUE

Starts ==
  /\ ObjectSame /\ RecordSame
  /\ cr.finalizer
  /\ \E r \in FreeRuns, w \in WorkspaceIDs, destroy \in BOOLEAN :
       CreateRun(r, w, destroy, TRUE)

Continues ==
  /\ ObjectSame /\ RecordSame /\ UNCHANGED workspaces
  /\ \E r \in RunIDs :
       /\ isPending(runs[r].status)
       /\ runs' = [runs EXCEPT ![r].status = "applying"]

Ends ==
  /\ ObjectSame /\ RecordSame
  /\ \E r \in RunIDs : \E final : \E deployed :
       isPending(runs[r].status) /\ ~isPending(final) /\ RunEnds(r, final, deployed)

DeletesWorkspace ==
  /\ ObjectSame /\ RecordSame
  /\ pc = "DeleteWorkspace"
  /\ status.workspaceID \in WorkspaceIDs
  /\ DeleteWorkspaceByID(status.workspaceID)

Deletes ==
  /\ RecordSame /\ UNCHANGED <<workspaces, runs>>
  /\ cr.phase = "active" /\ cr'.finalizer = cr.finalizer
  /\ cr'.phase = IF cr.finalizer THEN "deleting" ELSE "gone"

Releases ==
  /\ RecordSame /\ UNCHANGED <<workspaces, runs>>
  /\ cr.phase = "deleting" /\ cr'.phase = "gone" /\ cr'.finalizer = FALSE
  /\ \A w \in WorkspaceIDs : cr.status.workspaceID = w => ~Live(w)

Effects ==
  \/ Nothing \/ Creates \/ Records \/ Holds \/ Starts \/ Continues \/ Ends
  \/ DeletesWorkspace \/ Deletes \/ Releases

LEMMA NothingHappens ==
  UNCHANGED <<workspaces, runs, cr>> => Nothing
BY DEF Nothing, ObjectSame, RecordSame, CloudSame, Live

LEMMA FieldChanges ==
  ASSUME NEW w, NEW ws, UNCHANGED <<runs, cr>>, workspaces \in [WorkspaceIDs -> Workspace],
         workspaces' = [workspaces EXCEPT ![w] = ws],
         w \in WorkspaceIDs => /\ ws.live = workspaces[w].live
                               /\ ws.currentRun = workspaces[w].currentRun
                               /\ ws.deployed = workspaces[w].deployed
  PROVE  Nothing
<1>1. \A v \in WorkspaceIDs : /\ workspaces'[v].live = workspaces[v].live
                              /\ workspaces'[v].currentRun = workspaces[v].currentRun
                              /\ workspaces'[v].deployed = workspaces[v].deployed
  OBVIOUS
<1> QED BY <1>1 DEF Nothing, ObjectSame, RecordSame, CloudSame, Live

LEMMA StatusWritten ==
  ASSUME IInv, NEW s, s.workspaceID = status.workspaceID, UNCHANGED <<workspaces, runs>>,
         (fresh /\ WriteObject(WithStatus(s))) \/ UNCHANGED cr
  PROVE  Nothing
<1>1. CASE UNCHANGED cr
  BY <1>1, NothingHappens
<1>2. CASE fresh /\ WriteObject(WithStatus(s))
  BY <1>2, WithStatusKeeps DEF WriteObject, Nothing, ObjectSame, RecordSame, CloudSame, Live
<1> QED BY <1>1, <1>2

\* The workspace that a held copy names is the one on record while it is live.
LEMMA HeldCopy ==
  ASSUME IInv, HeldInv, pc # "idle", instance.finalizer,
         NEW w \in WorkspaceIDs, w = status.workspaceID, workspaces[w].live
  PROVE  cr.finalizer /\ w = cr.status.workspaceID /\ Live(w)
BY DEF HeldInv, CopiesInv, Outdated, Live, status

LEMMA CondDeleteEffects ==
  Attentive /\ IInv /\ HeldInv /\ condDeleteSteps => Effects
<1> SUFFICES ASSUME Attentive, IInv, HeldInv, condDeleteSteps PROVE Effects
  OBVIOUS
<1>0. pc \in deleteSteps /\ pc # "idle"
  BY DEF condDeleteSteps, CondDeleteWorkspace, FinalizeWorkspace, DeleteRuns, ForceCancel,
         DeleteResources, CreateDestroyRun, AwaitDestroy, DeleteWorkspace, RemoveFinalizer,
         deleteSteps
<1>1. instance.phase = "deleting" /\ instance.finalizer
  BY <1>0 DEF HeldInv, PathFacts
<1>2. pc # "condDeleteWorkspace" => status.workspaceID \in WorkspaceIDs
  BY <1>0, InstanceType DEF BeforeWorkspaceID, deleteSteps
<1>3. CASE CondDeleteWorkspace \/ FinalizeWorkspace \/ DeleteRuns \/ DeleteResources \/ AwaitDestroy
  BY <1>3, NothingHappens DEF Effects, CondDeleteWorkspace, FinalizeWorkspace, DeleteRuns,
     DeleteResources, AwaitDestroy, tfcVars, kubeVars
<1>4. CASE ForceCancel
  <2>1. UNCHANGED cr /\ local.toCancel \subseteq RunIDs
    BY <1>4 DEF ForceCancel, kubeVars, IInv, OperatorInv, OperatorTypeOK, Locals
  <2>2. CASE UNCHANGED <<runs, workspaces>>
    BY <2>1, <2>2, NothingHappens DEF Effects
  <2>3. ASSUME NEW r \in RunIDs, isPending(runs[r].status), CancelRun(r)
        PROVE  Effects
    <3>1. \E deployed : RunEnds(r, "canceled", deployed)
      BY <2>3 DEF CancelRun
    <3> QED BY <2>1, <2>3, <3>1 DEF Effects, Ends, ObjectSame, RecordSame, isPending, PendingStatuses
  <2> QED BY <1>4, <2>1, <2>2, <2>3 DEF ForceCancel
<1>5. CASE CreateDestroyRun
  <2>1. UNCHANGED cr /\ status.workspaceID \in WorkspaceIDs
    BY <1>2, <1>5 DEF CreateDestroyRun, kubeVars
  <2>2. CASE UNCHANGED <<runs, workspaces>>
    BY <2>1, <2>2, NothingHappens DEF Effects
  <2>3. ASSUME NEW r \in FreeRuns, CreateRun(r, status.workspaceID, TRUE, TRUE),
               workspaces[status.workspaceID].live
        PROVE  Effects
    <3>1. cr.finalizer
      BY <1>0, <1>1, <2>1, <2>3, HeldCopy
    <3> QED BY <2>1, <2>3, <3>1 DEF Effects, Starts, ObjectSame, RecordSame
  <2> QED BY <1>5, <2>2, <2>3 DEF CreateDestroyRun
<1>6. CASE DeleteWorkspace
  <2>1. UNCHANGED cr /\ status.workspaceID \in WorkspaceIDs
    BY <1>2, <1>6 DEF DeleteWorkspace, kubeVars
  <2> QED BY <1>6, <2>1, NothingHappens
      DEF DeleteWorkspace, Effects, DeletesWorkspace, ObjectSame, RecordSame
<1>7. CASE RemoveFinalizer
  <2>1. UNCHANGED <<workspaces, runs>>
    BY <1>7 DEF RemoveFinalizer, tfcVars
  <2>2. CASE ~fresh
    BY <1>7, <2>1, <2>2, NothingHappens DEF RemoveFinalizer, Effects
  <2>3. CASE fresh
    <3>1. /\ cr = instance /\ cr \in Object
          /\ cr' = [cr EXCEPT !.finalizer = FALSE, !.phase = "gone"]
      BY <1>7, <2>3 DEF RemoveFinalizer, WriteObject, WithFinalizer, IInv, OperatorInv, CopyInv,
         ObjectsInv, KubernetesApiTypeOK
    <3>2. cr'.finalizer = FALSE /\ cr'.phase = "gone" /\ cr'.status = cr.status
      BY <3>1 DEF Object
    <3>3. \A w \in WorkspaceIDs : cr.status.workspaceID = w => ~Live(w)
      BY <1>7, <3>1 DEF RemoveFinalizer, HeldInv, PathFacts
    <3> QED BY <1>1, <2>1, <3>1, <3>2, <3>3 DEF Effects, Releases, RecordSame
  <2> QED BY <2>2, <2>3
<1> QED BY <1>3, <1>4, <1>5, <1>6, <1>7 DEF condDeleteSteps

LEMMA ReconcileWorkspaceEffects ==
  IInv /\ IInv' /\ HeldInv
    /\ (CheckWorkspace \/ RecordWorkspaceID \/ RecordRunID \/ AddFinalizer) => Effects
<1> SUFFICES ASSUME IInv, IInv', HeldInv,
                    CheckWorkspace \/ RecordWorkspaceID \/ RecordRunID \/ AddFinalizer
             PROVE  Effects
  OBVIOUS
<1>0. /\ pc # "idle" /\ pc \in unheldSteps \ deleteSteps
      /\ status \in WorkspaceStatus /\ instance.phase = "active"
  <2>1. pc # "idle" /\ pc \in unheldSteps \ deleteSteps
    BY DEF CheckWorkspace, RecordWorkspaceID, RecordRunID, AddFinalizer, unheldSteps, deleteSteps
  <2> QED BY <2>1, InstanceType DEF HeldInv, PathFacts
<1>1. fresh => instance = cr /\ cr \in Object
  BY DEF IInv, OperatorInv, CopyInv, ObjectsInv, KubernetesApiTypeOK
<1>2. CASE CheckWorkspace
  <2>1. UNCHANGED <<runs, cr>>
    BY <1>2 DEF CheckWorkspace, kubeVars
  <2>2. CASE UNCHANGED workspaces
    BY <2>1, <2>2, NothingHappens DEF Effects
  <2>3. ASSUME NEW w \in FreeWorkspaces, CreateWorkspace(w, spec.organization, spec.vcs)
        PROVE  Effects
    <3>1. /\ workspaces \in [WorkspaceIDs -> Workspace] /\ w \in WorkspaceIDs /\ ~Live(w)
          /\ workspaces' = [workspaces EXCEPT ![w] =
               [NoWorkspace EXCEPT !.live = TRUE, !.organization = spec.organization,
                                   !.vcs = spec.vcs]]
      BY <2>3 DEF FreeWorkspaces, CreateWorkspace, IInv, CloudInv, TerraformCloudTypeOK, Live
    <3>2. /\ \A v \in WorkspaceIDs \ {w} : workspaces'[v] = workspaces[v]
          /\ workspaces'[w].deployed = None /\ workspaces'[w].currentRun = None
      BY <3>1 DEF NoWorkspace
    <3> QED BY <2>1, <3>1, <3>2 DEF Effects, Creates, ObjectSame, RecordSame
  <2> QED BY <1>2, <2>2, <2>3 DEF CheckWorkspace
<1>3. CASE RecordWorkspaceID
  <2>1. UNCHANGED <<workspaces, runs>> /\ pc = "recordWorkspaceID"
    BY <1>3 DEF RecordWorkspaceID, tfcVars
  <2>2. CASE UNCHANGED cr
    BY <2>1, <2>2, NothingHappens DEF Effects
  <2>3. CASE /\ fresh /\ WriteObject(instance')
             /\ instance' = WithStatus([status EXCEPT !.workspaceID = local.workspace,
                                                      !.outputs = None])
    <3>1. /\ cr'.phase = cr.phase /\ cr'.finalizer = cr.finalizer
          /\ cr'.status.workspaceID = local.workspace
      BY <1>0, <1>1, <2>3 DEF WriteObject, WithStatus, Object, WorkspaceStatus, status
    <3>2. local.workspace \in WorkspaceIDs
      BY <2>1 DEF IInv, OperatorInv, OperatorTypeOK, StepFacts, Locals
    <3>3. \A w \in WorkspaceIDs : Live(w) => w = local.workspace
      BY <2>1 DEF HeldInv, PathFacts
    <3> QED BY <1>0, <1>1, <2>1, <2>3, <3>1, <3>2, <3>3 DEF Effects, Records, ObjectSame
  <2> QED BY <1>3, <2>2, <2>3 DEF RecordWorkspaceID
<1>4. CASE RecordRunID
  <2> DEFINE s == [status EXCEPT !.runID = local.run]
  <2>1. s.workspaceID = status.workspaceID
    BY <1>0 DEF WorkspaceStatus
  <2>2. UNCHANGED <<workspaces, runs>> /\ ((fresh /\ WriteObject(WithStatus(s))) \/ UNCHANGED cr)
    BY <1>4 DEF RecordRunID, Update, tfcVars
  <2> HIDE DEF s
  <2> QED BY <2>1, <2>2, StatusWritten DEF Effects
<1>5. CASE AddFinalizer
  <2>1. UNCHANGED <<workspaces, runs>>
    BY <1>5 DEF AddFinalizer, tfcVars
  <2>2. CASE UNCHANGED cr
    BY <2>1, <2>2, NothingHappens DEF Effects
  <2>3. CASE fresh /\ WriteObject(WithFinalizer(TRUE))
    BY <1>0, <1>1, <2>1, <2>3 DEF WriteObject, WithFinalizer, Object, Effects, Holds, RecordSame
  <2> QED BY <1>5, <2>2, <2>3 DEF AddFinalizer, Update
<1> QED BY <1>2, <1>3, <1>4, <1>5

LEMMA ProcessRunEffects ==
  IInv /\ (RunInProgress \/ RecordRunStatus \/ ProcessFinishedRun \/ RecordOutputs
             \/ UpsertSecretOutputs) => Effects
<1> SUFFICES ASSUME IInv, RunInProgress \/ RecordRunStatus \/ ProcessFinishedRun
                            \/ RecordOutputs \/ UpsertSecretOutputs
             PROVE  Effects
  OBVIOUS
<1>0. UNCHANGED <<workspaces, runs>> /\ status \in WorkspaceStatus
  <2>1. pc \notin BeforeWorkspaceID /\ UNCHANGED <<workspaces, runs>>
    BY DEF RunInProgress, RecordRunStatus, ProcessFinishedRun, RecordOutputs,
           UpsertSecretOutputs, tfcVars, BeforeWorkspaceID
  <2> QED BY <2>1, InstanceType DEF BeforeWorkspaceID
<1>1. CASE RunInProgress \/ ProcessFinishedRun \/ UpsertSecretOutputs
  BY <1>0, <1>1, NothingHappens
     DEF Effects, RunInProgress, ProcessFinishedRun, UpsertSecretOutputs, kubeVars
<1>2. CASE RecordRunStatus
  <2> DEFINE s == [status EXCEPT !.runStatus = local.runStatus]
  <2>1. s.workspaceID = status.workspaceID
    BY <1>0 DEF WorkspaceStatus
  <2>2. (fresh /\ WriteObject(WithStatus(s))) \/ UNCHANGED cr
    BY <1>2 DEF RecordRunStatus
  <2> HIDE DEF s
  <2> QED BY <1>0, <2>1, <2>2, StatusWritten DEF Effects
<1>3. CASE RecordOutputs
  <2> DEFINE s == [status EXCEPT !.outputs = local.outputs]
  <2>1. s.workspaceID = status.workspaceID
    BY <1>0 DEF WorkspaceStatus
  <2>2. (fresh /\ WriteObject(WithStatus(s))) \/ UNCHANGED cr
    BY <1>3 DEF RecordOutputs, Update
  <2> HIDE DEF s
  <2> QED BY <1>0, <2>1, <2>2, StatusWritten DEF Effects
<1> QED BY <1>1, <1>2, <1>3

LEMMA StartConditionsEffects ==
  IInv /\ (UpdateTerraformTemplate \/ UpdateVariables \/ UpdateRunTriggers) => Effects
<1> SUFFICES ASSUME IInv, UpdateTerraformTemplate \/ UpdateVariables \/ UpdateRunTriggers
             PROVE  Effects
  OBVIOUS
<1>0. UNCHANGED <<runs, cr>> /\ workspaces \in [WorkspaceIDs -> Workspace]
  BY DEF UpdateTerraformTemplate, UpdateVariables, UpdateRunTriggers, tfcVars, kubeVars,
         IInv, CloudInv, TerraformCloudTypeOK
<1>1. CASE UNCHANGED workspaces
  BY <1>0, <1>1, NothingHappens DEF Effects
<1>2. ASSUME NEW w \in WorkspacesNamed(spec.organization), NEW x,
             \/ workspaces' = [workspaces EXCEPT ![w] = [workspaces[w] EXCEPT !.value = x]]
             \/ workspaces' = [workspaces EXCEPT ![w] = [workspaces[w] EXCEPT !.trigger = x]]
      PROVE  Effects
  <2>1. workspaces[w] \in Workspace
    BY <1>0 DEF WorkspacesNamed
  <2>2. Nothing
    BY <1>0, <1>2, <2>1, FieldChanges DEF Workspace
  <2> QED BY <2>2 DEF Effects
<1>3. CASE UpdateTerraformTemplate
  BY <1>1, <1>3 DEF UpdateTerraformTemplate, tfcVars
<1>4. CASE UpdateVariables
  BY <1>1, <1>2, <1>4 DEF UpdateVariables
<1>5. CASE UpdateRunTriggers
  <2>1. \/ UNCHANGED workspaces
        \/ \E w \in WorkspacesNamed(spec.organization) : \E trigger :
             workspaces' = [workspaces EXCEPT ![w] = [workspaces[w] EXCEPT !.trigger = trigger]]
    BY <1>5 DEF UpdateRunTriggers
  <2> QED BY <1>1, <1>2, <2>1
<1> QED BY <1>3, <1>4, <1>5

LEMMA StartRunEffects == IInv /\ HeldInv /\ startRunSteps => Effects
<1> SUFFICES ASSUME IInv, HeldInv, startRunSteps PROVE Effects
  OBVIOUS
<1>0. /\ pc \notin BeforeWorkspaceID \cup deleteSteps \cup unheldSteps \cup {"idle"}
      /\ ~CreateApplyRun => UNCHANGED <<workspaces, runs>>
  BY DEF startRunSteps, StartRun, CreateConfigurationVersion, UploadConfigurationFile,
         RecordConfigVersion, ReadConfigVersion, ResetConfigVersion, CreateApplyRun, RecordRun,
         tfcVars, BeforeWorkspaceID, deleteSteps, unheldSteps
<1>1. instance.finalizer /\ status \in WorkspaceStatus /\ status.workspaceID \in WorkspaceIDs
  BY <1>0, InstanceType DEF HeldInv, PathFacts
<1>2. CASE \/ StartRun \/ CreateConfigurationVersion \/ UploadConfigurationFile
           \/ ReadConfigVersion
  <2>1. UNCHANGED <<workspaces, runs, cr>>
    BY <1>2 DEF StartRun, CreateConfigurationVersion, UploadConfigurationFile, ReadConfigVersion,
       tfcVars, kubeVars
  <2> QED BY <2>1, NothingHappens DEF Effects
<1>3. ASSUME NEW c, NEW step, UNCHANGED <<workspaces, runs>>,
             Update(WithStatus([status EXCEPT !.configVersionID = c]), step)
      PROVE  Effects
  <2> DEFINE s == [status EXCEPT !.configVersionID = c]
  <2>1. s.workspaceID = status.workspaceID
    BY <1>1 DEF WorkspaceStatus
  <2>2. (fresh /\ WriteObject(WithStatus(s))) \/ UNCHANGED cr
    BY <1>3 DEF Update
  <2> HIDE DEF s
  <2> QED BY <1>3, <2>1, <2>2, StatusWritten DEF Effects
<1>4. CASE RecordConfigVersion \/ ResetConfigVersion
  BY <1>3, <1>4 DEF RecordConfigVersion, ResetConfigVersion, tfcVars
<1>5. CASE CreateApplyRun
  <2>1. UNCHANGED cr
    BY <1>5 DEF CreateApplyRun, kubeVars
  <2>2. CASE UNCHANGED <<runs, workspaces>>
    BY <2>1, <2>2, NothingHappens DEF Effects
  <2>3. ASSUME NEW r \in FreeRuns, CreateRun(r, status.workspaceID, FALSE, TRUE),
               workspaces[status.workspaceID].live
        PROVE  Effects
    <3>1. cr.finalizer
      BY <1>0, <1>1, <2>3, HeldCopy
    <3> QED BY <1>1, <2>1, <2>3, <3>1 DEF Effects, Starts, ObjectSame, RecordSame
  <2> QED BY <1>5, <2>2, <2>3 DEF CreateApplyRun
<1>6. CASE RecordRun
  <2> DEFINE s == [status EXCEPT !.runID = local.run, !.runStatus = "pending"]
  <2>1. s.workspaceID = status.workspaceID /\ UNCHANGED <<workspaces, runs>>
    BY <1>1, <1>6 DEF WorkspaceStatus, RecordRun, tfcVars
  <2>2. (fresh /\ WriteObject(WithStatus(s))) \/ UNCHANGED cr
    BY <1>6 DEF RecordRun
  <2> HIDE DEF s
  <2> QED BY <2>1, <2>2, StatusWritten DEF Effects
<1> QED BY <1>2, <1>4, <1>5, <1>6 DEF startRunSteps

LEMMA TerraformCloudEffects ==
  Undisturbed /\ IInv /\ TerraformCloudStep => Effects
<1> SUFFICES ASSUME Undisturbed, IInv, TerraformCloudStep PROVE Effects
  OBVIOUS
<1>0. UNCHANGED cr /\ workspaces \in [WorkspaceIDs -> Workspace]
  BY DEF TerraformCloudStep, kubeVars, IInv, CloudInv, TerraformCloudTypeOK
<1>1. ASSUME NEW w, NEW x, UNCHANGED runs,
             \/ workspaces' = [workspaces EXCEPT ![w] = [workspaces[w] EXCEPT !.value = x]]
             \/ workspaces' = [workspaces EXCEPT ![w] = [workspaces[w] EXCEPT !.template = x]]
      PROVE  Effects
  <2>1. w \in WorkspaceIDs => workspaces[w] \in Workspace
    BY <1>0
  <2>2. Nothing
    BY <1>0, <1>1, <2>1, FieldChanges DEF Workspace
  <2> QED BY <2>2 DEF Effects
<1>2. ASSUME NEW r \in RunIDs, RunProgress(r)
      PROVE  Effects
  <2>1. isPending(runs[r].status)
    BY <1>2 DEF RunProgress, RunStarts, RunFinishes, isPending, PendingStatuses
  <2>2. CASE RunStarts(r)
    BY <1>0, <2>1, <2>2 DEF RunStarts, Effects, Continues, ObjectSame, RecordSame
  <2>3. CASE RunFinishes(r)
    <3>1. PICK final \in Outcomes \cup {"planned_and_finished"} :
            \E deployed : RunEnds(r, final, deployed)
      BY <2>3, RunFinishesStatus
    <3>2. ~isPending(final)
      BY TerraformCloudAssumption DEF isPending, PendingStatuses
    <3> QED BY <1>0, <2>1, <3>1, <3>2 DEF Effects, Ends, ObjectSame, RecordSame
  <2> QED BY <1>2, <2>2, <2>3 DEF RunProgress
<1>3. ASSUME NEW c \in ConfigVersionIDs, ConfigVersionProcessed(c)
      PROVE  Effects
  <2>1. CASE UNCHANGED workspaces
    BY <1>0, <1>3, <2>1, NothingHappens DEF ConfigVersionProcessed, Effects
  <2>2. CASE workspaces' = [workspaces EXCEPT ![configVersions[c].workspace] =
               [workspaces[configVersions[c].workspace] EXCEPT !.template = configVersions[c].template]]
    BY <1>1, <1>3, <2>2 DEF ConfigVersionProcessed
  <2> QED BY <1>3, <2>1, <2>2 DEF ConfigVersionProcessed
<1>4. ASSUME NEW w \in WorkspaceIDs, VCSIngress(w)
      PROVE  Effects
  BY <1>1, <1>4 DEF VCSIngress
<1>5. ASSUME NEW w \in WorkspaceIDs, UserIntervenes(w, FreeRuns)
      PROVE  Effects
  BY <1>1, <1>5 DEF UserIntervenes, Undisturbed
<1> QED BY <1>2, <1>3, <1>4, <1>5 DEF TerraformCloudStep

LEMMA KubernetesEffects == IInv /\ KubernetesStep => Effects
<1> SUFFICES ASSUME IInv, KubernetesStep PROVE Effects
  OBVIOUS
<1>1. UNCHANGED <<workspaces, runs>> /\ cr \in Object
  BY DEF KubernetesStep, tfcVars, IInv, ObjectsInv, KubernetesApiTypeOK
<1>2. CASE UserEdits
  BY <1>1, <1>2 DEF UserEdits, Object, Effects, Nothing, ObjectSame, RecordSame, CloudSame, Live
<1>3. CASE UserDeletes
  BY <1>1, <1>3 DEF UserDeletes, Object, Effects, Deletes, RecordSame
<1>4. CASE CacheSync \/ ConfigMapCacheSync \/ GarbageCollect
  BY <1>1, <1>4, NothingHappens DEF CacheSync, ConfigMapCacheSync, GarbageCollect, Effects
<1> QED BY <1>2, <1>3, <1>4 DEF KubernetesStep

LEMMA StepEffects ==
  Attentive /\ Undisturbed /\ IInv /\ IInv' /\ HeldInv /\ [Next]_vars => Effects
<1>1. UNCHANGED vars \/ Abort \/ InitializeReconciliation \/ InstanceGone => Effects
  BY NothingHappens DEF vars, tfcVars, kubeVars, Abort, InitializeReconciliation, InstanceGone, Effects
<1> QED
  BY <1>1, CondDeleteEffects, ReconcileWorkspaceEffects, ProcessRunEffects,
     StartConditionsEffects, StartRunEffects, TerraformCloudEffects, KubernetesEffects
     DEF Next, Reconcile, reconcileSteps

(***************************************************************************)
(* Every step keeps ResourcesInv.                                          *)
(***************************************************************************)
\* The fields of a run that starts, and of the workspaces.
LEMMA CreatedRun ==
  ASSUME NEW r \in RunIDs, NEW w \in WorkspaceIDs, NEW destroy, NEW operator,
         IInv, CreateRun(r, w, destroy, operator)
  PROVE  /\ \A q \in RunIDs \ {r} : runs'[q] = runs[q]
         /\ runs'[r].status = "pending" /\ runs'[r].workspace = w
         /\ runs'[r].destroy = destroy /\ runs'[r].operator = operator
         /\ \A v \in WorkspaceIDs :
              /\ workspaces'[v].live = workspaces[v].live
              /\ workspaces'[v].deployed = workspaces[v].deployed
              /\ workspaces'[v].currentRun =
                   IF v = w /\ ActiveRunsOf(w) = {} THEN r ELSE workspaces[v].currentRun
<1>1. workspaces \in [WorkspaceIDs -> Workspace] /\ runs \in [RunIDs -> Run]
  BY DEF IInv, CloudInv, TerraformCloudTypeOK
<1>2. /\ \A q \in RunIDs \ {r} : runs'[q] = runs[q]
      /\ runs'[r].status = "pending" /\ runs'[r].workspace = w
      /\ runs'[r].destroy = destroy /\ runs'[r].operator = operator
  BY <1>1 DEF CreateRun
<1>3. workspaces' = IF ActiveRunsOf(w) = {}
                      THEN [workspaces EXCEPT ![w] = [workspaces[w] EXCEPT !.currentRun = r]]
                      ELSE workspaces
  BY DEF CreateRun
<1>4. \A v \in WorkspaceIDs :
        /\ workspaces'[v].live = workspaces[v].live
        /\ workspaces'[v].deployed = workspaces[v].deployed
        /\ workspaces'[v].currentRun =
             IF v = w /\ ActiveRunsOf(w) = {} THEN r ELSE workspaces[v].currentRun
  BY <1>1, <1>3 DEF Workspace
<1> QED BY <1>2, <1>4

\* The fields of a run that ends, and of the workspaces.
LEMMA EndedRun ==
  ASSUME NEW r \in RunIDs, IInv, isPending(runs[r].status), NEW final, NEW d,
         RunEnds(r, final, d)
  PROVE  /\ \A q \in RunIDs \ {r} : runs'[q] = runs[q]
         /\ runs'[r].status = final
         /\ runs'[r].workspace = runs[r].workspace /\ runs'[r].destroy = runs[r].destroy
         /\ runs'[r].operator = runs[r].operator
         /\ \A v \in WorkspaceIDs \ {runs[r].workspace} : workspaces'[v] = workspaces[v]
         /\ runs[r].workspace \in WorkspaceIDs
         /\ workspaces'[runs[r].workspace].live = workspaces[runs[r].workspace].live
         /\ workspaces'[runs[r].workspace].deployed = d
         /\ workspaces'[runs[r].workspace].currentRun \in
              {workspaces[runs[r].workspace].currentRun} \cup RunIDs
<1> DEFINE w == runs[r].workspace
<1>1. /\ workspaces \in [WorkspaceIDs -> Workspace] /\ runs \in [RunIDs -> Run]
      /\ w \in WorkspaceIDs /\ workspaces[w] \in Workspace
  BY PendingRun DEF IInv, CloudInv, TerraformCloudTypeOK
<1>2. runs' = [runs EXCEPT ![r] = [runs[r] EXCEPT !.status = final]]
  BY DEF RunEnds
<1>3. PICK current \in {workspaces[w].currentRun} \cup RunIDs :
        workspaces' = [workspaces EXCEPT ![w] =
          [workspaces[w] EXCEPT !.currentRun = current, !.deployed = d]]
  BY DEF RunEnds, ActiveRunsOf, RunsOf
<1>4. /\ \A q \in RunIDs \ {r} : runs'[q] = runs[q]
      /\ runs'[r].status = final
      /\ runs'[r].workspace = runs[r].workspace /\ runs'[r].destroy = runs[r].destroy
      /\ runs'[r].operator = runs[r].operator
  BY <1>1, <1>2 DEF Run
<1>5. /\ workspaces'[w].live = workspaces[w].live
      /\ workspaces'[w].deployed = d /\ workspaces'[w].currentRun = current
      /\ \A v \in WorkspaceIDs \ {w} : workspaces'[v] = workspaces[v]
  BY <1>1, <1>3 DEF Workspace
<1> QED BY <1>1, <1>3, <1>4, <1>5

LEMMA DeployedNext ==
  IInv /\ HeldInv /\ DeployedInv /\ Effects => DeployedInv'
<1> SUFFICES ASSUME IInv, HeldInv, DeployedInv, Effects PROVE DeployedInv'
  OBVIOUS
<1>0. /\ workspaces \in [WorkspaceIDs -> Workspace] /\ runs \in [RunIDs -> Run]
      /\ \A r \in RunIDs : isPending(runs[r].status) =>
           runs[r].workspace \in WorkspaceIDs /\ Live(runs[r].workspace)
  BY DEF IInv, CloudInv, TerraformCloudTypeOK, HeldInv, RunsInv
<1>1. CASE Nothing
  BY <1>0, <1>1 DEF DeployedInv, Nothing, ObjectSame, RecordSame, CloudSame, Empty
<1>2. CASE Creates
  BY <1>0, <1>2 DEF DeployedInv, Creates, ObjectSame, RecordSame, Empty, Live
<1>3. CASE Records \/ Holds \/ Deletes
  BY <1>3 DEF DeployedInv, Records, Holds, Deletes, ObjectSame, RecordSame, Empty, Live
<1>4. CASE Starts
  <2>1. PICK r \in RunIDs, w \in WorkspaceIDs : \E destroy \in BOOLEAN :
               CreateRun(r, w, destroy, TRUE)
    BY <1>4 DEF Starts, FreeRuns
  <2>2. /\ \A q \in RunIDs \ {r} : runs'[q] = runs[q]
        /\ runs'[r].workspace = w /\ runs'[r].operator = TRUE
        /\ \A v \in WorkspaceIDs :
             /\ workspaces'[v].live = workspaces[v].live
             /\ workspaces'[v].deployed = workspaces[v].deployed
             /\ workspaces'[v].currentRun =
                  IF v = w /\ ActiveRunsOf(w) = {} THEN r ELSE workspaces[v].currentRun
    BY <2>1, CreatedRun
  <2>3. r # None
    BY TerraformCloudAssumption
  <2>4. ActiveRunsOf(w) # {} => workspaces[w].currentRun # None
    BY DEF DeployedInv, ActiveRunsOf, RunsOf
  <2>5. /\ \A v \in WorkspaceIDs : Empty(v)' = Empty(v) /\ Live(v)' = Live(v)
        /\ workspaces'[w].currentRun # None
        /\ \A v \in WorkspaceIDs \ {w} : workspaces'[v].currentRun = workspaces[v].currentRun
    BY <2>2, <2>3, <2>4 DEF Empty, Live
  <2>6. cr'.finalizer = cr.finalizer /\ cr'.status.workspaceID = cr.status.workspaceID
    BY <1>4 DEF Starts, ObjectSame, RecordSame
  <2> QED BY <1>0, <2>2, <2>5, <2>6 DEF DeployedInv
<1>5. CASE Continues
  <2>1. PICK r \in RunIDs : isPending(runs[r].status) /\ runs' = [runs EXCEPT ![r].status = "applying"]
    BY <1>5 DEF Continues
  <2>2. \A q \in RunIDs : isPending(runs'[q].status) =>
          /\ isPending(runs[q].status)
          /\ runs'[q].operator = runs[q].operator /\ runs'[q].workspace = runs[q].workspace
    BY <1>0, <2>1 DEF Run
  <2> QED BY <1>5, <2>2 DEF DeployedInv, Continues, ObjectSame, RecordSame, Empty, Live
<1>6. CASE Ends
  <2>1. PICK r \in RunIDs : isPending(runs[r].status) /\
               \E final : \E d : ~isPending(final) /\ RunEnds(r, final, d)
    BY <1>6 DEF Ends
  <2>2. PICK final : \E d : ~isPending(final) /\ RunEnds(r, final, d)
    BY <2>1
  <2>3. PICK d : ~isPending(final) /\ RunEnds(r, final, d)
    BY <2>2
  <2> DEFINE w == runs[r].workspace
  <2>4. /\ \A q \in RunIDs \ {r} : runs'[q] = runs[q]
        /\ ~isPending(runs'[r].status)
        /\ \A v \in WorkspaceIDs \ {w} : workspaces'[v] = workspaces[v]
        /\ w \in WorkspaceIDs /\ workspaces'[w].live = workspaces[w].live
        /\ workspaces'[w].currentRun \in {workspaces[w].currentRun} \cup RunIDs
    BY <2>1, <2>3, EndedRun
  <2>5. /\ Live(w) /\ cr.finalizer /\ w = cr.status.workspaceID
        /\ workspaces[w].currentRun # None
    BY <2>1 DEF HeldInv, RunsInv, DeployedInv
  <2>6. workspaces'[w].currentRun # None
    BY <2>4, <2>5, TerraformCloudAssumption
  <2>7. cr'.finalizer = cr.finalizer /\ cr'.status.workspaceID = cr.status.workspaceID
    BY <1>6 DEF Ends, ObjectSame, RecordSame
  <2> HIDE DEF w
  <2>8. \A q \in RunIDs : isPending(runs'[q].status) =>
          runs'[q] = runs[q] /\ runs[q].operator /\ workspaces'[runs[q].workspace].currentRun # None
    BY <1>0, <2>4, <2>6 DEF DeployedInv
  <2>9. \A v \in WorkspaceIDs : ~Empty(v)' =>
          workspaces'[v].live /\ v = cr.status.workspaceID /\ cr.finalizer
    BY <2>4, <2>5 DEF DeployedInv, Empty, Live
  <2>10. \A v \in WorkspaceIDs : workspaces'[v].currentRun = None => workspaces'[v].deployed = None
    BY <2>4, <2>6 DEF DeployedInv
  <2> QED BY <2>7, <2>8, <2>9, <2>10 DEF DeployedInv, Empty, Live
<1>7. CASE DeletesWorkspace
  <2>1. PICK w \in WorkspaceIDs : DeleteWorkspaceByID(w)
    BY <1>7 DEF DeletesWorkspace
  <2>2. /\ \A v \in WorkspaceIDs \ {w} : workspaces'[v] = workspaces[v]
        /\ workspaces'[w].deployed = None
    BY <1>0, <2>1 DEF DeleteWorkspaceByID, NoWorkspace
  <2>3. \A r \in RunIDs : isPending(runs'[r].status) =>
          runs'[r] = runs[r] /\ runs[r].workspace # w
    BY <1>0, <2>1 DEF DeleteWorkspaceByID, NoRun, isPending, PendingStatuses
  <2> QED BY <1>0, <1>7, <2>2, <2>3 DEF DeployedInv, DeletesWorkspace, ObjectSame, RecordSame, Empty, Live
<1>8. CASE Releases
  BY <1>8 DEF DeployedInv, Releases, RecordSame, Empty, Live
<1> QED BY <1>1, <1>2, <1>3, <1>4, <1>5, <1>6, <1>7, <1>8 DEF Effects

finalizerSteps ==
  {"ForceCancel", "DeleteResources", "createDestroyRun", "awaitDestroy", "DeleteWorkspace"}

LEMMA FinalizerElsewhere == pc' \notin finalizerSteps => FinalizerFacts'
BY DEF FinalizerFacts, finalizerSteps

LEMMA FinalizerQuiet ==
  ASSUME FinalizerFacts, CloudSame, UNCHANGED <<pc, instance, local>>
  PROVE  FinalizerFacts'
<1>1. \A w \in WorkspaceIDs : ActiveRunsOf(w)' = ActiveRunsOf(w) /\ Empty(w)' = Empty(w)
  BY DEF CloudSame, ActiveRunsOf, RunsOf, Empty
<1> QED BY <1>1 DEF FinalizerFacts, CloudSame

LEMMA FinalizerStarts ==
  ASSUME IInv, FinalizerFacts, UNCHANGED <<pc, instance, local, workspaces>>,
         NEW r \in RunIDs, runs[r].status = "pending",
         runs' = [runs EXCEPT ![r].status = "applying"]
  PROVE  FinalizerFacts'
<1>0. /\ \A q \in RunIDs \ {r} : runs'[q] = runs[q]
      /\ runs'[r].status = "applying"
      /\ runs'[r].workspace = runs[r].workspace /\ runs'[r].destroy = runs[r].destroy
      /\ \A q \in RunIDs : runs[q] \in Run
  BY DEF IInv, CloudInv, TerraformCloudTypeOK, Run
<1>1. \A q \in RunIDs :
        /\ isPending(runs'[q].status) <=> isPending(runs[q].status)
        /\ runs'[q].workspace = runs[q].workspace /\ runs'[q].destroy = runs[q].destroy
        /\ ~isPending(runs[q].status) => runs'[q].status = runs[q].status
        /\ isPending(runs[q].status) => runs'[q].status \in PendingStatuses
  BY <1>0 DEF isPending, PendingStatuses
<1>2. \A w \in WorkspaceIDs : ActiveRunsOf(w)' = ActiveRunsOf(w) /\ Empty(w)' = Empty(w)
  BY <1>1 DEF ActiveRunsOf, RunsOf, Empty
<1>3. ASSUME pc = "awaitDestroy", NEW w \in WorkspaceIDs, instance.status.workspaceID = w
      PROVE  /\ local.run \in RunIDs
             /\ isPending(runs'[local.run].status) =>
                  runs'[local.run].workspace = w /\ runs'[local.run].destroy
             /\ runs'[local.run].status \in
                  PendingStatuses \cup {"applied", "planned_and_finished", "errored"}
             /\ runs'[local.run].status \in {"applied", "planned_and_finished"} => Empty(w)
  <2>1. local.run \in RunIDs
    BY <1>3 DEF FinalizerFacts
  <2>2. CASE isPending(runs[local.run].status)
    BY <1>1, <1>3, <2>1, <2>2 DEF FinalizerFacts, PendingStatuses
  <2>3. CASE ~isPending(runs[local.run].status)
    BY <1>1, <1>3, <2>1, <2>3 DEF FinalizerFacts
  <2> QED BY <2>1, <2>2, <2>3
<1> QED BY <1>2, <1>3 DEF FinalizerFacts

\* A run that ends in the workspace that is finalized is the destroy run, once
\* there is one.
LEMMA FinalizerFinishes ==
  ASSUME Undisturbed, IInv, FinalizerFacts, UNCHANGED <<pc, instance, local>>,
         NEW r \in RunIDs, RunFinishes(r)
  PROVE  FinalizerFacts'
<1>1. isPending(runs[r].status)
  BY DEF RunFinishes, isPending, PendingStatuses
<1>2. PICK final \in Outcomes \cup {"planned_and_finished"} : \E d :
        /\ RunEnds(r, final, d)
        /\ runs[r].destroy /\ final \in {"applied", "planned_and_finished"} => d \in {None, Destroyed}
  BY RunFinishesStatus
<1>3. PICK d :
        /\ RunEnds(r, final, d)
        /\ runs[r].destroy /\ final \in {"applied", "planned_and_finished"} => d \in {None, Destroyed}
  BY <1>2
<1>9. final \in {"applied", "planned_and_finished", "errored"} /\ ~isPending(final)
  BY DEF Undisturbed, isPending, PendingStatuses
<1>10. RunEnds(r, final, d)
  BY <1>3
<1>4. /\ \A q \in RunIDs \ {r} : runs'[q] = runs[q]
      /\ runs'[r].status = final
      /\ \A v \in WorkspaceIDs \ {runs[r].workspace} : workspaces'[v] = workspaces[v]
      /\ runs[r].workspace \in WorkspaceIDs => workspaces'[runs[r].workspace].deployed = d
  BY <1>1, <1>9, <1>10, EndedRun
<1>5. \A w \in WorkspaceIDs : ActiveRunsOf(w)' \subseteq ActiveRunsOf(w) \ {r}
  BY <1>4, <1>9 DEF ActiveRunsOf, RunsOf
<1>6. \A w \in WorkspaceIDs : r \in ActiveRunsOf(w) \/ Empty(w)' = Empty(w)
  BY <1>1, <1>4 DEF ActiveRunsOf, RunsOf, Empty
<1>7. ASSUME pc = "awaitDestroy", NEW w \in WorkspaceIDs, instance.status.workspaceID = w
      PROVE  /\ local.run \in RunIDs
             /\ isPending(runs'[local.run].status) =>
                  runs'[local.run].workspace = w /\ runs'[local.run].destroy
             /\ runs'[local.run].status \in
                  PendingStatuses \cup {"applied", "planned_and_finished", "errored"}
             /\ runs'[local.run].status \in {"applied", "planned_and_finished"} => Empty(w)'
  <2>1. local.run \in RunIDs /\ ActiveRunsOf(w) \subseteq {local.run}
    BY <1>7 DEF FinalizerFacts
  <2>2. CASE r # local.run
    BY <1>4, <1>6, <1>7, <2>1, <2>2 DEF FinalizerFacts
  <2>3. CASE r = local.run
    <3>1. runs[r].workspace = w /\ runs[r].destroy
      BY <1>1, <1>7, <2>3 DEF FinalizerFacts
    <3> QED BY <1>3, <1>4, <1>9, <2>1, <2>3, <3>1 DEF Empty
  <2> QED BY <2>2, <2>3
<1>8. ASSUME NEW w \in WorkspaceIDs, instance.status.workspaceID = w
      PROVE  /\ pc = "ForceCancel" => ActiveRunsOf(w)' \subseteq local.toCancel
             /\ pc \in {"DeleteResources", "createDestroyRun"} => ActiveRunsOf(w)' = {}
             /\ pc = "awaitDestroy" => ActiveRunsOf(w)' \subseteq {local.run}
             /\ pc = "DeleteWorkspace" => ActiveRunsOf(w)' = {} /\ Empty(w)'
  BY <1>5, <1>6, <1>8 DEF FinalizerFacts
<1> QED BY <1>7, <1>8 DEF FinalizerFacts

LEMMA FinalizerEnvironment ==
  Undisturbed /\ IInv /\ FinalizerFacts /\ (TerraformCloudStep \/ KubernetesStep)
    => FinalizerFacts'
<1> SUFFICES ASSUME Undisturbed, IInv, FinalizerFacts, TerraformCloudStep \/ KubernetesStep
             PROVE  FinalizerFacts'
  OBVIOUS
<1>1. UNCHANGED <<pc, instance, local>>
  BY DEF TerraformCloudStep, KubernetesStep, operatorVars
<1>2. CASE \E r \in RunIDs : RunProgress(r)
  BY <1>1, <1>2, FinalizerStarts, FinalizerFinishes DEF RunProgress, RunStarts
<1>3. CASE UNCHANGED <<workspaces, runs>>
  BY <1>1, <1>3, FinalizerQuiet DEF CloudSame, Live
<1>4. ASSUME NEW w, NEW x, UNCHANGED runs,
             \/ workspaces' = [workspaces EXCEPT ![w] = [workspaces[w] EXCEPT !.value = x]]
             \/ workspaces' = [workspaces EXCEPT ![w] = [workspaces[w] EXCEPT !.template = x]]
      PROVE  FinalizerFacts'
  <2>1. workspaces \in [WorkspaceIDs -> Workspace]
    BY DEF IInv, CloudInv, TerraformCloudTypeOK
  <2>2. w \in WorkspaceIDs => workspaces[w] \in Workspace
    BY <2>1
  <2>3. \A v \in WorkspaceIDs : /\ workspaces'[v].live = workspaces[v].live
                                /\ workspaces'[v].currentRun = workspaces[v].currentRun
                                /\ workspaces'[v].deployed = workspaces[v].deployed
    BY <1>4, <2>1, <2>2 DEF Workspace
  <2> QED BY <1>1, <1>4, <2>3, FinalizerQuiet DEF CloudSame, Live
<1>5. CASE KubernetesStep
  BY <1>3, <1>5 DEF KubernetesStep, tfcVars
<1>6. ASSUME NEW c \in ConfigVersionIDs, ConfigVersionProcessed(c)
      PROVE  FinalizerFacts'
  <2>1. \/ UNCHANGED workspaces
        \/ workspaces' = [workspaces EXCEPT ![configVersions[c].workspace] =
             [workspaces[configVersions[c].workspace] EXCEPT !.template = configVersions[c].template]]
    BY <1>6 DEF ConfigVersionProcessed
  <2>2. UNCHANGED runs
    BY <1>6 DEF ConfigVersionProcessed
  <2> QED BY <1>3, <1>4, <2>1, <2>2
<1>7. ASSUME NEW w \in WorkspaceIDs, VCSIngress(w) \/ UserIntervenes(w, FreeRuns)
      PROVE  FinalizerFacts'
  BY <1>4, <1>7 DEF VCSIngress, UserIntervenes, Undisturbed
<1> QED BY <1>2, <1>5, <1>6, <1>7 DEF TerraformCloudStep

LEMMA FinalizerOperator ==
  Undisturbed /\ IInv /\ DeployedInv /\ FinalizerFacts /\ condDeleteSteps => FinalizerFacts'
<1> SUFFICES ASSUME Undisturbed, IInv, DeployedInv, FinalizerFacts, condDeleteSteps
             PROVE  FinalizerFacts'
  OBVIOUS
<1>1. CASE pc' \notin finalizerSteps
  BY <1>1, FinalizerElsewhere
<1>2. CASE \/ CondDeleteWorkspace \/ FinalizeWorkspace \/ DeleteWorkspace \/ RemoveFinalizer
           \/ Return
  BY <1>1, <1>2 DEF CondDeleteWorkspace, FinalizeWorkspace, DeleteWorkspace, RemoveFinalizer,
     Goto, Return, finalizerSteps
<1>3. CASE DeleteRuns /\ ~Return
  <2>1. /\ local' = [local EXCEPT !.toCancel = ActiveRunsOf(status.workspaceID)]
        /\ Goto("ForceCancel") /\ UNCHANGED <<runs, workspaces>>
    BY <1>3 DEF DeleteRuns, tfcVars
  <2>2. local'.toCancel = ActiveRunsOf(status.workspaceID) /\ instance' = instance /\ pc' = "ForceCancel"
    BY <2>1 DEF Goto, IInv, OperatorInv, OperatorTypeOK, Locals
  <2> QED BY <2>1, <2>2 DEF FinalizerFacts, ActiveRunsOf, RunsOf, status
<1>4. CASE ForceCancel /\ ~Return
  <2>1. CASE local.toCancel = {} /\ Goto("DeleteResources") /\ UNCHANGED <<local, runs, workspaces>>
    BY <1>4, <2>1 DEF FinalizerFacts, ForceCancel, Goto, ActiveRunsOf, RunsOf
  <2>2. ASSUME NEW r \in local.toCancel, isPending(runs[r].status), CancelRun(r),
               local' = [local EXCEPT !.toCancel = local.toCancel \ {r}], Goto("ForceCancel")
        PROVE  FinalizerFacts'
    <3>1. local'.toCancel = local.toCancel \ {r} /\ r \in RunIDs
      BY <2>2 DEF IInv, OperatorInv, OperatorTypeOK, Locals
    <3>2. PICK d : RunEnds(r, "canceled", d)
      BY <2>2 DEF CancelRun
    <3>5. ~isPending("canceled")
      BY DEF isPending, PendingStatuses
    <3>3. /\ \A q \in RunIDs \ {r} : runs'[q] = runs[q]
          /\ ~isPending(runs'[r].status)
      BY <2>2, <3>1, <3>2, <3>5, EndedRun
    <3>4. \A w \in WorkspaceIDs : ActiveRunsOf(w)' \subseteq ActiveRunsOf(w) \ {r}
      BY <3>3 DEF ActiveRunsOf, RunsOf
    <3> QED BY <1>4, <2>2, <3>1, <3>4 DEF FinalizerFacts, ForceCancel, Goto
  <2> QED BY <1>4, <2>1, <2>2 DEF ForceCancel
<1>5. CASE DeleteResources /\ ~Return
  <2>1. /\ Goto(IF workspaces[status.workspaceID].currentRun = None THEN "DeleteWorkspace"
                                                                 ELSE "createDestroyRun")
        /\ UNCHANGED <<runs, workspaces, local>> /\ pc = "DeleteResources"
    BY <1>5 DEF DeleteResources, tfcVars
  <2>2. \A w \in WorkspaceIDs : ActiveRunsOf(w)' = ActiveRunsOf(w) /\ Empty(w)' = Empty(w)
    BY <2>1 DEF ActiveRunsOf, RunsOf, Empty
  <2>3. \A w \in WorkspaceIDs : workspaces[w].currentRun = None => Empty(w)
    BY DEF DeployedInv, Empty
  <2> QED BY <2>1, <2>2, <2>3 DEF FinalizerFacts, Goto, status
<1>6. CASE CreateDestroyRun /\ ~Return
  <2>1. PICK r \in FreeRuns : /\ CreateRun(r, status.workspaceID, TRUE, TRUE)
                              /\ local' = [local EXCEPT !.run = r]
                              /\ Goto("awaitDestroy")
    BY <1>6 DEF CreateDestroyRun
  <2>2. /\ r \in RunIDs /\ local'.run = r /\ pc = "createDestroyRun"
        /\ instance' = instance /\ pc' = "awaitDestroy"
    BY <1>6, <2>1 DEF CreateDestroyRun, FreeRuns, Goto, IInv, OperatorInv, OperatorTypeOK, Locals
  <2>3. status.workspaceID \in WorkspaceIDs
    BY <2>2, InstanceType DEF BeforeWorkspaceID
  <2>4. /\ \A q \in RunIDs \ {r} : runs'[q] = runs[q]
        /\ runs'[r].status = "pending" /\ runs'[r].workspace = status.workspaceID
        /\ runs'[r].destroy = TRUE
    BY <2>1, <2>2, <2>3, CreatedRun
  <2>5. ActiveRunsOf(status.workspaceID) = {}
    BY <2>2, <2>3 DEF FinalizerFacts, status
  <2>6. \A w \in WorkspaceIDs : ActiveRunsOf(w)' \subseteq ActiveRunsOf(w) \cup {r}
    BY <2>4 DEF ActiveRunsOf, RunsOf
  <2> QED BY <2>2, <2>3, <2>4, <2>5, <2>6 DEF FinalizerFacts, status, PendingStatuses
<1>7. CASE AwaitDestroy /\ ~Return
  <2>1. /\ pc = "awaitDestroy" /\ pc' = "DeleteWorkspace" /\ UNCHANGED <<instance, runs, workspaces>>
        /\ ~isPending(runs[local.run].status) /\ runs[local.run].status # "errored"
    BY <1>7 DEF AwaitDestroy, Goto, tfcVars
  <2>2. ASSUME NEW w \in WorkspaceIDs, instance.status.workspaceID = w
        PROVE  ActiveRunsOf(w)' = {} /\ Empty(w)'
    <3>1. Empty(w) /\ ActiveRunsOf(w) \subseteq {local.run}
      BY <2>1, <2>2 DEF FinalizerFacts, isPending
    <3>2. local.run \notin ActiveRunsOf(w)
      BY <2>1 DEF ActiveRunsOf, RunsOf
    <3>3. ActiveRunsOf(w)' = ActiveRunsOf(w) /\ Empty(w)' = Empty(w)
      BY <2>1 DEF ActiveRunsOf, RunsOf, Empty
    <3> QED BY <3>1, <3>2, <3>3
  <2> QED BY <2>1, <2>2 DEF FinalizerFacts
<1> QED BY <1>2, <1>3, <1>4, <1>5, <1>6, <1>7 DEF condDeleteSteps

LEMMA ResourcesNext ==
  Attentive /\ Undisturbed /\ IInv /\ IInv' /\ HeldInv /\ ResourcesInv /\ [Next]_vars
    => ResourcesInv'
<1> SUFFICES ASSUME Attentive, Undisturbed, IInv, IInv', HeldInv, ResourcesInv, [Next]_vars
             PROVE  ResourcesInv'
  OBVIOUS
<1>1. DeployedInv'
  BY StepEffects, DeployedNext DEF ResourcesInv
<1>2. CASE pc' \notin finalizerSteps
  BY <1>1, <1>2, FinalizerElsewhere DEF ResourcesInv
<1>3. UNCHANGED vars => ResourcesInv'
  BY <1>1, FinalizerQuiet DEF ResourcesInv, vars, tfcVars, operatorVars, CloudSame, Live
<1>4. InitializeReconciliation \/ Abort \/ reconcileSteps \/ startRunSteps
        => pc' \notin finalizerSteps
  BY DEF InitializeReconciliation, Abort, reconcileSteps, startRunSteps, CheckWorkspace,
     RecordWorkspaceID, RecordRunID, AddFinalizer, RunInProgress, RecordRunStatus,
     ProcessFinishedRun, RecordOutputs, UpsertSecretOutputs, UpdateTerraformTemplate,
     UpsertTerraformConfig, UpdateVariables, UpdateRunTriggers, StartRun, prepareVCSRun,
     prepareModuleRun, CreateConfigurationVersion, UploadConfigurationFile, RecordConfigVersion,
     ReadConfigVersion, ResetConfigVersion, CreateApplyRun, RecordRun, Goto, Return, Update,
     finalizerSteps
<1>5. condDeleteSteps => pc # "idle"
  BY DEF condDeleteSteps, CondDeleteWorkspace, FinalizeWorkspace, DeleteRuns, ForceCancel,
     DeleteResources, CreateDestroyRun, AwaitDestroy, DeleteWorkspace, RemoveFinalizer
<1>6. TerraformCloudStep \/ KubernetesStep => UNCHANGED pc
  BY DEF TerraformCloudStep, KubernetesStep, operatorVars
<1> QED
  BY <1>1, <1>2, <1>3, <1>4, <1>5, <1>6, FinalizerEnvironment, FinalizerOperator
     DEF ResourcesInv, Next, Reconcile, InstanceGone

LEMMA ResourcesInit == Init => ResourcesInv
<1> SUFFICES ASSUME Init PROVE ResourcesInv
  OBVIOUS
<1>1. /\ pc = "idle" /\ workspaces = [w \in WorkspaceIDs |-> NoWorkspace]
      /\ runs = [r \in RunIDs |-> NoRun]
  BY DEF Init, TerraformCloudInit
<1>2. /\ \A w \in WorkspaceIDs : workspaces[w].deployed = None
      /\ \A r \in RunIDs : ~isPending(runs[r].status)
  BY <1>1 DEF NoWorkspace, NoRun, isPending, PendingStatuses
<1> QED BY <1>1, <1>2 DEF ResourcesInv, DeployedInv, Empty

LEMMA ResourcesInvariance ==
  ASSUME Attentive, Undisturbed PROVE Spec => []ResourcesInv
BY ResourcesInit, ResourcesNext, Invariance, HeldInvariance, PTL DEF Spec

(***************************************************************************)
(* The theorems.                                                           *)
(***************************************************************************)
\* Nothing that the runs of a Workspace created outlives it, and no run: the
\* finalizer is removed only after the workspace is gone, the workspace is
\* deleted only after a destroy run that succeeded, and the runs before it are
\* cancelled.
THEOREM NothingLeaks ==
  ASSUME Attentive, Undisturbed PROVE Spec => []NoLeakedResources
<1>1. IInv /\ HeldInv /\ ResourcesInv => NoLeakedResources
  <2> SUFFICES ASSUME HeldInv, ResourcesInv, cr.phase = "gone", NEW w \in WorkspaceIDs
               PROVE  workspaces[w].deployed \in {None, Destroyed} /\ ActiveRunsOf(w) = {}
    BY DEF NoLeakedResources
  <2>1. ~cr.finalizer
    BY DEF HeldInv, CopiesInv, HeldBack
  <2>2. Empty(w)
    BY <2>1 DEF ResourcesInv, DeployedInv
  <2>3. \A r \in RunIDs : ~isPending(runs[r].status)
    BY <2>1 DEF ResourcesInv, DeployedInv, HeldInv, RunsInv
  <2> QED BY <2>2, <2>3 DEF Empty, ActiveRunsOf, RunsOf
<1> QED BY <1>1, Invariance, HeldInvariance, ResourcesInvariance, PTL

\* A live workspace is deleted only when it is empty.
LEMMA DeletedEmpty ==
  ASSUME Attentive, Undisturbed, IInv, IInv', HeldInv, ResourcesInv, [Next]_vars,
         NEW w \in WorkspaceIDs, workspaces[w].live, ~workspaces'[w].live
  PROVE  Empty(w)
<1>1. workspaces \in [WorkspaceIDs -> Workspace]
  BY DEF IInv, CloudInv, TerraformCloudTypeOK
<1>2. CASE DeletesWorkspace
  <2>1. pc = "DeleteWorkspace" /\ status.workspaceID \in WorkspaceIDs
           /\ DeleteWorkspaceByID(status.workspaceID)
    BY <1>2 DEF DeletesWorkspace
  <2>2. Empty(status.workspaceID)
    BY <2>1 DEF ResourcesInv, FinalizerFacts, status
  <2>3. w = status.workspaceID
    BY <1>1, <2>1 DEF DeleteWorkspaceByID
  <2> QED BY <2>2, <2>3
<1>3. CASE Starts
  <2>1. PICK r \in FreeRuns, v \in WorkspaceIDs : \E destroy \in BOOLEAN :
               CreateRun(r, v, destroy, TRUE)
    BY <1>3 DEF Starts
  <2> QED BY <2>1, CreatedRun DEF FreeRuns
<1>4. CASE Ends
  <2>1. PICK r \in RunIDs : isPending(runs[r].status) /\
               \E final : \E d : RunEnds(r, final, d)
    BY <1>4 DEF Ends
  <2> QED BY <2>1, EndedRun
<1>5. Effects
  BY StepEffects
<1> QED
  BY <1>2, <1>3, <1>4, <1>5
     DEF Effects, Nothing, CloudSame, Creates, Records, Holds, Continues, Deletes, Releases, Live

\* DeleteResources comes before DeleteWorkspace, and its errors end the
\* reconcile: no state is lost that infrastructure is known by.
THEOREM DestroyedFirst ==
  ASSUME Attentive, Undisturbed PROVE Spec => DestroyBeforeDelete
<1>1. IInv /\ IInv' /\ HeldInv /\ ResourcesInv /\ [Next]_vars
        => [\A w \in WorkspaceIDs :
              workspaces[w].live /\ ~workspaces'[w].live
                => workspaces[w].deployed \in {None, Destroyed}]_vars
  BY DeletedEmpty DEF Empty
<1> QED BY <1>1, Invariance, HeldInvariance, ResourcesInvariance, PTL DEF Spec, DestroyBeforeDelete

LEMMA LifecycleStep ==
  Attentive /\ Undisturbed /\ IInv /\ IInv' /\ HeldInv /\ ResourcesInv /\ ResourcesInv'
    /\ [Next]_vars => [Lifecycle!Next]_Lifecycle!vars
<1> SUFFICES ASSUME Attentive, Undisturbed, IInv, IInv', HeldInv, ResourcesInv,
                    ResourcesInv', [Next]_vars
             PROVE  Lifecycle!Next \/ UNCHANGED Lifecycle!vars
  BY DEF Lifecycle!vars
<1>0. /\ workspaces \in [WorkspaceIDs -> Workspace] /\ runs \in [RunIDs -> Run]
      /\ \A r \in RunIDs : isPending(runs[r].status) =>
           runs[r].workspace \in WorkspaceIDs /\ runs[r].operator /\ cr.finalizer
  BY DEF IInv, CloudInv, TerraformCloudTypeOK, HeldInv, RunsInv, ResourcesInv, DeployedInv
<1>1. Attended = {r \in RunIDs : isPending(runs[r].status)}
        /\ Attended' = {r \in RunIDs : isPending(runs'[r].status)}
  <2>1. \A r \in RunIDs : isPending(runs'[r].status) => runs'[r].operator
    BY DEF ResourcesInv, DeployedInv
  <2> QED BY <1>0, <2>1 DEF Attended
<1>2. HasResources <=> \E w \in WorkspaceIDs : ~Empty(w)
  BY DEF HasResources, Empty
<1>3. HasResources' <=> \E w \in WorkspaceIDs : ~Empty(w)'
  BY DEF HasResources, Empty
<1>4. ASSUME ObjectSame, RecordSame, Attended' = Attended,
             \A w \in WorkspaceIDs : Empty(w)' <=> Empty(w)
      PROVE  UNCHANGED Lifecycle!vars
  <2>1. HasResources' = HasResources
    BY <1>2, <1>3, <1>4 DEF HasResources
  <2> QED BY <1>4, <2>1 DEF Lifecycle!vars, ObjectSame, RecordSame
<1>5. UNCHANGED <<workspaces, runs>> => Attended' = Attended /\ HasResources' = HasResources
  BY <1>1 DEF HasResources
<1>6. CASE Nothing
  BY <1>1, <1>4, <1>6 DEF Nothing, CloudSame, Empty
<1>7. CASE Creates
  <2>1. \A w \in WorkspaceIDs : ~Live(w) => Empty(w)
    BY DEF ResourcesInv, DeployedInv
  <2> QED BY <1>1, <1>4, <1>7, <2>1 DEF Creates, Empty
<1>8. CASE Records
  <2>1. Lifecycle!Record(cr'.status.workspaceID)
    BY <1>5, <1>8 DEF Records, ObjectSame, Lifecycle!Record
  <2> QED BY <1>8, <2>1 DEF Records, Lifecycle!Next
<1>9. CASE Holds
  <2>1. cr.status.workspaceID # None
    BY <1>9 DEF Holds, RecordSame, IInv, ObjectsInv, WellFormed
  <2>2. Lifecycle!Hold
    BY <1>5, <1>9, <2>1 DEF Holds, RecordSame, Lifecycle!Hold
  <2> QED BY <2>2 DEF Lifecycle!Next
<1>10. CASE Starts
  <2>1. PICK r \in RunIDs, w \in WorkspaceIDs : \E destroy \in BOOLEAN :
               CreateRun(r, w, destroy, TRUE)
    BY <1>10 DEF Starts, FreeRuns
  <2>2. /\ \A q \in RunIDs \ {r} : runs'[q] = runs[q]
        /\ isPending(runs'[r].status)
        /\ \A v \in WorkspaceIDs : Empty(v)' <=> Empty(v)
    BY <2>1, CreatedRun DEF isPending, PendingStatuses, Empty
  <2>3. Attended' = Attended \cup {r}
    BY <1>1, <2>2
  <2>4. HasResources' = HasResources
    BY <1>2, <1>3, <2>2 DEF HasResources
  <2>5. Lifecycle!Start(r)
    BY <1>10, <2>3, <2>4 DEF Starts, ObjectSame, RecordSame, Lifecycle!Start
  <2> QED BY <2>5 DEF Lifecycle!Next
<1>11. CASE Continues
  <2>1. PICK r \in RunIDs : isPending(runs[r].status) /\ runs' = [runs EXCEPT ![r].status = "applying"]
    BY <1>11 DEF Continues
  <2>2. /\ \A q \in RunIDs \ {r} : runs'[q] = runs[q]
        /\ runs'[r].status = "applying"
    BY <1>0, <2>1 DEF Run
  <2>3. Attended' = Attended
    BY <1>1, <2>1, <2>2 DEF isPending, PendingStatuses
  <2> QED BY <1>4, <1>11, <2>3 DEF Continues, Empty
<1>12. CASE Ends
  <2>1. PICK r \in RunIDs : isPending(runs[r].status) /\
               \E final : \E d : ~isPending(final) /\ RunEnds(r, final, d)
    BY <1>12 DEF Ends
  <2>2. /\ \A q \in RunIDs \ {r} : runs'[q] = runs[q]
        /\ ~isPending(runs'[r].status)
    BY <2>1, EndedRun
  <2>3. r \in Attended /\ Attended' = Attended \ {r}
    BY <1>1, <2>1, <2>2
  <2>4. Lifecycle!End({r})
    BY <1>12, <2>3 DEF Ends, ObjectSame, RecordSame, Lifecycle!End, HasResources
  <2> QED BY <2>3, <2>4 DEF Lifecycle!Next
<1>13. CASE DeletesWorkspace
  <2> DEFINE w == status.workspaceID
  <2>1. w \in WorkspaceIDs /\ DeleteWorkspaceByID(w) /\ ActiveRunsOf(w) = {} /\ Empty(w)
    BY <1>13 DEF DeletesWorkspace, ResourcesInv, FinalizerFacts, status
  <2>2. /\ \A v \in WorkspaceIDs \ {w} : workspaces'[v] = workspaces[v]
        /\ workspaces'[w].deployed = None
    BY <1>0, <2>1 DEF DeleteWorkspaceByID, NoWorkspace
  <2>3. \A v \in WorkspaceIDs : Empty(v)' <=> Empty(v)
    BY <2>1, <2>2 DEF Empty
  <2>4. \A r \in RunIDs : isPending(runs'[r].status) <=> isPending(runs[r].status)
    <3>1. \A r \in RunIDs : runs[r].workspace = w =>
            ~isPending(runs[r].status) /\ runs'[r] = NoRun
      BY <2>1 DEF DeleteWorkspaceByID, ActiveRunsOf, RunsOf
    <3>2. \A r \in RunIDs : runs[r].workspace # w => runs'[r] = runs[r]
      BY <2>1 DEF DeleteWorkspaceByID
    <3>3. ~isPending(NoRun.status)
      BY DEF NoRun, isPending, PendingStatuses
    <3>4. ASSUME NEW r \in RunIDs
          PROVE  isPending(runs'[r].status) <=> isPending(runs[r].status)
      BY <3>1, <3>2, <3>3
    <3> QED BY <3>4
  <2>5. Attended' = Attended
    BY <1>1, <2>4
  <2> QED BY <1>4, <1>13, <2>3, <2>5 DEF DeletesWorkspace
<1>14. CASE Deletes
  <2>1. Lifecycle!Delete
    BY <1>5, <1>14 DEF Deletes, RecordSame, Lifecycle!Delete
  <2> QED BY <2>1 DEF Lifecycle!Next
<1>15. CASE Releases
  <2>1. \A w \in WorkspaceIDs : ~Live(w) \/ w # cr.status.workspaceID
    BY <1>15 DEF Releases
  <2>2. Attended = {}
    BY <1>1, <2>1 DEF HeldInv, RunsInv, ResourcesInv, DeployedInv
  <2>3. ~HasResources
    BY <1>2, <2>1 DEF ResourcesInv, DeployedInv
  <2>4. Lifecycle!Release
    BY <1>5, <1>15, <2>2, <2>3 DEF Releases, RecordSame, Lifecycle!Release
  <2> QED BY <2>4 DEF Lifecycle!Next
<1> QED
  BY <1>6, <1>7, <1>8, <1>9, <1>10, <1>11, <1>12, <1>13, <1>14, <1>15, StepEffects DEF Effects

\* The operator implements the life of a Workspace that WorkspaceLifecycle
\* states: it records a workspace, takes the finalizer, runs, and lets go of the
\* Workspace when no run and no infrastructure is left.
THEOREM Implementation ==
  ASSUME Attentive, Undisturbed PROVE Spec => ImplementsLifecycle
<1>1. Init => Lifecycle!Init
  <2> SUFFICES ASSUME Init PROVE Lifecycle!Init
    OBVIOUS
  <2>0. cr \in [phase: {"active"}, spec: Specs, finalizer: {FALSE}, status: {BlankStatus}]
    BY DEF Init, KubernetesApiInit
  <2>1. cr.phase = "active" /\ cr.finalizer \in {FALSE} /\ cr.status = BlankStatus
    BY <2>0
  <2>4. BlankStatus.workspaceID = None
    BY DEF BlankStatus
  <2>5. workspaces = [w \in WorkspaceIDs |-> NoWorkspace] /\ runs = [r \in RunIDs |-> NoRun]
    BY DEF Init, TerraformCloudInit
  <2>2. Attended = {}
    BY <2>5 DEF Attended, NoRun, isPending, PendingStatuses
  <2>3. HasResources = FALSE
    BY <2>5 DEF HasResources, NoWorkspace
  <2> QED BY <2>1, <2>2, <2>3, <2>4 DEF Lifecycle!Init
<1> QED
  BY <1>1, LifecycleStep, Invariance, HeldInvariance, ResourcesInvariance, PTL
     DEF Spec, ImplementsLifecycle, Lifecycle!Spec

\* What the abstract specification promises, and with Implementation the
\* operator: whatever runs or exists is under the finalizer, and the finalizer
\* keeps a Workspace that names its workspace.
THEOREM AbstractSafety == Lifecycle!Spec => []Lifecycle!HeldWhileInUse
<1>1. Lifecycle!Init => Lifecycle!HeldWhileInUse
  BY DEF Lifecycle!Init, Lifecycle!HeldWhileInUse
<1>2. Lifecycle!HeldWhileInUse /\ [Lifecycle!Next]_Lifecycle!vars => Lifecycle!HeldWhileInUse'
  BY TerraformCloudAssumption
     DEF Lifecycle!HeldWhileInUse, Lifecycle!Next, Lifecycle!vars, Lifecycle!Record,
         Lifecycle!Hold, Lifecycle!Start, Lifecycle!End, Lifecycle!Delete, Lifecycle!Release
<1> QED BY <1>1, <1>2, PTL DEF Lifecycle!Spec

=============================================================================
