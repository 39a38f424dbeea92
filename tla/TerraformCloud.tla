--------------------------- MODULE TerraformCloud ---------------------------
(***************************************************************************)
(* Terraform Cloud (or Enterprise), as far as the operator can observe it  *)
(* through go-tfe: workspaces, their configuration versions, their queue   *)
(* of runs and the state a run leaves behind.  None of this is code of the *)
(* operator.  The module is the environment the operator's calls meet, and *)
(* it is modelled from the way workspacehelper/tfc_*.go uses the client.   *)
(*                                                                         *)
(* A configuration is what a run applies: the Terraform template of the    *)
(* workspace's latest configuration version and the value of its variable. *)
(* A run that is planning, waiting for an agent or applying is "applying"; *)
(* one that waits in the workspace's queue is "pending".                   *)
(***************************************************************************)
EXTENDS Naturals

CONSTANTS
  None,              \* a nil pointer, an empty ID, a missing object
  Destroyed,         \* the state a destroy run leaves: it exists and is empty
  Organizations,
  WorkspaceIDs,
  RunIDs,
  ConfigVersionIDs,
  Templates,         \* contents of main.tf
  Values,            \* values of the workspace's non-sensitive variable
  Triggers,          \* source workspaces of run triggers
  Outcomes,          \* the final statuses a run with something to do may reach
  UploadOutcomes,    \* the final statuses of a configuration version
  OutOfBand,         \* what users do in Terraform Cloud behind the operator
  MaxOutOfBand       \* bound: how often they do it

ASSUME TerraformCloudAssumption ==
  /\ None \notin Organizations \cup WorkspaceIDs \cup RunIDs
                   \cup ConfigVersionIDs \cup Templates \cup Values \cup Triggers
  /\ Outcomes \subseteq {"applied", "errored", "canceled", "discarded"}
  /\ UploadOutcomes \subseteq {"uploaded", "errored"}
  /\ OutOfBand \subseteq {"run", "delete", "variable"}
  /\ MaxOutOfBand \in Nat

VARIABLES
  workspaces,        \* [WorkspaceIDs -> Workspace]
  runs,              \* [RunIDs -> Run]
  configVersions,    \* [ConfigVersionIDs -> ConfigVersion]
  outOfBand          \* number of interventions so far

tfcVars == <<workspaces, runs, configVersions, outOfBand>>

Configs == [template: Templates \cup {None}, value: Values \cup {None}]

\* deployed: the configuration of the current state version, None when the
\* workspace has no state version yet.
Workspace ==
  [live: BOOLEAN, organization: Organizations \cup {None},
   vcs: BOOLEAN, currentRun: RunIDs \cup {None},
   template: Templates \cup {None}, value: Values \cup {None},
   trigger: Triggers \cup {None}, deployed: Configs \cup {None, Destroyed}]

NoWorkspace ==
  [live |-> FALSE, organization |-> None, vcs |-> FALSE, currentRun |-> None,
   template |-> None, value |-> None, trigger |-> None, deployed |-> None]

PendingStatuses == {"pending", "applying"}

FinalStatuses ==
  {"applied", "planned_and_finished", "errored", "canceled", "discarded"}

\* The status "" is that of a run that does not exist.
Run ==
  [status: PendingStatuses \cup FinalStatuses \cup {""},
   workspace: WorkspaceIDs \cup {None}, config: Configs \cup {None},
   destroy: BOOLEAN, operator: BOOLEAN]

NoRun ==
  [status |-> "", workspace |-> None, config |-> None,
   destroy |-> FALSE, operator |-> FALSE]

\* latest: no newer archive has been uploaded to the workspace.
ConfigVersion ==
  [status: {"", "pending", "uploaded", "errored"},
   workspace: WorkspaceIDs \cup {None}, template: Templates \cup {None},
   latest: BOOLEAN]

NoConfigVersion ==
  [status |-> "", workspace |-> None, template |-> None, latest |-> FALSE]

TerraformCloudTypeOK ==
  /\ workspaces \in [WorkspaceIDs -> Workspace]
  /\ runs \in [RunIDs -> Run]
  /\ configVersions \in [ConfigVersionIDs -> ConfigVersion]
  /\ outOfBand \in 0 .. MaxOutOfBand

TerraformCloudInit ==
  /\ workspaces = [w \in WorkspaceIDs |-> NoWorkspace]
  /\ runs = [r \in RunIDs |-> NoRun]
  /\ configVersions = [c \in ConfigVersionIDs |-> NoConfigVersion]
  /\ outOfBand = 0

\* The run statuses on which the operator keeps waiting.
isPending(status) == status \in PendingStatuses

\* The workspaces an organization has under the CR's name: at most one, names
\* are unique in an organization.
WorkspacesNamed(organization) ==
  {w \in WorkspaceIDs :
     workspaces[w].live /\ workspaces[w].organization = organization}

RunsOf(w) == {r \in RunIDs : runs[r].workspace = w}

ActiveRunsOf(w) == {r \in RunsOf(w) : isPending(runs[r].status)}

(***************************************************************************)
(* Calls.  The caller has checked that the workspace is live.              *)
(***************************************************************************)
CreateWorkspace(w, organization, vcs) ==
  workspaces' = [workspaces EXCEPT ![w] =
    [NoWorkspace EXCEPT !.live = TRUE, !.organization = organization, !.vcs = vcs]]

\* Deleting a workspace deletes its runs and configuration versions; its real
\* resources stay where they are.
DeleteWorkspaceByID(w) ==
  /\ workspaces' = [workspaces EXCEPT ![w] = NoWorkspace]
  /\ runs' = [r \in RunIDs |-> IF runs[r].workspace = w THEN NoRun ELSE runs[r]]
  /\ configVersions' =
       [c \in ConfigVersionIDs |->
          IF configVersions[c].workspace = w THEN NoConfigVersion
                                             ELSE configVersions[c]]

CreateConfigVersion(c, w) ==
  configVersions' = [configVersions EXCEPT ![c] =
    [NoConfigVersion EXCEPT !.status = "pending", !.workspace = w]]

UploadConfigVersion(c, template) ==
  configVersions' = [d \in ConfigVersionIDs |->
    IF d = c THEN [configVersions[c] EXCEPT !.template = template, !.latest = TRUE]
    ELSE IF configVersions[d].workspace = configVersions[c].workspace
           THEN [configVersions[d] EXCEPT !.latest = FALSE]
    ELSE configVersions[d]]

\* A run without a configuration version uses the workspace's latest one.  It
\* becomes the current run unless another run is still active.
CreateRun(r, w, destroy, operator) ==
  /\ runs' = [runs EXCEPT ![r] =
       [status |-> "pending", workspace |-> w,
        config |-> [template |-> workspaces[w].template,
                    value |-> workspaces[w].value],
        destroy |-> destroy, operator |-> operator]]
  /\ workspaces' = IF ActiveRunsOf(w) = {}
                     THEN [workspaces EXCEPT ![w].currentRun = r]
                     ELSE workspaces

\* Run r leaves the queue with a final status; a run that was waiting behind it
\* becomes the current one.
RunEnds(r, status, deployed) ==
  LET w == runs[r].workspace
      waiting == ActiveRunsOf(w) \ {r}
  IN /\ runs' = [runs EXCEPT ![r].status = status]
     /\ \E current \in IF waiting = {} \/ workspaces[w].currentRun # r
                         THEN {workspaces[w].currentRun} ELSE waiting :
          workspaces' = [workspaces EXCEPT ![w].currentRun = current,
                                           ![w].deployed = deployed]

\* A run stopped half-way may have created what it was to create.
StoppedStates(r) ==
  {workspaces[runs[r].workspace].deployed} \cup
    (IF runs[r].status = "applying" /\ ~runs[r].destroy
       THEN {runs[r].config} ELSE {})

\* Stopping a run at a user's or the operator's request.
CancelRun(r) == \E deployed \in StoppedStates(r) : RunEnds(r, "canceled", deployed)

(***************************************************************************)
(* What Terraform Cloud does by itself.                                    *)
(***************************************************************************)
RunStarts(r) ==
  /\ runs[r].status = "pending"
  /\ workspaces[runs[r].workspace].currentRun = r
  /\ runs' = [runs EXCEPT ![r].status = "applying"]
  /\ UNCHANGED <<workspaces, configVersions, outOfBand>>

\* A plan without changes finishes the run; workspaces are created with
\* auto-apply, so a plan with changes goes on to its outcome.
RunFinishes(r) ==
  /\ runs[r].status = "applying"
  /\ LET w == runs[r].workspace
         deployed == workspaces[w].deployed
         noChanges == IF runs[r].destroy THEN deployed \in {None, Destroyed}
                                         ELSE deployed = runs[r].config
     IN \/ noChanges /\ RunEnds(r, "planned_and_finished", deployed)
        \/ /\ ~noChanges /\ "applied" \in Outcomes
           /\ RunEnds(r, "applied",
                IF runs[r].destroy THEN Destroyed ELSE runs[r].config)
        \/ /\ ~noChanges
           /\ \E status \in Outcomes \ {"applied"}, d \in StoppedStates(r) :
                RunEnds(r, status, IF status = "discarded" THEN deployed ELSE d)
  /\ UNCHANGED <<configVersions, outOfBand>>

RunProgress(r) == RunStarts(r) \/ RunFinishes(r)

\* An uploaded archive is unpacked asynchronously, and may be rejected.
ConfigVersionProcessed(c) ==
  /\ configVersions[c].status = "pending"
  /\ configVersions[c].template # None
  /\ \E status \in UploadOutcomes :
       /\ configVersions' = [configVersions EXCEPT ![c].status = status]
       /\ workspaces' = IF status = "uploaded" /\ configVersions[c].latest
            THEN [workspaces EXCEPT ![configVersions[c].workspace].template =
                                       configVersions[c].template]
            ELSE workspaces
  /\ UNCHANGED <<runs, outOfBand>>

\* A commit of the connected repository.
VCSIngress(w) ==
  /\ workspaces[w].live /\ workspaces[w].vcs
  /\ workspaces[w].template = None
  /\ \E t \in Templates : workspaces' = [workspaces EXCEPT ![w].template = t]
  /\ UNCHANGED <<runs, configVersions, outOfBand>>

\* A user queues a run, deletes the workspace or edits its variable in the UI.
UserIntervenes(w, freeRuns) ==
  /\ outOfBand < MaxOutOfBand
  /\ outOfBand' = outOfBand + 1
  /\ workspaces[w].live
  /\ \/ /\ "run" \in OutOfBand
        /\ workspaces[w].template # None
        /\ freeRuns # {}
        /\ CreateRun(CHOOSE r \in freeRuns : TRUE, w, FALSE, FALSE)
        /\ UNCHANGED configVersions
     \/ /\ "delete" \in OutOfBand
        /\ DeleteWorkspaceByID(w)
     \/ /\ "variable" \in OutOfBand
        /\ \E v \in Values :
             workspaces' = [workspaces EXCEPT ![w].value = v]
        /\ UNCHANGED <<runs, configVersions>>
=============================================================================
