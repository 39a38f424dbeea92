----------------------------- MODULE Synchronize -----------------------------
(***************************************************************************)
(* What a reconcile of an active Workspace synchronizes around its runs,   *)
(* in the order of Reconcile (workspacehelper/workspace_helper.go): the    *)
(* settings of the workspace, its notifications, the outputs of the last   *)
(* run, the run triggers; then it starts a run if one is due.  An error in *)
(* one of them keeps the ones after it from their turn.  The bookkeeping   *)
(* of runs is in WorkspaceOperator, the variables are in Variables.        *)
(***************************************************************************)
EXTENDS WorkspaceSettings, Notifications, Outputs, RunTriggers

CONSTANTS Contents, Sources

ASSUME SynchronizeAssumption ==
  /\ Sources \subseteq Resources
  /\ None \notin Contents /\ None \notin States /\ None \notin Workspace
  /\ None \notin {"pending", "applied"}
  /\ \A s \in Specs : /\ s.notifications \in Seq([name: STRING, content: Contents])
                      /\ s.runTriggers \in Seq(Sources)

VARIABLE run         \* the last run: None, "pending" or "applied"

vars == <<reconcileVars, workspace, notifications, outputVars, runTriggers, run>>

TypeOK ==
  /\ ReconcilingTypeOK
  /\ workspace \in Workspace \cup {None}
  /\ notifications \subseteq [name: STRING, content: Contents]
  /\ state \in States \cup {None}
  /\ cachedSecret # None => \A o \in cachedSecret : o.value # <<>>
  /\ runTriggers \subseteq organization
  /\ run \in {None, "pending", "applied"}
  /\ run = "applied" <=> state # None /\ run # "pending"

Init ==
  /\ ReconcilingInit
  /\ workspace = None
  /\ notifications = {}
  /\ state = None /\ published = <<>> /\ secret = None /\ cachedSecret = None
  /\ runTriggers = {}
  /\ run = None

StartReconcile ==
  Begin("readWorkspace") /\ UNCHANGED <<workspace, notifications, outputVars, runTriggers, run>>

\* While a run is in progress the reconcile goes no further.
RunInProgress ==
  /\ pc = "runInProgress"
  /\ IF run = "pending" THEN Return ELSE Goto("outputs") /\ UNCHANGED memory
  /\ UNCHANGED <<workspace, notifications, outputVars, runTriggers, run>>

StartCondition ==
  /\ pc = "startCondition"
  /\ IF memory.updated \/ run = None THEN Goto("startRun") /\ UNCHANGED memory ELSE Return
  /\ UNCHANGED <<workspace, notifications, outputVars, runTriggers, run>>

StartRun ==
  /\ pc = "startRun"
  /\ run' = "pending"
  /\ Return
  /\ UNCHANGED <<workspace, notifications, outputVars, runTriggers>>

Reconcile ==
  \/ StartReconcile
  \/ settingsSteps("notifications") /\ UNCHANGED <<notifications, outputVars, runTriggers, run>>
  \/ notificationSteps("runInProgress") /\ UNCHANGED <<workspace, outputVars, runTriggers, run>>
  \/ RunInProgress
  \/ outputSteps(run, "runTriggers") /\ UNCHANGED <<workspace, notifications, runTriggers, run>>
  \/ runTriggerSteps("startCondition") /\ UNCHANGED <<workspace, notifications, outputVars, run>>
  \/ StartCondition
  \/ StartRun

RunApplies ==
  /\ run = "pending"
  /\ run' = "applied"
  /\ state' \in States
  /\ UNCHANGED <<reconcileVars, workspace, notifications, published, secret, cachedSecret,
                 runTriggers>>

UserIntervenes ==
  /\ Intervention
  /\ UNCHANGED run
  /\ \/ UserChangesNotifications(Contents) /\ UNCHANGED <<workspace, outputVars, runTriggers>>
     \/ /\ UNCHANGED memory
        /\ \/ UserChangesSettings /\ UNCHANGED <<notifications, outputVars, runTriggers>>
           \/ UserChangesRunTriggers(Sources) /\ UNCHANGED <<workspace, notifications, outputVars>>
           \/ /\ UserRuns \/ UserDeletesSecret
              /\ UNCHANGED <<workspace, notifications, runTriggers>>

Kubernetes ==
  SecretCacheSync /\ UNCHANGED <<reconcileVars, workspace, notifications, runTriggers, run>>

SpecOrOrganization ==
  /\ UserEdits \/ Provide \/ AbortReconcile
  /\ UNCHANGED <<workspace, notifications, outputVars, runTriggers, run>>

Next == Reconcile \/ RunApplies \/ UserIntervenes \/ Kubernetes \/ SpecOrOrganization

Spec == Init /\ [][Next]_vars

\* Every reconcile is followed by another; runs end, the cache follows, and what
\* the organization lacks is created at some time.
FairSpec ==
  /\ Spec
  /\ WF_vars(Reconcile) /\ WF_vars(RunApplies) /\ WF_vars(Kubernetes)
  /\ WF_vars(Provide /\ UNCHANGED <<workspace, notifications, outputVars, runTriggers, run>>)

(***************************************************************************)
(* Properties.                                                             *)
(***************************************************************************)
\* As long as users leave the workspace alone, a run starts in one that has the
\* settings, the notifications and the run triggers of the reconcile's copy of
\* the spec, whatever earlier reconciles left half done.  It lacks only triggers
\* whose creation has failed in this very reconcile, which does not look at the
\* error (tfc_run_trigger.go 114).
StartSynchronized ==
  pc = "startRun" /\ outOfBand = 0 =>
    SettingsOf(copy) /\ NotificationsOf(copy) /\ RunTriggersBut(copy, memory.lost)

\* Wherever outputs are read, a value is rendered as its JSON text and a string as
\* itself, with exceptions, which are these and no others (convertValueToString):
\* a string in an object is not quoted, a null string in a list or a map is; %q
\* escapes characters that are not printable in ways JSON does not know; a string that
\* is JSON text is written anew, wherever it is, and so are the keys of a map.
RenderingIsJSON == pc = "outputs" => RenderedAsJSON

\* The settings come to those of the spec, also after a user has changed them
\* and when a call fails anywhere, that on a workspace just created included.
SettingsConverge == <>[]SettingsOf(spec)

\* A workspace gets the agent pool whose name the spec gives.
AgentPoolApplied ==
  <>[](spec.agentPoolName # None /\ spec.agentPoolID = None =>
         workspace # None /\ workspace.agentPool = AgentPoolNamed[spec.agentPoolName])

\* Notifications that the spec lacks go away for good.  Those of the spec come to
\* stay, except that one that is not listed as it is comes again and again.
NotificationsConverge ==
  LET wanted == WantedNotifications(spec)
  IN /\ <>[](/\ notifications \subseteq wanted
             /\ \A n \in wanted : n.content \notin Unlisted => n \in notifications)
     /\ []<>NotificationsOf(spec)

\* The run triggers come to those of the spec, whichever call fails, noticed or not;
\* only those that Terraform Cloud refuses stay away.
RunTriggersConverge == <>[](runTriggers = WantedRunTriggers(spec) \ Refused)

RunsStop == <>[](pc # "startRun")
RefusedWanted == WantedRunTriggers(spec) \cap Refused # {}

\* Once runs stop, status and Secret come to the outputs of the last state: nothing
\* that has become sensitive or has disappeared is left in them, whatever the cache
\* shows.
OutputsPublished ==
  RunsStop => <>[](run = "applied" =>
         LET wanted == {[key |-> k, value |-> Encoding(state[k].value)] :
                          k \in {k \in DOMAIN state : /\ ~state[k].sensitive
                                                      /\ Encoding(state[k].value) # <<>>}}
         IN ToSet(published) = wanted /\ secret = wanted)

\* Once runs stop, the status stops changing, though the state file's outputs come in
\* no order.
StatusSettles == RunsStop => <>[][published' = published]_vars

\* Once everything is left alone no more runs are started, if and only if Terraform
\* Cloud takes all triggers of the spec: one that it refuses is reported as created
\* by every reconcile, because the error is not looked at, and starts a run each time
\* (tfc_run_trigger.go 114).
OperatorSettles ==
  /\ []<>(pc = "startRun") => []<>RefusedWanted
  /\ []<>RefusedWanted => []<>(pc = "startRun")
=============================================================================
