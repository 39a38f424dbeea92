-------------------------- MODULE SynchronizeProofs --------------------------
(***************************************************************************)
(* Theorems about Synchronize, for specs, settings, notifications, run     *)
(* triggers and outputs of any kind and number: its type invariant, and    *)
(* that a run starts only in a workspace that has what the copy of the     *)
(* spec asks for, but for run triggers whose creation has just failed.     *)
(***************************************************************************)
EXTENDS Synchronize, TLAPS

Notification == [name: STRING, content: Contents]

\* The steps of a reconcile after those that bring the workspace's settings, its
\* notifications and its run triggers to those of the spec.
AfterRunTriggers == {"startCondition", "startRun"}
AfterNotifications ==
  {"runInProgress", "outputs", "recordOutputs", "secret", "runTriggers", "changeRunTriggers"}
    \cup AfterRunTriggers
AfterSettings ==
  {"notifications", "removeNotifications", "addNotifications"} \cup AfterNotifications

\* All of the outputs have a text.
Shown(outputs) == \A o \in outputs : o.value # <<>>

\* What CheckRunTriggers has in memory for places of the spec.
CheckOf(places) ==
  [deletes: SUBSET Resources, creates: SUBSET places, updated: BOOLEAN, lost: SUBSET Resources]

\* What the helper at work has in memory, and what it works on.
MemoryFacts ==
  /\ pc \in {"sshKey", "terraformVersion", "agentPool"} =>
       workspace \in Workspace /\ memory \in Workspace \cup {OnlyID}
  /\ pc = "removeNotifications" => memory \in [toRemove: SUBSET Notification]
  /\ pc = "addNotifications" => memory \in [toAdd: SUBSET DOMAIN copy.notifications]
  /\ pc \in {"recordOutputs", "secret"} => Shown(ToSet(memory.outputs))
  /\ secret # None => Shown(secret)
  /\ pc = "changeRunTriggers" =>
       memory \in CheckOf(DOMAIN copy.runTriggers)

IInv == TypeOK /\ MemoryFacts

\* The record that was read is the workspace, or that of a workspace just created
\* with the agent pool of the copy; what has been set since is as in the copy.
SettingsFacts ==
  /\ pc = "sshKey" => workspace.sshKey = memory.sshKey
  /\ pc \in {"sshKey", "terraformVersion"} =>
       memory.terraformVersion \in {None, workspace.terraformVersion}
  /\ pc \in {"sshKey", "terraformVersion", "agentPool"} =>
       \/ workspace.agentPool = memory.agentPool
       \/ memory.agentPool = None /\ workspace.agentPool \in PoolsOf(copy)
  /\ pc \in {"terraformVersion", "agentPool"} => workspace.sshKey = copy.sshKey
  /\ pc = "agentPool" => copy.terraformVersion \in {None, workspace.terraformVersion}
  /\ pc \in AfterSettings => SettingsOf(copy)

\* What is left to delete and to add is what the workspace has and lacks.
NotificationFacts ==
  /\ pc = "removeNotifications" =>
       notifications \ memory.toRemove \subseteq WantedNotifications(copy)
  /\ pc = "addNotifications" =>
       notifications \cup {copy.notifications[i] : i \in memory.toAdd} = WantedNotifications(copy)
  /\ pc \in AfterNotifications => NotificationsOf(copy)

\* A trigger of the spec is there, or still to be created, or its creation has failed.
RunTriggerFacts ==
  /\ pc = "changeRunTriggers" =>
       /\ runTriggers \ memory.deletes \subseteq WantedRunTriggers(copy)
       /\ memory.deletes \cap WantedRunTriggers(copy) = {}
       /\ \A i \in DOMAIN copy.runTriggers \ memory.creates :
            copy.runTriggers[i] \in runTriggers \cup memory.lost
  /\ pc \in AfterRunTriggers => RunTriggersBut(copy, memory.lost)

SynchronizedFacts ==
  outOfBand = 0 => SettingsFacts /\ NotificationFacts /\ RunTriggerFacts

\* A spec does not give two notifications one name.
DistinctNames ==
  \A s \in Specs : \A i, j \in DOMAIN s.notifications :
    s.notifications[i].name = s.notifications[j].name => s.notifications[i] = s.notifications[j]

LEMMA SpecFacts ==
  ASSUME NEW s \in Specs
  PROVE  /\ s.notifications \in Seq(Notification)
         /\ s.runTriggers \in Seq(Sources)
         /\ Sources \subseteq Resources
BY SynchronizeAssumption DEF Notification

LEMMA SpecFactsOfCopy ==
  ASSUME TypeOK, pc # "idle"
  PROVE  /\ copy \in Specs
         /\ \A i \in DOMAIN copy.notifications : copy.notifications[i] \in Notification
         /\ \A i \in DOMAIN copy.runTriggers : copy.runTriggers[i] \in Resources
BY SpecFacts DEF TypeOK, ReconcilingTypeOK

\* A sequence made of a set has its elements only.
LEMMA SetToSeqsElements ==
  ASSUME NEW S, NEW s \in SetToSeqs(S)
  PROVE  ToSet(s) \subseteq S
BY DEF SetToSeqs, ToSet

(***************************************************************************)
(* The type invariant.                                                     *)
(***************************************************************************)
LEMMA InitIInv == Init => IInv
BY SynchronizeAssumption, ReconcilingAssumption
DEF Init, ReconcilingInit, IInv, TypeOK, ReconcilingTypeOK, MemoryFacts

LEMMA SettingsStepsIInv ==
  ASSUME IInv, settingsSteps("notifications"),
         UNCHANGED <<notifications, outputVars, runTriggers, run>>
  PROVE  IInv'
<1> USE WorkspaceSettingsAssumption, SynchronizeAssumption, SpecFactsOfCopy
    DEF IInv, TypeOK, ReconcilingTypeOK, MemoryFacts, Goto, Return, outputVars, Workspace
<1>1. CASE ReadWorkspace
  BY <1>1 DEF ReadWorkspace
<1>2. CASE CreateWorkspace
  BY <1>2 DEF CreateWorkspace, OnlyID
<1>3. CASE CheckSSHKey
  BY <1>3 DEF CheckSSHKey
<1>4. CASE SetTerraformVersion
  BY <1>4 DEF SetTerraformVersion
<1>5. CASE UpdateAgentPool("notifications")
  BY <1>5 DEF UpdateAgentPool
<1> QED
  BY <1>1, <1>2, <1>3, <1>4, <1>5 DEF settingsSteps

LEMMA NotificationStepsIInv ==
  ASSUME IInv, notificationSteps("runInProgress"),
         UNCHANGED <<workspace, outputVars, runTriggers, run>>
  PROVE  IInv'
<1> USE SpecFactsOfCopy
    DEF IInv, TypeOK, ReconcilingTypeOK, MemoryFacts, Goto, Return, outputVars, Notification,
        specNotifications
<1>1. CASE FindExtraNotifications("runInProgress")
  BY <1>1 DEF FindExtraNotifications
<1>2. CASE RemoveNotification
  BY <1>2 DEF RemoveNotification
<1>3. CASE FindMissingNotifications
  BY <1>3 DEF FindMissingNotifications
<1>4. CASE AddNotification
  <2>1. PICK i \in memory.toAdd : /\ notifications' = notifications \cup {copy.notifications[i]}
                                  /\ memory' = [toAdd |-> memory.toAdd \ {i}]
    BY <1>4 DEF AddNotification
  <2>2. pc = "addNotifications" /\ pc' = "addNotifications" /\ copy' = copy
    BY <1>4 DEF AddNotification
  <2>3. copy.notifications[i] \in Notification
    BY <2>1, <2>2
  <2>4. memory' \in [toAdd : SUBSET DOMAIN copy.notifications]
    BY <2>1, <2>2
  <2> QED
    BY <1>4, <2>1, <2>2, <2>3, <2>4 DEF AddNotification
<1>5. CASE NotificationsChecked("runInProgress")
  BY <1>5 DEF NotificationsChecked
<1> QED
  BY <1>1, <1>2, <1>3, <1>4, <1>5 DEF notificationSteps

LEMMA OutputStepsIInv ==
  ASSUME IInv, outputSteps(run, "runTriggers"),
         UNCHANGED <<workspace, notifications, runTriggers, run>>
  PROVE  IInv'
<1> USE DEF IInv, TypeOK, ReconcilingTypeOK, MemoryFacts, Goto, Return, outputVars, Shown
<1>1. CASE CheckOutputs(run)
  <2>1. CASE run # None /\ state = None
    BY <1>1, <2>1 DEF CheckOutputs
  <2>2. CASE ~(run # None /\ state = None)
    <3>1. /\ pc = "outputs" /\ pc' = "recordOutputs" /\ copy' = copy
          /\ UNCHANGED <<outputVars, spec, organization, edits, outOfBand, aborts>>
      BY <1>1, <2>2 DEF CheckOutputs
    <3>2. PICK outputs \in IF run = None THEN {<<>>} ELSE SetToSeqs(OutputsFromState) :
            memory' = [outputs |-> outputs]
      BY <1>1, <2>2 DEF CheckOutputs
    <3>3. ToSet(outputs) \subseteq OutputsFromState
      BY <3>2, SetToSeqsElements DEF ToSet
    <3>4. \A o \in OutputsFromState : o.value # <<>>
      BY DEF OutputsFromState
    <3> QED
      BY <3>1, <3>2, <3>3, <3>4
  <2> QED
    BY <2>1, <2>2
<1>2. CASE RecordOutputs
  BY <1>2 DEF RecordOutputs
<1>3. CASE UpsertSecretOutputs("runTriggers")
  BY <1>3 DEF UpsertSecretOutputs, outputsToMap
<1> QED
  BY <1>1, <1>2, <1>3 DEF outputSteps

\* A step of CreateRunTrigger: the source is missing, or the trigger is created, or
\* its creation fails and the trigger is lost.
LEMMA CreateRunTriggerCases ==
  ASSUME IInv, CreateRunTrigger
  PROVE  \/ Return /\ UNCHANGED runTriggers
         \/ \E i \in memory.creates, lost \in SUBSET Resources :
              /\ memory' = WithCreated(i, memory.lost \cup lost)
              /\ copy.runTriggers[i] \in organization
              /\ \/ lost = {} /\ runTriggers' = runTriggers \cup {copy.runTriggers[i]}
                 \/ lost = {copy.runTriggers[i]} /\ UNCHANGED runTriggers
              /\ UNCHANGED <<spec, organization, pc, copy, edits, outOfBand>>
              /\ aborts' \in 0 .. MaxAborts
<1>1. /\ pc = "changeRunTriggers" /\ pc # "idle"
      /\ memory.creates \subseteq DOMAIN copy.runTriggers
      /\ aborts \in 0 .. MaxAborts
  BY DEF CreateRunTrigger, IInv, TypeOK, ReconcilingTypeOK, MemoryFacts, CheckOf
<1>2. PICK i \in memory.creates :
        LET s == copy.runTriggers[i]
        IN \/ s \notin organization /\ Return /\ UNCHANGED runTriggers
           \/ /\ s \in organization
              /\ \/ TriggerCreated(s) /\ memory' = WithCreated(i, memory.lost)
                 \/ TriggerLost(s) /\ memory' = WithCreated(i, memory.lost \cup {s})
              /\ UNCHANGED <<spec, organization, pc, copy, edits, outOfBand>>
  BY DEF CreateRunTrigger
<1> DEFINE s == copy.runTriggers[i]
<1>3. s \in Resources
  BY <1>1, SpecFactsOfCopy DEF IInv
<1> DEFINE Undisturbed == UNCHANGED <<spec, organization, pc, copy, edits, outOfBand>>
<1>4. CASE /\ TriggerCreated(s) /\ memory' = WithCreated(i, memory.lost)
           /\ s \in organization /\ Undisturbed
  <2>1. memory' = WithCreated(i, memory.lost \cup {})
    <3>1. memory.lost \cup {} = memory.lost
      BY <1>1 DEF CheckOf
    <3> QED
      BY <1>4, <3>1
  <2>2. runTriggers' = runTriggers \cup {s} /\ aborts' \in 0 .. MaxAborts
    BY <1>1, <1>4 DEF TriggerCreated
  <2> QED
    BY <1>4, <2>1, <2>2, {} \in SUBSET Resources
<1>5. CASE /\ TriggerLost(s) /\ memory' = WithCreated(i, memory.lost \cup {s})
           /\ s \in organization /\ Undisturbed
  <2>1. /\ UNCHANGED runTriggers
        /\ aborts' \in 0 .. MaxAborts
    BY <1>1, <1>5, ReconcilingAssumption DEF TriggerLost
  <2> QED
    BY <1>3, <1>5, <2>1
<1> QED
  BY <1>2, <1>4, <1>5

LEMMA CreatedTrigger ==
  ASSUME NEW places, NEW m \in CheckOf(places), NEW i, NEW lost \in SUBSET Resources
  PROVE  [m EXCEPT !.creates = @ \ {i}, !.updated = TRUE, !.lost = m.lost \cup lost]
           \in CheckOf(places)
BY DEF CheckOf

LEMMA RunTriggerStepsIInv ==
  ASSUME IInv, runTriggerSteps("startCondition"),
         UNCHANGED <<workspace, notifications, outputVars, run>>
  PROVE  IInv'
<1> USE SpecFactsOfCopy
    DEF IInv, TypeOK, ReconcilingTypeOK, MemoryFacts, Goto, Return, outputVars
<1>1. CASE ListRunTriggers
  BY <1>1 DEF ListRunTriggers, CheckOf
<1>2. CASE DeleteRunTrigger
  <2>1. PICK s \in memory.deletes :
          IF s \in runTriggers
            THEN /\ runTriggers' = runTriggers \ {s}
                 /\ memory' = [memory EXCEPT !.deletes = @ \ {s}]
                 /\ Goto("changeRunTriggers")
            ELSE Return /\ UNCHANGED runTriggers
    BY <1>2 DEF DeleteRunTrigger
  <2>2. pc = "changeRunTriggers"
    BY <1>2 DEF DeleteRunTrigger
  <2>3. CASE s \in runTriggers
    BY <2>1, <2>2, <2>3 DEF CheckOf
  <2>4. CASE s \notin runTriggers
    BY <2>1, <2>2, <2>4
  <2> QED
    BY <2>3, <2>4
<1>3. CASE CreateRunTrigger
  <2>1. pc = "changeRunTriggers" /\ memory \in CheckOf(DOMAIN copy.runTriggers)
    BY <1>3 DEF CreateRunTrigger
  <2>2. CASE Return /\ UNCHANGED runTriggers
    BY <2>2
  <2>3. ASSUME NEW i \in memory.creates, NEW lost \in SUBSET Resources,
               memory' = WithCreated(i, memory.lost \cup lost),
               copy.runTriggers[i] \in organization,
               \/ lost = {} /\ runTriggers' = runTriggers \cup {copy.runTriggers[i]}
               \/ lost = {copy.runTriggers[i]} /\ UNCHANGED runTriggers,
               UNCHANGED <<spec, organization, pc, copy, edits, outOfBand>>,
               aborts' \in 0 .. MaxAborts
        PROVE  IInv'
    <3>1. memory' \in CheckOf(DOMAIN copy.runTriggers)
      BY ONLY <2>1, <2>3, CreatedTrigger DEF WithCreated
    <3>2. runTriggers' \subseteq organization
      BY <2>3
    <3> QED
      BY <2>1, <2>3, <3>1, <3>2
  <2> QED
    BY <1>3, <2>2, <2>3, CreateRunTriggerCases
<1>4. CASE RunTriggersChecked("startCondition")
  BY <1>4 DEF RunTriggersChecked
<1> QED
  BY <1>1, <1>2, <1>3, <1>4 DEF runTriggerSteps

LEMMA ReconcileIInv ==
  ASSUME IInv, Reconcile
  PROVE  IInv'
<1> USE DEF IInv, TypeOK, ReconcilingTypeOK, MemoryFacts, Goto, Return, outputVars
<1>1. CASE StartReconcile
  BY <1>1 DEF StartReconcile, Begin
<1>2. CASE RunInProgress
  BY <1>2 DEF RunInProgress
<1>3. CASE StartCondition
  BY <1>3 DEF StartCondition
<1>4. CASE StartRun
  BY <1>4 DEF StartRun
<1> QED
  BY <1>1, <1>2, <1>3, <1>4, SettingsStepsIInv, NotificationStepsIInv, OutputStepsIInv,
     RunTriggerStepsIInv DEF Reconcile

LEMMA UserIntervenesIInv ==
  ASSUME IInv, UserIntervenes
  PROVE  IInv'
<1>1. Intervention /\ UNCHANGED run
  BY DEF UserIntervenes
<1> USE <1>1, ReconcilingAssumption
    DEF IInv, TypeOK, ReconcilingTypeOK, MemoryFacts, Intervention, outputVars
<1>2. CASE UserChangesNotifications(Contents) /\ UNCHANGED <<workspace, outputVars, runTriggers>>
  <2>1. PICK n \in notifications :
          \/ notifications' = notifications \ {n} /\ UNCHANGED memory
          \/ \E c \in Contents :
               /\ notifications' = (notifications \ {n}) \cup {[n EXCEPT !.content = c]}
               /\ IF pc = "removeNotifications" /\ n \in memory.toRemove
                    THEN memory' = [toRemove |-> (memory.toRemove \ {n})
                                                   \cup {[n EXCEPT !.content = c]}]
                    ELSE UNCHANGED memory
    BY <1>2 DEF UserChangesNotifications
  <2>2. \A c \in Contents : [n EXCEPT !.content = c] \in Notification
    BY DEF Notification
  <2>3. notifications' \subseteq Notification
    BY <2>1, <2>2 DEF Notification
  <2>4. pc = "removeNotifications" => memory' \in [toRemove: SUBSET Notification]
    BY <2>1, <2>2
  <2>5. pc # "removeNotifications" => UNCHANGED memory
    BY <2>1
  <2> QED
    BY <1>2, <2>3, <2>4, <2>5 DEF Notification
<1>3. CASE /\ UserChangesSettings
           /\ UNCHANGED <<memory, notifications, outputVars, runTriggers>>
  BY <1>3 DEF UserChangesSettings, Workspace
<1>4. CASE /\ UserChangesRunTriggers(Sources)
           /\ UNCHANGED <<memory, workspace, notifications, outputVars>>
  BY <1>4 DEF UserChangesRunTriggers
<1>5. CASE /\ UserRuns \/ UserDeletesSecret
           /\ UNCHANGED <<memory, workspace, notifications, runTriggers>>
  BY <1>5, SynchronizeAssumption DEF UserRuns, UserDeletesSecret
<1> QED
  BY <1>2, <1>3, <1>4, <1>5 DEF UserIntervenes

LEMMA NextIInv ==
  ASSUME IInv, [Next]_vars
  PROVE  IInv'
<1> USE DEF IInv, TypeOK, ReconcilingTypeOK, MemoryFacts, outputVars, reconcileVars
<1>1. CASE RunApplies
  BY <1>1, SynchronizeAssumption DEF RunApplies
<1>2. CASE Kubernetes
  BY <1>2 DEF Kubernetes, SecretCacheSync, Shown
<1>3. CASE SpecOrOrganization
  BY <1>3, ReconcilingAssumption DEF SpecOrOrganization, UserEdits, Provide, AbortReconcile
<1>4. CASE UNCHANGED vars
  BY <1>4 DEF vars
<1> QED
  BY <1>1, <1>2, <1>3, <1>4, ReconcileIInv, UserIntervenesIInv DEF Next

THEOREM SynchronizeTypeOK == Spec => []TypeOK
<1>1. IInv /\ [Next]_vars => IInv'
  BY NextIInv
<1>2. IInv => TypeOK
  BY DEF IInv
<1> QED
  BY InitIInv, <1>1, <1>2, PTL DEF Spec

(***************************************************************************)
(* What a run starts in.                                                   *)
(***************************************************************************)
LEMMA InitSynchronizedFacts == Init => SynchronizedFacts
BY DEF Init, ReconcilingInit, SynchronizedFacts, SettingsFacts, NotificationFacts, RunTriggerFacts,
       AfterSettings, AfterNotifications, AfterRunTriggers

LEMMA SettingsStepsFacts ==
  ASSUME IInv, SettingsFacts, settingsSteps("notifications")
  PROVE  SettingsFacts' /\ NotificationFacts' /\ RunTriggerFacts'
<1> USE DEF Goto, Return
<1>1. SettingsFacts'
  <2> USE SynchronizeAssumption, WorkspaceSettingsAssumption, SpecFactsOfCopy
      DEF IInv, TypeOK, MemoryFacts, Workspace, SettingsFacts, AfterSettings, AfterNotifications,
          AfterRunTriggers, PoolsOf
  <2>1. CASE ReadWorkspace
    BY <2>1 DEF ReadWorkspace
  <2>2. CASE CreateWorkspace
    BY <2>2 DEF CreateWorkspace, OnlyID
  <2>3. CASE CheckSSHKey
    BY <2>3 DEF CheckSSHKey
  <2>4. CASE SetTerraformVersion
    BY <2>4 DEF SetTerraformVersion
  <2>5. CASE UpdateAgentPool("notifications")
    BY <2>5 DEF UpdateAgentPool, SettingsOf
  <2> QED
    BY <2>1, <2>2, <2>3, <2>4, <2>5 DEF settingsSteps
<1>2. pc' \in {"idle", "createWorkspace", "sshKey", "terraformVersion", "agentPool", "notifications"}
  BY DEF settingsSteps, ReadWorkspace, CreateWorkspace, CheckSSHKey, SetTerraformVersion,
         UpdateAgentPool
<1> QED
  BY <1>1, <1>2 DEF NotificationFacts, RunTriggerFacts, AfterNotifications, AfterRunTriggers

\* No content is listed as that of a notification of the spec unless it is that.
LEMMA ComparedIsEqual ==
  ASSUME NEW n \in Notification, NEW m \in Notification, compareNotifications(n, m)
  PROVE  n = m
<1>1. CASE n.content \in Unlisted
  <2>1. [n EXCEPT !.content = None].content = None
    BY DEF Notification
  <2> QED
    BY <1>1, <2>1, SynchronizeAssumption DEF compareNotifications, listed, Notification
<1>2. CASE n.content \notin Unlisted
  BY <1>2 DEF compareNotifications, listed
<1> QED
  BY <1>1, <1>2

LEMMA NotificationStepsFacts ==
  ASSUME IInv, DistinctNames, SettingsFacts, NotificationFacts,
         notificationSteps("runInProgress"), UNCHANGED workspace
  PROVE  SettingsFacts' /\ NotificationFacts' /\ RunTriggerFacts'
<1> USE DEF Goto, Return
<1>1. /\ pc \in {"notifications", "removeNotifications", "addNotifications"}
      /\ \/ pc' = "idle"
         \/ /\ pc' \in {"removeNotifications", "addNotifications", "runInProgress"}
            /\ UNCHANGED copy
  BY DEF notificationSteps, FindExtraNotifications, RemoveNotification, FindMissingNotifications,
         AddNotification, NotificationsChecked
<1>2. NotificationFacts'
  <2> USE DEF NotificationFacts, NotificationsOf, WantedNotifications, AfterNotifications,
              AfterRunTriggers, specNotifications
  <2>1. CASE FindExtraNotifications("runInProgress")
    <3>1. CASE notifications = {} /\ copy.notifications = <<>>
      BY <2>1, <3>1 DEF FindExtraNotifications
    <3>2. CASE ~(notifications = {} /\ copy.notifications = <<>>)
      <4>1. \A n \in notifications, i \in DOMAIN copy.notifications :
              compareNotifications(n, copy.notifications[i]) => n = copy.notifications[i]
        BY <1>1, SpecFactsOfCopy, ComparedIsEqual DEF IInv, TypeOK, Notification
      <4>2. /\ pc' = "removeNotifications" /\ UNCHANGED <<copy, notifications>>
            /\ memory' = [toRemove |->
                 {n \in notifications : ~\E i \in DOMAIN copy.notifications :
                                        compareNotifications(n, copy.notifications[i])}]
        BY <2>1, <3>2 DEF FindExtraNotifications
      <4> QED
        BY <4>1, <4>2
    <3> QED
      BY <3>1, <3>2
  <2>2. CASE RemoveNotification
    BY <2>2 DEF RemoveNotification, IInv, MemoryFacts
  <2>3. CASE FindMissingNotifications
    BY <2>3, SpecFactsOfCopy DEF FindMissingNotifications, Named, DistinctNames, IInv
  <2>4. CASE AddNotification
    BY <2>4 DEF AddNotification, IInv, MemoryFacts
  <2>5. CASE NotificationsChecked("runInProgress")
    BY <2>5 DEF NotificationsChecked
  <2> QED
    BY <2>1, <2>2, <2>3, <2>4, <2>5 DEF notificationSteps
<1> USE DEF AfterSettings, AfterNotifications, AfterRunTriggers
<1>3. SettingsFacts'
  BY <1>1 DEF SettingsFacts, SettingsOf, PoolsOf
<1>4. RunTriggerFacts'
  BY <1>1 DEF RunTriggerFacts
<1> QED
  BY <1>2, <1>3, <1>4

LEMMA RunTriggerStepsFacts ==
  ASSUME IInv, SettingsFacts, NotificationFacts, RunTriggerFacts,
         runTriggerSteps("startCondition"), UNCHANGED <<workspace, notifications>>
  PROVE  SettingsFacts' /\ NotificationFacts' /\ RunTriggerFacts'
<1> USE DEF Goto, Return
<1>1. /\ pc \in {"runTriggers", "changeRunTriggers"}
      /\ \/ pc' = "idle"
         \/ pc' \in {"changeRunTriggers", "startCondition"} /\ UNCHANGED copy
  BY DEF runTriggerSteps, ListRunTriggers, DeleteRunTrigger, CreateRunTrigger, RunTriggersChecked
<1>2. RunTriggerFacts'
  <2> USE DEF RunTriggerFacts, RunTriggersBut, WantedRunTriggers, AfterRunTriggers, IInv, MemoryFacts
  <2>1. CASE ListRunTriggers
    BY <2>1 DEF ListRunTriggers
  <2>2. CASE DeleteRunTrigger
    BY <2>2 DEF DeleteRunTrigger, CheckOf
  <2>3. CASE CreateRunTrigger
    <3>1. /\ pc = "changeRunTriggers" /\ memory.deletes = {}
          /\ memory \in CheckOf(DOMAIN copy.runTriggers)
      BY <2>3 DEF CreateRunTrigger
    <3>2. CASE Return /\ UNCHANGED runTriggers
      BY <3>2
    <3>3. ASSUME NEW i \in memory.creates, NEW lost \in SUBSET Resources,
                 memory' = WithCreated(i, memory.lost \cup lost),
                 \/ lost = {} /\ runTriggers' = runTriggers \cup {copy.runTriggers[i]}
                 \/ lost = {copy.runTriggers[i]} /\ UNCHANGED runTriggers,
                 UNCHANGED <<pc, copy>>
          PROVE  RunTriggerFacts'
      <4> DEFINE created == WithCreated(i, memory.lost \cup lost)
      <4>3. /\ created.deletes = memory.deletes /\ created.creates = memory.creates \ {i}
            /\ created.lost = memory.lost \cup lost
        BY ONLY <3>1 DEF WithCreated, CheckOf
      <4> HIDE DEF created
      <4>1. /\ memory'.deletes = {} /\ memory'.creates = memory.creates \ {i}
            /\ memory'.lost = memory.lost \cup lost
        BY <3>1, <3>3, <4>3 DEF created
      <4>2. i \in DOMAIN copy.runTriggers
        BY <3>1 DEF CheckOf
      <4> QED
        BY <3>1, <3>3, <4>1, <4>2
    <3> QED
      BY <2>3, <3>2, <3>3, CreateRunTriggerCases
  <2>4. CASE RunTriggersChecked("startCondition")
    BY <2>4 DEF RunTriggersChecked
  <2> QED
    BY <2>1, <2>2, <2>3, <2>4 DEF runTriggerSteps
<1> USE DEF AfterSettings, AfterNotifications, AfterRunTriggers
<1>3. SettingsFacts'
  BY <1>1 DEF SettingsFacts, SettingsOf, PoolsOf
<1>4. NotificationFacts'
  BY <1>1 DEF NotificationFacts, NotificationsOf, WantedNotifications
<1> QED
  BY <1>2, <1>3, <1>4

\* The steps between and after these helpers'.
LEMMA OtherStepsFacts ==
  ASSUME SettingsFacts, NotificationFacts, RunTriggerFacts,
         UNCHANGED <<workspace, notifications, runTriggers>>,
         RunInProgress \/ outputSteps(run, "runTriggers") \/ StartCondition \/ StartRun
  PROVE  SettingsFacts' /\ NotificationFacts' /\ RunTriggerFacts'
<1> USE DEF Goto, Return, AfterSettings, AfterNotifications, AfterRunTriggers
<1>1. /\ pc \in {"runInProgress", "outputs", "recordOutputs", "secret", "startCondition", "startRun"}
      /\ \/ pc' = "idle"
         \/ /\ pc' \in {"outputs", "recordOutputs", "secret", "runTriggers", "startRun"}
            /\ UNCHANGED copy
            /\ pc' = "startRun" => pc = "startCondition" /\ UNCHANGED memory
  BY DEF RunInProgress, outputSteps, CheckOutputs, RecordOutputs, UpsertSecretOutputs,
         StartCondition, StartRun
<1>2. SettingsFacts'
  BY <1>1 DEF SettingsFacts, SettingsOf, PoolsOf
<1>3. NotificationFacts'
  BY <1>1 DEF NotificationFacts, NotificationsOf, WantedNotifications
<1>4. RunTriggerFacts'
  BY <1>1 DEF RunTriggerFacts, RunTriggersBut, WantedRunTriggers
<1> QED
  BY <1>2, <1>3, <1>4

LEMMA NextSynchronizedFacts ==
  ASSUME IInv, DistinctNames, SynchronizedFacts, [Next]_vars
  PROVE  SynchronizedFacts'
<1> SUFFICES ASSUME outOfBand' = 0
             PROVE  SettingsFacts' /\ NotificationFacts' /\ RunTriggerFacts'
  BY DEF SynchronizedFacts
<1> DEFINE Undisturbed ==
      UNCHANGED <<pc, copy, memory, workspace, notifications, runTriggers, outOfBand>>
<1>1. CASE Reconcile
  <2>1. outOfBand = 0
    BY <1>1 DEF Reconcile, StartReconcile, Begin, RunInProgress, StartCondition, StartRun, Goto, Return,
       settingsSteps, ReadWorkspace, CreateWorkspace, CheckSSHKey, SetTerraformVersion, UpdateAgentPool,
       notificationSteps, FindExtraNotifications, RemoveNotification, FindMissingNotifications,
       AddNotification, NotificationsChecked, outputSteps, CheckOutputs, RecordOutputs,
       UpsertSecretOutputs, runTriggerSteps, ListRunTriggers, DeleteRunTrigger, CreateRunTrigger,
       RunTriggersChecked
  <2>2. SettingsFacts /\ NotificationFacts /\ RunTriggerFacts
    BY <2>1 DEF SynchronizedFacts
  <2>3. CASE StartReconcile
    BY <2>3 DEF StartReconcile, Begin, SettingsFacts, NotificationFacts, RunTriggerFacts,
                AfterSettings, AfterNotifications, AfterRunTriggers
  <2> QED
    BY <1>1, <2>2, <2>3, SettingsStepsFacts, NotificationStepsFacts, RunTriggerStepsFacts,
       OtherStepsFacts DEF Reconcile, RunInProgress, StartCondition, StartRun
<1>2. CASE UserIntervenes
  BY <1>2 DEF UserIntervenes, Intervention, IInv, TypeOK, ReconcilingTypeOK
<1>3. CASE AbortReconcile
  BY <1>3 DEF AbortReconcile, SettingsFacts, NotificationFacts, RunTriggerFacts,
              AfterSettings, AfterNotifications, AfterRunTriggers
<1>4. CASE Undisturbed
  BY <1>4 DEF SynchronizedFacts, SettingsFacts, SettingsOf, PoolsOf, NotificationFacts, NotificationsOf,
              WantedNotifications, RunTriggerFacts, RunTriggersBut, WantedRunTriggers
<1>5. RunApplies \/ Kubernetes \/ UNCHANGED vars => Undisturbed
  BY DEF RunApplies, Kubernetes, SecretCacheSync, vars, reconcileVars
<1>6. SpecOrOrganization => Undisturbed \/ AbortReconcile
  BY DEF SpecOrOrganization, UserEdits, Provide
<1> QED
  BY <1>1, <1>2, <1>3, <1>4, <1>5, <1>6 DEF Next

\* A run starts in a workspace that has the settings, the notifications and the run
\* triggers of the reconcile's copy of the spec, as long as users leave the workspace
\* alone.  Only triggers whose creation has failed in this reconcile may be missing:
\* CheckRunTriggers drops the error (tfc_run_trigger.go 114).
THEOREM SynchronizedStarts ==
  ASSUME DistinctNames
  PROVE  Spec => []StartSynchronized
<1>1. IInv /\ SynchronizedFacts /\ [Next]_vars => (IInv /\ SynchronizedFacts)'
  BY NextIInv, NextSynchronizedFacts
<1>2. IInv /\ SynchronizedFacts => StartSynchronized
  BY DEF SynchronizedFacts, SettingsFacts, NotificationFacts, RunTriggerFacts, StartSynchronized,
         AfterSettings, AfterNotifications, AfterRunTriggers
<1> QED
  BY InitIInv, InitSynchronizedFacts, <1>1, <1>2, PTL DEF Spec
=============================================================================
