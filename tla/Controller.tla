------------------------------ MODULE Controller ------------------------------
(***************************************************************************)
(* The controller (controllers/workspace_controller.go) with several       *)
(* Workspace objects: events of the informer go through a work queue to    *)
(* one worker (MaxConcurrentReconciles is left at its default), which      *)
(* calls Reconcile (workspacehelper/workspace_helper.go) for one Workspace *)
(* after the other.  The reconciles share one client of Terraform Cloud    *)
(* and with it the name of the organization that its calls use; the one    *)
(* that waits for a destroy run keeps the worker from all the others.      *)
(* What a reconcile does besides is in WorkspaceOperator and Synchronize.  *)
(***************************************************************************)
EXTENDS Naturals, SequencesExt

CONSTANTS
  None,
  Instances,         \* the namespaced names of Workspace objects
  OrganizationOf,    \* the organization of an instance's spec
  NameOf,            \* what its workspace is called in Terraform Cloud
  Organizations,
  Missing,           \* those of them that may be missing
  MaxWrites,         \* bound: creations, edits and deletions by users
  MaxFaults          \* bound: failed calls, failed destroy runs and restarts

\* No two instances name the same workspace.
ASSUME ControllerAssumption ==
  /\ \A v, w \in Instances :
       <<OrganizationOf[v], NameOf[v]>> = <<OrganizationOf[w], NameOf[w]>> => v = w
  /\ \A w \in Instances : OrganizationOf[w] \in Organizations
  /\ IsFiniteSet(Instances)
  /\ None \notin Instances \cup Organizations \cup {"pending", "applied", "errored"}
  /\ MaxWrites \in Nat /\ MaxFaults \in Nat

VARIABLES
  objects,           \* the API server's Workspaces
  cache,             \* the informer's
  queue, dirty, processing,   \* the work queue; one instance is processed, or None
  waiting,           \* instances that are to be added after a delay
  Organization,      \* of the client
  pc, instance, workspace,    \* of Reconcile: the call that is due, the copy of the
                     \* object, the workspace that was found
  organizations,     \* those of Organizations that exist
  workspaces,        \* in Terraform Cloud: pairs of organization and name
  destroyRun,        \* the run that the worker waits for: None or its status
  unread,            \* history: instances whose cached object no reconcile has read
  writes, faults

kubeVars == <<objects, cache, writes>>
queueVars == <<queue, dirty, processing, waiting>>
reconcileVars == <<Organization, pc, instance, workspace, unread>>
cloudVars == <<organizations, workspaces, destroyRun>>
vars == <<kubeVars, queueVars, reconcileVars, cloudVars, faults>>

Object ==
  [phase: {"absent", "active", "deleting"}, version: Nat,
   workspaceID: {None} \cup {<<OrganizationOf[w], NameOf[w]>> : w \in Instances},
   finalizer: BOOLEAN]

Blank(phase, version) ==
  [phase |-> phase, version |-> version, workspaceID |-> None, finalizer |-> FALSE]
Absent(version) == Blank("absent", version)
Created(version) == Blank("active", version)
Modified(object) == [object EXCEPT !.version = object.version + 1]

\* Every element of queue is dirty, and once in it; what is dirty and not in the
\* queue is being processed.
TypeOK ==
  /\ objects \in [Instances -> Object] /\ cache \in [Instances -> Object]
  /\ dirty \subseteq Instances /\ waiting \subseteq Instances
  /\ IsInjective(queue) /\ ToSet(queue) = dirty \ {processing}
  /\ processing \in Instances \cup {None} /\ (processing = None <=> pc = "idle")
  /\ pc = "awaitDestroy" <=> destroyRun # None
  /\ \A w \in Instances : cache[w].version <= objects[w].version

Init ==
  /\ objects = [w \in Instances |-> Created(1)]
  /\ cache = [w \in Instances |-> Absent(0)]
  /\ queue = <<>> /\ dirty = {} /\ processing = None /\ waiting = {}
  /\ Organization = None /\ pc = "idle" /\ instance = None /\ workspace = None
  /\ organizations \in {Organizations, Organizations \ Missing}
  /\ workspaces = {} /\ destroyRun = None
  /\ unread = {}
  /\ writes = 0 /\ faults = 0

(***************************************************************************)
(* The work queue.                                                         *)
(***************************************************************************)
\* Mutant: an item is not looked for in the queue.
AddTwice(w) ==
  /\ dirty' = dirty \cup {w}
  /\ queue' = IF w = processing THEN queue ELSE Append(queue, w)

\* Mutant: what is being processed is not added.
AddUnlessProcessing(w) ==
  IF w \in dirty \cup {processing} THEN UNCHANGED <<queue, dirty>>
  ELSE dirty' = dirty \cup {w} /\ queue' = Append(queue, w)

\* Mutant: the last one is served first.
AddInFront(w) ==
  /\ dirty' = dirty \cup {w}
  /\ queue' = IF w \in dirty \cup {processing} THEN queue ELSE <<w>> \o queue

Add(w) ==
  /\ dirty' = dirty \cup {w}
  /\ queue' = IF w \in dirty \cup {processing} THEN queue ELSE Append(queue, w)

Get ==
  /\ processing = None /\ queue # <<>>
  /\ processing' = Head(queue)
  /\ queue' = Tail(queue)
  /\ dirty' = dirty \ {Head(queue)}
  /\ pc' = "initializeReconciliation"
  /\ UNCHANGED <<kubeVars, waiting, Organization, instance, workspace, unread, cloudVars, faults>>

\* AddAfter and AddRateLimited differ in the delay only.
DelayExpires(w) ==
  /\ w \in waiting
  /\ waiting' = waiting \ {w}
  /\ Add(w)
  /\ UNCHANGED <<kubeVars, processing, reconcileVars, cloudVars, faults>>

\* Reconcile returns, with an error or a result that asks for a requeue or not;
\* what was added in the meantime goes to the queue.
Finish(requeue) ==
  /\ waiting' = IF requeue THEN waiting \cup {processing} ELSE waiting
  /\ queue' = IF processing \in dirty THEN Append(queue, processing) ELSE queue
  /\ processing' = None
  /\ pc' = "idle" /\ instance' = None /\ workspace' = None
  /\ UNCHANGED dirty

Goto(step) == pc' = step /\ UNCHANGED queueVars

(***************************************************************************)
(* Reconcile.                                                              *)
(***************************************************************************)
Fresh == instance.version = objects[processing].version

Update(object) ==
  /\ instance' = Modified(object)
  /\ objects' = [objects EXCEPT ![processing] = instance']

\* Mutant: the organization is set once.
InitializeReconciliationOnce ==
  /\ pc = "initializeReconciliation"
  /\ unread' = unread \ {processing}
  /\ instance' = cache[processing]
  /\ Organization' = IF Organization = None THEN OrganizationOf[processing] ELSE Organization
  /\ Goto(IF instance'.phase = "deleting" THEN "condDeleteWorkspace" ELSE "CheckWorkspace")
  /\ UNCHANGED <<kubeVars, workspace, cloudVars, faults>>

\* An object that is gone ends the reconcile, an organization that is missing
\* fails it, before it is known whether the object is to be deleted.
InitializeReconciliation ==
  /\ pc = "initializeReconciliation"
  /\ unread' = unread \ {processing}
  /\ UNCHANGED <<kubeVars, cloudVars, faults>>
  /\ \/ /\ cache[processing].phase = "absent"
        /\ Finish(FALSE)
        /\ UNCHANGED Organization
     \/ /\ cache[processing].phase # "absent"
        /\ Organization' = OrganizationOf[processing]
        /\ \/ /\ Organization' \notin organizations
              /\ Finish(TRUE)
           \/ /\ Organization' \in organizations
              /\ instance' = cache[processing]
              /\ Goto(IF instance'.phase = "deleting" THEN "condDeleteWorkspace"
                                                      ELSE "CheckWorkspace")
              /\ UNCHANGED workspace

\* A workspace that does not exist is not finalized; one without a run has nothing
\* to destroy.
CondDeleteWorkspace ==
  /\ pc = "condDeleteWorkspace"
  /\ LET finalize == instance.finalizer /\ instance.workspaceID \in workspaces
     IN \/ finalize /\ destroyRun' = "pending" /\ Goto("awaitDestroy")
        \/ finalize /\ UNCHANGED destroyRun /\ Goto("DeleteWorkspace")
        \/ ~finalize /\ UNCHANGED destroyRun /\ Goto("removeFinalizer")
  /\ UNCHANGED <<kubeVars, Organization, instance, workspace, unread, organizations, workspaces,
                 faults>>

\* Mutant: a failed destroy run is given up.
AwaitDestroyOnce ==
  /\ pc = "awaitDestroy" /\ destroyRun # "pending"
  /\ destroyRun' = None
  /\ IF destroyRun = "errored" THEN Finish(FALSE)
     ELSE Goto("DeleteWorkspace") /\ UNCHANGED <<instance, workspace>>
  /\ UNCHANGED <<kubeVars, Organization, unread, organizations, workspaces, faults>>

\* While the run is pending the worker sleeps and polls.
AwaitDestroy ==
  /\ pc = "awaitDestroy" /\ destroyRun # "pending"
  /\ destroyRun' = None
  /\ IF destroyRun = "errored" THEN Finish(TRUE)
     ELSE Goto("DeleteWorkspace") /\ UNCHANGED <<instance, workspace>>
  /\ UNCHANGED <<kubeVars, Organization, unread, organizations, workspaces, faults>>

DeleteWorkspace ==
  /\ pc = "DeleteWorkspace"
  /\ workspaces' = workspaces \ {instance.workspaceID}
  /\ Goto("removeFinalizer")
  /\ UNCHANGED <<kubeVars, Organization, instance, workspace, unread, organizations, destroyRun, faults>>

\* Once the object is gone it is not requeued.
RemoveFinalizer ==
  /\ pc = "removeFinalizer"
  /\ Finish(~Fresh)
  /\ objects' = IF Fresh
                  THEN [objects EXCEPT ![processing] = Absent(instance.version + 1)]
                  ELSE objects
  /\ UNCHANGED <<cache, writes, Organization, unread, cloudVars, faults>>

CheckWorkspace ==
  /\ pc = "CheckWorkspace"
  /\ workspace' = <<Organization, NameOf[processing]>>
  /\ workspaces' = workspaces \cup {workspace'}
  /\ Goto("recordWorkspaceID")
  /\ UNCHANGED <<kubeVars, Organization, instance, unread, organizations, destroyRun, faults>>

RecordWorkspaceID ==
  /\ pc = "recordWorkspaceID"
  /\ UNCHANGED <<cache, writes, Organization, unread, cloudVars, faults>>
  /\ \/ /\ instance.workspaceID = workspace
        /\ Goto("addFinalizer")
        /\ UNCHANGED <<objects, instance, workspace>>
     \/ /\ instance.workspaceID # workspace /\ Fresh
        /\ Update([instance EXCEPT !.workspaceID = workspace])
        /\ Goto("addFinalizer")
        /\ UNCHANGED workspace
     \/ /\ instance.workspaceID # workspace /\ ~Fresh
        /\ Finish(TRUE)
        /\ UNCHANGED objects

AddFinalizer ==
  /\ pc = "addFinalizer"
  /\ UNCHANGED <<cache, writes, Organization, unread, cloudVars, faults>>
  /\ \/ /\ instance.finalizer
        /\ Goto("synchronize")
        /\ UNCHANGED <<objects, instance, workspace>>
     \/ /\ ~instance.finalizer /\ Fresh
        /\ Update([instance EXCEPT !.finalizer = TRUE])
        /\ Goto("synchronize")
        /\ UNCHANGED workspace
     \/ /\ ~instance.finalizer /\ ~Fresh
        /\ Finish(TRUE)
        /\ UNCHANGED objects

\* Mutant: the workspace is not looked at again until an event.
SynchronizeOnce ==
  /\ pc = "synchronize"
  /\ Finish(FALSE)
  /\ UNCHANGED <<kubeVars, Organization, unread, cloudVars, faults>>

\* Whether a run is in progress, has been started or is not due: the reconcile
\* is to be repeated.
Synchronize ==
  /\ pc = "synchronize"
  /\ Finish(TRUE)
  /\ UNCHANGED <<kubeVars, Organization, unread, cloudVars, faults>>

Reconcile ==
  \/ InitializeReconciliation
  \/ CondDeleteWorkspace \/ AwaitDestroy \/ DeleteWorkspace \/ RemoveFinalizer
  \/ CheckWorkspace \/ RecordWorkspaceID \/ AddFinalizer \/ Synchronize

\* The call that is due fails.
Fail ==
  /\ pc \notin {"idle", "initializeReconciliation"} /\ faults < MaxFaults
  /\ faults' = faults + 1
  /\ destroyRun' = None
  /\ Finish(TRUE)
  /\ UNCHANGED <<kubeVars, Organization, unread, organizations, workspaces>>

\* The queue is lost; the new informer adds what it finds, in any order.
Restart ==
  /\ faults < MaxFaults
  /\ faults' = faults + 1
  /\ cache' = objects
  /\ dirty' = {w \in Instances : objects[w].phase # "absent"} /\ unread' = dirty'
  /\ queue' \in SetToSeqs(dirty')
  /\ processing' = None /\ waiting' = {}
  /\ Organization' = None /\ pc' = "idle" /\ instance' = None /\ workspace' = None
  /\ destroyRun' = None
  /\ UNCHANGED <<objects, writes, organizations, workspaces>>

(***************************************************************************)
(* Terraform Cloud, users and the informer.                                *)
(***************************************************************************)
DestroyRunEnds ==
  /\ destroyRun = "pending"
  /\ \/ destroyRun' = "applied" /\ UNCHANGED faults
     \/ destroyRun' = "errored" /\ faults < MaxFaults /\ faults' = faults + 1
  /\ UNCHANGED <<kubeVars, queueVars, reconcileVars, organizations, workspaces>>

UserCreates(w) ==
  objects[w].phase = "absent" /\ objects' = [objects EXCEPT ![w] = Created(@.version + 1)]

UserEdits(w) ==
  objects[w].phase = "active" /\ objects' = [objects EXCEPT ![w] = Modified(objects[w])]

\* The finalizer defers the deletion.
UserDeletes(w) ==
  /\ objects[w].phase = "active"
  /\ objects' = [objects EXCEPT ![w] =
       IF objects[w].finalizer THEN Modified([objects[w] EXCEPT !.phase = "deleting"])
                               ELSE Absent(objects[w].version + 1)]

UserWrites ==
  /\ writes < MaxWrites
  /\ writes' = writes + 1
  /\ \E w \in Instances : UserCreates(w) \/ UserEdits(w) \/ UserDeletes(w)
  /\ UNCHANGED <<cache, queueVars, reconcileVars, cloudVars, faults>>

\* Watch of the Workspaces: the informer takes over an object and adds its name.
WorkspaceEvent(w) ==
  /\ cache[w] # objects[w]
  /\ cache' = [cache EXCEPT ![w] = objects[w]]
  /\ unread' = unread \cup {w}
  /\ Add(w)
  /\ UNCHANGED <<objects, writes, processing, waiting, Organization, pc, instance, workspace,
                 cloudVars, faults>>

\* Watch of the ConfigMaps: the reconcile has written the one of its instance.
ConfigMapEvent ==
  /\ pc = "synchronize"
  /\ Add(processing)
  /\ UNCHANGED <<kubeVars, processing, waiting, reconcileVars, cloudVars, faults>>

Worker == Get \/ Reconcile

Next ==
  \/ Worker \/ Fail \/ Restart
  \/ \E w \in Instances : DelayExpires(w) \/ WorkspaceEvent(w)
  \/ ConfigMapEvent
  \/ UserWrites \/ DestroyRunEnds

Spec == Init /\ [][Next]_vars

\* The worker goes on, delays expire, events arrive, destroy runs end.
FairSpec ==
  /\ Spec
  /\ WF_vars(Worker) /\ WF_vars(DestroyRunEnds)
  /\ \A w \in Instances : WF_vars(DelayExpires(w)) /\ WF_vars(WorkspaceEvent(w))

(***************************************************************************)
(* Properties.                                                             *)
(***************************************************************************)
\* Whatever the worker did for others in between, a workspace that an object
\* records is that of its own organization and name, and it is there until the
\* object is deleted.
OwnWorkspaces ==
  \A w \in Instances :
    objects[w].workspaceID # None =>
      /\ objects[w].workspaceID = <<OrganizationOf[w], NameOf[w]>>
      /\ objects[w].phase = "active" => objects[w].workspaceID \in workspaces

\* An object that exists is in the queue, is processed, will be added after a
\* delay, or an event of it is due: no error, no deletion of an object of the
\* same name and no restart makes the controller forget it.
NeverForgotten ==
  \A w \in Instances :
    objects[w].phase # "absent" =>
      w \in dirty \cup waiting \cup {processing} \/ cache[w] # objects[w]

\* What the informer has and no reconcile has read yet is processed without delay,
\* also when it came while its instance was being processed (workspace_helper.go
\* 546: "if any event takes place between requeues will not be blocked").
ChangesQueued ==
  \A w \in Instances :
    cache[w].phase # "absent" /\ w \in unread =>
      w \in dirty \/ (w = processing /\ pc = "initializeReconciliation")

\* However often others have events, failures and destroy runs, every object is
\* reconciled again and again.
ServedAgain ==
  \A w \in Instances : []<>(processing = w \/ objects[w].phase = "absent")

\* No object stays deleted and there, however many are deleted at once, unless its
\* organization does not exist.
DeletionsComplete ==
  \A w \in Instances :
    []<>(objects[w].phase # "deleting" \/ OrganizationOf[w] \notin organizations)
=============================================================================
