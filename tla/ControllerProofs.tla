--------------------------- MODULE ControllerProofs ---------------------------
(***************************************************************************)
(* For any number of instances, edits, failures and restarts: the work     *)
(* queue is consistent, no instance is forgotten, no change is left        *)
(* waiting, and the workspaces that are recorded are their instances' own. *)
(***************************************************************************)
EXTENDS Controller, FiniteSetTheorems, SequenceTheorems, TLAPS

(***************************************************************************)
(* Sequences without duplicates.                                           *)
(***************************************************************************)
\* Appending what a sequence lacks keeps it free of duplicates.
LEMMA AppendNew ==
  ASSUME NEW S, NEW q \in Seq(S), NEW x \in S, IsInjective(q), x \notin ToSet(q)
  PROVE  /\ Append(q, x) \in Seq(S)
         /\ IsInjective(Append(q, x))
         /\ ToSet(Append(q, x)) = ToSet(q) \cup {x}
<1> DEFINE r == Append(q, x)
<1>1. r \in Seq(S) /\ DOMAIN r = 1 .. Len(q) + 1 /\ DOMAIN q = 1 .. Len(q) /\ Len(q) \in Nat
  OBVIOUS
<1>2. /\ \A i \in 1 .. Len(q) : r[i] = q[i]
      /\ r[Len(q) + 1] = x
  OBVIOUS
<1>3. \A i \in 1 .. Len(q) : q[i] # x
  BY <1>1 DEF ToSet
<1>4. IsInjective(r)
  BY <1>1, <1>2, <1>3 DEF IsInjective
<1>5. ToSet(r) = ToSet(q) \cup {x}
  BY <1>1, <1>2 DEF ToSet
<1> QED  BY <1>1, <1>4, <1>5

\* Without its head a sequence that is free of duplicates has all but that one.
LEMMA TailWithoutHead ==
  ASSUME NEW S, NEW q \in Seq(S), IsInjective(q), q # <<>>
  PROVE  /\ Head(q) \in S /\ Head(q) \in ToSet(q)
         /\ Tail(q) \in Seq(S)
         /\ IsInjective(Tail(q))
         /\ ToSet(Tail(q)) = ToSet(q) \ {Head(q)}
<1> DEFINE r == Tail(q)
<1>1. /\ r \in Seq(S) /\ Len(q) \in Nat \ {0}
      /\ DOMAIN q = 1 .. Len(q) /\ DOMAIN r = 1 .. Len(q) - 1
      /\ Head(q) = q[1]
  BY EmptySeq
<1>2. \A i \in 1 .. Len(q) - 1 : r[i] = q[i + 1]
  OBVIOUS
<1>3. IsInjective(r)
  BY <1>1, <1>2 DEF IsInjective
<1>4. Head(q) \in S /\ Head(q) \in ToSet(q)
  BY <1>1 DEF ToSet
<1>5. ASSUME NEW y \in ToSet(r)
      PROVE  y \in ToSet(q) \ {Head(q)}
  <2>1. PICK i \in 1 .. Len(q) - 1 : y = q[i + 1]
    BY <1>1, <1>2, <1>5 DEF ToSet
  <2> QED  BY <1>1, <2>1 DEF ToSet, IsInjective
<1>6. ASSUME NEW y \in ToSet(q), y # Head(q)
      PROVE  y \in ToSet(r)
  <2>1. PICK i \in 1 .. Len(q) : y = q[i]
    BY <1>1, <1>6 DEF ToSet
  <2>2. i - 1 \in 1 .. Len(q) - 1 /\ r[i - 1] = y
    BY <1>1, <1>2, <1>6, <2>1
  <2> QED  BY <1>1, <2>2 DEF ToSet
<1> QED  BY <1>1, <1>3, <1>4, <1>5, <1>6

\* The sequences that have every element of a finite set once.
LEMMA Enumeration ==
  ASSUME NEW S, IsFiniteSet(S), NEW q \in SetToSeqs(S)
  PROVE  q \in Seq(S) /\ IsInjective(q) /\ ToSet(q) = S
<1> DEFINE n == Cardinality(S)
           D == 1 .. n
<1>1. n \in Nat /\ IsFiniteSet(D) /\ Cardinality(D) = n
  BY FS_CardinalityType, FS_Interval
<1>2. q \in [D -> S] /\ \A i, j \in D : i # j => q[i] # q[j]
  BY DEF SetToSeqs
<1>3. q \in Injection(D, S)
  BY <1>2, Zenon DEF Injection, IsInjective
<1>4. q \in Surjection(D, S)
  BY <1>1, <1>3, FS_Injection
<1>5. ToSet(q) = S
  BY <1>2, <1>4 DEF ToSet, Surjection
<1>6. IsInjective(q)
  BY <1>2 DEF IsInjective
<1>7. q \in Seq(S)
  BY <1>1, <1>2
<1> QED  BY <1>5, <1>6, <1>7

(***************************************************************************)
(* The work queue.                                                         *)
(***************************************************************************)
QueueInv ==
  /\ queue \in Seq(Instances) /\ dirty \subseteq Instances /\ waiting \subseteq Instances
  /\ processing \in Instances \cup {None} /\ (processing = None <=> pc = "idle")
  /\ IsInjective(queue) /\ ToSet(queue) = dirty \ {processing}
  /\ pc = "awaitDestroy" <=> destroyRun # None

\* What is added is put in the queue unless it is in it or processed.
LEMMA AddKeepsQueue ==
  ASSUME QueueInv, NEW w \in Instances, Add(w),
         UNCHANGED <<processing, pc, destroyRun>>, waiting' \subseteq Instances
  PROVE  QueueInv'
<1>1. CASE w \in dirty \cup {processing}
  BY <1>1 DEF QueueInv, Add
<1>2. CASE w \notin dirty \cup {processing}
  <2>1. w \notin ToSet(queue) /\ queue' = Append(queue, w)
    BY <1>2 DEF QueueInv, Add
  <2>2. queue' \in Seq(Instances) /\ IsInjective(queue') /\ ToSet(queue') = ToSet(queue) \cup {w}
    BY <2>1, AppendNew DEF QueueInv
  <2> QED  BY <1>2, <2>2 DEF QueueInv, Add
<1> QED  BY <1>1, <1>2

\* The end of a reconcile takes its instance off, or puts it back in the queue.
LEMMA FinishKeepsQueue ==
  ASSUME QueueInv, pc # "idle", NEW b \in BOOLEAN, Finish(b), destroyRun' = None
  PROVE  QueueInv'
<1>0. processing \in Instances /\ processing' = None /\ None \notin Instances
  BY ControllerAssumption DEF QueueInv, Finish
<1>1. CASE processing \in dirty
  <2>1. processing \notin ToSet(queue) /\ queue' = Append(queue, processing)
    BY <1>1 DEF QueueInv, Finish
  <2>2. queue' \in Seq(Instances) /\ IsInjective(queue')
        /\ ToSet(queue') = ToSet(queue) \cup {processing}
    BY <1>0, <2>1, AppendNew DEF QueueInv
  <2> QED  BY <1>0, <1>1, <2>2 DEF QueueInv, Finish
<1>2. CASE processing \notin dirty
  BY <1>0, <1>2 DEF QueueInv, Finish
<1> QED  BY <1>1, <1>2

\* The worker takes the head of the queue.
LEMMA GetKeepsQueue ==
  ASSUME QueueInv, Get
  PROVE  QueueInv'
<1>1. /\ Head(queue) \in Instances /\ Tail(queue) \in Seq(Instances) /\ IsInjective(Tail(queue))
      /\ ToSet(Tail(queue)) = ToSet(queue) \ {Head(queue)}
  BY TailWithoutHead DEF QueueInv, Get
<1> QED  BY <1>1, ControllerAssumption DEF QueueInv, Get, cloudVars

\* Steps of a reconcile in progress leave the queue alone.
LEMMA GotoKeepsQueue ==
  ASSUME QueueInv, pc # "idle", NEW step, step # "idle", Goto(step),
         step = "awaitDestroy" <=> destroyRun' # None
  PROVE  QueueInv'
BY DEF QueueInv, Goto, queueVars

\* Every step keeps the queue in order.
LEMMA QueueStep ==
  ASSUME QueueInv, [Next]_vars
  PROVE  QueueInv'
<1> USE DEF kubeVars, queueVars, reconcileVars, cloudVars
<1>1. CASE Get
  BY <1>1, GetKeepsQueue
<1>2. CASE InitializeReconciliation
  <2>1. \/ Finish(FALSE) \/ Finish(TRUE)
        \/ Goto("condDeleteWorkspace") \/ Goto("CheckWorkspace")
    BY <1>2 DEF InitializeReconciliation
  <2>2. pc # "idle" /\ destroyRun' = None
    BY <1>2 DEF InitializeReconciliation, QueueInv
  <2> QED  BY <2>1, <2>2, FinishKeepsQueue, GotoKeepsQueue
<1>3. CASE CondDeleteWorkspace
  <2>1. \/ Goto("awaitDestroy") /\ destroyRun' # None
        \/ (Goto("DeleteWorkspace") \/ Goto("removeFinalizer")) /\ destroyRun' = None
    BY <1>3, ControllerAssumption DEF CondDeleteWorkspace, QueueInv
  <2>2. pc # "idle"
    BY <1>3 DEF CondDeleteWorkspace
  <2> QED  BY <2>1, <2>2, GotoKeepsQueue
<1>4. CASE AwaitDestroy
  <2>1. /\ pc # "idle" /\ destroyRun' = None
        /\ Finish(TRUE) \/ Goto("DeleteWorkspace")
    BY <1>4 DEF AwaitDestroy
  <2> QED  BY <2>1, FinishKeepsQueue, GotoKeepsQueue
<1>5. CASE DeleteWorkspace \/ CheckWorkspace
  <2>1. /\ pc # "idle" /\ destroyRun' = None
        /\ Goto("removeFinalizer") \/ Goto("recordWorkspaceID")
    BY <1>5 DEF DeleteWorkspace, CheckWorkspace, QueueInv
  <2> QED  BY <2>1, GotoKeepsQueue
<1>6. CASE RemoveFinalizer
  <2>1. pc # "idle" /\ destroyRun' = None /\ (Finish(TRUE) \/ Finish(FALSE))
    BY <1>6 DEF RemoveFinalizer, QueueInv
  <2> QED  BY <2>1, FinishKeepsQueue
<1>7. CASE RecordWorkspaceID \/ AddFinalizer
  <2>1. /\ pc # "idle" /\ destroyRun' = None
        /\ Goto("addFinalizer") \/ Goto("synchronize") \/ Finish(TRUE)
    BY <1>7 DEF RecordWorkspaceID, AddFinalizer, QueueInv
  <2> QED  BY <2>1, FinishKeepsQueue, GotoKeepsQueue
<1>8. CASE Synchronize \/ Fail
  <2>1. pc # "idle" /\ destroyRun' = None /\ Finish(TRUE)
    BY <1>8 DEF Synchronize, Fail, QueueInv
  <2> QED  BY <2>1, FinishKeepsQueue
<1>9. CASE Restart
  <2>1. dirty' \subseteq Instances /\ IsFiniteSet(dirty')
    BY <1>9, ControllerAssumption, FS_Subset DEF Restart
  <2>2. queue' \in Seq(dirty') /\ IsInjective(queue') /\ ToSet(queue') = dirty'
    BY <1>9, <2>1, Enumeration DEF Restart
  <2>3. queue' \in Seq(Instances)
    BY <2>1, <2>2
  <2> QED  BY <1>9, <2>1, <2>2, <2>3, ControllerAssumption DEF Restart, QueueInv
<1>10. ASSUME NEW w \in Instances, DelayExpires(w) \/ WorkspaceEvent(w)
       PROVE  QueueInv'
  <2>1. Add(w) /\ waiting' \subseteq Instances /\ UNCHANGED <<processing, pc, destroyRun>>
    BY <1>10 DEF DelayExpires, WorkspaceEvent, QueueInv
  <2> QED  BY <2>1, AddKeepsQueue
<1>11. CASE ConfigMapEvent
  <2>1. processing \in Instances
    BY <1>11 DEF ConfigMapEvent, QueueInv
  <2>2. /\ Add(processing) /\ waiting' \subseteq Instances
        /\ UNCHANGED <<processing, pc, destroyRun>>
    BY <1>11 DEF ConfigMapEvent, QueueInv
  <2> QED  BY <2>1, <2>2, AddKeepsQueue
<1>12. CASE UserWrites \/ UNCHANGED vars
  BY <1>12 DEF UserWrites, vars, QueueInv
<1>13. CASE DestroyRunEnds
  BY <1>13, ControllerAssumption DEF DestroyRunEnds, QueueInv
<1> QED
  BY <1>1, <1>2, <1>3, <1>4, <1>5, <1>6, <1>7, <1>8, <1>9, <1>10, <1>11, <1>12, <1>13
  DEF Next, Worker, Reconcile

(***************************************************************************)
(* Objects, their copies and the workspaces they record.                   *)
(***************************************************************************)
Own(w) == <<OrganizationOf[w], NameOf[w]>>

DeleteSteps == {"condDeleteWorkspace", "awaitDestroy", "DeleteWorkspace", "removeFinalizer"}
KeepSteps == {"CheckWorkspace", "recordWorkspaceID", "addFinalizer", "synchronize"}

\* A copy o of the object of w is not newer than the object, it is the object if
\* it is as new; and if it is deleted, so is the object, or it is another one of
\* the same name that no reconcile has worked on yet.
CopyOf(w, o) ==
  /\ o \in Object
  /\ o.workspaceID \in {None, Own(w)}
  /\ o.version <= objects[w].version
  /\ o.version = objects[w].version => o = objects[w]
  /\ o.phase = "deleting" => objects[w].phase = "deleting" \/ objects[w].workspaceID = None

ObjectsInv ==
  /\ objects \in [Instances -> Object] /\ cache \in [Instances -> Object]
  /\ \A w \in Instances :
       /\ CopyOf(w, objects[w]) /\ CopyOf(w, cache[w])
       /\ objects[w].workspaceID # None /\ objects[w].phase = "active" => Own(w) \in workspaces

\* The reconcile that deletes has a deleted copy, the one that does not has none;
\* the latter has written nothing before it records the workspace.
ReconcileInv ==
  /\ pc \in {"idle", "initializeReconciliation"} \cup DeleteSteps \cup KeepSteps
  /\ pc \in DeleteSteps \cup KeepSteps => CopyOf(processing, instance)
  /\ pc \in DeleteSteps => instance.phase = "deleting"
  /\ pc \in KeepSteps => instance.phase = "active" /\ Organization = OrganizationOf[processing]
  /\ pc \in {"CheckWorkspace", "recordWorkspaceID"} => instance.version <= cache[processing].version
  /\ pc = "recordWorkspaceID" => workspace = Own(processing) /\ workspace \in workspaces

Inv == QueueInv /\ ObjectsInv /\ ReconcileInv

\* The objects of two instances do not record one workspace.
LEMMA OwnDistinct ==
  ASSUME NEW v \in Instances, NEW w \in Instances, Own(v) = Own(w)
  PROVE  v = w
BY ControllerAssumption DEF Own

\* What a new version does to the object and its copies.
LEMMA WriteKeepsObjects ==
  ASSUME ObjectsInv, NEW w \in Instances, NEW o \in Object,
         o.version = objects[w].version + 1, o.workspaceID \in {None, Own(w)},
         objects' = [objects EXCEPT ![w] = o], UNCHANGED <<cache, workspaces>>,
         o.workspaceID # None /\ o.phase = "active" => Own(w) \in workspaces,
         cache[w].phase = "deleting" => o.phase = "deleting" \/ o.workspaceID = None
  PROVE  ObjectsInv'
<1>1. \A v \in Instances : objects[v] \in Object /\ cache[v] \in Object
  BY DEF ObjectsInv
<1>2. \A v \in Instances : objects'[v] = IF v = w THEN o ELSE objects[v]
  BY DEF ObjectsInv
<1>3. \A v \in Instances : objects[v].version \in Nat /\ cache[v].version \in Nat
  BY <1>1 DEF Object
<1>4. objects' \in [Instances -> Object]
  BY DEF ObjectsInv
<1>5. ASSUME NEW v \in Instances, v # w
      PROVE  /\ CopyOf(v, objects[v])' /\ CopyOf(v, cache[v])'
             /\ objects'[v].workspaceID # None /\ objects'[v].phase = "active"
                  => Own(v) \in workspaces'
  BY <1>2, <1>5 DEF ObjectsInv, CopyOf
<1>6. /\ CopyOf(w, objects[w])' /\ CopyOf(w, cache[w])'
      /\ objects'[w].workspaceID # None /\ objects'[w].phase = "active" => Own(w) \in workspaces'
  BY <1>1, <1>2, <1>3 DEF ObjectsInv, CopyOf, Object
<1> QED  BY <1>4, <1>5, <1>6 DEF ObjectsInv

\* Objects without a workspace.
LEMMA NewObjects ==
  ASSUME NEW v \in Nat
  PROVE  /\ Absent(v) \in Object /\ Absent(v).version = v /\ Absent(v).workspaceID = None
         /\ Created(v) \in Object /\ Created(v).version = v /\ Created(v).workspaceID = None
         /\ Absent(v).phase = "absent" /\ Created(v).phase = "active"
BY DEF Absent, Created, Blank, Object

\* A new version differs in nothing else.
LEMMA ModifiedObject ==
  ASSUME NEW o \in Object
  PROVE  /\ Modified(o) \in Object /\ Modified(o).version = o.version + 1
         /\ Modified(o).phase = o.phase /\ Modified(o).workspaceID = o.workspaceID
BY DEF Modified, Object

\* What a new version of the object does to another copy.
LEMMA WriteKeepsCopy ==
  ASSUME ObjectsInv, NEW w \in Instances, NEW o \in Object, o.version = objects[w].version + 1,
         objects' = [objects EXCEPT ![w] = o],
         NEW v \in Instances, NEW c, CopyOf(v, c),
         v = w /\ c.phase = "deleting" => o.phase = "deleting" \/ o.workspaceID = None
  PROVE  CopyOf(v, c)'
<1>1. objects[w] \in Object /\ objects[v] \in Object /\ c \in Object
  BY DEF ObjectsInv, CopyOf
<1>2. objects'[v] = IF v = w THEN o ELSE objects[v]
  BY DEF ObjectsInv
<1> QED  BY <1>1, <1>2 DEF CopyOf, Object

\* A step of the reconcile that leaves the objects alone.
LEMMA ReadStep ==
  ASSUME Inv, UNCHANGED <<objects, cache, workspaces>>,
         \/ Get \/ InitializeReconciliation \/ CondDeleteWorkspace \/ AwaitDestroy
         \/ Synchronize \/ Fail
  PROVE  (ObjectsInv /\ ReconcileInv)'
<1> USE DEF Inv, DeleteSteps, KeepSteps, Goto, queueVars, reconcileVars, Finish
<1>1. ObjectsInv'
  BY DEF ObjectsInv, CopyOf
<1> SUFFICES ReconcileInv'
  BY <1>1
<1>2. CASE Get
  BY <1>2 DEF Get, ReconcileInv
<1>3. CASE InitializeReconciliation
  <2>1. processing \in Instances
    BY <1>3 DEF InitializeReconciliation, QueueInv
  <2>2. CopyOf(processing, cache[processing])
        /\ cache[processing].phase \in {"absent", "active", "deleting"}
        /\ cache[processing].version \in Nat
    BY <2>1 DEF ObjectsInv, Object
  <2>3. CASE pc' = "idle"
    BY <2>3 DEF ReconcileInv
  <2>4. CASE pc' # "idle"
    <3>1. /\ cache[processing].phase # "absent" /\ instance' = cache[processing]
          /\ Organization' = OrganizationOf[processing] /\ processing' = processing
          /\ pc' = IF instance'.phase = "deleting" THEN "condDeleteWorkspace"
                                                   ELSE "CheckWorkspace"
      BY <1>3, <2>4 DEF InitializeReconciliation
    <3>2. CopyOf(processing, instance)'
      BY <2>2, <3>1 DEF CopyOf
    <3> QED  BY <2>2, <3>1, <3>2 DEF ReconcileInv
  <2> QED  BY <2>3, <2>4
<1>4. CASE CondDeleteWorkspace
  <2>1. /\ pc = "condDeleteWorkspace" /\ pc' \in DeleteSteps \ {"condDeleteWorkspace"}
        /\ UNCHANGED <<processing, instance>>
    BY <1>4 DEF CondDeleteWorkspace
  <2> QED  BY <2>1 DEF ReconcileInv, CopyOf
<1>5. CASE AwaitDestroy
  <2>1. CASE pc' = "idle"
    BY <2>1 DEF ReconcileInv
  <2>2. CASE pc' # "idle"
    <3>1. pc = "awaitDestroy" /\ pc' = "DeleteWorkspace" /\ UNCHANGED <<processing, instance>>
      BY <1>5, <2>2 DEF AwaitDestroy
    <3> QED  BY <3>1 DEF ReconcileInv, CopyOf
  <2> QED  BY <2>1, <2>2
<1>6. CASE Synchronize \/ Fail
  <2>1. pc' = "idle"
    BY <1>6 DEF Synchronize, Fail
  <2> QED  BY <2>1 DEF ReconcileInv
<1> QED  BY <1>2, <1>3, <1>4, <1>5, <1>6

\* Only the workspace of a deleted object is deleted.
LEMMA DeleteStep ==
  ASSUME Inv, DeleteWorkspace
  PROVE  (ObjectsInv /\ ReconcileInv)'
<1> USE DEF DeleteWorkspace, Goto, queueVars, kubeVars
<1>1. /\ processing \in Instances /\ CopyOf(processing, instance)
      /\ instance.phase = "deleting"
  BY DEF Inv, QueueInv, ReconcileInv, DeleteSteps
<1>2. ASSUME NEW w \in Instances, objects[w].workspaceID # None, objects[w].phase = "active"
      PROVE  Own(w) \in workspaces'
  <2>1. Own(w) \in workspaces /\ objects[w].workspaceID = Own(w)
    BY <1>2 DEF Inv, ObjectsInv, CopyOf
  <2>2. Own(w) # instance.workspaceID
    <3>1. CASE w = processing
      BY <1>1, <1>2, <3>1 DEF CopyOf
    <3>2. CASE w # processing
      BY <1>1, <1>2, <2>1, <3>2, OwnDistinct DEF CopyOf
    <3> QED  BY <3>1, <3>2
  <2> QED  BY <2>1, <2>2
<1>3. ObjectsInv'
  BY <1>2 DEF Inv, ObjectsInv, CopyOf
<1>4. ReconcileInv'
  BY <1>1 DEF ReconcileInv, DeleteSteps, KeepSteps, CopyOf
<1> QED  BY <1>3, <1>4

\* The workspace that is found or created is the one of the instance.
LEMMA CheckStep ==
  ASSUME Inv, CheckWorkspace
  PROVE  (ObjectsInv /\ ReconcileInv)'
<1> USE DEF CheckWorkspace, Goto, queueVars, kubeVars
<1>1. ObjectsInv'
  BY DEF Inv, ObjectsInv, CopyOf
<1>2. workspace' = Own(processing)
  BY DEF Inv, ReconcileInv, KeepSteps, Own
<1>3. ReconcileInv'
  BY <1>2 DEF Inv, ReconcileInv, DeleteSteps, KeepSteps, CopyOf, Own
<1> QED  BY <1>1, <1>3

\* The reconcile writes only the version that it has read.
LEMMA WriteStep ==
  ASSUME Inv, RemoveFinalizer \/ RecordWorkspaceID \/ AddFinalizer
  PROVE  (ObjectsInv /\ ReconcileInv)'
<1> DEFINE w == processing
<1>1. /\ w \in Instances /\ CopyOf(w, instance) /\ CopyOf(w, objects[w]) /\ CopyOf(w, cache[w])
      /\ UNCHANGED <<cache, workspaces, Organization>>
  BY DEF Inv, QueueInv, ReconcileInv, ObjectsInv, RemoveFinalizer, RecordWorkspaceID,
         AddFinalizer,
         DeleteSteps, KeepSteps, cloudVars
<1>2. /\ instance \in Object /\ objects[w] \in Object /\ cache[w] \in Object
      /\ instance.version \in Nat /\ objects[w].version \in Nat /\ cache[w].version \in Nat
  BY <1>1 DEF CopyOf, Object
<1>3. Fresh => instance = objects[w]
  BY <1>1 DEF Fresh, CopyOf
<1>4. ASSUME UNCHANGED objects, pc' = "idle"
      PROVE  (ObjectsInv /\ ReconcileInv)'
  BY <1>1, <1>4 DEF Inv, ObjectsInv, ReconcileInv, CopyOf, DeleteSteps, KeepSteps
<1>5. ASSUME UNCHANGED <<objects, processing, instance>>,
             \/ pc = "recordWorkspaceID" /\ pc' = "addFinalizer"
             \/ pc = "addFinalizer" /\ pc' = "synchronize"
      PROVE  (ObjectsInv /\ ReconcileInv)'
  BY <1>1, <1>5 DEF Inv, ObjectsInv, ReconcileInv, CopyOf, DeleteSteps, KeepSteps
<1>6. ASSUME NEW o \in Object, Update(o), UNCHANGED processing, o.phase = "active",
             o.version = objects[w].version, o.workspaceID \in {None, Own(w)},
             o.workspaceID # None => Own(w) \in workspaces,
             cache[w].phase = "deleting" => o.workspaceID = None,
             pc' \in {"addFinalizer", "synchronize"}, pc \in KeepSteps
      PROVE  (ObjectsInv /\ ReconcileInv)'
  <2> DEFINE n == Modified(o)
  <2>1. /\ n \in Object /\ n.version = objects[w].version + 1 /\ n.phase = "active"
        /\ n.workspaceID = o.workspaceID
    BY <1>2, <1>6, ModifiedObject
  <2>2. objects' = [objects EXCEPT ![w] = n] /\ instance' = n
    BY <1>6 DEF Update
  <2>3. ObjectsInv'
    BY <1>1, <1>6, <2>1, <2>2, WriteKeepsObjects DEF Inv
  <2>4. CopyOf(processing, instance)'
    <3>1. instance' = objects'[processing']
      BY <1>1, <1>6, <2>2 DEF Inv, ObjectsInv
    <3> QED  BY <1>1, <1>6, <2>3, <3>1 DEF ObjectsInv
  <2>5. ReconcileInv'
    BY <1>1, <1>6, <2>1, <2>2, <2>4 DEF Inv, ReconcileInv, DeleteSteps, KeepSteps
  <2> QED  BY <2>3, <2>5
<1>7. CASE RemoveFinalizer
  <2>1. CASE Fresh
    <3> DEFINE o == Absent(instance.version + 1)
    <3>1. /\ o \in Object /\ o.version = objects[w].version + 1 /\ o.workspaceID = None
      BY <1>2, <2>1, NewObjects DEF Fresh
    <3>2. objects' = [objects EXCEPT ![w] = o] /\ pc' = "idle"
      BY <1>7, <2>1 DEF RemoveFinalizer, Finish
    <3>3. ObjectsInv'
      BY <1>1, <3>1, <3>2, WriteKeepsObjects DEF Inv
    <3>4. ReconcileInv'
      BY <3>2 DEF ReconcileInv, DeleteSteps, KeepSteps
    <3> QED  BY <3>3, <3>4
  <2>2. CASE ~Fresh
    BY <1>4, <1>7, <2>2 DEF RemoveFinalizer, Finish
  <2> QED  BY <2>1, <2>2
<1>8. CASE RecordWorkspaceID
  <2>1. CASE instance.workspaceID = workspace
    BY <1>5, <1>8, <2>1 DEF RecordWorkspaceID, Goto, queueVars
  <2>2. CASE instance.workspaceID # workspace /\ Fresh
    <3> DEFINE o == [instance EXCEPT !.workspaceID = workspace]
    <3>1. /\ workspace = Own(w) /\ workspace \in workspaces /\ instance.phase = "active"
          /\ instance.version <= cache[w].version
      BY <1>8 DEF RecordWorkspaceID, Inv, ReconcileInv, KeepSteps
    <3>2. cache[w] = objects[w] /\ instance = objects[w]
      BY <1>1, <1>2, <1>3, <2>2, <3>1 DEF CopyOf
    <3>3. /\ o \in Object /\ o.phase = "active" /\ o.version = objects[w].version
          /\ o.workspaceID = Own(w)
      BY <1>1, <1>2, <3>1, <3>2 DEF Object, Own
    <3>4. /\ Update(o) /\ UNCHANGED processing /\ pc' = "addFinalizer"
          /\ pc = "recordWorkspaceID"
      BY <1>8, <2>2 DEF RecordWorkspaceID, Goto, queueVars
    <3> QED  BY <1>6, <3>1, <3>2, <3>3, <3>4 DEF KeepSteps
  <2>3. CASE instance.workspaceID # workspace /\ ~Fresh
    BY <1>4, <1>8, <2>3 DEF RecordWorkspaceID, Finish
  <2> QED  BY <2>1, <2>2, <2>3
<1>9. CASE AddFinalizer
  <2>1. CASE instance.finalizer
    BY <1>5, <1>9, <2>1 DEF AddFinalizer, Goto, queueVars
  <2>2. CASE ~instance.finalizer /\ Fresh
    <3> DEFINE o == [instance EXCEPT !.finalizer = TRUE]
    <3>1. instance.phase = "active" /\ instance = objects[w]
      BY <1>3, <1>9, <2>2 DEF AddFinalizer, Inv, ReconcileInv, KeepSteps
    <3>2. /\ o \in Object /\ o.phase = "active" /\ o.version = objects[w].version
          /\ o.workspaceID = objects[w].workspaceID
      BY <1>2, <3>1 DEF Object
    <3>3. /\ o.workspaceID \in {None, Own(w)}
          /\ o.workspaceID # None => Own(w) \in workspaces
          /\ cache[w].phase = "deleting" => o.workspaceID = None
      BY <1>1, <3>1, <3>2 DEF CopyOf, Inv, ObjectsInv
    <3>4. Update(o) /\ UNCHANGED processing /\ pc' = "synchronize" /\ pc = "addFinalizer"
      BY <1>9, <2>2 DEF AddFinalizer, Goto, queueVars
    <3> QED  BY <1>6, <3>2, <3>3, <3>4 DEF KeepSteps
  <2>3. CASE ~instance.finalizer /\ ~Fresh
    BY <1>4, <1>9, <2>3 DEF AddFinalizer, Finish
  <2> QED  BY <2>1, <2>2, <2>3
<1> QED  BY <1>7, <1>8, <1>9

\* A user's write makes a new version, and leaves a deletion as it is.
LEMMA UserStep ==
  ASSUME Inv, UserWrites
  PROVE  /\ (ObjectsInv /\ ReconcileInv)'
         /\ \E w \in Instances, o \in Object :
              objects' = [objects EXCEPT ![w] = o] /\ o.version = objects[w].version + 1
<1>1. PICK w \in Instances : UserCreates(w) \/ UserEdits(w) \/ UserDeletes(w)
  BY DEF UserWrites
<1>2. /\ objects[w] \in Object /\ objects[w].version \in Nat
      /\ CopyOf(w, objects[w]) /\ CopyOf(w, cache[w])
      /\ UNCHANGED <<cache, processing, Organization, pc, instance, workspace, workspaces>>
  BY DEF Inv, ObjectsInv, Object, UserWrites, queueVars, reconcileVars, cloudVars
<1>3. PICK o \in Object :
        /\ objects' = [objects EXCEPT ![w] = o] /\ o.version = objects[w].version + 1
        /\ o.workspaceID \in {None, objects[w].workspaceID}
        /\ o.workspaceID # None /\ o.phase = "active" => objects[w].phase = "active"
        /\ objects[w].phase = "deleting" \/ objects[w].workspaceID = None
             => o.phase = "deleting" \/ o.workspaceID = None
  <2>1. CASE UserCreates(w)
    <3> DEFINE o == Created(objects[w].version + 1)
    <3>1. o \in Object /\ o.version = objects[w].version + 1 /\ o.workspaceID = None
      BY <1>2, NewObjects
    <3>2. objects' = [objects EXCEPT ![w] = o]
      BY <2>1 DEF UserCreates
    <3> QED  BY <3>1, <3>2
  <2>2. CASE UserEdits(w)
    <3> DEFINE o == Modified(objects[w])
    <3>1. /\ o \in Object /\ o.version = objects[w].version + 1 /\ o.phase = "active"
          /\ o.workspaceID = objects[w].workspaceID /\ objects[w].phase = "active"
      BY <1>2, <2>2, ModifiedObject DEF UserEdits
    <3>2. objects' = [objects EXCEPT ![w] = o]
      BY <2>2 DEF UserEdits
    <3> QED  BY <3>1, <3>2
  <2>3. CASE UserDeletes(w)
    <3> DEFINE o == IF objects[w].finalizer
                      THEN Modified([objects[w] EXCEPT !.phase = "deleting"])
                      ELSE Absent(objects[w].version + 1)
    <3>1. /\ o \in Object /\ o.version = objects[w].version + 1 /\ objects[w].phase = "active"
          /\ \/ o.phase = "deleting" /\ o.workspaceID = objects[w].workspaceID
             \/ o.workspaceID = None
      <4>1. CASE objects[w].finalizer
        <5> DEFINE d == [objects[w] EXCEPT !.phase = "deleting"]
        <5>1. /\ d \in Object /\ d.version = objects[w].version /\ d.phase = "deleting"
              /\ d.workspaceID = objects[w].workspaceID
          BY <1>2 DEF Object
        <5> HIDE DEF d
        <5>2. o = Modified(d)
          BY <4>1 DEF d
        <5> QED  BY <2>3, <5>1, <5>2, ModifiedObject DEF UserDeletes
      <4>2. CASE ~objects[w].finalizer
        BY <1>2, <2>3, <4>2, NewObjects DEF UserDeletes
      <4> QED  BY <4>1, <4>2
    <3>2. objects' = [objects EXCEPT ![w] = o]
      BY <2>3 DEF UserDeletes
    <3> QED  BY <3>1, <3>2
  <2> QED  BY <1>1, <2>1, <2>2, <2>3
<1>4. ObjectsInv'
  BY <1>2, <1>3, WriteKeepsObjects DEF CopyOf, Inv, ObjectsInv
<1>5. pc \in DeleteSteps \cup KeepSteps => CopyOf(processing, instance)'
  <2> HAVE pc \in DeleteSteps \cup KeepSteps
  <2>1. CopyOf(processing, instance) /\ processing \in Instances
    BY DEF Inv, QueueInv, ReconcileInv, DeleteSteps, KeepSteps
  <2>2. processing = w /\ instance.phase = "deleting" => o.phase = "deleting" \/ o.workspaceID = None
    BY <1>3, <2>1 DEF CopyOf
  <2>3. \A v \in Instances : \A c :
          CopyOf(v, c) /\ (v = w /\ c.phase = "deleting"
                             => o.phase = "deleting" \/ o.workspaceID = None)
            => CopyOf(v, c)'
    BY <1>3, WriteKeepsCopy DEF Inv
  <2> QED  BY <1>2, <2>1, <2>2, <2>3 DEF CopyOf
<1>6. ReconcileInv'
  BY <1>2, <1>5 DEF Inv, ReconcileInv, DeleteSteps, KeepSteps
<1> QED  BY <1>3, <1>4, <1>6

\* The informer catches up with the object.
LEMMA EventStep ==
  ASSUME Inv, NEW w \in Instances, WorkspaceEvent(w)
  PROVE  (ObjectsInv /\ ReconcileInv)'
<1> USE DEF Inv, WorkspaceEvent, cloudVars
<1>1. ObjectsInv'
  BY DEF ObjectsInv, CopyOf
<1>2. /\ pc \in DeleteSteps \cup KeepSteps => CopyOf(processing, instance)'
      /\ pc \in {"CheckWorkspace", "recordWorkspaceID"}
           => instance.version <= cache'[processing].version
  BY DEF ReconcileInv, CopyOf, ObjectsInv, KeepSteps
<1>3. ReconcileInv'
  BY <1>2 DEF ReconcileInv, DeleteSteps, KeepSteps
<1> QED  BY <1>1, <1>3

\* Every step keeps the copies, and the workspaces that are recorded.
LEMMA ObjectsStep ==
  ASSUME Inv, [Next]_vars
  PROVE  (ObjectsInv /\ ReconcileInv)'
<1> USE DEF kubeVars, queueVars, reconcileVars, cloudVars
<1>1. CASE Get \/ InitializeReconciliation \/ CondDeleteWorkspace \/ AwaitDestroy
           \/ Synchronize \/ Fail
  <2>1. UNCHANGED <<objects, cache, workspaces>>
    BY <1>1 DEF Get, InitializeReconciliation, CondDeleteWorkspace, AwaitDestroy, Synchronize,
                Fail
  <2> QED  BY <1>1, <2>1, ReadStep
<1>2. CASE DeleteWorkspace
  BY <1>2, DeleteStep
<1>3. CASE CheckWorkspace
  BY <1>3, CheckStep
<1>4. CASE RemoveFinalizer \/ RecordWorkspaceID \/ AddFinalizer
  BY <1>4, WriteStep
<1>5. CASE Restart
  BY <1>5 DEF Restart, Inv, ObjectsInv, ReconcileInv, CopyOf, DeleteSteps, KeepSteps
<1>6. ASSUME NEW w \in Instances, WorkspaceEvent(w)
      PROVE  (ObjectsInv /\ ReconcileInv)'
  BY <1>6, EventStep
<1>7. CASE UserWrites
  BY <1>7, UserStep
<1>8. ASSUME UNCHANGED <<objects, cache, processing, Organization, pc, instance, workspace,
                         workspaces>>
      PROVE  (ObjectsInv /\ ReconcileInv)'
  BY <1>8 DEF Inv, ObjectsInv, ReconcileInv, CopyOf, DeleteSteps, KeepSteps
<1>9. ASSUME NEW w \in Instances, DelayExpires(w)
      PROVE  (ObjectsInv /\ ReconcileInv)'
  BY <1>8, <1>9 DEF DelayExpires
<1>10. CASE ConfigMapEvent \/ DestroyRunEnds \/ UNCHANGED vars
  BY <1>8, <1>10 DEF ConfigMapEvent, DestroyRunEnds, vars
<1> QED
  BY <1>1, <1>2, <1>3, <1>4, <1>5, <1>6, <1>7, <1>9, <1>10 DEF Next, Worker, Reconcile

\* The invariant holds before any object has been seen.
LEMMA InitInv == Init => Inv
<1> SUFFICES ASSUME Init PROVE Inv
  OBVIOUS
<1>1. QueueInv
  BY DEF Init, QueueInv, IsInjective, ToSet
<1>2. ObjectsInv
  <2>1. \A w \in Instances :
          /\ objects[w] = Created(1) /\ objects[w] \in Object
          /\ cache[w] = Absent(0) /\ cache[w] \in Object
    BY NewObjects DEF Init
  <2>2. objects \in [Instances -> Object] /\ cache \in [Instances -> Object]
    BY <2>1 DEF Init
  <2> QED  BY <2>1, <2>2, NewObjects DEF ObjectsInv, CopyOf
<1>3. ReconcileInv
  BY DEF Init, ReconcileInv, DeleteSteps, KeepSteps
<1> QED  BY <1>1, <1>2, <1>3 DEF Inv

\* The invariant is inductive.
LEMMA InvStep == Inv /\ [Next]_vars => Inv'
BY QueueStep, ObjectsStep DEF Inv

\* The invariant holds throughout.
LEMMA AlwaysInv == Spec => []Inv
BY InitInv, InvStep, PTL DEF Spec

(***************************************************************************)
(* The theorems.                                                           *)
(***************************************************************************)
\* The queue is consistent: what is due is in it once, and what is processed is
\* not in it.
THEOREM QueueCorrect == Spec => []TypeOK
<1>1. Inv => TypeOK
  <2> SUFFICES ASSUME Inv PROVE TypeOK
    OBVIOUS
  <2>1. \A w \in Instances : cache[w].version <= objects[w].version
    BY DEF Inv, ObjectsInv, CopyOf
  <2> QED  BY <2>1 DEF Inv, QueueInv, ObjectsInv, TypeOK
<1> QED  BY <1>1, AlwaysInv, PTL

\* With one client for all, every reconcile finds, creates and deletes its own
\* workspace.
THEOREM OwnWorkspacesOnly == Spec => []OwnWorkspaces
<1>1. Inv => OwnWorkspaces
  BY DEF Inv, ObjectsInv, CopyOf, OwnWorkspaces, Own
<1> QED  BY <1>1, AlwaysInv, PTL

\* An instance that the queue knows is dropped only by a reconcile that finds its
\* object absent or makes it so, or by a restart if it is absent.
LEMMA KnownStep ==
  ASSUME Inv, [Next]_vars, NEW w \in Instances, w \in dirty \cup waiting \cup {processing}
  PROVE  \/ w \in (dirty \cup waiting \cup {processing})'
         \/ objects'[w].phase = "absent"
         \/ cache'[w] # objects'[w]
<1> USE DEF kubeVars, queueVars, reconcileVars, cloudVars
<1>1. CASE Get
  <2>1. w # None
    BY ControllerAssumption
  <2> QED  BY <1>1, <2>1 DEF Get
<1>2. ASSUME Finish(TRUE) \/ \E step : Goto(step) /\ UNCHANGED waiting
      PROVE  w \in (dirty \cup waiting \cup {processing})'
  BY <1>2 DEF Finish, Goto
<1>3. CASE InitializeReconciliation
  <2>1. CASE cache[processing].phase = "absent"
    BY <1>3, <2>1 DEF InitializeReconciliation, Finish
  <2>2. CASE cache[processing].phase # "absent"
    BY <1>2, <1>3, <2>2 DEF InitializeReconciliation, Goto
  <2> QED  BY <2>1, <2>2
<1>4. CASE RemoveFinalizer
  <2>1. CASE Fresh
    <3>1. processing \in Instances /\ Fresh /\ instance.version \in Nat
      BY <1>4, <2>1 DEF RemoveFinalizer, Inv, QueueInv, ReconcileInv, CopyOf, Object, DeleteSteps
    <3>2. objects'[processing].phase = "absent"
      BY <1>4, <3>1, NewObjects DEF RemoveFinalizer, Inv, ObjectsInv
    <3> QED  BY <1>4, <3>2 DEF RemoveFinalizer, Finish
  <2>2. CASE ~Fresh
    BY <1>2, <1>4, <2>2 DEF RemoveFinalizer
  <2> QED  BY <2>1, <2>2
<1>5. CASE \/ CondDeleteWorkspace \/ AwaitDestroy \/ DeleteWorkspace \/ CheckWorkspace
           \/ RecordWorkspaceID \/ AddFinalizer \/ Synchronize \/ Fail
  <2>1. Finish(TRUE) \/ \E step : Goto(step)
    BY <1>5 DEF CondDeleteWorkspace, AwaitDestroy, DeleteWorkspace, CheckWorkspace,
                RecordWorkspaceID,
                AddFinalizer, Synchronize, Fail
  <2> QED  BY <1>2, <2>1 DEF Goto
<1>6. CASE Restart
  BY <1>6 DEF Restart
<1>7. ASSUME NEW v \in Instances, DelayExpires(v) \/ WorkspaceEvent(v)
      PROVE  w \in (dirty \cup waiting \cup {processing})'
  BY <1>7 DEF DelayExpires, WorkspaceEvent, Add
<1>8. CASE ConfigMapEvent \/ UserWrites \/ DestroyRunEnds \/ UNCHANGED vars
  BY <1>8 DEF ConfigMapEvent, UserWrites, DestroyRunEnds, Add, vars
<1> QED
  BY <1>1, <1>3, <1>4, <1>5, <1>6, <1>7, <1>8 DEF Next, Worker, Reconcile

\* An object that changes has a version that the informer does not have.
LEMMA NewVersion ==
  ASSUME Inv, [Next]_vars, NEW w \in Instances, objects'[w] # objects[w]
  PROVE  cache'[w] # objects'[w]
<1> USE DEF kubeVars, queueVars, reconcileVars, cloudVars
<1>1. ASSUME NEW v \in Instances, NEW o \in Object, o.version = objects[v].version + 1,
             objects' = [objects EXCEPT ![v] = o], UNCHANGED cache
      PROVE  cache'[w] # objects'[w]
  <2>1. /\ objects \in [Instances -> Object] /\ cache \in [Instances -> Object]
        /\ CopyOf(w, cache[w])
    BY DEF Inv, ObjectsInv
  <2>2. /\ cache[w].version \in Nat /\ objects[w].version \in Nat
        /\ cache[w].version <= objects[w].version
    BY <2>1 DEF Object, CopyOf
  <2>3. objects'[w].version = objects[w].version + 1
    BY <1>1, <2>1
  <2> QED  BY <1>1, <2>2, <2>3
<1>2. CASE RemoveFinalizer \/ RecordWorkspaceID \/ AddFinalizer
  <2>1. /\ processing \in Instances /\ instance \in Object /\ instance.version \in Nat
        /\ pc = "recordWorkspaceID" => workspace = Own(processing)
    BY <1>2 DEF RemoveFinalizer, RecordWorkspaceID, AddFinalizer, Inv, QueueInv, ReconcileInv,
                CopyOf,
                Object, DeleteSteps, KeepSteps
  <2>2. PICK o \in Object :
          /\ o.version = instance.version + 1 /\ objects' = [objects EXCEPT ![processing] = o]
    <3>1. CASE RemoveFinalizer
      <4> DEFINE o == Absent(instance.version + 1)
      <4>1. o \in Object /\ o.version = instance.version + 1
        BY <2>1, NewObjects
      <4>2. objects' = [objects EXCEPT ![processing] = o]
        BY <3>1 DEF RemoveFinalizer
      <4> QED  BY <4>1, <4>2
    <3>2. CASE RecordWorkspaceID
      <4> DEFINE d == [instance EXCEPT !.workspaceID = workspace]
      <4>1. d \in Object /\ d.version = instance.version
        BY <2>1, <3>2 DEF RecordWorkspaceID, Object, Own
      <4>2. objects' = [objects EXCEPT ![processing] = Modified(d)]
        BY <3>2 DEF RecordWorkspaceID, Update
      <4> QED  BY <4>1, <4>2, ModifiedObject
    <3>3. CASE AddFinalizer
      <4> DEFINE d == [instance EXCEPT !.finalizer = TRUE]
      <4>1. d \in Object /\ d.version = instance.version
        BY <2>1 DEF Object
      <4>2. objects' = [objects EXCEPT ![processing] = Modified(d)]
        BY <3>3 DEF AddFinalizer, Update
      <4> QED  BY <4>1, <4>2, ModifiedObject
    <3> QED  BY <1>2, <3>1, <3>2, <3>3
  <2>3. instance.version = objects[processing].version /\ UNCHANGED cache
    BY <1>2 DEF RemoveFinalizer, RecordWorkspaceID, AddFinalizer, Fresh
  <2> QED  BY <1>1, <2>1, <2>2, <2>3
<1>3. CASE UserWrites
  <2>1. PICK v \in Instances, o \in Object :
          objects' = [objects EXCEPT ![v] = o] /\ o.version = objects[v].version + 1
    BY <1>3, UserStep
  <2> QED  BY <1>1, <1>3, <2>1 DEF UserWrites
<1>4. \/ RemoveFinalizer \/ RecordWorkspaceID \/ AddFinalizer \/ UserWrites
      \/ UNCHANGED objects
  BY DEF Next, Worker, Reconcile, Get, InitializeReconciliation, CondDeleteWorkspace,
         AwaitDestroy,
         DeleteWorkspace, CheckWorkspace, Synchronize, Fail, Restart, ConfigMapEvent,
         DestroyRunEnds,
         DelayExpires, WorkspaceEvent, vars
<1> QED  BY <1>2, <1>3, <1>4

\* The informer catches up by an event that adds the instance, or by a restart.
LEMMA CatchUp ==
  ASSUME Inv, [Next]_vars, NEW w \in Instances, cache'[w] # cache[w]
  PROVE  w \in dirty' \/ objects'[w].phase = "absent"
<1> USE DEF kubeVars, queueVars, reconcileVars, cloudVars
<1>1. CASE Restart
  BY <1>1 DEF Restart
<1>2. ASSUME NEW v \in Instances, WorkspaceEvent(v)
      PROVE  w \in dirty'
  BY <1>2 DEF WorkspaceEvent, Add, Inv, ObjectsInv
<1>3. Restart \/ (\E v \in Instances : WorkspaceEvent(v)) \/ UNCHANGED cache
  BY DEF Next, Worker, Reconcile, Get, InitializeReconciliation, CondDeleteWorkspace,
         AwaitDestroy,
         DeleteWorkspace, RemoveFinalizer, CheckWorkspace, RecordWorkspaceID, AddFinalizer,
         Synchronize,
         Fail, ConfigMapEvent, UserWrites, DestroyRunEnds, DelayExpires, vars
<1> QED  BY <1>1, <1>2, <1>3

\* No instance whose object exists is forgotten: not by an error, nor by the
\* deletion and recreation of its object, nor by a restart.
THEOREM NothingForgotten == Spec => []NeverForgotten
<1>1. Init => NeverForgotten
  BY DEF Init, NeverForgotten, Absent, Created, Blank
<1>2. Inv /\ NeverForgotten /\ [Next]_vars => NeverForgotten'
  <2> SUFFICES ASSUME Inv, NeverForgotten, [Next]_vars, NEW w \in Instances,
                      objects'[w].phase # "absent", cache'[w] = objects'[w]
               PROVE  w \in (dirty \cup waiting \cup {processing})'
    BY DEF NeverForgotten
  <2>1. objects'[w] = objects[w]
    BY NewVersion
  <2>2. CASE cache[w] # objects[w]
    BY <2>1, <2>2, CatchUp
  <2>3. CASE cache[w] = objects[w]
    BY <2>1, <2>3, KnownStep DEF NeverForgotten
  <2> QED  BY <2>2, <2>3
<1> QED  BY <1>1, <1>2, AlwaysInv, PTL DEF Spec

\* No change that the informer has seen waits for the delay of a requeue.
THEOREM ChangesReachQueue == Spec => []ChangesQueued
<1> USE DEF kubeVars, queueVars, reconcileVars, cloudVars
<1>1. Init => ChangesQueued
  BY DEF Init, ChangesQueued
<1>2. Inv /\ ChangesQueued /\ [Next]_vars => ChangesQueued'
  <2> SUFFICES ASSUME Inv, ChangesQueued, [Next]_vars, NEW w \in Instances,
                      w \in unread', cache'[w].phase # "absent"
               PROVE  (w \in dirty \/ (w = processing /\ pc = "initializeReconciliation"))'
    BY DEF ChangesQueued
  <2>1. CASE Get
    <3>1. w # None
      BY ControllerAssumption
    <3> QED  BY <2>1, <3>1 DEF Get, ChangesQueued
  <2>2. CASE InitializeReconciliation
    BY <2>2 DEF InitializeReconciliation, ChangesQueued, Finish, Goto
  <2>3. CASE Restart
    BY <2>3 DEF Restart
  <2>4. ASSUME NEW v \in Instances, WorkspaceEvent(v)
        PROVE  w \in dirty' \/ (w = processing' /\ pc' = "initializeReconciliation")
    <3>1. CASE w = v
      BY <2>4, <3>1 DEF WorkspaceEvent, Add
    <3>2. CASE w # v
      BY <2>4, <3>2 DEF WorkspaceEvent, Add, ChangesQueued
    <3> QED  BY <3>1, <3>2
  <2>5. CASE \/ CondDeleteWorkspace \/ AwaitDestroy \/ DeleteWorkspace \/ RemoveFinalizer
             \/ CheckWorkspace \/ RecordWorkspaceID \/ AddFinalizer \/ Synchronize \/ Fail
    <3>1. /\ pc # "initializeReconciliation" /\ UNCHANGED <<cache, unread, dirty>>
      BY <2>5 DEF CondDeleteWorkspace, AwaitDestroy, DeleteWorkspace, RemoveFinalizer,
                  CheckWorkspace,
                  RecordWorkspaceID, AddFinalizer, Synchronize, Fail, Goto, Finish
    <3> QED  BY <3>1 DEF ChangesQueued
  <2>6. CASE \/ ConfigMapEvent \/ UserWrites \/ DestroyRunEnds \/ UNCHANGED vars
             \/ \E v \in Instances : DelayExpires(v)
    BY <2>6 DEF ConfigMapEvent, UserWrites, DestroyRunEnds, DelayExpires, Add, vars, ChangesQueued
  <2> QED
    BY <2>1, <2>2, <2>3, <2>4, <2>5, <2>6 DEF Next, Worker, Reconcile
<1> QED  BY <1>1, <1>2, AlwaysInv, PTL DEF Spec
=============================================================================
