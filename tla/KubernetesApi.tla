---------------------------- MODULE KubernetesApi ----------------------------
(***************************************************************************)
(* The Kubernetes API server and the informer cache the operator reads     *)
(* from, for one Workspace object and the objects it owns: the ConfigMap   *)
(* of its Terraform template and the Secret of its outputs.  This is not   *)
(* code of the operator: it is modelled from how workspacehelper uses      *)
(* the controller-runtime client.                                          *)
(*                                                                         *)
(* Reads are served by the cache, which follows the API server with a      *)
(* delay.  Writes go to the API server and carry the resource version the  *)
(* object was read at: a write based on an older version is a conflict.    *)
(* Resource versions are not counted; a boolean says whether a copy is at  *)
(* the API server's version.                                               *)
(***************************************************************************)
EXTENDS TerraformCloud

CONSTANTS
  Specs,             \* the specs users may give the Workspace
  Timely,            \* what is never late, see below
  KindEdits,         \* an edit may replace a module by a VCS repository and back
  MaxEdits           \* bound: how often users write the Workspace

\* Timely names what is never late: the cached Workspace and the cached
\* ConfigMap are up to date when they are read, an uploaded archive is processed
\* before its status is read.

\* Spec.Organization; the main.tf that Spec.Organization, Spec.Module,
\* Spec.Outputs and the variables' names render to; the value of the one
\* variable; the one run trigger; whether Spec.VCS is set.
WorkspaceSpec ==
  [organization: Organizations, template: Templates, value: Values,
   trigger: Triggers \cup {None}, vcs: BOOLEAN]

ASSUME KubernetesApiAssumption ==
  /\ Specs \subseteq WorkspaceSpec
  /\ Timely \subseteq {"workspace", "configMap", "upload"}
  /\ KindEdits \in BOOLEAN
  /\ MaxEdits \in Nat

\* main.tf names the organization in its backend block.
ASSUME OrganizationInTemplate ==
  \A s, t \in Specs :
    ~s.vcs /\ ~t.vcs /\ s.template = t.template => s.organization = t.organization

VARIABLES
  cr,                \* the Workspace at the API server
  cached,            \* the informer's copy of it
  cacheFresh,        \* the informer's copy is at the API server's version
  configMap, cachedConfigMap,
  secret,
  edits              \* user writes so far

kubeVars == <<cr, cached, cacheFresh, configMap, cachedConfigMap, secret, edits>>

\* Outputs are named by the state they were read from and its workspace; None
\* is the empty list.
Outputs == [workspace: WorkspaceIDs, config: Configs] \cup {None}

WorkspaceStatus ==
  [workspaceID: WorkspaceIDs \cup {None}, runID: RunIDs \cup {None},
   runStatus: PendingStatuses \cup FinalStatuses \cup {""},
   configVersionID: ConfigVersionIDs \cup {None}, outputs: Outputs]

BlankStatus ==
  [workspaceID |-> None, runID |-> None, runStatus |-> "",
   configVersionID |-> None, outputs |-> None]

\* "deleting": the deletion timestamp is set and a finalizer holds the object.
Object == [phase: {"active", "deleting", "gone"}, spec: Specs,
           finalizer: BOOLEAN, status: WorkspaceStatus]

KubernetesApiTypeOK ==
  /\ cr \in Object
  /\ cached \in Object
  /\ cacheFresh \in BOOLEAN
  /\ configMap \in Templates \cup {None}
  /\ cachedConfigMap \in Templates \cup {None}
  /\ secret \in {None} \cup [outputs: Outputs]
  /\ edits \in 0 .. MaxEdits

\* A user has just created the object and the cache has seen it.
KubernetesApiInit ==
  /\ cr \in [phase: {"active"}, spec: Specs, finalizer: {FALSE},
             status: {BlankStatus}]
  /\ cached = cr
  /\ cacheFresh = TRUE
  /\ configMap = None
  /\ cachedConfigMap = None
  /\ secret = None
  /\ edits = 0

\* A user changes the spec, or only the metadata when the spec stays the same.
UserEdits ==
  /\ cr.phase = "active"
  /\ edits < MaxEdits
  /\ edits' = edits + 1
  /\ \E s \in Specs :
       /\ KindEdits \/ s.vcs = cr.spec.vcs
       /\ cr' = [cr EXCEPT !.spec = s]
  /\ cacheFresh' = FALSE
  /\ UNCHANGED <<cached, configMap, cachedConfigMap, secret>>

\* A user deletes the Workspace: without a finalizer it is gone at once.
UserDeletes ==
  /\ cr.phase = "active"
  /\ cr' = [cr EXCEPT !.phase = IF cr.finalizer THEN "deleting" ELSE "gone"]
  /\ cacheFresh' = FALSE
  /\ UNCHANGED <<cached, configMap, cachedConfigMap, secret, edits>>

\* The informer catches up.
CacheSync ==
  /\ ~cacheFresh
  /\ cached' = cr
  /\ cacheFresh' = TRUE
  /\ UNCHANGED <<cr, configMap, cachedConfigMap, secret, edits>>

ConfigMapCacheSync ==
  /\ cachedConfigMap # configMap
  /\ cachedConfigMap' = configMap
  /\ UNCHANGED <<cr, cached, cacheFresh, configMap, secret, edits>>

\* The ConfigMap and the Secret are owned by the Workspace.
GarbageCollect ==
  /\ cr.phase = "gone"
  /\ configMap # None \/ secret # None
  /\ configMap' = None
  /\ secret' = None
  /\ UNCHANGED <<cr, cached, cacheFresh, cachedConfigMap, edits>>

\* A write of the Workspace at the API server's version.  One that changes
\* nothing keeps the version.
WriteObject(object) ==
  /\ cr' = object
  /\ cacheFresh' = (cacheFresh /\ object = cr)
  /\ UNCHANGED cached
=============================================================================
