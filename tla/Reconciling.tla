----------------------------- MODULE Reconciling -----------------------------
(***************************************************************************)
(* A reconcile as the helpers of workspacehelper/tfc_org.go,               *)
(* tfc_run_trigger.go and tfc_output.go see it: they work with a copy of   *)
(* the Workspace's spec, make one call after the other, and an error of    *)
(* any call ends the reconcile.  WorkspaceSettings, Notifications, Outputs *)
(* and RunTriggers are the helpers, Synchronize puts them together.        *)
(***************************************************************************)
EXTENDS Naturals, Sequences

CONSTANTS
  None,              \* the value of a field that is not set
  Specs,             \* the specs users may give the Workspace
  Resources,         \* SSH keys, agent pools and source workspaces of the
                     \* organization that specs refer to
  Late,              \* those that may be missing at first
  MaxEdits,          \* bound: edits of the spec
  MaxOutOfBand,      \* bound: what users do in Terraform Cloud and to the Secret
  MaxAborts          \* bound: failed calls

ASSUME ReconcilingAssumption ==
  /\ None \notin Resources
  /\ MaxEdits \in Nat /\ MaxOutOfBand \in Nat /\ MaxAborts \in Nat

VARIABLES
  spec,              \* of the Workspace object
  organization,      \* those of Resources that exist
  pc,                \* the call that is due
  copy,              \* the spec the reconcile works with
  memory,            \* what the helper that is at work has in memory
  edits, outOfBand, aborts

reconcileVars == <<spec, organization, pc, copy, memory, edits, outOfBand, aborts>>

ReconcilingTypeOK ==
  /\ spec \in Specs
  /\ organization \subseteq Resources
  /\ copy \in Specs \cup {None}
  /\ pc # "idle" => copy \in Specs
  /\ edits \in 0 .. MaxEdits
  /\ outOfBand \in 0 .. MaxOutOfBand
  /\ aborts \in 0 .. MaxAborts

\* One thing that specs refer to is missing, or none.
ReconcilingInit ==
  /\ spec \in Specs
  /\ organization \in {Resources} \cup {Resources \ {r} : r \in Late}
  /\ pc = "idle" /\ copy = None /\ memory = None
  /\ edits = 0 /\ outOfBand = 0 /\ aborts = 0

\* How a step goes on: with the next call of the reconcile, or not at all.
Goto(step) ==
  pc' = step /\ UNCHANGED <<spec, organization, copy, edits, outOfBand, aborts>>

Return ==
  /\ pc' = "idle" /\ copy' = None /\ memory' = None
  /\ UNCHANGED <<spec, organization, edits, outOfBand, aborts>>

Begin(step) ==
  /\ pc = "idle"
  /\ pc' = step /\ copy' = spec
  /\ UNCHANGED <<spec, organization, memory, edits, outOfBand, aborts>>

\* An error of the call that is due, a lost answer to the one before, a crash.
AbortReconcile ==
  /\ pc # "idle"
  /\ aborts < MaxAborts
  /\ aborts' = aborts + 1
  /\ pc' = "idle" /\ copy' = None /\ memory' = None
  /\ UNCHANGED <<spec, organization, edits, outOfBand>>

UserEdits ==
  /\ edits < MaxEdits
  /\ edits' = edits + 1
  /\ spec' \in Specs \ {spec}
  /\ UNCHANGED <<organization, pc, copy, memory, outOfBand, aborts>>

\* What was missing from the organization is created.
Provide ==
  /\ organization # Resources
  /\ organization' = Resources
  /\ UNCHANGED <<spec, pc, copy, memory, edits, outOfBand, aborts>>

Intervention ==
  /\ outOfBand < MaxOutOfBand
  /\ outOfBand' = outOfBand + 1
  /\ UNCHANGED <<spec, organization, pc, copy, edits, aborts>>
=============================================================================
