------------------------- MODULE WorkspaceLifecycle -------------------------
(***************************************************************************)
(* What the operator promises about the infrastructure of one Workspace,   *)
(* without saying how: the Workspace gets a workspace of Terraform Cloud,  *)
(* then a finalizer, and only then runs.  Runs alone create and destroy    *)
(* infrastructure, and the Workspace is let go when no run and no          *)
(* infrastructure is left.  WorkspaceOperator implements it.               *)
(***************************************************************************)
CONSTANTS None, WorkspaceIDs, RunIDs

VARIABLES
  phase,             \* of the Workspace: "active", "deleting" or "gone"
  held,              \* the finalizer is in place
  workspace,         \* the workspace on record, or None
  attended,          \* the operator's unfinished runs
  resources          \* some workspace has infrastructure

vars == <<phase, held, workspace, attended, resources>>

Init ==
  /\ phase = "active"
  /\ held = FALSE
  /\ workspace = None
  /\ attended = {}
  /\ resources = FALSE

Record(w) ==
  /\ phase = "active"
  /\ workspace' = w
  /\ UNCHANGED <<phase, held, attended, resources>>

Hold ==
  /\ phase = "active"
  /\ workspace # None
  /\ held' = TRUE
  /\ UNCHANGED <<phase, workspace, attended, resources>>

Start(r) ==
  /\ held
  /\ attended' = attended \cup {r}
  /\ UNCHANGED <<phase, held, workspace, resources>>

\* Runs end, alone or together with their workspace.
End(ended) ==
  /\ ended # {}
  /\ attended' = attended \ ended
  /\ resources' \in BOOLEAN
  /\ UNCHANGED <<phase, held, workspace>>

Delete ==
  /\ phase = "active"
  /\ phase' = IF held THEN "deleting" ELSE "gone"
  /\ UNCHANGED <<held, workspace, attended, resources>>

Release ==
  /\ phase = "deleting"
  /\ attended = {}
  /\ ~resources
  /\ phase' = "gone"
  /\ held' = FALSE
  /\ UNCHANGED <<workspace, attended, resources>>

Next ==
  \/ \E w \in WorkspaceIDs : Record(w)
  \/ Hold
  \/ \E r \in RunIDs : Start(r)
  \/ \E ended \in SUBSET attended : End(ended)
  \/ Delete
  \/ Release

Spec == Init /\ [][Next]_vars

\* Whatever runs or exists is held, and what is held is known by a workspace.
HeldWhileInUse ==
  /\ attended # {} \/ resources => held
  /\ held => workspace # None /\ phase # "gone"
=============================================================================
