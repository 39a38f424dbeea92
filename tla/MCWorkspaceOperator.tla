------------------------- MODULE MCWorkspaceOperator -------------------------
(* Finite instances of WorkspaceOperator for TLC. *)
EXTENDS WorkspaceOperator

CONSTANTS org1, org2, t1, t2, v1, v2, source1

MCSpec(o, t, v, trigger, vcs) ==
  [organization |-> o, template |-> t, value |-> v, trigger |-> trigger,
   vcs |-> vcs]

\* Module-backed specs that differ in the template.
ModuleSpecs == {MCSpec(org1, t, v1, None, FALSE) : t \in {t1, t2}}

\* One module-backed spec, for runs without edits.
OneModuleSpec == {MCSpec(org1, t1, v1, None, FALSE)}

\* VCS-backed specs that differ in the variable.
VCSSpecs == {MCSpec(org1, t1, v, None, TRUE) : v \in {v1, v2}}

\* Specs of both kinds; edits keep the kind.
ModuleAndVCSSpecs == ModuleSpecs \cup VCSSpecs

\* Module-backed specs that differ in the template, the variable or the trigger.
MixedSpecs ==
  {MCSpec(org1, t1, v1, None, FALSE), MCSpec(org1, t2, v1, None, FALSE),
   MCSpec(org1, t1, v2, None, FALSE), MCSpec(org1, t1, v1, source1, FALSE)}

\* Specs of either kind that differ in the variable, for runs without edits.
VariableSpecs == {MCSpec(org1, t1, v, None, vcs) : v \in {v1, v2}, vcs \in BOOLEAN}

\* Module-backed specs that differ in the organization, and so in the template.
OrganizationSpecs ==
  {MCSpec(org1, t1, v1, None, FALSE), MCSpec(org2, t2, v1, None, FALSE)}

\* While a configuration version is pending an edit is lost.
NotWhilePending == Steps \ {"readConfigVersion", "resetConfigVersion"}

\* Every call may fail.
AnyStep == Steps \ {"idle"}
=============================================================================
