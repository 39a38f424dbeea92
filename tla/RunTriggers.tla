----------------------------- MODULE RunTriggers -----------------------------
(***************************************************************************)
(* CheckRunTriggers (workspacehelper/tfc_run_trigger.go): run triggers of  *)
(* the workspace that the spec lacks are deleted, those the workspace      *)
(* lacks are created; a creation is reported as an update.  A trigger is   *)
(* known by the name of its source workspace.                              *)
(*                                                                         *)
(* While the helper and the rest of the reconcile are at work, memory.lost *)
(* are the triggers whose creation has failed without the code noticing:   *)
(* no variable of the code, but what the properties compare with.          *)
(***************************************************************************)
EXTENDS Reconciling

CONSTANT Refused     \* source workspaces whose triggers Terraform Cloud does not create

ASSUME RunTriggersAssumption == Refused \subseteq Resources

VARIABLE runTriggers

\* Mutant: only a workspace without triggers gets them.
ListFirstRunTriggers ==
  /\ pc = "runTriggers"
  /\ memory' = [deletes |-> {}, updated |-> FALSE, lost |-> {},
                creates |-> IF runTriggers = {} THEN DOMAIN copy.runTriggers ELSE {}]
  /\ Goto("changeRunTriggers")
  /\ UNCHANGED runTriggers

\* The lists are compared once, before the first call.  What is to be created is
\* known by its place in the spec.
ListRunTriggers ==
  /\ pc = "runTriggers"
  /\ memory' = [deletes |-> runTriggers \ {copy.runTriggers[i] : i \in DOMAIN copy.runTriggers},
                creates |-> {i \in DOMAIN copy.runTriggers : copy.runTriggers[i] \notin runTriggers},
                updated |-> FALSE, lost |-> {}]
  /\ Goto("changeRunTriggers")
  /\ UNCHANGED runTriggers

DeleteRunTrigger ==
  /\ pc = "changeRunTriggers"
  /\ \E s \in memory.deletes :
       IF s \in runTriggers
         THEN /\ runTriggers' = runTriggers \ {s}
              /\ memory' = [memory EXCEPT !.deletes = @ \ {s}]
              /\ Goto("changeRunTriggers")
         ELSE Return /\ UNCHANGED runTriggers

\* Place i of the spec is dealt with.
WithCreated(i, lost) ==
  [memory EXCEPT !.creates = @ \ {i}, !.updated = TRUE, !.lost = lost]

\* The creation of trigger s succeeds, or fails and its error is dropped: for good
\* when the source is refused, or this time.
TriggerCreated(s) ==
  /\ s \notin Refused
  /\ runTriggers' = runTriggers \cup {s}
  /\ UNCHANGED aborts

TriggerLost(s) ==
  /\ \/ s \in Refused /\ UNCHANGED aborts
     \/ s \notin Refused /\ aborts < MaxAborts /\ aborts' = aborts + 1
  /\ UNCHANGED runTriggers

\* A source workspace that does not exist is an error, and with it the triggers
\* created before go unreported.  An error of the creation itself is not looked at:
\* the trigger counts as created, and the loop goes on.
CreateRunTrigger ==
  /\ pc = "changeRunTriggers"
  /\ memory.deletes = {}
  /\ \E i \in memory.creates :
       LET s == copy.runTriggers[i]
       IN /\ \A j \in memory.creates : i <= j
          /\ \/ s \notin organization /\ Return /\ UNCHANGED runTriggers
             \/ /\ s \in organization
                /\ \/ TriggerCreated(s) /\ memory' = WithCreated(i, memory.lost)
                   \/ TriggerLost(s) /\ memory' = WithCreated(i, memory.lost \cup {s})
                /\ UNCHANGED <<spec, organization, pc, copy, edits, outOfBand>>

\* Mutant: any trigger of the spec is reported as created.
RunTriggersReported(next) ==
  /\ pc = "changeRunTriggers"
  /\ memory.deletes = {} /\ memory.creates = {}
  /\ memory' = [updated |-> copy.runTriggers # <<>>, lost |-> memory.lost]
  /\ Goto(next)
  /\ UNCHANGED runTriggers

RunTriggersChecked(next) ==
  /\ pc = "changeRunTriggers"
  /\ memory.deletes = {} /\ memory.creates = {}
  /\ memory' = [updated |-> memory.updated, lost |-> memory.lost]
  /\ Goto(next)
  /\ UNCHANGED runTriggers

runTriggerSteps(next) ==
  ListRunTriggers \/ DeleteRunTrigger \/ CreateRunTrigger \/ RunTriggersChecked(next)

\* A user adds or deletes a run trigger in Terraform Cloud.
UserChangesRunTriggers(sources) ==
  \/ \E s \in runTriggers : runTriggers' = runTriggers \ {s}
  \/ \E s \in (sources \cap organization) \ Refused :
       runTriggers' = runTriggers \cup {s}

\* The workspace has the run triggers of spec s, or without some of them.
WantedRunTriggers(s) == {s.runTriggers[i] : i \in DOMAIN s.runTriggers}
RunTriggersBut(s, missing) ==
  /\ runTriggers \subseteq WantedRunTriggers(s)
  /\ WantedRunTriggers(s) \ missing \subseteq runTriggers
=============================================================================
