------------------------------ MODULE Variables ------------------------------
(***************************************************************************)
(* updateVariables (workspacehelper/workspace_helper.go): references of    *)
(* the spec to ConfigMaps and Secrets are resolved, and CheckVariables     *)
(* (tfc_variable.go) brings the variables of the workspace to those of the *)
(* spec, one call to Terraform Cloud at a time; a run is started when a    *)
(* variable has been updated.                                              *)
(*                                                                         *)
(* The comparison is made once, against the list read at the beginning; a  *)
(* failed call ends it, and the next reconcile compares anew.  What the    *)
(* loop does around it is in WorkspaceOperator, where all of CheckVariables *)
(* is one step for one variable.                                           *)
(***************************************************************************)
EXTENDS Naturals, Sequences, FiniteSets, Functions, SequencesExt

CONSTANTS
  None,              \* the value of a Go field or pointer that is unset
  Keys,
  Values,            \* of variables and of secrets, none empty; MapToTFCVariable trims
                     \* a newline at the end
  MountKeys,         \* the keys that the secrets mount may have files for
  Refs,              \* the keys of ConfigMaps and Secrets that specs refer to
  Specs,             \* the variables users may ask for: sequences of SpecVariable
  MaxEdits,          \* bound: edits of the spec, of references and of mounted secrets
  MaxOutOfBand,      \* bound: changes users make in Terraform Cloud
  MaxAborts          \* bound: failed calls

\* category is not compared and not updated; None is the value of a sensitive
\* variable that is read from the secrets mount, and what Terraform Cloud lists
\* as the value of a sensitive variable.
Variable ==
  [key: Keys, category: {"terraform", "env"}, value: Values \cup {None},
   hcl: BOOLEAN, sensitive: BOOLEAN]

\* A variable as the spec has it: with a reference (valueFrom), or with None.
SpecVariable == [variable: Variable, from: Refs \cup {None}]

\* A non-sensitive variable has a value or a reference, and references are to a
\* ConfigMap for non-sensitive variables, to a Secret for the others: anything
\* else is an error in every reconcile.
ASSUME VariablesAssumption ==
  /\ None \notin Keys \cup Values \cup Refs
  /\ MountKeys \subseteq Keys
  /\ Specs \subseteq
       Seq({s \in SpecVariable : s.variable.value # None \/ s.variable.sensitive \/ s.from # None})
  /\ MaxEdits \in Nat /\ MaxOutOfBand \in Nat /\ MaxAborts \in Nat

VARIABLES
  variables,         \* of the workspace
  specVariables,     \* of the Workspace object
  mount,             \* the mounted secret of a key, or None without a file
  references,        \* what ConfigMaps and Secrets hold, as far as the operator's
                     \* cache has it, or None
  executed,          \* the variables of the last run, or None
  pc,
  local,             \* what CheckVariables has in memory
  edits, outOfBand, aborts

vars ==
  <<variables, specVariables, mount, references, executed, pc, local, edits, outOfBand, aborts>>

\* instance and spec are the variables before and after their references are
\* resolved, listed is the list they are compared with; deletes are places in
\* listed, the others places in spec, where calls are still to be made.
Locals ==
  [instance: Seq(SpecVariable), spec: Seq(Variable), listed: Seq(Variable),
   deletes: SUBSET Nat, creates: SUBSET Nat, updates: SUBSET Nat, secrets: SUBSET Nat]

NoLocals ==
  [instance |-> <<>>, spec |-> <<>>, listed |-> <<>>,
   deletes |-> {}, creates |-> {}, updates |-> {}, secrets |-> {}]

\* The calls are made in three phases, and nothing outlives CheckVariables.
TypeOK ==
  /\ variables \subseteq Variable /\ IsFiniteSet(variables)
  /\ specVariables \in Specs
  /\ mount \in [MountKeys -> Values \cup {None}]
  /\ references \in [Refs -> Values \cup {None}]
  /\ executed # None => executed \subseteq Variable
  /\ pc \in {"idle", "resolving", "checking", "updating", "startRun"}
  /\ local \in Locals
  /\ pc \in {"idle", "startRun"} => local = NoLocals
  /\ pc = "updating" => local.deletes = {} /\ local.creates = {}
  /\ edits \in 0 .. MaxEdits
  /\ outOfBand \in 0 .. MaxOutOfBand
  /\ aborts \in 0 .. MaxAborts

Init ==
  /\ variables = {}
  /\ specVariables \in Specs
  /\ mount \in [MountKeys -> Values \cup {None}]
  /\ references \in [Refs -> Values \cup {None}]
  /\ executed = None
  /\ pc = "idle"
  /\ local = NoLocals
  /\ edits = 0 /\ outOfBand = 0 /\ aborts = 0

(***************************************************************************)
(* Terraform Cloud: a variable is known by its ID; in a workspace no two   *)
(* have the same key and category.  The model takes these for the ID, which *)
(* is the same as long as users do not delete and recreate a variable.     *)
(***************************************************************************)
SameID(v, w) == v.key = w.key /\ v.category = w.category
Exists(v) == \E w \in variables : SameID(w, v)
Without(v) == {w \in variables : ~SameID(w, v)}
Hidden(v) == IF v.sensitive THEN [v EXCEPT !.value = None] ELSE v
Listed == {Hidden(v) : v \in variables}

(***************************************************************************)
(* References: of a variable that is not sensitive, unless it has a value, *)
(* and of one that is.                                                     *)
(***************************************************************************)
GetConfigMapForVariable(s) ==
  IF s.variable.value # None THEN s.variable
                             ELSE [s.variable EXCEPT !.value = references[s.from]]

GetSecretForVariable(s) ==
  IF s.from = None THEN s.variable ELSE [s.variable EXCEPT !.value = references[s.from]]

Resolved(s) ==
  IF s.variable.sensitive THEN GetSecretForVariable(s) ELSE GetConfigMapForVariable(s)

Dangling(s) == s.from # None /\ Resolved(s).value = None

(***************************************************************************)
(* The comparison.                                                         *)
(***************************************************************************)
\* The place of the first variable with the key, whatever its category, or 0.
find(list, key) == SelectInSeq(list, LAMBDA v : v.key = key)

\* Mutant: only the value counts.
ValueChanged(v, w) == v.value # w.value

checkIfVariableChanged(v, w) ==
  v.value # w.value \/ v.hcl # w.hcl \/ (~v.sensitive /\ w.sensitive)

\* The listed variable that has the key of v.
Found(v) == local.listed[find(local.listed, v.key)]
ListedAs(sensitive) ==
  {i \in DOMAIN local.spec : /\ find(local.listed, local.spec[i].key) # 0
                             /\ Found(local.spec[i]).sensitive = sensitive}

\* Mutant: sensitive variables, too, are compared with what is listed for them.
VariablesToUpdate ==
  {i \in ListedAs(FALSE) \cup ListedAs(TRUE) :
     checkIfVariableChanged(local.spec[i], Found(local.spec[i]))}

getNonSensitiveVariablesToUpdate ==
  {i \in ListedAs(FALSE) : checkIfVariableChanged(local.spec[i], Found(local.spec[i]))}

\* checkAndRetrieveIfSensitive: a sensitive variable without a value is read
\* from the secrets mount, where its file may be missing.
FromMount(v) == v.sensitive /\ v.value = None

\* Mutant: a file that is missing reads as an empty one.
UnreadableKey(v) == FromMount(v) /\ v.key \notin MountKeys

Unreadable(v) == FromMount(v) /\ (v.key \notin MountKeys \/ mount[v.key] = None)
Retrieved(v) == IF FromMount(v) THEN [v EXCEPT !.value = mount[v.key]] ELSE v

\* Every variable that the workspace has as sensitive: the value is not listed.
getSensitiveVariablesToUpdate == ListedAs(TRUE)

\* The spec's variables under the IDs of the listed ones.
Prepared ==
  LET updated(v) == [v EXCEPT !.category = Found(v).category]
  IN [i \in DOMAIN local.spec |->
        CASE i \in getNonSensitiveVariablesToUpdate -> updated(local.spec[i])
          [] i \in getSensitiveVariablesToUpdate ->
               [Retrieved(updated(local.spec[i])) EXCEPT !.sensitive = TRUE]
          [] OTHER -> local.spec[i]]

(***************************************************************************)
(* updateVariables.                                                        *)
(***************************************************************************)
Return == pc' = "idle" /\ local' = NoLocals

\* The result is "not updated": a run is due only when there has been none.
ReturnUnchanged ==
  /\ pc' = IF executed = None THEN "startRun" ELSE "idle"
  /\ local' = NoLocals

updateVariables ==
  /\ pc = "idle"
  /\ pc' = "resolving"
  /\ local' = [NoLocals EXCEPT !.instance = specVariables]
  /\ UNCHANGED <<variables, specVariables, mount, references, executed, edits, outOfBand, aborts>>

\* One reference after the other; one that is missing ends the reconcile.
ResolveVariable ==
  /\ pc = "resolving"
  /\ Len(local.spec) < Len(local.instance)
  /\ LET s == local.instance[Len(local.spec) + 1]
     IN IF Dangling(s)
          THEN Return
          ELSE local' = [local EXCEPT !.spec = Append(@, Resolved(s))] /\ UNCHANGED pc
  /\ UNCHANGED <<variables, specVariables, mount, references, executed, edits, outOfBand, aborts>>

\* Mutant: only a workspace without variables gets those that it lacks.
CheckFirstVariables ==
  /\ pc = "resolving"
  /\ Len(local.spec) = Len(local.instance)
  /\ pc' = "checking"
  /\ \E list \in Bijection(1 .. Cardinality(Listed), Listed) :
       local' = [local EXCEPT
         !.instance = <<>>, !.listed = list,
         !.deletes = {i \in DOMAIN list : find(local.spec, list[i].key) = 0},
         !.creates = IF variables = {} THEN DOMAIN local.spec ELSE {}]
  /\ UNCHANGED <<variables, specVariables, mount, references, executed, edits, outOfBand, aborts>>

\* Variables are listed in an order that Terraform Cloud chooses.
CheckVariables ==
  /\ pc = "resolving"
  /\ Len(local.spec) = Len(local.instance)
  /\ pc' = "checking"
  /\ \E list \in Bijection(1 .. Cardinality(Listed), Listed) :
       local' = [local EXCEPT
         !.instance = <<>>, !.listed = list,
         !.deletes = {i \in DOMAIN list : find(local.spec, list[i].key) = 0},
         !.creates = {i \in DOMAIN local.spec : find(list, local.spec[i].key) = 0}]
  /\ UNCHANGED <<variables, specVariables, mount, references, executed, edits, outOfBand, aborts>>

\* Calls are made in the order of the list.
IsFirst(i, places) == i \in places /\ \A j \in places : i <= j

\* The deletions come first; one of a variable that is gone is an error.
deleteVariablesFromTFC ==
  /\ pc = "checking"
  /\ \E i \in local.deletes :
       /\ IsFirst(i, local.deletes)
       /\ LET v == local.listed[i]
          IN IF Exists(v)
               THEN /\ variables' = Without(v)
                    /\ local' = [local EXCEPT !.deletes = @ \ {i}]
                    /\ UNCHANGED pc
               ELSE Return /\ UNCHANGED variables
  /\ UNCHANGED <<specVariables, mount, references, executed, edits, outOfBand, aborts>>

\* Then the creations; one of a variable that exists by now is an error.
createVariablesOnTFC ==
  /\ pc = "checking"
  /\ local.deletes = {}
  /\ \E i \in local.creates :
       /\ IsFirst(i, local.creates)
       /\ LET v == local.spec[i]
          IN IF Unreadable(v) \/ Exists(v)
               THEN Return /\ UNCHANGED variables
               ELSE /\ variables' = variables \cup {Retrieved(v)}
                    /\ local' = [local EXCEPT !.creates = @ \ {i}]
                    /\ UNCHANGED pc
  /\ UNCHANGED <<specVariables, mount, references, executed, edits, outOfBand, aborts>>

\* Mutant: the list of updates is ready before the last variable is created.
generateUpdateVariableListEarly ==
  /\ pc = "checking"
  /\ local.deletes = {}
  /\ \A i \in DOMAIN local.spec : ~Unreadable(local.spec[i])
  /\ pc' = "updating"
  /\ local' = [local EXCEPT !.spec = Prepared, !.updates = getNonSensitiveVariablesToUpdate,
                            !.secrets = getSensitiveVariablesToUpdate]
  /\ UNCHANGED <<variables, specVariables, mount, references, executed, edits, outOfBand, aborts>>

\* Sensitive variables are updated only along with a non-sensitive one.
generateUpdateVariableList ==
  /\ pc = "checking"
  /\ local.deletes = {} /\ local.creates = {}
  /\ \/ /\ getNonSensitiveVariablesToUpdate = {}
        /\ ReturnUnchanged
     \/ /\ getNonSensitiveVariablesToUpdate # {}
        /\ \E i \in getSensitiveVariablesToUpdate : Unreadable(local.spec[i])
        /\ Return
     \/ /\ getNonSensitiveVariablesToUpdate # {}
        /\ \A i \in getSensitiveVariablesToUpdate : ~Unreadable(local.spec[i])
        /\ pc' = "updating"
        /\ local' = [local EXCEPT !.spec = Prepared, !.updates = getNonSensitiveVariablesToUpdate,
                                  !.secrets = getSensitiveVariablesToUpdate]
  /\ UNCHANGED <<variables, specVariables, mount, references, executed, edits, outOfBand, aborts>>

\* The sensitive ones come last; one that is gone is an error.
UpdateTerraformVariables ==
  /\ pc = "updating"
  /\ \E i \in local.updates \cup local.secrets :
       /\ IsFirst(i, IF local.updates # {} THEN local.updates ELSE local.secrets)
       /\ LET v == local.spec[i]
          IN IF Exists(v)
               THEN /\ variables' = Without(v) \cup {v}
                    /\ local' = [local EXCEPT !.updates = @ \ {i}, !.secrets = @ \ {i}]
                    /\ UNCHANGED pc
               ELSE Return /\ UNCHANGED variables
  /\ UNCHANGED <<specVariables, mount, references, executed, edits, outOfBand, aborts>>

\* Mutant: the creations are reported, the updates are not.
ReportNoUpdate ==
  /\ pc = "updating"
  /\ local.updates = {} /\ local.secrets = {}
  /\ ReturnUnchanged
  /\ UNCHANGED <<variables, specVariables, mount, references, executed, edits, outOfBand, aborts>>

\* CheckVariables reports an update.
ReportUpdate ==
  /\ pc = "updating"
  /\ local.updates = {} /\ local.secrets = {}
  /\ pc' = "startRun"
  /\ local' = NoLocals
  /\ UNCHANGED <<variables, specVariables, mount, references, executed, edits, outOfBand, aborts>>

\* The run that Reconcile starts uses the variables the workspace has.
StartRun ==
  /\ pc = "startRun"
  /\ executed' = variables
  /\ Return
  /\ UNCHANGED <<variables, specVariables, mount, references, edits, outOfBand, aborts>>

Operator ==
  \/ updateVariables \/ ResolveVariable \/ CheckVariables
  \/ deleteVariablesFromTFC \/ createVariablesOnTFC \/ generateUpdateVariableList
  \/ UpdateTerraformVariables \/ ReportUpdate \/ StartRun

\* An error of the call that is due, a lost answer to the one before, a crash.
Abort ==
  /\ pc # "idle"
  /\ aborts < MaxAborts
  /\ aborts' = aborts + 1
  /\ Return
  /\ UNCHANGED <<variables, specVariables, mount, references, executed, edits, outOfBand>>

(***************************************************************************)
(* Users.                                                                  *)
(***************************************************************************)
UserEdits ==
  /\ edits < MaxEdits
  /\ edits' = edits + 1
  /\ \/ specVariables' \in Specs \ {specVariables} /\ UNCHANGED <<mount, references>>
     \/ /\ \E k \in MountKeys, x \in Values : mount' = [mount EXCEPT ![k] = x]
        /\ UNCHANGED <<specVariables, references>>
     \/ /\ \E r \in Refs, x \in Values : references' = [references EXCEPT ![r] = x]
        /\ UNCHANGED <<specVariables, mount>>
  /\ UNCHANGED <<variables, executed, pc, local, outOfBand, aborts>>

\* The secret of a variable appears in the mount.
SecretMounted(k) ==
  /\ mount[k] = None
  /\ \E x \in Values : mount' = [mount EXCEPT ![k] = x]
  /\ UNCHANGED <<variables, specVariables, references, executed, pc, local>>
  /\ UNCHANGED <<edits, outOfBand, aborts>>

\* A ConfigMap or a Secret that specs refer to is created.
ReferenceProvided(r) ==
  /\ references[r] = None
  /\ \E x \in Values : references' = [references EXCEPT ![r] = x]
  /\ UNCHANGED <<variables, specVariables, mount, executed, pc, local, edits, outOfBand, aborts>>

\* In Terraform Cloud users change, delete and add variables.
UserIntervenes ==
  /\ outOfBand < MaxOutOfBand
  /\ outOfBand' = outOfBand + 1
  /\ \/ \E v \in variables, x \in Values, hcl \in BOOLEAN :
          variables' = Without(v) \cup {[v EXCEPT !.value = x, !.hcl = hcl]}
     \/ \E v \in variables : variables' = Without(v)
     \/ \E k \in Keys, x \in Values :
          LET v == [key |-> k, category |-> "terraform", value |-> x,
                    hcl |-> FALSE, sensitive |-> FALSE]
          IN ~Exists(v) /\ variables' = variables \cup {v}
  /\ UNCHANGED <<specVariables, mount, references, executed, pc, local, edits, aborts>>

Next ==
  \/ Operator \/ Abort \/ UserEdits \/ UserIntervenes
  \/ \E k \in MountKeys : SecretMounted(k)
  \/ \E r \in Refs : ReferenceProvided(r)

Spec == Init /\ [][Next]_vars

\* Every reconcile ends in a requeue; secrets and references that are missing are
\* provided at some time.
FairSpec ==
  /\ Spec
  /\ WF_vars(Operator)
  /\ \A k \in MountKeys : WF_vars(SecretMounted(k))
  /\ \A r \in Refs : WF_vars(ReferenceProvided(r))

(***************************************************************************)
(* Properties.                                                             *)
(***************************************************************************)
\* What the spec and its references ask for.
Wanted == [i \in DOMAIN specVariables |-> Resolved(specVariables[i])]

\* The variables are those of the spec: nothing is missing, nothing is left over,
\* and the values that Terraform Cloud shows are right.
VariablesOf(spec) ==
  /\ \A w \in variables : \E i \in DOMAIN spec : spec[i].key = w.key
  /\ \A i \in DOMAIN spec : \E w \in variables :
       w.key = spec[i].key /\ (w.sensitive \/ (w.value = spec[i].value /\ w.hcl = spec[i].hcl))

\* The workspace settles at the spec's variables, whatever users do to them and
\* whichever calls fail on the way.
VariablesConverge == <>[]VariablesOf(Wanted)

\* As long as nobody else writes to the workspace, a reconcile gets to the start of
\* a run only when all its calls, with those that earlier reconciles got through,
\* have brought the variables to those of the spec as it has resolved them.
StartsWithVariables ==
  [][pc # "startRun" /\ pc' = "startRun" /\ outOfBand = 0 => VariablesOf(local.spec)]_vars

\* As long as nobody else writes to the workspace, a comparison that is at the
\* variables of its spec writes nothing more and reports no update: reconciles that
\* have nothing to do start no runs, which OperatorSettles rests on.
DifferencesOnly ==
  [][outOfBand' = 0 /\ pc = "checking" /\ VariablesOf(local.spec)
       => UNCHANGED variables /\ pc' # "updating"]_vars

\* A sensitive variable has the content of its file: checkAndRetrieveIfSensitive
\* is called for every one that is written.
NoEmptySecret == \A v \in variables : v.sensitive => v.value # None

\* It does, where no variable turns into a secret and nobody else writes.
SecretsHaveValues == outOfBand = 0 => NoEmptySecret

\* When no call fails and nobody else writes, every value of the spec comes to a
\* run.
ChangesExecuted ==
  [](aborts = 0 /\ outOfBand = 0) =>
    <>[](/\ executed # None
         /\ \A i \in DOMAIN Wanted :
              LET v == Wanted[i]
              IN v.sensitive \/ \E w \in executed :
                   w.key = v.key /\ w.value = v.value /\ w.hcl = v.hcl)

\* Once the spec and the workspace are left alone no more runs are started.
OperatorSettles == <>[](pc # "startRun")
=============================================================================
