--------------------------- MODULE VariablesProofs ---------------------------
(***************************************************************************)
(* Theorems about Variables, for specs, references and secrets of any kind *)
(* and number: its type invariant, that a reconcile comes to the start of  *)
(* a run only with the spec's variables in the workspace, that it writes   *)
(* nothing when they are there already, and that secrets have values.      *)
(***************************************************************************)
EXTENDS Variables, FiniteSetTheorems, WellFoundedInduction, TLAPS

\* What is resolved so far are the first variables of the spec; the comparison
\* keeps places of its lists.
LocalFacts ==
  /\ pc = "resolving" =>
       /\ local.instance \in Specs
       /\ Len(local.spec) <= Len(local.instance)
       /\ \A i \in DOMAIN local.spec : local.spec[i].key = local.instance[i].variable.key
  /\ local.deletes \subseteq DOMAIN local.listed
  /\ local.creates \cup local.updates \cup local.secrets \subseteq DOMAIN local.spec

IInv == TypeOK /\ LocalFacts

\* A spec has no two variables of one key, whatever their categories.
DistinctKeys ==
  \A s \in Specs : \A i, j \in DOMAIN s : s[i].variable.key = s[j].variable.key => i = j

KeyIn(k, list) == \E i \in DOMAIN list : list[i].key = k
OneOfAKey(list) == \A i, j \in DOMAIN list : list[i].key = list[j].key => i = j

\* The variable is as asked for, as far as Terraform Cloud shows it.
Matches(w, v) ==
  w.key = v.key /\ (w.sensitive \/ (w.value = v.value /\ w.hcl = v.hcl))

\* What is left over is still to be deleted; what is missing is still to be created;
\* the others are as listed.
CheckingFacts ==
  /\ \A w \in variables :
       KeyIn(w.key, local.spec) \/ \E i \in local.deletes : local.listed[i].key = w.key
  /\ \A i \in local.deletes : ~KeyIn(local.listed[i].key, local.spec)
  /\ \A i \in local.creates :
       /\ find(local.listed, local.spec[i].key) = 0
       /\ \A w \in variables : w.key # local.spec[i].key
  /\ \A i \in DOMAIN local.spec \ local.creates :
       IF find(local.listed, local.spec[i].key) = 0
         THEN \E w \in variables : Matches(w, local.spec[i])
         ELSE \E w \in variables : Hidden(w) = Found(local.spec[i])

\* What does not match is still to be updated.
UpdatingFacts ==
  /\ \A w \in variables : KeyIn(w.key, local.spec)
  /\ \A i \in DOMAIN local.spec \ (local.updates \cup local.secrets) :
       \E w \in variables : Matches(w, local.spec[i])

\* As long as the operator alone writes, no key is there twice, and what is left to
\* do is what separates the workspace from the spec.
ComparisonFacts ==
  outOfBand = 0 =>
    /\ \A v, w \in variables : v.key = w.key => v = w
    /\ OneOfAKey(local.spec)
    /\ pc = "checking" => CheckingFacts
    /\ pc = "updating" => UpdatingFacts

(***************************************************************************)
(* Lists, and what is made of the variables.                               *)
(***************************************************************************)
\* Every set of numbers that is not empty has a least one.
LEMMA Least ==
  ASSUME NEW S, S \subseteq Nat, S # {}
  PROVE  Min(S) \in S
<1> DEFINE L == {ss \in Nat \X Nat : ss[1] < ss[2]}
<1>1. IsWellFoundedOn(L, Nat)
  <2>1. OpToRel(<, Nat) = L
    BY Zenon DEF OpToRel, L
  <2> QED BY <2>1, NatLessThanWellFounded
<1> HIDE DEF L
<1>2. PICK m \in S : \A n \in S : <<n, m>> \notin L
  BY <1>1, WFMin
<1>3. ASSUME NEW n \in S, n < m  PROVE  FALSE
  <2>1. <<n, m>> \in L
    BY <1>3 DEF L
  <2> QED BY <1>2, <2>1
<1>4. \A n \in S : m <= n
  BY <1>3
<1> QED BY <1>4 DEF Min

\* find returns the place of a variable with the key, or 0 when there is none.
LEMMA FindFacts ==
  ASSUME NEW list \in Seq(Variable), NEW k
  PROVE  LET i == find(list, k)
         IN  IF i = 0 THEN ~KeyIn(k, list) ELSE i \in DOMAIN list /\ list[i].key = k
<1> DEFINE I == {i \in 1 .. Len(list) : list[i].key = k}
<1>1. find(list, k) = IF I # {} THEN Min(I) ELSE 0
  BY DEF find, SelectInSeq
<1>2. I # {} => Min(I) \in I
  BY Least
<1> QED BY <1>1, <1>2 DEF KeyIn

LEMMA HiddenFacts ==
  ASSUME NEW v \in Variable
  PROVE  /\ Hidden(v) \in Variable
         /\ Hidden(v).key = v.key
         /\ Hidden(v).sensitive = v.sensitive
         /\ ~v.sensitive => Hidden(v) = v
BY DEF Hidden, Variable

\* The list of the variables is a sequence of variables: they are finitely many.
LEMMA ListedFacts ==
  ASSUME variables \subseteq Variable, IsFiniteSet(variables),
         NEW list \in Bijection(1 .. Cardinality(Listed), Listed)
  PROVE  /\ list \in Seq(Variable)
         /\ DOMAIN list \subseteq Nat
         /\ \A i \in DOMAIN list : \E w \in variables : list[i] = Hidden(w)
         /\ \A w \in variables : \E i \in DOMAIN list : list[i] = Hidden(w)
<1> DEFINE hide == [v \in variables |-> Hidden(v)]
<1>1. hide \in Surjection(variables, Listed)
  BY DEF Surjection, Listed
<1>2. IsFiniteSet(Listed)
  BY <1>1, FS_Surjection DEF ExistsSurjection
<1>3. Cardinality(Listed) \in Nat
  BY <1>2, FS_CardinalityType
<1>4. /\ list \in [1 .. Cardinality(Listed) -> Listed]
      /\ \A v \in Listed : \E i \in 1 .. Cardinality(Listed) : list[i] = v
  BY DEF Bijection, Injection, Surjection
<1>5. Listed \subseteq Variable
  BY HiddenFacts DEF Listed
<1>6. DOMAIN list = 1 .. Cardinality(Listed)
  BY <1>4
<1>7. list \in Seq(Variable)
  BY <1>3, <1>4, <1>5
<1>8. DOMAIN list \subseteq Nat
  BY <1>6
<1>9. \A i \in DOMAIN list : \E w \in variables : list[i] = Hidden(w)
  BY <1>4, <1>6 DEF Listed
<1>10. \A w \in variables : \E i \in DOMAIN list : list[i] = Hidden(w)
  BY <1>4, <1>6 DEF Listed
<1> QED BY <1>7, <1>8, <1>9, <1>10

LEMMA SpecFacts ==
  ASSUME NEW s \in Specs
  PROVE  /\ s \in Seq(SpecVariable)
         /\ \A i \in DOMAIN s :
              /\ s[i] \in SpecVariable
              /\ s[i].variable.value # None \/ s[i].variable.sensitive \/ s[i].from # None
<1> DEFINE P ==
      {v \in SpecVariable : v.variable.value # None \/ v.variable.sensitive \/ v.from # None}
<1>1. s \in Seq(P)
  BY VariablesAssumption
<1>2. \A v \in P : v \in SpecVariable
  OBVIOUS
<1>3. \A i \in DOMAIN s : s[i] \in P
  BY <1>1
<1> HIDE DEF P
<1>4. s \in Seq(SpecVariable)
  BY <1>1, <1>2
<1> QED BY <1>3, <1>4 DEF P

LEMMA ResolvedFacts ==
  ASSUME TypeOK, NEW s \in SpecVariable,
         s.variable.value # None \/ s.variable.sensitive \/ s.from # None
  PROVE  /\ Resolved(s) \in Variable
         /\ Resolved(s).key = s.variable.key
BY DEF TypeOK, SpecVariable, Variable, Resolved, GetConfigMapForVariable, GetSecretForVariable

LEMMA RetrievedFacts ==
  ASSUME TypeOK, NEW v \in Variable, ~Unreadable(v)
  PROVE  /\ Retrieved(v) \in Variable
         /\ Matches(Retrieved(v), v)
         /\ Retrieved(v).key = v.key
         /\ Retrieved(v).category = v.category
BY DEF TypeOK, Variable, Retrieved, Unreadable, FromMount, Matches

\* A variable that is deleted, replaced or added leaves a finite set of variables.
LEMMA WrittenFacts ==
  ASSUME variables \subseteq Variable, IsFiniteSet(variables), NEW v, NEW x \in Variable
  PROVE  /\ Without(v) \subseteq Variable /\ IsFiniteSet(Without(v))
         /\ Without(v) \cup {x} \subseteq Variable /\ IsFiniteSet(Without(v) \cup {x})
         /\ variables \cup {x} \subseteq Variable /\ IsFiniteSet(variables \cup {x})
<1>1. Without(v) \subseteq variables
  BY DEF Without
<1>2. IsFiniteSet(Without(v))
  BY <1>1, FS_Subset
<1> QED BY <1>1, <1>2, FS_AddElement

LEMMA PreparedFacts ==
  ASSUME TypeOK, \A i \in getSensitiveVariablesToUpdate : ~Unreadable(local.spec[i])
  PROVE  /\ Prepared \in Seq(Variable)
         /\ DOMAIN Prepared = DOMAIN local.spec
         /\ \A i \in DOMAIN local.spec : Prepared[i].key = local.spec[i].key
         /\ \A i \in DOMAIN local.spec \ (getNonSensitiveVariablesToUpdate
                                            \cup getSensitiveVariablesToUpdate) :
              Prepared[i] = local.spec[i]
<1> DEFINE updated(i) == [local.spec[i] EXCEPT !.category = Found(local.spec[i]).category]
           element(i) ==
             CASE i \in getNonSensitiveVariablesToUpdate -> updated(i)
               [] i \in getSensitiveVariablesToUpdate ->
                    [Retrieved(updated(i)) EXCEPT !.sensitive = TRUE]
               [] OTHER -> local.spec[i]
<1>1. Prepared = [i \in DOMAIN local.spec |-> element(i)]
  BY DEF Prepared
<1>2. local.spec \in Seq(Variable) /\ local.listed \in Seq(Variable)
  BY DEF TypeOK, Locals
<1>3. ASSUME NEW i \in DOMAIN local.spec
      PROVE  /\ element(i) \in Variable
             /\ element(i).key = local.spec[i].key
             /\ i \notin getNonSensitiveVariablesToUpdate \cup getSensitiveVariablesToUpdate =>
                  element(i) = local.spec[i]
  <2>1. local.spec[i] \in Variable
    BY <1>2
  <2>2. ASSUME i \in ListedAs(FALSE) \cup ListedAs(TRUE)
        PROVE  updated(i) \in Variable /\ updated(i).key = local.spec[i].key
    <3>1. Found(local.spec[i]) \in Variable
      BY <1>2, <2>2, FindFacts DEF ListedAs, Found
    <3> QED BY <2>1, <3>1 DEF Variable
  <2>3. ASSUME i \in getSensitiveVariablesToUpdate
        PROVE  ~Unreadable(updated(i))
    BY <2>1, <2>3 DEF Unreadable, FromMount, Variable
  <2>4. CASE i \in getNonSensitiveVariablesToUpdate
    <3>1. i \in ListedAs(FALSE) /\ i \notin getSensitiveVariablesToUpdate
      BY <2>4 DEF getNonSensitiveVariablesToUpdate, getSensitiveVariablesToUpdate, ListedAs
    <3>2. element(i) = updated(i)
      BY <2>4, <3>1
    <3> HIDE DEF updated, element
    <3> QED BY <2>2, <2>4, <3>1, <3>2
  <2>5. CASE i \in getSensitiveVariablesToUpdate \ getNonSensitiveVariablesToUpdate
    <3>1. updated(i) \in Variable /\ updated(i).key = local.spec[i].key
      BY <2>2, <2>5 DEF getSensitiveVariablesToUpdate
    <3>2. Retrieved(updated(i)) \in Variable /\ Retrieved(updated(i)).key = local.spec[i].key
      BY <2>3, <2>5, <3>1, RetrievedFacts
    <3>3. element(i) = [Retrieved(updated(i)) EXCEPT !.sensitive = TRUE]
      BY <2>5
    <3> HIDE DEF updated, element
    <3> QED BY <2>5, <3>2, <3>3 DEF Variable
  <2>6. CASE i \notin getNonSensitiveVariablesToUpdate \cup getSensitiveVariablesToUpdate
    BY <2>1, <2>6
  <2> QED BY <2>4, <2>5, <2>6
<1> HIDE DEF element
<1>4. DOMAIN local.spec = 1 .. Len(local.spec) /\ Len(local.spec) \in Nat
  BY <1>2
<1> QED BY <1>1, <1>3, <1>4

(***************************************************************************)
(* The type invariant.                                                     *)
(***************************************************************************)
LEMMA InitIInv == Init => IInv
BY VariablesAssumption, FS_EmptySet DEF Init, IInv, TypeOK, LocalFacts, Locals, NoLocals

\* The steps that neither call Terraform Cloud nor end the comparison.
LEMMA ReturnIInv ==
  ASSUME IInv, local' = NoLocals, pc' \in {"idle", "startRun"},
         UNCHANGED <<variables, specVariables, mount, references, edits, outOfBand>>,
         executed' \in {executed, variables}, aborts' \in 0 .. MaxAborts
  PROVE  IInv'
BY DEF IInv, TypeOK, LocalFacts, Locals, NoLocals

LEMMA ResolveIInv ==
  ASSUME IInv, updateVariables \/ ResolveVariable
  PROVE  IInv'
<1>1. CASE updateVariables
  <2>1. specVariables \in Specs /\ specVariables \in Seq(SpecVariable)
    BY SpecFacts DEF IInv, TypeOK
  <2>2. /\ local' = [NoLocals EXCEPT !.instance = specVariables]
        /\ local' \in Locals /\ pc' = "resolving"
    <3>1. NoLocals \in Locals
      BY DEF NoLocals, Locals
    <3> QED BY <1>1, <2>1, <3>1 DEF updateVariables, Locals
  <2>3. TypeOK'
    BY <1>1, <2>2 DEF updateVariables, IInv, TypeOK
  <2>4. LocalFacts'
    BY <2>1, <2>2 DEF LocalFacts, NoLocals
  <2> QED BY <2>3, <2>4 DEF IInv
<1>2. CASE ResolveVariable
  <2> DEFINE i == Len(local.spec) + 1
             s == local.instance[i]
  <2>1. CASE Dangling(s)
    <3>1. Return /\ UNCHANGED <<variables, specVariables, mount, references, executed, edits,
                                outOfBand, aborts>>
      BY <1>2, <2>1 DEF ResolveVariable
    <3>2. aborts \in 0 .. MaxAborts
      BY DEF IInv, TypeOK
    <3> QED BY <3>1, <3>2, ReturnIInv DEF Return
  <2>2. CASE ~Dangling(s)
    <3>1. /\ local.instance \in Seq(SpecVariable) /\ local.spec \in Seq(Variable)
          /\ local.instance \in Specs /\ i \in DOMAIN local.instance
      BY <1>2 DEF ResolveVariable, IInv, TypeOK, LocalFacts, Locals
    <3>2. s \in SpecVariable /\ (s.variable.value # None \/ s.variable.sensitive \/ s.from # None)
      BY <3>1, SpecFacts
    <3>3. Resolved(s) \in Variable /\ Resolved(s).key = s.variable.key
      BY <3>2, ResolvedFacts DEF IInv
    <3>4. local' = [local EXCEPT !.spec = Append(@, Resolved(s))] /\ UNCHANGED pc
      BY <1>2, <2>2 DEF ResolveVariable
    <3> DEFINE spec == Append(local.spec, Resolved(s))
    <3>5. /\ spec \in Seq(Variable) /\ Len(spec) <= Len(local.instance)
          /\ DOMAIN local.spec \subseteq DOMAIN spec
          /\ \A j \in DOMAIN spec : spec[j].key = local.instance[j].variable.key
      BY <1>2, <3>1, <3>3 DEF ResolveVariable, IInv, LocalFacts
    <3> HIDE DEF spec, s
    <3>6. local'.spec = spec /\ local'.instance = local.instance
      BY <3>4 DEF spec, IInv, TypeOK, Locals
    <3>7. local' \in Locals
      BY <3>4, <3>5 DEF spec, IInv, TypeOK, Locals
    <3>8. LocalFacts'
      BY <1>2, <3>1, <3>4, <3>5, <3>6 DEF ResolveVariable, IInv, TypeOK, LocalFacts, Locals
    <3> QED BY <1>2, <3>4, <3>7, <3>8 DEF ResolveVariable, IInv, TypeOK
  <2> QED BY <2>1, <2>2
<1> QED BY <1>1, <1>2

\* The lists are ready, and the calls are made.
LEMMA CompareIInv ==
  ASSUME IInv, CheckVariables \/ generateUpdateVariableList
  PROVE  IInv'
<1>1. CASE CheckVariables
  <2>1. PICK list \in Bijection(1 .. Cardinality(Listed), Listed) :
          local' = [local EXCEPT
            !.instance = <<>>, !.listed = list,
            !.deletes = {i \in DOMAIN list : find(local.spec, list[i].key) = 0},
            !.creates = {i \in DOMAIN local.spec : find(list, local.spec[i].key) = 0}]
    BY <1>1 DEF CheckVariables
  <2>2. list \in Seq(Variable) /\ DOMAIN list \subseteq Nat
    BY ListedFacts DEF IInv, TypeOK
  <2>3. local \in Locals /\ DOMAIN local.spec \subseteq Nat
    BY DEF IInv, TypeOK, Locals
  <2>4. local' \in Locals
    <3> DEFINE D == {i \in DOMAIN list : find(local.spec, list[i].key) = 0}
               C == {i \in DOMAIN local.spec : find(list, local.spec[i].key) = 0}
    <3>1. D \in SUBSET Nat /\ C \in SUBSET Nat
      BY <2>2, <2>3
    <3>2. local' = [local EXCEPT !.instance = <<>>, !.listed = list, !.deletes = D, !.creates = C]
      BY <2>1
    <3> HIDE DEF D, C
    <3>3. local' = [instance |-> <<>>, spec |-> local.spec, listed |-> list,
                    deletes |-> D, creates |-> C,
                    updates |-> local.updates, secrets |-> local.secrets]
      BY <2>3, <3>2 DEF Locals
    <3>4. /\ <<>> \in Seq(SpecVariable) /\ local.spec \in Seq(Variable)
          /\ local.updates \in SUBSET Nat /\ local.secrets \in SUBSET Nat
      BY <2>3 DEF Locals
    <3> QED BY <2>2, <3>1, <3>3, <3>4 DEF Locals
  <2>5. LocalFacts'
    BY <1>1, <2>1, <2>3 DEF CheckVariables, IInv, LocalFacts, Locals
  <2> QED BY <1>1, <2>4, <2>5 DEF CheckVariables, IInv, TypeOK
<1>2. CASE generateUpdateVariableList
  <2>1. CASE Return \/ ReturnUnchanged
    <3>1. aborts \in 0 .. MaxAborts
      BY DEF IInv, TypeOK
    <3> QED BY <1>2, <2>1, <3>1, ReturnIInv
            DEF generateUpdateVariableList, Return, ReturnUnchanged
  <2>2. CASE /\ \A i \in getSensitiveVariablesToUpdate : ~Unreadable(local.spec[i])
             /\ pc' = "updating"
             /\ local' = [local EXCEPT !.spec = Prepared,
                                       !.updates = getNonSensitiveVariablesToUpdate,
                                       !.secrets = getSensitiveVariablesToUpdate]
    <3>1. Prepared \in Seq(Variable) /\ DOMAIN Prepared = DOMAIN local.spec
      BY <2>2, PreparedFacts DEF IInv
    <3>2. local \in Locals /\ DOMAIN local.spec \subseteq Nat
      BY DEF IInv, TypeOK, Locals
    <3>3. /\ getNonSensitiveVariablesToUpdate \subseteq DOMAIN local.spec
          /\ getSensitiveVariablesToUpdate \subseteq DOMAIN local.spec
      BY DEF getNonSensitiveVariablesToUpdate, getSensitiveVariablesToUpdate, ListedAs
    <3>4. local' \in Locals
      BY <2>2, <3>1, <3>2, <3>3 DEF Locals
    <3>5. LocalFacts'
      BY <1>2, <2>2, <3>1, <3>2, <3>3
      DEF generateUpdateVariableList, IInv, LocalFacts, Locals
    <3>6. local'.deletes = {} /\ local'.creates = {}
      BY <1>2, <2>2, <3>2 DEF generateUpdateVariableList, Locals
    <3> QED BY <1>2, <2>2, <3>4, <3>5, <3>6 DEF generateUpdateVariableList, IInv, TypeOK
  <2> QED BY <1>2, <2>1, <2>2 DEF generateUpdateVariableList
<1> QED BY <1>1, <1>2

LEMMA CallsIInv ==
  ASSUME IInv, deleteVariablesFromTFC \/ createVariablesOnTFC \/ UpdateTerraformVariables
  PROVE  IInv'
<1>1. /\ local \in Locals /\ aborts \in 0 .. MaxAborts
      /\ variables \subseteq Variable /\ IsFiniteSet(variables)
  BY DEF IInv, TypeOK
<1>2. UNCHANGED <<specVariables, mount, references, executed, edits, outOfBand, aborts>>
  BY DEF deleteVariablesFromTFC, createVariablesOnTFC, UpdateTerraformVariables
<1>3. CASE Return /\ UNCHANGED variables
  BY <1>1, <1>2, <1>3, ReturnIInv DEF Return
<1>4. ASSUME UNCHANGED pc, pc \in {"checking", "updating"}, local' \in Locals,
             variables' \subseteq Variable, IsFiniteSet(variables)',
             local'.listed = local.listed, local'.spec = local.spec,
             local'.deletes \subseteq local.deletes, local'.creates \subseteq local.creates,
             local'.updates \subseteq local.updates, local'.secrets \subseteq local.secrets
      PROVE  IInv'
  <2>1. TypeOK'
    BY <1>2, <1>4 DEF IInv, TypeOK
  <2>2. LocalFacts'
    BY <1>4 DEF IInv, LocalFacts
  <2> QED BY <2>1, <2>2 DEF IInv
<1>5. CASE deleteVariablesFromTFC
  <2>1. PICK i \in local.deletes :
          LET v == local.listed[i]
          IN IF Exists(v)
               THEN /\ variables' = Without(v)
                    /\ local' = [local EXCEPT !.deletes = @ \ {i}]
                    /\ UNCHANGED pc
               ELSE Return /\ UNCHANGED variables
    BY <1>5 DEF deleteVariablesFromTFC
  <2>2. local.listed[i] \in Variable
    BY <1>1 DEF IInv, LocalFacts, Locals
  <2>3. CASE Exists(local.listed[i])
    <3>1. variables' \subseteq Variable /\ IsFiniteSet(variables)'
      BY <1>1, <2>1, <2>2, <2>3, WrittenFacts
    <3>2. local' = [local EXCEPT !.deletes = @ \ {i}]
      BY <2>1, <2>3
    <3>3. /\ local' \in Locals
          /\ local'.listed = local.listed /\ local'.spec = local.spec
          /\ local'.deletes \subseteq local.deletes /\ local'.creates \subseteq local.creates
          /\ local'.updates \subseteq local.updates /\ local'.secrets \subseteq local.secrets
      BY <1>1, <3>2 DEF Locals
    <3>4. UNCHANGED pc /\ pc \in {"checking", "updating"}
      BY <1>5, <2>1, <2>3 DEF deleteVariablesFromTFC
    <3> QED BY <1>4, <3>1, <3>3, <3>4
  <2> QED BY <1>3, <2>1, <2>3
<1>6. CASE createVariablesOnTFC
  <2>1. PICK i \in local.creates :
          LET v == local.spec[i]
          IN IF Unreadable(v) \/ Exists(v)
               THEN Return /\ UNCHANGED variables
               ELSE /\ variables' = variables \cup {Retrieved(v)}
                    /\ local' = [local EXCEPT !.creates = @ \ {i}]
                    /\ UNCHANGED pc
    BY <1>6 DEF createVariablesOnTFC
  <2>2. local.spec[i] \in Variable
    BY <1>1 DEF IInv, LocalFacts, Locals
  <2>3. CASE ~(Unreadable(local.spec[i]) \/ Exists(local.spec[i]))
    <3>1. Retrieved(local.spec[i]) \in Variable
      BY <2>2, <2>3, RetrievedFacts DEF IInv
    <3>2. variables' = variables \cup {Retrieved(local.spec[i])}
      BY <2>1, <2>3
    <3>3. variables' \subseteq Variable /\ IsFiniteSet(variables)'
      BY <1>1, <3>1, <3>2, WrittenFacts
    <3>4. local' = [local EXCEPT !.creates = @ \ {i}]
      BY <2>1, <2>3
    <3>5. /\ local' \in Locals
          /\ local'.listed = local.listed /\ local'.spec = local.spec
          /\ local'.deletes \subseteq local.deletes /\ local'.creates \subseteq local.creates
          /\ local'.updates \subseteq local.updates /\ local'.secrets \subseteq local.secrets
      BY <1>1, <3>4 DEF Locals
    <3>6. UNCHANGED pc /\ pc \in {"checking", "updating"}
      BY <1>6, <2>1, <2>3 DEF createVariablesOnTFC
    <3> QED BY <1>4, <3>3, <3>5, <3>6
  <2> QED BY <1>3, <2>1, <2>3
<1>7. CASE UpdateTerraformVariables
  <2>1. PICK i \in local.updates \cup local.secrets :
          LET v == local.spec[i]
          IN IF Exists(v)
               THEN /\ variables' = Without(v) \cup {v}
                    /\ local' = [local EXCEPT !.updates = @ \ {i}, !.secrets = @ \ {i}]
                    /\ UNCHANGED pc
               ELSE Return /\ UNCHANGED variables
    BY <1>7 DEF UpdateTerraformVariables
  <2>2. local.spec[i] \in Variable
    BY <1>1 DEF IInv, LocalFacts, Locals
  <2>3. CASE Exists(local.spec[i])
    <3>1. variables' = Without(local.spec[i]) \cup {local.spec[i]}
      BY <2>1, <2>3
    <3>2. variables' \subseteq Variable /\ IsFiniteSet(variables)'
      BY <1>1, <2>2, <3>1, WrittenFacts
    <3>3. local' = [local EXCEPT !.updates = @ \ {i}, !.secrets = @ \ {i}]
      BY <2>1, <2>3
    <3>4. /\ local' \in Locals
          /\ local'.listed = local.listed /\ local'.spec = local.spec
          /\ local'.deletes \subseteq local.deletes /\ local'.creates \subseteq local.creates
          /\ local'.updates \subseteq local.updates /\ local'.secrets \subseteq local.secrets
      BY <1>1, <3>3 DEF Locals
    <3>5. UNCHANGED pc /\ pc \in {"checking", "updating"}
      BY <1>7, <2>1, <2>3 DEF UpdateTerraformVariables
    <3> QED BY <1>4, <3>2, <3>4, <3>5
  <2> QED BY <1>3, <2>1, <2>3
<1> QED BY <1>5, <1>6, <1>7

\* What users do is out of the sight of a comparison that is under way.
LEMMA UsersIInv ==
  ASSUME IInv,
         \/ UserEdits \/ UserIntervenes
         \/ \E k \in MountKeys : SecretMounted(k)
         \/ \E r \in Refs : ReferenceProvided(r)
  PROVE  IInv' /\ UNCHANGED <<pc, local>>
<1>1. UNCHANGED <<pc, local>>
  BY DEF UserEdits, UserIntervenes, SecretMounted, ReferenceProvided
<1>2. LocalFacts'
  BY <1>1 DEF IInv, LocalFacts
<1>3. CASE UserEdits
  BY <1>1, <1>2, <1>3, VariablesAssumption DEF UserEdits, IInv, TypeOK
<1>4. CASE \E k \in MountKeys : SecretMounted(k)
  BY <1>1, <1>2, <1>4 DEF SecretMounted, IInv, TypeOK
<1>5. CASE \E r \in Refs : ReferenceProvided(r)
  BY <1>1, <1>2, <1>5 DEF ReferenceProvided, IInv, TypeOK
<1>6. CASE UserIntervenes
  <2>1. variables' \subseteq Variable /\ IsFiniteSet(variables)'
    <3>1. variables \subseteq Variable /\ IsFiniteSet(variables)
      BY DEF IInv, TypeOK
    <3>2. CASE \E v \in variables, x \in Values, hcl \in BOOLEAN :
                 variables' = Without(v) \cup {[v EXCEPT !.value = x, !.hcl = hcl]}
      <4>1. PICK v \in variables, x \in Values, hcl \in BOOLEAN :
              variables' = Without(v) \cup {[v EXCEPT !.value = x, !.hcl = hcl]}
        BY <3>2
      <4>2. [v EXCEPT !.value = x, !.hcl = hcl] \in Variable
        BY <3>1 DEF Variable
      <4> QED BY <3>1, <4>1, <4>2, WrittenFacts
    <3>3. CASE \E v \in variables : variables' = Without(v)
      BY <3>1, <3>3, WrittenFacts
    <3>4. CASE \E k \in Keys, x \in Values :
                 LET v == [key |-> k, category |-> "terraform", value |-> x,
                           hcl |-> FALSE, sensitive |-> FALSE]
                 IN ~Exists(v) /\ variables' = variables \cup {v}
      <4>1. PICK k \in Keys, x \in Values :
              variables' = variables \cup {[key |-> k, category |-> "terraform", value |-> x,
                                            hcl |-> FALSE, sensitive |-> FALSE]}
        BY <3>4
      <4>2. [key |-> k, category |-> "terraform", value |-> x,
             hcl |-> FALSE, sensitive |-> FALSE] \in Variable
        BY DEF Variable
      <4> QED BY <3>1, <4>1, <4>2, WrittenFacts
    <3> QED BY <1>6, <3>2, <3>3, <3>4 DEF UserIntervenes
  <2>2. outOfBand' \in 0 .. MaxOutOfBand
    <3>1. outOfBand \in 0 .. MaxOutOfBand
      BY DEF IInv, TypeOK
    <3>2. outOfBand < MaxOutOfBand /\ outOfBand' = outOfBand + 1
      BY <1>6 DEF UserIntervenes
    <3> QED BY <3>1, <3>2, VariablesAssumption
  <2> QED BY <1>1, <1>2, <1>6, <2>1, <2>2 DEF UserIntervenes, IInv, TypeOK
<1> QED BY <1>1, <1>3, <1>4, <1>5, <1>6

LEMMA StepIInv ==
  ASSUME IInv, [Next]_vars
  PROVE  IInv'
<1>1. aborts \in 0 .. MaxAborts
  BY DEF IInv, TypeOK
<1>2. CASE Operator
  <2>1. CASE ReportUpdate
    BY <1>1, <2>1, ReturnIInv DEF ReportUpdate
  <2>2. CASE StartRun
    BY <1>1, <2>2, ReturnIInv DEF StartRun, Return
  <2> QED BY <1>2, <2>1, <2>2, ResolveIInv, CompareIInv, CallsIInv DEF Operator
<1>3. CASE Abort
  <2>1. aborts' \in 0 .. MaxAborts
    BY <1>1, <1>3, VariablesAssumption DEF Abort
  <2> QED BY <1>3, <2>1, ReturnIInv DEF Abort, Return
<1>4. CASE UNCHANGED vars
  BY <1>4 DEF vars, IInv, TypeOK, LocalFacts
<1> QED BY <1>2, <1>3, <1>4, UsersIInv DEF Next

\* Whatever fails in a comparison and whatever users do, the operator never has a
\* place in memory that its lists do not have, and writes variables only.
THEOREM VariablesTypeOK == Spec => []TypeOK
<1>1. Init => IInv
  BY InitIInv
<1>2. IInv /\ [Next]_vars => IInv'
  BY StepIInv
<1>3. IInv => TypeOK
  BY DEF IInv
<1> QED BY <1>1, <1>2, <1>3, PTL DEF Spec

(***************************************************************************)
(* A run starts with the variables of the spec.                            *)
(***************************************************************************)
LEMMA InitComparisonFacts == Init => ComparisonFacts
BY DEF Init, ComparisonFacts, NoLocals, OneOfAKey

LEMMA ReturnComparisonFacts ==
  ASSUME ComparisonFacts, local' = NoLocals, pc' \in {"idle", "startRun"},
         UNCHANGED <<variables, outOfBand>>
  PROVE  ComparisonFacts'
BY DEF ComparisonFacts, NoLocals, OneOfAKey

LEMMA ResolveComparisonFacts ==
  ASSUME IInv, IInv', DistinctKeys, ComparisonFacts, updateVariables \/ ResolveVariable
  PROVE  ComparisonFacts'
<1>1. UNCHANGED <<variables, outOfBand>>
  BY DEF updateVariables, ResolveVariable
<1>2. CASE Return
  BY <1>1, <1>2, ReturnComparisonFacts DEF Return
<1>3. CASE pc' = "resolving"
  <2>1. OneOfAKey(local'.spec)
    <3>1. /\ local'.instance \in Specs /\ Len(local'.spec) <= Len(local'.instance)
          /\ \A i \in DOMAIN local'.spec : local'.spec[i].key = local'.instance[i].variable.key
      BY <1>3 DEF IInv, LocalFacts
    <3>2. local'.spec \in Seq(Variable) /\ local'.instance \in Seq(SpecVariable)
      BY DEF IInv, TypeOK, Locals
    <3>3. DOMAIN local'.spec \subseteq DOMAIN local'.instance
      BY <3>1, <3>2
    <3> QED BY <3>1, <3>3 DEF OneOfAKey, DistinctKeys
  <2> QED BY <1>1, <1>3, <2>1 DEF ComparisonFacts
<1> QED BY <1>2, <1>3 DEF updateVariables, ResolveVariable

\* The lists that are compared are those of the workspace.
LEMMA CheckComparisonFacts ==
  ASSUME IInv, ComparisonFacts, CheckVariables
  PROVE  ComparisonFacts'
<1> SUFFICES ASSUME outOfBand = 0
             PROVE  ComparisonFacts'
  BY DEF ComparisonFacts, CheckVariables
<1>1. PICK list \in Bijection(1 .. Cardinality(Listed), Listed) :
        local' = [local EXCEPT
          !.instance = <<>>, !.listed = list,
          !.deletes = {i \in DOMAIN list : find(local.spec, list[i].key) = 0},
          !.creates = {i \in DOMAIN local.spec : find(list, local.spec[i].key) = 0}]
  BY DEF CheckVariables
<1> DEFINE D == {i \in DOMAIN list : find(local.spec, list[i].key) = 0}
           C == {i \in DOMAIN local.spec : find(list, local.spec[i].key) = 0}
<1>2. /\ local'.listed = list /\ local'.spec = local.spec
      /\ local'.deletes = D /\ local'.creates = C
  BY <1>1 DEF IInv, TypeOK, Locals
<1>3. pc' = "checking" /\ UNCHANGED <<variables, outOfBand>>
  BY DEF CheckVariables
<1>4. /\ list \in Seq(Variable) /\ local.spec \in Seq(Variable)
      /\ \A i \in DOMAIN list : \E w \in variables : list[i] = Hidden(w)
      /\ \A w \in variables : \E i \in DOMAIN list : list[i] = Hidden(w)
      /\ variables \subseteq Variable
  BY ListedFacts DEF IInv, TypeOK, Locals
<1>5. ASSUME NEW w \in variables, ~KeyIn(w.key, local.spec)
      PROVE  \E i \in D : list[i].key = w.key
  <2>1. PICK i \in DOMAIN list : list[i].key = w.key
    BY <1>4, HiddenFacts
  <2>2. find(local.spec, w.key) = 0
    BY <1>4, <1>5, FindFacts DEF KeyIn
  <2> QED BY <2>1, <2>2
<1>6. ASSUME NEW i \in D
      PROVE  ~KeyIn(list[i].key, local.spec)
  BY <1>4, FindFacts
<1>7. ASSUME NEW i \in C, NEW w \in variables
      PROVE  w.key # local.spec[i].key
  <2>1. ~KeyIn(local.spec[i].key, list)
    BY <1>4, FindFacts
  <2>2. PICK j \in DOMAIN list : list[j].key = w.key
    BY <1>4, HiddenFacts
  <2> QED BY <2>1, <2>2 DEF KeyIn
<1>8. ASSUME NEW i \in DOMAIN local.spec \ C
      PROVE  /\ find(list, local.spec[i].key) # 0
             /\ \E w \in variables : Hidden(w) = list[find(list, local.spec[i].key)]
  <2>1. find(list, local.spec[i].key) # 0
    OBVIOUS
  <2>2. find(list, local.spec[i].key) \in DOMAIN list
    BY <1>4, <2>1, FindFacts
  <2> QED BY <1>4, <2>1, <2>2
<1> HIDE DEF D, C
<1>9. CheckingFacts'
  BY <1>2, <1>3, <1>5, <1>6, <1>7, <1>8 DEF CheckingFacts, Found, C
<1> QED BY <1>2, <1>3, <1>9 DEF ComparisonFacts

LEMMA DeleteComparisonFacts ==
  ASSUME IInv, ComparisonFacts, deleteVariablesFromTFC
  PROVE  ComparisonFacts'
<1>1. PICK i \in local.deletes :
        IF Exists(local.listed[i])
          THEN /\ variables' = Without(local.listed[i])
               /\ local' = [local EXCEPT !.deletes = @ \ {i}]
               /\ UNCHANGED pc
          ELSE Return /\ UNCHANGED variables
  BY DEF deleteVariablesFromTFC
<1>2. CASE Return /\ UNCHANGED variables
  BY <1>2, ReturnComparisonFacts DEF deleteVariablesFromTFC, Return
<1>3. CASE Exists(local.listed[i])
  <2> SUFFICES ASSUME outOfBand = 0
               PROVE  ComparisonFacts'
    BY DEF ComparisonFacts, deleteVariablesFromTFC
  <2>1. /\ pc = "checking" /\ pc' = "checking" /\ CheckingFacts
        /\ \A v, w \in variables : v.key = w.key => v = w
        /\ OneOfAKey(local.spec)
    BY <1>1, <1>3 DEF ComparisonFacts, deleteVariablesFromTFC
  <2>2. variables' = Without(local.listed[i]) /\ variables' \subseteq variables
    BY <1>1, <1>3 DEF Without
  <2>3. /\ local'.listed = local.listed /\ local'.spec = local.spec
        /\ local'.deletes = local.deletes \ {i} /\ local'.creates = local.creates
    BY <1>1, <1>3 DEF IInv, TypeOK, Locals
  <2>4. \A w \in variables' : w.key # local.listed[i].key
    BY <1>3, <2>1, <2>2 DEF Exists, Without, SameID
  <2>5. \A w \in variables : KeyIn(w.key, local.spec) => w \in variables'
    BY <2>1, <2>2 DEF CheckingFacts, Without, SameID
  <2>6. ASSUME NEW w \in variables'
        PROVE  \/ KeyIn(w.key, local.spec)
               \/ \E j \in local.deletes \ {i} : local.listed[j].key = w.key
    BY <2>1, <2>2, <2>4 DEF CheckingFacts
  <2>7. ASSUME NEW j \in DOMAIN local.spec \ local.creates
        PROVE  IF find(local.listed, local.spec[j].key) = 0
                 THEN \E w \in variables' : Matches(w, local.spec[j])
                 ELSE \E w \in variables' : Hidden(w) = Found(local.spec[j])
    <3>1. CASE find(local.listed, local.spec[j].key) = 0
      <4>1. PICK w \in variables : Matches(w, local.spec[j])
        BY <2>1, <3>1 DEF CheckingFacts
      <4>2. w \in variables'
        BY <2>5, <4>1 DEF Matches, KeyIn
      <4> QED BY <3>1, <4>1, <4>2
    <3>2. CASE find(local.listed, local.spec[j].key) # 0
      <4>1. PICK w \in variables : Hidden(w) = Found(local.spec[j])
        BY <2>1, <3>2 DEF CheckingFacts
      <4>2. local.listed \in Seq(Variable) /\ variables \subseteq Variable
        BY DEF IInv, TypeOK, Locals
      <4>3. w.key = local.spec[j].key
        BY <3>2, <4>1, <4>2, FindFacts, HiddenFacts DEF Found
      <4>4. w \in variables'
        BY <2>5, <4>3 DEF KeyIn
      <4> QED BY <3>2, <4>1, <4>4
    <3> QED BY <3>1, <3>2
  <2>8. CheckingFacts'
    BY <2>1, <2>2, <2>3, <2>6, <2>7 DEF CheckingFacts, Found
  <2> QED BY <2>1, <2>2, <2>3, <2>8 DEF ComparisonFacts
<1> QED BY <1>1, <1>2, <1>3

LEMMA CreateComparisonFacts ==
  ASSUME IInv, ComparisonFacts, createVariablesOnTFC
  PROVE  ComparisonFacts'
<1>1. PICK i \in local.creates :
        IF Unreadable(local.spec[i]) \/ Exists(local.spec[i])
          THEN Return /\ UNCHANGED variables
          ELSE /\ variables' = variables \cup {Retrieved(local.spec[i])}
               /\ local' = [local EXCEPT !.creates = @ \ {i}]
               /\ UNCHANGED pc
  BY DEF createVariablesOnTFC
<1>2. CASE Return /\ UNCHANGED variables
  BY <1>2, ReturnComparisonFacts DEF createVariablesOnTFC, Return
<1>3. CASE ~(Unreadable(local.spec[i]) \/ Exists(local.spec[i]))
  <2> SUFFICES ASSUME outOfBand = 0
               PROVE  ComparisonFacts'
    BY DEF ComparisonFacts, createVariablesOnTFC
  <2> DEFINE new == Retrieved(local.spec[i])
  <2>1. /\ pc = "checking" /\ pc' = "checking" /\ CheckingFacts
        /\ \A v, w \in variables : v.key = w.key => v = w
        /\ OneOfAKey(local.spec)
    BY <1>1, <1>3 DEF ComparisonFacts, createVariablesOnTFC
  <2>2. variables' = variables \cup {new}
    BY <1>1, <1>3
  <2>3. /\ local'.listed = local.listed /\ local'.spec = local.spec
        /\ local'.deletes = local.deletes /\ local'.creates = local.creates \ {i}
    BY <1>1, <1>3 DEF IInv, TypeOK, Locals
  <2>4. i \in DOMAIN local.spec /\ local.spec[i] \in Variable
    BY DEF IInv, TypeOK, Locals, LocalFacts
  <2>5. Matches(new, local.spec[i]) /\ new.key = local.spec[i].key
    BY <1>3, <2>4, RetrievedFacts DEF IInv
  <2> HIDE DEF new
  <2>6. \A w \in variables : w.key # new.key
    BY <2>1, <2>5 DEF CheckingFacts
  <2>7. \A v, w \in variables' : v.key = w.key => v = w
    BY <2>1, <2>2, <2>6
  <2>8. \A w \in variables' :
          KeyIn(w.key, local.spec) \/ \E j \in local.deletes : local.listed[j].key = w.key
    BY <2>1, <2>2, <2>4, <2>5 DEF CheckingFacts, KeyIn
  <2>9. \A j \in local.creates \ {i} :
          /\ find(local.listed, local.spec[j].key) = 0
          /\ \A w \in variables' : w.key # local.spec[j].key
    <3> SUFFICES ASSUME NEW j \in local.creates \ {i}
                 PROVE  /\ find(local.listed, local.spec[j].key) = 0
                        /\ \A w \in variables' : w.key # local.spec[j].key
      OBVIOUS
    <3>1. j \in DOMAIN local.spec /\ local.spec[j].key # new.key
      BY <2>1, <2>4, <2>5 DEF OneOfAKey, IInv, LocalFacts
    <3> QED BY <2>1, <2>2, <3>1 DEF CheckingFacts
  <2>10. \A j \in DOMAIN local.spec \ (local.creates \ {i}) :
           IF find(local.listed, local.spec[j].key) = 0
             THEN \E w \in variables' : Matches(w, local.spec[j])
             ELSE \E w \in variables' : Hidden(w) = Found(local.spec[j])
    <3> SUFFICES ASSUME NEW j \in DOMAIN local.spec \ (local.creates \ {i})
                 PROVE  IF find(local.listed, local.spec[j].key) = 0
                          THEN \E w \in variables' : Matches(w, local.spec[j])
                          ELSE \E w \in variables' : Hidden(w) = Found(local.spec[j])
      OBVIOUS
    <3>1. CASE j = i
      BY <2>1, <2>2, <2>5, <3>1 DEF CheckingFacts
    <3>2. CASE j # i
      BY <2>1, <2>2, <3>2 DEF CheckingFacts
    <3> QED BY <3>1, <3>2
  <2>11. CheckingFacts'
    BY <2>1, <2>3, <2>8, <2>9, <2>10 DEF CheckingFacts, Found
  <2> QED BY <2>1, <2>3, <2>7, <2>11 DEF ComparisonFacts
<1> QED BY <1>1, <1>2, <1>3

\* When the deletions and the creations are done, a variable that is not to be
\* updated is there, and matches.
LEMMA ComparedFacts ==
  ASSUME IInv, CheckingFacts, local.creates = {}, NEW i \in DOMAIN local.spec,
         i \notin getNonSensitiveVariablesToUpdate
  PROVE  \E w \in variables : Matches(w, local.spec[i])
<1>1. /\ local.listed \in Seq(Variable) /\ local.spec[i] \in Variable
      /\ variables \subseteq Variable
  BY DEF IInv, TypeOK, Locals
<1>2. CASE find(local.listed, local.spec[i].key) = 0
  BY <1>2 DEF CheckingFacts
<1>3. CASE find(local.listed, local.spec[i].key) # 0
  <2>1. PICK w \in variables : Hidden(w) = Found(local.spec[i])
    BY <1>3 DEF CheckingFacts
  <2>2. /\ Found(local.spec[i]) \in Variable /\ Found(local.spec[i]).key = local.spec[i].key
        /\ w \in Variable
    BY <1>1, <1>3, FindFacts DEF Found
  <2>3. w.key = local.spec[i].key /\ w.sensitive = Found(local.spec[i]).sensitive
    BY <2>1, <2>2, HiddenFacts
  <2>4. CASE ~w.sensitive
    <3>1. Found(local.spec[i]) = w
      BY <2>1, <2>2, <2>4, HiddenFacts
    <3>2. i \in ListedAs(FALSE)
      BY <1>3, <2>2, <2>3, <2>4 DEF ListedAs, Variable
    <3>3. ~checkIfVariableChanged(local.spec[i], w)
      BY <3>1, <3>2 DEF getNonSensitiveVariablesToUpdate
    <3> QED BY <2>3, <3>3 DEF Matches, checkIfVariableChanged
  <2> QED BY <2>3, <2>4 DEF Matches
<1> QED BY <1>2, <1>3

LEMMA UpdateListComparisonFacts ==
  ASSUME IInv, ComparisonFacts, generateUpdateVariableList
  PROVE  ComparisonFacts'
<1>1. UNCHANGED <<variables, outOfBand>>
  BY DEF generateUpdateVariableList
<1>2. CASE Return \/ ReturnUnchanged
  BY <1>1, <1>2, ReturnComparisonFacts DEF Return, ReturnUnchanged
<1>3. CASE /\ \A i \in getSensitiveVariablesToUpdate : ~Unreadable(local.spec[i])
           /\ pc' = "updating"
           /\ local' = [local EXCEPT !.spec = Prepared,
                                     !.updates = getNonSensitiveVariablesToUpdate,
                                     !.secrets = getSensitiveVariablesToUpdate]
  <2> SUFFICES ASSUME outOfBand = 0
               PROVE  ComparisonFacts'
    BY <1>1 DEF ComparisonFacts
  <2>1. /\ CheckingFacts /\ local.deletes = {} /\ local.creates = {}
        /\ \A v, w \in variables : v.key = w.key => v = w
        /\ OneOfAKey(local.spec)
    BY DEF ComparisonFacts, generateUpdateVariableList
  <2>2. /\ local'.spec = Prepared
        /\ local'.updates = getNonSensitiveVariablesToUpdate
        /\ local'.secrets = getSensitiveVariablesToUpdate
    BY <1>3 DEF IInv, TypeOK, Locals
  <2>3. /\ DOMAIN Prepared = DOMAIN local.spec
        /\ \A i \in DOMAIN local.spec : Prepared[i].key = local.spec[i].key
        /\ \A i \in DOMAIN local.spec \ (getNonSensitiveVariablesToUpdate
                                           \cup getSensitiveVariablesToUpdate) :
             Prepared[i] = local.spec[i]
    BY <1>3, PreparedFacts DEF IInv
  <2>4. OneOfAKey(Prepared)
    BY <2>1, <2>3 DEF OneOfAKey
  <2>5. \A w \in variables : KeyIn(w.key, Prepared)
    BY <2>1, <2>3 DEF CheckingFacts, KeyIn
  <2>6. ASSUME NEW i \in DOMAIN Prepared \ (getNonSensitiveVariablesToUpdate
                                              \cup getSensitiveVariablesToUpdate)
        PROVE  \E w \in variables : Matches(w, Prepared[i])
    BY <2>1, <2>3, ComparedFacts
  <2>7. UpdatingFacts'
    BY <1>1, <2>2, <2>5, <2>6 DEF UpdatingFacts
  <2> QED BY <1>1, <1>3, <2>1, <2>2, <2>4, <2>7 DEF ComparisonFacts
<1> QED BY <1>2, <1>3 DEF generateUpdateVariableList

LEMMA UpdateComparisonFacts ==
  ASSUME IInv, ComparisonFacts, UpdateTerraformVariables
  PROVE  ComparisonFacts'
<1>1. PICK i \in local.updates \cup local.secrets :
        IF Exists(local.spec[i])
          THEN /\ variables' = Without(local.spec[i]) \cup {local.spec[i]}
               /\ local' = [local EXCEPT !.updates = @ \ {i}, !.secrets = @ \ {i}]
               /\ UNCHANGED pc
          ELSE Return /\ UNCHANGED variables
  BY DEF UpdateTerraformVariables
<1>2. CASE Return /\ UNCHANGED variables
  BY <1>2, ReturnComparisonFacts DEF UpdateTerraformVariables, Return
<1>3. CASE Exists(local.spec[i])
  <2> SUFFICES ASSUME outOfBand = 0
               PROVE  ComparisonFacts'
    BY DEF ComparisonFacts, UpdateTerraformVariables
  <2> DEFINE v == local.spec[i]
  <2>1. /\ pc = "updating" /\ pc' = "updating" /\ UpdatingFacts
        /\ \A u, w \in variables : u.key = w.key => u = w
        /\ OneOfAKey(local.spec)
    BY <1>1, <1>3 DEF ComparisonFacts, UpdateTerraformVariables
  <2>2. variables' = Without(v) \cup {v}
    BY <1>1, <1>3
  <2>3. /\ local'.spec = local.spec
        /\ local'.updates = local.updates \ {i} /\ local'.secrets = local.secrets \ {i}
    BY <1>1, <1>3 DEF IInv, TypeOK, Locals
  <2>4. i \in DOMAIN local.spec
    BY DEF IInv, LocalFacts
  <2>5. \A w \in Without(v) : w \in variables /\ w.key # v.key
    BY <1>3, <2>1 DEF Exists, Without, SameID
  <2>6. \A w \in variables : w.key # v.key => w \in Without(v)
    BY DEF Without, SameID
  <2>7. \A u, w \in variables' : u.key = w.key => u = w
    BY <2>1, <2>2, <2>5
  <2>8. \A w \in variables' : KeyIn(w.key, local.spec)
    BY <2>1, <2>2, <2>4, <2>5 DEF UpdatingFacts, KeyIn
  <2>9. ASSUME NEW j \in DOMAIN local.spec \ ((local.updates \ {i}) \cup (local.secrets \ {i}))
        PROVE  \E w \in variables' : Matches(w, local.spec[j])
    <3>1. CASE j = i
      BY <2>2, <3>1 DEF Matches
    <3>2. CASE j # i
      <4>1. PICK w \in variables : Matches(w, local.spec[j])
        BY <2>1, <3>2 DEF UpdatingFacts
      <4>2. w.key # v.key
        BY <2>1, <2>4, <3>2, <4>1 DEF Matches, OneOfAKey
      <4> QED BY <2>2, <2>6, <4>1, <4>2
    <3> QED BY <3>1, <3>2
  <2>10. UpdatingFacts'
    BY <2>3, <2>8, <2>9 DEF UpdatingFacts
  <2> QED BY <2>1, <2>3, <2>7, <2>10 DEF ComparisonFacts
<1> QED BY <1>1, <1>2, <1>3

LEMMA UndisturbedComparisonFacts ==
  ASSUME ComparisonFacts, UNCHANGED <<variables, pc, local, outOfBand>>
  PROVE  ComparisonFacts'
BY DEF ComparisonFacts, CheckingFacts, UpdatingFacts, Found

LEMMA StepComparisonFacts ==
  ASSUME IInv, DistinctKeys, ComparisonFacts, [Next]_vars
  PROVE  ComparisonFacts'
<1>1. CASE Operator
  <2>1. CASE ReportUpdate
    BY <2>1, ReturnComparisonFacts DEF ReportUpdate
  <2>2. CASE StartRun
    BY <2>2, ReturnComparisonFacts DEF StartRun, Return
  <2> QED BY <1>1, <2>1, <2>2, StepIInv, ResolveComparisonFacts, CheckComparisonFacts,
             DeleteComparisonFacts, CreateComparisonFacts, UpdateListComparisonFacts,
             UpdateComparisonFacts DEF Operator
<1>2. CASE Abort
  BY <1>2, ReturnComparisonFacts DEF Abort, Return
<1>3. CASE UserIntervenes
  <2>1. outOfBand' = outOfBand + 1 /\ outOfBand \in Nat
    <3>1. outOfBand' = outOfBand + 1
      BY <1>3 DEF UserIntervenes
    <3>2. outOfBand \in 0 .. MaxOutOfBand
      BY DEF IInv, TypeOK
    <3> QED BY <3>1, <3>2
  <2>2. outOfBand' # 0
    BY <2>1
  <2> QED BY <2>2 DEF ComparisonFacts
<1>4. CASE UserEdits
  BY <1>4, UndisturbedComparisonFacts DEF UserEdits
<1>5. CASE \E k \in MountKeys : SecretMounted(k)
  BY <1>5, UndisturbedComparisonFacts DEF SecretMounted
<1>6. CASE \E r \in Refs : ReferenceProvided(r)
  BY <1>6, UndisturbedComparisonFacts DEF ReferenceProvided
<1>7. CASE UNCHANGED vars
  BY <1>7, UndisturbedComparisonFacts DEF vars
<1> QED BY <1>1, <1>2, <1>3, <1>4, <1>5, <1>6, <1>7 DEF Next

LEMMA StartStep ==
  ASSUME IInv, ComparisonFacts, Next, pc # "startRun", pc' = "startRun", outOfBand = 0
  PROVE  VariablesOf(local.spec)
<1>1. generateUpdateVariableList \/ ReportUpdate
  BY UsersIInv DEF Next, Operator, Abort, Return, updateVariables, ResolveVariable, CheckVariables,
     deleteVariablesFromTFC, createVariablesOnTFC, UpdateTerraformVariables, StartRun
<1>2. /\ \A w \in variables : KeyIn(w.key, local.spec)
      /\ \A i \in DOMAIN local.spec : \E w \in variables : Matches(w, local.spec[i])
  <2>1. CASE generateUpdateVariableList
    <3>1. /\ CheckingFacts /\ local.deletes = {} /\ local.creates = {}
          /\ getNonSensitiveVariablesToUpdate = {}
      BY <2>1 DEF generateUpdateVariableList, Return, ComparisonFacts
    <3>2. \A w \in variables : KeyIn(w.key, local.spec)
      BY <3>1 DEF CheckingFacts
    <3> QED BY <3>1, <3>2, ComparedFacts
  <2>2. CASE ReportUpdate
    BY <2>2 DEF ReportUpdate, ComparisonFacts, UpdatingFacts
  <2> QED BY <1>1, <2>1, <2>2
<1> QED BY <1>2 DEF VariablesOf, KeyIn, Matches

\* When a spec has one variable of a key, and no user writes to the workspace, a
\* reconcile that comes to the start of a run leaves it with the spec's variables,
\* whatever its predecessors left half done.
THEOREM RunsWithVariables ==
  ASSUME DistinctKeys
  PROVE  Spec => StartsWithVariables
<1>1. IInv /\ ComparisonFacts /\ [Next]_vars => (IInv /\ ComparisonFacts)'
  BY StepIInv, StepComparisonFacts
<1>2. IInv /\ ComparisonFacts /\ [Next]_vars =>
        [pc # "startRun" /\ pc' = "startRun" /\ outOfBand = 0 => VariablesOf(local.spec)]_vars
  BY StartStep
<1> QED BY InitIInv, InitComparisonFacts, <1>1, <1>2, PTL DEF Spec, StartsWithVariables

(***************************************************************************)
(* Nothing is written without need.                                        *)
(***************************************************************************)
LEMMA DifferencesStep ==
  ASSUME IInv, ComparisonFacts, Next, outOfBand' = 0, pc = "checking", VariablesOf(local.spec)
  PROVE  UNCHANGED variables /\ pc' # "updating"
<1>1. ~UserIntervenes
  <2>1. outOfBand \in 0 .. MaxOutOfBand
    BY DEF IInv, TypeOK
  <2>2. UserIntervenes => outOfBand' = outOfBand + 1
    BY DEF UserIntervenes
  <2> QED BY <2>1, <2>2
<1>2. outOfBand = 0
  BY <1>1 DEF Next, Operator, Abort, UserEdits, SecretMounted, ReferenceProvided,
     updateVariables, ResolveVariable, CheckVariables, deleteVariablesFromTFC,
     createVariablesOnTFC, generateUpdateVariableList, UpdateTerraformVariables,
     ReportUpdate, StartRun
<1>3. /\ CheckingFacts
      /\ \A v, w \in variables : v.key = w.key => v = w
  BY <1>2 DEF ComparisonFacts
<1>4. /\ \A w \in variables : KeyIn(w.key, local.spec)
      /\ \A i \in DOMAIN local.spec : \E w \in variables : Matches(w, local.spec[i])
  BY DEF VariablesOf, KeyIn, Matches
<1>5. ASSUME deleteVariablesFromTFC
      PROVE  UNCHANGED variables /\ pc' # "updating"
  <2>1. \A i \in local.deletes : ~Exists(local.listed[i])
    BY <1>3, <1>4 DEF CheckingFacts, Exists, SameID
  <2> QED BY <1>5, <2>1 DEF deleteVariablesFromTFC, Return
<1>6. local.creates = {}
  BY <1>3, <1>4 DEF CheckingFacts, Matches, IInv, LocalFacts
<1>7. getNonSensitiveVariablesToUpdate = {}
  <2> SUFFICES ASSUME NEW i \in getNonSensitiveVariablesToUpdate
               PROVE  FALSE
    OBVIOUS
  <2>1. /\ i \in DOMAIN local.spec /\ find(local.listed, local.spec[i].key) # 0
        /\ ~Found(local.spec[i]).sensitive
        /\ checkIfVariableChanged(local.spec[i], Found(local.spec[i]))
    BY DEF getNonSensitiveVariablesToUpdate, ListedAs
  <2>2. PICK w \in variables : Hidden(w) = Found(local.spec[i])
    BY <1>3, <1>6, <2>1 DEF CheckingFacts
  <2>3. /\ local.listed \in Seq(Variable) /\ w \in Variable
    BY DEF IInv, TypeOK, Locals
  <2>4. w.key = local.spec[i].key /\ ~w.sensitive /\ w = Found(local.spec[i])
    BY <2>1, <2>2, <2>3, FindFacts, HiddenFacts DEF Found
  <2>5. Matches(w, local.spec[i])
    BY <1>3, <1>4, <2>1, <2>4 DEF Matches
  <2> QED BY <2>1, <2>4, <2>5 DEF Matches, checkIfVariableChanged
<1>8. CASE Operator
  BY <1>5, <1>6, <1>7, <1>8 DEF Operator, Return, ReturnUnchanged, updateVariables,
     ResolveVariable, CheckVariables, createVariablesOnTFC, generateUpdateVariableList,
     UpdateTerraformVariables, ReportUpdate, StartRun
<1> QED BY <1>1, <1>8 DEF Next, Abort, Return, UserEdits, SecretMounted, ReferenceProvided

\* When a spec has one variable of a key, and no user writes to the workspace, a
\* comparison that is at the spec's variables makes no further call to write one, and
\* reports no update that would start a run.
THEOREM WritesOnlyDifferences ==
  ASSUME DistinctKeys
  PROVE  Spec => DifferencesOnly
<1>1. IInv /\ ComparisonFacts /\ [Next]_vars => (IInv /\ ComparisonFacts)'
  BY StepIInv, StepComparisonFacts
<1>2. IInv /\ ComparisonFacts /\ [Next]_vars =>
        [outOfBand' = 0 /\ pc = "checking" /\ VariablesOf(local.spec)
           => UNCHANGED variables /\ pc' # "updating"]_vars
  BY DifferencesStep
<1> QED BY InitIInv, InitComparisonFacts, <1>1, <1>2, PTL DEF Spec, DifferencesOnly

(***************************************************************************)
(* Sensitive variables have values.                                        *)
(***************************************************************************)
\* No variable becomes a secret, or ceases to be one: it is sensitive in all the specs
\* that have it, or in none.
SteadySecrets ==
  \A s, t \in Specs : \A i \in DOMAIN s, j \in DOMAIN t :
    s[i].variable.key = t[j].variable.key
      => s[i].variable.sensitive = t[j].variable.sensitive

\* A variable of the key, and as sensitive, is in a spec.
OfSpecs(v) ==
  \E s \in Specs : \E i \in DOMAIN s :
    s[i].variable.key = v.key /\ s[i].variable.sensitive = v.sensitive

\* The operator does not mistake a secret for an ordinary variable: what it has
\* listed, resolved and written is as sensitive as the specs have it, and what it is
\* about to update has been retrieved.
SecretFacts ==
  outOfBand = 0 =>
    /\ \A w \in variables : OfSpecs(w)
    /\ \A i \in DOMAIN local.spec : OfSpecs(local.spec[i])
    /\ \A i \in DOMAIN local.listed : OfSpecs(local.listed[i])
    /\ \A i \in local.updates \cup local.secrets :
         local.spec[i].sensitive => local.spec[i].value # None
    /\ NoEmptySecret

LEMMA InitSecretFacts == Init => SecretFacts
BY DEF Init, SecretFacts, NoLocals, NoEmptySecret

LEMMA ReturnSecretFacts ==
  ASSUME SecretFacts, local' = NoLocals, UNCHANGED <<variables, outOfBand>>
  PROVE  SecretFacts'
BY DEF SecretFacts, NoLocals, NoEmptySecret

LEMMA UndisturbedSecretFacts ==
  ASSUME SecretFacts, UNCHANGED <<variables, local, outOfBand>>
  PROVE  SecretFacts'
BY DEF SecretFacts, NoEmptySecret

\* Two variables of one key are both sensitive, or neither is.
LEMMA OneSensitivity ==
  ASSUME SteadySecrets, NEW v, NEW w, OfSpecs(v), OfSpecs(w), v.key = w.key
  PROVE  v.sensitive = w.sensitive
BY DEF SteadySecrets, OfSpecs

LEMMA ResolvedSecretFacts ==
  ASSUME IInv, SecretFacts, ResolveVariable
  PROVE  SecretFacts'
<1> DEFINE i == Len(local.spec) + 1
           s == local.instance[i]
<1>1. CASE Dangling(s)
  BY <1>1, ReturnSecretFacts DEF ResolveVariable, Return
<1>2. CASE ~Dangling(s)
  <2>1. /\ local.instance \in Specs /\ i \in DOMAIN local.instance
        /\ local.spec \in Seq(Variable) /\ local.instance \in Seq(SpecVariable)
    BY DEF ResolveVariable, IInv, TypeOK, LocalFacts, Locals
  <2>2. s \in SpecVariable
    BY <2>1
  <2>3. Resolved(s).key = s.variable.key /\ Resolved(s).sensitive = s.variable.sensitive
    BY <2>2 DEF Resolved, GetConfigMapForVariable, GetSecretForVariable, SpecVariable, Variable
  <2>4. OfSpecs(Resolved(s))
    BY <2>1, <2>3 DEF OfSpecs
  <2>5. /\ local' = [local EXCEPT !.spec = Append(@, Resolved(s))]
        /\ UNCHANGED <<variables, outOfBand>>
    BY <1>2 DEF ResolveVariable
  <2> HIDE DEF s
  <2>6. /\ local'.spec = Append(local.spec, Resolved(s))
        /\ local'.listed = local.listed
        /\ local'.updates = local.updates /\ local'.secrets = local.secrets
    BY <2>5 DEF IInv, TypeOK, Locals
  <2>7. /\ \A j \in DOMAIN local'.spec : j \in DOMAIN local.spec \/ j = i
        /\ \A j \in DOMAIN local.spec : local'.spec[j] = local.spec[j]
        /\ local'.spec[i] = Resolved(s)
    BY <2>1, <2>6
  <2>8. local.updates \cup local.secrets \subseteq DOMAIN local.spec
    BY DEF IInv, LocalFacts
  <2> QED BY <2>4, <2>5, <2>6, <2>7, <2>8 DEF SecretFacts, NoEmptySecret
<1> QED BY <1>1, <1>2

LEMMA ListedSecretFacts ==
  ASSUME IInv, SecretFacts, CheckVariables
  PROVE  SecretFacts'
<1>1. PICK list \in Bijection(1 .. Cardinality(Listed), Listed) :
        local' = [local EXCEPT
          !.instance = <<>>, !.listed = list,
          !.deletes = {i \in DOMAIN list : find(local.spec, list[i].key) = 0},
          !.creates = {i \in DOMAIN local.spec : find(list, local.spec[i].key) = 0}]
  BY DEF CheckVariables
<1>2. /\ local'.spec = local.spec /\ local'.listed = list
      /\ local'.updates = local.updates /\ local'.secrets = local.secrets
  BY <1>1 DEF IInv, TypeOK, Locals
<1>3. /\ variables \subseteq Variable
      /\ \A i \in DOMAIN list : \E w \in variables : list[i] = Hidden(w)
  BY ListedFacts DEF IInv, TypeOK
<1>4. ASSUME NEW i \in DOMAIN list, \A w \in variables : OfSpecs(w)
      PROVE  OfSpecs(list[i])
  BY <1>3, <1>4, HiddenFacts DEF OfSpecs
<1>5. UNCHANGED <<variables, outOfBand>>
  BY DEF CheckVariables
<1> QED BY <1>2, <1>4, <1>5 DEF SecretFacts, NoEmptySecret

LEMMA DeletedSecretFacts ==
  ASSUME IInv, SecretFacts, deleteVariablesFromTFC
  PROVE  SecretFacts'
<1>1. PICK i \in local.deletes :
        IF Exists(local.listed[i])
          THEN /\ variables' = Without(local.listed[i])
               /\ local' = [local EXCEPT !.deletes = @ \ {i}]
               /\ UNCHANGED pc
          ELSE Return /\ UNCHANGED variables
  BY DEF deleteVariablesFromTFC
<1>2. UNCHANGED outOfBand
  BY DEF deleteVariablesFromTFC
<1>3. CASE Return /\ UNCHANGED variables
  BY <1>2, <1>3, ReturnSecretFacts DEF Return
<1>4. CASE Exists(local.listed[i])
  <2>1. /\ local'.spec = local.spec /\ local'.listed = local.listed
        /\ local'.updates = local.updates /\ local'.secrets = local.secrets
    BY <1>1, <1>4 DEF IInv, TypeOK, Locals
  <2>2. variables' \subseteq variables
    BY <1>1, <1>4 DEF Without
  <2> QED BY <1>2, <2>1, <2>2 DEF SecretFacts, NoEmptySecret
<1> QED BY <1>1, <1>3, <1>4

LEMMA CreatedSecretFacts ==
  ASSUME IInv, SecretFacts, createVariablesOnTFC
  PROVE  SecretFacts'
<1>1. PICK i \in local.creates :
        IF Unreadable(local.spec[i]) \/ Exists(local.spec[i])
          THEN Return /\ UNCHANGED variables
          ELSE /\ variables' = variables \cup {Retrieved(local.spec[i])}
               /\ local' = [local EXCEPT !.creates = @ \ {i}]
               /\ UNCHANGED pc
  BY DEF createVariablesOnTFC
<1>2. UNCHANGED outOfBand
  BY DEF createVariablesOnTFC
<1>3. CASE Return /\ UNCHANGED variables
  BY <1>2, <1>3, ReturnSecretFacts DEF Return
<1>4. CASE ~(Unreadable(local.spec[i]) \/ Exists(local.spec[i]))
  <2> DEFINE new == Retrieved(local.spec[i])
  <2>1. /\ local'.spec = local.spec /\ local'.listed = local.listed
        /\ local'.updates = local.updates /\ local'.secrets = local.secrets
    BY <1>1, <1>4 DEF IInv, TypeOK, Locals
  <2>2. i \in DOMAIN local.spec /\ local.spec[i] \in Variable
    BY DEF IInv, TypeOK, LocalFacts, Locals
  <2>3. /\ new.key = local.spec[i].key /\ new.sensitive = local.spec[i].sensitive
        /\ new.sensitive => new.value # None
    BY <1>4, <2>2 DEF Retrieved, Unreadable, FromMount, Variable
  <2>4. variables' = variables \cup {new}
    BY <1>1, <1>4
  <2> HIDE DEF new
  <2>5. OfSpecs(local.spec[i]) => OfSpecs(new)
    BY <2>3 DEF OfSpecs
  <2> QED BY <1>2, <2>1, <2>2, <2>3, <2>4, <2>5 DEF SecretFacts, NoEmptySecret
<1> QED BY <1>1, <1>3, <1>4

\* A variable that is listed as ordinary is ordinary in the spec, a sensitive one is
\* retrieved.
LEMMA PreparedSecrets ==
  ASSUME IInv, SteadySecrets, SecretFacts, outOfBand = 0,
         \A i \in getSensitiveVariablesToUpdate : ~Unreadable(local.spec[i]),
         NEW i \in DOMAIN local.spec
  PROVE  /\ OfSpecs(Prepared[i])
         /\ i \in getNonSensitiveVariablesToUpdate \cup getSensitiveVariablesToUpdate =>
              (Prepared[i].sensitive => Prepared[i].value # None)
<1> DEFINE v == local.spec[i]
           updated == [v EXCEPT !.category = Found(v).category]
<1>1. v \in Variable /\ OfSpecs(v) /\ local.listed \in Seq(Variable)
  BY DEF IInv, TypeOK, Locals, SecretFacts
<1>2. ASSUME NEW b \in BOOLEAN, i \in ListedAs(b)
      PROVE  v.sensitive = b
  <2>1. /\ find(local.listed, v.key) \in DOMAIN local.listed
        /\ Found(v).key = v.key /\ Found(v).sensitive = b
    BY <1>1, <1>2, FindFacts DEF ListedAs, Found
  <2>2. OfSpecs(Found(v))
    BY <2>1 DEF SecretFacts, Found
  <2> QED BY <1>1, <2>1, <2>2, OneSensitivity
<1>3. CASE i \in getNonSensitiveVariablesToUpdate
  <2>1. /\ i \in ListedAs(FALSE) /\ ~v.sensitive
        /\ i \notin getSensitiveVariablesToUpdate
    BY <1>2, <1>3 DEF getNonSensitiveVariablesToUpdate, getSensitiveVariablesToUpdate, ListedAs
  <2>2. Prepared[i] = updated
    BY <1>3, <2>1 DEF Prepared
  <2>3. updated.key = v.key /\ updated.sensitive = v.sensitive
    BY <1>1 DEF Variable
  <2> HIDE DEF updated
  <2> QED BY <1>1, <2>1, <2>2, <2>3 DEF OfSpecs
<1>4. CASE i \in getSensitiveVariablesToUpdate \ getNonSensitiveVariablesToUpdate
  <2>1. v.sensitive
    BY <1>2, <1>4 DEF getSensitiveVariablesToUpdate
  <2>2. Prepared[i] = [Retrieved(updated) EXCEPT !.sensitive = TRUE]
    BY <1>4 DEF Prepared
  <2>3. /\ updated.key = v.key /\ updated.sensitive = v.sensitive /\ updated.value = v.value
        /\ updated = [key |-> v.key, category |-> Found(v).category, value |-> v.value,
                      hcl |-> v.hcl, sensitive |-> v.sensitive]
    BY <1>1 DEF Variable
  <2>4. ~Unreadable(v)
    BY <1>4
  <2> HIDE DEF updated
  <2>5. /\ Retrieved(updated).key = v.key /\ Retrieved(updated).value # None
        /\ Prepared[i].key = v.key /\ Prepared[i].sensitive = TRUE
        /\ Prepared[i].value = Retrieved(updated).value
    BY <2>1, <2>2, <2>3, <2>4 DEF Retrieved, Unreadable, FromMount
  <2> QED BY <1>1, <2>1, <2>5 DEF OfSpecs
<1>5. CASE i \notin getNonSensitiveVariablesToUpdate \cup getSensitiveVariablesToUpdate
  <2>1. Prepared[i] = v
    BY <1>5 DEF Prepared
  <2> QED BY <1>1, <1>5, <2>1
<1> QED BY <1>3, <1>4, <1>5

LEMMA UpdateListSecretFacts ==
  ASSUME IInv, SteadySecrets, SecretFacts, generateUpdateVariableList
  PROVE  SecretFacts'
<1>1. UNCHANGED <<variables, outOfBand>>
  BY DEF generateUpdateVariableList
<1>2. CASE Return \/ ReturnUnchanged
  BY <1>1, <1>2, ReturnSecretFacts DEF Return, ReturnUnchanged
<1>3. CASE /\ \A i \in getSensitiveVariablesToUpdate : ~Unreadable(local.spec[i])
           /\ local' = [local EXCEPT !.spec = Prepared,
                                     !.updates = getNonSensitiveVariablesToUpdate,
                                     !.secrets = getSensitiveVariablesToUpdate]
  <2>1. /\ local'.spec = Prepared /\ local'.listed = local.listed
        /\ local'.updates = getNonSensitiveVariablesToUpdate
        /\ local'.secrets = getSensitiveVariablesToUpdate
    BY <1>3 DEF IInv, TypeOK, Locals
  <2>2. DOMAIN Prepared = DOMAIN local.spec
    BY DEF Prepared
  <2>3. getNonSensitiveVariablesToUpdate \cup getSensitiveVariablesToUpdate
          \subseteq DOMAIN local.spec
    BY DEF getNonSensitiveVariablesToUpdate, getSensitiveVariablesToUpdate, ListedAs
  <2> QED BY <1>1, <1>3, <2>1, <2>2, <2>3, PreparedSecrets DEF SecretFacts, NoEmptySecret
<1> QED BY <1>2, <1>3 DEF generateUpdateVariableList

LEMMA UpdatedSecretFacts ==
  ASSUME IInv, SecretFacts, UpdateTerraformVariables
  PROVE  SecretFacts'
<1>1. PICK i \in local.updates \cup local.secrets :
        IF Exists(local.spec[i])
          THEN /\ variables' = Without(local.spec[i]) \cup {local.spec[i]}
               /\ local' = [local EXCEPT !.updates = @ \ {i}, !.secrets = @ \ {i}]
               /\ UNCHANGED pc
          ELSE Return /\ UNCHANGED variables
  BY DEF UpdateTerraformVariables
<1>2. UNCHANGED outOfBand
  BY DEF UpdateTerraformVariables
<1>3. CASE Return /\ UNCHANGED variables
  BY <1>2, <1>3, ReturnSecretFacts DEF Return
<1>4. CASE Exists(local.spec[i])
  <2>1. /\ local'.spec = local.spec /\ local'.listed = local.listed
        /\ local'.updates \subseteq local.updates /\ local'.secrets \subseteq local.secrets
    BY <1>1, <1>4 DEF IInv, TypeOK, Locals
  <2>2. \A w \in variables' : w \in variables \/ w = local.spec[i]
    BY <1>1, <1>4 DEF Without
  <2>3. i \in DOMAIN local.spec
    BY DEF IInv, LocalFacts
  <2> QED BY <1>2, <2>1, <2>2, <2>3 DEF SecretFacts, NoEmptySecret
<1> QED BY <1>1, <1>3, <1>4

LEMMA StepSecretFacts ==
  ASSUME IInv, SteadySecrets, SecretFacts, [Next]_vars
  PROVE  SecretFacts'
<1>1. CASE Operator
  <2>1. CASE updateVariables
    <3>1. local' = [NoLocals EXCEPT !.instance = specVariables]
      BY <2>1 DEF updateVariables
    <3>2. /\ local'.spec = <<>> /\ local'.listed = <<>>
          /\ local'.updates = {} /\ local'.secrets = {}
      BY <3>1 DEF NoLocals
    <3> QED BY <2>1, <3>2 DEF updateVariables, SecretFacts, NoEmptySecret
  <2>2. CASE ReportUpdate \/ StartRun
    BY <2>2, ReturnSecretFacts DEF ReportUpdate, StartRun, Return
  <2> QED BY <1>1, <2>1, <2>2, ResolvedSecretFacts, ListedSecretFacts, DeletedSecretFacts,
             CreatedSecretFacts, UpdateListSecretFacts, UpdatedSecretFacts DEF Operator
<1>2. CASE Abort
  BY <1>2, ReturnSecretFacts DEF Abort, Return
<1>3. CASE UserIntervenes
  <2>1. outOfBand \in 0 .. MaxOutOfBand
    BY DEF IInv, TypeOK
  <2>2. outOfBand' = outOfBand + 1
    BY <1>3 DEF UserIntervenes
  <2>3. outOfBand' # 0
    BY <2>1, <2>2
  <2> QED BY <2>3 DEF SecretFacts
<1>4. CASE UserEdits
  BY <1>4, UndisturbedSecretFacts DEF UserEdits
<1>5. CASE \E k \in MountKeys : SecretMounted(k)
  BY <1>5, UndisturbedSecretFacts DEF SecretMounted
<1>6. CASE \E r \in Refs : ReferenceProvided(r)
  BY <1>6, UndisturbedSecretFacts DEF ReferenceProvided
<1>7. CASE UNCHANGED vars
  BY <1>7, UndisturbedSecretFacts DEF vars
<1> QED BY <1>1, <1>2, <1>3, <1>4, <1>5, <1>6, <1>7 DEF Next

\* Where no variable becomes a secret or ceases to be one, and no user writes to the
\* workspace, a sensitive variable never is without its value, whichever secrets are
\* missing: the finding about empty secrets needs a variable that changes its kind.
THEOREM SecretsRetrieved ==
  ASSUME SteadySecrets
  PROVE  Spec => []SecretsHaveValues
<1>1. IInv /\ SecretFacts /\ [Next]_vars => (IInv /\ SecretFacts)'
  BY StepIInv, StepSecretFacts
<1>2. SecretFacts => SecretsHaveValues
  BY DEF SecretFacts, SecretsHaveValues
<1> QED BY InitIInv, InitSecretFacts, <1>1, <1>2, PTL DEF Spec
=============================================================================
