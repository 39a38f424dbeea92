------------------------------- MODULE Outputs -------------------------------
(***************************************************************************)
(* The outputs of the last run (workspacehelper/tfc_output.go) on their    *)
(* way from the state file to the status of the Workspace and to a Secret  *)
(* (UpsertSecretOutputs, workspacehelper/k8s_configmap.go).                *)
(*                                                                         *)
(* An output's value is a cty value: a record of its type, whether it is   *)
(* null, and the characters of a string, number or boolean or the parts of *)
(* a list, map or object, for the latter two with their names, strings, in *)
(* their sorting order.  A string that is the JSON text of an array or an  *)
(* object has the type "json", its own characters, and what it decodes to  *)
(* as its only part.  A character is any string; ESC and DEL stand for the *)
(* ones that %q escapes with \a, \v, \x or \U, which JSON does not have.   *)
(***************************************************************************)
EXTENDS Reconciling, FiniteSets, SequencesExt

CONSTANTS
  OutputKeys,        \* a sequence of names in their sorting order
  States,            \* the states that runs leave behind: functions from names
                     \* to [sensitive: BOOLEAN, value: a cty value]
  OutputValues       \* the values of outputs, with the parts of each

ASSUME OutputsAssumption ==
  /\ \A v \in OutputValues :
       /\ \A i \in DOMAIN v.parts : v.parts[i] \in OutputValues
       /\ \A i \in DOMAIN v.names : v.names[i] \in OutputValues
  /\ \A s \in States : \A k \in DOMAIN s :
        k \in ToSet(OutputKeys) /\ s[k].value \in OutputValues

VARIABLES
  state,             \* of the workspace, None before the first run
  published,         \* the outputs in the status: a sequence of [key, value]
  secret,            \* the Secret: a set of [key, value], None without one
  cachedSecret       \* the informer's copy

outputVars == <<state, published, secret, cachedSecret>>

(***************************************************************************)
(* convertValueToString.                                                   *)
(***************************************************************************)
IsString(v) == v.type \in {"string", "json"}
Quote(escaped) == <<"\"">> \o FlattenSeq(escaped) \o <<"\"">>

\* Go's %q.
percentQ(c) ==
  CASE c \in {"\"", "\\"} -> <<"\\", c>>
    [] c = "ESC" -> <<"\\", "x1b">>
    [] c = "DEL" -> <<"\\", "x7f">>
    [] OTHER -> <<c>>
Quoted(text) == Quote([i \in DOMAIN text |-> percentQ(text[i])])

Joined(texts) ==
  IF texts = <<>> THEN <<>>
  ELSE FoldLeft(LAMBDA text, part : text \o <<",">> \o part, Head(texts), Tail(texts))
List(texts) == <<"[">> \o Joined(texts) \o <<"]">>
Object(names, texts) ==
  <<"{">> \o Joined([i \in DOMAIN texts |-> names[i] \o <<":">> \o texts[i]]) \o <<"}">>

\* Mutant: strings are not quoted.
elementUnquoted(v, text) == text

element(v, text) == IF IsString(v) THEN Quoted(text) ELSE text

\* A string in a list or a map is quoted, in an object it is not.  JSON text is
\* decoded and rendered anew, also where it is the name of an element of a map.
convertValueToString[v \in OutputValues] ==
  LET texts == [i \in DOMAIN v.parts |-> convertValueToString[v.parts[i]]]
      elements == [i \in DOMAIN v.parts |-> element(v.parts[i], texts[i])]
      keys == [i \in DOMAIN v.names |-> Quoted(convertValueToString[v.names[i]])]
      attributes == [i \in DOMAIN v.names |-> Quoted(v.names[i].text)]
  IN CASE v.null -> <<"null">>
       [] v.type \in {"string", "bool", "number"} -> v.text
       [] v.type = "json" -> texts[1]
       [] v.type = "list" -> List(elements)
       [] v.type = "map" -> Object(keys, elements)
       [] v.type = "object" -> Object(attributes, texts)
       [] OTHER -> <<>>

(***************************************************************************)
(* The reference: JSON (RFC 8259), except that a string by itself is       *)
(* neither quoted nor decoded.                                             *)
(***************************************************************************)
escapeJSON(c) ==
  CASE c \in {"\"", "\\"} -> <<"\\", c>>
    [] c = "ESC" -> <<"\\", "u001b">>
    [] OTHER -> <<c>>
QuotedJSON(text) == Quote([i \in DOMAIN text |-> escapeJSON(text[i])])

JSON[v \in OutputValues] ==
  LET texts == [i \in DOMAIN v.parts |-> JSON[v.parts[i]]]
      names == [i \in DOMAIN v.names |-> QuotedJSON(v.names[i].text)]
  IN CASE v.null -> <<"null">>
       [] IsString(v) -> QuotedJSON(v.text)
       [] v.type \in {"bool", "number"} -> v.text
       [] v.type = "list" -> List(texts)
       [] v.type \in {"map", "object"} -> Object(names, texts)

Encoding(v) == IF IsString(v) /\ ~v.null THEN v.text ELSE JSON[v]

Printable(text) == \A i \in DOMAIN text : text[i] \notin {"ESC", "DEL"}

\* JSON text is as it would be written; a string in a list or a map, and any name, is
\* printable; a string in a list or a map is not null, in an object it is.
Representable[v \in OutputValues] ==
  \/ v.null
  \/ /\ v.type = "json" => v.text = JSON[v.parts[1]]
     /\ \A i \in DOMAIN v.names :
          /\ Printable(v.names[i].text)
          /\ v.type = "map" => Representable[v.names[i]]
     /\ \A i \in DOMAIN v.parts :
          /\ Representable[v.parts[i]]
          /\ IsString(v.parts[i]) =>
               IF v.type = "object" THEN v.parts[i].null
               ELSE ~v.parts[i].null /\ Printable(v.parts[i].text)

\* convertValueToString renders a value as its JSON text, and a string as itself, if
\* and only if the value is representable.
RenderedAsJSON ==
  \A v \in OutputValues : convertValueToString[v] = Encoding(v) <=> Representable[v]

(***************************************************************************)
(* CheckOutputs and what processFinishedRun does with them.                *)
(***************************************************************************)
\* Sensitive outputs and those that render to nothing are left out.
OutputsFromState ==
  {[key |-> k, value |-> convertValueToString[state[k].value]] :
     k \in {k \in DOMAIN state : /\ ~state[k].sensitive
                                 /\ convertValueToString[state[k].value] # <<>>}}

Position(key) == CHOOSE i \in DOMAIN OutputKeys : OutputKeys[i] = key
Sorted(outputs) ==
  \A i, j \in DOMAIN outputs : i < j => Position(outputs[i].key) < Position(outputs[j].key)

\* Mutant: in the order of Go's map.
CheckOutputsUnsorted(run) ==
  /\ pc = "outputs"
  /\ IF run # None /\ state = None
       THEN Return
       ELSE /\ memory' \in [outputs: IF run = None THEN {<<>>} ELSE SetToSeqs(OutputsFromState)]
            /\ Goto("recordOutputs")
  /\ UNCHANGED outputVars

\* Without a run there are no outputs; without a state they are an error.
CheckOutputs(run) ==
  /\ pc = "outputs"
  /\ IF run # None /\ state = None
       THEN Return
       ELSE /\ \E outputs \in IF run = None THEN {<<>>} ELSE SetToSeqs(OutputsFromState) :
                 Sorted(outputs) /\ memory' = [outputs |-> outputs]
            /\ Goto("recordOutputs")
  /\ UNCHANGED outputVars

RecordOutputs ==
  /\ pc = "recordOutputs"
  /\ published' = memory.outputs
  /\ Goto("secret")
  /\ UNCHANGED <<memory, state, secret, cachedSecret>>

outputsToMap(outputs) == ToSet(outputs)

\* Mutant: outputs are added to the Secret.
AddToSecret(next) ==
  /\ pc = "secret"
  /\ secret' = (IF secret = None THEN {} ELSE secret) \cup outputsToMap(memory.outputs)
  /\ memory' = None
  /\ Goto(next)
  /\ UNCHANGED <<state, published, cachedSecret>>

\* The Secret is read from the cache and written when it differs there; an empty one
\* always differs, because it is read as nil.  Where the cache is behind, creating the
\* Secret fails and updating it is a conflict.
UpsertSecretOutputs(next) ==
  /\ pc = "secret"
  /\ UNCHANGED <<state, published, cachedSecret>>
  /\ LET outputs == outputsToMap(memory.outputs)
         equal == cachedSecret = outputs /\ outputs # {}
     IN \/ equal /\ UNCHANGED secret /\ Goto(next) /\ memory' = None
        \/ /\ ~equal /\ cachedSecret = secret
           /\ secret' = outputs
           /\ Goto(next) /\ memory' = None
        \/ ~equal /\ cachedSecret # secret /\ UNCHANGED secret /\ Return

outputSteps(run, next) == CheckOutputs(run) \/ RecordOutputs \/ UpsertSecretOutputs(next)

SecretCacheSync ==
  /\ cachedSecret # secret
  /\ cachedSecret' = secret
  /\ UNCHANGED <<state, published, secret>>

\* A run that was queued in Terraform Cloud has applied.
UserRuns == state # None /\ state' \in States /\ UNCHANGED <<published, secret, cachedSecret>>

UserDeletesSecret ==
  secret # None /\ secret' = None /\ UNCHANGED <<state, published, cachedSecret>>
=============================================================================
