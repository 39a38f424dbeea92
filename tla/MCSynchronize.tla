---------------------------- MODULE MCSynchronize ----------------------------
(* Finite instances of Synchronize for TLC. *)
EXTENDS Synchronize

CONSTANTS key1, pool1, pool2, source1, source2, source3

MCOutputKeys == <<"o", "p", "q">>
MCResources == {key1, pool1, pool2, source1, source2, source3}
PoolNames == [name1 |-> pool1, name2 |-> pool2]

MCSpec(key, version, poolID, poolName, notes, sources) ==
  [sshKey |-> key, terraformVersion |-> version, agentPoolID |-> poolID,
   agentPoolName |-> poolName, notifications |-> notes, runTriggers |-> sources]

Note(name, content) == [name |-> name, content |-> content]

\* A pool by ID, by name or not at all; a notification that is not listed as it
\* is, one that changes; triggers that come and go, one that is refused.
MCSpecs ==
  {MCSpec(None, None, None, None, <<>>, <<source1>>),
   MCSpec(key1, 2, pool1, None, <<Note("n", "a"), Note("m", "hidden")>>, <<source1, source2>>),
   MCSpec(key1, None, None, "name2", <<Note("n", "b")>>, <<source3, source2>>)}

\* A pool by name from the beginning or later.
PoolSpecs ==
  {MCSpec(None, None, None, None, <<>>, <<>>), MCSpec(None, None, None, "name2", <<>>, <<>>)}

Cty(type, text, names, parts) ==
  [type |-> type, null |-> FALSE, text |-> text, names |-> names, parts |-> parts]
Text(type, text) == Cty(type, text, <<>>, <<>>)
Null(type) == [Text(type, <<>>) EXCEPT !.null = TRUE]
String(c) == Text("string", <<c>>)
Number(c) == Text("number", <<c>>)
ListOf(values) == Cty("list", <<>>, <<>>, values)
Members(type, values) ==
  Cty(type, <<>>, SubSeq(<<String("k"), String("l")>>, 1, Len(values)), values)
Member(type, name, v) == Cty(type, <<>>, <<name>>, <<v>>)
JSONText(text, v) == Cty("json", text, <<>>, <<v>>)
Numbers == ListOf(<<Number("1"), Number("2")>>)
CompactNumbers == JSONText(<<"[", "1", ",", "2", "]">>, Numbers)
Output(sensitive, v) == [sensitive |-> sensitive, value |-> v]

\* Outputs come, change, become sensitive, become empty and go.
MCStates ==
  {[o |-> Output(FALSE, String("a")), p |-> Output(FALSE, CompactNumbers)],
   [o |-> Output(TRUE, String("a")), p |-> Output(FALSE, Text("string", <<>>)),
    q |-> Output(FALSE, Members("map", <<String("a"), Numbers>>))]}

\* Strings that are the JSON text of an array or an object, as it is written and
\* otherwise; one has such a string in it.
SpacedNumbers == JSONText(<<"[", "1", ",", " ", "2", "]">>, Numbers)
JSONTexts ==
  {CompactNumbers, SpacedNumbers,
   JSONText(<<"[", "]">>, ListOf(<<>>)), JSONText(<<"[", "null", "]">>, ListOf(<<Null("list")>>)),
   JSONText(<<"[", "\"", "a", "\"", "]">>, ListOf(<<String("a")>>)),
   JSONText(<<"[", "\"", "DEL", "\"", "]">>, ListOf(<<String("DEL")>>)),
   JSONText(<<"[", "\"">> \o SpacedNumbers.text \o <<"\"", "]">>, ListOf(<<SpacedNumbers>>)),
   JSONText(<<"{", "\"", "k", "\"", ":", "\"", "a", "\"", "}">>,
            Member("object", String("k"), String("a"))),
   JSONText(<<"{", "\"", "DEL", "\"", ":", "1", "}">>,
            Member("object", String("DEL"), Number("1")))}

\* Values of all types, two levels deep; names of all kinds.
Strings == {String(c) : c \in {"a", "k", "l", "\"", "\\", "ESC", "DEL"}} \cup {Text("string", <<>>)}
Leaves ==
  Strings \cup JSONTexts
    \cup {Number("1"), Number("2"), Text("bool", <<"true">>), Null("string"), Null("list")}
Collections(seqs) ==
  {ListOf(s) : s \in seqs} \cup {Members(t, s) : t \in {"map", "object"}, s \in seqs}
NamedNumbers(types, names) == {Member(t, n, Number("1")) : t \in types, n \in names}
Level1 ==
  Collections({<<v>> : v \in Leaves}) \cup NamedNumbers({"map", "object"}, Strings)
    \cup NamedNumbers({"map"}, JSONTexts)
Pairs == BoundedSeq({String("a"), String("DEL"), Null("string"), SpacedNumbers, Numbers}, 2)
WithParts(values) == values \cup UNION {ToSet(v.names) \cup ToSet(v.parts) : v \in values}
MCOutputValues ==
  LET values == Leaves \cup Level1 \cup Collections(Pairs) \cup Collections({<<v>> : v \in Level1})
                  \cup UNION {{s[k].value : k \in DOMAIN s} : s \in MCStates}
  IN WithParts(WithParts(WithParts(WithParts(values))))
=============================================================================
