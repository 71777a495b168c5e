----------------------------- MODULE MCModelCode -----------------------------
(***************************************************************************)
(* Instances of ModelCode: unions of two members out of twenty-eight,      *)
(* under thirteen sets of sibling keywords; unions of a member and an      *)
(* inner union, and inner unions as items and properties; and unions with  *)
(* a discriminator.                                                        *)
(*                                                                         *)
(* Numbers stand for their sizes: 1 and 2 fit a byte, 5 an i64 only, and   *)
(* 9 is no integer.                                                        *)
(***************************************************************************)
EXTENDS ModelCode

MCInt32 == {1, 2}
MCInt64 == {1, 2, 5}
MCUInt8 == {1, 2}
Id == "5f0c"
Day == "2024-01-01"
MCFormatted == [uuid |-> {Id}, date |-> {Day}]
MCBase64Texts == {"QUJD", Id}
MCMapped == {"uuid"}

-----------------------------------------------------------------------------
Type(t) == [Blank EXCEPT !.types = <<t>>]
Types(ts) == [Blank EXCEPT !.types = ts]
OrNull(s) == [s EXCEPT !.types = Append(@, "null")]
Enum(t, values) == [Type(t) EXCEPT !.enum = {values}]
Form(t, f) == [Type(t) EXCEPT !.format = {f}]
RefTo(name) == [Blank EXCEPT !.ref = {name}]
Array(item) == [Type("array") EXCEPT !.items = {item}]
Object(properties, required, additional) ==
    [Type("object") EXCEPT !.properties = properties, !.required = required, !.additional = additional]

String == Type("string")
Integer == Type("integer")

Kind(tag) == "kind" :> Enum("string", {JStr(tag)})

MCComponents ==
    [Cat |-> Object(Kind("cat") @@ ("a" :> Integer), {"kind"}, {}),
     Dog |-> Object(Kind("dog") @@ ("b" :> String), {"kind", "b"}, {}),
     Pet |-> Object("kind" :> String, {}, {}),
     Text |-> OrNull(String),
     Number |-> Integer]

-----------------------------------------------------------------------------
Scalars ==
    <<String, Integer, Form("integer", "int32"), Type("number"), Type("boolean"), OrNull(String),
      Form("string", "uuid"), Form("string", "date"), Form("string", "base64"),
      Enum("string", {JStr("x"), JStr(Id)}), Enum("integer", {JNum(1)}),
      [Blank EXCEPT !.enum = {{JStr("x"), JNull}}], Types(<<"string", "integer">>),
      RefTo("Text"), RefTo("Number"), Type("null")>>

(* Keywords without a type: they apply to one category, or to none. *)
Items == [Blank EXCEPT !.items = {Integer}]
Requires == [Blank EXCEPT !.required = {"a"}]

OpenText == Object("a" :> String, {"a"}, {})
OpenNumber == Object("a" :> Integer, {}, {})
ClosedText == Object("a" :> String, {"a"}, {False})
ClosedPair == Object(("a" :> True) @@ ("b" :> String), {"b"}, {False})

Structures ==
    <<Array(String), Items, [Type("array") EXCEPT !.prefix = <<String>>],
      OpenText, OpenNumber, ClosedText, ClosedPair,
      Object("a" :> String, {}, {Integer}), Object("a" :> OrNull(String), {"a"}, {}),
      Requires, True, Blank>>

Pool == Scalars \o Structures

Siblings ==
    {Blank, String, OrNull(String), Type("object"), OrNull(Type("object")), Integer,
     Requires, [Blank EXCEPT !.properties = "a" :> String], Items, Types(<<"string", "object">>),
     Types(<<"string", "null", "integer">>), [Types(<<"object", "string">>) EXCEPT !.required = {"a"}],
     Enum("string", {JStr(Id)})}

Pairs == {<<Pool[p[1]], Pool[p[2]]>> : p \in {q \in (DOMAIN Pool) \X (DOMAIN Pool) : q[1] <= q[2]}}

Unions == {[s EXCEPT !.oneOf = pair] : s \in Siblings, pair \in Pairs}
          \cup {[s EXCEPT !.anyOf = pair] : s \in Siblings, pair \in Pairs}

OneOf(members) == [Blank EXCEPT !.oneOf = members]
AnyOf(members) == [Blank EXCEPT !.anyOf = members]

Inner ==
    {OneOf(<<String, Integer>>), OneOf(<<Array(String), Items>>), OneOf(<<ClosedText, ClosedPair>>),
     AnyOf(<<OrNull(String), OpenText>>), AnyOf(<<RefTo("Text"), Integer, Type("null")>>)}

Nested == {[s EXCEPT !.oneOf = <<Pool[i], u>>] : s \in Siblings, u \in Inner, i \in DOMAIN Pool}
          \cup {[s EXCEPT !.anyOf = <<u, Pool[i]>>] : s \in Siblings, u \in Inner, i \in DOMAIN Pool}
          \cup {Array(u) : u \in Inner} \cup {Object("a" :> u, {"a"}, {}) : u \in Inner}

Discriminator(mapping, default) == [property |-> "kind", mapping |-> mapping, default |-> default]

Mappings == {<<>>, "cat" :> "Cat", ("cat" :> "Cat") @@ ("dog" :> "Dog"), "Dog" :> "Cat", "x" :> "Pet"}

Tagging ==
    {[u EXCEPT !.discriminator = {Discriminator(m, d)}] :
        m \in Mappings, d \in {{}, {"Cat"}},
        u \in {OneOf(<<RefTo("Cat"), other>>) : other \in {RefTo("Dog"), RefTo("Pet"), MCComponents.Dog, String}}
              \cup {AnyOf(<<RefTo("Cat"), RefTo("Pet"), other>>) : other \in {Integer, MCComponents.Dog}}}

MCWritten == Range(Pool) \cup Unions \cup Nested \cup Tagging

-----------------------------------------------------------------------------
Tagged(tag, rest) == JObj(("kind" :> JStr(tag)) @@ rest)

MCPayloads ==
    {JNull, JBool(TRUE), JNum(1), JNum(2), JNum(5), JNum(9),
     JStr("x"), JStr("y"), JStr(Id), JStr(Day), JStr("QUJD"),
     JArr(<<>>), JArr(<<JStr("x")>>), JArr(<<JNum(1)>>), JArr(<<JStr("x"), JNum(5)>>),
     JObj(<<>>), JObj("a" :> JStr("x")), JObj("a" :> JNum(1)), JObj("a" :> JNull),
     JObj("b" :> JStr("x")), JObj("c" :> JNum(1)), JObj(("a" :> JStr("x")) @@ ("b" :> JStr("x"))),
     Tagged("cat", <<>>), Tagged("Cat", <<>>), Tagged("dog", "b" :> JStr("x")), Tagged("Pet", <<>>), Tagged("x", "a" :> JNum(1))}
=============================================================================
