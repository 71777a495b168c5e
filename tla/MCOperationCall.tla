--------------------------- MODULE MCOperationCall ---------------------------
(* Four families of calls: every stack of at most three layers, or of two    *)
(* retry layers and two middlewares; every registration for some             *)
(* requirements; every table of responses; and the operations that are       *)
(* generated of some declarations, with every argument of some values.       *)
EXTENDS Arrival

MCStacks == UNION {[1..n -> Kinds] : n \in 0..3}
              \cup {s \in [1..4 -> Kinds] : Cardinality({i \in 1..4 : s[i] = "retry"}) = 2}
RequestKinds == [idempotent : BOOLEAN, key : {0, 1}, stream : {0, 2}]
Get == [idempotent |-> TRUE, key |-> 0, stream |-> 0]

A(kind) == [name |-> "a", kind |-> kind]
B(kind) == [name |-> "b", kind |-> kind]
C(kind) == [name |-> "c", kind |-> kind]
Requirements == {
  <<<<A("Bearer"), B("ApiKey")>>, <<C("Basic")>>>>,
  <<<<C("Basic"), A("ApiKey")>>, <<B("MutualTls"), A("Bearer")>>>>,
  <<<<A("Bearer"), B("Bearer"), C("ApiKey")>>, <<>>>>}
Registrations == [{"a", "b", "c"} -> Credentials]
NoCredentials == [n \in {"a", "b", "c"} |-> "none"]

Selectors == {Exact(200), Exact(204), InRange(2), Exact(404), InRange(4), Default}
NoTable == [s \in Selectors |-> "none"]
Plain200 == [NoTable EXCEPT ![Exact(200)] = "body"]
Tables == {t \in [Selectors -> Entries] :
             /\ t[Exact(204)] # "stream" /\ t[InRange(2)] # "stream"
             /\ ~ StreamMisplaced(t)}

-----------------------------------------------------------------------------
(* Values. *)

Letters == {"~", ",", ".", ";", "=", "&", " ", "|", "%", "/", "?", "#", "+", "[", "{", "\"",
            "\\", "\t", ":", "%a", "%.", "%,"}
Strings == {JStr(t) : t \in {<<>>, <<"a">>, <<".", ".">>, <<".", "%.">>, <<"{", "z", "}">>}
                              \cup {<<c>> : c \in Letters}}
Few == {JStr(t) : t \in {<<>>, <<"a">>, <<",">>, <<"=", "a">>, <<"&">>, <<"|">>, <<".">>, <<";", " ">>}}
Letter == JStr(<<"a">>)
Lists(items) == {JArr(<<>>)} \cup {JArr(<<v>>) : v \in items} \cup {JArr(<<v, Letter>>) : v \in items}

Str == Prim("String")
Num == Prim("I64")
Optional(wire) == Field(wire, Nullable(Str, TRUE), FALSE)
Struct == StructOf(<<Field("k", Str, TRUE), Optional("m")>>, Deny)
Open == StructOf(<<Optional("m")>>, Typed(Str))
Choice == UnionOf(<<Variant(Str, OfCategory("string"), {}), Variant(ArrayOf(Str), OfCategory("array"), {})>>, Disjoint)
NullableItems == ArrayOf(Nullable(Str, TRUE))
Files == ArrayOf(Bytes("raw"))
Matrix == ArrayOf(ArrayOf(Str))

ValuesOf(ty) ==
  CASE ty = Str -> Strings
    [] ty = Num -> {JNum(7)}
    [] ty = NullTy -> {JNull}
    [] ty = ArrayOf(Str) -> Lists(Few)
    [] ty = NullableItems -> Lists({JNull, JStr(<<>>)})
    [] ty = Struct -> {JObj("k" :> v) : v \in Few}
                        \cup {JObj(("k" :> v) @@ ("m" :> w)) : v \in Few, w \in {JNull, JStr(<<"&">>)}}
    [] ty = Open -> {JObj(m) : m \in {<<>>, ("m" :> Letter) @@ ("z" :> Letter)}
                                    \cup {k :> v : k \in {"m", ",", "=", "&", "y"}, v \in Few}}
    [] ty = Choice -> Few \cup Lists(Few)
    [] ty = Files -> {JArr(<<>>), JArr(<<[raw |-> <<"1">>]>>)}
    [] OTHER -> {}
Types == {Str, Num, NullTy, ArrayOf(Str), NullableItems, Struct, Open, Choice, Files, Matrix}

-----------------------------------------------------------------------------
(* Declarations. *)

Param(name, in, ty) ==
  [name |-> name, in |-> in, style |-> "", explode |-> {}, required |-> TRUE, reserved |-> FALSE,
   ty |-> ty, content |-> ""]
Locations == {"path", "query", "header", "cookie"}
StyleNames == UNION {StylesAt(l) : l \in Locations}
Sweep ==
  {[Param("y", l, t) EXCEPT !.style = s, !.explode = {e}, !.reserved = r]
     : l \in Locations, s \in StyleNames, e \in BOOLEAN, r \in BOOLEAN, t \in Types}
  \cup {[Param("y", l, Nullable(t, TRUE)) EXCEPT !.style = s, !.required = r]
     : l \in Locations, s \in StyleNames \cup {""}, r \in BOOLEAN, t \in {Num, ArrayOf(Str)}}
  \cup {[Param("y", l, t) EXCEPT !.content = m, !.required = r]
     : l \in Locations \cup {"querystring"}, m \in {"Json", "Text", "FormUrlEncoded"}, r \in BOOLEAN,
       t \in {Str, Nullable(Num, TRUE), Struct, Open}}

Base == [path |-> <<"/", "v">>, query |-> <<>>]
Simple(template, parameters) ==
  [template |-> template, shared |-> <<>>, parameters |-> parameters, body |-> {}, base |-> Base]
Single(p) ==
  Simple(IF p.in = "path" THEN <<"/", "u", "/", "{", "y", "}", "/", "w">> ELSE <<"/", "u">>, <<p>>)
NoArguments == Simple(<<"/", "u">>, <<>>)

Combined == {
  Simple(<<"/", "{", "y", "}", "/", "{", "z", "}">>, <<Param("y", "path", Str), Param("z", "path", Str)>>),
  Simple(<<"/", "{", "y", "}">>, <<[Param("y", "path", Str) EXCEPT !.reserved = TRUE]>>),
  [Simple(<<"/", "u">>, <<Param("y", "query", Open), [Param("z", "query", ArrayOf(Str)) EXCEPT !.required = FALSE]>>)
     EXCEPT !.base.query = <<<<"q", "=", "1">>>>],
  [Simple(<<"/", "u">>, <<[Param("y", "querystring", Open) EXCEPT !.content = "FormUrlEncoded"]>>)
     EXCEPT !.base.query = <<<<"q", "=", "1">>>>],
  Simple(<<"/", "u">>, <<Param("y", "querystring", Open), Param("z", "query", Num)>>),
  Simple(<<"/", "u">>, <<Param("y", "header", Struct), [Param("z", "header", ArrayOf(Str)) EXCEPT !.required = FALSE],
                        Param("accept", "header", Str)>>),
  Simple(<<"/", "u">>, <<[Param("y", "cookie", ArrayOf(Str)) EXCEPT !.explode = {FALSE}],
                        [Param("z", "cookie", Choice) EXCEPT !.style = "cookie", !.required = FALSE]>>),
  [Simple(<<"/", "u", "/", "{", "y", "}">>, <<[Param("y", "path", ArrayOf(Str)) EXCEPT !.style = "label"]>>)
     EXCEPT !.shared = <<[Param("y", "path", ArrayOf(Str)) EXCEPT !.style = "matrix"], Param("z", "query", Num)>>],
  Simple(<<"/", "{", "y", "}">>, <<Param("z", "path", Str)>>),
  Simple(<<"/", "u">>, <<Param("z", "query", Str), Param("z", "query", Num)>>)}

Body(media, ty) ==
  [media |-> media, range |-> FALSE, ty |-> ty, required |-> TRUE, positional |-> FALSE, encoding |-> <<>>]
Pinned(name, pinned, sendable) == [name |-> name, pinned |-> pinned, sendable |-> sendable]
FormOf(ty) == StructOf(<<Field("k", ty, TRUE), Optional("m")>>, Typed(Str))
EncodingObjects == {
  NoEncodingObject,
  [NoEncodingObject EXCEPT !.explode = {FALSE}], [NoEncodingObject EXCEPT !.explode = {TRUE}],
  [NoEncodingObject EXCEPT !.style = "pipeDelimited"], [NoEncodingObject EXCEPT !.style = "deepObject"],
  [NoEncodingObject EXCEPT !.reserved = {TRUE}],
  [NoEncodingObject EXCEPT !.contentType = "Json"], [NoEncodingObject EXCEPT !.contentType = "Text"],
  [NoEncodingObject EXCEPT !.contentType = "image/png"], [NoEncodingObject EXCEPT !.contentType = "wildcard"],
  [NoEncodingObject EXCEPT !.nested = TRUE],
  [NoEncodingObject EXCEPT !.headers = {Pinned("h", "1", TRUE), Pinned("g", "", TRUE), Pinned("content-type", "x", TRUE)}],
  [NoEncodingObject EXCEPT !.headers = {Pinned("h", "1", FALSE)}]}
RequestBodies ==
  {Body(m, t) : m \in {"Json", "Text", "OctetStream", "EventStream"}, t \in {NoSchema, Str, Bytes("raw"), Struct}}
  \cup {[Body(m, FormOf(t)) EXCEPT !.encoding = "k" :> e]
           : m \in Forms, e \in EncodingObjects, t \in {Str, ArrayOf(Str), Struct, Bytes("raw"), Files, Choice}}
  \cup {Body("FormUrlEncoded", Str), [Body("Json", Struct) EXCEPT !.required = FALSE]}
WithBodies == {[NoArguments EXCEPT !.body = {b}] : b \in RequestBodies}

Operations == {op \in {Single(p) : p \in Sweep} \cup Combined \cup WithBodies : ~ OperationRefused(op)}

Told == {JStr(t) : t \in {<<>>, <<"&">>, <<"|">>, <<",">>}}
          \cup Lists({JStr(<<>>), JStr(<<",">>), JStr(<<"|">>), [raw |-> <<"1">>]})
          \cup {JObj("k" :> JStr(<<"&">>)), JObj(("k" :> Letter) @@ ("m" :> JNull))}
FormValues(ty) ==
  {[fields |-> ("k" :> k) @@ m, overflow |-> o] :
     k \in IF ty.kind = "bytes" THEN {[raw |-> <<"1", "2">>]} ELSE ValuesOf(ty) \cap Told,
     m \in {<<>>, "m" :> JNull, "m" :> JStr(<<"&">>)},
     o \in {<<>>, ("k" :> Letter) @@ ("m" :> Letter), "x" :> JStr(<<"=">>)}}
Payloads(b) ==
  CASE b.media \in Forms -> FormValues(FieldOf(b.ty.fields, "k").ty)
    [] BodyType(b).kind = "bytes" -> {[raw |-> <<"1", "2">>]}
    [] b.ty.kind = "none" -> {}
    [] OTHER -> ValuesOf(b.ty)

ArgumentsOf(op) ==
  LET params == Params(op) IN
  FoldLeft(LAMBDA before, p : {Append(a, v) : a \in before, v \in Arguments(p, ValuesOf(NonNullable(p.ty)))},
           {<<>>}, params)
PayloadsOf(op) ==
  (IF \A b \in op.body : ~ b.required \/ BodyType(b).kind = "none" THEN {{}} ELSE {})
    \cup {{v} : v \in UNION {Payloads(b) : b \in op.body}}

-----------------------------------------------------------------------------
Call(stack, request_, security, credentials, table, statuses, lengths) ==
  [stack |-> stack, request |-> request_, security |-> security,
   credentials |-> credentials, table |-> table, statuses |-> statuses,
   lengths |-> lengths, operation |-> NoArguments, arguments |-> <<>>, payload |-> {},
   built |-> TRUE]
PlainCall == Call(<<>>, Get, <<>>, NoCredentials, Plain200, {200}, {1})

CallsOf(op) ==
  {[c EXCEPT !.built = Builds(c)] :
     c \in {[PlainCall EXCEPT !.operation = op, !.arguments = a, !.payload = b]
              : a \in ArgumentsOf(op), b \in PayloadsOf(op)}}

MCCalls == {
  {Call(s, r, <<>>, NoCredentials, Plain200, {200, 429}, {1})
          : s \in MCStacks, r \in RequestKinds},
  {Call(<<"retry">>, Get, r, c, Plain200, {200, 503}, {1})
          : r \in Requirements, c \in Registrations},
  {Call(<<>>, Get, <<>>, NoCredentials, t, {200, 201, 204, 400, 404, 500}, {2, 4})
          : t \in Tables}}
  \cup {CallsOf(op) : op \in Operations}
=============================================================================
