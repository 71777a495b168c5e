----------------------------- MODULE Parameters -----------------------------
(***************************************************************************)
(* The parameters of an operation: what of a Parameter Object is generated *)
(* (oas31/lower/parameter.rs), and what an argument is on the wire         *)
(* (codegen/params.rs, support-runtime/parameter.rs).                      *)
(*                                                                         *)
(* A text is a sequence of symbols, a symbol a character or a token of     *)
(* characters every encoding keeps.  "%" \o c is the escape of c, and, in  *)
(* what a caller passes, the three characters of that escape.              *)
(***************************************************************************)
EXTENDS IrTypes, TLC

RECURSIVE JsonText(_), NeverWithin(_), UninhabitedPart(_), UnconstrainedProperty(_),
          ShapeSupported(_, _), AdmitsOnly(_, _, _, _)

-----------------------------------------------------------------------------
(* Percent-encoding. *)

ReservedInQuery == {":", "/", "?", "@", "!", "$", "'", "(", ")", "*", ",", ";"}
ReservedInPath == (ReservedInQuery \ {"/", "?"}) \cup {"&", "=", "+", "[", "]"}
Unsafe == {" ", "|", "%", "#", "{", "}", "\"", "\\", "\t"}
NotUnreserved == ReservedInQuery \cup ReservedInPath \cup Unsafe

(* The escapes a caller may write out himself. *)
Triples == {"%a", "%.", "%,"}

Keeps(c, encoding) ==
    CASE encoding = "Passthrough" -> TRUE
      [] c \in Triples -> encoding \in {"Reserved", "ReservedPath"}
      [] encoding = "Unreserved" -> c \notin NotUnreserved
      [] encoding = "Form" -> c \notin NotUnreserved \cup {"~"}
      [] encoding = "Reserved" -> c \notin NotUnreserved \ ReservedInQuery
      [] encoding = "ReservedPath" -> c \notin NotUnreserved \ ReservedInPath

Encode(text, encoding) ==
    [i \in DOMAIN text |-> IF Keeps(text[i], encoding) THEN text[i] ELSE "%" \o text[i]]

Join(parts, separator) ==
    FlattenSeq([i \in DOMAIN parts |-> IF i = 1 THEN parts[i] ELSE separator \o parts[i]])

-----------------------------------------------------------------------------
(* The serializers.  They refuse what ParameterErrors says, and are asked of the rest. *)

(* Raw bytes are an array to serde, of numbers. *)
IsArray(v) == Is(v, "arr") \/ Is(v, "raw")
Items(v) == IF Is(v, "arr") THEN v.arr ELSE [i \in DOMAIN v.raw |-> JStr(<<v.raw[i]>>)]
Composite(v) == IsArray(v) \/ Is(v, "obj")
Parts(v) == IF IsArray(v) THEN ToSet(Items(v)) ELSE IF Is(v, "obj") THEN Range(v.obj) ELSE {}
Nests(v) == \E part \in Parts(v) : Composite(part)

Empty(v) == (IsArray(v) /\ Items(v) = <<>>) \/ (Is(v, "obj") /\ DOMAIN v.obj = {})
EmptyAsUndefined(v) == IF Empty(v) THEN JNull ELSE v

Scalar(v, encoding) ==
    CASE Is(v, "null") -> <<>>
      [] Is(v, "bool") -> <<IF v.bool THEN "true" ELSE "false">>
      [] Is(v, "num") -> <<ToString(v.num)>>
      [] OTHER -> Encode(v.str, encoding)

Scalars(v, encoding) == [i \in DOMAIN Items(v) |-> Scalar(Items(v)[i], encoding)]

Pair(name, text) == name \o <<"=">> \o text

Keys(v) == SetToSeq(DOMAIN v.obj)
ObjectFlat(v, encoding) ==
    FlattenSeq([i \in DOMAIN Keys(v) |->
        <<Encode(<<Keys(v)[i]>>, encoding), Scalar(v.obj[Keys(v)[i]], encoding)>>])
ObjectPairs(v, encoding) ==
    [i \in DOMAIN Keys(v) |->
        Pair(Encode(<<Keys(v)[i]>>, encoding), Scalar(v.obj[Keys(v)[i]], encoding))]

(* One text: an array or an object joined by `separator`. *)
Flat(v, separator, encoding) ==
    CASE IsArray(v) -> Join(Scalars(v, encoding), separator)
      [] Is(v, "obj") -> Join(ObjectFlat(v, encoding), separator)
      [] OTHER -> Scalar(v, encoding)

SerializeSimple(v, explode, encoding) ==
    IF Is(v, "obj") /\ explode THEN Join(ObjectPairs(v, encoding), <<",">>)
                               ELSE Flat(v, <<",">>, encoding)

SerializeLabel(v, explode, encoding) ==
    <<".">> \o (CASE IsArray(v) /\ explode -> Join(Scalars(v, encoding), <<".">>)
                  [] Is(v, "obj") /\ explode -> Join(ObjectPairs(v, encoding), <<".">>)
                  [] OTHER -> Flat(v, <<",">>, encoding))

SerializeMatrix(name, v, explode, encoding) ==
    LET u == EmptyAsUndefined(v)
        named == <<";">> \o Encode(name, encoding)
    IN CASE Is(u, "null") -> named
         [] IsArray(u) /\ explode ->
              FlattenSeq([i \in DOMAIN Items(u) |-> Pair(named, Scalars(u, encoding)[i])])
         [] Is(u, "obj") /\ explode ->
              FlattenSeq([i \in DOMAIN Keys(u) |-> <<";">> \o ObjectPairs(u, encoding)[i]])
         [] OTHER -> Pair(named, Flat(u, <<",">>, encoding))

(* A whole query that is form-encoded has no name. *)
SerializeForm(name, v, explode, encoding) ==
    LET u == IF name = <<>> THEN v ELSE EmptyAsUndefined(v)
        named == Encode(name, encoding)
    IN CASE Is(u, "null") -> <<Pair(named, <<>>)>>
         [] IsArray(u) /\ explode -> [i \in DOMAIN Items(u) |-> Pair(named, Scalars(u, encoding)[i])]
         [] Is(u, "obj") /\ explode -> ObjectPairs(u, encoding)
         [] OTHER -> <<Pair(named, Flat(u, <<",">>, encoding))>>

Delimiter(style) == IF style = "spaceDelimited" THEN " " ELSE "|"
Delimited == {"spaceDelimited", "pipeDelimited"}

SerializeDelimited(name, v, style, encoding) ==
    <<Pair(Encode(name, encoding), Flat(v, <<"%" \o Delimiter(style)>>, encoding))>>

SerializeDeepObject(name, v, encoding) ==
    [i \in DOMAIN Keys(v) |->
        Encode(name, encoding) \o <<"%[">> \o Encode(<<Keys(v)[i]>>, encoding)
          \o Pair(<<"%]">>, Scalar(v.obj[Keys(v)[i]], encoding))]

(* style_fragments, and every other style. *)
Fragments(name, v, style, explode, encoding) ==
    CASE style \in Delimited -> SerializeDelimited(name, v, style, encoding)
      [] style = "deepObject" -> SerializeDeepObject(name, v, encoding)
      [] OTHER -> SerializeForm(name, v, explode, encoding)

ParameterErrors(v, style) ==
    CASE style = "deepObject" /\ ~ Is(v, "obj") -> {"ExpectedObject"}
      [] style \in Delimited /\ ~ Composite(v) -> {"ExpectedComposite"}
      [] OTHER -> IF Nests(v) THEN {"NestedValue"} ELSE {}

JsonString(text) ==
    FlattenSeq([i \in DOMAIN text |->
        IF text[i] \in {"\"", "\\"} THEN <<"\\", text[i]>> ELSE <<text[i]>>])

JsonText(v) ==
    CASE Is(v, "str") -> <<"\"">> \o JsonString(v.str) \o <<"\"">>
      [] Is(v, "raw") -> <<"[">> \o Join([i \in DOMAIN v.raw |-> <<v.raw[i]>>], <<",">>) \o <<"]">>
      [] Is(v, "arr") ->
           <<"[">> \o Join([i \in DOMAIN v.arr |-> JsonText(v.arr[i])], <<",">>) \o <<"]">>
      [] Is(v, "obj") ->
           <<"{">> \o Join([i \in DOMAIN Keys(v) |->
                              <<"\"", Keys(v)[i], "\"", ":">> \o JsonText(v.obj[Keys(v)[i]])],
                           <<",">>) \o <<"}">>
      [] Is(v, "null") -> <<"null">>
      [] OTHER -> Scalar(v, "Passthrough")

-----------------------------------------------------------------------------
(* What lowering refuses.  A Parameter Object is [name, in, style, explode, required, reserved,  *)
(* ty, content]: `ty` is what its schema lowers to, `explode` is empty where it says nothing,    *)
(* `style` and `content` are "" there.                                                           *)

NoSchema == [kind |-> "none"]
Variants(ty) == {ty.variants[i].ty : i \in DOMAIN ty.variants}
FieldTypes(ty) == {ty.fields[i].ty : i \in DOMAIN ty.fields}
Overflow(ty) == IF ty.additional.policy = "typed" THEN {ty.additional.ty} ELSE {}

NeverWithin(ty) ==
    \/ ty.kind = "never"
    \/ ty.kind = "union" /\ \E variant \in Variants(ty) : NeverWithin(variant)

UninhabitedPart(ty) ==
    \/ NeverWithin(ty)
    \/ ty.kind = "array" /\ NeverWithin(ty.item)
    \/ ty.kind = "tuple" /\ \E i \in DOMAIN ty.items : NeverWithin(ty.items[i])
    \/ ty.kind = "struct" /\ \E part \in FieldTypes(ty) \cup Overflow(ty) : NeverWithin(part)
    \/ ty.kind = "union" /\ \E variant \in Variants(ty) : UninhabitedPart(variant)

UnconstrainedProperty(ty) ==
    \/ ty.kind = "struct" /\ \E part \in FieldTypes(ty) : part.kind = "any"
    \/ ty.kind = "union" /\ \E variant \in Variants(ty) : UnconstrainedProperty(variant)

ShapeSupported(ty, scalarOnly) ==
    CASE ty.kind \in {"prim", "enum", "bytes", "null"} -> TRUE
      [] ty.kind = "array" -> ~ scalarOnly /\ ShapeSupported(ty.item, TRUE)
      [] ty.kind = "tuple" -> ~ scalarOnly /\ \A i \in DOMAIN ty.items : ShapeSupported(ty.items[i], TRUE)
      [] ty.kind = "struct" ->
           ~ scalarOnly /\ \A part \in FieldTypes(ty) \cup Overflow(ty) : ShapeSupported(part, TRUE)
      [] ty.kind = "union" -> \A variant \in Variants(ty) : ShapeSupported(variant, scalarOnly)
      [] OTHER -> FALSE

(* StyleDomain: the kinds of value a style is defined for. *)
Domain(style) ==
    CASE style \in Delimited -> {"array", "object"}
      [] style = "deepObject" -> {"object"}
      [] OTHER -> {"array", "object", "scalar"}

AdmitsOnly(domain, ty, nullSent, memberNullSent) ==
    /\ ~ (nullSent /\ ty.nullable)
    /\ CASE ty.kind = "struct" -> "object" \in domain
         [] ty.kind \in {"array", "tuple"} -> "array" \in domain
         [] ty.kind = "null" -> ~ nullSent
         [] ty.kind = "union" ->
              \A variant \in Variants(ty) : AdmitsOnly(domain, variant, memberNullSent, memberNullSent)
         [] OTHER -> FALSE

OutsideStyle(style, ty, nullSent, memberNullSent) ==
    "scalar" \notin Domain(style) /\ ~ AdmitsOnly(Domain(style), ty, nullSent, memberNullSent)

(* Accept, Content-Type and Authorization. *)
IsReservedHeader(p) == p.in = "header" /\ p.name \in {"accept", "content-type", "authorization"}

Style(p) ==
    CASE p.content # "" -> "content"
      [] p.style # "" -> p.style
      [] OTHER -> IF p.in \in {"path", "header"} THEN "simple" ELSE "form"

StylesAt(location) ==
    CASE location = "path" -> {"simple", "label", "matrix"}
      [] location = "query" -> {"form", "deepObject"} \cup Delimited
      [] location = "header" -> {"simple"}
      [] location = "cookie" -> {"form", "cookie"}

RemapBinary(ty) == IF ty.kind = "bytes" THEN Nullable(Prim("String"), ty.nullable) ELSE ty

QuerystringRefused(p) ==
    \/ p.content \notin {"Json", "FormUrlEncoded"}
    \/ p.ty.kind = "none"
    \/ p.content = "FormUrlEncoded" /\ p.ty.kind # "struct"

StyledShapeRefused(p) ==
    LET ty == IF p.ty = NoSchema THEN AnyTy ELSE RemapBinary(p.ty) IN
    \/ UninhabitedPart(ty) \/ UnconstrainedProperty(ty) \/ ~ ShapeSupported(ty, FALSE)
    \/ OutsideStyle(Style(p), ty, p.required, TRUE)

ParameterRefused(p) ==
    CASE p.in = "querystring" -> QuerystringRefused(p)
      [] p.content # "" -> p.content \notin {"Json", "Text"} \/ p.ty.kind = "none"
      [] OTHER ->
           \/ Style(p) \notin StylesAt(p.in)
           \/ Style(p) \in Delimited /\ TRUE \in p.explode
           \/ StyledShapeRefused(p)

LowerParameter(p) ==
    [name |-> p.name, in |-> p.in, media |-> p.content, style |-> Style(p),
     ty |-> IF p.in = "querystring" THEN p.ty ELSE RemapBinary(p.ty),
     required |-> p.required \/ p.in = "path",
     reserved |-> p.reserved /\ p.content = "",
     explode |-> CASE p.in = "querystring" -> TRUE
                   [] p.content # "" -> FALSE
                   [] OTHER -> IF p.explode = {} THEN Style(p) \in {"form", "cookie"} ELSE TRUE \in p.explode]

-----------------------------------------------------------------------------
(* The generated statements. *)

(* An optional argument that is nullable is absent where it is null, but for one whose codec has *)
(* a text of null.                                                                               *)
SendsExplicitNull(p) == ~ p.required /\ p.ty.nullable /\ p.media = "Json"

Arguments(p, values) ==
    (IF p.required THEN {} ELSE {{}})
      \cup {{v} : v \in values}
      \cup (IF (p.required /\ p.ty.nullable) \/ SendsExplicitNull(p) THEN {{JNull}} ELSE {})

QueryEncoding(reserved) == IF reserved THEN "Reserved" ELSE "Form"

Encoding(p) ==
    CASE p.in = "header" \/ p.style = "cookie" -> "Passthrough"
      [] p.in = "path" -> IF p.reserved THEN "ReservedPath" ELSE "Unreserved"
      [] OTHER -> QueryEncoding(p.reserved)

(* param_value_tokens *)
Rendered(p, v) == IF p.media = "Json" THEN JsonText(v) ELSE SerializeSimple(v, FALSE, "Passthrough")

ParamValue(p, v) ==
    CASE p.style = "content" ->
           IF p.in = "path" THEN Encode(Rendered(p, v), Encoding(p)) ELSE Rendered(p, v)
      [] p.style = "matrix" -> SerializeMatrix(<<p.name>>, v, p.explode, Encoding(p))
      [] p.style = "label" -> SerializeLabel(v, p.explode, Encoding(p))
      [] OTHER -> SerializeSimple(v, p.explode, Encoding(p))

QueryFragments(p, v) ==
    IF p.style = "content"
    THEN <<Pair(Encode(<<p.name>>, Encoding(p)), Encode(Rendered(p, v), Encoding(p)))>>
    ELSE Fragments(<<p.name>>, v, p.style, p.explode, Encoding(p))

QuerystringFragments(p, v) ==
    IF p.media = "Json" THEN <<Encode(JsonText(v), "Form")>> ELSE SerializeForm(<<>>, v, TRUE, "Form")

CookieFragments(p, v) ==
    IF p.style = "content" THEN <<Pair(<<p.name>>, Rendered(p, v))>>
                           ELSE SerializeForm(<<p.name>>, v, p.explode, Encoding(p))

ArgumentErrors(p, v) ==
    IF p.media = "Json" THEN {}
    ELSE ParameterErrors(v, IF p.in = "query" THEN p.style ELSE "form")

=============================================================================
