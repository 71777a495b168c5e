------------------------------- MODULE Arrival -------------------------------
(***************************************************************************)
(* What a server reads from a request, by the tables of styles of the      *)
(* OpenAPI Specification, against what the caller passed.  A reader splits *)
(* at the delimiters that are written out, and then resolves the escapes.  *)
(* It is told what kind of value to look for, a scalar, an array or an     *)
(* object: no style tells them apart.                                      *)
(***************************************************************************)
EXTENDS Requests

Escapes == [c \in NotUnreserved \cup Triples \cup {"~", "a", "."} |-> "%" \o c]
EscapedBy == AntiFunction(Escapes)
Unescape(text) == [i \in DOMAIN text |-> IF text[i] \in DOMAIN EscapedBy THEN EscapedBy[text[i]] ELSE text[i]]

(* Headers and `style: cookie` are not percent-encoded, nor is the text of a codec in a cookie. *)
Verbatim(p) == p.in = "header" \/ (p.in = "cookie" /\ p.style \in {"cookie", "content"})
Decoded(p, text) == IF Verbatim(p) THEN text ELSE Unescape(text)

Stop(text) == Min({i \in DOMAIN text : text[i] = "="} \cup {Len(text) + 1})
KeyOf(text) == SubSeq(text, 1, Stop(text) - 1)
ValueOf(text) == SubSeq(text, Stop(text) + 1, Len(text))

-----------------------------------------------------------------------------
(* Reading one value. *)

KindOf(p, v) ==
    CASE p.style = "content" -> "scalar"
      [] Is(v, "arr") -> "array"
      [] Is(v, "obj") -> "object"
      [] OTHER -> "scalar"

(* What is to be read.  An empty array, one empty text and null are one on the wire. *)
Meant(p, v) ==
    CASE p.style = "content" -> Rendered(p, v)
      [] Is(v, "arr") -> IF v.arr = <<>> THEN <<<<>>>> ELSE Scalars(v, "Passthrough")
      [] Is(v, "obj") -> [key \in {<<k>> : k \in DOMAIN v.obj} |-> Scalar(v.obj[key[1]], "Passthrough")]
      [] OTHER -> Scalar(v, "Passthrough")

First(texts, Of(_), key) == texts[CHOOSE i \in DOMAIN texts : Of(texts[i]) = key]

Listed(p, text, delimiter, shape) ==
    LET items == Split(text, {delimiter})
        even == {i \in DOMAIN items : i % 2 = 0}
    IN CASE shape = "array" -> [i \in DOMAIN items |-> Decoded(p, items[i])]
         [] shape = "object" ->
              [key \in {Decoded(p, items[i - 1]) : i \in even} |->
                  Decoded(p, items[CHOOSE i \in even : Decoded(p, items[i - 1]) = key])]
         [] OTHER -> Decoded(p, text)

(* Pairs without a value are what is left of a value that is undefined. *)
Paired(p, texts, Name(_)) ==
    LET pairs == SelectSeq(texts, LAMBDA text : "=" \in ToSet(text)) IN
    [key \in {Name(Decoded(p, KeyOf(pairs[i]))) : i \in DOMAIN pairs} |->
        Decoded(p, ValueOf(First(pairs, LAMBDA text : Name(Decoded(p, KeyOf(text))), key)))]

Same(key) == key
AfterFirst(text) == SubSeq(text, 2, Len(text))

ReadSegment(p, text, shape) ==
    CASE p.style = "content" -> Decoded(p, text)
      [] p.style = "matrix" ->
           LET texts == Split(AfterFirst(text), {";"}) IN
           CASE p.explode /\ shape = "array" -> [i \in DOMAIN texts |-> Decoded(p, ValueOf(texts[i]))]
             [] p.explode /\ shape = "object" -> Paired(p, texts, Same)
             [] OTHER -> Listed(p, ValueOf(text), ",", shape)
      [] p.style = "label" ->
           CASE p.explode /\ shape = "array" -> Listed(p, AfterFirst(text), ".", shape)
             [] p.explode /\ shape = "object" -> Paired(p, Split(AfterFirst(text), {"."}), Same)
             [] OTHER -> Listed(p, AfterFirst(text), ",", shape)
      [] OTHER ->
           IF p.explode /\ shape = "object" THEN Paired(p, Split(text, {","}), Same)
                                            ELSE Listed(p, text, ",", shape)

BetweenBrackets(key) == SubSeq(key, 3, Len(key) - 1)

ReadFragments(p, texts, shape) ==
    CASE p.style = "deepObject" -> Paired(p, texts, BetweenBrackets)
      [] p.style \in Delimited -> Listed(p, ValueOf(texts[1]), "%" \o Delimiter(p.style), shape)
      [] p.explode /\ shape = "array" -> [i \in DOMAIN texts |-> Decoded(p, ValueOf(texts[i]))]
      [] p.explode /\ shape = "object" ->
           Paired(p, SelectSeq(texts, LAMBDA text : Decoded(p, KeyOf(text)) # <<p.name>>), Same)
      [] OTHER -> Listed(p, ValueOf(texts[1]), ",", shape)

-----------------------------------------------------------------------------
(* What no reader can tell apart, as the styles are defined. *)

Texts(v) ==
    CASE Is(v, "obj") -> {<<k>> : k \in DOMAIN v.obj} \cup {Scalar(v.obj[k], "Passthrough") : k \in DOMAIN v.obj}
      [] Is(v, "arr") -> {Scalar(v.arr[i], "Passthrough") : i \in DOMAIN v.arr}
      [] OTHER -> {Scalar(v, "Passthrough")}

(* The delimiters of a style that are not escaped in a value: where nothing is, where            *)
(* `allowReserved` or the unreserved set leaves them, and where the delimiter is escaped itself. *)
(* What a caller escapes under `allowReserved` is his own.                                       *)
Ambiguous(p, shape) ==
    (IF p.in = "cookie" /\ (Verbatim(p) \/ p.reserved) THEN {";"} ELSE {})
      \cup (IF p.reserved THEN Triples ELSE {})
      \cup (IF shape = "scalar" THEN {}
            ELSE (IF Verbatim(p) THEN {",", "="} ELSE {})
                   \cup (IF p.reserved THEN {",", ";", "="} ELSE {})
                   \cup (IF p.style = "label" THEN {"."} ELSE {})
                   \cup (IF p.style \in Delimited THEN {Delimiter(p.style)} ELSE {}))

RECURSIVE HoldsBytes(_)
HoldsBytes(v) ==
    \/ Is(v, "raw")
    \/ Is(v, "arr") /\ \E i \in DOMAIN v.arr : HoldsBytes(v.arr[i])
    \/ Is(v, "obj") /\ \E k \in DOMAIN v.obj : HoldsBytes(v.obj[k])

Inherent(p, v) ==
    \* Raw bytes have no text in a style, and go out as the numbers they are.
    \/ HoldsBytes(v)
    \/ \E text \in IF p.style = "content" THEN {Rendered(p, v)} ELSE Texts(v) :
         ToSet(text) \cap Ambiguous(p, KindOf(p, v)) # {}
    \* No member, and no name to keep.
    \/ p.style = "deepObject" /\ Empty(v)
    \/ p.in = "querystring" /\ Empty(v)

-----------------------------------------------------------------------------
(* Fragments: a query, the cookies, a form.  An entry is a parameter and what is passed for it.   *)

Entry(p, given) == [p |-> p, given |-> given]

EntriesAt(c, location) ==
    LET params == Params(c.operation)
        those == SelectSeq([i \in DOMAIN params |-> i], LAMBDA i : params[i].in = location)
    IN [k \in DOMAIN those |-> Entry(params[those[k]], c.arguments[those[k]])]

ExplodesObject(e) ==
    /\ e.p.explode /\ e.p.style \in {"form", "cookie"}
    /\ IF e.given = {} THEN e.p.ty.kind = "struct" ELSE \A v \in e.given : Is(v, "obj")

OtherNames(entries, k, taken) == taken \cup {entries[j].p.name : j \in DOMAIN entries \ {k}}

(* The fragments of an entry: an object that explodes has all that have another name. *)
Own(entries, k, texts, taken) ==
    LET p == entries[k].p IN
    SelectSeq(texts, LAMBDA text :
        LET key == Decoded(p, KeyOf(text)) IN
        CASE p.style = "deepObject" -> Len(key) > 2 /\ SubSeq(key, 1, 2) = <<p.name, "[">> /\ Last(key) = "]"
          [] ExplodesObject(entries[k]) -> key # <<>> /\ key[1] \notin OtherNames(entries, k, taken)
          [] OTHER -> key = <<p.name>>)

(* The members of an object that explodes are named as another parameter is. *)
Meets(entries, k, taken) ==
    \E v \in entries[k].given :
        ExplodesObject(entries[k]) /\ DOMAIN v.obj \cap (OtherNames(entries, k, taken) \cup {entries[k].p.name}) # {}

FragmentsArrive(entries, texts, taken) ==
    \A k \in DOMAIN entries :
        LET e == entries[k]
            own == Own(entries, k, texts, taken)
        IN \/ \E j \in DOMAIN entries : Meets(entries, j, taken)
           \/ \E v \in e.given : Inherent(e.p, v)
           \/ e.given = {} /\ own = <<>>
           \/ \E v \in e.given : own # <<>> /\ ReadFragments(e.p, own, KindOf(e.p, v)) = Meant(e.p, v)

SplitAll(text, delimiter) == IF text = <<>> THEN <<>> ELSE Split(text, {delimiter})
Unspaced(texts) == [i \in DOMAIN texts |-> IF i = 1 THEN texts[i] ELSE AfterFirst(texts[i])]

QueryArrives(c, wire) ==
    LET whole == EntriesAt(c, "querystring")
        base == {KeyOf(c.operation.base.query[i])[1] : i \in DOMAIN c.operation.base.query}
    IN CASE whole = <<>> -> FragmentsArrive(EntriesAt(c, "query"), SplitAll(wire.query, "&"), base)
         [] whole[1].given = {} -> wire.query = <<>>
         [] whole[1].p.media = "Json" -> \A v \in whole[1].given : Unescape(wire.query) = JsonText(v)
         [] OTHER ->
              FragmentsArrive(<<[whole[1] EXCEPT !.p.style = "form", !.p.media = ""]>>,
                              SplitAll(wire.query, "&"), {})

-----------------------------------------------------------------------------
(* Paths and headers. *)

PathArrives(c, wire) ==
    LET entries == EntriesAt(c, "path")
        segments == Split(wire.path, {"/"})
        template == Split(c.operation.base.path \o c.operation.template, {"/"})
    IN /\ Len(segments) = Len(template)
       /\ \A i \in DOMAIN template :
            \/ "{" \notin ToSet(template[i]) /\ segments[i] = template[i]
            \/ \E k \in DOMAIN entries, v \in UNION {e.given : e \in ToSet(entries)} :
                 /\ template[i] = <<"{", entries[k].p.name, "}">> /\ v \in entries[k].given
                 /\ \/ Inherent(entries[k].p, v)
                    \/ ReadSegment(entries[k].p, segments[i], KindOf(entries[k].p, v)) = Meant(entries[k].p, v)

(* A value that leaves nothing of the first segment takes its slash with it. *)
NothingFirst(c) ==
    c.operation.template[2] = "{" /\ (RenderedPath(c) = <<"/">> \/ RenderedPath(c)[2] = "/")

HeadersArrive(c, wire) ==
    \A e \in ToSet(EntriesAt(c, "header")) :
        LET own == SelectSeq(wire.headers, LAMBDA h : h[1] = e.p.name) IN
        \/ e.given = {} /\ own = <<>>
        \/ \E v \in e.given :
             \/ Inherent(e.p, v)
             \/ Len(own) = 1 /\ ReadSegment(e.p, own[1][2], KindOf(e.p, v)) = Meant(e.p, v)

-----------------------------------------------------------------------------
(* Bodies. *)

(* A field is not sent where it is null; an entry beside the fields, where a field has its name. *)
FormEntries(b, form) ==
    LET asParameter(name, ty, mode) ==
            [name |-> name, in |-> "form", ty |-> ty,
             media |-> IF mode.by = "media" THEN mode.codec ELSE "",
             style |-> IF mode.by = "media" THEN "content" ELSE mode.style,
             explode |-> mode.by = "style" /\ mode.explode,
             reserved |-> mode.by = "style" /\ mode.reserved]
        fields == Properties(b)
        rest == SetToSeq(DOMAIN form.overflow \ Wires(b.ty.fields))
        set(values, name) == {values[n] : n \in DOMAIN values \cap {name}} \ {JNull}
    IN [i \in DOMAIN fields |->
           Entry(asParameter(fields[i].name, fields[i].ty, fields[i].mode), set(form.fields, fields[i].name))]
         \o FlattenSeq([i \in DOMAIN rest |->
              [k \in 1..Cardinality(Additional(b)) |->
                LET a == CHOOSE a \in Additional(b) : TRUE IN
                Entry(asParameter(rest[i], a.ty, a.mode), set(form.overflow, rest[i]))]])

(* One part, or of an array that explodes one for every item.  The bytes of a file are its part. *)
PartsArrive(e, parts) ==
    \/ e.given = {} /\ parts = <<>>
    \/ \E v \in e.given :
         LET texts == [i \in DOMAIN parts |-> parts[i].text] IN
         CASE Is(v, "raw") -> texts = <<v.raw>>
           [] e.p.style # "content" /\ e.p.explode /\ Is(v, "arr") -> texts = Scalars(v, "Passthrough")
           [] e.p.style # "content" /\ Is(v, "arr") ->
                LET delimiter == IF e.p.style = "form" THEN "," ELSE Delimiter(e.p.style) IN
                \/ \E text \in Texts(v) : delimiter \in ToSet(text)
                \/ Len(texts) = 1 /\ Split(texts[1], {delimiter}) = Meant(e.p, v)
           [] OTHER -> texts = <<IF e.p.ty.kind \in {"prim", "enum"} THEN Scalar(v, "Passthrough")
                                 ELSE IF e.p.style = "content" THEN JsonText(v) ELSE Meant(e.p, v)>>

(* A part is labelled as its Encoding Object has it, and carries the headers that one pins. *)
PartsLabelled(b, parts) ==
    \A i \in DOMAIN parts :
        LET e == EncodingOf(b, parts[i].name) IN
        /\ parts[i].headers = PartHeaders(e)
        /\ e.contentType # "" /\ ~ ByStyle(e) => parts[i].type = e.contentType

BodyArrives(b, v, body) ==
    CASE b.media = "FormUrlEncoded" -> FragmentsArrive(FormEntries(b, v), SplitAll(body.text, "&"), {})
      [] b.media = "Multipart" ->
           /\ \A e \in ToSet(FormEntries(b, v)) :
                PartsArrive(e, SelectSeq(body.parts, LAMBDA part : part.name = e.p.name))
           /\ PartsLabelled(b, body.parts)
      [] OTHER -> body.type = b.media

-----------------------------------------------------------------------------
(* Shapes lowering does not look into: raw bytes inside a styled value, what a form or the text   *)
(* of a codec holds, and a form that is null.                                                     *)
NotLookedInto(c) ==
    \/ \E i \in DOMAIN c.arguments : \E v \in c.arguments[i] :
         HoldsBytes(v) \/ (Params(c.operation)[i].style = "content" /\ Nests(v))
    \/ c.payload = {JNull}
    \/ \E b \in c.operation.body, v \in c.payload : b.media \in Forms /\ CallErrors(c) = {"NestedValue"}

(* What a caller passes is what the server reads, in the place it is declared for and whether it  *)
(* is there at all: no value is taken for a delimiter, for the syntax around it, for a            *)
(* placeholder of the path or for another parameter, and none changes where the request goes.     *)
(* (parameter.rs: "delimiters are emitted literally and every data byte is percent-encoded".)     *)
(* No argument that its type admits is refused but for the shapes lowering does not look into.    *)
ArgumentsArrive ==
    /\ stage = "send" =>
         LET wire == Wire(call) IN
         /\ PathArrives(call, wire) \/ NothingFirst(call)
         /\ QueryArrives(call, wire)
         /\ HeadersArrive(call, wire)
         /\ FragmentsArrive(EntriesAt(call, "cookie"), Unspaced(SplitAll(wire.cookies, ";")), {})
         /\ \A b \in call.operation.body :
              IF call.payload = {} THEN wire.body = NothingSent
              ELSE \A v \in call.payload : BodyArrives(b, v, wire.body)
    /\ stage = "url" /\ CallErrors(call) # {} => NotLookedInto(call)

=============================================================================
