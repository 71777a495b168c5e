------------------------------- MODULE Bodies -------------------------------
(***************************************************************************)
(* The body of a request: which Request Body Objects are generated, the    *)
(* encoding of the properties of a form (oas31/lower/body.rs, encoding.rs),*)
(* and what is sent (codegen/body.rs, support-runtime/parameter.rs).       *)
(*                                                                         *)
(* A Request Body Object is [media, range, ty, required, positional,       *)
(* encoding], the entry of its content that is chosen; `encoding` gives a  *)
(* property its Encoding Object, [style, explode, reserved, contentType,   *)
(* headers, nested], where one is declared.                                *)
(***************************************************************************)
EXTENDS Parameters

RECURSIVE RawText(_)

Streaming == {"EventStream", "Ndjson", "JsonSequence"}
Forms == {"FormUrlEncoded", "Multipart"}

(* raw_body_bytes and opaque_octets. *)
BodyType(b) ==
    CASE b.ty.kind = "bytes" -> Nullable(Bytes("raw"), b.ty.nullable)
      [] b.media = "OctetStream" /\ b.ty.kind \in {"none", "any"} -> Bytes("raw")
      [] OTHER -> b.ty

RawText(ty) ==
    \/ ty.kind = "prim" /\ ty.prim \notin {"Bool", "I32", "I64", "F64"}
    \/ ty.kind \in {"bytes", "any"}
    \/ ty.kind = "enum" /\ ty.repr = "String"
    \/ ty.kind = "union" /\ \A variant \in Variants(ty) : RawText(variant)

RawBodyCompatible(media, ty) ==
    CASE media = "Text" -> RawText(ty)
      [] media = "OctetStream" -> ty.kind = "bytes"
      [] OTHER -> TRUE

-----------------------------------------------------------------------------
(* The mode of a property. *)

NaturalCodec(ty) ==
    CASE ty.kind = "bytes" -> "OctetStream"
      [] ty.kind \in {"prim", "enum"} -> "Text"
      [] OTHER -> "Json"

DefaultContentType(ty) ==
    CASE ty.kind \in {"struct", "union", "any", "array", "tuple"} -> "Json"
      [] ty.kind \in {"prim", "enum"} -> "Text"
      [] OTHER -> "OctetStream"

NoEncodingObject ==
    [style |-> "", explode |-> {}, reserved |-> {}, contentType |-> "", headers |-> {}, nested |-> FALSE]
EncodingOf(b, wire) == IF wire \in DOMAIN b.encoding THEN b.encoding[wire] ELSE NoEncodingObject

ByStyle(e) == e.style # "" \/ e.explode # {} \/ e.reserved # {}
EncodingStyle(e) == IF e.style = "" THEN "form" ELSE e.style
EncodingExplode(e) == IF e.explode = {} THEN EncodingStyle(e) = "form" ELSE TRUE \in e.explode

(* A part of a multipart body has no object. *)
StyleRefused(e, ty, media) ==
    LET style == EncodingStyle(e)
        multipart == media = "Multipart"
        domain == IF multipart THEN Domain(style) \ {"object"} ELSE Domain(style)
    IN \/ style \in Delimited /\ EncodingExplode(e)
       \/ multipart /\ style = "deepObject"
       \/ multipart /\ ty.kind = "struct"
       \/ "scalar" \notin domain /\ ~ AdmitsOnly(domain, ty, FALSE, multipart)

(* Of a declared contentType: its codec, or what is wrong with it. *)
ContentTypeRefused(contentType, media) ==
    \/ contentType \in {"wildcard", "malformed"}
    \/ contentType = "unsendable" /\ media = "Multipart"

SentContentType(e, ty) == IF e.contentType = "" THEN DefaultContentType(ty) ELSE e.contentType

Codec(e, ty) ==
    IF SentContentType(e, ty) \in {"Json", "Text", "OctetStream"} THEN SentContentType(e, ty)
                                                                  ELSE NaturalCodec(ty)

MediaRefused(e, ty, media) ==
    \/ ContentTypeRefused(e.contentType, media)
    \/ e.contentType \notin {"", "Json"} /\ NaturalCodec(ty) = "Json"
    \/ media = "FormUrlEncoded" /\ Codec(e, ty) = "OctetStream"

EncodingRefused(e, ty, media) ==
    IF ByStyle(e) THEN StyleRefused(e, ty, media) ELSE MediaRefused(e, ty, media)

EncodingMode(e, ty, media) ==
    IF ByStyle(e)
    THEN [by |-> "style", style |-> EncodingStyle(e), explode |-> EncodingExplode(e),
          reserved |-> TRUE \in e.reserved /\ media # "Multipart"]
    ELSE [by |-> "media", codec |-> Codec(e, ty), contentType |-> SentContentType(e, ty)]

(* A header that pins no value is not sent, nor is a Content-Type; one that no part can carry is *)
(* refused.                                                                                      *)
PinnedHeaders(e) == {h \in e.headers : h.name # "content-type" /\ h.pinned # ""}
HeadersRefused(e, media) ==
    media = "Multipart" /\ \E h \in PinnedHeaders(e) : ~ h.sendable
PartHeaders(e) == {<<h.name, h.pinned>> : h \in PinnedHeaders(e)}

FormRefused(b, ty) ==
    \/ b.media = "Multipart" /\ b.positional
    \/ \E wire \in DOMAIN b.encoding : b.encoding[wire].nested
    \/ \E i \in DOMAIN ty.fields :
         LET e == EncodingOf(b, ty.fields[i].wire) IN
         EncodingRefused(e, ty.fields[i].ty, b.media) \/ HeadersRefused(e, b.media)
    \/ \E part \in Overflow(ty) : EncodingRefused(NoEncodingObject, part, b.media)

BodyRefused(b) ==
    LET ty == BodyType(b) IN
    \/ b.range \/ b.media \in Streaming
    \/ b.media \in Forms /\ (ty.kind # "struct" \/ FormRefused(b, ty))
    \/ ty.kind # "none" /\ ~ RawBodyCompatible(b.media, ty)
    \/ ty.kind # "none" /\ ty.nullable /\ (b.media = "Text" \/ ty.kind = "bytes")

(* The properties in the order of the fields, and what the rest of the members takes. *)
Properties(b) ==
    [i \in DOMAIN b.ty.fields |->
        LET field == b.ty.fields[i]
            e == EncodingOf(b, field.wire)
        IN [name |-> field.wire, ty |-> field.ty, headers |-> PartHeaders(e),
            mode |-> EncodingMode(e, field.ty, b.media)]]

Additional(b) ==
    {[ty |-> part, mode |-> EncodingMode(NoEncodingObject, part, b.media)] : part \in Overflow(b.ty)}

-----------------------------------------------------------------------------
(* A form.  Its argument is [fields, overflow]: the fields that are set, and the entries of the  *)
(* map beside them, which may repeat the name of a field.                                        *)

Named(name) == Encode(<<name>>, "Form")

FormMember(name, v, mode) ==
    CASE Is(v, "null") -> <<>>
      [] mode.by = "style" ->
           Fragments(<<name>>, v, mode.style, mode.explode, QueryEncoding(mode.reserved))
      [] mode.codec = "Json" -> <<Pair(Named(name), Encode(JsonText(v), "Form"))>>
      [] OTHER -> <<Pair(Named(name), Scalar(v, "Form"))>>

FormMemberErrors(v, mode) ==
    CASE Is(v, "null") -> {}
      [] mode.by = "style" -> ParameterErrors(v, mode.style)
      [] mode.codec = "Json" -> {}
      [] OTHER -> IF Composite(v) THEN {"NestedValue"} ELSE {}

(* What is sent of a form, its declared members first. *)
SetMembers(b, form) ==
    LET properties == SelectSeq(Properties(b), LAMBDA p : p.name \in DOMAIN form.fields) IN
    [i \in DOMAIN properties |->
        [name |-> properties[i].name, v |-> form.fields[properties[i].name],
         mode |-> properties[i].mode, ty |-> properties[i].ty, headers |-> properties[i].headers]]

(* Mistake: an entry takes the place of a field that is not set. *)
OverflowMembersBesideSet(b, form) ==
    LET names == SetToSeq(IF Additional(b) = {} THEN {} ELSE DOMAIN form.overflow \ DOMAIN form.fields)
    IN [i \in DOMAIN names |->
           LET additional == CHOOSE a \in Additional(b) : TRUE IN
           [name |-> names[i], v |-> form.overflow[names[i]],
            mode |-> additional.mode, ty |-> additional.ty, headers |-> {}]]

OverflowMembers(b, form) ==
    LET names == SetToSeq(IF Additional(b) = {} THEN {}
                                                ELSE DOMAIN form.overflow \ Wires(b.ty.fields))
    IN [i \in DOMAIN names |->
           LET additional == CHOOSE a \in Additional(b) : TRUE IN
           [name |-> names[i], v |-> form.overflow[names[i]],
            mode |-> additional.mode, ty |-> additional.ty, headers |-> {}]]

Members(b, form) == SetMembers(b, form) \o OverflowMembers(b, form)

SerializeFormBody(b, form) ==
    LET members == Members(b, form) IN
    Join(FlattenSeq([i \in DOMAIN members |->
                        FormMember(members[i].name, members[i].v, members[i].mode)]),
         <<"&">>)

-----------------------------------------------------------------------------
(* A multipart body. *)

(* serialize_multipart_values: nothing is percent-encoded, delimiters are literal. *)
MultipartValues(v, mode) ==
    LET separator == IF mode.style = "form" THEN "," ELSE Delimiter(mode.style) IN
    IF IsArray(v) /\ mode.explode THEN Scalars(v, "Passthrough")
                                    ELSE <<Flat(v, <<separator>>, "Passthrough")>>

MediaPart(v, ty) ==
    CASE ty.kind = "bytes" -> v.raw
      [] ty.kind \in {"prim", "enum"} -> Scalar(v, "Passthrough")
      [] OTHER -> JsonText(v)

Part(member, type, text) ==
    [name |-> member.name, type |-> type, text |-> text, headers |-> member.headers]

(* A null of a member's own type is absent. *)
MemberParts(member) ==
    CASE Is(member.v, "null") /\ member.ty.nullable -> <<>>
      [] member.mode.by = "style" ->
           LET values == MultipartValues(member.v, member.mode) IN
           [i \in DOMAIN values |-> Part(member, "", values[i])]
      [] OTHER -> <<Part(member, member.mode.contentType, MediaPart(member.v, member.ty))>>

PartErrors(member) ==
    IF member.mode.by = "media" THEN {}
    ELSE IF Is(member.v, "obj") \/ Is(member.v, "raw") \/ Nests(member.v) THEN {"NestedValue"} ELSE {}

MultipartParts(b, form) ==
    LET members == Members(b, form) IN
    FlattenSeq([i \in DOMAIN members |-> MemberParts(members[i])])

-----------------------------------------------------------------------------
(* The body of a request. *)

NothingSent == [type |-> "", text |-> <<>>, parts |-> <<>>]

SentBody(b, v) ==
    LET ty == BodyType(b) IN
    CASE ty.kind = "none" -> NothingSent
      [] ty.kind = "bytes" -> [NothingSent EXCEPT !.type = b.media, !.text = v.raw]
      [] b.media = "Json" -> [NothingSent EXCEPT !.type = b.media, !.text = JsonText(v)]
      [] b.media = "Text" -> [NothingSent EXCEPT !.type = b.media, !.text = Scalar(v, "Passthrough")]
      [] b.media = "FormUrlEncoded" ->
           [NothingSent EXCEPT !.type = b.media, !.text = SerializeFormBody(b, v)]
      [] b.media = "Multipart" ->
           [NothingSent EXCEPT !.type = b.media, !.parts = MultipartParts(b, v)]

BodyErrors(b, v) ==
    CASE b.media = "FormUrlEncoded" ->
           IF Is(v, "null") THEN {"FormBodyNotObject"}
           ELSE UNION {FormMemberErrors(m.v, m.mode) : m \in ToSet(Members(b, v))}
      [] b.media = "Multipart" -> UNION {PartErrors(m) : m \in ToSet(Members(b, v))}
      [] OTHER -> {}

=============================================================================
