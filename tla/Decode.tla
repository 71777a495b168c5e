-------------------------------- MODULE Decode --------------------------------
(***************************************************************************)
(* What the generated models decode (codegen/models.rs, codegen/union.rs): *)
(* derived and emitted serde code over a buffered JSON value.              *)
(*                                                                         *)
(* Read strictly, a value decodes as a type where it is one of the values  *)
(* the type stands for.  Serde reads some values more: `serde` says        *)
(* whether these count.                                                    *)
(***************************************************************************)
EXTENDS IrTypes

CONSTANTS
    UInt8,      \* the numbers a byte may be
    Mapped      \* the formats that are decoded to types of their own

-----------------------------------------------------------------------------
PrimitiveReads(p, v, serde) ==
    CASE p = "Bool" -> Is(v, "bool")
      [] p = "I32" -> Is(v, "num") /\ v.num \in Int32
      [] p = "I64" -> Is(v, "num") /\ v.num \in Int64
      [] p = "F64" -> Is(v, "num")
      [] p = "String" -> Is(v, "str")
      [] OTHER -> Is(v, "str") /\ ((serde => p \in Mapped) => v.str \in Formatted[p])

(* The aliases of integer and boolean enums list nothing, and a unit variant is read off a map of  *)
(* one entry too.                                                                                  *)
EnumReads(set, v, serde) ==
    \/ v \in set.values
    \/ /\ serde
       /\ CASE set.repr = "Int" -> Is(v, "num") /\ v.num \in Int64
            [] set.repr = "Bool" -> Is(v, "bool")
            [] OTHER -> \E s \in set.values : v = JObj(s.str :> JNull)

(* Raw bytes are read off an array of bytes too. *)
BytesRead(encoding, v, serde) ==
    \/ Is(v, "str") /\ (encoding = "base64" => v.str \in Base64Texts)
    \/ /\ serde /\ encoding = "raw" /\ Is(v, "arr")
       /\ \A i \in DOMAIN v.arr : Is(v.arr[i], "num") /\ v.arr[i].num \in UInt8

Matches(mode, count) == IF mode = "oneOf" THEN count = 1 ELSE count >= 1

RECURSIVE Reads(_, _, _)
RECURSIVE Picked(_, _, _)

(* A field that is missing: an Option without a default is none. *)
MayMiss(field, serde) == ~ field.required \/ (serde /\ field.ty.nullable)

StructReads(ty, v, serde) ==
    /\ Is(v, "obj")
    /\ \A i \in DOMAIN ty.fields :
          LET f == ty.fields[i]
          IN  IF f.wire \in DOMAIN v.obj THEN Reads(f.ty, v.obj[f.wire], serde)
              ELSE MayMiss(f, serde)
    /\ \A w \in DOMAIN v.obj \ Wires(ty.fields) :
          CASE ty.additional.policy = "allow" -> TRUE
            [] ty.additional.policy = "deny" -> FALSE
            [] OTHER -> Reads(ty.additional.ty, v.obj[w], serde)

(* A derived struct without an overflow map is read off a sequence of its fields too. *)
ReadsInOrder(ty, v) ==
    /\ Is(v, "arr") /\ ty.additional.policy # "typed" /\ Len(v.arr) <= Len(ty.fields)
    /\ \A i \in DOMAIN ty.fields :
          IF i \in DOMAIN v.arr THEN Reads(ty.fields[i].ty, v.arr[i], TRUE)
          ELSE ~ ty.fields[i].required

Reads(ty, v, serde) ==
    \/ v = JNull /\ ty.nullable
    \/ ty.kind = "prim" /\ PrimitiveReads(ty.prim, v, serde)
    \/ ty.kind = "enum" /\ EnumReads(ty, v, serde)
    \/ ty.kind = "bytes" /\ BytesRead(ty.encoding, v, serde)
    \/ ty.kind = "array" /\ Is(v, "arr") /\ \A i \in DOMAIN v.arr : Reads(ty.item, v.arr[i], serde)
    \/ /\ ty.kind = "tuple" /\ Is(v, "arr") /\ Len(v.arr) = Len(ty.items)
       /\ \A i \in DOMAIN v.arr : Reads(ty.items[i], v.arr[i], serde)
    \/ ty.kind = "struct" /\ (StructReads(ty, v, serde) \/ (serde /\ ReadsInOrder(ty, v)))
    \/ ty.kind = "union" /\ Picked(ty, v, serde) # {}
    \/ ty.kind = "null" /\ v = JNull
    \/ ty.kind = "any"

-----------------------------------------------------------------------------
(* The variant a union decodes a value to: none where it fails. *)

Decoded(ty, i, v, serde) == IF Reads(ty.variants[i].ty, v, serde) THEN {i} ELSE {}

First(indices) == IF indices = {} THEN {} ELSE {Min(indices)}

(* trial_attempt_tokens: the most specific of the variants that decode the value. *)
Attempt(ty, tried, priority, v, serde) ==
    LET matched == {i \in tried : Reads(ty.variants[i].ty, v, serde)}
        best == {i \in matched : \A j \in matched : priority[j] <= priority[i]}
    IN  IF Matches(ty.strategy.mode, Cardinality(matched)) THEN First(best) ELSE {}

TrialPicks(ty, v, serde) ==
    Attempt(ty, DOMAIN ty.variants,
            [i \in DOMAIN ty.variants |-> ty.variants[i].dispatch.priority], v, serde)

HasFeature(dispatch, v) ==
    IF "category" \in DOMAIN dispatch THEN CategoryOf(v) = dispatch.category
    ELSE Is(v, "obj") /\ dispatch.key \in DOMAIN v.obj

DisjointPicks(ty, v, serde) ==
    LET apt == {i \in DOMAIN ty.variants : HasFeature(ty.variants[i].dispatch, v)}
    IN  IF apt = {} THEN {} ELSE Decoded(ty, Min(apt), v, serde)

TagOf(ty, v) ==
    LET field == ty.strategy.tag
    IN  IF Is(v, "obj") /\ field \in DOMAIN v.obj /\ Is(v.obj[field], "str") THEN {v.obj[field].str}
        ELSE {}

(* A unique category, the tag, a trial of the variants without one, the default. *)
DiscriminatedPicks(ty, v, serde) ==
    LET at(i) == ty.variants[i].dispatch
        apt == {i \in DOMAIN ty.variants : CategoryOf(v) \in at(i).category}
        tagged == {i \in DOMAIN ty.variants : TagOf(ty, v) \cap at(i).tags # {}}
        untagged == {i \in DOMAIN ty.variants : at(i).untagged # {}}
        priority == [i \in untagged |-> Max(at(i).untagged)]
        tried == Attempt(ty, untagged, priority, v, serde)
        chosen == IF apt # {} THEN apt ELSE tagged
    IN  IF chosen # {} THEN Decoded(ty, Min(chosen), v, serde)
        ELSE IF tried # {} THEN tried
        ELSE UNION {Decoded(ty, i, v, serde) : i \in ty.strategy.default}

Picked(ty, v, serde) ==
    CASE ty.strategy.by = "disjoint" -> DisjointPicks(ty, v, serde)
      [] ty.strategy.by = "trial" -> TrialPicks(ty, v, serde)
      [] ty.strategy.by = "discriminated" -> DiscriminatedPicks(ty, v, serde)

-----------------------------------------------------------------------------
Inhabits(ty, v) == Reads(ty, v, FALSE)
Decodes(ty, v) == Reads(ty, v, TRUE)
=============================================================================
