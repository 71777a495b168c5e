------------------------------- MODULE ModelCode -------------------------------
(***************************************************************************)
(* The types of a document's schemas against the values these admit: each  *)
(* schema is lowered to a type or refused, and the code of the type reads  *)
(* whatever arrives.                                                       *)
(*                                                                         *)
(* The reference is validity (Schemas): a value that must satisfy the      *)
(* schema is to decode, and what decodes may satisfy it.  Where the        *)
(* documents of the repository say that a type does not enforce something, *)
(* the properties name it.                                                 *)
(***************************************************************************)
EXTENDS SchemaLowering, Decode

CONSTANTS
    Written,    \* the schemas a document may hold
    Payloads    \* the values that may arrive

VARIABLES
    schema,     \* the schema at hand, if there is one
    lowered     \* its type, or why it has none

vars == <<schema, lowered>>

Init == schema = {} /\ lowered = {}

LowerSchema ==
    /\ schema = {}
    /\ \E s \in Written : schema' = {s} /\ lowered' = {Lower(s)}

NextSchema ==
    /\ schema # {}
    /\ schema' = {} /\ lowered' = {}

Next == LowerSchema \/ NextSchema

Spec == Init /\ [][Next]_vars

-----------------------------------------------------------------------------
(* What the types do not enforce. *)

(* Read as serde reads it, a variant of a oneOf takes a value that is none of its own: a missing   *)
(* field that is required and nullable, a struct written as an array, any integer for an enum of   *)
(* integers.  The count of the variants that match is then too high.                               *)
TakenByAnother(ty, v) ==
    /\ ty.kind = "union" /\ ty.strategy = Trial("oneOf")
    /\ \E variant \in Range(ty.variants) : Decodes(variant.ty, v) /\ ~ Inhabits(variant.ty, v)

(* Members that decode the same values are one variant, and a discriminator selects whatever else  *)
(* matches: which member matches, and that no other does, is not enforced.                         *)
OneOfUnenforced(s, ty) ==
    /\ s.oneOf # <<>>
    /\ ty.kind = "union" =>
          s.discriminator # {} \/ \E variant \in Range(ty.variants) : Cardinality(variant.members) > 1
AsAnyOf(s) == [s EXCEPT !.anyOf = s.oneOf, !.oneOf = <<>>]

(* A variant of any value reads null, whatever the other branches say of it. *)
ReadByAny(ty, v) ==
    v = JNull /\ ty.kind = "union" /\ \E variant \in Range(ty.variants) : variant.ty.kind = "any"

(* An object is to carry the tag of a member it satisfies. *)
TagFits(s, v) ==
    \A d \in s.discriminator : Is(v, "obj") =>
        /\ d.property \in DOMAIN v.obj
        /\ LET tag == v.obj[d.property].str
               named == IF tag \in DOMAIN d.mapping THEN d.mapping[tag] ELSE tag
           IN  \E m \in Range(Members(s)) : m.ref = {named} /\ Must(m, v)

-----------------------------------------------------------------------------
(* A value that satisfies the schema decodes: a response that keeps to the document is never       *)
(* refused (oas31/lower, codegen/union.rs).                                                        *)
ValidDecodes ==
    \A s \in schema, r \in lowered, v \in Payloads :
        IsMet(r) /\ Must(s, v) /\ TagFits(s, v) => Decodes(r.ty, v) \/ TakenByAnother(r.ty, v)

(* A value of the type satisfies the schema: keywords beside a union hold of every variant, null   *)
(* is read exactly where all constraints let it, and a oneOf with two members that match is        *)
(* refused.                                                                                        *)
DecodedValid ==
    \A s \in schema, r \in lowered, v \in Payloads :
        IsMet(r) /\ Inhabits(r.ty, v) =>
            \/ May(s, v)
            \/ OneOfUnenforced(s, r.ty) /\ May(AsAnyOf(s), v)
            \/ ReadByAny(r.ty, v)

(* A schema is refused as empty only where no value satisfies it. *)
EmptyRefused ==
    \A s \in schema, r \in lowered : r = Empty => \A v \in Payloads : ~ Must(s, v)
=============================================================================
