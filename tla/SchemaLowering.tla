---------------------------- MODULE SchemaLowering ----------------------------
(***************************************************************************)
(* How a schema is lowered to a type: its keywords (oas31/lower/schema.rs, *)
(* object.rs), its oneOf or anyOf (union.rs, refiner.rs), what tells the   *)
(* variants apart (strategy.rs, discriminator.rs), and whether the type    *)
(* admits null (nullability.rs).                                           *)
(*                                                                         *)
(* The result is a type, or the reason for none.  "empty" says that no     *)
(* value satisfies the schema.                                             *)
(***************************************************************************)
EXTENDS UnionLowering

RECURSIVE Lower(_)
RECURSIVE LowerUnion(_)

-----------------------------------------------------------------------------
(* Keywords. *)

(* A component's own type is one, wherever it is referred to. *)
LowerRef(name) ==
    LET target == Lower(Components[name])
    IN  IF IsMet(target) THEN Met([target.ty EXCEPT !.at = {name}]) ELSE target

LowerEnum(s, values) ==
    LET scalars == values \ {JNull}
        kinds == {CategoryOf(v) : v \in scalars}
        repr == CASE kinds = {"string"} -> "String" [] kinds = {"number"} -> "Int" [] OTHER -> "Bool"
        whole == \A v \in scalars : Is(v, "num") => v.num \in Int64
    IN  IF scalars = {} THEN Met(NullTy)
        ELSE IF Cardinality(kinds) > 1 \/ kinds \cap {"array", "object"} # {} \/ ~ whole
             THEN Rejected("enum")
        ELSE Met(Nullable(EnumOf(repr, scalars), OfOwnKeywords(s) = "admits"))

(* lower_type_array: the schema once for each type, and null a branch of its own. *)
TypeArray(s) ==
    LET of(type) == [s EXCEPT !.types = <<type>>]
        types == NonNullTypes(s)
        null == IF ListsNull(s) THEN <<[Blank EXCEPT !.types = <<"null">>]>> ELSE <<>>
    IN  [Blank EXCEPT !.anyOf = [i \in DOMAIN types |-> of(types[i])] \o null]

LowerString(s) ==
    LET own == s.format \cap DOMAIN Formatted
    IN  Prim(IF own = {} THEN "String" ELSE CHOOSE format \in own : TRUE)

LowerTuple(s) ==
    LET lowered == [i \in DOMAIN s.prefix |-> Lower(s.prefix[i])]
    IN  IF s.items \notin {{}, {False}} THEN Rejected("rest")
        ELSE IF \A i \in DOMAIN lowered : IsMet(lowered[i])
             THEN Met(Tuple([i \in DOMAIN lowered |-> lowered[i].ty]))
             ELSE CHOOSE r \in Range(lowered) : ~ IsMet(r)

LowerArray(s) ==
    LET item == IF s.items = {} THEN Met(AnyTy) ELSE Lower(CHOOSE c \in s.items : TRUE)
    IN  IF s.prefix # <<>> THEN LowerTuple(s)
        ELSE IF IsMet(item) THEN Met(ArrayOf(item.ty)) ELSE item

(* object_body: a key that is only required is typed by what is said of undeclared keys. *)
LowerObject(s) ==
    LET names == SetToSeq(DOMAIN s.properties)
        extra == SetToSeq(s.required \ DOMAIN s.properties)
        lowered == [i \in DOMAIN names |-> Lower(s.properties[names[i]])]
        child == CHOOSE c \in s.additional : TRUE
        other == IF s.additional \subseteq {True, False} THEN Met(AnyTy) ELSE Lower(child)
        policy == IF s.additional = {False} THEN Deny
                  ELSE IF s.additional \subseteq {True} THEN Allow ELSE Typed(other.ty)
        all == Append(lowered, other)
    IN  IF \E i \in DOMAIN all : ~ IsMet(all[i]) THEN CHOOSE r \in Range(all) : ~ IsMet(r)
        ELSE Met(StructOf(
                [i \in DOMAIN names |-> Field(names[i], lowered[i].ty, names[i] \in s.required)]
                \o [i \in DOMAIN extra |-> [Undeclared(extra[i]) EXCEPT !.ty = other.ty]],
                policy))

LowerTyped(s) ==
    LET types == NonNullTypes(s)
        primary == IF types # <<>> THEN types[1]
                   ELSE IF ImpliedCategories(s) = {"array"} THEN "array"
                   ELSE IF ImpliedCategories(s) = {"object"} \/ DOMAIN s.properties # {} THEN "object"
                   ELSE IF ListsNull(s) THEN "null" ELSE "any"
    IN  CASE primary = "boolean" -> Met(Prim("Bool"))
          [] primary = "integer" -> Met(Prim(IF s.format = {"int32"} THEN "I32" ELSE "I64"))
          [] primary = "number" -> Met(Prim("F64"))
          [] primary = "string" -> Met(LowerString(s))
          [] primary = "array" -> LowerArray(s)
          [] primary = "object" -> LowerObject(s)
          [] primary = "null" -> Met(NullTy)
          [] primary = "any" -> Met(AnyTy)

LowerKeywords(s) ==
    LET null(r) == IF IsMet(r) THEN Met(Nullable(r.ty, ListsNull(s))) ELSE r
        bytes == Bytes(IF s.format = {"base64"} THEN "base64" ELSE "raw")
    IN  IF Len(NonNullTypes(s)) > 1 THEN LowerUnion(TypeArray(s))
        ELSE null(IF IsBytes(s) THEN Met(bytes) ELSE LowerTyped(s))

-----------------------------------------------------------------------------
(* Null, once the rest is lowered. *)

OwnUnion(ty) == ty.kind = "union" /\ ty.at = {}

(* clear_variant_nulls: the variants of a union of the schema's own decode no null any more, and   *)
(* where it is denied those that are nothing else go.                                              *)
RECURSIVE ClearVariantNulls(_, _)
ClearVariantNulls(ty, drop) ==
    LET kept == SelectSeq([i \in DOMAIN ty.variants |-> i],
                          LAMBDA i : ~ (drop /\ IsNullTy(ty.variants[i].ty)))
        cleared(inner) == LET r == ClearVariantNulls(inner, drop)
                          IN  NonNullable(IF IsMet(r) THEN r.ty ELSE inner)
        variants == [i \in DOMAIN kept |->
                       [ty.variants[kept[i]] EXCEPT !.ty = cleared(ty.variants[kept[i]].ty)]]
    IN  IF ~ OwnUnion(ty) THEN Met(ty)
        ELSE IF kept = <<>> THEN Empty
        ELSE IF Len(kept) = 1 /\ Len(ty.variants) > 1 THEN Met(Reemitted(variants[1].ty))
        ELSE Met([ty EXCEPT !.variants = variants, !.strategy = RetainStrategy(ty.strategy, kept)])

IsAnyOfTrial(ty) == ty.kind = "union" /\ ty.strategy = Trial("anyOf")

(* settle_null_admission: the type carries null once where the schema admits it, and not at all    *)
(* where it does not.                                                                              *)
SettleNull(s, ty) ==
    LET admission == NullAdmission(s)
        onlyNulls == OwnUnion(ty) /\ \A v \in Range(ty.variants) : IsNullTy(v.ty)
        hasNull == ty.kind = "union" /\ \E v \in Range(ty.variants) : IsNullTy(v.ty)
        cleared(drop) == ClearVariantNulls(ty, drop)
        carried == ty.nullable \/ (OwnUnion(ty) /\ IsAnyOfTrial(ty) /\ CarriesNull(ty))
    IN  IF onlyNulls \/ IsNullTy(ty)
        THEN IF admission = "denies" THEN Empty ELSE Met(Nullable(NullTy, TRUE))
        ELSE CASE admission = "denies" ->
                    LET r == cleared(TRUE) IN IF IsMet(r) THEN Met(NonNullable(r.ty)) ELSE r
               [] admission = "undecided" -> Met(NonNullable(cleared(FALSE).ty))
               [] admission = "admits" ->
                    IF hasNull THEN Met(NonNullable(cleared(FALSE).ty))
                    ELSE IF carried THEN Met(Nullable(cleared(FALSE).ty, TRUE))
                    ELSE Met(Nullable(ty, ~ CarriesNull(ty)))

-----------------------------------------------------------------------------
(* lower_union_sibling: the keywords beside the union, whole or for each category. *)
Refiner(s) ==
    LET implied == ImpliedCategories(Applicators(s))
        half(c) == IF c \in implied THEN {Lower(HalfFor(s, c))} ELSE {}
        types(lowered) == {r.ty : r \in lowered}
        whole == Lower(WithoutUnion(s))
    IN  IF ~ HasSibling(s) THEN Met({})
        ELSE IF implied = {} THEN IF IsMet(whole) THEN Met(Whole(whole.ty)) ELSE whole
        ELSE IF \E r \in half("object") \cup half("array") : ~ IsMet(r)
             THEN CHOOSE r \in half("object") \cup half("array") : ~ IsMet(r)
        ELSE Met(Scoped(types(half("object")), types(half("array")), AdmitsNullBeside(s), TypeCategories(s)))

(* Each tag of the discriminator's mapping, and its default, names a member. *)
Resolved(s) ==
    LET members == RealMembers(s)
        at(name) == {i \in DOMAIN members : members[i].ref = {name}}
        resolve(d) == [d EXCEPT !.mapping = [tag \in DOMAIN @ |-> Min(at(@[tag]))],
                                !.default = {Min(at(name)) : name \in @}]
        named(d) == Range(d.mapping) \cup d.default
    IN  IF \E d \in s.discriminator : \E name \in named(d) : at(name) = {}
        THEN Rejected("discriminator")
        ELSE Met([s EXCEPT !.discriminator = {resolve(d) : d \in s.discriminator}])

LowerUnion(s) ==
    LET members == RealMembers(s)
        lowered == [i \in DOMAIN members |-> Lower(members[i])]
        types == [i \in DOMAIN members |-> lowered[i].ty]
        refiner == Refiner(s)
        failed == SelectSeq(<<refiner, Resolved(s)>> \o lowered, LAMBDA r : ~ IsMet(r))
    IN  IF s.oneOf # <<>> /\ s.anyOf # <<>> THEN Rejected("union")
        ELSE IF failed # <<>> THEN failed[1]
        ELSE IF members = <<>> THEN Met(NullTy)
        ELSE IF Len(members) = 1 THEN SoleMember(s, types[1], refiner.ty)
        ELSE SeveralMembers(Resolved(s).ty, types, refiner.ty)

Lower(s) ==
    LET lowered == IF HasUnion(s) THEN LowerUnion(s)
                   ELSE IF s.enum # {} THEN LowerEnum(s, CHOOSE values \in s.enum : TRUE)
                   ELSE LowerKeywords(s)
    IN  IF s.boolean # {} THEN Met(IF s.boolean = {TRUE} THEN AnyTy ELSE NeverTy)
        ELSE IF s.ref # {} THEN LowerRef(CHOOSE name \in s.ref : TRUE)
        ELSE IF IsMet(lowered) /\ (HasUnion(s) \/ s.enum # {}) THEN SettleNull(s, lowered.ty)
        ELSE lowered
=============================================================================
