------------------------------- MODULE Strategy -------------------------------
(***************************************************************************)
(* How a union tells its variants apart (oas31/lower/strategy.rs,          *)
(* discriminator.rs, union.rs: union_strategy).                            *)
(*                                                                         *)
(* A lowered variant is the type of the member it stands for, the first of *)
(* the members it was merged from, and the component that member refers    *)
(* to, if it is a reference.                                               *)
(***************************************************************************)
EXTENDS Schemas, Meet

Rejected(reason) == [no |-> reason]

LoweredVariant(ty, members, ref) == [ty |-> ty, members |-> members, ref |-> ref]
MemberOf(lowered) == Min(lowered.members)

(* The strategy of a union, and what selects each variant under it. *)
Dispatch(strategy, variants) == [strategy |-> strategy, variants |-> variants]

-----------------------------------------------------------------------------
(* type_specificity: the order variants are preferred in. *)
RECURSIVE Specificity(_)
Specificity(ty) ==
    CASE ty.kind = "enum" -> 2000 - Cardinality(ty.values)
      [] ty.kind = "null" -> 3000
      [] ty.kind = "never" -> 4000
      [] ty.kind = "struct" ->
           1000 + 20 * Cardinality({i \in DOMAIN ty.fields : ty.fields[i].required}) + Len(ty.fields)
      [] ty.kind = "tuple" -> 900 + Len(ty.items)
      [] ty.kind = "array" -> 800 + (Specificity(ty.item) \div 10)
      [] ty.kind = "prim" -> CASE ty.prim = "I32" -> 700 [] ty.prim = "I64" -> 650
                               [] ty.prim \in DOMAIN Formatted -> 600 [] OTHER -> 500
      [] ty.kind = "bytes" -> 500
      [] ty.kind = "union" -> Min({Specificity(v.ty) : v \in Range(ty.variants)})
      [] ty.kind = "any" -> 0

(* json_category: as value_category, but for bytes. *)
JsonCategory(ty) == IF ty.kind = "bytes" THEN {} ELSE ValueCategory(ty)

Distinct(sets) == \A i, j \in DOMAIN sets : i # j => sets[i] # sets[j]

(* Mistake: a key that another struct lists, but does not require, tells them apart. *)
UniqueKeysAmongRequired(types) ==
    LET requires(ty, w) == w \in Wires(ty.fields) /\ FieldOf(ty.fields, w).required
    IN  [i \in DOMAIN types |->
           SelectSeq(types[i].fields,
                     LAMBDA f : f.required /\ \A j \in DOMAIN types \ {i} : ~ requires(types[j], f.wire))]

(* required_key_features: of closed structs, the keys each requires and no other lists. *)
UniqueKeys(types) ==
    [i \in DOMAIN types |->
       SelectSeq(types[i].fields,
                 LAMBDA f : f.required
                            /\ \A j \in DOMAIN types \ {i} : f.wire \notin Wires(types[j].fields))]

IsClosed(ty) == ty.kind = "struct" /\ ty.additional = Deny

DisjointOrTrial(types, mode) ==
    LET categories == [i \in DOMAIN types |-> JsonCategory(types[i])]
        byCategory(i) == OfCategory(CHOOSE c \in categories[i] : TRUE)
        byKey(i) == OfKey(UniqueKeys(types)[i][1].wire)
        closed == \A i \in DOMAIN types : IsClosed(types[i])
    IN  IF {} \notin Range(categories) /\ Distinct(categories)
        THEN Dispatch(Disjoint, [i \in DOMAIN types |-> byCategory(i)])
        ELSE IF closed /\ <<>> \notin Range(UniqueKeys(types))
             THEN Dispatch(Disjoint, [i \in DOMAIN types |-> byKey(i)])
        ELSE Dispatch(Trial(mode), [i \in DOMAIN types |-> Tried(Specificity(types[i]))])

-----------------------------------------------------------------------------
(* A discriminator: the property, the component each tag of its mapping names, and the default. *)

(* admits_tag: nothing says that the variant does not accept the tag. *)
AdmitsTag(ty, property, tag) ==
    CASE ty.kind # "struct" -> TRUE
      [] ty.kind = "struct" /\ property \notin Wires(ty.fields) -> ty.additional # Deny
      [] ty.kind = "struct" /\ property \in Wires(ty.fields) ->
           LET field == FieldOf(ty.fields, property).ty
           IN  field.kind = "enum" => JStr(tag) \in field.values

(* pinned_tag: the one string the variant's own tag property admits. *)
PinnedTags(ty, property) ==
    IF ty.kind # "struct" \/ property \notin Wires(ty.fields) THEN {}
    ELSE LET field == FieldOf(ty.fields, property)
         IN  IF /\ field.required /\ ~ field.ty.nullable
                /\ field.ty.kind = "enum" /\ field.ty.repr = "String" /\ Cardinality(field.ty.values) = 1
             THEN {v.str : v \in field.ty.values} ELSE {}

(* An object is selected by the tags that name its member, or else by a tag of its own that        *)
(* nothing else claims; another value by its category.                                             *)
Discriminate(lowered, d, default, mode) ==
    LET mapped == DOMAIN d.mapping
        object(i) == lowered[i].ty.kind = "struct"
        category(i) == IF object(i) THEN {} ELSE JsonCategory(lowered[i].ty)
        named(i) == IF ~ object(i) THEN {}
                    ELSE {tag \in mapped : d.mapping[tag] = MemberOf(lowered[i])}
                         \cup (lowered[i].ref \ mapped)
        untagged(i) == object(i) /\ named(i) = {}
        claimed(i, tag) ==
            \/ tag \in mapped \/ \E j \in DOMAIN lowered : tag \in named(j)
            \/ \E j \in DOMAIN lowered \ {i} :
                  /\ untagged(j) \/ (j \in default /\ object(j))
                  /\ AdmitsTag(lowered[j].ty, d.property, tag)
        pinned(i) == IF untagged(i) THEN {tag \in PinnedTags(lowered[i].ty, d.property) : ~ claimed(i, tag)}
                     ELSE {}
        others == {i \in DOMAIN lowered : ~ object(i)}
        told == /\ \A i \in others : category(i) \notin {{}, {"object"}}
                /\ \A i, j \in others : i # j => category(i) # category(j)
    IN  IF ~ told THEN {}
        ELSE {Dispatch(Discriminated(d.property, default, mode),
                       [i \in DOMAIN lowered |-> ByTag(named(i) \cup pinned(i), category(i), {})])}

(* What the discriminator of a union dispatches to.  A component that no tag selects is refused;   *)
(* what is no component is then tried, where anything is selected by tag.                          *)
UnionStrategy(lowered, discriminator, mode) ==
    LET types == [i \in DOMAIN lowered |-> lowered[i].ty]
        otherwise == Met(DisjointOrTrial(types, mode))
    IN  IF discriminator = {} THEN otherwise
        ELSE
        LET d == CHOOSE it \in discriminator : TRUE
            default == {i \in DOMAIN lowered : MemberOf(lowered[i]) \in d.default}
            by == CHOOSE it \in Discriminate(lowered, d, default, mode) : TRUE
            lost == {i \in DOMAIN lowered \ default :
                       by.variants[i].tags = {} /\ by.variants[i].category = {}}
            tried == [by EXCEPT !.variants = [i \in DOMAIN lowered |->
                        IF i \in lost THEN [@[i] EXCEPT !.untagged = {Specificity(types[i])}] ELSE @[i]]]
        IN  IF d.default # {} /\ default = {} THEN Rejected("discriminator")
            ELSE IF Discriminate(lowered, d, default, mode) = {} THEN otherwise
            ELSE IF \E i \in lost : lowered[i].ref # {} THEN Rejected("discriminator")
            ELSE IF lost # {} /\ \A i \in DOMAIN lowered : by.variants[i].tags = {} THEN otherwise
            ELSE Met(tried)
=============================================================================
