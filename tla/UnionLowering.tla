---------------------------- MODULE UnionLowering ----------------------------
(***************************************************************************)
(* A oneOf or anyOf, its members lowered and the keywords beside it        *)
(* (oas31/lower/union.rs, refiner.rs): each member is met with these, null *)
(* is taken out of the variants, and variants that decode the same values  *)
(* are one.                                                                *)
(***************************************************************************)
EXTENDS Strategy

Members(s) == IF s.oneOf # <<>> THEN s.oneOf ELSE s.anyOf
Mode(s) == IF s.oneOf # <<>> THEN "oneOf" ELSE "anyOf"

(* member_is_null_only. *)
IsNullMember(m) ==
    /\ m.boolean = {} /\ m.ref = {} /\ m.types = <<"null">> /\ ~ HasUnion(m) /\ m.enum = {}
    /\ DOMAIN m.properties = {}

RealMembers(s) == SelectSeq(Members(s), LAMBDA m : ~ IsNullMember(m))
NullMembers(s) == Len(Members(s)) - Len(RealMembers(s))

(* A type array of several categories is set apart from the keywords beside the union. *)
TypeCategories(s) == IF Len(NonNullTypes(s)) > 1 THEN {CategoriesNamed(s)} ELSE {}
Applicators(s) ==
    IF TypeCategories(s) = {} THEN WithoutUnion(s) ELSE [WithoutUnion(s) EXCEPT !.types = <<>>]

CategoriesAlone(s) == TypeCategories(s) # {} /\ ~ BearsShape(Applicators(s))
HasSibling(s) == BearsShape(WithoutUnion(s))

SpeaksAboutNull(s) == s.types # <<>> \/ s.enum # {}

AdmitsNullBeside(s) == TypeCategories(s) = {} \/ ListsNull(s)

(* The keywords for values of one category, as a schema of that type. *)
HalfFor(s, category) ==
    LET types == IF AdmitsNullBeside(s) THEN <<category, "null">> ELSE <<category>>
        keywords == [Applicators(s) EXCEPT !.types = types]
    IN  IF category = "object" THEN [keywords EXCEPT !.items = {}, !.prefix = <<>>]
        ELSE [keywords EXCEPT !.properties = <<>>, !.required = {}, !.additional = {}]

(* array_admits_all_of: the type array says nothing that the type does not. *)
RECURSIVE Restates(_, _)
Restates(s, ty) ==
    IF ty.kind = "union"
    THEN \A v \in Range(ty.variants) : (v.ty.nullable => ListsNull(s)) /\ Restates(s, v.ty)
    ELSE /\ ValueCategory(ty) # {} /\ ValueCategory(ty) \subseteq CategoriesNamed(s)
         /\ (ty.kind = "prim" /\ ty.prim = "F64") => "number" \in Range(s.types)

MeetSibling(s, branch, refiner) ==
    IF CategoriesAlone(s) /\ Restates(s, branch) THEN Met(Nullable(branch, branch.nullable /\ ListsNull(s)))
    ELSE MeetRefiner(branch, refiner)

RefinerAcceptsNull(refiner) ==
    IF IsWhole(refiner) THEN AcceptsNull(refiner.whole) ELSE refiner.admitsNull

-----------------------------------------------------------------------------
(* What a member says of null, and what its type took of it. *)

IsNullTy(ty) == ty.kind = "null"

CarriesNull(ty) ==
    \/ ty.nullable \/ IsNullTy(ty)
    \/ ty.kind = "union" /\ \E v \in Range(ty.variants) : v.ty.nullable \/ IsNullTy(v.ty)

SiblingNull(s) == NullAdmission(WithoutUnion(s))
NullSurvives(s, member) == Matching(And(NullAdmission(member), SiblingNull(s)))

LeavesNullUndecided(member, ty) ==
    /\ member.boolean = {} /\ ~ ty.nullable /\ ty.kind \in {"struct", "array", "tuple"}
    /\ NullAdmission(member) = "undecided"

TakesConjunctNull(member, ty) ==
    LeavesNullUndecided(member, ty) \/ (~ ty.nullable /\ ty.kind = "any")

TakesPermittedNull(member, ty) ==
    IF HasUnion(member) THEN Matching(NullAdmission(member)) /\ ~ CarriesNull(ty)
    ELSE ty.kind = "any" \/ LeavesNullUndecided(member, ty)

(* The null that the keywords beside the union let a member have that does not decide. *)
TakesNull(s, member, ty) == OfOwnKeywords(s) = "admits" /\ TakesPermittedNull(member, ty)

WithNull(ty, too) == Nullable(ty, ty.nullable \/ too)

-----------------------------------------------------------------------------
(* lower_sole_union_member: null beside one member. *)
SoleLeft(s, branch, met) ==
    CASE met # Empty -> met
      [] met = Empty /\ branch.kind = "never" -> Met(NonNullable(branch))
      [] met = Empty /\ branch.kind # "never" ->
           IF NullSurvives(s, RealMembers(s)[1]) THEN Met(NullTy) ELSE Empty

SoleMember(s, lowered, refiner) ==
    LET member == RealMembers(s)[1]
        null == NullMembers(s) > 0
        twice == Mode(s) = "oneOf" /\ NullMembers(s) + (IF NullSurvives(s, member) THEN 1 ELSE 0) > 1
        taken == WithNull(lowered, TakesNull(s, member, lowered))
        branch == WithNull(taken, null)
        emitted(ty, too) == Met(Nullable(Reemitted(ty), (ty.nullable \/ too) /\ ~ twice))
        beside(left) ==
            IF ~ IsMet(left) THEN left
            ELSE IF twice /\ IsNullTy(left.ty) THEN Empty
            ELSE emitted(left.ty, IF SpeaksAboutNull(s) THEN FALSE ELSE lowered.nullable \/ null)
    IN  IF HasSibling(s) THEN beside(SoleLeft(s, branch, MeetSibling(s, branch, refiner)))
        ELSE emitted(taken, null)

-----------------------------------------------------------------------------
(* lower_union_variants: several members. *)

(* What a member is left with beside the keywords: its type, and whether that is only null. *)
LeftOf(s, member, branch, met) ==
    CASE IsMet(met) -> [ty |-> met.ty, leftNull |-> IsNullTy(met.ty) /\ ~ IsNullTy(branch)]
      [] met = Empty /\ NullSurvives(s, member) -> [ty |-> NullTy, leftNull |-> TRUE]
      [] OTHER -> met

(* Untyped keywords leave a member the null it does not decide, where another member admits null. *)
MeetMember(s, member, lowered, refiner) ==
    LET taken == WithNull(lowered, TakesNull(s, member, lowered))
        untyped == /\ HasSibling(s) /\ ~ SpeaksAboutNull(s) /\ ~ IsWhole(refiner)
                   /\ UnionBranchAdmitsNull(s) /\ TakesConjunctNull(member, taken)
        branch == WithNull(taken, untyped)
    IN  IF HasSibling(s) THEN LeftOf(s, member, branch, MeetSibling(s, branch, refiner))
        ELSE [ty |-> branch, leftNull |-> FALSE]

(* same_decoded_values: what serde cannot tell apart. *)
RECURSIVE SameDecoded(_, _)
SameDecoded(a, b) ==
    LET kinds == <<a.kind, b.kind>>
        alias(set, p) == <<set.repr, p.prim>> \in {<<"Int", "I64">>, <<"Bool", "Bool">>}
        all(xs, ys) == Len(xs) = Len(ys) /\ \A i \in DOMAIN xs : SameDecoded(xs[i], ys[i])
        policies == <<a.additional.policy, b.additional.policy>>
    IN  /\ a.nullable = b.nullable
        /\ \/ a.at # {} /\ a.at = b.at
           \/ kinds = <<"prim", "prim">> /\ a.prim = b.prim
           \/ kinds = <<"enum", "enum">> /\ a.repr = b.repr /\ (a.repr = "String" => a.values = b.values)
           \/ kinds = <<"enum", "prim">> /\ alias(a, b)
           \/ kinds = <<"prim", "enum">> /\ alias(b, a)
           \/ kinds = <<"array", "array">> /\ SameDecoded(a.item, b.item)
           \/ kinds = <<"tuple", "tuple">> /\ all(a.items, b.items)
           \/ kinds = <<"bytes", "bytes">> /\ a.encoding = b.encoding
           \/ kinds \in {<<"null", "null">>, <<"any", "any">>, <<"never", "never">>}
           \/ /\ kinds = <<"struct", "struct">> /\ Wires(a.fields) = Wires(b.fields)
              /\ policies[1] = policies[2]
              /\ policies[1] = "typed" => SameDecoded(a.additional.ty, b.additional.ty)
              /\ \A w \in Wires(a.fields) :
                    LET f == FieldOf(a.fields, w)
                        g == FieldOf(b.fields, w)
                    IN  f.required = g.required /\ SameDecoded(f.ty, g.ty)

(* merge_indistinguishable_variants: each set of them is its first. *)
Merge(variants) ==
    LET same(i) == {i} \cup {j \in DOMAIN variants : SameDecoded(variants[i].ty, variants[j].ty)}
        firsts == SelectSeq([i \in DOMAIN variants |-> i], LAMBDA i : Min(same(i)) = i)
        members(i) == UNION {variants[j].members : j \in same(i)}
    IN  [k \in DOMAIN firsts |-> [variants[firsts[k]] EXCEPT !.members = members(firsts[k])]]

AllNull(variants) == \A v \in Range(variants) : IsNullTy(v.ty)

(* The members that null matches as the keywords beside the union let it. *)
NullBranches(s) ==
    Cardinality({i \in DOMAIN RealMembers(s) : NullSurvives(s, RealMembers(s)[i])})
    + (IF Matching(SiblingNull(s)) THEN NullMembers(s) ELSE 0)

(* Members that only null is left of are the union's null; a oneOf that null matches twice admits  *)
(* none, and a member that is nothing else is no variant.                                          *)
WithoutNulls(variants, met, twice) ==
    LET of(v) == met[MemberOf(v)]
        typed == IF AllNull(variants) THEN variants ELSE SelectSeq(variants, LAMBDA v : ~ of(v).leftNull)
        own(v) == ~ of(v).leftNull /\ IsNullTy(v.ty)
        others == SelectSeq(typed, LAMBDA v : ~ own(v))
    IN  IF twice /\ others # <<>> THEN others ELSE typed

(* What is left is one type, or a union with the strategy that tells its variants apart. *)
Joined(s, variants, null) ==
    LET of(by) ==
            LET variant(i) == Variant(variants[i].ty, by.ty.variants[i], variants[i].members)
            IN  IF IsMet(by) THEN Met(Nullable(UnionOf([i \in DOMAIN variants |-> variant(i)], by.ty.strategy), null))
                ELSE by
    IN  IF Len(variants) = 1 THEN Met(Nullable(Reemitted(variants[1].ty), null))
        ELSE of(UnionStrategy(variants, s.discriminator, Mode(s)))

Apart(s, variants) ==
    CASE Mode(s) = "oneOf" -> IF s.discriminator = {} THEN Merge(variants) ELSE variants
      [] Mode(s) = "anyOf" -> IF HasSibling(s) /\ AllNull(variants) THEN <<variants[1]>> ELSE variants

OfMembers(s, met, refiner) ==
    LET oneOf == Mode(s) = "oneOf"
        left == SelectSeq([i \in DOMAIN met |-> i], LAMBDA i : IsMet(met[i]))
        variants == [k \in DOMAIN left |->
                       LoweredVariant(NonNullable(met[left[k]].ty), {left[k]}, RealMembers(s)[left[k]].ref)]
        twice == oneOf /\ NullBranches(s) > 1
        leftNull == \E i \in Range(left) : met[i].leftNull
        hoisted == NullMembers(s) > 0 \/ \E i \in Range(left) : met[i].ty.nullable
        null == (hoisted \/ (leftNull /\ ~ AllNull(variants))) /\ ~ twice
    IN  IF Unrepresentable \in Range(met) THEN Unrepresentable
        ELSE IF variants = <<>>
             THEN IF NullMembers(s) > 0 /\ (HasSibling(s) => RefinerAcceptsNull(refiner))
                  THEN Met(NullTy) ELSE Empty
        ELSE IF oneOf /\ HasSibling(s) /\ Len(variants) + NullMembers(s) > 1 /\ AllNull(variants) THEN Empty
        ELSE Joined(s, Apart(s, WithoutNulls(variants, met, twice)), null)

SeveralMembers(s, lowered, refiner) ==
    OfMembers(s, [i \in DOMAIN lowered |-> MeetMember(s, RealMembers(s)[i], lowered[i], refiner)], refiner)
=============================================================================
