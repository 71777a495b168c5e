--------------------------------- MODULE Meet ---------------------------------
(***************************************************************************)
(* The meet of two lowered types (oas31/lower/meet.rs), and of a union     *)
(* with the keywords beside it (refiner.rs).                               *)
(*                                                                         *)
(* No meet is one of two answers: an empty one is proof that the two share *)
(* no value but null, an unrepresentable one is not.                       *)
(***************************************************************************)
EXTENDS IrTypes

Met(ty) == [ty |-> ty]
Empty == [no |-> "empty"]
Unrepresentable == [no |-> "unrepresentable"]
IsMet(m) == "ty" \in DOMAIN m

-----------------------------------------------------------------------------
(* Mistake: types without a meet have no value in common. *)
NoMeetAsEmpty(a, b) == Empty

NoMeet(a, b) ==
    LET left == ValueCategory(a)
        right == ValueCategory(b)
    IN  IF \/ "never" \in {a.kind, b.kind}
           \/ left # {} /\ right # {} /\ left # right
        THEN Empty ELSE Unrepresentable

(* The narrower of two primitives. *)
Narrower == [p \in {"I32"} |-> {"I64", "F64"}] @@ [p \in {"I64"} |-> {"F64"}]
            @@ [p \in DOMAIN Formatted |-> {"String"}] @@ [p \in {"Bool", "F64", "String"} |-> {}]

MeetPrims(a, b) ==
    CASE a.prim = b.prim \/ b.prim \in Narrower[a.prim] -> Met(NonNullable(a))
      [] a.prim # b.prim /\ a.prim \in Narrower[b.prim] -> Met(NonNullable(b))
      [] OTHER -> NoMeet(a, b)

MeetEnums(a, b) ==
    LET values == a.values \cap b.values
    IN  IF values = {} THEN Empty ELSE Met(EnumOf(a.repr, values))

MeetBytes(a, b) == Met(NonNullable(IF b.encoding = "base64" THEN b ELSE a))

-----------------------------------------------------------------------------
RECURSIVE MeetTypes(_, _)
RECURSIVE MeetRefiner(_, _)

(* A whole sibling, or untyped object and array keywords that refine the branches of their own    *)
(* category: at most one type for each, whether null stays, and the categories of a `type` array. *)
Whole(ty) == [whole |-> ty]
Scoped(object, array, admitsNull, allowed) ==
    [object |-> object, array |-> array, admitsNull |-> admitsNull, allowed |-> allowed]
IsWhole(refiner) == "whole" \in DOMAIN refiner

MeetArrays(a, b) ==
    LET item == MeetTypes(a.item, b.item)
    IN  CASE IsMet(item) -> Met(ArrayOf(item.ty))
          [] item = Empty -> Met(ArrayOf(NeverTy))
          [] item = Unrepresentable -> Unrepresentable

(* Positions are not required: one that cannot be met leaves the shorter arrays. *)
MeetPositions(left, right) ==
    LET met == [i \in DOMAIN left |-> MeetTypes(left[i], right[i])]
    IN  IF \A i \in DOMAIN met : IsMet(met[i]) THEN Met(Tuple([i \in DOMAIN met |-> met[i].ty]))
        ELSE Unrepresentable

MeetArrayTuple(array, tuple) ==
    MeetPositions(tuple.items, [i \in DOMAIN tuple.items |-> array.item])

MergeAdditional(a, b) ==
    CASE "deny" \in {a.policy, b.policy} -> Met(Deny)
      [] a.policy = "typed" /\ b.policy = "typed" ->
           LET met == MeetTypes(a.ty, b.ty)
           IN  IF IsMet(met) THEN Met(Typed(met.ty)) ELSE Unrepresentable
      [] a.policy = "typed" /\ b.policy = "allow" -> Met(a)
      [] a.policy = "allow" /\ b.policy = "typed" -> Met(b)
      [] a.policy = "allow" /\ b.policy = "allow" -> Met(Allow)

(* narrow_undeclared: what the overflow policy of the other side says of a key it does not list. *)
NarrowUndeclared(ty, additional) ==
    CASE additional.policy # "typed" -> Met(ty)
      [] additional.policy = "typed" /\ ty.kind = "any" -> Met(additional.ty)
      [] additional.policy = "typed" /\ ty.kind # "any" -> MeetTypes(ty, additional.ty)

(* Mistake: a field that one side requires may be absent. *)
MergeFieldOptional(f, g) ==
    LET met == MeetTypes(f.ty, g.ty)
    IN  IF IsMet(met) THEN Met([f EXCEPT !.ty = met.ty, !.required = f.required /\ g.required]) ELSE met

(* merge_repeated_field: a declaration stands before a key that is merely required; where no value *)
(* is left, the field may still be absent if it is optional.                                       *)
MergeField(f, g) ==
    LET required == f.required \/ g.required
        met == MeetTypes(f.ty, g.ty)
        typed(ty) == [f EXCEPT !.ty = ty, !.required = required]
    IN  CASE f.undeclared /\ ~ g.undeclared -> Met([g EXCEPT !.required = required])
          [] ~ f.undeclared /\ g.undeclared -> Met([f EXCEPT !.required = required])
          [] f.undeclared = g.undeclared ->
               CASE IsMet(met) -> Met(typed(met.ty))
                 [] met = Empty /\ ~ required -> Met(typed(NeverTy))
                 [] OTHER -> met

MeetStructs(a, b) ==
    LET lists(s, w) == w \in Wires(s.fields)
        repeated(f) == IF lists(b, f.wire) THEN MergeField(f, FieldOf(b.fields, f.wire)) ELSE Met(f)
        added == SelectSeq(b.fields, LAMBDA f : ~ lists(a, f.wire))
        other(f) == IF lists(a, f.wire) THEN b.additional ELSE a.additional
        typed(f, met) == IF IsMet(met) THEN Met([f EXCEPT !.ty = met.ty]) ELSE met
        narrowed(m) ==
            IF ~ IsMet(m) \/ ~ m.ty.undeclared \/ (lists(a, m.ty.wire) /\ lists(b, m.ty.wire)) THEN m
            ELSE typed(m.ty, NarrowUndeclared(m.ty.ty, other(m.ty)))
        of(fields, additional) ==
            CASE Empty \in Range(fields) -> Empty
              [] Empty \notin Range(fields) /\ (\A i \in DOMAIN fields : IsMet(fields[i])) /\ IsMet(additional) ->
                   Met(StructOf([i \in DOMAIN fields |-> fields[i].ty], additional.ty))
              [] OTHER -> Unrepresentable
    IN  of([i \in DOMAIN a.fields |-> narrowed(repeated(a.fields[i]))]
           \o [i \in DOMAIN added |-> narrowed(Met(added[i]))],
           MergeAdditional(a.additional, b.additional))

(* retain_strategy: a variant that is gone is no default any more. *)
RetainStrategy(strategy, retained) ==
    IF strategy.by # "discriminated" THEN strategy
    ELSE [strategy EXCEPT !.default = {i \in DOMAIN retained : retained[i] \in strategy.default}]

(* intersect_union: branch by branch. *)
MeetUnion(union, refiner) ==
    LET met == [i \in DOMAIN union.variants |-> MeetRefiner(union.variants[i].ty, refiner)]
        retained == SelectSeq([i \in DOMAIN met |-> i], LAMBDA i : IsMet(met[i]))
        kept == [i \in DOMAIN retained |->
                   [union.variants[retained[i]] EXCEPT !.ty = met[retained[i]].ty]]
    IN  IF Unrepresentable \in Range(met) THEN Unrepresentable
        ELSE IF kept = <<>> THEN Empty
        ELSE IF Len(kept) = 1 THEN Met(kept[1].ty)
        ELSE IF kept = union.variants THEN Met(NonNullable(union))
        ELSE Met(UnionOf(kept, RetainStrategy(union.strategy, retained)))

MeetNonNull(a, b) ==
    LET kinds == <<a.kind, b.kind>>
        like(set, p) == ReprCategory(set.repr) = PrimitiveCategory(p.prim)
        text(bytes, p) == p.prim = "String"
    IN  IF a.at # {} /\ a.at = b.at THEN Met(NonNullable(a)) ELSE
        CASE a.kind = "any" -> Met(NonNullable(b))
          [] a.kind # "any" /\ b.kind = "any" -> Met(NonNullable(a))
          [] kinds = <<"prim", "prim">> -> MeetPrims(a, b)
          [] kinds = <<"enum", "enum">> /\ a.repr = b.repr -> MeetEnums(a, b)
          [] kinds = <<"enum", "prim">> /\ like(a, b) -> Met(NonNullable(a))
          [] kinds = <<"prim", "enum">> /\ like(b, a) -> Met(NonNullable(b))
          [] kinds = <<"array", "array">> -> MeetArrays(a, b)
          [] kinds = <<"tuple", "tuple">> /\ Len(a.items) = Len(b.items) ->
               MeetPositions(a.items, b.items)
          [] kinds = <<"array", "tuple">> -> MeetArrayTuple(a, b)
          [] kinds = <<"tuple", "array">> -> MeetArrayTuple(b, a)
          [] kinds = <<"struct", "struct">> -> MeetStructs(a, b)
          [] a.kind = "union" /\ b.kind # "any" -> MeetUnion(a, Whole(b))
          [] a.kind \notin {"any", "union"} /\ b.kind = "union" -> MeetUnion(b, Whole(a))
          [] kinds = <<"bytes", "bytes">> -> MeetBytes(a, b)
          [] kinds = <<"bytes", "prim">> /\ text(a, b) -> Met(NonNullable(a))
          [] kinds = <<"prim", "bytes">> /\ text(b, a) -> Met(NonNullable(b))
          [] OTHER -> NoMeet(a, b)

(* intersect_types: null is met apart from the rest. *)
MeetTypes(a, b) ==
    LET null == AcceptsNull(a) /\ AcceptsNull(b)
        met == IF "null" \in {a.kind, b.kind} THEN Empty ELSE MeetNonNull(a, b)
    IN  CASE IsMet(met) -> Met(Nullable(met.ty, null))
          [] met = Empty /\ null -> Met(Nullable(NullTy, TRUE))
          [] OTHER -> met

-----------------------------------------------------------------------------
(* excluded_branch: a category that is not among those allowed leaves null at most. *)
Excluded(branch, refiner) ==
    IF branch.nullable /\ refiner.admitsNull THEN Met(NullTy) ELSE Empty

Kept(branch, refiner) == Met(Nullable(branch, branch.nullable /\ refiner.admitsNull))

Half(refiner, category) ==
    CASE category = {"object"} -> refiner.object [] category = {"array"} -> refiner.array [] OTHER -> {}

(* A branch that states no category takes the one the sibling has, if it has one. *)
MeetAny(branch, refiner) ==
    LET halves == {c \in {"object", "array"} : Half(refiner, {c}) # {}}
        category == CHOOSE c \in halves : TRUE
        met == MeetTypes(branch, CHOOSE h \in Half(refiner, {category}) : TRUE)
    IN  CASE Cardinality(halves) # 1 -> Unrepresentable
          [] Cardinality(halves) = 1 /\ refiner.allowed # {} /\ refiner.allowed # {{category}} ->
               IF \E mask \in refiner.allowed : mask \ {category} # {} THEN Unrepresentable
               ELSE Excluded(branch, refiner)
          [] OTHER -> IF IsMet(met) THEN Met(Nullable(met.ty, branch.nullable /\ refiner.admitsNull)) ELSE met

(* meet_scoped_refiner_with_union: null is carried across the rebuilt union. *)
MeetScopedUnion(branch, refiner) ==
    LET met == MeetUnion(branch, refiner)
        null == branch.nullable /\ refiner.admitsNull
    IN  CASE IsMet(met) -> Met(Nullable(met.ty, null))
          [] met = Empty /\ null -> Met(NullTy)
          [] OTHER -> met

MeetScoped(branch, refiner) ==
    LET category == ValueCategory(branch)
        half == Half(refiner, category)
    IN  CASE category # {} /\ (\E mask \in refiner.allowed : category \cap mask = {}) -> Excluded(branch, refiner)
          [] branch.kind = "union" -> MeetScopedUnion(branch, refiner)
          [] branch.kind = "any" -> MeetAny(branch, refiner)
          [] OTHER -> IF half = {} THEN Kept(branch, refiner)
                      ELSE MeetTypes(branch, CHOOSE h \in half : TRUE)

MeetRefiner(branch, refiner) ==
    IF IsWhole(refiner) THEN MeetTypes(branch, refiner.whole)
    ELSE MeetScoped(branch, refiner)
=============================================================================
