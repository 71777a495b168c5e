------------------------------- MODULE Schemas -------------------------------
(***************************************************************************)
(* Schemas as the lowering reads them (oas31/model.rs), what one says of   *)
(* null (oas31/lower/nullability.rs), and which values satisfy it: the     *)
(* reference the lowered types are held to.                                *)
(*                                                                         *)
(* A keyword that may be absent is a set of at most one value; a const is  *)
(* an enum of one, and contentEncoding a format.  Components refer to no   *)
(* component that refers back.                                             *)
(***************************************************************************)
EXTENDS IrTypes

CONSTANT Components     \* name -> schema

Blank ==
    [boolean |-> {}, types |-> <<>>, ref |-> {}, enum |-> {}, format |-> {},
     properties |-> <<>>, required |-> {}, additional |-> {}, items |-> {}, prefix |-> <<>>,
     oneOf |-> <<>>, anyOf |-> <<>>, discriminator |-> {}]

True == [Blank EXCEPT !.boolean = {TRUE}]
False == [Blank EXCEPT !.boolean = {FALSE}]

HasUnion(s) == s.oneOf # <<>> \/ s.anyOf # <<>>
WithoutUnion(s) == [s EXCEPT !.oneOf = <<>>, !.anyOf = <<>>, !.discriminator = {}]

NonNullTypes(s) == SelectSeq(s.types, LAMBDA t : t # "null")
ListsNull(s) == "null" \in Range(s.types)

IsBytes(s) == s.format \cap {"binary", "base64"} # {}

IsObjectLike(s) ==
    DOMAIN s.properties # {} \/ s.required # {} \/ s.additional # {} \/ "object" \in Range(s.types)

IsArrayLike(s) == s.items # {} \/ s.prefix # <<>>

(* schema_has_shape_constraint. *)
BearsShape(s) ==
    \/ s.types # <<>> \/ s.enum # {} \/ s.ref # {} \/ IsBytes(s)
    \/ IsObjectLike(s) \/ IsArrayLike(s) \/ HasUnion(s)

(* implied_applicator_category: the categories that keywords without a type apply to. *)
ImpliedCategories(s) ==
    IF s.types # <<>> \/ s.enum # {} \/ s.ref # {} \/ IsBytes(s) \/ HasUnion(s) THEN {}
    ELSE {c \in {"object", "array"} : IF c = "object" THEN IsObjectLike(s) ELSE IsArrayLike(s)}

CategoriesNamed(s) == {IF t = "integer" THEN "number" ELSE t : t \in Range(NonNullTypes(s))}

-----------------------------------------------------------------------------
(* What a schema says of null. *)

And(a, b) ==
    IF "denies" \in {a, b} THEN "denies" ELSE IF "admits" \in {a, b} THEN "admits" ELSE "undecided"

Matching(admission) == admission # "denies"

OfOwnKeywords(s) ==
    LET stated(listed) == IF listed THEN "admits" ELSE "denies"
        type == IF s.types = <<>> THEN "undecided" ELSE stated(ListsNull(s))
        enum == IF s.enum = {} THEN "undecided" ELSE stated(\A values \in s.enum : JNull \in values)
    IN  And(type, enum)

OneOfNull(branches) ==
    LET matching == {i \in DOMAIN branches : Matching(branches[i])}
    IN  IF Cardinality(matching) = 1 THEN branches[Min(matching)] ELSE "denies"

AnyOfNull(branches) ==
    IF "admits" \in Range(branches) THEN "admits"
    ELSE IF "undecided" \in Range(branches) THEN "undecided" ELSE "denies"

RECURSIVE NullAdmission(_)
NullAdmission(s) ==
    LET of(branches) == [i \in DOMAIN branches |-> NullAdmission(branches[i])]
        target == IF s.ref = {} THEN "undecided"
                  ELSE NullAdmission(Components[CHOOSE name \in s.ref : TRUE])
        one == IF s.oneOf = <<>> THEN "undecided" ELSE OneOfNull(of(s.oneOf))
        any == IF s.anyOf = <<>> THEN "undecided" ELSE AnyOfNull(of(s.anyOf))
    IN  IF s.boolean # {} THEN IF s.boolean = {TRUE} THEN "undecided" ELSE "denies"
        ELSE And(And(OfOwnKeywords(s), target), And(one, any))

(* union_branch_admits_null: a branch that is no union and no reference states it. *)
UnionBranchAdmitsNull(s) ==
    \E b \in Range(s.oneOf) \cup Range(s.anyOf) :
        b.boolean = {} /\ b.ref = {} /\ ~ HasUnion(b) /\ OfOwnKeywords(b) = "admits"

-----------------------------------------------------------------------------
(* Validity. *)

OfFormat(v, format) ==
    CASE format = "int32" -> Is(v, "num") => v.num \in Int32
      [] format = "base64" -> Is(v, "str") => v.str \in Base64Texts
      [] format \in DOMAIN Formatted -> Is(v, "str") => v.str \in Formatted[format]
      [] OTHER -> TRUE

OfType(v, type) ==
    IF type = "integer" THEN Is(v, "num") /\ v.num \in Int64 ELSE CategoryOf(v) = type

RECURSIVE Holds(_, _, _, _)

(* Whether the value satisfies the schema: as it must whatever is read into keywords that only     *)
(* apply to one category, or as it may under some reading.  JSON Schema lets values of all other   *)
(* categories, null among them, pass such keywords; beside nothing that says more the lowering     *)
(* reads them as a type.  Beside a union they narrow each branch, and one that states nothing is   *)
(* of their category (within).  Positions are all required, and an object is closed to the keys    *)
(* it declares or requires.                                                                        *)
Holds(s, v, must, within) ==
    LET implied == IF ImpliedCategories(s) # {} THEN ImpliedCategories(s)
                   ELSE IF BearsShape(s) THEN {} ELSE within
        narrower == IF HasUnion(s) THEN ImpliedCategories(WithoutUnion(s)) ELSE {}
        beyond == IF narrower # {} THEN narrower ELSE within
        holds(child, w, all) == Holds(child, w, all, {})
        branch(b, all) == Holds(b, v, all, beyond)
        someOf(branches) == \E i \in DOMAIN branches : branch(branches[i], must)
    IN  IF v = JNull THEN NullAdmission(s) \in (IF must THEN {"admits"} ELSE {"admits", "undecided"})
        ELSE IF s.boolean = {FALSE} THEN FALSE
        ELSE
        /\ s.types # <<>> => \E t \in Range(s.types) : OfType(v, t)
        /\ \A values \in s.enum : v \in values
        /\ \A format \in s.format : OfFormat(v, format) \/ (~ must /\ Is(v, "str"))
        /\ \A name \in s.ref : Holds(Components[name], v, must, {})
        /\ (must /\ implied # {}) => CategoryOf(v) \in implied
        /\ (must /\ IsBytes(s)) => Is(v, "str")
        /\ Is(v, "obj") =>
              /\ s.required \subseteq DOMAIN v.obj
              /\ \A w \in DOMAIN v.obj :
                    IF w \in DOMAIN s.properties THEN holds(s.properties[w], v.obj[w], must)
                    ELSE \A child \in s.additional \ (IF w \in s.required THEN {False} ELSE {}) :
                            holds(child, v.obj[w], must)
        /\ Is(v, "arr") =>
              IF s.prefix = <<>> THEN \A i \in DOMAIN v.arr : \A item \in s.items : holds(item, v.arr[i], must)
              ELSE Len(v.arr) = Len(s.prefix) /\ \A i \in DOMAIN v.arr : holds(s.prefix[i], v.arr[i], must)
        /\ s.anyOf # <<>> => someOf(s.anyOf)
        /\ s.oneOf # <<>> =>
              /\ someOf(s.oneOf)
              /\ ~ \E i, j \in DOMAIN s.oneOf :
                      i # j /\ branch(s.oneOf[i], ~ must) /\ branch(s.oneOf[j], ~ must)
                      /\ (must => branch(s.oneOf[i], TRUE) \/ branch(s.oneOf[j], TRUE))

Must(s, v) == Holds(s, v, TRUE, {})
May(s, v) == Holds(s, v, FALSE, {})
=============================================================================
