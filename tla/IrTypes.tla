------------------------------- MODULE IrTypes -------------------------------
(***************************************************************************)
(* The types a schema is lowered to (ir/types.rs), the JSON values they    *)
(* stand for, and the category of both (oas31/lower/meet.rs).              *)
(*                                                                         *)
(* A type is a tree: what several references share in the type graph is    *)
(* written out at each of them.  No type refers to itself, the sets of an  *)
(* enum and the tags of a union are closed (open_narrowing and open_unions *)
(* are off), and boxes are left out.                                       *)
(***************************************************************************)
EXTENDS Integers, SequencesExt, FiniteSetsExt, Functions

CONSTANTS
    Int32, Int64,           \* the numbers that fit an i32, and those that fit an i64
    Formatted,              \* the strings of each format that has a type of its own
    Base64Texts             \* the strings that are base64

-----------------------------------------------------------------------------
(* JSON.  A value is told from another kind by the name of its field. *)

JNull == [null |-> TRUE]
JBool(b) == [bool |-> b]
JNum(n) == [num |-> n]
JStr(s) == [str |-> s]
JArr(items) == [arr |-> items]
JObj(members) == [obj |-> members]

Is(v, kind) == kind \in DOMAIN v

CategoryOf(v) ==
    CASE Is(v, "str") -> "string" [] Is(v, "num") -> "number" [] Is(v, "bool") -> "boolean"
      [] Is(v, "arr") -> "array" [] Is(v, "obj") -> "object" [] OTHER -> "null"

-----------------------------------------------------------------------------
(* Types. *)

Deny == [policy |-> "deny"]
Allow == [policy |-> "allow"]
Typed(ty) == [policy |-> "typed", ty |-> ty]

(* Of a type that is a component's own, which component's. *)
Ty(shape) == shape @@ [nullable |-> FALSE, at |-> {}]

Prim(p) == Ty([kind |-> "prim", prim |-> p])
EnumOf(repr, values) == Ty([kind |-> "enum", repr |-> repr, values |-> values])
ArrayOf(item) == Ty([kind |-> "array", item |-> item])
Tuple(items) == Ty([kind |-> "tuple", items |-> items])
Bytes(encoding) == Ty([kind |-> "bytes", encoding |-> encoding])
StructOf(fields, additional) == Ty([kind |-> "struct", fields |-> fields, additional |-> additional])
UnionOf(variants, strategy) == Ty([kind |-> "union", variants |-> variants, strategy |-> strategy])
NullTy == Ty([kind |-> "null"])
NeverTy == Ty([kind |-> "never"])
AnyTy == Ty([kind |-> "any"])

(* A field is undeclared where `required` names it and no property declares it. *)
Field(wire, ty, required) ==
    [wire |-> wire, ty |-> ty, required |-> required, undeclared |-> FALSE]
Undeclared(wire) == [Field(wire, AnyTy, TRUE) EXCEPT !.undeclared = TRUE]

Wires(fields) == {fields[i].wire : i \in DOMAIN fields}
FieldOf(fields, w) == fields[CHOOSE i \in DOMAIN fields : fields[i].wire = w]

(* A variant stands for the members of the union it was lowered from, more than one where several *)
(* decode the same values.                                                                        *)
Variant(ty, dispatch, members) == [ty |-> ty, dispatch |-> dispatch, members |-> members]

Disjoint == [by |-> "disjoint"]
Trial(mode) == [by |-> "trial", mode |-> mode]
Discriminated(tag, default, mode) ==
    [by |-> "discriminated", tag |-> tag, default |-> default, mode |-> mode]

OfCategory(c) == [category |-> c]
OfKey(key) == [key |-> key]
Tried(priority) == [priority |-> priority]
ByTag(tags, category, untagged) == [tags |-> tags, category |-> category, untagged |-> untagged]

-----------------------------------------------------------------------------
Nullable(ty, yes) == [ty EXCEPT !.nullable = yes]
NonNullable(ty) == Nullable(ty, FALSE)

(* The kind of a type, emitted anew under another name. *)
Reemitted(ty) == [ty EXCEPT !.nullable = FALSE, !.at = {}]

AcceptsNull(ty) == ty.nullable \/ ty.kind \in {"null", "any"}

PrimitiveCategory(p) ==
    CASE p = "Bool" -> "boolean" [] p \in {"I32", "I64", "F64"} -> "number" [] OTHER -> "string"

ReprCategory(repr) ==
    CASE repr = "String" -> "string" [] repr = "Int" -> "number" [] repr = "Bool" -> "boolean"

(* The one category of a type's values: none of a union, of null, of what has no values and of   *)
(* what has all.                                                                                  *)
ValueCategory(ty) ==
    CASE ty.kind = "prim" -> {PrimitiveCategory(ty.prim)}
      [] ty.kind = "bytes" -> {"string"}
      [] ty.kind = "enum" -> {ReprCategory(ty.repr)}
      [] ty.kind \in {"array", "tuple"} -> {"array"}
      [] ty.kind = "struct" -> {"object"}
      [] OTHER -> {}

=============================================================================
