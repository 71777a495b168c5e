------------------------------ MODULE Responses ------------------------------
(***************************************************************************)
(* The documented responses of an operation, the types a generated method  *)
(* has for them, and which of them it reads a response as                  *)
(* (ir/responses.rs, codegen/dispatch.rs, support-runtime/dispatch.rs).    *)
(*                                                                         *)
(* A table gives what each status selector documents: nothing, a response  *)
(* without a body, with one, or with a stream.                             *)
(***************************************************************************)
EXTENDS Naturals, FiniteSets

Exact(code) == [rank |-> 0, of |-> code]
InRange(digit) == [rank |-> 1, of |-> digit]
Default == [rank |-> 2, of |-> 0]

Bodied == {"body", "stream"}
Entries == {"none", "empty"} \union Bodied

(* StatusSpec::matches. *)
Matches(s, status) ==
    \/ s = Exact(status)
    \/ s = InRange(status \div 100)
    \/ s = Default

IsSuccess(status) == status \div 100 = 2

(* StatusSpec::is_success. *)
SuccessSelector(s) ==
    \/ s.rank = 0 /\ IsSuccess(s.of)
    \/ s.rank = 1 /\ s.of = 2

Declared(table) == {s \in DOMAIN table : table[s] # "none"}
WithBody(table, selectors) == {s \in selectors : table[s] \in Bodied}

Successes(table) == {s \in Declared(table) : SuccessSelector(s)}
Errors(table) == Declared(table) \ Successes(table)

(* default_is_success_source: what documents the successes. *)
SuccessSource(table) ==
    IF Successes(table) = {} THEN Declared(table) \intersect {Default}
    ELSE Successes(table)

(* stream_success: the only body is a stream. *)
StreamSuccess(table) ==
    LET bodied == WithBody(table, SuccessSource(table))
    IN  Cardinality(bodied) = 1 /\ \A s \in bodied : table[s] = "stream"

(* stream_outside_single_success: what lowering rejects. *)
StreamMisplaced(table) ==
    \/ \E s \in Errors(table) : table[s] = "stream"
    \/ /\ Cardinality(WithBody(table, SuccessSource(table))) > 1
       /\ \E s \in SuccessSource(table) : table[s] = "stream"

-----------------------------------------------------------------------------
(* Shapes: "enum" has a variant for each selector, "one" is the type of a  *)
(* body, "unit" is neither.                                                *)

Enum(selectors) == [shape |-> "enum", of |-> selectors]
One(selectors) == [shape |-> "one", of |-> selectors]
Unit == [shape |-> "unit", of |-> {}]

(* finish_shape *)
Shape(table, selectors) ==
    LET bodied == WithBody(table, selectors)
    IN  IF bodied = {} THEN Unit
        ELSE IF Cardinality(bodied) = 1 THEN One(bodied)
        ELSE Enum(selectors)

SuccessShape(table) ==
    IF Successes(table) = {} THEN Shape(table, SuccessSource(table))
    ELSE IF /\ Cardinality(WithBody(table, Successes(table))) = 1
            /\ Cardinality(Successes(table)) > 1
            /\ ~ StreamSuccess(table)
         THEN Enum(Successes(table))
         ELSE Shape(table, Successes(table))

(* Mistake: a body beside a response without one is the type of all. *)
ErrorShapeUnpromoted(table) == Shape(table, Errors(table))

ErrorShape(table) ==
    IF /\ Cardinality(WithBody(table, Errors(table))) = 1
       /\ Cardinality(Errors(table)) > 1
    THEN Enum(Errors(table))
    ELSE Shape(table, Errors(table))

-----------------------------------------------------------------------------
(* How a response is read: `as` is "decode" with the type of selector `of`,*)
(* its "variant" without a body, the "stream", "unit" or "unexpected".     *)

Reading(as, of) == [as |-> as, of |-> of]

(* The arms of an enum, tried in the order of precedence_key. *)
FirstArm(selectors, status) ==
    {s \in selectors :
        /\ Matches(s, status)
        /\ \A other \in selectors : Matches(other, status) => s.rank <= other.rank}

ReadArm(table, arms) ==
    IF arms = {} THEN Reading("unexpected", arms)
    ELSE IF WithBody(table, arms) # {} THEN Reading("decode", arms)
    ELSE Reading("variant", arms)

(* success_decode_tokens: only an enum looks at the status. *)
ReadSuccess(table, status) ==
    LET success == SuccessShape(table)
    IN  IF StreamSuccess(table) THEN Reading("stream", success.of)
        ELSE IF success.shape = "unit" THEN Reading("unit", {})
        ELSE IF success.shape = "one" THEN Reading("decode", success.of)
        ELSE ReadArm(table, FirstArm(success.of, status))

(* error_branch_tokens *)
ReadError(table, status) ==
    LET error == ErrorShape(table)
    IN  IF error.shape = "unit" THEN Reading("unexpected", {})
        ELSE ReadArm(table, FirstArm(error.of, status))

ReadAs(table, status) ==
    IF IsSuccess(status) THEN ReadSuccess(table, status) ELSE ReadError(table, status)

=============================================================================
