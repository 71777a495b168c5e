------------------------------ MODULE Lowering ------------------------------
(***************************************************************************)
(* The lowering of `components.schemas` to types: lower and lower_pass of  *)
(* oas31/lower/mod.rs, the reservations of reserve.rs, and what the bodies *)
(* do with a reservation they find open (combine.rs, object.rs, union.rs,  *)
(* nullability.rs).                                                        *)
(*                                                                         *)
(* A `$ref` to a component whose body is being lowered is typed before the *)
(* body has decided anything: boxed, and with a guess of its nullability.  *)
(* A body composed of an open one is refused. Whatever a pass found wrong  *)
(* with its guesses and its order is settled for the next one; only the    *)
(* last counts. The same document is lowered under each of Orders.         *)
(***************************************************************************)
EXTENDS MemberOrders

CONSTANTS
    Names,      \* the keys of components.schemas
    Documents,  \* documents: what each name is declared as
    Orders      \* the orders to declare the names in, one after the other

(* A body is [kind, refs, null].                                           *)
(*   "object" `type: object`, with "null" beside it if null: its allOf     *)
(*            members ("member") and then its properties ("field")         *)
(*   "alias"  a bare `$ref`                                                *)
(*   "union"  `oneOf` of a `$ref` and `type: null`                         *)
(*   "pick"   `anyOf` of `const: null` and an object with properties       *)
Uses(kind) ==
    CASE kind = "object" -> {"member", "field"}
      [] kind = "pick"   -> {"field"}
      [] OTHER           -> {"target"}
Kinds == {"object", "alias", "union", "pick"}

IsBody(b) ==
    /\ b.kind \in Kinds
    /\ b.null \in BOOLEAN
    /\ \A i \in 1 .. Len(b.refs) : b.refs[i].use \in Uses(b.kind)
    /\ b.kind \in {"alias", "union"} => Len(b.refs) = 1

(* What an alias is another name of; a loop of aliases names one of its    *)
(* own, and what is not declared itself.                                   *)
Named(d, c) ==
    LET after[n \in Nat] ==
            IF n = 0 THEN c
            ELSE LET at == after[n - 1]
                 IN  IF at \in Names /\ d[at].kind = "alias" THEN d[at].refs[1].to ELSE at
    IN  after[Cardinality(Names)]

(* Members of an allOf and the reference of a union name objects.          *)
ASSUME LoweringAssumption ==
    /\ IsFiniteSet(Names)
    /\ \A k \in DOMAIN Orders : Orders[k] \in [1 .. Cardinality(Names) -> Names]
    /\ \A d \in Documents : \A c \in Names :
        /\ IsBody(d[c])
        /\ \A i \in DOMAIN d[c].refs :
            LET named == Named(d, d[c].refs[i].to) IN
            d[c].refs[i].use = "member" \/ d[c].kind = "union" =>
                named \notin Names \/ d[named].kind = "object"

VARIABLES
    doc,        \* the document
    at,         \* which of Orders it is lowered under
    verdicts,   \* what lower answered under the orders before
    settled,    \* the nullability earlier passes decided, per component
    lesson,     \* the MemberOrders: [taken, futile]
    changed,    \* whether this pass has added to it
    work,       \* what the pass is still to open from its top level
    frames,     \* the components being lowered, the innermost last
    answer,     \* what the last `$ref` followed gave, until it is used
    finished,   \* per component lowered or chained: [root, null]
    guessed,    \* open components whose provisional nullability was read
    revisions,  \* bodies that decided otherwise: [comp, null]
    refusals,   \* the member_orders of the pass
    types,      \* the definitions filled, per component: property to Ty
    filled,     \* those components, in the order they were filled
    broken      \* whether the pass has reported an error

context == <<doc, at, verdicts, settled, lesson, changed>>
findings == <<guessed, revisions, refusals, broken>>
graph == <<types, filled>>
vars == <<context, work, frames, answer, finished, findings, graph>>

-----------------------------------------------------------------------------
None == [kind |-> "none"]
Failed == [kind |-> "failed"]
Ty(root, null, boxed) == [kind |-> "type", root |-> root, null |-> null, boxed |-> boxed]

Put(f, x, v) == [y \in DOMAIN f \union {x} |-> IF y = x THEN v ELSE f[y]]
Merged(f, g) == [y \in DOMAIN f \union DOMAIN g |-> IF y \in DOMAIN f THEN f[y] ELSE g[y]]

IsAlias(c) == doc[c].kind = "alias"
Top == Last(frames)
Open(c) == \E i \in DOMAIN frames : frames[i].comp = c /\ ~IsAlias(c)
Provisional(c) == LET i == CHOOSE i \in DOMAIN frames : frames[i].comp = c
                  IN  frames[i].guess

(* The objects c is composed of, itself among them.                        *)
Composing(c) ==
    LET within[n \in Nat] ==
            IF n = 0 THEN {c} \intersect Names
            ELSE LET inner == within[n - 1]
                     members == {r \in UNION {ToSet(doc[x].refs) : x \in inner} : r.use = "member"}
                 IN  inner \union ({Named(doc, r.to) : r \in members} \intersect Names)
    IN  within[Cardinality(Names)]
AllAdmitNull(c) == \A x \in Composing(c) : doc[x].null

(* Whether a body states null (null_admission), which is what a pass       *)
(* guesses for it until an earlier one has settled it; and what its        *)
(* lowering decides. `oneOf` takes null where one branch alone matches it; *)
(* in a pick the branch carries the null, and the pick itself has none.    *)
StatesNull(c) ==
    CASE doc[c].kind = "object" -> AllAdmitNull(c)
      [] doc[c].kind = "union"  -> ~ AllAdmitNull(Named(doc, c))
      [] OTHER                  -> TRUE
DecidedNull(c) == doc[c].kind # "pick" /\ StatesNull(c)
Guess(c) == IF c \in DOMAIN settled THEN settled[c] ELSE StatesNull(c)

NoLesson == [taken |-> <<>>, futile |-> {}]

(* A pass begins: what it learned to open first, then document order.      *)
BeginPass(order, learned) ==
    /\ work' = OpenedFirst(learned.taken, order) \o order
    /\ answer' = None
    /\ frames' = <<>>
    /\ finished' = <<>> /\ types' = <<>> /\ filled' = <<>>
    /\ guessed' = {} /\ revisions' = {} /\ refusals' = <<>>
    /\ broken' = FALSE /\ changed' = FALSE

Init ==
    /\ doc \in Documents
    /\ at = 1 /\ verdicts = <<>>
    /\ settled = <<>> /\ lesson = NoLesson
    /\ work = Orders[1]
    /\ answer = None
    /\ frames = <<>>
    /\ finished = <<>> /\ types = <<>> /\ filled = <<>>
    /\ guessed = {} /\ revisions = {} /\ refusals = <<>>
    /\ broken = FALSE /\ changed = FALSE

-----------------------------------------------------------------------------
(* Following a `$ref`, or opening a component from the top level of the    *)
(* pass: ensure_reference, down to what gives an answer at once or pushes  *)
(* a frame.                                                                *)
Ref == doc[Top.comp].refs[Top.next]
Wanted == IF frames = <<>> THEN Head(work) ELSE Ref.to
Reaching ==
    /\ answer = None
    /\ IF frames = <<>> THEN work # <<>> ELSE Top.next <= Len(doc[Top.comp].refs)
AsMember == frames # <<>> /\ Ref.use = "member"
Fresh(c) == c \in Names /\ c \notin DOMAIN finished /\ ~Open(c)

(* Mistake: no refusal is handed to the next pass.              *)
RecordedNowhere(root) == refusals

(* record_open_member: nothing for the body's own component, nor for one   *)
(* that is not open.                                                       *)
Recorded(root) ==
    IF Open(root) /\ root # Top.comp
    THEN Append(refusals, [holder |-> Top.comp, target |-> root])
    ELSE refusals

(* gather_ref_target: an allOf member that is open is not even asked for.  *)
RefuseOpenMember ==
    /\ Reaching /\ AsMember /\ Open(Wanted)
    /\ refusals' = Recorded(Wanted)
    /\ broken' = TRUE
    /\ answer' = Failed
    /\ UNCHANGED <<context, work, frames, finished, guessed, revisions, graph>>

(* reserved_type, of a component lowered already.                          *)
UseFinished ==
    /\ Reaching /\ Wanted \in DOMAIN finished
    /\ answer' = Ty(finished[Wanted].root, finished[Wanted].null, FALSE)
    /\ UNCHANGED <<context, work, frames, finished, findings, graph>>

(* Mistake: the read of the guess is not recorded.              *)
BackEdgeUnrecorded ==
    /\ Reaching /\ ~AsMember /\ Open(Wanted)
    /\ answer' = Ty(Wanted, Provisional(Wanted), TRUE)
    /\ UNCHANGED <<context, work, frames, finished, findings, graph>>

(* reserved_type, of one whose body is being lowered.                      *)
BackEdge ==
    /\ Reaching /\ ~AsMember /\ Open(Wanted)
    /\ answer' = Ty(Wanted, Provisional(Wanted), TRUE)
    /\ guessed' = guessed \union {Wanted}
    /\ UNCHANGED <<context, work, frames, finished, revisions, refusals, broken, graph>>

(* Mistake: the answer is cached like a lowered component's. *)
AliasOfOpenCached ==
    /\ Reaching /\ Fresh(Wanted) /\ doc[Wanted].kind = "union"
    /\ LET target == Named(doc, doc[Wanted].refs[1].to) IN
       /\ Open(target)
       /\ answer' = Ty(target, TRUE, TRUE)
       /\ finished' = Put(finished, Wanted, [root |-> target, null |-> TRUE])
       /\ guessed' = guessed \union {target}
    /\ UNCHANGED <<context, work, frames, revisions, refusals, broken, graph>>

(* nullable_alias_back_edge: a union of one open component and null is     *)
(* another name of it, for as long as it is open.                          *)
AliasOfOpen ==
    /\ Reaching /\ Fresh(Wanted) /\ doc[Wanted].kind = "union"
    /\ LET target == Named(doc, doc[Wanted].refs[1].to) IN
       /\ Open(target)
       /\ answer' = Ty(target, TRUE, TRUE)
       /\ guessed' = guessed \union {target}
    /\ UNCHANGED <<context, work, frames, finished, revisions, refusals, broken, graph>>

(* reject_component_alias: a name the document does not declare.           *)
Undeclared ==
    /\ Reaching /\ Wanted \notin Names
    /\ broken' = TRUE
    /\ answer' = Failed
    /\ UNCHANGED <<context, work, frames, finished, guessed, revisions, refusals, graph>>

(* chain_component_alias: an alias that leads back to itself.              *)
AliasCycle ==
    /\ Reaching /\ Fresh(Wanted) /\ IsAlias(Wanted)
    /\ \E i \in DOMAIN frames : frames[i].comp = Wanted
    /\ broken' = TRUE
    /\ answer' = Failed
    /\ UNCHANGED <<context, work, frames, finished, guessed, revisions, refusals, graph>>

Frame(c, guess, next, fields) ==
    [comp |-> c, guess |-> guess, next |-> next, fields |-> fields]

FollowAlias ==
    /\ Reaching /\ Fresh(Wanted) /\ IsAlias(Wanted)
    /\ \A i \in DOMAIN frames : frames[i].comp # Wanted
    /\ frames' = Append(frames, Frame(Wanted, FALSE, 1, <<>>))
    /\ UNCHANGED <<context, work, answer, finished, findings, graph>>

(* lower_into_reservation, up to the body.                                 *)
OpenBody ==
    /\ Reaching /\ Fresh(Wanted) /\ ~IsAlias(Wanted)
    /\ doc[Wanted].kind = "union" => ~Open(Named(doc, doc[Wanted].refs[1].to))
    /\ frames' = Append(frames, Frame(Wanted, Guess(Wanted), 1, <<>>))
    /\ UNCHANGED <<context, work, answer, finished, findings, graph>>

-----------------------------------------------------------------------------
(* What the one who followed the `$ref` does with the answer.              *)
Answered == answer.kind = "type" /\ frames # <<>>

OpenedAtTop ==
    /\ frames = <<>> /\ answer # None
    /\ work' = Tail(work)
    /\ answer' = None
    /\ UNCHANGED <<context, frames, finished, findings, graph>>

(* The `?` after every call: the body fails with what it needed, and is    *)
(* opened anew, under another id, at the next reference to it. An alias    *)
(* cached for it keeps the first id, which nothing fills.                  *)
Reserved == "reserved"
Unwind ==
    /\ frames # <<>> /\ answer = Failed
    /\ frames' = Front(frames)
    /\ guessed' = guessed \ {Top.comp}
    /\ finished' = [c \in DOMAIN finished |->
                       IF finished[c].root = Top.comp
                       THEN [finished[c] EXCEPT !.root = Reserved] ELSE finished[c]]
    /\ UNCHANGED <<context, work, answer, revisions, refusals, broken, graph>>

(* chain_component_alias, after its target.                                *)
Chain ==
    /\ Answered /\ IsAlias(Top.comp)
    /\ finished' = Put(finished, Top.comp, [root |-> answer.root, null |-> answer.null])
    /\ frames' = Front(frames)
    /\ UNCHANGED <<context, work, answer, findings, graph>>

(* object_body: the type of one more property.                             *)
Continue(fields) ==
    /\ frames' = [frames EXCEPT ![Len(frames)] =
                      Frame(Top.comp, Top.guess, Top.next + 1, fields)]
    /\ answer' = None
    /\ UNCHANGED <<context, work, finished>>

AddField ==
    /\ Answered /\ Ref.use = "field"
    /\ Continue(Put(Top.fields, <<Top.comp, Top.next>>, answer))
    /\ UNCHANGED <<findings, graph>>

(* push_ref_member, and lower_sole_union_member: the fields of a lowered   *)
(* component, under the name of the body. What two members bring twice is  *)
(* one property of one component, and meets itself.                        *)
TakeFields ==
    /\ Answered /\ ~IsAlias(Top.comp) /\ Ref.use \in {"member", "target"}
    /\ answer.root \in DOMAIN types
    /\ Continue(Merged(Top.fields, types[answer.root]))
    /\ UNCHANGED <<findings, graph>>

(* The same of a type whose body is not known: what an alias was cached as *)
(* while its component was open.                                           *)
RefuseReserved ==
    /\ Answered /\ ~IsAlias(Top.comp) /\ Ref.use \in {"member", "target"}
    /\ answer.root \notin DOMAIN types
    /\ refusals' = IF Ref.use = "member" THEN Recorded(answer.root) ELSE refusals
    /\ broken' = TRUE
    /\ answer' = Failed
    /\ UNCHANGED <<context, work, frames, finished, guessed, revisions, graph>>

(* lower_into_reservation, after the body, with settle_reservation.        *)
Fill ==
    /\ frames # <<>> /\ answer = None
    /\ Top.next > Len(doc[Top.comp].refs)
    /\ LET c == Top.comp
           null == DecidedNull(c)
       IN
       /\ types' = Put(types, c, Top.fields)
       /\ filled' = Append(filled, c)
       /\ finished' = Put(finished, c, [root |-> c, null |-> null])
       /\ revisions' = IF c \in guessed /\ null # Top.guess
                       THEN revisions \union {[comp |-> c, null |-> null]} ELSE revisions
       /\ guessed' = guessed \ {c}
       /\ answer' = Ty(c, null, FALSE)
    /\ frames' = Front(frames)
    /\ UNCHANGED <<context, work, refusals, broken>>

-----------------------------------------------------------------------------
(* lower: what the pass found wrong, and whether that needs another.       *)
PassDone == at <= Len(Orders) /\ work = <<>> /\ frames = <<>> /\ answer = None

LearnOrder ==
    /\ PassDone /\ refusals # <<>>
    /\ lesson' = Learn(lesson, Head(refusals))
    /\ refusals' = Tail(refusals)
    /\ changed' = (changed \/ lesson' # lesson)
    /\ UNCHANGED <<doc, at, verdicts, settled, work, frames, answer, finished>>
    /\ UNCHANGED <<guessed, revisions, broken, graph>>

Settled ==
    [c \in DOMAIN settled \union {r.comp : r \in revisions} |->
        IF c \in DOMAIN settled THEN settled[c]
        ELSE (CHOOSE r \in revisions : r.comp = c).null]
Stale == changed \/ Settled # settled
Decided == PassDone /\ refusals = <<>>

NextPass ==
    /\ Decided /\ Stale
    /\ settled' = Settled
    /\ BeginPass(Orders[at], lesson)
    /\ UNCHANGED <<doc, at, verdicts, lesson>>

(* What the generated types say of a component: its nullability, and what  *)
(* each property holds; not of a property that names a union, which is the *)
(* union's own type where that is lowered, and its target where not.       *)
Property(p) == Named(doc, doc[p[1]].refs[p[2]].to)
Plain(fields) == {p \in DOMAIN fields : doc[Property(p)].kind # "union"}
Shape(c) ==
    LET fields == types[finished[c].root] IN
    [null   |-> finished[c].null,
     fields |-> [p \in Plain(fields) |-> <<fields[p].root, fields[p].null>>]]
Verdict ==
    [refused |-> broken,
     shapes  |-> IF broken THEN <<>> ELSE [c \in Names |-> Shape(c)]]

Accept ==
    /\ Decided /\ ~Stale
    /\ verdicts' = Append(verdicts, Verdict)
    /\ at' = at + 1
    /\ settled' = <<>> /\ lesson' = NoLesson
    /\ BeginPass(IF at < Len(Orders) THEN Orders[at + 1] ELSE <<>>, NoLesson)
    /\ UNCHANGED doc

Returned == at > Len(Orders) /\ UNCHANGED vars

Next ==
    \/ RefuseOpenMember \/ UseFinished \/ BackEdge \/ AliasOfOpen
    \/ Undeclared \/ AliasCycle \/ FollowAlias \/ OpenBody
    \/ OpenedAtTop \/ Unwind \/ Chain \/ AddField \/ TakeFields \/ RefuseReserved \/ Fill
    \/ LearnOrder \/ NextPass \/ Accept \/ Returned

Spec == Init /\ [][Next]_vars /\ WF_vars(Next)

-----------------------------------------------------------------------------
(* What is checked.                                                        *)

(* lower's loop runs into no pass that finds again what an earlier one     *)
(* settled or learned: it returns under every order (mod.rs:144-147).      *)
PassesEnd == <>(at > Len(Orders))

(* What c leads to, over one reference or more.                            *)
Reached(c) ==
    LET within[n \in Nat] ==
            IF n = 0 THEN {r.to : r \in ToSet(doc[c].refs)}
            ELSE LET inner == within[n - 1] IN
                 inner \union {r.to : r \in UNION {ToSet(doc[x].refs) : x \in inner \intersect Names}}
    IN  within[Cardinality(Names)]

(* An alias that a body leads back to. Where it is followed before that    *)
(* body is open it is refused as a loop of aliases, and where it is        *)
(* followed first below the body it keeps what it was told of an open one. *)
LeadsBack(c) ==
    /\ c \in Names /\ IsAlias(c) /\ c \in Reached(c)
    /\ Named(doc, c) \in Names /\ ~IsAlias(Named(doc, c))

(* A body composed of one that leads back to it, which it must open first; *)
(* and two of them among more components than three. Then one refusal may  *)
(* be met only under what another one taught, and which of the two is met  *)
(* first decides what is dropped as futile.                                *)
ComposedOfItsOwn(c) ==
    \E r \in ToSet(doc[c].refs) :
        /\ r.use = "member" /\ r.to \in Names
        /\ c = r.to \/ c \in Reached(r.to)
Entangled ==
    LET composed == {c \in Names : ComposedOfItsOwn(c)} IN
    /\ Cardinality(composed) > 1
    /\ Cardinality(UNION {Reached(c) : c \in composed}) > 3

(* Re-ordering components.schemas never changes a type: under all orders   *)
(* that lower a document, each component has the same nullability and the  *)
(* same properties of the same types (mod.rs:132-142). Nor does it decide  *)
(* whether the document is refused, but where an alias leads back to       *)
(* itself through a body, and where compositions are entangled.            *)
OrderDecidesNothing ==
    \A i, j \in DOMAIN verdicts :
        \/ verdicts[i] = verdicts[j]
        \/ /\ verdicts[i].refused # verdicts[j].refused
           /\ Entangled \/ \E c \in Names : LeadsBack(c)

(* A generated type has a finite size: what a definition holds unboxed was *)
(* complete before it (reserved_type, and the rationale of                 *)
(* nullable_alias_back_edge), unless the property names an alias that      *)
(* leads back to itself. What chain_component_alias caches of such a one   *)
(* while its target is open is given to later properties unboxed.          *)
Position(c) == CHOOSE i \in DOMAIN filled : filled[i] = c
HoldsOnlyEarlier(c) ==
    \A p \in DOMAIN types[c] :
        ~types[c][p].boxed =>
            \/ /\ types[c][p].root \in DOMAIN types
               /\ Position(types[c][p].root) < Position(c)
            \/ LeadsBack(doc[p[1]].refs[p[2]].to)
FiniteTypes == \A c \in DOMAIN types : HoldsOnlyEarlier(c)

(* In what lower returns, a property that was typed by a back-edge and one *)
(* that was typed by the finished component agree on whether the component *)
(* is nullable (issue #222, mod.rs:125-131).                               *)
BackEdgesAgree ==
    Decided /\ ~Stale /\ ~broken =>
        \A c \in DOMAIN types : \A p \in Plain(types[c]) :
            types[c][p].null = finished[types[c][p].root].null
=============================================================================
