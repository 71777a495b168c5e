---------------------------- MODULE MemberOrders ----------------------------
(***************************************************************************)
(* What the passes of one lowering learn about the order to open bodies in *)
(* (MemberOrder, MemberOrders, order_path and opened_first of              *)
(* oas31/lower/cycle.rs): operators, without state of their own.           *)
(*                                                                         *)
(* An ordering [holder, target] says that `holder` is composed of `target` *)
(* and found it open; the next pass opens the holder first.                *)
(***************************************************************************)
EXTENDS Naturals, FiniteSets, Sequences, SequencesExt, FiniteSetsExt

Targets(taken, c) == {o.target : o \in {t \in ToSet(taken) : t.holder = c}}

(* What leads to `to` along at most n orderings, and all that leads there. *)
LeadingWithin(taken, to) ==
    LET near[n \in Nat] ==
            IF n = 0 THEN {to}
            ELSE LET closer == near[n - 1]
                 IN  closer \union {o.holder : o \in {t \in ToSet(taken) : t.target \in closer}}
    IN  near
Leading(taken, to) == LeadingWithin(taken, to)[Len(taken)]

(* order_path: the stack takes the last ordering of a body first, and a    *)
(* body that does not lead to `to` is left again, so the chain found takes *)
(* the last ordering that leads there at each body. As indices into taken. *)
OrderPath(taken, from, to) ==
    LET leading == Leading(taken, to)
        after[n \in Nat] ==
            IF n = 0 THEN [body |-> from, used |-> {}]
            ELSE LET walk == after[n - 1]
                     i == Max({j \in DOMAIN taken :
                              taken[j].holder = walk.body /\ taken[j].target \in leading})
                 IN  IF walk.body = to THEN walk
                     ELSE [body |-> taken[i].target, used |-> walk.used \union {i}]
    IN  after[Len(taken)].used

(* Mistake: a loop is dropped, and taken up again by the next pass *)
(* that is refused for it.                                                 *)
LearnForgetful(lesson, order) ==
    LET path == OrderPath(lesson.taken, order.target, order.holder)
        kept == SelectSeq([i \in DOMAIN lesson.taken |-> i], LAMBDA i : i \notin path)
    IN  IF order \in ToSet(lesson.taken) THEN lesson
        ELSE IF order.target \notin Leading(lesson.taken, order.holder)
        THEN [lesson EXCEPT !.taken = Append(@, order)]
        ELSE [lesson EXCEPT !.taken = [k \in DOMAIN kept |-> lesson.taken[kept[k]]]]

(* MemberOrders::learn, of a lesson [taken, futile].                       *)
Learn(lesson, order) ==
    LET taken == lesson.taken
        path == OrderPath(taken, order.target, order.holder)
        kept == SelectSeq([i \in DOMAIN taken |-> i], LAMBDA i : i \notin path)
    IN  IF order \in ToSet(taken) \union lesson.futile THEN lesson
        ELSE IF order.target \notin Leading(taken, order.holder)
        THEN [lesson EXCEPT !.taken = Append(@, order)]
        ELSE [taken  |-> [k \in DOMAIN kept |-> taken[kept[k]]],
              futile |-> lesson.futile \union {order} \union {taken[i] : i \in path}]

(* opened_first: every holder, those in document order, each after the     *)
(* holders ordered before it. What place_opening does with its own stack:  *)
(* from the first holder not placed, go to the first not placed that is    *)
(* ordered before it while there is one, place that, and begin again.      *)
OpenedFirst(taken, document) ==
    LET holders == SelectSeq(document, LAMBDA c : \E o \in ToSet(taken) : o.holder = c)
        FirstOf(S) == holders[Min({i \in DOMAIN holders : holders[i] \in S})]
        Place(placed) ==
            LET left == ToSet(holders) \ ToSet(placed)
                at[n \in Nat] ==
                    IF n = 0 THEN FirstOf(left)
                    ELSE LET c == at[n - 1]
                             before == {h \in left : c \in Targets(taken, h)}
                         IN  IF before = {} THEN c ELSE FirstOf(before)
            IN  Append(placed, at[Len(holders)])
        first[n \in Nat] == IF n = 0 THEN <<>> ELSE Place(first[n - 1])
    IN  first[Len(holders)]
=============================================================================
