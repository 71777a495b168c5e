----------------------------- MODULE MCLowering -----------------------------
(* Documents of three components under all orders of the three, with D an  *)
(* object of no properties; and of four, under the same orders.            *)
EXTENDS Lowering

CONSTANTS A, B, C, D, E

MCNames == {A, B, C, D}
MCOrders == <<<<A, B, C, D>>, <<D, A, C, B>>, <<B, A, C, D>>,
              <<B, D, C, A>>, <<C, D, A, B>>, <<D, C, B, A>>>>

Member(c) == [use |-> "member", to |-> c]
Field(c) == [use |-> "field", to |-> c]
Target(c) == [use |-> "target", to |-> c]

Object(members, fields, null) ==
    [kind |-> "object", null |-> null, refs |-> members \o fields]
Alias(c) == [kind |-> "alias", null |-> FALSE, refs |-> <<Target(c)>>]
Union(c) == [kind |-> "union", null |-> FALSE, refs |-> <<Target(c)>>]
Pick(fields) == [kind |-> "pick", null |-> FALSE, refs |-> fields]

DocOfFour(a, b, c, d) ==
    [n \in MCNames |-> CASE n = A -> a [] n = B -> b [] n = C -> c [] n = D -> d]
Doc(a, b, c) == DocOfFour(a, b, c, Object(<<>>, <<>>, FALSE))

MemberOf(S) == {<<>>} \union {<<Member(c)>> : c \in S}
OneField(S) == {<<>>} \union {<<Field(c)>> : c \in S}
TwoFields(S) == OneField(S) \union
    {f \in {<<Field(A), Field(B)>>, <<Field(A), Field(C)>>, <<Field(B), Field(C)>>} :
        \A i \in 1 .. 2 : f[i].to \in S}

Objects(members, fields, null) ==
    {Object(m, f, n) : m \in members, f \in fields, n \in null}

(* Recursion through members and properties. All orders are tried, so      *)
(* documents that differ by a renaming of B and C are one.                 *)
Composed ==
    {d \in {Doc(a, b, c) :
        a \in Objects(MemberOf({B}), TwoFields({B, C}), {FALSE}),
        b \in Objects(MemberOf({A, C}), OneField({A, B, C}), {FALSE}),
        c \in Objects(MemberOf({A, B}), OneField({A, B}), {FALSE})} :
     \/ d[A].refs # <<>> /\ d[A].refs[1] = Member(B)
     \/ Len(d[B].refs) > Len(d[C].refs)
     \/ Len(d[B].refs) = Len(d[C].refs) /\ Member(A) \notin ToSet(d[C].refs)}

(* With a component whose guessed nullability its body contradicts.        *)
Guessed ==
    {Doc(Pick(f), b, c) :
        f \in TwoFields({B, C}),
        b \in Objects(MemberOf({C}), OneField({A, C}), BOOLEAN),
        c \in Objects({<<>>}, OneField({A, B}), {TRUE})}

(* With an alias for A, which A may lead to; with a nullable alias.        *)
Aliased ==
    {Doc(a, b, Alias(A)) :
        a \in Objects(MemberOf({B}), TwoFields({A, B, C}), {FALSE}),
        b \in Objects(MemberOf({A, C}), TwoFields({A, C}), {FALSE})}
Unions ==
    {Doc(a, b, Union(A)) :
        a \in Objects(MemberOf({B}), TwoFields({B, C}), {FALSE}),
        b \in Objects(MemberOf({A}), OneField({A, B, C}), {FALSE})}

(* Refused: a loop of aliases, a body composed of itself through an alias, *)
(* references to nothing.                                                  *)
Faulty ==
    {Doc(Object(<<>>, <<Field(B)>>, FALSE), Alias(C), Alias(B)),
     Doc(Object(<<Member(B)>>, <<>>, FALSE), Alias(A), Object(<<>>, <<Field(A)>>, FALSE)),
     Doc(Object(<<Member(E)>>, <<>>, FALSE), Alias(E), Union(B)),
     Doc(Object(<<>>, <<Field(B)>>, FALSE), Object(<<Member(C)>>, <<Field(E)>>, FALSE), Alias(A))}

(* Recursion through properties, with an alias of one it passes through.   *)
Recursive ==
    {Doc(a, Object(<<>>, g, FALSE), Alias(c)) :
        a \in Objects({<<>>}, TwoFields({A, B, C}), {FALSE}), g \in OneField({A, C}), c \in {A, B}}

(* Two bodies of four that are each composed of one that leads back: among *)
(* them a diamond, where C and D are both B and more, B holds A, and A     *)
(* holds C and D. And the same with fewer references, or with an alias.    *)
Four ==
    {DocOfFour(a, b, c, d) :
        a \in Objects({<<>>}, {<<Field(C)>>, <<Field(C), Field(D)>>}, {FALSE}),
        b \in Objects({<<>>, <<Member(D)>>}, {<<>>, <<Field(A)>>}, {FALSE}),
        c \in Objects({<<>>, <<Member(B)>>, <<Member(D)>>}, {<<>>}, {FALSE}),
        d \in Objects({<<>>, <<Member(B)>>}, {<<>>, <<Field(C)>>}, {FALSE}) \union {Alias(A), Alias(B)}}

MCDocuments ==
    Composed \union Guessed \union Aliased \union Unions \union Faulty \union Recursive \union Four
=============================================================================
