---------------------------- MODULE NamingProofs ----------------------------
EXTENDS Naming, WellFoundedInduction, SequenceTheorems, FiniteSetTheorems, FunctionTheorems, TLAPS


-----------------------------------------------------------------------------
(* Orders.                                                                 *)

\* A set of numbers that is not empty has a smallest one.
LEMMA SmallestExists ==
  ASSUME NEW S \in SUBSET Nat, S # {}
  PROVE  \E m \in S : \A n \in S : m <= n
  <1>1. PICK x \in S : \A y \in S : ~ (<<y, x>> \in OpToRel(<, Nat))
    BY NatLessThanWellFounded, WFMin
  <1>2. \A y \in S : ~ (y < x)
    BY <1>1, Zenon DEF OpToRel
  <1> QED
    BY <1>2

\* A strict prefix is shorter and agrees as far as it goes.
LEMMA StrictPrefixes ==
  ASSUME NEW s \in Seq(Nat), NEW t \in Seq(Nat)
  PROVE  IsStrictPrefix(s, t) <=> Len(s) < Len(t) /\ \A i \in 1..Len(s) : s[i] = t[i]
  <1>1. ASSUME Len(s) <= Len(t)
        PROVE  SubSeq(s, 1, Len(s)) = SubSeq(t, 1, Len(s)) <=> \A i \in 1..Len(s) : s[i] = t[i]
    <2>1. /\ SubSeq(s, 1, Len(s)) = [i \in 1..Len(s) |-> s[i]]
          /\ SubSeq(t, 1, Len(s)) = [i \in 1..Len(s) |-> t[i]]
      BY <1>1
    <2> QED BY <2>1
  <1>2. (Len(s) = Len(t) /\ \A i \in 1..Len(s) : s[i] = t[i]) => s = t
    BY SeqEqual
  <1> QED BY <1>1, <1>2 DEF IsStrictPrefix, IsPrefix

\* Of two sequences of numbers, one precedes the other or they are the same.
LEMMA PrecedesIsTotal ==
  ASSUME NEW s \in Seq(Nat), NEW t \in Seq(Nat), s # t
  PROVE  Precedes(s, t) \/ Precedes(t, s)
  <1> DEFINE D == {i \in DOMAIN s \intersect DOMAIN t : s[i] # t[i]}
  <1>0. DOMAIN s = 1..Len(s) /\ DOMAIN t = 1..Len(t) /\ Len(s) \in Nat /\ Len(t) \in Nat
    OBVIOUS
  <1>1. CASE D = {}
    <2>1. CASE Len(s) = Len(t)
      <3>1. \A i \in 1..Len(s) : s[i] = t[i]
        BY <1>0, <1>1, <2>1
      <3> QED BY <2>1, <3>1, SeqEqual
    <2>2. CASE Len(s) < Len(t)
      <3>1. \A i \in 1..Len(s) : s[i] = t[i]
        BY <1>0, <1>1, <2>2
      <3> QED BY <2>2, <3>1, StrictPrefixes DEF Precedes
    <2>3. CASE Len(t) < Len(s)
      <3>1. \A i \in 1..Len(t) : t[i] = s[i]
        BY <1>0, <1>1, <2>3
      <3> QED BY <2>3, <3>1, StrictPrefixes DEF Precedes
    <2>4. Len(s) = Len(t) \/ Len(s) < Len(t) \/ Len(t) < Len(s)
      <3>1. Len(s) \in Nat /\ Len(t) \in Nat
        OBVIOUS
      <3> QED BY <3>1
    <2> QED BY <2>1, <2>2, <2>3, <2>4
  <1>2. CASE D # {}
    <2>1. D \in SUBSET Nat
      BY <1>0
    <2>2. PICK i \in D : \A j \in D : i <= j
      BY <1>2, <2>1, SmallestExists
    <2>3. i \in DOMAIN s \intersect DOMAIN t /\ s[i] # t[i] /\ s[i] \in Nat /\ t[i] \in Nat
      OBVIOUS
    <2>4. ASSUME NEW j \in 1..(i - 1) PROVE s[j] = t[j]
      <3>1. ~ (i <= j) /\ j \in DOMAIN s \intersect DOMAIN t
        BY <1>0, <2>3
      <3> QED BY <2>2, <3>1
    <2>5. \A j \in 1..(i - 1) : s[j] = t[j] /\ t[j] = s[j]
      BY <2>4
    <2>6. s[i] < t[i] \/ t[i] < s[i]
      BY <2>3
    <2> HIDE DEF D
    <2> QED BY <2>3, <2>5, <2>6 DEF Precedes
  <1> QED BY <1>1, <1>2

\* Precedes, spelled out: the first place where t goes on or is greater.
LEMMA PrecedesAt ==
  ASSUME NEW s \in Seq(Nat), NEW t \in Seq(Nat)
  PROVE  Precedes(s, t) <=>
           \E i \in 1..Len(t) : /\ i - 1 <= Len(s)
                                /\ \A j \in 1..(i - 1) : s[j] = t[j]
                                /\ i = Len(s) + 1 \/ (i <= Len(s) /\ s[i] < t[i])
  <1>0. DOMAIN s = 1..Len(s) /\ DOMAIN t = 1..Len(t) /\ Len(s) \in Nat /\ Len(t) \in Nat
    OBVIOUS
  <1>1. IsStrictPrefix(s, t) <=>
           \E i \in 1..Len(t) : i = Len(s) + 1 /\ \A j \in 1..(i - 1) : s[j] = t[j]
    <2>1. ASSUME Len(s) < Len(t) PROVE Len(s) + 1 \in 1..Len(t) /\ (Len(s) + 1) - 1 = Len(s)
      BY <2>1, <1>0
    <2> QED BY <2>1, <1>0, StrictPrefixes
  <1> DEFINE Goes == \E i \in DOMAIN s \intersect DOMAIN t :
                        s[i] < t[i] /\ \A j \in 1..(i - 1) : s[j] = t[j]
  <1>2. Goes <=> \E i \in 1..Len(t) : (i <= Len(s) /\ s[i] < t[i])
                                     /\ \A j \in 1..(i - 1) : s[j] = t[j]
    <2>1. \A i : i \in DOMAIN s \intersect DOMAIN t <=> i \in 1..Len(t) /\ i <= Len(s)
      BY <1>0
    <2> QED BY <2>1, Zenon
  <1>3. Precedes(s, t) <=> IsStrictPrefix(s, t) \/ Goes
    BY DEF Precedes
  <1>4. \A i \in 1..Len(t) : i = Len(s) + 1 \/ i <= Len(s) => i - 1 <= Len(s)
    BY <1>0
  <1> HIDE DEF Goes
  <1> QED BY <1>1, <1>2, <1>3, <1>4

\* It is an order.
LEMMA PrecedesIsStrict ==
  ASSUME NEW s \in Seq(Nat)
  PROVE  ~ Precedes(s, s)
  <1>1. SUFFICES ASSUME Precedes(s, s) PROVE FALSE
    OBVIOUS
  <1>2. PICK i \in 1..Len(s) : i = Len(s) + 1 \/ (i <= Len(s) /\ s[i] < s[i])
    BY <1>1, PrecedesAt
  <1>3. s[i] \in Nat
    OBVIOUS
  <1> QED BY <1>2, <1>3

\* The order of tuples of numbers is transitive.
LEMMA PrecedesIsTransitive ==
  ASSUME NEW s \in Seq(Nat), NEW t \in Seq(Nat), NEW u \in Seq(Nat), Precedes(s, t), Precedes(t, u)
  PROVE  Precedes(s, u)
  <1>1. PICK i \in 1..Len(t) : /\ i - 1 <= Len(s)
                               /\ \A j \in 1..(i - 1) : s[j] = t[j]
                               /\ i = Len(s) + 1 \/ (i <= Len(s) /\ s[i] < t[i])
    BY PrecedesAt
  <1>2. PICK k \in 1..Len(u) : /\ k - 1 <= Len(t)
                               /\ \A j \in 1..(k - 1) : t[j] = u[j]
                               /\ k = Len(t) + 1 \/ (k <= Len(t) /\ t[k] < u[k])
    BY PrecedesAt
  <1>0. /\ Len(s) \in Nat /\ Len(t) \in Nat /\ Len(u) \in Nat
        /\ \A j \in 1..Len(s) : s[j] \in Nat
        /\ \A j \in 1..Len(t) : t[j] \in Nat
        /\ \A j \in 1..Len(u) : u[j] \in Nat
    OBVIOUS
  <1>3. CASE i < k
    <2>1. i \in 1..Len(u) /\ t[i] = u[i] /\ \A j \in 1..(i - 1) : s[j] = u[j]
      BY <1>0, <1>1, <1>2, <1>3
    <2> QED BY <1>1, <2>1, PrecedesAt
  <1>4. CASE i = k
    <2>1. t[i] < u[i]
      BY <1>0, <1>1, <1>2, <1>4
    <2>2. \A j \in 1..(k - 1) : s[j] = u[j]
      BY <1>0, <1>1, <1>2, <1>4
    <2>3. k = Len(s) + 1 \/ (k <= Len(s) /\ s[k] < u[k])
      <3>1. CASE i = Len(s) + 1
        BY <1>4, <3>1
      <3>2. CASE i <= Len(s) /\ s[i] < t[i]
        <4>1. i \in 1..Len(s) /\ i \in 1..Len(t) /\ i \in 1..Len(u)
          BY <1>0, <1>4, <3>2
        <4>2. s[i] \in Nat /\ t[i] \in Nat /\ u[i] \in Nat
          BY <1>0, <4>1
        <4> QED BY <1>4, <2>1, <3>2, <4>2
      <3> QED BY <1>1, <3>1, <3>2
    <2> QED BY <1>1, <1>2, <1>4, <2>2, <2>3, PrecedesAt
  <1>5. CASE k < i
    <2>1. s[k] = t[k] /\ k <= Len(s)
      BY <1>0, <1>1, <1>2, <1>5
    <2>2. \A j \in 1..(k - 1) : s[j] = u[j]
      BY <1>0, <1>1, <1>2, <1>5
    <2>3. s[k] < u[k]
      BY <1>0, <1>1, <1>2, <1>5, <2>1
    <2>4. k - 1 <= Len(s)
      BY <1>0, <2>1
    <2>5. k <= Len(s)
      BY <2>1
    <2> QED BY <2>2, <2>3, <2>4, <2>5, PrecedesAt
  <1> QED BY <1>3, <1>4, <1>5

-----------------------------------------------------------------------------
\* Tuples of n of them.
Tuples(n) == [1..n -> Seq(Nat)]

\* The order of tuples is one as well.
LEMMA SoonerIsStrict ==
  ASSUME NEW n \in Nat, NEW x \in Tuples(n)
  PROVE  ~ Sooner(x, x)
  BY PrecedesIsStrict DEF Sooner, Tuples

\* Of two different places one is sooner.
LEMMA SoonerIsTotal ==
  ASSUME NEW n \in Nat, NEW x \in Tuples(n), NEW y \in Tuples(n), x # y
  PROVE  Sooner(x, y) \/ Sooner(y, x)
  <1> DEFINE D == {i \in 1..n : x[i] # y[i]}
  <1>1. D # {}
    <2>1. SUFFICES ASSUME \A i \in 1..n : x[i] = y[i] PROVE FALSE
      OBVIOUS
    <2>2. x = [i \in 1..n |-> x[i]] /\ y = [i \in 1..n |-> y[i]]
      BY DEF Tuples
    <2> QED BY <2>1, <2>2
  <1>2. PICK i \in D : \A j \in D : i <= j
    <2>1. D \in SUBSET Nat
      OBVIOUS
    <2> HIDE DEF D
    <2> QED BY <1>1, <2>1, SmallestExists
  <1>3. \A j \in 1..(i - 1) : x[j] = y[j] /\ y[j] = x[j]
    BY <1>2
  <1>4. x[i] \in Seq(Nat) /\ y[i] \in Seq(Nat) /\ x[i] # y[i] /\ i \in DOMAIN x /\ i \in DOMAIN y
    BY DEF Tuples
  <1>5. Precedes(x[i], y[i]) \/ Precedes(y[i], x[i])
    BY <1>4, PrecedesIsTotal
  <1> QED BY <1>3, <1>4, <1>5 DEF Sooner

\* Sooner is transitive.
LEMMA SoonerIsTransitive ==
  ASSUME NEW n \in Nat, NEW x \in Tuples(n), NEW y \in Tuples(n), NEW z \in Tuples(n),
         Sooner(x, y), Sooner(y, z)
  PROVE  Sooner(x, z)
  <1>1. PICK i \in 1..n : Precedes(x[i], y[i]) /\ \A j \in 1..(i - 1) : x[j] = y[j]
    BY DEF Sooner, Tuples
  <1>2. PICK k \in 1..n : Precedes(y[k], z[k]) /\ \A j \in 1..(k - 1) : y[j] = z[j]
    BY DEF Sooner, Tuples
  <1>3. \A j \in 1..n : x[j] \in Seq(Nat) /\ y[j] \in Seq(Nat) /\ z[j] \in Seq(Nat)
    BY DEF Tuples
  <1>4. DOMAIN x = 1..n
    BY DEF Tuples
  <1>5. CASE i < k
    <2>1. Precedes(x[i], z[i])
      BY <1>1, <1>2, <1>5
    <2>2. \A j \in 1..(i - 1) : x[j] = z[j]
      BY <1>1, <1>2, <1>5
    <2> QED BY <1>4, <2>1, <2>2 DEF Sooner
  <1>6. CASE i = k
    <2>1. Precedes(x[i], z[i])
      BY <1>1, <1>2, <1>3, <1>6, PrecedesIsTransitive
    <2>2. \A j \in 1..(i - 1) : x[j] = z[j]
      BY <1>1, <1>2, <1>6
    <2> QED BY <1>4, <2>1, <2>2 DEF Sooner
  <1>7. CASE k < i
    <2>1. Precedes(x[k], z[k])
      BY <1>1, <1>2, <1>7
    <2>2. \A j \in 1..(k - 1) : x[j] = z[j]
      BY <1>1, <1>2, <1>7
    <2> QED BY <1>4, <2>1, <2>2 DEF Sooner
  <1> QED BY <1>5, <1>6, <1>7

\* What is sooner does not come later in its first element.
LEMMA SoonerInFirst ==
  ASSUME NEW n \in Nat \ {0}, NEW x \in Tuples(n), NEW y \in Tuples(n), Sooner(x, y)
  PROVE  x[1] = y[1] \/ Precedes(x[1], y[1])
  <1>1. PICK i \in 1..n : Precedes(x[i], y[i]) /\ \A j \in 1..(i - 1) : x[j] = y[j]
    BY DEF Sooner, Tuples
  <1> QED BY <1>1

-----------------------------------------------------------------------------
\* o has every one of asks, once, the sooner first.
Line(asks, place, o) ==
  /\ o \in Seq(asks)
  /\ \A a \in asks : \E s \in 1..Len(o) : o[s] = a
  /\ \A s, t \in 1..Len(o) : o[s] = o[t] => s = t
  /\ \A s, t \in 1..Len(o) : s < t => Sooner(place[o[s]], place[o[t]])

\* Requests that differ have different places.
Placed(asks, place, n) ==
  /\ place \in [asks -> Tuples(n)]
  /\ \A a, b \in asks : place[a] = place[b] => a = b

\* Counting who is sooner gives each request a place of its own, up to their number.
LEMMA PlacesByCounting ==
  ASSUME NEW S, IsFiniteSet(S), NEW before \in [S -> SUBSET S],
         \A a \in S : a \notin before[a],
         \A a, b \in S : b \in before[a] => before[b] \subseteq before[a],
         \A a, b \in S : a # b => a \in before[b] \/ b \in before[a],
         NEW at, at = [a \in S |-> 1 + Cardinality(before[a])]
  PROVE  /\ at \in [S -> 1..Cardinality(S)]
         /\ \A a, b \in S : b \in before[a] => at[b] < at[a]
         /\ \A a, b \in S : at[a] = at[b] => a = b
         /\ \A m \in 1..Cardinality(S) : \E a \in S : at[a] = m
  <1>1. \A a \in S : /\ IsFiniteSet(before[a]) /\ Cardinality(before[a]) \in Nat
                     /\ Cardinality(before[a]) < Cardinality(S)
    <2> TAKE a \in S
    <2>1. before[a] \in SUBSET S /\ before[a] # S
      OBVIOUS
    <2>2. IsFiniteSet(before[a]) /\ Cardinality(before[a]) <= Cardinality(S)
          /\ Cardinality(before[a]) # Cardinality(S)
      BY <2>1, FS_Subset
    <2>3. Cardinality(before[a]) \in Nat /\ Cardinality(S) \in Nat
      BY <2>2, FS_CardinalityType
    <2> QED BY <2>2, <2>3
  <1>2. Cardinality(S) \in Nat
    BY FS_CardinalityType
  <1>3. at \in [S -> 1..Cardinality(S)]
    BY <1>1, <1>2
  <1>4. ASSUME NEW a \in S, NEW b \in S, b \in before[a] PROVE at[b] < at[a]
    <2>1. before[b] \in SUBSET before[a] /\ before[b] # before[a]
      BY <1>4
    <2>2. Cardinality(before[b]) <= Cardinality(before[a])
          /\ Cardinality(before[a]) # Cardinality(before[b])
      BY <1>1, <2>1, FS_Subset
    <2> QED BY <1>1, <2>2
  <1>5. ASSUME NEW a \in S, NEW b \in S, at[a] = at[b], a # b PROVE FALSE
    <2>1. at[a] < at[b] \/ at[b] < at[a]
      BY <1>4, <1>5
    <2>2. at[a] \in Nat /\ at[b] \in Nat
      BY <1>1
    <2> QED BY <1>5, <2>1, <2>2
  <1>6. at \in Injection(S, 1..Cardinality(S))
    BY <1>3, <1>5 DEF Injection, IsInjective
  <1>7. IsFiniteSet(1..Cardinality(S)) /\ Cardinality(1..Cardinality(S)) = Cardinality(S)
    BY <1>2, FS_Interval
  <1>8. at \in Surjection(S, 1..Cardinality(S))
    BY <1>6, <1>7, FS_Injection
  <1> QED BY <1>3, <1>4, <1>5, <1>8 DEF Surjection

\* So InOrder is such a line.
LEMMA InOrderIs ==
  ASSUME NEW asks, IsFiniteSet(asks), NEW n \in Nat, NEW place, Placed(asks, place, n)
  PROVE  /\ Line(asks, place, InOrder(asks, place))
         /\ Len(InOrder(asks, place)) = Cardinality(asks) /\ Cardinality(asks) \in Nat
  <1> DEFINE before == [a \in asks |-> {b \in asks : Sooner(place[b], place[a])}]
             at == [a \in asks |-> 1 + Cardinality(before[a])]
             m == Cardinality(asks)
             o == [s \in 1..m |-> CHOOSE a \in asks : at[a] = s]
  <1>0. m \in Nat
    BY FS_CardinalityType
  <1>2. InOrder(asks, place) = o
    <2> DEFINE count == [a \in asks |-> 1 + Cardinality({b \in asks : Sooner(place[b], place[a])})]
    <2>1. InOrder(asks, place) = [s \in 1..m |-> CHOOSE a \in asks : count[a] = s]
      BY Zenon DEF InOrder
    <2>2. count = at
      OBVIOUS
    <2> HIDE DEF count, at
    <2> QED BY <2>1, <2>2
  <1>3. before \in [asks -> SUBSET asks]
    OBVIOUS
  <1>4. \A a, b \in asks : b \in before[a] <=> Sooner(place[b], place[a])
    OBVIOUS
  <1>p. \A a \in asks : place[a] \in Tuples(n)
    BY DEF Placed
  <1>5. \A a \in asks : a \notin before[a]
    BY <1>4, <1>p, SoonerIsStrict
  <1>6. ASSUME NEW a \in asks, NEW b \in asks, b \in before[a] PROVE before[b] \subseteq before[a]
    <2>1. SUFFICES ASSUME NEW c \in asks, c \in before[b] PROVE c \in before[a]
      BY <1>3
    <2>2. Sooner(place[c], place[b]) /\ Sooner(place[b], place[a])
      BY <1>4, <1>6, <2>1
    <2>3. Sooner(place[c], place[a])
      BY <1>p, <2>2, SoonerIsTransitive
    <2> QED BY <1>4, <2>3
  <1>7. ASSUME NEW a \in asks, NEW b \in asks, a # b PROVE a \in before[b] \/ b \in before[a]
    <2>1. place[a] # place[b]
      BY <1>7 DEF Placed
    <2>2. Sooner(place[a], place[b]) \/ Sooner(place[b], place[a])
      BY <1>p, <2>1, SoonerIsTotal
    <2> QED BY <1>4, <2>2
  <1> HIDE DEF before
  <1>8. /\ at \in [asks -> 1..m]
        /\ \A a, b \in asks : b \in before[a] => at[b] < at[a]
        /\ \A a, b \in asks : at[a] = at[b] => a = b
        /\ \A s \in 1..m : \E a \in asks : at[a] = s
    <2> DEFINE count == at
    <2>1. count = [a \in asks |-> 1 + Cardinality(before[a])]
      OBVIOUS
    <2> HIDE DEF count
    <2>2. /\ count \in [asks -> 1..m]
          /\ \A a, b \in asks : b \in before[a] => count[b] < count[a]
          /\ \A a, b \in asks : count[a] = count[b] => a = b
          /\ \A s \in 1..m : \E a \in asks : count[a] = s
      BY <1>3, <1>5, <1>6, <1>7, <2>1, PlacesByCounting
    <2> USE DEF count
    <2> QED BY <2>2
  <1> HIDE DEF at
  <1>9. \A s \in 1..m : o[s] \in asks /\ at[o[s]] = s
    BY <1>8
  <1>10. o \in Seq(asks) /\ Len(o) = m
    <2>1. o \in [1..m -> asks]
      BY <1>9
    <2> HIDE DEF o
    <2> QED BY <1>0, <2>1
  <1>10a. DOMAIN o = 1..m
    OBVIOUS
  <1> HIDE DEF o
  <1>11. ASSUME NEW a \in asks PROVE \E s \in 1..Len(o) : o[s] = a
    <2>1. at[a] \in 1..m
      BY <1>8
    <2>2. at[o[at[a]]] = at[a] /\ o[at[a]] \in asks
      BY <1>9, <2>1
    <2> QED BY <1>8, <1>10, <2>1, <2>2
  <1>12. \A s, t \in 1..m : o[s] = o[t] => s = t
    BY <1>9
  <1>13. ASSUME NEW s \in 1..m, NEW t \in 1..m, s < t PROVE Sooner(place[o[s]], place[o[t]])
    <2>1. o[s] \in asks /\ o[t] \in asks /\ at[o[s]] = s /\ at[o[t]] = t
      BY <1>9
    <2>2. o[s] # o[t]
      BY <1>13, <2>1
    <2>3. ~ (o[t] \in before[o[s]])
      BY <1>0, <1>8, <1>13, <2>1
    <2>4. o[s] \in before[o[t]]
      BY <1>7, <2>1, <2>2, <2>3
    <2> QED BY <1>4, <2>1, <2>4
  <1> QED BY <1>0, <1>2, <1>10, <1>11, <1>12, <1>13 DEF Line

-----------------------------------------------------------------------------
(* Spellings.                                                              *)

\* Induction over the numbers, for a set: the theorems of the library that take a
\* predicate cannot be instantiated by these provers, WFMin can.
LEMMA SetInduction ==
  ASSUME NEW S \in SUBSET Nat, 0 \in S, \A n \in S : n + 1 \in S
  PROVE  S = Nat
  <1> DEFINE T == Nat \ S
  <1>1. SUFFICES ASSUME T # {} PROVE FALSE
    OBVIOUS
  <1>2. IsWellFoundedOn(OpToRel(<, Nat), Nat)
    BY NatLessThanWellFounded
  <1>3. PICK x \in T : \A y \in T : ~ (<<y, x>> \in OpToRel(<, Nat))
    BY <1>1, <1>2, WFMin
  <1>4. \A y \in T : ~ (y < x)
    BY <1>3, Zenon DEF OpToRel
  <1>5. x # 0 /\ x - 1 \in Nat
    OBVIOUS
  <1>6. x - 1 \in S
    BY <1>4, <1>5
  <1> QED
    BY <1>6, <1>5

\* f[i] is the first i sequences, one after the other.
Flat(seqs, f, n) == f = [i \in 1..n |-> IF i = 1 THEN seqs[i] ELSE f[i-1] \o seqs[i]]

\* The recursive function by which FlattenSeq is defined exists, so it is the one
\* chosen.
LEMMA FlatExists ==
  ASSUME NEW seqs, NEW m \in Nat
  PROVE  \E f : Flat(seqs, f, m)
  <1> DEFINE S == {n \in Nat : \E f : Flat(seqs, f, n)}
  <1>1. 0 \in S
    <2>1. Flat(seqs, [i \in 1..0 |-> 0], 0)
      BY DEF Flat
    <2> QED BY <2>1
  <1>2. ASSUME NEW n \in S PROVE n + 1 \in S
    <2>1. PICK f : Flat(seqs, f, n)
      OBVIOUS
    <2> DEFINE g == [i \in 1..n+1 |-> IF i \in 1..n THEN f[i]
                                     ELSE IF i = 1 THEN seqs[i] ELSE f[i-1] \o seqs[i]]
    <2>2. ASSUME NEW i \in 1..n+1 PROVE g[i] = IF i = 1 THEN seqs[i] ELSE g[i-1] \o seqs[i]
      <3>1. CASE i \in 1..n
        <4>1. f[i] = IF i = 1 THEN seqs[i] ELSE f[i-1] \o seqs[i]
          BY <2>1, <3>1 DEF Flat
        <4> QED BY <4>1, <3>1
      <3>2. CASE i = n + 1
        BY <3>2
      <3> QED BY <3>1, <3>2
    <2> DEFINE h == [i \in 1..n+1 |-> IF i = 1 THEN seqs[i] ELSE g[i-1] \o seqs[i]]
    <2>3. g = h
      BY <2>2
    <2>4. Flat(seqs, g, n + 1)
      BY <2>3 DEF Flat
    <2> QED BY <2>4
  <1> HIDE DEF S
  <1>3. S = Nat
    BY <1>1, <1>2, SetInduction DEF S
  <1> QED
    BY <1>3 DEF S

\* FlattenSeq is the last value of such a function.
LEMMA FlattenSeqIs ==
  ASSUME NEW seqs, Len(seqs) \in Nat \ {0}
  PROVE  \E f : Flat(seqs, f, Len(seqs)) /\ FlattenSeq(seqs) = f[Len(seqs)]
  <1>1. PICK f : Flat(seqs, f, Len(seqs))
    BY FlatExists
  <1> DEFINE g == CHOOSE g : g = [i \in 1..Len(seqs) |->
                                    IF i = 1 THEN seqs[i] ELSE g[i-1] \o seqs[i]]
  <1>2. Flat(seqs, g, Len(seqs))
    BY <1>1, Zenon DEF Flat
  <1>3. FlattenSeq(seqs) = g[Len(seqs)]
    BY Zenon DEF FlattenSeq
  <1> QED
    BY <1>2, <1>3

\* Induction over an interval.
LEMMA IntervalInduction ==
  ASSUME NEW n \in Nat, NEW S, n > 0 => 1 \in S,
         \A i \in 2..n : i - 1 \in S => i \in S
  PROVE  \A i \in 1..n : i \in S
  <1> DEFINE T == {m \in Nat : m \in 1..n => m \in S}
  <1>1. 0 \in T
    OBVIOUS
  <1>2. ASSUME NEW m \in T PROVE m + 1 \in T
    <2>1. SUFFICES ASSUME m + 1 \in 1..n PROVE m + 1 \in S
      OBVIOUS
    <2>2. CASE m = 0
      BY <2>1, <2>2
    <2>3. CASE m # 0
      <3>1. m \in S /\ m + 1 \in 2..n /\ (m + 1) - 1 = m
        BY <2>1, <2>3
      <3> QED BY <3>1
    <2> QED BY <2>2, <2>3
  <1>3. T = Nat
    <2> HIDE DEF T
    <2> QED BY <1>1, <1>2, SetInduction DEF T
  <1> QED
    BY <1>3

\* Its values are sequences over what the sequences are over.
LEMMA FlatType ==
  ASSUME NEW X, NEW seqs \in Seq(Seq(X)), NEW n \in Nat, n = Len(seqs), NEW f, Flat(seqs, f, n)
  PROVE  \A i \in 1..n : f[i] \in Seq(X)
  <1> DEFINE S == {i \in 1..n : f[i] \in Seq(X)}
  <1>1. \A i \in 1..n : f[i] = IF i = 1 THEN seqs[i] ELSE f[i - 1] \o seqs[i]
    BY Zenon DEF Flat
  <1>2. \A i \in 1..n : seqs[i] \in Seq(X)
    OBVIOUS
  <1>3. n > 0 => 1 \in S
    BY <1>1, <1>2
  <1>4. ASSUME NEW i \in 2..n, i - 1 \in S PROVE i \in S
    <2>1. i \in 1..n /\ i # 1
      OBVIOUS
    <2>2. f[i] = f[i - 1] \o seqs[i]
      BY <1>1, <2>1, Zenon
    <2>3. PICK b \in Seq(X), c \in Seq(X) : b = f[i - 1] /\ c = seqs[i]
      BY <1>2, <1>4, <2>1
    <2>4. b \o c \in Seq(X)
      OBVIOUS
    <2> QED BY <2>1, <2>2, <2>3, <2>4
  <1>5. \A i \in 1..n : i \in S
    <2> HIDE DEF S
    <2> QED BY <1>3, <1>4, IntervalInduction
  <1> QED
    BY <1>5


\* Appending to what is flattened appends to what comes of it.
LEMMA FlattenSnoc ==
  ASSUME NEW X, NEW seqs \in Seq(Seq(X)), seqs # <<>>, NEW x \in Seq(X)
  PROVE  /\ FlattenSeq(seqs \o <<x>>) = FlattenSeq(seqs) \o x
         /\ FlattenSeq(seqs) \in Seq(X)
  <1> DEFINE more == seqs \o <<x>>
  <1>1. PICK n \in Nat \ {0} : Len(seqs) = n
    OBVIOUS
  <1>2. /\ more \in Seq(Seq(X)) /\ Len(more) = n + 1 /\ more[n + 1] = x
        /\ \A i \in 1..n : more[i] = seqs[i]
    BY <1>1
  <1> HIDE DEF more
  <1>3. PICK f : Flat(seqs, f, n) /\ FlattenSeq(seqs) = f[n]
    BY <1>1, FlattenSeqIs
  <1>4. PICK g : Flat(more, g, n + 1) /\ FlattenSeq(more) = g[n + 1]
    BY <1>1, <1>2, FlattenSeqIs
  <1>5. \A i \in 1..n : f[i] = IF i = 1 THEN seqs[i] ELSE f[i - 1] \o seqs[i]
    BY <1>3, Zenon DEF Flat
  <1>6. \A i \in 1..n + 1 : g[i] = IF i = 1 THEN more[i] ELSE g[i - 1] \o more[i]
    BY <1>4, Zenon DEF Flat
  <1>7. \A i \in 1..n : i \in {j \in 1..n : g[j] = f[j]}
    <2> DEFINE S == {j \in 1..n : g[j] = f[j]}
    <2>1. 1 \in S
      BY <1>1, <1>2, <1>5, <1>6
    <2>2. ASSUME NEW i \in 2..n, i - 1 \in S PROVE i \in S
      <3>1. i \in 1..n /\ i \in 1..n + 1 /\ i # 1
        OBVIOUS
      <3>2. f[i] = f[i - 1] \o seqs[i]
        BY <1>5, <3>1
      <3>3. g[i] = g[i - 1] \o more[i]
        BY <1>6, <3>1
      <3>4. more[i] = seqs[i] /\ g[i - 1] = f[i - 1]
        BY <1>2, <2>2, <3>1
      <3>5. g[i] = f[i]
        BY <3>2, <3>3, <3>4, Zenon
      <3> QED BY <3>1, <3>5
    <2> HIDE DEF S
    <2>3. \A i \in 1..n : i \in S
      BY <2>1, <2>2, IntervalInduction
    <2> QED BY <2>3 DEF S
  <1>8. g[n] = f[n]
    BY <1>7
  <1>9. g[n + 1] = g[n] \o x
    <2>1. n + 1 \in 1..n + 1 /\ n + 1 # 1 /\ (n + 1) - 1 = n
      OBVIOUS
    <2> QED BY <1>2, <1>6, <2>1
  <1>10. f[n] \in Seq(X)
    BY <1>1, <1>3, FlatType
  <1> QED BY <1>3, <1>4, <1>8, <1>9, <1>10 DEF more

\* A number reads as a word that is no run of others, and two read differently.
NumeralsAreWords ==
  \A m, n \in Nat : /\ Numeral(n) \in Words \ DOMAIN Joined
                    /\ Numeral(m) = Numeral(n) => m = n

\* What the words of a hint come to, each in its pieces.
Pieced(hint) == [i \in DOMAIN hint |-> Pieces(hint[i])]

\* The pieces of a hint are as many identifiers as it has words.
LEMMA PiecedType ==
  ASSUME NEW hint \in Ident
  PROVE  Pieced(hint) \in Seq(Ident) /\ Len(Pieced(hint)) = Len(hint)
  <1>1. \A w \in Words : Pieces(w) \in Ident
    BY JoinedIsOfWords DEF Pieces, Ident
  <1>2. DOMAIN hint = 1..Len(hint) /\ Len(hint) \in Nat /\ \A i \in 1..Len(hint) : hint[i] \in Words
    BY DEF Ident
  <1>3. Pieced(hint) \in [1..Len(hint) -> Ident]
    BY <1>1, <1>2 DEF Pieced
  <1> QED BY <1>2, <1>3

\* The pieces of a hint with one more word.
LEMMA PiecedSnoc ==
  ASSUME NEW hint \in Ident, NEW w \in Words
  PROVE  Pieced(hint \o <<w>>) = Pieced(hint) \o <<Pieces(w)>>
  <1>1. PICK n \in Nat : Len(hint) = n
    BY DEF Ident
  <1>2. /\ DOMAIN (hint \o <<w>>) = 1..n + 1 /\ (hint \o <<w>>)[n + 1] = w
        /\ \A i \in 1..n : (hint \o <<w>>)[i] = hint[i]
    BY <1>1 DEF Ident
  <1>3. Pieced(hint) \in Seq(Ident) /\ Len(Pieced(hint)) = n /\ DOMAIN hint = 1..n
    BY <1>1, PiecedType DEF Ident
  <1>4. \A i \in 1..n : Pieced(hint)[i] = Pieces(hint[i])
    BY <1>3 DEF Pieced
  <1>5. Pieces(w) \in Ident
    BY JoinedIsOfWords DEF Pieces, Ident
  <1> DEFINE both == Pieced(hint) \o <<Pieces(w)>>
  <1>6. /\ both \in Seq(Ident) /\ Len(both) = n + 1 /\ both[n + 1] = Pieces(w)
        /\ \A i \in 1..n : both[i] = Pieced(hint)[i]
    BY <1>3, <1>5
  <1>7. both = [i \in 1..n + 1 |-> both[i]]
    BY <1>6
  <1> HIDE DEF both
  <1>8. \A i \in 1..n + 1 : both[i] = Pieces((hint \o <<w>>)[i])
    <2> TAKE i \in 1..n + 1
    <2>1. CASE i \in 1..n
      <3>1. both[i] = Pieced(hint)[i] /\ (hint \o <<w>>)[i] = hint[i]
        BY <1>2, <1>6, <2>1
      <3>2. Pieced(hint)[i] = Pieces(hint[i])
        BY <1>4, <2>1
      <3> QED BY <3>1, <3>2, Zenon
    <2>2. CASE i = n + 1
      <3>1. both[i] = Pieces(w) /\ (hint \o <<w>>)[i] = w
        BY <1>2, <1>6, <2>2
      <3> QED BY <3>1, Zenon
    <2>3. i \in 1..n \/ i = n + 1
      OBVIOUS
    <2> QED BY <2>1, <2>2, <2>3, Zenon
  <1>9. Pieced(hint \o <<w>>) = [i \in 1..n + 1 |-> Pieces((hint \o <<w>>)[i])]
    BY <1>2 DEF Pieced
  <1>10. both = Pieced(hint \o <<w>>)
    BY <1>7, <1>8, <1>9
  <1> QED BY <1>10 DEF both

\* A name is a sequence of words.
LEMMA EscapeType ==
  ASSUME NEW hint \in Ident, NEW role
  PROVE  Escape(hint, role) \in Ident
  <1>1. CASE hint = <<>>
    BY <1>1, PlacesDiffer DEF Escape, Ident, Words, Fixed
  <1>2. CASE hint # <<>> /\ role # "snake"
    <2>1. Escape(hint, role) = FlattenSeq(Pieced(hint))
      BY <1>2 DEF Escape, Pieced
    <2>2. Pieced(hint) \in Seq(Seq(Words)) /\ Pieced(hint) # <<>>
      <3>1. Len(hint) # 0
        BY <1>2 DEF Ident
      <3> QED BY <3>1, PiecedType DEF Ident
    <2>3. FlattenSeq(Pieced(hint)) \in Seq(Words)
      <3>1. <<>> \in Seq(Words)
        OBVIOUS
      <3> QED BY <2>2, <3>1, FlattenSnoc
    <2> QED BY <2>1, <2>3 DEF Ident
  <1> QED BY <1>1, <1>2 DEF Escape

\* A numeral at the end of a hint ends the name.
LEMMA EscapeSnoc ==
  ASSUME NumeralsAreWords, NEW hint \in Ident, hint # <<>>, NEW role, NEW n \in Nat
  PROVE  Escape(hint \o <<Numeral(n)>>, role) = Escape(hint, role) \o <<Numeral(n)>>
  <1>1. Numeral(n) \in Words /\ Pieces(Numeral(n)) = <<Numeral(n)>>
    BY DEF NumeralsAreWords, Pieces
  <1>2. hint \o <<Numeral(n)>> # <<>>
    BY <1>1 DEF Ident
  <1>3. CASE role = "snake"
    BY <1>2, <1>3 DEF Escape
  <1>4. CASE role # "snake"
    <2>1. /\ Escape(hint, role) = FlattenSeq(Pieced(hint))
          /\ Escape(hint \o <<Numeral(n)>>, role) = FlattenSeq(Pieced(hint \o <<Numeral(n)>>))
      BY <1>2, <1>4, Zenon DEF Escape, Pieced
    <2>2. Pieced(hint \o <<Numeral(n)>>) = Pieced(hint) \o <<<<Numeral(n)>>>>
      BY <1>1, PiecedSnoc
    <2>3. Pieced(hint) \in Seq(Seq(Words)) /\ Pieced(hint) # <<>> /\ <<Numeral(n)>> \in Seq(Words)
      <3>1. Len(hint) # 0
        BY DEF Ident
      <3> QED BY <1>1, <3>1, PiecedType DEF Ident
    <2>4. FlattenSeq(Pieced(hint) \o <<<<Numeral(n)>>>>) = FlattenSeq(Pieced(hint)) \o <<Numeral(n)>>
      BY <2>3, FlattenSnoc
    <2> QED BY <2>1, <2>2, <2>4
  <1> QED BY <1>3, <1>4

\* The spellings disambiguate tries all differ.
LEMMA CandidatesDiffer ==
  ASSUME NumeralsAreWords, NEW base \in Ident, NEW role, NEW seed \in DOMAIN Suffix
  PROVE  /\ \A n \in Nat : Candidate(base, role, seed, n) \in Ident
         /\ \A m, n \in Nat \ {0} :
               Candidate(base, role, seed, m) = Candidate(base, role, seed, n) => m = n
  <1> DEFINE first == base \o <<Suffix[seed]>>
             name == Escape(first, role)
  <1>1. first \in Ident /\ first # <<>>
    BY SuffixesAreWords DEF Ident
  <1>2. \A n \in Nat : Numeral(n) \in Words
    BY DEF NumeralsAreWords
  <1>3. \A n \in Nat : Candidate(base, role, seed, n)
                         = IF n = 1 THEN name ELSE Escape(first \o <<Numeral(n)>>, role)
    <2> TAKE n \in Nat
    <2>1. CASE n = 1
      <3>1. first \o <<>> = first
        BY <1>1 DEF Ident
      <3>2. Candidate(base, role, seed, n) = Escape(first \o <<>>, role)
        <4>1. base \o <<Suffix[seed]>> \o <<>> = first \o <<>>
          OBVIOUS
        <4> QED BY <2>1, <4>1 DEF Candidate
      <3> QED BY <2>1, <3>1, <3>2
    <2>2. CASE n # 1
      BY <2>2, Zenon DEF Candidate
    <2> QED BY <2>1, <2>2
  <1> HIDE DEF first
  <1>4. name \in Ident
    BY <1>1, EscapeType
  <1>5. \A n \in Nat \ {1} : Candidate(base, role, seed, n) = name \o <<Numeral(n)>>
    BY <1>1, <1>3, EscapeSnoc
  <1>6. Candidate(base, role, seed, 1) = name
    BY <1>3
  <1> HIDE DEF name
  <1>7. \A w \in Words : /\ name \o <<w>> \in Ident /\ Len(name \o <<w>>) = Len(name) + 1
                         /\ (name \o <<w>>)[Len(name) + 1] = w
    BY <1>4 DEF Ident
  <1>8. Len(name) \in Nat
    BY <1>4 DEF Ident
  <1>9. \A m, n \in Nat \ {1} : name \o <<Numeral(m)>> = name \o <<Numeral(n)>> => m = n
    BY <1>2, <1>7 DEF NumeralsAreWords
  <1>10. \A n \in Nat : name \o <<Numeral(n)>> # name
    BY <1>2, <1>7, <1>8
  <1>11. \A n \in Nat : Candidate(base, role, seed, n) \in Ident
    BY <1>2, <1>4, <1>5, <1>6, <1>7
  <1>12. ASSUME NEW m \in Nat \ {0}, NEW n \in Nat \ {0},
                Candidate(base, role, seed, m) = Candidate(base, role, seed, n)
         PROVE  m = n
    <2>1. CASE m # 1 /\ n # 1
      BY <1>5, <1>9, <1>12, <2>1
    <2>2. CASE m = 1 /\ n # 1
      BY <1>5, <1>6, <1>10, <1>12, <2>2
    <2>3. CASE m # 1 /\ n = 1
      BY <1>5, <1>6, <1>10, <1>12, <2>3
    <2> QED BY <2>1, <2>2, <2>3
  <1> QED BY <1>11, <1>12

\* disambiguate gives a name that is free.
LEMMA DisambiguatedIsFree ==
  ASSUME NumeralsAreWords, NEW used, IsFiniteSet(used), NEW base \in Ident, NEW role,
         NEW seed \in DOMAIN Suffix
  PROVE  /\ Disambiguated(used, base, role, seed) \in Ident \ used
         /\ \E n \in Nat : Disambiguated(used, base, role, seed) = Candidate(base, role, seed, n)
  <1> DEFINE C(n) == Candidate(base, role, seed, n)
             m == Cardinality(used) + 1
             free == {n \in 1..m : C(n) \notin used}
  <1>1. Cardinality(used) \in Nat
    BY FS_CardinalityType
  <1>2. /\ \A n \in 1..m : C(n) \in Ident
        /\ \A k, n \in 1..m : C(k) = C(n) => k = n
    BY <1>1, CandidatesDiffer
  <1>3. free # {}
    <2>1. SUFFICES ASSUME \A n \in 1..m : C(n) \in used PROVE FALSE
      OBVIOUS
    <2> DEFINE f == [n \in 1..m |-> C(n)]
    <2>2. f \in [1..m -> used]
      BY <2>1
    <2>3. IsFiniteSet(1..m) /\ Cardinality(1..m) = m
      BY <1>1, FS_Interval
    <2>4. Cardinality(used) < Cardinality(1..m)
      BY <1>1, <2>3
    <2>5. \A k, n \in 1..m : f[k] = f[n] => k = n
      BY <1>2
    <2> HIDE DEF f
    <2>6. \E k, n \in 1..m : k # n /\ f[k] = f[n]
      BY <2>2, <2>3, <2>4, FS_PigeonHole
    <2> QED BY <2>5, <2>6
  <1>4. \E n \in free : \A k \in free : n <= k
    <2>1. free \in SUBSET Nat
      BY <1>1
    <2> HIDE DEF free
    <2> QED BY <1>3, <2>1, SmallestExists
  <1>5. Min(free) \in free
    <2> HIDE DEF free
    <2> QED BY <1>4 DEF Min
  <1>6. Disambiguated(used, base, role, seed) = C(Min(free))
    BY DEF Disambiguated
  <1>7. Min(free) \in Nat
    BY <1>1, <1>5
  <1> QED BY <1>2, <1>5, <1>6, <1>7

-----------------------------------------------------------------------------
(* One scope.                                                              *)

\* What a request has to be like.
Request(a) == a.hint \in Ident /\ a.seed \in DOMAIN Suffix /\ a.rank \in Seq(Nat) /\ a.listed \in Seq(Nat)

\* alloc gives a name that is free.
LEMMA AllocIsFree ==
  ASSUME NumeralsAreWords, NEW used, IsFiniteSet(used), NEW ask, Request(ask), NEW role
  PROVE  Alloc(used, ask, role) \in Ident \ used
  <1>1. Base(ask, role) \in Ident
    BY EscapeType DEF Base, Request
  <1>2. Disambiguated(used, Base(ask, role), role, ask.seed) \in Ident \ used
    BY <1>1, DisambiguatedIsFree DEF Request
  <1> QED BY <1>1, <1>2 DEF Alloc

\* In snake case it gives what is asked for, or more words than one.
LEMMA AllocSpells ==
  ASSUME NumeralsAreWords, NEW used, IsFiniteSet(used), NEW ask, Request(ask)
  PROVE  LET name == Alloc(used, ask, "snake")
         IN  name = Base(ask, "snake") \/ Len(name) > 1
  <1> DEFINE base == Base(ask, "snake")
  <1>1. base \in Ident /\ base # <<>>
    <2>1. base \in Ident
      BY EscapeType DEF Base, Request
    <2>2. base # <<>>
      BY DEF Base, Escape
    <2> QED BY <2>1, <2>2
  <1> HIDE DEF base
  <1>2. PICK n \in Nat : Disambiguated(used, base, "snake", ask.seed) = Candidate(base, "snake", ask.seed, n)
    BY <1>1, DisambiguatedIsFree DEF Request
  <1>3. Suffix[ask.seed] \in Words /\ Numeral(n) \in Words
    BY SuffixesAreWords DEF Request, NumeralsAreWords
  <1> DEFINE first == base \o <<Suffix[ask.seed]>>
  <1>4. first \in Ident /\ Len(first) = Len(base) + 1 /\ Len(base) \in Nat \ {0}
    BY <1>1, <1>3 DEF Ident
  <1>5. Candidate(base, "snake", ask.seed, n) = Escape(first \o (IF n = 1 THEN <<>> ELSE <<Numeral(n)>>), "snake")
    BY DEF Candidate
  <1> HIDE DEF first
  <1> DEFINE hint == first \o (IF n = 1 THEN <<>> ELSE <<Numeral(n)>>)
  <1>6. hint \in Ident /\ Len(hint) >= Len(first)
    BY <1>3, <1>4 DEF Ident
  <1>7. hint # <<>>
    BY <1>4, <1>6 DEF Ident
  <1> HIDE DEF hint
  <1>8. Escape(hint, "snake") = hint
    BY <1>7 DEF Escape
  <1>9. Len(Disambiguated(used, base, "snake", ask.seed)) > 1
    BY <1>2, <1>4, <1>5, <1>6, <1>8 DEF hint
  <1> QED BY <1>9 DEF Alloc, base

\* f[s] is what is taken when the first s are served.
IsTaken(f, used, order, role, kept, n) ==
  f = [s \in 0..n |->
         IF s = 0 THEN used
         ELSE LET before == f[s - 1]
              IN  IF s \in kept THEN before ELSE before \union {Alloc(before, order[s], role)}]

\* The function Taken chooses is what its recursion says.
LEMMA TakenExists ==
  ASSUME NEW used, NEW order, NEW role, NEW kept, NEW m \in Nat
  PROVE  \E f : IsTaken(f, used, order, role, kept, m)
  <1> DEFINE Then(b, s) == IF s \in kept THEN b ELSE b \union {Alloc(b, order[s], role)}
             S == {n \in Nat : \E f : f = [s \in 0..n |-> IF s = 0 THEN used ELSE Then(f[s - 1], s)]}
  <1>1. 0 \in S
    <2> DEFINE f == [s \in 0..0 |-> used]
    <2>1. f = [s \in 0..0 |-> IF s = 0 THEN used ELSE Then(f[s - 1], s)]
      OBVIOUS
    <2> HIDE DEF f, Then
    <2> QED BY <2>1
  <1>2. ASSUME NEW n \in S PROVE n + 1 \in S
    <2> HIDE DEF Then
    <2>1. PICK f : f = [s \in 0..n |-> IF s = 0 THEN used ELSE Then(f[s - 1], s)]
      OBVIOUS
    <2> DEFINE g == [s \in 0..n + 1 |-> IF s \in 0..n THEN f[s] ELSE Then(f[s - 1], s)]
    <2>2. ASSUME NEW s \in 0..n + 1 PROVE g[s] = IF s = 0 THEN used ELSE Then(g[s - 1], s)
      <3>1. CASE s \in 0..n
        <4>1. f[s] = IF s = 0 THEN used ELSE Then(f[s - 1], s)
          BY <2>1, <3>1
        <4>2. s # 0 => g[s - 1] = f[s - 1]
          BY <3>1
        <4> QED BY <4>1, <4>2, <3>1
      <3>2. CASE s = n + 1
        <4>1. g[s - 1] = f[s - 1] /\ s # 0 /\ g[s] = Then(f[s - 1], s)
          BY <3>2
        <4> QED BY <4>1
      <3> QED BY <3>1, <3>2
    <2> DEFINE h == [s \in 0..n + 1 |-> IF s = 0 THEN used ELSE Then(g[s - 1], s)]
    <2>3. g = h
      BY <2>2
    <2> HIDE DEF g
    <2> QED BY <2>3
  <1>3. S = Nat
    <2>1. S \in SUBSET Nat
      OBVIOUS
    <2> HIDE DEF S
    <2> QED BY <1>1, <1>2, <2>1, SetInduction
  <1>4. \E f : f = [s \in 0..m |-> IF s = 0 THEN used ELSE Then(f[s - 1], s)]
    BY <1>3 DEF S
  <1> QED BY <1>4 DEF IsTaken

\* taken is what serving the requests in turn leaves.
Follows(taken, used, order, role, kept) ==
  /\ taken[0] = used
  /\ \A s \in 1..Len(order) :
        taken[s] = IF s \in kept THEN taken[s - 1]
                   ELSE taken[s - 1] \union {Alloc(taken[s - 1], order[s], role)}

\* Taken follows the requests.
LEMMA TakenIs ==
  ASSUME NEW used, NEW order, Len(order) \in Nat, NEW role, NEW kept
  PROVE  Follows(Taken(used, order, role, kept), used, order, role, kept)
  <1> DEFINE taken == Taken(used, order, role, kept)
             n == Len(order)
  <1>1. \E f : IsTaken(f, used, order, role, kept, n)
    BY TakenExists
  <1>2. taken = CHOOSE f : f = [s \in 0..n |->
                  IF s = 0 THEN used
                  ELSE LET before == f[s - 1]
                       IN  IF s \in kept THEN before ELSE before \union {Alloc(before, order[s], role)}]
    BY Zenon DEF Taken
  <1>3. IsTaken(taken, used, order, role, kept, n)
    <2> HIDE DEF taken
    <2> QED BY <1>1, <1>2, Zenon DEF IsTaken
  <1> HIDE DEF taken
  <1>4. \A s \in 0..n : taken[s] = IF s = 0 THEN used
                        ELSE IF s \in kept THEN taken[s - 1]
                             ELSE taken[s - 1] \union {Alloc(taken[s - 1], order[s], role)}
    BY <1>3, Zenon DEF IsTaken
  <1>5. taken[0] = used
    <2>1. 0 \in 0..n
      OBVIOUS
    <2> QED BY <1>4, <2>1, Zenon
  <1>6. \A s \in 1..n : taken[s] = IF s \in kept THEN taken[s - 1]
                                   ELSE taken[s - 1] \union {Alloc(taken[s - 1], order[s], role)}
    <2> TAKE s \in 1..n
    <2>1. s \in 0..n /\ s # 0
      OBVIOUS
    <2> QED BY <1>4, <2>1, Zenon
  <1>7. Follows(taken, used, order, role, kept)
    BY <1>5, <1>6 DEF Follows
  <1> QED BY <1>7 DEF taken

\* The names requests are given, in the order they are served in.
GivenNames(used, order, role, kept) ==
  [s \in DOMAIN order |-> IF s \in kept THEN Base(order[s], role)
                          ELSE Alloc(Taken(used, order, role, kept)[s - 1], order[s], role)]

\* Who keeps a spelling keeps one of its own, which is taken beforehand.
Kept(used, order, role, kept) ==
  /\ kept \subseteq 1..Len(order)
  /\ \A s \in kept : Base(order[s], role) \in used
  /\ \A s, t \in kept : Base(order[s], role) = Base(order[t], role) => s = t

\* What is taken is what was, and the names given up to there.
LEMMA TakenIsGiven ==
  ASSUME NumeralsAreWords, NEW asks, \A a \in asks : Request(a), NEW order \in Seq(asks),
         NEW used, IsFiniteSet(used), NEW role, NEW kept
  PROVE  LET taken == Taken(used, order, role, kept)
             names == GivenNames(used, order, role, kept)
         IN  \A s \in 0..Len(order) :
                /\ IsFiniteSet(taken[s])
                /\ taken[s] = used \union {names[t] : t \in (1..s) \ kept}
  <1> DEFINE taken == Taken(used, order, role, kept)
             names == GivenNames(used, order, role, kept)
             Right(s) == /\ IsFiniteSet(taken[s])
                         /\ taken[s] = used \union {names[t] : t \in (1..s) \ kept}
             S == {s \in Nat : s <= Len(order) => Right(s)}
  <1>0. Len(order) \in Nat /\ DOMAIN order = 1..Len(order)
    OBVIOUS
  <1>1. /\ taken[0] = used
        /\ \A s \in 1..Len(order) :
              taken[s] = IF s \in kept THEN taken[s - 1]
                         ELSE taken[s - 1] \union {Alloc(taken[s - 1], order[s], role)}
    <2>1. Len(order) \in Nat
      OBVIOUS
    <2>2. Follows(taken, used, order, role, kept)
      BY <2>1, TakenIs
    <2> HIDE DEF taken
    <2> QED BY <2>2 DEF Follows
  <1>2. \A s \in 1..Len(order) : names[s] = IF s \in kept THEN Base(order[s], role)
                                            ELSE Alloc(taken[s - 1], order[s], role)
    BY <1>0 DEF GivenNames
  <1> HIDE DEF taken, names
  <1>3. 0 \in S
    BY <1>1
  <1>4. ASSUME NEW n \in S PROVE n + 1 \in S
    <2>1. SUFFICES ASSUME n + 1 <= Len(order) PROVE Right(n + 1)
      OBVIOUS
    <2>2. Right(n) /\ n + 1 \in 1..Len(order) /\ (n + 1) - 1 = n
      BY <1>0, <2>1
    <2>3. CASE n + 1 \in kept
      <3>1. taken[n + 1] = taken[n]
        BY <1>1, <2>2, <2>3
      <3>2. (1..n + 1) \ kept = (1..n) \ kept
        BY <2>3
      <3> QED BY <2>2, <3>1, <3>2
    <2>4. CASE n + 1 \notin kept
      <3>1. taken[n + 1] = taken[n] \union {names[n + 1]}
        BY <1>1, <1>2, <2>2, <2>4
      <3>2. (1..n + 1) \ kept = ((1..n) \ kept) \union {n + 1}
        BY <2>4
      <3>3. IsFiniteSet(taken[n + 1])
        <4>1. IsFiniteSet(taken[n] \union {names[n + 1]})
          BY <2>2, FS_AddElement
        <4> QED BY <3>1, <4>1
      <3> QED BY <2>2, <3>1, <3>2, <3>3
    <2> QED BY <2>3, <2>4
  <1>5. S = Nat
    <2>1. S \in SUBSET Nat
      OBVIOUS
    <2> HIDE DEF S
    <2> QED BY <1>3, <1>4, <2>1, SetInduction
  <1>6. \A s \in 0..Len(order) : Right(s)
    BY <1>0, <1>5
  <1> QED BY <1>6 DEF taken, names

\* No two are given the same name, and none one that was taken, but for who keeps it.
OwnNames(names, used, order, role, kept) ==
  /\ \A s \in 1..Len(order) : names[s] \in Ident
  /\ \A s \in (1..Len(order)) \ kept : names[s] \notin used
  /\ \A s \in kept : names[s] = Base(order[s], role)
  /\ \A s, t \in 1..Len(order) : names[s] = names[t] => s = t

\* Requests served in turn have different names, none used before.
LEMMA GivenNamesDiffer ==
  ASSUME NumeralsAreWords, NEW asks, \A a \in asks : Request(a), NEW order \in Seq(asks),
         NEW used, IsFiniteSet(used), NEW role, NEW kept, Kept(used, order, role, kept)
  PROVE  OwnNames(GivenNames(used, order, role, kept), used, order, role, kept)
  <1> DEFINE taken == Taken(used, order, role, kept)
             names == GivenNames(used, order, role, kept)
  <1>0. Len(order) \in Nat /\ DOMAIN order = 1..Len(order)
    OBVIOUS
  <1>1. \A s \in 1..Len(order) : names[s] = IF s \in kept THEN Base(order[s], role)
                                            ELSE Alloc(taken[s - 1], order[s], role)
    BY <1>0 DEF GivenNames
  <1>2. \A s \in 0..Len(order) :
            /\ IsFiniteSet(taken[s])
            /\ taken[s] = used \union {names[t] : t \in (1..s) \ kept}
    BY TakenIsGiven
  <1> HIDE DEF taken, names
  <1>3. ASSUME NEW s \in (1..Len(order)) \ kept
        PROVE  /\ names[s] \in Ident /\ names[s] \notin used
               /\ \A t \in (1..(s - 1)) \ kept : names[s] # names[t]
    <2>1. s - 1 \in 0..Len(order) /\ order[s] \in asks
      BY <1>0
    <2>2. Alloc(taken[s - 1], order[s], role) \in Ident \ taken[s - 1]
      BY <1>2, <2>1, AllocIsFree
    <2> QED BY <1>1, <1>2, <2>1, <2>2
  <1>4. ASSUME NEW s \in kept PROVE names[s] = Base(order[s], role) /\ names[s] \in Ident /\ names[s] \in used
    <2>1. s \in 1..Len(order) /\ order[s] \in asks
      BY <1>0 DEF Kept
    <2>2. Base(order[s], role) \in Ident
      BY <2>1, EscapeType DEF Base, Request
    <2> QED BY <1>1, <2>1, <2>2 DEF Kept
  <1>5. ASSUME NEW s \in 1..Len(order), NEW t \in 1..Len(order), s < t, names[s] = names[t]
        PROVE  FALSE
    <2>1. CASE s \notin kept /\ t \notin kept
      <3>1. s \in (1..(t - 1)) \ kept
        BY <1>5, <2>1
      <3> QED BY <1>3, <1>5, <2>1, <3>1
    <2>2. CASE s \in kept /\ t \in kept
      <3>1. s = t
        BY <1>4, <1>5, <2>2 DEF Kept
      <3> QED BY <1>5, <3>1
    <2>3. CASE (s \in kept) # (t \in kept)
      BY <1>3, <1>4, <1>5, <2>3
    <2> QED BY <2>1, <2>2, <2>3
  <1>6. \A s, t \in 1..Len(order) : names[s] = names[t] => s = t
    <2> TAKE s, t \in 1..Len(order)
    <2>1. s < t \/ t < s \/ s = t
      BY <1>0
    <2> QED BY <1>5, <2>1
  <1>7. kept \subseteq 1..Len(order)
    BY DEF Kept
  <1>8. \A s \in 1..Len(order) : names[s] \in Ident
    BY <1>3, <1>4
  <1>9. OwnNames(names, used, order, role, kept)
    BY <1>3, <1>4, <1>6, <1>8 DEF OwnNames
  <1> QED BY <1>9 DEF names

-----------------------------------------------------------------------------
(* Batches.                                                                *)

\* done is what serving an order comes to.
ServedAs(done, used, order, role, kept) ==
  /\ done.used = used \union {GivenNames(used, order, role, kept)[s] : s \in 1..Len(order)}
  /\ DOMAIN done.given = {order[s].key : s \in 1..Len(order)}
  /\ \A k \in DOMAIN done.given : \E s \in 1..Len(order) :
        /\ order[s].key = k
        /\ done.given[k] = Grant(GivenNames(used, order, role, kept)[s], Base(order[s], role), order[s].rank)

\* Served is what it should be.
LEMMA ServedIs ==
  ASSUME NEW used, NEW asks, NEW order \in Seq(asks), NEW role, NEW kept
  PROVE  ServedAs(Served(used, order, role, kept), used, order, role, kept)
  <1> DEFINE names == GivenNames(used, order, role, kept)
             Where(k) == CHOOSE i \in DOMAIN order : order[i].key = k
             grants == [k \in {order[s].key : s \in DOMAIN order} |->
                         Grant(names[Where(k)], Base(order[Where(k)], role), order[Where(k)].rank)]
             done == [used |-> used \union ToSet(names), given |-> grants]
  <1>1. Served(used, order, role, kept) = done
    BY Zenon DEF Served, GivenNames
  <1>2. DOMAIN order = 1..Len(order) /\ DOMAIN names = 1..Len(order)
    BY DEF GivenNames
  <1>3. ToSet(names) = {names[s] : s \in 1..Len(order)}
    BY <1>2 DEF ToSet
  <1>4. \A k \in {order[s].key : s \in 1..Len(order)} : Where(k) \in 1..Len(order) /\ order[Where(k)].key = k
    <2> TAKE k \in {order[s].key : s \in 1..Len(order)}
    <2>1. \E i \in DOMAIN order : order[i].key = k
      BY <1>2
    <2>2. Where(k) \in DOMAIN order /\ order[Where(k)].key = k
      BY <2>1
    <2> QED BY <1>2, <2>2
  <1> HIDE DEF Where, names
  <1>5. DOMAIN grants = {order[s].key : s \in 1..Len(order)}
    BY <1>2
  <1>6. \A k \in DOMAIN grants : \E s \in 1..Len(order) :
          /\ order[s].key = k
          /\ grants[k] = Grant(names[s], Base(order[s], role), order[s].rank)
    BY <1>4, <1>5
  <1>7. done.used = used \union {names[s] : s \in 1..Len(order)} /\ done.given = grants
    BY <1>3
  <1> HIDE DEF grants, done
  <1>8. ServedAs(done, used, order, role, kept)
    BY <1>5, <1>6, <1>7 DEF ServedAs, names
  <1> QED BY <1>1, <1>8

\* Requests that can be served together.
Requests(asks) ==
  /\ IsFiniteSet(asks)
  /\ \A a \in asks : Request(a)
  /\ \A a, b \in asks : a.listed = b.listed => a = b

\* What a batch should come to: everyone has a name of its own that was free.
Gives(used, asks, done) ==
  /\ DOMAIN done.given = {a.key : a \in asks}
  /\ IsFiniteSet(done.used) /\ used \subseteq done.used
  /\ \A k \in DOMAIN done.given : /\ done.given[k].name \in Ident \ used
                                  /\ done.given[k].name \in done.used
  /\ \A k, l \in DOMAIN done.given : done.given[k].name = done.given[l].name => k = l

\* The values of a function on a finite set are finitely many.
LEMMA ImageFinite ==
  ASSUME NEW S, IsFiniteSet(S), NEW f
  PROVE  IsFiniteSet({f[x] : x \in S})
  <1> DEFINE T == {f[x] : x \in S}
             g == [x \in S |-> f[x]]
  <1>1. g \in Surjection(S, T)
    BY DEF Surjection
  <1> HIDE DEF g, T
  <1>2. IsFiniteSet(T)
    BY <1>1, FS_Surjection
  <1> QED BY <1>2 DEF T

\* Serving requests gives each a name of its own that was free.
LEMMA ServedGives ==
  ASSUME NumeralsAreWords, NEW asks, Requests(asks), NEW order \in Seq(asks),
         \A a \in asks : \E s \in 1..Len(order) : order[s] = a,
         NEW role, NEW used, IsFiniteSet(used), NEW taken, IsFiniteSet(taken), used \subseteq taken,
         NEW kept, Kept(taken, order, role, kept),
         \A s \in kept : Base(order[s], role) \notin used
  PROVE  Gives(used, asks, Served(taken, order, role, kept))
  <1> DEFINE names == GivenNames(taken, order, role, kept)
             done == Served(taken, order, role, kept)
             N == 1..Len(order)
  <1>1. /\ \A s \in N : names[s] \in Ident
        /\ \A s \in N \ kept : names[s] \notin taken
        /\ \A s \in kept : names[s] = Base(order[s], role)
        /\ \A s, t \in N : names[s] = names[t] => s = t
    <2>1. OwnNames(names, taken, order, role, kept)
      BY GivenNamesDiffer DEF Requests
    <2> HIDE DEF names
    <2> QED BY <2>1 DEF OwnNames
  <1>2. ServedAs(done, taken, order, role, kept)
    BY ServedIs
  <1> HIDE DEF done
  <1>3. /\ done.used = taken \union {names[s] : s \in N}
        /\ DOMAIN done.given = {order[s].key : s \in N}
        /\ \A k \in DOMAIN done.given : \E s \in N :
              /\ order[s].key = k
              /\ done.given[k] = Grant(names[s], Base(order[s], role), order[s].rank)
    BY <1>2 DEF ServedAs
  <1> HIDE DEF names
  <1>4. IsFiniteSet(N)
    BY FS_Interval
  <1>5. \A s \in N : order[s] \in asks
    OBVIOUS
  <1> HIDE DEF N
  <1>6. DOMAIN done.given = {a.key : a \in asks}
    <2>1. \A a \in asks : \E s \in N : order[s] = a
      BY DEF N
    <2> QED BY <1>3, <1>5, <2>1
  <1>7. IsFiniteSet(done.used)
    <2>1. IsFiniteSet({names[s] : s \in N})
      BY <1>4, ImageFinite
    <2>2. IsFiniteSet(taken \union {names[s] : s \in N})
      BY <2>1, FS_Union
    <2> QED BY <1>3, <2>2
  <1>8. \A s \in N : names[s] \notin used
    <2> TAKE s \in N
    <2>1. CASE s \in kept
      BY <1>1, <2>1
    <2>2. CASE s \notin kept
      BY <1>1, <2>2
    <2> QED BY <2>1, <2>2
  <1>9. \A k \in DOMAIN done.given : \E s \in N : order[s].key = k /\ done.given[k].name = names[s]
    <2> TAKE k \in DOMAIN done.given
    <2>1. PICK s \in N : /\ order[s].key = k
                         /\ done.given[k] = Grant(names[s], Base(order[s], role), order[s].rank)
      BY <1>3
    <2>2. done.given[k].name = names[s]
      BY <2>1 DEF Grant
    <2> QED BY <2>1, <2>2
  <1>10. \A k \in DOMAIN done.given : done.given[k].name \in Ident \ used /\ done.given[k].name \in done.used
    BY <1>1, <1>3, <1>8, <1>9
  <1>11. \A k, l \in DOMAIN done.given : done.given[k].name = done.given[l].name => k = l
    BY <1>1, <1>9
  <1> QED BY <1>3, <1>6, <1>7, <1>10, <1>11 DEF Gives, done

-----------------------------------------------------------------------------
\* Requests served as they are listed.
LEMMA AllocEachGives ==
  ASSUME NumeralsAreWords, NEW used, IsFiniteSet(used), NEW asks, Requests(asks), NEW role
  PROVE  Gives(used, asks, AllocEach(used, asks, role))
  <1> DEFINE place == [a \in asks |-> <<a.listed>>]
             order == InOrder(asks, place)
  <1>1. Placed(asks, place, 1)
    <2>1. \A a \in asks : <<a.listed>> \in Tuples(1)
      BY DEF Tuples, Requests, Request
    <2>2. \A a, b \in asks : <<a.listed>> = <<b.listed>> => a = b
      BY DEF Requests
    <2> QED BY <2>1, <2>2 DEF Placed
  <1>2. AllocEach(used, asks, role) = Served(used, order, role, {})
    BY DEF AllocEach
  <1> HIDE DEF place
  <1>3. Line(asks, place, order)
    BY <1>1, InOrderIs DEF Requests
  <1> HIDE DEF order
  <1>4. Kept(used, order, role, {})
    BY DEF Kept
  <1>5. order \in Seq(asks) /\ \A a \in asks : \E s \in 1..Len(order) : order[s] = a
    BY <1>3 DEF Line
  <1>6. Gives(used, asks, Served(used, order, role, {}))
    BY <1>4, <1>5, ServedGives
  <1> QED BY <1>2, <1>6

-----------------------------------------------------------------------------
\* Spelling out loses nothing.
LEMMA SpelledDiffer ==
  ASSUME NEW n \in Ident, NEW m \in Ident
  PROVE  Spelled(n) \in Seq(Nat) /\ (Spelled(n) = Spelled(m) => n = m)
  <1>1. /\ DOMAIN n = 1..Len(n) /\ Len(n) \in Nat /\ \A i \in 1..Len(n) : n[i] \in Words
        /\ DOMAIN m = 1..Len(m) /\ Len(m) \in Nat /\ \A i \in 1..Len(m) : m[i] \in Words
    BY DEF Ident
  <1>2. \A v, w \in Words : Place[v] \in Nat /\ (Place[v] = Place[w] => v = w)
    BY PlacesDiffer DEF IsInjective, Words
  <1>3. Spelled(n) \in [1..Len(n) -> Nat]
    BY <1>1, <1>2 DEF Spelled
  <1>4. Spelled(n) \in Seq(Nat)
    BY <1>1, <1>3
  <1>5. ASSUME Spelled(n) = Spelled(m) PROVE n = m
    <2>1. DOMAIN Spelled(n) = 1..Len(n) /\ DOMAIN Spelled(m) = 1..Len(m)
      BY <1>1 DEF Spelled
    <2>2. Len(n) = Len(m)
      <3>1. Len(Spelled(n)) = Len(n) /\ Len(Spelled(m)) = Len(m)
        <4>1. Spelled(m) \in Seq(Nat)
          <5>1. Spelled(m) \in [1..Len(m) -> Nat]
            BY <1>1, <1>2 DEF Spelled
          <5> QED BY <1>1, <5>1
        <4> QED BY <1>1, <1>4, <2>1, <4>1
      <3> QED BY <1>5, <3>1
    <2>3. \A i \in 1..Len(n) : Spelled(n)[i] = Place[n[i]] /\ Spelled(m)[i] = Place[m[i]]
      BY <1>1, <2>2 DEF Spelled
    <2>4. \A i \in 1..Len(n) : n[i] = m[i]
      BY <1>1, <1>2, <1>5, <2>2, <2>3
    <2> QED BY <2>2, <2>4, SeqEqual DEF Ident
  <1> QED BY <1>4, <1>5

\* Where requests stand in a ranked batch.
RankedPlace(asks, role) == [a \in asks |-> <<Spelled(Base(a, role)), a.rank, a.listed>>]

\* Sorted lists the requests, each once, equal spellings side by side.
LEMMA SortedIs ==
  ASSUME NEW asks, Requests(asks), NEW role
  PROVE  /\ Line(asks, RankedPlace(asks, role), Sorted(asks, role))
         /\ Placed(asks, RankedPlace(asks, role), 3)
         /\ Len(Sorted(asks, role)) = Cardinality(asks) /\ Cardinality(asks) \in Nat
  <1>1. \A a \in asks : Base(a, role) \in Ident
    BY EscapeType DEF Requests, Request, Base
  <1>2. Placed(asks, RankedPlace(asks, role), 3)
    <2>1. \A a \in asks : <<Spelled(Base(a, role)), a.rank, a.listed>> \in Tuples(3)
      BY <1>1, SpelledDiffer DEF Tuples, Requests, Request
    <2>2. \A a, b \in asks : <<Spelled(Base(a, role)), a.rank, a.listed>>
                               = <<Spelled(Base(b, role)), b.rank, b.listed>> => a = b
      BY DEF Requests
    <2> QED BY <2>1, <2>2 DEF Placed, RankedPlace
  <1>3. Sorted(asks, role) = InOrder(asks, RankedPlace(asks, role))
    BY DEF Sorted, RankedPlace
  <1> QED BY <1>2, <1>3, InOrderIs DEF Requests

\* Who takes a spelling in the first pass takes one of its own, that is free.
LEMMA WinnersDiffer ==
  ASSUME NEW used, NEW asks, Requests(asks), NEW role
  PROVE  LET order == Sorted(asks, role)
             winners == Winners(used, order, role)
         IN  /\ winners \subseteq 1..Len(order)
             /\ \A s \in winners : Base(order[s], role) \notin used
             /\ \A s, t \in winners : Base(order[s], role) = Base(order[t], role) => s = t
  <1> DEFINE place == RankedPlace(asks, role)
             order == Sorted(asks, role)
             winners == Winners(used, order, role)
  <1>1. Line(asks, place, order) /\ Placed(asks, place, 3)
    BY SortedIs
  <1>2. \A a \in asks : Base(a, role) \in Ident
    BY EscapeType DEF Requests, Request, Base
  <1>3. \A a \in asks : place[a][1] = Spelled(Base(a, role))
    BY DEF RankedPlace
  <1> HIDE DEF place, order
  <1>4. DOMAIN order = 1..Len(order) /\ Len(order) \in Nat /\ \A s \in 1..Len(order) : order[s] \in asks
    BY <1>1 DEF Line
  <1>5. winners \subseteq 1..Len(order) /\ \A s \in winners : Base(order[s], role) \notin used
    BY <1>4 DEF Winners
  <1>6. ASSUME NEW s \in 1..Len(order), NEW t \in 1..Len(order), s < t
        PROVE  \/ Base(order[s], role) = Base(order[t], role)
               \/ Precedes(Spelled(Base(order[s], role)), Spelled(Base(order[t], role)))
    <2>1. Sooner(place[order[s]], place[order[t]])
      BY <1>1, <1>6 DEF Line
    <2>2. place[order[s]] \in Tuples(3) /\ place[order[t]] \in Tuples(3)
      BY <1>1, <1>4 DEF Placed
    <2>3. place[order[s]][1] = place[order[t]][1] \/ Precedes(place[order[s]][1], place[order[t]][1])
      BY <2>1, <2>2, SoonerInFirst
    <2> QED BY <1>2, <1>3, <1>4, <2>3, SpelledDiffer
  <1>7. ASSUME NEW s \in winners, NEW t \in winners, s < t,
               Base(order[s], role) = Base(order[t], role)
        PROVE  FALSE
    <2>1. s \in 1..Len(order) /\ t \in 1..Len(order) /\ t - 1 \in 1..Len(order) /\ t # 1
      BY <1>4, <1>5, <1>7
    <2>2. Base(order[t - 1], role) # Base(order[t], role)
      BY <2>1 DEF Winners
    <2> DEFINE x == Spelled(Base(order[s], role))
               y == Spelled(Base(order[t - 1], role))
    <2>3. x \in Seq(Nat) /\ y \in Seq(Nat)
      BY <1>2, <1>4, <2>1, SpelledDiffer
    <2>4. Precedes(y, x)
      <3>1. t - 1 < t
        BY <2>1
      <3>2. Precedes(y, Spelled(Base(order[t], role)))
        BY <1>6, <2>1, <2>2, <3>1
      <3> QED BY <1>7, <3>2
    <2>5. s < t - 1
      <3>1. s # t - 1
        BY <1>7, <2>2
      <3> QED BY <1>7, <2>1, <3>1
    <2>6. Precedes(x, y)
      BY <1>6, <1>7, <2>1, <2>2, <2>5
    <2> HIDE DEF x, y
    <2> QED BY <2>3, <2>4, <2>6, PrecedesIsTransitive, PrecedesIsStrict
  <1>8. \A s, t \in winners : Base(order[s], role) = Base(order[t], role) => s = t
    <2> TAKE s, t \in winners
    <2>1. s < t \/ t < s \/ s = t
      BY <1>4, <1>5
    <2> QED BY <1>7, <2>1
  <1> QED BY <1>5, <1>8 DEF order

\* A ranked batch.
LEMMA AllocRankedGives ==
  ASSUME NumeralsAreWords, NEW used, IsFiniteSet(used), NEW asks, Requests(asks), NEW role
  PROVE  Gives(used, asks, AllocRanked(used, asks, role))
  <1> DEFINE order == Sorted(asks, role)
             winners == Winners(used, order, role)
             taken == used \union {Base(order[s], role) : s \in winners}
  <1>1. AllocRanked(used, asks, role) = Served(taken, order, role, winners)
    BY DEF AllocRanked
  <1>2. Line(asks, RankedPlace(asks, role), order)
    BY SortedIs
  <1>3. /\ winners \subseteq 1..Len(order)
        /\ \A s \in winners : Base(order[s], role) \notin used
        /\ \A s, t \in winners : Base(order[s], role) = Base(order[t], role) => s = t
    BY WinnersDiffer
  <1> HIDE DEF order, winners
  <1>4. order \in Seq(asks) /\ \A a \in asks : \E s \in 1..Len(order) : order[s] = a
    BY <1>2 DEF Line
  <1>5. IsFiniteSet(taken)
    <2> DEFINE f == [s \in winners |-> Base(order[s], role)]
    <2>1. {Base(order[s], role) : s \in winners} = {f[s] : s \in winners}
      OBVIOUS
    <2>2. IsFiniteSet(winners)
      <3>1. IsFiniteSet(1..Len(order))
        BY <1>4, FS_Interval
      <3> QED BY <1>3, <3>1, FS_Subset
    <2> HIDE DEF f
    <2>3. IsFiniteSet({f[s] : s \in winners})
      BY <2>2, ImageFinite
    <2> QED BY <2>1, <2>3, FS_Union
  <1>6. Kept(taken, order, role, winners)
    BY <1>3 DEF Kept
  <1>7. used \subseteq taken
    OBVIOUS
  <1> HIDE DEF taken
  <1>8. Gives(used, asks, Served(taken, order, role, winners))
    BY <1>3, <1>4, <1>5, <1>6, <1>7, ServedGives
  <1> QED BY <1>1, <1>8

-----------------------------------------------------------------------------
(* Families.                                                               *)

\* The names f gives are in one scope, differ, were free and are taken now.
NamedIn(f, used, taken, scope, families) ==
  /\ \A k \in DOMAIN f : /\ k.scope = scope /\ k.family \in families
                         /\ f[k].name \in Ident /\ f[k].name \notin used /\ f[k].name \in taken
  /\ \A k, l \in DOMAIN f : f[k].name = f[l].name => k = l

\* A family that is named over the names used.
Family(done, used, scope, families) ==
  /\ IsFiniteSet(done.used) /\ used \subseteq done.used
  /\ NamedIn(done.given, used, done.used, scope, families)

\* What is given to requests of one scope and family is named.
LEMMA GivesFamily ==
  ASSUME NEW used, NEW asks, NEW done, Gives(used, asks, done), NEW scope, NEW families,
         \A a \in asks : a.key.scope = scope /\ a.key.family \in families
  PROVE  Family(done, used, scope, families)
  <1>1. \A k \in DOMAIN done.given : k.scope = scope /\ k.family \in families
    BY DEF Gives
  <1> QED BY <1>1 DEF Gives, Family, NamedIn

\* asks are a request for every element of D, each in scope and family.
AsksFor(asks, D, f, scope, family) ==
  /\ asks = {f[i] : i \in D}
  /\ \A i \in D : /\ Request(f[i]) /\ f[i].listed = <<i>>
                  /\ f[i].key.scope = scope /\ f[i].key.family = family

\* a is request i of scope and family.
Asking(a, i, scope, family) ==
  Request(a) /\ a.listed = <<i>> /\ a.key.scope = scope /\ a.key.family = family

\* An Ask asks.
LEMMA AskIs ==
  ASSUME NEW scope, NEW family, NEW item, NEW hint \in Ident, NEW seed, seed \in DOMAIN Suffix,
         NEW rank \in Seq(Nat), NEW i \in Nat
  PROVE  Asking(Ask(Key(scope, family, item), hint, seed, rank, <<i>>), i, scope, family)
  BY DEF Asking, Ask, Key, Request

\* Such requests can be served together.
LEMMA AskedRequests ==
  ASSUME NEW asks, NEW D, IsFiniteSet(D), NEW f, NEW scope, NEW family,
         AsksFor(asks, D, f, scope, family)
  PROVE  Requests(asks) /\ \A a \in asks : a.key.scope = scope /\ a.key.family \in {family}
  <1>1. asks = {f[i] : i \in D} /\ \A i \in D : Request(f[i]) /\ f[i].listed = <<i>>
    BY DEF AsksFor
  <1>2. IsFiniteSet(asks)
    BY <1>1, ImageFinite
  <1>3. \A i, j \in D : <<i>> = <<j>> => f[i] = f[j]
    OBVIOUS
  <1>4. \A a, b \in asks : a.listed = b.listed => a = b
    BY <1>1, <1>3
  <1> QED BY <1>1, <1>2, <1>4 DEF Requests, AsksFor

\* A list has finitely many places.
LEMMA ListIsFinite ==
  ASSUME NEW list, IsList(list)
  PROVE  /\ IsFiniteSet(DOMAIN list)
         /\ \A i \in DOMAIN list : i \in Nat \ {0}
         /\ \A i \in DOMAIN list : list[i] \in ToSet(list)
         /\ \A x \in ToSet(list) : \E i \in DOMAIN list : x = list[i]
  <1>1. IsFiniteSet(1..Len(list))
    BY FS_Interval DEF IsList
  <1>2. IsFiniteSet(DOMAIN list) /\ \A i \in DOMAIN list : i \in Nat \ {0}
    BY <1>1 DEF IsList
  <1> QED BY <1>2 DEF ToSet

\* A row.
LEMMA RowIsFamily ==
  ASSUME NumeralsAreWords, NEW used, IsFiniteSet(used), NEW scope, NEW family,
         NEW items, IsFiniteSet(DOMAIN items), \A i \in DOMAIN items : i \in Nat,
         NEW hints, \A i \in DOMAIN items : hints[i] \in Ident,
         NEW role, NEW seed, seed \in DOMAIN Suffix
  PROVE  Family(Row(used, scope, family, items, hints, role, seed), used, scope, {family})
  <1> DEFINE f == [i \in DOMAIN items |-> Ask(Key(scope, family, items[i]), hints[i], seed, <<i>>, <<i>>)]
             asks == {Ask(Key(scope, family, items[i]), hints[i], seed, <<i>>, <<i>>) : i \in DOMAIN items}
  <1>1. \A i \in DOMAIN items : Asking(f[i], i, scope, family)
    <2> TAKE i \in DOMAIN items
    <2>1. <<i>> \in Seq(Nat)
      OBVIOUS
    <2> QED BY <2>1, AskIs
  <1>2. asks = {f[i] : i \in DOMAIN items}
    OBVIOUS
  <1>3. Row(used, scope, family, items, hints, role, seed) = AllocEach(used, asks, role)
    BY DEF Row
  <1> HIDE DEF f, asks
  <1>4. AsksFor(asks, DOMAIN items, f, scope, family)
    BY <1>1, <1>2 DEF AsksFor, Asking
  <1>5. Requests(asks) /\ \A a \in asks : a.key.scope = scope /\ a.key.family \in {family}
    BY <1>4, AskedRequests
  <1>6. Gives(used, asks, AllocEach(used, asks, role))
    BY <1>5, AllocEachGives
  <1> QED BY <1>3, <1>5, <1>6, GivesFamily

\* A row in snake case gives each item what it asks for, or more words than one.
LEMMA RowSpells ==
  ASSUME NumeralsAreWords, NEW used, IsFiniteSet(used), NEW scope, NEW family,
         NEW items, IsFiniteSet(DOMAIN items), \A i \in DOMAIN items : i \in Nat,
         NEW hints, \A i \in DOMAIN items : hints[i] \in Ident,
         NEW seed, seed \in DOMAIN Suffix
  PROVE  LET spelled == Row(used, scope, family, items, hints, "snake", seed).given
         IN  \A k \in DOMAIN spelled : spelled[k].name = spelled[k].base \/ Len(spelled[k].name) > 1
  <1> DEFINE f == [i \in DOMAIN items |-> Ask(Key(scope, family, items[i]), hints[i], seed, <<i>>, <<i>>)]
             asks == {Ask(Key(scope, family, items[i]), hints[i], seed, <<i>>, <<i>>) : i \in DOMAIN items}
             place == [a \in asks |-> <<a.listed>>]
             order == InOrder(asks, place)
             done == Served(used, order, "snake", {})
  <1>1. Row(used, scope, family, items, hints, "snake", seed) = done
    BY DEF Row, AllocEach
  <1>2. \A i \in DOMAIN items : Asking(f[i], i, scope, family)
    <2> TAKE i \in DOMAIN items
    <2>1. <<i>> \in Seq(Nat)
      OBVIOUS
    <2> QED BY <2>1, AskIs
  <1>3. asks = {f[i] : i \in DOMAIN items}
    OBVIOUS
  <1> HIDE DEF f, asks
  <1>4. Requests(asks)
    <2>1. AsksFor(asks, DOMAIN items, f, scope, family)
      BY <1>2, <1>3 DEF AsksFor, Asking
    <2> QED BY <2>1, AskedRequests
  <1>5. Placed(asks, place, 1)
    <2>1. \A a \in asks : <<a.listed>> \in Tuples(1)
      BY <1>4 DEF Tuples, Requests, Request
    <2>2. \A a, b \in asks : <<a.listed>> = <<b.listed>> => a = b
      BY <1>4 DEF Requests
    <2> QED BY <2>1, <2>2 DEF Placed
  <1> HIDE DEF place
  <1>6. order \in Seq(asks)
    BY <1>4, <1>5, InOrderIs DEF Requests, Line
  <1> HIDE DEF order
  <1> DEFINE taken == Taken(used, order, "snake", {})
  <1>7. \A s \in 0..Len(order) : IsFiniteSet(taken[s])
    BY <1>4, <1>6, TakenIsGiven DEF Requests
  <1>8. \A s \in 1..Len(order) :
           GivenNames(used, order, "snake", {})[s] = Alloc(taken[s - 1], order[s], "snake")
    BY <1>6 DEF GivenNames
  <1>9. ServedAs(done, used, order, "snake", {})
    BY <1>6, ServedIs
  <1> HIDE DEF taken, done
  <1>10. ASSUME NEW k \in DOMAIN done.given
         PROVE  done.given[k].name = done.given[k].base \/ Len(done.given[k].name) > 1
    <2>1. PICK s \in 1..Len(order) :
             done.given[k] = Grant(GivenNames(used, order, "snake", {})[s], Base(order[s], "snake"), order[s].rank)
      BY <1>9 DEF ServedAs
    <2>2. Request(order[s]) /\ s - 1 \in 0..Len(order)
      BY <1>4, <1>6 DEF Requests
    <2>3. IsFiniteSet(taken[s - 1])
      BY <1>7, <2>2
    <2> DEFINE name == Alloc(taken[s - 1], order[s], "snake")
    <2>4. name = Base(order[s], "snake") \/ Len(name) > 1
      BY <2>2, <2>3, AllocSpells
    <2>5. done.given[k].name = name /\ done.given[k].base = Base(order[s], "snake")
      BY <1>8, <2>1 DEF Grant
    <2> QED BY <2>4, <2>5
  <1> QED BY <1>1, <1>10

\* A ranked batch, of a request for each of some elements of a list.
LEMMA BatchIsFamily ==
  ASSUME NumeralsAreWords, NEW used, IsFiniteSet(used), NEW scope, NEW family, NEW role,
         NEW asks, NEW D, IsFiniteSet(D), NEW f, AsksFor(asks, D, f, scope, family)
  PROVE  Family(AllocRanked(used, asks, role), used, scope, {family})
  <1>1. Requests(asks) /\ \A a \in asks : a.key.scope = scope /\ a.key.family \in {family}
    BY AskedRequests
  <1>2. Gives(used, asks, AllocRanked(used, asks, role))
    BY <1>1, AllocRankedGives
  <1> QED BY <1>1, <1>2, GivesFamily

-----------------------------------------------------------------------------
\* Words of the generator's own.
LEMMA FixedWords == \A w \in Fixed : w \in Words
  BY PlacesDiffer

\* The request of an operation.
LEMMA OperationRequest ==
  ASSUME NEW scope, NEW family, NEW ops, NEW i \in Nat, WellFormedOperation(ops[i]), NEW hint \in Ident
  PROVE  Asking(OperationAsk(scope, family, ops, i, hint), i, scope, family)
  <1>1. ops[i].seed \in DOMAIN Suffix /\ <<ops[i].rank>> \in Seq(Nat)
    BY DEF WellFormedOperation
  <1> QED BY <1>1, AskIs DEF OperationAsk

\* What the operations of a well-formed API are like.
Operations(ops) == Listing(ops) /\ \A o \in ToSet(ops) : WellFormedOperation(o)

\* The operations of a list, by their places.
LEMMA OperationsAre ==
  ASSUME NEW ops, Operations(ops)
  PROVE  /\ IsFiniteSet(DOMAIN ops) /\ \A i \in DOMAIN ops : i \in Nat /\ WellFormedOperation(ops[i])
         /\ \A i \in DOMAIN ops : ops[i] \in ToSet(ops)
  BY ListIsFinite DEF Operations, Listing

\* The types are named among the types.
LEMMA TypesNamed ==
  ASSUME NumeralsAreWords, NEW used, IsFiniteSet(used), NEW types, Listing(types),
         \A t \in ToSet(types) : WellFormedType(t)
  PROVE  Family(TypeBatch(used, types), used, <<"types">>, {"model"})
  <1> DEFINE f == [i \in DOMAIN types |-> TypeAsk(types, i, TypeRank(types[i]))]
  <1>1. /\ IsFiniteSet(DOMAIN types) /\ \A i \in DOMAIN types : i \in Nat
        /\ \A i \in DOMAIN types : WellFormedType(types[i])
    BY ListIsFinite DEF Listing
  <1>2. \A i \in DOMAIN types : /\ TypeRank(types[i]) \in Seq(Nat)
                                /\ types[i].hint \in Ident /\ types[i].seed \in DOMAIN Suffix
    BY <1>1 DEF TypeRank, WellFormedType
  <1>3. \A i \in DOMAIN types : Asking(f[i], i, <<"types">>, "model")
    BY <1>1, <1>2, AskIs DEF TypeAsk
  <1>4. TypeAsks(types) = {f[i] : i \in DOMAIN types}
    BY DEF TypeAsks
  <1> HIDE DEF f
  <1>5. AsksFor(TypeAsks(types), DOMAIN types, f, <<"types">>, "model")
    BY <1>3, <1>4 DEF AsksFor, Asking
  <1> QED BY <1>1, <1>5, BatchIsFamily DEF TypeBatch

\* The methods are named in the impl of the client.
LEMMA MethodsNamed ==
  ASSUME NumeralsAreWords, NEW used, IsFiniteSet(used), NEW ops, Operations(ops)
  PROVE  Family(MethodBatch(used, ops), used, <<"impl">>, {"method"})
  <1> DEFINE f == [i \in DOMAIN ops |-> OperationAsk(<<"impl">>, "method", ops, i, ops[i].words)]
             asks == {OperationAsk(<<"impl">>, "method", ops, i, ops[i].words) : i \in DOMAIN ops}
  <1>1. \A i \in DOMAIN ops : i \in Nat /\ WellFormedOperation(ops[i]) /\ ops[i].words \in Ident
    BY OperationsAre DEF WellFormedOperation
  <1>2. \A i \in DOMAIN ops : Asking(f[i], i, <<"impl">>, "method")
    BY <1>1, OperationRequest
  <1>3. MethodBatch(used, ops) = AllocRanked(used, asks, "snake")
    BY DEF MethodBatch
  <1>4. asks = {f[i] : i \in DOMAIN ops}
    OBVIOUS
  <1> HIDE DEF f, asks
  <1>5. AsksFor(asks, DOMAIN ops, f, <<"impl">>, "method")
    BY <1>2, <1>4 DEF AsksFor, Asking
  <1> QED BY <1>3, <1>5, OperationsAre, BatchIsFamily

\* The params structs are named in the root.
LEMMA ParamsNamed ==
  ASSUME NumeralsAreWords, NEW used, IsFiniteSet(used), NEW ops, Operations(ops)
  PROVE  Family(ParamsBatch(used, ops), used, <<"root">>, {"params"})
  <1> DEFINE hint(i) == ops[i].words \o <<"params">>
             f == [i \in DOMAIN ops |-> OperationAsk(<<"root">>, "params", ops, i, hint(i))]
             asks == {OperationAsk(<<"root">>, "params", ops, i, hint(i)) : i \in DOMAIN ops}
  <1>1. \A i \in DOMAIN ops : i \in Nat /\ WellFormedOperation(ops[i]) /\ hint(i) \in Ident
    BY OperationsAre, FixedWords DEF WellFormedOperation, Ident, Fixed
  <1>2. ParamsBatch(used, ops) = AllocRanked(used, asks, "pascal")
    BY DEF ParamsBatch
  <1>3. asks = {f[i] : i \in DOMAIN ops}
    OBVIOUS
  <1> HIDE DEF hint, asks
  <1>4. \A i \in DOMAIN ops : Asking(f[i], i, <<"root">>, "params")
    BY <1>1, OperationRequest
  <1> HIDE DEF f
  <1>5. AsksFor(asks, DOMAIN ops, f, <<"root">>, "params")
    BY <1>3, <1>4 DEF AsksFor, Asking
  <1> QED BY <1>2, <1>5, OperationsAre, BatchIsFamily

\* The methods of all operations are named.
Methods(known, ops) ==
  \A i \in DOMAIN ops : NameOf(known, <<"impl">>, "method", ops[i]) \in Ident

\* The accessors are named in the impl.
LEMMA AccessorsNamed ==
  ASSUME NumeralsAreWords, NEW used, IsFiniteSet(used), NEW ops, Operations(ops),
         NEW known, Methods(known, ops)
  PROVE  Family(AccessorBatch(used, known, ops), used, <<"impl">>, {"accessor"})
  <1> DEFINE hint(i) == NameOf(known, <<"impl">>, "method", ops[i]) \o <<"url">>
             f == [i \in DOMAIN ops |-> OperationAsk(<<"impl">>, "accessor", ops, i, hint(i))]
             asks == {OperationAsk(<<"impl">>, "accessor", ops, i, hint(i)) : i \in DOMAIN ops}
  <1>1. \A i \in DOMAIN ops : i \in Nat /\ WellFormedOperation(ops[i]) /\ hint(i) \in Ident
    BY OperationsAre, FixedWords DEF Methods, Ident, Fixed
  <1>2. AccessorBatch(used, known, ops) = AllocRanked(used, asks, "snake")
    BY DEF AccessorBatch
  <1>3. asks = {f[i] : i \in DOMAIN ops}
    OBVIOUS
  <1> HIDE DEF hint, asks
  <1>4. \A i \in DOMAIN ops : Asking(f[i], i, <<"impl">>, "accessor")
    BY <1>1, OperationRequest
  <1> HIDE DEF f
  <1>5. AsksFor(asks, DOMAIN ops, f, <<"impl">>, "accessor")
    BY <1>3, <1>4 DEF AsksFor, Asking
  <1> QED BY <1>2, <1>5, OperationsAre, BatchIsFamily

\* The errors are named in the root.
LEMMA ErrorsNamed ==
  ASSUME NumeralsAreWords, NEW used, IsFiniteSet(used), NEW ops, Operations(ops),
         NEW known, Methods(known, ops)
  PROVE  Family(ErrorBatch(used, known, ops), used, <<"root">>, {"error"})
  <1> DEFINE f == [i \in DOMAIN ops |-> ErrorAsk(known, ops, i)]
             asks == {ErrorAsk(known, ops, i) : i \in DOMAIN ops}
  <1>1. \A i \in DOMAIN ops : i \in Nat /\ WellFormedOperation(ops[i])
    BY OperationsAre
  <1>2. \A i \in DOMAIN ops : Asking(f[i], i, <<"root">>, "error")
    <2> TAKE i \in DOMAIN ops
    <2> DEFINE method == NameOf(known, <<"impl">>, "method", ops[i])
               widened == Escape(method \o <<"error">>, "pascal") \in Reexports
               hint == method \o (IF widened THEN <<"operation", "error">> ELSE <<"error">>)
               rank == <<IF widened THEN 1 ELSE 0>> \o Spelled(method)
    <2>1. f[i] = Ask(Key(<<"root">>, "error", <<ops[i].id>>), hint, ops[i].seed, rank, <<i>>)
      BY DEF ErrorAsk
    <2>2. method \in Ident
      BY DEF Methods
    <2> HIDE DEF method, widened
    <2>3. hint \in Ident
      BY <2>2, FixedWords DEF Ident, Fixed
    <2>4. rank \in Seq(Nat)
      <3>1. Spelled(method) \in Seq(Nat)
        BY <2>2, SpelledDiffer
      <3> QED BY <3>1
    <2>5. i \in Nat /\ ops[i].seed \in DOMAIN Suffix
      BY <1>1 DEF WellFormedOperation
    <2> HIDE DEF hint, rank
    <2> QED BY <2>1, <2>3, <2>4, <2>5, AskIs
  <1>3. ErrorBatch(used, known, ops) = AllocRanked(used, asks, "pascal")
    BY DEF ErrorBatch
  <1>4. asks = {f[i] : i \in DOMAIN ops}
    OBVIOUS
  <1> HIDE DEF f, asks
  <1>5. AsksFor(asks, DOMAIN ops, f, <<"root">>, "error")
    BY <1>2, <1>4 DEF AsksFor, Asking
  <1> QED BY <1>3, <1>5, OperationsAre, BatchIsFamily

\* The success enums are named in the root.
LEMMA SuccessesNamed ==
  ASSUME NumeralsAreWords, NEW used, IsFiniteSet(used), NEW ops, Operations(ops),
         NEW known, Methods(known, ops)
  PROVE  Family(SuccessBatch(used, known, ops), used, <<"root">>, {"success"})
  <1> DEFINE D == {j \in DOMAIN ops : ops[j].enum}
             f == [i \in D |-> SuccessAsk(known, ops, i)]
             asks == {SuccessAsk(known, ops, i) : i \in D}
  <1>1. \A i \in D : i \in Nat /\ WellFormedOperation(ops[i]) /\ i \in DOMAIN ops
    BY OperationsAre
  <1>2. IsFiniteSet(D)
    BY OperationsAre, FS_Subset
  <1>3. SuccessBatch(used, known, ops) = AllocRanked(used, asks, "pascal")
    BY DEF SuccessBatch
  <1>4. asks = {f[i] : i \in D}
    OBVIOUS
  <1> HIDE DEF D, asks
  <1>5. \A i \in D : Asking(f[i], i, <<"root">>, "success")
    <2> TAKE i \in D
    <2> DEFINE method == NameOf(known, <<"impl">>, "method", ops[i])
    <2>1. f[i] = Ask(Key(<<"root">>, "success", <<ops[i].id>>), method \o <<"response">>,
                     ops[i].seed, Spelled(method), <<i>>)
      BY DEF SuccessAsk
    <2>2. method \in Ident
      BY <1>1 DEF Methods
    <2> HIDE DEF method
    <2>3. method \o <<"response">> \in Ident
      BY <2>2, FixedWords DEF Ident, Fixed
    <2>4. Spelled(method) \in Seq(Nat)
      BY <2>2, SpelledDiffer
    <2>5. i \in Nat /\ ops[i].seed \in DOMAIN Suffix
      BY <1>1 DEF WellFormedOperation
    <2> QED BY <2>1, <2>3, <2>4, <2>5, AskIs
  <1> HIDE DEF f
  <1>6. AsksFor(asks, D, f, <<"root">>, "success")
    BY <1>4, <1>5 DEF AsksFor, Asking
  <1> QED BY <1>2, <1>3, <1>6, BatchIsFamily

-----------------------------------------------------------------------------
(* What several functions come to.                                         *)

\* No name of f is another's in its scope, or stands there, but for setters as spelled.
Clear(f) ==
  \A k \in DOMAIN f : /\ f[k].name \in Standing(k.scope) => AsSpelled(k, f[k])
                      /\ \A l \in DOMAIN f : l # k /\ l.scope = k.scope => f[l].name # f[k].name

\* No name of f is one of g in its scope.
Apart(f, g) ==
  \A k \in DOMAIN f, l \in DOMAIN g : k # l /\ k.scope = l.scope => f[k].name # g[l].name

\* The items of f are of some kinds of scopes and of some families.
Under(f, kinds, families) == \A k \in DOMAIN f : k.scope[1] \in kinds /\ k.family \in families

\* What Merged maps to comes from one of the functions.
LEMMA MergedFrom ==
  ASSUME NEW functions
  PROVE  /\ \A k \in DOMAIN Merged(functions) :
              \E f \in functions : k \in DOMAIN f /\ Merged(functions)[k] = f[k]
         /\ \A f \in functions : \A k \in DOMAIN f : k \in DOMAIN Merged(functions)
  <1> DEFINE From(k) == CHOOSE f \in functions : k \in DOMAIN f
  <1>1. Merged(functions) = [k \in UNION {DOMAIN f : f \in functions} |-> From(k)[k]]
    BY DEF Merged
  <1>2. \A k \in UNION {DOMAIN f : f \in functions} : From(k) \in functions /\ k \in DOMAIN From(k)
    <2> TAKE k \in UNION {DOMAIN f : f \in functions}
    <2>1. \E f \in functions : k \in DOMAIN f
      OBVIOUS
    <2> QED BY <2>1
  <1> HIDE DEF From
  <1>3. \A f \in functions : \A k \in DOMAIN f : k \in DOMAIN Merged(functions)
    BY <1>1
  <1>4. \A k \in DOMAIN Merged(functions) :
           From(k) \in functions /\ k \in DOMAIN From(k) /\ Merged(functions)[k] = From(k)[k]
    BY <1>1, <1>2
  <1> QED BY <1>3, <1>4

\* Functions that are clear and apart merge into one that is clear.
LEMMA MergedClear ==
  ASSUME NEW functions, \A f \in functions : Clear(f),
         \A f, g \in functions : f # g => Apart(f, g)
  PROVE  Clear(Merged(functions))
  <1> DEFINE m == Merged(functions)
  <1>1. \A k \in DOMAIN m : \E f \in functions : k \in DOMAIN f /\ m[k] = f[k]
    BY MergedFrom
  <1> HIDE DEF m
  <1>2. SUFFICES ASSUME NEW k \in DOMAIN m
                 PROVE  /\ m[k].name \in Standing(k.scope) => AsSpelled(k, m[k])
                        /\ \A l \in DOMAIN m : l # k /\ l.scope = k.scope => m[l].name # m[k].name
    BY DEF Clear, m
  <1>3. PICK f \in functions : k \in DOMAIN f /\ m[k] = f[k]
    BY <1>1
  <1>4. m[k].name \in Standing(k.scope) => AsSpelled(k, m[k])
    BY <1>3 DEF Clear
  <1>5. ASSUME NEW l \in DOMAIN m, l # k, l.scope = k.scope PROVE m[l].name # m[k].name
    <2>1. PICK g \in functions : l \in DOMAIN g /\ m[l] = g[l]
      BY <1>1
    <2>2. CASE f = g
      BY <1>3, <1>5, <2>1, <2>2 DEF Clear
    <2>3. CASE f # g
      <3>1. Apart(f, g)
        BY <2>3
      <3> QED BY <1>3, <1>5, <2>1, <3>1 DEF Apart
    <2> QED BY <2>2, <2>3
  <1> QED BY <1>4, <1>5

\* What merges functions is of their kinds and families.
LEMMA MergedUnder ==
  ASSUME NEW functions, NEW kinds, NEW families, \A f \in functions : Under(f, kinds, families)
  PROVE  Under(Merged(functions), kinds, families)
  <1> DEFINE m == Merged(functions)
  <1>1. \A k \in DOMAIN m : \E f \in functions : k \in DOMAIN f /\ m[k] = f[k]
    BY MergedFrom
  <1> HIDE DEF m
  <1>2. Under(m, kinds, families)
    BY <1>1 DEF Under
  <1> QED BY <1>2 DEF m

\* Names in scopes of different kinds do not meet.
LEMMA ApartByKind ==
  ASSUME NEW f, NEW g, NEW J, NEW K, NEW families, NEW others,
         Under(f, J, families), Under(g, K, others), J \intersect K = {}
  PROVE  Apart(f, g) /\ Apart(g, f)
  BY DEF Apart, Under

\* Nothing stands in a scope of an item's own, unless it is of setters.
LEMMA StandingElsewhere ==
  ASSUME NEW scope, scope[1] \notin {"servers", "types", "impl", "root", "setters"}
  PROVE  Standing(scope) = {}
  <1>1. /\ scope # <<"servers">> /\ scope # <<"types">> /\ scope # <<"impl">> /\ scope # <<"root">>
    OBVIOUS
  <1> QED BY <1>1 DEF Standing

\* What stands in the shared scopes.
LEMMA StandingIn ==
  /\ Standing(<<"servers">>) = ServersModule /\ Standing(<<"types">>) = TypesModule
  /\ Standing(<<"impl">>) = ClientMethods /\ Standing(<<"root">>) = Reexports
  <1>1. /\ <<"types">> # <<"servers">> /\ <<"impl">> # <<"servers">> /\ <<"root">> # <<"servers">>
        /\ <<"impl">> # <<"types">> /\ <<"root">> # <<"types">> /\ <<"root">> # <<"impl">>
        /\ <<"servers">>[1] # "setters" /\ <<"types">>[1] # "setters"
        /\ <<"impl">>[1] # "setters" /\ <<"root">>[1] # "setters"
    OBVIOUS
  <1> QED BY <1>1 DEF Standing

\* What stands where setters are named.
LEMMA StandingSetters ==
  ASSUME NEW scope, scope[1] = "setters"
  PROVE  \A name \in Standing(scope) : Len(name) = 1
  <1>1. /\ scope # <<"servers">> /\ scope # <<"types">> /\ scope # <<"impl">> /\ scope # <<"root">>
    OBVIOUS
  <1>2. Standing(scope) = BuilderMethods
    BY <1>1 DEF Standing
  <1> QED BY <1>2 DEF BuilderMethods

\* What is named over what stands in its scope is clear.
LEMMA NamedIsClear ==
  ASSUME NEW f, NEW used, NEW taken, NEW scope, NEW families,
         NamedIn(f, used, taken, scope, families), Standing(scope) \subseteq used
  PROVE  Clear(f) /\ Under(f, {scope[1]}, families)
  BY DEF NamedIn, Clear, Under

\* What is named over what another has taken.
LEMMA ApartByScope ==
  ASSUME NEW f, NEW g, NEW used, NEW taken, NEW scope, NEW families,
         NEW later, NEW known, NEW others,
         NamedIn(f, used, taken, scope, families), NamedIn(g, later, known, scope, others),
         taken \subseteq later
  PROVE  Apart(f, g) /\ Apart(g, f)
  BY DEF NamedIn, Apart

-----------------------------------------------------------------------------
(* The families that are several.                                          *)

\* A setter, header field or value has its name in a scope of its own.
OwnScope(f, scope, families) ==
  /\ \E taken : NamedIn(f, {}, taken, scope, families)
  /\ Clear(f) /\ Under(f, {scope[1]}, families)

\* A scope of an item's own, and the names a row gives in it.
LEMMA OwnRow ==
  ASSUME NumeralsAreWords, NEW scope, scope[1] \notin {"servers", "types", "impl", "root", "setters"},
         NEW family, NEW items, IsList(items),
         NEW hints, \A i \in DOMAIN items : hints[i] \in Ident,
         NEW role, NEW seed, seed \in DOMAIN Suffix
  PROVE  OwnScope(Row({}, scope, family, items, hints, role, seed).given, scope, {family})
  <1> DEFINE done == Row({}, scope, family, items, hints, role, seed)
  <1>1. Family(done, {}, scope, {family})
    <2>1. IsFiniteSet({})
      BY FS_EmptySet
    <2>2. IsFiniteSet(DOMAIN items) /\ \A i \in DOMAIN items : i \in Nat
      BY ListIsFinite
    <2> QED BY <2>1, <2>2, RowIsFamily
  <1> HIDE DEF done
  <1>2. NamedIn(done.given, {}, done.used, scope, {family})
    BY <1>1 DEF Family
  <1>3. Standing(scope) \subseteq {}
    BY StandingElsewhere
  <1>4. Clear(done.given) /\ Under(done.given, {scope[1]}, {family})
    BY <1>2, <1>3, NamedIsClear
  <1>5. OwnScope(done.given, scope, {family})
    BY <1>2, <1>4 DEF OwnScope
  <1> QED BY <1>5 DEF done

\* The identities and the hints of a list.
LEMMA ListHints ==
  ASSUME NEW list, Listing(list), Worded(list)
  PROVE  /\ IsList(Ids(list)) /\ DOMAIN Ids(list) = DOMAIN list
         /\ \A i \in DOMAIN Ids(list) : Hints(list)[i] \in Ident
  <1>1. DOMAIN Ids(list) = DOMAIN list /\ DOMAIN Hints(list) = DOMAIN list
    BY DEF Ids, Hints
  <1>2. IsList(Ids(list))
    <2>1. Len(list) \in Nat /\ DOMAIN list = 1..Len(list)
      BY DEF Listing, IsList
    <2>2. Ids(list) \in Seq({<<x.id>> : x \in ToSet(list)})
      BY <2>1 DEF Ids, ToSet
    <2> QED BY <2>2 DEF IsList
  <1>3. \A i \in DOMAIN list : Hints(list)[i] \in Ident
    BY DEF Hints, Worded, ToSet
  <1> QED BY <1>1, <1>2, <1>3

\* The fields of a header struct have a scope of their own.
LEMMA HeaderFieldsOwn ==
  ASSUME NumeralsAreWords, NEW o, NEW h, WellFormedHeader(h)
  PROVE  OwnScope(HeaderFields(o, h), <<"header fields", o.id, h.label>>, {"header"})
  <1>1. /\ IsList(Ids(h.fields))
        /\ \A i \in DOMAIN Ids(h.fields) : Hints(h.fields)[i] \in Ident
    BY ListHints DEF WellFormedHeader
  <1>2. "root" \in DOMAIN Suffix
    BY SuffixesAreWords
  <1> DEFINE scope == <<"header fields", o.id, h.label>>
  <1>3. scope[1] \notin {"servers", "types", "impl", "root", "setters"}
    OBVIOUS
  <1>4. HeaderFields(o, h) = Row({}, scope, "header", Ids(h.fields), Hints(h.fields), "snake", "root").given
    BY DEF HeaderFields
  <1> HIDE DEF scope
  <1>5. OwnScope(Row({}, scope, "header", Ids(h.fields), Hints(h.fields), "snake", "root").given, scope, {"header"})
    <2> DEFINE items == Ids(h.fields)
               hints == Hints(h.fields)
    <2>1. IsList(items) /\ \A i \in DOMAIN items : hints[i] \in Ident
      BY <1>1
    <2> HIDE DEF items, hints
    <2>2. OwnScope(Row({}, scope, "header", items, hints, "snake", "root").given, scope, {"header"})
      BY <1>2, <1>3, <2>1, OwnRow
    <2> QED BY <2>2 DEF items, hints
  <1> QED BY <1>4, <1>5 DEF scope

\* The setters of a builder have a scope of their own, beside its methods: what is not as
\* spelled has a suffix.
LEMMA SettersOwn ==
  ASSUME NumeralsAreWords, NEW s, WellFormedServer(s)
  PROVE  OwnScope(Setters(s), <<"setters", s.id>>, {"setter"})
  <1>1. /\ IsList(Ids(s.variables))
        /\ \A i \in DOMAIN Ids(s.variables) : Hints(s.variables)[i] \in Ident
    BY ListHints DEF WellFormedServer
  <1>2. "root" \in DOMAIN Suffix
    BY SuffixesAreWords
  <1> DEFINE scope == <<"setters", s.id>>
             items == Ids(s.variables)
             hints == Hints(s.variables)
             done == Row({}, scope, "setter", items, hints, "snake", "root")
  <1>3. scope[1] = "setters"
    OBVIOUS
  <1>4. Setters(s) = done.given
    BY DEF Setters
  <1>5. /\ IsFiniteSet({}) /\ IsFiniteSet(DOMAIN items)
        /\ \A i \in DOMAIN items : i \in Nat /\ hints[i] \in Ident
    BY <1>1, FS_EmptySet, ListIsFinite
  <1> HIDE DEF scope, items, hints
  <1>6. Family(done, {}, scope, {"setter"})
    BY <1>2, <1>5, RowIsFamily
  <1>7. \A k \in DOMAIN done.given :
           done.given[k].name = done.given[k].base \/ Len(done.given[k].name) > 1
    BY <1>2, <1>5, RowSpells
  <1> HIDE DEF done
  <1>8. NamedIn(done.given, {}, done.used, scope, {"setter"})
    BY <1>6 DEF Family
  <1>9. Under(done.given, {scope[1]}, {"setter"})
    BY <1>8 DEF NamedIn, Under
  <1>10. \A k \in DOMAIN done.given :
            done.given[k].name \in Standing(k.scope) => AsSpelled(k, done.given[k])
    <2> TAKE k \in DOMAIN done.given
    <2>1. k.scope = scope /\ k.family = "setter"
      BY <1>8 DEF NamedIn
    <2>2. \A name \in Standing(scope) : Len(name) = 1
      BY <1>3, StandingSetters
    <2>3. Standing(k.scope) = Standing(scope)
      BY <2>1, Zenon
    <2> DEFINE grant == done.given[k]
    <2>4. grant.name = grant.base \/ Len(grant.name) > 1
      BY <1>7
    <2> HIDE DEF grant
    <2>5. ASSUME grant.name \in Standing(scope) PROVE grant.name = grant.base
      <3>1. Len(grant.name) = 1
        BY <2>2, <2>5
      <3> QED BY <2>4, <3>1
    <2>6. grant.name \in Standing(k.scope) => AsSpelled(k, grant)
      BY <2>1, <2>3, <2>5 DEF AsSpelled
    <2> QED BY <2>6 DEF grant
  <1>11. Clear(done.given)
    BY <1>8, <1>10 DEF NamedIn, Clear
  <1> QED BY <1>4, <1>8, <1>9, <1>11 DEF OwnScope, scope

\* The values of a variable have a scope of their own.
LEMMA ValuesOwn ==
  ASSUME NumeralsAreWords, NEW s, NEW v, WellFormedServer(s), v \in ToSet(s.variables)
  PROVE  OwnScope(Values(s, v), <<"values", s.id, v.id>>, {"value"})
  <1>1. IsList(v.values) /\ \A i \in DOMAIN v.values : v.values[i] \in Ident
    BY DEF WellFormedServer, ToSet
  <1>2. "root" \in DOMAIN Suffix
    BY SuffixesAreWords
  <1> DEFINE scope == <<"values", s.id, v.id>>
  <1>3. scope[1] \notin {"servers", "types", "impl", "root", "setters"}
    OBVIOUS
  <1>4. Values(s, v) = Row({}, scope, "value", v.values, v.values, "pascal", "root").given
    BY DEF Values
  <1> HIDE DEF scope
  <1>5. OwnScope(Row({}, scope, "value", v.values, v.values, "pascal", "root").given, scope, {"value"})
    <2> DEFINE items == v.values
               hints == v.values
    <2>1. IsList(items) /\ \A i \in DOMAIN items : hints[i] \in Ident
      BY <1>1
    <2> HIDE DEF items, hints
    <2>2. OwnScope(Row({}, scope, "value", items, hints, "pascal", "root").given, scope, {"value"})
      BY <1>2, <1>3, <2>1, OwnRow
    <2> QED BY <2>2 DEF items, hints
  <1> QED BY <1>4, <1>5 DEF scope

-----------------------------------------------------------------------------
\* g names nothing in scope as it is used there.
Over(g, scope, used) == \A k \in DOMAIN g : k.scope = scope => g[k].name \notin used

\* Names in two scopes of their own do not meet.
LEMMA OwnScopesApart ==
  ASSUME NEW f, NEW g, NEW scope, NEW place, NEW families, NEW others,
         OwnScope(f, scope, families), OwnScope(g, place, others), scope # place
  PROVE  Apart(f, g)
  BY DEF OwnScope, NamedIn, Apart

\* The requests for the header structs.
HeaderAsks(ops) == UNION {{HeaderAsk(ops[i], i, j) : j \in DOMAIN ops[i].headers} : i \in DOMAIN ops}

\* The requests for header structs can be served together.
LEMMA HeaderRequests ==
  ASSUME NEW ops, Operations(ops)
  PROVE  /\ Requests(HeaderAsks(ops))
         /\ \A a \in HeaderAsks(ops) : a.key.scope = <<"types">> /\ a.key.family = "headers"
  <1> DEFINE row(i) == [j \in DOMAIN ops[i].headers |-> HeaderAsk(ops[i], i, j)]
             of(i) == {HeaderAsk(ops[i], i, j) : j \in DOMAIN ops[i].headers}
             rows == [i \in DOMAIN ops |-> of(i)]
  <1>1. \A i \in DOMAIN ops : /\ i \in Nat /\ WellFormedOperation(ops[i]) /\ IsList(ops[i].headers)
                              /\ \A j \in DOMAIN ops[i].headers : j \in Nat /\ WellFormedHeader(ops[i].headers[j])
    <2> TAKE i \in DOMAIN ops
    <2>1. i \in Nat /\ WellFormedOperation(ops[i])
      BY OperationsAre
    <2>2. IsList(ops[i].headers) /\ \A h \in ToSet(ops[i].headers) : WellFormedHeader(h)
      BY <2>1 DEF WellFormedOperation
    <2> QED BY <2>1, <2>2, ListIsFinite
  <1>2. ASSUME NEW i \in DOMAIN ops PROVE IsFiniteSet(of(i))
    <2>1. of(i) = {row(i)[j] : j \in DOMAIN ops[i].headers}
      OBVIOUS
    <2>2. IsFiniteSet(DOMAIN ops[i].headers)
      BY <1>1, ListIsFinite
    <2> HIDE DEF row, of
    <2>3. IsFiniteSet({row(i)[j] : j \in DOMAIN ops[i].headers})
      BY <2>2, ImageFinite
    <2> QED BY <2>1, <2>3
  <1>3. HeaderAsks(ops) = UNION {rows[i] : i \in DOMAIN ops}
    BY DEF HeaderAsks
  <1>4. IsFiniteSet(HeaderAsks(ops))
    <2>1. \A i \in DOMAIN ops : IsFiniteSet(rows[i])
      BY <1>2
    <2> HIDE DEF rows
    <2>2. IsFiniteSet({rows[i] : i \in DOMAIN ops})
      BY OperationsAre, ImageFinite
    <2> QED BY <1>3, <2>1, <2>2, FS_UNION
  <1>5. \A a \in HeaderAsks(ops) :
           \E i \in DOMAIN ops : \E j \in DOMAIN ops[i].headers : a = HeaderAsk(ops[i], i, j)
    BY DEF HeaderAsks
  <1>6. ASSUME NEW i \in DOMAIN ops, NEW j \in DOMAIN ops[i].headers
        PROVE  /\ Request(HeaderAsk(ops[i], i, j)) /\ HeaderAsk(ops[i], i, j).listed = <<i, j>>
               /\ HeaderAsk(ops[i], i, j).key.scope = <<"types">>
               /\ HeaderAsk(ops[i], i, j).key.family = "headers"
    <2> DEFINE label == ops[i].headers[j].label
               hint == ops[i].words \o <<label, "headers">>
               rank == <<ops[i].rank, Place[label]>>
    <2>1. HeaderAsk(ops[i], i, j) = Ask(Key(<<"types">>, "headers", <<ops[i].id, label>>), hint, "root",
                                        rank, <<i, j>>)
      BY DEF HeaderAsk
    <2>2. /\ ops[i].words \in Ident /\ ops[i].rank \in Nat /\ label \in Words /\ i \in Nat /\ j \in Nat
          /\ "root" \in DOMAIN Suffix
      BY <1>1, SuffixesAreWords DEF WellFormedOperation, WellFormedHeader
    <2> HIDE DEF label
    <2>3. hint \in Ident
      BY <2>2, FixedWords DEF Ident, Fixed
    <2>4. rank \in Seq(Nat) /\ <<i, j>> \in Seq(Nat)
      <3>1. Place[label] \in Nat
        BY <2>2, PlacesDiffer DEF Words
      <3> QED BY <2>2, <3>1
    <2> HIDE DEF hint, rank
    <2> QED BY <2>1, <2>2, <2>3, <2>4 DEF Ask, Key, Request
  <1>7. \A a \in HeaderAsks(ops) : Request(a) /\ a.key.scope = <<"types">> /\ a.key.family = "headers"
    BY <1>5, <1>6
  <1>8. ASSUME NEW a \in HeaderAsks(ops), NEW b \in HeaderAsks(ops), a.listed = b.listed PROVE a = b
    <2>1. PICK i \in DOMAIN ops : \E j \in DOMAIN ops[i].headers : a = HeaderAsk(ops[i], i, j)
      BY <1>5
    <2>1a. PICK j \in DOMAIN ops[i].headers : a = HeaderAsk(ops[i], i, j)
      BY <2>1
    <2>2. PICK k \in DOMAIN ops : \E l \in DOMAIN ops[k].headers : b = HeaderAsk(ops[k], k, l)
      BY <1>5
    <2>2a. PICK l \in DOMAIN ops[k].headers : b = HeaderAsk(ops[k], k, l)
      BY <2>2
    <2>3. a.listed = <<i, j>> /\ b.listed = <<k, l>>
      BY <1>6, <2>1a, <2>2a
    <2>4. i = k /\ j = l
      <3>1. <<i, j>> = <<k, l>>
        BY <1>8, <2>3
      <3> QED BY <3>1
    <2> QED BY <2>1a, <2>2a, <2>4
  <1> QED BY <1>4, <1>7, <1>8 DEF Requests

\* The structs of the headers and their fields.
StructsOf(used, ops) == AllocRanked(used, HeaderAsks(ops), "pascal")
\* The fields of all header structs.
FieldsOf(ops) == UNION {{HeaderFields(o, h) : h \in ToSet(o.headers)} : o \in ToSet(ops)}

\* HeaderBatch in those terms.
LEMMA HeaderBatchIs ==
  ASSUME NEW used, NEW ops
  PROVE  HeaderBatch(used, ops) = [used |-> StructsOf(used, ops).used,
                                   given |-> Merged({StructsOf(used, ops).given} \union FieldsOf(ops))]
  BY DEF HeaderBatch, StructsOf, FieldsOf, HeaderAsks

\* Items at different places of a listing differ.
LEMMA ItemsDiffer ==
  ASSUME NEW list, Listing(list), NEW x \in ToSet(list), NEW y \in ToSet(list), x.id = y.id
  PROVE  x = y
  <1>1. PICK i \in DOMAIN list, j \in DOMAIN list : x = list[i] /\ y = list[j]
    BY DEF ToSet
  <1> QED BY <1>1 DEF Listing

\* The header structs and their fields are named over the types.
LEMMA HeadersNamed ==
  ASSUME NumeralsAreWords, NEW used, IsFiniteSet(used), TypesModule \subseteq used,
         NEW ops, Operations(ops)
  PROVE  LET done == HeaderBatch(used, ops)
         IN  /\ IsFiniteSet(done.used) /\ used \subseteq done.used
             /\ Clear(done.given) /\ Over(done.given, <<"types">>, used)
             /\ Under(done.given, {"types", "header fields"}, {"headers", "header"})
  <1> DEFINE structs == StructsOf(used, ops)
             F == {structs.given} \union FieldsOf(ops)
  <1>1. Family(structs, used, <<"types">>, {"headers"})
    <2>1. Gives(used, HeaderAsks(ops), structs)
      BY HeaderRequests, AllocRankedGives DEF StructsOf
    <2>2. \A a \in HeaderAsks(ops) : a.key.scope = <<"types">> /\ a.key.family \in {"headers"}
      BY HeaderRequests
    <2> HIDE DEF structs
    <2> QED BY <2>1, <2>2, GivesFamily
  <1> HIDE DEF structs
  <1>2. NamedIn(structs.given, used, structs.used, <<"types">>, {"headers"})
    BY <1>1 DEF Family
  <1>3. Clear(structs.given) /\ Under(structs.given, {"types"}, {"headers"})
    <2>1. Standing(<<"types">>) \subseteq used
      BY StandingIn
    <2>2. <<"types">>[1] = "types"
      OBVIOUS
    <2> QED BY <1>2, <2>1, <2>2, NamedIsClear
  <1>4. \A f \in FieldsOf(ops) : \E o \in ToSet(ops) : \E h \in ToSet(o.headers) : f = HeaderFields(o, h)
    BY DEF FieldsOf
  <1>5. \A o \in ToSet(ops) : \A h \in ToSet(o.headers) :
           WellFormedHeader(h) /\ OwnScope(HeaderFields(o, h), <<"header fields", o.id, h.label>>, {"header"})
    BY HeaderFieldsOwn DEF Operations, WellFormedOperation
  <1>6. ASSUME NEW o \in ToSet(ops), NEW h \in ToSet(o.headers)
        PROVE  /\ Clear(HeaderFields(o, h)) /\ Under(HeaderFields(o, h), {"header fields"}, {"header"})
               /\ Apart(structs.given, HeaderFields(o, h)) /\ Apart(HeaderFields(o, h), structs.given)
    <2>1. Clear(HeaderFields(o, h)) /\ Under(HeaderFields(o, h), {"header fields"}, {"header"})
      BY <1>5 DEF OwnScope
    <2>2. {"types"} \intersect {"header fields"} = {}
      OBVIOUS
    <2> QED BY <1>3, <2>1, <2>2, ApartByKind
  <1>7. ASSUME NEW o \in ToSet(ops), NEW h \in ToSet(o.headers),
               NEW p \in ToSet(ops), NEW i \in ToSet(p.headers), HeaderFields(o, h) # HeaderFields(p, i)
        PROVE  Apart(HeaderFields(o, h), HeaderFields(p, i))
    <2>1. o # p \/ h # i
      BY <1>7
    <2>2. o.id = p.id => o = p
      BY ItemsDiffer DEF Operations
    <2>3. ASSUME o = p, h.label = i.label PROVE h = i
      <3>1. PICK k \in DOMAIN o.headers, l \in DOMAIN o.headers : h = o.headers[k] /\ i = o.headers[l]
        BY <2>3 DEF ToSet
      <3>2. o.headers[k].label = o.headers[l].label => k = l
        BY DEF Operations, WellFormedOperation
      <3> QED BY <2>3, <3>1, <3>2
    <2>4. <<"header fields", o.id, h.label>> # <<"header fields", p.id, i.label>>
      BY <2>1, <2>2, <2>3
    <2> DEFINE scope == <<"header fields", o.id, h.label>>
               place == <<"header fields", p.id, i.label>>
    <2>5. OwnScope(HeaderFields(o, h), scope, {"header"}) /\ OwnScope(HeaderFields(p, i), place, {"header"})
      BY <1>5
    <2>6. scope # place
      BY <2>4
    <2> HIDE DEF scope, place
    <2> QED BY <2>5, <2>6, OwnScopesApart
  <1>8. Clear(Merged(F))
    <2>1. \A f \in F : Clear(f)
      BY <1>3, <1>4, <1>6
    <2>2. ASSUME NEW f \in F, NEW g \in F, f # g PROVE Apart(f, g)
      <3>1. CASE f \in FieldsOf(ops) /\ g \in FieldsOf(ops)
        BY <1>4, <1>7, <2>2, <3>1
      <3>2. CASE f \in FieldsOf(ops) /\ g = structs.given
        BY <1>4, <1>6, <3>2
      <3>3. CASE f = structs.given /\ g \in FieldsOf(ops)
        BY <1>4, <1>6, <3>3
      <3> QED BY <2>2, <3>1, <3>2, <3>3
    <2> HIDE DEF F
    <2> QED BY <2>1, <2>2, MergedClear
  <1>9. Under(Merged(F), {"types", "header fields"}, {"headers", "header"})
    <2>1. \A f \in F : Under(f, {"types", "header fields"}, {"headers", "header"})
      <3> TAKE f \in F
      <3>1. CASE f = structs.given
        BY <1>3, <3>1 DEF Under
      <3>2. CASE f \in FieldsOf(ops)
        BY <1>4, <1>6, <3>2 DEF Under
      <3> QED BY <3>1, <3>2
    <2> HIDE DEF F
    <2> QED BY <2>1, MergedUnder
  <1>10. Over(Merged(F), <<"types">>, used)
    <2>1. SUFFICES ASSUME NEW k \in DOMAIN Merged(F), k.scope = <<"types">>
                   PROVE  Merged(F)[k].name \notin used
      BY DEF Over
    <2>2. PICK f \in F : k \in DOMAIN f /\ Merged(F)[k] = f[k]
      <3> HIDE DEF F
      <3> QED BY MergedFrom
    <2>3. CASE f = structs.given
      BY <1>2, <2>2, <2>3 DEF NamedIn
    <2>4. CASE f \in FieldsOf(ops)
      <3>1. k.scope[1] = "header fields"
        BY <1>4, <1>6, <2>2, <2>4 DEF Under
      <3> QED BY <2>1, <3>1
    <2> QED BY <2>3, <2>4
  <1>11. HeaderBatch(used, ops) = [used |-> structs.used, given |-> Merged(F)]
    BY HeaderBatchIs DEF structs
  <1> HIDE DEF F
  <1>12. HeaderBatch(used, ops).used = structs.used /\ HeaderBatch(used, ops).given = Merged(F)
    BY <1>11
  <1> QED BY <1>1, <1>8, <1>9, <1>10, <1>12 DEF Family

\* All names of f are in scopes of one item.
Belongs(f, id) == \A k \in DOMAIN f : k.scope[2] = id

\* What belongs to different items does not meet.
LEMMA BelongApart ==
  ASSUME NEW f, NEW g, NEW x, NEW y, Belongs(f, x), Belongs(g, y), x # y
  PROVE  Apart(f, g)
  BY DEF Belongs, Apart

\* What merges functions that belong to an item belongs to it.
LEMMA MergedBelongs ==
  ASSUME NEW functions, NEW id, \A f \in functions : Belongs(f, id)
  PROVE  Belongs(Merged(functions), id)
  <1> DEFINE m == Merged(functions)
  <1>1. \A k \in DOMAIN m : \E f \in functions : k \in DOMAIN f /\ m[k] = f[k]
    BY MergedFrom
  <1> HIDE DEF m
  <1>2. Belongs(m, id)
    BY <1>1 DEF Belongs
  <1> QED BY <1>2 DEF m

\* Two rows in one scope of an item's own, the second over what the first has taken.
LEMMA TwoRows ==
  ASSUME NEW first, NEW second, NEW scope, scope[1] \notin {"servers", "types", "impl", "root", "setters"},
         NEW family, NEW other,
         Family(first, {}, scope, {family}), Family(second, first.used, scope, {other})
  PROVE  /\ Clear(first.given) /\ Clear(second.given)
         /\ Apart(first.given, second.given) /\ Apart(second.given, first.given)
         /\ Under(first.given, {scope[1]}, {family}) /\ Under(second.given, {scope[1]}, {other})
         /\ Belongs(first.given, scope[2]) /\ Belongs(second.given, scope[2])
  <1>1. NamedIn(first.given, {}, first.used, scope, {family})
    BY DEF Family
  <1>2. NamedIn(second.given, first.used, second.used, scope, {other})
    BY DEF Family
  <1>3. Standing(scope) = {}
    BY StandingElsewhere
  <1>4. Clear(first.given) /\ Under(first.given, {scope[1]}, {family})
    BY <1>1, <1>3, NamedIsClear
  <1>5. Clear(second.given) /\ Under(second.given, {scope[1]}, {other})
    BY <1>2, <1>3, NamedIsClear
  <1>6. Apart(first.given, second.given) /\ Apart(second.given, first.given)
    BY <1>1, <1>2, ApartByScope
  <1>7. Belongs(first.given, scope[2]) /\ Belongs(second.given, scope[2])
    BY <1>1, <1>2 DEF NamedIn, Belongs
  <1> QED BY <1>4, <1>5, <1>6, <1>7

-----------------------------------------------------------------------------
\* The scope of parameters.
ParamScope(o, required) == IF required THEN <<"args", o.id>> ELSE <<"fields", o.id>>

\* The parameters of one kind, and what they ask for.
ParamsThat(o, required) == {j \in DOMAIN o.params : o.params[j].required = required}
\* The request of parameter i.
ParamAsk(o, required, i) ==
  Ask(Key(ParamScope(o, required), "param", <<o.params[i].id>>), o.params[i].words, o.params[i].id,
      <<o.params[i].loc, o.params[i].rank>>, <<i>>)
\* The requests of the parameters that are, or are not, required.
ParamAsks(o, required) == {ParamAsk(o, required, i) : i \in ParamsThat(o, required)}

\* ParameterBatch in those terms.
LEMMA ParameterBatchIs ==
  ASSUME NEW o, NEW used, NEW required
  PROVE  ParameterBatch(o, used, required) = AllocRanked(used, ParamAsks(o, required), "snake")
  BY DEF ParameterBatch, ParamAsks, ParamAsk, ParamScope, ParamsThat

\* The requests of parameters can be served together.
LEMMA ParamsAsk ==
  ASSUME NEW o, WellFormedOperation(o), NEW required
  PROVE  /\ IsFiniteSet(ParamsThat(o, required))
         /\ AsksFor(ParamAsks(o, required), ParamsThat(o, required),
                  [i \in ParamsThat(o, required) |-> ParamAsk(o, required, i)],
                  ParamScope(o, required), "param")
  <1> DEFINE D == ParamsThat(o, required)
             f == [i \in D |-> ParamAsk(o, required, i)]
             scope == ParamScope(o, required)
  <1>1. /\ IsFiniteSet(DOMAIN o.params) /\ \A i \in DOMAIN o.params : i \in Nat
        /\ \A i \in DOMAIN o.params : o.params[i] \in ToSet(o.params)
    BY ListIsFinite DEF WellFormedOperation, Listing
  <1>2. D \subseteq DOMAIN o.params
    BY DEF ParamsThat
  <1>3. IsFiniteSet(D)
    BY <1>1, <1>2, FS_Subset
  <1>4. ASSUME NEW i \in D PROVE Asking(f[i], i, scope, "param")
    <2> DEFINE p == o.params[i]
    <2>1. f[i] = Ask(Key(scope, "param", <<p.id>>), p.words, p.id, <<p.loc, p.rank>>, <<i>>)
      BY DEF ParamAsk
    <2>2. i \in Nat /\ p \in ToSet(o.params)
      BY <1>1, <1>2
    <2> HIDE DEF p
    <2>3. p.words \in Ident /\ p.id \in DOMAIN Suffix /\ <<p.loc, p.rank>> \in Seq(Nat)
      BY <2>2 DEF WellFormedOperation, Worded
    <2> HIDE DEF scope
    <2> QED BY <2>1, <2>2, <2>3, AskIs
  <1>5. ParamAsks(o, required) = {f[i] : i \in D}
    BY DEF ParamAsks
  <1>6. AsksFor(ParamAsks(o, required), D, f, scope, "param")
    <2> HIDE DEF D, f, scope
    <2> QED BY <1>4, <1>5 DEF AsksFor, Asking
  <1> QED BY <1>3, <1>6

\* The parameters are named in the scope of the arguments or of the fields.
LEMMA ParametersNamed ==
  ASSUME NumeralsAreWords, NEW o, WellFormedOperation(o), NEW used, IsFiniteSet(used), NEW required
  PROVE  Family(ParameterBatch(o, used, required), used, ParamScope(o, required), {"param"})
  <1> DEFINE D == ParamsThat(o, required)
             f == [i \in D |-> ParamAsk(o, required, i)]
             asks == ParamAsks(o, required)
             scope == ParamScope(o, required)
  <1>1. IsFiniteSet(D) /\ AsksFor(asks, D, f, scope, "param")
    BY ParamsAsk
  <1>2. ParameterBatch(o, used, required) = AllocRanked(used, asks, "snake")
    BY ParameterBatchIs
  <1> HIDE DEF D, f, asks, scope
  <1>3. Family(AllocRanked(used, asks, "snake"), used, scope, {"param"})
    BY <1>1, BatchIsFamily
  <1>4. Family(ParameterBatch(o, used, required), used, scope, {"param"})
    BY <1>2, <1>3
  <1> QED BY <1>4 DEF scope

\* A list of hints.
LEMMA HintsAreList ==
  ASSUME NEW list \in Seq(Ident)
  PROVE  IsList(list) /\ \A i \in DOMAIN list : list[i] \in Ident
  BY DEF IsList

\* The bindings are named over the arguments.
LEMMA BindingsNamed ==
  ASSUME NumeralsAreWords, NEW o, WellFormedOperation(o), NEW used, IsFiniteSet(used)
  PROVE  Family(BindingRow(o, used), used, <<"args", o.id>>, {"binding"})
  <1> DEFINE names == Bindings(o)
             scope == <<"args", o.id>>
  <1>1. names \in Seq(Ident)
    <2> DEFINE a == IF \E i \in DOMAIN o.params : ~ o.params[i].required THEN << <<"params">> >> ELSE <<>>
               b == IF o.body THEN << <<"body">> >> ELSE <<>>
               c == << <<"path">>, <<"query">>, <<"raw", "query">>, <<"url">>, <<"request">>,
                       <<"reconnect", "request">>, <<"cookies">> >>
    <2>1. Bindings(o) = a \o b \o c
      BY DEF Bindings
    <2>2. \A v, w \in Fixed : <<v>> \in Ident /\ <<v, w>> \in Ident
      BY FixedWords DEF Ident
    <2>3. a \in Seq(Ident)
      BY <2>2 DEF Fixed
    <2>4. b \in Seq(Ident)
      BY <2>2 DEF Fixed
    <2>5. /\ <<"path">> \in Ident /\ <<"query">> \in Ident /\ <<"raw", "query">> \in Ident
          /\ <<"url">> \in Ident /\ <<"request">> \in Ident /\ <<"reconnect", "request">> \in Ident
          /\ <<"cookies">> \in Ident
      BY <2>2 DEF Fixed
    <2>6. c \in Seq(Ident)
      BY <2>5
    <2> HIDE DEF a, b, c
    <2> QED BY <2>1, <2>3, <2>4, <2>6
  <1>2. BindingRow(o, used) = Row(used, scope, "binding", names, names, "snake", o.seed)
    BY DEF BindingRow
  <1> HIDE DEF names, scope
  <1>3. IsList(names) /\ \A i \in DOMAIN names : names[i] \in Ident
    BY <1>1, HintsAreList
  <1>4. IsFiniteSet(DOMAIN names) /\ \A i \in DOMAIN names : i \in Nat
    BY <1>3, ListIsFinite
  <1>5. o.seed \in DOMAIN Suffix
    BY DEF WellFormedOperation
  <1>6. Family(BindingRow(o, used), used, scope, {"binding"})
    BY <1>2, <1>3, <1>4, <1>5, RowIsFamily
  <1> QED BY <1>6 DEF scope

\* A signature is clear and belongs to its operation.
LEMMA SignatureNamed ==
  ASSUME NumeralsAreWords, NEW o, WellFormedOperation(o)
  PROVE  /\ Clear(Signature(o)) /\ Under(Signature(o), {"args", "fields"}, {"param", "binding"})
         /\ Belongs(Signature(o), o.id)
  <1> DEFINE required == ParameterBatch(o, {}, TRUE)
             optional == ParameterBatch(o, {}, FALSE)
             bindings == BindingRow(o, required.used)
             F == {required.given, optional.given, bindings.given}
             args == <<"args", o.id>>
             fields == <<"fields", o.id>>
  <1>0. IsFiniteSet({})
    BY FS_EmptySet
  <1>1. ParamScope(o, TRUE) = args /\ ParamScope(o, FALSE) = fields
    BY DEF ParamScope
  <1>2. Family(required, {}, args, {"param"})
    BY <1>0, <1>1, ParametersNamed
  <1>3. Family(optional, {}, fields, {"param"})
    BY <1>0, <1>1, ParametersNamed
  <1>4. Family(bindings, required.used, args, {"binding"})
    <2>1. IsFiniteSet(required.used)
      BY <1>2 DEF Family
    <2> QED BY <2>1, BindingsNamed
  <1>5. /\ args[1] = "args" /\ args[2] = o.id /\ fields[1] = "fields" /\ fields[2] = o.id
    OBVIOUS
  <1>6. Signature(o) = Merged(F)
    BY DEF Signature
  <1> HIDE DEF required, optional, bindings, args, fields
  <1>7. /\ Clear(required.given) /\ Clear(bindings.given)
        /\ Apart(required.given, bindings.given) /\ Apart(bindings.given, required.given)
        /\ Under(required.given, {"args"}, {"param"}) /\ Under(bindings.given, {"args"}, {"binding"})
        /\ Belongs(required.given, o.id) /\ Belongs(bindings.given, o.id)
    <2>1. args[1] \notin {"servers", "types", "impl", "root", "setters"}
      BY <1>5
    <2>2. /\ Clear(required.given) /\ Clear(bindings.given)
          /\ Apart(required.given, bindings.given) /\ Apart(bindings.given, required.given)
          /\ Under(required.given, {args[1]}, {"param"}) /\ Under(bindings.given, {args[1]}, {"binding"})
          /\ Belongs(required.given, args[2]) /\ Belongs(bindings.given, args[2])
      BY <1>2, <1>4, <2>1, TwoRows
    <2> QED BY <1>5, <2>2
  <1>8. /\ Clear(optional.given) /\ Under(optional.given, {"fields"}, {"param"})
        /\ Belongs(optional.given, o.id)
    <2>1. fields[1] \notin {"servers", "types", "impl", "root", "setters"}
      BY <1>5
    <2>2. NamedIn(optional.given, {}, optional.used, fields, {"param"})
      BY <1>3 DEF Family
    <2>3. Standing(fields) \subseteq {}
      BY <2>1, StandingElsewhere
    <2>4. Clear(optional.given) /\ Under(optional.given, {fields[1]}, {"param"})
      BY <2>2, <2>3, NamedIsClear
    <2>5. Belongs(optional.given, o.id)
      BY <1>5, <2>2 DEF NamedIn, Belongs
    <2> QED BY <1>5, <2>4, <2>5
  <1>9. /\ Apart(optional.given, required.given) /\ Apart(required.given, optional.given)
        /\ Apart(optional.given, bindings.given) /\ Apart(bindings.given, optional.given)
    <2>1. {"args"} \intersect {"fields"} = {}
      OBVIOUS
    <2> QED BY <1>7, <1>8, <2>1, ApartByKind
  <1>10. Clear(Merged(F))
    <2>1. \A f \in F : Clear(f)
      BY <1>7, <1>8
    <2>2. \A f, g \in F : f # g => Apart(f, g)
      BY <1>7, <1>9
    <2> HIDE DEF F
    <2> QED BY <2>1, <2>2, MergedClear
  <1>11. Under(Merged(F), {"args", "fields"}, {"param", "binding"})
    <2>1. \A f \in F : Under(f, {"args", "fields"}, {"param", "binding"})
      BY <1>7, <1>8 DEF Under
    <2> HIDE DEF F
    <2> QED BY <2>1, MergedUnder
  <1>12. Belongs(Merged(F), o.id)
    <2>1. \A f \in F : Belongs(f, o.id)
      BY <1>7, <1>8
    <2> HIDE DEF F
    <2> QED BY <2>1, MergedBelongs
  <1> QED BY <1>6, <1>10, <1>11, <1>12

-----------------------------------------------------------------------------
\* The listed members are named first.
LEMMA ListedNamed ==
  ASSUME NumeralsAreWords, NEW t, WellFormedType(t)
  PROVE  Family(ListedRow(t, {}), {}, <<"members", t.id>>, {"listed"})
  <1> DEFINE items == Ids(t.members)
             hints == Hints(t.members)
             scope == <<"members", t.id>>
             role == MemberRole(t)
  <1>1. IsList(items) /\ \A i \in DOMAIN items : hints[i] \in Ident
    BY ListHints DEF WellFormedType
  <1>2. t.seed \in DOMAIN Suffix
    BY DEF WellFormedType
  <1>3. ListedRow(t, {}) = Row({}, scope, "listed", items, hints, role, t.seed)
    BY DEF ListedRow
  <1> HIDE DEF items, hints, scope, role
  <1>4. IsFiniteSet(DOMAIN items) /\ \A i \in DOMAIN items : i \in Nat
    BY <1>1, ListIsFinite
  <1>5. IsFiniteSet({})
    BY FS_EmptySet
  <1>6. Family(ListedRow(t, {}), {}, scope, {"listed"})
    BY <1>1, <1>2, <1>3, <1>4, <1>5, RowIsFamily
  <1> QED BY <1>6 DEF scope

\* What is added is named over the listed members.
LEMMA AddedNamed ==
  ASSUME NumeralsAreWords, NEW t, WellFormedType(t), NEW used, IsFiniteSet(used)
  PROVE  Family(AddedRow(t, used), used, <<"members", t.id>>, {"added"})
  <1> DEFINE names == Added(t)
             scope == <<"members", t.id>>
             role == MemberRole(t)
  <1>1. names \in Seq(Ident)
    <2>1. <<"additional">> \in Ident /\ <<"other">> \in Ident /\ <<"unknown">> \in Ident
      BY FixedWords DEF Ident, Fixed
    <2>2. t.open => t.kind \in {"struct", "enum", "union"}
      BY DEF WellFormedType
    <2>3. \/ Added(t) = <<>> \/ Added(t) = << <<"additional">> >>
          \/ Added(t) = << <<"other">> >> \/ Added(t) = << <<"unknown">> >>
      BY <2>2 DEF Added
    <2>4. <<>> \in Seq(Ident) /\ \A n \in Ident : <<n>> \in Seq(Ident)
      OBVIOUS
    <2> QED BY <2>1, <2>3, <2>4, Zenon
  <1>2. AddedRow(t, used) = Row(used, scope, "added", names, names, role, t.seed)
    BY DEF AddedRow
  <1>3. t.seed \in DOMAIN Suffix
    BY DEF WellFormedType
  <1> HIDE DEF names, scope, role
  <1>4. IsList(names) /\ \A i \in DOMAIN names : names[i] \in Ident
    BY <1>1, HintsAreList
  <1>5. IsFiniteSet(DOMAIN names) /\ \A i \in DOMAIN names : i \in Nat
    BY <1>4, ListIsFinite
  <1>6. Family(AddedRow(t, used), used, scope, {"added"})
    BY <1>2, <1>3, <1>4, <1>5, RowIsFamily
  <1> QED BY <1>6 DEF scope

\* The members of a type are clear and belong to it.
LEMMA MembersNamed ==
  ASSUME NumeralsAreWords, NEW t, WellFormedType(t)
  PROVE  /\ Clear(Members(t)) /\ Under(Members(t), {"members"}, {"listed", "added"})
         /\ Belongs(Members(t), t.id)
  <1> DEFINE listed == ListedRow(t, {})
             added == AddedRow(t, listed.used)
             F == {listed.given, added.given}
             scope == <<"members", t.id>>
  <1>1. Family(listed, {}, scope, {"listed"})
    BY ListedNamed
  <1>2. Family(added, listed.used, scope, {"added"})
    <2>1. IsFiniteSet(listed.used)
      BY <1>1 DEF Family
    <2> QED BY <2>1, AddedNamed
  <1>3. scope[1] = "members" /\ scope[2] = t.id
    OBVIOUS
  <1>4. Members(t) = Merged(F)
    BY DEF Members
  <1> HIDE DEF listed, added, scope
  <1>5. /\ Clear(listed.given) /\ Clear(added.given)
        /\ Apart(listed.given, added.given) /\ Apart(added.given, listed.given)
        /\ Under(listed.given, {scope[1]}, {"listed"}) /\ Under(added.given, {scope[1]}, {"added"})
        /\ Belongs(listed.given, scope[2]) /\ Belongs(added.given, scope[2])
    <2>1. scope[1] \notin {"servers", "types", "impl", "root", "setters"}
      BY <1>3
    <2> QED BY <1>1, <1>2, <2>1, TwoRows
  <1>6. Clear(Merged(F))
    <2>1. \A f \in F : Clear(f)
      BY <1>5
    <2>2. \A f, g \in F : f # g => Apart(f, g)
      BY <1>5
    <2> HIDE DEF F
    <2> QED BY <2>1, <2>2, MergedClear
  <1>7. Under(Merged(F), {"members"}, {"listed", "added"})
    <2>1. \A f \in F : Under(f, {"members"}, {"listed", "added"})
      BY <1>3, <1>5 DEF Under
    <2> HIDE DEF F
    <2> QED BY <2>1, MergedUnder
  <1>8. Belongs(Merged(F), t.id)
    <2>1. \A f \in F : Belongs(f, t.id)
      BY <1>3, <1>5
    <2> HIDE DEF F
    <2> QED BY <2>1, MergedBelongs
  <1> QED BY <1>4, <1>6, <1>7, <1>8

-----------------------------------------------------------------------------
\* What belongs to each of several items.
LEMMA ItemsMerged ==
  ASSUME NEW list, Listing(list), NEW f, NEW kinds, NEW families,
         \A x \in ToSet(list) : Clear(f[x]) /\ Under(f[x], kinds, families) /\ Belongs(f[x], x.id)
  PROVE  LET all == Merged({f[x] : x \in ToSet(list)})
         IN  Clear(all) /\ Under(all, kinds, families)
  <1> DEFINE F == {f[x] : x \in ToSet(list)}
  <1>1. \A g \in F : \E x \in ToSet(list) : g = f[x]
    OBVIOUS
  <1>2. \A g \in F : Clear(g) /\ Under(g, kinds, families)
    OBVIOUS
  <1>3. ASSUME NEW g \in F, NEW h \in F, g # h PROVE Apart(g, h)
    <2>1. PICK x \in ToSet(list), y \in ToSet(list) : g = f[x] /\ h = f[y]
      OBVIOUS
    <2>2. x.id # y.id
      BY <1>3, <2>1, ItemsDiffer
    <2> QED BY <2>1, <2>2, BelongApart
  <1> HIDE DEF F
  <1>4. Clear(Merged(F)) /\ Under(Merged(F), kinds, families)
    BY <1>2, <1>3, MergedClear, MergedUnder
  <1> QED BY <1>4 DEF F

-----------------------------------------------------------------------------
(* Servers.                                                                *)

\* Builders and enums of the servers.
BuildersOf(servers) == UNION {BuilderAsks(servers[i], i) : i \in DOMAIN servers}

\* The requests of builders and variables can be served together.
LEMMA BuilderRequests ==
  ASSUME NEW servers, Listing(servers), \A s \in ToSet(servers) : WellFormedServer(s)
  PROVE  /\ Requests(BuildersOf(servers))
         /\ \A a \in BuildersOf(servers) : a.key.scope = <<"servers">> /\ a.key.family \in {"server", "variable"}
  <1> DEFINE D(i) == {l \in DOMAIN servers[i].variables : servers[i].variables[l].values # <<>>}
             first(i) == Ask(Key(<<"servers">>, "server", <<servers[i].id>>), servers[i].hint, "root",
                             <<i, 0>>, <<i, 0>>)
             next(i, j) == Ask(Key(<<"servers">>, "variable", <<servers[i].id, servers[i].variables[j].id>>),
                               servers[i].hint \o servers[i].variables[j].words, "root", <<i, j>>, <<i, j>>)
  <1>1. /\ IsFiniteSet(DOMAIN servers)
        /\ \A i \in DOMAIN servers : i \in Nat /\ servers[i] \in ToSet(servers)
    BY ListIsFinite DEF Listing
  <1>2. ASSUME NEW i \in DOMAIN servers
        PROVE  /\ servers[i].hint \in Ident
               /\ IsFiniteSet(DOMAIN servers[i].variables)
               /\ \A j \in D(i) : j \in Nat \ {0} /\ servers[i].variables[j].words \in Ident
    <2>1. WellFormedServer(servers[i])
      BY <1>1
    <2>2. Listing(servers[i].variables) /\ Worded(servers[i].variables) /\ servers[i].hint \in Ident
      BY <2>1 DEF WellFormedServer
    <2>3. /\ IsFiniteSet(DOMAIN servers[i].variables)
          /\ \A j \in DOMAIN servers[i].variables :
                j \in Nat \ {0} /\ servers[i].variables[j] \in ToSet(servers[i].variables)
      BY <2>2, ListIsFinite DEF Listing
    <2> QED BY <2>2, <2>3 DEF Worded
  <1>3. \A i \in DOMAIN servers : BuilderAsks(servers[i], i) = {first(i)} \union {next(i, j) : j \in D(i)}
    BY DEF BuilderAsks
  <1>4. ASSUME NEW i \in DOMAIN servers
        PROVE  /\ Request(first(i)) /\ first(i).listed = <<i, 0>>
               /\ first(i).key.scope = <<"servers">> /\ first(i).key.family = "server"
    <2>1. <<i, 0>> \in Seq(Nat) /\ "root" \in DOMAIN Suffix /\ servers[i].hint \in Ident
      BY <1>1, <1>2, SuffixesAreWords
    <2> QED BY <2>1 DEF Request, Ask, Key
  <1>5. ASSUME NEW i \in DOMAIN servers, NEW j \in D(i)
        PROVE  /\ Request(next(i, j)) /\ next(i, j).listed = <<i, j>> /\ j # 0
               /\ next(i, j).key.scope = <<"servers">> /\ next(i, j).key.family = "variable"
    <2> DEFINE hint == servers[i].hint \o servers[i].variables[j].words
    <2>1. <<i, j>> \in Seq(Nat) /\ "root" \in DOMAIN Suffix /\ j # 0
      BY <1>1, <1>2, SuffixesAreWords
    <2>2. hint \in Ident
      <3>1. servers[i].hint \in Ident /\ servers[i].variables[j].words \in Ident
        BY <1>2
      <3> QED BY <3>1 DEF Ident
    <2> DEFINE item == <<servers[i].id, servers[i].variables[j].id>>
    <2>3. next(i, j) = Ask(Key(<<"servers">>, "variable", item), hint, "root", <<i, j>>, <<i, j>>)
      OBVIOUS
    <2> HIDE DEF hint, item, D, next
    <2> QED BY <2>1, <2>2, <2>3 DEF Request, Ask, Key
  <1>6. ASSUME NEW i \in DOMAIN servers PROVE IsFiniteSet(BuilderAsks(servers[i], i))
    <2> DEFINE f == [j \in D(i) |-> next(i, j)]
    <2>1. IsFiniteSet(D(i))
      BY <1>2, FS_Subset
    <2>2. {next(i, j) : j \in D(i)} = {f[j] : j \in D(i)}
      OBVIOUS
    <2> HIDE DEF f, D, first, next
    <2>3. IsFiniteSet({f[j] : j \in D(i)})
      BY <2>1, ImageFinite
    <2>4. IsFiniteSet({first(i)})
      BY FS_Singleton
    <2>5. IsFiniteSet({first(i)} \union {f[j] : j \in D(i)})
      BY <2>3, <2>4, FS_Union
    <2> QED BY <1>3, <2>2, <2>5
  <1> HIDE DEF first, next, D
  <1>7. IsFiniteSet(BuildersOf(servers))
    <2> DEFINE rows == [i \in DOMAIN servers |-> BuilderAsks(servers[i], i)]
    <2>1. BuildersOf(servers) = UNION {rows[i] : i \in DOMAIN servers}
      BY DEF BuildersOf
    <2>2. \A i \in DOMAIN servers : IsFiniteSet(rows[i])
      BY <1>6
    <2> HIDE DEF rows
    <2>3. IsFiniteSet({rows[i] : i \in DOMAIN servers})
      BY <1>1, ImageFinite
    <2> QED BY <2>1, <2>2, <2>3, FS_UNION
  <1>8. \A a \in BuildersOf(servers) : \E i \in DOMAIN servers :
           a = first(i) \/ \E j \in D(i) : a = next(i, j)
    <2> TAKE a \in BuildersOf(servers)
    <2>1. PICK i \in DOMAIN servers : a \in BuilderAsks(servers[i], i)
      BY DEF BuildersOf
    <2> QED BY <1>3, <2>1
  <1>9. \A a \in BuildersOf(servers) :
           Request(a) /\ a.key.scope = <<"servers">> /\ a.key.family \in {"server", "variable"}
    BY <1>4, <1>5, <1>8
  <1>10. ASSUME NEW a \in BuildersOf(servers), NEW b \in BuildersOf(servers), a.listed = b.listed
         PROVE  a = b
    <2>1. PICK i \in DOMAIN servers : a = first(i) \/ \E j \in D(i) : a = next(i, j)
      BY <1>8
    <2>2. PICK k \in DOMAIN servers : b = first(k) \/ \E j \in D(k) : b = next(k, j)
      BY <1>8
    <2>3. \A v, w, x, y : <<v, w>> = <<x, y>> => v = x /\ w = y
      OBVIOUS
    <2>4. CASE a = first(i) /\ b = first(k)
      <3>1. <<i, 0>> = <<k, 0>>
        BY <1>4, <1>10, <2>4
      <3> QED BY <2>3, <2>4, <3>1
    <2>5. CASE a = first(i) /\ \E j \in D(k) : b = next(k, j)
      <3>1. PICK j \in D(k) : b = next(k, j)
        BY <2>5
      <3>2. <<i, 0>> = <<k, j>> /\ j # 0
        BY <1>4, <1>5, <1>10, <2>5, <3>1
      <3> QED BY <2>3, <3>2
    <2>6. CASE b = first(k) /\ \E j \in D(i) : a = next(i, j)
      <3>1. PICK j \in D(i) : a = next(i, j)
        BY <2>6
      <3>2. <<i, j>> = <<k, 0>> /\ j # 0
        BY <1>4, <1>5, <1>10, <2>6, <3>1
      <3> QED BY <2>3, <3>2
    <2>7. CASE (\E j \in D(i) : a = next(i, j)) /\ (\E j \in D(k) : b = next(k, j))
      <3>1. PICK j \in D(i) : a = next(i, j)
        BY <2>7
      <3>2. PICK l \in D(k) : b = next(k, l)
        BY <2>7
      <3>3. <<i, j>> = <<k, l>>
        BY <1>5, <1>10, <3>1, <3>2
      <3> QED BY <2>3, <3>1, <3>2, <3>3
    <2> QED BY <2>1, <2>2, <2>4, <2>5, <2>6, <2>7
  <1> QED BY <1>7, <1>9, <1>10 DEF Requests

\* The names of the servers are clear.
LEMMA ServersNamed ==
  ASSUME NumeralsAreWords, NEW servers, Listing(servers), \A s \in ToSet(servers) : WellFormedServer(s)
  PROVE  /\ Clear(ServerNames(servers))
         /\ Under(ServerNames(servers), {"servers", "setters", "values"},
                  {"server", "variable", "setter", "value"})
  <1> DEFINE builders == BuilderRow(servers).given
             setters == {Setters(s) : s \in ToSet(servers)}
             values == UNION {{Values(s, v) : v \in ToSet(s.variables)} : s \in ToSet(servers)}
             F == {builders} \union setters \union values
  <1>1. ServerNames(servers) = Merged(F)
    BY DEF ServerNames
  <1>2. Clear(builders) /\ Under(builders, {"servers"}, {"server", "variable"})
    <2> DEFINE used == Reserved({}, ServersModule)
               asks == BuildersOf(servers)
    <2>1. BuilderRow(servers) = AllocEach(used, asks, "pascal")
      BY DEF BuilderRow, BuildersOf
    <2>2. used = ServersModule /\ IsFiniteSet(used)
      BY StandingNames DEF Reserved
    <2>3. Requests(asks) /\ \A a \in asks : a.key.scope = <<"servers">> /\ a.key.family \in {"server", "variable"}
      BY BuilderRequests
    <2>4. Standing(<<"servers">>) \subseteq used
      BY <2>2, StandingIn
    <2> HIDE DEF used, asks
    <2> DEFINE scope == <<"servers">>
               done == AllocEach(used, asks, "pascal")
    <2>5. Gives(used, asks, done)
      BY <2>2, <2>3, AllocEachGives
    <2>6. scope[1] = "servers"
      OBVIOUS
    <2> HIDE DEF done, scope
    <2>7. Family(done, used, scope, {"server", "variable"})
      BY <2>3, <2>5, GivesFamily DEF scope
    <2>8. Clear(done.given) /\ Under(done.given, {scope[1]}, {"server", "variable"})
      BY <2>4, <2>7, NamedIsClear DEF Family, scope
    <2> QED BY <2>1, <2>6, <2>8 DEF done
  <1>3. \A s \in ToSet(servers) : /\ OwnScope(Setters(s), <<"setters", s.id>>, {"setter"})
                                  /\ \A v \in ToSet(s.variables) :
                                        OwnScope(Values(s, v), <<"values", s.id, v.id>>, {"value"})
    BY SettersOwn, ValuesOwn
  <1>4. \A f \in setters : \E s \in ToSet(servers) : f = Setters(s)
    OBVIOUS
  <1>5. \A f \in values : \E s \in ToSet(servers) : \E v \in ToSet(s.variables) : f = Values(s, v)
    OBVIOUS
  <1> HIDE DEF builders, setters, values
  <1>6. ASSUME NEW s \in ToSet(servers)
        PROVE  /\ Clear(Setters(s)) /\ Under(Setters(s), {"setters"}, {"setter"})
               /\ \A v \in ToSet(s.variables) :
                     Clear(Values(s, v)) /\ Under(Values(s, v), {"values"}, {"value"})
    <2>1. <<"setters", s.id>>[1] = "setters" /\ \A v \in ToSet(s.variables) : <<"values", s.id, v.id>>[1] = "values"
      OBVIOUS
    <2> QED BY <1>3, <2>1 DEF OwnScope
  <1>7. /\ \A f \in setters : Clear(f) /\ Under(f, {"setters"}, {"setter"})
        /\ \A f \in values : Clear(f) /\ Under(f, {"values"}, {"value"})
    BY <1>4, <1>5, <1>6
  <1>8. ASSUME NEW s \in ToSet(servers), NEW z \in ToSet(servers), Setters(s) # Setters(z)
        PROVE  Apart(Setters(s), Setters(z))
    <2> DEFINE scope == <<"setters", s.id>>
               place == <<"setters", z.id>>
    <2>1. scope # place
      <3>1. s.id # z.id
        BY <1>8, ItemsDiffer
      <3> QED BY <3>1
    <2>2. OwnScope(Setters(s), scope, {"setter"}) /\ OwnScope(Setters(z), place, {"setter"})
      BY <1>3
    <2> HIDE DEF scope, place
    <2> QED BY <2>1, <2>2, OwnScopesApart
  <1>9. ASSUME NEW s \in ToSet(servers), NEW z \in ToSet(servers),
               NEW v \in ToSet(s.variables), NEW w \in ToSet(z.variables), Values(s, v) # Values(z, w)
        PROVE  Apart(Values(s, v), Values(z, w))
    <2> DEFINE scope == <<"values", s.id, v.id>>
               place == <<"values", z.id, w.id>>
    <2>1. scope # place
      <3>1. s.id = z.id => s = z
        BY ItemsDiffer
      <3>2. s = z /\ v.id = w.id => v = w
        BY ItemsDiffer DEF WellFormedServer
      <3> QED BY <1>9, <3>1, <3>2
    <2>2. OwnScope(Values(s, v), scope, {"value"}) /\ OwnScope(Values(z, w), place, {"value"})
      BY <1>3
    <2> HIDE DEF scope, place
    <2> QED BY <2>1, <2>2, OwnScopesApart
  <1>10. \A f, g \in setters : f # g => Apart(f, g)
    BY <1>4, <1>8
  <1>11. \A f, g \in values : f # g => Apart(f, g)
    BY <1>5, <1>9
  <1>12. /\ \A f \in setters : Apart(builders, f) /\ Apart(f, builders)
         /\ \A f \in values : Apart(builders, f) /\ Apart(f, builders)
         /\ \A f \in setters, g \in values : Apart(f, g) /\ Apart(g, f)
    <2>1. /\ {"servers"} \intersect {"setters"} = {} /\ {"servers"} \intersect {"values"} = {}
          /\ {"setters"} \intersect {"values"} = {}
      OBVIOUS
    <2> QED BY <1>2, <1>7, <2>1, ApartByKind
  <1>13. Clear(Merged(F))
    <2>1. \A f \in F : Clear(f)
      BY <1>2, <1>7
    <2>2. \A f, g \in F : f # g => Apart(f, g)
      BY <1>10, <1>11, <1>12
    <2> HIDE DEF F
    <2> QED BY <2>1, <2>2, MergedClear
  <1>14. Under(Merged(F), {"servers", "setters", "values"}, {"server", "variable", "setter", "value"})
    <2>1. \A f \in F : Under(f, {"servers", "setters", "values"}, {"server", "variable", "setter", "value"})
      <3> TAKE f \in F
      <3>1. CASE f = builders
        BY <1>2, <3>1 DEF Under
      <3>2. CASE f \in setters
        BY <1>7, <3>2 DEF Under
      <3>3. CASE f \in values
        BY <1>7, <3>3 DEF Under
      <3> QED BY <3>1, <3>2, <3>3
    <2> HIDE DEF F
    <2> QED BY <2>1, MergedUnder
  <1> QED BY <1>1, <1>13, <1>14

-----------------------------------------------------------------------------
(* The parts of an API, by the stage that names them.                      *)

TypesOf(a) == TypeBatch(FreshScopes.types, a.types)
HeadersOf(a) == HeaderBatch(TypesOf(a).used, a.ops)
MethodsOf(a) == MethodBatch(FreshScopes.impl, a.ops)
ParamsOf(a) == ParamsBatch(FreshScopes.root, a.ops)
AccessorsOf(a) == AccessorBatch(MethodsOf(a).used, MethodsOf(a).given, a.ops)
ErrorsOf(a) == ErrorBatch(ParamsOf(a).used, MethodsOf(a).given, a.ops)
SuccessesOf(a) == SuccessBatch(ErrorsOf(a).used, MethodsOf(a).given, a.ops)

\* The stages that name something.
StageNames == {"servers", "types", "headers", "methods", "params", "signatures",
               "accessors", "errors", "successes", "members"}

\* What each of them gives.
Part(a, q) ==
  CASE q = "servers" -> ServerNames(a.servers)
    [] q = "types" -> TypesOf(a).given
    [] q = "headers" -> HeadersOf(a).given
    [] q = "methods" -> MethodsOf(a).given
    [] q = "params" -> ParamsOf(a).given
    [] q = "signatures" -> Merged({Signature(o) : o \in ToSet(a.ops)})
    [] q = "accessors" -> AccessorsOf(a).given
    [] q = "errors" -> ErrorsOf(a).given
    [] q = "successes" -> SuccessesOf(a).given
    [] q = "members" -> Merged({Members(t) : t \in ToSet(a.types)})

\* The kinds of scopes it names in, and the families it names.
KindsOf(q) ==
  CASE q = "servers" -> {"servers", "setters", "values"}
    [] q = "types" -> {"types"}
    [] q = "headers" -> {"types", "header fields"}
    [] q \in {"methods", "accessors"} -> {"impl"}
    [] q \in {"params", "errors", "successes"} -> {"root"}
    [] q = "signatures" -> {"args", "fields"}
    [] q = "members" -> {"members"}

FamiliesOf(q) ==
  CASE q = "servers" -> {"server", "variable", "setter", "value"}
    [] q = "types" -> {"model"}
    [] q = "headers" -> {"headers", "header"}
    [] q = "methods" -> {"method"}
    [] q = "params" -> {"params"}
    [] q = "signatures" -> {"param", "binding"}
    [] q = "accessors" -> {"accessor"}
    [] q = "errors" -> {"error"}
    [] q = "successes" -> {"success"}
    [] q = "members" -> {"listed", "added"}

\* Part, stage by stage.
LEMMA PartIs ==
  ASSUME NEW a
  PROVE  /\ Part(a, "servers") = ServerNames(a.servers)
         /\ Part(a, "types") = TypesOf(a).given
         /\ Part(a, "headers") = HeadersOf(a).given
         /\ Part(a, "methods") = MethodsOf(a).given
         /\ Part(a, "params") = ParamsOf(a).given
         /\ Part(a, "signatures") = Merged({Signature(o) : o \in ToSet(a.ops)})
         /\ Part(a, "accessors") = AccessorsOf(a).given
         /\ Part(a, "errors") = ErrorsOf(a).given
         /\ Part(a, "successes") = SuccessesOf(a).given
         /\ Part(a, "members") = Merged({Members(t) : t \in ToSet(a.types)})
  BY DEF Part

\* KindsOf, stage by stage.
LEMMA KindsAre ==
  /\ KindsOf("servers") = {"servers", "setters", "values"}
  /\ KindsOf("types") = {"types"} /\ KindsOf("headers") = {"types", "header fields"}
  /\ KindsOf("methods") = {"impl"} /\ KindsOf("accessors") = {"impl"}
  /\ KindsOf("params") = {"root"} /\ KindsOf("errors") = {"root"} /\ KindsOf("successes") = {"root"}
  /\ KindsOf("signatures") = {"args", "fields"} /\ KindsOf("members") = {"members"}
  BY DEF KindsOf

\* FamiliesOf, stage by stage.
LEMMA FamiliesAre ==
  /\ FamiliesOf("servers") = {"server", "variable", "setter", "value"}
  /\ FamiliesOf("types") = {"model"} /\ FamiliesOf("headers") = {"headers", "header"}
  /\ FamiliesOf("methods") = {"method"} /\ FamiliesOf("accessors") = {"accessor"}
  /\ FamiliesOf("params") = {"params"} /\ FamiliesOf("errors") = {"error"}
  /\ FamiliesOf("successes") = {"success"}
  /\ FamiliesOf("signatures") = {"param", "binding"} /\ FamiliesOf("members") = {"listed", "added"}
  BY DEF FamiliesOf

\* No family is named in two stages.
LEMMA FamiliesDiffer ==
  ASSUME NEW p \in StageNames, NEW q \in StageNames, p # q
  PROVE  FamiliesOf(p) \intersect FamiliesOf(q) = {}
  BY FamiliesAre DEF StageNames

-----------------------------------------------------------------------------
\* The fresh scopes hold what stands in them.
LEMMA FreshAre ==
  /\ FreshScopes.types = TypesModule /\ FreshScopes.impl = ClientMethods /\ FreshScopes.root = Reexports
  /\ IsFiniteSet(TypesModule) /\ IsFiniteSet(ClientMethods) /\ IsFiniteSet(Reexports)
  BY StandingNames DEF FreshScopes, Reserved

\* What of an API its stages use.
LEMMA WellFormedParts ==
  ASSUME NEW a, WellFormed(a)
  PROVE  /\ Operations(a.ops)
         /\ Listing(a.types) /\ \A t \in ToSet(a.types) : WellFormedType(t)
         /\ Listing(a.servers) /\ \A s \in ToSet(a.servers) : WellFormedServer(s)
  BY DEF WellFormed, Operations

\* Every operation has its method.
LEMMA MethodsKnown ==
  ASSUME NumeralsAreWords, NEW used, IsFiniteSet(used), NEW ops, Operations(ops)
  PROVE  /\ Methods(MethodBatch(used, ops).given, ops)
         /\ \A i \in DOMAIN ops : Key(<<"impl">>, "method", <<ops[i].id>>) \in DOMAIN MethodBatch(used, ops).given
  <1> DEFINE f == [i \in DOMAIN ops |-> OperationAsk(<<"impl">>, "method", ops, i, ops[i].words)]
             asks == {OperationAsk(<<"impl">>, "method", ops, i, ops[i].words) : i \in DOMAIN ops}
             done == MethodBatch(used, ops)
  <1>1. \A i \in DOMAIN ops : i \in Nat /\ WellFormedOperation(ops[i]) /\ ops[i].words \in Ident
    BY OperationsAre DEF WellFormedOperation
  <1>2. \A i \in DOMAIN ops : Asking(f[i], i, <<"impl">>, "method")
    BY <1>1, OperationRequest
  <1>3. done = AllocRanked(used, asks, "snake")
    BY DEF MethodBatch
  <1>4. asks = {f[i] : i \in DOMAIN ops}
    OBVIOUS
  <1>5. \A i \in DOMAIN ops : f[i].key = Key(<<"impl">>, "method", <<ops[i].id>>)
    BY DEF OperationAsk, Ask
  <1> HIDE DEF f, asks, done
  <1>6. AsksFor(asks, DOMAIN ops, f, <<"impl">>, "method")
    BY <1>2, <1>4 DEF AsksFor, Asking
  <1>7. Requests(asks)
    BY <1>6, OperationsAre, AskedRequests
  <1>8. Gives(used, asks, done)
    BY <1>3, <1>7, AllocRankedGives
  <1>9. \A i \in DOMAIN ops : Key(<<"impl">>, "method", <<ops[i].id>>) \in DOMAIN done.given
    BY <1>4, <1>5, <1>8 DEF Gives
  <1>10. Methods(done.given, ops)
    BY <1>8, <1>9 DEF Methods, NameOf, Gives
  <1> QED BY <1>9, <1>10 DEF done

\* What each stage names over what is used, when an API is well formed.
LEMMA StagesNamed ==
  ASSUME NumeralsAreWords, NEW a, WellFormed(a)
  PROVE  /\ Family(TypesOf(a), TypesModule, <<"types">>, {"model"})
         /\ Family(MethodsOf(a), ClientMethods, <<"impl">>, {"method"})
         /\ Methods(MethodsOf(a).given, a.ops)
         /\ Family(AccessorsOf(a), MethodsOf(a).used, <<"impl">>, {"accessor"})
         /\ Family(ParamsOf(a), Reexports, <<"root">>, {"params"})
         /\ Family(ErrorsOf(a), ParamsOf(a).used, <<"root">>, {"error"})
         /\ Family(SuccessesOf(a), ErrorsOf(a).used, <<"root">>, {"success"})
  <1>0. Operations(a.ops) /\ Listing(a.types) /\ \A t \in ToSet(a.types) : WellFormedType(t)
    BY WellFormedParts
  <1>1. Family(TypesOf(a), TypesModule, <<"types">>, {"model"})
    BY <1>0, FreshAre, TypesNamed DEF TypesOf
  <1>2. Family(MethodsOf(a), ClientMethods, <<"impl">>, {"method"})
    BY <1>0, FreshAre, MethodsNamed DEF MethodsOf
  <1>3. Methods(MethodsOf(a).given, a.ops)
    BY <1>0, FreshAre, MethodsKnown DEF MethodsOf
  <1>4. Family(AccessorsOf(a), MethodsOf(a).used, <<"impl">>, {"accessor"})
    <2>1. IsFiniteSet(MethodsOf(a).used)
      BY <1>2 DEF Family
    <2> QED BY <1>0, <1>3, <2>1, AccessorsNamed DEF AccessorsOf
  <1>5. Family(ParamsOf(a), Reexports, <<"root">>, {"params"})
    BY <1>0, FreshAre, ParamsNamed DEF ParamsOf
  <1>6. Family(ErrorsOf(a), ParamsOf(a).used, <<"root">>, {"error"})
    <2>1. IsFiniteSet(ParamsOf(a).used)
      BY <1>5 DEF Family
    <2> QED BY <1>0, <1>3, <2>1, ErrorsNamed DEF ErrorsOf
  <1>7. Family(SuccessesOf(a), ErrorsOf(a).used, <<"root">>, {"success"})
    <2>1. IsFiniteSet(ErrorsOf(a).used)
      BY <1>6 DEF Family
    <2> QED BY <1>0, <1>3, <2>1, SuccessesNamed DEF SuccessesOf
  <1> QED BY <1>1, <1>2, <1>3, <1>4, <1>5, <1>6, <1>7

\* A part is clear, of its kinds and of its families.
Sound(f, kinds, families) == Clear(f) /\ Under(f, kinds, families)

\* A family named over what stands in its scope is sound.
LEMMA FamilyIsSound ==
  ASSUME NEW done, NEW used, NEW scope, NEW families, Family(done, used, scope, families),
         Standing(scope) \subseteq used, NEW kind, scope[1] = kind
  PROVE  Sound(done.given, {kind}, families)
  <1>1. NamedIn(done.given, used, done.used, scope, families)
    BY DEF Family
  <1>2. Clear(done.given) /\ Under(done.given, {scope[1]}, families)
    BY <1>1, NamedIsClear
  <1> QED BY <1>2 DEF Sound

\* The batches over shared scopes are sound.
LEMMA BatchesAreSound ==
  ASSUME NumeralsAreWords, NEW a, WellFormed(a)
  PROVE  /\ Sound(TypesOf(a).given, {"types"}, {"model"})
         /\ Sound(MethodsOf(a).given, {"impl"}, {"method"})
         /\ Sound(AccessorsOf(a).given, {"impl"}, {"accessor"})
         /\ Sound(ParamsOf(a).given, {"root"}, {"params"})
         /\ Sound(ErrorsOf(a).given, {"root"}, {"error"})
         /\ Sound(SuccessesOf(a).given, {"root"}, {"success"})
  <1> DEFINE types == <<"types">>
             impl == <<"impl">>
             root == <<"root">>
  <1>1. types[1] = "types" /\ impl[1] = "impl" /\ root[1] = "root"
    OBVIOUS
  <1>2. Standing(types) = TypesModule /\ Standing(impl) = ClientMethods /\ Standing(root) = Reexports
    BY StandingIn
  <1>3. Family(TypesOf(a), TypesModule, types, {"model"})
    BY StagesNamed
  <1>4. Family(MethodsOf(a), ClientMethods, impl, {"method"})
    BY StagesNamed
  <1>5. Family(AccessorsOf(a), MethodsOf(a).used, impl, {"accessor"})
    BY StagesNamed
  <1>6. Family(ParamsOf(a), Reexports, root, {"params"})
    BY StagesNamed
  <1>7. Family(ErrorsOf(a), ParamsOf(a).used, root, {"error"})
    BY StagesNamed
  <1>8. Family(SuccessesOf(a), ErrorsOf(a).used, root, {"success"})
    BY StagesNamed
  <1> HIDE DEF types, impl, root
  <1>9. /\ ClientMethods \subseteq MethodsOf(a).used /\ Reexports \subseteq ParamsOf(a).used
        /\ Reexports \subseteq ErrorsOf(a).used
    BY <1>4, <1>6, <1>7 DEF Family
  <1>10. Sound(TypesOf(a).given, {"types"}, {"model"})
    BY <1>1, <1>2, <1>3, FamilyIsSound
  <1>11. Sound(MethodsOf(a).given, {"impl"}, {"method"})
    BY <1>1, <1>2, <1>4, FamilyIsSound
  <1>12. Sound(AccessorsOf(a).given, {"impl"}, {"accessor"})
    BY <1>1, <1>2, <1>5, <1>9, FamilyIsSound
  <1>13. Sound(ParamsOf(a).given, {"root"}, {"params"})
    BY <1>1, <1>2, <1>6, FamilyIsSound
  <1>14. Sound(ErrorsOf(a).given, {"root"}, {"error"})
    BY <1>1, <1>2, <1>7, <1>9, FamilyIsSound
  <1>15. Sound(SuccessesOf(a).given, {"root"}, {"success"})
    BY <1>1, <1>2, <1>8, <1>9, FamilyIsSound
  <1> QED BY <1>10, <1>11, <1>12, <1>13, <1>14, <1>15

\* The functions of several operations or types, merged.
LEMMA ListsAreSound ==
  ASSUME NumeralsAreWords, NEW a, WellFormed(a)
  PROVE  /\ Sound(Merged({Signature(o) : o \in ToSet(a.ops)}), {"args", "fields"}, {"param", "binding"})
         /\ Sound(Merged({Members(t) : t \in ToSet(a.types)}), {"members"}, {"listed", "added"})
  <1>1. /\ Operations(a.ops) /\ Listing(a.ops) /\ \A o \in ToSet(a.ops) : WellFormedOperation(o)
        /\ Listing(a.types) /\ \A t \in ToSet(a.types) : WellFormedType(t)
    BY WellFormedParts DEF Operations
  <1>2. Sound(Merged({Signature(o) : o \in ToSet(a.ops)}), {"args", "fields"}, {"param", "binding"})
    <2> DEFINE f == [o \in ToSet(a.ops) |-> Signature(o)]
    <2>1. \A o \in ToSet(a.ops) : Clear(f[o]) /\ Under(f[o], {"args", "fields"}, {"param", "binding"})
                                  /\ Belongs(f[o], o.id)
      BY <1>1, SignatureNamed
    <2>2. {Signature(o) : o \in ToSet(a.ops)} = {f[o] : o \in ToSet(a.ops)}
      OBVIOUS
    <2> HIDE DEF f
    <2>3. LET all == Merged({f[o] : o \in ToSet(a.ops)})
          IN  Clear(all) /\ Under(all, {"args", "fields"}, {"param", "binding"})
      BY <1>1, <2>1, ItemsMerged
    <2> QED BY <2>2, <2>3 DEF Sound
  <1>3. Sound(Merged({Members(t) : t \in ToSet(a.types)}), {"members"}, {"listed", "added"})
    <2> DEFINE f == [t \in ToSet(a.types) |-> Members(t)]
    <2>1. \A t \in ToSet(a.types) : Clear(f[t]) /\ Under(f[t], {"members"}, {"listed", "added"})
                                    /\ Belongs(f[t], t.id)
      BY <1>1, MembersNamed
    <2>2. {Members(t) : t \in ToSet(a.types)} = {f[t] : t \in ToSet(a.types)}
      OBVIOUS
    <2> HIDE DEF f
    <2>3. LET all == Merged({f[t] : t \in ToSet(a.types)})
          IN  Clear(all) /\ Under(all, {"members"}, {"listed", "added"})
      BY <1>1, <2>1, ItemsMerged
    <2> QED BY <2>2, <2>3 DEF Sound
  <1> QED BY <1>2, <1>3

\* Every part is clear, of its kinds and of its families.
LEMMA PartsAreClear ==
  ASSUME NumeralsAreWords, NEW a, WellFormed(a), NEW q \in StageNames
  PROVE  Sound(Part(a, q), KindsOf(q), FamiliesOf(q))
  <1>1. CASE q = "servers"
    <2>1. Sound(ServerNames(a.servers), {"servers", "setters", "values"}, {"server", "variable", "setter", "value"})
      BY WellFormedParts, ServersNamed DEF Sound
    <2>2. Part(a, q) = ServerNames(a.servers)
      BY <1>1, PartIs
    <2>3. KindsOf(q) = {"servers", "setters", "values"} /\ FamiliesOf(q) = {"server", "variable", "setter", "value"}
      BY <1>1, KindsAre, FamiliesAre
    <2> QED BY <2>1, <2>2, <2>3
  <1>2. CASE q = "types"
    <2>1. Sound(TypesOf(a).given, {"types"}, {"model"})
      BY BatchesAreSound
    <2>2. Part(a, q) = TypesOf(a).given
      BY <1>2, PartIs
    <2>3. KindsOf(q) = {"types"} /\ FamiliesOf(q) = {"model"}
      BY <1>2, KindsAre, FamiliesAre
    <2> QED BY <2>1, <2>2, <2>3
  <1>3. CASE q = "headers"
    <2>1. Sound(HeadersOf(a).given, {"types", "header fields"}, {"headers", "header"})
      <3>1. IsFiniteSet(TypesOf(a).used) /\ TypesModule \subseteq TypesOf(a).used
        BY StagesNamed DEF Family
      <3>2. Operations(a.ops)
        BY WellFormedParts
      <3> QED BY <3>1, <3>2, HeadersNamed DEF HeadersOf, Sound
    <2>2. Part(a, q) = HeadersOf(a).given
      BY <1>3, PartIs
    <2>3. KindsOf(q) = {"types", "header fields"} /\ FamiliesOf(q) = {"headers", "header"}
      BY <1>3, KindsAre, FamiliesAre
    <2> QED BY <2>1, <2>2, <2>3
  <1>4. CASE q = "methods"
    <2>1. Sound(MethodsOf(a).given, {"impl"}, {"method"})
      BY BatchesAreSound
    <2>2. Part(a, q) = MethodsOf(a).given
      BY <1>4, PartIs
    <2>3. KindsOf(q) = {"impl"} /\ FamiliesOf(q) = {"method"}
      BY <1>4, KindsAre, FamiliesAre
    <2> QED BY <2>1, <2>2, <2>3
  <1>5. CASE q = "params"
    <2>1. Sound(ParamsOf(a).given, {"root"}, {"params"})
      BY BatchesAreSound
    <2>2. Part(a, q) = ParamsOf(a).given
      BY <1>5, PartIs
    <2>3. KindsOf(q) = {"root"} /\ FamiliesOf(q) = {"params"}
      BY <1>5, KindsAre, FamiliesAre
    <2> QED BY <2>1, <2>2, <2>3
  <1>6. CASE q = "signatures"
    <2>1. Sound(Merged({Signature(o) : o \in ToSet(a.ops)}), {"args", "fields"}, {"param", "binding"})
      BY ListsAreSound
    <2>2. Part(a, q) = Merged({Signature(o) : o \in ToSet(a.ops)})
      BY <1>6, PartIs
    <2>3. KindsOf(q) = {"args", "fields"} /\ FamiliesOf(q) = {"param", "binding"}
      BY <1>6, KindsAre, FamiliesAre
    <2> QED BY <2>1, <2>2, <2>3
  <1>7. CASE q = "accessors"
    <2>1. Sound(AccessorsOf(a).given, {"impl"}, {"accessor"})
      BY BatchesAreSound
    <2>2. Part(a, q) = AccessorsOf(a).given
      BY <1>7, PartIs
    <2>3. KindsOf(q) = {"impl"} /\ FamiliesOf(q) = {"accessor"}
      BY <1>7, KindsAre, FamiliesAre
    <2> QED BY <2>1, <2>2, <2>3
  <1>8. CASE q = "errors"
    <2>1. Sound(ErrorsOf(a).given, {"root"}, {"error"})
      BY BatchesAreSound
    <2>2. Part(a, q) = ErrorsOf(a).given
      BY <1>8, PartIs
    <2>3. KindsOf(q) = {"root"} /\ FamiliesOf(q) = {"error"}
      BY <1>8, KindsAre, FamiliesAre
    <2> QED BY <2>1, <2>2, <2>3
  <1>9. CASE q = "successes"
    <2>1. Sound(SuccessesOf(a).given, {"root"}, {"success"})
      BY BatchesAreSound
    <2>2. Part(a, q) = SuccessesOf(a).given
      BY <1>9, PartIs
    <2>3. KindsOf(q) = {"root"} /\ FamiliesOf(q) = {"success"}
      BY <1>9, KindsAre, FamiliesAre
    <2> QED BY <2>1, <2>2, <2>3
  <1>10. CASE q = "members"
    <2>1. Sound(Merged({Members(t) : t \in ToSet(a.types)}), {"members"}, {"listed", "added"})
      BY ListsAreSound
    <2>2. Part(a, q) = Merged({Members(t) : t \in ToSet(a.types)})
      BY <1>10, PartIs
    <2>3. KindsOf(q) = {"members"} /\ FamiliesOf(q) = {"listed", "added"}
      BY <1>10, KindsAre, FamiliesAre
    <2> QED BY <2>1, <2>2, <2>3
  <1> QED BY <1>1, <1>2, <1>3, <1>4, <1>5, <1>6, <1>7, <1>8, <1>9, <1>10 DEF StageNames

\* Stages that share a scope: what is named later avoids what was.
LEMMA PartsShareScopes ==
  ASSUME NumeralsAreWords, NEW a, WellFormed(a)
  PROVE  /\ Apart(Part(a, "types"), Part(a, "headers")) /\ Apart(Part(a, "headers"), Part(a, "types"))
         /\ Apart(Part(a, "methods"), Part(a, "accessors")) /\ Apart(Part(a, "accessors"), Part(a, "methods"))
         /\ Apart(Part(a, "params"), Part(a, "errors")) /\ Apart(Part(a, "errors"), Part(a, "params"))
         /\ Apart(Part(a, "params"), Part(a, "successes")) /\ Apart(Part(a, "successes"), Part(a, "params"))
         /\ Apart(Part(a, "errors"), Part(a, "successes")) /\ Apart(Part(a, "successes"), Part(a, "errors"))
  <1>0. /\ Family(TypesOf(a), TypesModule, <<"types">>, {"model"})
        /\ Family(MethodsOf(a), ClientMethods, <<"impl">>, {"method"})
        /\ Family(AccessorsOf(a), MethodsOf(a).used, <<"impl">>, {"accessor"})
        /\ Family(ParamsOf(a), Reexports, <<"root">>, {"params"})
        /\ Family(ErrorsOf(a), ParamsOf(a).used, <<"root">>, {"error"})
        /\ Family(SuccessesOf(a), ErrorsOf(a).used, <<"root">>, {"success"})
    BY StagesNamed
  <1>1. Apart(TypesOf(a).given, HeadersOf(a).given) /\ Apart(HeadersOf(a).given, TypesOf(a).given)
    <2>1. IsFiniteSet(TypesOf(a).used) /\ TypesModule \subseteq TypesOf(a).used
      BY <1>0 DEF Family
    <2>2. Over(HeadersOf(a).given, <<"types">>, TypesOf(a).used)
      BY <2>1, WellFormedParts, HeadersNamed DEF HeadersOf
    <2>3. NamedIn(TypesOf(a).given, TypesModule, TypesOf(a).used, <<"types">>, {"model"})
      BY <1>0 DEF Family
    <2> QED BY <2>2, <2>3 DEF Over, NamedIn, Apart
  <1>2. Apart(MethodsOf(a).given, AccessorsOf(a).given) /\ Apart(AccessorsOf(a).given, MethodsOf(a).given)
    BY <1>0, ApartByScope DEF Family
  <1>3. Apart(ParamsOf(a).given, ErrorsOf(a).given) /\ Apart(ErrorsOf(a).given, ParamsOf(a).given)
    BY <1>0, ApartByScope DEF Family
  <1>4. Apart(ErrorsOf(a).given, SuccessesOf(a).given) /\ Apart(SuccessesOf(a).given, ErrorsOf(a).given)
    BY <1>0, ApartByScope DEF Family
  <1>5. Apart(ParamsOf(a).given, SuccessesOf(a).given) /\ Apart(SuccessesOf(a).given, ParamsOf(a).given)
    <2>1. ParamsOf(a).used \subseteq ErrorsOf(a).used
      BY <1>0 DEF Family
    <2> QED BY <1>0, <2>1, ApartByScope DEF Family
  <1> QED BY <1>1, <1>2, <1>3, <1>4, <1>5, PartIs

\* The kinds of scopes, by what a stage is.
LEMMA KindsBy ==
  ASSUME NEW s \in StageNames, NEW kind \in KindsOf(s)
  PROVE  \/ kind = "types" /\ s \in {"types", "headers"}
         \/ kind = "impl" /\ s \in {"methods", "accessors"}
         \/ kind = "root" /\ s \in {"params", "errors", "successes"}
         \/ kind \in {"args", "fields"} /\ s = "signatures"
         \/ kind = "members" /\ s = "members"
         \/ kind = "header fields" /\ s = "headers"
         \/ kind \in {"servers", "setters", "values"} /\ s = "servers"
  <1>1. CASE s = "servers"
    BY <1>1, KindsAre
  <1>2. CASE s = "types"
    BY <1>2, KindsAre
  <1>3. CASE s = "headers"
    BY <1>3, KindsAre
  <1>4. CASE s \in {"methods", "accessors"}
    <2>1. KindsOf(s) = {"impl"}
      BY <1>4, KindsAre
    <2> QED BY <1>4, <2>1
  <1>5. CASE s \in {"params", "errors", "successes"}
    <2>1. KindsOf(s) = {"root"}
      BY <1>5, KindsAre
    <2> QED BY <1>5, <2>1
  <1>6. CASE s = "signatures"
    BY <1>6, KindsAre
  <1>7. CASE s = "members"
    BY <1>7, KindsAre
  <1> QED BY <1>1, <1>2, <1>3, <1>4, <1>5, <1>6, <1>7 DEF StageNames

\* Two stages name in scopes of one kind only when they share a scope.
LEMMA StagesShare ==
  ASSUME NEW p \in StageNames, NEW q \in StageNames, p # q, KindsOf(p) \intersect KindsOf(q) # {}
  PROVE  \/ p = "types" /\ q = "headers"
         \/ p = "headers" /\ q = "types"
         \/ p = "methods" /\ q = "accessors"
         \/ p = "accessors" /\ q = "methods"
         \/ p \in {"params", "errors", "successes"} /\ q \in {"params", "errors", "successes"}
  <1>1. PICK kind : kind \in KindsOf(p) /\ kind \in KindsOf(q)
    OBVIOUS
  <1>2. \A s \in StageNames : kind \in KindsOf(s) =>
          \/ kind = "types" /\ s \in {"types", "headers"}
          \/ kind = "impl" /\ s \in {"methods", "accessors"}
          \/ kind = "root" /\ s \in {"params", "errors", "successes"}
          \/ kind \in {"args", "fields"} /\ s = "signatures"
          \/ kind = "members" /\ s = "members"
          \/ kind = "header fields" /\ s = "headers"
          \/ kind \in {"servers", "setters", "values"} /\ s = "servers"
    BY KindsBy
  <1> QED BY <1>1, <1>2

\* What two stages give does not meet.
LEMMA PartsAreApart ==
  ASSUME NumeralsAreWords, NEW a, WellFormed(a), NEW p \in StageNames, NEW q \in StageNames, p # q
  PROVE  Apart(Part(a, p), Part(a, q))
  <1>1. CASE KindsOf(p) \intersect KindsOf(q) = {}
    <2>1. Under(Part(a, p), KindsOf(p), FamiliesOf(p)) /\ Under(Part(a, q), KindsOf(q), FamiliesOf(q))
      BY PartsAreClear DEF Sound
    <2> QED BY <1>1, <2>1, ApartByKind
  <1>2. CASE KindsOf(p) \intersect KindsOf(q) # {}
    <2>1. \/ p = "types" /\ q = "headers"
          \/ p = "headers" /\ q = "types"
          \/ p = "methods" /\ q = "accessors"
          \/ p = "accessors" /\ q = "methods"
          \/ p \in {"params", "errors", "successes"} /\ q \in {"params", "errors", "successes"}
      BY <1>2, StagesShare
    <2> QED BY <2>1, PartsShareScopes
  <1> QED BY <1>1, <1>2

-----------------------------------------------------------------------------
(* The state, a function of the two APIs and of how far each naming is.    *)

\* The place of each stage in Stages.
At == [servers |-> 1, types |-> 2, headers |-> 3, methods |-> 4, params |-> 5, signatures |-> 6,
       accessors |-> 7, errors |-> 8, successes |-> 9, members |-> 10, done |-> 11]

\* The stages before s.
StagesBefore(s) == {p \in StageNames : At[p] < At[s]}

\* What a naming that is at a stage has given.
Gathered(a, s) == Merged({Part(a, p) : p \in StagesBefore(s)})

\* The names taken in the shared scopes then.
ScopesAt(a, s) ==
  [types |-> IF At[s] <= At["types"] THEN TypesModule
             ELSE IF At[s] <= At["headers"] THEN TypesOf(a).used ELSE HeadersOf(a).used,
   impl |-> IF At[s] <= At["methods"] THEN ClientMethods
            ELSE IF At[s] <= At["accessors"] THEN MethodsOf(a).used ELSE AccessorsOf(a).used,
   root |-> IF At[s] <= At["params"] THEN Reexports
            ELSE IF At[s] <= At["errors"] THEN ParamsOf(a).used
            ELSE IF At[s] <= At["successes"] THEN ErrorsOf(a).used ELSE SuccessesOf(a).used]

\* The inductive invariant: how far it is decides what a naming has given and taken.
IndInv ==
  /\ \E a \in Apis : \E v \in Variants(a) : variant = v.of /\ api = <<a, v.api>>
  /\ stage \in [1..2 -> DOMAIN At]
  /\ scopes = [r \in 1..2 |-> ScopesAt(api[r], stage[r])]
  /\ given = [r \in 1..2 |-> Gathered(api[r], stage[r])]

-----------------------------------------------------------------------------
\* Functions that agree where both are defined.
Agree(functions) ==
  \A f, g \in functions : \A k \in DOMAIN f \intersect DOMAIN g : f[k] = g[k]

\* m is each of some functions, where it is defined.
Merges(m, functions) ==
  /\ DOMAIN m = UNION {DOMAIN f : f \in functions}
  /\ m = [k \in DOMAIN m |-> m[k]]
  /\ \A f \in functions : \A k \in DOMAIN f : m[k] = f[k]

\* What merges functions that agree is each of them, where it is defined.
LEMMA MergedIs ==
  ASSUME NEW functions, Agree(functions)
  PROVE  Merges(Merged(functions), functions)
  <1> DEFINE From(k) == CHOOSE f \in functions : k \in DOMAIN f
             D == UNION {DOMAIN f : f \in functions}
  <1>1. Merged(functions) = [k \in D |-> From(k)[k]]
    BY DEF Merged
  <1>2. \A f \in functions : \A k \in DOMAIN f : From(k) \in functions /\ k \in DOMAIN From(k)
    OBVIOUS
  <1>3. \A f \in functions : \A k \in DOMAIN f : From(k)[k] = f[k]
    BY <1>2 DEF Agree
  <1>4. \A f \in functions : \A k \in DOMAIN f : k \in D
    OBVIOUS
  <1>5. Merged(functions) = [k \in DOMAIN Merged(functions) |-> Merged(functions)[k]]
    BY <1>1
  <1> HIDE DEF From
  <1> QED BY <1>1, <1>3, <1>4, <1>5 DEF Merges

\* To merge one more function with what is merged is to merge them all.
LEMMA MergedAdds ==
  ASSUME NEW functions, NEW g, NEW all, all = functions \union {g}, Agree(all)
  PROVE  Merged({Merged(functions), g}) = Merged(all)
  <1> DEFINE m == Merged(functions)
             pair == {m, g}
  <1>1. Agree(functions)
    BY DEF Agree
  <1>2. /\ DOMAIN m = UNION {DOMAIN f : f \in functions}
        /\ \A f \in functions : \A k \in DOMAIN f : m[k] = f[k]
    BY <1>1, MergedIs DEF Merges
  <1> HIDE DEF m
  <1>3. \A k \in DOMAIN m \intersect DOMAIN g : m[k] = g[k]
    <2> TAKE k \in DOMAIN m \intersect DOMAIN g
    <2>1. PICK f \in functions : k \in DOMAIN f
      BY <1>2
    <2> QED BY <2>1, <1>2 DEF Agree
  <1>4. Agree(pair)
    BY <1>3 DEF Agree
  <1>5. Merges(Merged(pair), pair)
    BY <1>4, MergedIs
  <1>6. Merges(Merged(all), all)
    BY MergedIs
  <1>7. DOMAIN Merged(pair) = DOMAIN Merged(all)
    <2>1. DOMAIN Merged(pair) = DOMAIN m \union DOMAIN g
      BY <1>5 DEF Merges
    <2>2. UNION {DOMAIN f : f \in all} = (UNION {DOMAIN f : f \in functions}) \union DOMAIN g
      OBVIOUS
    <2> QED BY <1>2, <1>6, <2>1, <2>2 DEF Merges
  <1>8. \A k \in DOMAIN Merged(pair) : Merged(pair)[k] = Merged(all)[k]
    <2> TAKE k \in DOMAIN Merged(pair)
    <2>0. k \in DOMAIN m \/ k \in DOMAIN g
      BY <1>5 DEF Merges
    <2>1. CASE k \in DOMAIN g
      <3>1. Merged(pair)[k] = g[k]
        BY <1>5, <2>1 DEF Merges
      <3>2. Merged(all)[k] = g[k]
        BY <1>6, <2>1 DEF Merges
      <3> QED BY <3>1, <3>2
    <2>2. CASE k \in DOMAIN m
      <3>1. PICK f \in functions : k \in DOMAIN f
        BY <1>2, <2>2
      <3>2. Merged(pair)[k] = m[k]
        BY <1>5, <2>2 DEF Merges
      <3>3. m[k] = f[k]
        BY <1>2, <3>1
      <3>4. f \in all
        OBVIOUS
      <3>5. Merged(all)[k] = f[k]
        BY <1>6, <3>1, <3>4 DEF Merges
      <3> QED BY <3>2, <3>3, <3>5
    <2> QED BY <2>0, <2>1, <2>2
  <1>9. Merged(pair) = Merged(all)
    BY <1>5, <1>6, <1>7, <1>8 DEF Merges
  <1> QED BY <1>9 DEF m

-----------------------------------------------------------------------------
\* Where the stages are.
LEMMA AtIs ==
  /\ DOMAIN At = StageNames \union {"done"}
  /\ At["servers"] = 1 /\ At["types"] = 2 /\ At["headers"] = 3 /\ At["methods"] = 4
  /\ At["params"] = 5 /\ At["signatures"] = 6 /\ At["accessors"] = 7 /\ At["errors"] = 8
  /\ At["successes"] = 9 /\ At["members"] = 10 /\ At["done"] = 11
  BY DEF At, StageNames

\* Stages, place by place.
LEMMA StagesAre ==
  /\ DOMAIN Stages = 1..11
  /\ Stages[1] = "servers" /\ Stages[2] = "types" /\ Stages[3] = "headers" /\ Stages[4] = "methods"
  /\ Stages[5] = "params" /\ Stages[6] = "signatures" /\ Stages[7] = "accessors"
  /\ Stages[8] = "errors" /\ Stages[9] = "successes" /\ Stages[10] = "members" /\ Stages[11] = "done"
  BY DEF Stages

\* The stage after q, and the stages before that.
After(q) == Stages[1 + CHOOSE i \in DOMAIN Stages : Stages[i] = q]

\* The stage after q is one further, and q is all it has passed more.
LEMMA AfterIs ==
  ASSUME NEW q \in StageNames
  PROVE  /\ After(q) \in DOMAIN At /\ At[After(q)] = At[q] + 1
         /\ StagesBefore(After(q)) = StagesBefore(q) \union {q} /\ q \notin StagesBefore(q)
  <1>1. \A i \in DOMAIN Stages : Stages[i] \in DOMAIN At /\ At[Stages[i]] = i
    <2> TAKE i \in DOMAIN Stages
    <2>1. i \in 1..11
      BY StagesAre
    <2>2. CASE i \in 1..4
      BY <2>2, StagesAre, AtIs DEF StageNames
    <2>3. CASE i \in 5..8
      BY <2>3, StagesAre, AtIs DEF StageNames
    <2>4. CASE i \in 9..11
      BY <2>4, StagesAre, AtIs DEF StageNames
    <2> QED BY <2>1, <2>2, <2>3, <2>4
  <1>2. \A p \in StageNames : At[p] \in 1..10 /\ Stages[At[p]] = p
    BY StagesAre, AtIs DEF StageNames
  <1>3. (CHOOSE i \in DOMAIN Stages : Stages[i] = q) = At[q]
    <2>1. At[q] \in DOMAIN Stages /\ Stages[At[q]] = q
      BY <1>2, StagesAre
    <2>2. \A i \in DOMAIN Stages : Stages[i] = q => i = At[q]
      BY <1>1
    <2> QED BY <2>1, <2>2
  <1>4. After(q) = Stages[At[q] + 1]
    <2>1. After(q) = Stages[1 + At[q]]
      BY <1>3 DEF After
    <2> QED BY <1>2, <2>1
  <1>5. At[q] + 1 \in DOMAIN Stages
    BY <1>2, StagesAre
  <1>6. After(q) \in DOMAIN At /\ At[After(q)] = At[q] + 1
    BY <1>1, <1>4, <1>5
  <1>7. \A p \in StageNames : At[p] = At[q] => p = q
    BY <1>2
  <1>8. \A p \in StageNames : At[p] < At[After(q)] <=> At[p] < At[q] \/ p = q
    BY <1>2, <1>6, <1>7
  <1>9. StagesBefore(After(q)) = StagesBefore(q) \union {q} /\ q \notin StagesBefore(q)
    BY <1>2, <1>8 DEF StagesBefore
  <1> QED BY <1>6, <1>9

-----------------------------------------------------------------------------
\* The parts of an API agree: they have no key in common.
LEMMA PartsAgree ==
  ASSUME NumeralsAreWords, NEW a, WellFormed(a), NEW P \in SUBSET StageNames
  PROVE  Agree({Part(a, p) : p \in P})
  <1>1. \A p \in StageNames : Under(Part(a, p), KindsOf(p), FamiliesOf(p))
    BY PartsAreClear DEF Sound
  <1>2. \A p, q \in StageNames : p # q => DOMAIN Part(a, p) \intersect DOMAIN Part(a, q) = {}
    <2>1. SUFFICES ASSUME NEW p \in StageNames, NEW q \in StageNames, p # q,
                          NEW k, k \in DOMAIN Part(a, p), k \in DOMAIN Part(a, q)
                   PROVE  FALSE
      OBVIOUS
    <2>2. k.family \in FamiliesOf(p) /\ k.family \in FamiliesOf(q)
      BY <1>1, <2>1 DEF Under
    <2> QED BY <2>1, <2>2, FamiliesDiffer
  <1> QED BY <1>2 DEF Agree

\* What a stage gives is added to what was gathered.
LEMMA GatheredAdds ==
  ASSUME NumeralsAreWords, NEW a, WellFormed(a), NEW q \in StageNames
  PROVE  Merged({Gathered(a, q), Part(a, q)}) = Gathered(a, After(q))
  <1> DEFINE F == {Part(a, p) : p \in StagesBefore(q)}
             G == {Part(a, p) : p \in StagesBefore(After(q))}
  <1>1. Agree(G)
    BY PartsAgree DEF StagesBefore
  <1>2. G = F \union {Part(a, q)}
    BY AfterIs
  <1>3. Gathered(a, q) = Merged(F) /\ Gathered(a, After(q)) = Merged(G)
    BY DEF Gathered
  <1> HIDE DEF F, G
  <1>4. Merged({Merged(F), Part(a, q)}) = Merged(G)
    BY <1>1, <1>2, MergedAdds
  <1> QED BY <1>3, <1>4

\* What was gathered of a stage that is passed.
LEMMA GatheredIs ==
  ASSUME NumeralsAreWords, NEW a, WellFormed(a), NEW s, NEW p \in StagesBefore(s), NEW k \in DOMAIN Part(a, p)
  PROVE  k \in DOMAIN Gathered(a, s) /\ Gathered(a, s)[k] = Part(a, p)[k]
  <1> DEFINE F == {Part(a, q) : q \in StagesBefore(s)}
  <1>1. Agree(F) /\ Part(a, p) \in F
    BY PartsAgree DEF StagesBefore
  <1>2. Gathered(a, s) = Merged(F)
    BY DEF Gathered
  <1> HIDE DEF F
  <1>3. Merged(F)[k] = Part(a, p)[k]
    <2>1. Merges(Merged(F), F)
      BY <1>1, MergedIs
    <2> QED BY <1>1, <2>1 DEF Merges
  <1>4. k \in DOMAIN Merged(F)
    BY <1>1, MergedFrom
  <1> QED BY <1>2, <1>3, <1>4

\* It is clear.
LEMMA GatheredIsClear ==
  ASSUME NumeralsAreWords, NEW a, WellFormed(a), NEW s
  PROVE  Clear(Gathered(a, s))
  <1> DEFINE F == {Part(a, q) : q \in StagesBefore(s)}
  <1>1. \A f \in F : Clear(f)
    BY PartsAreClear DEF Sound, StagesBefore
  <1>2. \A f, g \in F : f # g => Apart(f, g)
    <2>1. SUFFICES ASSUME NEW f \in F, NEW g \in F, f # g PROVE Apart(f, g)
      OBVIOUS
    <2>2. PICK p \in StageNames : f = Part(a, p)
      BY DEF StagesBefore
    <2>3. PICK q \in StageNames : g = Part(a, q)
      BY DEF StagesBefore
    <2> QED BY <2>1, <2>2, <2>3, PartsAreApart
  <1>3. Gathered(a, s) = Merged(F)
    BY DEF Gathered
  <1> HIDE DEF F
  <1> QED BY <1>1, <1>2, <1>3, MergedClear

-----------------------------------------------------------------------------
(* The steps.                                                              *)

\* What is named after the methods asks for what the methods are called.
LEMMA MethodsDecide ==
  ASSUME NEW used, NEW known, NEW others, NEW ops,
         \A i \in DOMAIN ops : NameOf(known, <<"impl">>, "method", ops[i]) = NameOf(others, <<"impl">>, "method", ops[i])
  PROVE  /\ AccessorBatch(used, known, ops) = AccessorBatch(used, others, ops)
         /\ ErrorBatch(used, known, ops) = ErrorBatch(used, others, ops)
         /\ SuccessBatch(used, known, ops) = SuccessBatch(used, others, ops)
  <1> DEFINE impl == <<"impl">>
             Asks(g) == {OperationAsk(impl, "accessor", ops, i, NameOf(g, impl, "method", ops[i]) \o <<"url">>) : i \in DOMAIN ops}
             Fails(g) == {ErrorAsk(g, ops, i) : i \in DOMAIN ops}
             Done(g) == {SuccessAsk(g, ops, i) : i \in {j \in DOMAIN ops : ops[j].enum}}
  <1>1. \A i \in DOMAIN ops : NameOf(known, impl, "method", ops[i]) = NameOf(others, impl, "method", ops[i])
    OBVIOUS
  <1>2. Asks(known) = Asks(others)
    <2> HIDE DEF impl
    <2> QED BY <1>1
  <1>3. Fails(known) = Fails(others)
    <2>1. \A i \in DOMAIN ops : ErrorAsk(known, ops, i) = ErrorAsk(others, ops, i)
      BY <1>1 DEF ErrorAsk
    <2> QED BY <2>1
  <1>4. Done(known) = Done(others)
    <2>1. \A i \in DOMAIN ops : SuccessAsk(known, ops, i) = SuccessAsk(others, ops, i)
      BY <1>1 DEF SuccessAsk
    <2> QED BY <2>1
  <1>5. AccessorBatch(used, known, ops) = AllocRanked(used, Asks(known), "snake")
        /\ AccessorBatch(used, others, ops) = AllocRanked(used, Asks(others), "snake")
    BY DEF AccessorBatch
  <1>6. ErrorBatch(used, known, ops) = AllocRanked(used, Fails(known), "pascal")
        /\ ErrorBatch(used, others, ops) = AllocRanked(used, Fails(others), "pascal")
    BY DEF ErrorBatch
  <1>7. SuccessBatch(used, known, ops) = AllocRanked(used, Done(known), "pascal")
        /\ SuccessBatch(used, others, ops) = AllocRanked(used, Done(others), "pascal")
    BY DEF SuccessBatch
  <1> HIDE DEF Asks, Fails, Done
  <1> QED BY <1>2, <1>3, <1>4, <1>5, <1>6, <1>7

\* When the methods are named, what was gathered knows them all.
LEMMA GatheredMethods ==
  ASSUME NumeralsAreWords, NEW a, WellFormed(a), NEW s, "methods" \in StagesBefore(s)
  PROVE  \A i \in DOMAIN a.ops : NameOf(Gathered(a, s), <<"impl">>, "method", a.ops[i])
                                  = NameOf(MethodsOf(a).given, <<"impl">>, "method", a.ops[i])
  <1> TAKE i \in DOMAIN a.ops
  <1> DEFINE k == Key(<<"impl">>, "method", <<a.ops[i].id>>)
             g == Gathered(a, s)
  <1>1. Operations(a.ops)
    BY WellFormedParts
  <1>2. k \in DOMAIN MethodsOf(a).given
    BY <1>1, FreshAre, MethodsKnown DEF MethodsOf
  <1>3. Part(a, "methods") = MethodsOf(a).given
    BY PartIs
  <1> HIDE DEF k, g
  <1>4. g[k] = MethodsOf(a).given[k]
    BY <1>2, <1>3, GatheredIs DEF g
  <1> QED BY <1>4 DEF k, g, NameOf

\* The scopes when each shared one is about to be used, and after.
LEMMA ScopesAre ==
  ASSUME NEW a
  PROVE  /\ ScopesAt(a, "types").types = FreshScopes.types
         /\ ScopesAt(a, "headers").types = TypesOf(a).used
         /\ ScopesAt(a, "methods").impl = FreshScopes.impl
         /\ ScopesAt(a, "params").root = FreshScopes.root
         /\ ScopesAt(a, "accessors").impl = MethodsOf(a).used
         /\ ScopesAt(a, "errors").root = ParamsOf(a).used
         /\ ScopesAt(a, "successes").root = ErrorsOf(a).used
  BY AtIs, FreshAre DEF ScopesAt

\* A stage with scopes of its own leaves the shared ones.
LEMMA ScopesStay ==
  ASSUME NEW a, NEW q \in {"servers", "signatures", "members"}
  PROVE  ScopesAt(a, After(q)) = ScopesAt(a, q)
  <1>1. At[After(q)] = At[q] + 1
    BY AfterIs DEF StageNames
  <1>2. At[q] \in {1, 6, 10}
    BY AtIs
  <1> HIDE DEF At
  <1> QED BY <1>1, <1>2, AtIs DEF ScopesAt

\* A batch takes its names in its shared scope.
LEMMA ScopesChange ==
  ASSUME NEW a
  PROVE
    /\ ScopesAt(a, After("types")) = [ScopesAt(a, "types") EXCEPT !["types"] = TypesOf(a).used]
    /\ ScopesAt(a, After("headers")) = [ScopesAt(a, "headers") EXCEPT !["types"] = HeadersOf(a).used]
    /\ ScopesAt(a, After("methods")) = [ScopesAt(a, "methods") EXCEPT !["impl"] = MethodsOf(a).used]
    /\ ScopesAt(a, After("params")) = [ScopesAt(a, "params") EXCEPT !["root"] = ParamsOf(a).used]
    /\ ScopesAt(a, After("accessors")) = [ScopesAt(a, "accessors") EXCEPT !["impl"] = AccessorsOf(a).used]
    /\ ScopesAt(a, After("errors")) = [ScopesAt(a, "errors") EXCEPT !["root"] = ErrorsOf(a).used]
    /\ ScopesAt(a, After("successes")) = [ScopesAt(a, "successes") EXCEPT !["root"] = SuccessesOf(a).used]
  <1>1. ScopesAt(a, After("types")) = [ScopesAt(a, "types") EXCEPT !["types"] = TypesOf(a).used]
    <2>1. At[After("types")] = At["types"] + 1
      BY AfterIs DEF StageNames
    <2> QED BY <2>1, AtIs DEF ScopesAt
  <1>2. ScopesAt(a, After("headers")) = [ScopesAt(a, "headers") EXCEPT !["types"] = HeadersOf(a).used]
    <2>1. At[After("headers")] = At["headers"] + 1
      BY AfterIs DEF StageNames
    <2> QED BY <2>1, AtIs DEF ScopesAt
  <1>3. ScopesAt(a, After("methods")) = [ScopesAt(a, "methods") EXCEPT !["impl"] = MethodsOf(a).used]
    <2>1. At[After("methods")] = At["methods"] + 1
      BY AfterIs DEF StageNames
    <2> QED BY <2>1, AtIs DEF ScopesAt
  <1>4. ScopesAt(a, After("params")) = [ScopesAt(a, "params") EXCEPT !["root"] = ParamsOf(a).used]
    <2>1. At[After("params")] = At["params"] + 1
      BY AfterIs DEF StageNames
    <2> QED BY <2>1, AtIs DEF ScopesAt
  <1>5. ScopesAt(a, After("accessors")) = [ScopesAt(a, "accessors") EXCEPT !["impl"] = AccessorsOf(a).used]
    <2>1. At[After("accessors")] = At["accessors"] + 1
      BY AfterIs DEF StageNames
    <2> QED BY <2>1, AtIs DEF ScopesAt
  <1>6. ScopesAt(a, After("errors")) = [ScopesAt(a, "errors") EXCEPT !["root"] = ErrorsOf(a).used]
    <2>1. At[After("errors")] = At["errors"] + 1
      BY AfterIs DEF StageNames
    <2> QED BY <2>1, AtIs DEF ScopesAt
  <1>7. ScopesAt(a, After("successes")) = [ScopesAt(a, "successes") EXCEPT !["root"] = SuccessesOf(a).used]
    <2>1. At[After("successes")] = At["successes"] + 1
      BY AfterIs DEF StageNames
    <2> QED BY <2>1, AtIs DEF ScopesAt
  <1> QED BY <1>1, <1>2, <1>3, <1>4, <1>5, <1>6, <1>7

-----------------------------------------------------------------------------
\* Naming r is at q, which it gives, and takes what it takes of the scopes.
Takes(r, q) ==
  /\ stage[r] = q /\ api' = api /\ variant' = variant
  /\ stage' = [stage EXCEPT ![r] = After(q)]
  /\ scopes' = [scopes EXCEPT ![r] = ScopesAt(api[r], After(q))]
  /\ given' = [given EXCEPT ![r] = Merged({@, Part(api[r], q)})]

\* What IndInv says of naming r.
LEMMA HeldAt ==
  ASSUME IndInv, NEW r \in 1..2
  PROVE  /\ WellFormed(api[r])
         /\ stage[r] \in DOMAIN At
         /\ scopes[r] = ScopesAt(api[r], stage[r])
         /\ given[r] = Gathered(api[r], stage[r])
  <1>1. PICK a \in Apis : \E v \in Variants(a) : variant = v.of /\ api = <<a, v.api>>
    BY DEF IndInv
  <1>2. PICK v \in Variants(a) : api = <<a, v.api>>
    BY <1>1
  <1>3. WellFormed(a) /\ WellFormed(v.api)
    BY ApisAreWellFormed
  <1>4. WellFormed(api[r])
    <2>1. r = 1 \/ r = 2
      OBVIOUS
    <2>2. CASE r = 1
      BY <1>2, <1>3, <2>2
    <2>3. CASE r = 2
      BY <1>2, <1>3, <2>3
    <2> QED BY <2>1, <2>2, <2>3
  <1> QED BY <1>4 DEF IndInv

\* To take a stage keeps the invariant.
LEMMA TakesKeeps ==
  ASSUME NumeralsAreWords, IndInv, NEW r \in 1..2, NEW q \in StageNames, Takes(r, q)
  PROVE  IndInv'
  <1>1. \E a \in Apis : \E v \in Variants(a) : variant' = v.of /\ api' = <<a, v.api>>
    BY DEF IndInv, Takes
  <1>2. stage' \in [1..2 -> DOMAIN At]
    BY AfterIs DEF IndInv, Takes
  <1>3. /\ stage \in [1..2 -> DOMAIN At] /\ stage' = [stage EXCEPT ![r] = After(q)]
        /\ api' = api
        /\ scopes' = [scopes EXCEPT ![r] = ScopesAt(api[r], After(q))]
        /\ given' = [given EXCEPT ![r] = Merged({given[r], Part(api[r], q)})]
        /\ scopes = [t \in 1..2 |-> ScopesAt(api[t], stage[t])]
        /\ given = [t \in 1..2 |-> Gathered(api[t], stage[t])]
    BY DEF IndInv, Takes
  <1>4. Merged({given[r], Part(api[r], q)}) = Gathered(api[r], After(q))
    <2>1. WellFormed(api[r]) /\ given[r] = Gathered(api[r], q)
      BY HeldAt DEF Takes
    <2> QED BY <2>1, GatheredAdds
  <1>5. scopes' = [t \in 1..2 |-> ScopesAt(api'[t], stage'[t])]
    BY <1>3
  <1>6. given' = [t \in 1..2 |-> Gathered(api'[t], stage'[t])]
    BY <1>3, <1>4
  <1> QED BY <1>1, <1>2, <1>5, <1>6 DEF IndInv

\* What Advance does.
LEMMA AdvanceIs ==
  ASSUME NEW r, NEW q, Advance(r, q)
  PROVE  /\ stage[r] = q /\ api' = api /\ variant' = variant
         /\ stage' = [stage EXCEPT ![r] = After(q)]
  BY DEF Advance, After

\* An action that allocates a batch takes its stage.
LEMMA AllocatesTakes ==
  ASSUME NEW r \in 1..2, NEW q \in StageNames, NEW scope, NEW done, IndInv,
         Advance(r, q), Allocates(r, scope, done), done.given = Part(api[r], q),
         ScopesAt(api[r], After(q)) = [ScopesAt(api[r], q) EXCEPT ![scope] = done.used]
  PROVE  Takes(r, q)
  <1>1. stage[r] = q
    BY AdvanceIs
  <1>2. scopes[r] = ScopesAt(api[r], q)
    BY <1>1, HeldAt
  <1>3. scopes' = [scopes EXCEPT ![r] = [scopes[r] EXCEPT ![scope] = done.used]]
    BY DEF Allocates
  <1> QED BY <1>2, <1>3, AdvanceIs DEF Takes, Allocates

\* An action that adds names of other scopes takes its stage.
LEMMA AddsTakes ==
  ASSUME NEW r \in 1..2, NEW q \in {"servers", "signatures", "members"}, NEW names, IndInv,
         Advance(r, q), Adds(r, names), names = Part(api[r], q)
  PROVE  Takes(r, q)
  <1>1. stage[r] = q
    BY AdvanceIs
  <1>2. scopes[r] = ScopesAt(api[r], After(q))
    BY <1>1, HeldAt, ScopesStay
  <1>3. scopes' = [scopes EXCEPT ![r] = scopes[r]]
    <2>1. scopes = [t \in 1..2 |-> scopes[t]]
      BY DEF IndInv
    <2> QED BY <2>1 DEF Adds
  <1> QED BY <1>2, <1>3, AdvanceIs DEF Takes, Adds

\* Every action takes its stage.
LEMMA ActionsTake ==
  ASSUME NumeralsAreWords, IndInv, NEW r \in 1..2
  PROVE
    /\ AllocServers(r) => Takes(r, "servers")
    /\ AllocTypes(r) => Takes(r, "types")
    /\ AllocHeaders(r) => Takes(r, "headers")
    /\ AllocMethods(r) => Takes(r, "methods")
    /\ AllocParamsStructs(r) => Takes(r, "params")
    /\ AllocSignatures(r) => Takes(r, "signatures")
    /\ AllocAccessors(r) => Takes(r, "accessors")
    /\ AllocErrors(r) => Takes(r, "errors")
    /\ AllocSuccessEnums(r) => Takes(r, "successes")
    /\ AllocMembers(r) => Takes(r, "members")
  <1>0. WellFormed(api[r]) /\ scopes[r] = ScopesAt(api[r], stage[r]) /\ given[r] = Gathered(api[r], stage[r])
    BY HeldAt
  <1>1. ASSUME AllocServers(r) PROVE Takes(r, "servers")
    <2> DEFINE names == ServerNames(api[r].servers)
    <2>1. Advance(r, "servers") /\ Adds(r, names)
      BY <1>1 DEF AllocServers
    <2>2. names = Part(api[r], "servers")
      BY PartIs
    <2> HIDE DEF names
    <2> QED BY <2>1, <2>2, AddsTakes
  <1>2. ASSUME AllocTypes(r) PROVE Takes(r, "types")
    <2> DEFINE done == TypeBatch(scopes[r].types, api[r].types)
    <2>1. Advance(r, "types") /\ Allocates(r, "types", done)
      BY <1>2 DEF AllocTypes
    <2>2. stage[r] = "types"
      BY <2>1, AdvanceIs
    <2>3. done = TypesOf(api[r])
      <3>1. scopes[r].types = FreshScopes.types
        BY <1>0, <2>2, ScopesAre
      <3> QED BY <3>1 DEF TypesOf
    <2> HIDE DEF done
    <2>4. done.given = Part(api[r], "types")
      BY <2>3, PartIs
    <2>5. ScopesAt(api[r], After("types")) = [ScopesAt(api[r], "types") EXCEPT !["types"] = done.used]
      BY <2>3, ScopesChange
    <2>6. "types" \in StageNames
      BY DEF StageNames
    <2> QED BY <2>1, <2>4, <2>5, <2>6, AllocatesTakes
  <1>3. ASSUME AllocHeaders(r) PROVE Takes(r, "headers")
    <2> DEFINE done == HeaderBatch(scopes[r].types, api[r].ops)
    <2>1. Advance(r, "headers") /\ Allocates(r, "types", done)
      BY <1>3 DEF AllocHeaders
    <2>2. stage[r] = "headers"
      BY <2>1, AdvanceIs
    <2>3. done = HeadersOf(api[r])
      <3>1. scopes[r].types = TypesOf(api[r]).used
        BY <1>0, <2>2, ScopesAre
      <3> QED BY <3>1 DEF HeadersOf
    <2> HIDE DEF done
    <2>4. done.given = Part(api[r], "headers")
      BY <2>3, PartIs
    <2>5. ScopesAt(api[r], After("headers")) = [ScopesAt(api[r], "headers") EXCEPT !["types"] = done.used]
      BY <2>3, ScopesChange
    <2>6. "headers" \in StageNames
      BY DEF StageNames
    <2> QED BY <2>1, <2>4, <2>5, <2>6, AllocatesTakes
  <1>4. ASSUME AllocMethods(r) PROVE Takes(r, "methods")
    <2> DEFINE done == MethodBatch(scopes[r].impl, api[r].ops)
    <2>1. Advance(r, "methods") /\ Allocates(r, "impl", done)
      BY <1>4 DEF AllocMethods
    <2>2. stage[r] = "methods"
      BY <2>1, AdvanceIs
    <2>3. done = MethodsOf(api[r])
      <3>1. scopes[r].impl = FreshScopes.impl
        BY <1>0, <2>2, ScopesAre
      <3> QED BY <3>1 DEF MethodsOf
    <2> HIDE DEF done
    <2>4. done.given = Part(api[r], "methods")
      BY <2>3, PartIs
    <2>5. ScopesAt(api[r], After("methods")) = [ScopesAt(api[r], "methods") EXCEPT !["impl"] = done.used]
      BY <2>3, ScopesChange
    <2>6. "methods" \in StageNames
      BY DEF StageNames
    <2> QED BY <2>1, <2>4, <2>5, <2>6, AllocatesTakes
  <1>5. ASSUME AllocParamsStructs(r) PROVE Takes(r, "params")
    <2> DEFINE done == ParamsBatch(scopes[r].root, api[r].ops)
    <2>1. Advance(r, "params") /\ Allocates(r, "root", done)
      BY <1>5 DEF AllocParamsStructs
    <2>2. stage[r] = "params"
      BY <2>1, AdvanceIs
    <2>3. done = ParamsOf(api[r])
      <3>1. scopes[r].root = FreshScopes.root
        BY <1>0, <2>2, ScopesAre
      <3> QED BY <3>1 DEF ParamsOf
    <2> HIDE DEF done
    <2>4. done.given = Part(api[r], "params")
      BY <2>3, PartIs
    <2>5. ScopesAt(api[r], After("params")) = [ScopesAt(api[r], "params") EXCEPT !["root"] = done.used]
      BY <2>3, ScopesChange
    <2>6. "params" \in StageNames
      BY DEF StageNames
    <2> QED BY <2>1, <2>4, <2>5, <2>6, AllocatesTakes
  <1>6. ASSUME AllocSignatures(r) PROVE Takes(r, "signatures")
    <2> DEFINE names == Merged({Signature(o) : o \in ToSet(api[r].ops)})
    <2>1. Advance(r, "signatures") /\ Adds(r, names)
      BY <1>6 DEF AllocSignatures
    <2>2. names = Part(api[r], "signatures")
      BY PartIs
    <2> HIDE DEF names
    <2> QED BY <2>1, <2>2, AddsTakes
  <1>7. ASSUME AllocAccessors(r) PROVE Takes(r, "accessors")
    <2> DEFINE done == AccessorBatch(scopes[r].impl, given[r], api[r].ops)
    <2>1. Advance(r, "accessors") /\ Allocates(r, "impl", done)
      BY <1>7 DEF AllocAccessors
    <2>2. stage[r] = "accessors"
      BY <2>1, AdvanceIs
    <2>3. done = AccessorsOf(api[r])
      <3>1. "methods" \in StagesBefore("accessors")
        BY AtIs DEF StagesBefore, StageNames
      <3>2. \A i \in DOMAIN api[r].ops : NameOf(given[r], <<"impl">>, "method", api[r].ops[i])
                                         = NameOf(MethodsOf(api[r]).given, <<"impl">>, "method", api[r].ops[i])
        BY <1>0, <2>2, <3>1, GatheredMethods
      <3>3. scopes[r].impl = MethodsOf(api[r]).used
        BY <1>0, <2>2, ScopesAre
      <3> QED BY <3>2, <3>3, MethodsDecide DEF AccessorsOf
    <2> HIDE DEF done
    <2>4. done.given = Part(api[r], "accessors")
      BY <2>3, PartIs
    <2>5. ScopesAt(api[r], After("accessors")) = [ScopesAt(api[r], "accessors") EXCEPT !["impl"] = done.used]
      BY <2>3, ScopesChange
    <2>6. "accessors" \in StageNames
      BY DEF StageNames
    <2> QED BY <2>1, <2>4, <2>5, <2>6, AllocatesTakes
  <1>8. ASSUME AllocErrors(r) PROVE Takes(r, "errors")
    <2> DEFINE done == ErrorBatch(scopes[r].root, given[r], api[r].ops)
    <2>1. Advance(r, "errors") /\ Allocates(r, "root", done)
      BY <1>8 DEF AllocErrors
    <2>2. stage[r] = "errors"
      BY <2>1, AdvanceIs
    <2>3. done = ErrorsOf(api[r])
      <3>1. "methods" \in StagesBefore("errors")
        BY AtIs DEF StagesBefore, StageNames
      <3>2. \A i \in DOMAIN api[r].ops : NameOf(given[r], <<"impl">>, "method", api[r].ops[i])
                                         = NameOf(MethodsOf(api[r]).given, <<"impl">>, "method", api[r].ops[i])
        BY <1>0, <2>2, <3>1, GatheredMethods
      <3>3. scopes[r].root = ParamsOf(api[r]).used
        BY <1>0, <2>2, ScopesAre
      <3> QED BY <3>2, <3>3, MethodsDecide DEF ErrorsOf
    <2> HIDE DEF done
    <2>4. done.given = Part(api[r], "errors")
      BY <2>3, PartIs
    <2>5. ScopesAt(api[r], After("errors")) = [ScopesAt(api[r], "errors") EXCEPT !["root"] = done.used]
      BY <2>3, ScopesChange
    <2>6. "errors" \in StageNames
      BY DEF StageNames
    <2> QED BY <2>1, <2>4, <2>5, <2>6, AllocatesTakes
  <1>9. ASSUME AllocSuccessEnums(r) PROVE Takes(r, "successes")
    <2> DEFINE done == SuccessBatch(scopes[r].root, given[r], api[r].ops)
    <2>1. Advance(r, "successes") /\ Allocates(r, "root", done)
      BY <1>9 DEF AllocSuccessEnums
    <2>2. stage[r] = "successes"
      BY <2>1, AdvanceIs
    <2>3. done = SuccessesOf(api[r])
      <3>1. "methods" \in StagesBefore("successes")
        BY AtIs DEF StagesBefore, StageNames
      <3>2. \A i \in DOMAIN api[r].ops : NameOf(given[r], <<"impl">>, "method", api[r].ops[i])
                                         = NameOf(MethodsOf(api[r]).given, <<"impl">>, "method", api[r].ops[i])
        BY <1>0, <2>2, <3>1, GatheredMethods
      <3>3. scopes[r].root = ErrorsOf(api[r]).used
        BY <1>0, <2>2, ScopesAre
      <3> QED BY <3>2, <3>3, MethodsDecide DEF SuccessesOf
    <2> HIDE DEF done
    <2>4. done.given = Part(api[r], "successes")
      BY <2>3, PartIs
    <2>5. ScopesAt(api[r], After("successes")) = [ScopesAt(api[r], "successes") EXCEPT !["root"] = done.used]
      BY <2>3, ScopesChange
    <2>6. "successes" \in StageNames
      BY DEF StageNames
    <2> QED BY <2>1, <2>4, <2>5, <2>6, AllocatesTakes
  <1>10. ASSUME AllocMembers(r) PROVE Takes(r, "members")
    <2> DEFINE names == Merged({Members(t) : t \in ToSet(api[r].types)})
    <2>1. Advance(r, "members") /\ Adds(r, names)
      BY <1>10 DEF AllocMembers
    <2>2. names = Part(api[r], "members")
      BY PartIs
    <2> HIDE DEF names
    <2> QED BY <2>1, <2>2, AddsTakes
  <1> QED BY <1>1, <1>2, <1>3, <1>4, <1>5, <1>6, <1>7, <1>8, <1>9, <1>10

-----------------------------------------------------------------------------
\* The invariant holds at first.
LEMMA InitHolds == Init => IndInv
  <1>1. SUFFICES ASSUME Init PROVE IndInv
    OBVIOUS
  <1>2. \E a \in Apis : \E v \in Variants(a) : variant = v.of /\ api = <<a, v.api>>
    BY <1>1 DEF Init
  <1>3. stage \in [1..2 -> DOMAIN At] /\ \A r \in 1..2 : stage[r] = "servers"
    <2>1. stage = <<"servers", "servers">>
      BY <1>1 DEF Init
    <2>2. "servers" \in DOMAIN At
      BY AtIs DEF StageNames
    <2> QED BY <2>1, <2>2
  <1>4. StagesBefore("servers") = {}
    BY AtIs DEF StagesBefore, StageNames
  <1>5. \A a : ScopesAt(a, "servers") = FreshScopes
    BY AtIs, FreshAre DEF ScopesAt, FreshScopes
  <1>6. \A a : Gathered(a, "servers") = <<>>
    <2> TAKE a
    <2> DEFINE none == {Part(a, p) : p \in StagesBefore("servers")}
    <2>1. none = {}
      BY <1>4
    <2>2. Agree(none)
      BY <2>1 DEF Agree
    <2>3. Merges(Merged(none), none)
      BY <2>2, MergedIs
    <2> HIDE DEF none
    <2>4. DOMAIN Merged(none) = {} /\ Merged(none) = [k \in DOMAIN Merged(none) |-> Merged(none)[k]]
      BY <2>1, <2>3 DEF Merges
    <2>5. Merged(none) = <<>>
      BY <2>4
    <2> QED BY <2>5 DEF Gathered, none
  <1>7. scopes = [r \in 1..2 |-> FreshScopes]
    BY <1>1 DEF Init
  <1>8. given = [r \in 1..2 |-> <<>>]
    BY <1>1 DEF Init
  <1> QED BY <1>2, <1>3, <1>5, <1>6, <1>7, <1>8 DEF IndInv

\* Every step keeps it.
LEMMA NextKeeps == ASSUME NumeralsAreWords PROVE IndInv /\ [Next]_vars => IndInv'
  <1>1. SUFFICES ASSUME IndInv, [Next]_vars PROVE IndInv'
    OBVIOUS
  <1>2. CASE UNCHANGED vars
    BY <1>1, <1>2 DEF vars, IndInv
  <1>3. ASSUME NEW r \in 1..2, NEW q \in StageNames, Takes(r, q) PROVE IndInv'
    BY <1>1, <1>3, TakesKeeps
  <1>4. CASE Next
    <2>1. PICK r \in 1..2 :
            \/ AllocServers(r)
            \/ AllocTypes(r)
            \/ AllocHeaders(r)
            \/ AllocMethods(r)
            \/ AllocParamsStructs(r)
            \/ AllocSignatures(r)
            \/ AllocAccessors(r)
            \/ AllocErrors(r)
            \/ AllocSuccessEnums(r)
            \/ AllocMembers(r)
      BY <1>4 DEF Next
    <2>2. \E q \in StageNames : Takes(r, q)
      BY <1>1, <2>1, ActionsTake DEF StageNames
    <2> QED BY <1>3, <2>2
  <1> QED BY <1>1, <1>2, <1>4

\* It is an invariant.
LEMMA InvariantHolds == ASSUME NumeralsAreWords PROVE Spec => []IndInv
  <1>1. Init => IndInv
    BY InitHolds
  <1>2. IndInv /\ [Next]_vars => IndInv'
    BY NextKeeps
  <1> QED BY <1>1, <1>2, PTL DEF Spec

\* It implies that names differ.
LEMMA IndInvNamesDiffer == ASSUME NumeralsAreWords PROVE IndInv => NamesDiffer
  <1>1. SUFFICES ASSUME IndInv, NEW r \in 1..2 PROVE Clear(given[r])
    BY DEF NamesDiffer, Clear
  <1> QED BY <1>1, HeldAt, GatheredIsClear

\* In every Rust scope all names differ, and from what stands there, but for setters whose
\* variables the document spells like a method of their builder (name/mod.rs, allocate).
THEOREM NamesAlwaysDiffer == ASSUME NumeralsAreWords PROVE Spec => []NamesDiffer
  <1>1. IndInv => NamesDiffer
    BY IndInvNamesDiffer
  <1> QED BY <1>1, InvariantHolds, PTL

-----------------------------------------------------------------------------
(* The same requests, listed otherwise.                                    *)

\* Two requests that differ at most in where they are listed.
Same(a, b) == a.key = b.key /\ a.hint = b.hint /\ a.seed = b.seed /\ a.rank = b.rank

\* Every request of oa is one of ob.
Covers(oa, ob) == \A a \in oa : \E b \in ob : Same(a, b)

\* No two requests are of one item.
Keyed(asks) == \A a, b \in asks : a.key = b.key => a = b
\* Requests of one rank ask with one spelling of the source.
Tied(asks) == \A a, b \in asks : a.rank = b.rank => a.seed = b.seed

\* What a batch is sorted by, but for the listing.
Claim(a, role) == <<Spelled(Base(a, role)), a.rank>>

\* A claim is a pair of tuples, and tells spellings and ranks.
LEMMA ClaimIs ==
  ASSUME NEW a, Request(a), NEW b, Request(b), NEW role
  PROVE  /\ Claim(a, role) \in Tuples(2)
         /\ Claim(a, role) = Claim(b, role) => Base(a, role) = Base(b, role) /\ a.rank = b.rank
  <1>1. Base(a, role) \in Ident /\ Base(b, role) \in Ident
    BY EscapeType DEF Request, Base
  <1>2. Claim(a, role) \in Tuples(2)
    BY <1>1, SpelledDiffer DEF Claim, Tuples, Request
  <1>3. ASSUME Claim(a, role) = Claim(b, role) PROVE Base(a, role) = Base(b, role) /\ a.rank = b.rank
    <2>1. Spelled(Base(a, role)) = Spelled(Base(b, role)) /\ a.rank = b.rank
      BY <1>3 DEF Claim
    <2> QED BY <1>1, <2>1, SpelledDiffer
  <1> QED BY <1>2, <1>3

\* Requests that differ in the listing claim the same.
LEMMA SameClaim ==
  ASSUME NEW a, NEW b, Same(a, b), NEW role
  PROVE  Claim(a, role) = Claim(b, role) /\ Base(a, role) = Base(b, role)
  BY DEF Same, Claim, Base

\* Who comes first claims no less.
LEMMA SortedByClaim ==
  ASSUME NEW asks, Requests(asks), NEW role,
         NEW s \in 1..Len(Sorted(asks, role)), NEW t \in 1..Len(Sorted(asks, role)), s < t
  PROVE  LET order == Sorted(asks, role)
         IN  Claim(order[s], role) = Claim(order[t], role) \/ Sooner(Claim(order[s], role), Claim(order[t], role))
  <1> DEFINE order == Sorted(asks, role)
             x == order[s]
             y == order[t]
             px == <<Spelled(Base(x, role)), x.rank, x.listed>>
             py == <<Spelled(Base(y, role)), y.rank, y.listed>>
  <1>1. Line(asks, RankedPlace(asks, role), order)
    BY SortedIs
  <1> HIDE DEF order
  <1>2. x \in asks /\ y \in asks
    BY <1>1 DEF Line, order
  <1>3. Sooner(RankedPlace(asks, role)[x], RankedPlace(asks, role)[y])
    BY <1>1 DEF Line, order
  <1>4. RankedPlace(asks, role)[x] = px /\ RankedPlace(asks, role)[y] = py
    BY <1>2 DEF RankedPlace
  <1>5. Sooner(px, py)
    BY <1>3, <1>4
  <1> HIDE DEF x, y
  <1>6. PICK i \in 1..3 : Precedes(px[i], py[i]) /\ \A j \in 1..(i - 1) : px[j] = py[j]
    BY <1>5 DEF Sooner
  <1> DEFINE cx == <<Spelled(Base(x, role)), x.rank>>
             cy == <<Spelled(Base(y, role)), y.rank>>
  <1>7. cx[1] = px[1] /\ cx[2] = px[2] /\ cy[1] = py[1] /\ cy[2] = py[2] /\ DOMAIN cx = 1..2
    OBVIOUS
  <1>8. CASE i = 3
    <2>1. px[1] = py[1] /\ px[2] = py[2]
      BY <1>6, <1>8
    <2> QED BY <2>1 DEF Claim, x, y, order
  <1>9. CASE i \in 1..2
    <2>1. Precedes(cx[i], cy[i]) /\ \A j \in 1..(i - 1) : cx[j] = cy[j]
      <3>1. i = 1 \/ i = 2
        BY <1>9
      <3>2. CASE i = 1
        BY <1>6, <1>7, <3>2
      <3>3. CASE i = 2
        BY <1>6, <1>7, <3>3
      <3> QED BY <3>1, <3>2, <3>3
    <2>2. Sooner(cx, cy)
      BY <1>7, <1>9, <2>1 DEF Sooner
    <2> QED BY <2>2 DEF Claim, x, y, order
  <1> QED BY <1>6, <1>8, <1>9

\* No s things fit in s - 1 places.
LEMMA Pigeons ==
  ASSUME NEW m \in Nat, NEW n \in Nat, NEW f, \A t \in 1..m : f[t] \in 1..n,
         \A s, t \in 1..m : f[s] = f[t] => s = t
  PROVE  m <= n
  <1> DEFINE g == [t \in 1..m |-> f[t]]
  <1>1. g \in Injection(1..m, 1..n)
    BY DEF Injection, IsInjective
  <1>2. IsFiniteSet(1..m) /\ Cardinality(1..m) = m
    <2>1. m \in Int /\ 1 \in Int /\ (IF 1 > m THEN 0 ELSE (m - 1) + 1) = m
      OBVIOUS
    <2> QED BY <2>1, FS_Interval
  <1>3. IsFiniteSet(1..n) /\ Cardinality(1..n) = n
    <2>1. n \in Int /\ 1 \in Int /\ (IF 1 > n THEN 0 ELSE (n - 1) + 1) = n
      OBVIOUS
    <2> QED BY <2>1, FS_Interval
  <1> HIDE DEF g
  <1>4. Cardinality(1..m) <= Cardinality(1..n)
    BY <1>1, <1>3, FS_Injection
  <1> QED BY <1>2, <1>3, <1>4

\* Where the requests of one order are in another.
Counterpart(o, p) == [s \in 1..Len(o) |-> CHOOSE t \in 1..Len(p) : Same(o[s], p[t])]

\* The counterpart of a place is the same request in the other row, and no two places have the same.
LEMMA CounterpartIs ==
  ASSUME NEW oa, Requests(oa), NEW ob, Requests(ob), Covers(oa, ob), Keyed(oa), NEW role
  PROVE  LET o == Sorted(oa, role)
             p == Sorted(ob, role)
             f == Counterpart(o, p)
         IN  /\ \A s \in 1..Len(o) : f[s] \in 1..Len(p) /\ Same(o[s], p[f[s]])
             /\ \A s, t \in 1..Len(o) : f[s] = f[t] => s = t
  <1> DEFINE o == Sorted(oa, role)
             p == Sorted(ob, role)
             f == Counterpart(o, p)
  <1>1. Line(oa, RankedPlace(oa, role), o) /\ Line(ob, RankedPlace(ob, role), p)
    BY SortedIs
  <1> HIDE DEF o, p
  <1>2. /\ \A s \in 1..Len(o) : o[s] \in oa
        /\ \A b \in ob : \E t \in 1..Len(p) : p[t] = b
        /\ \A s, t \in 1..Len(o) : o[s] = o[t] => s = t
    BY <1>1 DEF Line
  <1>3. \A s \in 1..Len(o) : f[s] \in 1..Len(p) /\ Same(o[s], p[f[s]])
    <2> TAKE s \in 1..Len(o)
    <2>1. PICK b \in ob : Same(o[s], b)
      BY <1>2 DEF Covers
    <2>2. PICK t \in 1..Len(p) : p[t] = b
      BY <1>2
    <2>3. \E u \in 1..Len(p) : Same(o[s], p[u])
      BY <2>1, <2>2
    <2>4. f[s] = CHOOSE u \in 1..Len(p) : Same(o[s], p[u])
      BY DEF Counterpart
    <2> QED BY <2>3, <2>4
  <1> HIDE DEF f
  <1>4. \A s, t \in 1..Len(o) : f[s] = f[t] => s = t
    <2> TAKE s, t \in 1..Len(o)
    <2> HAVE f[s] = f[t]
    <2>1. o[s].key = p[f[s]].key /\ o[t].key = p[f[s]].key
      BY <1>3 DEF Same
    <2>2. o[s] = o[t]
      BY <1>2, <2>1 DEF Keyed
    <2> QED BY <1>2, <2>2
  <1> QED BY <1>3, <1>4 DEF o, p, f

\* The claim at a place is no less than the one there of the same requests listed otherwise.
LEMMA ClaimNotSooner ==
  ASSUME NEW oa, Requests(oa), NEW ob, Requests(ob), Covers(oa, ob), Keyed(oa), NEW role,
         NEW s \in 1..Len(Sorted(oa, role)), s \in 1..Len(Sorted(ob, role))
  PROVE  ~ Sooner(Claim(Sorted(oa, role)[s], role), Claim(Sorted(ob, role)[s], role))
  <1> DEFINE o == Sorted(oa, role)
             p == Sorted(ob, role)
             f == Counterpart(o, p)
             c == [t \in 1..Len(o) |-> Claim(o[t], role)]
             d == [t \in 1..Len(p) |-> Claim(p[t], role)]
  <1>1. /\ \A t \in 1..Len(o) : f[t] \in 1..Len(p) /\ Same(o[t], p[f[t]])
        /\ \A t, u \in 1..Len(o) : f[t] = f[u] => t = u
    BY CounterpartIs
  <1>2. \A t, u \in 1..Len(o) : t < u => c[t] = c[u] \/ Sooner(c[t], c[u])
    BY SortedByClaim
  <1>3. \A t, u \in 1..Len(p) : t < u => d[t] = d[u] \/ Sooner(d[t], d[u])
    BY SortedByClaim
  <1>4. /\ Len(o) \in Nat /\ Len(p) \in Nat
        /\ \A t \in 1..Len(o) : o[t] \in oa
        /\ \A t \in 1..Len(p) : p[t] \in ob
    <2>1. Line(oa, RankedPlace(oa, role), o) /\ Line(ob, RankedPlace(ob, role), p)
      BY SortedIs
    <2> HIDE DEF o, p
    <2> QED BY <2>1 DEF Line
  <1>5. s \in 1..Len(o) /\ s \in 1..Len(p)
    OBVIOUS
  <1> HIDE DEF o, p, f
  <1>6. \A t \in 1..Len(o) : c[t] \in Tuples(2)
    BY <1>4, ClaimIs DEF Requests
  <1>7. \A t \in 1..Len(p) : d[t] \in Tuples(2)
    BY <1>4, ClaimIs DEF Requests
  <1>8. \A t \in 1..Len(o) : c[t] = d[f[t]]
    BY <1>1, SameClaim
  <1> HIDE DEF c, d
  <1>9. SUFFICES ASSUME Sooner(c[s], d[s]) PROVE FALSE
    BY <1>5 DEF c, d, o, p
  <1>10. ASSUME NEW t \in 1..s PROVE f[t] \in 1..(s - 1)
    <2>1. t \in 1..Len(o) /\ f[t] \in 1..Len(p) /\ s \in 1..Len(p)
      BY <1>1, <1>4, <1>5
    <2>2. c[t] = c[s] \/ Sooner(c[t], c[s])
      <3>1. t < s \/ t = s
        OBVIOUS
      <3> QED BY <1>2, <1>5, <2>1, <3>1
    <2>3. Sooner(c[t], d[s])
      BY <1>5, <1>6, <1>7, <1>9, <2>1, <2>2, SoonerIsTransitive
    <2>4. SUFFICES ASSUME ~ (f[t] < s) PROVE FALSE
      BY <2>1
    <2>5. d[s] = d[f[t]] \/ Sooner(d[s], d[f[t]])
      <3>1. s < f[t] \/ s = f[t]
        BY <2>1, <2>4
      <3> QED BY <1>3, <2>1, <3>1
    <2>6. Sooner(d[f[t]], d[s])
      BY <1>8, <2>1, <2>3
    <2> QED BY <1>7, <2>1, <2>5, <2>6, SoonerIsTransitive, SoonerIsStrict
  <1>11. \A t, u \in 1..s : f[t] = f[u] => t = u
    BY <1>1, <1>4, <1>5
  <1>12. s \in Nat /\ s - 1 \in Nat
    BY <1>4, <1>5
  <1>13. s <= s - 1
    BY <1>10, <1>11, <1>12, Pigeons
  <1> QED BY <1>12, <1>13

-----------------------------------------------------------------------------
\* Two orders that ask for the same, place by place.
Match(o, p, role) ==
  /\ Len(o) \in Nat /\ Len(p) = Len(o) /\ DOMAIN o = 1..Len(o) /\ DOMAIN p = 1..Len(o)
  /\ \A s \in 1..Len(o) : /\ Base(o[s], role) = Base(p[s], role)
                          /\ o[s].seed = p[s].seed /\ o[s].rank = p[s].rank

\* The same requests, listed otherwise.
Alike(oa, ob) ==
  /\ Requests(oa) /\ Requests(ob) /\ Keyed(oa) /\ Keyed(ob) /\ Tied(oa)
  /\ Covers(oa, ob) /\ Covers(ob, oa)

\* They are sorted into orders that match.
LEMMA SortedMatch ==
  ASSUME NEW oa, NEW ob, Alike(oa, ob), NEW role
  PROVE  Match(Sorted(oa, role), Sorted(ob, role), role)
  <1> DEFINE o == Sorted(oa, role)
             p == Sorted(ob, role)
  <1>1. Line(oa, RankedPlace(oa, role), o) /\ Line(ob, RankedPlace(ob, role), p)
    BY SortedIs DEF Alike
  <1>2. Len(o) <= Len(p)
    <2> DEFINE f == Counterpart(o, p)
    <2>1. /\ \A t \in 1..Len(o) : f[t] \in 1..Len(p)
          /\ \A t, u \in 1..Len(o) : f[t] = f[u] => t = u
      BY CounterpartIs DEF Alike
    <2>2. Len(o) \in Nat /\ Len(p) \in Nat
      BY <1>1 DEF Line
    <2> HIDE DEF f, o, p
    <2> QED BY <2>1, <2>2, Pigeons
  <1>3. Len(p) <= Len(o)
    <2> DEFINE f == Counterpart(p, o)
    <2>1. /\ \A t \in 1..Len(p) : f[t] \in 1..Len(o)
          /\ \A t, u \in 1..Len(p) : f[t] = f[u] => t = u
      BY CounterpartIs DEF Alike
    <2>2. Len(o) \in Nat /\ Len(p) \in Nat
      BY <1>1 DEF Line
    <2> HIDE DEF f, o, p
    <2> QED BY <2>1, <2>2, Pigeons
  <1>4. ASSUME NEW s \in 1..Len(o), s \in 1..Len(p)
        PROVE  /\ ~ Sooner(Claim(o[s], role), Claim(p[s], role))
               /\ ~ Sooner(Claim(p[s], role), Claim(o[s], role))
    BY <1>4, ClaimNotSooner DEF Alike
  <1> HIDE DEF o, p
  <1>5. /\ Len(o) \in Nat /\ Len(p) \in Nat /\ DOMAIN o = 1..Len(o) /\ DOMAIN p = 1..Len(p)
        /\ \A s \in 1..Len(o) : o[s] \in oa
        /\ \A s \in 1..Len(p) : p[s] \in ob
    BY <1>1 DEF Line
  <1>6. Len(p) = Len(o)
    <2>1. Len(o) \in Nat /\ Len(p) \in Nat
      BY <1>5
    <2> QED BY <1>2, <1>3, <2>1
  <1>7. ASSUME NEW s \in 1..Len(o)
        PROVE  /\ Base(o[s], role) = Base(p[s], role)
               /\ o[s].seed = p[s].seed /\ o[s].rank = p[s].rank
    <2>1. o[s] \in oa /\ p[s] \in ob /\ s \in 1..Len(p)
      BY <1>5, <1>6
    <2>2. Request(o[s]) /\ Request(p[s])
      BY <2>1 DEF Alike, Requests
    <2>3. Claim(o[s], role) \in Tuples(2) /\ Claim(p[s], role) \in Tuples(2)
      BY <2>2, ClaimIs
    <2>4. Claim(o[s], role) = Claim(p[s], role)
      BY <1>4, <2>1, <2>3, SoonerIsTotal
    <2>5. Base(o[s], role) = Base(p[s], role) /\ o[s].rank = p[s].rank
      BY <2>2, <2>4, ClaimIs
    <2>6. PICK a \in oa : Same(p[s], a)
      BY <2>1 DEF Alike, Covers
    <2>7. a.seed = o[s].seed
      BY <2>1, <2>5, <2>6 DEF Alike, Tied, Same
    <2> QED BY <2>5, <2>6, <2>7 DEF Same
  <1>8. Match(o, p, role)
    BY <1>5, <1>6, <1>7 DEF Match
  <1> QED BY <1>8 DEF o, p

\* The winners of two orders are the same, with the same spellings.
SameWinners(used, o, p, role) ==
  /\ Winners(used, o, role) = Winners(used, p, role)
  /\ Winners(used, o, role) \subseteq 1..Len(o)
  /\ {Base(o[s], role) : s \in Winners(used, o, role)} = {Base(p[s], role) : s \in Winners(used, o, role)}

\* Orders that match have the same winners.
LEMMA MatchWinners ==
  ASSUME NEW o, NEW p, NEW role, Match(o, p, role), NEW used
  PROVE  SameWinners(used, o, p, role)
  <1>1. Len(o) \in Nat /\ DOMAIN o = 1..Len(o) /\ DOMAIN p = 1..Len(o)
    BY DEF Match
  <1>2. \A s \in 1..Len(o) : Base(o[s], role) = Base(p[s], role)
    BY DEF Match
  <1>3. \A s \in 1..Len(o) : s = 1 \/ s - 1 \in 1..Len(o)
    BY <1>1
  <1>4. \A s \in 1..Len(o) : s = 1 \/ Base(o[s - 1], role) = Base(p[s - 1], role)
    BY <1>2, <1>3
  <1>5. \A s \in 1..Len(o) : s \in Winners(used, o, role) <=> s \in Winners(used, p, role)
    BY <1>1, <1>2, <1>4 DEF Winners
  <1>6. Winners(used, o, role) \subseteq 1..Len(o) /\ Winners(used, p, role) \subseteq 1..Len(o)
    BY <1>1 DEF Winners
  <1>7. Winners(used, o, role) = Winners(used, p, role)
    BY <1>5, <1>6
  <1> QED BY <1>2, <1>6, <1>7 DEF SameWinners

\* Two lists of n names, place by place the same.
SameNames(x, y, n) == \A s \in 1..n : x[s] = y[s]

\* Served in such orders, requests are given the same names place by place.
LEMMA MatchNames ==
  ASSUME NEW o, NEW p, NEW role, Match(o, p, role), NEW used, NEW kept, kept \subseteq 1..Len(o)
  PROVE  SameNames(GivenNames(used, o, role, kept), GivenNames(used, p, role, kept), Len(o))
  <1> DEFINE x == Taken(used, o, role, kept)
             y == Taken(used, p, role, kept)
             S == {s \in Nat : s <= Len(o) => x[s] = y[s]}
  <1>1. Len(o) \in Nat /\ Len(p) = Len(o) /\ DOMAIN o = 1..Len(o) /\ DOMAIN p = 1..Len(o)
    BY DEF Match
  <1>2. Follows(x, used, o, role, kept) /\ Follows(y, used, p, role, kept)
    BY <1>1, TakenIs
  <1> HIDE DEF x, y
  <1>3. \A s \in 1..Len(o) : \A taken : Alloc(taken, o[s], role) = Alloc(taken, p[s], role)
    BY DEF Match, Alloc
  <1>4. 0 \in S
    BY <1>2 DEF Follows
  <1>5. ASSUME NEW n \in S PROVE n + 1 \in S
    <2>1. SUFFICES ASSUME n + 1 <= Len(o) PROVE x[n + 1] = y[n + 1]
      OBVIOUS
    <2>2. n + 1 \in 1..Len(o) /\ (n + 1) - 1 = n /\ x[n] = y[n]
      BY <1>1, <2>1
    <2>3. x[n + 1] = IF n + 1 \in kept THEN x[n] ELSE x[n] \union {Alloc(x[n], o[n + 1], role)}
      BY <1>2, <2>2 DEF Follows
    <2>4. y[n + 1] = IF n + 1 \in kept THEN y[n] ELSE y[n] \union {Alloc(y[n], p[n + 1], role)}
      BY <1>1, <1>2, <2>2 DEF Follows
    <2>5. Alloc(x[n], o[n + 1], role) = Alloc(x[n], p[n + 1], role)
      BY <1>3, <2>2
    <2> QED BY <2>2, <2>3, <2>4, <2>5
  <1>6. S = Nat
    <2>1. S \in SUBSET Nat
      OBVIOUS
    <2> HIDE DEF S
    <2> QED BY <1>4, <1>5, <2>1, SetInduction
  <1>7. \A s \in 0..Len(o) : x[s] = y[s]
    BY <1>1, <1>6
  <1>8. SUFFICES ASSUME NEW s \in 1..Len(o)
                 PROVE  GivenNames(used, o, role, kept)[s] = GivenNames(used, p, role, kept)[s]
    BY DEF SameNames
  <1>9. s - 1 \in 0..Len(o)
    BY <1>1
  <1>10. x[s - 1] = y[s - 1]
    BY <1>7, <1>9
  <1>11. GivenNames(used, o, role, kept)[s] = IF s \in kept THEN Base(o[s], role) ELSE Alloc(x[s - 1], o[s], role)
    BY <1>1 DEF GivenNames, x
  <1>12. GivenNames(used, p, role, kept)[s] = IF s \in kept THEN Base(p[s], role) ELSE Alloc(y[s - 1], p[s], role)
    BY <1>1 DEF GivenNames, y
  <1>13. Base(o[s], role) = Base(p[s], role)
    BY DEF Match
  <1> QED BY <1>3, <1>10, <1>11, <1>12, <1>13

-----------------------------------------------------------------------------
\* Every item of f asks the same in g, and what it is given, someone is given there.
Grants(f, g) ==
  \A k \in DOMAIN f : /\ k \in DOMAIN g /\ f[k].base = g[k].base /\ f[k].rank = g[k].rank
                      /\ \E l \in DOMAIN g : g[l] = f[k]

\* What one order that matches another is given is given there.
LEMMA MatchGrants ==
  ASSUME NEW oa, NEW ob, Covers(oa, ob), Keyed(ob), NEW o, NEW p, NEW role, Match(o, p, role),
         NEW place, NEW other, Line(oa, place, o), Line(ob, other, p), NEW used, NEW kept,
         kept \subseteq 1..Len(o)
  PROVE  Grants(Served(used, o, role, kept).given, Served(used, p, role, kept).given)
  <1> DEFINE x == GivenNames(used, o, role, kept)
             y == GivenNames(used, p, role, kept)
             f == Served(used, o, role, kept).given
             g == Served(used, p, role, kept).given
             N == 1..Len(o)
  <1>1. \A s \in N : x[s] = y[s]
    <2>1. SameNames(x, y, Len(o))
      BY MatchNames
    <2> HIDE DEF x, y
    <2> QED BY <2>1 DEF SameNames
  <1>2. /\ \A s \in N : o[s] \in oa /\ p[s] \in ob
        /\ \A b \in ob : \E s \in N : p[s] = b
        /\ \A s, t \in N : p[s] = p[t] => s = t
        /\ o \in Seq(oa) /\ p \in Seq(ob) /\ Len(p) = Len(o)
    BY DEF Match, Line
  <1>3. ServedAs(Served(used, o, role, kept), used, o, role, kept)
    BY <1>2, ServedIs
  <1>4. ServedAs(Served(used, p, role, kept), used, p, role, kept)
    BY <1>2, ServedIs
  <1>5. \A k \in DOMAIN f : \E s \in N : o[s].key = k /\ f[k] = Grant(x[s], Base(o[s], role), o[s].rank)
    BY <1>3 DEF ServedAs
  <1>6. /\ DOMAIN g = {p[s].key : s \in N}
        /\ \A k \in DOMAIN g : \E s \in N : p[s].key = k /\ g[k] = Grant(y[s], Base(p[s], role), p[s].rank)
    BY <1>2, <1>4 DEF ServedAs
  <1>7. \A s \in N : Base(o[s], role) = Base(p[s], role) /\ o[s].rank = p[s].rank
    BY DEF Match
  <1> HIDE DEF x, y, f, g, N
  <1>8. \A s \in N : p[s].key \in DOMAIN g /\ g[p[s].key] = Grant(y[s], Base(p[s], role), p[s].rank)
    <2> TAKE s \in N
    <2>1. PICK t \in N : p[t].key = p[s].key /\ g[p[s].key] = Grant(y[t], Base(p[t], role), p[t].rank)
      BY <1>6
    <2>2. t = s
      BY <1>2, <2>1 DEF Keyed
    <2> QED BY <1>6, <2>1, <2>2
  <1>9. SUFFICES ASSUME NEW k \in DOMAIN f
                 PROVE  /\ k \in DOMAIN g /\ f[k].base = g[k].base /\ f[k].rank = g[k].rank
                        /\ \E l \in DOMAIN g : g[l] = f[k]
    BY DEF Grants, f, g
  <1>10. PICK s \in N : o[s].key = k /\ f[k] = Grant(x[s], Base(o[s], role), o[s].rank)
    BY <1>5
  <1>11. g[p[s].key] = f[k] /\ p[s].key \in DOMAIN g
    BY <1>1, <1>7, <1>8, <1>10
  <1>12. PICK b \in ob : Same(o[s], b)
    BY <1>2 DEF Covers
  <1>13. PICK t \in N : p[t] = b
    BY <1>2
  <1>14. k \in DOMAIN g /\ g[k] = Grant(y[t], Base(b, role), b.rank)
    <2>1. b.key = k
      BY <1>10, <1>12 DEF Same
    <2> QED BY <1>8, <1>13, <2>1
  <1>15. f[k].base = g[k].base /\ f[k].rank = g[k].rank
    BY <1>10, <1>12, <1>14, SameClaim DEF Grant, Same
  <1> QED BY <1>11, <1>14, <1>15

\* A batch does not depend on the listing: it takes the same names, and gives the same.
LEMMA AllocRankedAlike ==
  ASSUME NEW oa, NEW ob, Alike(oa, ob), NEW role, NEW used
  PROVE  /\ AllocRanked(used, oa, role).used = AllocRanked(used, ob, role).used
         /\ Grants(AllocRanked(used, oa, role).given, AllocRanked(used, ob, role).given)
         /\ Grants(AllocRanked(used, ob, role).given, AllocRanked(used, oa, role).given)
  <1> DEFINE o == Sorted(oa, role)
             p == Sorted(ob, role)
             kept == Winners(used, o, role)
             taken == used \union {Base(o[s], role) : s \in kept}
  <1>1. Match(o, p, role)
    BY SortedMatch
  <1>2. Line(oa, RankedPlace(oa, role), o) /\ Line(ob, RankedPlace(ob, role), p)
    BY SortedIs DEF Alike
  <1>3. AllocRanked(used, oa, role) = Served(taken, o, role, kept)
    BY DEF AllocRanked
  <1>4. AllocRanked(used, ob, role)
          = Served(used \union {Base(p[s], role) : s \in Winners(used, p, role)}, p, role, Winners(used, p, role))
    BY DEF AllocRanked
  <1> HIDE DEF o, p
  <1>5. /\ Winners(used, o, role) = Winners(used, p, role)
        /\ Winners(used, o, role) \subseteq 1..Len(o)
        /\ {Base(o[s], role) : s \in Winners(used, o, role)} = {Base(p[s], role) : s \in Winners(used, o, role)}
    <2>1. SameWinners(used, o, p, role)
      BY <1>1, MatchWinners
    <2> QED BY <2>1 DEF SameWinners
  <1>6. AllocRanked(used, ob, role) = Served(taken, p, role, kept) /\ kept \subseteq 1..Len(o)
    BY <1>4, <1>5
  <1> HIDE DEF taken, kept
  <1>7. Grants(Served(taken, o, role, kept).given, Served(taken, p, role, kept).given)
    BY <1>1, <1>2, <1>6, MatchGrants DEF Alike
  <1>8. Match(p, o, role) /\ kept \subseteq 1..Len(p)
    BY <1>1, <1>6 DEF Match
  <1>9. Grants(Served(taken, p, role, kept).given, Served(taken, o, role, kept).given)
    BY <1>2, <1>8, MatchGrants DEF Alike
  <1>10. Served(taken, o, role, kept).used = Served(taken, p, role, kept).used
    <2> DEFINE x == GivenNames(taken, o, role, kept)
               y == GivenNames(taken, p, role, kept)
    <2>1. o \in Seq(oa) /\ p \in Seq(ob) /\ Len(o) = Len(p)
      BY <1>1, <1>2 DEF Line, Match
    <2>2. SameNames(x, y, Len(o))
      BY <1>1, <1>6, MatchNames
    <2>3. ServedAs(Served(taken, o, role, kept), taken, o, role, kept)
      BY <2>1, ServedIs
    <2>4. ServedAs(Served(taken, p, role, kept), taken, p, role, kept)
      BY <2>1, ServedIs
    <2>5. Served(taken, o, role, kept).used = taken \union {x[s] : s \in 1..Len(o)}
      BY <2>3 DEF ServedAs
    <2>6. Served(taken, p, role, kept).used = taken \union {y[s] : s \in 1..Len(o)}
      BY <2>1, <2>4 DEF ServedAs
    <2> HIDE DEF x, y
    <2> QED BY <2>2, <2>5, <2>6 DEF SameNames
  <1> QED BY <1>3, <1>6, <1>7, <1>9, <1>10

\* When ranks tell the requests apart, everyone has the name it had.
LEMMA GrantsAgree ==
  ASSUME NEW f, NEW g, Grants(f, g), \A k, l \in DOMAIN g : g[k].rank = g[l].rank => k = l
  PROVE  \A k \in DOMAIN f : k \in DOMAIN g /\ g[k] = f[k]
  BY DEF Grants

-----------------------------------------------------------------------------
(* The same items, listed otherwise.                                       *)

\* f and g are the same function.
Equal(f, g) == DOMAIN f = DOMAIN g /\ \A k \in DOMAIN f : f[k] = g[k]

\* Ranks tell requests apart.
Told(asks) == \A a, b \in asks : a.rank = b.rank => a = b

\* The rank of what is given is that of the request.
LEMMA RanksGiven ==
  ASSUME NEW asks, Requests(asks), NEW role, NEW used, Told(asks)
  PROVE  LET f == AllocRanked(used, asks, role).given
         IN  \A k, l \in DOMAIN f : f[k].rank = f[l].rank => k = l
  <1> DEFINE order == Sorted(asks, role)
             winners == Winners(used, order, role)
             taken == used \union {Base(order[s], role) : s \in winners}
             f == Served(taken, order, role, winners).given
  <1>1. AllocRanked(used, asks, role) = Served(taken, order, role, winners)
    BY DEF AllocRanked
  <1>2. Line(asks, RankedPlace(asks, role), order)
    BY SortedIs
  <1> HIDE DEF order, winners, taken
  <1>3. order \in Seq(asks) /\ \A s \in 1..Len(order) : order[s] \in asks
    BY <1>2 DEF Line
  <1>4. ServedAs(Served(taken, order, role, winners), taken, order, role, winners)
    BY <1>3, ServedIs
  <1> DEFINE x == GivenNames(taken, order, role, winners)
  <1>5. \A k \in DOMAIN f : \E s \in 1..Len(order) :
          order[s].key = k /\ f[k] = Grant(x[s], Base(order[s], role), order[s].rank)
    BY <1>4 DEF ServedAs
  <1> HIDE DEF f, x
  <1>7. \A k \in DOMAIN f : \E s \in 1..Len(order) : order[s].key = k /\ f[k].rank = order[s].rank
    BY <1>5 DEF Grant
  <1>6. \A k, l \in DOMAIN f : f[k].rank = f[l].rank => k = l
    BY <1>3, <1>7 DEF Told
  <1> QED BY <1>1, <1>6 DEF f

\* When ranks tell apart, a batch gives everyone the same name however it is listed.
LEMMA ToldAlike ==
  ASSUME NEW oa, NEW ob, Alike(oa, ob), Told(oa), NEW role, NEW used
  PROVE  /\ AllocRanked(used, oa, role).used = AllocRanked(used, ob, role).used
         /\ Equal(AllocRanked(used, oa, role).given, AllocRanked(used, ob, role).given)
  <1> DEFINE f == AllocRanked(used, oa, role).given
             g == AllocRanked(used, ob, role).given
  <1>1. Grants(f, g) /\ Grants(g, f)
    BY AllocRankedAlike
  <1>2. Told(ob)
    <2>1. SUFFICES ASSUME NEW b \in ob, NEW c \in ob, b.rank = c.rank PROVE b = c
      BY DEF Told
    <2>2. PICK a \in oa : Same(b, a)
      BY DEF Alike, Covers
    <2>3. PICK d \in oa : Same(c, d)
      BY DEF Alike, Covers
    <2>4. a = d
      BY <2>1, <2>2, <2>3 DEF Told, Same
    <2>5. b.key = c.key
      BY <2>2, <2>3, <2>4 DEF Same
    <2> QED BY <2>5 DEF Alike, Keyed
  <1>3. \A k, l \in DOMAIN g : g[k].rank = g[l].rank => k = l
    BY <1>2, RanksGiven DEF Alike
  <1> HIDE DEF f, g
  <1>4. \A k \in DOMAIN f : k \in DOMAIN g /\ g[k] = f[k]
    BY <1>1, <1>3, GrantsAgree
  <1>5. \A k \in DOMAIN g : k \in DOMAIN f
    BY <1>1 DEF Grants
  <1>6. DOMAIN f = DOMAIN g
    BY <1>4, <1>5
  <1>7. Equal(f, g)
    BY <1>4, <1>6 DEF Equal
  <1> QED BY <1>7, AllocRankedAlike DEF f, g

\* asks are the requests of the items of a list that D picks.
AskedFor(asks, scope, family, list, D, h, e, r) ==
  /\ Listing(list) /\ D \subseteq DOMAIN list
  /\ asks = {Ask(Key(scope, family, <<list[i].id>>), h[i], e[i], r[i], <<i>>) : i \in D}
  /\ \A i \in D : h[i] \in Ident /\ e[i] \in DOMAIN Suffix /\ r[i] \in Seq(Nat)

\* What AskedFor says of the requests of a listing.
LEMMA AskedForIs ==
  ASSUME NEW asks, NEW scope, NEW family, NEW list, NEW D, NEW h, NEW e, NEW r,
         AskedFor(asks, scope, family, list, D, h, e, r)
  PROVE  /\ Requests(asks) /\ Keyed(asks)
         /\ \A a \in asks : \E i \in D : /\ a.key = Key(scope, family, <<list[i].id>>) /\ a.hint = h[i]
                                         /\ a.seed = e[i] /\ a.rank = r[i]
         /\ \A i \in D : \E a \in asks : /\ a.key = Key(scope, family, <<list[i].id>>) /\ a.hint = h[i]
                                         /\ a.seed = e[i] /\ a.rank = r[i]
  <1> DEFINE f == [i \in D |-> Ask(Key(scope, family, <<list[i].id>>), h[i], e[i], r[i], <<i>>)]
  <1>1. /\ IsFiniteSet(DOMAIN list) /\ \A i \in D : i \in Nat
    BY ListIsFinite DEF AskedFor, Listing
  <1>2. IsFiniteSet(D)
    BY <1>1, FS_Subset DEF AskedFor
  <1>3. \A i \in D : Asking(f[i], i, scope, family)
    BY <1>1, AskIs DEF AskedFor
  <1>4. asks = {f[i] : i \in D}
    BY DEF AskedFor
  <1>5. \A i \in D : /\ f[i].key = Key(scope, family, <<list[i].id>>) /\ f[i].hint = h[i]
                     /\ f[i].seed = e[i] /\ f[i].rank = r[i]
    BY DEF Ask
  <1> HIDE DEF f
  <1>6. AsksFor(asks, D, f, scope, family)
    BY <1>3, <1>4 DEF AsksFor, Asking
  <1>7. Requests(asks)
    BY <1>2, <1>6, AskedRequests
  <1>8. Keyed(asks)
    <2>1. SUFFICES ASSUME NEW i \in D, NEW j \in D, f[i].key = f[j].key PROVE i = j
      BY <1>4 DEF Keyed
    <2>0. \A x : Key(scope, family, x).item = x
      BY DEF Key
    <2>2. f[i].key.item = <<list[i].id>> /\ f[j].key.item = <<list[j].id>>
      BY <1>5, <2>0
    <2>3. <<list[i].id>> = <<list[j].id>>
      BY <2>1, <2>2
    <2>4. list[i].id = list[j].id
      BY <2>3
    <2> QED BY <2>4 DEF AskedFor, Listing
  <1> QED BY <1>4, <1>5, <1>7, <1>8

\* Two items ask for the same.
SameItem(x, y, h, l, e, d, r, q, i, j) ==
  x[i].id = y[j].id /\ h[i] = l[j] /\ e[i] = d[j] /\ r[i] = q[j]

\* Listings of the same items make covering requests, which can be served together.
LEMMA ItemsAlike ==
  ASSUME NEW scope, NEW family,
         NEW oa, NEW x, NEW D, NEW h, NEW e, NEW r, AskedFor(oa, scope, family, x, D, h, e, r),
         NEW ob, NEW y, NEW E, NEW l, NEW d, NEW q, AskedFor(ob, scope, family, y, E, l, d, q),
         \A i \in D : \E j \in E : SameItem(x, y, h, l, e, d, r, q, i, j),
         \A j \in E : \E i \in D : SameItem(x, y, h, l, e, d, r, q, i, j),
         \A i, j \in D : r[i] = r[j] => e[i] = e[j]
  PROVE  /\ Alike(oa, ob)
         /\ (\A i, j \in D : r[i] = r[j] => i = j) => Told(oa)
  <1>1. /\ Requests(oa) /\ Keyed(oa)
        /\ \A a \in oa : \E i \in D : /\ a.key = Key(scope, family, <<x[i].id>>) /\ a.hint = h[i]
                                      /\ a.seed = e[i] /\ a.rank = r[i]
        /\ \A i \in D : \E a \in oa : /\ a.key = Key(scope, family, <<x[i].id>>) /\ a.hint = h[i]
                                      /\ a.seed = e[i] /\ a.rank = r[i]
    BY AskedForIs
  <1>2. /\ Requests(ob) /\ Keyed(ob)
        /\ \A b \in ob : \E i \in E : /\ b.key = Key(scope, family, <<y[i].id>>) /\ b.hint = l[i]
                                      /\ b.seed = d[i] /\ b.rank = q[i]
        /\ \A i \in E : \E b \in ob : /\ b.key = Key(scope, family, <<y[i].id>>) /\ b.hint = l[i]
                                      /\ b.seed = d[i] /\ b.rank = q[i]
    BY AskedForIs
  <1>3. Covers(oa, ob)
    <2>1. SUFFICES ASSUME NEW a \in oa PROVE \E b \in ob : Same(a, b)
      BY DEF Covers
    <2>2. PICK i \in D : /\ a.key = Key(scope, family, <<x[i].id>>) /\ a.hint = h[i]
                         /\ a.seed = e[i] /\ a.rank = r[i]
      BY <1>1
    <2>3. PICK j \in E : SameItem(x, y, h, l, e, d, r, q, i, j)
      OBVIOUS
    <2>4. PICK b \in ob : /\ b.key = Key(scope, family, <<y[j].id>>) /\ b.hint = l[j]
                          /\ b.seed = d[j] /\ b.rank = q[j]
      BY <1>2
    <2> QED BY <2>2, <2>3, <2>4 DEF Same, SameItem
  <1>4. Covers(ob, oa)
    <2>1. SUFFICES ASSUME NEW b \in ob PROVE \E a \in oa : Same(b, a)
      BY DEF Covers
    <2>2. PICK j \in E : /\ b.key = Key(scope, family, <<y[j].id>>) /\ b.hint = l[j]
                         /\ b.seed = d[j] /\ b.rank = q[j]
      BY <1>2
    <2>3. PICK i \in D : SameItem(x, y, h, l, e, d, r, q, i, j)
      OBVIOUS
    <2>4. PICK a \in oa : /\ a.key = Key(scope, family, <<x[i].id>>) /\ a.hint = h[i]
                          /\ a.seed = e[i] /\ a.rank = r[i]
      BY <1>1
    <2> QED BY <2>2, <2>3, <2>4 DEF Same, SameItem
  <1>5. Tied(oa)
    <2>1. SUFFICES ASSUME NEW a \in oa, NEW b \in oa, a.rank = b.rank PROVE a.seed = b.seed
      BY DEF Tied
    <2>2. PICK i \in D : a.seed = e[i] /\ a.rank = r[i]
      BY <1>1
    <2>3. PICK j \in D : b.seed = e[j] /\ b.rank = r[j]
      BY <1>1
    <2> QED BY <2>1, <2>2, <2>3
  <1>6. ASSUME \A i, j \in D : r[i] = r[j] => i = j PROVE Told(oa)
    <2>1. SUFFICES ASSUME NEW a \in oa, NEW b \in oa, a.rank = b.rank PROVE a.key = b.key
      BY <1>1 DEF Told, Keyed
    <2>2. PICK i \in D : a.key = Key(scope, family, <<x[i].id>>) /\ a.rank = r[i]
      BY <1>1
    <2>3. PICK j \in D : b.key = Key(scope, family, <<x[j].id>>) /\ b.rank = r[j]
      BY <1>1
    <2>4. i = j
      BY <1>6, <2>1, <2>2, <2>3
    <2> QED BY <2>2, <2>3, <2>4
  <1> QED BY <1>1, <1>2, <1>3, <1>4, <1>5, <1>6 DEF Alike

-----------------------------------------------------------------------------
(* The families of operations, listed otherwise.                           *)

\* Two batches that take the same names and give everyone the same.
SameBatch(x, y) == x.used = y.used /\ Equal(x.given, y.given)

\* Every operation of x at D is one of y at E.
Corresponds(x, D, y, E) == \A i \in D : \E j \in E : SameOperation(x[i], y[j])

\* asks are the requests of the operations at D.
AskedOf(asks, scope, family, ops, D, h, r) ==
  asks = {Ask(Key(scope, family, <<ops[i].id>>), h[i], ops[i].seed, r[i], <<i>>) : i \in D}

\* Such requests, with their seeds.
LEMMA SeedsOf ==
  ASSUME NEW asks, NEW scope, NEW family, NEW ops, Operations(ops), NEW D, D \subseteq DOMAIN ops, NEW h, NEW r,
         AskedOf(asks, scope, family, ops, D, h, r), \A i \in D : h[i] \in Ident /\ r[i] \in Seq(Nat),
         NEW e, \A i \in D : e[i] = ops[i].seed /\ e[i] \in DOMAIN Suffix
  PROVE  AskedFor(asks, scope, family, ops, D, h, e, r)
  <1>1. asks = {Ask(Key(scope, family, <<ops[i].id>>), h[i], e[i], r[i], <<i>>) : i \in D}
    BY DEF AskedOf
  <1> QED BY <1>1 DEF AskedFor, Operations

\* asks are the requests of the operations, ranked as those are.
AskedByRank(asks, scope, family, ops, h) ==
  asks = {OperationAsk(scope, family, ops, i, h[i]) : i \in DOMAIN ops}

\* Requests of operations that ask the same are served alike, when ranks tell them apart.
LEMMA OperationsAlike ==
  ASSUME NEW scope, NEW family, NEW role, NEW used,
         NEW x, Operations(x), NEW D, D \subseteq DOMAIN x,
         NEW y, Operations(y), NEW E, E \subseteq DOMAIN y,
         Corresponds(x, D, y, E), Corresponds(y, E, x, D),
         NEW h, NEW r, \A i \in D : h[i] \in Ident /\ r[i] \in Seq(Nat),
         NEW l, NEW q, \A j \in E : l[j] \in Ident /\ q[j] \in Seq(Nat),
         \A i \in D, j \in E : SameOperation(x[i], y[j]) => h[i] = l[j] /\ r[i] = q[j],
         \A i, j \in D : r[i] = r[j] => i = j,
         NEW oa, AskedOf(oa, scope, family, x, D, h, r),
         NEW ob, AskedOf(ob, scope, family, y, E, l, q)
  PROVE  SameBatch(AllocRanked(used, oa, role), AllocRanked(used, ob, role))
  <1> DEFINE e == [i \in D |-> x[i].seed]
             d == [j \in E |-> y[j].seed]
  <1>1. \A i \in D : e[i] = x[i].seed /\ e[i] \in DOMAIN Suffix
    BY OperationsAre DEF WellFormedOperation
  <1>2. \A j \in E : d[j] = y[j].seed /\ d[j] \in DOMAIN Suffix
    BY OperationsAre DEF WellFormedOperation
  <1> HIDE DEF e, d
  <1>5. AskedFor(oa, scope, family, x, D, h, e, r)
    BY <1>1, SeedsOf
  <1>6. AskedFor(ob, scope, family, y, E, l, d, q)
    BY <1>2, SeedsOf
  <1>7. \A i \in D, j \in E : SameOperation(x[i], y[j]) => SameItem(x, y, h, l, e, d, r, q, i, j)
    BY <1>1, <1>2 DEF SameOperation, SameItem
  <1>8. \A i \in D, j \in E : SameOperation(y[j], x[i]) => SameItem(x, y, h, l, e, d, r, q, i, j)
    BY <1>7 DEF SameOperation
  <1>9. \A i \in D : \E j \in E : SameItem(x, y, h, l, e, d, r, q, i, j)
    BY <1>7 DEF Corresponds
  <1>10. \A j \in E : \E i \in D : SameItem(x, y, h, l, e, d, r, q, i, j)
    BY <1>8 DEF Corresponds
  <1>11. \A i, j \in D : r[i] = r[j] => e[i] = e[j]
    OBVIOUS
  <1>12. Alike(oa, ob) /\ Told(oa)
    BY <1>5, <1>6, <1>9, <1>10, <1>11, ItemsAlike
  <1> QED BY <1>12, ToldAlike DEF SameBatch

\* Operations whose ranks tell them apart.
RankedOperations(ops) ==
  Operations(ops) /\ \A i, j \in DOMAIN ops : ops[i].rank = ops[j].rank => i = j

\* The same operations in another order.
SameOperations(x, y) ==
  /\ RankedOperations(x) /\ RankedOperations(y)
  /\ Corresponds(x, DOMAIN x, y, DOMAIN y) /\ Corresponds(y, DOMAIN y, x, DOMAIN x)

\* Requests ranked as the operations are.
LEMMA RanksOfOperations ==
  ASSUME NEW scope, NEW family, NEW role, NEW used, NEW x, NEW y, SameOperations(x, y),
         NEW h, \A i \in DOMAIN x : h[i] \in Ident,
         NEW l, \A j \in DOMAIN y : l[j] \in Ident,
         \A i \in DOMAIN x, j \in DOMAIN y : SameOperation(x[i], y[j]) => h[i] = l[j],
         NEW oa, AskedByRank(oa, scope, family, x, h),
         NEW ob, AskedByRank(ob, scope, family, y, l)
  PROVE  SameBatch(AllocRanked(used, oa, role), AllocRanked(used, ob, role))
  <1> DEFINE r == [i \in DOMAIN x |-> <<x[i].rank>>]
             q == [j \in DOMAIN y |-> <<y[j].rank>>]
  <1>1. Operations(x) /\ Operations(y)
    BY DEF SameOperations, RankedOperations
  <1>2. \A i \in DOMAIN x : r[i] = <<x[i].rank>> /\ r[i] \in Seq(Nat)
    <2> TAKE i \in DOMAIN x
    <2>1. x[i].rank \in Nat
      BY <1>1, OperationsAre DEF WellFormedOperation
    <2> QED BY <2>1
  <1>3. \A j \in DOMAIN y : q[j] = <<y[j].rank>> /\ q[j] \in Seq(Nat)
    <2> TAKE j \in DOMAIN y
    <2>1. y[j].rank \in Nat
      BY <1>1, OperationsAre DEF WellFormedOperation
    <2> QED BY <2>1
  <1> HIDE DEF r, q
  <1>4. AskedOf(oa, scope, family, x, DOMAIN x, h, r)
    BY <1>2 DEF OperationAsk, AskedOf, AskedByRank
  <1>5. AskedOf(ob, scope, family, y, DOMAIN y, l, q)
    BY <1>3 DEF OperationAsk, AskedOf, AskedByRank
  <1>6. \A i \in DOMAIN x, j \in DOMAIN y : SameOperation(x[i], y[j]) => h[i] = l[j] /\ r[i] = q[j]
    BY <1>2, <1>3 DEF SameOperation
  <1>7. \A i, j \in DOMAIN x : r[i] = r[j] => i = j
    <2>1. \A v, w : <<v>> = <<w>> => v = w
      OBVIOUS
    <2> QED BY <1>2, <2>1 DEF SameOperations, RankedOperations
  <1>8. Corresponds(x, DOMAIN x, y, DOMAIN y) /\ Corresponds(y, DOMAIN y, x, DOMAIN x)
    BY DEF SameOperations
  <1> QED BY <1>1, <1>2, <1>3, <1>4, <1>5, <1>6, <1>7, <1>8, OperationsAlike

\* Methods do not depend on the listing.
LEMMA MethodsAlike ==
  ASSUME NEW x, NEW y, SameOperations(x, y), NEW used
  PROVE  SameBatch(MethodBatch(used, x), MethodBatch(used, y))
  <1> DEFINE h == [i \in DOMAIN x |-> x[i].words]
             l == [j \in DOMAIN y |-> y[j].words]
             oa == {OperationAsk(<<"impl">>, "method", x, i, x[i].words) : i \in DOMAIN x}
             ob == {OperationAsk(<<"impl">>, "method", y, i, y[i].words) : i \in DOMAIN y}
  <1>1. Operations(x) /\ Operations(y)
    BY DEF SameOperations, RankedOperations
  <1>2. \A i \in DOMAIN x : h[i] = x[i].words /\ h[i] \in Ident
    BY <1>1, OperationsAre DEF WellFormedOperation
  <1>3. \A j \in DOMAIN y : l[j] = y[j].words /\ l[j] \in Ident
    BY <1>1, OperationsAre DEF WellFormedOperation
  <1> HIDE DEF h, l
  <1>4. AskedByRank(oa, <<"impl">>, "method", x, h)
    BY <1>2 DEF AskedByRank
  <1>5. AskedByRank(ob, <<"impl">>, "method", y, l)
    BY <1>3 DEF AskedByRank
  <1>6. MethodBatch(used, x) = AllocRanked(used, oa, "snake") /\ MethodBatch(used, y) = AllocRanked(used, ob, "snake")
    BY DEF MethodBatch
  <1>7. \A i \in DOMAIN x, j \in DOMAIN y : SameOperation(x[i], y[j]) => h[i] = l[j]
    BY <1>2, <1>3 DEF SameOperation
  <1> HIDE DEF oa, ob
  <1> QED BY <1>2, <1>3, <1>4, <1>5, <1>6, <1>7, RanksOfOperations

\* Params structs do not depend on the listing.
LEMMA ParamsAlike ==
  ASSUME NEW x, NEW y, SameOperations(x, y), NEW used
  PROVE  SameBatch(ParamsBatch(used, x), ParamsBatch(used, y))
  <1> DEFINE h == [i \in DOMAIN x |-> x[i].words \o <<"params">>]
             l == [j \in DOMAIN y |-> y[j].words \o <<"params">>]
             oa == {OperationAsk(<<"root">>, "params", x, i, x[i].words \o <<"params">>) : i \in DOMAIN x}
             ob == {OperationAsk(<<"root">>, "params", y, i, y[i].words \o <<"params">>) : i \in DOMAIN y}
  <1>1. Operations(x) /\ Operations(y)
    BY DEF SameOperations, RankedOperations
  <1>2. \A i \in DOMAIN x : h[i] = x[i].words \o <<"params">> /\ h[i] \in Ident
    BY <1>1, OperationsAre, FixedWords DEF WellFormedOperation, Ident, Fixed
  <1>3. \A j \in DOMAIN y : l[j] = y[j].words \o <<"params">> /\ l[j] \in Ident
    BY <1>1, OperationsAre, FixedWords DEF WellFormedOperation, Ident, Fixed
  <1> HIDE DEF h, l
  <1>4. AskedByRank(oa, <<"root">>, "params", x, h)
    BY <1>2 DEF AskedByRank
  <1>5. AskedByRank(ob, <<"root">>, "params", y, l)
    BY <1>3 DEF AskedByRank
  <1>6. ParamsBatch(used, x) = AllocRanked(used, oa, "pascal") /\ ParamsBatch(used, y) = AllocRanked(used, ob, "pascal")
    BY DEF ParamsBatch
  <1>7. \A i \in DOMAIN x, j \in DOMAIN y : SameOperation(x[i], y[j]) => h[i] = l[j]
    BY <1>2, <1>3 DEF SameOperation
  <1> HIDE DEF oa, ob
  <1> QED BY <1>2, <1>3, <1>4, <1>5, <1>6, <1>7, RanksOfOperations

-----------------------------------------------------------------------------
\* The method of an operation.
MethodOf(known, o) == NameOf(known, <<"impl">>, "method", o)

\* Two sets of methods that agree on the same operations.
SameMethods(f, x, g, y) ==
  /\ Methods(f, x) /\ Methods(g, y)
  /\ \A i \in DOMAIN x, j \in DOMAIN y : SameOperation(x[i], y[j]) => MethodOf(f, x[i]) = MethodOf(g, y[j])
  /\ \A i, j \in DOMAIN x : MethodOf(f, x[i]) = MethodOf(f, x[j]) => i = j

\* Accessors do not depend on the listing.
LEMMA AccessorsAlike ==
  ASSUME NEW x, NEW y, SameOperations(x, y), NEW used, NEW f, NEW g, SameMethods(f, x, g, y)
  PROVE  SameBatch(AccessorBatch(used, f, x), AccessorBatch(used, g, y))
  <1> DEFINE h == [i \in DOMAIN x |-> MethodOf(f, x[i]) \o <<"url">>]
             l == [j \in DOMAIN y |-> MethodOf(g, y[j]) \o <<"url">>]
             oa == {OperationAsk(<<"impl">>, "accessor", x, i, NameOf(f, <<"impl">>, "method", x[i]) \o <<"url">>) : i \in DOMAIN x}
             ob == {OperationAsk(<<"impl">>, "accessor", y, i, NameOf(g, <<"impl">>, "method", y[i]) \o <<"url">>) : i \in DOMAIN y}
  <1>1. \A i \in DOMAIN x : h[i] = MethodOf(f, x[i]) \o <<"url">> /\ h[i] \in Ident
    BY FixedWords DEF SameMethods, Methods, MethodOf, Ident, Fixed
  <1>2. \A j \in DOMAIN y : l[j] = MethodOf(g, y[j]) \o <<"url">> /\ l[j] \in Ident
    BY FixedWords DEF SameMethods, Methods, MethodOf, Ident, Fixed
  <1> HIDE DEF h, l
  <1>4. AskedByRank(oa, <<"impl">>, "accessor", x, h)
    BY <1>1 DEF MethodOf, AskedByRank
  <1>5. AskedByRank(ob, <<"impl">>, "accessor", y, l)
    BY <1>2 DEF MethodOf, AskedByRank
  <1>6. AccessorBatch(used, f, x) = AllocRanked(used, oa, "snake") /\ AccessorBatch(used, g, y) = AllocRanked(used, ob, "snake")
    BY DEF AccessorBatch
  <1>7. \A i \in DOMAIN x, j \in DOMAIN y : SameOperation(x[i], y[j]) => h[i] = l[j]
    BY <1>1, <1>2 DEF SameMethods
  <1> HIDE DEF oa, ob
  <1> QED BY <1>1, <1>2, <1>4, <1>5, <1>6, <1>7, RanksOfOperations

\* The same operations have the same methods.
LEMMA MethodsSame ==
  ASSUME NumeralsAreWords, NEW used, IsFiniteSet(used), NEW x, NEW y, SameOperations(x, y)
  PROVE  SameMethods(MethodBatch(used, x).given, x, MethodBatch(used, y).given, y)
  <1> DEFINE f == MethodBatch(used, x).given
             g == MethodBatch(used, y).given
             key(o) == Key(<<"impl">>, "method", <<o.id>>)
  <1>1. Operations(x) /\ Operations(y)
    BY DEF SameOperations, RankedOperations
  <1>2. /\ Methods(f, x) /\ Methods(g, y)
        /\ \A i \in DOMAIN x : key(x[i]) \in DOMAIN f
        /\ \A j \in DOMAIN y : key(y[j]) \in DOMAIN g
    BY <1>1, MethodsKnown
  <1>3. Equal(f, g)
    BY MethodsAlike DEF SameBatch
  <1>4. \A k, l \in DOMAIN f : f[k].name = f[l].name => k = l
    <2>1. Family(MethodBatch(used, x), used, <<"impl">>, {"method"})
      BY <1>1, MethodsNamed
    <2> QED BY <2>1 DEF Family, NamedIn
  <1> HIDE DEF f, g
  <1>5. \A o : MethodOf(f, o) = f[key(o)].name /\ MethodOf(g, o) = g[key(o)].name
    BY DEF MethodOf, NameOf
  <1>6. \A o, p : SameOperation(o, p) => key(o) = key(p)
    BY DEF SameOperation
  <1>7. \A o, p : key(o) = key(p) => o.id = p.id
    <2> TAKE o, p
    <2> HAVE key(o) = key(p)
    <2>1. \A v : Key(<<"impl">>, "method", v).item = v
      BY DEF Key
    <2>2. <<o.id>> = <<p.id>>
      BY <2>1
    <2> QED BY <2>2
  <1> HIDE DEF key
  <1>8. \A i \in DOMAIN x, j \in DOMAIN y : SameOperation(x[i], y[j]) => MethodOf(f, x[i]) = MethodOf(g, y[j])
    BY <1>2, <1>3, <1>5, <1>6 DEF Equal
  <1>9. ASSUME NEW i \in DOMAIN x, NEW j \in DOMAIN x, MethodOf(f, x[i]) = MethodOf(f, x[j]) PROVE i = j
    <2>1. key(x[i]) = key(x[j])
      BY <1>2, <1>4, <1>5, <1>9
    <2> QED BY <1>1, <1>7, <2>1 DEF Operations, Listing
  <1> QED BY <1>2, <1>8, <1>9 DEF SameMethods, f, g

\* The error of a method is widened when its plain form is taken.
Widened(method) == Escape(method \o <<"error">>, "pascal") \in Reexports
\* The hint and the rank of an error, by the name of its method.
ErrorHint(method) == method \o (IF Widened(method) THEN <<"operation", "error">> ELSE <<"error">>)
ErrorRank(method) == <<IF Widened(method) THEN 1 ELSE 0>> \o Spelled(method)

\* The request of an error, by its method.
LEMMA ErrorAskIs ==
  ASSUME NEW known, NEW ops, NEW i
  PROVE  LET method == MethodOf(known, ops[i])
         IN  ErrorAsk(known, ops, i) = Ask(Key(<<"root">>, "error", <<ops[i].id>>), ErrorHint(method),
                                           ops[i].seed, ErrorRank(method), <<i>>)
  BY DEF ErrorAsk, MethodOf, ErrorHint, ErrorRank, Widened

\* Methods of different names ask for errors with different ranks.
LEMMA ErrorsByMethod ==
  ASSUME NEW m \in Ident, NEW n \in Ident
  PROVE  /\ ErrorHint(m) \in Ident /\ ErrorRank(m) \in Seq(Nat)
         /\ ErrorRank(m) = ErrorRank(n) => m = n
  <1>1. <<"operation", "error">> \in Ident /\ <<"error">> \in Ident
    BY FixedWords DEF Ident, Fixed
  <1>2. ErrorHint(m) \in Ident
    BY <1>1 DEF ErrorHint, Ident
  <1>3. Spelled(m) \in Seq(Nat) /\ Spelled(n) \in Seq(Nat) /\ (Spelled(m) = Spelled(n) => m = n)
    BY SpelledDiffer
  <1> DEFINE v == IF Widened(m) THEN 1 ELSE 0
             w == IF Widened(n) THEN 1 ELSE 0
  <1>4. v \in Nat /\ w \in Nat
    OBVIOUS
  <1>5. ErrorRank(m) = <<v>> \o Spelled(m) /\ ErrorRank(n) = <<w>> \o Spelled(n)
    BY DEF ErrorRank
  <1> HIDE DEF v, w
  <1>6. ErrorRank(m) \in Seq(Nat)
    BY <1>3, <1>4, <1>5
  <1>7. ASSUME ErrorRank(m) = ErrorRank(n) PROVE Spelled(m) = Spelled(n)
    <2>1. (<<v>> \o Spelled(m))[1] = v /\ (<<w>> \o Spelled(n))[1] = w
      BY <1>3, <1>4
    <2>2. v = w
      BY <1>5, <1>7, <2>1
    <2>3. <<v>> \o Spelled(m) = <<v>> \o Spelled(n) /\ <<v>> \in Seq(Nat)
      BY <1>4, <1>5, <1>7, <2>2
    <2> QED BY <1>3, <2>3, ConcatSimplifications
  <1> QED BY <1>2, <1>3, <1>6, <1>7

\* Errors do not depend on the listing.
LEMMA ErrorsAlike ==
  ASSUME NEW x, NEW y, SameOperations(x, y), NEW used, NEW f, NEW g, SameMethods(f, x, g, y)
  PROVE  SameBatch(ErrorBatch(used, f, x), ErrorBatch(used, g, y))
  <1> DEFINE h == [i \in DOMAIN x |-> ErrorHint(MethodOf(f, x[i]))]
             l == [j \in DOMAIN y |-> ErrorHint(MethodOf(g, y[j]))]
             r == [i \in DOMAIN x |-> ErrorRank(MethodOf(f, x[i]))]
             q == [j \in DOMAIN y |-> ErrorRank(MethodOf(g, y[j]))]
             oa == {ErrorAsk(f, x, i) : i \in DOMAIN x}
             ob == {ErrorAsk(g, y, i) : i \in DOMAIN y}
  <1>0. Operations(x) /\ Operations(y) /\ Corresponds(x, DOMAIN x, y, DOMAIN y) /\ Corresponds(y, DOMAIN y, x, DOMAIN x)
    BY DEF SameOperations, RankedOperations
  <1>1. /\ \A i \in DOMAIN x : h[i] = ErrorHint(MethodOf(f, x[i])) /\ r[i] = ErrorRank(MethodOf(f, x[i]))
        /\ \A j \in DOMAIN y : l[j] = ErrorHint(MethodOf(g, y[j])) /\ q[j] = ErrorRank(MethodOf(g, y[j]))
    OBVIOUS
  <1> HIDE DEF h, l, r, q
  <1>2. /\ \A i \in DOMAIN x : MethodOf(f, x[i]) \in Ident
        /\ \A j \in DOMAIN y : MethodOf(g, y[j]) \in Ident
    BY DEF SameMethods, Methods, MethodOf
  <1>3. \A i \in DOMAIN x : h[i] \in Ident /\ r[i] \in Seq(Nat)
    BY <1>1, <1>2, ErrorsByMethod
  <1>4. \A j \in DOMAIN y : l[j] \in Ident /\ q[j] \in Seq(Nat)
    BY <1>1, <1>2, ErrorsByMethod
  <1>5. AskedOf(oa, <<"root">>, "error", x, DOMAIN x, h, r)
    BY <1>1, ErrorAskIs DEF AskedOf
  <1>6. AskedOf(ob, <<"root">>, "error", y, DOMAIN y, l, q)
    BY <1>1, ErrorAskIs DEF AskedOf
  <1>7. \A i \in DOMAIN x, j \in DOMAIN y : SameOperation(x[i], y[j]) => h[i] = l[j] /\ r[i] = q[j]
    BY <1>1 DEF SameMethods
  <1>8. \A i, j \in DOMAIN x : r[i] = r[j] => i = j
    BY <1>1, <1>2, ErrorsByMethod DEF SameMethods
  <1>9. ErrorBatch(used, f, x) = AllocRanked(used, oa, "pascal") /\ ErrorBatch(used, g, y) = AllocRanked(used, ob, "pascal")
    BY DEF ErrorBatch
  <1> HIDE DEF oa, ob
  <1> QED BY <1>0, <1>3, <1>4, <1>5, <1>6, <1>7, <1>8, <1>9, OperationsAlike

\* Success enums do not depend on the listing.
LEMMA SuccessesAlike ==
  ASSUME NEW x, NEW y, SameOperations(x, y), NEW used, NEW f, NEW g, SameMethods(f, x, g, y)
  PROVE  SameBatch(SuccessBatch(used, f, x), SuccessBatch(used, g, y))
  <1> DEFINE D == {j \in DOMAIN x : x[j].enum}
             E == {j \in DOMAIN y : y[j].enum}
             h == [i \in D |-> MethodOf(f, x[i]) \o <<"response">>]
             l == [j \in E |-> MethodOf(g, y[j]) \o <<"response">>]
             r == [i \in D |-> Spelled(MethodOf(f, x[i]))]
             q == [j \in E |-> Spelled(MethodOf(g, y[j]))]
             oa == {SuccessAsk(f, x, i) : i \in D}
             ob == {SuccessAsk(g, y, i) : i \in E}
  <1>0. Operations(x) /\ Operations(y) /\ D \subseteq DOMAIN x /\ E \subseteq DOMAIN y
    BY DEF SameOperations, RankedOperations
  <1>1. Corresponds(x, D, y, E) /\ Corresponds(y, E, x, D)
    BY DEF SameOperations, Corresponds, SameOperation
  <1>2. /\ \A i \in D : h[i] = MethodOf(f, x[i]) \o <<"response">> /\ r[i] = Spelled(MethodOf(f, x[i]))
        /\ \A j \in E : l[j] = MethodOf(g, y[j]) \o <<"response">> /\ q[j] = Spelled(MethodOf(g, y[j]))
    OBVIOUS
  <1>3. SuccessBatch(used, f, x) = AllocRanked(used, oa, "pascal") /\ SuccessBatch(used, g, y) = AllocRanked(used, ob, "pascal")
    BY DEF SuccessBatch
  <1> HIDE DEF h, l, r, q, D, E
  <1>4. /\ \A i \in D : MethodOf(f, x[i]) \in Ident
        /\ \A j \in E : MethodOf(g, y[j]) \in Ident
    BY <1>0 DEF SameMethods, Methods, MethodOf
  <1>5. \A m \in Ident : m \o <<"response">> \in Ident /\ Spelled(m) \in Seq(Nat)
    <2> TAKE m \in Ident
    <2>1. <<"response">> \in Ident
      BY FixedWords DEF Ident, Fixed
    <2> QED BY <2>1, SpelledDiffer DEF Ident
  <1>6. \A i \in D : h[i] \in Ident /\ r[i] \in Seq(Nat)
    BY <1>2, <1>4, <1>5
  <1>7. \A j \in E : l[j] \in Ident /\ q[j] \in Seq(Nat)
    BY <1>2, <1>4, <1>5
  <1>8. AskedOf(oa, <<"root">>, "success", x, D, h, r)
    BY <1>2 DEF AskedOf, SuccessAsk, MethodOf
  <1>9. AskedOf(ob, <<"root">>, "success", y, E, l, q)
    BY <1>2 DEF AskedOf, SuccessAsk, MethodOf
  <1>10. \A i \in D, j \in E : SameOperation(x[i], y[j]) => h[i] = l[j] /\ r[i] = q[j]
    BY <1>0, <1>2 DEF SameMethods
  <1>11. \A i, j \in D : r[i] = r[j] => i = j
    BY <1>0, <1>2, <1>4, SpelledDiffer DEF SameMethods
  <1> HIDE DEF oa, ob
  <1> QED BY <1>0, <1>1, <1>3, <1>6, <1>7, <1>8, <1>9, <1>10, <1>11, OperationsAlike

-----------------------------------------------------------------------------
\* Types that are told apart as far as their seeds are.
NamedTypes(types) ==
  /\ Listing(types) /\ \A t \in ToSet(types) : WellFormedType(t)
  /\ \A t, u \in ToSet(types) : TypeRank(t) = TypeRank(u) => t.seed = u.seed

\* Types are named alike however they are listed, up to an exchange.
LEMMA TypesAlike ==
  ASSUME NEW x, NEW y, NamedTypes(x), NamedTypes(y), ToSet(x) = ToSet(y), NEW used
  PROVE  /\ TypeBatch(used, x).used = TypeBatch(used, y).used
         /\ Grants(TypeBatch(used, x).given, TypeBatch(used, y).given)
         /\ Grants(TypeBatch(used, y).given, TypeBatch(used, x).given)
  <1> DEFINE h == [i \in DOMAIN x |-> x[i].hint]
             l == [j \in DOMAIN y |-> y[j].hint]
             e == [i \in DOMAIN x |-> x[i].seed]
             d == [j \in DOMAIN y |-> y[j].seed]
             r == [i \in DOMAIN x |-> TypeRank(x[i])]
             q == [j \in DOMAIN y |-> TypeRank(y[j])]
  <1>1. \A t : WellFormedType(t) => t.hint \in Ident /\ t.seed \in DOMAIN Suffix /\ TypeRank(t) \in Seq(Nat)
    BY DEF WellFormedType, TypeRank
  <1>2. /\ \A i \in DOMAIN x : WellFormedType(x[i]) /\ x[i] \in ToSet(x)
        /\ \A j \in DOMAIN y : WellFormedType(y[j]) /\ y[j] \in ToSet(y)
    BY DEF NamedTypes, ToSet
  <1>3. \A i \in DOMAIN x : /\ h[i] = x[i].hint /\ e[i] = x[i].seed /\ r[i] = TypeRank(x[i])
                            /\ h[i] \in Ident /\ e[i] \in DOMAIN Suffix /\ r[i] \in Seq(Nat)
    BY <1>1, <1>2
  <1>4. \A j \in DOMAIN y : /\ l[j] = y[j].hint /\ d[j] = y[j].seed /\ q[j] = TypeRank(y[j])
                            /\ l[j] \in Ident /\ d[j] \in DOMAIN Suffix /\ q[j] \in Seq(Nat)
    BY <1>1, <1>2
  <1> HIDE DEF h, l, e, d, r, q
  <1>5. TypeAsks(x) = {Ask(Key(<<"types">>, "model", <<x[i].id>>), h[i], e[i], r[i], <<i>>) : i \in DOMAIN x}
    BY <1>3 DEF TypeAsks, TypeAsk
  <1>6. TypeAsks(y) = {Ask(Key(<<"types">>, "model", <<y[i].id>>), l[i], d[i], q[i], <<i>>) : i \in DOMAIN y}
    BY <1>4 DEF TypeAsks, TypeAsk
  <1>7. AskedFor(TypeAsks(x), <<"types">>, "model", x, DOMAIN x, h, e, r)
    BY <1>3, <1>5 DEF AskedFor, NamedTypes
  <1>8. AskedFor(TypeAsks(y), <<"types">>, "model", y, DOMAIN y, l, d, q)
    BY <1>4, <1>6 DEF AskedFor, NamedTypes
  <1>9. \A i \in DOMAIN x, j \in DOMAIN y : x[i] = y[j] => SameItem(x, y, h, l, e, d, r, q, i, j)
    BY <1>3, <1>4 DEF SameItem
  <1>10. \A i \in DOMAIN x : \E j \in DOMAIN y : SameItem(x, y, h, l, e, d, r, q, i, j)
    <2> TAKE i \in DOMAIN x
    <2>1. x[i] \in ToSet(y)
      BY <1>2
    <2>2. PICK j \in DOMAIN y : x[i] = y[j]
      BY <2>1 DEF ToSet
    <2> QED BY <1>9, <2>2
  <1>11. \A j \in DOMAIN y : \E i \in DOMAIN x : SameItem(x, y, h, l, e, d, r, q, i, j)
    <2> TAKE j \in DOMAIN y
    <2>1. y[j] \in ToSet(x)
      BY <1>2
    <2>2. PICK i \in DOMAIN x : y[j] = x[i]
      BY <2>1 DEF ToSet
    <2> QED BY <1>9, <2>2
  <1>12. \A i, j \in DOMAIN x : r[i] = r[j] => e[i] = e[j]
    BY <1>2, <1>3 DEF NamedTypes
  <1>13. Alike(TypeAsks(x), TypeAsks(y))
    BY <1>7, <1>8, <1>10, <1>11, <1>12, ItemsAlike
  <1> QED BY <1>13, AllocRankedAlike DEF TypeBatch

-----------------------------------------------------------------------------
\* The requests for header structs are told apart.
LEMMA HeadersTold ==
  ASSUME NEW ops, RankedOperations(ops)
  PROVE  Requests(HeaderAsks(ops)) /\ Keyed(HeaderAsks(ops)) /\ Told(HeaderAsks(ops))
  <1>1. Operations(ops) /\ \A i, j \in DOMAIN ops : ops[i].rank = ops[j].rank => i = j
    BY DEF RankedOperations
  <1>2. \A i \in DOMAIN ops : WellFormedOperation(ops[i])
    BY <1>1, OperationsAre
  <1>3. \A i, j \in DOMAIN ops : ops[i].id = ops[j].id => i = j
    BY <1>1 DEF Operations, Listing
  <1>4. \A a \in HeaderAsks(ops) :
           \E i \in DOMAIN ops : \E j \in DOMAIN ops[i].headers : a = HeaderAsk(ops[i], i, j)
    BY DEF HeaderAsks
  <1> DEFINE label(i, j) == ops[i].headers[j].label
  <1>5. \A i \in DOMAIN ops : \A j \in DOMAIN ops[i].headers :
          /\ HeaderAsk(ops[i], i, j).key = Key(<<"types">>, "headers", <<ops[i].id, label(i, j)>>)
          /\ HeaderAsk(ops[i], i, j).rank = <<ops[i].rank, Place[label(i, j)]>>
    BY DEF HeaderAsk, Ask
  <1>6. \A i \in DOMAIN ops : \A j, l \in DOMAIN ops[i].headers : label(i, j) = label(i, l) => j = l
    BY <1>2 DEF WellFormedOperation
  <1>7. \A i \in DOMAIN ops : \A j \in DOMAIN ops[i].headers : label(i, j) \in Words
    BY <1>2 DEF WellFormedOperation, WellFormedHeader, ToSet
  <1>8. \A v, w, t, u : <<v, w>> = <<t, u>> => v = t /\ w = u
    OBVIOUS
  <1> HIDE DEF label
  <1>9. \A v, w \in Words : Place[v] = Place[w] => v = w
    BY PlacesDiffer DEF IsInjective, Words
  <1>10. \A v : Key(<<"types">>, "headers", v).item = v
    BY DEF Key
  <1>11. Keyed(HeaderAsks(ops))
    <2>1. SUFFICES ASSUME NEW a \in HeaderAsks(ops), NEW b \in HeaderAsks(ops), a.key = b.key PROVE a = b
      BY DEF Keyed
    <2>2. PICK i \in DOMAIN ops : \E j \in DOMAIN ops[i].headers : a = HeaderAsk(ops[i], i, j)
      BY <1>4
    <2>3. PICK j \in DOMAIN ops[i].headers : a = HeaderAsk(ops[i], i, j)
      BY <2>2
    <2>4. PICK k \in DOMAIN ops : \E l \in DOMAIN ops[k].headers : b = HeaderAsk(ops[k], k, l)
      BY <1>4
    <2>5. PICK l \in DOMAIN ops[k].headers : b = HeaderAsk(ops[k], k, l)
      BY <2>4
    <2>6. Key(<<"types">>, "headers", <<ops[i].id, label(i, j)>>) = Key(<<"types">>, "headers", <<ops[k].id, label(k, l)>>)
      BY <1>5, <2>1, <2>3, <2>5
    <2>7. <<ops[i].id, label(i, j)>> = <<ops[k].id, label(k, l)>>
      BY <1>10, <2>6
    <2>8. ops[i].id = ops[k].id /\ label(i, j) = label(k, l)
      BY <1>8, <2>7
    <2> QED BY <1>3, <1>6, <2>3, <2>5, <2>8
  <1>12. Told(HeaderAsks(ops))
    <2>1. SUFFICES ASSUME NEW a \in HeaderAsks(ops), NEW b \in HeaderAsks(ops), a.rank = b.rank PROVE a = b
      BY DEF Told
    <2>2. PICK i \in DOMAIN ops : \E j \in DOMAIN ops[i].headers : a = HeaderAsk(ops[i], i, j)
      BY <1>4
    <2>3. PICK j \in DOMAIN ops[i].headers : a = HeaderAsk(ops[i], i, j)
      BY <2>2
    <2>4. PICK k \in DOMAIN ops : \E l \in DOMAIN ops[k].headers : b = HeaderAsk(ops[k], k, l)
      BY <1>4
    <2>5. PICK l \in DOMAIN ops[k].headers : b = HeaderAsk(ops[k], k, l)
      BY <2>4
    <2>6. <<ops[i].rank, Place[label(i, j)]>> = <<ops[k].rank, Place[label(k, l)]>>
      BY <1>5, <2>1, <2>3, <2>5
    <2>7. ops[i].rank = ops[k].rank /\ Place[label(i, j)] = Place[label(k, l)]
      BY <1>8, <2>6
    <2>8. label(i, j) = label(k, l)
      BY <1>7, <1>9, <2>7
    <2> QED BY <1>1, <1>6, <2>3, <2>5, <2>7, <2>8
  <1> QED BY <1>1, <1>11, <1>12, HeaderRequests

\* The same operations ask for the same header structs.
LEMMA HeadersCover ==
  ASSUME NEW x, NEW y, Corresponds(x, DOMAIN x, y, DOMAIN y)
  PROVE  Covers(HeaderAsks(x), HeaderAsks(y))
  <1>1. SUFFICES ASSUME NEW a \in HeaderAsks(x) PROVE \E b \in HeaderAsks(y) : Same(a, b)
    BY DEF Covers
  <1>2. PICK i \in DOMAIN x : \E j \in DOMAIN x[i].headers : a = HeaderAsk(x[i], i, j)
    BY DEF HeaderAsks
  <1>3. PICK j \in DOMAIN x[i].headers : a = HeaderAsk(x[i], i, j)
    BY <1>2
  <1>4. PICK k \in DOMAIN y : SameOperation(x[i], y[k])
    BY DEF Corresponds
  <1>5. x[i].headers[j] \in ToSet(y[k].headers)
    BY <1>4 DEF SameOperation, ToSet
  <1>6. PICK l \in DOMAIN y[k].headers : x[i].headers[j] = y[k].headers[l]
    BY <1>5 DEF ToSet
  <1>7. HeaderAsk(y[k], k, l) \in HeaderAsks(y)
    BY DEF HeaderAsks
  <1>8. Same(a, HeaderAsk(y[k], k, l))
    BY <1>3, <1>4, <1>6 DEF Same, HeaderAsk, Ask, SameOperation
  <1> QED BY <1>7, <1>8

\* Header structs do not depend on the listing.
LEMMA HeadersAlike ==
  ASSUME NEW x, NEW y, SameOperations(x, y), NEW used
  PROVE  SameBatch(StructsOf(used, x), StructsOf(used, y))
  <1> DEFINE oa == HeaderAsks(x)
             ob == HeaderAsks(y)
  <1>1. Covers(oa, ob) /\ Covers(ob, oa)
    BY HeadersCover DEF SameOperations
  <1>2. Requests(oa) /\ Keyed(oa) /\ Told(oa) /\ Requests(ob) /\ Keyed(ob)
    BY HeadersTold DEF SameOperations
  <1>3. Tied(oa)
    BY <1>2 DEF Tied, Told
  <1> HIDE DEF oa, ob
  <1>4. Alike(oa, ob)
    BY <1>1, <1>2, <1>3 DEF Alike
  <1>5. SameBatch(AllocRanked(used, oa, "pascal"), AllocRanked(used, ob, "pascal"))
    BY <1>2, <1>4, ToldAlike DEF SameBatch
  <1> QED BY <1>5 DEF StructsOf, oa, ob

-----------------------------------------------------------------------------
\* Every parameter of o that is, or is not, required is one of p.
ParamsOfOther(o, p, required) ==
  \A i \in ParamsThat(o, required) : \E j \in ParamsThat(p, required) : o.params[i] = p.params[j]

\* Parameters do not depend on the listing.
LEMMA ParametersAlike ==
  ASSUME NEW o, NEW p, WellFormedOperation(o), WellFormedOperation(p), o.id = p.id, NEW required,
         ParamsOfOther(o, p, required), ParamsOfOther(p, o, required), NEW used
  PROVE  SameBatch(ParameterBatch(o, used, required), ParameterBatch(p, used, required))
  <1> DEFINE x == o.params
             y == p.params
             D == ParamsThat(o, required)
             E == ParamsThat(p, required)
             h == [i \in D |-> x[i].words]
             l == [j \in E |-> y[j].words]
             e == [i \in D |-> x[i].id]
             d == [j \in E |-> y[j].id]
             r == [i \in D |-> <<x[i].loc, x[i].rank>>]
             q == [j \in E |-> <<y[j].loc, y[j].rank>>]
             scope == ParamScope(o, required)
  <1>1. D \subseteq DOMAIN x /\ E \subseteq DOMAIN y /\ Listing(x) /\ Listing(y)
    BY DEF ParamsThat, WellFormedOperation
  <1>2. ASSUME NEW i \in DOMAIN x
        PROVE  x[i].words \in Ident /\ x[i].id \in DOMAIN Suffix /\ <<x[i].loc, x[i].rank>> \in Seq(Nat)
    <2>1. x[i] \in ToSet(x)
      BY DEF ToSet
    <2>2. x[i].words \in Ident /\ x[i].id \in DOMAIN Suffix /\ x[i].loc \in Nat /\ x[i].rank \in Nat
      BY <2>1 DEF WellFormedOperation, Worded
    <2> QED BY <2>2
  <1>3. ASSUME NEW j \in DOMAIN y
        PROVE  y[j].words \in Ident /\ y[j].id \in DOMAIN Suffix /\ <<y[j].loc, y[j].rank>> \in Seq(Nat)
    <2>1. y[j] \in ToSet(y)
      BY DEF ToSet
    <2>2. y[j].words \in Ident /\ y[j].id \in DOMAIN Suffix /\ y[j].loc \in Nat /\ y[j].rank \in Nat
      BY <2>1 DEF WellFormedOperation, Worded
    <2> QED BY <2>2
  <1>4. ParamScope(p, required) = scope
    BY DEF ParamScope
  <1>5. \A i \in D, j \in D : <<x[i].loc, x[i].rank>> = <<x[j].loc, x[j].rank>> => i = j
    <2> TAKE i \in D, j \in D
    <2> HAVE <<x[i].loc, x[i].rank>> = <<x[j].loc, x[j].rank>>
    <2>1. x[i].loc = x[j].loc /\ x[i].rank = x[j].rank
      OBVIOUS
    <2>2. x[i] \in ToSet(x) /\ x[j] \in ToSet(x)
      BY <1>1 DEF ToSet
    <2>3. x[i] = x[j]
      BY <2>1, <2>2 DEF WellFormedOperation
    <2> QED BY <1>1, <2>3 DEF Listing
  <1>6. ParamsOfOther(o, p, required) /\ ParamsOfOther(p, o, required)
    OBVIOUS
  <1>7. /\ \A i \in D : \E j \in E : x[i] = y[j]
        /\ \A j \in E : \E i \in D : y[j] = x[i]
    BY <1>6 DEF ParamsOfOther
  <1>8. /\ ParamAsks(o, required) = {Ask(Key(scope, "param", <<x[i].id>>), x[i].words, x[i].id, <<x[i].loc, x[i].rank>>, <<i>>) : i \in D}
        /\ ParamAsks(p, required) = {Ask(Key(scope, "param", <<y[j].id>>), y[j].words, y[j].id, <<y[j].loc, y[j].rank>>, <<j>>) : j \in E}
    BY <1>4 DEF ParamAsks, ParamAsk
  <1> HIDE DEF x, y, D, E, scope
  <1>9. \A i \in D : /\ h[i] = x[i].words /\ e[i] = x[i].id /\ r[i] = <<x[i].loc, x[i].rank>>
                     /\ h[i] \in Ident /\ e[i] \in DOMAIN Suffix /\ r[i] \in Seq(Nat)
    BY <1>1, <1>2
  <1>10. \A j \in E : /\ l[j] = y[j].words /\ d[j] = y[j].id /\ q[j] = <<y[j].loc, y[j].rank>>
                      /\ l[j] \in Ident /\ d[j] \in DOMAIN Suffix /\ q[j] \in Seq(Nat)
    BY <1>1, <1>3
  <1> HIDE DEF h, l, e, d, r, q
  <1>11. AskedFor(ParamAsks(o, required), scope, "param", x, D, h, e, r)
    BY <1>1, <1>8, <1>9 DEF AskedFor
  <1>12. AskedFor(ParamAsks(p, required), scope, "param", y, E, l, d, q)
    BY <1>1, <1>8, <1>10 DEF AskedFor
  <1>13. \A i \in D, j \in E : x[i] = y[j] => SameItem(x, y, h, l, e, d, r, q, i, j)
    BY <1>9, <1>10 DEF SameItem
  <1>14. /\ \A i \in D : \E j \in E : SameItem(x, y, h, l, e, d, r, q, i, j)
         /\ \A j \in E : \E i \in D : SameItem(x, y, h, l, e, d, r, q, i, j)
    BY <1>7, <1>13
  <1>15. \A i, j \in D : r[i] = r[j] => i = j
    BY <1>5, <1>9
  <1>16. \A i, j \in D : r[i] = r[j] => e[i] = e[j]
    BY <1>15
  <1>17. Alike(ParamAsks(o, required), ParamAsks(p, required)) /\ Told(ParamAsks(o, required))
    BY <1>11, <1>12, <1>14, <1>15, <1>16, ItemsAlike
  <1> QED BY <1>17, ToldAlike, ParameterBatchIs DEF SameBatch

-----------------------------------------------------------------------------
(* What two namings have in common.                                        *)

\* Every public item of f asks the same in g, and what it is given, one of its kind is given there.
Matched(f, g) ==
  \A k \in DOMAIN f : k.family \in Ranked =>
    /\ k \in DOMAIN g /\ f[k].base = g[k].base /\ f[k].rank = g[k].rank
    /\ \E l \in DOMAIN g : l.family = k.family /\ l.scope = k.scope /\ g[l] = f[k]

\* Batches of one family that grant the same match.
LEMMA GrantsMatched ==
  ASSUME NEW f, NEW g, Grants(f, g), NEW scope, NEW family,
         \A k \in DOMAIN f : k.scope = scope /\ k.family = family,
         \A k \in DOMAIN g : k.scope = scope /\ k.family = family
  PROVE  Matched(f, g)
  BY DEF Grants, Matched

\* So do those that are the same.
LEMMA EqualMatched ==
  ASSUME NEW f, NEW g, Equal(f, g)
  PROVE  Matched(f, g)
  BY DEF Equal, Matched

\* f is what m gives to some families.
Holds(m, f, families) ==
  /\ \A k \in DOMAIN f : k.family \in families /\ k \in DOMAIN m /\ m[k] = f[k]
  /\ \A k \in DOMAIN m : k.family \in families => k \in DOMAIN f

\* One of several functions is all that is given to its families.
LEMMA HoldsMerged ==
  ASSUME NEW functions, NEW f \in functions, NEW families, \A k \in DOMAIN f : k.family \in families,
         \A g \in functions : g # f => \A k \in DOMAIN g : k.family \notin families
  PROVE  Holds(Merged(functions), f, families)
  <1> DEFINE m == Merged(functions)
  <1>1. /\ \A k \in DOMAIN m : \E g \in functions : k \in DOMAIN g /\ m[k] = g[k]
        /\ \A g \in functions : \A k \in DOMAIN g : k \in DOMAIN m
    BY MergedFrom
  <1> HIDE DEF m
  <1>2. Holds(m, f, families)
    BY <1>1 DEF Holds
  <1> QED BY <1>2 DEF m

\* What match in all they hold of public families match.
LEMMA HoldsMatched ==
  ASSUME NEW m, NEW n, NEW f, NEW g, NEW families, Holds(m, f, families), Holds(n, g, families),
         Matched(f, g), \A k \in DOMAIN m : k.family \in Ranked => k.family \in families
  PROVE  Matched(m, n)
  <1>1. SUFFICES ASSUME NEW k \in DOMAIN m, k.family \in Ranked
                 PROVE  /\ k \in DOMAIN n /\ m[k].base = n[k].base /\ m[k].rank = n[k].rank
                        /\ \E l \in DOMAIN n : l.family = k.family /\ l.scope = k.scope /\ n[l] = m[k]
    BY DEF Matched
  <1>2. k \in DOMAIN f /\ m[k] = f[k]
    BY <1>1 DEF Holds
  <1>3. k \in DOMAIN g /\ f[k].base = g[k].base /\ f[k].rank = g[k].rank
    BY <1>1, <1>2 DEF Matched
  <1>4. PICK l \in DOMAIN g : l.family = k.family /\ l.scope = k.scope /\ g[l] = f[k]
    BY <1>1, <1>2 DEF Matched
  <1>5. k \in DOMAIN n /\ n[k] = g[k] /\ l \in DOMAIN n /\ n[l] = g[l]
    BY <1>3 DEF Holds
  <1> QED BY <1>2, <1>3, <1>4, <1>5

-----------------------------------------------------------------------------
\* The header structs are all the headers are given of their family.
LEMMA StructsHeld ==
  ASSUME NumeralsAreWords, NEW used, IsFiniteSet(used), NEW ops, Operations(ops)
  PROVE  /\ Holds(HeaderBatch(used, ops).given, StructsOf(used, ops).given, {"headers"})
         /\ \A k \in DOMAIN HeaderBatch(used, ops).given : k.family \in {"headers", "header"}
  <1> DEFINE f == StructsOf(used, ops).given
             F == {f} \union FieldsOf(ops)
  <1>1. \A k \in DOMAIN f : k.family = "headers"
    <2>1. Gives(used, HeaderAsks(ops), StructsOf(used, ops))
      BY HeaderRequests, AllocRankedGives DEF StructsOf
    <2> QED BY <2>1, HeaderRequests DEF Gives
  <1>2. \A g \in FieldsOf(ops) : \A k \in DOMAIN g : k.family = "header"
    <2> TAKE g \in FieldsOf(ops)
    <2>1. PICK o \in ToSet(ops) : \E h \in ToSet(o.headers) : g = HeaderFields(o, h)
      BY DEF FieldsOf
    <2>2. PICK h \in ToSet(o.headers) : g = HeaderFields(o, h)
      BY <2>1
    <2>3. WellFormedHeader(h)
      BY DEF Operations, WellFormedOperation
    <2>4. Under(g, {<<"header fields", o.id, h.label>>[1]}, {"header"})
      BY <2>2, <2>3, HeaderFieldsOwn DEF OwnScope
    <2> QED BY <2>4 DEF Under
  <1>3. HeaderBatch(used, ops).given = Merged(F)
    BY HeaderBatchIs
  <1> HIDE DEF f
  <1>4. \A g \in F : g # f => g \in FieldsOf(ops)
    OBVIOUS
  <1>5. f \in F
    OBVIOUS
  <1>6. \A g \in F : \A k \in DOMAIN g : k.family \in {"headers", "header"}
    BY <1>1, <1>2
  <1> HIDE DEF F
  <1>7. Holds(Merged(F), f, {"headers"})
    BY <1>1, <1>2, <1>4, <1>5, HoldsMerged
  <1>8. \A k \in DOMAIN Merged(F) : k.family \in {"headers", "header"}
    BY <1>6, MergedFrom
  <1> QED BY <1>3, <1>7, <1>8 DEF f

-----------------------------------------------------------------------------
\* m gives each item of a list what f does, and nothing else.
ItemsGive(m, list, f) ==
  /\ \A x \in ToSet(list) : \A k \in DOMAIN f[x] : k \in DOMAIN m /\ m[k] = f[x][k]
  /\ \A k \in DOMAIN m : \E x \in ToSet(list) : k \in DOMAIN f[x] /\ m[k] = f[x][k]

\* What belongs to each of several items, merged.
LEMMA ItemsGiven ==
  ASSUME NEW list, Listing(list), NEW f, \A x \in ToSet(list) : Belongs(f[x], x.id),
         NEW functions, functions = {f[x] : x \in ToSet(list)}
  PROVE  ItemsGive(Merged(functions), list, f)
  <1>1. \A x, y \in ToSet(list) : \A k \in DOMAIN f[x] \intersect DOMAIN f[y] : x = y
    BY ItemsDiffer DEF Belongs
  <1>2. Agree(functions)
    BY <1>1 DEF Agree
  <1>3. Merges(Merged(functions), functions)
    BY <1>2, MergedIs
  <1>4. /\ \A k \in DOMAIN Merged(functions) : \E g \in functions : k \in DOMAIN g /\ Merged(functions)[k] = g[k]
        /\ \A g \in functions : \A k \in DOMAIN g : k \in DOMAIN Merged(functions)
    BY MergedFrom
  <1>5. \A g \in functions : \A k \in DOMAIN g : Merged(functions)[k] = g[k]
    BY <1>3 DEF Merges
  <1>6. \A x \in ToSet(list) : f[x] \in functions
    OBVIOUS
  <1>7. \A g \in functions : \E x \in ToSet(list) : g = f[x]
    OBVIOUS
  <1>8. \A k \in DOMAIN Merged(functions) :
           \E x \in ToSet(list) : k \in DOMAIN f[x] /\ Merged(functions)[k] = f[x][k]
    <2> TAKE k \in DOMAIN Merged(functions)
    <2>1. PICK g \in functions : k \in DOMAIN g /\ Merged(functions)[k] = g[k]
      BY <1>4
    <2>2. PICK x \in ToSet(list) : g = f[x]
      BY <1>7
    <2> QED BY <2>1, <2>2
  <1> QED BY <1>4, <1>5, <1>6, <1>8 DEF ItemsGive

\* What a signature gives to parameters.
SignatureGives(o) ==
  /\ \A required \in BOOLEAN : \A k \in DOMAIN ParameterBatch(o, {}, required).given :
        /\ k.family = "param" /\ k.scope = ParamScope(o, required)
        /\ k \in DOMAIN Signature(o) /\ Signature(o)[k] = ParameterBatch(o, {}, required).given[k]
  /\ \A k \in DOMAIN Signature(o) : k.family = "param" =>
        \E required \in BOOLEAN : k \in DOMAIN ParameterBatch(o, {}, required).given

\* A signature merges the parameters in both their scopes, and the bindings.
LEMMA SignatureIs ==
  ASSUME NumeralsAreWords, NEW o, WellFormedOperation(o)
  PROVE  SignatureGives(o)
  <1> DEFINE f(b) == ParameterBatch(o, {}, b).given
             g == BindingRow(o, ParameterBatch(o, {}, TRUE).used).given
             F == {f(TRUE), f(FALSE), g}
  <1>0. IsFiniteSet({})
    BY FS_EmptySet
  <1>1. ASSUME NEW b \in BOOLEAN
        PROVE  /\ Family(ParameterBatch(o, {}, b), {}, ParamScope(o, b), {"param"})
               /\ \A k \in DOMAIN f(b) : k.family = "param" /\ k.scope = ParamScope(o, b)
    <2>1. Family(ParameterBatch(o, {}, b), {}, ParamScope(o, b), {"param"})
      BY <1>0, ParametersNamed
    <2> QED BY <2>1 DEF Family, NamedIn
  <1>2. \A k \in DOMAIN g : k.family = "binding"
    <2>1. IsFiniteSet(ParameterBatch(o, {}, TRUE).used)
      BY <1>1 DEF Family
    <2> DEFINE used == ParameterBatch(o, {}, TRUE).used
               scope == <<"args", o.id>>
    <2>2. Family(BindingRow(o, used), used, scope, {"binding"})
      BY <2>1, BindingsNamed
    <2> HIDE DEF used, scope
    <2>3. \A k \in DOMAIN BindingRow(o, used).given : k.family = "binding"
      BY <2>2 DEF Family, NamedIn
    <2> QED BY <2>3 DEF used
  <1>3. ParamScope(o, TRUE) # ParamScope(o, FALSE)
    <2>1. ParamScope(o, TRUE) = <<"args", o.id>> /\ ParamScope(o, FALSE) = <<"fields", o.id>>
      BY DEF ParamScope
    <2>2. <<"args", o.id>>[1] = "args" /\ <<"fields", o.id>>[1] = "fields"
      OBVIOUS
    <2> QED BY <2>1, <2>2
  <1>4. Signature(o) = Merged(F)
    BY DEF Signature
  <1> HIDE DEF f, g
  <1>5. Agree(F)
    BY <1>1, <1>2, <1>3 DEF Agree
  <1>6. \A b \in BOOLEAN : f(b) \in F
    OBVIOUS
  <1>7. \A h \in F : h = g \/ \E b \in BOOLEAN : h = f(b)
    OBVIOUS
  <1> HIDE DEF F
  <1>8. Merges(Merged(F), F)
    BY <1>5, MergedIs
  <1>9. /\ \A k \in DOMAIN Merged(F) : \E h \in F : k \in DOMAIN h /\ Merged(F)[k] = h[k]
        /\ \A h \in F : \A k \in DOMAIN h : k \in DOMAIN Merged(F) /\ Merged(F)[k] = h[k]
    BY <1>8, MergedFrom DEF Merges
  <1>10. ASSUME NEW k \in DOMAIN Signature(o), k.family = "param"
         PROVE  \E required \in BOOLEAN : k \in DOMAIN f(required)
    BY <1>2, <1>4, <1>7, <1>9, <1>10
  <1>11. \A b \in BOOLEAN : \A k \in DOMAIN f(b) :
            /\ k.family = "param" /\ k.scope = ParamScope(o, b)
            /\ k \in DOMAIN Signature(o) /\ Signature(o)[k] = f(b)[k]
    BY <1>1, <1>4, <1>6, <1>9
  <1> QED BY <1>10, <1>11 DEF SignatureGives, f

\* The signatures of a list of operations, merged.
LEMMA SignaturesGiven ==
  ASSUME NumeralsAreWords, NEW ops, Operations(ops)
  PROVE  ItemsGive(Merged({Signature(o) : o \in ToSet(ops)}), ops, [o \in ToSet(ops) |-> Signature(o)])
  <1> DEFINE f == [o \in ToSet(ops) |-> Signature(o)]
             F == {Signature(o) : o \in ToSet(ops)}
  <1>1. \A o \in ToSet(ops) : Belongs(f[o], o.id)
    BY SignatureNamed DEF Operations
  <1>2. F = {f[o] : o \in ToSet(ops)}
    OBVIOUS
  <1> HIDE DEF f, F
  <1>3. ItemsGive(Merged(F), ops, f)
    BY <1>1, <1>2, ItemsGiven DEF Operations
  <1> QED BY <1>3 DEF f, F

\* The parameters of the same operation.
LEMMA SameParams ==
  ASSUME NEW o, NEW p, ToSet(o.params) = ToSet(p.params), NEW required
  PROVE  ParamsOfOther(o, p, required)
  <1>1. SUFFICES ASSUME NEW i \in ParamsThat(o, required)
                 PROVE  \E j \in ParamsThat(p, required) : o.params[i] = p.params[j]
    BY DEF ParamsOfOther
  <1>2. i \in DOMAIN o.params /\ o.params[i].required = required
    BY DEF ParamsThat
  <1>3. o.params[i] \in ToSet(p.params)
    BY <1>2 DEF ToSet
  <1>4. PICK j \in DOMAIN p.params : o.params[i] = p.params[j]
    BY <1>3 DEF ToSet
  <1> QED BY <1>2, <1>4 DEF ParamsThat

\* Signatures do not depend on the listing.
LEMMA SignaturesMatched ==
  ASSUME NumeralsAreWords, NEW x, NEW y, SameOperations(x, y)
  PROVE  Matched(Merged({Signature(o) : o \in ToSet(x)}), Merged({Signature(o) : o \in ToSet(y)}))
  <1> DEFINE f == [o \in ToSet(x) |-> Signature(o)]
             g == [o \in ToSet(y) |-> Signature(o)]
             m == Merged({Signature(o) : o \in ToSet(x)})
             n == Merged({Signature(o) : o \in ToSet(y)})
  <1>1. Operations(x) /\ Operations(y) /\ Corresponds(x, DOMAIN x, y, DOMAIN y)
    BY DEF SameOperations, RankedOperations
  <1>2. ItemsGive(m, x, f) /\ ItemsGive(n, y, g)
    BY <1>1, SignaturesGiven
  <1>3. /\ \A o \in ToSet(x) : f[o] = Signature(o) /\ WellFormedOperation(o)
        /\ \A o \in ToSet(y) : g[o] = Signature(o) /\ WellFormedOperation(o)
    BY <1>1 DEF Operations
  <1> HIDE DEF f, g, m, n
  <1>4. SUFFICES ASSUME NEW k \in DOMAIN m, k.family \in Ranked PROVE k \in DOMAIN n /\ n[k] = m[k]
    BY DEF Matched, m, n
  <1>5. PICK o \in ToSet(x) : k \in DOMAIN f[o] /\ m[k] = f[o][k]
    BY <1>2 DEF ItemsGive
  <1>6. k.family = "param"
    <2>1. Under(Signature(o), {"args", "fields"}, {"param", "binding"})
      BY <1>3, SignatureNamed
    <2>2. k.family \in {"param", "binding"}
      BY <1>3, <1>5, <2>1 DEF Under
    <2> QED BY <1>4, <2>2 DEF Ranked
  <1>7. SignatureGives(o)
    BY <1>3, SignatureIs
  <1>8. PICK required \in BOOLEAN : k \in DOMAIN ParameterBatch(o, {}, required).given
    BY <1>3, <1>5, <1>6, <1>7 DEF SignatureGives
  <1>9. m[k] = ParameterBatch(o, {}, required).given[k]
    BY <1>3, <1>5, <1>7, <1>8 DEF SignatureGives
  <1>10. PICK p \in ToSet(y) : SameOperation(o, p)
    <2>1. PICK i \in DOMAIN x : o = x[i]
      BY DEF ToSet
    <2> QED BY <1>1, <2>1 DEF Corresponds, ToSet
  <1>11. SameBatch(ParameterBatch(o, {}, required), ParameterBatch(p, {}, required))
    BY <1>3, <1>10, SameParams, ParametersAlike DEF SameOperation
  <1>12. /\ k \in DOMAIN ParameterBatch(p, {}, required).given
         /\ ParameterBatch(p, {}, required).given[k] = m[k]
    BY <1>8, <1>9, <1>11 DEF SameBatch, Equal
  <1>13. SignatureGives(p)
    BY <1>3, SignatureIs
  <1>14. k \in DOMAIN g[p] /\ g[p][k] = m[k]
    BY <1>3, <1>12, <1>13 DEF SignatureGives
  <1> QED BY <1>2, <1>14 DEF ItemsGive

-----------------------------------------------------------------------------
\* Two well-formed APIs, one the other in another order.
ReorderedApis(a, b) == WellFormed(a) /\ WellFormed(b) /\ Reordered(a, b)

\* Either is the other in another order.
LEMMA ReorderedBack ==
  ASSUME NEW a, NEW b, ReorderedApis(a, b)
  PROVE  ReorderedApis(b, a)
  <1>1. \A o, p : SameOperation(o, p) => SameOperation(p, o)
    BY DEF SameOperation
  <1> QED BY <1>1 DEF ReorderedApis, Reordered

\* They have the same types and operations.
LEMMA ReorderedAre ==
  ASSUME NEW a, NEW b, ReorderedApis(a, b)
  PROVE  /\ NamedTypes(a.types) /\ NamedTypes(b.types) /\ ToSet(a.types) = ToSet(b.types)
         /\ SameOperations(a.ops, b.ops)
  <1>1. ASSUME NEW c, WellFormed(c) PROVE RankedOperations(c.ops)
    <2>1. Operations(c.ops)
      BY <1>1, WellFormedParts
    <2>2. \A o, p \in ToSet(c.ops) : o.rank = p.rank => o = p
      BY <1>1 DEF WellFormed
    <2>3. \A i \in DOMAIN c.ops : c.ops[i] \in ToSet(c.ops)
      BY DEF ToSet
    <2> QED BY <2>1, <2>2, <2>3 DEF RankedOperations, Operations, Listing
  <1>2. ASSUME NEW c, NEW d, ReorderedApis(c, d) PROVE Corresponds(c.ops, DOMAIN c.ops, d.ops, DOMAIN d.ops)
    <2>1. \A o \in ToSet(c.ops) : \E p \in ToSet(d.ops) : SameOperation(o, p)
      BY <1>2 DEF ReorderedApis, Reordered
    <2> QED BY <2>1 DEF Corresponds, ToSet
  <1>3. NamedTypes(a.types) /\ NamedTypes(b.types) /\ ToSet(a.types) = ToSet(b.types)
    BY DEF ReorderedApis, Reordered, NamedTypes, WellFormed
  <1>4. SameOperations(a.ops, b.ops)
    <2>1. Corresponds(a.ops, DOMAIN a.ops, b.ops, DOMAIN b.ops)
      BY <1>2
    <2>2. Corresponds(b.ops, DOMAIN b.ops, a.ops, DOMAIN a.ops)
      BY <1>2, ReorderedBack
    <2> QED BY <1>1, <2>1, <2>2 DEF SameOperations, ReorderedApis
  <1> QED BY <1>3, <1>4

\* What their stages name is the same, but for an exchange of types.
LEMMA BatchesAlike ==
  ASSUME NumeralsAreWords, NEW a, NEW b, ReorderedApis(a, b)
  PROVE  /\ TypesOf(a).used = TypesOf(b).used /\ Grants(TypesOf(a).given, TypesOf(b).given)
         /\ SameBatch(StructsOf(TypesOf(a).used, a.ops), StructsOf(TypesOf(b).used, b.ops))
         /\ SameBatch(MethodsOf(a), MethodsOf(b))
         /\ SameBatch(ParamsOf(a), ParamsOf(b))
         /\ SameBatch(AccessorsOf(a), AccessorsOf(b))
         /\ SameBatch(ErrorsOf(a), ErrorsOf(b))
         /\ SameBatch(SuccessesOf(a), SuccessesOf(b))
  <1>1. NamedTypes(a.types) /\ NamedTypes(b.types) /\ ToSet(a.types) = ToSet(b.types)
    BY ReorderedAre
  <1>2. SameOperations(a.ops, b.ops)
    BY ReorderedAre
  <1>3. TypesOf(a).used = TypesOf(b).used /\ Grants(TypesOf(a).given, TypesOf(b).given)
    BY <1>1, TypesAlike DEF TypesOf
  <1>4. SameBatch(StructsOf(TypesOf(a).used, a.ops), StructsOf(TypesOf(b).used, b.ops))
    BY <1>2, <1>3, HeadersAlike
  <1>5. SameBatch(MethodsOf(a), MethodsOf(b))
    BY <1>2, MethodsAlike DEF MethodsOf
  <1>6. SameBatch(ParamsOf(a), ParamsOf(b))
    BY <1>2, ParamsAlike DEF ParamsOf
  <1>7. SameMethods(MethodsOf(a).given, a.ops, MethodsOf(b).given, b.ops)
    BY <1>2, MethodsSame, FreshAre DEF MethodsOf
  <1>8. SameBatch(AccessorsOf(a), AccessorsOf(b))
    <2>1. MethodsOf(a).used = MethodsOf(b).used
      BY <1>5 DEF SameBatch
    <2> QED BY <1>2, <1>7, <2>1, AccessorsAlike DEF AccessorsOf
  <1>9. SameBatch(ErrorsOf(a), ErrorsOf(b))
    <2>1. ParamsOf(a).used = ParamsOf(b).used
      BY <1>6 DEF SameBatch
    <2> QED BY <1>2, <1>7, <2>1, ErrorsAlike DEF ErrorsOf
  <1>10. SameBatch(SuccessesOf(a), SuccessesOf(b))
    <2>1. ErrorsOf(a).used = ErrorsOf(b).used
      BY <1>9 DEF SameBatch
    <2> QED BY <1>2, <1>7, <2>1, SuccessesAlike DEF SuccessesOf
  <1> QED BY <1>3, <1>4, <1>5, <1>6, <1>8, <1>9, <1>10

\* What the stages name of one match what they name of the other.
LEMMA PartsMatched ==
  ASSUME NumeralsAreWords, NEW a, NEW b, ReorderedApis(a, b), NEW q \in StageNames
  PROVE  Matched(Part(a, q), Part(b, q))
  <1>0. WellFormed(a) /\ WellFormed(b)
    BY DEF ReorderedApis
  <1>1. /\ Matched(MethodsOf(a).given, MethodsOf(b).given) /\ Matched(ParamsOf(a).given, ParamsOf(b).given)
         /\ Matched(AccessorsOf(a).given, AccessorsOf(b).given) /\ Matched(ErrorsOf(a).given, ErrorsOf(b).given)
         /\ Matched(SuccessesOf(a).given, SuccessesOf(b).given)
    <2>1. SameBatch(MethodsOf(a), MethodsOf(b)) /\ SameBatch(ParamsOf(a), ParamsOf(b))
      BY BatchesAlike
    <2>2. SameBatch(AccessorsOf(a), AccessorsOf(b)) /\ SameBatch(ErrorsOf(a), ErrorsOf(b))
      BY BatchesAlike
    <2>3. SameBatch(SuccessesOf(a), SuccessesOf(b))
      BY BatchesAlike
    <2> QED BY <2>1, <2>2, <2>3, EqualMatched DEF SameBatch
  <1>2. CASE q = "types"
    <2>1. Family(TypesOf(a), TypesModule, <<"types">>, {"model"}) /\ Family(TypesOf(b), TypesModule, <<"types">>, {"model"})
      BY <1>0, StagesNamed
    <2>2. /\ \A k \in DOMAIN TypesOf(a).given : k.scope = <<"types">> /\ k.family = "model"
          /\ \A k \in DOMAIN TypesOf(b).given : k.scope = <<"types">> /\ k.family = "model"
      BY <2>1 DEF Family, NamedIn
    <2>3. Matched(TypesOf(a).given, TypesOf(b).given)
      BY <2>2, BatchesAlike, GrantsMatched
    <2> QED BY <1>2, <2>3, PartIs
  <1>3. CASE q = "headers"
    <2> DEFINE f == StructsOf(TypesOf(a).used, a.ops).given
               g == StructsOf(TypesOf(b).used, b.ops).given
               m == HeaderBatch(TypesOf(a).used, a.ops).given
               n == HeaderBatch(TypesOf(b).used, b.ops).given
    <2>1. IsFiniteSet(TypesOf(a).used) /\ Operations(a.ops) /\ IsFiniteSet(TypesOf(b).used) /\ Operations(b.ops)
      BY <1>0, StagesNamed, WellFormedParts DEF Family
    <2>2. /\ Holds(m, f, {"headers"}) /\ Holds(n, g, {"headers"})
          /\ \A k \in DOMAIN m : k.family \in {"headers", "header"}
      BY <2>1, StructsHeld
    <2>3. Matched(f, g)
      BY BatchesAlike, EqualMatched DEF SameBatch
    <2>4. m = Part(a, q) /\ n = Part(b, q)
      BY <1>3, PartIs DEF HeadersOf
    <2> HIDE DEF f, g, m, n
    <2>5. \A k \in DOMAIN m : k.family \in Ranked => k.family \in {"headers"}
      BY <2>2 DEF Ranked
    <2>6. Matched(m, n)
      BY <2>2, <2>3, <2>5, HoldsMatched
    <2> QED BY <2>4, <2>6
  <1>4. CASE q = "signatures"
    <2>1. SameOperations(a.ops, b.ops)
      BY ReorderedAre
    <2>2. Matched(Merged({Signature(o) : o \in ToSet(a.ops)}), Merged({Signature(o) : o \in ToSet(b.ops)}))
      BY <2>1, SignaturesMatched
    <2>3. /\ Part(a, "signatures") = Merged({Signature(o) : o \in ToSet(a.ops)})
          /\ Part(b, "signatures") = Merged({Signature(o) : o \in ToSet(b.ops)})
      BY PartIs
    <2> QED BY <1>4, <2>2, <2>3
  <1>5. CASE q = "methods"
    BY <1>5, <1>1, PartIs
  <1>6. CASE q = "params"
    BY <1>6, <1>1, PartIs
  <1>7. CASE q = "accessors"
    BY <1>7, <1>1, PartIs
  <1>8. CASE q = "errors"
    BY <1>8, <1>1, PartIs
  <1>9. CASE q = "successes"
    BY <1>9, <1>1, PartIs
  <1>10. CASE q \in {"servers", "members"}
    <2>1. \A k \in DOMAIN Part(a, q) : k.family \in FamiliesOf(q)
      BY <1>0, PartsAreClear DEF Sound, Under
    <2>2. FamiliesOf(q) \intersect Ranked = {}
      BY <1>10, FamiliesAre DEF Ranked
    <2> QED BY <2>1, <2>2 DEF Matched
  <1> QED BY <1>2, <1>3, <1>4, <1>5, <1>6, <1>7, <1>8, <1>9, <1>10 DEF StageNames

\* So do the two namings, at any stage.
LEMMA GatheredMatched ==
  ASSUME NumeralsAreWords, NEW a, NEW b, ReorderedApis(a, b), NEW s
  PROVE  Matched(Gathered(a, s), Gathered(b, s))
  <1> DEFINE m == Gathered(a, s)
             n == Gathered(b, s)
             F == {Part(a, p) : p \in StagesBefore(s)}
  <1>1. m = Merged(F)
    BY DEF Gathered
  <1>2. \A k \in DOMAIN m : \E f \in F : k \in DOMAIN f /\ m[k] = f[k]
    BY <1>1, MergedFrom
  <1> HIDE DEF m, n
  <1>3. SUFFICES ASSUME NEW k \in DOMAIN m, k.family \in Ranked
                 PROVE  /\ k \in DOMAIN n /\ m[k].base = n[k].base /\ m[k].rank = n[k].rank
                        /\ \E l \in DOMAIN n : l.family = k.family /\ l.scope = k.scope /\ n[l] = m[k]
    BY DEF Matched, m, n
  <1>4. PICK p \in StagesBefore(s) : k \in DOMAIN Part(a, p) /\ m[k] = Part(a, p)[k]
    BY <1>2
  <1>5. Matched(Part(a, p), Part(b, p))
    BY PartsMatched DEF StagesBefore
  <1>6. k \in DOMAIN Part(b, p) /\ m[k].base = Part(b, p)[k].base /\ m[k].rank = Part(b, p)[k].rank
    BY <1>3, <1>4, <1>5 DEF Matched
  <1>7. PICK l \in DOMAIN Part(b, p) : l.family = k.family /\ l.scope = k.scope /\ Part(b, p)[l] = m[k]
    BY <1>3, <1>4, <1>5 DEF Matched
  <1>8. WellFormed(b)
    BY DEF ReorderedApis
  <1>9. k \in DOMAIN n /\ n[k] = Part(b, p)[k] /\ l \in DOMAIN n /\ n[l] = Part(b, p)[l]
    BY <1>6, <1>8, GatheredIs DEF n
  <1> QED BY <1>6, <1>7, <1>9

-----------------------------------------------------------------------------
\* The names of the peers of an item.
PeersOf(f, k) ==
  {l \in DOMAIN f : l.family = k.family /\ l.scope = k.scope /\ f[l].base = f[k].base /\ f[l].rank = f[k].rank}

\* What items are called.
Called(f, items) == {f[l].name : l \in items}

\* What peers are called in one, a peer is called in the other.
LEMMA PeersCalled ==
  ASSUME NEW f, NEW g, Matched(f, g), NEW k \in DOMAIN f, k.family \in Ranked,
         k \in DOMAIN g, f[k].base = g[k].base, f[k].rank = g[k].rank,
         NEW l \in PeersOf(f, k)
  PROVE  \E h \in PeersOf(g, k) : g[h].name = f[l].name
  <1>1. l \in DOMAIN f /\ l.family = k.family /\ l.scope = k.scope /\ f[l].base = f[k].base /\ f[l].rank = f[k].rank
    BY DEF PeersOf
  <1>2. PICK h \in DOMAIN g : h.family = l.family /\ h.scope = l.scope /\ g[h] = f[l]
    BY <1>1 DEF Matched
  <1>3. h \in PeersOf(g, k)
    BY <1>1, <1>2 DEF PeersOf
  <1> QED BY <1>2, <1>3

\* Namings that match both ways call peers the same.
LEMMA SamePeers ==
  ASSUME NEW f, NEW g, Matched(f, g), Matched(g, f), NEW k \in DOMAIN f, k.family \in Ranked
  PROVE  Called(f, PeersOf(f, k)) = Called(g, PeersOf(g, k))
  <1>1. k \in DOMAIN g /\ f[k].base = g[k].base /\ f[k].rank = g[k].rank
    BY DEF Matched
  <1>2. \A l \in PeersOf(f, k) : \E h \in PeersOf(g, k) : g[h].name = f[l].name
    BY <1>1, PeersCalled
  <1>3. \A l \in PeersOf(g, k) : \E h \in PeersOf(f, k) : f[h].name = g[l].name
    BY <1>1, PeersCalled
  <1> QED BY <1>2, <1>3 DEF Called

\* The invariant says what is given when both namings are done.
LEMMA FinishedIs ==
  ASSUME IndInv, Finished
  PROVE  /\ given[1] = Gathered(api[1], "done") /\ given[2] = Gathered(api[2], "done")
         /\ WellFormed(api[1]) /\ WellFormed(api[2])
         /\ variant = "order" => Reordered(api[1], api[2])
         /\ variant = "additions" => Extended(api[1], api[2])
  <1>1. PICK a \in Apis : \E v \in Variants(a) : variant = v.of /\ api = <<a, v.api>>
    BY DEF IndInv
  <1>2. PICK v \in Variants(a) : variant = v.of /\ api = <<a, v.api>>
    BY <1>1
  <1>3. api[1] = a /\ api[2] = v.api
    BY <1>2
  <1>4. /\ variant = "order" => Reordered(api[1], api[2])
        /\ variant = "additions" => Extended(api[1], api[2])
    BY <1>2, <1>3, ApisAreWellFormed
  <1>5. stage[1] = "done" /\ stage[2] = "done"
    BY DEF Finished
  <1>6. 1 \in 1..2 /\ 2 \in 1..2
    OBVIOUS
  <1> QED BY <1>4, <1>5, <1>6, HeldAt

\* It implies that the order of the listing renames nothing.
LEMMA IndInvOrder == ASSUME NumeralsAreWords PROVE IndInv => OrderRenamesNothing
  <1>1. SUFFICES ASSUME IndInv, Finished, variant = "order", NEW k \in DOMAIN given[1], k.family \in Ranked
                 PROVE  {given[1][l].name : l \in Peers(1, k)} = {given[2][l].name : l \in Peers(2, k)}
    BY DEF OrderRenamesNothing
  <1> DEFINE f == given[1]
             g == given[2]
  <1>2. ReorderedApis(api[1], api[2])
    BY <1>1, FinishedIs DEF ReorderedApis
  <1>3. Matched(f, g)
    BY <1>1, <1>2, FinishedIs, GatheredMatched
  <1>4. Matched(g, f)
    BY <1>1, <1>2, FinishedIs, GatheredMatched, ReorderedBack
  <1>5. Peers(1, k) = PeersOf(f, k) /\ Peers(2, k) = PeersOf(g, k) /\ k \in DOMAIN f
    BY DEF Peers, PeersOf
  <1> HIDE DEF f, g
  <1>6. Called(f, PeersOf(f, k)) = Called(g, PeersOf(g, k))
    BY <1>1, <1>3, <1>4, <1>5, SamePeers
  <1> QED BY <1>5, <1>6 DEF Called, f, g

\* Listing the types, the operations and their parameters in another order renames nothing
\* that is public, but for an exchange among types that nothing tells apart.
THEOREM OrderNeverRenames == ASSUME NumeralsAreWords PROVE Spec => []OrderRenamesNothing
  <1>1. IndInv => OrderRenamesNothing
    BY IndInvOrder
  <1> QED BY <1>1, InvariantHolds, PTL

-----------------------------------------------------------------------------
(* What is added to an API.                                                *)

\* What is given to a family comes from its stage.
LEMMA GivenByStage ==
  ASSUME NumeralsAreWords, NEW a, WellFormed(a), NEW s, NEW q \in StageNames,
         NEW k \in DOMAIN Gathered(a, s), k.family \in FamiliesOf(q)
  PROVE  k \in DOMAIN Part(a, q) /\ Gathered(a, s)[k] = Part(a, q)[k]
  <1> DEFINE m == Gathered(a, s)
             F == {Part(a, p) : p \in StagesBefore(s)}
  <1>1. m = Merged(F)
    BY DEF Gathered
  <1>2. \A l \in DOMAIN m : \E f \in F : l \in DOMAIN f /\ m[l] = f[l]
    BY <1>1, MergedFrom
  <1>3. PICK p \in StagesBefore(s) : k \in DOMAIN Part(a, p) /\ m[k] = Part(a, p)[k]
    BY <1>2
  <1>4. p \in StageNames
    BY DEF StagesBefore
  <1>5. k.family \in FamiliesOf(p)
    BY <1>3, <1>4, PartsAreClear DEF Sound, Under
  <1>6. p = q
    BY <1>4, <1>5, FamiliesDiffer
  <1> QED BY <1>3, <1>6

\* The members of a list of types, merged.
LEMMA MembersGiven ==
  ASSUME NumeralsAreWords, NEW types, Listing(types), \A t \in ToSet(types) : WellFormedType(t)
  PROVE  ItemsGive(Merged({Members(t) : t \in ToSet(types)}), types, [t \in ToSet(types) |-> Members(t)])
  <1> DEFINE f == [t \in ToSet(types) |-> Members(t)]
             F == {Members(t) : t \in ToSet(types)}
  <1>1. \A t \in ToSet(types) : Belongs(f[t], t.id)
    BY MembersNamed
  <1>2. F = {f[t] : t \in ToSet(types)}
    OBVIOUS
  <1> HIDE DEF f, F
  <1>3. ItemsGive(Merged(F), types, f)
    BY <1>1, <1>2, ItemsGiven
  <1> QED BY <1>3 DEF f, F

\* Listed members are given what their row gives.
LEMMA ListedHeld ==
  ASSUME NumeralsAreWords, NEW t, WellFormedType(t)
  PROVE  Holds(Members(t), ListedRow(t, {}).given, {"listed"})
  <1> DEFINE f == ListedRow(t, {}).given
             g == AddedRow(t, ListedRow(t, {}).used).given
             F == {f, g}
  <1>1. Family(ListedRow(t, {}), {}, <<"members", t.id>>, {"listed"})
    BY ListedNamed
  <1>2. \A k \in DOMAIN f : k.family \in {"listed"}
    BY <1>1 DEF Family, NamedIn
  <1>3. \A k \in DOMAIN g : k.family = "added"
    <2> DEFINE used == ListedRow(t, {}).used
               scope == <<"members", t.id>>
    <2>1. IsFiniteSet(used)
      BY <1>1 DEF Family
    <2>2. Family(AddedRow(t, used), used, scope, {"added"})
      BY <2>1, AddedNamed
    <2> HIDE DEF used, scope
    <2>3. \A k \in DOMAIN AddedRow(t, used).given : k.family = "added"
      BY <2>2 DEF Family, NamedIn
    <2> QED BY <2>3 DEF used
  <1>4. Members(t) = Merged(F)
    BY DEF Members
  <1> HIDE DEF f, g
  <1>5. f \in F /\ \A h \in F : h # f => h = g
    OBVIOUS
  <1> HIDE DEF F
  <1>6. Holds(Merged(F), f, {"listed"})
    BY <1>2, <1>3, <1>5, HoldsMerged
  <1> QED BY <1>4, <1>6 DEF f

\* A listed member has its name from its type, which its scope tells.
LEMMA ListedGiven ==
  ASSUME NumeralsAreWords, NEW a, WellFormed(a), NEW s, NEW k \in DOMAIN Gathered(a, s), k.family = "listed"
  PROVE  \E t \in ToSet(a.types) : /\ k.scope[2] = t.id
                                   /\ Gathered(a, s)[k] = ListedRow(t, {}).given[k]
  <1> DEFINE f == [t \in ToSet(a.types) |-> Members(t)]
             m == Merged({Members(t) : t \in ToSet(a.types)})
  <1>1. k.family \in FamiliesOf("members") /\ "members" \in StageNames
    BY FamiliesAre DEF StageNames
  <1>2. k \in DOMAIN Part(a, "members") /\ Gathered(a, s)[k] = Part(a, "members")[k]
    BY <1>1, GivenByStage
  <1>3. Part(a, "members") = m
    BY PartIs
  <1>4. Listing(a.types) /\ \A t \in ToSet(a.types) : WellFormedType(t)
    BY WellFormedParts
  <1>5. ItemsGive(m, a.types, f)
    BY <1>4, MembersGiven
  <1>6. \A t \in ToSet(a.types) : f[t] = Members(t)
    OBVIOUS
  <1> HIDE DEF f, m
  <1>7. PICK t \in ToSet(a.types) : k \in DOMAIN Members(t) /\ m[k] = Members(t)[k]
    BY <1>2, <1>3, <1>5, <1>6 DEF ItemsGive
  <1>8. k.scope[2] = t.id
    BY <1>4, <1>7, MembersNamed DEF Belongs
  <1>9. Holds(Members(t), ListedRow(t, {}).given, {"listed"})
    BY <1>4, ListedHeld
  <1>10. Members(t)[k] = ListedRow(t, {}).given[k]
    BY <1>7, <1>9 DEF Holds
  <1> QED BY <1>2, <1>3, <1>7, <1>8, <1>10

\* x is what the argument k of o is given.
ArgumentIn(o, k, x) ==
  /\ k.scope[2] = o.id
  /\ k \in DOMAIN ParameterBatch(o, {}, TRUE).given /\ x = ParameterBatch(o, {}, TRUE).given[k]

\* An argument has its name from its operation, which its scope tells.
LEMMA ArgumentGiven ==
  ASSUME NumeralsAreWords, NEW a, WellFormed(a), NEW s, NEW k \in DOMAIN Gathered(a, s),
         k.family = "param", k.scope[1] = "args"
  PROVE  \E o \in ToSet(a.ops) : ArgumentIn(o, k, Gathered(a, s)[k])
  <1> DEFINE f == [o \in ToSet(a.ops) |-> Signature(o)]
             m == Merged({Signature(o) : o \in ToSet(a.ops)})
  <1>1. k.family \in FamiliesOf("signatures") /\ "signatures" \in StageNames
    BY FamiliesAre DEF StageNames
  <1>2. k \in DOMAIN Part(a, "signatures") /\ Gathered(a, s)[k] = Part(a, "signatures")[k]
    BY <1>1, GivenByStage
  <1>3. Part(a, "signatures") = m
    BY PartIs
  <1>4. Operations(a.ops) /\ \A o \in ToSet(a.ops) : WellFormedOperation(o)
    BY WellFormedParts DEF Operations
  <1>5. ItemsGive(m, a.ops, f)
    BY <1>4, SignaturesGiven
  <1>6. \A o \in ToSet(a.ops) : f[o] = Signature(o)
    OBVIOUS
  <1> HIDE DEF f, m
  <1>7. PICK o \in ToSet(a.ops) : k \in DOMAIN Signature(o) /\ m[k] = Signature(o)[k]
    BY <1>2, <1>3, <1>5, <1>6 DEF ItemsGive
  <1>8. k.scope[2] = o.id
    BY <1>4, <1>7, SignatureNamed DEF Belongs
  <1>9. SignatureGives(o)
    BY <1>4, SignatureIs
  <1>10. PICK required \in BOOLEAN : k \in DOMAIN ParameterBatch(o, {}, required).given
    BY <1>7, <1>9 DEF SignatureGives
  <1>11. k.scope = ParamScope(o, required) /\ Signature(o)[k] = ParameterBatch(o, {}, required).given[k]
    BY <1>9, <1>10 DEF SignatureGives
  <1>12. required = TRUE
    <2>1. SUFFICES ASSUME required = FALSE PROVE FALSE
      BY <1>10
    <2>2. k.scope = <<"fields", o.id>>
      BY <1>11, <2>1 DEF ParamScope
    <2>3. <<"fields", o.id>>[1] = "fields"
      OBVIOUS
    <2> QED BY <2>2, <2>3
  <1> QED BY <1>2, <1>3, <1>7, <1>8, <1>10, <1>11, <1>12 DEF ArgumentIn

\* The required parameters of an operation, when others are added.
LEMMA RequiredParams ==
  ASSUME NEW o, NEW p, Required(o) = Required(p), WellFormedOperation(o), WellFormedOperation(p)
  PROVE  ParamsOfOther(o, p, TRUE)
  <1>1. SUFFICES ASSUME NEW i \in ParamsThat(o, TRUE)
                 PROVE  \E j \in ParamsThat(p, TRUE) : o.params[i] = p.params[j]
    BY DEF ParamsOfOther
  <1>2. i \in DOMAIN o.params /\ o.params[i].required = TRUE
    BY DEF ParamsThat
  <1>3. o.params[i] \in Required(p)
    BY <1>2 DEF Required, ToSet
  <1>4. PICK j \in DOMAIN p.params : o.params[i] = p.params[j]
    BY <1>3 DEF Required, ToSet
  <1> QED BY <1>2, <1>4 DEF ParamsThat

\* The invariant implies that additions rename nothing.
LEMMA IndInvAdditions == ASSUME NumeralsAreWords PROVE IndInv => AdditionsRenameNothing
  <1>1. SUFFICES ASSUME IndInv, Finished, variant = "additions",
                        NEW k \in DOMAIN given[1] \intersect DOMAIN given[2],
                        k.family = "listed" \/ (k.family = "param" /\ k.scope[1] = "args")
                 PROVE  given[1][k] = given[2][k]
    BY DEF AdditionsRenameNothing
  <1> DEFINE a == api[1]
             b == api[2]
  <1>2. /\ given[1] = Gathered(a, "done") /\ given[2] = Gathered(b, "done")
        /\ WellFormed(a) /\ WellFormed(b) /\ Extended(a, b)
    BY <1>1, FinishedIs
  <1> HIDE DEF a, b
  <1>3. CASE k.family = "listed"
    <2>1. PICK t \in ToSet(a.types) : k.scope[2] = t.id /\ given[1][k] = ListedRow(t, {}).given[k]
      BY <1>2, <1>3, ListedGiven
    <2>2. PICK u \in ToSet(b.types) : k.scope[2] = u.id /\ given[2][k] = ListedRow(u, {}).given[k]
      BY <1>2, <1>3, ListedGiven
    <2>3. t.id = u.id /\ t.members = u.members /\ t.kind = u.kind /\ t.seed = u.seed
      BY <1>2, <2>1, <2>2 DEF Extended
    <2>4. ListedRow(t, {}) = ListedRow(u, {})
      BY <2>3 DEF ListedRow, MemberRole
    <2> QED BY <2>1, <2>2, <2>4
  <1>4. CASE k.family = "param" /\ k.scope[1] = "args"
    <2>1. PICK o \in ToSet(a.ops) : ArgumentIn(o, k, given[1][k])
      BY <1>2, <1>4, ArgumentGiven
    <2>2. PICK p \in ToSet(b.ops) : ArgumentIn(p, k, given[2][k])
      BY <1>2, <1>4, ArgumentGiven
    <2>3. o.id = p.id /\ Required(o) = Required(p)
      BY <1>2, <2>1, <2>2 DEF Extended, ArgumentIn
    <2>4. WellFormedOperation(o) /\ WellFormedOperation(p)
      BY <1>2 DEF WellFormed
    <2>5. ParamsOfOther(o, p, TRUE) /\ ParamsOfOther(p, o, TRUE)
      BY <2>3, <2>4, RequiredParams
    <2>6. SameBatch(ParameterBatch(o, {}, TRUE), ParameterBatch(p, {}, TRUE))
      BY <2>3, <2>4, <2>5, ParametersAlike
    <2> QED BY <2>1, <2>2, <2>6 DEF SameBatch, Equal, ArgumentIn
  <1> QED BY <1>1, <1>3, <1>4

\* What the generator adds to a type or to a method renames no member that is listed and no
\* argument that is required.
THEOREM AdditionsNeverRename == ASSUME NumeralsAreWords PROVE Spec => []AdditionsRenameNothing
  <1>1. IndInv => AdditionsRenameNothing
    BY IndInvAdditions
  <1> QED BY <1>1, InvariantHolds, PTL
=============================================================================
