----------------------------- MODULE ClientProofs -----------------------------
(* Proofs about what a generated client does: about RetryStack, for every    *)
(* stack of layers and every budget, about OperationCall, which sends its    *)
(* requests through it, about LinkPaginator, and about EventStream, for      *)
(* every list of events, limit and server.                                   *)
EXTENDS OperationCall, LinkPaginator, EventStream, SequenceTheorems, FiniteSetTheorems, WellFoundedInduction,
        TLAPS

\* Retry layer i may still send the request it holds again.
Active(i) == /\ i \in 1..Depth
             /\ layers[i] = "retry" /\ ~ once[i]
             /\ i <= at
             /\ dir = "call" => i < at

\* The method of the request stays the caller's.
SameMethod == /\ dir = "call" => request.idempotent = idempotent
              /\ \A i : Active(i) => held[i].idempotent = idempotent
\* A key, once on a request, stays on it the whole way in.
KeysStay ==
  \A i : Active(i) /\ held[i].key # 0 =>
    /\ dir = "call" => request.key = held[i].key
    /\ \A j : Active(j) /\ i < j => held[j].key = held[i].key
\* Once a request without a key was sent, no layer will send another.
UnkeyedOnce ==
  ~ idempotent /\ unkeyed > 0 =>
    /\ unkeyed = 1 /\ keys = {} /\ dir = "return"
    /\ \A i : Active(i) => held[i].key = 0
\* Once one with a key was sent, every layer that will send another has its key.
OneKey ==
  /\ 0 \notin keys
  /\ ~ idempotent =>
       \A k \in keys : /\ unkeyed = 0 /\ keys = {k}
                       /\ dir = "call" => request.key = k
                       /\ \A i : Active(i) => held[i].key \in {0, k}
\* A streaming body that was sent is nowhere on its way in, and none is held.
StreamsGone ==
  /\ ~ torn
  /\ 0 \notin streams
  /\ fresh > 0 /\ request.stream < fresh
  /\ \A s \in streams : s < fresh
  /\ dir = "call" => request.stream \notin streams
  /\ \A i : Active(i) => held[i].stream = 0

IInv == TypeOK /\ SameMethod /\ KeysStay /\ UnkeyedOnce /\ OneKey /\ StreamsGone

\* The stacks are sequences of layers.
LEMMA StackShape == ASSUME NEW s \in Stacks
                    PROVE  Len(s) \in Nat /\ \A i \in 1..Len(s) : s[i] \in Kinds
  BY StackAssumption DEF Kinds

LEMMA InitIInv == Init => IInv
  <1> SUFFICES ASSUME Init PROVE IInv
    OBVIOUS
  <1> USE DEF Init
  <1>0. Depth \in Nat
    BY StackShape DEF Depth
  <1>1. request \in Request
    BY DEF Request
  <1>2. Plain(request) \in Request
    BY <1>1 DEF Plain, Request
  <1>3. TypeOK
    <2>1. held \in [1..Depth -> Request] /\ attempt \in [1..Depth -> 0..Budget]
            /\ once \in [1..Depth -> BOOLEAN]
      BY <1>2, StackAssumption
    <2>2. at \in 0..Inner /\ unkeyed \in 0..2 /\ sends \in Nat /\ fresh \in Nat
      BY <1>0 DEF Inner
    <2>3. idempotent \in BOOLEAN
      BY <1>1 DEF Request
    <2> QED
      BY <1>0, <1>1, <2>1, <2>2, <2>3 DEF TypeOK, Results
  <1>4. \A i : ~ Active(i)
    BY <1>0 DEF Active
  <1>5. SameMethod /\ KeysStay /\ UnkeyedOnce /\ OneKey
    BY <1>4 DEF SameMethod, KeysStay, UnkeyedOnce, OneKey
  <1>6. StreamsGone
    BY <1>1, <1>4 DEF StreamsGone
  <1> QED
    BY <1>3, <1>5, <1>6 DEF IInv

\* A step that hands a result out keeps the invariant.
LEMMA OutwardIInv ==
  ASSUME IInv, at > 0, Outward, result' \in Results,
         UNCHANGED <<request, retries, fresh, history>>
  PROVE  IInv'
  <1> USE DEF Outward, retries, history
  <1>0. Depth \in Nat /\ Depth' = Depth /\ at \in Int
    BY StackShape DEF IInv, TypeOK, Depth, Inner
  <1>1. \A i : Active(i)' => Active(i)
    BY <1>0 DEF Active
  <1>2. TypeOK'
    BY <1>0 DEF IInv, TypeOK, Inner, Depth
  <1>3. SameMethod' /\ KeysStay' /\ UnkeyedOnce' /\ OneKey'
    BY <1>1 DEF IInv, SameMethod, KeysStay, UnkeyedOnce, OneKey
  <1>4. StreamsGone'
    BY <1>1 DEF IInv, StreamsGone
  <1> QED
    BY <1>2, <1>3, <1>4 DEF IInv

LEMMA ForwardIInv == ASSUME IInv, MiddlewareForward PROVE IInv'
  <1> USE DEF MiddlewareForward, Calling, Inward, retries, history
  <1>0. Depth \in Nat /\ Depth' = Depth /\ at \in 1..Depth /\ at' = at + 1
    BY StackShape DEF IInv, TypeOK, Depth
  <1>1. \A i : Active(i)' => Active(i)
    BY <1>0 DEF Active
  <1>2. /\ request' \in Request /\ request'.idempotent = request.idempotent
        /\ request.key # 0 => request'.key = request.key
        /\ request'.stream \in {0, fresh, request.stream}
    BY DEF Edits, IInv, TypeOK, Request
  <1>3. TypeOK'
    BY <1>0, <1>2 DEF IInv, TypeOK, Inner, Depth
  <1>4. SameMethod'
    BY <1>1, <1>2 DEF IInv, SameMethod
  <1>5. KeysStay'
    BY <1>1, <1>2 DEF IInv, KeysStay
  <1>6. UnkeyedOnce'
    BY <1>1 DEF IInv, UnkeyedOnce
  <1>7. OneKey'
    BY <1>1, <1>2 DEF IInv, OneKey
  <1>8. StreamsGone'
    <2>1. fresh \in Nat /\ streams \subseteq Nat
      BY DEF IInv, TypeOK
    <2> QED
      BY <1>1, <1>2, <2>1 DEF IInv, StreamsGone, TypeOK, Request
  <1> QED
    BY <1>3, <1>4, <1>5, <1>6, <1>7, <1>8 DEF IInv

LEMMA RetryCallIInv == ASSUME IInv, RetryCall PROVE IInv'
  <1> USE DEF RetryCall, Calling, Inward, history
  <1>0. Depth \in Nat /\ Depth' = Depth /\ at \in 1..Depth /\ at' = at + 1
    BY StackShape DEF IInv, TypeOK, Depth
  <1>1. \A i : Active(i)' => \/ Active(i) /\ held'[i] = held[i]
                             \/ i = at /\ held'[i] = request /\ request.stream = 0
    <2> SUFFICES ASSUME NEW i, Active(i)'
                 PROVE  \/ Active(i) /\ held'[i] = held[i]
                        \/ i = at /\ held'[i] = request /\ request.stream = 0
      OBVIOUS
    <2>0. /\ i \in 1..Depth /\ layers[i] = "retry" /\ ~ once'[i] /\ i <= at
          /\ once \in [1..Depth -> BOOLEAN] /\ held \in [1..Depth -> Request]
      BY <1>0 DEF Active, IInv, TypeOK
    <2>1. CASE i = at
      <3>1. once'[i] = (request.stream # 0)
        BY <1>0, <2>0, <2>1
      <3> QED
        BY <1>0, <2>0, <2>1, <3>1
    <2>2. CASE i # at
      BY <1>0, <2>0, <2>2 DEF Active
    <2> QED
      BY <2>1, <2>2
  <1>2. TypeOK'
    BY <1>0, StackAssumption DEF IInv, TypeOK, Inner, Depth
  <1>3. SameMethod'
    BY <1>1 DEF IInv, SameMethod
  <1>4. KeysStay'
    <2> SUFFICES ASSUME NEW i, Active(i)', held'[i].key # 0
                 PROVE  /\ request.key = held'[i].key
                        /\ \A j : Active(j)' /\ i < j => held'[j].key = held'[i].key
      BY DEF KeysStay
    <2>1. request.key = held'[i].key
      BY <1>1 DEF IInv, KeysStay
    <2>2. ASSUME NEW j, Active(j)', i < j PROVE held'[j].key = held'[i].key
      <3>1. CASE Active(i) /\ held'[i] = held[i]
        BY <1>1, <2>1, <2>2, <3>1 DEF IInv, KeysStay
      <3>2. CASE i = at
        BY <1>0, <2>2, <3>2 DEF Active
      <3> QED
        BY <1>1, <3>1, <3>2
    <2> QED
      BY <2>1, <2>2
  <1>5. UnkeyedOnce'
    BY DEF IInv, UnkeyedOnce
  <1>6. OneKey'
    BY <1>1 DEF IInv, OneKey
  <1>7. StreamsGone'
    BY <1>1 DEF IInv, StreamsGone
  <1> QED
    BY <1>2, <1>3, <1>4, <1>5, <1>6, <1>7 DEF IInv

LEMMA RetryAgainIInv == ASSUME IInv, RetryAgain PROVE IInv'
  <1> USE DEF RetryAgain, Returning, Inward, IsTransient, history
  <1>0. Depth \in Nat /\ Depth' = Depth /\ at \in 1..Depth /\ at' = at + 1
    BY StackShape DEF IInv, TypeOK, Depth
  <1>1. Active(at) /\ \A i : Active(i)' => Active(i) /\ i <= at
    BY <1>0 DEF Active
  <1>2. TypeOK'
    <2>1. held[at] \in Request /\ attempt' \in [1..Depth -> 0..Budget]
      BY <1>0, StackAssumption DEF IInv, TypeOK
    <2> QED
      BY <1>0, <2>1 DEF IInv, TypeOK, Inner, Depth
  <1>3. SameMethod'
    BY <1>1 DEF IInv, SameMethod
  <1>4. KeysStay'
    <2> SUFFICES ASSUME NEW i, Active(i)', held[i].key # 0
                 PROVE  /\ held[at].key = held[i].key
                        /\ \A j : Active(j)' /\ i < j => held[j].key = held[i].key
      BY DEF KeysStay
    <2>1. held[at].key = held[i].key
      <3>1. i = at \/ i < at
        BY <1>0, <1>1 DEF Active
      <3> QED
        BY <1>1, <3>1 DEF IInv, KeysStay
    <2>2. \A j : Active(j)' /\ i < j => held[j].key = held[i].key
      BY <1>1 DEF IInv, KeysStay
    <2> QED
      BY <2>1, <2>2
  <1>k. ~ idempotent => held[at].key # 0
    BY <1>1 DEF IInv, SameMethod
  <1>5. UnkeyedOnce'
    BY <1>1, <1>k DEF IInv, UnkeyedOnce
  <1>6. OneKey'
    BY <1>1, <1>k DEF IInv, OneKey
  <1>7. StreamsGone'
    BY <1>1 DEF IInv, StreamsGone
  <1> QED
    BY <1>2, <1>3, <1>4, <1>5, <1>6, <1>7 DEF IInv

LEMMA SendIInv == ASSUME IInv, Send PROVE IInv'
  <1> USE DEF Send, Outward, retries
  <1>0. Depth \in Nat /\ Depth' = Depth /\ at = Depth + 1 /\ at' = at - 1
    BY StackShape DEF IInv, TypeOK, Depth, Inner
  <1>1. \A i : Active(i)' => Active(i)
    BY <1>0 DEF Active
  <1>t. /\ request \in Request /\ unkeyed \in 0..2 /\ sends \in Nat
        /\ keys \subseteq Nat /\ streams \subseteq Nat
    BY DEF IInv, TypeOK
  <1>2. TypeOK'
    <2>0. request.key \in Nat /\ request.stream \in Nat
      BY <1>t DEF Request
    <2>a. keys' \subseteq Nat /\ streams' \subseteq Nat
      BY <1>t, <2>0
    <2>b. unkeyed' \in 0..2
      BY <1>t
    <2>c. sends' \in Nat
      BY <1>t
    <2>1. /\ keys' \subseteq Nat /\ streams' \subseteq Nat
          /\ unkeyed' \in 0..2 /\ sends' \in Nat
      BY <2>a, <2>b, <2>c
    <2>2. torn' \in BOOLEAN
      BY <1>t, Zenon DEF IInv, TypeOK
    <2> QED
      BY <1>0, <2>1, <2>2 DEF IInv, TypeOK, Inner, Depth
  <1>3. SameMethod'
    BY <1>1 DEF IInv, SameMethod
  <1>4. KeysStay'
    BY <1>1 DEF IInv, KeysStay
  <1>k. \A i : Active(i) => held[i].key \in {0, request.key}
    BY DEF IInv, KeysStay
  <1>z. ~ idempotent => unkeyed = 0
    BY <1>t DEF IInv, UnkeyedOnce
  <1>5. UnkeyedOnce'
    <2> SUFFICES ASSUME ~ idempotent, unkeyed' > 0
                 PROVE  UnkeyedOnce'
      BY DEF UnkeyedOnce
    <2>1. request.key = 0 /\ unkeyed' = 1
      BY <1>z
    <2>2. keys' = {}
      BY <2>1 DEF IInv, OneKey
    <2> QED
      BY <1>1, <1>k, <2>1, <2>2 DEF UnkeyedOnce
  <1>6. OneKey'
    <2>1. CASE request.key = 0
      <3>1. keys' = keys /\ (~ idempotent => keys = {})
        BY <2>1 DEF IInv, OneKey
      <3> QED
        BY <3>1 DEF IInv, OneKey
    <2>2. CASE request.key # 0
      <3>1. ~ idempotent => keys' = {request.key} /\ unkeyed' = 0
        BY <1>z, <2>2 DEF IInv, OneKey
      <3> QED
        BY <1>1, <1>k, <2>2, <3>1 DEF IInv, OneKey
    <2> QED
      BY <2>1, <2>2
  <1>7. StreamsGone'
    BY <1>1, <1>t DEF IInv, StreamsGone
  <1> QED
    BY <1>2, <1>3, <1>4, <1>5, <1>6, <1>7 DEF IInv

LEMMA NextIInv == IInv /\ [Next]_vars => IInv'
  <1> SUFFICES ASSUME IInv, [Next]_vars PROVE IInv'
    OBVIOUS
  <1>1. CASE MiddlewareForward
    BY <1>1, ForwardIInv
  <1>2. CASE MiddlewareAnswer
    <2>1. at > 0
      BY <1>2 DEF MiddlewareAnswer, Calling
    <2> QED
      BY <1>2, <2>1, OutwardIInv DEF MiddlewareAnswer
  <1>3. CASE MiddlewareReturn
    <2>1. at > 0
      BY <1>3 DEF MiddlewareReturn, Returning
    <2> QED
      BY <1>3, <2>1, OutwardIInv DEF MiddlewareReturn
  <1>4. CASE RetryCall
    BY <1>4, RetryCallIInv
  <1>5. CASE RetryAgain
    BY <1>5, RetryAgainIInv
  <1>6. CASE RetryReturn
    <2>1. at > 0 /\ result \in Results
      BY <1>6 DEF RetryReturn, Returning, IInv, TypeOK
    <2> QED
      BY <1>6, <2>1, OutwardIInv DEF RetryReturn
  <1>7. CASE Send
    BY <1>7, SendIInv
  <1>8. CASE UNCHANGED vars
    <2>1. \A i : Active(i)' <=> Active(i)
      BY <1>8 DEF vars, Active, Depth
    <2>2. TypeOK'
      BY <1>8 DEF vars, IInv, TypeOK, Depth, Inner
    <2> QED
      BY <1>8, <2>1, <2>2
         DEF vars, IInv, SameMethod, KeysStay, UnkeyedOnce, OneKey, StreamsGone
  <1> QED
    BY <1>1, <1>2, <1>3, <1>4, <1>5, <1>6, <1>7, <1>8 DEF Next, Rest

\* The invariant holds in every reachable state.
THEOREM StackInvariant == Spec => []IInv
  BY InitIInv, NextIInv, PTL DEF Spec

\* The variables keep their types; the attempts stay within the budget.
THEOREM StackTypeCorrect == Spec => []TypeOK
  <1>1. IInv => TypeOK
    BY DEF IInv
  <1> QED
    BY <1>1, StackInvariant, PTL

\* However retry and middleware layers are nested, a request that is not idempotent
\* reaches the server once, or always under the same key.
THEOREM AtMostOneEffect == Spec => []OneEffect
  <1>1. IInv => OneEffect
    <2> SUFFICES ASSUME IInv, ~ idempotent PROVE unkeyed + Cardinality(keys) <= 1
      BY DEF OneEffect
    <2>1. CASE keys = {}
      <3>1. Cardinality(keys) = 0
        BY <2>1, FS_EmptySet
      <3>2. unkeyed \in {0, 1}
        BY DEF IInv, UnkeyedOnce, TypeOK
      <3> QED
        BY <3>1, <3>2
    <2>2. CASE keys # {}
      <3>1. PICK k \in keys : keys = {k} /\ unkeyed = 0
        BY <2>2 DEF IInv, OneKey
      <3>2. Cardinality(keys) = 1
        BY <3>1, FS_Singleton
      <3> QED
        BY <3>1, <3>2
    <2> QED
      BY <2>1, <2>2
  <1> QED
    BY <1>1, StackInvariant, PTL

\* However they are nested, a body that can be read once is sent once.
THEOREM StreamsAreSentOnce == Spec => []StreamsSentOnce
  <1>1. IInv => StreamsSentOnce
    BY DEF IInv, StreamsGone, StreamsSentOnce
  <1> QED
    BY <1>1, StackInvariant, PTL

-----------------------------------------------------------------------------
(* Calls of operations. *)

-----------------------------------------------------------------------------
(* How often a request is sent. *)

\* What holds of 0 and passes on to the next number holds of all.
LEMMA SetInduction ==
  ASSUME NEW S \in SUBSET Nat, 0 \in S, \A n \in S : n + 1 \in S
  PROVE  S = Nat
  <1> DEFINE T == Nat \ S
  <1>1. SUFFICES ASSUME T # {} PROVE FALSE
    OBVIOUS
  <1>2. IsWellFoundedOn(OpToRel(<, Nat), Nat)
    BY NatLessThanWellFounded
  <1>3. PICK x \in T : \A y \in T : ~ (<<y, x>> \in OpToRel(<, Nat))
    BY <1>1, <1>2, WFMin
  <1>4. \A y \in T : ~ (y < x)
    BY <1>3, Zenon DEF OpToRel
  <1>5. x # 0 /\ x - 1 \in S
    BY <1>4
  <1> QED BY <1>5

\* What one layer more makes of the sends of those inside it.
Times(kind, sent) == IF kind = "retry" THEN (Budget + 1) * sent ELSE sent

\* The function Most chooses is what its recursion says.
LEMMA MostExists ==
  ASSUME NEW stack, NEW m \in Nat
  PROVE  \E f : f = [n \in 0..m |-> IF n = 0 THEN 1 ELSE Times(stack[Len(stack) + 1 - n], f[n - 1])]
  <1> DEFINE Then(b, n) == Times(stack[Len(stack) + 1 - n], b)
             S == {k \in Nat : \E f : f = [n \in 0..k |-> IF n = 0 THEN 1 ELSE Then(f[n - 1], n)]}
  <1>1. 0 \in S
    <2> DEFINE f == [n \in 0..0 |-> 1]
    <2>1. f = [n \in 0..0 |-> IF n = 0 THEN 1 ELSE Then(f[n - 1], n)]
      OBVIOUS
    <2> HIDE DEF f, Then
    <2> QED BY <2>1
  <1>2. ASSUME NEW k \in S PROVE k + 1 \in S
    <2> HIDE DEF Then
    <2>1. PICK f : f = [n \in 0..k |-> IF n = 0 THEN 1 ELSE Then(f[n - 1], n)]
      OBVIOUS
    <2> DEFINE g == [n \in 0..k + 1 |-> IF n \in 0..k THEN f[n] ELSE Then(f[n - 1], n)]
    <2>2. ASSUME NEW n \in 0..k + 1 PROVE g[n] = IF n = 0 THEN 1 ELSE Then(g[n - 1], n)
      <3>1. CASE n \in 0..k
        <4>1. f[n] = IF n = 0 THEN 1 ELSE Then(f[n - 1], n)
          BY <2>1, <3>1
        <4>2. n # 0 => g[n - 1] = f[n - 1]
          BY <3>1
        <4> QED BY <4>1, <4>2, <3>1
      <3>2. CASE n = k + 1
        <4>1. g[n - 1] = f[n - 1] /\ n # 0 /\ g[n] = Then(f[n - 1], n)
          BY <3>2
        <4> QED BY <4>1
      <3> QED BY <3>1, <3>2
    <2> DEFINE h == [n \in 0..k + 1 |-> IF n = 0 THEN 1 ELSE Then(g[n - 1], n)]
    <2>3. g = h
      BY <2>2
    <2> HIDE DEF g
    <2> QED BY <2>3
  <1>3. S = Nat
    <2>1. S \in SUBSET Nat
      OBVIOUS
    <2> HIDE DEF S
    <2> QED BY <1>1, <1>2, <2>1, SetInduction
  <1>4. \E f : f = [n \in 0..m |-> IF n = 0 THEN 1 ELSE Then(f[n - 1], n)]
    BY <1>3 DEF S
  <1> QED BY <1>4

\* Most, layer by layer.
MostAt == /\ Most[0] = 1
          /\ \A n \in 1..Depth : Most[n] = Times(layers[Inner - n], Most[n - 1])
          /\ \A n \in 0..Depth : Most[n] \in Nat

LEMMA MostIs == ASSUME Depth \in Nat PROVE MostAt
  <1>1. \E f : f = [n \in 0..Depth |-> IF n = 0 THEN 1 ELSE Times(layers[Inner - n], f[n - 1])]
    BY MostExists DEF Depth, Inner
  <1>2. Most = CHOOSE f : f = [n \in 0..Depth |-> IF n = 0 THEN 1 ELSE Times(layers[Inner - n], f[n - 1])]
    BY DEF Most, Times
  <1>3. Most = [n \in 0..Depth |-> IF n = 0 THEN 1 ELSE Times(layers[Inner - n], Most[n - 1])]
    BY <1>1, <1>2
  <1>4. Most[0] = 1 /\ \A n \in 1..Depth : Most[n] = Times(layers[Inner - n], Most[n - 1])
    <2> HIDE DEF Most
    <2> QED BY <1>3
  <1> DEFINE S == {n \in Nat : n <= Depth => Most[n] \in Nat}
  <1> HIDE DEF Most
  <1>5. 0 \in S
    BY <1>4
  <1>6. ASSUME NEW n \in S PROVE n + 1 \in S
    <2>1. SUFFICES ASSUME n + 1 <= Depth PROVE Most[n + 1] \in Nat
      OBVIOUS
    <2>2. n + 1 \in 1..Depth /\ (n + 1) - 1 = n /\ Most[n] \in Nat
      BY <2>1
    <2>3. Most[n + 1] = Times(layers[Inner - (n + 1)], Most[n])
      BY <1>4, <2>2
    <2>4. (Budget + 1) * Most[n] \in Nat
      BY <2>2, StackAssumption
    <2> QED BY <2>2, <2>3, <2>4 DEF Times
  <1>7. S = Nat
    <2>1. S \in SUBSET Nat
      OBVIOUS
    <2> HIDE DEF S
    <2> QED BY <1>5, <1>6, <2>1, SetInduction
  <1>8. \A n \in 0..Depth : Most[n] \in Nat
    BY <1>7
  <1> QED BY <1>4, <1>8 DEF MostAt

-----------------------------------------------------------------------------
\* rem[i]: what the layers up to the i-th may send again by themselves.
Spare(rem) ==
  /\ rem \in [0..Depth -> Nat] /\ rem[0] = 0
  /\ \A i \in 1..Depth :
       i < at \/ (i = at /\ dir = "return") =>
         rem[i] = rem[i - 1] + IF layers[i] = "retry" /\ ~ once[i]
                               THEN (Budget - attempt[i]) * Most[Depth - i] ELSE 0

\* What was sent, what is being called and what may be sent again are within the bound.
Within(rem) ==
  \/ dir = "call" /\ at \in 1..Inner /\ sends + rem[at - 1] + Most[Inner - at] <= MostSends
  \/ dir = "return" /\ at \in 0..Depth /\ sends + rem[at] <= MostSends

SendsInv == \E rem : Spare(rem) /\ Within(rem)

LEMMA InitSends == Init => SendsInv
  <1> SUFFICES ASSUME Init PROVE SendsInv
    OBVIOUS
  <1>1. Depth \in Nat
    BY StackShape DEF Init, Depth
  <1>2. Most[Depth] \in Nat
    BY <1>1, MostIs DEF MostAt
  <1> DEFINE rem == [i \in 0..Depth |-> 0]
  <1>3. Spare(rem)
    BY <1>1 DEF Init, Spare
  <1>4. rem[0] = 0 /\ at = 1 /\ Inner - 1 = Depth /\ at \in 1..Inner /\ sends = 0 /\ dir = "call"
    BY <1>1 DEF Init, Inner
  <1>5. Within(rem)
    <2> HIDE DEF rem
    <2> QED BY <1>2, <1>4 DEF Within, MostSends
  <1> QED BY <1>3, <1>5 DEF SendsInv

\* The stack does not change, nor what it may send.
LEMMA MostStays == ASSUME layers' = layers PROVE Most' = Most /\ Depth' = Depth /\ Inner' = Inner
  BY DEF Most, Depth, Inner

\* A step inward: layer at spares what it may send again.
LEMMA InwardSends ==
  ASSUME TypeOK, SendsInv, Inward, at \in 1..Depth, sends' = sends,
         NEW more \in Nat,
         more = IF layers[at] = "retry" /\ ~ once'[at]
                THEN (Budget - attempt'[at]) * Most[Depth - at] ELSE 0,
         \A i \in 1..Depth : i # at => once'[i] = once[i] /\ attempt'[i] = attempt[i],
         \A rem : Spare(rem) /\ Within(rem) =>
           sends + rem[at - 1] + more + Most[Depth - at] <= MostSends
  PROVE  SendsInv'
  <1>1. PICK rem : Spare(rem) /\ Within(rem)
    BY DEF SendsInv
  <1>2. Most' = Most /\ Depth' = Depth /\ Inner' = Inner /\ layers' = layers
    BY MostStays DEF Inward
  <1>3. Depth \in Nat /\ at \in 1..Depth /\ at' = at + 1 /\ dir' = "call"
    BY StackShape DEF TypeOK, Depth, Inward
  <1>4. rem \in [0..Depth -> Nat] /\ rem[0] = 0 /\ rem[at - 1] \in Nat
    BY <1>1, <1>3 DEF Spare
  <1>5. PICK new \in [0..Depth -> Nat] : /\ new[at] = rem[at - 1] + more
                                         /\ \A i \in 0..Depth : i # at => new[i] = rem[i]
    <2> DEFINE f == [rem EXCEPT ![at] = rem[at - 1] + more]
    <2>1. f \in [0..Depth -> Nat] /\ f[at] = rem[at - 1] + more /\ \A i \in 0..Depth : i # at => f[i] = rem[i]
      BY <1>3, <1>4
    <2> QED BY <2>1
  <1>6. new[0] = 0 /\ \A i \in 0..Depth : i # at => new[i] = rem[i]
    BY <1>3, <1>4, <1>5
  <1>7. ASSUME NEW i \in 1..Depth, i < at'
        PROVE  new[i] = new[i - 1] + IF layers'[i] = "retry" /\ ~ once'[i]
                                     THEN (Budget - attempt'[i]) * Most'[Depth' - i] ELSE 0
    <2>1. CASE i = at
      <3>1. new[i - 1] = rem[at - 1]
        BY <1>3, <1>6, <2>1
      <3> QED BY <1>2, <1>5, <2>1, <3>1
    <2>2. CASE i < at
      <3>1. new[i] = rem[i] /\ new[i - 1] = rem[i - 1] /\ once'[i] = once[i] /\ attempt'[i] = attempt[i]
        BY <1>3, <1>6, <2>2
      <3>2. rem[i] = rem[i - 1] + IF layers[i] = "retry" /\ ~ once[i]
                                  THEN (Budget - attempt[i]) * Most[Depth - i] ELSE 0
        BY <1>1, <2>2 DEF Spare
      <3> QED BY <1>2, <3>1, <3>2
    <2> QED BY <1>3, <1>7, <2>1, <2>2
  <1>8. Spare(new)'
    <2>1. \A i \in 1..Depth' : ~ (i = at' /\ dir' = "return")
      BY <1>3
    <2> QED BY <1>2, <1>5, <1>6, <1>7, <2>1 DEF Spare
  <1>9. sends + rem[at - 1] + more + Most[Depth - at] <= MostSends
    BY <1>1
  <1>10. sends' + new[at' - 1] + Most'[Inner' - at'] <= MostSends'
    <2>1. at' - 1 = at /\ Inner' - at' = Depth - at /\ MostSends' = MostSends
      <3>1. at' - 1 = at
        BY <1>3
      <3>2. Inner' - at' = Depth - at
        BY <1>2, <1>3 DEF Inner
      <3>3. MostSends' = MostSends
        BY <1>2 DEF MostSends
      <3> QED BY <3>1, <3>2, <3>3
    <2>2. Most[Depth - at] \in Nat /\ MostSends \in Nat
      BY <1>3, MostIs DEF MostAt, MostSends
    <2>3. sends \in Nat
      BY DEF TypeOK
    <2> QED BY <1>2, <1>4, <1>5, <1>9, <2>1, <2>2, <2>3
  <1>11. at' \in 1..Inner'
    BY <1>2, <1>3 DEF Inner
  <1> QED BY <1>3, <1>8, <1>10, <1>11 DEF SendsInv, Within

\* A step outward spares nothing any more.
LEMMA OutwardSends ==
  ASSUME TypeOK, SendsInv, Outward, at \in 1..Inner, UNCHANGED retries,
         \A rem : Spare(rem) /\ Within(rem) => sends' + rem[at - 1] <= MostSends
  PROVE  SendsInv'
  <1>1. PICK rem : Spare(rem) /\ Within(rem)
    BY DEF SendsInv
  <1>2. Most' = Most /\ Depth' = Depth /\ Inner' = Inner /\ layers' = layers /\ MostSends' = MostSends
    BY MostStays DEF Outward, MostSends
  <1>3. Depth \in Nat /\ at' = at - 1 /\ dir' = "return" /\ at' \in 0..Depth
    BY StackShape DEF TypeOK, Depth, Outward, Inner
  <1>4. Spare(rem)'
    <2>1. \A i \in 1..Depth : i <= at' => i < at
      BY <1>3 DEF Inner
    <2>2. once' = once /\ attempt' = attempt
      BY DEF retries
    <2> QED BY <1>1, <1>2, <1>3, <2>1, <2>2 DEF Spare
  <1>5. sends' + rem[at'] <= MostSends'
    BY <1>1, <1>2, <1>3
  <1> QED BY <1>2, <1>3, <1>4, <1>5 DEF SendsInv, Within

LEMMA NextSends == TypeOK /\ SendsInv /\ [Next]_vars => SendsInv'
  <1> SUFFICES ASSUME TypeOK, SendsInv, [Next]_vars PROVE SendsInv'
    OBVIOUS
  <1>1. Depth \in Nat /\ Inner = Depth + 1 /\ Budget \in Nat
    BY StackShape, StackAssumption DEF TypeOK, Depth, Inner
  <1>2. /\ Most[0] = 1
        /\ \A n \in 0..Depth : Most[n] \in Nat
    BY <1>1, MostIs DEF MostAt
  <1>3. \A i \in 1..Depth : Most[Inner - i] = Times(layers[i], Most[Depth - i])
    <2>1. ASSUME NEW i \in 1..Depth PROVE Most[Inner - i] = Times(layers[i], Most[Depth - i])
      <3>1. Inner - i \in 1..Depth /\ Inner - (Inner - i) = i /\ (Inner - i) - 1 = Depth - i
        BY <1>1
      <3> QED BY <1>1, <3>1, MostIs DEF MostAt
    <2> QED BY <2>1
  <1>4. ASSUME NEW rem, Spare(rem)
        PROVE  /\ rem \in [0..Depth -> Nat]
               /\ \A i \in 0..Depth : rem[i] \in Nat
    BY <1>4 DEF Spare
  <1>5. sends \in Nat /\ MostSends \in Nat
    BY <1>1, <1>2 DEF TypeOK, MostSends
  <1>6. CASE MiddlewareForward
    <2> USE DEF MiddlewareForward, Calling, Inward, retries, history
    <2>1. at \in 1..Depth /\ Most[Inner - at] = Most[Depth - at] /\ layers[at] # "retry"
      BY <1>3, <1>6 DEF Times
    <2>2. ASSUME NEW rem, Spare(rem), Within(rem)
          PROVE  sends + rem[at - 1] + 0 + Most[Depth - at] <= MostSends
      <3>1. sends + rem[at - 1] + Most[Inner - at] <= MostSends
        BY <1>6, <2>2 DEF Within
      <3>2. rem[at - 1] \in Nat /\ Most[Depth - at] \in Nat
        BY <1>1, <1>2, <1>4, <2>1, <2>2
      <3> QED BY <1>5, <2>1, <3>1, <3>2
    <2> HIDE DEF Inward
    <2> QED BY <1>6, <2>1, <2>2, InwardSends
  <1>7. CASE RetryCall
    <2> USE DEF RetryCall, Calling, history
    <2> DEFINE more == IF ~ once'[at] THEN Budget * Most[Depth - at] ELSE 0
    <2>1. at \in 1..Depth /\ Most[Inner - at] = (Budget + 1) * Most[Depth - at] /\ layers[at] = "retry"
      BY <1>3, <1>7 DEF Times
    <2>2. Most[Depth - at] \in Nat /\ Budget * Most[Depth - at] \in Nat
      BY <1>1, <1>2, <2>1
    <2>3. (Budget + 1) * Most[Depth - at] = Budget * Most[Depth - at] + Most[Depth - at]
      <3>1. \A n \in Nat, v \in Nat : (n + 1) * v = n * v + v
        OBVIOUS
      <3> QED BY <1>1, <2>2, <3>1
    <2>4. attempt'[at] = 0 /\ Budget - 0 = Budget
      BY <1>1, <1>7, <2>1 DEF TypeOK
    <2>5. \A i \in 1..Depth : i # at => once'[i] = once[i] /\ attempt'[i] = attempt[i]
      BY <1>7 DEF TypeOK
    <2>6. more \in Nat /\ more <= Budget * Most[Depth - at]
      BY <2>2
    <2>7. ASSUME NEW rem, Spare(rem), Within(rem)
          PROVE  sends + rem[at - 1] + more + Most[Depth - at] <= MostSends
      <3>1. sends + rem[at - 1] + Most[Inner - at] <= MostSends
        BY <1>7, <2>7 DEF Within
      <3>2. rem[at - 1] \in Nat
        BY <1>1, <1>4, <2>1, <2>7
      <3> HIDE DEF more
      <3> QED BY <1>5, <2>1, <2>2, <2>3, <2>6, <3>1, <3>2
    <2>8. more = IF layers[at] = "retry" /\ ~ once'[at]
                 THEN (Budget - attempt'[at]) * Most[Depth - at] ELSE 0
      BY <2>1, <2>4
    <2>9. Inward /\ sends' = sends
      BY <1>7
    <2> HIDE DEF more
    <2> QED BY <2>1, <2>5, <2>6, <2>7, <2>8, <2>9, InwardSends
  <1>8. CASE RetryAgain
    <2> USE DEF RetryAgain, Returning, history
    <2> DEFINE w == Most[Depth - at]
               more == (Budget - (attempt[at] + 1)) * w
    <2>1. at \in 1..Depth /\ layers[at] = "retry" /\ ~ once[at] /\ once' = once /\ dir = "return"
      BY <1>8
    <2>2. attempt[at] \in Nat /\ attempt[at] < Budget /\ attempt'[at] = attempt[at] + 1
      BY <1>1, <1>8, <2>1 DEF TypeOK
    <2>3. w \in Nat /\ Budget - (attempt[at] + 1) \in Nat
      BY <1>1, <1>2, <2>1, <2>2
    <2>4. more \in Nat
      <3> HIDE DEF w
      <3> QED BY <2>3
    <2>5. (Budget - attempt[at]) * w = more + w
      <3>1. \A n \in Nat, v \in Nat : (n + 1) * v = n * v + v
        OBVIOUS
      <3>2. Budget - attempt[at] = (Budget - (attempt[at] + 1)) + 1
        BY <1>1, <2>2
      <3> HIDE DEF w
      <3> QED BY <2>3, <3>1, <3>2
    <2>6. \A i \in 1..Depth : i # at => once'[i] = once[i] /\ attempt'[i] = attempt[i]
      BY <1>8 DEF TypeOK
    <2>7. ASSUME NEW rem, Spare(rem), Within(rem)
          PROVE  sends + rem[at - 1] + more + Most[Depth - at] <= MostSends
      <3>1. rem[at] = rem[at - 1] + (Budget - attempt[at]) * w
        BY <2>1, <2>7 DEF Spare
      <3>2. sends + rem[at] <= MostSends
        BY <2>1, <2>7 DEF Within
      <3>3. rem[at - 1] \in Nat
        BY <1>1, <1>4, <2>1, <2>7
      <3>4. rem[at] = rem[at - 1] + (more + w)
        BY <2>5, <3>1
      <3> HIDE DEF more, w
      <3>5. sends + rem[at - 1] + more + w <= MostSends
        BY <1>5, <2>3, <2>4, <3>2, <3>3, <3>4
      <3> QED BY <3>5 DEF w
    <2>8. more = IF layers[at] = "retry" /\ ~ once'[at]
                 THEN (Budget - attempt'[at]) * Most[Depth - at] ELSE 0
      BY <2>1, <2>2
    <2>9. Inward /\ sends' = sends
      BY <1>8
    <2> HIDE DEF more, w
    <2> QED BY <2>1, <2>4, <2>6, <2>7, <2>8, <2>9, InwardSends
  <1>9. CASE Send
    <2>1. at = Inner /\ at \in 1..Inner /\ Outward /\ UNCHANGED retries
      BY <1>1, <1>9 DEF Send
    <2>2. ASSUME NEW rem, Spare(rem), Within(rem) PROVE sends' + rem[at - 1] <= MostSends
      <3>1. sends + rem[at - 1] + Most[Inner - at] <= MostSends
        BY <1>9, <2>2 DEF Within, Send
      <3>2. Inner - at = 0 /\ at - 1 = Depth
        BY <1>1, <2>1
      <3>3. rem[at - 1] \in Nat /\ sends' <= sends + 1 /\ sends' \in Nat
        BY <1>1, <1>4, <1>5, <1>9, <2>2, <3>2 DEF Send
      <3> QED BY <1>2, <1>5, <3>1, <3>2, <3>3
    <2> QED BY <2>1, <2>2, OutwardSends
  <1>10. CASE MiddlewareAnswer
    <2> USE DEF MiddlewareAnswer, Calling, history
    <2>1. at \in 1..Depth /\ at \in 1..Inner /\ Outward /\ UNCHANGED retries /\ sends' = sends
      BY <1>1, <1>10
    <2>2. ASSUME NEW rem, Spare(rem), Within(rem) PROVE sends' + rem[at - 1] <= MostSends
      <3>1. sends + rem[at - 1] + Most[Inner - at] <= MostSends
        BY <1>10, <2>2 DEF Within
      <3>2. rem[at - 1] \in Nat /\ Most[Inner - at] \in Nat
        BY <1>1, <1>2, <1>4, <2>1, <2>2
      <3> QED BY <1>5, <2>1, <3>1, <3>2
    <2> QED BY <2>1, <2>2, OutwardSends
  <1>11. CASE MiddlewareReturn \/ RetryReturn
    <2> USE DEF MiddlewareReturn, RetryReturn, Returning, history
    <2>1. at \in 1..Depth /\ at \in 1..Inner /\ Outward /\ UNCHANGED retries /\ sends' = sends /\ dir = "return"
      BY <1>1, <1>11
    <2>2. ASSUME NEW rem, Spare(rem), Within(rem) PROVE sends' + rem[at - 1] <= MostSends
      <3>1. sends + rem[at] <= MostSends
        BY <2>1, <2>2 DEF Within
      <3>2. rem[at] \in Nat /\ rem[at - 1] \in Nat
        BY <1>1, <1>4, <2>1, <2>2
      <3>3. rem[at] = rem[at - 1] + IF layers[at] = "retry" /\ ~ once[at]
                                    THEN (Budget - attempt[at]) * Most[Depth - at] ELSE 0
        BY <2>1, <2>2 DEF Spare
      <3>4. Budget - attempt[at] \in Nat /\ Most[Depth - at] \in Nat
        BY <1>1, <1>2, <2>1 DEF TypeOK
      <3>5. (Budget - attempt[at]) * Most[Depth - at] \in Nat
        BY <3>4
      <3> QED BY <1>5, <2>1, <3>1, <3>2, <3>3, <3>5
    <2> QED BY <2>1, <2>2, OutwardSends
  <1>12. CASE UNCHANGED vars
    <2>1. PICK rem : Spare(rem) /\ Within(rem)
      BY DEF SendsInv
    <2>2. Most' = Most /\ Depth' = Depth /\ Inner' = Inner /\ MostSends' = MostSends
      BY <1>12, MostStays DEF vars, MostSends
    <2> QED BY <1>12, <2>1, <2>2 DEF vars, SendsInv, Spare, Within
  <1> QED
    BY <1>6, <1>7, <1>8, <1>9, <1>10, <1>11, <1>12 DEF Next, Rest

\* A call sends its request at most as often as the budgets of its retry layers multiply to,
\* whatever is between them.
THEOREM SendsStayBounded == Spec => []SendsBounded
  <1>1. TypeOK /\ SendsInv => SendsBounded
    <2> SUFFICES ASSUME TypeOK, SendsInv PROVE sends <= MostSends
      BY DEF SendsBounded
    <2>1. PICK rem : Spare(rem) /\ Within(rem)
      BY DEF SendsInv
    <2>2. Depth \in Nat /\ Inner = Depth + 1
      BY StackShape DEF TypeOK, Depth, Inner
    <2>3. /\ \A n \in 0..Depth : Most[n] \in Nat /\ rem[n] \in Nat
          /\ sends \in Nat /\ MostSends \in Nat
      BY <2>1, <2>2, MostIs DEF MostAt, Spare, TypeOK, MostSends
    <2>4. CASE dir = "call"
      <3>1. at - 1 \in 0..Depth /\ Inner - at \in 0..Depth /\ sends + rem[at - 1] + Most[Inner - at] <= MostSends
        BY <2>1, <2>2, <2>4 DEF Within
      <3> QED BY <2>3, <3>1
    <2>5. CASE dir = "return"
      <3>1. at \in 0..Depth /\ sends + rem[at] <= MostSends
        BY <2>1, <2>5 DEF Within
      <3> QED BY <2>3, <3>1
    <2> QED BY <2>1, <2>4, <2>5 DEF Within
  <1> QED BY <1>1, InitSends, NextSends, StackTypeCorrect, PTL DEF Spec

\* A call is a use of the stack: each of its steps is one of the stack, or leaves
\* it as it is.
THEOREM CallsUseTheStack == CallSpec => Spec
  <1>1. CallInit => Init
    BY DEF CallInit
  <1>2. [CallNext]_allVars => [Next]_vars
    BY DEF CallNext, allVars, UrlRefused, SelectAlternative, MissingCredential,
       AttachSecret, CredentialMismatch, AskProvider, ProviderAnswers, ProviderFails,
       AllAttached, Build, InStack, SendFails, Respond, Chunk, ChunkFails, Classify,
       Finished
  <1> QED
    BY <1>1, <1>2, PTL DEF CallSpec, Spec

\* So what holds of every use of a stack holds of a call of an operation: a
\* request that is not idempotent has one effect at most (retry.rs, is_transient).
THEOREM CallsHaveOneEffect == CallSpec => []OneEffect
  BY CallsUseTheStack, AtMostOneEffect, PTL

\* A streaming body of a call is sent once.
THEOREM CallsSendStreamsOnce == CallSpec => []StreamsSentOnce
  BY CallsUseTheStack, StreamsAreSentOnce, PTL

\* The alternative that was chosen is the one to choose, and what was passed of it
\* fits; the providers asked are those of the schemes up to the one in hand.
Chosen ==
  /\ \E i \in DOMAIN call.security :
       /\ Satisfied(i) /\ \A k \in 1..i-1 : ~ Satisfied(k)
       /\ chosen = call.security[i]
  /\ attached \in 0..Len(chosen)
  /\ \A j \in 1..attached : Fits(chosen[j]) \/ Provided(chosen[j])

AskedUpTo(n) ==
  /\ \A k, l \in DOMAIN asked : asked[k] = asked[l] => k = l
  /\ \A k \in DOMAIN asked : \E j \in 1..n : Provided(chosen[j]) /\ asked[k] = chosen[j].name
  /\ \A j \in 1..n : Provided(chosen[j]) => \E k \in DOMAIN asked : asked[k] = chosen[j].name

Authorised ==
  call.security # <<>> => Chosen /\ attached = Len(chosen) /\ AskedUpTo(attached)

Names == UNION {DOMAIN c.credentials : c \in UNION Calls}

AuthInv ==
  /\ call \in UNION Calls
  /\ asked \in Seq(Names)
  /\ stage \in {"url", "auth", "ask", "build"} => sends = 0
  /\ stage = "url" => attached = 0 /\ asked = <<>>
  /\ stage \in {"auth", "ask"} => Chosen
  /\ stage = "auth" => AskedUpTo(attached)
  /\ stage = "ask" => attached < Len(chosen) /\ Provided(Scheme) /\ AskedUpTo(attached + 1)
  /\ stage \in {"build", "send", "read"} \/ sends > 0 => Authorised

LEMMA ChosenShape ==
  ASSUME call \in UNION Calls, NEW i \in DOMAIN call.security
  PROVE  /\ Len(call.security[i]) \in Nat
         /\ DOMAIN call.security[i] = 1..Len(call.security[i])
         /\ \A j \in DOMAIN call.security[i] : call.security[i][j].name \in Names
         /\ \A j, k \in DOMAIN call.security[i] :
              call.security[i][j].name = call.security[i][k].name => j = k
  <1>1. PICK family \in Calls : call \in family
    OBVIOUS
  <1>2. call.security \in Seq(Seq([name : DOMAIN call.credentials, kind : AuthKinds]))
    BY <1>1, CallAssumption
  <1>3. call.security[i] \in Seq([name : DOMAIN call.credentials, kind : AuthKinds])
    BY <1>2
  <1>4. \A j, k \in DOMAIN call.security[i] :
          call.security[i][j].name = call.security[i][k].name => j = k
    BY <1>1, CallAssumption
  <1>5. ASSUME NEW j \in DOMAIN call.security[i]
        PROVE  call.security[i][j].name \in DOMAIN call.credentials
    <2>1. \A S : \A s \in Seq(S) : \A k \in DOMAIN s : s[k] \in S
      OBVIOUS
    <2>2. call.security[i][j] \in [name : DOMAIN call.credentials, kind : AuthKinds]
      BY <1>3, <2>1, Zenon
    <2> QED
      BY <2>2
  <1>6. DOMAIN call.credentials \subseteq Names
    BY DEF Names
  <1>7. Len(call.security[i]) \in Nat /\ DOMAIN call.security[i] = 1..Len(call.security[i])
    BY <1>3
  <1>8. \A j \in DOMAIN call.security[i] : call.security[i][j].name \in Names
    BY <1>5, <1>6
  <1> QED
    BY <1>4, <1>7, <1>8

\* What these predicates say depends on the call, what is chosen and what was asked.
LEMMA AuthUnchanged ==
  ASSUME UNCHANGED <<call, chosen, attached>>
  PROVE  /\ Chosen' <=> Chosen
         /\ \A j : (Fits(chosen[j])' <=> Fits(chosen[j])) /\ (Provided(chosen[j])' <=> Provided(chosen[j]))
         /\ Provided(Scheme)' <=> Provided(Scheme)
         /\ asked' = asked =>
              (Authorised' <=> Authorised) /\ \A n : AskedUpTo(n)' <=> AskedUpTo(n)
  BY DEF Chosen, Fits, Provided, Satisfied, Missing, Scheme, Authorised, AskedUpTo

LEMMA InitAuth == CallInit => AuthInv
  BY DEF CallInit, Init, AuthInv, Authorised

LEMMA SelectAuth == AuthInv /\ SelectAlternative => AuthInv'
  <1> SUFFICES ASSUME AuthInv, SelectAlternative PROVE AuthInv'
    OBVIOUS
  <1>1. attached' = 0 /\ call' = call /\ sends' = 0 /\ asked' = asked /\ asked = <<>>
    BY DEF SelectAlternative, AuthInv, vars
  <1>2. CASE call.security = <<>> /\ stage' = "build"
    BY <1>1, <1>2 DEF AuthInv, Authorised
  <1>3. CASE \E i \in DOMAIN call.security :
               /\ Satisfied(i) /\ \A k \in 1..i-1 : ~ Satisfied(k)
               /\ chosen' = call.security[i] /\ stage' = "auth"
    <2>1. PICK i \in DOMAIN call.security :
               /\ Satisfied(i) /\ \A k \in 1..i-1 : ~ Satisfied(k)
               /\ chosen' = call.security[i] /\ stage' = "auth"
      BY <1>3
    <2>2. Len(chosen') \in Nat
      BY <2>1, ChosenShape DEF AuthInv
    <2>3. /\ Satisfied(i)' /\ \A k \in 1..i-1 : ~ Satisfied(k)'
          /\ i \in DOMAIN call'.security /\ chosen' = call'.security[i]
      BY <1>1, <2>1 DEF Satisfied, Missing
    <2>4. attached' \in 0..Len(chosen') /\ 1..attached' = {}
      BY <1>1, <2>2
    <2>5. Chosen'
      BY <2>3, <2>4, Zenon DEF Chosen
    <2>6. AskedUpTo(attached)'
      BY <1>1, <2>4 DEF AskedUpTo
    <2> QED
      BY <1>1, <2>1, <2>5, <2>6 DEF AuthInv
  <1> QED
    BY <1>2, <1>3 DEF SelectAlternative

LEMMA AttachAuth == AuthInv /\ (AttachSecret \/ ProviderAnswers) => AuthInv'
  <1> SUFFICES ASSUME AuthInv, AttachSecret \/ ProviderAnswers PROVE AuthInv'
    OBVIOUS
  <1>1. /\ Chosen /\ attached < Len(chosen) /\ sends = 0 /\ sends' = 0
        /\ attached' = attached + 1 /\ stage' = "auth"
        /\ UNCHANGED <<call, chosen, asked>>
        /\ Fits(Scheme) \/ Provided(Scheme)
    BY DEF AttachSecret, ProviderAnswers, AttachNext, AuthInv, vars
  <1>2. PICK i \in DOMAIN call.security :
             /\ Satisfied(i) /\ \A k \in 1..i-1 : ~ Satisfied(k)
             /\ chosen = call.security[i]
    BY <1>1 DEF Chosen
  <1>3. Len(chosen) \in Nat /\ attached \in Nat
    BY <1>1, <1>2, ChosenShape DEF AuthInv, Chosen
  <1>4. /\ Satisfied(i)' /\ \A k \in 1..i-1 : ~ Satisfied(k)'
        /\ i \in DOMAIN call'.security /\ chosen' = call'.security[i]
    BY <1>1, <1>2 DEF Satisfied, Missing
  <1>5. attached' \in 0..Len(chosen')
    BY <1>1, <1>3
  <1>6. \A j \in 1..attached' : Fits(chosen[j]) \/ Provided(chosen[j])
    <2>1. \A j \in 1..attached' : j \in 1..attached \/ j = attached + 1
      BY <1>1, <1>3
    <2> QED
      BY <1>1, <2>1 DEF Chosen, Scheme
  <1>7. Chosen'
    <2>1. (\A j \in 1..attached : Fits(chosen[j]) \/ Provided(chosen[j]))'
      BY <1>1, <1>6 DEF Fits, Provided
    <2> QED
      BY <1>4, <1>5, <2>1, Zenon DEF Chosen
  <1>8. AskedUpTo(attached + 1)
    <2>1. CASE ProviderAnswers
      BY <2>1 DEF ProviderAnswers, AuthInv
    <2>2. CASE AttachSecret
      <3>1. AskedUpTo(attached) /\ ~ Provided(chosen[attached + 1])
        BY <2>2 DEF AttachSecret, AttachNext, AuthInv, Scheme, Fits, Provided, Suits, Asks
      <3>2. \A j \in 1..attached + 1 : j \in 1..attached \/ j = attached + 1
        BY <1>3
      <3>3. 1..attached \subseteq 1..attached + 1
        BY <1>3
      <3> QED
        BY <3>1, <3>2, <3>3 DEF AskedUpTo
    <2> QED
      BY <2>1, <2>2
  <1>9. AskedUpTo(attached)'
    BY <1>1, <1>8 DEF AskedUpTo, Provided
  <1> QED
    BY <1>1, <1>7, <1>9 DEF AuthInv

LEMMA AskAuth == AuthInv /\ AskProvider => AuthInv'
  <1> SUFFICES ASSUME AuthInv, AskProvider PROVE AuthInv'
    OBVIOUS
  <1>1. /\ Chosen /\ AskedUpTo(attached) /\ attached < Len(chosen) /\ sends' = sends
        /\ Provided(Scheme) /\ stage' = "ask" /\ sends = 0
        /\ asked' = Append(asked, Scheme.name)
        /\ UNCHANGED <<call, chosen, attached>>
    BY DEF AskProvider, AttachNext, AuthInv, vars
  <1>2. PICK i \in DOMAIN call.security : chosen = call.security[i]
    BY <1>1 DEF Chosen
  <1>3. /\ Len(chosen) \in Nat /\ attached \in Nat
        /\ DOMAIN chosen = 1..Len(chosen)
        /\ \A j \in DOMAIN chosen : chosen[j].name \in Names
        /\ \A j, k \in DOMAIN chosen : chosen[j].name = chosen[k].name => j = k
    BY <1>1, <1>2, ChosenShape DEF AuthInv, Chosen
  <1>4. attached + 1 \in DOMAIN chosen /\ 1..attached \subseteq DOMAIN chosen
    BY <1>1, <1>3
  <1>5. asked \in Seq(Names) /\ Scheme.name \in Names
    BY <1>3, <1>4 DEF AuthInv, Scheme
  <1>6. /\ asked' \in Seq(Names) /\ DOMAIN asked' = DOMAIN asked \cup {Len(asked) + 1}
        /\ asked'[Len(asked) + 1] = Scheme.name /\ Len(asked) + 1 \notin DOMAIN asked
        /\ \A k \in DOMAIN asked : asked'[k] = asked[k]
    BY <1>1, <1>5
  <1>7. \A k \in DOMAIN asked : asked[k] # Scheme.name
    <2> SUFFICES ASSUME NEW k \in DOMAIN asked, asked[k] = Scheme.name PROVE FALSE
      OBVIOUS
    <2>1. PICK j \in 1..attached : asked[k] = chosen[j].name
      BY <1>1 DEF AskedUpTo
    <2>2. j = attached + 1
      BY <1>3, <1>4, <2>1 DEF Scheme
    <2> QED
      BY <1>3, <2>1, <2>2
  <1>8. AskedUpTo(attached + 1)'
    <2>1. \A k, l \in DOMAIN asked' : asked'[k] = asked'[l] => k = l
      BY <1>1, <1>6, <1>7 DEF AskedUpTo
    <2>2. ASSUME NEW k \in DOMAIN asked'
          PROVE  \E j \in 1..attached + 1 : Provided(chosen[j]) /\ asked'[k] = chosen[j].name
      <3>1. CASE k \in DOMAIN asked
        <4>1. PICK j \in 1..attached : Provided(chosen[j]) /\ asked[k] = chosen[j].name
          BY <1>1, <3>1 DEF AskedUpTo
        <4>2. j \in 1..attached + 1
          BY <1>3
        <4> QED
          BY <1>6, <3>1, <4>1, <4>2
      <3>2. CASE k = Len(asked) + 1
        <4>1. attached + 1 \in 1..attached + 1
          BY <1>3
        <4> QED
          BY <1>1, <1>6, <3>2, <4>1 DEF Scheme
      <3> QED
        BY <1>6, <3>1, <3>2
    <2>3. ASSUME NEW j \in 1..attached + 1, Provided(chosen[j])
          PROVE  \E k \in DOMAIN asked' : asked'[k] = chosen[j].name
      <3>1. CASE j = attached + 1
        BY <1>6, <3>1 DEF Scheme
      <3>2. CASE j # attached + 1
        <4>1. j \in 1..attached
          BY <1>3, <3>2
        <4>2. PICK k \in DOMAIN asked : asked[k] = chosen[j].name
          BY <1>1, <2>3, <4>1 DEF AskedUpTo
        <4> QED
          BY <1>6, <4>2
      <3> QED
        BY <3>1, <3>2
    <2> QED
      BY <1>1, <2>1, <2>2, <2>3 DEF AskedUpTo, Provided
  <1> QED
    BY <1>1, <1>6, <1>8, AuthUnchanged DEF AuthInv

LEMMA NextAuth == AuthInv /\ [CallNext]_allVars => AuthInv'
  <1> SUFFICES ASSUME AuthInv, [CallNext]_allVars PROVE AuthInv'
    OBVIOUS
  <1>1. CASE UrlRefused \/ MissingCredential \/ CredentialMismatch \/ ProviderFails
    <2>1. /\ UNCHANGED <<call, asked>> /\ stage' = "done" /\ sends' = 0
      BY <1>1 DEF UrlRefused, MissingCredential, CredentialMismatch, ProviderFails, AttachNext,
         End, auth, vars, AuthInv
    <2> QED
      BY <2>1 DEF AuthInv
  <1>2. CASE AllAttached
    <2>1. /\ UNCHANGED <<call, chosen, attached, asked, sends>> /\ stage' = "build"
          /\ stage = "auth" /\ attached = Len(chosen)
      BY <1>2 DEF AllAttached, auth, vars
    <2>2. Authorised'
      BY <2>1, AuthUnchanged DEF AuthInv, Authorised
    <2> QED
      BY <2>1, <2>2 DEF AuthInv
  <1>3. CASE Build \/ SendFails \/ Respond \/ Chunk \/ ChunkFails \/ Classify
    <2>1. /\ stage \in {"build", "send", "read"} /\ stage' \in {"send", "read", "done"}
          /\ UNCHANGED <<call, chosen, attached, asked, sends>>
      BY <1>3 DEF Build, SendFails, Respond, Chunk, ChunkFails, Classify, End, auth, vars
    <2> QED
      BY <2>1, AuthUnchanged DEF AuthInv
  <1>4. CASE InStack
    <2>1. stage = "send" /\ UNCHANGED <<call, chosen, attached, asked, stage>>
      BY <1>4 DEF InStack, auth
    <2> QED
      BY <2>1, AuthUnchanged DEF AuthInv
  <1>5. CASE UNCHANGED allVars
    <2>1. UNCHANGED <<call, chosen, attached, asked, stage, sends>>
      BY <1>5 DEF allVars, vars
    <2> QED
      BY <2>1, AuthUnchanged DEF AuthInv
  <1> QED
    BY <1>1, <1>2, <1>3, <1>4, <1>5, SelectAuth, AttachAuth, AskAuth DEF CallNext, Finished

\* For any requirements and registrations, what is sent carries the credentials
\* of the first alternative that is registered in full, each of them suits its
\* scheme, and every token provider of it was asked once (auth.rs, attach_auth).
THEOREM SentWithCredentials == CallSpec => []SentAsRegistered
  <1>1. AuthInv => SentAsRegistered
    <2> SUFFICES ASSUME AuthInv, sends > 0, call.security # <<>>
                 PROVE  SentAsRegistered
      BY DEF SentAsRegistered
    <2>1. Chosen /\ attached = Len(chosen) /\ AskedUpTo(attached)
      BY DEF AuthInv, Authorised
    <2>2. DOMAIN chosen = 1..attached
      BY <2>1, ChosenShape DEF AuthInv, Chosen
    <2>3. {asked[k] : k \in DOMAIN asked}
            = {chosen[j].name : j \in {k \in DOMAIN chosen : Provided(chosen[k])}}
      BY <2>1, <2>2 DEF AskedUpTo
    <2>4. \A k, l \in DOMAIN asked : asked[k] = asked[l] => k = l
      BY <2>1 DEF AskedUpTo
    <2> QED
      BY <2>1, <2>2, <2>3, <2>4 DEF Chosen, SentAsRegistered
  <1> QED
    BY <1>1, InitAuth, NextAuth, PTL DEF CallSpec

\* What was read of a body, and what an error keeps of it.
ReadInv ==
  /\ MaxErrorBody \in Nat /\ MaxChunk \in Nat \ {0}
  /\ got \in Nat /\ reply.length \in Nat
  /\ got <= reply.length
  /\ call \in UNION Calls
  /\ stage \notin {"read", "done"} => got = 0
  /\ stage # "done" => outcome.kind = "none"
  /\ KeptUpToTheCap

LEMMA NextRead == ReadInv /\ [CallNext]_allVars => ReadInv'
  <1> SUFFICES ASSUME ReadInv, [CallNext]_allVars PROVE ReadInv'
    OBVIOUS
  <1>1. CASE UrlRefused \/ MissingCredential \/ CredentialMismatch \/ ProviderFails
             \/ Build \/ SendFails \/ ChunkFails
    BY <1>1 DEF UrlRefused, MissingCredential, CredentialMismatch, ProviderFails, Build,
       SendFails, ChunkFails, AttachNext, End, answer, Outcome, ReadInv, KeptUpToTheCap
  <1>2. CASE SelectAlternative \/ AttachSecret \/ AskProvider \/ ProviderAnswers
             \/ AllAttached \/ InStack
    BY <1>2 DEF SelectAlternative, AttachSecret, AskProvider, ProviderAnswers,
       AllAttached, InStack, AttachNext, answer, ReadInv, KeptUpToTheCap
  <1>3. CASE Respond
    <2>1. PICK status \in call.statuses, length \in call.lengths :
               /\ reply' = [status |-> status, length |-> length]
               /\ \/ /\ stage' = "done"
                     /\ outcome' = [Outcome("Ok") EXCEPT !.of = ReadAs(call.table, status).of]
                  \/ stage' = "read" /\ UNCHANGED outcome
      BY <1>3, Zenon DEF Respond, End
    <2>2. UNCHANGED <<call, got>> /\ got = 0 /\ outcome.kind = "none"
      BY <1>3 DEF Respond, ReadInv
    <2>3. reply'.length \in Nat
      BY <2>1, CallAssumption DEF ReadInv
    <2>4. outcome'.kind \in {"none", "Ok"}
      BY <2>1, <2>2 DEF Outcome
    <2> QED
      BY <2>1, <2>2, <2>3, <2>4 DEF ReadInv, KeptUpToTheCap
  <1>4. CASE Chunk
    BY <1>4 DEF Chunk, ReadsOn, WholeBody, ReadInv, KeptUpToTheCap
  <1>5. CASE Classify
    BY <1>5 DEF Classify, ReadsOn, WholeBody, Capped, Outcome, End, answer, ReadInv,
       KeptUpToTheCap
  <1>6. CASE UNCHANGED allVars
    BY <1>6 DEF allVars, ReadInv, KeptUpToTheCap
  <1> QED
    BY <1>1, <1>2, <1>3, <1>4, <1>5, <1>6 DEF CallNext, Finished

\* However a body is cut into chunks, an error keeps what the cap allows and
\* says truthfully whether that is all (dispatch.rs, read_capped, cap_body).
THEOREM ErrorsKeepUpToTheCap == CallSpec => []KeptUpToTheCap
  <1>1. CallInit => ReadInv
    BY CallAssumption DEF CallInit, NoReply, Outcome, ReadInv, KeptUpToTheCap
  <1>2. ReadInv => KeptUpToTheCap
    BY DEF ReadInv
  <1> QED
    BY <1>1, <1>2, NextRead, PTL DEF CallSpec
-----------------------------------------------------------------------------
(* ReadAsDocumented. *)

LEMMA LoneMember ==
  ASSUME NEW S, IsFiniteSet(S), Cardinality(S) = 1
  PROVE  \E x : S = {x}
  BY FS_Singleton

LEMMA AtMostOne ==
  ASSUME NEW S, IsFiniteSet(S), ~ Cardinality(S) > 1, S # {}
  PROVE  \E x : S = {x}
  <1>1. Cardinality(S) \in Nat /\ Cardinality(S) # 0
    BY FS_CardinalityType, FS_EmptySet
  <1>2. Cardinality(S) = 1
    BY <1>1
  <1> QED
    BY <1>2, LoneMember

\* Of the selectors that cover a status each has a rank of its own.
LEMMA RanksDiffer ==
  ASSUME NEW s, NEW t, NEW status, Matches(s, status), Matches(t, status)
  PROVE  /\ s.rank \in 0..2 /\ t.rank \in 0..2
         /\ s.rank = t.rank => s = t
         /\ s = Default <=> s.rank = 2
  BY DEF Matches, Exact, InRange, Default

\* A selector that covers a status and is not `default` is on the side of the status.
LEMMA SideOfAStatus ==
  ASSUME NEW s, NEW status, Matches(s, status)
  PROVE  SuccessSelector(s) <=> IsSuccess(status) /\ s # Default
  BY DEF Matches, SuccessSelector, IsSuccess, Exact, InRange, Default

LEMMA DefaultIsNoSuccess == ~ SuccessSelector(Default)
  BY DEF SuccessSelector, Default

\* The arms of one side try what documents the status.
LEMMA ArmsOfSuccesses ==
  ASSUME NEW table, NEW status, IsSuccess(status)
  PROVE  FirstArm(SuccessSource(table), status) = Documenting(table, status)
  <1> DEFINE source == SuccessSource(table)
  <1>1. CASE Successes(table) = {}
    <2>1. \A s \in Declared(table) : Matches(s, status) => s = Default
      BY <1>1, SideOfAStatus DEF Successes
    <2>2. source = Declared(table) \intersect {Default}
      BY <1>1 DEF SuccessSource
    <2> QED
      BY <1>1, <2>1, <2>2 DEF FirstArm, Documenting
  <1>2. CASE Successes(table) # {}
    <2>1. source = Successes(table)
      BY <1>2 DEF SuccessSource
    <2>2. \A s \in Declared(table) : Matches(s, status) => (s \in source <=> s # Default)
      BY <2>1, SideOfAStatus DEF Successes
    <2>3. source \subseteq Declared(table)
      BY <2>1 DEF Successes
    <2>4. ASSUME NEW s \in FirstArm(source, status)
          PROVE  s \in Documenting(table, status)
      <3>1. s \in source /\ Matches(s, status) /\ s \in Declared(table) /\ s # Default
        BY <2>2, <2>3 DEF FirstArm
      <3>2. ASSUME NEW other \in Declared(table), Matches(other, status)
            PROVE  s.rank <= other.rank
        <4>1. CASE other = Default
          BY <3>1, <3>2, <4>1, RanksDiffer
        <4>2. CASE other # Default
          BY <2>2, <3>2, <4>2 DEF FirstArm
        <4> QED
          BY <4>1, <4>2
      <3> QED
        BY <3>1, <3>2 DEF Documenting
    <2>5. ASSUME NEW s \in Documenting(table, status)
          PROVE  s \in FirstArm(source, status)
      BY <1>2, <2>2, <2>3 DEF FirstArm, Documenting
    <2> QED
      BY <2>4, <2>5
  <1> QED
    BY <1>1, <1>2

LEMMA ArmsOfErrors ==
  ASSUME NEW table, NEW status, ~ IsSuccess(status)
  PROVE  FirstArm(Errors(table), status) = Documenting(table, status)
  <1>1. \A s \in Declared(table) : Matches(s, status) => s \in Errors(table)
    BY SideOfAStatus DEF Errors, Successes
  <1>2. Errors(table) \subseteq Declared(table)
    BY DEF Errors
  <1> QED
    BY <1>1, <1>2 DEF FirstArm, Documenting

LEMMA SidesAreFinite ==
  ASSUME NEW table, IsFiniteSet(DOMAIN table)
  PROVE  /\ IsFiniteSet(SuccessSource(table)) /\ IsFiniteSet(Errors(table))
         /\ IsFiniteSet(WithBody(table, SuccessSource(table)))
         /\ IsFiniteSet(WithBody(table, Errors(table)))
  <1>1. SuccessSource(table) \subseteq DOMAIN table /\ Errors(table) \subseteq DOMAIN table
    BY DEF SuccessSource, Successes, Errors, Declared
  <1>2. \A S : WithBody(table, S) \subseteq S
    BY DEF WithBody
  <1> QED
    BY <1>1, <1>2, FS_Subset

\* What a reading may be: what the property asks, before the body is read.
ReadRightly(table, status, read) ==
  LET s == Documenting(table, status)
      bodied == WithBody(table, SuccessSource(table))
  IN \/ read.of = s
     \/ /\ read = Reading("unexpected", {})
        /\ ~ IsSuccess(status) /\ WithBody(table, Errors(table)) = {}
     \/ /\ read.as \in {"stream", "unit", "decode"} /\ IsSuccess(status)
        /\ read.of = bodied
        /\ Cardinality(bodied) <= 1
        /\ \/ s = {} \/ bodied = {}
           \/ StreamSuccess(table) /\ WithBody(table, s) = {}

LEMMA ReadArmShape ==
  ASSUME NEW table, NEW arms
  PROVE  /\ ReadArm(table, arms).of = arms
         /\ ReadArm(table, arms).as = "unexpected" => arms = {}
  BY DEF ReadArm, Reading

LEMMA SuccessesReadRightly ==
  ASSUME NEW table, NEW status, IsFiniteSet(DOMAIN table), IsSuccess(status)
  PROVE  ReadRightly(table, status, ReadSuccess(table, status))
  <1> DEFINE source == SuccessSource(table)
             bodied == WithBody(table, source)
             s == Documenting(table, status)
             success == SuccessShape(table)
             read == ReadSuccess(table, status)
  <1>1. s = FirstArm(source, status)
    BY ArmsOfSuccesses
  <1>2. s \subseteq source /\ bodied \subseteq source
    BY <1>1 DEF FirstArm, WithBody
  <1>3. IsFiniteSet(source) /\ IsFiniteSet(bodied)
    BY SidesAreFinite
  <1>4. Cardinality(bodied) \in Nat /\ (Cardinality(bodied) = 0 <=> bodied = {})
    BY <1>3, FS_CardinalityType, FS_EmptySet
  <1>5. Cardinality(bodied) = 1 => \E x : bodied = {x}
    BY <1>3, LoneMember
  <1>6. ASSUME NEW p \in s, NEW q \in s PROVE p = q
    BY <1>1, RanksDiffer DEF FirstArm
  <1>7. CASE StreamSuccess(table)
    <2>1. Cardinality(bodied) = 1 /\ bodied # {}
      BY <1>4, <1>7 DEF StreamSuccess
    <2>2. success = One(bodied)
      BY <1>7, <2>1 DEF SuccessShape, Shape, SuccessSource
    <2>3. read.as = "stream" /\ read.of = bodied
      BY <1>7, <2>2 DEF ReadSuccess, Reading, One
    <2>4. CASE WithBody(table, s) = {}
      BY <1>7, <2>1, <2>3, <2>4 DEF ReadRightly
    <2>5. CASE WithBody(table, s) # {}
      <3>1. PICK x : x \in s /\ x \in bodied
        BY <1>2, <2>5 DEF WithBody
      <3>2. bodied = {x} /\ s = {x}
        BY <1>5, <1>6, <2>1, <3>1
      <3> QED
        BY <2>3, <3>2 DEF ReadRightly
    <2> QED
      BY <2>4, <2>5
  <1>8. CASE ~ StreamSuccess(table) /\ success.shape = "unit"
    <2>1. read = Reading("unit", {})
      BY <1>8 DEF ReadSuccess
    <2>2. bodied = {}
      BY <1>8 DEF SuccessShape, Shape, SuccessSource, Enum, One
    <2> QED
      BY <1>4, <2>1, <2>2 DEF ReadRightly, Reading
  <1>9. CASE ~ StreamSuccess(table) /\ success.shape = "one"
    <2>1. success = One(bodied) /\ Cardinality(bodied) = 1
      BY <1>9 DEF SuccessShape, Shape, SuccessSource, Enum, Unit
    <2>2. read.as = "decode" /\ read.of = bodied
      BY <1>9, <2>1 DEF ReadSuccess, Reading, One
    <2>3. PICK x : bodied = {x}
      BY <1>5, <2>1
    <2>4. source = {x}
      <3>1. CASE Successes(table) = {}
        BY <1>2, <2>3, <3>1 DEF SuccessSource
      <3>2. CASE Successes(table) # {}
        <4>1. source = Successes(table)
          BY <3>2 DEF SuccessSource
        <4>2. ~ Cardinality(source) > 1
          BY <1>9, <2>1, <3>2, <4>1 DEF SuccessShape, Enum
        <4> QED
          BY <1>2, <1>3, <2>3, <3>2, <4>1, <4>2, AtMostOne
      <3> QED
        BY <3>1, <3>2
    <2>5. s = {} \/ s = bodied
      BY <1>2, <2>3, <2>4
    <2> QED
      BY <2>1, <2>2, <2>5 DEF ReadRightly
  <1>10. CASE ~ StreamSuccess(table) /\ success.shape \notin {"unit", "one"}
    <2>1. success = Enum(source)
      BY <1>10 DEF SuccessShape, Shape, SuccessSource, Unit, One
    <2>2. read = ReadArm(table, s)
      BY <1>1, <1>10, <2>1 DEF ReadSuccess, Enum
    <2> QED
      BY <2>2, ReadArmShape DEF ReadRightly
  <1> QED
    BY <1>7, <1>8, <1>9, <1>10

LEMMA ErrorsReadRightly ==
  ASSUME NEW table, NEW status, IsFiniteSet(DOMAIN table), ~ IsSuccess(status)
  PROVE  ReadRightly(table, status, ReadError(table, status))
  <1> DEFINE errors == Errors(table)
             bodied == WithBody(table, errors)
             error == ErrorShape(table)
             read == ReadError(table, status)
  <1>1. IsFiniteSet(errors) /\ IsFiniteSet(bodied) /\ bodied \subseteq errors
    BY SidesAreFinite DEF WithBody
  <1>2. CASE error.shape = "unit"
    <2>1. bodied = {}
      BY <1>2 DEF ErrorShape, Shape, Enum, One
    <2> QED
      BY <1>2, <2>1 DEF ReadError, ReadRightly
  <1>3. CASE error.shape # "unit"
    <2>1. error.of = errors
      <3>1. CASE error = Enum(errors)
        BY <3>1 DEF Enum
      <3>2. CASE error # Enum(errors)
        <4>1. error = One(bodied) /\ Cardinality(bodied) = 1 /\ ~ Cardinality(errors) > 1
          BY <1>3, <3>2 DEF ErrorShape, Shape, Unit
        <4>2. PICK x : bodied = {x}
          BY <1>1, <4>1, LoneMember
        <4>3. errors = bodied
          BY <1>1, <4>1, <4>2, AtMostOne
        <4> QED
          BY <4>1, <4>3 DEF One
      <3> QED
        BY <3>1, <3>2
    <2>2. read = ReadArm(table, Documenting(table, status))
      BY <1>3, <2>1, ArmsOfErrors DEF ReadError
    <2> QED
      BY <2>2, ReadArmShape DEF ReadRightly
  <1> QED
    BY <1>2, <1>3

LEMMA ReadingsAreRight ==
  ASSUME NEW table, NEW status, IsFiniteSet(DOMAIN table)
  PROVE  /\ ReadRightly(table, status, ReadAs(table, status))
         /\ ReadAs(table, status).as = "unexpected" => ReadAs(table, status).of = {}
  <1>1. ReadRightly(table, status, ReadAs(table, status))
    BY SuccessesReadRightly, ErrorsReadRightly DEF ReadAs
  <1>2. ReadAs(table, status).as = "unexpected" => ReadAs(table, status).of = {}
    BY ReadArmShape DEF ReadAs, ReadSuccess, ReadError, Reading
  <1> QED
    BY <1>1, <1>2

DocumentedInv ==
  /\ call \in UNION Calls
  /\ stage # "done" => outcome.kind = "none"
  /\ ReadAsDocumented

LEMMA NextDocumented == DocumentedInv /\ [CallNext]_allVars => DocumentedInv'
  <1> SUFFICES ASSUME DocumentedInv, [CallNext]_allVars PROVE DocumentedInv'
    OBVIOUS
  <1>1. CASE UrlRefused \/ MissingCredential \/ CredentialMismatch \/ ProviderFails
             \/ Build \/ SendFails \/ ChunkFails
    BY <1>1 DEF UrlRefused, MissingCredential, CredentialMismatch, ProviderFails, Build,
       SendFails, ChunkFails, AttachNext, End, Outcome, DocumentedInv, ReadAsDocumented
  <1>2. CASE SelectAlternative \/ AttachSecret \/ AskProvider \/ ProviderAnswers
             \/ AllAttached \/ InStack \/ Chunk
    BY <1>2 DEF SelectAlternative, AttachSecret, AskProvider, ProviderAnswers,
       AllAttached, InStack, Chunk, AttachNext, DocumentedInv, ReadAsDocumented
  <1>3. CASE Respond
    <2>1. PICK status \in call.statuses, length \in call.lengths :
               /\ reply' = [status |-> status, length |-> length]
               /\ \/ /\ \/ ReadAs(call.table, status).as \in {"stream", "unit"}
                        \/ ReadAs(call.table, status).as = "variant" /\ IsSuccess(status)
                     /\ stage' = "done"
                     /\ outcome' = [Outcome("Ok") EXCEPT !.of = ReadAs(call.table, status).of]
                  \/ stage' = "read" /\ UNCHANGED outcome
      BY <1>3, Zenon DEF Respond, End
    <2>2. UNCHANGED call /\ outcome.kind = "none" /\ IsFiniteSet(DOMAIN call.table)
      BY <1>3, CallAssumption DEF Respond, DocumentedInv
    <2>3. CASE stage' = "read"
      BY <2>1, <2>2, <2>3 DEF DocumentedInv, ReadAsDocumented
    <2>4. CASE stage' = "done"
      <3>1. outcome'.kind = "Ok" /\ outcome'.of = ReadAs(call.table, status).of
            /\ ReadAs(call.table, status).as # "unexpected"
        BY <2>1, <2>4 DEF Outcome
      <3>2. reply'.status = status
        BY <2>1
      <3>3. ReadRightly(call.table, status, ReadAs(call.table, status))
        BY <2>2, ReadingsAreRight
      <3>4. ReadAsDocumented'
        BY <2>2, <3>1, <3>2, <3>3 DEF ReadRightly, ReadAsDocumented, Reading
      <3> QED
        BY <2>2, <2>4, <3>4 DEF DocumentedInv
    <2> QED
      BY <2>1, <2>3, <2>4
  <1>4. CASE Classify
    <2> DEFINE read == ReadReply
    <2>1. UNCHANGED <<call, reply>> /\ stage' = "done" /\ IsFiniteSet(DOMAIN call.table)
      BY <1>4, CallAssumption DEF Classify, End, answer, DocumentedInv
    <2>2. ReadRightly(call.table, reply.status, read)
          /\ (read.as = "unexpected" => read.of = {})
      BY <2>1, ReadingsAreRight DEF ReadReply
    <2>3. \/ /\ read.as = "unexpected" /\ outcome'.kind = "UnexpectedStatus" /\ outcome'.of = {}
          \/ /\ read.as = "variant" /\ outcome'.kind = "Api" /\ outcome'.of = read.of
          \/ /\ read.as = "decode" /\ outcome'.of = read.of
             /\ \/ outcome'.kind \in {"Ok", "Decode"}
                \/ outcome'.kind = "Api" /\ ~ IsSuccess(reply.status)
      BY <1>4 DEF Classify, End, Capped, Outcome
    <2>4. ReadAsDocumented'
      BY <2>1, <2>2, <2>3 DEF ReadRightly, ReadAsDocumented, Reading
    <2> QED
      BY <2>1, <2>4 DEF DocumentedInv
  <1>5. CASE UNCHANGED allVars
    BY <1>5 DEF allVars, DocumentedInv, ReadAsDocumented
  <1> QED
    BY <1>1, <1>2, <1>3, <1>4, <1>5 DEF CallNext, Finished

\* For any responses an operation documents, a response is read as what
\* documents its status and never as another of them (ir/responses.rs,
\* codegen/dispatch.rs).
THEOREM ReadsWhatIsDocumented == CallSpec => []ReadAsDocumented
  <1>1. CallInit => DocumentedInv
    BY DEF CallInit, Outcome, DocumentedInv, ReadAsDocumented
  <1>2. DocumentedInv => ReadAsDocumented
    BY DEF DocumentedInv
  <1> QED
    BY <1>1, <1>2, NextDocumented, PTL DEF CallSpec

-----------------------------------------------------------------------------
(* The pages of a list (LinkPaginator), for every set of pages and fragments. *)

\* A page not remembered was not requested; nothing is armed while a response is
\* awaited, nor after an error; between calls the paginator is armed exactly when
\* the latest page has a link.
Remembered == \A p \in Pages : p \notin fetched => requests[p] = 0
Disarmed == /\ pc = "sent" => next = NoUrl
            /\ failed => next = NoUrl /\ pc = "idle"
Armed == pc = "idle" /\ ~ cancelled /\ ~ failed => (next # NoUrl) = linked

PagedInv ==
  /\ PaginatorTypeOK /\ NoPageTwice /\ NoneMeansTheEnd
  /\ Remembered /\ Disarmed /\ Armed

\* The URL that stands for none is no URL.
LEMMA NoUrlIsNone == NoUrl \notin Url
  BY DEF NoUrl, Url

\* PagedInv holds at first.
LEMMA InitPaged == PaginatorInit => PagedInv
  <1> SUFFICES ASSUME PaginatorInit PROVE PagedInv
    OBVIOUS
  <1> USE NoUrlIsNone DEF PaginatorInit
  <1>1. PaginatorTypeOK
    <2>1. requests \in [Pages -> 0..2]
      OBVIOUS
    <2>2. linked \in BOOLEAN
      BY Zenon
    <2>3. (pc = "sent") = (url # NoUrl)
      OBVIOUS
    <2> QED
      BY <2>1, <2>2, <2>3 DEF PaginatorTypeOK, Answers
  <1>2. NoPageTwice /\ Remembered
    BY DEF NoPageTwice, Remembered
  <1>3. NoneMeansTheEnd /\ Disarmed /\ Armed
    BY DEF NoneMeansTheEnd, Disarmed, Armed
  <1> QED
    BY <1>1, <1>2, <1>3 DEF PagedInv

\* Every step keeps it.
LEMMA NextPaged == PagedInv /\ [PaginatorNext]_paginator => PagedInv'
  <1> SUFFICES ASSUME PagedInv, [PaginatorNext]_paginator PROVE PagedInv'
    OBVIOUS
  <1> USE NoUrlIsNone
  <1>u. \A u \in Url : u.page \in Pages
    BY DEF Url
  <1>1. CASE NextPageNone
    <2> USE <1>1 DEF NextPageNone, Answer, PagedInv
    <2>1. PaginatorTypeOK'
      BY DEF PaginatorTypeOK, Answers
    <2>2. NoPageTwice' /\ Remembered'
      BY DEF NoPageTwice, Remembered
    <2>3. NoneMeansTheEnd' /\ Disarmed' /\ Armed'
      BY DEF NoneMeansTheEnd, Disarmed, Armed
    <2> QED
      BY <2>1, <2>2, <2>3
  <1>2. CASE NextPageCycle
    <2> USE <1>2 DEF NextPageCycle, Answer, PagedInv
    <2>1. PaginatorTypeOK'
      BY DEF PaginatorTypeOK, Answers
    <2>2. NoPageTwice' /\ Remembered'
      BY DEF NoPageTwice, Remembered
    <2>3. NoneMeansTheEnd' /\ Disarmed' /\ Armed'
      BY DEF NoneMeansTheEnd, Disarmed, Armed
    <2> QED
      BY <2>1, <2>2, <2>3
  <1>3. CASE NextPageUnbuilt
    <2> USE <1>3, <1>u DEF NextPageUnbuilt, Answer, PagedInv
    <2>1. PaginatorTypeOK'
      BY DEF PaginatorTypeOK, Answers
    <2>2. NoPageTwice' /\ Remembered'
      BY DEF NoPageTwice, Remembered
    <2>3. NoneMeansTheEnd' /\ Disarmed' /\ Armed'
      BY DEF NoneMeansTheEnd, Disarmed, Armed
    <2> QED
      BY <2>1, <2>2, <2>3
  <1>4. CASE NextPageSend
    <2> USE <1>4, <1>u DEF NextPageSend, Count, PagedInv
    <2>0. next \in Url /\ next.page \in Pages /\ next.page \notin fetched
      BY DEF PaginatorTypeOK, Cycle
    <2>1. PaginatorTypeOK'
      BY <2>0 DEF PaginatorTypeOK, Answers
    <2>2. requests[next.page] = 0
      BY <2>0 DEF Remembered
    <2>3. NoPageTwice' /\ Remembered'
      BY <2>0, <2>2 DEF NoPageTwice, Remembered, PaginatorTypeOK
    <2>4. NoneMeansTheEnd' /\ Disarmed' /\ Armed'
      BY DEF NoneMeansTheEnd, Disarmed, Armed
    <2> QED
      BY <2>1, <2>3, <2>4
  <1>5. CASE ResponseFails
    <2> USE <1>5 DEF ResponseFails, Answer, PagedInv
    <2>1. PaginatorTypeOK'
      BY DEF PaginatorTypeOK, Answers
    <2>2. NoPageTwice' /\ Remembered'
      BY DEF NoPageTwice, Remembered
    <2>3. NoneMeansTheEnd' /\ Disarmed' /\ Armed'
      BY DEF NoneMeansTheEnd, Disarmed, Armed
    <2> QED
      BY <2>1, <2>2, <2>3
  <1>6. CASE ResponsePage
    <2> USE <1>6 DEF ResponsePage, Answer, PagedInv
    <2>1. PaginatorTypeOK'
      BY DEF PaginatorTypeOK, Answers
    <2>2. NoPageTwice' /\ Remembered'
      BY DEF NoPageTwice, Remembered
    <2>3. NoneMeansTheEnd' /\ Disarmed' /\ Armed'
      BY DEF NoneMeansTheEnd, Disarmed, Armed
    <2> QED
      BY <2>1, <2>2, <2>3
  <1>7. CASE Cancel
    <2> USE <1>7 DEF Cancel, PagedInv
    <2>1. PaginatorTypeOK'
      BY DEF PaginatorTypeOK, Answers
    <2>2. NoPageTwice' /\ Remembered'
      BY DEF NoPageTwice, Remembered
    <2>3. NoneMeansTheEnd' /\ Disarmed' /\ Armed'
      BY DEF NoneMeansTheEnd, Disarmed, Armed
    <2> QED
      BY <2>1, <2>2, <2>3
  <1>8. CASE UNCHANGED paginator
    BY <1>8 DEF paginator, PagedInv, PaginatorTypeOK, NoPageTwice,
                NoneMeansTheEnd, Remembered, Disarmed, Armed
  <1> QED
    BY <1>1, <1>2, <1>3, <1>4, <1>5, <1>6, <1>7, <1>8 DEF PaginatorNext

\* The invariant holds in every reachable state.
THEOREM PaginatorInvariant == PaginatorSpec => []PagedInv
  BY InitPaged, NextPaged, PTL DEF PaginatorSpec

\* The variables keep their types.
THEOREM PaginatorTypeCorrect == PaginatorSpec => []PaginatorTypeOK
  <1>1. PagedInv => PaginatorTypeOK
    BY DEF PagedInv
  <1> QED
    BY <1>1, PaginatorInvariant, PTL

\* next_page requests no page twice, whatever a server of any number of pages links.
THEOREM PagesRequestedOnce == PaginatorSpec => []NoPageTwice
  <1>1. PagedInv => NoPageTwice
    BY DEF PagedInv
  <1> QED
    BY <1>1, PaginatorInvariant, PTL

\* Awaited to its end, next_page answers None only at the end or after an error.
THEOREM NothingDropped == PaginatorSpec => []NoneMeansTheEnd
  <1>1. PagedInv => NoneMeansTheEnd
    BY DEF PagedInv
  <1> QED
    BY <1>1, PaginatorInvariant, PTL

\* After an error next_page requests and yields nothing.
THEOREM ErrorsEndTheChain == PaginatorSpec => ErrorsAreFinal
  <1>1. PagedInv /\ [PaginatorNext]_paginator
          => [failed => answered' = "none" /\ requests' = requests]_paginator
    <2> SUFFICES ASSUME PagedInv, PaginatorNext, failed
                 PROVE  answered' = "none" /\ requests' = requests
      OBVIOUS
    <2>1. next = NoUrl /\ pc = "idle"
      BY DEF PagedInv, Disarmed
    <2>2. NextPageNone
      BY <2>1 DEF PaginatorNext, NextPageCycle, NextPageUnbuilt,
                  NextPageSend, ResponseFails,
                  ResponsePage, Cancel
    <2> QED
      BY <2>2 DEF NextPageNone, Answer
  <1> QED
    BY <1>1, PaginatorInvariant, PTL DEF PaginatorSpec, ErrorsAreFinal
-----------------------------------------------------------------------------
(* Event streams.                                                            *)

\* Between a reconnect the policy granted and its request the attempt is one
\* ahead; nothing is buffered from then until the new body.
Counted ==
  /\ state \in {"body", "eof", "waiting", "connecting", "done"}
  /\ attempts \in Nat /\ fruitless \in Int
  /\ state \in {"waiting", "connecting"} => buffer = <<>>
  /\ state = "waiting" => fruitless = attempts - 1
  /\ state \in {"body", "eof", "connecting"} => fruitless = attempts
  /\ fruitless \in {attempts - 1, attempts}

\* Of nothing no frame can be made.
LEMMA NothingToFrame == buffer = <<>> => FrameLength = 0
  BY DEF FrameLength, Ends

\* A frame comes from a connection or what it left.
LEMMA FramesAreRead == Counted /\ state # "done" /\ ~ NeedMore => state \in {"body", "eof"}
  BY NothingToFrame DEF Counted, NeedMore

\* Every step keeps it.
LEMMA NextCounted == Counted /\ [StreamNext]_streamVars => Counted'
  <1> SUFFICES ASSUME Counted, [StreamNext]_streamVars PROVE Counted'
    OBVIOUS
  <1> USE DEF Counted, server, streamHistory
  <1>1. CASE FrameItem
    BY <1>1, FramesAreRead DEF FrameItem
  <1>2. CASE FrameMetadata
    BY <1>2, FramesAreRead DEF FrameMetadata
  <1>3. CASE FrameDone
    BY <1>3 DEF FrameDone
  <1>4. CASE Overflow
    BY <1>4 DEF Overflow
  <1>5. CASE ReadChunk
    BY <1>5 DEF ReadChunk, Waits
  <1>6. CASE ReadFails
    BY <1>6 DEF ReadFails, Waits, ScheduleReconnect
  <1>7. CASE ReadEnds
    BY <1>7 DEF ReadEnds, Waits
  <1>8. CASE EndOfStream
    BY <1>8 DEF EndOfStream, Waits, ScheduleReconnect
  <1>9. CASE WaitOver
    BY <1>9 DEF WaitOver, Waits
  <1>10. CASE Connected
    BY <1>10 DEF Connected, Waits
  <1>11. CASE ConnectFails
    BY <1>11 DEF ConnectFails, Waits, ScheduleReconnect
  <1>12. CASE UNCHANGED streamVars
    BY <1>12 DEF streamVars
  <1> QED
    BY <1>1, <1>2, <1>3, <1>4, <1>5, <1>6, <1>7, <1>8, <1>9, <1>10, <1>11, <1>12
       DEF StreamNext, PollAfterEnd

\* Whatever the server sends and wherever its connections break, the attempt the
\* policy is told counts the requests sent again since an item last decoded.
THEOREM AttemptsAreCounted == StreamSpec => []AttemptsCountTheFruitless
  <1>1. StreamInit => Counted
    BY DEF StreamInit, Counted
  <1>2. Counted => AttemptsCountTheFruitless
    BY DEF Counted, AttemptsCountTheFruitless
  <1> QED
    BY <1>1, <1>2, NextCounted, PTL DEF StreamSpec

-----------------------------------------------------------------------------
\* f[i] is the first i sequences, one after the other.
Flat(seqs, f, n) == f = [i \in 1..n |-> IF i = 1 THEN seqs[i] ELSE f[i-1] \o seqs[i]]

\* The recursive function by which FlattenSeq is defined exists, so it is the one
\* chosen.
LEMMA FlatExists ==
  ASSUME NEW seqs, NEW m \in Nat
  PROVE  \E f : Flat(seqs, f, m)
  <1> DEFINE S == {n \in Nat : \E f : Flat(seqs, f, n)}
  <1>1. 0 \in S
    <2>1. Flat(seqs, [i \in 1..0 |-> 0], 0)
      BY DEF Flat
    <2> QED BY <2>1
  <1>2. ASSUME NEW n \in S PROVE n + 1 \in S
    <2>1. PICK f : Flat(seqs, f, n)
      OBVIOUS
    <2> DEFINE g == [i \in 1..n+1 |-> IF i \in 1..n THEN f[i]
                                     ELSE IF i = 1 THEN seqs[i] ELSE f[i-1] \o seqs[i]]
    <2>2. ASSUME NEW i \in 1..n+1 PROVE g[i] = IF i = 1 THEN seqs[i] ELSE g[i-1] \o seqs[i]
      <3>1. CASE i \in 1..n
        <4>1. f[i] = IF i = 1 THEN seqs[i] ELSE f[i-1] \o seqs[i]
          BY <2>1, <3>1 DEF Flat
        <4> QED BY <4>1, <3>1
      <3>2. CASE i = n + 1
        BY <3>2
      <3> QED BY <3>1, <3>2
    <2> DEFINE h == [i \in 1..n+1 |-> IF i = 1 THEN seqs[i] ELSE g[i-1] \o seqs[i]]
    <2>3. g = h
      BY <2>2
    <2>4. Flat(seqs, g, n + 1)
      BY <2>3 DEF Flat
    <2> QED BY <2>4
  <1> HIDE DEF S
  <1>3. S = Nat
    BY <1>1, <1>2, SetInduction DEF S
  <1> QED
    BY <1>3 DEF S

\* FlattenSeq is the last value of such a function.
LEMMA FlattenSeqIs ==
  ASSUME NEW seqs, Len(seqs) \in Nat \ {0}
  PROVE  \E f : Flat(seqs, f, Len(seqs)) /\ FlattenSeq(seqs) = f[Len(seqs)]
  <1>1. PICK f : Flat(seqs, f, Len(seqs))
    BY FlatExists
  <1> DEFINE g == CHOOSE g : g = [i \in 1..Len(seqs) |->
                                    IF i = 1 THEN seqs[i] ELSE g[i-1] \o seqs[i]]
  <1>2. Flat(seqs, g, Len(seqs))
    BY <1>1, Zenon DEF Flat
  <1>3. FlattenSeq(seqs) = g[Len(seqs)]
    BY Zenon DEF FlattenSeq
  <1> QED
    BY <1>2, <1>3

\* A set of numbers that is not empty has a smallest one.
LEMMA SmallestExists ==
  ASSUME NEW S \in SUBSET Nat, S # {}
  PROVE  \E m \in S : \A n \in S : m <= n
  <1>1. PICK x \in S : \A y \in S : ~ (<<y, x>> \in OpToRel(<, Nat))
    BY NatLessThanWellFounded, WFMin
  <1>2. \A y \in S : ~ (y < x)
    BY <1>1, Zenon DEF OpToRel
  <1> QED
    BY <1>2

\* Induction over an interval.
LEMMA IntervalInduction ==
  ASSUME NEW n \in Nat, NEW S, n > 0 => 1 \in S,
         \A i \in 2..n : i - 1 \in S => i \in S
  PROVE  \A i \in 1..n : i \in S
  <1> DEFINE T == {m \in Nat : m \in 1..n => m \in S}
  <1>1. 0 \in T
    OBVIOUS
  <1>2. ASSUME NEW m \in T PROVE m + 1 \in T
    <2>1. SUFFICES ASSUME m + 1 \in 1..n PROVE m + 1 \in S
      OBVIOUS
    <2>2. CASE m = 0
      BY <2>1, <2>2
    <2>3. CASE m # 0
      <3>1. m \in S /\ m + 1 \in 2..n /\ (m + 1) - 1 = m
        BY <2>1, <2>3
      <3> QED BY <3>1
    <2> QED BY <2>2, <2>3
  <1>3. T = Nat
    <2> HIDE DEF T
    <2> QED BY <1>1, <1>2, SetInduction DEF T
  <1> QED
    BY <1>3

\* Its values are sequences over what the sequences are over.
LEMMA FlatType ==
  ASSUME NEW X, NEW seqs \in Seq(Seq(X)), NEW n \in Nat, n = Len(seqs), NEW f, Flat(seqs, f, n)
  PROVE  \A i \in 1..n : f[i] \in Seq(X)
  <1> DEFINE S == {i \in 1..n : f[i] \in Seq(X)}
  <1>1. \A i \in 1..n : f[i] = IF i = 1 THEN seqs[i] ELSE f[i - 1] \o seqs[i]
    BY Zenon DEF Flat
  <1>2. \A i \in 1..n : seqs[i] \in Seq(X)
    OBVIOUS
  <1>3. n > 0 => 1 \in S
    BY <1>1, <1>2
  <1>4. ASSUME NEW i \in 2..n, i - 1 \in S PROVE i \in S
    <2>1. i \in 1..n /\ i # 1
      OBVIOUS
    <2>2. f[i] = f[i - 1] \o seqs[i]
      BY <1>1, <2>1, Zenon
    <2>3. PICK b \in Seq(X), c \in Seq(X) : b = f[i - 1] /\ c = seqs[i]
      BY <1>2, <1>4, <2>1
    <2>4. b \o c \in Seq(X)
      OBVIOUS
    <2> QED BY <2>1, <2>2, <2>3, <2>4
  <1>5. \A i \in 1..n : i \in S
    <2> HIDE DEF S
    <2> QED BY <1>3, <1>4, IntervalInduction
  <1> QED
    BY <1>5

\* Concatenation is associative.
LEMMA ConcatAssoc ==
  ASSUME NEW X, NEW r \in Seq(X), NEW s \in Seq(X), NEW t \in Seq(X)
  PROVE  (r \o s) \o t = r \o (s \o t)
  OBVIOUS

\* f flattens a, then what g flattens.
Shifted(X, n, seqs, f, g, a) ==
  /\ f[2] = a \o g[1]
  /\ \A i \in 2..n : f[i + 1] = f[i] \o seqs[i + 1]
  /\ \A i \in 2..n : g[i] = g[i - 1] \o seqs[i + 1]
  /\ \A i \in 1..n : g[i] \in Seq(X)
  /\ \A i \in 1..n : seqs[i + 1] \in Seq(X)

\* The functions of a sequence and of its tail differ by the head.
LEMMA FlatShift ==
  ASSUME NEW X, NEW n \in Nat, NEW seqs, NEW f, NEW g, NEW a \in Seq(X),
         Shifted(X, n, seqs, f, g, a)
  PROVE  \A k \in 1..n : f[k + 1] = a \o g[k]
  <1> DEFINE S == {k \in 1..n : f[k + 1] = a \o g[k]}
  <1>1. n > 0 => 1 \in S
    BY DEF Shifted
  <1>2. ASSUME NEW k \in 2..n, k - 1 \in S PROVE k \in S
    <2>1. k \in 1..n /\ k - 1 \in 1..n /\ (k - 1) + 1 = k
      OBVIOUS
    <2>2. f[k] = a \o g[k - 1]
      BY <1>2, <2>1
    <2>3. f[k + 1] = f[k] \o seqs[k + 1]
      BY Zenon DEF Shifted
    <2>4. g[k] = g[k - 1] \o seqs[k + 1]
      BY Zenon DEF Shifted
    <2>5. PICK b \in Seq(X), c \in Seq(X) : b = g[k - 1] /\ c = seqs[k + 1]
      BY <2>1, Zenon DEF Shifted
    <2>6. (a \o b) \o c = a \o (b \o c)
      BY ConcatAssoc
    <2>7. f[k + 1] = a \o g[k]
      BY <2>2, <2>3, <2>4, <2>5, <2>6, Zenon
    <2> QED BY <2>1, <2>7
  <1>3. \A k \in 1..n : k \in S
    <2> HIDE DEF S
    <2> QED BY <1>1, <1>2, IntervalInduction
  <1> QED
    BY <1>3

\* Flattening is the head, then the flattened tail.
LEMMA FlattenCons ==
  ASSUME NEW X, NEW seqs \in Seq(Seq(X)), seqs # <<>>
  PROVE  /\ FlattenSeq(seqs) = seqs[1] \o FlattenSeq(Tail(seqs))
         /\ FlattenSeq(Tail(seqs)) \in Seq(X)
  <1>1. PICK n \in Nat \ {0} : Len(seqs) = n
    OBVIOUS
  <1>2. PICK others \in Seq(Seq(X)) : /\ others = Tail(seqs) /\ Len(others) = n - 1
                                    /\ \A i \in 1..n-1 : others[i] = seqs[i + 1]
    <2>1. Tail(seqs) \in Seq(Seq(X)) /\ Len(Tail(seqs)) = n - 1
      BY <1>1
    <2>2. \A i \in 1..n-1 : Tail(seqs)[i] = seqs[i + 1]
      BY <1>1
    <2> QED BY <2>1, <2>2, Zenon
  <1>3. PICK f : Flat(seqs, f, n) /\ FlattenSeq(seqs) = f[n]
    BY <1>1, FlattenSeqIs
  <1>4. \A i \in 1..n : f[i] = IF i = 1 THEN seqs[i] ELSE f[i - 1] \o seqs[i]
    BY <1>3, Zenon DEF Flat
  <1>5. seqs[1] \in Seq(X) /\ \A i \in 1..n-1 : seqs[i + 1] \in Seq(X)
    BY <1>1
  <1>6. CASE n = 1
    <2>1. others = <<>>
      <3>1. Len(others) = 0
        BY <1>2, <1>6
      <3> QED BY <3>1
    <2>2. FlattenSeq(others) = <<>>
      BY <2>1, Zenon DEF FlattenSeq
    <2>3. f[1] = seqs[1]
      BY <1>4, <1>6
    <2> QED BY <1>2, <1>3, <1>5, <1>6, <2>2, <2>3
  <1>7. CASE n # 1
    <2>0. n - 1 \in Nat \ {0} /\ (n - 1) + 1 = n /\ n - 1 \in 1..n-1
      BY <1>7
    <2>1. PICK g : Flat(others, g, n - 1) /\ FlattenSeq(others) = g[n - 1]
      BY <1>2, <2>0, FlattenSeqIs
    <2>2. \A i \in 1..n-1 : g[i] = IF i = 1 THEN others[i] ELSE g[i - 1] \o others[i]
      BY <2>1, Zenon DEF Flat
    <2>3. \A i \in 2..n-1 : g[i] = g[i - 1] \o seqs[i + 1]
      <3> TAKE i \in 2..n-1
      <3>1. i \in 1..n-1 /\ i # 1
        OBVIOUS
      <3> QED BY <1>2, <2>2, <3>1, Zenon
    <2>4. \A i \in 1..n-1 : g[i] \in Seq(X)
      BY <1>2, <2>0, <2>1, FlatType
    <2>5. \A i \in 2..n-1 : f[i + 1] = f[i] \o seqs[i + 1]
      <3> TAKE i \in 2..n-1
      <3>1. i + 1 \in 1..n /\ i + 1 # 1 /\ (i + 1) - 1 = i
        OBVIOUS
      <3>2. f[i + 1] = f[(i + 1) - 1] \o seqs[i + 1]
        BY <1>4, <3>1, Zenon
      <3> QED BY <3>1, <3>2, Zenon
    <2>6. f[2] = seqs[1] \o g[1]
      <3>1. f[1] = seqs[1]
        BY <1>4, <2>0
      <3>2. f[2] = f[1] \o seqs[2]
        <4>1. 2 \in 1..n /\ 2 - 1 = 1 /\ 2 # 1
          BY <2>0
        <4>2. f[2] = IF 2 = 1 THEN seqs[2] ELSE f[2 - 1] \o seqs[2]
          BY <1>4, <4>1, Zenon
        <4> QED BY <4>1, <4>2, Zenon
      <3>3. g[1] = seqs[2]
        <4>1. 1 \in 1..n-1 /\ 1 + 1 = 2
          BY <2>0
        <4> QED BY <1>2, <2>2, <4>1
      <3> QED BY <3>1, <3>2, <3>3
    <2>7. \A k \in 1..n-1 : f[k + 1] = seqs[1] \o g[k]
      <3>1. PICK a \in Seq(X), m \in Nat : a = seqs[1] /\ m = n - 1
        BY <1>5, <2>0
      <3>2. \A i \in 1..m : seqs[i + 1] \in Seq(X)
        BY <1>5, <3>1
      <3>3. \A k \in 1..m : f[k + 1] = a \o g[k]
        <4>1. f[2] = a \o g[1]
          BY <2>6, <3>1
        <4>2. \A i \in 2..m : f[i + 1] = f[i] \o seqs[i + 1]
          BY <2>5, <3>1, Zenon
        <4>3. \A i \in 2..m : g[i] = g[i - 1] \o seqs[i + 1]
          BY <2>3, <3>1, Zenon
        <4>4. \A i \in 1..m : g[i] \in Seq(X)
          BY <2>4, <3>1, Zenon
        <4>5. Shifted(X, m, seqs, f, g, a)
          BY <3>2, <4>1, <4>2, <4>3, <4>4, Zenon DEF Shifted
        <4> QED BY <4>5, FlatShift, SMTT(30)
      <3> QED BY <3>1, <3>3, Zenon
    <2>8. f[n] = seqs[1] \o g[n - 1] /\ g[n - 1] \in Seq(X)
      BY <2>0, <2>4, <2>7
    <2> QED BY <1>2, <1>3, <2>1, <2>8
  <1> QED
    BY <1>6, <1>7

-----------------------------------------------------------------------------
\* A line as the server sends it, one that was read, and the lines of event e.
Line == [event : Events, line : {"id", "data", "end"}]
Read == [event : Events, line : {"id", "data", "end"}, conn : {0, 1}]
Sent(e) == [i \in DOMAIN Lines(e) |-> [event |-> e, line |-> Lines(e)[i]]]

\* What is buffered and what is still to come are the wire after event k, every
\* event up to k was framed, and the ids among them were kept.
InStep(k) ==
  /\ k \in 0..NumEvents /\ lastId <= k
  /\ \A e \in numbered : e <= k => e <= lastId
  /\ \A e \in Data : e <= k => yielded[e] > 0
  /\ Len(buffer) + Len(rest) = Len(Wire(k))
  /\ \A i \in 1..Len(buffer) : /\ buffer[i].event = Wire(k)[i].event
                               /\ buffer[i].line = Wire(k)[i].line
  /\ \A i \in 1..Len(rest) : rest[i] = Wire(k)[Len(buffer) + i]

\* The types the steps below need.
Typed ==
  /\ state \in {"body", "eof", "waiting", "connecting", "done"}
  /\ buffer \in Seq(Read)
  /\ rest \in Seq(Line)
  /\ lastId \in 0..NumEvents
  /\ conn \in {0, 1}
  /\ numbered \subseteq Events
  /\ yielded \in [Events -> 0..2]
  /\ foreign \in BOOLEAN

\* Where the stream stands among the events of the server.
Placed ==
  /\ state \in {"eof", "waiting", "connecting"} => buffer = <<>>
  /\ state \in {"body", "connecting"} => \E k \in 0..NumEvents : InStep(k)
  /\ state # "done" => \A e \in Data : e <= lastId => yielded[e] > 0
  /\ \A e \in numbered : yielded[e] > 0 => e <= lastId

\* The invariant that is inductive.
StreamInv == Typed /\ Placed /\ InOrderOnce /\ NoConcatenation

\* An event's lines: its id, its data, its end.
LEMMA LinesAre ==
  ASSUME NEW e \in Events
  PROVE  /\ Lines(e) \in Seq({"id", "data", "end"})
         /\ Len(DataOf(e)) \in {0, 1, 3}
         /\ Len(Lines(e)) = (IF e \in numbered THEN 1 ELSE 0) + Len(DataOf(e)) + 1
         /\ \A i \in 1..Len(Lines(e)) :
              Lines(e)[i] = IF e \in numbered /\ i = 1 THEN "id"
                            ELSE IF i = Len(Lines(e)) THEN "end" ELSE "data"
  <1>1. DataOf(e) \in {<<>>, <<"data">>, <<"data", "data", "data">>}
    BY DEF DataOf
  <1>2. CASE e \in numbered
    <2>1. Lines(e) = <<"id">> \o DataOf(e) \o <<"end">>
      BY <1>2 DEF Lines
    <2>2. CASE DataOf(e) = <<>>
      BY <2>1, <2>2, <1>2
    <2>3. CASE DataOf(e) = <<"data">>
      BY <2>1, <2>3, <1>2
    <2>4. CASE DataOf(e) = <<"data", "data", "data">>
      BY <2>1, <2>4, <1>2
    <2> QED BY <1>1, <2>2, <2>3, <2>4
  <1>3. CASE e \notin numbered
    <2>1. Lines(e) = <<>> \o DataOf(e) \o <<"end">>
      BY <1>3 DEF Lines
    <2>2. CASE DataOf(e) = <<>>
      BY <2>1, <2>2, <1>3
    <2>3. CASE DataOf(e) = <<"data">>
      BY <2>1, <2>3, <1>3
    <2>4. CASE DataOf(e) = <<"data", "data", "data">>
      BY <2>1, <2>4, <1>3
    <2> QED BY <1>1, <2>2, <2>3, <2>4
  <1> QED
    BY <1>2, <1>3

\* The lines that are sent are those of the event, each marked with it.
LEMMA SentIs ==
  ASSUME NEW e \in Events
  PROVE  /\ Sent(e) \in Seq(Line) /\ Len(Sent(e)) = Len(Lines(e))
         /\ \A i \in 1..Len(Lines(e)) : Sent(e)[i] = [event |-> e, line |-> Lines(e)[i]]
  <1>1. PICK lines \in Seq({"id", "data", "end"}) : lines = Lines(e)
    BY LinesAre
  <1>2. Sent(e) = [i \in 1..Len(lines) |-> [event |-> e, line |-> lines[i]]]
    BY <1>1 DEF Sent
  <1>3. \A i \in 1..Len(lines) : [event |-> e, line |-> lines[i]] \in Line
    BY DEF Line
  <1> QED
    BY <1>1, <1>2, <1>3

\* What is sent after event k is event k + 1, then what is sent after that.
LEMMA WireCons ==
  ASSUME NEW k \in 0..NumEvents, k # NumEvents
  PROVE  Wire(k) = Sent(k + 1) \o Wire(k + 1) /\ Wire(k + 1) \in Seq(Line)
  <1>0. NumEvents \in Nat
    BY StreamAssumption
  <1> DEFINE seqs == [j \in 1..NumEvents - k |-> Sent(k + j)]
             tail == [j \in 1..NumEvents - (k + 1) |-> Sent(k + 1 + j)]
  <1>1. \A j \in 1..NumEvents - k : k + j \in Events
    BY <1>0 DEF Events
  <1>2. seqs \in Seq(Seq(Line)) /\ seqs # <<>> /\ seqs[1] = Sent(k + 1)
    <2>1. \A j \in 1..NumEvents - k : Sent(k + j) \in Seq(Line)
      BY <1>1, SentIs
    <2>2. NumEvents - k \in Nat /\ NumEvents - k >= 1
      BY <1>0
    <2>3. seqs \in [1..NumEvents - k -> Seq(Line)]
      BY <2>1
    <2>4. seqs \in Seq(Seq(Line)) /\ Len(seqs) = NumEvents - k
      <3> HIDE DEF seqs
      <3> QED BY <2>2, <2>3
    <2>5. seqs[1] = Sent(k + 1)
      BY <2>2
    <2> QED BY <2>2, <2>4, <2>5
  <1>3. Tail(seqs) = tail
    BY <1>0
  <1>4. FlattenSeq(seqs) = seqs[1] \o FlattenSeq(Tail(seqs)) /\ FlattenSeq(Tail(seqs)) \in Seq(Line)
    <2> HIDE DEF seqs
    <2> QED BY <1>2, FlattenCons
  <1>5. Wire(k) = FlattenSeq(seqs) /\ Wire(k + 1) = FlattenSeq(tail)
    BY DEF Wire, Sent
  <1> QED
    BY <1>2, <1>3, <1>4, <1>5

\* After the last event nothing is sent.
LEMMA WireEnds == Wire(NumEvents) = <<>>
  <1>1. [j \in 1..NumEvents - NumEvents |-> Sent(NumEvents + j)] = <<>>
    BY StreamAssumption
  <1>2. Wire(NumEvents) = FlattenSeq(<<>>)
    BY <1>1 DEF Wire, Sent
  <1> QED
    BY <1>2 DEF FlattenSeq

\* What is sent is lines.
LEMMA WireType == \A k \in 0..NumEvents : Wire(k) \in Seq(Line)
  <1> SUFFICES ASSUME NEW k \in 0..NumEvents PROVE Wire(k) \in Seq(Line)
    OBVIOUS
  <1>1. CASE k = NumEvents
    BY <1>1, WireEnds
  <1>2. CASE k # NumEvents
    <2>1. k + 1 \in Events
      BY <1>2, StreamAssumption DEF Events
    <2>2. PICK s \in Seq(Line), t \in Seq(Line) : Wire(k) = s \o t
      BY <1>2, <2>1, WireCons, SentIs
    <2> QED BY <2>2
  <1> QED
    BY <1>1, <1>2

\* The wire after event k: event k + 1, line by line, then the wire after it.
LEMMA WireIs ==
  ASSUME NEW k \in 0..NumEvents, k # NumEvents
  PROVE  /\ k + 1 \in Events /\ k + 1 \in 0..NumEvents
         /\ Len(Wire(k)) = Len(Lines(k + 1)) + Len(Wire(k + 1))
         /\ \A i \in 1..Len(Lines(k + 1)) :
              Wire(k)[i] = [event |-> k + 1, line |-> Lines(k + 1)[i]]
         /\ \A i \in 1..Len(Wire(k + 1)) :
              Wire(k)[Len(Lines(k + 1)) + i] = Wire(k + 1)[i]
  <1>1. k + 1 \in Events /\ k + 1 \in 0..NumEvents
    BY StreamAssumption DEF Events
  <1>2. PICK s \in Seq(Line), t \in Seq(Line) :
          s = Sent(k + 1) /\ t = Wire(k + 1) /\ Wire(k) = s \o t
    BY <1>1, SentIs, WireCons
  <1>3. /\ Len(s \o t) = Len(s) + Len(t)
        /\ \A i \in 1..Len(s) : (s \o t)[i] = s[i]
        /\ \A i \in 1..Len(t) : (s \o t)[Len(s) + i] = t[i]
    OBVIOUS
  <1> QED
    BY <1>1, <1>2, <1>3, SentIs

-----------------------------------------------------------------------------
\* A frame is the lines of the event after those framed, all of them.
Framed(k) ==
  /\ k \in 0..NumEvents /\ k # NumEvents /\ InStep(k)
  /\ FrameLength = Len(Lines(k + 1)) /\ FrameLength <= Len(buffer)
  /\ FrameLength \in Nat \ {0}
  /\ \A i \in 1..FrameLength : /\ Frame[i].event = k + 1
                               /\ Frame[i].line = Lines(k + 1)[i]

\* Only a body that is read yields frames, and each is one event.
LEMMA FrameIsAnEvent ==
  ASSUME Typed, Placed, state # "done", ~ NeedMore
  PROVE  state = "body" /\ \E k \in 0..NumEvents : Framed(k)
  <1>1. buffer # <<>>
    BY NothingToFrame DEF NeedMore
  <1>2. state = "body"
    BY <1>1 DEF Typed, Placed
  <1>3. PICK k \in 0..NumEvents : InStep(k)
    BY <1>2 DEF Placed
  <1>4. Ends # {}
    BY <1>2 DEF NeedMore, FrameLength
  <1>5. PICK f \in Ends : f = FrameLength /\ \A j \in Ends : f <= j
    <2>1. FrameLength = CHOOSE i \in Ends : \A j \in Ends : i <= j
      BY <1>4 DEF FrameLength
    <2>2. Ends \in SUBSET Nat
      BY DEF Ends, Typed
    <2>3. \E i \in Ends : \A j \in Ends : i <= j
      BY <1>4, <2>2, SmallestExists
    <2> QED BY <2>1, <2>3
  <1>6. f \in 1..Len(buffer) /\ buffer[f].line = "end" /\ Len(buffer) \in Nat /\ Len(rest) \in Nat
    BY <1>5 DEF Ends, Typed
  <1>7. k # NumEvents
    <2>1. Len(Wire(k)) # 0
      BY <1>3, <1>6 DEF InStep
    <2> QED BY <2>1, WireEnds
  <1> DEFINE L == Len(Lines(k + 1))
  <1>8. /\ k + 1 \in Events /\ L \in Nat \ {0}
        /\ Lines(k + 1)[L] = "end" /\ \A i \in 1..L - 1 : Lines(k + 1)[i] # "end"
    <2>1. PICK e \in Events : e = k + 1
      BY <1>7, WireIs
    <2>2. Len(Lines(e)) \in Nat \ {0}
      BY LinesAre
    <2>3. Lines(e)[Len(Lines(e))] = "end" /\ \A i \in 1..Len(Lines(e)) - 1 : Lines(e)[i] # "end"
      BY <2>2, LinesAre
    <2> QED BY <2>1, <2>2, <2>3
  <1>9. \A i \in 1..L : Wire(k)[i].event = k + 1 /\ Wire(k)[i].line = Lines(k + 1)[i]
    <2> TAKE i \in 1..L
    <2>1. Wire(k)[i] = [event |-> k + 1, line |-> Lines(k + 1)[i]]
      BY <1>7, WireIs
    <2> QED BY <2>1
  <1>10. \A i \in 1..Len(buffer) : i <= L =>
           buffer[i].event = k + 1 /\ buffer[i].line = Lines(k + 1)[i]
    BY <1>3, <1>6, <1>8, <1>9 DEF InStep
  <1>11. f = L
    <2>1. CASE f < L
      BY <1>6, <1>8, <1>10, <2>1
    <2>2. CASE f > L
      <3>1. L \in Ends
        BY <1>6, <1>8, <1>10, <2>2 DEF Ends
      <3> QED BY <1>5, <1>6, <1>8, <2>2, <3>1
    <2> QED BY <1>6, <1>8, <2>1, <2>2
  <1>12. \A i \in 1..f : Frame[i] = buffer[i]
    BY <1>5, <1>6 DEF Frame, Typed
  <1>13. Framed(k)
    BY <1>3, <1>5, <1>6, <1>7, <1>8, <1>10, <1>11, <1>12 DEF Framed
  <1> QED
    BY <1>2, <1>13

\* What such a frame says: its data is the payload of its event and of no other,
\* and the id it carries is that event's.
LEMMA FrameSays ==
  ASSUME Typed, NEW k \in 0..NumEvents, Framed(k)
  PROVE  /\ \A e \in Events : PayloadOf(e) <=> e = k + 1 /\ DataOf(k + 1) # <<>>
         /\ FrameId = IF k + 1 \in numbered THEN k + 1 ELSE 0
         /\ DataLines = {} <=> DataOf(k + 1) = <<>>
  <1>1. PICK e \in Events : e = k + 1
    BY WireIs DEF Framed
  <1>2. PICK L \in Nat \ {0} : L = FrameLength /\ L = Len(Lines(e))
    BY <1>1 DEF Framed
  <1>3. \A i \in 1..L : Frame[i].event = e /\ Frame[i].line = Lines(e)[i]
    BY <1>1, <1>2 DEF Framed
  <1>4. PICK d \in {0, 1, 3}, n \in {0, 1} :
          /\ d = Len(DataOf(e)) /\ n = IF e \in numbered THEN 1 ELSE 0
          /\ L = n + d + 1
    BY <1>2, LinesAre
  <1>5. \A i \in 1..L : Lines(e)[i] = IF i <= n THEN "id" ELSE IF i = L THEN "end" ELSE "data"
    BY <1>2, <1>4, LinesAre
  <1>6. DataLines = n + 1 .. n + d
    BY <1>2, <1>3, <1>4, <1>5 DEF DataLines
  <1>7. Cardinality(DataLines) = d
    <2>1. /\ n + 1 \in Int /\ n + d \in Int
          /\ d = IF n + 1 > n + d THEN 0 ELSE (n + d) - (n + 1) + 1
      BY <1>4
    <2> QED BY <1>6, <2>1, FS_Interval
  <1>8. EventsOf("data") = IF d = 0 THEN {} ELSE {e}
    BY <1>2, <1>3, <1>4, <1>6 DEF EventsOf, DataLines
  <1>9. DataOf(e) = <<>> <=> d = 0
    BY <1>4 DEF DataOf
  <1>10. \A x \in Events : PayloadOf(x) <=> x = e /\ d # 0
    BY <1>4, <1>7, <1>8 DEF PayloadOf
  <1>11. FrameId = IF n = 1 THEN e ELSE 0
    <2> DEFINE ids == {i \in 1..FrameLength : Frame[i].line = "id"}
    <2>1. ids = 1..n
      BY <1>2, <1>3, <1>4, <1>5
    <2>2. CASE n = 0
      BY <2>1, <2>2 DEF FrameId
    <2>3. CASE n = 1
      <3>1. ids = {1}
        BY <2>1, <2>3
      <3>2. (CHOOSE i \in ids : \A j \in ids : j <= i) = 1
        BY <3>1
      <3>3. FrameId = Frame[1].event
        BY <3>1, <3>2 DEF FrameId
      <3> QED BY <1>2, <1>3, <2>3, <3>3
    <2> QED BY <2>2, <2>3
  <1> QED
    <2>1. \A x \in Events : PayloadOf(x) <=> x = k + 1 /\ DataOf(k + 1) # <<>>
      BY <1>1, <1>9, <1>10
    <2>2. FrameId = IF k + 1 \in numbered THEN k + 1 ELSE 0
      BY <1>1, <1>4, <1>11
    <2>3. DataLines = {} <=> DataOf(k + 1) = <<>>
      <3>1. DataLines = {} <=> d = 0
        <4>1. CASE d = 0
          BY <1>4, <1>6, <4>1
        <4>2. CASE d # 0
          <5>1. n + 1 \in n + 1 .. n + d
            BY <1>4, <4>2
          <5> QED BY <1>6, <4>2, <5>1
        <4> QED BY <4>1, <4>2
      <3> QED BY <1>1, <1>9, <3>1
    <2> QED BY <2>1, <2>2, <2>3

\* The wire is what the server holds: it changes when the server does.
LEMMA WireStays == numbered' = numbered => \A k : Wire(k)' = Wire(k)
  BY DEF Wire, Lines

\* Once it is taken, the stream stands after its event, and the last id it knows
\* is at least what it was.
LEMMA FrameTaken ==
  ASSUME Typed, NEW k \in 0..NumEvents, Framed(k), ApplyMetadata
  PROVE  /\ lastId' \in 0..NumEvents /\ lastId <= lastId' /\ lastId' <= k + 1
         /\ \A e \in numbered : e <= k + 1 => e <= lastId'
  <1>1. FrameId = IF k + 1 \in numbered THEN k + 1 ELSE 0
    BY FrameSays
  <1>2. lastId' = IF k + 1 \in numbered THEN k + 1 ELSE lastId
    BY <1>1 DEF ApplyMetadata
  <1>3. /\ lastId \in 0..NumEvents /\ numbered \subseteq Events /\ NumEvents \in Nat
        /\ k # NumEvents /\ lastId <= k /\ \A e \in numbered : e <= k => e <= lastId
    BY StreamAssumption DEF Typed, Framed, InStep
  <1> QED
    BY <1>2, <1>3 DEF Events

\* What is left of a sequence without its first n elements.
LEMMA RestOfSeq ==
  ASSUME NEW S, NEW s \in Seq(S), NEW n \in Nat, n <= Len(s)
  PROVE  LET t == SubSeq(s, n + 1, Len(s)) IN
         t \in Seq(S) /\ Len(t) = Len(s) - n /\ \A i \in 1..Len(s) - n : t[i] = s[n + i]
  OBVIOUS

\* Without that frame the buffer and what is to come are the wire after its event.
LEMMA BufferAdvances ==
  ASSUME Typed, NEW k \in 0..NumEvents, Framed(k), Consume
  PROVE  /\ buffer' \in Seq(Read)
         /\ Len(buffer') + Len(rest) = Len(Wire(k + 1))
         /\ \A i \in 1..Len(buffer') : \E j \in 1..Len(buffer) : buffer'[i] = buffer[j]
         /\ \A i \in 1..Len(buffer') : /\ buffer'[i].event = Wire(k + 1)[i].event
                                       /\ buffer'[i].line = Wire(k + 1)[i].line
         /\ \A i \in 1..Len(rest) : rest[i] = Wire(k + 1)[Len(buffer') + i]
  <1>1. PICK L \in Nat \ {0}, b \in Seq(Read),
             r \in Seq(Line), v \in Seq(Line), w \in Seq(Line) :
          /\ L = FrameLength /\ L = Len(Lines(k + 1)) /\ b = buffer /\ r = rest
          /\ v = Wire(k) /\ w = Wire(k + 1)
    BY WireType, WireIs DEF Framed, Typed
  <1>2. L <= Len(b) /\ buffer' = SubSeq(b, L + 1, Len(b))
    BY <1>1 DEF Framed, Consume
  <1>3. /\ buffer' \in Seq(Read)
        /\ Len(buffer') = Len(b) - L /\ \A i \in 1..Len(b) - L : buffer'[i] = b[L + i]
    BY <1>2, RestOfSeq
  <1>4. /\ Len(b) + Len(r) = Len(v)
        /\ \A i \in 1..Len(b) : b[i].event = v[i].event /\ b[i].line = v[i].line
        /\ \A i \in 1..Len(r) : r[i] = v[Len(b) + i]
    BY <1>1 DEF Framed, InStep
  <1>5. Len(v) = L + Len(w) /\ \A i \in 1..Len(w) : v[L + i] = w[i]
    <2>1. /\ Len(Wire(k)) = Len(Lines(k + 1)) + Len(Wire(k + 1))
          /\ \A i \in 1..Len(Wire(k + 1)) : Wire(k)[Len(Lines(k + 1)) + i] = Wire(k + 1)[i]
      BY WireIs DEF Framed
    <2> QED BY <1>1, <2>1
  <1>6. \A i \in 1..Len(b) - L : b[L + i].event = w[i].event /\ b[L + i].line = w[i].line
    <2> TAKE i \in 1..Len(b) - L
    <2>1. L + i \in 1..Len(b) /\ i \in 1..Len(w)
      BY <1>2, <1>4, <1>5
    <2> QED BY <1>4, <1>5, <2>1
  <1>7. \A i \in 1..Len(r) : r[i] = w[Len(b) - L + i]
    <2> TAKE i \in 1..Len(r)
    <2>1. Len(b) - L + i \in 1..Len(w) /\ L + (Len(b) - L + i) = Len(b) + i
      BY <1>2, <1>4, <1>5
    <2>2. v[L + (Len(b) - L + i)] = w[Len(b) - L + i]
      BY <1>5, <2>1
    <2> QED BY <1>4, <2>1, <2>2
  <1>8. \A i \in 1..Len(b) - L : L + i \in 1..Len(b)
    BY <1>2
  <1> QED
    <2>1. Len(buffer') + Len(rest) = Len(Wire(k + 1))
      BY <1>1, <1>2, <1>3, <1>4, <1>5
    <2>2. \A i \in 1..Len(buffer') : \E j \in 1..Len(buffer) : buffer'[i] = buffer[j]
      BY <1>1, <1>3, <1>8
    <2>3. \A i \in 1..Len(buffer') : /\ buffer'[i].event = Wire(k + 1)[i].event
                                     /\ buffer'[i].line = Wire(k + 1)[i].line
      BY <1>1, <1>3, <1>6
    <2>4. \A i \in 1..Len(rest) : rest[i] = Wire(k + 1)[Len(buffer') + i]
      BY <1>1, <1>3, <1>7
    <2> QED BY <1>3, <2>1, <2>2, <2>3, <2>4

\* A chunk moves lines from what is to come to what is buffered.
LEMMA ChunkArrives ==
  ASSUME Typed, NEW k \in 0..NumEvents, InStep(k), ReadChunk
  PROVE  /\ buffer' \in Seq(Read) /\ rest' \in Seq(Line) /\ InStep(k)'
         /\ \A i \in 1..Len(buffer') :
              (\E j \in 1..Len(buffer) : buffer'[i] = buffer[j]) \/ buffer'[i].conn = conn
  <1>1. PICK n \in 1..ChunkLines :
          /\ n <= Len(rest)
          /\ buffer' = buffer \o [i \in 1..n |-> [event |-> rest[i].event,
                                                  line |-> rest[i].line, conn |-> conn]]
          /\ rest' = SubSeq(rest, n + 1, Len(rest))
    BY DEF ReadChunk
  <1>2. UNCHANGED <<state, lastId, numbered, conn, yielded>>
    BY DEF ReadChunk, streamHistory
  <1>3. PICK b \in Seq(Read), r \in Seq(Line), w \in Seq(Line) :
          b = buffer /\ r = rest /\ w = Wire(k)
    BY WireType DEF Typed
  <1>4. n \in Nat /\ n >= 1 /\ n <= Len(r)
    BY <1>1, <1>3, StreamAssumption
  <1>5. rest' \in Seq(Line) /\ Len(rest') = Len(r) - n
        /\ \A i \in 1..Len(r) - n : rest'[i] = r[n + i]
    BY <1>1, <1>3, <1>4, RestOfSeq
  <1> DEFINE came == [i \in 1..n |-> [event |-> r[i].event, line |-> r[i].line, conn |-> conn]]
  <1>6. came \in Seq(Read) /\ Len(came) = n
        /\ \A i \in 1..n : /\ came[i].event = r[i].event
                           /\ came[i].line = r[i].line
                           /\ came[i].conn = conn
    <2>1. \A i \in 1..n : r[i] \in Line
      BY <1>4
    <2>2. \A i \in 1..n : [event |-> r[i].event, line |-> r[i].line, conn |-> conn] \in Read
      BY <2>1 DEF Line, Read, Typed
    <2> QED BY <1>4, <2>2
  <1>7. /\ buffer' = b \o came /\ buffer' \in Seq(Read) /\ Len(buffer') = Len(b) + n
        /\ \A i \in 1..Len(b) : buffer'[i] = b[i]
        /\ \A i \in 1..n : buffer'[Len(b) + i] = came[i]
    <2>1. buffer' = b \o came
      BY <1>1, <1>3
    <2> HIDE DEF came
    <2>2. PICK c \in Seq(Read) : c = came /\ Len(c) = n
      BY <1>6
    <2>3. /\ b \o c \in Seq(Read) /\ Len(b \o c) = Len(b) + Len(c)
          /\ \A i \in 1..Len(b) : (b \o c)[i] = b[i]
          /\ \A i \in 1..Len(c) : (b \o c)[Len(b) + i] = c[i]
      OBVIOUS
    <2> QED BY <2>1, <2>2, <2>3
  <1>8. /\ Len(b) + Len(r) = Len(w)
        /\ \A i \in 1..Len(b) : b[i].event = w[i].event /\ b[i].line = w[i].line
        /\ \A i \in 1..Len(r) : r[i] = w[Len(b) + i]
    BY <1>3 DEF InStep
  <1>9. \A i \in 1..Len(buffer') : i \in 1..Len(b) \/ \E j \in 1..n : i = Len(b) + j
    <2> TAKE i \in 1..Len(buffer')
    <2>1. CASE i > Len(b)
      <3>1. i - Len(b) \in 1..n /\ i = Len(b) + (i - Len(b))
        BY <1>4, <1>7, <2>1
      <3> QED BY <3>1
    <2> QED BY <1>4, <1>7, <2>1
  <1> HIDE DEF came
  <1>10. \A i \in 1..n : /\ buffer'[Len(b) + i].event = r[i].event
                         /\ buffer'[Len(b) + i].line = r[i].line
                         /\ buffer'[Len(b) + i].conn = conn
    BY <1>6, <1>7
  <1>11. \A i \in 1..Len(buffer') : buffer'[i].event = w[i].event /\ buffer'[i].line = w[i].line
    <2> TAKE i \in 1..Len(buffer')
    <2>1. CASE i \in 1..Len(b)
      BY <1>7, <1>8, <2>1
    <2>2. ASSUME NEW j \in 1..n, i = Len(b) + j
          PROVE  buffer'[i].event = w[i].event /\ buffer'[i].line = w[i].line
      <3>1. j \in 1..Len(r)
        BY <1>4
      <3> QED BY <1>8, <1>10, <2>2, <3>1
    <2> QED BY <1>9, <2>1, <2>2
  <1>12. \A i \in 1..Len(rest') : rest'[i] = w[Len(buffer') + i]
    <2> TAKE i \in 1..Len(rest')
    <2>1. n + i \in 1..Len(r) /\ Len(buffer') + i = Len(b) + (n + i) /\ i \in 1..Len(r) - n
      BY <1>4, <1>5, <1>7
    <2> QED BY <1>5, <1>8, <2>1
  <1>13. \A x : Wire(x)' = Wire(x)
    BY <1>2, WireStays
  <1>14. Data' = Data
    BY DEF Data
  <1>15. InStep(k)'
    <2>1. Len(buffer') + Len(rest') = Len(Wire(k))
      <3>1. \A x, y, z \in Int : x + y = z => x + n + (y - n) = z
        OBVIOUS
      <3>1a. Len(b) \in Int /\ Len(r) \in Int /\ Len(w) \in Int
        BY <1>4, <1>8
      <3>1b. Len(b) + n + (Len(r) - n) = Len(w)
        BY <1>8, <3>1, <3>1a
      <3>2. Len(buffer') = Len(b) + n /\ Len(rest') = Len(r) - n /\ w = Wire(k)
        BY <1>3, <1>5, <1>7
      <3> QED BY <3>1b, <3>2
    <2> QED BY <1>2, <1>3, <1>11, <1>12, <1>13, <1>14, <2>1 DEF InStep
  <1>16. \A i \in 1..Len(buffer') :
           (\E j \in 1..Len(buffer) : buffer'[i] = buffer[j]) \/ buffer'[i].conn = conn
    <2> TAKE i \in 1..Len(buffer')
    <2>1. CASE i \in 1..Len(b)
      BY <1>3, <1>7, <2>1
    <2>2. ASSUME NEW j \in 1..n, i = Len(b) + j PROVE buffer'[i].conn = conn
      BY <1>10, <2>2
    <2> QED BY <1>9, <2>1, <2>2
  <1> QED
    BY <1>5, <1>7, <1>15, <1>16

-----------------------------------------------------------------------------
\* A frame that carries data or none moves the stream past its event.
LEMMA FrameStep ==
  ASSUME StreamInv, NEW k \in 0..NumEvents, Framed(k), Consume, ApplyMetadata,
         state = "body", UNCHANGED <<state, numbered, rest, conn>>,
         yielded' \in [Events -> 0..2],
         \A e \in Events : e # k + 1 => yielded'[e] = yielded[e],
         yielded'[k + 1] \in {yielded[k + 1], yielded[k + 1] + 1},
         k + 1 \in Data => yielded'[k + 1] > 0,
         foreign' = foreign
  PROVE  StreamInv'
  <1>1. k + 1 \in Events /\ k + 1 \in 0..NumEvents /\ k < NumEvents /\ NumEvents \in Nat
    BY WireIs, StreamAssumption DEF Framed
  <1>2. Typed /\ Placed /\ InOrderOnce /\ NoConcatenation /\ InStep(k)
    BY DEF StreamInv, Framed
  <1>3. /\ lastId' \in 0..NumEvents /\ lastId <= lastId' /\ lastId' <= k + 1
        /\ \A e \in numbered : e <= k + 1 => e <= lastId'
    BY <1>2, FrameTaken
  <1>4. Data' = Data /\ Data \subseteq Events /\ Events \subseteq Nat
    BY DEF Data, Events
  <1>5. \A e \in Data : e <= k + 1 => yielded'[e] > 0
    BY <1>1, <1>2, <1>4 DEF InStep, Typed
  <1>6. Typed'
    BY <1>1, <1>2, <1>3, BufferAdvances DEF Typed, Read, Line
  <1>7. InStep(k + 1)'
    <2>1. \A x : Wire(x)' = Wire(x)
      BY WireStays
    <2> QED BY <1>1, <1>2, <1>3, <1>4, <1>5, <2>1, BufferAdvances DEF InStep
  <1>8. Placed'
    <2>1. \A e \in Data : e <= lastId' => yielded'[e] > 0
      BY <1>1, <1>3, <1>4, <1>5
    <2>2. \A e \in numbered : yielded'[e] > 0 => e <= lastId'
      BY <1>1, <1>2, <1>3, <1>4 DEF Placed, Typed
    <2>3. state' = "body"
      OBVIOUS
    <2> QED BY <1>1, <1>4, <1>7, <2>1, <2>2, <2>3 DEF Placed
  <1>9. InOrderOnce'
    <2>1. NoEventLost'
      BY <1>1, <1>2, <1>4, <1>5 DEF NoEventLost, InOrderOnce, Typed
    <2>2. NoEventTwice'
      <3>1. k + 1 \in numbered => yielded[k + 1] = 0
        BY <1>1, <1>2 DEF Placed, InStep, Typed
      <3> QED BY <1>1, <1>2, <1>4, <3>1 DEF NoEventTwice, InOrderOnce, Typed
    <2> QED BY <2>1, <2>2 DEF InOrderOnce
  <1>10. NoConcatenation'
    BY <1>2, BufferAdvances DEF NoConcatenation
  <1> QED
    BY <1>6, <1>8, <1>9, <1>10 DEF StreamInv

\* The invariant holds of every step, over a server that closes a body cleanly
\* only between events.
LEMMA NextStreamInv ==
  ASSUME TornClose = FALSE, StreamInv, [StreamNext]_streamVars
  PROVE  StreamInv'
  <1>0. Typed /\ Placed /\ InOrderOnce /\ NoConcatenation
    BY DEF StreamInv
  <1>a. Data' = Data
    BY DEF Data
  \* A step that leaves the server's events and what was yielded alone.
  <1>b. ASSUME UNCHANGED <<numbered, yielded, foreign>>, Typed', Placed',
               \A i \in 1..Len(buffer') : buffer'[i].conn = conn'
        PROVE  StreamInv'
    BY <1>0, <1>a, <1>b DEF StreamInv, InOrderOnce, NoEventLost, NoEventTwice, NoConcatenation
  <1>c. numbered' = numbered => \A x : Wire(x)' = Wire(x)
    BY WireStays
  <1>1. CASE FrameItem
    <2>1. state # "done" /\ ~ NeedMore /\ DataLines # {} /\ Consume /\ ApplyMetadata /\ Deliver
          /\ UNCHANGED <<state, numbered, rest, conn>>
      BY <1>1 DEF FrameItem, server
    <2>2. PICK k \in 0..NumEvents : state = "body" /\ Framed(k)
      BY <1>0, <2>1, FrameIsAnEvent
    <2>3. k + 1 \in Events
      BY <2>2, WireIs DEF Framed
    <2>4. \A e \in Events : PayloadOf(e) <=> e = k + 1
      BY <1>0, <2>1, <2>2, FrameSays
    <2>5. /\ foreign' = foreign /\ yielded' \in [Events -> 0..2]
          /\ \A e \in Events : e # k + 1 => yielded'[e] = yielded[e]
          /\ yielded'[k + 1] \in {yielded[k + 1], yielded[k + 1] + 1}
          /\ yielded'[k + 1] > 0
      <3>1. yielded' = [e \in Events |->
                          IF PayloadOf(e) /\ yielded[e] < 2 THEN yielded[e] + 1 ELSE yielded[e]]
            /\ foreign' = (foreign \/ ~ \E e \in Events : PayloadOf(e))
        BY <2>1 DEF Deliver
      <3>2. foreign' = foreign
        <4>1. \E e \in Events : PayloadOf(e)
          BY <2>3, <2>4
        <4>2. foreign = FALSE
          BY <1>0 DEF NoConcatenation, Typed
        <4> QED BY <3>1, <4>1, <4>2
      <3> QED BY <1>0, <2>3, <2>4, <3>1, <3>2 DEF Typed
    <2> QED BY <2>1, <2>2, <2>5, FrameStep
  <1>2. CASE FrameMetadata
    <2>1. state # "done" /\ ~ NeedMore /\ DataLines = {} /\ Consume /\ ApplyMetadata
          /\ UNCHANGED <<state, numbered, rest, conn, yielded, foreign>>
      BY <1>2 DEF FrameMetadata, server, streamHistory
    <2>2. PICK k \in 0..NumEvents : state = "body" /\ Framed(k)
      BY <1>0, <2>1, FrameIsAnEvent
    <2>3. k + 1 \notin Data
      <3>1. DataOf(k + 1) = <<>>
        BY <1>0, <2>1, <2>2, FrameSays
      <3> QED BY <3>1 DEF Data, DataOf
    <2>4. k + 1 \in Events /\ yielded \in [Events -> 0..2]
      BY <1>0, <2>2, WireIs DEF Framed, Typed
    <2> QED BY <2>1, <2>2, <2>3, <2>4, FrameStep
  <1>3. CASE FrameDone
    <2>1. state # "done" /\ ~ NeedMore /\ ApplyMetadata /\ state' = "done" /\ buffer' = <<>>
          /\ UNCHANGED <<numbered, rest, conn, yielded, foreign>>
      BY <1>3 DEF FrameDone, server
    <2>2. PICK k \in 0..NumEvents : Framed(k)
      BY <1>0, <2>1, FrameIsAnEvent
    <2>3. lastId' \in 0..NumEvents /\ lastId <= lastId' /\ NumEvents \in Nat
      <3>1. lastId' \in 0..NumEvents /\ lastId <= lastId'
        BY <1>0, <2>1, <2>2, FrameTaken
      <3> QED BY <3>1, StreamAssumption
    <2>4. Typed'
      BY <1>0, <2>1, <2>3 DEF Typed, Line, Read
    <2>5. Placed'
      BY <1>0, <2>1, <2>3 DEF Placed, Typed, Events
    <2> QED BY <1>b, <2>1, <2>4, <2>5
  <1>4. CASE Overflow
    <2>1. Typed' /\ Placed' /\ buffer' = <<>>
      BY <1>0, <1>4 DEF Overflow, server, Typed, Placed, Line, Read
    <2> QED BY <1>4, <1>b, <2>1 DEF Overflow, server
  <1>5. CASE ReadChunk
    <2>1. state = "body" /\ UNCHANGED <<state, lastId, numbered, conn, yielded, foreign>>
      BY <1>5 DEF ReadChunk, Waits, streamHistory
    <2>2. PICK k \in 0..NumEvents : InStep(k)
      BY <1>0, <2>1 DEF Placed
    <2>3. /\ buffer' \in Seq(Read) /\ rest' \in Seq(Line) /\ InStep(k)'
          /\ \A i \in 1..Len(buffer') :
              (\E j \in 1..Len(buffer) : buffer'[i] = buffer[j]) \/ buffer'[i].conn = conn
      BY <1>0, <1>5, <2>2, ChunkArrives
    <2>4. Typed'
      BY <1>0, <2>1, <2>3 DEF Typed, Read, Line
    <2>5. Placed'
      BY <1>0, <1>a, <2>1, <2>3 DEF Placed
    <2>6. \A i \in 1..Len(buffer') : buffer'[i].conn = conn'
      BY <1>0, <2>1, <2>3 DEF NoConcatenation
    <2> QED BY <1>b, <2>1, <2>4, <2>5, <2>6
  \* A reconnect that is scheduled keeps nothing but the last id.
  <1>d. ASSUME NEW failure \in BOOLEAN, ScheduleReconnect(failure),
               UNCHANGED <<lastId, numbered, conn, rest, yielded, foreign>>, state # "done"
        PROVE  StreamInv'
    <2>1. Typed'
      <3>1. state' \in {"waiting", "done"} /\ (buffer' = <<>> \/ buffer' = buffer)
        BY <1>d DEF ScheduleReconnect
      <3>2. buffer' \in Seq(Read)
        <4>1. <<>> \in Seq(Read) /\ buffer \in Seq(Read)
          BY <1>0 DEF Typed
        <4> QED BY <3>1, <4>1
      <3> QED BY <1>0, <1>d, <3>1, <3>2 DEF Typed, Read, Line
    <2>2. Placed'
      BY <1>0, <1>a, <1>d DEF ScheduleReconnect, Placed
    <2>3. \A i \in 1..Len(buffer') : buffer'[i].conn = conn'
      BY <1>0, <1>d DEF ScheduleReconnect, NoConcatenation
    <2> QED BY <1>b, <1>d, <2>1, <2>2, <2>3
  <1>6. CASE ReadFails
    BY <1>6, <1>d DEF ReadFails, Waits, server
  <1>7. CASE ReadEnds
    <2>1. buffer = <<>> /\ state = "body" /\ state' = "eof"
          /\ UNCHANGED <<buffer, lastId, numbered, conn, rest, yielded, foreign>>
      BY <1>7 DEF ReadEnds, Waits, server, streamHistory
    <2>2. Typed' /\ Placed'
      BY <1>0, <1>a, <2>1 DEF Typed, Placed, Read, Line
    <2> QED BY <1>b, <2>1, <2>2
  <1>8. CASE EndOfStream
    BY <1>8, <1>d DEF EndOfStream, Waits, server
  <1>9. CASE WaitOver
    <2>1. state = "waiting" /\ UNCHANGED <<buffer, lastId, numbered, conn, yielded, foreign>>
          /\ \/ state' = "connecting" /\ rest' = Wire(lastId)
             \/ state' = "done" /\ rest' = rest
      BY <1>9 DEF WaitOver, Waits
    <2>2. buffer = <<>> /\ lastId \in 0..NumEvents /\ Wire(lastId) \in Seq(Line)
      BY <1>0, <2>1, WireType DEF Typed, Placed
    <2>3. Typed'
      BY <1>0, <2>1, <2>2 DEF Typed, Read, Line
    <2>4. CASE state' = "connecting"
      <3>1. InStep(lastId)'
        <4>1. rest' = Wire(lastId) /\ Wire(lastId)' = Wire(lastId)
          BY <1>c, <2>1, <2>4
        <4>2. PICK w \in Seq(Line) : w = Wire(lastId)
          BY <2>2
        <4>3. /\ Len(buffer') + Len(rest') = Len(w)
              /\ \A i \in 1..Len(rest') : rest'[i] = w[Len(buffer') + i]
          BY <2>1, <2>2, <4>1, <4>2
        <4> QED BY <1>0, <1>a, <2>1, <2>2, <4>1, <4>2, <4>3 DEF InStep, Placed, Typed
      <3> QED BY <1>0, <1>a, <2>1, <2>2, <2>3, <2>4, <3>1, <1>b DEF Placed
    <2>5. CASE state' = "done"
      <3>1. Placed'
        BY <1>0, <1>a, <2>1, <2>5 DEF Placed
      <3> QED BY <1>b, <2>1, <2>2, <2>3, <3>1
    <2> QED BY <2>1, <2>4, <2>5
  <1>10. CASE Connected
    <2>1. state = "connecting" /\ state' = "body" /\ conn' = 1 - conn
          /\ UNCHANGED <<buffer, lastId, numbered, rest, yielded, foreign>>
      BY <1>10 DEF Connected, Waits, streamHistory
    <2>2. buffer = <<>> /\ conn' \in {0, 1}
      BY <1>0, <2>1 DEF Typed, Placed
    <2>3. PICK k \in 0..NumEvents : InStep(k)
      BY <1>0, <2>1 DEF Placed
    <2>4. InStep(k)'
      BY <1>a, <1>c, <2>1, <2>3 DEF InStep
    <2>5. Typed' /\ Placed'
      BY <1>0, <1>a, <2>1, <2>2, <2>4 DEF Typed, Placed, Read, Line
    <2> QED BY <1>b, <2>1, <2>2, <2>5
  <1>11. CASE ConnectFails
    BY <1>11, <1>d DEF ConnectFails, Waits, server
  <1>12. CASE UNCHANGED streamVars
    <2>1. UNCHANGED <<state, buffer, lastId, numbered, conn, rest, yielded, foreign>>
      BY <1>12 DEF streamVars
    <2>2. \A x : InStep(x)' <=> InStep(x)
      BY <1>a, <1>c, <2>1 DEF InStep
    <2>3. Typed' /\ Placed'
      BY <1>0, <1>a, <2>1, <2>2 DEF Typed, Placed, Line, Read
    <2> QED BY <1>0, <1>b, <2>1, <2>3 DEF NoConcatenation
  <1> QED
    BY <1>1, <1>2, <1>3, <1>4, <1>5, <1>6, <1>7, <1>8, <1>9, <1>10, <1>11, <1>12
       DEF StreamNext, PollAfterEnd

\* The first response starts at the first event.
LEMMA InitStreamInv == StreamInit => StreamInv
  <1> SUFFICES ASSUME StreamInit PROVE StreamInv
    OBVIOUS
  <1>1. NumEvents \in Nat /\ 0 \in 0..NumEvents /\ numbered \subseteq Events
    BY StreamAssumption DEF StreamInit
  <1>2. PICK w \in Seq(Line) : w = Wire(0)
    BY <1>1, WireType
  <1>3. state = "body" /\ buffer = <<>> /\ rest = w /\ lastId = 0 /\ conn = 0
        /\ yielded = [e \in Events |-> 0] /\ foreign = FALSE
    BY <1>2 DEF StreamInit
  <1>4. Typed
    <2>1. <<>> \in Seq(Read) /\ yielded \in [Events -> 0..2]
      BY <1>3
    <2> QED BY <1>1, <1>3, <2>1 DEF Typed
  <1>5. InStep(0)
    BY <1>1, <1>2, <1>3 DEF InStep, Events, Data
  <1>6. Placed
    BY <1>1, <1>3, <1>5 DEF Placed, Events, Data
  <1> QED
    BY <1>1, <1>3, <1>4, <1>6
       DEF StreamInv, InOrderOnce, NoEventLost, NoEventTwice, NoConcatenation, Events, Data

\* Over a server that resumes after the Last-Event-ID it is given, whatever breaks
\* and wherever, an event is yielded only when every earlier one was, and an event
\* with an id once.
THEOREM ItemsInOrderOnce == TornClose = FALSE => (StreamSpec => []InOrderOnce)
  <1> SUFFICES ASSUME TornClose = FALSE PROVE StreamSpec => []InOrderOnce
    OBVIOUS
  <1>1. StreamInv /\ [StreamNext]_streamVars => StreamInv'
    BY NextStreamInv
  <1>2. StreamInv => InOrderOnce
    BY DEF StreamInv
  <1> QED
    BY <1>1, <1>2, InitStreamInv, PTL DEF StreamSpec

\* No item mixes the data of two events or of two connections.
THEOREM ItemsAreWhole == TornClose = FALSE => (StreamSpec => []NoConcatenation)
  <1> SUFFICES ASSUME TornClose = FALSE PROVE StreamSpec => []NoConcatenation
    OBVIOUS
  <1>1. StreamInv /\ [StreamNext]_streamVars => StreamInv'
    BY NextStreamInv
  <1>2. StreamInv => NoConcatenation
    BY DEF StreamInv
  <1> QED
    BY <1>1, <1>2, InitStreamInv, PTL DEF StreamSpec
=============================================================================
