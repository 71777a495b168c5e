-------------------------- MODULE ItemFramingProofs --------------------------
(* Proofs about ItemFraming, for every body, however it is cut into chunks. *)
EXTENDS ItemFraming, SequenceTheorems, FiniteSetTheorems, WellFoundedInduction, TLAPS

\* The offsets lie in order in the buffer.
Offsets ==
  /\ framing \in Framings
  /\ body \in Seq(Symbols)
  /\ fed \in 0..Len(body)
  /\ buffer \in Seq(Symbols)
  /\ lineStart \in Nat /\ scanned \in Nat
  /\ lineStart <= scanned /\ scanned <= Len(buffer)
  /\ credit \in Int
  /\ pc \in {"frame", "more", "end"}
\* While a byte order mark is undecided the buffer is shorter than one.
MarkIsShort == bomPending => Len(buffer) <= 2
\* What may still be searched covers what was not; before a chunk that is a CR.
Covered ==
  /\ pc = "frame" => Len(buffer) - SearchFrom <= credit
  /\ pc = "more" => Len(buffer) - scanned <= 1
  /\ pc # "frame" => credit >= 0

IInv == Offsets /\ MarkIsShort /\ Covered /\ NothingSkipped

\* A set of positions that is not empty has a least one.
LEMMA LeastIsIn == ASSUME NEW S \in SUBSET Nat, S # {}
                   PROVE  Least(S) \in S /\ \A j \in S : Least(S) <= j
  <1>1. \E x \in S : \A y \in S : ~ (<<y, x>> \in OpToRel(<, Nat))
    BY NatLessThanWellFounded, WFMin
  <1>2. PICK x \in S : \A y \in S : ~ (<<y, x>> \in OpToRel(<, Nat))
    BY <1>1
  <1>3. \A y \in S : x <= y
    <2> SUFFICES ASSUME NEW y \in S, y < x PROVE FALSE
      OBVIOUS
    <2>1. <<y, x>> \in OpToRel(<, Nat)
      BY DEF OpToRel
    <2> QED
      BY <1>2, <2>1, Zenon
  <1> QED
    BY <1>3 DEF Least

\* What From leaves.
LEMMA FromShape == ASSUME NEW S, NEW s \in Seq(S), NEW k \in 1..Len(s) + 1
                   PROVE  /\ From(s, k) \in Seq(S)
                          /\ Len(From(s, k)) = Len(s) - k + 1
                          /\ \A i \in 1..Len(s) - k + 1 : From(s, k)[i] = s[k + i - 1]
  <1>1. \A i \in k..Len(s) : s[i] \in S
    OBVIOUS
  <1>2. k \in Int /\ Len(s) \in Int
    OBVIOUS
  <1> QED
    BY <1>1, <1>2, SubSeqProperties DEF From

\* Where the search resumes, and the terminator it finds.
LEMMA SearchShape ==
  ASSUME Offsets
  PROVE  /\ SearchFrom \in Nat /\ scanned <= SearchFrom /\ SearchFrom <= Len(buffer)
         /\ \A i \in scanned + 1 .. SearchFrom : framing = "jsonseq" /\ i = 1
         /\ Hits # {} => /\ End \in SearchFrom + 1 .. Len(buffer)
                         /\ buffer[End] \in Terminators
                         /\ \A j \in Hits : End <= j
  <1>1. SearchFrom \in Nat /\ scanned <= SearchFrom /\ SearchFrom <= Len(buffer)
    BY DEF Offsets, SearchFrom
  <1>2. \A i \in scanned + 1 .. SearchFrom : framing = "jsonseq" /\ i = 1
    BY DEF Offsets, SearchFrom
  <1>3. Hits \in SUBSET Nat
    BY <1>1 DEF Hits, Offsets
  <1>4. ASSUME Hits # {} PROVE End \in Hits /\ \A j \in Hits : End <= j
    BY <1>3, <1>4, LeastIsIn DEF End
  <1> QED
    BY <1>1, <1>2, <1>4 DEF Hits

LEMMA InitIInv == Init => IInv
  <1> SUFFICES ASSUME Init PROVE IInv
    OBVIOUS
  <1> USE DEF Init
  <1>1. body \in Seq(Symbols)
    BY FramingAssumption
  <1>2. Offsets /\ MarkIsShort
    BY <1>1 DEF Offsets, MarkIsShort, Framings
  <1>3. Covered
    BY DEF Covered, SearchFrom
  <1>4. NothingSkipped
    BY DEF NothingSkipped
  <1> QED
    BY <1>2, <1>3, <1>4 DEF IInv

\* A line within an event.
LEMMA SseLineIInv == ASSUME IInv, SseLine PROVE IInv'
  <1> USE DEF SseLine, Found, Spend, IInv
  <1>0. Offsets
    OBVIOUS
  <1>1. End \in SearchFrom + 1 .. Len(buffer) /\ SearchFrom \in Nat
    BY <1>0, SearchShape
  <1>2. NextLine \in End..Len(buffer)
    <2>1. CASE End = Len(buffer)
      <3>1. buffer[End] # "CR"
        BY <2>1 DEF CrHeld
      <3> QED
        BY <1>0, <1>1, <2>1, <3>1 DEF NextLine, Offsets
    <2>2. CASE End # Len(buffer)
      BY <1>0, <1>1, <2>2 DEF NextLine, Offsets
    <2> QED
      BY <2>1, <2>2
  <1>3. Offsets' /\ MarkIsShort'
    BY <1>0, <1>1, <1>2 DEF Offsets, MarkIsShort
  <1>4. Covered'
    BY <1>0, <1>1, <1>2 DEF Covered, SearchFrom, Offsets
  <1>5. NothingSkipped'
    BY <1>0, <1>1, <1>2 DEF NothingSkipped, Offsets
  <1> QED
    BY <1>3, <1>4, <1>5

\* An item leaves the front of the buffer, up to or just before a terminator.
LEMMA ConsumeIInv ==
  ASSUME IInv, pc = "frame", Found, NEW k \in Nat, Consume(k), Spend(End),
         k \in End..Len(buffer) \/ (k = End - 1 /\ framing = "jsonseq"),
         UNCHANGED <<framing, body, fed, eof, bomPending, pc>>
  PROVE  IInv'
  <1> USE DEF Found, Spend, IInv, Consume
  <1>0. Offsets
    OBVIOUS
  <1>1. /\ End \in SearchFrom + 1 .. Len(buffer) /\ SearchFrom \in Nat
        /\ buffer[End] \in Terminators
    BY <1>0, SearchShape
  <1>2. /\ buffer' \in Seq(Symbols) /\ Len(buffer') = Len(buffer) - k
        /\ k < Len(buffer) => buffer'[1] = buffer[k + 1]
    <2>1. k + 1 \in 1..Len(buffer) + 1 /\ buffer \in Seq(Symbols) /\ Len(buffer) \in Nat
      BY <1>0, <1>1 DEF Offsets
    <2>2. /\ From(buffer, k + 1) \in Seq(Symbols)
          /\ Len(From(buffer, k + 1)) = Len(buffer) - (k + 1) + 1
          /\ \A i \in 1..Len(buffer) - (k + 1) + 1 :
               From(buffer, k + 1)[i] = buffer[k + 1 + i - 1]
      BY <2>1, FromShape
    <2>3. Len(buffer') = Len(buffer) - k
      BY <2>1, <2>2
    <2>4. k < Len(buffer) => buffer'[1] = buffer[k + 1]
      BY <2>1, <2>2
    <2> QED
      BY <2>2, <2>3, <2>4
  <1>3. Offsets' /\ MarkIsShort'
    BY <1>0, <1>1, <1>2 DEF Offsets, MarkIsShort
  <1>4. Covered'
    <2>1. CASE k \in End..Len(buffer)
      BY <1>0, <1>1, <1>2, <2>1 DEF Covered, SearchFrom, Offsets
    <2>2. CASE k = End - 1 /\ framing = "jsonseq"
      <3>1. buffer[End] = "RS"
        BY <1>1, <2>2 DEF Terminators
      <3>2. buffer' # <<>> /\ buffer'[1] = "RS"
        BY <1>0, <1>1, <1>2, <2>2, <3>1 DEF Offsets
      <3>3. SearchFrom' = 1
        BY <2>2, <3>2 DEF SearchFrom
      <3> QED
        BY <1>0, <1>1, <1>2, <2>2, <3>3 DEF Covered, Offsets
    <2> QED
      BY <2>1, <2>2
  <1>5. NothingSkipped'
    BY DEF NothingSkipped
  <1> QED
    BY <1>3, <1>4, <1>5

LEMMA SseBlankIInv == ASSUME IInv, SseBlank PROVE IInv'
  <1>0. Offsets /\ Found
    BY DEF IInv, SseBlank
  <1>1. End \in 1..Len(buffer)
    BY <1>0, SearchShape DEF Found, Offsets
  <1>2. NextLine \in End..Len(buffer) /\ NextLine \in Nat
    <2>1. CASE End = Len(buffer)
      <3>1. buffer[End] # "CR"
        BY <1>0, <2>1 DEF CrHeld, Found, SseBlank
      <3> QED
        BY <1>0, <1>1, <2>1, <3>1 DEF NextLine, Offsets
    <2>2. CASE End # Len(buffer)
      BY <1>0, <1>1, <2>2 DEF NextLine, Offsets
    <2> QED
      BY <2>1, <2>2
  <1> QED
    BY <1>2, ConsumeIInv DEF SseBlank

LEMMA NeedMoreIInv == ASSUME IInv, NeedMore PROVE IInv'
  <1> USE DEF NeedMore, Found, Spend, IInv
  <1>0. Offsets
    OBVIOUS
  <1>1. /\ SearchFrom \in Nat /\ scanned <= SearchFrom /\ SearchFrom <= Len(buffer)
        /\ \A i \in scanned + 1 .. SearchFrom : framing = "jsonseq" /\ i = 1
    BY <1>0, SearchShape
  <1>2. CrHeld => End = Len(buffer) /\ SearchFrom < End /\ \A j \in Hits : End <= j
    <2> SUFFICES ASSUME CrHeld
                 PROVE  End = Len(buffer) /\ SearchFrom < End /\ \A j \in Hits : End <= j
      OBVIOUS
    <2>1. End \in SearchFrom + 1 .. Len(buffer) /\ \A j \in Hits : End <= j
      BY <1>0, SearchShape DEF CrHeld
    <2> QED
      BY <1>1, <2>1 DEF CrHeld
  <1>3. /\ scanned' \in Nat /\ SearchFrom <= scanned' /\ scanned' <= Len(buffer)
        /\ Len(buffer) - scanned' <= 1
        /\ \A i \in SearchFrom + 1 .. scanned' : buffer[i] \notin Terminators
    <2>1. CASE CrHeld
      <3>1. scanned' = End - 1
        BY <2>1
      <3>2. \A i \in SearchFrom + 1 .. scanned' : i \notin Hits
        BY <1>0, <1>1, <1>2, <2>1, <3>1 DEF Offsets
      <3> QED
        BY <1>0, <1>1, <1>2, <2>1, <3>1, <3>2 DEF Offsets, Hits
    <2>2. CASE ~ CrHeld
      <3>1. scanned' = Len(buffer) /\ Hits = {}
        BY <2>2
      <3> QED
        BY <1>0, <1>1, <3>1 DEF Offsets, Hits
    <2> QED
      BY <2>1, <2>2
  <1>4. Offsets' /\ MarkIsShort'
    BY <1>0, <1>1, <1>3 DEF Offsets, MarkIsShort
  <1>5. Covered'
    BY <1>0, <1>1, <1>3 DEF Covered, Offsets
  <1>6. NothingSkipped'
    <2> SUFFICES ASSUME NEW i \in lineStart + 1 .. scanned', buffer[i] \in Terminators
                 PROVE  framing = "jsonseq" /\ i = 1
      BY DEF NothingSkipped, Terminators
    <2>1. i \in lineStart + 1 .. scanned \/ i \in scanned + 1 .. SearchFrom
            \/ i \in SearchFrom + 1 .. scanned'
      BY <1>0, <1>1, <1>3 DEF Offsets
    <2> QED
      BY <1>1, <1>3, <2>1 DEF NothingSkipped
  <1> QED
    BY <1>4, <1>5, <1>6

LEMMA FlushIInv == ASSUME IInv, Flush PROVE IInv'
  <1> USE DEF Flush, Spend, Consume, IInv
  <1>0. Offsets
    OBVIOUS
  <1>1. SearchFrom \in Nat /\ SearchFrom <= Len(buffer)
    BY <1>0, SearchShape
  <1>2. buffer' \in Seq(Symbols) /\ Len(buffer') = 0
    <2>1. Len(buffer) + 1 \in 1..Len(buffer) + 1 /\ buffer \in Seq(Symbols)
      BY <1>0 DEF Offsets
    <2>2. /\ From(buffer, Len(buffer) + 1) \in Seq(Symbols)
          /\ Len(From(buffer, Len(buffer) + 1)) = Len(buffer) - (Len(buffer) + 1) + 1
      BY <2>1, FromShape
    <2> QED
      BY <2>1, <2>2
  <1>3. Offsets' /\ MarkIsShort'
    BY <1>0, <1>1, <1>2 DEF Offsets, MarkIsShort
  <1>4. Covered'
    BY <1>0, <1>1, <1>2 DEF Covered, Offsets
  <1>5. NothingSkipped'
    BY DEF NothingSkipped
  <1> QED
    BY <1>3, <1>4, <1>5

\* A mark is three bytes: a proper prefix of it is shorter, and stripping it shortens.
LEMMA StripShape ==
  ASSUME NEW b \in Seq(Symbols)
  PROVE  /\ StripLeadingBom(b).bytes \in Seq(Symbols)
         /\ Len(StripLeadingBom(b).bytes) <= Len(b)
         /\ StripLeadingBom(b).pending => Len(StripLeadingBom(b).bytes) <= 2
  <1>0. BOM \in Seq({"EF", "BB", "BF"}) /\ Len(BOM) = 3
    BY DEF BOM
  <1>1. CASE IsPrefix(BOM, b)
    <2>1. Len(b) >= 3 /\ 4 \in 1..Len(b) + 1
      BY <1>0, <1>1 DEF IsPrefix
    <2>2. From(b, 4) \in Seq(Symbols) /\ Len(From(b, 4)) = Len(b) - 4 + 1
      BY <2>1, FromShape
    <2>3. ~ IsStrictPrefix(b, BOM)
      <3> SUFFICES ASSUME IsStrictPrefix(b, BOM) PROVE FALSE
        OBVIOUS
      <3>1. Len(b) = 3 /\ SubSeq(b, 1, 3) = SubSeq(BOM, 1, 3)
        BY <1>0, <2>1 DEF IsStrictPrefix, IsPrefix
      <3>2. b = BOM
        BY <1>0, <3>1
      <3> QED
        BY <3>2 DEF IsStrictPrefix
    <2> QED
      BY <1>1, <2>1, <2>2, <2>3 DEF StripLeadingBom
  <1>2. CASE ~ IsPrefix(BOM, b)
    <2>1. IsStrictPrefix(b, BOM) => Len(b) <= 2
      <3> SUFFICES ASSUME IsStrictPrefix(b, BOM), Len(b) = 3 PROVE FALSE
        BY <1>0 DEF IsStrictPrefix, IsPrefix
      <3>1. SubSeq(b, 1, 3) = SubSeq(BOM, 1, 3)
        BY DEF IsStrictPrefix, IsPrefix
      <3> QED
        BY <1>0, <1>2, <3>1 DEF IsPrefix
    <2> QED
      BY <1>2, <2>1 DEF StripLeadingBom
  <1> QED
    BY <1>1, <1>2

LEMMA ReadIInv == ASSUME IInv, Read PROVE IInv'
  <1> USE DEF IInv
  <1>0. Offsets
    OBVIOUS
  <1>1. PICK n \in 0..MaxChunk :
       /\ fed + n <= Len(body)
       /\ fed' = fed + n
       /\ LET bytes == buffer \o SubSeq(body, fed + 1, fed + n) IN
          IF bomPending
          THEN /\ buffer' = StripLeadingBom(bytes).bytes
               /\ bomPending' = StripLeadingBom(bytes).pending
               /\ lineStart' = 0
               /\ scanned' = 0
               /\ event' = NoFields
          ELSE /\ buffer' = bytes
               /\ UNCHANGED <<bomPending, lineStart, scanned, event>>
       /\ credit' = n + 1 + (IF bomPending THEN 2 ELSE 0)
    BY DEF Read
  <1>2. /\ pc = "more" /\ pc' = "frame"
        /\ UNCHANGED <<framing, body>>
    BY DEF Read
  <1>3. n \in Nat
    BY FramingAssumption
  <1> DEFINE chunk == SubSeq(body, fed + 1, fed + n)
             bytes == buffer \o chunk
  <1>4. chunk \in Seq(Symbols) /\ Len(chunk) = n
    <2>1. \A i \in fed + 1 .. fed + n : body[i] \in Symbols
      BY <1>0, <1>1, <1>3 DEF Offsets
    <2>2. fed + 1 \in Int /\ fed + n \in Int /\ fed \in Nat
      BY <1>0, <1>3 DEF Offsets
    <2>3. /\ SubSeq(body, fed + 1, fed + n) \in Seq(Symbols)
          /\ Len(SubSeq(body, fed + 1, fed + n))
               = IF fed + 1 <= fed + n THEN fed + n - (fed + 1) + 1 ELSE 0
      BY <2>1, <2>2, SubSeqProperties
    <2> QED
      BY <1>3, <2>2, <2>3
  <1>5. /\ bytes \in Seq(Symbols) /\ Len(bytes) = Len(buffer) + n
        /\ \A i \in 1..Len(buffer) : bytes[i] = buffer[i]
    <2> HIDE DEF chunk
    <2>1. buffer \in Seq(Symbols) /\ Len(buffer) \in Nat
      BY <1>0 DEF Offsets
    <2> QED
      BY <1>3, <1>4, <2>1, ConcatProperties
  <1> HIDE DEF bytes
  <1>6. CASE bomPending
    <2>1. /\ buffer' = StripLeadingBom(bytes).bytes
          /\ bomPending' = StripLeadingBom(bytes).pending
          /\ lineStart' = 0 /\ scanned' = 0 /\ credit' = n + 3
      BY <1>1, <1>3, <1>6 DEF bytes
    <2>2. /\ buffer' \in Seq(Symbols) /\ Len(buffer') <= Len(buffer) + n
          /\ bomPending' => Len(buffer') <= 2
      BY <1>5, <2>1, StripShape
    <2>3. Offsets' /\ MarkIsShort'
      BY <1>0, <1>1, <1>2, <1>3, <2>1, <2>2 DEF Offsets, MarkIsShort
    <2>4. Covered'
      <3>1. SearchFrom' \in Nat
        BY <2>1 DEF SearchFrom
      <3> QED
        BY <1>0, <1>2, <1>3, <1>6, <2>1, <2>2, <3>1 DEF Offsets, Covered, MarkIsShort
    <2>5. NothingSkipped'
      BY <2>1 DEF NothingSkipped
    <2> QED
      BY <2>3, <2>4, <2>5
  <1>7. CASE ~ bomPending
    <2>0. /\ buffer' = bytes
          /\ UNCHANGED <<bomPending, lineStart, scanned, event>>
      BY <1>1, <1>7 DEF bytes
    <2>a. credit' = n + 1
      BY <1>1, <1>3, <1>7
    <2>1. /\ buffer' = bytes /\ credit' = n + 1
          /\ UNCHANGED <<bomPending, lineStart, scanned>>
      BY <2>0, <2>a
    <2>3. Offsets' /\ MarkIsShort'
      BY <1>0, <1>1, <1>2, <1>3, <1>5, <1>7, <2>1 DEF Offsets, MarkIsShort
    <2>4. Covered'
      <3>1. SearchFrom' \in Nat /\ scanned <= SearchFrom'
        BY <1>0, <2>1 DEF SearchFrom, Offsets
      <3> QED
        BY <1>0, <1>2, <1>3, <1>5, <2>1, <3>1 DEF Offsets, Covered
    <2>5. NothingSkipped'
      <3>1. \A i \in lineStart + 1 .. scanned : buffer'[i] = buffer[i]
        BY <1>0, <1>5, <2>1 DEF Offsets
      <3> QED
        BY <1>2, <2>1, <3>1 DEF NothingSkipped, Terminators
    <2> QED
      BY <2>3, <2>4, <2>5
  <1> QED
    BY <1>6, <1>7

LEMMA NextIInv == IInv /\ [Next]_vars => IInv'
  <1> SUFFICES ASSUME IInv, [Next]_vars PROVE IInv'
    OBVIOUS
  <1>0. Offsets
    BY DEF IInv
  <1>1. CASE SseLine
    BY <1>1, SseLineIInv
  <1>2. CASE SseBlank
    BY <1>2, SseBlankIInv
  <1>3. CASE NdjsonLine
    <2>1. End \in End..Len(buffer) /\ End \in Nat
      BY <1>0, <1>3, SearchShape DEF NdjsonLine, Found, Offsets
    <2> QED
      BY <1>3, <2>1, ConsumeIInv DEF NdjsonLine
  <1>4. CASE JsonRecord
    <2>1. End - 1 \in Nat
      BY <1>0, <1>4, SearchShape DEF JsonRecord, Found, Offsets
    <2> QED
      BY <1>4, <2>1, ConsumeIInv DEF JsonRecord
  <1>5. CASE NeedMore
    BY <1>5, NeedMoreIInv
  <1>6. CASE Flush
    BY <1>6, FlushIInv
  <1>7. CASE Read
    BY <1>7, ReadIInv
  <1>8. CASE Close
    <2>1. SearchFrom' = SearchFrom /\ Terminators' = Terminators
      BY <1>8 DEF Close, SearchFrom, Terminators
    <2>2. SearchFrom \in Nat /\ scanned <= SearchFrom
      BY <1>0, SearchShape
    <2>3. Covered'
      BY <1>0, <1>8, <2>1, <2>2 DEF Close, IInv, Covered, Offsets
    <2>4. Offsets' /\ MarkIsShort'
      BY <1>0, <1>8, FramingAssumption DEF Close, IInv, Offsets, MarkIsShort
    <2>5. NothingSkipped'
      BY <1>8, <2>1 DEF Close, IInv, NothingSkipped
    <2> QED
      BY <2>3, <2>4, <2>5 DEF IInv
  <1>9. CASE UNCHANGED vars
    BY <1>9 DEF vars, IInv, Offsets, MarkIsShort, Covered, NothingSkipped, SearchFrom,
                Terminators
  <1> QED
    BY <1>1, <1>2, <1>3, <1>4, <1>5, <1>6, <1>7, <1>8, <1>9 DEF Next, Ended

\* The invariant holds in every reachable state.
THEOREM FramingInvariant == Spec => []IInv
  BY InitIInv, NextIInv, PTL DEF Spec

\* However a body is cut, the search resumes past no terminator it has not seen.
THEOREM NoTerminatorSkipped == Spec => []NothingSkipped
  <1>1. IInv => NothingSkipped
    BY DEF IInv
  <1> QED
    BY <1>1, FramingInvariant, PTL

\* However a body is cut, a byte is searched once, but for a CR that was held and
\* an undecided byte order mark.
THEOREM EachByteSearchedOnce == Spec => []SearchedOnce
  <1>1. IInv => SearchedOnce
    BY SearchShape DEF IInv, Offsets, Covered, SearchedOnce
  <1> QED
    BY <1>1, FramingInvariant, PTL

-----------------------------------------------------------------------------
\* Induction over the numbers, for a set of them.
LEMMA SetInduction ==
  ASSUME NEW S, 0 \in S, \A n \in Nat : n \in S => n + 1 \in S
  PROVE  Nat \subseteq S
  <1> DEFINE T == {n \in Nat : n \notin S}
  <1>1. SUFFICES ASSUME T # {} PROVE FALSE
    OBVIOUS
  <1>2. T \in SUBSET Nat
    OBVIOUS
  <1>3. Least(T) \in T /\ \A j \in T : Least(T) <= j
    BY <1>1, <1>2, LeastIsIn
  <1> DEFINE x == Least(T)
  <1>4. x \in Nat /\ x \notin S /\ \A j \in T : x <= j
    BY <1>3
  <1> HIDE DEF x
  <1>5. x # 0 /\ x - 1 \in Nat /\ ~ (x <= x - 1) /\ (x - 1) + 1 = x
    BY <1>4
  <1>6. x - 1 \in S
    BY <1>4, <1>5
  <1> QED
    BY <1>4, <1>5, <1>6

-----------------------------------------------------------------------------
\* Sequences of anything.
IsSeq(f) == \E U : f \in Seq(U)

LEMMA SeqIs ==
  ASSUME NEW n \in Nat, NEW f, f = [i \in 1..n |-> f[i]]
  PROVE  IsSeq(f) /\ Len(f) = n /\ DOMAIN f = 1..n
  <1> DEFINE U == {f[i] : i \in 1..n}
  <1>1. f \in [1..n -> U]
    OBVIOUS
  <1>2. f \in Seq(U)
    <2> HIDE DEF U
    <2> QED
      BY <1>1
  <1>3. DOMAIN f = 1..n
    BY <1>1
  <1>4. Len(f) \in Nat /\ DOMAIN f = 1..Len(f)
    <2> HIDE DEF U
    <2> QED
      BY <1>2
  <1>5. Len(f) = n
    <2>1. \A i \in Nat : i \in 1..n <=> i \in 1..Len(f)
      BY <1>3, <1>4
    <2>2. (n \in 1..n <=> n \in 1..Len(f)) /\ (Len(f) \in 1..n <=> Len(f) \in 1..Len(f))
      BY <1>4, <2>1
    <2> QED
      BY <1>4, <2>2
  <1>6. IsSeq(f)
    BY <1>2 DEF IsSeq
  <1> QED
    BY <1>3, <1>5, <1>6

LEMMA SeqHas ==
  ASSUME NEW f, IsSeq(f)
  PROVE  Len(f) \in Nat /\ DOMAIN f = 1..Len(f) /\ f = [i \in 1..Len(f) |-> f[i]]
  <1>1. PICK U : f \in Seq(U)
    BY DEF IsSeq
  <1> QED
    BY <1>1

LEMMA Appended ==
  ASSUME NEW f, IsSeq(f), NEW x
  PROVE  /\ IsSeq(Append(f, x))
         /\ Len(Append(f, x)) = Len(f) + 1
         /\ DOMAIN Append(f, x) = 1..Len(f) + 1
         /\ \A i \in 1..Len(f) : Append(f, x)[i] = f[i]
         /\ Append(f, x)[Len(f) + 1] = x
         /\ Append(f, x) # <<>> /\ Last(Append(f, x)) = x
  <1>1. PICK U : f \in Seq(U)
    BY DEF IsSeq
  <1> DEFINE T == U \cup {x}
             g == Append(f, x)
  <1>2. f \in Seq(T) /\ x \in T
    BY <1>1
  <1>3. /\ g \in Seq(T) /\ Len(g) = Len(f) + 1 /\ Len(f) \in Nat
        /\ DOMAIN g = 1..Len(f) + 1
        /\ g[Len(f) + 1] = x /\ \A i \in 1..Len(f) : g[i] = f[i]
    <2> HIDE DEF T
    <2> QED
      BY <1>2, AppendProperties
  <1> HIDE DEF g, T
  <1>4. IsSeq(g) /\ g # <<>> /\ Last(g) = x
    BY <1>3 DEF IsSeq, Last
  <1> QED
    BY <1>3, <1>4 DEF g

\* Two sequences are one if they have the same items.
LEMMA SameSeq ==
  ASSUME NEW f, NEW g, IsSeq(f), IsSeq(g), Len(f) = Len(g), \A i \in 1..Len(f) : f[i] = g[i]
  PROVE  f = g
  <1>1. f = [i \in 1..Len(f) |-> f[i]] /\ g = [i \in 1..Len(f) |-> g[i]]
    BY SeqHas
  <1> QED
    BY <1>1

LEMMA IsAppended ==
  ASSUME NEW g, IsSeq(g), NEW x, NEW f, IsSeq(f), Len(f) = Len(g) + 1,
         \A i \in 1..Len(g) : f[i] = g[i], f[Len(g) + 1] = x
  PROVE  f = Append(g, x)
  <1>1. Len(g) \in Nat
    BY SeqHas
  <1>2. \A i \in 1..Len(f) : i \in 1..Len(g) \/ i = Len(g) + 1
    BY <1>1
  <1> DEFINE h == Append(g, x)
  <1>3. IsSeq(h) /\ Len(h) = Len(g) + 1 /\ h[Len(g) + 1] = x /\ \A i \in 1..Len(g) : h[i] = g[i]
    BY Appended
  <1> HIDE DEF h
  <1>4. \A i \in 1..Len(f) : f[i] = h[i]
    BY <1>2, <1>3
  <1>5. f = h
    BY <1>3, <1>4, SameSeq
  <1> QED
    BY <1>5 DEF h

LEMMA Joined2 ==
  ASSUME NEW f, IsSeq(f)
  PROVE  f \o <<>> = f /\ \A x : f \o <<x>> = Append(f, x)
  <1>1. PICK U : f \in Seq(U)
    BY DEF IsSeq
  <1>2. f \o <<>> = f
    BY <1>1
  <1>3. ASSUME NEW x PROVE f \o <<x>> = Append(f, x)
    <2> DEFINE T == U \cup {x}
    <2>1. f \in Seq(T) /\ x \in T
      BY <1>1
    <2> HIDE DEF T
    <2> QED
      BY <2>1
  <1> QED
    BY <1>2, <1>3

-----------------------------------------------------------------------------
\* The k-th of some numbers.
Upto(S, i) == Cardinality({j \in S : j <= i})
Kth(S, k) == {i \in S : Cardinality({j \in S : j <= i}) = k}

LEMMA NthSnoc ==
  ASSUME NEW S \in SUBSET Nat, IsFiniteSet(S), NEW e \in Nat, \A i \in S : i < e
  PROVE  /\ Cardinality(S) \in Nat
         /\ Cardinality(S \cup {e}) = Cardinality(S) + 1
         /\ IsFiniteSet(S \cup {e}) /\ S \cup {e} \in SUBSET Nat
         /\ \A k \in 1..Cardinality(S) : Nth(S \cup {e}, k) = Nth(S, k)
         /\ Nth(S \cup {e}, Cardinality(S) + 1) = e
  <1> DEFINE T == S \cup {e}
             n == Cardinality(S)
  <1>1. e \notin S
    OBVIOUS
  <1>2. n \in Nat /\ Cardinality(T) = n + 1 /\ IsFiniteSet(T)
    BY <1>1, FS_CardinalityType, FS_AddElement
  <1>3. \A i \in S : {j \in T : j <= i} = {j \in S : j <= i}
    OBVIOUS
  <1>4. {j \in T : j <= e} = T
    <2>1. \A j \in T : j <= e
      OBVIOUS
    <2> HIDE DEF T
    <2> QED
      BY <2>1
  <1>5. ASSUME NEW k \in 1..n PROVE Nth(T, k) = Nth(S, k)
    <2>1. {i \in T : Cardinality({j \in T : j <= i}) = k}
            = {i \in S : Cardinality({j \in S : j <= i}) = k}
      <3> HIDE DEF n
      <3> SUFFICES ASSUME NEW i \in T
                   PROVE  Cardinality({j \in T : j <= i}) = k
                            <=> i \in S /\ Cardinality({j \in S : j <= i}) = k
        OBVIOUS
      <3>1. CASE i \in S
        BY <1>3, <3>1
      <3>2. CASE i = e
        <4>1. Cardinality({j \in T : j <= i}) = n + 1
          BY <1>2, <1>4, <3>2
        <4>2. n + 1 # k
          BY <1>2
        <4> QED
          BY <1>1, <3>2, <4>1, <4>2
      <3> QED
        BY <3>1, <3>2
    <2> QED
      BY <2>1 DEF Nth
  <1>6. Nth(T, n + 1) = e
    <2>1. ASSUME NEW i \in S PROVE Cardinality({j \in T : j <= i}) # n + 1
      <3>1. {j \in S : j <= i} \subseteq S
        OBVIOUS
      <3>2. Cardinality({j \in S : j <= i}) <= n
        BY <3>1, FS_Subset
      <3> QED
        BY <1>2, <1>3, <3>2
    <2>2. {i \in T : Cardinality({j \in T : j <= i}) = n + 1} = {e}
      <3> HIDE DEF n
      <3>1. \A i \in T : i \in S \/ i = e
        OBVIOUS
      <3>2. Cardinality({j \in T : j <= e}) = n + 1
        BY <1>2, <1>4
      <3> QED
        BY <2>1, <3>1, <3>2
    <2>3. Least({e}) = e
      <3>1. {e} \in SUBSET Nat /\ {e} # {}
        OBVIOUS
      <3>2. Least({e}) \in {e}
        BY <3>1, LeastIsIn
      <3> QED
        BY <3>2
    <2> QED
      BY <2>2, <2>3 DEF Nth
  <1> QED
    BY <1>2, <1>5, <1>6

\* It is one of them.
LEMMA NthIsIn ==
  ASSUME NEW m \in Nat, NEW S \in SUBSET (0..m)
  PROVE  /\ IsFiniteSet(S) /\ Cardinality(S) \in Nat
         /\ \A k \in 1..Cardinality(S) : Nth(S, k) \in S
  <1> DEFINE Fine(R) == /\ IsFiniteSet(R) /\ Cardinality(R) \in Nat
                        /\ \A k \in 1..Cardinality(R) : Nth(R, k) \in R
             G == {l \in Nat : \A R \in SUBSET (0..l) : Fine(R)}
  <1>1. Fine({})
    <2>1. IsFiniteSet({}) /\ Cardinality({}) = 0
      BY FS_EmptySet
    <2> QED
      BY <2>1
  <1>2. ASSUME NEW R \in SUBSET Nat, Fine(R), NEW e \in Nat, \A i \in R : i < e
        PROVE  Fine(R \cup {e})
    <2>1. /\ Cardinality(R) \in Nat
          /\ Cardinality(R \cup {e}) = Cardinality(R) + 1
          /\ IsFiniteSet(R \cup {e})
          /\ \A k \in 1..Cardinality(R) : Nth(R \cup {e}, k) = Nth(R, k)
          /\ Nth(R \cup {e}, Cardinality(R) + 1) = e
      BY <1>2, NthSnoc
    <2>2. ASSUME NEW k \in 1..Cardinality(R) + 1 PROVE Nth(R \cup {e}, k) \in R \cup {e}
      <3>1. k \in 1..Cardinality(R) \/ k = Cardinality(R) + 1
        BY <2>1
      <3> QED
        BY <1>2, <2>1, <3>1
    <2> QED
      BY <2>1, <2>2
  <1>3. 0 \in G
    <2> SUFFICES ASSUME NEW R \in SUBSET (0..0) PROVE Fine(R)
      OBVIOUS
    <2>1. R = {} \/ R = {} \cup {0}
      <3>1. \A i \in R : i = 0
        OBVIOUS
      <3> QED
        BY <3>1
    <2> HIDE DEF Fine
    <2> QED
      BY <1>1, <1>2, <2>1
  <1>4. ASSUME NEW l \in Nat, l \in G PROVE l + 1 \in G
    <2> SUFFICES ASSUME NEW R \in SUBSET (0..l + 1) PROVE Fine(R)
      OBVIOUS
    <2> DEFINE Q == R \ {l + 1}
    <2>1. Q \in SUBSET (0..l) /\ (R = Q \/ R = Q \cup {l + 1})
      OBVIOUS
    <2>2. Fine(Q)
      BY <1>4, <2>1
    <2>3. Q \in SUBSET Nat /\ \A i \in Q : i < l + 1
      BY <2>1
    <2> HIDE DEF Fine, Q
    <2> QED
      BY <1>2, <2>1, <2>2, <2>3
  <1>5. Nat \subseteq G
    <2> HIDE DEF G
    <2> QED
      BY <1>3, <1>4, SetInduction
  <1> QED
    BY <1>5

\* Where the k-th piece begins, and what the pieces are, when one is added.
LEMMA PiecesSnoc ==
  ASSUME NEW S \in SUBSET Nat, IsFiniteSet(S), NEW e \in Nat, \A i \in S : i < e, NEW s
  PROVE  /\ IsSeq(Pieces(s, S)) /\ Len(Pieces(s, S)) = Cardinality(S)
         /\ Pieces(s, S \cup {e})
              = Append(Pieces(s, S), SubSeq(s, Begin(S, Cardinality(S) + 1), e))
         /\ Begin(S \cup {e}, Cardinality(S \cup {e}) + 1) = e + 1
         /\ IsFiniteSet(S \cup {e}) /\ Cardinality(S \cup {e}) = Cardinality(S) + 1
         /\ Cardinality(S) \in Nat
  <1> DEFINE T == S \cup {e}
             n == Cardinality(S)
             p == Pieces(s, S)
             q == Pieces(s, T)
             x == SubSeq(s, Begin(S, n + 1), e)
  <1>1. /\ n \in Nat /\ Cardinality(T) = n + 1 /\ IsFiniteSet(T)
        /\ \A k \in 1..n : Nth(T, k) = Nth(S, k)
        /\ Nth(T, n + 1) = e
    BY NthSnoc
  <1>2. p = [k \in 1..n |-> SubSeq(s, Begin(S, k), Nth(S, k))]
    BY DEF Pieces
  <1>3. q = [k \in 1..n + 1 |-> SubSeq(s, Begin(T, k), Nth(T, k))]
    BY <1>1 DEF Pieces
  <1> HIDE DEF T, n, p, q
  <1>4. IsSeq(p) /\ Len(p) = n /\ DOMAIN p = 1..n
    <2>1. p = [k \in 1..n |-> p[k]]
      BY <1>2
    <2> QED
      BY <1>1, <2>1, SeqIs
  <1>5. IsSeq(q) /\ Len(q) = n + 1 /\ DOMAIN q = 1..n + 1
    <2>1. q = [k \in 1..n + 1 |-> q[k]]
      BY <1>3
    <2> QED
      BY <1>1, <2>1, SeqIs
  <1>6. ASSUME NEW k \in 1..n + 1 PROVE Begin(T, k) = Begin(S, k)
    <2>1. k # 1 => k - 1 \in 1..n
      BY <1>1
    <2> QED
      BY <1>1, <2>1 DEF Begin
  <1>7. \A k \in 1..n : q[k] = p[k]
    <2> TAKE k \in 1..n
    <2>1. k \in 1..n + 1
      BY <1>1
    <2> QED
      BY <1>1, <1>2, <1>3, <1>6, <2>1
  <1>8. q[n + 1] = x
    <2>1. n + 1 \in 1..n + 1
      BY <1>1
    <2> QED
      BY <1>1, <1>3, <1>6, <2>1
  <1>9. q = Append(p, x)
    <2> HIDE DEF x
    <2> QED
      BY <1>4, <1>5, <1>7, <1>8, IsAppended
  <1>10. Begin(T, (n + 1) + 1) = e + 1
    <2>1. (n + 1) + 1 # 1 /\ ((n + 1) + 1) - 1 = n + 1
      BY <1>1
    <2> QED
      BY <1>1, <2>1 DEF Begin
  <1> QED
    BY <1>1, <1>4, <1>9, <1>10 DEF T, n, p, q

\* The pieces of bytes do not change when more follow.
LEMMA PiecesSame ==
  ASSUME NEW U, NEW s \in Seq(U), NEW t \in Seq(U), Len(s) <= Len(t),
         \A i \in 1..Len(s) : s[i] = t[i],
         NEW S \in SUBSET (0..Len(s))
  PROVE  Pieces(s, S) = Pieces(t, S)
  <1>1. Len(s) \in Nat
    OBVIOUS
  <1>2. Cardinality(S) \in Nat /\ \A k \in 1..Cardinality(S) : Nth(S, k) \in S
    BY <1>1, NthIsIn
  <1>3. ASSUME NEW k \in 1..Cardinality(S)
        PROVE  SubSeq(s, Begin(S, k), Nth(S, k)) = SubSeq(t, Begin(S, k), Nth(S, k))
    <2> DEFINE a == Begin(S, k)
               b == Nth(S, k)
    <2>1. b \in 0..Len(s)
      BY <1>2
    <2>2. a \in Nat /\ a >= 1
      <3>1. CASE k = 1
        BY <3>1 DEF Begin
      <3>2. CASE k # 1
        <4>1. k - 1 \in 1..Cardinality(S)
          BY <1>2, <3>2
        <4>2. Nth(S, k - 1) \in 0..Len(s)
          BY <1>2, <4>1
        <4> QED
          BY <1>1, <3>2, <4>2 DEF Begin
      <3> QED
        BY <3>1, <3>2
    <2> HIDE DEF a, b
    <2>3. SubSeq(s, a, b) = [i \in 1..(1 + b - a) |-> s[a + i - 1]]
      BY <2>1, <2>2
    <2>4. SubSeq(t, a, b) = [i \in 1..(1 + b - a) |-> t[a + i - 1]]
      BY <2>1, <2>2
    <2>5. \A i \in 1..(1 + b - a) : a + i - 1 \in 1..Len(s)
      BY <1>1, <2>1, <2>2
    <2>6. \A i \in 1..(1 + b - a) : s[a + i - 1] = t[a + i - 1]
      BY <2>5
    <2>7. [i \in 1..(1 + b - a) |-> s[a + i - 1]] = [i \in 1..(1 + b - a) |-> t[a + i - 1]]
      BY <2>6
    <2> QED
      BY <2>3, <2>4, <2>7 DEF a, b
  <1> QED
    BY <1>3 DEF Pieces

-----------------------------------------------------------------------------
\* What stands at some positions.
LEMMA PickedSnoc ==
  ASSUME NEW s, IsSeq(s), NEW x, NEW S \in SUBSET (1..Len(s))
  PROVE  /\ IsSeq(Picked(s, S)) /\ Len(Picked(s, S)) = Cardinality(S)
         /\ \A k \in DOMAIN Picked(s, S) : \E i \in S : Picked(s, S)[k] = s[i]
         /\ Picked(Append(s, x), S) = Picked(s, S)
         /\ Picked(Append(s, x), S \cup {Len(s) + 1}) = Append(Picked(s, S), x)
  <1> DEFINE e == Len(s) + 1
             T == S \cup {e}
             n == Cardinality(S)
             t == Append(s, x)
             p == Picked(s, S)
             q == Picked(t, T)
             r == Picked(t, S)
  <1>1. Len(s) \in Nat /\ t[e] = x /\ \A i \in 1..Len(s) : t[i] = s[i]
    BY Appended, SeqHas
  <1>2. IsFiniteSet(S) /\ n \in Nat /\ \A k \in 1..n : Nth(S, k) \in S
    <2>1. S \in SUBSET (0..Len(s))
      BY <1>1
    <2> QED
      BY <1>1, <2>1, NthIsIn
  <1>3. /\ Cardinality(T) = n + 1
        /\ \A k \in 1..n : Nth(T, k) = Nth(S, k)
        /\ Nth(T, n + 1) = e
    <2>1. S \in SUBSET Nat /\ e \in Nat /\ \A i \in S : i < e
      BY <1>1
    <2> HIDE DEF e
    <2> QED
      BY <1>2, <2>1, NthSnoc
  <1>4. p = [k \in 1..n |-> s[Nth(S, k)]] /\ r = [k \in 1..n |-> t[Nth(S, k)]]
    BY DEF Picked
  <1>5. q = [k \in 1..n + 1 |-> t[Nth(T, k)]]
    BY <1>3 DEF Picked
  <1> HIDE DEF e, T, n, t, p, q, r
  <1>6. ASSUME NEW k \in 1..n PROVE Nth(S, k) \in 1..Len(s) /\ t[Nth(S, k)] = s[Nth(S, k)]
    BY <1>1, <1>2
  <1>7. r = p
    BY <1>4, <1>6
  <1>8. IsSeq(p) /\ Len(p) = n /\ DOMAIN p = 1..n
    <2>1. p = [k \in 1..n |-> p[k]]
      BY <1>4
    <2> QED
      BY <1>2, <2>1, SeqIs
  <1>9. IsSeq(q) /\ Len(q) = n + 1
    <2>1. q = [k \in 1..n + 1 |-> q[k]] /\ n + 1 \in Nat
      BY <1>2, <1>5
    <2> QED
      BY <2>1, SeqIs
  <1>10. (\A k \in 1..n : q[k] = p[k]) /\ q[n + 1] = x
    <2>1. n + 1 \in 1..n + 1 /\ \A k \in 1..n : k \in 1..n + 1
      BY <1>2
    <2> QED
      BY <1>1, <1>3, <1>4, <1>5, <1>6, <2>1
  <1>11. q = Append(p, x)
    BY <1>8, <1>9, <1>10, IsAppended
  <1>12. \A k \in DOMAIN p : \E i \in S : p[k] = s[i]
    BY <1>2, <1>4, <1>8
  <1> QED
    BY <1>7, <1>8, <1>11, <1>12 DEF e, T, n, t, p, q, r

\* Of nothing nothing is picked.
LEMMA PickedNone ==
  ASSUME NEW s PROVE Picked(s, {}) = <<>> /\ Pieces(s, {}) = <<>> /\ Cardinality({}) = 0
  <1>1. Cardinality({}) = 0
    BY FS_EmptySet
  <1> QED
    BY <1>1 DEF Picked, Pieces

-----------------------------------------------------------------------------
\* One payload more.
LEMMA PayloadsSnoc ==
  ASSUME NEW parts, IsSeq(parts), NEW p
  PROVE  /\ IsSeq(Payloads(parts))
         /\ Payloads(Append(parts, p)) = Payloads(parts) \o FrameItem(p)
  <1> DEFINE S == {k \in DOMAIN parts : parts[k] # <<>>}
             n == Len(parts)
             more == Append(parts, p)
             T == {k \in DOMAIN more : more[k] # <<>>}
             solid == Solid(parts)
  <1>1. /\ n \in Nat /\ DOMAIN parts = 1..n /\ DOMAIN more = 1..n + 1
        /\ more[n + 1] = p /\ \A k \in 1..n : more[k] = parts[k]
        /\ \A k \in 1..n + 1 : k \in 1..n \/ k = n + 1
        /\ \A k \in 1..n : k \in 1..n + 1
        /\ n + 1 \in 1..n + 1
    BY SeqHas, Appended
  <1>2. T = IF p = <<>> THEN S ELSE S \cup {n + 1}
    <2> HIDE DEF more, n
    <2>1. CASE p = <<>>
      BY <1>1, <2>1
    <2>2. CASE p # <<>>
      BY <1>1, <2>2
    <2> QED
      BY <2>1, <2>2
  <1>3. S \in SUBSET (1..n)
    BY <1>1
  <1>4. /\ IsSeq(solid)
        /\ Solid(more) = IF p = <<>> THEN solid ELSE Append(solid, p)
    <2>1. /\ IsSeq(Picked(parts, S))
          /\ Picked(more, S) = Picked(parts, S)
          /\ Picked(more, S \cup {n + 1}) = Append(Picked(parts, S), p)
      <3> HIDE DEF S
      <3> QED
        BY <1>3, PickedSnoc DEF n
    <2>2. Solid(more) = Picked(more, T) /\ solid = Picked(parts, S)
      BY DEF Solid
    <2> HIDE DEF S, T, more, solid
    <2> QED
      BY <1>2, <2>1, <2>2
  <1> DEFINE m == Len(solid)
             old == Payloads(parts)
             new == Payloads(more)
             item == [data |-> <<p>>, id |-> {}]
  <1> HIDE DEF S, T, solid
  <1>5. m \in Nat /\ DOMAIN solid = 1..m
    BY <1>4, SeqHas
  <1>6. old = [k \in 1..m |-> [data |-> <<solid[k]>>, id |-> {}]]
    BY <1>5 DEF Payloads, solid
  <1>7. IsSeq(old) /\ Len(old) = m
    <2>1. old = [k \in 1..m |-> old[k]]
      BY <1>6
    <2> HIDE DEF old, m
    <2> QED
      BY <1>5, <2>1, SeqIs
  <1>8. CASE p = <<>>
    <2>1. Solid(more) = Solid(parts)
      BY <1>4, <1>8 DEF solid
    <2>2. new = old
      <3> HIDE DEF more
      <3> QED
        BY <2>1 DEF Payloads
    <2>3. FrameItem(p) = <<>>
      BY <1>8 DEF FrameItem
    <2> HIDE DEF old, new
    <2> QED
      BY <1>7, <2>2, <2>3, Joined2 DEF old, new, more
  <1>9. CASE p # <<>>
    <2>1. FrameItem(p) = <<item>>
      BY <1>9 DEF FrameItem
    <2> DEFINE longer == Append(solid, p)
    <2>2. DOMAIN longer = 1..m + 1 /\ longer[m + 1] = p /\ \A k \in 1..m : longer[k] = solid[k]
      BY <1>4, Appended
    <2>3. new = [k \in 1..m + 1 |-> [data |-> <<longer[k]>>, id |-> {}]]
      <3>1. Solid(more) = longer
        BY <1>4, <1>9
      <3> HIDE DEF longer, more
      <3> QED
        BY <2>2, <3>1 DEF Payloads
    <2> HIDE DEF longer, m, old, new, more, item
    <2>4. IsSeq(new) /\ Len(new) = m + 1
      <3>1. new = [k \in 1..m + 1 |-> new[k]] /\ m + 1 \in Nat
        BY <1>5, <2>3
      <3> QED
        BY <3>1, SeqIs
    <2>5. (\A k \in 1..m : new[k] = old[k]) /\ new[m + 1] = item
      <3>1. m + 1 \in 1..m + 1 /\ \A k \in 1..m : k \in 1..m + 1
        BY <1>5
      <3>2. new[m + 1] = [data |-> <<p>>, id |-> {}]
        BY <2>2, <2>3, <3>1
      <3>3. \A k \in 1..m : new[k] = old[k]
        BY <1>6, <2>2, <2>3, <3>1
      <3> QED
        BY <3>2, <3>3 DEF item
    <2>6. new = Append(old, item)
      BY <1>7, <2>4, <2>5, IsAppended
    <2> QED
      BY <1>7, <2>1, <2>6, Joined2 DEF new, old, more
  <1> QED
    BY <1>7, <1>8, <1>9 DEF old

LEMMA PayloadsNone == Payloads(<<>>) = <<>>
  <1>1. {k \in DOMAIN <<>> : <<>>[k] # <<>>} = {} /\ DOMAIN <<>> = {}
    OBVIOUS
  <1>2. Solid(<<>>) = <<>>
    BY <1>1, PickedNone DEF Solid
  <1> QED
    BY <1>1, <1>2 DEF Payloads

\* The lines that open with a symbol, and the fields they make, one line more.
LEMMA OpenedSnoc ==
  ASSUME NEW lines, IsSeq(lines), NEW l, NEW c
  PROVE  /\ IsSeq(OpenedBy(lines, c))
         /\ OpenedBy(Append(lines, l), c)
              = IF l # <<>> /\ l[1] = c THEN Append(OpenedBy(lines, c), l) ELSE OpenedBy(lines, c)
  <1> DEFINE Opens(x) == x # <<>> /\ x[1] = c
             S == {k \in DOMAIN lines : Opens(lines[k])}
             n == Len(lines)
             more == Append(lines, l)
             T == {k \in DOMAIN more : Opens(more[k])}
  <1>1. /\ n \in Nat /\ DOMAIN lines = 1..n /\ DOMAIN more = 1..n + 1
        /\ more[n + 1] = l /\ \A k \in 1..n : more[k] = lines[k]
        /\ \A k \in 1..n + 1 : k \in 1..n \/ k = n + 1
        /\ \A k \in 1..n : k \in 1..n + 1
        /\ n + 1 \in 1..n + 1
    BY SeqHas, Appended
  <1>0. OpenedBy(lines, c) = Picked(lines, S) /\ OpenedBy(more, c) = Picked(more, T)
    BY DEF OpenedBy
  <1> HIDE DEF Opens
  <1>2. T = IF Opens(l) THEN S \cup {n + 1} ELSE S
    <2> HIDE DEF more, n
    <2>1. CASE Opens(l)
      BY <1>1, <2>1
    <2>2. CASE ~ Opens(l)
      BY <1>1, <2>2
    <2> QED
      BY <2>1, <2>2
  <1>3. S \in SUBSET (1..n)
    BY <1>1
  <1>4. /\ IsSeq(Picked(lines, S))
        /\ Picked(more, S) = Picked(lines, S)
        /\ Picked(more, S \cup {n + 1}) = Append(Picked(lines, S), l)
    <2> HIDE DEF S
    <2> QED
      BY <1>3, PickedSnoc DEF n
  <1> HIDE DEF S, T
  <1>5. CASE Opens(l)
    BY <1>0, <1>2, <1>4, <1>5 DEF Opens, more
  <1>6. CASE ~ Opens(l)
    BY <1>0, <1>2, <1>4, <1>6 DEF Opens, more
  <1> QED
    BY <1>5, <1>6

DataOf(lines) == [k \in DOMAIN OpenedBy(lines, "d") |-> Tail(OpenedBy(lines, "d")[k])]
IdOf(lines) == IF OpenedBy(lines, "i") = <<>> THEN {} ELSE {Tail(Last(OpenedBy(lines, "i")))}

LEMMA DataSnoc ==
  ASSUME NEW lines, IsSeq(lines), NEW l
  PROVE  DataOf(Append(lines, l)) = IF l # <<>> /\ l[1] = "d" THEN Append(DataOf(lines), Tail(l))
                                    ELSE DataOf(lines)
  <1> DEFINE o == OpenedBy(lines, "d")
             q == OpenedBy(Append(lines, l), "d")
             m == Len(o)
             old == DataOf(lines)
             new == DataOf(Append(lines, l))
  <1>1. IsSeq(o) /\ q = IF l # <<>> /\ l[1] = "d" THEN Append(o, l) ELSE o
    BY OpenedSnoc
  <1>2. old = [k \in DOMAIN o |-> Tail(o[k])] /\ new = [k \in DOMAIN q |-> Tail(q[k])]
    BY DEF DataOf
  <1> HIDE DEF o, q, old, new
  <1>3. CASE ~ (l # <<>> /\ l[1] = "d")
    BY <1>1, <1>2, <1>3 DEF old, new
  <1>4. CASE l # <<>> /\ l[1] = "d"
    <2>1. /\ m \in Nat /\ DOMAIN o = 1..m /\ DOMAIN q = 1..m + 1
          /\ q[m + 1] = l /\ \A k \in 1..m : q[k] = o[k]
          /\ \A k \in 1..m : k \in 1..m + 1
          /\ m + 1 \in 1..m + 1
      BY <1>1, <1>4, SeqHas, Appended
    <2> HIDE DEF m
    <2>2. IsSeq(old) /\ Len(old) = m
      <3>1. old = [k \in 1..m |-> old[k]]
        BY <1>2, <2>1
      <3> QED
        BY <2>1, <3>1, SeqIs
    <2>3. IsSeq(new) /\ Len(new) = m + 1
      <3>1. new = [k \in 1..m + 1 |-> new[k]] /\ m + 1 \in Nat
        BY <1>2, <2>1
      <3> QED
        BY <3>1, SeqIs
    <2>4. (\A k \in 1..m : new[k] = old[k]) /\ new[m + 1] = Tail(l)
      BY <1>2, <2>1
    <2>5. new = Append(old, Tail(l))
      BY <2>2, <2>3, <2>4, IsAppended
    <2> QED
      BY <1>4, <2>5 DEF old, new
  <1> QED
    BY <1>3, <1>4

LEMMA IdSnoc ==
  ASSUME NEW lines, IsSeq(lines), NEW l
  PROVE  IdOf(Append(lines, l)) = IF l # <<>> /\ l[1] = "i" THEN {Tail(l)} ELSE IdOf(lines)
  <1>1. /\ IsSeq(OpenedBy(lines, "i"))
        /\ OpenedBy(Append(lines, l), "i")
              = IF l # <<>> /\ l[1] = "i" THEN Append(OpenedBy(lines, "i"), l)
                ELSE OpenedBy(lines, "i")
    BY OpenedSnoc
  <1>2. CASE ~ (l # <<>> /\ l[1] = "i")
    BY <1>1, <1>2 DEF IdOf
  <1>3. CASE l # <<>> /\ l[1] = "i"
    <2> DEFINE q == Append(OpenedBy(lines, "i"), l)
    <2>1. q # <<>> /\ Last(q) = l
      BY <1>1, Appended
    <2>2. OpenedBy(Append(lines, l), "i") = q
      BY <1>1, <1>3
    <2> HIDE DEF q
    <2>3. IdOf(Append(lines, l)) = {Tail(l)}
      BY <2>1, <2>2 DEF IdOf
    <2> QED
      BY <1>3, <2>3
  <1> QED
    BY <1>2, <1>3

\* The fields of some lines are those of all but the last with that one applied.
LEMMA FieldsSnoc ==
  ASSUME NEW lines, IsSeq(lines), NEW l
  PROVE  FieldsOf(Append(lines, l)) = AppendSseField(l, FieldsOf(lines))
  <1>1. /\ FieldsOf(lines) = [data |-> DataOf(lines), id |-> IdOf(lines)]
        /\ FieldsOf(Append(lines, l))
             = [data |-> DataOf(Append(lines, l)), id |-> IdOf(Append(lines, l))]
    BY DEF FieldsOf, DataOf, IdOf
  <1> DEFINE d == DataOf(lines)
             i == IdOf(lines)
             d2 == DataOf(Append(lines, l))
             i2 == IdOf(Append(lines, l))
  <1>2. d2 = IF l # <<>> /\ l[1] = "d" THEN Append(d, Tail(l)) ELSE d
    BY DataSnoc
  <1>3. i2 = IF l # <<>> /\ l[1] = "i" THEN {Tail(l)} ELSE i
    BY IdSnoc
  <1> HIDE DEF d, i, d2, i2
  <1>4. AppendSseField(l, [data |-> d, id |-> i]) = [data |-> d2, id |-> i2]
    <2>1. CASE l = <<>>
      BY <1>2, <1>3, <2>1 DEF AppendSseField
    <2>2. CASE l # <<>> /\ l[1] = "d"
      BY <1>2, <1>3, <2>2 DEF AppendSseField
    <2>3. CASE l # <<>> /\ l[1] = "i"
      BY <1>2, <1>3, <2>3 DEF AppendSseField
    <2>4. CASE l # <<>> /\ l[1] # "d" /\ l[1] # "i"
      BY <1>2, <1>3, <2>4 DEF AppendSseField
    <2> QED
      BY <2>1, <2>2, <2>3, <2>4
  <1> QED
    BY <1>1, <1>4 DEF d, i, d2, i2

LEMMA FieldsNone == FieldsOf(<<>>) = NoFields
  <1>1. \A c : OpenedBy(<<>>, c) = <<>>
    <2> TAKE c
    <2>1. {k \in DOMAIN <<>> : <<>>[k] # <<>> /\ <<>>[k][1] = c} = {}
      OBVIOUS
    <2> QED
      BY <2>1, PickedNone DEF OpenedBy
  <1>2. [k \in DOMAIN <<>> |-> Tail(<<>>[k])] = <<>>
    OBVIOUS
  <1> QED
    BY <1>1, <1>2 DEF FieldsOf, NoFields

\* The items of some events, one event more.
LEMMA DispatchedSnoc ==
  ASSUME NEW events, IsSeq(events), NEW e
  PROVE  /\ IsSeq(Dispatched(events))
         /\ Dispatched(Append(events, e)) = Dispatched(events) \o FinishSseFields(FieldsOf(e))
  <1> DEFINE n == Len(events)
             more == Append(events, e)
             x == FieldsOf(e)
             f == [k \in DOMAIN events |-> FieldsOf(events[k])]
             g == [k \in DOMAIN more |-> FieldsOf(more[k])]
             S == {k \in DOMAIN events : f[k] # NoFields}
             T == {k \in DOMAIN more : g[k] # NoFields}
  <1>1. /\ n \in Nat /\ DOMAIN events = 1..n /\ DOMAIN more = 1..n + 1
        /\ more[n + 1] = e /\ \A k \in 1..n : more[k] = events[k]
        /\ \A k \in 1..n + 1 : k \in 1..n \/ k = n + 1
        /\ \A k \in 1..n : k \in 1..n + 1
        /\ n + 1 \in 1..n + 1
    BY SeqHas, Appended
  <1>2. Dispatched(events) = Picked(f, S) /\ Dispatched(more) = Picked(g, T)
    BY DEF Dispatched
  <1>3. /\ DOMAIN f = 1..n /\ DOMAIN g = 1..n + 1
        /\ g[n + 1] = x /\ \A k \in 1..n : g[k] = f[k]
    <2> HIDE DEF more
    <2> QED
      BY <1>1
  <1>4. f = [k \in 1..n |-> f[k]] /\ g = [k \in 1..n + 1 |-> g[k]]
    <2> HIDE DEF more
    <2> QED
      BY <1>1
  <1>5. S \in SUBSET (1..n) /\ T = IF x = NoFields THEN S ELSE S \cup {n + 1}
    <2> HIDE DEF f, g, x, more, n
    <2>1. CASE x = NoFields
      BY <1>1, <1>3, <2>1
    <2>2. CASE x # NoFields
      BY <1>1, <1>3, <2>2
    <2> QED
      BY <2>1, <2>2
  <1> HIDE DEF f, g, S, T, x, more, n
  <1>6. IsSeq(f) /\ Len(f) = n
    BY <1>1, <1>4, SeqIs
  <1>7. IsSeq(g) /\ Len(g) = n + 1
    <2>1. n + 1 \in Nat
      BY <1>1
    <2> QED
      BY <1>4, <2>1, SeqIs
  <1>8. g = Append(f, x)
    BY <1>3, <1>6, <1>7, IsAppended
  <1>9. /\ IsSeq(Picked(f, S))
        /\ Picked(g, S) = Picked(f, S)
        /\ Picked(g, S \cup {n + 1}) = Append(Picked(f, S), x)
    BY <1>5, <1>6, <1>8, PickedSnoc
  <1>10. CASE x = NoFields
    <2>1. FinishSseFields(x) = <<>>
      BY <1>10 DEF FinishSseFields
    <2>2. Dispatched(more) = Dispatched(events)
      BY <1>2, <1>5, <1>9, <1>10
    <2> QED
      BY <1>2, <1>9, <2>1, <2>2, Joined2 DEF x, more
  <1>11. CASE x # NoFields
    <2>1. FinishSseFields(x) = <<x>>
      BY <1>11 DEF FinishSseFields
    <2>2. Dispatched(more) = Append(Dispatched(events), x)
      BY <1>2, <1>5, <1>9, <1>11
    <2> QED
      BY <1>2, <1>9, <2>1, <2>2, Joined2 DEF x, more
  <1> QED
    BY <1>10, <1>11

-----------------------------------------------------------------------------
\* What some lines come to: the items of the events that are over, and the fields of
\* the one that is not.
Over(lines) == Dispatched(Pieces(lines, Blanks(lines)))
Pending(lines) == FieldsOf(Rest(lines, Blanks(lines)))

LEMMA NoLines == Over(<<>>) = <<>> /\ Pending(<<>>) = NoFields
  <1>1. Blanks(<<>>) = {}
    BY DEF Blanks
  <1>2. Pieces(<<>>, {}) = <<>> /\ Cardinality({}) = 0
    BY PickedNone
  <1>3. Dispatched(<<>>) = <<>>
    <2>1. {k \in DOMAIN <<>> : [j \in DOMAIN <<>> |-> FieldsOf(<<>>[j])][k] # NoFields} = {}
      OBVIOUS
    <2> QED
      BY <2>1, PickedNone DEF Dispatched
  <1>4. Rest(<<>>, {}) = <<>>
    <2>1. Begin({}, 1) = 1
      BY DEF Begin
    <2>2. SubSeq(<<>>, 1, 0) = <<>>
      OBVIOUS
    <2> QED
      BY <1>2, <2>1, <2>2 DEF Rest, From
  <1> QED
    BY <1>1, <1>2, <1>3, <1>4, FieldsNone DEF Over, Pending

\* Where the last event begins.
LEMMA BeginIs ==
  ASSUME NEW n \in Nat, NEW B \in SUBSET (1..n)
  PROVE  /\ Begin(B, Cardinality(B) + 1) \in 1..n + 1
         /\ IsFiniteSet(B) /\ Cardinality(B) \in Nat
  <1> DEFINE c == Cardinality(B)
  <1>1. IsFiniteSet(B) /\ c \in Nat /\ \A k \in 1..c : Nth(B, k) \in B
    <2>1. B \in SUBSET (0..n)
      OBVIOUS
    <2> QED
      BY <2>1, NthIsIn
  <1> HIDE DEF c
  <1>2. CASE c = 0
    BY <1>1, <1>2 DEF Begin, c
  <1>3. CASE c # 0
    <2>1. c \in 1..c /\ c + 1 # 1 /\ (c + 1) - 1 = c
      BY <1>1, <1>3
    <2>2. Nth(B, c) \in 1..n
      BY <1>1, <2>1
    <2>3. Begin(B, c + 1) = Nth(B, c) + 1
      BY <2>1 DEF Begin
    <2> QED
      BY <1>1, <2>2, <2>3 DEF c
  <1> QED
    BY <1>2, <1>3

\* What follows some position, one line more.
LEMMA FromSnoc ==
  ASSUME NEW s, IsSeq(s), NEW x, NEW b \in 1..Len(s) + 1
  PROVE  /\ IsSeq(From(s, b))
         /\ From(Append(s, x), b) = Append(From(s, b), x)
         /\ From(s, Len(s) + 1) = <<>>
  <1>1. PICK U : s \in Seq(U)
    BY DEF IsSeq
  <1> DEFINE T == U \cup {x}
             t == Append(s, x)
             n == Len(s)
  <1>2. s \in Seq(T) /\ x \in T
    BY <1>1
  <1>3. /\ t \in Seq(T) /\ Len(t) = n + 1 /\ n \in Nat
        /\ t[n + 1] = x /\ \A i \in 1..n : t[i] = s[i]
    <2> HIDE DEF T
    <2> QED
      BY <1>2, AppendProperties
  <1>4. b \in 1..Len(t) + 1
    BY <1>3
  <1> HIDE DEF t, n, T
  <1>5. /\ From(s, b) \in Seq(T) /\ Len(From(s, b)) = n - b + 1
        /\ \A i \in 1..n - b + 1 : From(s, b)[i] = s[b + i - 1]
    BY <1>2, FromShape DEF n
  <1>6. /\ From(t, b) \in Seq(T) /\ Len(From(t, b)) = (n + 1) - b + 1
        /\ \A i \in 1..(n + 1) - b + 1 : From(t, b)[i] = t[b + i - 1]
    BY <1>3, <1>4, FromShape
  <1>7. IsSeq(From(s, b)) /\ IsSeq(From(t, b))
    BY <1>5, <1>6 DEF IsSeq
  <1> DEFINE p == From(s, b)
             q == From(t, b)
  <1>8. Len(q) = Len(p) + 1 /\ Len(p) \in Nat /\ b + Len(q) - 1 = n + 1
    BY <1>3, <1>5, <1>6 DEF n
  <1>9. ASSUME NEW i \in 1..Len(p) PROVE q[i] = p[i]
    <2>1. i \in 1..n - b + 1 /\ i \in 1..(n + 1) - b + 1 /\ b + i - 1 \in 1..n
      BY <1>3, <1>5, <1>8 DEF n
    <2> QED
      BY <1>3, <1>5, <1>6, <2>1
  <1>10. q[Len(p) + 1] = x
    <2>1. Len(p) + 1 \in 1..(n + 1) - b + 1 /\ b + (Len(p) + 1) - 1 = n + 1
      BY <1>3, <1>5, <1>8 DEF n
    <2> QED
      BY <1>3, <1>6, <2>1
  <1>11. q = Append(p, x)
    <2> HIDE DEF p, q
    <2> QED
      BY <1>7, <1>8, <1>9, <1>10, IsAppended DEF p, q
  <1>12. From(s, n + 1) = <<>>
    <2>1. n + 1 \in 1..Len(s) + 1
      BY <1>3 DEF n
    <2>2. From(s, n + 1) \in Seq(T) /\ Len(From(s, n + 1)) = n - (n + 1) + 1
      BY <1>2, <2>1, FromShape DEF n
    <2>3. Len(From(s, n + 1)) = 0
      BY <1>3, <2>2
    <2> QED
      BY <2>2, <2>3
  <1> QED
    BY <1>7, <1>11, <1>12 DEF t, n

LEMMA OverSnoc ==
  ASSUME NEW lines, IsSeq(lines), NEW l
  PROVE  /\ IsSeq(Over(lines))
         /\ l # <<>> => /\ Over(Append(lines, l)) = Over(lines)
                        /\ Pending(Append(lines, l)) = AppendSseField(l, Pending(lines))
         /\ l = <<>> => /\ Over(Append(lines, l)) = Over(lines) \o FinishSseFields(Pending(lines))
                        /\ Pending(Append(lines, l)) = NoFields
  <1> DEFINE n == Len(lines)
             more == Append(lines, l)
             B == Blanks(lines)
             b == Begin(B, Cardinality(B) + 1)
             D == Blanks(more)
             rest == Rest(lines, B)
  <1>1. /\ n \in Nat /\ DOMAIN lines = 1..n /\ DOMAIN more = 1..n + 1
        /\ IsSeq(more) /\ Len(more) = n + 1
        /\ more[n + 1] = l /\ \A k \in 1..n : more[k] = lines[k]
        /\ \A k \in 1..n + 1 : k \in 1..n \/ k = n + 1
        /\ \A k \in 1..n : k \in 1..n + 1
        /\ n + 1 \in 1..n + 1
    BY SeqHas, Appended
  <1>2. B \in SUBSET (1..n) /\ D = IF l = <<>> THEN B \cup {n + 1} ELSE B
    <2>1. B = {k \in DOMAIN lines : lines[k] = <<>>} /\ D = {k \in DOMAIN more : more[k] = <<>>}
      BY DEF Blanks
    <2> HIDE DEF B, D, more, n
    <2>2. CASE l = <<>>
      BY <1>1, <2>1, <2>2
    <2>3. CASE l # <<>>
      BY <1>1, <2>1, <2>3
    <2> QED
      BY <1>1, <2>1, <2>2, <2>3
  <1> HIDE DEF B, D
  <1>3. b \in 1..n + 1 /\ IsFiniteSet(B) /\ Cardinality(B) \in Nat
    BY <1>1, <1>2, BeginIs
  <1>4. /\ IsSeq(rest) /\ From(more, b) = Append(rest, l)
    <2> HIDE DEF b
    <2>1. rest = From(lines, b)
      BY DEF Rest, b
    <2> QED
      BY <1>3, <2>1, FromSnoc
  <1>5. Pieces(more, B) = Pieces(lines, B)
    <2>1. PICK U : more \in Seq(U)
      BY <1>1 DEF IsSeq
    <2>2. lines \in Seq(U)
      <3>1. \A k \in 1..n : lines[k] \in U
        BY <1>1, <2>1
      <3>2. lines = [k \in 1..n |-> lines[k]]
        BY SeqHas
      <3> HIDE DEF n
      <3>3. lines \in [1..n -> U]
        BY <3>1, <3>2
      <3> QED
        BY <1>1, <3>3
    <2>3. B \in SUBSET (0..Len(lines))
      BY <1>1, <1>2
    <2> HIDE DEF more
    <2>4. Len(lines) <= Len(more) /\ \A i \in 1..Len(lines) : lines[i] = more[i]
      BY <1>1
    <2> QED
      BY <2>1, <2>2, <2>3, <2>4, PiecesSame
  <1>6. IsSeq(Pieces(lines, B))
    <2>1. B \in SUBSET Nat /\ \A i \in B : i < n + 1
      BY <1>1, <1>2
    <2>2. n + 1 \in Nat
      BY <1>1
    <2> HIDE DEF n
    <2> QED
      BY <1>3, <2>1, <2>2, PiecesSnoc
  <1>7. /\ IsSeq(Over(lines))
        /\ \A e : Dispatched(Append(Pieces(lines, B), e)) = Over(lines) \o FinishSseFields(FieldsOf(e))
    <2>1. Over(lines) = Dispatched(Pieces(lines, B))
      BY DEF Over, B
    <2> QED
      BY <1>6, <2>1, DispatchedSnoc
  <1>8. FieldsOf(Append(rest, l)) = AppendSseField(l, Pending(lines))
    <2>1. Pending(lines) = FieldsOf(rest)
      BY DEF Pending, B
    <2> QED
      BY <1>4, <2>1, FieldsSnoc
  <1>9. CASE l # <<>>
    <2>1. D = B
      BY <1>2, <1>9
    <2>2. Over(more) = Over(lines)
      BY <1>5, <2>1 DEF Over, B, D
    <2>3. Rest(more, B) = From(more, b)
      BY DEF Rest
    <2>4. Pending(more) = AppendSseField(l, Pending(lines))
      BY <1>4, <1>8, <2>1, <2>3 DEF Pending, D
    <2> QED
      BY <1>7, <1>9, <2>2, <2>4
  <1>10. CASE l = <<>>
    <2>1. D = B \cup {n + 1}
      BY <1>2, <1>10
    <2>2. /\ Pieces(more, D) = Append(Pieces(more, B), SubSeq(more, b, n + 1))
          /\ Begin(D, Cardinality(D) + 1) = (n + 1) + 1
      <3>1. B \in SUBSET Nat /\ (\A i \in B : i < n + 1) /\ n + 1 \in Nat
        BY <1>1, <1>2
      <3> HIDE DEF n, more
      <3> QED
        BY <1>3, <2>1, <3>1, PiecesSnoc
    <2>3. SubSeq(more, b, n + 1) = Append(rest, l)
      BY <1>1, <1>4 DEF From
    <2>4. Over(more) = Over(lines) \o FinishSseFields(FieldsOf(Append(rest, l)))
      <3>1. Over(more) = Dispatched(Pieces(more, D))
        BY DEF Over, D
      <3> QED
        BY <1>5, <1>7, <2>2, <2>3, <3>1
    <2>5. AppendSseField(l, Pending(lines)) = Pending(lines)
      BY <1>10 DEF AppendSseField
    <2>6. Rest(more, D) = From(more, (n + 1) + 1)
      BY <2>2 DEF Rest
    <2>7. From(more, (n + 1) + 1) = <<>>
      <3>1. 1 \in 1..Len(more) + 1
        BY <1>1
      <3>2. From(more, Len(more) + 1) = <<>>
        BY <1>1, <3>1, FromSnoc
      <3> QED
        BY <1>1, <3>2
    <2>8. Pending(more) = NoFields
      BY <2>6, <2>7, FieldsNone DEF Pending, D
    <2> QED
      BY <1>7, <1>8, <1>10, <2>4, <2>5, <2>8
  <1> QED
    BY <1>9, <1>10

\* What the last line leaves is an event that is over with it.
Closed(lines) == Over(lines) \o FinishSseFields(Pending(lines))

LEMMA ClosedSnoc ==
  ASSUME NEW lines, IsSeq(lines), NEW l
  PROVE  Closed(Append(lines, l)) = Over(lines) \o FinishSseFields(AppendSseField(l, Pending(lines)))
  <1>1. FinishSseFields(NoFields) = <<>>
    BY DEF FinishSseFields
  <1>2. CASE l # <<>>
    BY <1>2, OverSnoc DEF Closed
  <1>3. CASE l = <<>>
    <2>1. AppendSseField(l, Pending(lines)) = Pending(lines)
      BY <1>3 DEF AppendSseField
    <2>2. /\ Over(Append(lines, l)) = Over(lines) \o FinishSseFields(Pending(lines))
          /\ Pending(Append(lines, l)) = NoFields
      BY <1>3, OverSnoc
    <2>3. IsSeq(Over(Append(lines, l)))
      BY Appended, OverSnoc
    <2> QED
      BY <1>1, <2>1, <2>2, <2>3, Joined2 DEF Closed
  <1> QED
    BY <1>2, <1>3

-----------------------------------------------------------------------------
\* The first positions are picked in their order.
LEMMA NthOfFirst ==
  \A m \in Nat : Cardinality(1..m) = m /\ \A k \in 1..m : Nth(1..m, k) = k
  <1> DEFINE G == {m \in Nat : Cardinality(1..m) = m /\ \A k \in 1..m : Nth(1..m, k) = k}
  <1>1. 0 \in G
    <2>1. 1..0 = {}
      OBVIOUS
    <2> QED
      BY <2>1, FS_EmptySet
  <1>2. ASSUME NEW m \in Nat, m \in G PROVE m + 1 \in G
    <2> DEFINE S == 1..m
    <2>1. 1..m + 1 = S \cup {m + 1}
      OBVIOUS
    <2>2. S \in SUBSET Nat /\ (\A i \in S : i < m + 1) /\ IsFiniteSet(S) /\ m + 1 \in Nat
      <3>1. IsFiniteSet(S)
        BY FS_Interval
      <3> QED
        BY <3>1
    <2>3. Cardinality(S) = m /\ \A k \in S : Nth(S, k) = k
      BY <1>2
    <2>4. \A k \in 1..m + 1 : k \in S \/ k = m + 1
      BY <2>1
    <2> HIDE DEF S
    <2>5. /\ Cardinality(S \cup {m + 1}) = m + 1
          /\ \A k \in 1..m : Nth(S \cup {m + 1}, k) = Nth(S, k)
          /\ Nth(S \cup {m + 1}, m + 1) = m + 1
      BY <2>2, <2>3, NthSnoc
    <2>6. \A k \in 1..m + 1 : Nth(1..m + 1, k) = k
      BY <2>1, <2>3, <2>4, <2>5 DEF S
    <2>7. Cardinality(1..m + 1) = m + 1
      BY <2>1, <2>5 DEF S
    <2> QED
      BY <2>6, <2>7
  <1>3. Nat \subseteq G
    <2> HIDE DEF G
    <2> QED
      BY <1>1, <1>2, SetInduction
  <1> QED
    BY <1>3

\* A line without its terminator.
LEMMA StripIs ==
  ASSUME NEW U, NEW p \in Seq(U), NEW m \in 0..Len(p),
         \A i \in 1..m : p[i] \notin {"CR", "LF"},
         \A i \in m + 1..Len(p) : p[i] \in {"CR", "LF"}
  PROVE  Strip(p) = SubSeq(p, 1, m)
  <1>1. Len(p) \in Nat /\ DOMAIN p = 1..Len(p) /\ m \in Nat
    OBVIOUS
  <1>2. {i \in DOMAIN p : p[i] \notin {"CR", "LF"}} = 1..m
    <2>1. \A i \in 1..Len(p) : i \in 1..m \/ i \in m + 1..Len(p)
      BY <1>1
    <2>2. \A i \in 1..m : i \in 1..Len(p)
      BY <1>1
    <2> QED
      BY <1>1, <2>1, <2>2
  <1>3. Cardinality(1..m) = m /\ \A k \in 1..m : Nth(1..m, k) = k
    BY <1>1, NthOfFirst
  <1>4. Picked(p, 1..m) = [k \in 1..m |-> p[k]]
    BY <1>3 DEF Picked
  <1>5. SubSeq(p, 1, m) = [k \in 1..m |-> p[k]]
    <2>1. SubSeq(p, 1, m) = [k \in 1..(1 + m - 1) |-> p[1 + k - 1]]
      BY <1>1
    <2>2. 1 + m - 1 = m /\ \A k \in 1..m : 1 + k - 1 = k
      BY <1>1
    <2> QED
      BY <2>1, <2>2
  <1> QED
    BY <1>2, <1>4, <1>5 DEF Strip

\* The lines of some pieces, one piece more.
LEMMA LinesSnoc ==
  ASSUME NEW S \in SUBSET Nat, IsFiniteSet(S), NEW e \in Nat, \A i \in S : i < e, NEW s
  PROVE  /\ IsSeq(Lines(s, S))
         /\ Lines(s, S \cup {e})
              = Append(Lines(s, S), Strip(SubSeq(s, Begin(S, Cardinality(S) + 1), e)))
  <1> DEFINE p == Pieces(s, S)
             q == Pieces(s, S \cup {e})
             x == SubSeq(s, Begin(S, Cardinality(S) + 1), e)
             n == Cardinality(S)
             f == Lines(s, S)
             g == Lines(s, S \cup {e})
  <1>1. IsSeq(p) /\ Len(p) = n /\ q = Append(p, x) /\ n \in Nat
    BY PiecesSnoc
  <1>2. f = [k \in DOMAIN p |-> Strip(p[k])] /\ g = [k \in DOMAIN q |-> Strip(q[k])]
    BY DEF Lines
  <1> HIDE DEF p, q, x, n, f, g
  <1>3. /\ DOMAIN p = 1..n /\ DOMAIN q = 1..n + 1
        /\ q[n + 1] = x /\ \A k \in 1..n : q[k] = p[k]
        /\ n + 1 \in 1..n + 1 /\ \A k \in 1..n : k \in 1..n + 1
    BY <1>1, SeqHas, Appended
  <1>4. IsSeq(f) /\ Len(f) = n
    <2>1. f = [k \in 1..n |-> f[k]]
      BY <1>2, <1>3
    <2> QED
      BY <1>1, <2>1, SeqIs
  <1>5. IsSeq(g) /\ Len(g) = n + 1
    <2>1. g = [k \in 1..n + 1 |-> g[k]] /\ n + 1 \in Nat
      BY <1>1, <1>2, <1>3
    <2> QED
      BY <2>1, SeqIs
  <1>6. (\A k \in 1..n : g[k] = f[k]) /\ g[n + 1] = Strip(x)
    BY <1>2, <1>3
  <1>7. g = Append(f, Strip(x))
    BY <1>4, <1>5, <1>6, IsAppended
  <1> QED
    BY <1>4, <1>7 DEF f, g, x

NdLines(s, S) == [k \in DOMAIN Pieces(s, S) |-> TrimCr(Front(Pieces(s, S)[k]))]

LEMMA NdLinesSnoc ==
  ASSUME NEW S \in SUBSET Nat, IsFiniteSet(S), NEW e \in Nat, \A i \in S : i < e, NEW s
  PROVE  /\ IsSeq(NdLines(s, S))
         /\ NdLines(s, S \cup {e})
              = Append(NdLines(s, S), TrimCr(Front(SubSeq(s, Begin(S, Cardinality(S) + 1), e))))
  <1> DEFINE p == Pieces(s, S)
             q == Pieces(s, S \cup {e})
             x == SubSeq(s, Begin(S, Cardinality(S) + 1), e)
             n == Cardinality(S)
             f == NdLines(s, S)
             g == NdLines(s, S \cup {e})
  <1>1. IsSeq(p) /\ Len(p) = n /\ q = Append(p, x) /\ n \in Nat
    BY PiecesSnoc
  <1>2. f = [k \in DOMAIN p |-> TrimCr(Front(p[k]))] /\ g = [k \in DOMAIN q |-> TrimCr(Front(q[k]))]
    BY DEF NdLines
  <1> HIDE DEF p, q, x, n, f, g
  <1>3. /\ DOMAIN p = 1..n /\ DOMAIN q = 1..n + 1
        /\ q[n + 1] = x /\ \A k \in 1..n : q[k] = p[k]
        /\ n + 1 \in 1..n + 1 /\ \A k \in 1..n : k \in 1..n + 1
    BY <1>1, SeqHas, Appended
  <1>4. IsSeq(f) /\ Len(f) = n
    <2>1. f = [k \in 1..n |-> f[k]]
      BY <1>2, <1>3
    <2> QED
      BY <1>1, <2>1, SeqIs
  <1>5. IsSeq(g) /\ Len(g) = n + 1
    <2>1. g = [k \in 1..n + 1 |-> g[k]] /\ n + 1 \in Nat
      BY <1>1, <1>2, <1>3
    <2> QED
      BY <2>1, SeqIs
  <1>6. (\A k \in 1..n : g[k] = f[k]) /\ g[n + 1] = TrimCr(Front(x))
    BY <1>2, <1>3
  <1>7. g = Append(f, TrimCr(Front(x)))
    BY <1>4, <1>5, <1>6, IsAppended
  <1> QED
    BY <1>4, <1>7 DEF f, g, x

\* One record more, after a first piece that is none.
LEMMA RecordsSnoc ==
  ASSUME NEW parts, IsSeq(parts), parts # <<>>, NEW x
  PROVE  /\ IsSeq(Records(parts))
         /\ Records(Append(parts, x)) = Append(Records(parts), TrimAscii(Tail(x)))
         /\ Records(<<x>>) = <<>>
  <1> DEFINE n == Len(parts) - 1
             q == Append(parts, x)
             f == Records(parts)
             g == Records(q)
  <1>1. n \in Nat /\ Len(parts) = n + 1 /\ Len(q) = n + 2 /\ q[n + 2] = x
        /\ \A k \in 1..n + 1 : q[k] = parts[k]
    <2>1. Len(parts) \in Nat /\ parts = [i \in 1..Len(parts) |-> parts[i]]
      BY SeqHas
    <2>2. Len(parts) # 0
      BY <2>1
    <2>3. Len(q) = Len(parts) + 1 /\ q[Len(parts) + 1] = x
          /\ \A k \in 1..Len(parts) : q[k] = parts[k]
      BY Appended
    <2> HIDE DEF q
    <2> QED
      BY <2>1, <2>2, <2>3
  <1>2. /\ f = [k \in 1..n |-> TrimAscii(Tail(parts[k + 1]))]
        /\ g = [k \in 1..n + 1 |-> TrimAscii(Tail(q[k + 1]))]
    <2> HIDE DEF q
    <2>1. Len(q) - 1 = n + 1
      BY <1>1
    <2> QED
      BY <2>1 DEF Records, q
  <1>3. Records(<<x>>) = <<>>
    <2>1. Len(<<x>>) - 1 = 0 /\ 1..0 = {}
      OBVIOUS
    <2> QED
      BY <2>1 DEF Records
  <1> HIDE DEF n, q, f, g
  <1>4. IsSeq(f) /\ Len(f) = n
    <2>1. f = [k \in 1..n |-> f[k]]
      BY <1>2
    <2> QED
      BY <1>1, <2>1, SeqIs
  <1>5. IsSeq(g) /\ Len(g) = n + 1
    <2>1. g = [k \in 1..n + 1 |-> g[k]] /\ n + 1 \in Nat
      BY <1>1, <1>2
    <2> QED
      BY <2>1, SeqIs
  <1>6. (\A k \in 1..n : g[k] = f[k]) /\ g[n + 1] = TrimAscii(Tail(x))
    <2>1. \A k \in 1..n : k \in 1..n + 1 /\ k + 1 \in 1..n + 1
      BY <1>1
    <2>2. n + 1 \in 1..n + 1 /\ (n + 1) + 1 = n + 2
      BY <1>1
    <2> QED
      BY <1>1, <1>2, <2>1, <2>2
  <1>7. g = Append(f, TrimAscii(Tail(x)))
    BY <1>4, <1>5, <1>6, IsAppended
  <1> QED
    BY <1>3, <1>4, <1>7 DEF f, g, q

\* What follows the last of some positions begins behind it.
LEMMA BeginAfter ==
  ASSUME NEW n \in Nat, NEW S \in SUBSET (0..n), NEW l \in S, \A i \in S : i <= l
  PROVE  Begin(S, Cardinality(S) + 1) = l + 1
  <1> DEFINE R == S \ {l}
  <1>1. R \in SUBSET (0..n) /\ R \in SUBSET Nat /\ l \in Nat /\ S = R \cup {l} /\ \A i \in R : i < l
    OBVIOUS
  <1>2. IsFiniteSet(R)
    BY <1>1, NthIsIn
  <1> HIDE DEF R
  <1> QED
    BY <1>1, <1>2, PiecesSnoc

\* One sequence begins another.
Begins(t, u) == Len(t) <= Len(u) /\ \A i \in 1..Len(t) : t[i] = u[i]

LEMMA SubSeqIs ==
  ASSUME NEW t \in Seq(Symbols), NEW a \in 1..Len(t) + 1, NEW b \in a - 1..Len(t)
  PROVE  /\ SubSeq(t, a, b) \in Seq(Symbols) /\ Len(SubSeq(t, a, b)) = b - a + 1
         /\ \A i \in 1..b - a + 1 : SubSeq(t, a, b)[i] = t[a + i - 1]
  <1>1. \A i \in a..b : t[i] \in Symbols
    OBVIOUS
  <1>2. a \in Int /\ b \in Int
    OBVIOUS
  <1>3. Len(SubSeq(t, a, b)) = IF a <= b THEN b - a + 1 ELSE 0
    BY <1>1, <1>2, SubSeqProperties
  <1>4. Len(SubSeq(t, a, b)) = b - a + 1
    BY <1>2, <1>3
  <1>5. SubSeq(t, a, b) \in Seq(Symbols)
    BY <1>1, <1>2, SubSeqProperties
  <1>6. \A i \in 1..b - a + 1 : SubSeq(t, a, b)[i] = t[a + i - 1]
    BY <1>1, <1>2, SubSeqProperties
  <1> QED
    BY <1>4, <1>5, <1>6

\* A part of a part, and a part that is the same in another sequence.
LEMMA SameParts ==
  ASSUME NEW t \in Seq(Symbols), NEW a \in 1..Len(t) + 1, NEW b \in a - 1..Len(t),
         NEW u \in Seq(Symbols), NEW c \in 1..Len(u) + 1, NEW d \in c - 1..Len(u),
         b - a = d - c, \A i \in 1..b - a + 1 : t[a + i - 1] = u[c + i - 1]
  PROVE  SubSeq(t, a, b) = SubSeq(u, c, d)
  <1> DEFINE p == SubSeq(t, a, b)
             q == SubSeq(u, c, d)
  <1>1. /\ p \in Seq(Symbols) /\ Len(p) = b - a + 1
        /\ \A i \in 1..b - a + 1 : p[i] = t[a + i - 1]
    BY SubSeqIs
  <1>2. /\ q \in Seq(Symbols) /\ Len(q) = d - c + 1
        /\ \A i \in 1..d - c + 1 : q[i] = u[c + i - 1]
    BY SubSeqIs
  <1> HIDE DEF p, q
  <1>3. IsSeq(p) /\ IsSeq(q)
    BY <1>1, <1>2 DEF IsSeq
  <1>4. d - c + 1 = b - a + 1
    OBVIOUS
  <1>5. Len(p) = Len(q) /\ \A i \in 1..Len(p) : p[i] = q[i]
    BY <1>1, <1>2, <1>4
  <1>6. p = q
    BY <1>3, <1>5, SameSeq
  <1> QED
    BY <1>6 DEF p, q

\* The last byte off, the first byte off.
LEMMA FrontAndTail ==
  ASSUME NEW t \in Seq(Symbols), NEW a \in 1..Len(t), NEW b \in a..Len(t)
  PROVE  /\ Front(SubSeq(t, a, b)) = SubSeq(t, a, b - 1)
         /\ Tail(SubSeq(t, a, b)) = SubSeq(t, a + 1, b)
  <1> DEFINE p == SubSeq(t, a, b)
  <1>0. a \in Nat /\ b \in Nat /\ Len(t) \in Nat
    OBVIOUS
  <1>1. /\ p \in Seq(Symbols) /\ Len(p) = b - a + 1
        /\ \A i \in 1..b - a + 1 : p[i] = t[a + i - 1]
    BY <1>0, SubSeqIs
  <1> HIDE DEF p
  <1>2. SubSeq(p, 1, Len(p) - 1) = SubSeq(t, a, b - 1)
    <2> DEFINE m == Len(p) - 1
    <2>1. /\ 1 \in 1..Len(p) + 1 /\ m \in 0..Len(p) /\ m - 1 = (b - 1) - a
          /\ a \in 1..Len(t) + 1 /\ b - 1 \in a - 1..Len(t)
          /\ 1 - 1 = 0
      BY <1>0, <1>1
    <2>2. \A i \in 1..m - 1 + 1 : p[1 + i - 1] = t[a + i - 1]
      BY <1>0, <1>1
    <2> HIDE DEF m
    <2>3. SubSeq(p, 1, m) = SubSeq(t, a, b - 1)
      BY <1>1, <2>1, <2>2, SameParts
    <2> QED
      BY <2>3 DEF m
  <1>3. SubSeq(p, 2, Len(p)) = SubSeq(t, a + 1, b)
    <2> DEFINE m == Len(p)
    <2>1. /\ 2 \in 1..m + 1 /\ m \in 2 - 1..m /\ m - 2 = b - (a + 1)
          /\ a + 1 \in 1..Len(t) + 1 /\ b \in (a + 1) - 1..Len(t)
      BY <1>0, <1>1
    <2>2. \A i \in 1..m - 2 + 1 : p[2 + i - 1] = t[(a + 1) + i - 1]
      <3> TAKE i \in 1..m - 2 + 1
      <3>1. 2 + i - 1 \in 1..b - a + 1 /\ a + (2 + i - 1) - 1 = (a + 1) + i - 1
        BY <1>0, <1>1
      <3> QED
        BY <1>1, <3>1
    <2>3. SubSeq(p, 2, m) = SubSeq(t, a + 1, b)
      BY <1>1, <2>1, <2>2, SameParts
    <2> QED
      BY <2>3
  <1>4. Front(p) = SubSeq(p, 1, Len(p) - 1)
    BY DEF Front
  <1>5. Tail(p) = SubSeq(p, 2, Len(p))
    BY <1>0, <1>1
  <1> QED
    BY <1>2, <1>3, <1>4, <1>5 DEF p

-----------------------------------------------------------------------------
\* The line ends up to a position, and what was framed there.
Ends(t, l) == {i \in LineEnds(t) : i <= l}
SseAt(t, l, o, ev) ==
  /\ l \in 0..Len(t)
  /\ l # 0 => l \in LineEnds(t) /\ (t[l] = "CR" => l < Len(t))
  /\ o = Over(Lines(t, Ends(t, l))) /\ ev = Pending(Lines(t, Ends(t, l)))

LEMMA LineEndsAre ==
  ASSUME NEW t \in Seq(Symbols)
  PROVE  /\ LineEnds(t) \in SUBSET (1..Len(t)) /\ LineEnds(t) \in SUBSET Nat
         /\ \A i \in 1..Len(t) :
              i \in LineEnds(t) <=> (t[i] = "LF" \/ (t[i] = "CR" /\ (i = Len(t) \/ t[i + 1] # "LF")))
  <1>1. DOMAIN t = 1..Len(t) /\ Len(t) \in Nat
    OBVIOUS
  <1>2. \A i \in DOMAIN t : i \in LineEnds(t) <=> (t[i] = "LF" \/ (t[i] = "CR" /\ (i = Len(t) \/ t[i + 1] # "LF")))
    BY DEF LineEnds
  <1>3. \A i \in LineEnds(t) : i \in DOMAIN t
    BY DEF LineEnds
  <1>4. LineEnds(t) \in SUBSET (1..Len(t)) /\ LineEnds(t) \in SUBSET Nat
    BY <1>1, <1>3
  <1> HIDE DEF LineEnds
  <1> QED
    BY <1>1, <1>2, <1>4, Zenon

LEMMA BeginAtEnds ==
  ASSUME NEW t \in Seq(Symbols), NEW l \in 0..Len(t), l # 0 => l \in LineEnds(t)
  PROVE  /\ Ends(t, l) \in SUBSET (0..Len(t)) /\ Ends(t, l) \in SUBSET Nat
         /\ IsFiniteSet(Ends(t, l)) /\ \A i \in Ends(t, l) : i <= l
         /\ Begin(Ends(t, l), Cardinality(Ends(t, l)) + 1) = l + 1
  <1> DEFINE E == Ends(t, l)
  <1>1. Len(t) \in Nat /\ DOMAIN t = 1..Len(t)
    OBVIOUS
  <1>2. E \in SUBSET (0..Len(t)) /\ E \in SUBSET Nat /\ \A i \in E : i <= l
    BY <1>1, LineEndsAre DEF Ends
  <1>3. IsFiniteSet(E)
    BY <1>1, <1>2, NthIsIn
  <1>4. Begin(E, Cardinality(E) + 1) = l + 1
    <2>1. CASE l = 0
      <3>1. E = {}
        BY <1>1, <2>1, LineEndsAre DEF Ends
      <3>2. Begin({}, Cardinality({}) + 1) = 1
        BY PickedNone DEF Begin
      <3> HIDE DEF E
      <3> QED
        BY <2>1, <3>1, <3>2
    <2>2. CASE l # 0
      <3>1. l \in E
        BY <2>2 DEF Ends
      <3> HIDE DEF E
      <3> QED
        BY <1>1, <1>2, <3>1, BeginAfter
    <2> QED
      BY <2>1, <2>2
  <1> QED
    BY <1>2, <1>3, <1>4

\* The next line: h is where the search finds a terminator, e where the line ends.
LEMMA NextEnd ==
  ASSUME NEW t \in Seq(Symbols), NEW l \in 0..Len(t), l # 0 => l \in LineEnds(t),
         NEW h \in l + 1..Len(t), t[h] \in {"CR", "LF"},
         \A i \in l + 1..h - 1 : t[i] \notin {"CR", "LF"},
         NEW e, e = IF t[h] = "CR" /\ h < Len(t) /\ t[h + 1] = "LF" THEN h + 1 ELSE h
  PROVE  /\ e \in h..Len(t) /\ e \in LineEnds(t)
         /\ Ends(t, e) = Ends(t, l) \cup {e}
         /\ IsSeq(Lines(t, Ends(t, l)))
         /\ Lines(t, Ends(t, e)) = Append(Lines(t, Ends(t, l)), SubSeq(t, l + 1, h - 1))
  <1> DEFINE E == Ends(t, l)
  <1>1. Len(t) \in Nat /\ DOMAIN t = 1..Len(t) /\ l \in Nat /\ h \in Nat
    OBVIOUS
  <1>2. e \in h..Len(t) /\ t[e] \in {"CR", "LF"}
    BY <1>1
  <1>3. e \in LineEnds(t)
    BY <1>1, <1>2, LineEndsAre
  <1>4. Ends(t, e) = E \cup {e}
    <2>1. ASSUME NEW i \in LineEnds(t), l < i, i <= e PROVE i = e
      <3>1. i \in l + 1..h - 1 \/ i = h \/ i = e
        <4>1. i \in Nat /\ i <= Len(t)
          BY <1>1, LineEndsAre
        <4> QED
          BY <1>1, <1>2, <2>1, <4>1
      <3>2. i \notin l + 1..h - 1
        BY <1>1, LineEndsAre
      <3>3. i = h => e = h
        <4>1. CASE t[h] = "CR" /\ h < Len(t) /\ t[h + 1] = "LF"
          BY <1>1, <2>1, <4>1, LineEndsAre
        <4>2. CASE ~ (t[h] = "CR" /\ h < Len(t) /\ t[h + 1] = "LF")
          BY <4>2
        <4> QED
          BY <4>1, <4>2
      <3> QED
        BY <3>1, <3>2, <3>3
    <2>2. \A i \in LineEnds(t) : i \in Nat
      BY <1>1, LineEndsAre
    <2>3. l <= e /\ e \in Nat
      BY <1>1, <1>2
    <2> HIDE DEF E
    <2>4. \A i : i \in E <=> i \in LineEnds(t) /\ i <= l
      BY DEF E, Ends
    <2>5. \A i : i \in Ends(t, e) <=> i \in LineEnds(t) /\ i <= e
      BY DEF Ends
    <2>6. ASSUME NEW i \in Ends(t, e) PROVE i \in E \cup {e}
      BY <1>1, <2>1, <2>2, <2>4, <2>5
    <2>7. ASSUME NEW i \in E \cup {e} PROVE i \in Ends(t, e)
      <3>1. i \in LineEnds(t) /\ (i <= l \/ i = e)
        BY <1>3, <2>4
      <3>2. i \in Nat /\ l \in Nat
        BY <1>1, <2>2, <3>1
      <3>3. i <= e
        BY <2>3, <3>1, <3>2
      <3> QED
        BY <2>5, <3>1, <3>3
    <2> QED
      BY <2>6, <2>7
  <1>5. /\ E \in SUBSET Nat /\ IsFiniteSet(E) /\ \A i \in E : i <= l
        /\ Begin(E, Cardinality(E) + 1) = l + 1
    BY BeginAtEnds
  <1>6. e \in Nat /\ \A i \in E : i < e
    BY <1>1, <1>2, <1>5
  <1> HIDE DEF E
  <1>7. /\ IsSeq(Lines(t, E))
        /\ Lines(t, E \cup {e}) = Append(Lines(t, E), Strip(SubSeq(t, l + 1, e)))
    BY <1>5, <1>6, LinesSnoc
  <1>8. Strip(SubSeq(t, l + 1, e)) = SubSeq(t, l + 1, h - 1)
    <2> DEFINE p == SubSeq(t, l + 1, e)
               m == h - 1 - l
    <2>0. l + 1 \in 1..Len(t) + 1 /\ e \in (l + 1) - 1..Len(t)
      BY <1>1, <1>2
    <2>1. /\ p \in Seq(Symbols) /\ Len(p) = e - (l + 1) + 1
          /\ \A i \in 1..e - (l + 1) + 1 : p[i] = t[(l + 1) + i - 1]
      BY <2>0, SubSeqIs
    <2> HIDE DEF p
    <2>2. m \in 0..Len(p)
      BY <1>1, <1>2, <2>1
    <2>3. ASSUME NEW i \in 1..m PROVE p[i] \notin {"CR", "LF"}
      <3>1. i \in 1..e - (l + 1) + 1 /\ (l + 1) + i - 1 \in l + 1..h - 1
        BY <1>1, <1>2
      <3> QED
        BY <2>1, <3>1
    <2>4. ASSUME NEW i \in m + 1..Len(p) PROVE p[i] \in {"CR", "LF"}
      <3>1. i \in 1..e - (l + 1) + 1 /\ (l + 1) + i - 1 \in {h, e}
        BY <1>1, <1>2, <2>1
      <3> QED
        BY <1>2, <2>1, <3>1
    <2>5. Strip(p) = SubSeq(p, 1, m)
      <3> HIDE DEF m
      <3> QED
        BY <2>1, <2>2, <2>3, <2>4, StripIs
    <2>6. SubSeq(p, 1, m) = SubSeq(t, l + 1, h - 1)
      <3>1. /\ 1 \in 1..Len(p) + 1 /\ m \in 1 - 1..Len(p) /\ m - 1 = (h - 1) - (l + 1)
            /\ l + 1 \in 1..Len(t) + 1 /\ h - 1 \in (l + 1) - 1..Len(t)
        BY <1>1, <2>1, <2>2
      <3>2. ASSUME NEW i \in 1..m - 1 + 1 PROVE p[1 + i - 1] = t[(l + 1) + i - 1]
        <4>1. i \in 1..e - (l + 1) + 1 /\ 1 + i - 1 = i
          BY <1>1, <1>2, <2>1
        <4> QED
          BY <2>1, <4>1
      <3> HIDE DEF m
      <3> QED
        BY <2>1, <3>1, <3>2, SameParts
    <2> QED
      BY <2>5, <2>6 DEF p
  <1> QED
    BY <1>2, <1>3, <1>4, <1>7, <1>8 DEF E

LEMMA SseStep ==
  ASSUME NEW t \in Seq(Symbols), NEW l, NEW o, NEW ev, SseAt(t, l, o, ev),
         NEW h \in l + 1..Len(t), t[h] \in {"CR", "LF"}, t[h] = "CR" => h < Len(t),
         \A i \in l + 1..h - 1 : t[i] \notin {"CR", "LF"},
         NEW e, e = IF t[h] = "CR" /\ h < Len(t) /\ t[h + 1] = "LF" THEN h + 1 ELSE h,
         NEW x, x = SubSeq(t, l + 1, h - 1)
  PROVE  /\ x # <<>> => SseAt(t, e, o, AppendSseField(x, ev))
         /\ x = <<>> => SseAt(t, e, o \o FinishSseFields(ev), NoFields)
  <1> DEFINE f == Lines(t, Ends(t, l))
             g == Lines(t, Ends(t, e))
  <1>1. l \in 0..Len(t) /\ (l # 0 => l \in LineEnds(t)) /\ o = Over(f) /\ ev = Pending(f)
    BY DEF SseAt
  <1>2. e \in h..Len(t) /\ e \in LineEnds(t) /\ IsSeq(f) /\ g = Append(f, x)
    BY <1>1, NextEnd
  <1>3. e \in 0..Len(t) /\ (t[e] = "CR" => e < Len(t))
    BY <1>1, <1>2
  <1> HIDE DEF f, g
  <1>4. \A ox, ex : ox = Over(g) /\ ex = Pending(g) => SseAt(t, e, ox, ex)
    BY <1>2, <1>3 DEF SseAt, g
  <1>5. CASE x # <<>>
    BY <1>1, <1>2, <1>4, <1>5, OverSnoc
  <1>6. CASE x = <<>>
    BY <1>1, <1>2, <1>4, <1>6, OverSnoc
  <1> QED
    BY <1>5, <1>6

\* At the start nothing is framed.
LEMMA SseStart ==
  ASSUME NEW t \in Seq(Symbols) PROVE SseAt(t, 0, <<>>, NoFields)
  <1>1. Ends(t, 0) = {}
    BY LineEndsAre DEF Ends
  <1>2. Lines(t, {}) = <<>>
    BY PickedNone DEF Lines
  <1>3. Lines(t, Ends(t, 0)) = <<>>
    BY <1>1, <1>2
  <1>4. 0 \in 0..Len(t)
    OBVIOUS
  <1> QED
    BY <1>3, <1>4, NoLines DEF SseAt

\* More bytes change nothing of it.
LEMMA SseGrows ==
  ASSUME NEW t \in Seq(Symbols), NEW u \in Seq(Symbols), Begins(t, u),
         NEW l, NEW o, NEW ev, SseAt(t, l, o, ev)
  PROVE  SseAt(u, l, o, ev)
  <1>1. /\ Len(t) \in Nat /\ Len(u) \in Nat /\ DOMAIN t = 1..Len(t) /\ DOMAIN u = 1..Len(u)
        /\ Len(t) <= Len(u) /\ \A i \in 1..Len(t) : t[i] = u[i]
    BY DEF Begins
  <1>2. l \in 0..Len(t) /\ (l # 0 => l \in LineEnds(t) /\ (t[l] = "CR" => l < Len(t)))
    BY DEF SseAt
  <1>3. ASSUME NEW i \in 1..l PROVE i \in LineEnds(t) <=> i \in LineEnds(u)
    <2>1. i \in 1..Len(t) /\ i \in 1..Len(u) /\ t[i] = u[i]
      BY <1>1, <1>2
    <2>0. i \in Nat /\ i >= 1 /\ i <= Len(t)
      <3>1. i \in Nat /\ i >= 1
        BY <1>2
      <3>2. i <= Len(t)
        BY <1>1, <2>1
      <3> QED
        BY <3>1, <3>2
    <2>2. CASE i < Len(t)
      <3>1. i # Len(t) /\ i # Len(u) /\ i + 1 \in 1..Len(t)
        <4>1. Len(t) \in Nat /\ Len(u) \in Nat /\ Len(t) <= Len(u)
          BY <1>1
        <4> QED
          BY <2>0, <2>2, <4>1
      <3>2. t[i + 1] = u[i + 1]
        BY <1>1, <3>1
      <3> QED
        BY <2>1, <3>1, <3>2, LineEndsAre
    <2>3. CASE i = Len(t)
      <3>1. i = l /\ l # 0
        <4> i \in 1..l /\ l \in 0..Len(t)
          BY <1>2
        <4> QED
          BY <1>1, <2>3
      <3>2. t[i] = "LF"
        BY <1>2, <2>1, <2>3, <3>1, LineEndsAre
      <3> QED
        BY <1>1, <2>1, <3>2, LineEndsAre
    <2> QED
      <3>1. i < Len(t) \/ i = Len(t)
        <4>1. Len(t) \in Nat
          BY <1>1
        <4> QED
          BY <2>0, <4>1
      <3> QED
        BY <2>2, <2>3, <3>1
  <1>4. Ends(t, l) = Ends(u, l)
    <2>1. \A i \in LineEnds(t) \cup LineEnds(u) : i \in Nat /\ i >= 1
      BY <1>1, LineEndsAre
    <2> QED
      BY <1>1, <1>2, <1>3, <2>1 DEF Ends
  <1>5. Pieces(t, Ends(t, l)) = Pieces(u, Ends(t, l))
    <2>1. Ends(t, l) \in SUBSET (0..Len(t))
      BY <1>2, BeginAtEnds
    <2> QED
      BY <1>1, <2>1, PiecesSame
  <1>6. Lines(t, Ends(t, l)) = Lines(u, Ends(u, l))
    BY <1>4, <1>5 DEF Lines
  <1>7. l # 0 => l \in LineEnds(u) /\ (u[l] = "CR" => l < Len(u))
    BY <1>1, <1>2, <1>3
  <1>8. l \in 0..Len(u)
    BY <1>1, <1>2
  <1> QED
    BY <1>6, <1>7, <1>8 DEF SseAt

\* SseItems, by what the lines come to.
LEMMA SseItemsAre ==
  ASSUME NEW t \in Seq(Symbols), NEW E
  PROVE  /\ E = (IF t # <<>> /\ Last(t) = "CR" THEN LineEnds(t) \ {Len(t)} ELSE LineEnds(t))
              => SseItems(t, FALSE) = Over(Lines(t, E))
         /\ E = LineEnds(t) => SseItems(t, TRUE) = Closed(Append(Lines(t, E), Strip(Rest(t, E))))
  <1>1. ASSUME E = (IF t # <<>> /\ Last(t) = "CR" THEN LineEnds(t) \ {Len(t)} ELSE LineEnds(t))
        PROVE  SseItems(t, FALSE) = Over(Lines(t, E))
    BY <1>1 DEF SseItems, Over
  <1>2. ASSUME E = LineEnds(t)
        PROVE  SseItems(t, TRUE) = Closed(Append(Lines(t, E), Strip(Rest(t, E))))
    <2> DEFINE all == Append(Lines(t, E), Strip(Rest(t, E)))
               p == Pieces(all, Blanks(all))
               r == Rest(all, Blanks(all))
    <2>1. SseItems(t, TRUE) = Dispatched(Append(p, r))
      BY <1>2 DEF SseItems
    <2>2. IsSeq(p)
      <3>1. p = [k \in 1..Cardinality(Blanks(all)) |-> p[k]]
        BY DEF Pieces
      <3>2. IsSeq(all)
        <4>1. IsSeq(Lines(t, E))
          <5>1. E \in SUBSET (1..Len(t)) /\ E \in SUBSET (0..Len(t)) /\ Len(t) \in Nat
            BY <1>2, LineEndsAre
          <5>2. IsFiniteSet(E) /\ Cardinality(E) \in Nat
            BY <5>1, NthIsIn
          <5>3. E \in SUBSET Nat /\ (\A i \in E : i < Len(t) + 1) /\ Len(t) + 1 \in Nat
            BY <5>1
          <5> QED
            BY <5>2, <5>3, LinesSnoc
        <4> QED
          BY <4>1, Appended
      <3> HIDE DEF all
      <3>3. Blanks(all) \in SUBSET (0..Len(all)) /\ Len(all) \in Nat
        BY <3>2, SeqHas DEF Blanks
      <3>4. Cardinality(Blanks(all)) \in Nat
        BY <3>3, NthIsIn
      <3> HIDE DEF p
      <3> QED
        BY <3>1, <3>4, SeqIs
    <2>3. Closed(all) = Dispatched(p) \o FinishSseFields(FieldsOf(r))
      BY DEF Closed, Over, Pending
    <2> HIDE DEF p, r, all
    <2>4. Dispatched(Append(p, r)) = Dispatched(p) \o FinishSseFields(FieldsOf(r))
      BY <2>2, DispatchedSnoc
    <2> QED
      BY <2>1, <2>3, <2>4 DEF all
  <1> QED
    BY <1>1, <1>2

\* While no line ends behind l but perhaps at a last CR, what was framed is all.
LEMMA SseMore ==
  ASSUME NEW t \in Seq(Symbols), NEW l, NEW o, NEW ev, SseAt(t, l, o, ev),
         \A i \in l + 1..Len(t) : t[i] \in {"CR", "LF"} => i = Len(t) /\ t[i] = "CR"
  PROVE  SseItems(t, FALSE) = o
  <1> DEFINE E == Ends(t, l)
             F == IF t # <<>> /\ Last(t) = "CR" THEN LineEnds(t) \ {Len(t)} ELSE LineEnds(t)
  <1>1. /\ l \in 0..Len(t) /\ o = Over(Lines(t, E))
        /\ (l # 0 => l \in LineEnds(t) /\ (t[l] = "CR" => l < Len(t)))
    BY DEF SseAt
  <1>2. Len(t) \in Nat /\ l \in Nat /\ (t # <<>> <=> Len(t) # 0) /\ Last(t) = t[Len(t)]
    BY <1>1 DEF Last
  <1>3. \A i : i \in LineEnds(t) => i \in Nat /\ i >= 1 /\ i <= Len(t) /\ t[i] \in {"CR", "LF"}
    BY <1>2, LineEndsAre
  <1>4. ASSUME NEW i \in LineEnds(t) PROVE i <= l <=> i \in F
    <2>1. i \in Nat /\ i >= 1 /\ i <= Len(t) /\ t[i] \in {"CR", "LF"}
      BY <1>3
    <2>2. CASE i <= l
      <3>1. i = Len(t) => i = l /\ l # 0
        BY <1>1, <1>2, <2>1, <2>2
      <3>2. i = Len(t) => t[Len(t)] # "CR"
        BY <1>1, <1>2, <3>1
      <3> QED
        BY <1>2, <2>2, <3>2
    <2>3. CASE ~ (i <= l)
      <3>1. i \in l + 1..Len(t)
        BY <1>2, <2>1, <2>3
      <3>2. i = Len(t) /\ t[i] = "CR"
        BY <2>1, <3>1
      <3>3. t # <<>> /\ Last(t) = "CR"
        BY <1>2, <2>1, <3>2
      <3> QED
        BY <2>3, <3>2, <3>3
    <2> QED
      BY <2>2, <2>3
  <1>5. E = F
    <2>1. \A i : i \in E <=> i \in LineEnds(t) /\ i <= l
      BY DEF Ends
    <2>2. \A i : i \in F => i \in LineEnds(t)
      OBVIOUS
    <2> HIDE DEF E, F
    <2> QED
      BY <1>4, <2>1, <2>2
  <1> HIDE DEF E
  <1>6. SseItems(t, FALSE) = Over(Lines(t, E))
    BY <1>5, SseItemsAre
  <1> QED
    BY <1>1, <1>6

\* A sequence without a line ending is its own line.
LEMMA StripNone ==
  ASSUME NEW p \in Seq(Symbols), \A i \in 1..Len(p) : p[i] \notin {"CR", "LF"}
  PROVE  Strip(p) = p /\ TrimCr(p) = p
  <1>1. Len(p) \in 0..Len(p)
    OBVIOUS
  <1>2. Strip(p) = SubSeq(p, 1, Len(p))
    <2>1. \A i \in Len(p) + 1..Len(p) : p[i] \in {"CR", "LF"}
      BY <1>1
    <2> QED
      BY <1>1, <2>1, StripIs
  <1>3. SubSeq(p, 1, Len(p)) = p
    OBVIOUS
  <1>4. TrimCr(p) = p
    <2>1. p # <<>> => Len(p) \in 1..Len(p)
      OBVIOUS
    <2> QED
      BY <2>1 DEF TrimCr, Last
  <1> QED
    BY <1>2, <1>3, <1>4

\* At the end of the body what follows l is a last line.
LEMMA SseEndOpen ==
  ASSUME NEW t \in Seq(Symbols), NEW l, NEW o, NEW ev, SseAt(t, l, o, ev),
         \A i \in l + 1..Len(t) : t[i] \notin {"CR", "LF"}
  PROVE  SseItems(t, TRUE)
           = o \o FinishSseFields(AppendSseField(TrimCr(SubSeq(t, l + 1, Len(t))), ev))
  <1> DEFINE E == Ends(t, l)
             f == Lines(t, E)
             x == SubSeq(t, l + 1, Len(t))
  <1>1. /\ l \in 0..Len(t) /\ o = Over(f) /\ ev = Pending(f)
        /\ (l # 0 => l \in LineEnds(t) /\ (t[l] = "CR" => l < Len(t)))
    BY DEF SseAt
  <1>2. Len(t) \in Nat /\ l \in Nat
    BY <1>1
  <1>3. E = LineEnds(t)
    <2>1. ASSUME NEW i \in LineEnds(t) PROVE i <= l
      <3>1. i \in Nat /\ i <= Len(t) /\ t[i] \in {"CR", "LF"}
        BY <1>2, LineEndsAre
      <3> QED
        BY <1>2, <3>1
    <2> QED
      BY <2>1 DEF Ends
  <1>4. Rest(t, E) = x
    <2>1. Begin(E, Cardinality(E) + 1) = l + 1
      BY <1>1, BeginAtEnds
    <2> HIDE DEF E
    <2> QED
      BY <2>1 DEF Rest, From
  <1>5. /\ IsFiniteSet(E) /\ E \in SUBSET Nat /\ \A i \in E : i <= l
    BY <1>1, BeginAtEnds
  <1>6. IsSeq(f)
    <2>1. l + 1 \in Nat /\ \A i \in E : i < l + 1
      BY <1>2, <1>5
    <2> HIDE DEF E
    <2> QED
      BY <1>5, <2>1, LinesSnoc
  <1>7. Strip(x) = x /\ TrimCr(x) = x
    <2>0. l + 1 \in 1..Len(t) + 1 /\ Len(t) \in (l + 1) - 1..Len(t)
      BY <1>1, <1>2
    <2>1. /\ x \in Seq(Symbols) /\ Len(x) = Len(t) - (l + 1) + 1
          /\ \A i \in 1..Len(t) - (l + 1) + 1 : x[i] = t[(l + 1) + i - 1]
      BY <2>0, SubSeqIs
    <2> HIDE DEF x
    <2>2. \A i \in 1..Len(t) - (l + 1) + 1 : (l + 1) + i - 1 \in l + 1..Len(t)
      BY <1>1, <1>2
    <2>3. \A i \in 1..Len(x) : x[i] \notin {"CR", "LF"}
      BY <2>1, <2>2
    <2> QED
      BY <2>1, <2>3, StripNone
  <1> HIDE DEF E, f, x
  <1>8. SseItems(t, TRUE) = Closed(Append(f, x))
    BY <1>3, <1>4, <1>7, SseItemsAre DEF f
  <1>9. SseItems(t, TRUE) = o \o FinishSseFields(AppendSseField(x, ev))
    BY <1>1, <1>6, <1>8, ClosedSnoc
  <1> QED
    BY <1>7, <1>9 DEF x

\* The same where a CR that was held ends it.
LEMMA SseEndHeld ==
  ASSUME NEW t \in Seq(Symbols), NEW l, NEW o, NEW ev, SseAt(t, l, o, ev),
         l < Len(t), t[Len(t)] = "CR",
         \A i \in l + 1..Len(t) - 1 : t[i] \notin {"CR", "LF"}
  PROVE  SseItems(t, TRUE)
           = o \o FinishSseFields(AppendSseField(TrimCr(SubSeq(t, l + 1, Len(t))), ev))
  <1> DEFINE E == Ends(t, l)
             n == Len(t)
             f == Lines(t, E)
             g == Lines(t, Ends(t, n))
             x == SubSeq(t, l + 1, n - 1)
             y == SubSeq(t, l + 1, n)
  <1>1. /\ l \in 0..n /\ o = Over(f) /\ ev = Pending(f)
        /\ (l # 0 => l \in LineEnds(t))
    BY DEF SseAt
  <1>2. n \in Nat /\ l \in Nat /\ n \in l + 1..n /\ n = IF t[n] = "CR" /\ n < n /\ t[n + 1] = "LF" THEN n + 1 ELSE n
    BY <1>1
  <1>3. n \in LineEnds(t) /\ Ends(t, n) = E \cup {n} /\ IsSeq(f) /\ g = Append(f, x)
    <2> HIDE DEF n
    <2>1. \A i \in l + 1..n - 1 : t[i] \notin {"CR", "LF"}
      BY DEF n
    <2>2. t[n] \in {"CR", "LF"} /\ n \in l + 1..Len(t) /\ l \in 0..Len(t)
      BY <1>1, <1>2 DEF n
    <2>3. n = IF t[n] = "CR" /\ n < Len(t) /\ t[n + 1] = "LF" THEN n + 1 ELSE n
      BY <1>2 DEF n
    <2> QED
      BY <1>1, <2>1, <2>2, <2>3, NextEnd
  <1>4. Ends(t, n) = LineEnds(t)
    BY <1>2, LineEndsAre DEF Ends
  <1>5. Rest(t, Ends(t, n)) = <<>>
    <2>1. n \in 0..Len(t)
      BY <1>2
    <2>2. Begin(Ends(t, n), Cardinality(Ends(t, n)) + 1) = n + 1
      BY <1>3, <2>1, BeginAtEnds
    <2>3. SubSeq(t, n + 1, n) = <<>>
      BY <1>2
    <2> QED
      BY <2>2, <2>3 DEF Rest, From
  <1>6. Strip(<<>>) = <<>>
    <2>1. <<>> \in Seq(Symbols) /\ \A i \in 1..Len(<<>>) : <<>>[i] \notin {"CR", "LF"}
      OBVIOUS
    <2> QED
      BY <2>1, StripNone
  <1>7. TrimCr(y) = x
    <2>0. l + 1 \in 1..n /\ n \in l + 1..n
      BY <1>2
    <2>1. Front(y) = x
      BY <2>0, FrontAndTail
    <2>2. /\ y \in Seq(Symbols) /\ Len(y) = n - (l + 1) + 1
          /\ \A i \in 1..n - (l + 1) + 1 : y[i] = t[(l + 1) + i - 1]
      <3>1. l + 1 \in 1..Len(t) + 1 /\ n \in (l + 1) - 1..Len(t)
        BY <1>2
      <3> QED
        BY <3>1, SubSeqIs
    <2> HIDE DEF x, y
    <2>3. Len(y) \in 1..n - (l + 1) + 1 /\ (l + 1) + Len(y) - 1 = n
      BY <1>2, <2>2
    <2>4. y[Len(y)] = "CR" /\ y # <<>>
      BY <2>2, <2>3
    <2> QED
      BY <2>1, <2>4 DEF TrimCr, Last
  <1> HIDE DEF E, f, g, x, y, n
  <1>8. SseItems(t, TRUE) = Closed(Append(g, <<>>))
    BY <1>4, <1>5, <1>6, SseItemsAre DEF g
  <1>9. Closed(Append(g, <<>>)) = Closed(g)
    <2>1. IsSeq(g)
      BY <1>3, Appended
    <2>2. AppendSseField(<<>>, Pending(g)) = Pending(g)
      BY DEF AppendSseField
    <2> QED
      BY <2>1, <2>2, ClosedSnoc DEF Closed
  <1>10. Closed(g) = o \o FinishSseFields(AppendSseField(x, ev))
    BY <1>1, <1>3, ClosedSnoc
  <1> QED
    BY <1>7, <1>8, <1>9, <1>10 DEF y, n

-----------------------------------------------------------------------------
\* The line feeds up to a position, and what was framed there.
Feeds(t, c) == {i \in 1..c : t[i] = "LF"}
NdAt(t, c, o) ==
  /\ c \in 0..Len(t)
  /\ c # 0 => t[c] = "LF"
  /\ o = Payloads(NdLines(t, Feeds(t, c)))

LEMMA FeedsAre ==
  ASSUME NEW t \in Seq(Symbols), NEW c \in 0..Len(t), c # 0 => t[c] = "LF"
  PROVE  /\ Feeds(t, c) \in SUBSET (0..Len(t)) /\ Feeds(t, c) \in SUBSET Nat
         /\ IsFiniteSet(Feeds(t, c)) /\ \A i \in Feeds(t, c) : i <= c
         /\ Begin(Feeds(t, c), Cardinality(Feeds(t, c)) + 1) = c + 1
         /\ IsSeq(NdLines(t, Feeds(t, c)))
  <1> DEFINE E == Feeds(t, c)
  <1>1. Len(t) \in Nat
    OBVIOUS
  <1>2. E \in SUBSET (0..Len(t)) /\ E \in SUBSET Nat /\ \A i \in E : i <= c
    BY <1>1 DEF Feeds
  <1>3. IsFiniteSet(E)
    BY <1>1, <1>2, NthIsIn
  <1>4. Begin(E, Cardinality(E) + 1) = c + 1
    <2>1. CASE c = 0
      <3>1. E = {}
        BY <2>1 DEF Feeds
      <3>2. Begin({}, Cardinality({}) + 1) = 1
        BY PickedNone DEF Begin
      <3> HIDE DEF E
      <3> QED
        BY <2>1, <3>1, <3>2
    <2>2. CASE c # 0
      <3>1. c \in E
        BY <2>2 DEF Feeds
      <3> HIDE DEF E
      <3> QED
        BY <1>1, <1>2, <3>1, BeginAfter
    <2> QED
      BY <2>1, <2>2
  <1>5. c + 1 \in Nat /\ \A i \in E : i < c + 1
    BY <1>2
  <1> HIDE DEF E
  <1>6. IsSeq(NdLines(t, E))
    BY <1>2, <1>3, <1>5, NdLinesSnoc
  <1> QED
    BY <1>2, <1>3, <1>4, <1>6 DEF E

LEMMA NdStart == ASSUME NEW t \in Seq(Symbols) PROVE NdAt(t, 0, <<>>)
  <1>1. Feeds(t, 0) = {} /\ 0 \in 0..Len(t)
    BY DEF Feeds
  <1>2. NdLines(t, {}) = <<>>
    BY PickedNone DEF NdLines
  <1> QED
    BY <1>1, <1>2, PayloadsNone DEF NdAt

LEMMA NdStep ==
  ASSUME NEW t \in Seq(Symbols), NEW c, NEW o, NdAt(t, c, o),
         NEW h \in c + 1..Len(t), t[h] = "LF", \A i \in c + 1..h - 1 : t[i] # "LF"
  PROVE  NdAt(t, h, o \o FrameItem(TrimCr(SubSeq(t, c + 1, h - 1))))
  <1> DEFINE E == Feeds(t, c)
             f == NdLines(t, E)
             x == SubSeq(t, c + 1, h - 1)
  <1>1. c \in 0..Len(t) /\ (c # 0 => t[c] = "LF") /\ o = Payloads(f)
    BY DEF NdAt
  <1>2. Len(t) \in Nat /\ c \in Nat /\ h \in Nat /\ h >= 1 /\ h <= Len(t)
    BY <1>1
  <1>3. /\ E \in SUBSET Nat /\ IsFiniteSet(E) /\ (\A i \in E : i <= c)
        /\ Begin(E, Cardinality(E) + 1) = c + 1 /\ IsSeq(f)
    BY <1>1, FeedsAre
  <1>4. Feeds(t, h) = E \cup {h}
    <2>1. \A i \in 1..h : i \in 1..c \/ i \in c + 1..h - 1 \/ i = h
      BY <1>2
    <2>2. \A i \in 1..c : i \in 1..h
      BY <1>2
    <2> QED
      BY <1>2, <2>1, <2>2 DEF Feeds
  <1>5. Front(SubSeq(t, c + 1, h)) = x
    <2>1. c + 1 \in 1..Len(t) /\ h \in c + 1..Len(t)
      BY <1>2
    <2> QED
      BY <2>1, FrontAndTail
  <1>6. \A i \in E : i < h
    BY <1>2, <1>3
  <1> HIDE DEF E, f, x
  <1>7. NdLines(t, Feeds(t, h)) = Append(f, TrimCr(x))
    BY <1>2, <1>3, <1>4, <1>5, <1>6, NdLinesSnoc DEF f
  <1>8. Payloads(NdLines(t, Feeds(t, h))) = o \o FrameItem(TrimCr(x))
    BY <1>1, <1>3, <1>7, PayloadsSnoc
  <1> QED
    BY <1>2, <1>8 DEF NdAt, x

LEMMA NdGrows ==
  ASSUME NEW t \in Seq(Symbols), NEW u \in Seq(Symbols), Begins(t, u),
         NEW c, NEW o, NdAt(t, c, o)
  PROVE  NdAt(u, c, o)
  <1>1. Len(t) \in Nat /\ Len(u) \in Nat /\ Len(t) <= Len(u) /\ \A i \in 1..Len(t) : t[i] = u[i]
    BY DEF Begins
  <1>2. c \in 0..Len(t) /\ (c # 0 => t[c] = "LF") /\ o = Payloads(NdLines(t, Feeds(t, c)))
    BY DEF NdAt
  <1>3. c \in 0..Len(u) /\ \A i \in 1..c : i \in 1..Len(t)
    BY <1>1, <1>2
  <1>4. Feeds(u, c) = Feeds(t, c)
    BY <1>1, <1>3 DEF Feeds
  <1>5. Pieces(t, Feeds(t, c)) = Pieces(u, Feeds(t, c))
    <2>1. Feeds(t, c) \in SUBSET (0..Len(t))
      BY <1>2, FeedsAre
    <2> QED
      BY <1>1, <2>1, PiecesSame
  <1>6. c # 0 => u[c] = "LF"
    BY <1>1, <1>2
  <1> QED
    BY <1>2, <1>3, <1>4, <1>5, <1>6 DEF NdAt, NdLines

LEMMA NdMore ==
  ASSUME NEW t \in Seq(Symbols), NEW c, NEW o, NdAt(t, c, o),
         \A i \in c + 1..Len(t) : t[i] # "LF"
  PROVE  /\ NdjsonItems(t, FALSE) = o
         /\ NdjsonItems(t, TRUE) = o \o FrameItem(TrimCr(SubSeq(t, c + 1, Len(t))))
  <1> DEFINE E == Feeds(t, c)
             f == NdLines(t, E)
  <1>1. c \in 0..Len(t) /\ (c # 0 => t[c] = "LF") /\ o = Payloads(f)
    BY DEF NdAt
  <1>2. {i \in DOMAIN t : t[i] = "LF"} = E
    <2>1. DOMAIN t = 1..Len(t) /\ Len(t) \in Nat
      OBVIOUS
    <2>2. \A i \in 1..Len(t) : i \in 1..c \/ i \in c + 1..Len(t)
      BY <1>1, <2>1
    <2>3. \A i \in 1..c : i \in 1..Len(t)
      BY <1>1, <2>1
    <2> QED
      BY <2>1, <2>2, <2>3 DEF Feeds
  <1>3. Begin(E, Cardinality(E) + 1) = c + 1 /\ IsSeq(f)
    BY <1>1, FeedsAre
  <1>4. Rest(t, E) = SubSeq(t, c + 1, Len(t))
    BY <1>3 DEF Rest, From
  <1> HIDE DEF E
  <1>5. NdjsonItems(t, FALSE) = Payloads(f)
    BY <1>2 DEF NdjsonItems, NdLines
  <1>6. NdjsonItems(t, TRUE) = Payloads(Append(f, TrimCr(Rest(t, E))))
    BY <1>2 DEF NdjsonItems, NdLines
  <1> HIDE DEF f
  <1> QED
    BY <1>1, <1>3, <1>4, <1>5, <1>6, PayloadsSnoc

\* The records that open up to a position, and what was framed there: no record is
\* framed before the first opens.
Opens(t, c) == {i \in 0..c : i < Len(t) /\ t[i + 1] = "RS"}
JsonAt(t, c, o) ==
  /\ c \in 0..Len(t)
  /\ IF c < Len(t) /\ t[c + 1] = "RS" THEN o = Payloads(Records(Pieces(t, Opens(t, c))))
     ELSE c = 0 /\ o = <<>>

LEMMA OpensAre ==
  ASSUME NEW t \in Seq(Symbols), NEW c \in 0..Len(t), c < Len(t), t[c + 1] = "RS"
  PROVE  /\ Opens(t, c) \in SUBSET (0..Len(t)) /\ Opens(t, c) \in SUBSET Nat
         /\ IsFiniteSet(Opens(t, c)) /\ (\A i \in Opens(t, c) : i <= c)
         /\ Begin(Opens(t, c), Cardinality(Opens(t, c)) + 1) = c + 1
         /\ IsSeq(Pieces(t, Opens(t, c))) /\ Pieces(t, Opens(t, c)) # <<>>
  <1> DEFINE E == Opens(t, c)
             R == E \ {c}
  <1>1. Len(t) \in Nat /\ c \in Nat
    OBVIOUS
  <1>2. E \in SUBSET (0..Len(t)) /\ E \in SUBSET Nat /\ (\A i \in E : i <= c) /\ c \in E
    BY <1>1 DEF Opens
  <1> HIDE DEF E
  <1>3. R \in SUBSET (0..Len(t)) /\ R \in SUBSET Nat /\ (\A i \in R : i < c) /\ E = R \cup {c}
    BY <1>1, <1>2
  <1>4. IsFiniteSet(R) /\ IsFiniteSet(E)
    BY <1>1, <1>2, <1>3, NthIsIn
  <1>5. Begin(E, Cardinality(E) + 1) = c + 1
    BY <1>1, <1>2, BeginAfter
  <1> HIDE DEF R
  <1> DEFINE p == Pieces(t, R)
             x == SubSeq(t, Begin(R, Cardinality(R) + 1), c)
  <1>6. Pieces(t, E) = Append(p, x) /\ IsSeq(p)
    BY <1>1, <1>3, <1>4, PiecesSnoc
  <1> HIDE DEF p, x
  <1>7. IsSeq(Pieces(t, E)) /\ Pieces(t, E) # <<>>
    BY <1>6, Appended
  <1> QED
    BY <1>2, <1>4, <1>5, <1>7 DEF E

LEMMA OneRecord ==
  ASSUME NEW t \in Seq(Symbols), NEW e \in Nat
  PROVE  Payloads(Records(Pieces(t, {e}))) = <<>>
  <1>1. {} \in SUBSET Nat /\ IsFiniteSet({}) /\ {e} = {} \cup {e} /\ \A i \in {} : i < e
    BY FS_EmptySet
  <1> DEFINE x == SubSeq(t, Begin({}, Cardinality({}) + 1), e)
  <1>2. Pieces(t, {} \cup {e}) = Append(Pieces(t, {}), x)
    BY <1>1, PiecesSnoc
  <1>3. Pieces(t, {e}) = <<x>>
    <2> HIDE DEF x
    <2>1. Pieces(t, {}) = <<>> /\ Append(<<>>, x) = <<x>>
      BY PickedNone
    <2> QED
      BY <1>1, <1>2, <2>1
  <1>4. Records(<<x>>) = <<>>
    <2> HIDE DEF x
    <2>1. Len(<<x>>) - 1 = 0 /\ 1..0 = {}
      OBVIOUS
    <2> QED
      BY <2>1 DEF Records
  <1> QED
    BY <1>3, <1>4, PayloadsNone

LEMMA JsonStart == ASSUME NEW t \in Seq(Symbols) PROVE JsonAt(t, 0, <<>>)
  <1>1. 0 \in 0..Len(t) /\ Len(t) \in Nat
    OBVIOUS
  <1>2. CASE 0 < Len(t) /\ t[0 + 1] = "RS"
    <2>1. Opens(t, 0) = {0}
      BY <1>2 DEF Opens
    <2>2. Payloads(Records(Pieces(t, Opens(t, 0)))) = <<>>
      BY <2>1, OneRecord
    <2> QED
      BY <1>1, <1>2, <2>2 DEF JsonAt
  <1>3. CASE ~ (0 < Len(t) /\ t[0 + 1] = "RS")
    BY <1>1, <1>3 DEF JsonAt
  <1> QED
    BY <1>2, <1>3

LEMMA JsonStep ==
  ASSUME NEW t \in Seq(Symbols), NEW c, NEW o, JsonAt(t, c, o),
         NEW h \in c + 1..Len(t), t[h] = "RS", t[c + 1] = "RS" => h # c + 1,
         \A i \in c + 1..h - 1 : t[i] = "RS" => i = c + 1
  PROVE  JsonAt(t, h - 1, IF t[c + 1] = "RS" THEN o \o FrameItem(TrimAscii(SubSeq(t, c + 2, h - 1)))
                          ELSE o)
  <1> DEFINE e == h - 1
             E == Opens(t, c)
             p == Pieces(t, E)
             x == SubSeq(t, c + 1, e)
  <1>1. c \in 0..Len(t) /\ Len(t) \in Nat /\ c \in Nat /\ h \in Nat /\ h >= 1 /\ h <= Len(t)
    BY DEF JsonAt
  <1>2. /\ e \in 0..Len(t) /\ e \in Nat /\ e < Len(t) /\ t[e + 1] = "RS" /\ c <= e
        /\ c < Len(t)
    BY <1>1
  <1>3. ASSUME NEW q, q = Payloads(Records(Pieces(t, Opens(t, e)))) PROVE JsonAt(t, e, q)
    BY <1>2, <1>3 DEF JsonAt
  <1>4. CASE t[c + 1] = "RS"
    <2>1. o = Payloads(Records(p))
      BY <1>2, <1>4 DEF JsonAt
    <2>2. /\ E \in SUBSET Nat /\ IsFiniteSet(E) /\ (\A i \in E : i <= c)
          /\ Begin(E, Cardinality(E) + 1) = c + 1 /\ IsSeq(p) /\ p # <<>>
      BY <1>1, <1>2, <1>4, OpensAre
    <2>3. h # c + 1 /\ c < e
      BY <1>1, <1>2, <1>4
    <2>4. Opens(t, e) = E \cup {e}
      <3>1. \A i \in 0..e : i \in 0..c \/ i = e \/ (i + 1 \in c + 1..h - 1 /\ i + 1 # c + 1)
        BY <1>1, <1>2
      <3>2. \A i \in 0..c : i \in 0..e
        BY <1>1, <1>2
      <3> QED
        BY <1>1, <1>2, <3>1, <3>2 DEF Opens
    <2>5. Tail(x) = SubSeq(t, c + 2, e)
      <3>1. c + 1 \in 1..Len(t) /\ e \in c + 1..Len(t) /\ (c + 1) + 1 = c + 2
        BY <1>1, <1>2, <2>3
      <3> HIDE DEF e
      <3> QED
        BY <3>1, FrontAndTail
    <2>6. \A i \in E : i < e
      BY <1>1, <1>2, <2>2, <2>3
    <2> HIDE DEF E
    <2>7. Pieces(t, Opens(t, e)) = Append(p, x)
      <3> HIDE DEF e
      <3>1. e \in Nat
        BY <1>2
      <3>2. Pieces(t, E \cup {e}) = Append(Pieces(t, E), SubSeq(t, Begin(E, Cardinality(E) + 1), e))
        BY <2>2, <2>6, <3>1, PiecesSnoc
      <3> QED
        BY <2>2, <2>4, <3>2
    <2> HIDE DEF p, x, e
    <2>8. /\ IsSeq(Records(p))
          /\ Records(Append(p, x)) = Append(Records(p), TrimAscii(SubSeq(t, c + 2, e)))
      BY <2>2, <2>5, RecordsSnoc
    <2>9. Payloads(Records(Append(p, x))) = o \o FrameItem(TrimAscii(SubSeq(t, c + 2, e)))
      BY <2>1, <2>8, PayloadsSnoc
    <2>10. JsonAt(t, e, o \o FrameItem(TrimAscii(SubSeq(t, c + 2, e))))
      BY <1>3, <2>7, <2>9
    <2> QED
      BY <1>4, <2>10 DEF e
  <1>5. CASE t[c + 1] # "RS"
    <2>1. c = 0 /\ o = <<>>
      BY <1>5 DEF JsonAt
    <2>2. Opens(t, e) = {e}
      <3>1. \A i \in 0..e : i = e \/ i + 1 \in c + 1..h - 1
        BY <1>1, <1>2, <2>1
      <3>2. \A i \in c + 1..h - 1 : t[i] # "RS"
        BY <1>5
      <3> QED
        BY <1>2, <3>1, <3>2 DEF Opens
    <2>3. Payloads(Records(Pieces(t, Opens(t, e)))) = <<>>
      BY <1>2, <2>2, OneRecord
    <2> HIDE DEF e
    <2>4. JsonAt(t, e, o)
      BY <1>3, <2>1, <2>3
    <2> QED
      BY <1>5, <2>4 DEF e
  <1> QED
    BY <1>4, <1>5

LEMMA JsonGrows ==
  ASSUME NEW t \in Seq(Symbols), NEW u \in Seq(Symbols), Begins(t, u),
         NEW c, NEW o, JsonAt(t, c, o)
  PROVE  JsonAt(u, c, o)
  <1>1. Len(t) \in Nat /\ Len(u) \in Nat /\ Len(t) <= Len(u) /\ \A i \in 1..Len(t) : t[i] = u[i]
    BY DEF Begins
  <1>2. CASE c < Len(t) /\ t[c + 1] = "RS"
    <2>1. c \in 0..Len(t) /\ o = Payloads(Records(Pieces(t, Opens(t, c))))
      BY <1>2 DEF JsonAt
    <2>2. \A i \in 0..c : i + 1 \in 1..Len(t) /\ i < Len(t) /\ i < Len(u)
      BY <1>1, <1>2, <2>1
    <2>3. Opens(u, c) = Opens(t, c)
      BY <1>1, <2>2 DEF Opens
    <2>4. Pieces(t, Opens(t, c)) = Pieces(u, Opens(t, c))
      <3>1. Opens(t, c) \in SUBSET (0..Len(t))
        BY <1>2, <2>1, OpensAre
      <3> QED
        BY <1>1, <3>1, PiecesSame
    <2>5. c \in 0..Len(u) /\ c \in 0..c /\ c < Len(u) /\ u[c + 1] = "RS"
      BY <1>1, <1>2, <2>1, <2>2
    <2> QED
      BY <2>1, <2>3, <2>4, <2>5 DEF JsonAt
  <1>3. CASE ~ (c < Len(t) /\ t[c + 1] = "RS")
    <2>1. c = 0 /\ o = <<>>
      BY <1>3 DEF JsonAt
    <2> QED
      BY <2>1, JsonStart
  <1> QED
    BY <1>2, <1>3

LEMMA JsonMore ==
  ASSUME NEW t \in Seq(Symbols), NEW c, NEW o, JsonAt(t, c, o),
         \A i \in c + 1..Len(t) : t[i] = "RS" => i = c + 1
  PROVE  /\ JsonItems(t, FALSE) = o
         /\ JsonItems(t, TRUE)
              = IF c < Len(t) /\ t[c + 1] = "RS"
                THEN o \o FrameItem(TrimAscii(SubSeq(t, c + 2, Len(t)))) ELSE o
  <1> DEFINE opens == {i \in DOMAIN t : t[i] = "RS"}
             upto == {i - 1 : i \in opens}
             n == Len(t)
  <1>1. n \in Nat /\ DOMAIN t = 1..n /\ c \in 0..n /\ c \in Nat
    BY DEF JsonAt
  <1>2. CASE c < Len(t) /\ t[c + 1] = "RS"
    <2> DEFINE E == Opens(t, c)
               p == Pieces(t, E)
               x == SubSeq(t, c + 1, n)
    <2>1. o = Payloads(Records(p))
      BY <1>2 DEF JsonAt
    <2>2. /\ E \in SUBSET Nat /\ IsFiniteSet(E) /\ (\A i \in E : i <= c)
          /\ Begin(E, Cardinality(E) + 1) = c + 1 /\ IsSeq(p) /\ p # <<>>
      BY <1>1, <1>2, OpensAre
    <2>3. upto = E
      <3>1. ASSUME NEW i \in upto PROVE i \in E
        <4>1. PICK k \in 1..n : t[k] = "RS" /\ i = k - 1
          BY <1>1
        <4>2. k \in 1..c \/ k \in c + 1..n
          BY <1>1
        <4>3. k <= c + 1 /\ i + 1 = k
          BY <1>1, <4>1, <4>2
        <4> QED
          BY <1>1, <4>1, <4>3 DEF Opens
      <3>2. ASSUME NEW i \in E PROVE i \in upto
        <4>1. i + 1 \in 1..n /\ t[i + 1] = "RS" /\ (i + 1) - 1 = i
          BY <1>1 DEF Opens
        <4>2. i + 1 \in opens
          BY <1>1, <4>1
        <4> HIDE DEF opens
        <4> QED
          BY <4>1, <4>2
      <3> QED
        BY <3>1, <3>2
    <2>4. E # {}
      <3>1. c \in E
        BY <1>1, <1>2 DEF Opens
      <3> QED
        BY <3>1
    <2>5. JsonItems(t, FALSE) = o
      <3>1. JsonItems(t, FALSE) = Payloads(Records(Pieces(t, upto)))
        <4>1. upto # {}
          BY <2>3, <2>4
        <4> QED
          BY <4>1 DEF JsonItems
      <3> QED
        BY <2>1, <2>3, <3>1
    <2>6. JsonItems(t, TRUE) = Payloads(Records(Pieces(t, E \cup {n})))
      <3>1. JsonItems(t, TRUE) = Payloads(Records(Pieces(t, upto \cup {n})))
        <4>1. upto # {}
          BY <2>3, <2>4
        <4> QED
          BY <4>1 DEF JsonItems
      <3> QED
        BY <2>3, <3>1
    <2>7. Tail(x) = SubSeq(t, c + 2, n)
      <3>1. c + 1 \in 1..Len(t) /\ n \in c + 1..Len(t) /\ (c + 1) + 1 = c + 2
        BY <1>1, <1>2
      <3> QED
        BY <3>1, FrontAndTail
    <2>8. \A i \in E : i < n
      BY <1>1, <1>2, <2>2
    <2> HIDE DEF E, upto
    <2>9. Pieces(t, E \cup {n}) = Append(p, x)
      <3> HIDE DEF n
      <3> QED
        BY <1>1, <2>2, <2>8, PiecesSnoc
    <2> HIDE DEF p, x, n
    <2>10. /\ IsSeq(Records(p))
           /\ Records(Append(p, x)) = Append(Records(p), TrimAscii(SubSeq(t, c + 2, n)))
      BY <2>2, <2>7, RecordsSnoc
    <2>11. Payloads(Records(Append(p, x))) = o \o FrameItem(TrimAscii(SubSeq(t, c + 2, n)))
      BY <2>1, <2>10, PayloadsSnoc
    <2>12. JsonItems(t, TRUE) = o \o FrameItem(TrimAscii(SubSeq(t, c + 2, n)))
      BY <2>6, <2>9, <2>11
    <2> QED
      BY <1>2, <2>5, <2>12 DEF n
  <1>3. CASE ~ (c < Len(t) /\ t[c + 1] = "RS")
    <2>1. c = 0 /\ o = <<>>
      BY <1>3 DEF JsonAt
    <2>2. \A i \in 1..n : t[i] # "RS"
      <3> SUFFICES ASSUME NEW i \in 1..n, t[i] = "RS" PROVE FALSE
        OBVIOUS
      <3>1. i \in c + 1..Len(t) /\ 0 < Len(t)
        BY <1>1, <2>1
      <3>2. i = c + 1
        BY <3>1
      <3> QED
        BY <1>3, <2>1, <3>1, <3>2
    <2>3. upto = {}
      BY <1>1, <2>2
    <2>4. JsonItems(t, FALSE) = <<>> /\ JsonItems(t, TRUE) = <<>>
      BY <2>3 DEF JsonItems
    <2> QED
      BY <1>3, <2>1, <2>4
  <1> QED
    BY <1>2, <1>3

\* The text is what follows a byte order mark.
TextOf(f, b) == IF f = "sse" /\ IsPrefix(BOM, b) THEN From(b, 4) ELSE b

LEMMA MarkIs ==
  ASSUME NEW b \in Seq(Symbols)
  PROVE  /\ IsPrefix(BOM, b) <=> Len(b) >= 3 /\ b[1] = "EF" /\ b[2] = "BB" /\ b[3] = "BF"
         /\ IsStrictPrefix(b, BOM) <=> /\ Len(b) <= 2
                                       /\ Len(b) >= 1 => b[1] = "EF"
                                       /\ Len(b) >= 2 => b[2] = "BB"
  <1>0. BOM \in Seq(Symbols) /\ Len(BOM) = 3 /\ BOM[1] = "EF" /\ BOM[2] = "BB" /\ BOM[3] = "BF"
    BY DEF BOM, Symbols
  <1>1. ASSUME NEW s \in Seq(Symbols), NEW t \in Seq(Symbols)
        PROVE  IsPrefix(s, t) <=> Len(s) <= Len(t) /\ \A i \in 1..Len(s) : s[i] = t[i]
    <2>1. CASE ~ (Len(s) <= Len(t))
      BY <2>1 DEF IsPrefix
    <2>2. CASE Len(s) <= Len(t)
      <3>1. /\ 1 \in 1..Len(s) + 1 /\ Len(s) \in 1 - 1..Len(s)
            /\ 1 \in 1..Len(t) + 1 /\ Len(s) \in 1 - 1..Len(t) /\ Len(s) \in Nat
        BY <2>2
      <3> DEFINE p == SubSeq(s, 1, Len(s))
                 q == SubSeq(t, 1, Len(s))
      <3>2. /\ \A i \in 1..Len(s) - 1 + 1 : p[i] = s[1 + i - 1]
            /\ \A i \in 1..Len(s) - 1 + 1 : q[i] = t[1 + i - 1]
            /\ Len(p) = Len(s) - 1 + 1 /\ Len(q) = Len(s) - 1 + 1
            /\ p \in Seq(Symbols) /\ q \in Seq(Symbols)
        BY <3>1, SubSeqIs
      <3> HIDE DEF p, q
      <3>3. /\ \A i \in 1..Len(s) : p[i] = s[i] /\ q[i] = t[i]
            /\ Len(p) = Len(s) /\ Len(q) = Len(s)
        BY <3>1, <3>2
      <3>4. p = q <=> \A i \in 1..Len(s) : s[i] = t[i]
        <4>1. IsSeq(p) /\ IsSeq(q)
          BY <3>2 DEF IsSeq
        <4> QED
          BY <3>3, <4>1, SameSeq
      <3> QED
        BY <2>2, <3>4 DEF IsPrefix, p, q
    <2> QED
      BY <2>1, <2>2
  <1>2. IsPrefix(BOM, b) <=> Len(b) >= 3 /\ b[1] = "EF" /\ b[2] = "BB" /\ b[3] = "BF"
    <2>1. IsPrefix(BOM, b) <=> Len(BOM) <= Len(b) /\ \A i \in 1..Len(BOM) : BOM[i] = b[i]
      BY <1>0, <1>1
    <2>2. \A i \in 1..3 : i = 1 \/ i = 2 \/ i = 3
      OBVIOUS
    <2>3. 1 \in 1..3 /\ 2 \in 1..3 /\ 3 \in 1..3
      OBVIOUS
    <2> QED
      BY <1>0, <2>1, <2>2, <2>3
  <1>3. IsPrefix(b, BOM) <=> Len(b) <= 3 /\ \A i \in 1..Len(b) : b[i] = BOM[i]
    BY <1>0, <1>1
  <1>4. b = BOM <=> Len(b) = 3 /\ \A i \in 1..3 : b[i] = BOM[i]
    <2>1. IsSeq(b) /\ IsSeq(BOM)
      BY <1>0 DEF IsSeq
    <2> QED
      BY <1>0, <2>1, SameSeq
  <1>5. IsStrictPrefix(b, BOM) <=> IsPrefix(b, BOM) /\ b # BOM
    BY DEF IsStrictPrefix
  <1>6. IsStrictPrefix(b, BOM) <=> Len(b) <= 2 /\ \A i \in 1..Len(b) : b[i] = BOM[i]
    <2>1. Len(b) <= 3 <=> (Len(b) <= 2 \/ Len(b) = 3)
      <3>1. \A n \in Nat : n <= 3 <=> (n <= 2 \/ n = 3)
        OBVIOUS
      <3>2. Len(b) \in Nat
        OBVIOUS
      <3> QED
        BY <3>1, <3>2
    <2>2. CASE Len(b) = 3
      <3>1. 1..Len(b) = 1..3 /\ ~ (Len(b) <= 2)
        BY <2>2
      <3> QED
        BY <1>3, <1>4, <1>5, <2>2, <3>1
    <2>3. CASE Len(b) # 3
      <3>1. b # BOM
        BY <1>4, <2>3
      <3> QED
        BY <1>3, <1>5, <2>1, <2>3, <3>1
    <2> QED
      BY <2>2, <2>3
  <1>7. ASSUME Len(b) <= 2
        PROVE  (\A i \in 1..Len(b) : b[i] = BOM[i])
                 <=> (Len(b) >= 1 => b[1] = "EF") /\ (Len(b) >= 2 => b[2] = "BB")
    <2>1. \A i \in 1..Len(b) : (i = 1 /\ Len(b) >= 1) \/ (i = 2 /\ Len(b) >= 2)
      BY <1>7
    <2>2. (Len(b) >= 1 => 1 \in 1..Len(b)) /\ (Len(b) >= 2 => 2 \in 1..Len(b))
      BY <1>7
    <2> QED
      BY <1>0, <2>1, <2>2
  <1> QED
    BY <1>2, <1>6, <1>7

\* The text is the bytes without the first none or three.
LEMMA TextIs ==
  ASSUME NEW f, NEW b \in Seq(Symbols)
  PROVE  /\ TextOf(f, b) \in Seq(Symbols)
         /\ \E k \in {0, 3} : /\ (k = 3 <=> f = "sse" /\ IsPrefix(BOM, b)) /\ k <= Len(b)
                              /\ Len(TextOf(f, b)) = Len(b) - k
                              /\ \A i \in 1..Len(b) - k : TextOf(f, b)[i] = b[k + i]
  <1>1. CASE f = "sse" /\ IsPrefix(BOM, b)
    <2>1. 4 \in 1..Len(b) + 1 /\ Len(b) - 4 + 1 = Len(b) - 3 /\ 3 <= Len(b)
      BY <1>1, MarkIs
    <2>2. /\ From(b, 4) \in Seq(Symbols) /\ Len(From(b, 4)) = Len(b) - 4 + 1
          /\ \A i \in 1..Len(b) - 4 + 1 : From(b, 4)[i] = b[4 + i - 1]
      BY <2>1, FromShape
    <2>3. TextOf(f, b) = From(b, 4)
      BY <1>1 DEF TextOf
    <2>4. \A i \in 1..Len(b) - 3 : 4 + i - 1 = 3 + i
      BY <2>1
    <2> QED
      BY <1>1, <2>1, <2>2, <2>3, <2>4
  <1>2. CASE ~ (f = "sse" /\ IsPrefix(BOM, b))
    <2>1. TextOf(f, b) = b
      BY <1>2 DEF TextOf
    <2>2. Len(b) - 0 = Len(b) /\ 0 <= Len(b) /\ \A i \in 1..Len(b) - 0 : 0 + i = i
      OBVIOUS
    <2>3. /\ 0 \in {0, 3} /\ ~ (0 = 3)
          /\ Len(TextOf(f, b)) = Len(b) - 0
          /\ \A i \in 1..Len(b) - 0 : TextOf(f, b)[i] = b[0 + i]
      BY <2>1, <2>2
    <2> QED
      BY <1>2, <2>1, <2>2, <2>3
  <1> QED
    BY <1>1, <1>2

\* Once the mark is decided more bytes add to the text as many.
LEMMA TextGrows ==
  ASSUME NEW f, NEW b \in Seq(Symbols), NEW u \in Seq(Symbols), Begins(b, u),
         f = "sse" => ~ IsStrictPrefix(b, BOM)
  PROVE  /\ f = "sse" => ~ IsStrictPrefix(u, BOM)
         /\ Begins(TextOf(f, b), TextOf(f, u))
         /\ \E k \in {0, 3} : /\ k <= Len(b) /\ Len(TextOf(f, b)) = Len(b) - k
                              /\ Len(TextOf(f, u)) = Len(u) - k
                              /\ \A i \in 1..Len(u) - k : TextOf(f, u)[i] = u[k + i]
  <1>1. Len(b) \in Nat /\ Len(u) \in Nat /\ Len(b) <= Len(u) /\ \A i \in 1..Len(b) : b[i] = u[i]
    BY DEF Begins
  <1>2. (Len(b) >= 1 => b[1] = u[1]) /\ (Len(b) >= 2 => b[2] = u[2]) /\ (Len(b) >= 3 => b[3] = u[3])
    BY <1>1
  <1>3. f = "sse" => ~ IsStrictPrefix(u, BOM)
    BY <1>1, <1>2, MarkIs
  <1>4. f = "sse" => (IsPrefix(BOM, b) <=> IsPrefix(BOM, u))
    BY <1>1, <1>2, MarkIs
  <1>5. PICK k \in {0, 3} : /\ (k = 3 <=> f = "sse" /\ IsPrefix(BOM, b)) /\ k <= Len(b)
                            /\ Len(TextOf(f, b)) = Len(b) - k
                            /\ \A i \in 1..Len(b) - k : TextOf(f, b)[i] = b[k + i]
    BY TextIs
  <1>6. PICK m \in {0, 3} : /\ (m = 3 <=> f = "sse" /\ IsPrefix(BOM, u)) /\ m <= Len(u)
                            /\ Len(TextOf(f, u)) = Len(u) - m
                            /\ \A i \in 1..Len(u) - m : TextOf(f, u)[i] = u[m + i]
    BY TextIs
  <1>7. k = m /\ k \in Nat
    BY <1>4, <1>5, <1>6
  <1>8. Begins(TextOf(f, b), TextOf(f, u))
    <2>1. \A i \in 1..Len(b) - k : i \in 1..Len(u) - k /\ k + i \in 1..Len(b)
      BY <1>1, <1>5, <1>7
    <2>2. \A i \in 1..Len(b) - k : TextOf(f, b)[i] = TextOf(f, u)[i]
      BY <1>1, <1>5, <1>6, <1>7, <2>1
    <2>3. Len(b) - k <= Len(u) - k
      BY <1>1, <1>7
    <2> QED
      BY <1>5, <1>6, <1>7, <2>2, <2>3 DEF Begins
  <1> QED
    BY <1>3, <1>5, <1>6, <1>7, <1>8

-----------------------------------------------------------------------------
\* What is buffered is the end of the text.
Behind(t, buf) == /\ Len(buf) <= Len(t)
                  /\ \A i \in 1..Len(buf) : buf[i] = t[Len(t) - Len(buf) + i]

LEMMA BufferPart ==
  ASSUME NEW t \in Seq(Symbols), NEW buf \in Seq(Symbols), Behind(t, buf),
         NEW a \in 1..Len(buf) + 1, NEW b \in a - 1..Len(buf),
         NEW c, c = Len(t) - Len(buf)
  PROVE  SubSeq(buf, a, b) = SubSeq(t, c + a, c + b)
  <1>1. Len(t) \in Nat /\ Len(buf) \in Nat /\ Len(buf) <= Len(t) /\ c \in Nat /\ Len(t) = c + Len(buf)
    BY DEF Behind
  <1>2. /\ c + a \in 1..Len(t) + 1 /\ c + b \in (c + a) - 1..Len(t)
        /\ b - a = (c + b) - (c + a)
    BY <1>1
  <1>3. \A i \in 1..b - a + 1 : buf[a + i - 1] = t[(c + a) + i - 1]
    <2> TAKE i \in 1..b - a + 1
    <2>1. a + i - 1 \in 1..Len(buf) /\ c + (a + i - 1) = (c + a) + i - 1
      BY <1>1
    <2>2. buf[a + i - 1] = t[c + (a + i - 1)]
      BY <2>1 DEF Behind
    <2> QED
      BY <2>1, <2>2
  <1> DEFINE x == c + a
             y == c + b
  <1>4. /\ x \in 1..Len(t) + 1 /\ y \in x - 1..Len(t) /\ b - a = y - x
        /\ \A i \in 1..b - a + 1 : buf[a + i - 1] = t[x + i - 1]
    BY <1>2, <1>3
  <1> HIDE DEF x, y
  <1>5. SubSeq(buf, a, b) = SubSeq(t, x, y)
    BY <1>4, SameParts
  <1> QED
    BY <1>5 DEF x, y

\* It stays so when its front is consumed.
LEMMA BehindFrom ==
  ASSUME NEW t \in Seq(Symbols), NEW buf \in Seq(Symbols), Behind(t, buf), NEW k \in 0..Len(buf)
  PROVE  /\ From(buf, k + 1) \in Seq(Symbols) /\ Behind(t, From(buf, k + 1))
         /\ Len(t) - Len(From(buf, k + 1)) = Len(t) - Len(buf) + k
  <1> DEFINE r == From(buf, k + 1)
             n == Len(buf)
  <1>1. k + 1 \in 1..n + 1 /\ n - (k + 1) + 1 = n - k /\ n \in Nat /\ k \in Nat /\ Len(t) \in Nat
    OBVIOUS
  <1>2. /\ r \in Seq(Symbols) /\ Len(r) = n - (k + 1) + 1
        /\ \A i \in 1..n - (k + 1) + 1 : r[i] = buf[(k + 1) + i - 1]
    BY <1>1, FromShape
  <1> HIDE DEF r
  <1>3. Len(r) = n - k /\ Len(t) - Len(r) = Len(t) - n + k
    BY <1>1, <1>2
  <1>4. ASSUME NEW i \in 1..Len(r) PROVE r[i] = t[Len(t) - Len(r) + i]
    <2>1. (k + 1) + i - 1 \in 1..n /\ i \in 1..n - (k + 1) + 1
          /\ Len(t) - n + ((k + 1) + i - 1) = Len(t) - Len(r) + i
      BY <1>1, <1>3
    <2> QED
      BY <1>2, <2>1 DEF Behind
  <1>5. Len(r) <= Len(t)
    BY <1>1, <1>3 DEF Behind
  <1> QED
    BY <1>2, <1>3, <1>4, <1>5 DEF r, Behind

\* What ends an item under a framing, and what may be left behind what was framed:
\* the separator that opens a record, and a last CR.
TermsOf(f) == CASE f = "sse" -> {"CR", "LF"} [] f = "ndjson" -> {"LF"} [] f = "jsonseq" -> {"RS"}
LeftOver(f, t, c, l) ==
  \A i \in l + 1..Len(t) : t[i] \in TermsOf(f) =>
    (f = "jsonseq" /\ i = c + 1) \/ (f = "sse" /\ i = Len(t) /\ t[i] = "CR")

\* What was framed of a text of which c bytes were consumed and l lines read.
Framed(f, t, c, l, o, ev) ==
  /\ f = "sse" => SseAt(t, c + l, o, ev)
  /\ f = "ndjson" => l = 0 /\ NdAt(t, c, o)
  /\ f = "jsonseq" => l = 0 /\ JsonAt(t, c, o)

Good(f, b, buf, l, o, ev, pending) ==
  LET t == TextOf(f, b)
      c == Len(t) - Len(buf) IN
  /\ Behind(t, buf)
  /\ pending <=> f = "sse" /\ IsStrictPrefix(b, BOM)
  /\ pending => c = 0 /\ l = 0 /\ o = <<>> /\ ev = NoFields
  /\ Framed(f, t, c, l, o, ev)

Fed == SubSeq(body, 1, fed)
Text == TextOf(framing, Fed)
Base == Len(Text) - Len(buffer)

\* What was framed is what the bytes fed so far come to.
CutInv ==
  /\ eof => fed = Len(body)
  /\ pc # "end" => Good(framing, Fed, buffer, lineStart, out, event, bomPending)
  /\ pc = "more" => LeftOver(framing, Text, Base, Base + lineStart)
  /\ pc = "end" => out = ItemsOf(framing, body, TRUE)

LEMMA FedIs ==
  ASSUME Offsets
  PROVE  /\ Fed \in Seq(Symbols) /\ Len(Fed) = fed /\ \A i \in 1..fed : Fed[i] = body[i]
         /\ Text \in Seq(Symbols)
         /\ fed = Len(body) => Fed = body
  <1>1. body \in Seq(Symbols) /\ fed \in 0..Len(body)
    BY DEF Offsets
  <1>2. 1 \in 1..Len(body) + 1 /\ fed \in 1 - 1..Len(body) /\ fed - 1 + 1 = fed
    BY <1>1
  <1>3. /\ Fed \in Seq(Symbols) /\ Len(Fed) = fed - 1 + 1
        /\ \A i \in 1..fed - 1 + 1 : Fed[i] = body[1 + i - 1]
    BY <1>1, <1>2, SubSeqIs DEF Fed
  <1>4. \A i \in 1..fed : 1 + i - 1 = i
    BY <1>1
  <1>5. fed = Len(body) => Fed = body
    BY <1>1 DEF Fed
  <1>6. Text \in Seq(Symbols)
    BY <1>3, TextIs DEF Text
  <1> QED
    BY <1>2, <1>3, <1>4, <1>5, <1>6

\* When the framer needs more, what it framed is all there is.
LEMMA FramedIsAll ==
  ASSUME NEW f \in Framings, NEW b \in Seq(Symbols), NEW c, NEW l, NEW o, NEW ev,
         Framed(f, TextOf(f, b), c, l, o, ev), LeftOver(f, TextOf(f, b), c, c + l)
  PROVE  ItemsOf(f, b, FALSE) = o
  <1> DEFINE t == TextOf(f, b)
  <1>1. t \in Seq(Symbols)
    BY TextIs
  <1>2. CASE f = "sse"
    <2>1. ItemsOf(f, b, FALSE) = SseItems(t, FALSE)
      BY <1>2 DEF ItemsOf, TextOf
    <2> HIDE DEF t
    <2>2. SseAt(t, c + l, o, ev)
      BY <1>2 DEF Framed, t
    <2>3. \A i \in (c + l) + 1..Len(t) : t[i] \in {"CR", "LF"} => i = Len(t) /\ t[i] = "CR"
      BY <1>2 DEF LeftOver, TermsOf, t
    <2> QED
      BY <1>1, <2>1, <2>2, <2>3, SseMore
  <1>3. CASE f = "ndjson"
    <2>1. ItemsOf(f, b, FALSE) = NdjsonItems(t, FALSE)
      BY <1>3 DEF ItemsOf, TextOf
    <2>2. NdAt(t, c, o) /\ l = 0
      BY <1>3 DEF Framed
    <2>3. \A i \in c + 1..Len(t) : t[i] # "LF"
      <3>1. c + l = c
        BY <2>2 DEF NdAt
      <3> QED
        BY <1>3, <3>1 DEF LeftOver, TermsOf
    <2> HIDE DEF t
    <2> QED
      BY <1>1, <2>1, <2>2, <2>3, NdMore
  <1>4. CASE f = "jsonseq"
    <2>1. ItemsOf(f, b, FALSE) = JsonItems(t, FALSE)
      BY <1>4 DEF ItemsOf, TextOf
    <2>2. JsonAt(t, c, o) /\ l = 0
      BY <1>4 DEF Framed
    <2>3. \A i \in c + 1..Len(t) : t[i] = "RS" => i = c + 1
      <3>1. c + l = c
        BY <2>2 DEF JsonAt
      <3> QED
        BY <1>4, <3>1 DEF LeftOver, TermsOf
    <2> HIDE DEF t
    <2> QED
      BY <1>1, <2>1, <2>2, <2>3, JsonMore
  <1> QED
    BY <1>2, <1>3, <1>4 DEF Framings

\* What the search has and has not seen, at the positions of the text.
LEMMA Seen ==
  ASSUME IInv, NEW t \in Seq(Symbols), Behind(t, buffer), NEW c, c = Len(t) - Len(buffer)
  PROVE  /\ c \in Nat /\ Len(t) = c + Len(buffer) /\ Len(buffer) \in Nat /\ lineStart \in Nat
         /\ \A i \in 1..Len(buffer) : buffer[i] = t[c + i]
         /\ Hits = {} => \A i \in c + lineStart + 1..Len(t) :
                           t[i] \in TermsOf(framing) => framing = "jsonseq" /\ i = c + 1
         /\ Hits # {} =>
              /\ End \in lineStart + 1..Len(buffer) /\ t[c + End] \in TermsOf(framing)
              /\ \A i \in c + lineStart + 1..c + End - 1 :
                   t[i] \in TermsOf(framing) => framing = "jsonseq" /\ i = c + 1
              /\ framing = "jsonseq" /\ t[c + 1] = "RS" => End # 1
  <1>0. Offsets
    BY DEF IInv
  <1>1. /\ Len(t) \in Nat /\ Len(buffer) \in Nat /\ c \in Nat /\ Len(t) = c + Len(buffer)
        /\ lineStart \in Nat /\ scanned \in Nat /\ lineStart <= scanned /\ scanned <= Len(buffer)
    BY <1>0 DEF Behind, Offsets
  <1>2. \A i \in 1..Len(buffer) : buffer[i] = t[c + i]
    BY DEF Behind
  <1>3. Terminators = TermsOf(framing)
    BY DEF Terminators, TermsOf
  <1>4. /\ SearchFrom \in Nat /\ scanned <= SearchFrom /\ SearchFrom <= Len(buffer)
        /\ \A i \in scanned + 1 .. SearchFrom : framing = "jsonseq" /\ i = 1
        /\ Hits # {} => /\ End \in SearchFrom + 1 .. Len(buffer)
                        /\ buffer[End] \in Terminators
                        /\ \A j \in Hits : End <= j
    BY <1>0, SearchShape
  <1>5. ASSUME NEW i \in lineStart + 1..SearchFrom, buffer[i] \in Terminators
        PROVE  framing = "jsonseq" /\ i = 1
    <2>1. i \in lineStart + 1..scanned \/ i \in scanned + 1..SearchFrom
      BY <1>1, <1>4
    <2> QED
      BY <1>4, <1>5, <2>1 DEF IInv, NothingSkipped
  <1>6. ASSUME NEW m \in SearchFrom..Len(buffer), \A i \in SearchFrom + 1..m : i \notin Hits,
               NEW i \in c + lineStart + 1..c + m, t[i] \in TermsOf(framing)
        PROVE  framing = "jsonseq" /\ i = c + 1
    <2> DEFINE j == i - c
    <2>1. j \in lineStart + 1..m /\ i = c + j /\ j \in 1..Len(buffer)
      BY <1>1, <1>4
    <2> HIDE DEF j
    <2>2. buffer[j] \in Terminators
      BY <1>2, <1>3, <1>6, <2>1
    <2>3. j \notin SearchFrom + 1..m
      <3> SUFFICES ASSUME j \in SearchFrom + 1..m PROVE FALSE
        OBVIOUS
      <3>1. j \in SearchFrom + 1..Len(buffer)
        BY <1>1, <1>4
      <3>2. j \in Hits
        BY <2>2, <3>1 DEF Hits
      <3> QED
        BY <1>6, <3>2
    <2>4. j \in lineStart + 1..SearchFrom
      BY <1>1, <1>4, <2>1, <2>3
    <2> QED
      BY <1>1, <1>5, <2>1, <2>2, <2>4
  <1>7. ASSUME Hits = {}, NEW i \in c + lineStart + 1..Len(t), t[i] \in TermsOf(framing)
        PROVE  framing = "jsonseq" /\ i = c + 1
    <2>1. Len(buffer) \in SearchFrom..Len(buffer) /\ i \in c + lineStart + 1..c + Len(buffer)
      BY <1>1, <1>4
    <2> QED
      BY <1>6, <1>7, <2>1
  <1>8. ASSUME Hits # {}
        PROVE  /\ End \in lineStart + 1..Len(buffer) /\ t[c + End] \in TermsOf(framing)
               /\ \A i \in c + lineStart + 1..c + End - 1 :
                    t[i] \in TermsOf(framing) => framing = "jsonseq" /\ i = c + 1
               /\ framing = "jsonseq" /\ t[c + 1] = "RS" => End # 1
    <2>1. /\ End \in SearchFrom + 1 .. Len(buffer) /\ buffer[End] \in Terminators
          /\ \A j \in Hits : End <= j
      BY <1>4, <1>8
    <2>2. End \in lineStart + 1..Len(buffer) /\ End \in 1..Len(buffer)
      BY <1>1, <1>4, <2>1
    <2>3. t[c + End] \in TermsOf(framing)
      BY <1>2, <1>3, <2>1, <2>2
    <2>4. \A i \in c + lineStart + 1..c + End - 1 :
            t[i] \in TermsOf(framing) => framing = "jsonseq" /\ i = c + 1
      <3>1. /\ End - 1 \in SearchFrom..Len(buffer)
            /\ \A i \in SearchFrom + 1..End - 1 : ~ (End <= i)
            /\ c + (End - 1) = c + End - 1
        BY <1>1, <1>4, <2>1
      <3>2. \A i \in SearchFrom + 1..End - 1 : i \notin Hits
        BY <2>1, <3>1
      <3> QED
        BY <1>6, <3>1, <3>2
    <2>5. ASSUME framing = "jsonseq", t[c + 1] = "RS" PROVE End # 1
      <3>1. 1 \in 1..Len(buffer) /\ buffer # <<>>
        BY <1>1, <2>2
      <3>2. buffer[1] = "RS"
        BY <1>2, <2>5, <3>1
      <3>3. SearchFrom >= 1
        BY <1>1, <2>5, <3>1, <3>2 DEF SearchFrom
      <3> QED
        BY <1>4, <2>1, <3>3
    <2> QED
      BY <2>2, <2>3, <2>4, <2>5
  <1> QED
    BY <1>1, <1>2, <1>7, <1>8

Now == Good(framing, Fed, buffer, lineStart, out, event, bomPending)

LEMMA NowIs ==
  ASSUME IInv, Now
  PROVE  /\ Text \in Seq(Symbols) /\ Fed \in Seq(Symbols) /\ buffer \in Seq(Symbols)
         /\ Behind(Text, buffer) /\ framing \in Framings
         /\ bomPending <=> framing = "sse" /\ IsStrictPrefix(Fed, BOM)
         /\ bomPending => Base = 0 /\ lineStart = 0 /\ out = <<>> /\ event = NoFields
         /\ Framed(framing, Text, Base, lineStart, out, event)
         /\ Hits # {} => ~ bomPending
  <1>0. Offsets
    BY DEF IInv
  <1>1. Text \in Seq(Symbols) /\ Fed \in Seq(Symbols) /\ buffer \in Seq(Symbols) /\ framing \in Framings
    BY <1>0, FedIs DEF Offsets
  <1>2. /\ Behind(Text, buffer)
        /\ bomPending <=> framing = "sse" /\ IsStrictPrefix(Fed, BOM)
        /\ bomPending => Base = 0 /\ lineStart = 0 /\ out = <<>> /\ event = NoFields
        /\ Framed(framing, Text, Base, lineStart, out, event)
    BY DEF Now, Good, Text, Base
  <1>3. ASSUME Hits # {}, bomPending PROVE FALSE
    <2>1. framing = "sse" /\ IsStrictPrefix(Fed, BOM) /\ Base = 0 /\ lineStart = 0
      BY <1>2, <1>3
    <2>2. /\ Len(Fed) <= 2 /\ (Len(Fed) >= 1 => Fed[1] = "EF") /\ (Len(Fed) >= 2 => Fed[2] = "BB")
          /\ ~ IsPrefix(BOM, Fed)
      BY <1>1, <2>1, MarkIs
    <2>3. Text = Fed
      BY <2>2 DEF Text, TextOf
    <2>4. Base = Len(Text) - Len(buffer)
      BY DEF Base
    <2>5. /\ Len(Text) = Base + Len(buffer)
          /\ End \in lineStart + 1..Len(buffer) /\ Text[Base + End] \in TermsOf(framing)
      BY <1>1, <1>2, <1>3, <2>4, Seen
    <2>6. End \in 1..Len(Fed) /\ Fed[End] \in {"CR", "LF"}
      BY <1>1, <2>1, <2>3, <2>5 DEF TermsOf
    <2>7. End = 1 \/ End = 2
      BY <1>1, <2>2, <2>6
    <2> QED
      BY <1>1, <2>2, <2>6, <2>7
  <1> QED
    BY <1>1, <1>2, <1>3

\* The line that was found, at its place in the text.
LEMMA SseFound ==
  ASSUME IInv, Now, framing = "sse", Found
  PROVE  /\ NextLine \in End..Len(buffer) /\ NextLine \in Nat
         /\ Line # <<>> => SseAt(Text, Base + NextLine, out, AppendSseField(Line, event))
         /\ Line = <<>> => SseAt(Text, Base + NextLine, out \o FinishSseFields(event), NoFields)
  <1> DEFINE h == Base + End
             l == Base + lineStart
  <1>1. /\ Text \in Seq(Symbols) /\ buffer \in Seq(Symbols) /\ Behind(Text, buffer)
        /\ SseAt(Text, l, out, event)
    BY NowIs DEF Framed
  <1>2. Base = Len(Text) - Len(buffer) /\ Hits # {} /\ ~ CrHeld
    BY DEF Base, Found
  <1>3. /\ Base \in Nat /\ Len(Text) = Base + Len(buffer) /\ Len(buffer) \in Nat /\ lineStart \in Nat
        /\ \A i \in 1..Len(buffer) : buffer[i] = Text[Base + i]
        /\ End \in lineStart + 1..Len(buffer) /\ Text[Base + End] \in TermsOf(framing)
        /\ \A i \in Base + lineStart + 1..Base + End - 1 :
             Text[i] \in TermsOf(framing) => framing = "jsonseq" /\ i = Base + 1
    BY <1>1, <1>2, Seen
  <1>4. End \in 1..Len(buffer) /\ End \in Nat
    BY <1>3
  <1>5. h \in l + 1..Len(Text) /\ Text[h] \in {"CR", "LF"} /\ buffer[End] = Text[h]
    BY <1>3, <1>4 DEF TermsOf
  <1>6. Text[h] = "CR" => h < Len(Text)
    BY <1>2, <1>3, <1>4, <1>5 DEF CrHeld
  <1>7. \A i \in l + 1..h - 1 : Text[i] \notin {"CR", "LF"}
    BY <1>3 DEF TermsOf
  <1>8. /\ NextLine \in End..Len(buffer) /\ NextLine \in Nat
        /\ Base + NextLine = IF Text[h] = "CR" /\ h < Len(Text) /\ Text[h + 1] = "LF" THEN h + 1 ELSE h
    <2>1. CASE Text[h] = "CR"
      <3>1. End + 1 \in 1..Len(buffer) /\ Base + (End + 1) = h + 1
        BY <1>3, <1>4, <1>6, <2>1
      <3>2. buffer[End + 1] = Text[h + 1]
        BY <1>3, <3>1
      <3> QED
        BY <1>3, <1>4, <1>5, <1>6, <2>1, <3>1, <3>2 DEF NextLine
    <2>2. CASE Text[h] # "CR"
      BY <1>3, <1>4, <1>5, <2>2 DEF NextLine
    <2> QED
      BY <2>1, <2>2
  <1>9. Line = SubSeq(Text, l + 1, h - 1)
    <2>1. lineStart + 1 \in 1..Len(buffer) + 1 /\ End - 1 \in (lineStart + 1) - 1..Len(buffer)
      BY <1>3, <1>4
    <2>2. Base + (lineStart + 1) = l + 1 /\ Base + (End - 1) = h - 1
      BY <1>3, <1>4
    <2>3. SubSeq(buffer, lineStart + 1, End - 1) = SubSeq(Text, Base + (lineStart + 1), Base + (End - 1))
      BY <1>1, <1>2, <2>1, BufferPart
    <2> QED
      BY <2>2, <2>3 DEF Line
  <1> HIDE DEF h, l
  <1> DEFINE e == Base + NextLine
             x == Line
  <1>10. e = IF Text[h] = "CR" /\ h < Len(Text) /\ Text[h + 1] = "LF" THEN h + 1 ELSE h
    BY <1>8
  <1>11. x = SubSeq(Text, l + 1, h - 1)
    BY <1>9
  <1> HIDE DEF e, x
  <1>12. /\ x # <<>> => SseAt(Text, e, out, AppendSseField(x, event))
         /\ x = <<>> => SseAt(Text, e, out \o FinishSseFields(event), NoFields)
    BY <1>1, <1>5, <1>6, <1>7, <1>10, <1>11, SseStep
  <1> QED
    BY <1>8, <1>12 DEF e, x

\* What an action leaves that frames and consumes.
LEMMA ConsumedGood ==
  ASSUME IInv, Now, Hits # {}, NEW k \in 0..Len(buffer), Consume(k),
         UNCHANGED <<framing, body, fed, eof, bomPending, pc>>, pc = "frame",
         eof => fed = Len(body),
         Framed(framing, Text, Base + k, 0, out', event')
  PROVE  CutInv'
  <1>1. /\ Text \in Seq(Symbols) /\ buffer \in Seq(Symbols) /\ Behind(Text, buffer)
        /\ bomPending <=> framing = "sse" /\ IsStrictPrefix(Fed, BOM)
        /\ ~ bomPending
    BY NowIs
  <1>2. Fed' = Fed /\ Text' = Text
    BY DEF Fed, Text
  <1>3. Behind(Text, buffer') /\ Len(Text) - Len(buffer') = Base + k
    BY <1>1, BehindFrom DEF Consume, Base
  <1>4. Good(framing, Fed, buffer', 0, out', event', bomPending)
    BY <1>1, <1>3 DEF Good, Text
  <1>5. Good(framing, Fed, buffer, lineStart, out, event, bomPending)'
    BY <1>2, <1>4 DEF Consume
  <1> QED
    BY <1>5 DEF CutInv

LEMMA SseLineCut == ASSUME IInv, CutInv, SseLine PROVE CutInv'
  <1>1. pc = "frame" /\ Now /\ framing = "sse" /\ Found /\ Line # <<>> /\ (eof => fed = Len(body))
    BY DEF SseLine, CutInv, Now
  <1>2. /\ event' = AppendSseField(Line, event) /\ lineStart' = NextLine
        /\ UNCHANGED <<framing, body, fed, eof, buffer, bomPending, pc, out>>
    BY DEF SseLine
  <1>3. SseAt(Text, Base + NextLine, out, AppendSseField(Line, event))
    BY <1>1, SseFound
  <1>4. /\ Behind(Text, buffer) /\ ~ bomPending
        /\ bomPending <=> framing = "sse" /\ IsStrictPrefix(Fed, BOM)
    BY <1>1, NowIs DEF Found
  <1>5. Framed(framing, Text, Base, NextLine, out, AppendSseField(Line, event))
    BY <1>1, <1>3 DEF Framed
  <1>6. Good(framing, Fed, buffer, NextLine, out, AppendSseField(Line, event), bomPending)
    BY <1>4, <1>5 DEF Good, Text, Base
  <1>7. Fed' = Fed
    BY <1>2 DEF Fed
  <1>8. Good(framing, Fed, buffer, lineStart, out, event, bomPending)'
    BY <1>2, <1>6, <1>7
  <1> QED
    BY <1>1, <1>2, <1>8 DEF CutInv

LEMMA SseBlankCut == ASSUME IInv, CutInv, SseBlank PROVE CutInv'
  <1>1. pc = "frame" /\ Now /\ framing = "sse" /\ Found /\ Line = <<>> /\ (eof => fed = Len(body))
    BY DEF SseBlank, CutInv, Now
  <1>2. /\ Consume(NextLine) /\ event' = NoFields /\ out' = out \o FinishSseFields(event)
        /\ UNCHANGED <<framing, body, fed, eof, bomPending, pc>>
    BY DEF SseBlank
  <1>3. /\ NextLine \in End..Len(buffer) /\ NextLine \in Nat
        /\ SseAt(Text, Base + NextLine, out \o FinishSseFields(event), NoFields)
    BY <1>1, SseFound
  <1>4. NextLine \in 0..Len(buffer) /\ Hits # {}
    <2>1. Len(buffer) \in Nat
      BY DEF IInv, Offsets
    <2>2. End \in Nat
      <3>1. Offsets
        BY DEF IInv
      <3> QED
        BY <1>1, <3>1, SearchShape DEF Found
    <2> QED
      BY <1>1, <1>3, <2>1, <2>2 DEF Found
  <1>5. Base \in Nat
    BY <1>1, NowIs, Seen DEF Base
  <1>6. (Base + NextLine) + 0 = Base + NextLine
    BY <1>3, <1>5
  <1>7. Framed(framing, Text, Base + NextLine, 0, out', event')
    BY <1>1, <1>2, <1>3, <1>6 DEF Framed
  <1> QED
    BY <1>1, <1>2, <1>4, <1>7, ConsumedGood

LEMMA NdjsonLineCut == ASSUME IInv, CutInv, NdjsonLine PROVE CutInv'
  <1> DEFINE x == SubSeq(buffer, 1, End - 1)
  <1>1. pc = "frame" /\ Now /\ framing = "ndjson" /\ Found /\ (eof => fed = Len(body)) /\ Hits # {}
    BY DEF NdjsonLine, CutInv, Now, Found
  <1>2. /\ Consume(End) /\ out' = out \o FrameItem(TrimCr(x))
        /\ UNCHANGED <<framing, body, fed, eof, event, bomPending, pc>>
    BY DEF NdjsonLine
  <1>3. /\ Text \in Seq(Symbols) /\ buffer \in Seq(Symbols) /\ Behind(Text, buffer)
        /\ NdAt(Text, Base, out) /\ lineStart = 0 /\ Base = Len(Text) - Len(buffer)
    BY <1>1, NowIs DEF Framed, Base
  <1>4. /\ Base \in Nat /\ Len(Text) = Base + Len(buffer) /\ Len(buffer) \in Nat
        /\ End \in lineStart + 1..Len(buffer) /\ Text[Base + End] \in TermsOf(framing)
        /\ \A i \in Base + lineStart + 1..Base + End - 1 :
             Text[i] \in TermsOf(framing) => framing = "jsonseq" /\ i = Base + 1
    BY <1>1, <1>3, Seen
  <1>5. /\ End \in 1..Len(buffer) /\ End \in Nat /\ Base + End \in Base + 1..Len(Text)
        /\ Base + lineStart + 1 = Base + 1
    BY <1>3, <1>4
  <1>6. Text[Base + End] = "LF" /\ \A i \in Base + 1..(Base + End) - 1 : Text[i] # "LF"
    BY <1>1, <1>4, <1>5 DEF TermsOf
  <1>7. x = SubSeq(Text, Base + 1, (Base + End) - 1)
    <2>1. 1 \in 1..Len(buffer) + 1 /\ End - 1 \in 1 - 1..Len(buffer) /\ Base + (End - 1) = (Base + End) - 1
      BY <1>4, <1>5
    <2>2. SubSeq(buffer, 1, End - 1) = SubSeq(Text, Base + 1, Base + (End - 1))
      <3> DEFINE a == 1
                 b == End - 1
      <3>1. a \in 1..Len(buffer) + 1 /\ b \in a - 1..Len(buffer)
        BY <2>1
      <3> HIDE DEF a, b
      <3>2. SubSeq(buffer, a, b) = SubSeq(Text, Base + a, Base + b)
        BY <1>3, <3>1, BufferPart
      <3> QED
        BY <3>2 DEF a, b
    <2> QED
      BY <2>1, <2>2
  <1>8. NdAt(Text, Base + End, out \o FrameItem(TrimCr(x)))
    <2> HIDE DEF x
    <2> DEFINE h == Base + End
    <2>1. h \in Base + 1..Len(Text) /\ Text[h] = "LF" /\ (\A i \in Base + 1..h - 1 : Text[i] # "LF")
          /\ x = SubSeq(Text, Base + 1, h - 1)
      BY <1>5, <1>6, <1>7
    <2> HIDE DEF h
    <2>2. NdAt(Text, h, out \o FrameItem(TrimCr(SubSeq(Text, Base + 1, h - 1))))
      BY <1>3, <2>1, NdStep
    <2> QED
      BY <2>1, <2>2 DEF h
  <1> HIDE DEF x
  <1>9. Framed(framing, Text, Base + End, 0, out', event')
    BY <1>1, <1>2, <1>8 DEF Framed
  <1>10. End \in 0..Len(buffer)
    BY <1>5
  <1> QED
    BY <1>1, <1>2, <1>9, <1>10, ConsumedGood

LEMMA JsonRecordCut == ASSUME IInv, CutInv, JsonRecord PROVE CutInv'
  <1> DEFINE x == SubSeq(buffer, 2, End - 1)
             h == Base + End
  <1>1. pc = "frame" /\ Now /\ framing = "jsonseq" /\ Found /\ (eof => fed = Len(body)) /\ Hits # {}
    BY DEF JsonRecord, CutInv, Now, Found
  <1>2. /\ Consume(End - 1)
        /\ out' = IF buffer[1] = "RS" THEN out \o FrameItem(TrimAscii(x)) ELSE out
        /\ UNCHANGED <<framing, body, fed, eof, event, bomPending, pc>>
    BY DEF JsonRecord
  <1>3. /\ Text \in Seq(Symbols) /\ buffer \in Seq(Symbols) /\ Behind(Text, buffer)
        /\ JsonAt(Text, Base, out) /\ lineStart = 0 /\ Base = Len(Text) - Len(buffer)
    BY <1>1, NowIs DEF Framed, Base
  <1>4. /\ Base \in Nat /\ Len(Text) = Base + Len(buffer) /\ Len(buffer) \in Nat
        /\ \A i \in 1..Len(buffer) : buffer[i] = Text[Base + i]
        /\ End \in lineStart + 1..Len(buffer) /\ Text[Base + End] \in TermsOf(framing)
        /\ \A i \in Base + lineStart + 1..Base + End - 1 :
             Text[i] \in TermsOf(framing) => framing = "jsonseq" /\ i = Base + 1
        /\ framing = "jsonseq" /\ Text[Base + 1] = "RS" => End # 1
    <2>1. /\ Base \in Nat /\ Len(Text) = Base + Len(buffer) /\ Len(buffer) \in Nat
          /\ \A i \in 1..Len(buffer) : buffer[i] = Text[Base + i]
      BY <1>3, Seen
    <2>2. /\ End \in lineStart + 1..Len(buffer) /\ Text[Base + End] \in TermsOf(framing)
          /\ \A i \in Base + lineStart + 1..Base + End - 1 :
               Text[i] \in TermsOf(framing) => framing = "jsonseq" /\ i = Base + 1
      BY <1>1, <1>3, Seen
    <2>3. framing = "jsonseq" /\ Text[Base + 1] = "RS" => End # 1
      BY <1>1, <1>3, Seen
    <2> QED
      BY <2>1, <2>2, <2>3
  <1>5. /\ End \in 1..Len(buffer) /\ End \in Nat /\ h \in Base + 1..Len(Text)
        /\ Base + lineStart + 1 = Base + 1 /\ 1 \in 1..Len(buffer)
    BY <1>3, <1>4
  <1>6. /\ Text[h] = "RS" /\ buffer[1] = Text[Base + 1]
        /\ Text[Base + 1] = "RS" => h # Base + 1
        /\ \A i \in Base + 1..h - 1 : Text[i] = "RS" => i = Base + 1
    BY <1>1, <1>4, <1>5 DEF TermsOf
  <1>7. Text[Base + 1] = "RS" => x = SubSeq(Text, Base + 2, h - 1)
    <2> SUFFICES ASSUME Text[Base + 1] = "RS" PROVE x = SubSeq(Text, Base + 2, h - 1)
      OBVIOUS
    <2>1. 2 \in 1..Len(buffer) + 1 /\ End - 1 \in 2 - 1..Len(buffer) /\ Base + (End - 1) = h - 1
      BY <1>1, <1>4, <1>5
    <2>2. SubSeq(buffer, 2, End - 1) = SubSeq(Text, Base + 2, Base + (End - 1))
      <3> DEFINE a == 2
                 b == End - 1
      <3>1. a \in 1..Len(buffer) + 1 /\ b \in a - 1..Len(buffer)
        BY <2>1
      <3> HIDE DEF a, b
      <3>2. SubSeq(buffer, a, b) = SubSeq(Text, Base + a, Base + b)
        BY <1>3, <3>1, BufferPart
      <3> QED
        BY <3>2 DEF a, b
    <2> QED
      BY <2>1, <2>2
  <1>8. h - 1 = Base + (End - 1) /\ End - 1 \in 0..Len(buffer)
    BY <1>4, <1>5
  <1> HIDE DEF x, h
  <1>9. JsonAt(Text, h - 1, out')
    <2>1. JsonAt(Text, h - 1, IF Text[Base + 1] = "RS"
                              THEN out \o FrameItem(TrimAscii(SubSeq(Text, Base + 2, h - 1))) ELSE out)
      BY <1>3, <1>5, <1>6, JsonStep
    <2> QED
      BY <1>2, <1>6, <1>7, <2>1
  <1>10. Framed(framing, Text, Base + (End - 1), 0, out', event')
    BY <1>1, <1>8, <1>9 DEF Framed
  <1> QED
    BY <1>1, <1>2, <1>8, <1>10, ConsumedGood

LEMMA InitCut == Init => CutInv
  <1> SUFFICES ASSUME Init PROVE CutInv
    OBVIOUS
  <1>1. /\ framing \in Framings /\ fed = 0 /\ eof = FALSE /\ buffer = <<>> /\ lineStart = 0
        /\ event = NoFields /\ bomPending = (framing = "sse") /\ pc = "frame" /\ out = <<>>
        /\ body \in Seq(Symbols)
    BY FramingAssumption DEF Init
  <1>2. Fed = <<>>
    BY <1>1 DEF Fed
  <1>3. <<>> \in Seq(Symbols) /\ Len(<<>>) = 0
    OBVIOUS
  <1>4. IsStrictPrefix(<<>>, BOM) /\ ~ IsPrefix(BOM, <<>>)
    <2> DEFINE b == <<>>
    <2>1. b \in Seq(Symbols) /\ ~ (Len(b) >= 3) /\ Len(b) <= 2 /\ ~ (Len(b) >= 1) /\ ~ (Len(b) >= 2)
      OBVIOUS
    <2> HIDE DEF b
    <2>2. IsStrictPrefix(b, BOM) /\ ~ IsPrefix(BOM, b)
      BY <2>1, MarkIs
    <2> QED
      BY <2>2 DEF b
  <1>5. TextOf(framing, <<>>) = <<>>
    BY <1>4 DEF TextOf
  <1>6. Behind(<<>>, <<>>)
    BY DEF Behind
  <1>7. Framed(framing, <<>>, 0, 0, <<>>, NoFields)
    <2>1. SseAt(<<>>, 0, <<>>, NoFields) /\ NdAt(<<>>, 0, <<>>) /\ JsonAt(<<>>, 0, <<>>)
      BY <1>3, SseStart, NdStart, JsonStart
    <2>2. 0 + 0 = 0
      OBVIOUS
    <2> QED
      BY <2>1, <2>2 DEF Framed
  <1>8. Len(<<>>) - Len(<<>>) = 0
    OBVIOUS
  <1>9. Good(framing, <<>>, <<>>, 0, <<>>, NoFields, bomPending)
    <2> DEFINE b == <<>>
    <2>1. /\ TextOf(framing, b) = b /\ Behind(b, b) /\ Len(b) - Len(b) = 0
          /\ Framed(framing, b, 0, 0, b, NoFields)
          /\ bomPending <=> framing = "sse" /\ IsStrictPrefix(b, BOM)
      BY <1>1, <1>4, <1>5, <1>6, <1>7, <1>8
    <2>2. bomPending => 0 = 0 /\ 0 = 0 /\ b = <<>> /\ NoFields = NoFields
      OBVIOUS
    <2>3. Good(framing, b, b, 0, b, NoFields, bomPending)
      <3> HIDE DEF b
      <3> QED
        BY <2>1, <2>2 DEF Good
    <2> QED
      BY <2>3
  <1>10. Now
    BY <1>1, <1>2, <1>9 DEF Now
  <1> QED
    BY <1>1, <1>10 DEF CutInv, Now

\* Where the search found nothing, nothing but the held CR is left over.
LEMMA NothingFound ==
  ASSUME IInv, Now, ~ Found
  PROVE  /\ LeftOver(framing, Text, Base, Base + lineStart)
         /\ Base \in Nat /\ Len(Text) = Base + Len(buffer) /\ Len(buffer) \in Nat
         /\ lineStart \in 0..Len(buffer)
         /\ framing = "sse" =>
              \/ \A i \in Base + lineStart + 1..Len(Text) : Text[i] \notin {"CR", "LF"}
              \/ /\ Base + lineStart < Len(Text) /\ Text[Len(Text)] = "CR"
                 /\ \A i \in Base + lineStart + 1..Len(Text) - 1 : Text[i] \notin {"CR", "LF"}
  <1>0. Base = Len(Text) - Len(buffer)
    BY DEF Base
  <1>1. /\ Text \in Seq(Symbols) /\ buffer \in Seq(Symbols) /\ Behind(Text, buffer)
    BY NowIs
  <1>2. /\ Base \in Nat /\ Len(Text) = Base + Len(buffer) /\ Len(buffer) \in Nat /\ lineStart \in Nat
        /\ \A i \in 1..Len(buffer) : buffer[i] = Text[Base + i]
        /\ Hits = {} => \A i \in Base + lineStart + 1..Len(Text) :
                          Text[i] \in TermsOf(framing) => framing = "jsonseq" /\ i = Base + 1
        /\ Hits # {} =>
             /\ End \in lineStart + 1..Len(buffer) /\ Text[Base + End] \in TermsOf(framing)
             /\ \A i \in Base + lineStart + 1..Base + End - 1 :
                  Text[i] \in TermsOf(framing) => framing = "jsonseq" /\ i = Base + 1
    BY <1>0, <1>1, Seen
  <1>3. lineStart \in 0..Len(buffer)
    <2>1. lineStart \in Nat /\ scanned \in Nat /\ lineStart <= scanned /\ scanned <= Len(buffer)
      BY DEF IInv, Offsets
    <2> QED
      BY <1>2, <2>1
  <1>4. CASE Hits = {}
    <2>1. LeftOver(framing, Text, Base, Base + lineStart)
      BY <1>2, <1>4 DEF LeftOver
    <2>2. framing = "sse" => \A i \in Base + lineStart + 1..Len(Text) : Text[i] \notin {"CR", "LF"}
      BY <1>2, <1>4 DEF TermsOf
    <2> QED
      BY <1>2, <1>3, <2>1, <2>2
  <1>5. CASE Hits # {}
    <2>1. framing = "sse" /\ End = Len(buffer) /\ buffer[End] = "CR"
      BY <1>5 DEF Found, CrHeld
    <2>2. End \in 1..Len(buffer) /\ Base + End = Len(Text) /\ Base + lineStart < Len(Text)
      BY <1>2, <1>5, <2>1
    <2>3. Text[Len(Text)] = "CR"
      BY <1>2, <2>1, <2>2
    <2>4. \A i \in Base + lineStart + 1..Len(Text) - 1 : Text[i] \notin {"CR", "LF"}
      <3>1. Base + End - 1 = Len(Text) - 1
        BY <1>2, <2>2
      <3> QED
        BY <1>2, <1>5, <2>1, <3>1 DEF TermsOf
    <2>5. LeftOver(framing, Text, Base, Base + lineStart)
      <3>0. Len(Text) \in Nat /\ Base + lineStart + 1 \in Nat
        BY <1>2
      <3>1. \A i \in Base + lineStart + 1..Len(Text) :
              i \in Base + lineStart + 1..Len(Text) - 1 \/ i = Len(Text)
        BY <3>0
      <3> QED
        BY <2>1, <2>3, <2>4, <3>1 DEF LeftOver, TermsOf
    <2> QED
      BY <1>2, <1>3, <2>2, <2>3, <2>4, <2>5
  <1> QED
    BY <1>4, <1>5

LEMMA NeedMoreCut == ASSUME IInv, CutInv, NeedMore PROVE CutInv'
  <1>1. pc = "frame" /\ Now /\ ~ Found /\ (eof => fed = Len(body))
    BY DEF NeedMore, CutInv, Now
  <1>2. /\ pc' = "more"
        /\ UNCHANGED <<framing, body, fed, eof, buffer, lineStart, event, bomPending, out>>
    BY DEF NeedMore
  <1>3. LeftOver(framing, Text, Base, Base + lineStart)
    BY <1>1, NothingFound
  <1>4. Fed' = Fed /\ Text' = Text /\ Base' = Base
    BY <1>2 DEF Fed, Text, Base
  <1>5. Now' /\ LeftOver(framing, Text, Base, Base + lineStart)'
    BY <1>1, <1>2, <1>3, <1>4 DEF Now
  <1> QED
    BY <1>1, <1>2, <1>5 DEF CutInv, Now

LEMMA CloseCut == ASSUME IInv, CutInv, Close PROVE CutInv'
  <1>1. /\ pc = "more" /\ pc' = "frame" /\ eof' = TRUE /\ fed = Len(body) /\ Now
        /\ UNCHANGED <<framing, body, fed, buffer, lineStart, event, bomPending, out>>
    BY DEF Close, CutInv, Now
  <1>2. Fed' = Fed
    BY <1>1 DEF Fed
  <1>3. Now'
    BY <1>1, <1>2 DEF Now
  <1> QED
    BY <1>1, <1>3 DEF CutInv, Now

\* What is left at the end of the body is its last item.
LEMMA FlushCut == ASSUME IInv, CutInv, Flush PROVE CutInv'
  <1> DEFINE n == Len(buffer)
  <1>1. /\ pc = "frame" /\ Now /\ ~ Found /\ eof /\ fed = Len(body) /\ pc' = "end"
        /\ out' = out \o Tails /\ UNCHANGED <<framing, body, fed, eof>>
    BY DEF Flush, CutInv, Now
  <1>2. /\ Text \in Seq(Symbols) /\ buffer \in Seq(Symbols) /\ Behind(Text, buffer)
        /\ Framed(framing, Text, Base, lineStart, out, event) /\ framing \in Framings
        /\ Base = Len(Text) - Len(buffer)
    BY <1>1, NowIs DEF Base
  <1>3. Fed = body
    <2>1. Offsets
      BY DEF IInv
    <2> QED
      BY <1>1, <2>1, FedIs
  <1>4. /\ LeftOver(framing, Text, Base, Base + lineStart)
        /\ Base \in Nat /\ Len(Text) = Base + n /\ n \in Nat
        /\ lineStart \in 0..n
        /\ framing = "sse" =>
             \/ \A i \in Base + lineStart + 1..Len(Text) : Text[i] \notin {"CR", "LF"}
             \/ /\ Base + lineStart < Len(Text) /\ Text[Len(Text)] = "CR"
                /\ \A i \in Base + lineStart + 1..Len(Text) - 1 : Text[i] \notin {"CR", "LF"}
    BY <1>1, NothingFound
  <1>5. ASSUME NEW a \in 1..n + 1 PROVE From(buffer, a) = SubSeq(Text, Base + a, Len(Text))
    <2>1. n \in a - 1..n /\ Base + n = Len(Text)
      BY <1>4
    <2>2. SubSeq(buffer, a, n) = SubSeq(Text, Base + a, Base + n)
      BY <1>2, <2>1, BufferPart
    <2> QED
      BY <2>1, <2>2 DEF From
  <1>6. ItemsOf(framing, body, TRUE) = out \o Tails
    <2>1. CASE framing = "sse"
      <3> DEFINE l == Base + lineStart
      <3>1. ItemsOf(framing, body, TRUE) = SseItems(Text, TRUE)
        BY <1>3, <2>1 DEF ItemsOf, Text, TextOf
      <3>2. SseAt(Text, l, out, event)
        BY <1>2, <2>1 DEF Framed
      <3>3. \/ \A i \in l + 1..Len(Text) : Text[i] \notin {"CR", "LF"}
            \/ /\ l < Len(Text) /\ Text[Len(Text)] = "CR"
               /\ \A i \in l + 1..Len(Text) - 1 : Text[i] \notin {"CR", "LF"}
        BY <1>4, <2>1
      <3>4. From(buffer, lineStart + 1) = SubSeq(Text, l + 1, Len(Text))
        <4>1. lineStart + 1 \in 1..n + 1 /\ Base + (lineStart + 1) = l + 1
          BY <1>4
        <4>2. From(buffer, lineStart + 1) = SubSeq(Text, Base + (lineStart + 1), Len(Text))
          BY <1>5, <4>1
        <4> QED
          BY <4>1, <4>2
      <3> HIDE DEF l
      <3>5. SseItems(Text, TRUE)
              = out \o FinishSseFields(AppendSseField(TrimCr(SubSeq(Text, l + 1, Len(Text))), event))
        <4>1. CASE \A i \in l + 1..Len(Text) : Text[i] \notin {"CR", "LF"}
          BY <1>2, <3>2, <4>1, SseEndOpen
        <4>2. CASE /\ l < Len(Text) /\ Text[Len(Text)] = "CR"
                   /\ \A i \in l + 1..Len(Text) - 1 : Text[i] \notin {"CR", "LF"}
          BY <1>2, <3>2, <4>2, SseEndHeld
        <4> QED
          BY <3>3, <4>1, <4>2
      <3> QED
        BY <2>1, <3>1, <3>4, <3>5 DEF Tails
    <2>2. CASE framing = "ndjson"
      <3>1. ItemsOf(framing, body, TRUE) = NdjsonItems(Text, TRUE)
        BY <1>3, <2>2 DEF ItemsOf, Text, TextOf
      <3>2. NdAt(Text, Base, out) /\ lineStart = 0 /\ Base + lineStart = Base
        BY <1>2, <1>4, <2>2 DEF Framed
      <3>3. \A i \in Base + 1..Len(Text) : Text[i] # "LF"
        BY <1>4, <2>2, <3>2 DEF LeftOver, TermsOf
      <3>4. buffer = SubSeq(Text, Base + 1, Len(Text))
        <4>1. 1 \in 1..n + 1
          BY <1>4
        <4>2. From(buffer, 1) = SubSeq(Text, Base + 1, Len(Text))
          BY <1>5, <4>1
        <4>3. From(buffer, 1) = buffer
          BY <1>2 DEF From
        <4> QED
          BY <4>2, <4>3
      <3>5. NdjsonItems(Text, TRUE) = out \o FrameItem(TrimCr(SubSeq(Text, Base + 1, Len(Text))))
        BY <1>2, <3>2, <3>3, NdMore
      <3>6. Tails = FrameItem(TrimCr(buffer))
        BY <2>2 DEF Tails
      <3> QED
        BY <3>1, <3>4, <3>5, <3>6
    <2>3. CASE framing = "jsonseq"
      <3>1. ItemsOf(framing, body, TRUE) = JsonItems(Text, TRUE)
        BY <1>3, <2>3 DEF ItemsOf, Text, TextOf
      <3>2. JsonAt(Text, Base, out) /\ lineStart = 0 /\ Base + lineStart = Base
        BY <1>2, <1>4, <2>3 DEF Framed
      <3>3. \A i \in Base + 1..Len(Text) : Text[i] = "RS" => i = Base + 1
        BY <1>4, <2>3, <3>2 DEF LeftOver, TermsOf
      <3>4. JsonItems(Text, TRUE)
              = IF Base < Len(Text) /\ Text[Base + 1] = "RS"
                THEN out \o FrameItem(TrimAscii(SubSeq(Text, Base + 2, Len(Text)))) ELSE out
        BY <1>2, <3>2, <3>3, JsonMore
      <3>5. Base < Len(Text) <=> buffer # <<>>
        BY <1>2, <1>4
      <3>6. buffer # <<>> => buffer[1] = Text[Base + 1]
        <4>1. buffer # <<>> => 1 \in 1..Len(buffer)
          BY <1>2
        <4> QED
          BY <1>2, <4>1 DEF Behind
      <3>7. CASE buffer # <<>> /\ buffer[1] = "RS"
        <4>1. Tail(buffer) = From(buffer, 2)
          BY <1>2, <3>7 DEF From
        <4>2. 2 \in 1..n + 1
          BY <1>2, <3>7
        <4>3. Tail(buffer) = SubSeq(Text, Base + 2, Len(Text))
          BY <1>5, <4>1, <4>2
        <4>4. Tails = FrameItem(TrimAscii(Tail(buffer)))
          BY <2>3, <3>7 DEF Tails
        <4> QED
          BY <3>1, <3>4, <3>5, <3>6, <3>7, <4>3, <4>4
      <3>8. CASE ~ (buffer # <<>> /\ buffer[1] = "RS")
        <4>1. Tails = <<>>
          BY <2>3, <3>8 DEF Tails
        <4>2. JsonItems(Text, TRUE) = out
          BY <3>4, <3>5, <3>6, <3>8
        <4>3. out \o <<>> = out
          <5>1. IsSeq(out)
            <6>1. out = <<>>
              BY <3>2, <3>5, <3>6, <3>8 DEF JsonAt
            <6>2. <<>> \in Seq(Nat)
              OBVIOUS
            <6> QED
              BY <6>1, <6>2 DEF IsSeq
          <5> QED
            BY <5>1, Joined2
        <4> QED
          BY <3>1, <4>1, <4>2, <4>3
      <3> QED
        BY <3>7, <3>8
    <2> QED
      BY <1>2, <2>1, <2>2, <2>3 DEF Framings
  <1> QED
    BY <1>1, <1>6 DEF CutInv

LEMMA ReadCut == ASSUME IInv, CutInv, Read PROVE CutInv'
  <1>1. PICK n \in 0..MaxChunk :
       /\ fed + n <= Len(body)
       /\ fed' = fed + n
       /\ LET bytes == buffer \o SubSeq(body, fed + 1, fed + n) IN
          IF bomPending
          THEN /\ buffer' = StripLeadingBom(bytes).bytes
               /\ bomPending' = StripLeadingBom(bytes).pending
               /\ lineStart' = 0
               /\ scanned' = 0
               /\ event' = NoFields
          ELSE /\ buffer' = bytes
               /\ UNCHANGED <<bomPending, lineStart, scanned, event>>
       /\ credit' = n + 1 + (IF bomPending THEN 2 ELSE 0)
    BY DEF Read
  <1>2. /\ pc = "more" /\ pc' = "frame" /\ ~ eof /\ Now
        /\ UNCHANGED <<framing, body, eof, out>>
    BY DEF Read, CutInv, Now
  <1>3. n \in Nat /\ fed \in Nat /\ body \in Seq(Symbols) /\ Len(body) \in Nat /\ Offsets
    BY FramingAssumption DEF IInv, Offsets
  <1>4. IInv'
    BY ReadIInv
  <1> DEFINE chunk == SubSeq(body, fed + 1, fed + n)
             bytes == buffer \o chunk
             u == SubSeq(body, 1, fed + n)
             N == Len(buffer)
  <1>5. /\ Fed \in Seq(Symbols) /\ Len(Fed) = fed /\ \A i \in 1..fed : Fed[i] = body[i]
    BY <1>3, FedIs
  <1>6. Fed' = u
    BY <1>1, <1>2 DEF Fed
  <1>7. /\ u \in Seq(Symbols) /\ Len(u) = fed + n /\ \A i \in 1..fed + n : u[i] = body[i]
    <2>1. 1 \in 1..Len(body) + 1 /\ fed + n \in 1 - 1..Len(body) /\ (fed + n) - 1 + 1 = fed + n
      BY <1>1, <1>3
    <2>2. /\ u \in Seq(Symbols) /\ Len(u) = (fed + n) - 1 + 1
          /\ \A i \in 1..(fed + n) - 1 + 1 : u[i] = body[1 + i - 1]
      BY <1>3, <2>1, SubSeqIs
    <2>3. \A i \in 1..fed + n : 1 + i - 1 = i
      BY <1>3
    <2> HIDE DEF u
    <2> QED
      BY <2>1, <2>2, <2>3
  <1>8. /\ chunk \in Seq(Symbols) /\ Len(chunk) = n
        /\ \A i \in 1..n : chunk[i] = u[fed + i]
    <2>1. /\ fed + 1 \in 1..Len(body) + 1 /\ fed + n \in (fed + 1) - 1..Len(body)
          /\ (fed + n) - (fed + 1) + 1 = n
      BY <1>1, <1>3
    <2>2. /\ chunk \in Seq(Symbols) /\ Len(chunk) = (fed + n) - (fed + 1) + 1
          /\ \A i \in 1..(fed + n) - (fed + 1) + 1 : chunk[i] = body[(fed + 1) + i - 1]
      BY <1>3, <2>1, SubSeqIs
    <2>3. \A i \in 1..n : (fed + 1) + i - 1 = fed + i /\ fed + i \in 1..fed + n
      BY <1>3
    <2> HIDE DEF chunk, u
    <2> QED
      BY <1>7, <2>1, <2>2, <2>3
  <1>9. /\ Text \in Seq(Symbols) /\ buffer \in Seq(Symbols) /\ Behind(Text, buffer)
        /\ bomPending <=> framing = "sse" /\ IsStrictPrefix(Fed, BOM)
        /\ bomPending => Base = 0 /\ lineStart = 0 /\ out = <<>> /\ event = NoFields
        /\ Framed(framing, Text, Base, lineStart, out, event)
        /\ N \in Nat /\ Base = Len(Text) - N
    BY <1>2, NowIs DEF Base
  <1>10. /\ bytes \in Seq(Symbols) /\ Len(bytes) = N + n
         /\ \A i \in 1..N : bytes[i] = buffer[i]
         /\ \A i \in 1..n : bytes[N + i] = chunk[i]
    <2> HIDE DEF chunk
    <2>1. bytes \in Seq(Symbols) /\ Len(bytes) = N + n
      BY <1>8, <1>9, ConcatProperties
    <2>2. \A i \in 1..N + n : bytes[i] = IF i <= N THEN buffer[i] ELSE chunk[i - N]
      BY <1>3, <1>8, <1>9
    <2>3. /\ \A i \in 1..N : i \in 1..N + n /\ i <= N
          /\ \A i \in 1..n : N + i \in 1..N + n /\ ~ (N + i <= N) /\ (N + i) - N = i
      BY <1>3, <1>9
    <2> HIDE DEF bytes, N
    <2> QED
      BY <2>1, <2>2, <2>3
  <1>11. Begins(Fed, u)
    <2>1. fed <= fed + n /\ \A i \in 1..fed : i \in 1..fed + n
      BY <1>3
    <2> HIDE DEF u
    <2> QED
      BY <1>5, <1>7, <2>1 DEF Begins
  <1> HIDE DEF chunk, u
  <1>12. CASE bomPending
    <2>1. framing = "sse" /\ IsStrictPrefix(Fed, BOM) /\ Base = 0 /\ out = <<>>
      BY <1>9, <1>12
    <2>2. Text = Fed
      <3>1. ~ IsPrefix(BOM, Fed)
        <4>1. Len(Fed) <= 2
          BY <1>5, <2>1, MarkIs
        <4>2. ~ (Len(Fed) >= 3)
          BY <1>3, <1>5, <4>1
        <4> QED
          BY <1>5, <4>2, MarkIs
      <3> QED
        BY <3>1 DEF Text, TextOf
    <2>3. N = fed /\ \A i \in 1..N : buffer[i] = u[i]
      <3>1. N = fed
        BY <1>3, <1>5, <1>9, <2>1, <2>2
      <3>2. Len(Fed) - N = 0
        BY <1>3, <1>5, <3>1
      <3>3. \A i \in 1..N : buffer[i] = Fed[0 + i]
        BY <1>9, <2>2, <3>2 DEF Behind
      <3>4. \A i \in 1..N : 0 + i = i /\ i \in 1..Len(Fed)
        BY <1>5, <3>1
      <3> QED
        BY <1>11, <3>1, <3>3, <3>4 DEF Begins
    <2>4. bytes = u
      <3> HIDE DEF bytes, N
      <3>1. \A i \in 1..Len(bytes) : i \in 1..N \/ (i - N \in 1..n /\ N + (i - N) = i /\ fed + (i - N) = i)
        BY <1>3, <1>10, <2>3
      <3>2. \A i \in 1..n : bytes[N + i] = u[fed + i]
        BY <1>8, <1>10
      <3>3. \A i \in 1..Len(bytes) : bytes[i] = u[i]
        BY <1>10, <2>3, <3>1, <3>2
      <3>4. Len(bytes) = Len(u)
        BY <1>7, <1>10, <2>3
      <3>5. IsSeq(bytes) /\ IsSeq(u)
        BY <1>7, <1>10 DEF IsSeq
      <3> QED
        BY <3>3, <3>4, <3>5, SameSeq
    <2>5. /\ buffer' = TextOf("sse", u) /\ bomPending' = IsStrictPrefix(u, BOM)
          /\ lineStart' = 0 /\ event' = NoFields /\ out' = <<>> /\ framing' = "sse"
      <3>1. /\ buffer' = StripLeadingBom(bytes).bytes
            /\ bomPending' = StripLeadingBom(bytes).pending
            /\ lineStart' = 0 /\ event' = NoFields
        BY <1>1, <1>12 DEF chunk, bytes
      <3> HIDE DEF bytes
      <3> QED
        BY <1>2, <2>1, <2>4, <3>1 DEF StripLeadingBom, TextOf
    <2> DEFINE t == TextOf("sse", u)
    <2>6. t \in Seq(Symbols) /\ Len(t) \in Nat
      BY <1>7, TextIs
    <2> HIDE DEF t
    <2>7. Len(t) - Len(t) = 0 /\ Len(t) <= Len(t)
          /\ \A i \in 1..Len(t) : Len(t) - Len(t) + i = i
      BY <2>6
    <2>8. Behind(t, t)
      BY <2>7 DEF Behind
    <2>9. Framed("sse", t, 0, 0, <<>>, NoFields)
      <3>1. SseAt(t, 0, <<>>, NoFields) /\ 0 + 0 = 0
        BY <2>6, SseStart
      <3> QED
        BY <3>1 DEF Framed
    <2>10. ASSUME NEW p, p = IsStrictPrefix(u, BOM) PROVE Good("sse", u, t, 0, <<>>, NoFields, p)
      BY <2>7, <2>8, <2>9, <2>10 DEF Good, t
    <2>11. Good("sse", u, t, 0, <<>>, NoFields, bomPending')
      BY <2>5, <2>10
    <2>12. Now'
      BY <1>6, <2>5, <2>11 DEF Now, t
    <2> QED
      BY <1>2, <2>12 DEF CutInv, Now
  <1>13. CASE ~ bomPending
    <2>1. buffer' = bytes /\ UNCHANGED <<bomPending, lineStart, event>>
      BY <1>1, <1>13 DEF chunk, bytes
    <2>2. framing = "sse" => ~ IsStrictPrefix(Fed, BOM)
      BY <1>9, <1>13
    <2> DEFINE v == TextOf(framing, u)
               m == N + n
    <2>3. /\ framing = "sse" => ~ IsStrictPrefix(u, BOM)
          /\ Begins(Text, v)
          /\ \E k \in {0, 3} : /\ k <= Len(Fed) /\ Len(Text) = Len(Fed) - k
                               /\ Len(v) = Len(u) - k
                               /\ \A i \in 1..Len(u) - k : v[i] = u[k + i]
      BY <1>5, <1>7, <1>11, <2>2, TextGrows DEF Text
    <2>4. v \in Seq(Symbols)
      BY <1>7, TextIs
    <2> HIDE DEF v, bytes, N, m
    <2>5. PICK k \in {0, 3} : /\ k <= Len(Fed) /\ Len(Text) = Len(Fed) - k
                              /\ Len(v) = Len(u) - k
                              /\ \A i \in 1..Len(u) - k : v[i] = u[k + i]
      BY <2>3
    <2>6. /\ m = N + n /\ m \in Nat /\ Base \in Nat /\ N \in Nat /\ Len(Text) = Base + N
          /\ Len(v) = Base + m /\ fed = k + Base + N /\ k \in Nat
      <3>1. N <= Len(Text) /\ k \in Nat /\ m = N + n
        BY <1>9, <2>5 DEF Behind, N, m
      <3> QED
        BY <1>3, <1>5, <1>7, <1>9, <2>5, <3>1
    <2>7. ASSUME NEW i \in 1..m PROVE bytes[i] = v[Base + i]
      <3>1. CASE i \in 1..N
        <4>1. bytes[i] = buffer[i]
          BY <1>10, <3>1
        <4>2. buffer[i] = Text[Base + i]
          BY <1>9, <3>1 DEF Behind, N
        <4>3. Base + i \in 1..Len(Text)
          BY <2>6, <3>1
        <4> QED
          BY <2>3, <4>1, <4>2, <4>3 DEF Begins
      <3>2. CASE i \notin 1..N
        <4> DEFINE j == i - N
        <4>1. j \in 1..n /\ i = N + j /\ fed + j = k + (Base + i) /\ Base + i \in 1..Len(u) - k
          BY <1>3, <1>7, <2>5, <2>6, <3>2
        <4> HIDE DEF j
        <4> QED
          BY <1>8, <1>10, <2>5, <4>1
      <3> QED
        BY <3>1, <3>2
    <2>8. Len(bytes) = m /\ Len(v) - m = Base /\ m <= Len(v)
      BY <1>10, <2>6
    <2>9. Behind(v, bytes) /\ Len(v) - Len(bytes) = Base
      BY <2>7, <2>8 DEF Behind
    <2>10. Framed(framing, v, Base, lineStart, out, event)
      BY <1>9, <2>3, <2>4, SseGrows, NdGrows, JsonGrows DEF Framed
    <2>11. Good(framing, u, bytes, lineStart, out, event, bomPending)
      BY <1>13, <2>3, <2>9, <2>10 DEF Good, v
    <2>12. Now'
      BY <1>2, <1>6, <2>1, <2>11 DEF Now
    <2> QED
      BY <1>2, <2>12 DEF CutInv, Now
  <1> QED
    BY <1>12, <1>13

LEMMA NextCut == IInv /\ CutInv /\ [Next]_vars => CutInv'
  <1> SUFFICES ASSUME IInv, CutInv, [Next]_vars PROVE CutInv'
    OBVIOUS
  <1>1. CASE UNCHANGED vars
    <2>1. Fed' = Fed /\ Text' = Text /\ Base' = Base
      BY <1>1 DEF vars, Fed, Text, Base
    <2> QED
      BY <1>1, <2>1 DEF vars, CutInv
  <1> QED
    BY <1>1, SseLineCut, SseBlankCut, NdjsonLineCut, JsonRecordCut, NeedMoreCut, FlushCut,
       ReadCut, CloseCut DEF Next, Ended

\* However the body is cut into chunks, what was framed when the framer asks for more
\* is what is whole in the bytes fed so far, and at the end it is what the body holds.
THEOREM CutsAreInvisible == Spec => []ChunksAreInvisible
  <1>1. Init => IInv /\ CutInv
    BY InitIInv, InitCut
  <1>2. IInv /\ CutInv /\ [Next]_vars => (IInv /\ CutInv)'
    BY NextIInv, NextCut
  <1>3. IInv /\ CutInv => ChunksAreInvisible
    <2> SUFFICES ASSUME IInv, CutInv, pc = "more" PROVE out = ItemsOf(framing, Fed, FALSE)
      BY DEF ChunksAreInvisible, CutInv, Fed
    <2>1. Now /\ LeftOver(framing, Text, Base, Base + lineStart)
      BY DEF CutInv, Now
    <2>2. /\ Fed \in Seq(Symbols) /\ framing \in Framings
          /\ Framed(framing, Text, Base, lineStart, out, event)
      BY <2>1, NowIs
    <2> QED
      BY <2>1, <2>2, FramedIsAll DEF Text
  <1> QED
    BY <1>1, <1>2, <1>3, PTL DEF Spec
=============================================================================
