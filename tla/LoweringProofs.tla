--------------------------- MODULE LoweringProofs ---------------------------
(***************************************************************************)
(* Types of a finite size, for every set of documents without aliases; and *)
(* for every set of documents, types that agree on what is nullable.       *)
(* Whatever they declare, in whatever order, however many passes it takes. *)
(***************************************************************************)
EXTENDS Lowering, TLAPS, SequenceTheorems, WellFoundedInduction, FiniteSetTheorems

NoAliases == \A d \in Documents : \A c \in Names : d[c].kind # "alias"

Tys == [kind : {"type"}, root : Names, null : BOOLEAN, boxed : BOOLEAN]
FieldMaps == UNION {[S -> Tys] : S \in SUBSET (Names \X Nat)}
Frames == [comp : Names, guess : BOOLEAN, next : Nat, fields : FieldMaps]

(* What the state variables hold.                                          *)
LoweringTypeOK ==
    /\ doc \in Documents
    /\ frames \in Seq(Frames)
    /\ answer \in Tys \union {None, Failed}
    /\ DOMAIN finished \subseteq Names
    /\ \A c \in DOMAIN finished : finished[c].null \in BOOLEAN
    /\ \A c \in DOMAIN types : types[c] \in FieldMaps
    /\ filled \in Seq(Names)
    /\ \A c \in DOMAIN settled : settled[c] \in BOOLEAN
    /\ \A r \in revisions : r.null \in BOOLEAN

(* A component is finished when its definition is filled, and is its own   *)
(* root; none is filled twice, and none is lowered inside itself.          *)
FilledOnce ==
    /\ DOMAIN types = DOMAIN finished
    /\ \A c \in DOMAIN finished : finished[c].root = c
    /\ \A i \in DOMAIN filled : filled[i] \in DOMAIN types
    /\ \A c \in DOMAIN types : \E i \in DOMAIN filled : filled[i] = c
    /\ \A i, j \in DOMAIN filled : filled[i] = filled[j] => i = j
    /\ \A i \in DOMAIN frames : frames[i].comp \notin DOMAIN types
    /\ \A i, j \in DOMAIN frames : frames[i].comp = frames[j].comp => i = j

(* What is held unboxed, by a body being lowered or by the answer to a     *)
(* `$ref`, is filled; what is held unboxed by a definition is filled       *)
(* before it.                                                              *)
Sized(fields) == \A p \in DOMAIN fields : fields[p].boxed \/ fields[p].root \in DOMAIN types
HeldFilled ==
    /\ \A i \in DOMAIN frames : Sized(frames[i].fields)
    /\ answer.kind = "type" => answer.boxed \/ answer.root \in DOMAIN types
    /\ \A i \in DOMAIN filled : \A p \in DOMAIN types[filled[i]] :
        \/ types[filled[i]][p].boxed
        \/ \E j \in 1 .. i - 1 : filled[j] = types[filled[i]][p].root

LoweringInv == LoweringTypeOK /\ FilledOnce /\ HeldFilled

-----------------------------------------------------------------------------
(* Maps of properties. *)

(* Merging two keeps each property as one of them has it. *)
LEMMA MergeFacts ==
    ASSUME NEW f \in FieldMaps, NEW g \in FieldMaps
    PROVE  /\ Merged(f, g) \in FieldMaps
           /\ \A p \in DOMAIN Merged(f, g) :
                \/ p \in DOMAIN f /\ Merged(f, g)[p] = f[p]
                \/ p \in DOMAIN g /\ Merged(f, g)[p] = g[p]
  <1>1. PICK S \in SUBSET (Names \X Nat) : f \in [S -> Tys]
    BY DEF FieldMaps
  <1>2. PICK T \in SUBSET (Names \X Nat) : g \in [T -> Tys]
    BY DEF FieldMaps
  <1>3. Merged(f, g) \in [S \union T -> Tys]
    BY <1>1, <1>2 DEF Merged
  <1>4. S \union T \in SUBSET (Names \X Nat)
    OBVIOUS
  <1> QED
    BY <1>1, <1>2, <1>3, <1>4 DEF FieldMaps, Merged

(* One property more, or another type for one. *)
LEMMA PutFacts ==
    ASSUME NEW f \in FieldMaps, NEW p \in Names \X Nat, NEW t \in Tys
    PROVE  /\ Put(f, p, t) \in FieldMaps
           /\ \A q \in DOMAIN Put(f, p, t) :
                Put(f, p, t)[q] = t \/ (q \in DOMAIN f /\ Put(f, p, t)[q] = f[q])
  <1>1. PICK S \in SUBSET (Names \X Nat) : f \in [S -> Tys]
    BY DEF FieldMaps
  <1>2. Put(f, p, t) = [q \in S \union {p} |-> IF q = p THEN t ELSE f[q]]
    BY <1>1 DEF Put
  <1>3. Put(f, p, t) \in [S \union {p} -> Tys]
    BY <1>1, <1>2
  <1>4. S \union {p} \in SUBSET (Names \X Nat)
    OBVIOUS
  <1>5. Put(f, p, t) \in FieldMaps
    BY <1>3, <1>4 DEF FieldMaps
  <1>6. DOMAIN f = S /\ DOMAIN Put(f, p, t) = S \union {p}
    BY <1>1, <1>2
  <1>7. ASSUME NEW q \in S \union {p}
        PROVE  Put(f, p, t)[q] = t \/ (q \in S /\ Put(f, p, t)[q] = f[q])
    BY <1>2
  <1> QED
    BY <1>5, <1>6, <1>7

(* A body begins with none. *)
LEMMA NoFields == <<>> \in FieldMaps /\ DOMAIN <<>> = {}
  <1>1. <<>> \in [{} -> Tys]
    OBVIOUS
  <1> QED
    BY <1>1 DEF FieldMaps

(* What a pass guesses for a body is a truth value. *)
LEMMA GuessType ==
    ASSUME LoweringTypeOK, NEW c
    PROVE  Guess(c) \in BOOLEAN /\ DecidedNull(c) \in BOOLEAN
  <1>1. StatesNull(c) \in BOOLEAN
    BY DEF StatesNull, AllAdmitNull
  <1> QED
    BY <1>1 DEF Guess, DecidedNull, LoweringTypeOK

-----------------------------------------------------------------------------
(* The steps. *)

(* A step that only answers, with nothing unboxed that is not filled. *)
LEMMA AnswerStep ==
    ASSUME LoweringInv,
           UNCHANGED <<doc, settled, frames, finished, revisions, types, filled>>,
           answer' \in Tys \union {None, Failed},
           answer'.kind = "type" => answer'.boxed \/ answer'.root \in DOMAIN types
    PROVE  LoweringInv'
  <1>1. LoweringTypeOK'
    BY DEF LoweringInv, LoweringTypeOK
  <1>2. FilledOnce'
    BY DEF LoweringInv, FilledOnce
  <1>3. HeldFilled'
    BY DEF LoweringInv, HeldFilled, Sized
  <1> QED
    BY <1>1, <1>2, <1>3 DEF LoweringInv

(* None of the two is a type. *)
LEMMA NoType == None.kind # "type" /\ Failed.kind # "type"
  BY DEF None, Failed

LEMMA UseFinishedStep ==
    ASSUME LoweringInv, UseFinished
    PROVE  LoweringInv'
  <1>1. /\ Wanted \in DOMAIN types /\ Wanted \in Names
        /\ finished[Wanted].root = Wanted /\ finished[Wanted].null \in BOOLEAN
    BY DEF UseFinished, LoweringInv, LoweringTypeOK, FilledOnce
  <1>2. answer' = [kind |-> "type", root |-> Wanted, null |-> finished[Wanted].null,
                   boxed |-> FALSE]
    BY <1>1 DEF UseFinished, Ty
  <1>3. answer' \in Tys /\ answer'.root \in DOMAIN types
    BY <1>1, <1>2 DEF Tys
  <1>4. UNCHANGED <<doc, settled, frames, finished, revisions, types, filled>>
    BY DEF UseFinished, context, findings, graph
  <1> QED
    BY <1>3, <1>4, AnswerStep

LEMMA BackEdgeStep ==
    ASSUME LoweringInv, BackEdge \/ AliasOfOpen
    PROVE  LoweringInv'
  <1>1. PICK c \in Names, null \in BOOLEAN : answer' = Ty(c, null, TRUE)
    <2>1. ASSUME NEW c, Open(c)
          PROVE  c \in Names /\ Provisional(c) \in BOOLEAN
      <3>1. PICK i \in DOMAIN frames : frames[i].comp = c
        BY <2>1 DEF Open
      <3>2. \A j \in DOMAIN frames : frames[j] \in Frames
        BY DEF LoweringInv, LoweringTypeOK
      <3> DEFINE k == CHOOSE j \in DOMAIN frames : frames[j].comp = c
      <3>3. k \in DOMAIN frames
        BY <3>1
      <3> HIDE DEF k
      <3>4. frames[k].guess \in BOOLEAN /\ c \in Names
        BY <3>1, <3>2, <3>3 DEF Frames
      <3> QED
        BY <3>4 DEF Provisional, k
    <2>2. CASE BackEdge
      BY <2>1, <2>2 DEF BackEdge
    <2>3. CASE AliasOfOpen
      BY <2>1, <2>3 DEF AliasOfOpen
    <2> QED
      BY <2>2, <2>3
  <1>2. answer' \in Tys /\ answer'.boxed
    BY <1>1 DEF Ty, Tys
  <1>3. UNCHANGED <<doc, settled, frames, finished, revisions, types, filled>>
    BY DEF BackEdge, AliasOfOpen, context, findings, graph
  <1> QED
    BY <1>2, <1>3, AnswerStep

LEMMA FailingStep ==
    ASSUME LoweringInv,
           RefuseOpenMember \/ Undeclared \/ AliasCycle \/ RefuseReserved
             \/ OpenedAtTop \/ LearnOrder
    PROVE  LoweringInv'
  <1>1. UNCHANGED <<doc, settled, frames, finished, revisions, types, filled>>
    BY DEF RefuseOpenMember, Undeclared, AliasCycle, RefuseReserved, OpenedAtTop, LearnOrder,
           context, findings, graph
  <1>2. answer' \in {answer, None, Failed}
    BY DEF RefuseOpenMember, Undeclared, AliasCycle, RefuseReserved, OpenedAtTop, LearnOrder
  <1>3. answer \in Tys \union {None, Failed}
        /\ (answer.kind = "type" => answer.boxed \/ answer.root \in DOMAIN types)
    BY DEF LoweringInv, LoweringTypeOK, HeldFilled
  <1> QED
    BY <1>1, <1>2, <1>3, NoType, AnswerStep

(* A component is opened that is neither filled nor open. *)
LEMMA OpenBodyStep ==
    ASSUME LoweringInv, OpenBody
    PROVE  LoweringInv'
  <1> DEFINE new == Frame(Wanted, Guess(Wanted), 1, <<>>)
  <1>1. /\ Wanted \in Names /\ Wanted \notin DOMAIN types
        /\ \A i \in DOMAIN frames : frames[i].comp # Wanted
    BY DEF OpenBody, Fresh, Open, IsAlias, LoweringInv, FilledOnce
  <1>2. new \in Frames /\ new.comp = Wanted /\ new.fields = <<>>
    BY <1>1, GuessType, NoFields DEF Frame, Frames, LoweringInv
  <1>3. frames' = Append(frames, new) /\ frames \in Seq(Frames)
    BY DEF OpenBody, LoweringInv, LoweringTypeOK
  <1>4. UNCHANGED <<doc, settled, answer, finished, revisions, types, filled>>
    BY DEF OpenBody, context, findings, graph
  <1> HIDE DEF new
  <1>5. /\ frames' \in Seq(Frames)
        /\ \A i \in DOMAIN frames' :
             \/ i \in DOMAIN frames /\ frames'[i] = frames[i]
             \/ i = Len(frames) + 1 /\ i \notin DOMAIN frames /\ frames'[i] = new
    <2>1. /\ frames' \in Seq(Frames) /\ Len(frames') = Len(frames) + 1
          /\ DOMAIN frames = 1 .. Len(frames) /\ DOMAIN frames' = 1 .. Len(frames')
          /\ Len(frames) \in Nat
          /\ frames'[Len(frames) + 1] = new
          /\ \A i \in 1 .. Len(frames) : frames'[i] = frames[i]
      BY <1>2, <1>3, AppendProperties
    <2>2. \A i \in 1 .. Len(frames) + 1 : i \in 1 .. Len(frames) \/ i = Len(frames) + 1
      BY <2>1
    <2> QED
      BY <2>1, <2>2
  <1>6. LoweringTypeOK'
    BY <1>4, <1>5 DEF LoweringInv, LoweringTypeOK
  <1>7. FilledOnce'
    <2>1. \A i \in DOMAIN frames' : frames'[i].comp \notin DOMAIN types
      BY <1>1, <1>2, <1>5 DEF LoweringInv, FilledOnce
    <2>2. \A i, j \in DOMAIN frames' : frames'[i].comp = frames'[j].comp => i = j
      <3> SUFFICES ASSUME NEW i \in DOMAIN frames', NEW j \in DOMAIN frames',
                          frames'[i].comp = frames'[j].comp
                   PROVE  i = j
        OBVIOUS
      <3>1. CASE i \in DOMAIN frames /\ frames'[i] = frames[i]
        BY <3>1, <1>1, <1>2, <1>5 DEF LoweringInv, FilledOnce
      <3>2. CASE i = Len(frames) + 1 /\ frames'[i] = new
        BY <3>2, <1>1, <1>2, <1>5 DEF LoweringInv, FilledOnce
      <3> QED
        BY <3>1, <3>2, <1>5
    <2> QED
      BY <1>4, <2>1, <2>2 DEF LoweringInv, FilledOnce
  <1>8. HeldFilled'
    <2>1. Sized(<<>>)
      BY NoFields DEF Sized
    <2>2. \A i \in DOMAIN frames' : Sized(frames'[i].fields)
      BY <1>2, <1>5, <2>1 DEF LoweringInv, HeldFilled
    <2> QED
      BY <1>4, <2>2 DEF LoweringInv, HeldFilled, Sized
  <1> QED
    BY <1>6, <1>7, <1>8 DEF LoweringInv

(* Taking the last frame off. *)
LEMMA FrontFacts ==
    ASSUME NEW S, NEW s \in Seq(S), s # <<>>
    PROVE  /\ Front(s) \in Seq(S) /\ DOMAIN Front(s) = 1 .. Len(s) - 1
           /\ \A i \in DOMAIN Front(s) : i \in DOMAIN s /\ i # Len(s) /\ Front(s)[i] = s[i]
           /\ DOMAIN s = 1 .. Len(s) /\ Len(s) \in DOMAIN s /\ Len(s) \in Nat
           /\ Last(s) = s[Len(s)]
  <1>1. Len(s) \in Nat /\ Len(s) # 0 /\ DOMAIN s = 1 .. Len(s)
    OBVIOUS
  <1>2. Front(s) = [i \in 1 .. Len(s) - 1 |-> s[i]]
    BY <1>1 DEF Front
  <1> QED
    BY <1>1, <1>2 DEF Last

(* A body that failed is neither filled nor finished. *)
LEMMA UnwindStep ==
    ASSUME LoweringInv, Unwind
    PROVE  LoweringInv'
  <1>1. /\ frames \in Seq(Frames) /\ frames # <<>> /\ frames' = Front(frames)
        /\ Top = frames[Len(frames)] /\ Len(frames) \in DOMAIN frames
    BY FrontFacts DEF Unwind, LoweringInv, LoweringTypeOK, Top
  <1>2. /\ frames' \in Seq(Frames)
        /\ \A i \in DOMAIN frames' : i \in DOMAIN frames /\ frames'[i] = frames[i]
    BY <1>1, FrontFacts
  <1>3. DOMAIN finished' = DOMAIN finished /\ \A c \in DOMAIN finished : finished'[c] = finished[c]
    <2>1. Top.comp \notin DOMAIN finished
      BY <1>1 DEF LoweringInv, FilledOnce
    <2>2. ASSUME NEW c \in DOMAIN finished
          PROVE  finished[c].root # Top.comp
      BY <2>1 DEF LoweringInv, FilledOnce
    <2> QED
      BY <2>2 DEF Unwind
  <1>4. UNCHANGED <<doc, settled, answer, revisions, types, filled>>
    BY DEF Unwind, context, graph
  <1>5. LoweringTypeOK'
    BY <1>2, <1>3, <1>4 DEF LoweringInv, LoweringTypeOK
  <1>6. FilledOnce'
    BY <1>2, <1>3, <1>4 DEF LoweringInv, FilledOnce
  <1>7. HeldFilled'
    BY <1>2, <1>4 DEF LoweringInv, HeldFilled, Sized
  <1> QED
    BY <1>5, <1>6, <1>7 DEF LoweringInv

(* A body goes on with other fields, of which the unboxed are filled. *)
LEMMA ContinueStep ==
    ASSUME LoweringInv, frames # <<>>, NEW fields \in FieldMaps, Sized(fields),
           Continue(fields), UNCHANGED <<findings, graph>>
    PROVE  LoweringInv'
  <1> DEFINE n == Len(frames)
  <1>1. frames \in Seq(Frames) /\ n \in DOMAIN frames /\ DOMAIN frames = 1 .. n
    BY FrontFacts DEF LoweringInv, LoweringTypeOK
  <1>2. frames[n] \in Frames
    BY <1>1
  <1> DEFINE new == [comp |-> frames[n].comp, guess |-> frames[n].guess,
                     next |-> frames[n].next + 1, fields |-> fields]
  <1>3. new \in Frames
    BY <1>2 DEF Frames
  <1>4. frames' = [frames EXCEPT ![n] = new]
    BY <1>1, FrontFacts DEF Continue, Top, Frame, LoweringInv, LoweringTypeOK
  <1>5. /\ frames' \in Seq(Frames) /\ DOMAIN frames' = DOMAIN frames
        /\ \A i \in DOMAIN frames' :
             \/ i # n /\ frames'[i] = frames[i]
             \/ i = n /\ frames'[i] = new
    BY <1>1, <1>3, <1>4
  <1>6. \A i \in DOMAIN frames' : frames'[i].comp = frames[i].comp
    BY <1>5
  <1>7. answer' = None /\ UNCHANGED <<doc, settled, finished, revisions, types, filled>>
    BY DEF Continue, context, findings, graph
  <1>8. LoweringTypeOK'
    BY <1>5, <1>7 DEF LoweringInv, LoweringTypeOK
  <1>9. FilledOnce'
    BY <1>5, <1>6, <1>7 DEF LoweringInv, FilledOnce
  <1>10. HeldFilled'
    <2>1. \A i \in DOMAIN frames' : Sized(frames'[i].fields)
      BY <1>5 DEF LoweringInv, HeldFilled
    <2> QED
      BY <1>7, <2>1, NoType DEF LoweringInv, HeldFilled, Sized
  <1> QED
    BY <1>8, <1>9, <1>10 DEF LoweringInv

(* The one property more is typed by the answer. *)
LEMMA AddFieldStep ==
    ASSUME LoweringInv, AddField
    PROVE  LoweringInv'
  <1> DEFINE fields == Put(Top.fields, <<Top.comp, Top.next>>, answer)
  <1>1. /\ frames # <<>> /\ answer \in Tys
        /\ answer.boxed \/ answer.root \in DOMAIN types
    BY NoType DEF AddField, Answered, LoweringInv, LoweringTypeOK, HeldFilled
  <1>2. /\ Top \in Frames /\ Sized(Top.fields)
    <2>1. Len(frames) \in DOMAIN frames /\ Top = frames[Len(frames)] /\ frames \in Seq(Frames)
      BY <1>1, FrontFacts DEF LoweringInv, LoweringTypeOK, Top
    <2> QED
      BY <2>1 DEF LoweringInv, HeldFilled
  <1>3. fields \in FieldMaps /\ Sized(fields)
    <2>1. Top.fields \in FieldMaps /\ <<Top.comp, Top.next>> \in Names \X Nat
      BY <1>2 DEF Frames
    <2> QED
      BY <1>1, <1>2, <2>1, PutFacts DEF Sized
  <1> QED
    BY <1>1, <1>3, ContinueStep DEF AddField

(* What is copied from a definition was filled before it. *)
LEMMA TakeFieldsStep ==
    ASSUME LoweringInv, TakeFields
    PROVE  LoweringInv'
  <1> DEFINE fields == Merged(Top.fields, types[answer.root])
  <1>1. frames # <<>> /\ answer.root \in DOMAIN types
    BY DEF TakeFields, Answered
  <1>2. Top \in Frames /\ Sized(Top.fields)
    <2>1. Len(frames) \in DOMAIN frames /\ Top = frames[Len(frames)] /\ frames \in Seq(Frames)
      BY <1>1, FrontFacts DEF LoweringInv, LoweringTypeOK, Top
    <2> QED
      BY <2>1 DEF LoweringInv, HeldFilled
  <1>3. types[answer.root] \in FieldMaps /\ Sized(types[answer.root])
    <2>1. types[answer.root] \in FieldMaps
      BY <1>1 DEF LoweringInv, LoweringTypeOK
    <2>2. PICK i \in DOMAIN filled : filled[i] = answer.root
      BY <1>1 DEF LoweringInv, FilledOnce
    <2>3. \A j \in 1 .. i - 1 : j \in DOMAIN filled
      <3>1. filled \in Seq(Names)
        BY DEF LoweringInv, LoweringTypeOK
      <3> QED
        BY <3>1
    <2> QED
      BY <2>1, <2>2, <2>3 DEF LoweringInv, HeldFilled, FilledOnce, Sized
  <1>4. Top.fields \in FieldMaps
    BY <1>2 DEF Frames
  <1>5. fields \in FieldMaps /\ Sized(fields)
    BY <1>2, <1>3, <1>4, MergeFacts DEF Sized
  <1> QED
    BY <1>1, <1>5, ContinueStep DEF TakeFields

(* The definition of a body comes after all that it holds unboxed. *)
LEMMA FillStep ==
    ASSUME LoweringInv, Fill
    PROVE  LoweringInv'
  <1> DEFINE c == Top.comp
             null == DecidedNull(Top.comp)
             n == Len(filled)
  <1>1. /\ frames \in Seq(Frames) /\ frames # <<>> /\ frames' = Front(frames)
        /\ Top = frames[Len(frames)] /\ Len(frames) \in DOMAIN frames
    BY FrontFacts DEF Fill, LoweringInv, LoweringTypeOK, Top
  <1>2. /\ c \in Names /\ c \notin DOMAIN types /\ c \notin DOMAIN finished
        /\ null \in BOOLEAN /\ Top.fields \in FieldMaps /\ Sized(Top.fields)
    <2>1. Top \in Frames
      BY <1>1
    <2> QED
      BY <1>1, <2>1, GuessType DEF Frames, LoweringInv, FilledOnce, HeldFilled
  <1>3. /\ frames' \in Seq(Frames)
        /\ \A i \in DOMAIN frames' :
              i \in DOMAIN frames /\ i # Len(frames) /\ frames'[i] = frames[i]
    BY <1>1, FrontFacts
  <1>4. \A i \in DOMAIN frames' : frames'[i].comp # c
    BY <1>1, <1>3 DEF LoweringInv, FilledOnce
  <1>5. /\ types' = Put(types, c, Top.fields)
        /\ finished' = Put(finished, c, [root |-> c, null |-> null])
        /\ filled' = Append(filled, c)
        /\ answer' = Ty(c, null, FALSE)
        /\ doc' = doc /\ settled' = settled
        /\ \A r \in revisions' : r \in revisions \/ r = [comp |-> c, null |-> null]
    BY DEF Fill, context
  <1>6. /\ DOMAIN types' = DOMAIN types \union {c}
        /\ types'[c] = Top.fields
        /\ \A x \in DOMAIN types : types'[x] = types[x]
        /\ DOMAIN finished' = DOMAIN finished \union {c}
        /\ finished'[c] = [root |-> c, null |-> null]
        /\ \A x \in DOMAIN finished : finished'[x] = finished[x]
    BY <1>2, <1>5 DEF Put
  <1>7. /\ filled' \in Seq(Names) /\ n \in Nat
        /\ DOMAIN filled = 1 .. n /\ DOMAIN filled' = 1 .. n + 1
        /\ filled'[n + 1] = c
        /\ \A i \in 1 .. n : filled'[i] = filled[i]
    <2>1. filled \in Seq(Names)
      BY DEF LoweringInv, LoweringTypeOK
    <2> QED
      BY <1>2, <1>5, <2>1, AppendProperties
  <1>8. answer' \in Tys /\ answer'.root = c
    BY <1>2, <1>5 DEF Ty, Tys
  <1> HIDE DEF c, null, n
  <1>9. LoweringTypeOK'
    <2>1. \A x \in DOMAIN finished' : finished'[x].null \in BOOLEAN
      BY <1>2, <1>6 DEF LoweringInv, LoweringTypeOK
    <2>2. \A r \in revisions' : r.null \in BOOLEAN
      BY <1>2, <1>5 DEF LoweringInv, LoweringTypeOK
    <2>3. \A x \in DOMAIN types' : types'[x] \in FieldMaps
      BY <1>2, <1>6 DEF LoweringInv, LoweringTypeOK
    <2> QED
      BY <1>2, <1>3, <1>5, <1>6, <1>7, <1>8, <2>1, <2>2, <2>3 DEF LoweringInv, LoweringTypeOK
  <1>10. FilledOnce'
    <2>1. \A x \in DOMAIN finished' : finished'[x].root = x
      BY <1>6 DEF LoweringInv, FilledOnce
    <2>2. \A i \in DOMAIN filled' : filled'[i] \in DOMAIN types'
      BY <1>6, <1>7 DEF LoweringInv, FilledOnce
    <2>3. ASSUME NEW x \in DOMAIN types'
          PROVE  \E i \in DOMAIN filled' : filled'[i] = x
      <3>1. CASE x = c
        BY <3>1, <1>7
      <3>2. CASE x \in DOMAIN types
        <4>1. PICK i \in 1 .. n : filled[i] = x
          BY <3>2, <1>7 DEF LoweringInv, FilledOnce
        <4> QED
          BY <4>1, <1>7
      <3> QED
        BY <3>1, <3>2, <1>6
    <2>4. ASSUME NEW i \in DOMAIN filled', NEW j \in DOMAIN filled', filled'[i] = filled'[j]
          PROVE  i = j
      <3>1. \A k \in 1 .. n : filled'[k] = filled[k] /\ filled'[k] # c
        BY <1>2, <1>7 DEF LoweringInv, FilledOnce
      <3>2. \A k, m \in 1 .. n : filled[k] = filled[m] => k = m
        BY <1>7 DEF LoweringInv, FilledOnce
      <3> QED
        BY <3>1, <3>2, <2>4, <1>7
    <2>5. \A i \in DOMAIN frames' : frames'[i].comp \notin DOMAIN types'
      BY <1>3, <1>4, <1>6 DEF LoweringInv, FilledOnce
    <2>6. \A i, j \in DOMAIN frames' : frames'[i].comp = frames'[j].comp => i = j
      BY <1>3 DEF LoweringInv, FilledOnce
    <2>7. DOMAIN types' = DOMAIN finished'
      BY <1>6 DEF LoweringInv, FilledOnce
    <2> QED
      BY <2>1, <2>2, <2>3, <2>4, <2>5, <2>6, <2>7 DEF FilledOnce
  <1>11. HeldFilled'
    <2>1. \A i \in DOMAIN frames' : \A p \in DOMAIN frames'[i].fields :
            frames'[i].fields[p].boxed \/ frames'[i].fields[p].root \in DOMAIN types'
      BY <1>3, <1>6 DEF LoweringInv, HeldFilled, Sized
    <2>2. answer'.boxed \/ answer'.root \in DOMAIN types'
      BY <1>6, <1>8
    <2>3. ASSUME NEW i \in DOMAIN filled', NEW p \in DOMAIN types'[filled'[i]],
                 ~types'[filled'[i]][p].boxed
          PROVE  \E j \in 1 .. i - 1 : filled'[j] = types'[filled'[i]][p].root
      <3>1. CASE i = n + 1
        <4>1. types'[filled'[i]] = Top.fields
          BY <3>1, <1>6, <1>7
        <4>2. Top.fields[p].root \in DOMAIN types
          BY <4>1, <2>3, <1>2 DEF Sized
        <4>3. PICK j \in 1 .. n : filled[j] = Top.fields[p].root
          BY <4>2, <1>7 DEF LoweringInv, FilledOnce
        <4> QED
          BY <3>1, <4>1, <4>3, <1>7
      <3>2. CASE i \in 1 .. n
        <4>1. filled'[i] = filled[i] /\ types'[filled'[i]] = types[filled[i]]
          BY <3>2, <1>6, <1>7 DEF LoweringInv, FilledOnce
        <4>2. PICK j \in 1 .. i - 1 : filled[j] = types[filled[i]][p].root
          BY <3>2, <4>1, <2>3, <1>7 DEF LoweringInv, HeldFilled
        <4>3. j \in 1 .. n
          BY <3>2, <1>7
        <4> QED
          BY <4>1, <4>2, <4>3, <1>7
      <3> QED
        BY <3>1, <3>2, <1>7
    <2>4. \A i \in DOMAIN filled' : \A p \in DOMAIN types'[filled'[i]] :
            types'[filled'[i]][p].boxed
              \/ \E j \in 1 .. i - 1 : filled'[j] = types'[filled'[i]][p].root
      BY <2>3
    <2> QED
      BY <2>1, <2>2, <2>4 DEF HeldFilled, Sized
  <1> QED
    BY <1>9, <1>10, <1>11 DEF LoweringInv

(* A pass begins with nothing lowered. *)
LEMMA NewPassStep ==
    ASSUME LoweringInv, NextPass \/ Accept
    PROVE  LoweringInv'
  <1>1. /\ frames' = <<>> /\ finished' = <<>> /\ types' = <<>> /\ filled' = <<>>
        /\ revisions' = {} /\ answer' = None /\ doc' = doc
    BY DEF NextPass, Accept, BeginPass
  <1>2. \A c \in DOMAIN settled' : settled'[c] \in BOOLEAN
    <2>1. CASE Accept
      BY <2>1 DEF Accept
    <2>2. CASE NextPass
      <3>1. ASSUME NEW c \in DOMAIN Settled
            PROVE  Settled[c] \in BOOLEAN
        <4>1. CASE c \in DOMAIN settled
          BY <4>1 DEF Settled, LoweringInv, LoweringTypeOK
        <4>2. CASE c \notin DOMAIN settled
          <5> DEFINE r == CHOOSE r \in revisions : r.comp = c
          <5>1. \E q \in revisions : q.comp = c
            BY <4>2 DEF Settled
          <5>2. r \in revisions
            BY <5>1
          <5>3. Settled[c] = r.null
            BY <4>2 DEF Settled
          <5> QED
            BY <5>2, <5>3 DEF LoweringInv, LoweringTypeOK
        <4> QED
          BY <4>1, <4>2
      <3> QED
        BY <2>2, <3>1 DEF NextPass
    <2> QED
      BY <2>1, <2>2
  <1>3. LoweringTypeOK'
    BY <1>1, <1>2 DEF LoweringInv, LoweringTypeOK
  <1>4. FilledOnce'
    BY <1>1 DEF FilledOnce
  <1>5. HeldFilled'
    BY <1>1, NoType DEF HeldFilled
  <1> QED
    BY <1>3, <1>4, <1>5 DEF LoweringInv

(* Where no component is an alias, none is followed and none chained. *)
LEMMA NoAliasSteps ==
    ASSUME NoAliases, LoweringInv
    PROVE  ~FollowAlias /\ ~Chain
  <1>1. \A c \in Names : ~IsAlias(c)
    BY DEF NoAliases, IsAlias, LoweringInv, LoweringTypeOK
  <1>2. ~FollowAlias
    BY <1>1 DEF FollowAlias, Fresh
  <1>3. ~Chain
    <2> SUFFICES ASSUME Chain
                 PROVE  FALSE
      OBVIOUS
    <2>1. Len(frames) \in DOMAIN frames /\ Top = frames[Len(frames)] /\ frames \in Seq(Frames)
      BY FrontFacts DEF Chain, Answered, LoweringInv, LoweringTypeOK, Top
    <2>2. frames[Len(frames)] \in Frames
      BY <2>1
    <2>3. Top.comp \in Names
      BY <2>1, <2>2 DEF Frames
    <2> QED
      BY <1>1, <2>3 DEF Chain
  <1> QED
    BY <1>2, <1>3

-----------------------------------------------------------------------------
(* The theorem. *)

LEMMA LoweringInductive ==
    ASSUME NoAliases
    PROVE  Spec => []LoweringInv
  <1>1. Init => LoweringInv
    <2> SUFFICES ASSUME Init
                 PROVE  LoweringInv
      OBVIOUS
    <2>1. LoweringTypeOK
      BY DEF Init, LoweringTypeOK
    <2>2. FilledOnce
      BY DEF Init, FilledOnce
    <2>3. HeldFilled
      BY NoType DEF Init, HeldFilled
    <2> QED
      BY <2>1, <2>2, <2>3 DEF LoweringInv
  <1>2. LoweringInv /\ [Next]_vars => LoweringInv'
    <2> SUFFICES ASSUME LoweringInv, [Next]_vars
                 PROVE  LoweringInv'
      OBVIOUS
    <2>1. CASE UNCHANGED vars
      <3>1. UNCHANGED <<doc, settled, frames, finished, revisions, types, filled, answer>>
        BY <2>1 DEF vars, context, findings, graph
      <3>2. answer \in Tys \union {None, Failed}
            /\ (answer.kind = "type" => answer.boxed \/ answer.root \in DOMAIN types)
        BY DEF LoweringInv, LoweringTypeOK, HeldFilled
      <3> QED
        BY <3>1, <3>2, AnswerStep
    <2>2. ~FollowAlias /\ ~Chain
      BY NoAliasSteps
    <2>3. CASE Returned
      BY <2>1, <2>3 DEF Returned
    <2> QED
      BY <2>1, <2>2, <2>3, UseFinishedStep, BackEdgeStep, FailingStep, OpenBodyStep, UnwindStep,
         AddFieldStep, TakeFieldsStep, FillStep, NewPassStep DEF Next
  <1> QED
    BY <1>1, <1>2, PTL DEF Spec

(* A document without aliases is lowered to types of a finite size: in     *)
(* every pass, under every order of its components, whatever it declares   *)
(* (reserved_type, lower_into_reservation). FiniteTypes makes an exception *)
(* of aliases only, so that here it makes none.                            *)
THEOREM FiniteTypesWithoutAliases ==
    ASSUME NoAliases
    PROVE  Spec => []FiniteTypes
  <1>1. LoweringInv => FiniteTypes
    <2> SUFFICES ASSUME LoweringInv, NEW c \in DOMAIN types, NEW p \in DOMAIN types[c],
                        ~types[c][p].boxed
                 PROVE  /\ types[c][p].root \in DOMAIN types
                        /\ Position(types[c][p].root) < Position(c)
      BY DEF FiniteTypes, HoldsOnlyEarlier
    <2>1. filled \in Seq(Names)
      BY DEF LoweringInv, LoweringTypeOK
    <2>2. PICK i \in DOMAIN filled : filled[i] = c
      BY DEF LoweringInv, FilledOnce
    <2>3. PICK j \in 1 .. i - 1 : filled[j] = types[c][p].root
      BY <2>2 DEF LoweringInv, HeldFilled
    <2>4. j \in DOMAIN filled /\ j < i
      BY <2>1, <2>2, <2>3
    <2>5. ASSUME NEW k \in DOMAIN filled
          PROVE  Position(filled[k]) = k
      BY DEF Position, LoweringInv, FilledOnce
    <2> QED
      BY <2>2, <2>3, <2>4, <2>5 DEF LoweringInv, FilledOnce
  <1> QED
    BY <1>1, LoweringInductive, PTL

-----------------------------------------------------------------------------
(* What a name names. *)

(* Induction over the numbers, for a set of them: the theorems of the      *)
(* library that take a predicate cannot be instantiated by these provers,  *)
(* WFMin can.                                                              *)
LEMMA SetInduction ==
    ASSUME NEW S, 0 \in S, \A n \in Nat : n \in S => n + 1 \in S
    PROVE  Nat \subseteq S
  <1> DEFINE T == {n \in Nat : n \notin S}
  <1>1. SUFFICES ASSUME T # {} PROVE FALSE
    OBVIOUS
  <1>2. T \subseteq Nat
    OBVIOUS
  <1>3. PICK x \in T : \A y \in T : ~ (<<y, x>> \in OpToRel(<, Nat))
    <2> HIDE DEF T
    <2> QED
      BY <1>1, <1>2, NatLessThanWellFounded, WFMin
  <1>4. \A y \in T : ~ (y < x)
    <2> HIDE DEF T
    <2> QED
      BY <1>2, <1>3, Zenon DEF OpToRel
  <1>5. x # 0 /\ x - 1 \in Nat /\ x - 1 < x /\ (x - 1) + 1 = x
    OBVIOUS
  <1>6. x - 1 \in S
    BY <1>4, <1>5
  <1> QED
    BY <1>5, <1>6

NextName(d, x) == IF x \in Names /\ d[x].kind = "alias" THEN d[x].refs[1].to ELSE x

Steps(d, f) == \A n \in Nat : f[n + 1] = NextName(d, f[n])

(* The names met from c, up to m steps. *)
Trail(d, c, f, m) ==
    /\ f[0] = c
    /\ \A n \in 0 .. m : n < m => f[n + 1] = NextName(d, f[n])

(* There is one such trail, as far as it leads. *)
LEMMA TrailsAgree ==
    ASSUME NEW d, NEW c, NEW m \in Nat, NEW f, NEW g, Trail(d, c, f, m), Trail(d, c, g, m)
    PROVE  f[m] = g[m]
  <1> DEFINE S == {n \in Nat : n <= m => f[n] = g[n]}
  <1>1. 0 \in S
    BY DEF Trail
  <1>2. ASSUME NEW n \in Nat, n \in S PROVE n + 1 \in S
    BY <1>2 DEF Trail
  <1>3. Nat \subseteq S
    <2> HIDE DEF S
    <2> QED
      BY <1>1, <1>2, SetInduction
  <1> QED
    BY <1>3

(* And there is one, however far. *)
LEMMA TrailExists ==
    ASSUME NEW d, NEW c
    PROVE  \A m \in Nat : \E f : Trail(d, c, f, m)
  <1> DEFINE S == {m \in Nat : \E f : Trail(d, c, f, m)}
  <1>1. 0 \in S
    <2> DEFINE g == [i \in 0 .. 0 |-> c]
    <2>1. Trail(d, c, g, 0)
      BY DEF Trail
    <2> QED
      BY <2>1
  <1>2. ASSUME NEW m \in Nat, m \in S PROVE m + 1 \in S
    <2>1. PICK f : Trail(d, c, f, m)
      BY <1>2
    <2> DEFINE g == [i \in 0 .. m + 1 |-> IF i <= m THEN f[i] ELSE NextName(d, f[m])]
    <2>2. g[0] = c
      BY <2>1 DEF Trail
    <2>3. ASSUME NEW n \in 0 .. m + 1, n < m + 1
          PROVE  g[n + 1] = NextName(d, g[n])
      <3>1. g[n] = f[n] /\ n + 1 \in 0 .. m + 1
        BY <2>3
      <3>2. CASE n < m
        <4>1. g[n + 1] = f[n + 1] /\ n \in 0 .. m
          BY <3>2
        <4> QED
          BY <2>1, <3>1, <3>2, <4>1 DEF Trail
      <3>3. CASE n = m
        BY <3>1, <3>3
      <3> QED
        BY <2>3, <3>2, <3>3
    <2>4. Trail(d, c, g, m + 1)
      <3> HIDE DEF g
      <3> QED
        BY <2>2, <2>3 DEF Trail
    <2> QED
      BY <2>4
  <1>3. Nat \subseteq S
    <2> HIDE DEF S
    <2> QED
      BY <1>1, <1>2, SetInduction
  <1> QED
    BY <1>3

(* The recursive function by which Named is defined exists, so it is the   *)
(* one chosen: each name is what the one before it stands for.             *)
NamesMet(d, c, f) == f = [n \in Nat |-> IF n = 0 THEN c ELSE NextName(d, f[n - 1])]

(* Put together, the trails are such a function. *)
LEMMA NamesMetExist ==
    ASSUME NEW d, NEW c
    PROVE  \E f : NamesMet(d, c, f)
  <1> DEFINE g(m) == CHOOSE h : Trail(d, c, h, m)
             f == [n \in Nat |-> g(n)[n]]
  <1>1. \A m \in Nat : Trail(d, c, g(m), m)
    BY TrailExists
  <1> HIDE DEF g
  <1>2. f[0] = c
    BY <1>1 DEF Trail
  <1>3. ASSUME NEW n \in Nat PROVE f[n + 1] = NextName(d, f[n])
    <2>1. Trail(d, c, g(n + 1), n + 1)
      BY <1>1
    <2>2. Trail(d, c, g(n + 1), n)
      BY <2>1 DEF Trail
    <2>3. g(n + 1)[n] = g(n)[n]
      BY <1>1, <2>2, TrailsAgree
    <2>4. g(n + 1)[n + 1] = NextName(d, g(n + 1)[n])
      BY <2>1 DEF Trail
    <2> QED
      BY <2>3, <2>4
  <1>4. ASSUME NEW n \in Nat PROVE f[n] = IF n = 0 THEN c ELSE NextName(d, f[n - 1])
    <2>1. CASE n = 0
      BY <1>2, <2>1
    <2>2. CASE n # 0
      <3>1. n - 1 \in Nat /\ (n - 1) + 1 = n
        BY <2>2
      <3> HIDE DEF f
      <3> QED
        BY <1>3, <2>2, <3>1
    <2> QED
      BY <2>1, <2>2
  <1>5. f = [n \in Nat |-> f[n]]
    OBVIOUS
  <1> HIDE DEF f
  <1>6. NamesMet(d, c, f)
    BY <1>4, <1>5 DEF NamesMet
  <1> QED
    BY <1>6

(* What a name names is met after as many steps as there are names. *)
LEMMA NamedIs ==
    ASSUME NEW d, NEW c
    PROVE  \E f : /\ f[0] = c
                  /\ Steps(d, f)
                  /\ Named(d, c) = f[Cardinality(Names)]
  <1> DEFINE f == CHOOSE h : NamesMet(d, c, h)
  <1>1. NamesMet(d, c, f)
    BY NamesMetExist
  <1>2. Named(d, c) = f[Cardinality(Names)]
    BY DEF Named, NamesMet, NextName
  <1> HIDE DEF f
  <1>3. f[0] = c
    BY <1>1 DEF NamesMet
  <1>4. \A n \in Nat : f[n + 1] = NextName(d, f[n])
    <2> TAKE n \in Nat
    <2>1. n + 1 \in Nat /\ n + 1 # 0 /\ (n + 1) - 1 = n
      OBVIOUS
    <2> QED
      BY <1>1, <2>1 DEF NamesMet
  <1> QED
    BY <1>2, <1>3, <1>4 DEF Steps

NamesCount == Cardinality(Names)

(* There are so many names. *)
LEMMA CountType == NamesCount \in Nat
  BY LoweringAssumption, FS_CardinalityType DEF NamesCount

(* From what is no alias no step leads on. *)
LEMMA NamesStay ==
    ASSUME NEW d, NEW f, Steps(d, f),
           NEW i \in Nat, ~ (f[i] \in Names /\ d[f[i]].kind = "alias")
    PROVE  \A j \in Nat : f[i + j] = f[i]
  <1> DEFINE S == {j \in Nat : f[i + j] = f[i]}
  <1>1. 0 \in S
    OBVIOUS
  <1>2. ASSUME NEW j \in Nat, j \in S PROVE j + 1 \in S
    <2>1. i + j \in Nat /\ i + (j + 1) = (i + j) + 1
      OBVIOUS
    <2>2. f[(i + j) + 1] = NextName(d, f[i + j])
      BY <2>1 DEF Steps
    <2>3. f[i + (j + 1)] = f[i]
      BY <1>2, <2>1, <2>2 DEF NextName
    <2> QED
      BY <2>3
  <1>3. Nat \subseteq S
    <2> HIDE DEF S
    <2> QED
      BY <1>1, <1>2, SetInduction
  <1> QED
    BY <1>3

(* What is no alias names itself. *)
LEMMA BodiesNameThemselves ==
    ASSUME NEW d, NEW c, ~ (c \in Names /\ d[c].kind = "alias")
    PROVE  Named(d, c) = c
  <1>1. PICK f : /\ f[0] = c
                 /\ Steps(d, f)
                 /\ Named(d, c) = f[NamesCount]
    BY NamedIs DEF NamesCount
  <1>2. \A j \in Nat : f[0 + j] = f[0]
    <2>1. ~ (f[0] \in Names /\ d[f[0]].kind = "alias") /\ 0 \in Nat
      BY <1>1
    <2> QED
      BY <1>1, <2>1, NamesStay
  <1>3. 0 + NamesCount = NamesCount
    BY CountType
  <1> QED
    BY <1>1, <1>2, <1>3, CountType

(* A name that is met twice, is met again and again. *)
LEMMA NamesRepeat ==
    ASSUME NEW d, NEW f, Steps(d, f),
           NEW i \in Nat, NEW j \in Nat, f[i] = f[j]
    PROVE  \A k \in Nat : f[i + k] = f[j + k]
  <1> DEFINE S == {k \in Nat : f[i + k] = f[j + k]}
  <1>1. 0 \in S
    OBVIOUS
  <1>2. ASSUME NEW k \in Nat, k \in S PROVE k + 1 \in S
    <2>1. /\ i + k \in Nat /\ i + (k + 1) = (i + k) + 1
          /\ j + k \in Nat /\ j + (k + 1) = (j + k) + 1
      OBVIOUS
    <2>2. f[(i + k) + 1] = NextName(d, f[i + k]) /\ f[(j + k) + 1] = NextName(d, f[j + k])
      BY <2>1 DEF Steps
    <2>3. f[i + (k + 1)] = f[j + (k + 1)]
      BY <1>2, <2>1, <2>2
    <2> QED
      BY <2>3
  <1>3. Nat \subseteq S
    <2> HIDE DEF S
    <2> QED
      BY <1>1, <1>2, SetInduction
  <1> QED
    BY <1>3

(* After as many steps as there are names, and one more, an alias that is  *)
(* met is one of a loop of aliases, or there is none.                      *)
LEMMA AliasesLoop ==
    ASSUME NEW d, NEW f, Steps(d, f),
           f[NamesCount] \in Names, d[f[NamesCount]].kind = "alias"
    PROVE  d[f[NamesCount + 1]].kind = "alias"
  <1> DEFINE m == NamesCount
             Alias(n) == f[n] \in Names /\ d[f[n]].kind = "alias"
  <1>1. m \in Nat
    BY CountType
  <1>2. \A n \in 0 .. m : Alias(n)
    <2> SUFFICES ASSUME NEW n \in 0 .. m, ~ Alias(n) PROVE FALSE
      OBVIOUS
    <2>0. ~ (f[n] \in Names /\ d[f[n]].kind = "alias")
      OBVIOUS
    <2>1. \A j \in Nat : f[n + j] = f[n]
      <3>1. n \in Nat
        BY <1>1
      <3> QED
        BY <2>0, <3>1, NamesStay
    <2>2. m - n \in Nat /\ n + (m - n) = m
      BY <1>1
    <2>3. f[m] = f[n]
      BY <2>1, <2>2
    <2> QED
      BY <2>3
  <1> DEFINE g == [n \in 0 .. m |-> f[n]]
  <1>3. g \in [0 .. m -> Names]
    BY <1>2
  <1>4. IsFiniteSet(0 .. m) /\ Cardinality(0 .. m) = m + 1
    BY <1>1, FS_Interval
  <1>5. PICK i \in 0 .. m, j \in 0 .. m : i # j /\ g[i] = g[j]
    <2> DEFINE dom == 0 .. m
    <2>1. IsFiniteSet(Names) /\ IsFiniteSet(dom) /\ Cardinality(Names) < Cardinality(dom)
      BY <1>1, <1>4, LoweringAssumption DEF NamesCount
    <2>2. g \in [dom -> Names]
      BY <1>3
    <2> HIDE DEF g, dom
    <2>3. \E i, j \in dom : i # j /\ g[i] = g[j]
      BY <2>1, <2>2, FS_PigeonHole
    <2> QED
      BY <2>3 DEF dom
  <1>6. \E a, b \in 0 .. m : a < b /\ f[a] = f[b]
    BY <1>1, <1>5
  <1>7. PICK a \in 0 .. m, b \in 0 .. m : a < b /\ f[a] = f[b]
    BY <1>6
  <1> DEFINE k == (m + 1) - b
  <1>8. k \in Nat /\ b + k = m + 1 /\ a + k \in 0 .. m
    BY <1>1, <1>7
  <1>9. f[a + k] = f[b + k]
    <2>1. a \in Nat /\ b \in Nat
      BY <1>1
    <2> HIDE DEF k
    <2> QED
      BY <1>7, <1>8, <2>1, NamesRepeat
  <1>10. f[m + 1] = f[a + k] /\ Alias(a + k)
    BY <1>2, <1>8, <1>9
  <1> QED
    BY <1>10

NamesUnion(d, c) == d[Named(d, c)].kind = "union"

(* What names a union, is not another name of what does not.               *)
LEMMA AliasNames ==
    ASSUME NEW d, NEW c \in Names, d[c].kind = "alias", NamesUnion(d, d[c].refs[1].to)
    PROVE  NamesUnion(d, c)
  <1> DEFINE t == d[c].refs[1].to
             m == NamesCount
  <1>1. PICK f : /\ f[0] = c
                 /\ Steps(d, f)
                 /\ Named(d, c) = f[m]
    BY NamedIs DEF NamesCount
  <1>2. PICK g : /\ g[0] = t
                 /\ Steps(d, g)
                 /\ Named(d, t) = g[m]
    BY NamedIs DEF NamesCount
  <1>3. m \in Nat
    BY CountType
  <1> DEFINE S == {n \in Nat : f[n + 1] = g[n]}
  <1>4. 0 \in S
    BY <1>1, <1>2 DEF NextName, Steps
  <1>5. ASSUME NEW n \in Nat, n \in S PROVE n + 1 \in S
    BY <1>1, <1>2, <1>5 DEF Steps
  <1>6. Nat \subseteq S
    <2> HIDE DEF S
    <2> QED
      BY <1>4, <1>5, SetInduction
  <1>7. f[m + 1] = g[m]
    BY <1>3, <1>6
  <1>8. f[m + 1] = NextName(d, f[m])
    BY <1>1, <1>3 DEF Steps
  <1>9. CASE f[m] \in Names /\ d[f[m]].kind = "alias"
    <2>1. d[f[m + 1]].kind = "alias"
      BY <1>1, <1>9, AliasesLoop
    <2> QED
      BY <1>2, <1>7, <2>1 DEF NamesUnion
  <1>10. CASE ~ (f[m] \in Names /\ d[f[m]].kind = "alias")
    BY <1>1, <1>2, <1>7, <1>8, <1>10 DEF NextName, NamesUnion
  <1> QED
    BY <1>9, <1>10

-----------------------------------------------------------------------------
(* Back-edges agree with the bodies they lead to.                          *)

(* What every pass keeps: a pass is broken once a reference failed, an     *)
(* alias is followed once, a body is guessed what is settled of it, and    *)
(* only what is decided is settled or remembered for the next pass.        *)
IsStack(f) == \E S : f \in Seq(S)
OpenNames == {c \in Names : Open(c)}
DecidedOf == [c \in Names |-> DecidedNull(c)]
GuessOf == [c \in Names |-> IF c \in DOMAIN settled THEN settled[c] ELSE StatesNull(c)]

Revised(c) == \E r \in revisions : r.comp = c
RevisedNames == {c \in Names : Revised(c)}

(* What may be said of a component's nullability: what its body decided,   *)
(* anything if the pass is to be repeated for it, and while it is open     *)
(* what was guessed, if it is remembered that the guess was read.          *)
Said ==
    {s \in Names \X BOOLEAN :
        \/ /\ s[1] \in DOMAIN finished /\ doc[s[1]].kind # "alias"
           /\ s[2] = DecidedOf[s[1]] \/ s[1] \in RevisedNames
        \/ s[1] \in OpenNames \intersect guessed /\ s[2] = GuessOf[s[1]]}

(* Properties of such types; of one that names a union nothing is said.    *)
AllSaid(d, said, fields) ==
    \A p \in DOMAIN fields :
        NamesUnion(d, d[p[1]].refs[p[2]].to) \/ <<fields[p].root, fields[p].null>> \in said

AgreeBase ==
    /\ doc \in Documents
    /\ IsStack(frames)
    /\ \A i \in DOMAIN frames :
        /\ frames[i].comp \in Names
        /\ doc[frames[i].comp].kind = "alias" => frames[i].next = 1
        /\ doc[frames[i].comp].kind # "alias" => frames[i].guess = GuessOf[frames[i].comp]
    /\ answer = Failed => broken
    /\ \A c \in DOMAIN settled : c \in Names /\ settled[c] = DecidedOf[c]
    /\ \A r \in revisions :
        r.comp \in Names /\ r.comp \notin DOMAIN settled /\ r.null = DecidedOf[r.comp]

(* Each frame is of what the reference of the one below leads to.          *)
NestedFrames ==
    \A i, j \in DOMAIN frames : j = i + 1 =>
        doc[frames[i].comp].refs[frames[i].next].to = frames[j].comp

(* Whatever a pass without errors has typed so far is what may be said.    *)
SaidTruly ==
    /\ NestedFrames
    /\ \A c \in DOMAIN finished :
        IF doc[c].kind = "alias"
        THEN NamesUnion(doc, c) \/ <<finished[c].root, finished[c].null>> \in Said
        ELSE c \in Names /\ finished[c].root = c /\ finished[c].null = DecidedOf[c]
    /\ answer.kind = "type" /\ frames # <<>> =>
        NamesUnion(doc, Ref.to) \/ <<answer.root, answer.null>> \in Said
    /\ \A i \in DOMAIN frames : AllSaid(doc, Said, frames[i].fields)
    /\ \A c \in DOMAIN types : AllSaid(doc, Said, types[c])

AgreeInv == AgreeBase /\ (broken \/ SaidTruly)

-----------------------------------------------------------------------------
(* What the document decides, and what a pass guesses, is fixed. *)
LEMMA DecidedStays ==
    ASSUME doc' = doc
    PROVE  DecidedOf' = DecidedOf
  BY DEF DecidedOf, DecidedNull, StatesNull, AllAdmitNull, Composing

(* So is a guess, while nothing is settled. *)
LEMMA GuessStays ==
    ASSUME doc' = doc, settled' = settled
    PROVE  GuessOf' = GuessOf
  BY DEF GuessOf, StatesNull, AllAdmitNull, Composing

(* Both are truth values, and the ones the steps use. *)
LEMMA DecidedTypes ==
    /\ DecidedOf \in [Names -> BOOLEAN]
    /\ \A c \in Names : DecidedNull(c) = DecidedOf[c] /\ Guess(c) = GuessOf[c]
    /\ (\A c \in DOMAIN settled : c \in Names /\ settled[c] = DecidedOf[c])
       => GuessOf \in [Names -> BOOLEAN]
  <1>1. \A c : DecidedNull(c) \in BOOLEAN
    BY DEF DecidedNull, StatesNull, AllAdmitNull
  <1>2. \A c : StatesNull(c) \in BOOLEAN
    BY DEF StatesNull, AllAdmitNull
  <1> QED
    BY <1>1, <1>2 DEF DecidedOf, GuessOf, Guess

(* What is said stays said, as long as what is open is closed by being finished. *)
LEMMA SaidStays ==
    ASSUME doc' = doc, settled' = settled,
           DOMAIN finished \subseteq DOMAIN finished',
           revisions \subseteq revisions',
           \A c \in OpenNames \intersect guessed :
              \/ c \in OpenNames' \intersect guessed'
              \/ /\ c \in DOMAIN finished' /\ doc[c].kind # "alias"
                 /\ GuessOf[c] = DecidedOf[c] \/ c \in RevisedNames'
    PROVE  Said \subseteq Said'
  <1>1. DecidedOf' = DecidedOf /\ GuessOf' = GuessOf
    BY DecidedStays, GuessStays
  <1>2. RevisedNames \subseteq RevisedNames'
    BY DEF RevisedNames, Revised
  <1> QED
    BY <1>1, <1>2 DEF Said

(* What may be said of properties may be said when more may. *)
LEMMA AllSaidStays ==
    ASSUME NEW d, NEW said, NEW more, said \subseteq more, NEW fields, AllSaid(d, said, fields)
    PROVE  AllSaid(d, more, fields)
  BY DEF AllSaid

(* A frame is pushed, popped, or replaced by another. *)
LEMMA Pushed ==
    ASSUME NEW f, IsStack(f), NEW x
    PROVE  LET g == Append(f, x) IN
           /\ IsStack(g) /\ g # <<>> /\ Last(g) = x
           /\ Len(f) \in Nat /\ DOMAIN f = 1 .. Len(f)
           /\ DOMAIN g = 1 .. Len(f) + 1
           /\ g[Len(f) + 1] = x
           /\ \A i \in DOMAIN f : i # Len(f) + 1 /\ g[i] = f[i]
           /\ \A i \in DOMAIN g : i \in DOMAIN f \/ i = Len(f) + 1
  <1>1. PICK S : f \in Seq(S)
    BY DEF IsStack
  <1> DEFINE T == S \union {x}
             g == Append(f, x)
  <1>2. f \in Seq(T) /\ x \in T
    BY <1>1
  <1>3. /\ g \in Seq(T) /\ Len(g) = Len(f) + 1 /\ Len(f) \in Nat /\ DOMAIN f = 1 .. Len(f)
        /\ DOMAIN g = 1 .. Len(f) + 1
        /\ g[Len(f) + 1] = x /\ \A i \in 1 .. Len(f) : g[i] = f[i]
    <2> HIDE DEF T
    <2> QED
      BY <1>2, AppendProperties
  <1>4. IsStack(g)
    <2> HIDE DEF g, T
    <2> QED
      BY <1>3 DEF IsStack
  <1>5. g # <<>> /\ Last(g) = x
    <2> HIDE DEF g, T
    <2> QED
      BY <1>3 DEF Last
  <1> HIDE DEF g, T
  <1>6. \A i \in 1 .. Len(f) + 1 : i \in 1 .. Len(f) \/ i = Len(f) + 1
    BY <1>3
  <1> QED
    BY <1>3, <1>4, <1>5, <1>6 DEF g

(* The frame below is the last one then. *)
LEMMA Popped ==
    ASSUME NEW f, IsStack(f), f # <<>>
    PROVE  LET g == Front(f) IN
           /\ IsStack(g)
           /\ Len(f) \in DOMAIN f /\ Last(f) = f[Len(f)]
           /\ Len(f) \in Nat /\ DOMAIN f = 1 .. Len(f)
           /\ DOMAIN g = 1 .. Len(f) - 1
           /\ \A i \in DOMAIN g : i \in DOMAIN f /\ i # Len(f) /\ g[i] = f[i]
           /\ \A i \in DOMAIN f : i \in DOMAIN g \/ i = Len(f)
           /\ g # <<>> => Last(g) = f[Len(f) - 1] /\ Len(f) - 1 \in DOMAIN f
  <1>1. PICK S : f \in Seq(S)
    BY DEF IsStack
  <1> DEFINE g == Front(f)
  <1>2. /\ g \in Seq(S) /\ DOMAIN g = 1 .. Len(f) - 1
        /\ \A i \in DOMAIN g : i \in DOMAIN f /\ i # Len(f) /\ g[i] = f[i]
        /\ DOMAIN f = 1 .. Len(f) /\ Len(f) \in DOMAIN f /\ Len(f) \in Nat
        /\ Last(f) = f[Len(f)]
    BY <1>1, FrontFacts
  <1> HIDE DEF g
  <1>3. IsStack(g)
    BY <1>2 DEF IsStack
  <1>4. g # <<>> => Last(g) = f[Len(f) - 1] /\ Len(f) - 1 \in DOMAIN f
    <2> SUFFICES ASSUME g # <<>> PROVE Last(g) = f[Len(f) - 1] /\ Len(f) - 1 \in DOMAIN f
      OBVIOUS
    <2>0. g \in Seq(S)
      BY <1>2
    <2>1. Len(g) \in Nat /\ DOMAIN g = 1 .. Len(g) /\ Len(g) # 0
      BY <2>0
    <2>2. Len(g) \in DOMAIN g
      BY <2>1
    <2>3. Len(f) - 1 \in Nat /\ Len(f) - 1 # 0
      BY <1>2, <2>2
    <2>4. Len(g) = Len(f) - 1
      <3>1. Len(g) \in 1 .. Len(f) - 1 /\ Len(f) - 1 \in 1 .. Len(g)
        <4>0. DOMAIN g = 1 .. Len(f) - 1
          BY <1>2
        <4>1. 1 .. Len(g) = 1 .. Len(f) - 1 /\ Len(g) \in 1 .. Len(g)
          BY <4>0, <2>1
        <4>2. Len(f) - 1 \in 1 .. Len(f) - 1
          BY <2>3
        <4> QED
          BY <4>1, <4>2
      <3> QED
        BY <2>1, <2>3, <3>1
    <2> QED
      BY <1>2, <2>2, <2>4 DEF Last
  <1>5. \A i \in DOMAIN f : i \in DOMAIN g \/ i = Len(f)
    BY <1>2
  <1> QED
    BY <1>2, <1>3, <1>4, <1>5 DEF g

(* Another frame for the last. *)
LEMMA Replaced ==
    ASSUME NEW f, IsStack(f), f # <<>>, NEW x
    PROVE  LET g == [f EXCEPT ![Len(f)] = x] IN
           /\ IsStack(g)
           /\ Len(f) \in DOMAIN f /\ Last(f) = f[Len(f)]
           /\ Len(f) \in Nat /\ DOMAIN f = 1 .. Len(f)
           /\ DOMAIN g = DOMAIN f /\ g[Len(f)] = x
           /\ \A i \in DOMAIN f : i # Len(f) => g[i] = f[i]
  <1>1. PICK S : f \in Seq(S)
    BY DEF IsStack
  <1> DEFINE T == S \union {x}
             g == [f EXCEPT ![Len(f)] = x]
  <1>2. f \in Seq(T) /\ x \in T
    BY <1>1
  <1>3. Len(f) \in DOMAIN f /\ Len(f) \in Nat /\ DOMAIN f = 1 .. Len(f) /\ Last(f) = f[Len(f)]
    BY <1>1, FrontFacts
  <1>4. g \in Seq(T)
    <2> HIDE DEF T
    <2> QED
      BY <1>2, <1>3
  <1>5. IsStack(g)
    <2> HIDE DEF g, T
    <2> QED
      BY <1>4 DEF IsStack
  <1> QED
    BY <1>3, <1>5

-----------------------------------------------------------------------------
(* A step that answers, or only loses an answer. *)
LEMMA AgreeAnswer ==
    ASSUME AgreeInv,
           UNCHANGED <<doc, settled, frames, finished, revisions, types>>,
           guessed \subseteq guessed',
           broken => broken',
           answer' = Failed => broken',
           ~ broken' /\ answer'.kind = "type" /\ frames # <<>> =>
              \/ NamesUnion(doc, Ref.to)
              \/ <<answer'.root, answer'.null>> \in Said'
    PROVE  AgreeInv'
  <1>1. DecidedOf' = DecidedOf /\ GuessOf' = GuessOf
    BY DecidedStays, GuessStays
  <1>2. AgreeBase'
    BY <1>1 DEF AgreeInv, AgreeBase
  <1>3. ASSUME SaidTruly, ~ broken'
        PROVE  SaidTruly'
    <2>1. OpenNames' = OpenNames /\ Ref' = Ref
      BY DEF OpenNames, Open, IsAlias, Ref, Top
    <2>2. Said \subseteq Said'
      BY <2>1, SaidStays
    <2>3. NestedFrames'
      BY <1>3 DEF SaidTruly, NestedFrames
    <2>4. /\ \A i \in DOMAIN frames : AllSaid(doc, Said', frames[i].fields)
          /\ \A c \in DOMAIN types : AllSaid(doc, Said', types[c])
      BY <1>3, <2>2, AllSaidStays DEF SaidTruly
    <2>5. \A c \in DOMAIN finished :
            IF doc[c].kind = "alias"
            THEN NamesUnion(doc, c) \/ <<finished[c].root, finished[c].null>> \in Said'
            ELSE c \in Names /\ finished[c].root = c /\ finished[c].null = DecidedOf[c]
      BY <1>3, <2>2 DEF SaidTruly
    <2>6. answer'.kind = "type" /\ frames # <<>> =>
            NamesUnion(doc, Ref'.to) \/ <<answer'.root, answer'.null>> \in Said'
      BY <1>3, <2>1
    <2> QED
      BY <1>1, <2>3, <2>4, <2>5, <2>6 DEF SaidTruly
  <1> QED
    BY <1>2, <1>3 DEF AgreeInv

(* A step that fails the pass. *)
LEMMA AgreeFailing ==
    ASSUME AgreeInv,
           RefuseOpenMember \/ Undeclared \/ AliasCycle \/ RefuseReserved
    PROVE  AgreeInv'
  <1>1. /\ UNCHANGED <<doc, settled, frames, finished, revisions, types>>
        /\ guessed \subseteq guessed' /\ broken'
    BY DEF RefuseOpenMember, Undeclared, AliasCycle, RefuseReserved, context, graph
  <1> QED
    BY <1>1, AgreeAnswer

(* Steps at the top level, where no body is waiting for the answer. *)
LEMMA AgreeIdle ==
    ASSUME AgreeInv, OpenedAtTop \/ LearnOrder
    PROVE  AgreeInv'
  <1>1. /\ UNCHANGED <<doc, settled, frames, finished, revisions, types>>
        /\ guessed \subseteq guessed' /\ broken' = broken
    BY DEF OpenedAtTop, LearnOrder, context, findings, graph
  <1>2. frames = <<>> /\ answer' # Failed
    BY DEF OpenedAtTop, LearnOrder, PassDone, None, Failed
  <1> QED
    BY <1>1, <1>2, AgreeAnswer

(* What is finished is said of. *)
LEMMA AgreeUseFinished ==
    ASSUME AgreeInv, UseFinished
    PROVE  AgreeInv'
  <1>1. /\ UNCHANGED <<doc, settled, frames, finished, revisions, types>>
        /\ guessed' = guessed /\ broken' = broken
    BY DEF UseFinished, context, findings, graph
  <1>2. /\ answer' = Ty(finished[Wanted].root, finished[Wanted].null, FALSE)
        /\ Wanted \in DOMAIN finished
    BY DEF UseFinished
  <1>3. answer' # Failed /\ answer'.root = finished[Wanted].root
        /\ answer'.null = finished[Wanted].null
    BY <1>2 DEF Ty, Failed
  <1>4. Said \subseteq Said'
    <2>1. OpenNames' = OpenNames
      BY <1>1 DEF OpenNames, Open, IsAlias
    <2> QED
      BY <1>1, <2>1, SaidStays
  <1>5. ASSUME ~ broken, frames # <<>>
        PROVE  NamesUnion(doc, Ref.to) \/ <<answer'.root, answer'.null>> \in Said
    <2>1. Wanted = Ref.to
      BY <1>5 DEF Wanted
    <2>2. SaidTruly
      BY <1>5 DEF AgreeInv
    <2>3. CASE doc[Wanted].kind = "alias"
      BY <1>2, <1>3, <2>1, <2>2, <2>3 DEF SaidTruly
    <2>4. CASE doc[Wanted].kind # "alias"
      <3>1. Wanted \in Names /\ finished[Wanted].root = Wanted
            /\ finished[Wanted].null = DecidedOf[Wanted]
        BY <1>2, <2>2, <2>4 DEF SaidTruly
      <3>2. <<Wanted, DecidedOf[Wanted]>> \in Said
        BY <1>2, <2>4, <3>1, DecidedTypes DEF Said
      <3> QED
        BY <1>3, <3>1, <3>2
    <2> QED
      BY <2>3, <2>4
  <1> QED
    BY <1>1, <1>3, <1>4, <1>5, AgreeAnswer

(* The guess of an open component. *)
LEMMA ProvisionalIs ==
    ASSUME AgreeBase, NEW c, Open(c)
    PROVE  c \in OpenNames /\ Provisional(c) = GuessOf[c] /\ GuessOf[c] \in BOOLEAN
  <1>1. PICK i \in DOMAIN frames : frames[i].comp = c /\ doc[c].kind # "alias"
    BY DEF Open, IsAlias
  <1> DEFINE k == CHOOSE j \in DOMAIN frames : frames[j].comp = c
  <1>2. k \in DOMAIN frames /\ frames[k].comp = c
    BY <1>1
  <1> HIDE DEF k
  <1>3. frames[k].guess = GuessOf[c] /\ c \in Names
    BY <1>1, <1>2 DEF AgreeBase
  <1>4. Provisional(c) = frames[k].guess
    BY DEF Provisional, k
  <1>5. GuessOf[c] \in BOOLEAN
    BY <1>3, DecidedTypes DEF AgreeBase
  <1> QED
    BY <1>3, <1>4, <1>5 DEF OpenNames

(* A guess that is read is remembered. *)
LEMMA AgreeBackEdge ==
    ASSUME AgreeInv, BackEdge
    PROVE  AgreeInv'
  <1>1. /\ UNCHANGED <<doc, settled, frames, finished, revisions, types>>
        /\ guessed' = guessed \union {Wanted} /\ broken' = broken
        /\ answer' = Ty(Wanted, Provisional(Wanted), TRUE) /\ Open(Wanted)
    BY DEF BackEdge, context, graph
  <1>2. answer' # Failed /\ answer'.root = Wanted /\ answer'.null = Provisional(Wanted)
    BY <1>1 DEF Ty, Failed
  <1>3. /\ Wanted \in OpenNames /\ Provisional(Wanted) = GuessOf[Wanted]
        /\ GuessOf[Wanted] \in BOOLEAN
    BY <1>1, ProvisionalIs DEF AgreeInv
  <1>4. OpenNames' = OpenNames /\ GuessOf' = GuessOf
    <2>1. OpenNames' = OpenNames
      BY <1>1 DEF OpenNames, Open, IsAlias
    <2> QED
      BY <1>1, <2>1, GuessStays
  <1>5. <<answer'.root, answer'.null>> \in Said'
    BY <1>1, <1>2, <1>3, <1>4 DEF Said, OpenNames
  <1> QED
    BY <1>1, <1>2, <1>5, AgreeAnswer

(* A union that is another name of an open component answers for itself. *)
LEMMA AgreeAliasOfOpen ==
    ASSUME AgreeInv, AliasOfOpen
    PROVE  AgreeInv'
  <1>1. /\ UNCHANGED <<doc, settled, frames, finished, revisions, types>>
        /\ guessed \subseteq guessed' /\ broken' = broken
        /\ doc[Wanted].kind = "union" /\ Wanted \in Names
    BY DEF AliasOfOpen, Fresh, context, graph
  <1>2. answer' # Failed
    BY DEF AliasOfOpen, Ty, Failed
  <1>3. NamesUnion(doc, Wanted)
    BY <1>1, BodiesNameThemselves DEF NamesUnion
  <1>4. frames # <<>> => NamesUnion(doc, Ref.to)
    BY <1>3 DEF Wanted
  <1> QED
    BY <1>1, <1>2, <1>4, AgreeAnswer

(* A frame is opened for what the reference names. *)
LEMMA AgreePush ==
    ASSUME AgreeInv, NEW frame,
           UNCHANGED <<doc, settled, answer, finished, revisions, guessed, broken, types>>,
           answer = None,
           frames' = Append(frames, frame),
           frame.comp \in Names,
           doc[frame.comp].kind = "alias" => frame.next = 1,
           doc[frame.comp].kind # "alias" => frame.guess = GuessOf[frame.comp],
           frames # <<>> => Ref.to = frame.comp,
           AllSaid(doc, Said', frame.fields)
    PROVE  AgreeInv'
  <1>1. DecidedOf' = DecidedOf /\ GuessOf' = GuessOf
    BY DecidedStays, GuessStays
  <1>2. /\ IsStack(frames') /\ frames' # <<>>
        /\ Len(frames) \in Nat /\ DOMAIN frames = 1 .. Len(frames)
        /\ DOMAIN frames' = 1 .. Len(frames) + 1
        /\ frames'[Len(frames) + 1] = frame
        /\ \A i \in DOMAIN frames : i # Len(frames) + 1 /\ frames'[i] = frames[i]
        /\ \A i \in DOMAIN frames' : i \in DOMAIN frames \/ i = Len(frames) + 1
    BY Pushed DEF AgreeInv, AgreeBase
  <1>3. AgreeBase'
    <2>1. ASSUME NEW i \in DOMAIN frames'
          PROVE  /\ frames'[i].comp \in Names
                 /\ doc[frames'[i].comp].kind = "alias" => frames'[i].next = 1
                 /\ doc[frames'[i].comp].kind # "alias" =>
                      frames'[i].guess = GuessOf[frames'[i].comp]
      BY <1>2 DEF AgreeInv, AgreeBase
    <2> QED
      BY <1>1, <1>2, <2>1 DEF AgreeInv, AgreeBase
  <1>4. ASSUME SaidTruly PROVE SaidTruly'
    <2>1. Said \subseteq Said'
      <3>1. OpenNames \subseteq OpenNames'
        BY <1>2 DEF OpenNames, Open, IsAlias
      <3> QED
        BY <3>1, SaidStays
    <2>2. NestedFrames'
      <3> SUFFICES ASSUME NEW i \in DOMAIN frames', NEW j \in DOMAIN frames', j = i + 1
                   PROVE  doc[frames'[i].comp].refs[frames'[i].next].to = frames'[j].comp
        BY DEF NestedFrames
      <3>1. i \in DOMAIN frames
        BY <1>2
      <3>2. CASE j \in DOMAIN frames
        BY <1>2, <1>4, <3>1, <3>2 DEF SaidTruly, NestedFrames
      <3>3. CASE j = Len(frames) + 1
        <4>1. i = Len(frames) /\ frames # <<>>
          BY <1>2, <3>1, <3>3
        <4>2. Top = frames[i]
          BY <4>1 DEF Top, Last
        <4> QED
          BY <1>2, <3>1, <3>3, <4>1, <4>2 DEF Ref
      <3> QED
        BY <1>2, <3>2, <3>3
    <2>3. \A i \in DOMAIN frames' : AllSaid(doc, Said', frames'[i].fields)
      <3> TAKE i \in DOMAIN frames'
      <3>1. CASE i \in DOMAIN frames
        BY <1>2, <1>4, <2>1, <3>1, AllSaidStays DEF SaidTruly
      <3>2. CASE i = Len(frames) + 1
        BY <1>2, <3>2
      <3> QED
        BY <1>2, <3>1, <3>2
    <2>4. \A c \in DOMAIN types : AllSaid(doc, Said', types[c])
      BY <1>4, <2>1, AllSaidStays DEF SaidTruly
    <2>5. \A c \in DOMAIN finished :
            IF doc[c].kind = "alias"
            THEN NamesUnion(doc, c) \/ <<finished[c].root, finished[c].null>> \in Said'
            ELSE c \in Names /\ finished[c].root = c /\ finished[c].null = DecidedOf[c]
      BY <1>4, <2>1 DEF SaidTruly
    <2>6. answer'.kind # "type"
      BY NoType
    <2> QED
      BY <1>1, <2>2, <2>3, <2>4, <2>5, <2>6 DEF SaidTruly
  <1> QED
    BY <1>3, <1>4 DEF AgreeInv

(* An alias is followed, or a body opened. *)
LEMMA AgreeOpen ==
    ASSUME AgreeInv, FollowAlias \/ OpenBody
    PROVE  AgreeInv'
  <1>1. /\ UNCHANGED <<doc, settled, answer, finished, revisions, guessed, broken, types>>
        /\ answer = None /\ Wanted \in Names
    BY DEF FollowAlias, OpenBody, Reaching, Fresh, context, findings, graph
  <1>2. frames # <<>> => Ref.to = Wanted
    BY DEF Wanted
  <1>3. AllSaid(doc, Said', <<>>)
    BY NoFields DEF AllSaid
  <1>4. CASE FollowAlias
    <2> DEFINE frame == Frame(Wanted, FALSE, 1, <<>>)
    <2>1. frame.comp = Wanted /\ frame.next = 1 /\ frame.fields = <<>>
          /\ frames' = Append(frames, frame) /\ doc[Wanted].kind = "alias"
      BY <1>4 DEF FollowAlias, Frame, IsAlias
    <2> HIDE DEF frame
    <2> QED
      BY <1>1, <1>2, <1>3, <2>1, AgreePush
  <1>5. CASE OpenBody
    <2> DEFINE frame == Frame(Wanted, Guess(Wanted), 1, <<>>)
    <2>1. frame.comp = Wanted /\ frame.guess = Guess(Wanted) /\ frame.fields = <<>>
          /\ frames' = Append(frames, frame) /\ doc[Wanted].kind # "alias"
      BY <1>5 DEF OpenBody, Frame, IsAlias
    <2>2. frame.guess = GuessOf[Wanted]
      BY <1>1, <2>1, DecidedTypes
    <2> HIDE DEF frame
    <2> QED
      BY <1>1, <1>2, <1>3, <2>1, <2>2, AgreePush
  <1> QED
    BY <1>4, <1>5

(* A pass that failed says nothing. *)
LEMMA AgreeUnwind ==
    ASSUME AgreeInv, Unwind
    PROVE  AgreeInv'
  <1>1. UNCHANGED <<doc, settled, answer, revisions, broken, types>> /\ frames' = Front(frames)
        /\ frames # <<>> /\ answer = Failed
    BY DEF Unwind, context, graph
  <1>2. GuessOf' = GuessOf /\ DecidedOf' = DecidedOf
    BY <1>1, GuessStays, DecidedStays
  <1>3. /\ IsStack(frames')
        /\ \A i \in DOMAIN frames' : i \in DOMAIN frames /\ frames'[i] = frames[i]
    BY <1>1, Popped DEF AgreeInv, AgreeBase
  <1> QED
    BY <1>1, <1>2, <1>3 DEF AgreeInv, AgreeBase

(* A body goes on with other properties. *)
LEMMA AgreeContinue ==
    ASSUME AgreeInv, frames # <<>>, NEW fields, Continue(fields),
           UNCHANGED <<findings, graph>>,
           doc[Top.comp].kind # "alias",
           SaidTruly => AllSaid(doc, Said, fields)
    PROVE  AgreeInv'
  <1> DEFINE n == Len(frames)
  <1>1. /\ n \in DOMAIN frames /\ Top = frames[n] /\ n \in Nat /\ DOMAIN frames = 1 .. n
    BY Replaced DEF AgreeInv, AgreeBase, Top
  <1> DEFINE new == Frame(frames[n].comp, frames[n].guess, frames[n].next + 1, fields)
  <1>2. /\ UNCHANGED <<doc, settled, finished, revisions, guessed, broken, types>>
        /\ answer' = None
        /\ frames' = [frames EXCEPT ![n] = new]
    BY <1>1 DEF Continue, context, findings, graph
  <1>3. new.comp = frames[n].comp /\ new.guess = frames[n].guess /\ new.fields = fields
    BY DEF Frame
  <1> HIDE DEF new
  <1>4. /\ IsStack(frames') /\ DOMAIN frames' = DOMAIN frames /\ frames'[n] = new
        /\ \A i \in DOMAIN frames : i # n => frames'[i] = frames[i]
    BY <1>2, Replaced DEF AgreeInv, AgreeBase
  <1>5. DecidedOf' = DecidedOf /\ GuessOf' = GuessOf
    BY <1>2, DecidedStays, GuessStays
  <1> HIDE DEF n
  <1>6. ASSUME NEW i \in DOMAIN frames
        PROVE  /\ frames'[i].comp = frames[i].comp
               /\ frames'[i].guess = frames[i].guess
               /\ i # n => frames'[i] = frames[i]
    BY <1>3, <1>4
  <1>7. AgreeBase'
    <2>1. ASSUME NEW i \in DOMAIN frames'
          PROVE  /\ frames'[i].comp \in Names
                 /\ doc[frames'[i].comp].kind = "alias" => frames'[i].next = 1
                 /\ doc[frames'[i].comp].kind # "alias" =>
                      frames'[i].guess = GuessOf[frames'[i].comp]
      <3>1. CASE i = n
        BY <1>1, <1>4, <1>6, <3>1 DEF AgreeInv, AgreeBase
      <3>2. CASE i # n
        BY <1>4, <1>6, <3>2 DEF AgreeInv, AgreeBase
      <3> QED
        BY <3>1, <3>2
    <2>2. answer' # Failed
      BY <1>2 DEF None, Failed
    <2> QED
      BY <1>2, <1>4, <1>5, <2>1, <2>2 DEF AgreeInv, AgreeBase
  <1>8. ASSUME SaidTruly PROVE SaidTruly'
    <2>1. Said \subseteq Said'
      <3>1. OpenNames \subseteq OpenNames'
        BY <1>2, <1>4, <1>6 DEF OpenNames, Open, IsAlias
      <3> QED
        BY <1>2, <3>1, SaidStays
    <2>2. NestedFrames'
      <3> SUFFICES ASSUME NEW i \in DOMAIN frames', NEW j \in DOMAIN frames', j = i + 1
                   PROVE  doc[frames'[i].comp].refs[frames'[i].next].to = frames'[j].comp
        BY <1>2 DEF NestedFrames
      <3>1. i \in DOMAIN frames /\ j \in DOMAIN frames /\ i # n
        BY <1>1, <1>4 DEF n
      <3> QED
        BY <1>6, <1>8, <3>1 DEF SaidTruly, NestedFrames
    <2>3. \A i \in DOMAIN frames' : AllSaid(doc, Said', frames'[i].fields)
      <3> TAKE i \in DOMAIN frames'
      <3>1. CASE i = n
        BY <1>3, <1>4, <1>8, <2>1, <3>1, AllSaidStays
      <3>2. CASE i # n
        BY <1>4, <1>8, <2>1, <3>2, AllSaidStays DEF SaidTruly
      <3> QED
        BY <3>1, <3>2
    <2>4. \A c \in DOMAIN types : AllSaid(doc, Said', types[c])
      BY <1>8, <2>1, AllSaidStays DEF SaidTruly
    <2>5. \A c \in DOMAIN finished :
            IF doc[c].kind = "alias"
            THEN NamesUnion(doc, c) \/ <<finished[c].root, finished[c].null>> \in Said'
            ELSE c \in Names /\ finished[c].root = c /\ finished[c].null = DecidedOf[c]
      BY <1>8, <2>1 DEF SaidTruly
    <2>6. answer'.kind # "type"
      BY <1>2, NoType
    <2> QED
      BY <1>2, <1>5, <2>2, <2>3, <2>4, <2>5, <2>6 DEF SaidTruly
  <1> QED
    BY <1>2, <1>7, <1>8 DEF AgreeInv

(* An alias has one reference. *)
LEMMA AliasHolds ==
    ASSUME AgreeBase, frames # <<>>, doc[Top.comp].kind = "alias"
    PROVE  Top.comp \in Names /\ Top.next = 1 /\ Ref.use = "target" /\ Ref = doc[Top.comp].refs[1]
  <1>1. Len(frames) \in DOMAIN frames /\ Top = frames[Len(frames)]
    BY Popped DEF AgreeBase, Top
  <1>2. Top.comp \in Names /\ Top.next = 1
    BY <1>1 DEF AgreeBase
  <1>3. IsBody(doc[Top.comp])
    BY <1>2, LoweringAssumption DEF AgreeBase
  <1>4. doc[Top.comp].refs[1].use = "target"
    BY <1>3 DEF IsBody, Uses
  <1> QED
    BY <1>2, <1>4 DEF Ref

(* One property more; the properties of another body. *)
LEMMA AgreeAddField ==
    ASSUME AgreeInv, AddField
    PROVE  AgreeInv'
  <1>1. /\ frames # <<>> /\ answer.kind = "type" /\ Ref.use = "field"
        /\ Continue(Put(Top.fields, <<Top.comp, Top.next>>, answer))
        /\ UNCHANGED <<findings, graph>>
    BY DEF AddField, Answered
  <1>2. doc[Top.comp].kind # "alias"
    BY <1>1, AliasHolds DEF AgreeInv
  <1>3. ASSUME SaidTruly
        PROVE  AllSaid(doc, Said, Put(Top.fields, <<Top.comp, Top.next>>, answer))
    <2>1. Len(frames) \in DOMAIN frames /\ Top = frames[Len(frames)]
      BY <1>1, Popped DEF AgreeInv, AgreeBase, Top
    <2>2. AllSaid(doc, Said, Top.fields)
      BY <1>3, <2>1 DEF SaidTruly
    <2>3. NamesUnion(doc, Ref.to) \/ <<answer.root, answer.null>> \in Said
      BY <1>1, <1>3 DEF SaidTruly
    <2> DEFINE key == <<Top.comp, Top.next>>
    <2>4. key[1] = Top.comp /\ key[2] = Top.next
      OBVIOUS
    <2> HIDE DEF key
    <2>5. Ref = doc[key[1]].refs[key[2]]
      BY <2>4 DEF Ref
    <2>6. AllSaid(doc, Said, Put(Top.fields, key, answer))
      BY <2>2, <2>3, <2>5 DEF AllSaid, Put
    <2> QED
      BY <2>6 DEF key
  <1> QED
    BY <1>1, <1>2, <1>3, AgreeContinue

LEMMA AgreeTakeFields ==
    ASSUME AgreeInv, TakeFields
    PROVE  AgreeInv'
  <1>1. /\ frames # <<>> /\ doc[Top.comp].kind # "alias" /\ answer.root \in DOMAIN types
        /\ Continue(Merged(Top.fields, types[answer.root]))
        /\ UNCHANGED <<findings, graph>>
    BY DEF TakeFields, Answered, IsAlias
  <1>2. ASSUME SaidTruly
        PROVE  AllSaid(doc, Said, Merged(Top.fields, types[answer.root]))
    <2>1. Len(frames) \in DOMAIN frames /\ Top = frames[Len(frames)]
      BY <1>1, Popped DEF AgreeInv, AgreeBase, Top
    <2>2. AllSaid(doc, Said, Top.fields) /\ AllSaid(doc, Said, types[answer.root])
      BY <1>1, <1>2, <2>1 DEF SaidTruly
    <2> QED
      BY <2>2 DEF AllSaid, Merged
  <1> QED
    BY <1>1, <1>2, AgreeContinue

(* An alias is what it is another name of. *)
LEMMA AgreeChain ==
    ASSUME AgreeInv, Chain
    PROVE  AgreeInv'
  <1> DEFINE n == Len(frames)
             c == Top.comp
             entry == [root |-> answer.root, null |-> answer.null]
  <1>1. /\ UNCHANGED <<doc, settled, answer, revisions, guessed, broken, types>>
        /\ frames # <<>> /\ answer.kind = "type" /\ doc[c].kind = "alias"
        /\ frames' = Front(frames)
        /\ finished' = Put(finished, c, entry)
    BY DEF Chain, Answered, IsAlias, context, findings, graph
  <1>2. /\ IsStack(frames')
        /\ n \in DOMAIN frames /\ Top = frames[n] /\ n \in Nat /\ DOMAIN frames = 1 .. n
        /\ \A i \in DOMAIN frames' : i \in DOMAIN frames /\ i # n /\ frames'[i] = frames[i]
        /\ \A i \in DOMAIN frames : i \in DOMAIN frames' \/ i = n
        /\ frames' # <<>> => Last(frames') = frames[n - 1] /\ n - 1 \in DOMAIN frames
    BY <1>1, Popped DEF AgreeInv, AgreeBase, Top
  <1> HIDE DEF n
  <1>3. DecidedOf' = DecidedOf /\ GuessOf' = GuessOf
    BY <1>1, DecidedStays, GuessStays
  <1>4. AgreeBase'
    BY <1>1, <1>2, <1>3 DEF AgreeInv, AgreeBase
  <1>5. c \in Names /\ Ref = doc[c].refs[1]
    BY <1>1, AliasHolds DEF AgreeInv
  <1>6. /\ DOMAIN finished' = DOMAIN finished \union {c}
        /\ finished'[c] = entry
        /\ \A x \in DOMAIN finished : x # c => finished'[x] = finished[x]
    BY <1>1 DEF Put
  <1>7. entry.root = answer.root /\ entry.null = answer.null
    OBVIOUS
  <1> HIDE DEF c, entry
  <1>8. ASSUME SaidTruly PROVE SaidTruly'
    <2>1. Said \subseteq Said'
      <3>1. ASSUME NEW x \in OpenNames PROVE x \in OpenNames'
        <4>1. PICK i \in DOMAIN frames : frames[i].comp = x /\ doc[x].kind # "alias"
          BY <3>1 DEF OpenNames, Open, IsAlias
        <4>2. i # n
          BY <1>1, <1>2, <4>1 DEF c
        <4>3. i \in DOMAIN frames' /\ frames'[i] = frames[i]
          BY <1>2, <4>2
        <4> QED
          BY <1>1, <4>1, <4>3 DEF OpenNames, Open, IsAlias
      <3> QED
        BY <1>1, <1>6, <3>1, SaidStays
    <2>2. NamesUnion(doc, c) \/ <<answer.root, answer.null>> \in Said
      <3>1. NamesUnion(doc, Ref.to) => NamesUnion(doc, c)
        BY <1>1, <1>5, AliasNames
      <3> QED
        BY <1>1, <1>8, <3>1 DEF SaidTruly
    <2>3. NestedFrames'
      BY <1>1, <1>2, <1>8 DEF SaidTruly, NestedFrames
    <2>4. \A x \in DOMAIN finished' :
            IF doc[x].kind = "alias"
            THEN NamesUnion(doc, x) \/ <<finished'[x].root, finished'[x].null>> \in Said'
            ELSE x \in Names /\ finished'[x].root = x /\ finished'[x].null = DecidedOf[x]
      <3> TAKE x \in DOMAIN finished'
      <3>1. CASE x = c
        BY <1>1, <1>6, <1>7, <2>1, <2>2, <3>1 DEF c
      <3>2. CASE x # c
        BY <1>6, <1>8, <2>1, <3>2 DEF SaidTruly
      <3> QED
        BY <3>1, <3>2
    <2>5. ASSUME frames' # <<>>
          PROVE  NamesUnion(doc, Ref'.to) \/ <<answer.root, answer.null>> \in Said'
      <3>1. Top' = frames[n - 1] /\ n - 1 \in DOMAIN frames
        BY <1>2, <2>5 DEF Top
      <3>2. Ref' = doc[frames[n - 1].comp].refs[frames[n - 1].next]
        BY <1>1, <3>1 DEF Ref
      <3>3. n = (n - 1) + 1
        BY <1>2
      <3>4. Ref'.to = frames[n].comp
        BY <1>2, <1>8, <3>1, <3>2, <3>3 DEF SaidTruly, NestedFrames
      <3> QED
        BY <1>2, <2>1, <2>2, <3>4 DEF c
    <2>6. /\ \A i \in DOMAIN frames' : AllSaid(doc, Said', frames'[i].fields)
          /\ \A x \in DOMAIN types : AllSaid(doc, Said', types[x])
      BY <1>2, <1>8, <2>1, AllSaidStays DEF SaidTruly
    <2> QED
      BY <1>1, <1>3, <2>3, <2>4, <2>5, <2>6 DEF SaidTruly
  <1> QED
    BY <1>1, <1>4, <1>8 DEF AgreeInv

(* A body that decided otherwise than was guessed is remembered. *)
LEMMA AgreeFill ==
    ASSUME AgreeInv, Fill
    PROVE  AgreeInv'
  <1> DEFINE n == Len(frames)
             c == Top.comp
             null == DecidedNull(c)
             entry == [root |-> c, null |-> null]
             revision == [comp |-> c, null |-> null]
  <1>1. /\ UNCHANGED <<doc, settled, broken>>
        /\ frames # <<>> /\ answer = None
        /\ types' = Put(types, c, Top.fields)
        /\ frames' = Front(frames)
        /\ finished' = Put(finished, c, entry)
        /\ revisions' = IF c \in guessed /\ null # Top.guess
                        THEN revisions \union {revision} ELSE revisions
        /\ guessed' = guessed \ {c}
        /\ answer' = Ty(c, null, FALSE)
        /\ Top.next > Len(doc[c].refs)
    BY DEF Fill, context
  <1>2. /\ IsStack(frames')
        /\ n \in DOMAIN frames /\ Top = frames[n] /\ n \in Nat /\ DOMAIN frames = 1 .. n
        /\ \A i \in DOMAIN frames' : i \in DOMAIN frames /\ i # n /\ frames'[i] = frames[i]
        /\ \A i \in DOMAIN frames : i \in DOMAIN frames' \/ i = n
    BY <1>1, Popped DEF AgreeInv, AgreeBase, Top
  <1> HIDE DEF n
  <1>3. DecidedOf' = DecidedOf /\ GuessOf' = GuessOf
    BY <1>1, DecidedStays, GuessStays
  <1>4. c \in Names /\ null = DecidedOf[c] /\ null \in BOOLEAN
    <2>1. c \in Names
      BY <1>2 DEF AgreeInv, AgreeBase
    <2> QED
      BY <2>1, DecidedTypes
  <1>5. doc[c].kind # "alias"
    <2> SUFFICES ASSUME doc[c].kind = "alias" PROVE FALSE
      OBVIOUS
    <2>1. Top.next = 1
      BY <1>1, AliasHolds DEF AgreeInv
    <2>2. Len(doc[c].refs) = 1
      BY <1>4, LoweringAssumption DEF AgreeInv, AgreeBase, IsBody
    <2> QED
      BY <1>1, <2>1, <2>2
  <1>6. Top.guess = GuessOf[c]
    BY <1>2, <1>5 DEF AgreeInv, AgreeBase
  <1>7. /\ DOMAIN finished' = DOMAIN finished \union {c}
        /\ finished'[c] = entry
        /\ \A x \in DOMAIN finished : x # c => finished'[x] = finished[x]
    BY <1>1 DEF Put
  <1>8. /\ DOMAIN types' = DOMAIN types \union {c}
        /\ types'[c] = Top.fields
        /\ \A x \in DOMAIN types : x # c => types'[x] = types[x]
    BY <1>1 DEF Put
  <1>9. /\ entry.root = c /\ entry.null = null
        /\ revision.comp = c /\ revision.null = null
        /\ answer'.root = c /\ answer'.null = null /\ answer' # Failed
    BY <1>1 DEF Ty, Failed
  <1> HIDE DEF c, null, entry, revision
  <1>10. AgreeBase'
    <2>1. \A i \in DOMAIN frames' :
            /\ frames'[i].comp \in Names
            /\ doc[frames'[i].comp].kind = "alias" => frames'[i].next = 1
            /\ doc[frames'[i].comp].kind # "alias" =>
                      frames'[i].guess = GuessOf[frames'[i].comp]
      BY <1>2 DEF AgreeInv, AgreeBase
    <2>2. \A r \in revisions' :
            r.comp \in Names /\ r.comp \notin DOMAIN settled /\ r.null = DecidedOf[r.comp]
      <3> TAKE r \in revisions'
      <3>1. CASE r \in revisions
        BY <3>1 DEF AgreeInv, AgreeBase
      <3>2. CASE r = revision /\ null # Top.guess
        <4>1. c \in DOMAIN settled => GuessOf[c] = DecidedOf[c]
          BY <1>4 DEF AgreeInv, AgreeBase, GuessOf
        <4> QED
          BY <1>4, <1>6, <1>9, <3>2, <4>1
      <3> QED
        BY <1>1, <3>1, <3>2
    <2> QED
      BY <1>1, <1>2, <1>3, <1>9, <2>1, <2>2 DEF AgreeInv, AgreeBase
  <1>11. ASSUME SaidTruly PROVE SaidTruly'
    <2>1. Said \subseteq Said'
      <3>1. ASSUME NEW x \in OpenNames \intersect guessed
            PROVE  \/ x \in OpenNames' \intersect guessed'
                   \/ /\ x \in DOMAIN finished' /\ doc[x].kind # "alias"
                      /\ GuessOf[x] = DecidedOf[x] \/ x \in RevisedNames'
        <4>1. CASE x = c
          <5>1. null # Top.guess => revision \in revisions'
            BY <1>1, <4>1
          <5>2. null # Top.guess => c \in RevisedNames'
            BY <1>4, <1>9, <5>1 DEF RevisedNames, Revised
          <5> QED
            BY <1>4, <1>5, <1>6, <1>7, <4>1, <5>2
        <4>2. CASE x # c
          <5>1. PICK i \in DOMAIN frames : frames[i].comp = x /\ doc[x].kind # "alias"
            BY DEF OpenNames, Open, IsAlias
          <5>2. i # n
            BY <1>2, <4>2, <5>1 DEF c
          <5>3. i \in DOMAIN frames' /\ frames'[i] = frames[i]
            BY <1>2, <5>2
          <5>4. x \in OpenNames'
            BY <1>1, <5>1, <5>3 DEF OpenNames, Open, IsAlias
          <5> QED
            BY <1>1, <4>2, <5>4
        <4> QED
          BY <4>1, <4>2
      <3>2. DOMAIN finished \subseteq DOMAIN finished' /\ revisions \subseteq revisions'
        BY <1>1, <1>7
      <3> QED
        BY <1>1, <3>1, <3>2, SaidStays
    <2>2. <<c, null>> \in Said'
      BY <1>1, <1>3, <1>4, <1>5, <1>7 DEF Said
    <2>3. NestedFrames'
      BY <1>1, <1>2, <1>11 DEF SaidTruly, NestedFrames
    <2>4. \A x \in DOMAIN finished' :
            IF doc[x].kind = "alias"
            THEN NamesUnion(doc, x) \/ <<finished'[x].root, finished'[x].null>> \in Said'
            ELSE x \in Names /\ finished'[x].root = x /\ finished'[x].null = DecidedOf[x]
      <3> TAKE x \in DOMAIN finished'
      <3>1. CASE x = c
        BY <1>4, <1>5, <1>7, <1>9, <3>1
      <3>2. CASE x # c
        BY <1>7, <1>11, <2>1, <3>2 DEF SaidTruly
      <3> QED
        BY <3>1, <3>2
    <2>5. \A i \in DOMAIN frames' : AllSaid(doc, Said', frames'[i].fields)
      BY <1>2, <1>11, <2>1, AllSaidStays DEF SaidTruly
    <2>6. \A x \in DOMAIN types' : AllSaid(doc, Said', types'[x])
      <3> TAKE x \in DOMAIN types'
      <3>1. CASE x = c
        <4>1. AllSaid(doc, Said, Top.fields)
          BY <1>2, <1>11 DEF SaidTruly
        <4> QED
          BY <1>8, <2>1, <3>1, <4>1, AllSaidStays
      <3>2. CASE x # c
        BY <1>8, <1>11, <2>1, <3>2, AllSaidStays DEF SaidTruly
      <3> QED
        BY <3>1, <3>2
    <2> QED
      BY <1>1, <1>3, <1>9, <2>2, <2>3, <2>4, <2>5, <2>6 DEF SaidTruly
  <1> QED
    BY <1>1, <1>10, <1>11 DEF AgreeInv

(* A pass begins with what was decided. *)
LEMMA AgreeFresh ==
    ASSUME doc' \in Documents, IsStack(frames'), frames' = <<>>, answer' = None,
           finished' = <<>>, types' = <<>>, revisions' = {},
           \A c \in DOMAIN settled' : c \in Names /\ settled'[c] = DecidedOf'[c]
    PROVE  AgreeInv'
  <1>1. DOMAIN frames' = {} /\ DOMAIN finished' = {} /\ DOMAIN types' = {}
    BY NoFields
  <1>2. answer' # Failed /\ answer'.kind # "type"
    BY NoType DEF None, Failed
  <1>3. AgreeBase'
    BY <1>1, <1>2 DEF AgreeBase
  <1>4. SaidTruly'
    BY <1>1, <1>2 DEF SaidTruly, NestedFrames
  <1> QED
    BY <1>3, <1>4 DEF AgreeInv

(* No frames are a stack of frames. *)
LEMMA EmptyStack == IsStack(<<>>)
  BY DEF IsStack

LEMMA AgreeNewPass ==
    ASSUME AgreeInv, NextPass \/ Accept
    PROVE  AgreeInv'
  <1>1. /\ doc' = doc /\ frames' = <<>> /\ answer' = None /\ finished' = <<>> /\ types' = <<>>
        /\ revisions' = {}
    BY DEF NextPass, Accept, BeginPass
  <1>2. DecidedOf' = DecidedOf
    BY <1>1, DecidedStays
  <1>3. ASSUME NextPass, NEW c \in DOMAIN settled'
        PROVE  c \in Names /\ settled'[c] = DecidedOf[c]
    <2>1. settled' = Settled
      BY <1>3 DEF NextPass
    <2>2. CASE c \in DOMAIN settled
      BY <2>1, <2>2 DEF Settled, AgreeInv, AgreeBase
    <2>3. CASE c \notin DOMAIN settled
      <3> DEFINE R == {r \in revisions : r.comp = c}
                 s == CHOOSE r \in revisions : r.comp = c
      <3>1. \E r \in revisions : r.comp = c
        BY <1>3, <2>1, <2>3 DEF Settled
      <3>2. s \in revisions /\ s.comp = c
        BY <3>1
      <3>3. settled'[c] = s.null
        BY <1>3, <2>1, <2>3 DEF Settled
      <3> QED
        BY <3>2, <3>3 DEF AgreeInv, AgreeBase
    <2> QED
      BY <2>2, <2>3
  <1>4. ASSUME Accept
        PROVE  DOMAIN settled' = {}
    BY <1>4, NoFields DEF Accept
  <1>5. doc' \in Documents /\ IsStack(frames')
    BY <1>1, EmptyStack DEF AgreeInv, AgreeBase
  <1> QED
    BY <1>1, <1>2, <1>3, <1>4, <1>5, AgreeFresh

(* Every step keeps the invariant. *)
LEMMA AgreeInductive == Spec => []AgreeInv
  <1>1. Init => AgreeInv
    <2> SUFFICES ASSUME Init PROVE AgreeInv
      OBVIOUS
    <2>1. DOMAIN frames = {} /\ DOMAIN finished = {} /\ DOMAIN types = {} /\ DOMAIN settled = {}
      BY NoFields DEF Init
    <2>2. answer # Failed /\ answer.kind # "type" /\ IsStack(frames)
      BY NoType, EmptyStack DEF Init, None, Failed
    <2>3. AgreeBase
      BY <2>1, <2>2 DEF AgreeBase, Init
    <2>4. SaidTruly
      BY <2>1, <2>2 DEF SaidTruly, NestedFrames
    <2> QED
      BY <2>3, <2>4 DEF AgreeInv
  <1>2. AgreeInv /\ [Next]_vars => AgreeInv'
    <2> SUFFICES ASSUME AgreeInv, [Next]_vars PROVE AgreeInv'
      OBVIOUS
    <2>1. CASE UNCHANGED vars
      <3>1. /\ UNCHANGED <<doc, settled, frames, finished, revisions, types>>
            /\ UNCHANGED <<guessed, broken, answer>>
        BY <2>1 DEF vars, context, findings, graph
      <3>2. OpenNames' = OpenNames
        BY <3>1 DEF OpenNames, Open, IsAlias
      <3>3. Said \subseteq Said'
        BY <3>1, <3>2, SaidStays
      <3>4. answer = Failed => broken
        BY DEF AgreeInv, AgreeBase
      <3>5. ~ broken /\ answer.kind = "type" /\ frames # <<>> =>
               NamesUnion(doc, Ref.to) \/ <<answer.root, answer.null>> \in Said
        BY DEF AgreeInv, SaidTruly
      <3> QED
        BY <3>1, <3>3, <3>4, <3>5, AgreeAnswer
    <2>2. CASE Returned
      BY <2>1, <2>2 DEF Returned
    <2> QED
      BY <2>1, <2>2, AgreeFailing, AgreeIdle, AgreeUseFinished, AgreeBackEdge, AgreeAliasOfOpen,
         AgreeOpen, AgreeUnwind, AgreeAddField, AgreeTakeFields, AgreeChain, AgreeFill,
         AgreeNewPass DEF Next
  <1> QED
    BY <1>1, <1>2, PTL DEF Spec

(* In what lower returns, of any document in any order, no property that   *)
(* was typed by a guess says otherwise of its component than the component *)
(* itself, however long the cycle and however many aliases it leads        *)
(* through: every guess that was read and turned out wrong is settled for  *)
(* the pass after (provisional_nullability, settle_reservation, lower).    *)
THEOREM GuessesAgree == Spec => []BackEdgesAgree
  <1>1. AgreeInv => BackEdgesAgree
    <2> SUFFICES ASSUME AgreeInv, Decided, ~Stale, ~broken,
                        NEW c \in DOMAIN types, NEW p \in Plain(types[c])
                 PROVE  types[c][p].null = finished[types[c][p].root].null
      BY DEF BackEdgesAgree
    <2> DEFINE t == types[c][p]
    <2>1. SaidTruly /\ AgreeBase
      BY DEF AgreeInv
    <2>2. p \in DOMAIN types[c] /\ ~ NamesUnion(doc, doc[p[1]].refs[p[2]].to)
      BY DEF Plain, Property, NamesUnion
    <2>3. <<t.root, t.null>> \in Said
      BY <2>1, <2>2 DEF SaidTruly, AllSaid
    <2>4. OpenNames = {}
      <3>1. frames = <<>>
        BY DEF Decided, PassDone
      <3> QED
        BY <3>1, NoFields DEF OpenNames, Open
    <2>5. RevisedNames = {}
      <3>1. Settled = settled
        BY DEF Stale
      <3>2. \A r \in revisions : r.comp \in DOMAIN Settled
        BY DEF Settled
      <3> QED
        BY <2>1, <3>1, <3>2 DEF AgreeBase, RevisedNames, Revised
    <2>6. t.root \in DOMAIN finished /\ doc[t.root].kind # "alias" /\ t.null = DecidedOf[t.root]
      BY <2>3, <2>4, <2>5 DEF Said
    <2>7. finished[t.root].null = DecidedOf[t.root]
      BY <2>1, <2>6 DEF SaidTruly
    <2> QED
      BY <2>6, <2>7
  <1> QED
    BY <1>1, AgreeInductive, PTL
=============================================================================
