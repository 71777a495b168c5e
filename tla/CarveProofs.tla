---------------------------- MODULE CarveProofs ----------------------------
(***************************************************************************)
(* Theorems about Carve, for any document, any faults in it, any profile   *)
(* of the user's and any cap.                                              *)
(***************************************************************************)
EXTENDS Carve, FiniteSetTheorems, FunctionTheorems, WellFoundedInduction,
        TLAPS

-----------------------------------------------------------------------------
(* The collector. *)

IsBatch(b) ==
    /\ b = [items |-> b.items, cap |-> b.cap, errors |-> b.errors, capped |-> b.capped]
    /\ IsFiniteSet(b.items)
    /\ b.cap \in Nat /\ b.errors \in Nat /\ b.capped \in BOOLEAN
    /\ b.capped => Cardinality(b.items) + 1 > b.cap

(* A new batch is well formed and has no errors. *)
LEMMA NewBatchFacts ==
    ASSUME NEW cap \in Nat
    PROVE  /\ IsBatch(NewBatch(cap))
           /\ NewBatch(cap).items = {} /\ NewBatch(cap).errors = 0
           /\ NewBatch(cap).capped = FALSE
  BY FS_EmptySet DEF IsBatch, NewBatch

(* Emitting keeps a batch well formed, counts an error if and only if a    *)
(* new one comes, and marks the batch if and only if something was dropped.*)
LEMMA EmitFacts ==
    ASSUME NEW b, IsBatch(b), NEW D, IsFiniteSet(D), NEW c \in Emit(b, D)
    PROVE  /\ IsBatch(c)
           /\ b.items \subseteq c.items /\ c.items \subseteq b.items \union D
           /\ c.errors > 0 <=> b.errors > 0 \/ ErrorsIn(D \ b.items) # {}
           /\ c.capped <=> b.capped \/ c.items # b.items \union D
           /\ b.capped => c.items = b.items
  <1> DEFINE new == D \ b.items
  <1>1. PICK kept \in Retained(b, new) :
          c = [b EXCEPT !.items = @ \union kept,
                        !.errors = @ + Cardinality(ErrorsIn(new)),
                        !.capped = @ \/ kept # new]
    BY DEF Emit
  <1>2. /\ c = [items |-> b.items \union kept, cap |-> b.cap,
                errors |-> b.errors + Cardinality(ErrorsIn(new)),
                capped |-> (b.capped \/ kept # new)]
    BY <1>1 DEF IsBatch
  <1>3. IsFiniteSet(new) /\ kept \subseteq new /\ IsFiniteSet(kept)
    BY FS_Subset, FS_Difference DEF Retained
  <1>4. ErrorsIn(new) \subseteq new /\ IsFiniteSet(ErrorsIn(new))
    BY <1>3, FS_Subset DEF ErrorsIn
  <1>5. Cardinality(ErrorsIn(new)) \in Nat
        /\ (Cardinality(ErrorsIn(new)) = 0 <=> ErrorsIn(new) = {})
    BY <1>4, FS_CardinalityType, FS_EmptySet
  <1>6. c.errors > 0 <=> b.errors > 0 \/ ErrorsIn(new) # {}
    <2>1. c.errors = b.errors + Cardinality(ErrorsIn(new))
      BY <1>2
    <2>2. b.errors \in Nat
      BY DEF IsBatch
    <2> HIDE DEF new
    <2> QED
      BY <2>1, <2>2, <1>5
  <1>7. IsFiniteSet(c.items) /\ Cardinality(c.items) = Cardinality(b.items) + Cardinality(kept)
    <2>1. b.items \intersect kept = {}
      BY <1>3
    <2>2. IsFiniteSet(b.items \union kept)
          /\ Cardinality(b.items \union kept)
                = Cardinality(b.items) + Cardinality(kept) - Cardinality(b.items \intersect kept)
      BY <1>3, FS_Union DEF IsBatch
    <2>3. Cardinality(b.items \intersect kept) = 0
      BY <2>1, FS_EmptySet
    <2>4. Cardinality(b.items) \in Nat /\ Cardinality(kept) \in Nat
      BY <1>3, FS_CardinalityType DEF IsBatch
    <2> QED
      BY <2>2, <2>3, <2>4, <1>2
  <1>8. Cardinality(b.items) \in Nat /\ Cardinality(kept) \in Nat
    BY <1>3, FS_CardinalityType DEF IsBatch
  <1>9. ASSUME b.capped PROVE kept = {}
    <2>1. Cardinality(b.items) + Cardinality(kept) <= b.cap
      BY DEF Retained, Fits
    <2>2. Cardinality(kept) = 0
      BY <1>8, <1>9, <2>1 DEF IsBatch
    <2> QED
      BY <2>2, <1>3, FS_EmptySet
  <1>10. c.capped => Cardinality(c.items) + 1 > c.cap
    <2>1. CASE b.capped
      BY <2>1, <1>9, <1>2 DEF IsBatch
    <2>2. CASE kept # new
      <3>1. ~ (Cardinality(b.items) + (Cardinality(kept) + 1) <= b.cap)
        BY <2>2 DEF Retained, Fits
      <3> QED
        BY <3>1, <1>7, <1>8, <1>2 DEF IsBatch
    <2> QED
      BY <2>1, <2>2, <1>2
  <1>11. c.capped \in BOOLEAN /\ (c.capped <=> b.capped \/ kept # new)
    BY <1>2
  <1>12. kept # new <=> c.items # b.items \union D
    BY <1>2, <1>3
  <1>13. IsBatch(c)
    BY <1>2, <1>5, <1>7, <1>10, <1>11 DEF IsBatch
  <1>14. b.items \subseteq c.items /\ c.items \subseteq b.items \union D
    BY <1>2, <1>3
  <1>15. b.capped => c.items = b.items
    BY <1>2, <1>9
  <1> QED
    BY <1>6, <1>11, <1>12, <1>13, <1>14, <1>15

-----------------------------------------------------------------------------
(* The invariant. *)

(* The batch and the history of what was emitted into it agree. *)
ReportInv ==
    /\ IsBatch(batch)
    /\ IsFiniteSet(emitted)
    /\ batch.items \subseteq emitted
    /\ HasErrors(batch) <=> ErrorsIn(emitted) # {}
    /\ batch.capped <=> batch.items # emitted

(* What is known at each place: errors stop the run before it goes on.     *)
StageInv ==
    /\ pc = "start" /\ probing => round < MaxRounds
    /\ pc = "apply" => emitted = {} /\ todo = {} /\ visited = {} /\ found = {}
    /\ pc \in {"lower", "render"} => ~ HasErrors(batch)
    /\ pc = "carve" => HasErrors(batch)
    /\ pc # "done" => outcome = "none"
    /\ pc = "done" => outcome # "none" /\ (outcome = "Rejected" <=> HasErrors(batch))
    /\ pc = "render" \/ outcome \in {"Clean", "Generated"} =>
            FrontendErrors(run.flaw, doc) = {}

(* With a node the document has all that it lies in. *)
TreeInv == \A n \in doc : Above[n] \subseteq doc

IInv == TypeOK /\ ReportInv /\ StageInv /\ TreeInv /\ IsFiniteSet(omit)

(* Raising diagnostics keeps the report in step, and rejects if and only   *)
(* if one of them is an error.                                             *)
LEMMA RaiseFacts ==
    ASSUME ReportInv, NEW D, IsFiniteSet(D), Raise(D)
    PROVE  /\ ReportInv'
           /\ HasErrors(batch)' <=> HasErrors(batch) \/ ErrorsIn(D) # {}
  <1>1. /\ IsBatch(batch')
        /\ batch.items \subseteq batch'.items /\ batch'.items \subseteq batch.items \union D
        /\ batch'.errors > 0 <=> batch.errors > 0 \/ ErrorsIn(D \ batch.items) # {}
        /\ batch'.capped <=> batch.capped \/ batch'.items # batch.items \union D
        /\ batch.capped => batch'.items = batch.items
    BY EmitFacts DEF ReportInv, Raise
  <1>2. emitted' = emitted \union D /\ IsFiniteSet(emitted')
    BY FS_Union DEF ReportInv, Raise
  <1>3. ErrorsIn(D) # {} =>
            ErrorsIn(D \ batch.items) # {} \/ ErrorsIn(emitted) # {}
    BY DEF ErrorsIn, ReportInv
  <1>4. ErrorsIn(D \ batch.items) # {} => ErrorsIn(D) # {}
    BY DEF ErrorsIn
  <1>5. HasErrors(batch') <=> HasErrors(batch) \/ ErrorsIn(D) # {}
    BY <1>1, <1>3, <1>4 DEF HasErrors, ReportInv
  <1>6. ErrorsIn(emitted') = ErrorsIn(emitted) \union ErrorsIn(D)
    BY <1>2 DEF ErrorsIn
  <1>7. HasErrors(batch') <=> ErrorsIn(emitted') # {}
    BY <1>5, <1>6 DEF ReportInv
  <1>8. batch'.items \subseteq emitted'
    BY <1>1, <1>2 DEF ReportInv
  <1>9. batch'.capped <=> batch'.items # emitted'
    <2>1. CASE batch.capped
      BY <2>1, <1>1, <1>2 DEF ReportInv
    <2>2. CASE ~ batch.capped
      BY <2>2, <1>1, <1>2 DEF ReportInv
    <2> QED
      BY <2>1, <2>2
  <1> QED
    BY <1>1, <1>2, <1>5, <1>7, <1>8, <1>9 DEF ReportInv

(* An omit profile removes whole subtrees. *)
LEMMA LeftIsClosed ==
    ASSUME NEW rules
    PROVE  /\ LeftBy(rules) \subseteq Nodes
           /\ \A n \in LeftBy(rules) : Above[n] \subseteq LeftBy(rules)
  <1> DEFINE roots == UNION {r.targets : r \in rules}
  <1> SUFFICES ASSUME NEW n \in Nodes \ Under(roots), NEW m \in Above[n], m \in Under(roots)
               PROVE  FALSE
    BY TreeAssumption DEF LeftBy
  <1>1. PICK r \in roots \intersect Nodes : m \in Below[r]
    BY DEF Under
  <1>2. r \in Above[m] /\ m \in Nodes
    BY <1>1 DEF Below
  <1>3. r \in Above[n]
    BY <1>2, TreeAssumption
  <1> HIDE DEF roots
  <1>4. n \in Below[r]
    BY <1>1, <1>3 DEF Below
  <1>5. n \in Under(roots)
    BY <1>1, <1>4 DEF Under
  <1> QED
    BY <1>5

(* Errors lie in the document, and are traced to nodes of it. *)
LEMMA TracedInDocument ==
    ASSUME TreeInv, doc \subseteq Nodes
    PROVE  /\ \A flaw : FrontendErrors(flaw, doc) \subseteq doc
           /\ \A n \in doc : CarvedAt(doc, n) \subseteq doc
           /\ \A n \in doc : TracedBack(doc, n) \subseteq doc
  <1>1. \A flaw : FrontendErrors(flaw, doc) \subseteq doc
    BY DEF FrontendErrors, Reached
  <1>2. ASSUME NEW n \in doc PROVE CarvedAt(doc, n) \subseteq doc
    <2>1. Above[n] \subseteq doc
      BY DEF TreeInv
    <2>2. Enclosing[n] \subseteq Above[n]
      BY DEF Enclosing
    <2>3. \A t : MethodIn(t, n) \subseteq Above[n]
      BY DEF MethodIn
    <2> QED
      BY <2>1, <2>2, <2>3 DEF CarvedAt
  <1>3. ASSUME NEW n \in doc PROVE TracedBack(doc, n) \subseteq doc
    BY DEF TracedBack
  <1> QED
    BY <1>1, <1>2, <1>3

(* The image of a finite set is finite. *)
LEMMA FiniteImage ==
    ASSUME NEW S, IsFiniteSet(S), NEW T, NEW f \in [S -> T],
           \A t \in T : \E s \in S : f[s] = t
    PROVE  IsFiniteSet(T)
  BY Fun_IsSurj, FS_Surjection

(* What a profile emits is finite. *)
LEMMA FiniteApplyDiagnostics ==
    ASSUME NEW rules, IsFiniteSet(rules)
    PROVE  IsFiniteSet(ApplyDiagnostics(rules))
  <1> DEFINE omitted == {OmittedConstruct(p[1], p[2]) : p \in rules \X Nodes}
             invalid == {InvalidOmitRule(r) : r \in rules}
             root == {OmitCreatedInvalidDocument}
             all == (omitted \union invalid) \union root
  <1>1. IsFiniteSet(omitted)
    <2>1. IsFiniteSet(rules \X Nodes)
      BY FS_Product, TreeAssumption
    <2> DEFINE f == [p \in rules \X Nodes |-> OmittedConstruct(p[1], p[2])]
    <2>2. f \in [rules \X Nodes -> omitted]
      OBVIOUS
    <2>3. \A t \in omitted : \E s \in rules \X Nodes : f[s] = t
      OBVIOUS
    <2> HIDE DEF f, omitted
    <2> QED
      BY <2>1, <2>2, <2>3, FiniteImage
  <1>2. IsFiniteSet(invalid)
    <2> DEFINE f == [r \in rules |-> InvalidOmitRule(r)]
    <2>1. f \in [rules -> invalid] /\ \A t \in invalid : \E s \in rules : f[s] = t
      OBVIOUS
    <2> HIDE DEF f, invalid
    <2> QED
      BY <2>1, FiniteImage
  <1>3. IsFiniteSet(root)
    BY FS_Singleton
  <1>4. ApplyDiagnostics(rules) \subseteq all
    <2>1. ASSUME NEW r \in rules, NEW n \in r.targets \intersect LeftFor(r, rules)
          PROVE  OmittedConstruct(r, n) \in omitted
      <3>1. <<r, n>> \in rules \X Nodes
        BY DEF LeftFor
      <3> QED
        BY <3>1
    <2>2. \A r \in rules : InvalidOmitRule(r) \in invalid
      OBVIOUS
    <2>4. OmittedBy(rules) \subseteq omitted
      <3> HIDE DEF omitted
      <3> QED
        BY <2>1 DEF OmittedBy
    <2>5. InvalidRules(rules) \subseteq invalid
      <3> HIDE DEF invalid
      <3> QED
        BY <2>2 DEF InvalidRules
    <2>6. RootCheck(rules) \subseteq root
      BY DEF RootCheck
    <2> HIDE DEF omitted, invalid, root
    <2> QED
      BY <2>4, <2>5, <2>6 DEF ApplyDiagnostics
  <1> HIDE DEF omitted, invalid, root
  <1>5. IsFiniteSet(all)
    BY <1>1, <1>2, <1>3, FS_Union
  <1> QED
    BY <1>4, <1>5, FS_Subset

(* What a stage emits is finite, and has an error if there is a node it    *)
(* rejects.                                                                *)
LEMMA FiniteRejections ==
    ASSUME NEW errors \in SUBSET Nodes
    PROVE  /\ IsFiniteSet({Rejection(n) : n \in errors})
           /\ ErrorsIn({Rejection(n) : n \in errors}) # {} <=> errors # {}
  <1> DEFINE D == {Rejection(n) : n \in errors}
             f == [n \in errors |-> Rejection(n)]
  <1>1. IsFiniteSet(errors)
    BY TreeAssumption, FS_Subset
  <1>2. f \in [errors -> D] /\ \A t \in D : \E s \in errors : f[s] = t
    OBVIOUS
  <1>3. ErrorsIn(D) = D
    <2>1. \A n : Rejection(n).error = TRUE
      BY DEF Rejection
    <2> QED
      BY <2>1 DEF ErrorsIn
  <1>5. D # {} <=> errors # {}
    OBVIOUS
  <1> HIDE DEF f, D
  <1>4. IsFiniteSet(D)
    BY <1>1, <1>2, FiniteImage
  <1> QED
    BY <1>3, <1>4, <1>5 DEF D

LEMMA InputErrorFacts == IsFiniteSet({InvalidInput}) /\ ErrorsIn({InvalidInput}) # {}
  <1>1. InvalidInput.error = TRUE
    BY DEF InvalidInput
  <1>2. InvalidInput \in ErrorsIn({InvalidInput})
    BY <1>1 DEF ErrorsIn
  <1> QED
    BY <1>2, FS_Singleton

(* The rules of a profile stay finitely many. *)
LEMMA FiniteRules ==
    /\ \A r \in Inputs : IsFiniteSet(UserRules(r.user))
    /\ \A k : \A nodes \in SUBSET Nodes : IsFiniteSet(CarvedRules(k, nodes))
  <1>1. ASSUME NEW r \in Inputs PROVE IsFiniteSet(UserRules(r.user))
    <2> DEFINE T == UserRules(r.user)
               f == [i \in DOMAIN r.user |-> [round |-> 0, at |-> i, targets |-> r.user[i]]]
    <2>1. f \in [DOMAIN r.user -> T] /\ \A t \in T : \E s \in DOMAIN r.user : f[s] = t
      BY DEF UserRules
    <2>2. IsFiniteSet(DOMAIN r.user)
      BY InputAssumption
    <2> HIDE DEF f, T
    <2> QED
      BY <2>1, <2>2, FiniteImage DEF T
  <1>2. ASSUME NEW k, NEW nodes \in SUBSET Nodes
        PROVE  IsFiniteSet(CarvedRules(k, nodes))
    <2> DEFINE T == CarvedRules(k, nodes)
               f == [n \in nodes |-> [round |-> k, at |-> Text[n], targets |-> {n}]]
    <2>1. f \in [nodes -> T] /\ \A t \in T : \E s \in nodes : f[s] = t
      BY DEF CarvedRules
    <2>2. IsFiniteSet(nodes)
      BY TreeAssumption, FS_Subset
    <2> HIDE DEF f, T
    <2> QED
      BY <2>1, <2>2, FiniteImage DEF T
  <1> QED
    BY <1>1, <1>2

-----------------------------------------------------------------------------
(* The invariant is inductive. *)

LEMMA MaxRoundsFacts == MaxRounds \in Nat /\ MaxRounds > 0
  BY TreeAssumption

LEMMA InitIInv == Init => IInv
  <1> SUFFICES ASSUME Init PROVE IInv
    OBVIOUS
  <1>1. /\ run \in Inputs /\ run.carve \in BOOLEAN /\ run.cap \in Nat
    BY InputAssumption DEF Init
  <1>2. IsBatch(batch) /\ batch.items = {} /\ batch.errors = 0 /\ batch.capped = FALSE
    BY <1>1, NewBatchFacts DEF Init
  <1>3. TypeOK
    <2>1. batch.errors \in Nat /\ batch.capped \in BOOLEAN
      BY <1>2 DEF IsBatch
    <2>2. round \in 0 .. MaxRounds
      BY MaxRoundsFacts DEF Init
    <2> QED
      BY <1>1, <2>1, <2>2 DEF Init, TypeOK
  <1>4. ReportInv
    BY <1>2, FS_EmptySet DEF Init, ReportInv, HasErrors, ErrorsIn
  <1>5. StageInv
    BY MaxRoundsFacts DEF Init, StageInv
  <1>6. TreeInv
    BY TreeAssumption DEF Init, TreeInv
  <1>7. IsFiniteSet(omit)
    BY <1>1, FiniteRules DEF Init
  <1> QED
    BY <1>3, <1>4, <1>5, <1>6, <1>7 DEF IInv

LEMMA NextIInv == IInv /\ [Next]_vars => IInv'
  <1> SUFFICES ASSUME IInv, [Next]_vars PROVE IInv'
    OBVIOUS
  <1> USE DEF IInv
  <1>0. run.carve \in BOOLEAN /\ run.cap \in Nat /\ run.flaw \in [Nodes -> 0 .. 2]
    BY InputAssumption DEF TypeOK
  <1>1. CASE Load
    <2>1. /\ IsBatch(batch') /\ batch'.items = {} /\ batch'.errors = 0
          /\ batch'.capped = FALSE
      BY <1>0, <1>1, NewBatchFacts, UnboundedAssumption DEF Load
    <2>2. TypeOK'
      <3>1. round' \in 0 .. MaxRounds
        <4>1. CASE ~ probing
          BY <4>1, <1>1 DEF Load, TypeOK
        <4>2. CASE probing
          BY <4>2, <1>1, MaxRoundsFacts DEF Load, TypeOK, StageInv
        <4> QED
          BY <4>1, <4>2
      <3>2. batch'.errors \in Nat /\ batch'.capped \in BOOLEAN
        BY <2>1 DEF IsBatch
      <3> QED
        BY <1>1, <3>1, <3>2 DEF Load, TypeOK
    <2>3. ReportInv'
      BY <1>1, <2>1, FS_EmptySet DEF Load, ReportInv, HasErrors, ErrorsIn
    <2>4. StageInv'
      BY <1>1 DEF Load, StageInv
    <2>5. TreeInv' /\ IsFiniteSet(omit')
      BY <1>1, TreeAssumption DEF Load, TreeInv
    <2> QED
      BY <2>2, <2>3, <2>4, <2>5
  <1>2. CASE LoadFails
    <2>1. IsFiniteSet({InvalidInput}) /\ ErrorsIn({InvalidInput}) # {}
      BY InputErrorFacts
    <2>2. ReportInv' /\ HasErrors(batch')
      BY <1>2, <2>1, RaiseFacts DEF LoadFails
    <2>3. TypeOK'
      BY <1>2, <2>2 DEF LoadFails, Finish, TypeOK, carver, ReportInv, IsBatch
    <2>4. StageInv'
      BY <1>2, <2>2 DEF LoadFails, Finish, StageInv
    <2>5. TreeInv' /\ IsFiniteSet(omit')
      BY <1>2 DEF LoadFails, TreeInv
    <2> QED
      BY <2>2, <2>3, <2>4, <2>5
  <1>3. CASE ApplyProfile
    <2>1. ReportInv'
      BY <1>3, FiniteApplyDiagnostics, RaiseFacts DEF ApplyProfile
    <2>2. doc' \subseteq Nodes /\ TreeInv'
      BY <1>3, LeftIsClosed DEF ApplyProfile, TreeInv
    <2>3. IsFiniteSet(omit') /\ batch'.errors \in Nat /\ batch'.capped \in BOOLEAN
      BY <1>3, <2>1 DEF ApplyProfile, ReportInv, IsBatch
    <2>4. TypeOK' /\ StageInv'
      <3>1. CASE HasErrors(batch')
        BY <1>3, <2>2, <2>3, <3>1 DEF ApplyProfile, Finish, TypeOK, StageInv, carver
      <3>2. CASE ~ HasErrors(batch')
        BY <1>3, <2>2, <2>3, <3>2 DEF ApplyProfile, Finish, TypeOK, StageInv, carver
      <3> QED
        BY <3>1, <3>2
    <2> QED
      BY <2>1, <2>2, <2>3, <2>4
  <1>4. CASE LowerBundle
    <2> DEFINE errors == FrontendErrors(run.flaw, doc)
    <2>1. errors \subseteq doc /\ errors \in SUBSET Nodes
      BY TracedInDocument DEF TypeOK
    <2>2. Raise({Rejection(n) : n \in errors})
      BY <1>4 DEF LowerBundle
    <2>3. ~ HasErrors(batch) /\ outcome = "none"
      BY <1>4 DEF LowerBundle, StageInv
    <2>4. ReportInv' /\ (HasErrors(batch') <=> errors # {})
      <3> HIDE DEF errors
      <3>1. /\ IsFiniteSet({Rejection(n) : n \in errors})
            /\ ErrorsIn({Rejection(n) : n \in errors}) # {} <=> errors # {}
        BY <2>1, FiniteRejections
      <3> QED
        BY <2>2, <2>3, <3>1, RaiseFacts
    <2>5. batch'.errors \in Nat /\ batch'.capped \in BOOLEAN
      BY <2>4 DEF ReportInv, IsBatch
    <2>6. /\ run' = run /\ round' = round /\ omit' = omit /\ doc' = doc
          /\ visited' = visited /\ found' = found
      BY <1>4 DEF LowerBundle
    <2>7. TreeInv' /\ IsFiniteSet(omit')
      BY <2>6 DEF TreeInv
    <2>8. TypeOK' /\ StageInv'
      <3>1. CASE HasErrors(batch')
        <4>1. /\ IF probing THEN pc' = "carve" /\ UNCHANGED outcome
                 ELSE Finish("Rejected")
              /\ todo' = IF probing THEN errors ELSE {}
              /\ UNCHANGED probing
          BY <1>4, <3>1 DEF LowerBundle
        <4> HIDE DEF errors
        <4> QED
          BY <2>1, <2>3, <2>5, <2>6, <3>1, <4>1 DEF TypeOK, StageInv, Finish
      <3>2. CASE ~ HasErrors(batch')
        <4>1. /\ IF probing THEN pc' = "start" /\ UNCHANGED outcome
                 ELSE IF run.mode = "Preview"
                 THEN pc' = "render" /\ UNCHANGED outcome
                 ELSE Finish("Clean")
              /\ probing' = FALSE
              /\ UNCHANGED todo
          BY <1>4, <3>2 DEF LowerBundle
        <4>2. errors = {} /\ FrontendErrors(run.flaw, doc)' = {}
          BY <2>4, <2>6, <3>2
        <4> HIDE DEF errors
        <4> QED
          BY <2>3, <2>5, <2>6, <3>2, <4>1, <4>2 DEF TypeOK, StageInv, Finish
      <3> QED
        BY <3>1, <3>2
    <2> QED
      BY <2>4, <2>7, <2>8
  <1>5. CASE \E n \in Nodes : CarveAt(n)
    <2>1. PICK n \in Nodes : CarveAt(n)
      BY <1>5
    <2>2. n \in doc
      BY <2>1 DEF CarveAt, TypeOK
    <2>3. CarvedAt(doc, n) \subseteq doc /\ TracedBack(doc, n) \subseteq doc
      BY <2>2, TracedInDocument DEF TypeOK
    <2>4. TypeOK'
      BY <2>1, <2>2, <2>3 DEF CarveAt, TypeOK
    <2>5. ReportInv' /\ StageInv' /\ TreeInv' /\ IsFiniteSet(omit')
      BY <2>1 DEF CarveAt, ReportInv, StageInv, TreeInv
    <2> QED
      BY <2>4, <2>5
  <1>6. CASE EndRound
    <2>1. IsFiniteSet(omit')
      <3>1. NewConstructs \in SUBSET Nodes
        BY DEF NewConstructs, TypeOK
      <3> QED
        BY <1>6, <3>1, FiniteRules, FS_Union DEF EndRound
    <2>2. TypeOK'
      BY <1>6 DEF EndRound, Finish, TypeOK, carver
    <2>3. ReportInv' /\ TreeInv'
      BY <1>6 DEF EndRound, ReportInv, TreeInv
    <2>4. StageInv'
      <3>1. CASE NewConstructs = {} \/ round = MaxRounds
        BY <1>6, <3>1 DEF EndRound, Finish, StageInv
      <3>2. CASE ~ (NewConstructs = {} \/ round = MaxRounds)
        <4>1. round' < MaxRounds
          BY <1>6, <3>2, MaxRoundsFacts DEF EndRound, TypeOK
        <4> QED
          BY <1>6, <3>2, <4>1 DEF EndRound, StageInv
      <3> QED
        BY <3>1, <3>2
    <2> QED
      BY <2>1, <2>2, <2>3, <2>4
  <1>7. CASE Render
    BY <1>7 DEF Render, Finish, TypeOK, ReportInv, StageInv, TreeInv, carver
  <1>8. CASE RenderFails
    <2>1. IsFiniteSet({InvalidInput}) /\ ErrorsIn({InvalidInput}) # {}
      BY InputErrorFacts
    <2>2. ReportInv' /\ HasErrors(batch')
      BY <1>8, <2>1, RaiseFacts DEF RenderFails
    <2>3. TypeOK'
      BY <1>8, <2>2 DEF RenderFails, Finish, TypeOK, carver, ReportInv, IsBatch
    <2>4. StageInv'
      BY <1>8, <2>2 DEF RenderFails, Finish, StageInv
    <2>5. TreeInv' /\ IsFiniteSet(omit')
      BY <1>8 DEF RenderFails, TreeInv
    <2> QED
      BY <2>2, <2>3, <2>4, <2>5
  <1>9. CASE Ended \/ UNCHANGED vars
    BY <1>9 DEF Ended, vars, carver, TypeOK, ReportInv, StageInv, TreeInv
  <1> QED
    BY <1>1, <1>2, <1>3, <1>4, <1>5, <1>6, <1>7, <1>8, <1>9 DEF Next

(* The state is well formed, and what is traced and carved in a round lies *)
(* in the document that round was run on.                                  *)
THEOREM CarveTypeCorrect == Spec => []TypeOK
  <1>1. IInv => TypeOK
    BY DEF IInv
  <1> QED
    BY <1>1, InitIInv, NextIInv, PTL DEF Spec

(* Nothing is rendered, or found clean, with an error in it or a reference *)
(* to what was omitted: whatever the profile, the faults, and the cap.     *)
THEOREM OutputHasNoErrorLeft == Spec => []OutputIsSound
  <1>1. IInv => OutputIsSound
    <2> SUFFICES ASSUME IInv, outcome \in {"Clean", "Generated"}, NEW n \in Reached(doc)
                 PROVE  run.flaw[n] = 0 /\ Refs[n] \subseteq doc
      BY DEF OutputIsSound
    <2>1. FrontendErrors(run.flaw, doc) = {}
      BY DEF IInv, StageInv
    <2>2. n \in doc /\ n \in Nodes /\ run.flaw[n] \in 0 .. 2
      BY InputAssumption DEF IInv, TypeOK, Reached
    <2>3. run.flaw[n] # 1 /\ run.flaw[n] # 2 /\ n \notin Dangling(doc)
      BY <2>1 DEF FrontendErrors
    <2> QED
      BY <2>2, <2>3 DEF Dangling
  <1> QED
    BY <1>1, InitIInv, NextIInv, PTL DEF Spec

(* A run is rejected if and only if an error was emitted, also one that    *)
(* was dropped at the cap, and a report that lacks something says so.      *)
THEOREM ReportsAreHonest == Spec => []HonestReport
  <1>1. IInv => HonestReport
    BY DEF IInv, ReportInv, StageInv, HonestReport
  <1> QED
    BY <1>1, InitIInv, NextIInv, PTL DEF Spec

-----------------------------------------------------------------------------
(* The rules of a profile, in the order they are applied. *)

CarvedRule(k, c) == [round |-> k, at |-> Text[c], targets |-> {c}]

RulesInv ==
    /\ \A r \in omit : \/ r \in UserRules(run.user)
                       \/ \E k \in Nat \ {0}, c \in Nodes : r = CarvedRule(k, c)
    /\ pc \in {"start", "apply", "lower", "carve"} /\ probing =>
            \A r \in omit : r.round <= round
    /\ pc \in {"apply", "lower", "carve"} /\ probing =>
            /\ round > 0
            /\ \A r \in omit : r.round < round
    /\ pc \in {"lower", "carve"} => doc = LeftBy(omit)
    /\ pc = "carve" => probing

(* No rule carved removes what an earlier rule has removed already. *)
MatchInv ==
    /\ \A r, s \in omit : r.round > 0 /\ Before(s, r) =>
            r.targets \intersect Under(s.targets) = {} \/ Overtaken(r)
    /\ \A d \in emitted : d.code = "E019" =>
            d.by \in omit /\ (d.by.round = 0 \/ Overtaken(d.by))

LEMMA RuleRounds ==
    ASSUME RulesInv, NEW r \in omit
    PROVE  /\ r.round \in Nat
           /\ r.round > 0 => \E k \in Nat \ {0}, c \in Nodes : r = CarvedRule(k, c)
  <1>1. CASE r \in UserRules(run.user)
    <2>1. PICK i \in DOMAIN run.user :
                r = [round |-> 0, at |-> i, targets |-> run.user[i]]
      BY <1>1, Zenon DEF UserRules
    <2>2. r.round = 0
      BY <2>1
    <2> QED
      BY <2>2
  <1>2. CASE \E k \in Nat \ {0}, c \in Nodes : r = CarvedRule(k, c)
    <2>1. PICK k \in Nat \ {0}, c \in Nodes : r = CarvedRule(k, c)
      BY <1>2
    <2>2. r.round = k
      BY <2>1 DEF CarvedRule
    <2> QED
      BY <1>2, <2>2
  <1> QED
    BY <1>1, <1>2 DEF RulesInv

(* What is left by a profile is under no target of it. *)
LEMMA LeftIsUntouched ==
    ASSUME NEW rules, NEW r \in rules, NEW n \in LeftBy(rules)
    PROVE  n \notin Under(r.targets) /\ n \notin r.targets
  <1>1. n \in Nodes /\ n \notin Under(UNION {s.targets : s \in rules})
    BY DEF LeftBy
  <1>2. Under(r.targets) \subseteq Under(UNION {s.targets : s \in rules})
    BY DEF Under
  <1>3. n \in r.targets => n \in Under(r.targets)
    BY <1>1, TreeAssumption DEF Under, Below
  <1> QED
    BY <1>1, <1>2, <1>3

LEMMA InitRules == Init => RulesInv /\ MatchInv
  <1> SUFFICES ASSUME Init PROVE RulesInv /\ MatchInv
    OBVIOUS
  <1>1. \A r \in omit : r.round = 0
    BY DEF Init, UserRules
  <1> QED
    BY <1>1 DEF Init, RulesInv, MatchInv

LEMMA NextRules == IInv /\ RulesInv /\ [Next]_vars => RulesInv'
  <1> SUFFICES ASSUME IInv, RulesInv, [Next]_vars PROVE RulesInv'
    OBVIOUS
  <1>0. \A r \in omit : r.round \in Nat
    BY RuleRounds
  <1>1. CASE Load
    <2>1. round \in Nat
      BY MaxRoundsFacts DEF IInv, TypeOK
    <2> QED
      BY <1>0, <1>1, <2>1 DEF Load, RulesInv
  <1>2. CASE LoadFails
    BY <1>2 DEF LoadFails, Finish, RulesInv
  <1>3. CASE ApplyProfile
    BY <1>3, <1>0 DEF ApplyProfile, Finish, RulesInv, carver
  <1>4. CASE LowerBundle
    BY <1>4, <1>0 DEF LowerBundle, Finish, RulesInv
  <1>5. CASE \E n \in Nodes : CarveAt(n)
    BY <1>5 DEF CarveAt, RulesInv
  <1>6. CASE EndRound
    <2>1. round \in Nat /\ round > 0 /\ NewConstructs \subseteq Nodes
      BY <1>6, MaxRoundsFacts DEF EndRound, IInv, TypeOK, RulesInv, NewConstructs
    <2>2. \A r \in CarvedRules(round, NewConstructs) :
            \E c \in Nodes : r = CarvedRule(round, c)
      BY <2>1 DEF CarvedRules, CarvedRule
    <2>3. \A r \in CarvedRules(round, NewConstructs) : r.round = round
      BY DEF CarvedRules
    <2>4. \A r \in omit : r.round <= round
      BY <1>6 DEF EndRound, RulesInv
    <2>5. omit' = omit \union CarvedRules(round, NewConstructs)
          /\ round' = round /\ run' = run /\ pc' \in {"start", "done"}
      BY <1>6 DEF EndRound, Finish
    <2>6. \A r \in omit' : \/ r \in UserRules(run.user)
                           \/ \E k \in Nat \ {0}, c \in Nodes : r = CarvedRule(k, c)
      BY <2>1, <2>2, <2>5 DEF RulesInv
    <2>7. \A r \in omit' : r.round <= round
      BY <2>1, <2>3, <2>4, <2>5
    <2> QED
      BY <2>5, <2>6, <2>7 DEF RulesInv
  <1>7. CASE Render \/ RenderFails
    BY <1>7 DEF Render, RenderFails, Finish, RulesInv
  <1>8. CASE Ended \/ UNCHANGED vars
    BY <1>8 DEF Ended, vars, RulesInv
  <1> QED
    BY <1>1, <1>2, <1>3, <1>4, <1>5, <1>6, <1>7, <1>8 DEF Next

(* A carved rule that is not overtaken finds its construct.                *)
LEMMA CarvedRuleMatches ==
    ASSUME RulesInv, MatchInv, NEW r \in omit, r.round > 0, ~ Overtaken(r)
    PROVE  ~ MatchesNothing(r, omit)
  <1>1. PICK k \in Nat \ {0}, c \in Nodes : r = CarvedRule(k, c)
    BY RuleRounds
  <1>2. r.targets = {c}
    BY <1>1 DEF CarvedRule
  <1> DEFINE earlier == {q \in omit : Before(q, r)}
  <1>3. \A s \in earlier : c \notin Under(s.targets)
    BY <1>2 DEF MatchInv
  <1>4. c \notin Under(UNION {s.targets : s \in earlier})
    BY <1>3 DEF Under
  <1>5. c \in LeftFor(r, omit)
    BY <1>4 DEF LeftFor
  <1> QED
    BY <1>2, <1>5 DEF MatchesNothing

LEMMA OvertakenStays ==
    ASSUME omit \subseteq omit', NEW r, Overtaken(r)
    PROVE  Overtaken(r)'
  BY DEF Overtaken

LEMMA NextMatch == IInv /\ RulesInv /\ MatchInv /\ [Next]_vars => MatchInv'
  <1> SUFFICES ASSUME IInv, RulesInv, MatchInv, [Next]_vars PROVE MatchInv'
    OBVIOUS
  <1>0. \A d : d.code = "E011" \/ d.code = "flaw" => d.code # "E019"
    OBVIOUS
  <1>1. CASE Load
    BY <1>1 DEF Load, MatchInv, Overtaken
  <1>2. CASE LoadFails \/ RenderFails
    BY <1>2 DEF LoadFails, RenderFails, Raise, InvalidInput, MatchInv, Overtaken
  <1>3. CASE ApplyProfile
    <2>1. emitted' = emitted \union ApplyDiagnostics(omit) /\ omit' = omit
      BY <1>3 DEF ApplyProfile, Raise
    <2>2. ASSUME NEW d \in ApplyDiagnostics(omit), d.code = "E019"
          PROVE  d.by \in omit /\ (d.by.round = 0 \/ Overtaken(d.by))
      <3>1. d \in InvalidRules(omit)
        <4>1. d \notin OmittedBy(omit)
          BY <2>2 DEF OmittedBy, OmittedConstruct
        <4>2. d \notin RootCheck(omit)
          BY <2>2 DEF RootCheck, OmitCreatedInvalidDocument
        <4> QED
          BY <4>1, <4>2 DEF ApplyDiagnostics
      <3>2. PICK r \in omit : d = InvalidOmitRule(r) /\ MatchesNothing(r, omit)
        BY <3>1 DEF InvalidRules
      <3>3. d.by = r
        BY <3>2 DEF InvalidOmitRule
      <3>4. r.round \in Nat /\ (~ r.round > 0 \/ Overtaken(r))
        BY <3>2, CarvedRuleMatches, RuleRounds
      <3> QED
        BY <3>2, <3>3, <3>4
    <2> QED
      BY <2>1, <2>2 DEF MatchInv, Overtaken
  <1>4. CASE LowerBundle
    <2>1. omit' = omit
          /\ emitted' = emitted \union {Rejection(n) : n \in FrontendErrors(run.flaw, doc)}
      BY <1>4 DEF LowerBundle, Raise
    <2> QED
      BY <2>1 DEF MatchInv, Overtaken, Rejection
  <1>5. CASE \E n \in Nodes : CarveAt(n)
    BY <1>5 DEF CarveAt, MatchInv, Overtaken
  <1>6. CASE EndRound
    <2> DEFINE new == CarvedRules(round, NewConstructs)
    <2>1. omit' = omit \union new /\ emitted' = emitted
      BY <1>6 DEF EndRound
    <2>2. /\ doc = LeftBy(omit) /\ NewConstructs \subseteq doc /\ doc \subseteq Nodes
          /\ \A r \in omit : r.round < round /\ r.round \in Nat
          /\ round \in Nat
      BY <1>6, RuleRounds, MaxRoundsFacts
      DEF EndRound, RulesInv, NewConstructs, IInv, TypeOK
    <2>3. ASSUME NEW r \in omit', NEW s \in omit', r.round > 0, Before(s, r)
          PROVE  r.targets \intersect Under(s.targets) = {} \/ Overtaken(r)'
      <3>1. CASE r \in omit /\ s \in omit
        BY <2>1, <2>3, <3>1, OvertakenStays DEF MatchInv
      <3>2. CASE r \in omit /\ s \in new
        <4>1. s.round = round /\ r.round < round /\ r.round \in Nat
          BY <2>2, <3>2 DEF CarvedRules
        <4> QED
          BY <2>2, <2>3, <4>1 DEF Before
      <3>3. CASE r \in new /\ s \in omit
        <4>1. PICK c \in NewConstructs : r.targets = {c}
          BY <3>3 DEF CarvedRules
        <4>2. c \notin Under(s.targets)
          BY <2>2, <3>3, <4>1, LeftIsUntouched
        <4> QED
          BY <4>1, <4>2
      <3>4. CASE r \in new /\ s \in new
        <4>1. PICK c \in NewConstructs :
                r.targets = {c} /\ r.round = round /\ r.at = Text[c]
          BY <3>4 DEF CarvedRules
        <4>2. PICK d \in NewConstructs :
                s.targets = {d} /\ s.round = round /\ s.at = Text[d]
          BY <3>4 DEF CarvedRules
        <4>3. Text[d] < Text[c] /\ Text[c] \in Nat /\ Text[d] \in Nat
          BY <2>2, <2>3, <4>1, <4>2, TreeAssumption DEF Before
        <4>4. c \in Under({d}) => d \in Above[c]
          BY <2>2 DEF Under, Below
        <4>5. d \in Above[c] /\ d # c => Overtaken(r)'
          BY <2>3, <4>1, <4>2, <4>3 DEF Overtaken
        <4> QED
          BY <4>1, <4>2, <4>3, <4>4, <4>5
      <3> QED
        BY <2>1, <3>1, <3>2, <3>3, <3>4
    <2> QED
      BY <2>1, <2>3, OvertakenStays DEF MatchInv
  <1>7. CASE Render \/ Ended \/ UNCHANGED vars
    BY <1>7 DEF Render, Ended, vars, MatchInv, Overtaken
  <1> QED
    BY <1>1, <1>2, <1>3, <1>4, <1>5, <1>6, <1>7 DEF Next

(* No round finds what a rule has removed: carving always makes progress,  *)
(* and cannot run into its bound but on a document that has as many        *)
(* constructs.                                                             *)
THEOREM CarvingProgresses == Spec => []RoundsProgress
  <1>1. IInv /\ RulesInv => RoundsProgress
    BY LeftIsUntouched DEF IInv, TypeOK, RulesInv, RoundsProgress
  <1> QED
    BY <1>1, InitIInv, NextIInv, InitRules, NextRules, PTL DEF Spec

(* For any document, also one with operations whose rules come after that  *)
(* of their path: a carved rule fails only when it was overtaken.          *)
THEOREM CarvedRulesFindTheirs == Spec => []CarvedRulesMatch
  <1>1. MatchInv => CarvedRulesMatch
    BY DEF MatchInv, CarvedRulesMatch, InvalidOmitRule
  <1>2. IInv /\ RulesInv /\ MatchInv /\ [Next]_vars => MatchInv'
    BY NextMatch
  <1> QED
    BY <1>1, <1>2, InitIInv, NextIInv, InitRules, NextRules, PTL DEF Spec

-----------------------------------------------------------------------------
(* Closure. *)

(* Induction up to a number, for a set of numbers: the theorems of the     *)
(* library that take a predicate cannot be instantiated by these provers,  *)
(* WFMin can.                                                              *)
LEMMA IntervalInduction ==
    ASSUME NEW m \in Nat, NEW S, 0 \in S,
           \A n \in 0 .. m : n \in S /\ n < m => n + 1 \in S
    PROVE  0 .. m \subseteq S
  <1> DEFINE T == {n \in 0 .. m : n \notin S}
  <1>1. SUFFICES ASSUME T # {} PROVE FALSE
    OBVIOUS
  <1>2. T \subseteq Nat
    OBVIOUS
  <1>3. PICK x \in T : \A y \in T : ~ (<<y, x>> \in OpToRel(<, Nat))
    <2> HIDE DEF T
    <2> QED
      BY <1>1, <1>2, NatLessThanWellFounded, WFMin
  <1>4. \A y \in T : ~ (y < x)
    <2> HIDE DEF T
    <2> QED
      BY <1>2, <1>3, Zenon DEF OpToRel
  <1>5. x # 0 /\ x - 1 \in 0 .. m /\ x - 1 < m /\ x - 1 < x /\ (x - 1) + 1 = x
    OBVIOUS
  <1>6. x - 1 \in S
    BY <1>4, <1>5
  <1> QED
    BY <1>5, <1>6

Leading == [Nodes -> SUBSET Nodes]

Grown(set, step) == UNION {{n} \union step[n] : n \in set}

Closed(set, step) == \A n \in set : step[n] \subseteq set

(* The sets that `Closure` goes through. *)
Within(from, step, f, m) ==
    f = [i \in 0 .. m |-> IF i = 0 THEN from ELSE Grown(f[i - 1], step)]

(* The function by which it is defined exists, so it is the one chosen. *)
LEMMA WithinExists ==
    ASSUME NEW from, NEW step, NEW m \in Nat
    PROVE  \E f : Within(from, step, f, m)
  <1> DEFINE S == {n \in 0 .. m : \E f : Within(from, step, f, n)}
  <1>1. 0 \in S
    <2> DEFINE g == [i \in 0 .. 0 |-> from]
    <2>1. Within(from, step, g, 0)
      BY DEF Within
    <2> QED
      BY <2>1
  <1>2. ASSUME NEW n \in 0 .. m, n \in S, n < m
        PROVE  n + 1 \in S
    <2>1. PICK f : Within(from, step, f, n)
      BY <1>2
    <2> DEFINE g == [i \in 0 .. n + 1 |-> IF i \in 0 .. n THEN f[i] ELSE Grown(f[n], step)]
    <2>2. ASSUME NEW i \in 0 .. n + 1
          PROVE  g[i] = IF i = 0 THEN from ELSE Grown(g[i - 1], step)
      <3>1. CASE i \in 0 .. n
        <4>1. f[i] = IF i = 0 THEN from ELSE Grown(f[i - 1], step)
          BY <2>1, <3>1 DEF Within
        <4>2. i # 0 => i - 1 \in 0 .. n /\ g[i - 1] = f[i - 1]
          BY <3>1
        <4> QED
          BY <3>1, <4>1, <4>2
      <3>2. CASE i = n + 1
        <4>1. g[i] = Grown(f[n], step) /\ g[i - 1] = f[n] /\ i # 0
          BY <3>2
        <4> QED
          BY <4>1
      <3> QED
        BY <3>1, <3>2
    <2>3. Within(from, step, g, n + 1)
      <3>1. g = [i \in 0 .. n + 1 |-> g[i]]
        OBVIOUS
      <3> HIDE DEF g
      <3> QED
        BY <2>2, <3>1 DEF Within
    <2>4. n + 1 \in 0 .. m
      BY <1>2
    <2> QED
      BY <2>3, <2>4
  <1>3. 0 .. m \subseteq S
    <2> HIDE DEF S
    <2> QED
      BY <1>1, <1>2, IntervalInduction
  <1> QED
    BY <1>3

LEMMA ClosureIs ==
    ASSUME NEW from, NEW step
    PROVE  \E f : /\ Within(from, step, f, Cardinality(Nodes))
                  /\ Closure(from, step) = f[Cardinality(Nodes)]
  <1> DEFINE m == Cardinality(Nodes)
             f == CHOOSE g : Within(from, step, g, m)
  <1>1. m \in Nat
    BY TreeAssumption, FS_CardinalityType
  <1>2. Within(from, step, f, m)
    BY <1>1, WithinExists
  <1>3. Closure(from, step) = f[m]
    BY DEF Closure, Within, Grown
  <1> QED
    BY <1>2, <1>3

LEMMA NodesCount ==
    /\ Cardinality(Nodes) \in Nat
    /\ \A S \in SUBSET Nodes : /\ IsFiniteSet(S)
                               /\ Cardinality(S) \in 0 .. Cardinality(Nodes)
  BY TreeAssumption, FS_CardinalityType, FS_Subset

(* What is reached holds where it began, is closed, and is the least such: *)
(* it cannot grow in every one of as many steps as there are nodes.        *)
LEMMA ClosureFacts ==
    ASSUME NEW from \in SUBSET Nodes, NEW step \in Leading
    PROVE  /\ from \subseteq Closure(from, step)
           /\ Closure(from, step) \subseteq Nodes
           /\ Closed(Closure(from, step), step)
           /\ \A S : from \subseteq S /\ Closed(S, step) => Closure(from, step) \subseteq S
  <1> DEFINE m == Cardinality(Nodes)
  <1>1. PICK f : Within(from, step, f, m) /\ Closure(from, step) = f[m]
    BY ClosureIs
  <1>2. m \in Nat
    BY NodesCount
  <1>3. f[0] = from /\ \A i \in 0 .. m : i < m => f[i + 1] = Grown(f[i], step)
    <2>1. \A i \in 0 .. m : f[i] = IF i = 0 THEN from ELSE Grown(f[i - 1], step)
      BY <1>1 DEF Within
    <2>2. \A i \in 0 .. m : i < m => i + 1 \in 0 .. m /\ i + 1 # 0 /\ (i + 1) - 1 = i
      BY <1>2
    <2> HIDE DEF m
    <2> QED
      BY <1>2, <2>1, <2>2
  <1>4. \A i \in 0 .. m : f[i] \subseteq Nodes /\ from \subseteq f[i]
    <2> DEFINE S == {i \in 0 .. m : f[i] \subseteq Nodes /\ from \subseteq f[i]}
    <2>1. 0 \in S
      BY <1>2, <1>3
    <2>2. ASSUME NEW i \in 0 .. m, i \in S, i < m PROVE i + 1 \in S
      <3>1. f[i + 1] = Grown(f[i], step) /\ f[i] \subseteq Nodes /\ from \subseteq f[i]
        BY <1>3, <2>2
      <3>2. Grown(f[i], step) \subseteq Nodes /\ f[i] \subseteq Grown(f[i], step)
        BY <3>1 DEF Grown, Leading
      <3>3. i + 1 \in 0 .. m
        BY <1>2, <2>2
      <3> QED
        BY <3>1, <3>2, <3>3
    <2>3. 0 .. m \subseteq S
      <3> HIDE DEF S, m
      <3> QED
        BY <1>2, <2>1, <2>2, IntervalInduction
    <2> QED
      BY <2>3
  <1>5. \A i \in 0 .. m : Closed(f[i], step) \/ Cardinality(f[i]) > i
    <2> DEFINE S == {i \in 0 .. m : Closed(f[i], step) \/ Cardinality(f[i]) > i}
    <2>1. 0 \in S
      <3>1. CASE from = {}
        BY <1>2, <1>3, <3>1 DEF Closed
      <3>2. CASE from # {}
        <4>1. Cardinality(from) \in Nat /\ Cardinality(from) # 0
          BY <3>2, NodesCount, FS_EmptySet
        <4> QED
          BY <1>2, <1>3, <4>1
      <3> QED
        BY <3>1, <3>2
    <2>2. ASSUME NEW i \in 0 .. m, i \in S, i < m PROVE i + 1 \in S
      <3>0. i + 1 \in 0 .. m
        BY <1>2, <2>2
      <3>1. f[i + 1] = Grown(f[i], step) /\ f[i] \subseteq Nodes /\ f[i + 1] \subseteq Nodes
        BY <1>3, <1>4, <2>2, <3>0
      <3>2. CASE Closed(f[i], step)
        <4>1. Grown(f[i], step) = f[i]
          BY <3>2 DEF Grown, Closed
        <4> QED
          BY <3>0, <3>1, <3>2, <4>1
      <3>3. CASE ~ Closed(f[i], step)
        <4>1. f[i] \subseteq f[i + 1] /\ f[i] # f[i + 1]
          BY <3>1, <3>3 DEF Grown, Closed
        <4>2. Cardinality(f[i]) < Cardinality(f[i + 1])
          BY <3>1, <4>1, NodesCount, FS_Subset
        <4>3. Cardinality(f[i]) > i /\ Cardinality(f[i]) \in Nat /\ Cardinality(f[i + 1]) \in Nat
          BY <2>2, <3>1, <3>3, NodesCount
        <4>4. Cardinality(f[i + 1]) > i + 1
          BY <4>2, <4>3
        <4> QED
          BY <3>0, <4>4
      <3> QED
        BY <3>2, <3>3
    <2>3. 0 .. m \subseteq S
      <3> HIDE DEF S, m
      <3> QED
        BY <1>2, <2>1, <2>2, IntervalInduction
    <2> QED
      BY <2>3
  <1>6. Closed(f[m], step)
    <2>1. m \in 0 .. m /\ ~ Cardinality(f[m]) > m
      BY <1>2, <1>4, NodesCount
    <2> QED
      BY <1>5, <2>1
  <1>7. ASSUME NEW T, from \subseteq T, Closed(T, step)
        PROVE  f[m] \subseteq T
    <2> DEFINE S == {i \in 0 .. m : f[i] \subseteq T}
    <2>1. 0 \in S
      BY <1>2, <1>3, <1>7
    <2>2. ASSUME NEW i \in 0 .. m, i \in S, i < m PROVE i + 1 \in S
      <3>1. f[i + 1] = Grown(f[i], step) /\ f[i] \subseteq T /\ i + 1 \in 0 .. m
        BY <1>2, <1>3, <2>2
      <3>2. Grown(f[i], step) \subseteq T
        BY <1>7, <3>1 DEF Grown, Closed
      <3> QED
        BY <3>1, <3>2
    <2>3. 0 .. m \subseteq S
      <3> HIDE DEF S, m
      <3> QED
        BY <1>2, <2>1, <2>2, IntervalInduction
    <2> QED
      BY <1>2, <2>3
  <1>8. m \in 0 .. m
    BY <1>2
  <1> QED
    BY <1>1, <1>4, <1>6, <1>7, <1>8

-----------------------------------------------------------------------------
(* Carving. *)

Reading == [n \in Nodes |-> ReadFrom(n)]

Back == [n \in Nodes |-> TracedBack(doc, n)]

ErrorsLeft == FrontendErrors(run.flaw, doc)

(* While a round carves, what it visited, with what it is still to visit,  *)
(* is what its errors are traced to, or will be; and from all of it one of *)
(* them can be read.                                                       *)
CarverInv ==
    /\ pc \in {"apply", "lower"} => todo = {} /\ visited = {} /\ found = {}
    /\ pc = "carve" =>
        /\ ErrorsLeft # {}
        /\ \A e \in ErrorsLeft : Rejection(e) \in emitted
        /\ ErrorsLeft \subseteq visited \union todo
        /\ visited \union todo \subseteq Traced(ErrorsLeft)
        /\ \A n \in visited : TracedBack(doc, n) \subseteq visited \union todo
        /\ found = UNION {CarvedAt(doc, n) : n \in visited}
        /\ \A n \in visited \union todo :
                \E e \in ErrorsLeft : e \in Closure({n}, Reading)

(* What a probe could lower, the run can. *)
ProbedInv ==
    run.carve /\ ~ probing /\ pc \in {"start", "apply", "lower"} =>
        FrontendErrors(run.flaw, LeftBy(omit)) = {}

LEMMA StepsLead == Reading \in Leading /\ (doc \subseteq Nodes => Back \in Leading)
  <1>1. \A n : ReadFrom(n) \subseteq Nodes
    BY DEF ReadFrom
  <1>2. \A n : TracedBack(doc, n) \subseteq doc
    BY DEF TracedBack
  <1> QED
    BY <1>1, <1>2 DEF Reading, Back, Leading

(* From where an error is traced to it can be read. *)
LEMMA TracedReads ==
    ASSUME doc \subseteq Nodes, NEW n \in Nodes, NEW s \in TracedBack(doc, n)
    PROVE  s \in Nodes /\ n \in ReadFrom(s)
  BY DEF TracedBack, ReadFrom, Reads

LEMMA ReadsOnward ==
    ASSUME NEW s \in Nodes, NEW n \in Nodes, n \in ReadFrom(s)
    PROVE  Closure({n}, Reading) \subseteq Closure({s}, Reading)
  <1> DEFINE C == Closure({s}, Reading)
  <1>1. s \in C /\ Closed(C, Reading)
    BY StepsLead, ClosureFacts
  <1>2. n \in C
    BY <1>1 DEF Closed, Reading
  <1>3. {n} \subseteq C /\ {n} \in SUBSET Nodes
    BY <1>2
  <1> HIDE DEF C
  <1>4. Closure({n}, Reading) \subseteq C
    BY <1>1, <1>3, StepsLead, ClosureFacts
  <1> QED
    BY <1>4 DEF C

LEMMA FlawFacts ==
    ASSUME NEW flaw, NEW present, NEW n \in FrontendErrors(flaw, present)
    PROVE  flaw[n] # 0 \/ ~ Refs[n] \subseteq present
  BY DEF FrontendErrors, Dangling

(* A construct that is carved for `n` reads it. *)
LEMMA CarvedReads ==
    ASSUME NEW present, NEW n \in Nodes, NEW c \in CarvedAt(present, n)
    PROVE  n \in Own(c) /\ Own(c) \subseteq Nodes
  <1>1. Own(c) \subseteq Nodes
    BY DEF Own, Under, Below
  <1>2. c \in Above[n] /\ c \in Nodes /\ n \in Under({c})
    <2>1. c \in Above[n]
      BY DEF CarvedAt, Enclosing, MethodIn
    <2>2. c \in Nodes
      BY <2>1, TreeAssumption
    <2> QED
      BY <2>1, <2>2 DEF Under, Below
  <1>3. CASE c \in Enclosing[n]
    <2>1. Kind[c] # "method"
      BY <1>3 DEF Enclosing, Constructs
    <2> QED
      BY <1>1, <1>3, <2>1 DEF Own
  <1>4. CASE c \notin Enclosing[n]
    <2>1. Kind[c] = "method"
      BY <1>4 DEF CarvedAt, MethodIn
    <2> QED
      BY <1>1, <1>2, <2>1 DEF Own
  <1> QED
    BY <1>3, <1>4

LEMMA TracedFacts ==
    ASSUME doc \subseteq Nodes, NEW from \in SUBSET Nodes
    PROVE  /\ from \subseteq Traced(from)
           /\ Traced(from) \subseteq Nodes
           /\ \A n \in Traced(from) : TracedBack(doc, n) \subseteq Traced(from)
           /\ \A S : from \subseteq S /\ (\A n \in S : n \in Nodes /\ TracedBack(doc, n) \subseteq S)
                    => Traced(from) \subseteq S
  <1>1. Traced(from) = Closure(from, Back)
    BY DEF Traced, Back
  <1>2. Back \in Leading
    BY StepsLead
  <1>3. /\ from \subseteq Traced(from) /\ Traced(from) \subseteq Nodes
        /\ Closed(Traced(from), Back)
        /\ \A S : from \subseteq S /\ Closed(S, Back) => Traced(from) \subseteq S
    BY <1>1, <1>2, ClosureFacts
  <1> QED
    BY <1>3 DEF Closed, Back

(* Looking at a node keeps it. *)
LEMMA CarveAtStep ==
    ASSUME IInv, CarverInv, NEW n \in Nodes, CarveAt(n)
    PROVE  CarverInv'
  <1>1. /\ pc = "carve" /\ n \in todo /\ pc' = pc /\ doc' = doc /\ run' = run
        /\ emitted' = emitted
        /\ visited' = visited \union {n}
        /\ found' = found \union CarvedAt(doc, n)
        /\ todo' = (todo \union TracedBack(doc, n)) \ visited'
    BY DEF CarveAt
  <1>2. ErrorsLeft' = ErrorsLeft /\ Traced(ErrorsLeft)' = Traced(ErrorsLeft)
    BY <1>1 DEF ErrorsLeft, Traced
  <1>3. doc \subseteq Nodes /\ todo \subseteq doc /\ visited \subseteq doc
    BY DEF IInv, TypeOK
  <1>4. ErrorsLeft \in SUBSET Nodes
    BY <1>3, TracedInDocument DEF IInv, ErrorsLeft
  <1>5. visited' \union todo' = (visited \union todo) \union TracedBack(doc, n)
    BY <1>1
  <1>6. TracedBack(doc, n) \subseteq Traced(ErrorsLeft)
    BY <1>1, <1>3, <1>4, TracedFacts DEF CarverInv
  <1>7. \A s \in TracedBack(doc, n) : \E e \in ErrorsLeft : e \in Closure({s}, Reading)
    <2> TAKE s \in TracedBack(doc, n)
    <2>1. PICK e \in ErrorsLeft : e \in Closure({n}, Reading)
      BY <1>1 DEF CarverInv
    <2>2. Closure({n}, Reading) \subseteq Closure({s}, Reading)
      BY <1>3, TracedReads, ReadsOnward
    <2> QED
      BY <2>1, <2>2
  <1>8. found' = UNION {CarvedAt(doc, k) : k \in visited'}
    BY <1>1 DEF CarverInv
  <1>9. \A k \in visited' : TracedBack(doc, k) \subseteq visited' \union todo'
    BY <1>1, <1>5 DEF CarverInv
  <1>10. ErrorsLeft \subseteq visited' \union todo'
    BY <1>1, <1>5 DEF CarverInv
  <1>11. visited' \union todo' \subseteq Traced(ErrorsLeft)
    BY <1>1, <1>5, <1>6 DEF CarverInv
  <1>12. \A k \in visited' \union todo' : \E e \in ErrorsLeft : e \in Closure({k}, Reading)
    BY <1>1, <1>5, <1>7 DEF CarverInv
  <1>13. ErrorsLeft # {} /\ \A e \in ErrorsLeft : Rejection(e) \in emitted'
    BY <1>1 DEF CarverInv
  <1> QED
    BY <1>1, <1>2, <1>8, <1>9, <1>10, <1>11, <1>12, <1>13 DEF CarverInv

LEMMA LowerStep ==
    ASSUME IInv, CarverInv, LowerBundle
    PROVE  CarverInv'
  <1>1. /\ pc = "lower" /\ doc' = doc /\ run' = run /\ visited' = visited /\ found' = found
        /\ visited = {} /\ found = {}
        /\ Raise({Rejection(n) : n \in ErrorsLeft})
    BY DEF LowerBundle, CarverInv, ErrorsLeft
  <1>2. ErrorsLeft' = ErrorsLeft
    BY <1>1 DEF ErrorsLeft
  <1>3. pc' \notin {"apply", "lower"}
    BY DEF LowerBundle, Finish
  <1>4. CASE pc' # "carve"
    BY <1>3, <1>4 DEF CarverInv
  <1>5. CASE pc' = "carve"
    <2>1. todo' = ErrorsLeft /\ HasErrors(batch')
      BY <1>1, <1>5 DEF LowerBundle, Finish, ErrorsLeft
    <2>2. ErrorsLeft \in SUBSET Nodes
      BY TracedInDocument DEF IInv, TypeOK, ErrorsLeft
    <2>3. ErrorsLeft # {}
      <3>1. ~ HasErrors(batch) /\ ReportInv
        BY <1>1 DEF IInv, StageInv
      <3>2. /\ IsFiniteSet({Rejection(n) : n \in ErrorsLeft})
            /\ ErrorsIn({Rejection(n) : n \in ErrorsLeft}) # {} <=> ErrorsLeft # {}
        BY <2>2, FiniteRejections
      <3>3. HasErrors(batch') <=> HasErrors(batch) \/ ErrorsIn({Rejection(n) : n \in ErrorsLeft}) # {}
        BY <1>1, <3>1, <3>2, RaiseFacts
      <3> QED
        BY <2>1, <3>1, <3>2, <3>3
    <2>4. \A e \in ErrorsLeft : Rejection(e) \in emitted'
      BY <1>1 DEF Raise
    <2>5. doc \subseteq Nodes
      BY DEF IInv, TypeOK
    <2>6. ErrorsLeft \subseteq Traced(ErrorsLeft)
      BY <2>2, <2>5, TracedFacts
    <2>7. Traced(ErrorsLeft)' = Traced(ErrorsLeft)
      BY <1>1, <1>2 DEF Traced
    <2>8. \A n \in ErrorsLeft : n \in Closure({n}, Reading)
      BY <2>2, StepsLead, ClosureFacts
    <2>9. found' = UNION {CarvedAt(doc, n) : n \in visited'}
      BY <1>1
    <2> QED
      BY <1>1, <1>2, <1>3, <2>1, <2>3, <2>4, <2>6, <2>7, <2>8, <2>9 DEF CarverInv
  <1> QED
    BY <1>4, <1>5

LEMMA NextCarver == IInv /\ CarverInv /\ [Next]_vars => CarverInv'
  <1> SUFFICES ASSUME IInv, CarverInv, [Next]_vars PROVE CarverInv'
    OBVIOUS
  <1>1. CASE Load
    BY <1>1 DEF Load, CarverInv
  <1>2. CASE LoadFails \/ EndRound \/ Render \/ RenderFails
    BY <1>2 DEF LoadFails, EndRound, Render, RenderFails, Finish, CarverInv
  <1>3. CASE ApplyProfile
    BY <1>3 DEF ApplyProfile, Finish, carver, CarverInv
  <1>4. CASE Ended \/ UNCHANGED vars
    BY <1>4 DEF Ended, vars, carver, CarverInv, ErrorsLeft, Traced
  <1> QED
    BY <1>1, <1>2, <1>3, <1>4, LowerStep, CarveAtStep DEF Next

(* When nothing is left to look at, all that the errors are traced to was. *)
LEMMA AllVisited ==
    ASSUME IInv, CarverInv, pc = "carve", todo = {}
    PROVE  /\ visited = Traced(ErrorsLeft)
           /\ \A e \in ErrorsLeft : Traced({e}) \subseteq visited
  <1>1. doc \subseteq Nodes /\ visited \subseteq Nodes
    BY DEF IInv, TypeOK
  <1>2. ErrorsLeft \in SUBSET Nodes
    BY TracedInDocument DEF IInv, TypeOK, ErrorsLeft
  <1>3. /\ ErrorsLeft \subseteq visited /\ visited \subseteq Traced(ErrorsLeft)
        /\ \A n \in visited : n \in Nodes /\ TracedBack(doc, n) \subseteq visited
    BY <1>1 DEF CarverInv
  <1>4. Traced(ErrorsLeft) \subseteq visited
    BY <1>1, <1>2, <1>3, TracedFacts
  <1>5. ASSUME NEW e \in ErrorsLeft PROVE Traced({e}) \subseteq visited
    BY <1>1, <1>2, <1>3, TracedFacts
  <1> QED
    BY <1>3, <1>4, <1>5

(* Whatever order the errors of a round are looked at in, it finds the     *)
(* same: all that they are traced to, also where references go round in    *)
(* circles (compat/carve.rs: "order is independent of diagnostic order").  *)
THEOREM AnyOrderCarvesTheSame == Spec => []OrderIsInvisible
  <1>1. IInv /\ CarverInv => OrderIsInvisible
    <2> SUFFICES ASSUME IInv, CarverInv, pc = "carve", todo = {}
                 PROVE  found = UNION {CarvedAt(doc, n) : n \in Traced(ErrorsLeft)}
      BY DEF OrderIsInvisible, ErrorsLeft
    <2> QED
      BY AllVisited DEF CarverInv
  <1>2. Init => CarverInv
    BY DEF Init, CarverInv
  <1> QED
    BY <1>1, <1>2, InitIInv, NextIInv, NextCarver, PTL DEF Spec

LEMMA EndRoundCause ==
    ASSUME IInv, RulesInv, CarverInv, CarvedForCause, EndRound
    PROVE  CarvedForCause'
  <1> DEFINE new == CarvedRules(round, NewConstructs)
             earlier(r) == {q \in omit : q.round < r.round}
             after(r) == {q \in omit' : q.round < r.round}
  <1>1. /\ pc = "carve" /\ todo = {} /\ omit' = omit \union new /\ run' = run
        /\ doc = LeftBy(omit) /\ probing
    BY DEF EndRound, RulesInv
  <1>2. round \in Nat /\ \A r \in omit : r.round < round /\ r.round \in Nat
    BY <1>1, RuleRounds, MaxRoundsFacts DEF RulesInv, IInv, TypeOK
  <1>3. \A r \in new : r.round = round
    BY DEF CarvedRules
  <1>4. ASSUME NEW r \in omit PROVE after(r) = earlier(r)
    BY <1>1, <1>2, <1>3
  <1>5. ASSUME NEW r \in new PROVE after(r) = omit
    BY <1>1, <1>2, <1>3
  <1>6. ASSUME NEW r \in new, NEW c \in r.targets
        PROVE  \E n \in Amenable(c) : run.flaw[n] # 0 \/ ~ Refs[n] \subseteq doc
    <2>1. c \in found
      BY <1>6 DEF CarvedRules, NewConstructs
    <2>2. PICK n \in visited : c \in CarvedAt(doc, n)
      BY <1>1, <2>1 DEF CarverInv
    <2>3. n \in Nodes
      BY DEF IInv, TypeOK
    <2>4. n \in Own(c) /\ Own(c) \in SUBSET Nodes
      BY <2>2, <2>3, CarvedReads
    <2>5. PICK e \in ErrorsLeft : e \in Closure({n}, Reading)
      BY <1>1 DEF CarverInv
    <2> DEFINE A == Amenable(c)
    <2>6. A = Closure(Own(c), Reading)
      BY DEF Amenable, Reading
    <2>7. Own(c) \subseteq A /\ Closed(A, Reading)
      BY <2>4, <2>6, StepsLead, ClosureFacts
    <2>8. {n} \subseteq A /\ {n} \in SUBSET Nodes
      BY <2>3, <2>4, <2>7
    <2> HIDE DEF A
    <2>9. e \in A
      BY <2>5, <2>7, <2>8, StepsLead, ClosureFacts
    <2>10. run.flaw[e] # 0 \/ ~ Refs[e] \subseteq doc
      BY FlawFacts DEF ErrorsLeft
    <2> QED
      BY <2>9, <2>10 DEF A
  <1>7. ASSUME NEW r \in omit', r.round > 0, NEW c \in r.targets
        PROVE  \E n \in Amenable(c) : run.flaw[n] # 0 \/ ~ Refs[n] \subseteq LeftBy(after(r))
    <2>1. CASE r \in omit
      <3>1. \E n \in Amenable(c) : run.flaw[n] # 0 \/ ~ Refs[n] \subseteq LeftBy(earlier(r))
        BY <1>7, <2>1 DEF CarvedForCause
      <3> QED
        BY <1>4, <2>1, <3>1
    <2>2. CASE r \in new
      <3>1. after(r) = omit
        BY <1>5, <2>2
      <3> QED
        BY <1>1, <1>6, <1>7, <2>2, <3>1
    <2> QED
      BY <1>1, <2>1, <2>2
  <1> QED
    BY <1>1, <1>7 DEF CarvedForCause

LEMMA NextCause ==
    IInv /\ RulesInv /\ CarverInv /\ CarvedForCause /\ [Next]_vars => CarvedForCause'
  <1> SUFFICES ASSUME IInv, RulesInv, CarverInv, CarvedForCause, [Next]_vars
               PROVE  CarvedForCause'
    OBVIOUS
  <1>1. CASE EndRound
    BY <1>1, EndRoundCause
  <1>2. CASE ~ EndRound
    <2>1. omit' = omit /\ run' = run
      BY <1>2 DEF Next, Load, LoadFails, ApplyProfile, LowerBundle, CarveAt, Render,
         RenderFails, Ended, vars
    <2> QED
      BY <2>1 DEF CarvedForCause
  <1> QED
    BY <1>1, <1>2

(* For any document, only what has a cause is carved: what works is left   *)
(* alone (compat/carve.rs, Carver::carve_at).                              *)
THEOREM CarvesOnlyForCause == Spec => []CarvedForCause
  <1>1. Init => CarverInv
    BY DEF Init, CarverInv
  <1>2. Init => CarvedForCause
    BY DEF Init, UserRules, CarvedForCause
  <1> QED
    BY <1>1, <1>2, InitIInv, NextIInv, InitRules, NextRules, NextCarver, NextCause, PTL
       DEF Spec

-----------------------------------------------------------------------------
(* Giving up. *)

LEMMA NextProbed == IInv /\ RulesInv /\ ProbedInv /\ [Next]_vars => ProbedInv'
  <1> SUFFICES ASSUME IInv, RulesInv, ProbedInv, [Next]_vars PROVE ProbedInv'
    OBVIOUS
  <1>1. CASE Load
    BY <1>1 DEF Load, ProbedInv
  <1>2. CASE LoadFails \/ Render \/ RenderFails
    BY <1>2 DEF LoadFails, Render, RenderFails, Finish, ProbedInv
  <1>3. CASE ApplyProfile
    BY <1>3 DEF ApplyProfile, Finish, ProbedInv
  <1>4. CASE LowerBundle
    <2>1. /\ pc = "lower" /\ doc = LeftBy(omit) /\ run' = run /\ omit' = omit
          /\ Raise({Rejection(n) : n \in ErrorsLeft})
      BY <1>4 DEF LowerBundle, RulesInv, ErrorsLeft
    <2>2. CASE HasErrors(batch')
      <3>1. pc' \in {"carve", "done"}
        BY <1>4, <2>2 DEF LowerBundle, Finish
      <3> QED
        BY <3>1 DEF ProbedInv
    <2>3. CASE ~ HasErrors(batch')
      <3>1. ErrorsLeft \in SUBSET Nodes
        BY TracedInDocument DEF IInv, TypeOK, ErrorsLeft
      <3>2. /\ IsFiniteSet({Rejection(n) : n \in ErrorsLeft})
            /\ ErrorsIn({Rejection(n) : n \in ErrorsLeft}) # {} <=> ErrorsLeft # {}
        BY <3>1, FiniteRejections
      <3>3. ReportInv
        BY DEF IInv
      <3>4. HasErrors(batch') <=> HasErrors(batch) \/ ErrorsIn({Rejection(n) : n \in ErrorsLeft}) # {}
        BY <2>1, <3>2, <3>3, RaiseFacts
      <3>5. ErrorsLeft = {}
        BY <2>3, <3>2, <3>4
      <3> QED
        BY <2>1, <3>5 DEF ErrorsLeft, ProbedInv
    <2> QED
      BY <2>2, <2>3
  <1>5. CASE \E n \in Nodes : CarveAt(n)
    BY <1>5 DEF CarveAt, ProbedInv
  <1>6. CASE EndRound
    <2>1. probing /\ probing' = probing
      BY <1>6 DEF EndRound, RulesInv
    <2> QED
      BY <2>1 DEF ProbedInv
  <1>7. CASE Ended \/ UNCHANGED vars
    BY <1>7 DEF Ended, vars, ProbedInv
  <1> QED
    BY <1>1, <1>2, <1>3, <1>4, <1>5, <1>6, <1>7 DEF Next

(* A profile fails for the user's own rules and for those overtaken, as    *)
(* the others match.                                                       *)
LEMMA ApplyRejects ==
    ASSUME IInv, RulesInv, MatchInv, ApplyProfile, outcome' = "Rejected"
    PROVE  RejectedForCause'
  <1> DEFINE D == ApplyDiagnostics(omit)
  <1>1. /\ pc = "apply" /\ Raise(D) /\ emitted' = emitted \union D /\ run' = run
        /\ outcome = "none" /\ emitted = {} /\ ReportInv
    BY DEF ApplyProfile, Raise, IInv, StageInv
  <1>2. HasErrors(batch')
    BY <1>1 DEF ApplyProfile
  <1>3. IsFiniteSet(D)
    BY FiniteApplyDiagnostics DEF IInv
  <1> HIDE DEF D
  <1>4. HasErrors(batch') <=> HasErrors(batch) \/ ErrorsIn(D) # {}
    BY <1>1, <1>3, RaiseFacts
  <1>5. ~ HasErrors(batch)
    BY <1>1 DEF ReportInv, ErrorsIn
  <1>6. PICK d \in D : d.error
    BY <1>2, <1>4, <1>5 DEF ErrorsIn
  <1>7. d \notin OmittedBy(omit)
    BY <1>6 DEF OmittedBy, OmittedConstruct
  <1>8. CASE d \in RootCheck(omit)
    BY <1>1, <1>6, <1>8 DEF RootCheck, RejectedForCause
  <1>9. CASE d \in InvalidRules(omit)
    <2>1. PICK r \in omit : d = InvalidOmitRule(r) /\ MatchesNothing(r, omit)
      BY <1>9 DEF InvalidRules
    <2>2. CASE r.round > 0 /\ Overtaken(r)
      <3>1. omit' = omit /\ Overtaken(r)'
        BY <2>2 DEF ApplyProfile, Overtaken
      <3> QED
        BY <1>1, <1>6, <2>1, <2>2, <3>1 DEF RejectedForCause
    <2>3. CASE r \in UserRules(run.user)
      BY <1>1, <1>6, <2>1, <2>3 DEF RejectedForCause
    <2>4. r.round > 0 => Overtaken(r)
      BY <2>1, CarvedRuleMatches
    <2>5. ASSUME ~ r.round > 0 PROVE r \in UserRules(run.user)
      <3>1. ASSUME NEW k \in Nat \ {0}, NEW c \in Nodes, r = CarvedRule(k, c)
            PROVE  FALSE
        BY <2>5, <3>1 DEF CarvedRule
      <3> QED
        BY <3>1 DEF RulesInv
    <2> QED
      BY <2>2, <2>3, <2>4, <2>5
  <1> QED
    BY <1>6, <1>7, <1>8, <1>9 DEF D, ApplyDiagnostics

(* A round that finds nothing new has an error that leads to no construct. *)
LEMMA RoundRejects ==
    ASSUME IInv, RulesInv, CarverInv, EndRound, outcome' = "Rejected"
    PROVE  RejectedForCause'
  <1>1. /\ pc = "carve" /\ todo = {} /\ doc' = doc /\ run' = run /\ emitted' = emitted
        /\ round' = round /\ doc = LeftBy(omit)
        /\ outcome = "none"
    BY DEF EndRound, RulesInv, IInv, StageInv
  <1>2. CASE round = MaxRounds
    BY <1>1, <1>2 DEF RejectedForCause
  <1>3. CASE round # MaxRounds
    <2>1. NewConstructs = {}
      BY <1>1, <1>3 DEF EndRound
    <2>2. \A c \in found : \A r \in omit : r.targets # {c}
      <3>1. ASSUME NEW c \in found, NEW r \in omit, r.targets = {c} PROVE FALSE
        <4>1. c \in LeftBy(omit)
          BY <1>1 DEF IInv, TypeOK
        <4> QED
          BY <3>1, <4>1, LeftIsUntouched
      <3> QED
        BY <3>1
    <2>3. found = {}
      BY <2>1, <2>2 DEF NewConstructs
    <2>4. PICK e \in ErrorsLeft : Rejection(e) \in emitted
      BY <1>1 DEF CarverInv
    <2>5. \A m \in Traced({e}) : m \in visited
      BY <1>1, AllVisited
    <2>6. \A m \in Traced({e}) : CarvedAt(doc, m) = {}
      BY <1>1, <2>3, <2>5 DEF CarverInv
    <2>7. Uncarvable(e)'
      BY <1>1, <2>6 DEF Uncarvable, Traced
    <2>8. Rejection(e).code = "flaw" /\ Rejection(e).at = e
      BY DEF Rejection
    <2> QED
      BY <1>1, <2>4, <2>7, <2>8 DEF RejectedForCause
  <1> QED
    BY <1>2, <1>3

(* What a probe could lower is not rejected when it is run. *)
LEMMA LowerRejects ==
    ASSUME IInv, RulesInv, ProbedInv, LowerBundle, outcome' = "Rejected"
    PROVE  RejectedForCause'
  <1>1. /\ pc = "lower" /\ run' = run /\ outcome = "none" /\ doc = LeftBy(omit)
        /\ Raise({Rejection(n) : n \in ErrorsLeft})
        /\ ~ HasErrors(batch) /\ ReportInv
    BY DEF LowerBundle, RulesInv, IInv, StageInv, ErrorsLeft
  <1>2. HasErrors(batch') /\ ~ probing
    BY <1>1 DEF LowerBundle, Finish
  <1>3. ErrorsLeft \in SUBSET Nodes
    BY TracedInDocument DEF IInv, TypeOK, ErrorsLeft
  <1>4. /\ IsFiniteSet({Rejection(n) : n \in ErrorsLeft})
        /\ ErrorsIn({Rejection(n) : n \in ErrorsLeft}) # {} <=> ErrorsLeft # {}
    BY <1>3, FiniteRejections
  <1>5. HasErrors(batch') <=> HasErrors(batch) \/ ErrorsIn({Rejection(n) : n \in ErrorsLeft}) # {}
    BY <1>1, <1>4, RaiseFacts
  <1>6. ErrorsLeft # {}
    BY <1>1, <1>2, <1>4, <1>5
  <1>7. ~ run.carve
    BY <1>1, <1>2, <1>6 DEF ProbedInv, ErrorsLeft
  <1> QED
    BY <1>1, <1>7 DEF RejectedForCause

LEMMA NextRejected ==
    IInv /\ RulesInv /\ MatchInv /\ CarverInv /\ ProbedInv /\ RejectedForCause
        /\ [Next]_vars => RejectedForCause'
  <1> SUFFICES ASSUME IInv, RulesInv, MatchInv, CarverInv, ProbedInv, RejectedForCause,
                      [Next]_vars, outcome' = "Rejected"
               PROVE  RejectedForCause'
    BY DEF RejectedForCause
  <1>1. CASE Load
    BY <1>1 DEF Load, IInv, StageInv
  <1>2. CASE LoadFails \/ RenderFails
    BY <1>2 DEF LoadFails, RenderFails, Raise, RejectedForCause
  <1>3. CASE ApplyProfile
    BY <1>3, ApplyRejects
  <1>4. CASE LowerBundle
    BY <1>4, LowerRejects
  <1>5. CASE \E n \in Nodes : CarveAt(n)
    BY <1>5 DEF CarveAt, IInv, StageInv
  <1>6. CASE EndRound
    BY <1>6, RoundRejects
  <1>7. CASE Render
    BY <1>7 DEF Render, Finish
  <1>8. CASE Ended \/ UNCHANGED vars
    BY <1>8 DEF Ended, vars, RejectedForCause, Uncarvable, Traced, Overtaken
  <1> QED
    BY <1>1, <1>2, <1>3, <1>4, <1>5, <1>6, <1>7, <1>8 DEF Next

(* For any document, a carving run gives up only for what carving cannot   *)
(* help, or over a rule that was overtaken (pipeline.rs, carve_spec).      *)
THEOREM GivesUpOnlyForCause == Spec => []RejectedForCause
  <1>1. Init => CarverInv
    BY DEF Init, CarverInv
  <1>2. Init => ProbedInv
    BY DEF Init, ProbedInv
  <1>3. Init => RejectedForCause
    BY DEF Init, RejectedForCause
  <1>4. IInv /\ RulesInv /\ MatchInv /\ [Next]_vars => MatchInv'
    BY NextMatch
  <1>5. IInv /\ RulesInv /\ MatchInv /\ CarverInv /\ ProbedInv /\ RejectedForCause
            /\ [Next]_vars => RejectedForCause'
    BY NextRejected
  <1> QED
    BY <1>1, <1>2, <1>3, <1>4, <1>5, InitIInv, NextIInv, InitRules, NextRules, NextCarver,
       NextProbed, PTL DEF Spec

=============================================================================
