------------------------ MODULE GenerationCacheProofs ------------------------
(***************************************************************************)
(* What TLAPS proves of GenerationCache: types, whole files and warm calls *)
(* whatever the inputs do, the inductive invariant when contents never     *)
(* recur, and that it implements GenerateCall.                             *)
(***************************************************************************)
EXTENDS GenerationCache, TLAPS

-----------------------------------------------------------------------------
(* Types. *)

LEMMA NumFilesType == NumFiles \in Nat /\ NumFiles >= 1 /\ 1 \in 1..NumFiles + 1
BY GenerationAssumption

LEMMA NoVectorType == NoVector \in Vectors
BY GenerationAssumption DEF NoVector, Vectors

LEMMA ReportTypes == NoReport \in Reports /\ Rejected \in Reports
BY NoVectorType DEF NoReport, Rejected, Reports

LEMMA FinalizedType ==
  ASSUME NEW v \in Vectors, NEW body \in Bodies
  PROVE  Finalized(v, body) \in Modules
BY DEF Finalized, Modules

LEMMA RenderType == ASSUME NEW v \in Vectors PROVE Render(v) \in Bodies
BY DEF Bodies

LEMMA RecordType ==
  ASSUME NEW v \in Vectors, NEW run \in Vectors
  PROVE  Record(v, run) \in Records
BY DEF Records

\* The locals of builder b and its report, which most steps change together.
LEMMA FinishTypes ==
  ASSUME TypeOK, NEW b \in Builders, NEW r \in Reports, Finish(b, r)
  PROVE  /\ pc' \in [Builders -> PCs]
         /\ at' \in [Builders -> 1..NumFiles + 1]
         /\ rd' \in [Builders -> Vectors]
         /\ snap' \in [Builders -> Vectors]
         /\ shown' \in [Builders -> Vectors]
         /\ content' \in [Builders -> Bodies \cup {NoFile}]
         /\ round' \in [Builders -> 0..MaxRounds - 1]
         /\ target' \in [Builders -> Targets]
         /\ attempt' \in [Builders -> Attempts]
         /\ report' \in [Builders -> Reports]
BY NoVectorType, NumFilesType, GenerationAssumption
DEF Finish, StartPass, TypeOK, PCs, Targets, Attempts, MaxRounds

LEMMA AfterTargetTypes ==
  ASSUME TypeOK, NEW b \in Builders, AfterTarget(b)
  PROVE  /\ pc' \in [Builders -> PCs]
         /\ at' \in [Builders -> 1..NumFiles + 1]
         /\ rd' \in [Builders -> Vectors]
         /\ snap' \in [Builders -> Vectors]
         /\ shown' \in [Builders -> Vectors]
         /\ content' \in [Builders -> Bodies \cup {NoFile}]
         /\ round' \in [Builders -> 0..MaxRounds - 1]
         /\ target' \in [Builders -> Targets]
         /\ attempt' \in [Builders -> Attempts]
         /\ report' \in [Builders -> Reports]
<1>1. CASE target[b] = OutputFile
  BY <1>1 DEF AfterTarget, locals, TypeOK, PCs
<1>2. CASE target[b] # OutputFile
  <2>1. Generated(b) \in Reports
    BY DEF Generated, TypeOK, Reports
  <2> QED BY <1>2, <2>1, FinishTypes DEF AfterTarget
<1> QED BY <1>1, <1>2

\* What a build writes is a module or a record once something was rendered.
LEMMA ContentsType ==
  ASSUME TypeOK, NEW b \in Builders, content[b] \in Bodies
  PROVE  Contents(b) \in Modules \cup Records
<1>1. snap[b] \in Vectors /\ shown[b] \in Vectors
  BY DEF TypeOK
<1> QED BY <1>1, FinalizedType, RecordType DEF Contents

-----------------------------------------------------------------------------
(* WholeInv, whatever the inputs do. *)

LEMMA InitWhole == Init => WholeInv
<1> SUFFICES ASSUME Init PROVE WholeInv
  OBVIOUS
<1>1. TypeOK
  BY NoVectorType, NumFilesType, ReportTypes, GenerationAssumption
  DEF Init, TypeOK, PCs, Targets, Attempts, MaxRounds
<1>2. TargetsWhole
  BY DEF Init, TargetsWhole, Targets
<1>3. ASSUME NEW b \in Builders PROVE ShapeInv(b)
  BY DEF Init, ShapeInv, Committed, Writing
<1> QED BY <1>1, <1>2, <1>3 DEF WholeInv

\* A step that leaves c's locals and temporaries alone leaves its shape alone.
LEMMA ShapeFrame ==
  ASSUME NEW c \in Builders, ShapeInv(c),
         pc'[c] = pc[c], content'[c] = content[c], target'[c] = target[c],
         attempt'[c] = attempt[c], snap'[c] = snap[c], shown'[c] = shown[c],
         temps'[c] = temps[c]
  PROVE  ShapeInv(c)'
BY DEF ShapeInv, Contents

\* A finished call has no shape to keep.
LEMMA FinishShape ==
  ASSUME WholeInv, NEW b \in Builders, NEW r, Finish(b, r),
         \A c \in Builders \ {b} : temps'[c] = temps[c]
  PROVE  \A c \in Builders : ShapeInv(c)'
<1>1. ShapeInv(b)'
  BY DEF WholeInv, TypeOK, Finish, StartPass, ShapeInv, Committed, Writing
<1>2. ASSUME NEW c \in Builders, c # b PROVE ShapeInv(c)'
  BY <1>2, ShapeFrame DEF WholeInv, TypeOK, Finish, StartPass
<1> QED BY <1>1, <1>2

LEMMA FinishWhole ==
  ASSUME WholeInv, NEW b \in Builders, NEW r \in Reports, Finish(b, r),
         UNCHANGED <<disk, files, history>>
  PROVE  WholeInv'
<1>1. TypeOK'
  BY FinishTypes DEF WholeInv, TypeOK, files, history
<1>2. TargetsWhole'
  BY DEF WholeInv, TargetsWhole, files
<1>3. \A c \in Builders : ShapeInv(c)'
  BY FinishShape DEF files
<1> QED BY <1>1, <1>2, <1>3 DEF WholeInv

LEMMA EditedType ==
  ASSUME NEW f \in Modules
  PROVE  [input |-> f.input, content |-> f.content, body |-> Edited] \in Modules
BY DEF Modules, Bodies

LEMMA EnvironmentWhole ==
  ASSUME WholeInv, Environment
  PROVE  WholeInv'
<1> USE DEF files, locals, history, WholeInv
<1>1. ASSUME NEW f \in Files, EditInput(f) PROVE WholeInv'
  <2>1. disk' \in Vectors
    BY <1>1, GenerationAssumption DEF EditInput, TypeOK, Vectors
  <2>2. TypeOK'
    BY <1>1, <2>1 DEF EditInput, Disturb, TypeOK
  <2>3. TargetsWhole'
    BY <1>1 DEF EditInput, TargetsWhole
  <2>4. \A c \in Builders : ShapeInv(c)'
    BY <1>1, ShapeFrame DEF EditInput
  <2> QED BY <2>2, <2>3, <2>4
<1>2. CASE TamperOutput
  <2>1. \E m \in Modules \cup {NoFile} : file' = [file EXCEPT ![OutputFile] = m]
    <3>1. CASE file' = [file EXCEPT ![OutputFile] = NoFile]
      BY <3>1
    <3>2. ASSUME NEW v \in past, file' = [file EXCEPT ![OutputFile] = Finalized(v, Render(v))]
          PROVE  \E m \in Modules \cup {NoFile} : file' = [file EXCEPT ![OutputFile] = m]
      <4>1. v \in Vectors
        BY DEF TypeOK
      <4>2. Finalized(v, Render(v)) \in Modules
        BY <4>1, RenderType, FinalizedType
      <4> QED BY <3>2, <4>2
    <3>3. CASE /\ file[OutputFile] # NoFile
               /\ file' = [file EXCEPT ![OutputFile] =
                      [input |-> @.input, content |-> @.content, body |-> Edited]]
      <4>1. file[OutputFile] \in Modules
        BY <3>3 DEF TargetsWhole
      <4> QED BY <3>3, <4>1, EditedType
    <3> QED BY <1>2, <3>1, <3>2, <3>3 DEF TamperOutput
  <2>2. TypeOK'
    BY <1>2, <2>1 DEF TamperOutput, Disturb, TypeOK
  <2>3. TargetsWhole'
    BY <2>1, GenerationAssumption DEF TargetsWhole, TypeOK, Targets
  <2>4. \A c \in Builders : ShapeInv(c)'
    BY <1>2, ShapeFrame DEF TamperOutput
  <2> QED BY <2>2, <2>3, <2>4
<1>3. ASSUME NEW c \in Caches, LoseCache(c) PROVE WholeInv'
  <2>1. TypeOK'
    BY <1>3 DEF LoseCache, Disturb, TypeOK, Targets
  <2>2. TargetsWhole'
    BY <1>3, GenerationAssumption DEF LoseCache, TargetsWhole, TypeOK, Targets
  <2>3. \A d \in Builders : ShapeInv(d)'
    BY <1>3, ShapeFrame DEF LoseCache
  <2> QED BY <2>1, <2>2, <2>3
<1>4. ASSUME NEW b \in Builders, Crash(b) PROVE WholeInv'
  BY <1>4, FinishWhole, ReportTypes DEF Crash
<1> QED BY <1>1, <1>2, <1>3, <1>4 DEF Environment

LEMMA BeginWhole ==
  ASSUME WholeInv, NEW b \in Builders, Begin(b)
  PROVE  WholeInv'
<1> USE DEF WholeInv, files
<1>1. TypeOK'
  BY NoVectorType, NumFilesType, ReportTypes DEF Begin, StartPass, TypeOK, PCs, Passes
<1>2. TargetsWhole'
  BY DEF Begin, TargetsWhole
<1>3. ShapeInv(b)'
  BY DEF Begin, StartPass, TypeOK, ShapeInv, Committed, Writing
<1>4. ASSUME NEW c \in Builders, c # b PROVE ShapeInv(c)'
  BY <1>4, ShapeFrame DEF Begin, StartPass, TypeOK
<1> QED BY <1>1, <1>2, <1>3, <1>4

\* Steps that read files and change only locals of b.
LEMMA ReadInputWhole ==
  ASSUME WholeInv, NEW b \in Builders, ReadInput(b)
  PROVE  WholeInv'
<1> USE DEF WholeInv, files, history
<1>1. at[b] \in Files /\ at' = [at EXCEPT ![b] = at[b] + 1] /\ at[b] + 1 \in 1..NumFiles + 1
  BY NumFilesType DEF ReadInput, Files, TypeOK
<1>2. disk[at[b]] \in 0..MaxVersion
  BY <1>1 DEF TypeOK, Vectors
<1>3. rd' \in [Builders -> Vectors]
  BY <1>1, <1>2 DEF ReadInput, TypeOK, Vectors
<1>4. TypeOK'
  BY <1>1, <1>3 DEF ReadInput, TypeOK
<1>5. TargetsWhole'
  BY DEF ReadInput, TargetsWhole
<1>6. \A c \in Builders : ShapeInv(c)'
  BY ShapeFrame DEF ReadInput
<1> QED BY <1>4, <1>5, <1>6

LEMMA EndSnapshotWhole ==
  ASSUME WholeInv, NEW b \in Builders, EndSnapshot(b)
  PROVE  WholeInv'
<1> USE DEF files, history
<1>1. CASE ~ Loads(rd[b])
  BY <1>1, FinishWhole, ReportTypes DEF EndSnapshot
<1>2. CASE Loads(rd[b])
  <2> USE DEF WholeInv
  <2>1. PICK p \in {"preview", "verify"} :
          StartPass(b, p) /\ (p = "verify" => CacheOf[b] \in Caches)
    BY <1>2, GenerationAssumption DEF EndSnapshot
  <2>2. /\ PassRead(b, "snapshot")
        /\ snap' = [snap EXCEPT ![b] = rd[b]]
        /\ UNCHANGED <<shown, content, round, target, attempt, report>>
        /\ UNCHANGED <<disk, files, history>>
    BY <1>2 DEF EndSnapshot
  <2>3. TypeOK'
    BY <2>1, <2>2, NoVectorType, NumFilesType DEF StartPass, TypeOK, PCs, Passes
  <2>4. TargetsWhole'
    BY <2>2 DEF TargetsWhole
  <2>5. ShapeInv(b)'
    BY <2>1, <2>2 DEF PassRead, StartPass, TypeOK, ShapeInv, Committed, Writing
  <2>6. ASSUME NEW c \in Builders, c # b PROVE ShapeInv(c)'
    BY <2>1, <2>2, <2>6, ShapeFrame DEF StartPass, TypeOK
  <2> QED BY <2>3, <2>4, <2>5, <2>6
<1> QED BY <1>1, <1>2

LEMMA VerifyOutputWhole ==
  ASSUME WholeInv, NEW b \in Builders, VerifyOutput(b)
  PROVE  WholeInv'
<1> USE DEF WholeInv, files, history
<1>1. Verified(file[OutputFile], snap[b]) => file[OutputFile].body \in Bodies
  BY DEF Verified, TargetsWhole, Modules
<1>2. TypeOK'
  <2>1. CASE Verified(file[OutputFile], snap[b])
    <3>1. PICK body \in Bodies : content' = [content EXCEPT ![b] = body]
      BY <1>1, <2>1 DEF VerifyOutput
    <3>2. /\ pc' = [pc EXCEPT ![b] = "lookup"]
          /\ UNCHANGED <<disk, file, temps, at, rd, snap, shown, round, target, attempt,
                         report, past, seen, calm>>
      BY <2>1 DEF VerifyOutput
    <3>3. content' \in [Builders -> Bodies \cup {NoFile}]
      BY <3>1 DEF TypeOK
    <3>4. pc' \in [Builders -> PCs]
      BY <3>2 DEF TypeOK, PCs
    <3> QED BY <3>2, <3>3, <3>4 DEF TypeOK
  <2>2. CASE ~ Verified(file[OutputFile], snap[b])
    <3>1. /\ StartPass(b, "preview")
          /\ UNCHANGED <<disk, file, temps, snap, shown, content, round, target, attempt,
                         report, past, seen, calm>>
      BY <2>2 DEF VerifyOutput
    <3> QED BY <3>1, NoVectorType, NumFilesType DEF StartPass, TypeOK, PCs, Passes
  <2> QED BY <2>1, <2>2
<1>3. TargetsWhole'
  BY DEF VerifyOutput, TargetsWhole
<1>4. ShapeInv(b)'
  BY <1>1 DEF VerifyOutput, StartPass, TypeOK, ShapeInv, Committed, Writing
<1>5. ASSUME NEW c \in Builders, c # b PROVE ShapeInv(c)'
  BY <1>5, ShapeFrame DEF VerifyOutput, StartPass, TypeOK
<1> QED BY <1>2, <1>3, <1>4, <1>5

LEMMA RecordFields ==
  ASSUME NEW f \in Records
  PROVE  f.input \in Vectors /\ f.run \in Vectors /\ f.content = Render(f.run)
BY DEF Records, Record

\* A hit returns a report; its run is that of a record.
LEMMA HitReport ==
  ASSUME WholeInv, NEW b \in Builders, pc[b] = "lookup",
         Hit(file[CacheOf[b]], snap[b], content[b])
  PROVE  [outcome |-> "cached", input |-> snap[b], run |-> file[CacheOf[b]].run] \in Reports
<1>1. file[CacheOf[b]] \in Records
  BY DEF WholeInv, ShapeInv, TargetsWhole, Hit
<1> QED BY <1>1, RecordFields DEF WholeInv, TypeOK, Reports

LEMMA LookupCacheWhole ==
  ASSUME WholeInv, NEW b \in Builders, LookupCache(b)
  PROVE  WholeInv'
<1> USE DEF files, history
<1>1. CASE Hit(file[CacheOf[b]], snap[b], content[b])
  <2>1. PICK r \in Reports : Finish(b, r)
    BY <1>1, HitReport, ReportTypes DEF LookupCache
  <2> QED BY <2>1, FinishWhole DEF LookupCache
<1>2. CASE ~ Hit(file[CacheOf[b]], snap[b], content[b])
  <2> USE DEF WholeInv
  <2>0. /\ StartPass(b, "preview")
        /\ pc[b] = "lookup"
        /\ content' = [content EXCEPT ![b] = NoFile]
        /\ UNCHANGED <<snap, shown, round, target, attempt, report>>
        /\ UNCHANGED <<disk, files, history>>
    BY <1>2 DEF LookupCache
  <2>1. TypeOK'
    BY <2>0, NoVectorType, NumFilesType DEF StartPass, TypeOK, PCs, Passes
  <2>2. TargetsWhole'
    BY <2>0 DEF TargetsWhole
  <2>3. ShapeInv(b)'
    BY <2>0 DEF StartPass, TypeOK, ShapeInv, Committed, Writing
  <2>4. ASSUME NEW c \in Builders, c # b PROVE ShapeInv(c)'
    BY <2>0, <2>4, ShapeFrame DEF StartPass, TypeOK
  <2> QED BY <2>1, <2>2, <2>3, <2>4
<1> QED BY <1>1, <1>2

LEMMA EndPreviewWhole ==
  ASSUME WholeInv, NEW b \in Builders, EndPreview(b)
  PROVE  WholeInv'
<1> USE DEF files, history
<1>1. CASE Finish(b, Rejected)
  BY <1>1, FinishWhole, ReportTypes DEF EndPreview
<1>2. CASE ~ Finish(b, Rejected)
  <2> USE DEF WholeInv
  <2>1. /\ shown' = [shown EXCEPT ![b] = rd[b]]
        /\ content' = [content EXCEPT ![b] = Render(rd[b])]
        /\ StartPass(b, "after")
        /\ UNCHANGED <<snap, round, target, attempt, report>>
        /\ PassRead(b, "preview")
        /\ UNCHANGED <<disk, files, history>>
    BY <1>2 DEF EndPreview
  <2>2. rd[b] \in Vectors /\ Render(rd[b]) \in Bodies
    BY RenderType DEF TypeOK
  <2>3. TypeOK'
    BY <2>1, <2>2, NoVectorType, NumFilesType DEF StartPass, TypeOK, PCs, Passes
  <2>4. TargetsWhole'
    BY <2>1 DEF TargetsWhole
  <2>5. ShapeInv(b)'
    BY <2>1, <2>2 DEF PassRead, StartPass, TypeOK, ShapeInv, Committed, Writing
  <2>6. ASSUME NEW c \in Builders, c # b PROVE ShapeInv(c)'
    BY <2>1, <2>6, ShapeFrame DEF StartPass, TypeOK
  <2> QED BY <2>3, <2>4, <2>5, <2>6
<1> QED BY <1>1, <1>2

LEMMA EndAfterWhole ==
  ASSUME WholeInv, NEW b \in Builders, EndAfter(b)
  PROVE  WholeInv'
<1> USE DEF files, history
<1>1. CASE ~ Loads(rd[b]) \/ (rd[b] # snap[b] /\ round[b] + 1 = MaxRounds)
  BY <1>1, FinishWhole, ReportTypes DEF EndAfter
<1>2. CASE Loads(rd[b]) /\ rd[b] # snap[b] /\ round[b] + 1 # MaxRounds
  <2>1. /\ snap' = [snap EXCEPT ![b] = rd[b]]
        /\ round' = [round EXCEPT ![b] = round[b] + 1]
        /\ shown' = [shown EXCEPT ![b] = NoVector]
        /\ content' = [content EXCEPT ![b] = NoFile]
        /\ StartPass(b, "preview")
        /\ pc[b] = "after"
        /\ UNCHANGED <<target, attempt, report>>
        /\ UNCHANGED <<disk, files, history>>
    BY <1>2 DEF EndAfter, PassRead
  <2>2. round' \in [Builders -> 0..MaxRounds - 1]
    <3>1. round[b] + 1 \in 0..MaxRounds - 1
      <4>1. round[b] \in 0..MaxRounds - 1
        BY DEF WholeInv, TypeOK
      <4> QED BY <1>2, <4>1 DEF MaxRounds
    <3> QED BY <2>1, <3>1 DEF WholeInv, TypeOK
  <2>3. TypeOK'
    BY <2>1, <2>2, NoVectorType, NumFilesType DEF WholeInv, StartPass, TypeOK, PCs, Passes
  <2>4. TargetsWhole'
    BY <2>1 DEF WholeInv, TargetsWhole
  <2>5. ShapeInv(b)'
    BY <2>1 DEF WholeInv, StartPass, TypeOK, ShapeInv, Committed, Writing
  <2>6. ASSUME NEW c \in Builders, c # b PROVE ShapeInv(c)'
    BY <2>1, <2>6, ShapeFrame DEF WholeInv, StartPass, TypeOK
  <2> QED BY <2>3, <2>4, <2>5, <2>6 DEF WholeInv
<1>3. CASE Loads(rd[b]) /\ rd[b] = snap[b]
  <2>1. /\ StartPass(b, "output")
        /\ pc[b] = "after"
        /\ UNCHANGED <<snap, round, shown, content, target, attempt, report>>
        /\ UNCHANGED <<disk, files, history>>
    BY <1>3 DEF EndAfter, PassRead
  <2>2. TypeOK'
    BY <2>1, NoVectorType, NumFilesType DEF WholeInv, StartPass, TypeOK, PCs
  <2>3. TargetsWhole'
    BY <2>1 DEF WholeInv, TargetsWhole
  <2>4. ShapeInv(b)'
    BY <2>1 DEF WholeInv, StartPass, TypeOK, ShapeInv, Committed, Writing
  <2>5. ASSUME NEW c \in Builders, c # b PROVE ShapeInv(c)'
    BY <2>1, <2>5, ShapeFrame DEF WholeInv, StartPass, TypeOK
  <2> QED BY <2>2, <2>3, <2>4, <2>5 DEF WholeInv
<1> QED BY <1>1, <1>2, <1>3

\* Past the target: a report, or the place before the record.
LEMMA AfterTargetWhole ==
  ASSUME WholeInv, NEW b \in Builders, AfterTarget(b), pc[b] \in Committed,
         disk' = disk, past' = past, seen' = seen,
         calm' \in [Builders -> {"disturbed", "call", "warm"}],
         TargetsWhole',
         file' \in [Targets -> Modules \cup Records \cup {NoFile}],
         temps' \in [Builders -> [Targets -> [Attempts ->
                       Modules \cup Records \cup {NoFile, Partial}]]],
         \A c \in Builders \ {b} : temps'[c] = temps[c]
  PROVE  WholeInv'
<1>1. TypeOK'
  BY AfterTargetTypes DEF WholeInv, TypeOK
<1>2. \A c \in Builders : ShapeInv(c)'
  <2>1. CASE target[b] = OutputFile
    <3>1. pc' = [pc EXCEPT ![b] = "record"] /\ UNCHANGED <<locals, report>>
      BY <2>1 DEF AfterTarget
    <3>2. ShapeInv(b)'
      BY <2>1, <3>1 DEF WholeInv, TypeOK, locals, ShapeInv, Committed, Writing
    <3>3. ASSUME NEW c \in Builders, c # b PROVE ShapeInv(c)'
      BY <3>1, <3>3, ShapeFrame DEF WholeInv, TypeOK, locals
    <3> QED BY <3>2, <3>3
  <2>2. CASE target[b] # OutputFile
    BY <2>2, FinishShape DEF AfterTarget
  <2> QED BY <2>1, <2>2
<1> QED BY <1>1, <1>2 DEF WholeInv

LEMMA CompareOutputWhole ==
  ASSUME WholeInv, NEW b \in Builders, CompareOutput(b)
  PROVE  WholeInv'
<1>1. UNCHANGED <<disk, file, temps, past, seen, calm>> /\ TargetsWhole'
  BY DEF CompareOutput, files, history, WholeInv, TargetsWhole
<1>2. CASE file[OutputFile] = Contents(b)
  <2>1. AfterTarget(b) /\ pc[b] \in Committed
    BY <1>2 DEF CompareOutput, Committed
  <2> QED BY <1>1, <2>1, AfterTargetWhole DEF WholeInv, TypeOK
<1>3. CASE file[OutputFile] # Contents(b)
  <2>1. /\ pc[b] = "output" /\ pc' = [pc EXCEPT ![b] = "create"]
        /\ UNCHANGED <<at, rd, snap, shown, content, round, target, attempt, report>>
    BY <1>3 DEF CompareOutput, locals
  <2>2. TypeOK'
    BY <1>1, <2>1 DEF WholeInv, TypeOK, PCs, Writing
  <2>3. ShapeInv(b)'
    BY <1>1, <2>1 DEF WholeInv, TypeOK, ShapeInv, Committed, Writing
  <2>4. ASSUME NEW c \in Builders, c # b PROVE ShapeInv(c)'
    BY <1>1, <2>1, <2>4, ShapeFrame DEF WholeInv, TypeOK
  <2> QED BY <1>1, <2>2, <2>3, <2>4 DEF WholeInv
<1> QED BY <1>2, <1>3

LEMMA GeneratedType == ASSUME TypeOK, NEW b \in Builders PROVE Generated(b) \in Reports
BY DEF Generated, TypeOK, Reports

LEMMA StartRecordWhole ==
  ASSUME WholeInv, NEW b \in Builders, StartRecord(b)
  PROVE  WholeInv'
<1>1. CASE CacheOf[b] = NoCache
  BY <1>1, FinishWhole, GeneratedType DEF StartRecord, WholeInv
<1>2. CASE CacheOf[b] # NoCache
  <2>1. /\ pc[b] = "record"
        /\ target' = [target EXCEPT ![b] = CacheOf[b]]
        /\ attempt' = [attempt EXCEPT ![b] = 0]
        /\ pc' = [pc EXCEPT ![b] = "create"]
        /\ UNCHANGED <<disk, file, temps, at, rd, snap, shown, content, round, report,
                       past, seen, calm>>
    BY <1>2 DEF StartRecord, files, history
  <2>2. CacheOf[b] \in Targets /\ 0 \in Attempts
    BY <1>2, GenerationAssumption DEF Targets, Attempts
  <2>3. TypeOK'
    BY <2>1, <2>2 DEF WholeInv, TypeOK, PCs, Writing
  <2>4. TargetsWhole'
    BY <2>1 DEF WholeInv, TargetsWhole
  <2>5. ShapeInv(b)'
    BY <2>1 DEF WholeInv, TypeOK, ShapeInv, Committed, Writing
  <2>6. ASSUME NEW c \in Builders, c # b PROVE ShapeInv(c)'
    BY <2>1, <2>6, ShapeFrame DEF WholeInv, TypeOK
  <2> QED BY <2>3, <2>4, <2>5, <2>6 DEF WholeInv
<1> QED BY <1>1, <1>2

\* Setting one of b's temporaries keeps the type and the other builds' ones.
LEMMA SetTemp ==
  ASSUME TypeOK, NEW b \in Builders,
         NEW x \in Modules \cup Records \cup {NoFile, Partial},
         temps' = [temps EXCEPT ![b][target[b]][attempt[b]] = x]
  PROVE  /\ temps' \in [Builders -> [Targets -> [Attempts ->
                          Modules \cup Records \cup {NoFile, Partial}]]]
         /\ \A c \in Builders \ {b} : temps'[c] = temps[c]
         /\ temps'[b][target[b]][attempt[b]] = x
BY DEF TypeOK

LEMMA CreateTempWhole ==
  ASSUME WholeInv, NEW b \in Builders, CreateTemp(b)
  PROVE  WholeInv'
<1>1. /\ pc[b] = "create"
      /\ UNCHANGED <<disk, file, past, seen, calm>>
  BY DEF CreateTemp, history
<1>2. TargetsWhole'
  BY <1>1 DEF WholeInv, TargetsWhole
<1>3. CASE /\ attempt[b] < MaxAttempt
           /\ attempt' = [attempt EXCEPT ![b] = attempt[b] + 1]
           /\ UNCHANGED <<temps, pc, at, rd, snap, shown, content, round, target, report>>
  <2>1. attempt[b] + 1 \in Attempts
    BY <1>3, GenerationAssumption DEF WholeInv, TypeOK, Attempts
  <2>2. TypeOK'
    BY <1>1, <1>3, <2>1 DEF WholeInv, TypeOK
  <2>3. ShapeInv(b)'
    BY <1>1, <1>3 DEF WholeInv, TypeOK, ShapeInv, Committed, Writing
  <2>4. ASSUME NEW c \in Builders, c # b PROVE ShapeInv(c)'
    BY <1>1, <1>3, <2>4, ShapeFrame DEF WholeInv, TypeOK
  <2> QED BY <1>2, <2>2, <2>3, <2>4 DEF WholeInv
<1>4. CASE /\ temps' = [temps EXCEPT ![b][target[b]][attempt[b]] = Partial]
           /\ pc' = [pc EXCEPT ![b] = "fill"]
           /\ UNCHANGED <<at, rd, snap, shown, content, round, target, attempt, report>>
  <2>1. /\ temps' \in [Builders -> [Targets -> [Attempts ->
                          Modules \cup Records \cup {NoFile, Partial}]]]
        /\ \A c \in Builders \ {b} : temps'[c] = temps[c]
    BY <1>4, SetTemp DEF WholeInv
  <2>2. TypeOK'
    BY <1>1, <1>4, <2>1 DEF WholeInv, TypeOK, PCs, Writing
  <2>3. ShapeInv(b)'
    BY <1>1, <1>4 DEF WholeInv, TypeOK, ShapeInv, Committed, Writing
  <2>4. ASSUME NEW c \in Builders, c # b PROVE ShapeInv(c)'
    BY <1>1, <1>4, <2>1, <2>4, ShapeFrame DEF WholeInv, TypeOK
  <2> QED BY <1>2, <2>2, <2>3, <2>4 DEF WholeInv
<1>5. CASE Finish(b, Rejected) /\ UNCHANGED temps
  BY <1>1, <1>5, FinishWhole, ReportTypes DEF files, history
<1> QED BY <1>3, <1>4, <1>5 DEF CreateTemp, locals

\* A finished call that also removed its temporary.
LEMMA FinishWithoutTemp ==
  ASSUME WholeInv, NEW b \in Builders, NEW r \in Reports, Finish(b, r),
         temps' = [temps EXCEPT ![b][target[b]][attempt[b]] = NoFile],
         UNCHANGED <<disk, file, history>>
  PROVE  WholeInv'
<1>1. /\ temps' \in [Builders -> [Targets -> [Attempts ->
                        Modules \cup Records \cup {NoFile, Partial}]]]
      /\ \A c \in Builders \ {b} : temps'[c] = temps[c]
  BY SetTemp DEF WholeInv
<1>2. TypeOK'
  BY <1>1, FinishTypes DEF WholeInv, TypeOK, history
<1>3. TargetsWhole'
  BY DEF WholeInv, TargetsWhole
<1>4. \A c \in Builders : ShapeInv(c)'
  BY <1>1, FinishShape
<1> QED BY <1>2, <1>3, <1>4 DEF WholeInv

LEMMA WritingContents ==
  ASSUME WholeInv, NEW b \in Builders, pc[b] \in Writing
  PROVE  /\ Contents(b) \in Modules \cup Records
         /\ target[b] = OutputFile => Contents(b) \in Modules
         /\ target[b] # OutputFile => Contents(b) \in Records
<1>1. content[b] \in Bodies /\ snap[b] \in Vectors /\ shown[b] \in Vectors
  BY DEF WholeInv, TypeOK, ShapeInv, Committed
<1> QED BY <1>1, FinalizedType, RecordType DEF Contents

LEMMA FillTempWhole ==
  ASSUME WholeInv, NEW b \in Builders, FillTemp(b)
  PROVE  WholeInv'
<1>1. /\ pc[b] = "fill" /\ pc[b] \in Writing
      /\ UNCHANGED <<disk, file, past, seen, calm>>
  BY DEF FillTemp, history, Writing
<1>2. CASE /\ temps' = [temps EXCEPT ![b][target[b]][attempt[b]] = Contents(b)]
           /\ pc' = [pc EXCEPT ![b] = "rename"]
           /\ UNCHANGED <<at, rd, snap, shown, content, round, target, attempt, report>>
  <2>1. /\ temps' \in [Builders -> [Targets -> [Attempts ->
                          Modules \cup Records \cup {NoFile, Partial}]]]
        /\ \A c \in Builders \ {b} : temps'[c] = temps[c]
        /\ temps'[b][target[b]][attempt[b]] = Contents(b)
    BY <1>1, <1>2, SetTemp, WritingContents DEF WholeInv
  <2>2. TypeOK'
    BY <1>1, <1>2, <2>1 DEF WholeInv, TypeOK, PCs, Writing
  <2>3. TargetsWhole'
    BY <1>1 DEF WholeInv, TargetsWhole
  <2>4. ShapeInv(b)'
    BY <1>1, <1>2, <2>1 DEF WholeInv, TypeOK, ShapeInv, Committed, Writing, Contents
  <2>5. ASSUME NEW c \in Builders, c # b PROVE ShapeInv(c)'
    BY <1>1, <1>2, <2>1, <2>5, ShapeFrame DEF WholeInv, TypeOK
  <2> QED BY <2>2, <2>3, <2>4, <2>5 DEF WholeInv
<1>3. CASE /\ temps' = [temps EXCEPT ![b][target[b]][attempt[b]] = NoFile]
           /\ Finish(b, Rejected)
  BY <1>1, <1>3, FinishWithoutTemp, ReportTypes DEF history
<1> QED BY <1>2, <1>3 DEF FillTemp, locals

LEMMA RenameTempWhole ==
  ASSUME WholeInv, NEW b \in Builders, RenameTemp(b)
  PROVE  WholeInv'
<1>1. /\ pc[b] = "rename" /\ pc[b] \in Writing /\ pc[b] \in Committed
      /\ UNCHANGED <<disk, past, seen>>
      /\ temps' = [temps EXCEPT ![b][target[b]][attempt[b]] = NoFile]
  BY DEF RenameTemp, Writing, Committed
<1>2. CASE /\ file' = [file EXCEPT ![target[b]] = Held(b)[attempt[b]]]
           /\ AfterTarget(b)
           /\ calm' = [c \in Builders |-> IF c = b THEN calm[c] ELSE "disturbed"]
  <2>1. file' = [file EXCEPT ![target[b]] = Contents(b)]
    BY <1>1, <1>2 DEF Held, WholeInv, ShapeInv
  <2>2. file' \in [Targets -> Modules \cup Records \cup {NoFile}]
    BY <1>1, <2>1, WritingContents DEF WholeInv, TypeOK
  <2>3. TargetsWhole'
    <3>1. target[b] \in Targets
      BY DEF WholeInv, TypeOK
    <3> QED BY <1>1, <2>1, <3>1, WritingContents, GenerationAssumption
            DEF WholeInv, TypeOK, TargetsWhole, Targets
  <2>4. calm' \in [Builders -> {"disturbed", "call", "warm"}]
    BY <1>2 DEF WholeInv, TypeOK
  <2>5. /\ temps' \in [Builders -> [Targets -> [Attempts ->
                          Modules \cup Records \cup {NoFile, Partial}]]]
        /\ \A c \in Builders \ {b} : temps'[c] = temps[c]
    BY <1>1, SetTemp DEF WholeInv
  <2> QED BY <1>1, <1>2, <2>2, <2>3, <2>4, <2>5, AfterTargetWhole
<1>3. CASE Finish(b, Rejected) /\ UNCHANGED <<file, calm>>
  BY <1>1, <1>3, FinishWithoutTemp, ReportTypes DEF history
<1> QED BY <1>2, <1>3 DEF RenameTemp

LEMMA NextWhole == WholeInv /\ [Next]_vars => WholeInv'
<1> SUFFICES ASSUME WholeInv, [Next]_vars PROVE WholeInv'
  OBVIOUS
<1>1. CASE Environment
  BY <1>1, EnvironmentWhole
<1>2. ASSUME NEW b \in Builders, Begin(b) PROVE WholeInv'
  BY <1>2, BeginWhole
<1>3. ASSUME NEW b \in Builders, Step(b) PROVE WholeInv'
  <2>1. CASE CargoFatal(b)
    BY <2>1, FinishWhole, ReportTypes DEF CargoFatal
  <2> QED BY <1>3, <2>1, ReadInputWhole, EndSnapshotWhole, VerifyOutputWhole,
             LookupCacheWhole, EndPreviewWhole, EndAfterWhole, CompareOutputWhole,
             StartRecordWhole, CreateTempWhole, FillTempWhole, RenameTempWhole DEF Step
<1>4. CASE UNCHANGED vars
  <2>1. TypeOK'
    BY <1>4 DEF vars, WholeInv, TypeOK
  <2>2. TargetsWhole'
    BY <1>4 DEF vars, WholeInv, TargetsWhole
  <2>3. \A c \in Builders : ShapeInv(c)'
    BY <1>4, ShapeFrame DEF vars, WholeInv
  <2> QED BY <2>1, <2>2, <2>3 DEF WholeInv
<1> QED BY <1>1, <1>2, <1>3, <1>4 DEF Next

THEOREM Whole == Spec => []WholeInv
BY InitWhole, NextWhole, PTL DEF Spec

\* The types, for any number of builds, files and versions.
THEOREM TypeCorrect == Spec => []TypeOK
<1>1. WholeInv => TypeOK
  BY DEF WholeInv
<1> QED BY <1>1, Whole, PTL

\* A killed build or a failed write never leaves a torn module or record, for
\* any number of builds, even when contents recur.
THEOREM AtomicTargets == Spec => []TargetsWhole
<1>1. WholeInv => TargetsWhole
  BY DEF WholeInv
<1> QED BY <1>1, Whole, PTL

-----------------------------------------------------------------------------
(* WarmInv, whatever the inputs do. *)

\* A step of another actor that changes no file leaves what c holds of them; one
\* that changes a file disturbs c.
LEMMA CalmFrame ==
  ASSUME NEW c \in Builders, CalmInv(c),
         pc'[c] = pc[c], at'[c] = at[c], rd'[c] = rd[c], snap'[c] = snap[c],
         shown'[c] = shown[c], content'[c] = content[c], target'[c] = target[c],
         report'[c] = report[c], calm'[c] \in {calm[c], "disturbed"},
         calm'[c] # "disturbed" => UNCHANGED <<disk, file>>
  PROVE  CalmInv(c)'
BY DEF CalmInv, Fresh

\* A call that returns r leaves a module and a record when it says so.
LEMMA FinishCalm ==
  ASSUME WholeInv, WarmInv, NEW b \in Builders, NEW r, Finish(b, r),
         UNCHANGED <<disk, file, calm>>,
         r.outcome = "generated" /\ calm[b] # "disturbed" => Fresh(b)
  PROVE  WarmInv'
<1>1. CalmInv(b)'
  <2>1. pc'[b] = "idle" /\ at'[b] = 1 /\ report'[b] = r
    BY DEF Finish, StartPass, WholeInv, TypeOK
  <2>2. Fresh(b) => Fresh(b)'
    BY DEF Fresh
  <2>3. CalmInv(b)
    BY DEF WarmInv
  <2> QED BY <2>1, <2>2, <2>3 DEF CalmInv, Passes, Committed, Writing
<1>2. ASSUME NEW c \in Builders, c # b PROVE CalmInv(c)'
  BY <1>2, CalmFrame DEF WarmInv, WholeInv, TypeOK, Finish, StartPass
<1> QED BY <1>1, <1>2 DEF WarmInv

LEMMA RejectCalm ==
  ASSUME WholeInv, WarmInv, NEW b \in Builders, Finish(b, Rejected),
         UNCHANGED <<disk, file, calm>>
  PROVE  WarmInv'
BY FinishCalm DEF Rejected

\* What remains of a step of b that is not its last and changes no file: b itself.
LEMMA StepCalm ==
  ASSUME WholeInv, WarmInv, NEW b \in Builders, CalmInv(b)',
         UNCHANGED <<disk, file, calm, report>>,
         \A c \in Builders \ {b} :
           /\ pc'[c] = pc[c] /\ at'[c] = at[c] /\ rd'[c] = rd[c] /\ snap'[c] = snap[c]
           /\ shown'[c] = shown[c] /\ content'[c] = content[c] /\ target'[c] = target[c]
  PROVE  WarmInv'
BY CalmFrame DEF WarmInv

LEMMA EnvironmentCalm ==
  ASSUME WholeInv, WarmInv, Environment
  PROVE  WarmInv'
<1>1. ASSUME NEW b \in Builders, Crash(b) PROVE WarmInv'
  BY <1>1, FinishCalm DEF Crash, NoReport, files, history
<1>2. ASSUME Disturb PROVE WarmInv'
  BY <1>2 DEF Disturb, WarmInv, CalmInv
<1> QED BY <1>1, <1>2 DEF Environment, EditInput, TamperOutput, LoseCache

LEMMA BeginCalm ==
  ASSUME WholeInv, WarmInv, NEW b \in Builders, Begin(b)
  PROVE  WarmInv'
<1>1. /\ pc[b] = "idle" /\ pc'[b] = "snapshot" /\ at'[b] = 1
      /\ UNCHANGED <<disk, file>>
      /\ calm'[b] = IF \/ calm[b] = "call" /\ report[b].outcome = "generated"
                       \/ calm[b] = "warm" /\ Success(b)
                    THEN "warm" ELSE "call"
  BY DEF Begin, StartPass, files, WholeInv, TypeOK
<1>2. CalmInv(b)'
  <2>1. CalmInv(b)
    BY DEF WarmInv
  <2>2. calm'[b] = "warm" /\ CacheOf[b] # NoCache => Fresh(b)'
    BY <1>1, <2>1 DEF CalmInv, Fresh
  <2>3. calm'[b] # "disturbed" => \A f \in Files : f < at'[b] => rd'[b][f] = disk'[f]
    BY <1>1 DEF Files
  <2> QED BY <1>1, <2>2, <2>3 DEF CalmInv, Committed, Writing
<1>3. ASSUME NEW c \in Builders, c # b PROVE CalmInv(c)'
  BY <1>3, CalmFrame DEF Begin, StartPass, files, WarmInv, WholeInv, TypeOK
<1> QED BY <1>2, <1>3 DEF WarmInv

LEMMA ReadInputCalm ==
  ASSUME WholeInv, WarmInv, NEW b \in Builders, ReadInput(b)
  PROVE  WarmInv'
<1>1. /\ UNCHANGED <<disk, file, calm, report, pc, snap, shown, content, target>>
      /\ pc[b] \in Passes
      /\ at[b] \in Files
      /\ rd'[b] = [rd[b] EXCEPT ![at[b]] = disk[at[b]]]
      /\ at'[b] = at[b] + 1
      /\ \A c \in Builders \ {b} : at'[c] = at[c] /\ rd'[c] = rd[c]
      /\ rd[b] \in Vectors
  BY DEF ReadInput, files, history, WholeInv, TypeOK
<1>2. CalmInv(b)'
  <2>1. CalmInv(b)
    BY DEF WarmInv
  <2>2. calm[b] # "disturbed" => \A f \in Files : f < at'[b] => rd'[b][f] = disk'[f]
    <3> SUFFICES ASSUME calm[b] # "disturbed", NEW f \in Files, f < at[b] + 1
                 PROVE  rd'[b][f] = disk[f]
      BY <1>1
    <3>1. CASE f = at[b]
      BY <1>1, <3>1 DEF Vectors
    <3>2. CASE f # at[b]
      <4>1. f < at[b]
        BY <1>1, <3>2, GenerationAssumption DEF Files
      <4> QED BY <1>1, <2>1, <3>2, <4>1 DEF CalmInv, Vectors
    <3> QED BY <3>1, <3>2
  <2> QED BY <1>1, <2>1, <2>2 DEF CalmInv, Fresh
<1> QED BY <1>1, <1>2, StepCalm

\* An undisturbed pass that is over has read the files on disk.
LEMMA CalmPass ==
  ASSUME WholeInv, NEW b \in Builders, CalmInv(b), NEW p \in Passes, PassRead(b, p),
         calm[b] # "disturbed"
  PROVE  rd[b] = disk
<1>1. \A f \in Files : rd[b][f] = disk[f]
  BY GenerationAssumption DEF PassRead, CalmInv, Files
<1> QED BY <1>1 DEF WholeInv, TypeOK, Vectors

LEMMA EndSnapshotCalm ==
  ASSUME WholeInv, WarmInv, NEW b \in Builders, EndSnapshot(b)
  PROVE  WarmInv'
<1>1. UNCHANGED <<disk, file, calm>>
  BY DEF EndSnapshot, files, history
<1>2. CASE ~ Loads(rd[b])
  BY <1>1, <1>2, RejectCalm DEF EndSnapshot
<1>3. CASE Loads(rd[b])
  <2>1. /\ snap' = [snap EXCEPT ![b] = rd[b]]
        /\ StartPass(b, IF CacheOf[b] = NoCache THEN "preview" ELSE "verify")
        /\ UNCHANGED <<shown, content, target, report>>
        /\ PassRead(b, "snapshot")
    BY <1>3 DEF EndSnapshot
  <2>2. /\ pc'[b] = IF CacheOf[b] = NoCache THEN "preview" ELSE "verify"
        /\ at'[b] = 1 /\ snap'[b] = rd[b]
    BY <2>1 DEF StartPass, WholeInv, TypeOK
  <2>3. CalmInv(b) /\ (calm[b] # "disturbed" => rd[b] = disk)
    BY <2>1, CalmPass DEF WarmInv, Passes
  <2>4. Fresh(b) => Fresh(b)'
    BY <1>1 DEF Fresh
  <2>5. CalmInv(b)'
    BY <1>1, <2>2, <2>3, <2>4 DEF CalmInv, Passes, Committed, Writing, Files
  <2> QED BY <1>1, <2>1, <2>5, StepCalm DEF StartPass, WholeInv, TypeOK
<1> QED BY <1>2, <1>3

LEMMA VerifyOutputCalm ==
  ASSUME WholeInv, WarmInv, NEW b \in Builders, VerifyOutput(b)
  PROVE  WarmInv'
<1>1. /\ UNCHANGED <<disk, file, calm, report, snap, shown, target>>
      /\ pc[b] = "verify"
  BY DEF VerifyOutput, files, history
<1>2. CalmInv(b)
  BY DEF WarmInv
<1>3. Fresh(b) => Fresh(b)'
  BY <1>1 DEF Fresh
<1>4. disk \in Vectors /\ (calm[b] # "disturbed" => snap[b] = disk)
  BY <1>1, <1>2 DEF CalmInv, WholeInv, TypeOK
<1>5. \A c \in Builders \ {b} :
        /\ pc'[c] = pc[c] /\ at'[c] = at[c] /\ rd'[c] = rd[c] /\ content'[c] = content[c]
  BY DEF VerifyOutput, StartPass, WholeInv, TypeOK
<1>6. calm[b] = "warm" /\ CacheOf[b] # NoCache =>
        /\ file[OutputFile] = Finalized(disk, Render(disk))
        /\ Verified(file[OutputFile], snap[b])
  <2>1. Finalized(disk, Render(disk)) \notin {NoFile, Partial}
    BY <1>4, FilesDiffer
  <2>2. /\ Finalized(disk, Render(disk)).input = disk
        /\ Finalized(disk, Render(disk)).content = Finalized(disk, Render(disk)).body
    BY DEF Finalized
  <2> QED BY <1>1, <1>2, <1>4, <2>1, <2>2 DEF CalmInv, Fresh, Verified
<1>7. CalmInv(b)'
  <2>1. CASE Verified(file[OutputFile], snap[b])
    <3>1. pc'[b] = "lookup" /\ content'[b] = file[OutputFile].body
      BY <2>1 DEF VerifyOutput, WholeInv, TypeOK
    <3>2. calm[b] = "warm" /\ CacheOf[b] # NoCache => content'[b] = Render(disk)
      BY <1>6, <3>1 DEF Finalized
    <3> QED BY <1>1, <1>2, <1>3, <1>4, <3>1, <3>2
        DEF CalmInv, Passes, Committed, Writing
  <2>2. CASE ~ Verified(file[OutputFile], snap[b])
    <3>1. pc'[b] = "preview" /\ at'[b] = 1
      BY <2>2 DEF VerifyOutput, StartPass, WholeInv, TypeOK
    <3> QED BY <1>1, <1>2, <1>4, <1>6, <2>2, <3>1
        DEF CalmInv, Committed, Writing, Files
  <2> QED BY <2>1, <2>2
<1> QED BY <1>1, <1>5, <1>7, StepCalm

LEMMA LookupCacheCalm ==
  ASSUME WholeInv, WarmInv, NEW b \in Builders, LookupCache(b)
  PROVE  WarmInv'
<1>1. UNCHANGED <<disk, file, calm>> /\ pc[b] = "lookup"
  BY DEF LookupCache, files, history
<1>2. CASE Hit(file[CacheOf[b]], snap[b], content[b])
  <2>1. \/ Finish(b, Rejected)
        \/ Finish(b, [outcome |-> "cached", input |-> snap[b],
                      run |-> file[CacheOf[b]].run])
    BY <1>2 DEF LookupCache
  <2> QED BY <1>1, <2>1, RejectCalm, FinishCalm
<1>3. CASE ~ Hit(file[CacheOf[b]], snap[b], content[b])
  <2>1. /\ StartPass(b, "preview")
        /\ content' = [content EXCEPT ![b] = NoFile]
        /\ UNCHANGED <<snap, shown, target, report>>
    BY <1>3 DEF LookupCache
  <2>2. CalmInv(b) /\ disk \in Vectors
    BY DEF WarmInv, WholeInv, TypeOK
  <2>3. calm[b] = "warm" => CacheOf[b] = NoCache
    <3> SUFFICES ASSUME calm[b] = "warm", CacheOf[b] # NoCache PROVE FALSE
      OBVIOUS
    <3>1. /\ file[CacheOf[b]] = Record(disk, disk)
          /\ snap[b] = disk /\ content[b] = Render(disk)
      BY <1>1, <2>2 DEF CalmInv, Fresh
    <3>2. Record(disk, disk) # NoFile
      BY <2>2, FilesDiffer
    <3> QED BY <1>3, <3>1, <3>2 DEF Hit, Record
  <2>4. pc'[b] = "preview" /\ at'[b] = 1
    BY <2>1 DEF StartPass, WholeInv, TypeOK
  <2>5. CalmInv(b)'
    BY <1>1, <2>1, <2>2, <2>3, <2>4 DEF CalmInv, Committed, Writing, Files
  <2> QED BY <1>1, <2>1, <2>5, StepCalm DEF StartPass, WholeInv, TypeOK
<1> QED BY <1>2, <1>3

LEMMA EndPreviewCalm ==
  ASSUME WholeInv, WarmInv, NEW b \in Builders, EndPreview(b)
  PROVE  WarmInv'
<1>1. UNCHANGED <<disk, file, calm>> /\ PassRead(b, "preview") /\ pc[b] = "preview"
  BY DEF EndPreview, PassRead, files, history
<1>2. CASE Finish(b, Rejected)
  BY <1>1, <1>2, RejectCalm
<1>3. CASE ~ Finish(b, Rejected)
  <2>1. /\ shown' = [shown EXCEPT ![b] = rd[b]]
        /\ content' = [content EXCEPT ![b] = Render(rd[b])]
        /\ StartPass(b, "after")
        /\ UNCHANGED <<snap, target, report>>
    BY <1>3 DEF EndPreview
  <2>2. /\ pc'[b] = "after" /\ at'[b] = 1
        /\ shown'[b] = rd[b] /\ content'[b] = Render(rd[b])
    BY <2>1 DEF StartPass, WholeInv, TypeOK
  <2>3. CalmInv(b) /\ (calm[b] # "disturbed" => rd[b] = disk)
    BY <1>1, CalmPass DEF WarmInv, Passes
  <2>4. CalmInv(b)'
    BY <1>1, <2>1, <2>2, <2>3 DEF CalmInv, Committed, Writing, Files
  <2> QED BY <1>1, <2>1, <2>4, StepCalm DEF StartPass, WholeInv, TypeOK
<1> QED BY <1>2, <1>3

LEMMA EndAfterCalm ==
  ASSUME WholeInv, WarmInv, NEW b \in Builders, EndAfter(b)
  PROVE  WarmInv'
<1>1. UNCHANGED <<disk, file, calm>> /\ PassRead(b, "after") /\ pc[b] = "after"
  BY DEF EndAfter, PassRead, files, history
<1>2. CASE Finish(b, Rejected)
  BY <1>1, <1>2, RejectCalm
<1>3. CASE ~ Finish(b, Rejected)
  <2>1. CalmInv(b) /\ (calm[b] # "disturbed" => rd[b] = disk /\ snap[b] = disk)
    <3>1. calm[b] # "disturbed" => rd[b] = disk
      BY <1>1, CalmPass DEF WarmInv, Passes
    <3> QED BY <1>1, <3>1 DEF WarmInv, CalmInv
  <2>2. /\ UNCHANGED <<target, report>>
        /\ \/ rd[b] # snap[b] /\ pc'[b] = "preview"
           \/ rd[b] = snap[b] /\ pc'[b] = "output" /\ UNCHANGED <<snap, shown, content>>
        /\ \A c \in Builders \ {b} :
             /\ pc'[c] = pc[c] /\ at'[c] = at[c] /\ rd'[c] = rd[c] /\ snap'[c] = snap[c]
             /\ shown'[c] = shown[c] /\ content'[c] = content[c]
    BY <1>3 DEF EndAfter, StartPass, WholeInv, TypeOK
  <2>3. target[b] = OutputFile
    BY <1>1 DEF WholeInv, ShapeInv, Writing
  <2>4. CalmInv(b)'
    BY <1>1, <2>1, <2>2, <2>3 DEF CalmInv, Passes, Committed, Writing
  <2> QED BY <1>1, <2>2, <2>4, StepCalm
<1> QED BY <1>2, <1>3

\* What an undisturbed build writes is the module or the record of the inputs on disk.
LEMMA CalmContents ==
  ASSUME WholeInv, WarmInv, NEW b \in Builders, pc[b] \in Committed, calm[b] # "disturbed"
  PROVE  /\ Contents(b) = IF target[b] = OutputFile THEN Finalized(disk, Render(disk))
                                                    ELSE Record(disk, disk)
         /\ CacheOf[b] # NoCache => calm[b] # "warm"
BY DEF WarmInv, CalmInv, Contents, Committed, Writing

LEMMA CompareOutputCalm ==
  ASSUME WholeInv, WarmInv, NEW b \in Builders, CompareOutput(b)
  PROVE  WarmInv'
<1>1. /\ UNCHANGED <<disk, file, calm>>
      /\ pc[b] = "output" /\ pc[b] \in Committed /\ target[b] = OutputFile
  BY DEF CompareOutput, files, history, WholeInv, ShapeInv, Writing, Committed
<1>2. CalmInv(b)
  BY DEF WarmInv
<1>3. /\ UNCHANGED <<at, rd, snap, shown, content, target, report>>
      /\ \A c \in Builders \ {b} : pc'[c] = pc[c]
      /\ \/ pc'[b] = "record" /\ file[OutputFile] = Contents(b)
         \/ pc'[b] = "create"
  BY <1>1 DEF CompareOutput, AfterTarget, locals, WholeInv, TypeOK
<1>4. CalmInv(b)'
  BY <1>1, <1>2, <1>3, CalmContents DEF CalmInv, Passes, Committed, Writing
<1> QED BY <1>1, <1>3, <1>4, StepCalm

LEMMA StartRecordCalm ==
  ASSUME WholeInv, WarmInv, NEW b \in Builders, StartRecord(b)
  PROVE  WarmInv'
<1>1. UNCHANGED <<disk, file, calm>> /\ pc[b] = "record"
  BY DEF StartRecord, files, history
<1>2. CalmInv(b)
  BY DEF WarmInv
<1>3. CASE CacheOf[b] = NoCache
  <2>1. calm[b] # "disturbed" => Fresh(b)
    BY <1>1, <1>2, <1>3 DEF CalmInv, Fresh
  <2> QED BY <1>1, <1>3, <2>1, FinishCalm DEF StartRecord
<1>4. CASE CacheOf[b] # NoCache
  <2>1. /\ target'[b] # NoCache
        /\ UNCHANGED <<at, rd, snap, shown, content, report>>
        /\ pc'[b] = "create"
        /\ \A c \in Builders \ {b} : pc'[c] = pc[c] /\ target'[c] = target[c]
    BY <1>4 DEF StartRecord, WholeInv, TypeOK
  <2>2. CalmInv(b)'
    BY <1>1, <1>2, <1>4, <2>1 DEF CalmInv, Passes, Committed, Writing
  <2> QED BY <1>1, <2>1, <2>2, StepCalm
<1> QED BY <1>3, <1>4

LEMMA TempCalm ==
  ASSUME WholeInv, WarmInv, NEW b \in Builders, CreateTemp(b) \/ FillTemp(b)
  PROVE  WarmInv'
<1>1. UNCHANGED <<disk, file, calm>> /\ pc[b] \in {"create", "fill"}
  BY DEF CreateTemp, FillTemp, history
<1>2. CASE Finish(b, Rejected)
  BY <1>1, <1>2, RejectCalm
<1>3. CASE ~ Finish(b, Rejected)
  <2>1. /\ UNCHANGED <<at, rd, snap, shown, content, target, report>>
        /\ pc'[b] \in Writing
        /\ \A c \in Builders \ {b} : pc'[c] = pc[c]
    BY <1>3 DEF CreateTemp, FillTemp, locals, Writing, WholeInv, TypeOK
  <2>2. CalmInv(b)
    BY DEF WarmInv
  <2>3. CalmInv(b)'
    BY <1>1, <2>1, <2>2 DEF CalmInv, Passes, Committed, Writing
  <2> QED BY <1>1, <2>1, <2>3, StepCalm
<1> QED BY <1>2, <1>3

LEMMA RenameTempCalm ==
  ASSUME WholeInv, WarmInv, NEW b \in Builders, RenameTemp(b)
  PROVE  WarmInv'
<1>1. pc[b] = "rename" /\ pc[b] \in Committed /\ UNCHANGED disk
  BY DEF RenameTemp, Committed, Writing
<1>2. CASE Finish(b, Rejected) /\ UNCHANGED <<file, calm>>
  BY <1>1, <1>2, RejectCalm
<1>3. CASE /\ file' = [file EXCEPT ![target[b]] = Held(b)[attempt[b]]]
           /\ AfterTarget(b)
           /\ calm' = [c \in Builders |-> IF c = b THEN calm[c] ELSE "disturbed"]
  <2>1. /\ file' = [file EXCEPT ![target[b]] = Contents(b)]
        /\ target[b] \in {OutputFile, CacheOf[b]}
        /\ target[b] \in Targets
        /\ file \in [Targets -> Modules \cup Records \cup {NoFile}]
        /\ OutputFile \in Targets
    BY <1>1, <1>3 DEF Held, WholeInv, ShapeInv, TypeOK, Targets, Writing
  <2>2. CalmInv(b) /\ calm'[b] = calm[b]
    BY <1>3 DEF WarmInv
  <2>3. CalmInv(b)'
    <3>1. CASE calm[b] = "disturbed"
      BY <2>2, <3>1 DEF CalmInv
    <3>2. CASE calm[b] # "disturbed" /\ target[b] = OutputFile
      <4>1. /\ UNCHANGED <<at, rd, snap, shown, content, target, report>>
            /\ pc'[b] = "record"
        BY <1>3, <3>2 DEF AfterTarget, locals, WholeInv, TypeOK
      <4>2. /\ file'[OutputFile] = Finalized(disk, Render(disk))
            /\ CacheOf[b] # NoCache => calm[b] # "warm"
        BY <1>1, <2>1, <3>2, CalmContents
      <4> QED BY <1>1, <2>2, <4>1, <4>2 DEF CalmInv, Passes, Committed, Writing
    <3>3. CASE calm[b] # "disturbed" /\ target[b] # OutputFile
      <4>1. pc'[b] = "idle" /\ at'[b] = 1
        BY <1>3, <3>3 DEF AfterTarget, Finish, StartPass, WholeInv, TypeOK
      <4>2. /\ file'[OutputFile] = Finalized(disk, Render(disk))
            /\ file'[CacheOf[b]] = Record(disk, disk)
        BY <1>1, <2>1, <2>2, <3>3, CalmContents DEF CalmInv, Writing
      <4>3. Fresh(b)'
        BY <1>1, <4>2 DEF Fresh
      <4> QED BY <4>1, <4>3 DEF CalmInv, Passes, Committed, Writing, Files
    <3> QED BY <3>1, <3>2, <3>3
  <2>4. ASSUME NEW c \in Builders, c # b PROVE CalmInv(c)'
    BY <1>3, <2>4 DEF CalmInv
  <2> QED BY <2>3, <2>4 DEF WarmInv
<1> QED BY <1>2, <1>3 DEF RenameTemp

LEMMA NextWarm == WholeInv /\ WarmInv /\ [Next]_vars => WarmInv'
<1> SUFFICES ASSUME WholeInv, WarmInv, [Next]_vars PROVE WarmInv'
  OBVIOUS
<1>1. CASE Environment
  BY <1>1, EnvironmentCalm
<1>2. ASSUME NEW b \in Builders, Begin(b) PROVE WarmInv'
  BY <1>2, BeginCalm
<1>3. ASSUME NEW b \in Builders, Step(b) PROVE WarmInv'
  <2>1. CASE CargoFatal(b)
    BY <2>1, RejectCalm DEF CargoFatal, files, history
  <2> QED BY <1>3, <2>1, ReadInputCalm, EndSnapshotCalm, VerifyOutputCalm,
             LookupCacheCalm, EndPreviewCalm, EndAfterCalm, CompareOutputCalm,
             StartRecordCalm, TempCalm, RenameTempCalm DEF Step
<1>4. CASE UNCHANGED vars
  BY <1>4 DEF vars, WarmInv, CalmInv, Fresh
<1> QED BY <1>1, <1>2, <1>3, <1>4 DEF Next

\* A call with a cache that finds nothing changed since a call that generated
\* returns without rendering, for any number of builds and files, even when
\* contents recur.
THEOREM WarmCallsAreCached == Spec => []WarmCallIsCached
<1>1. Init => WarmInv
  BY DEF Init, WarmInv, CalmInv
<1>2. WarmInv => WarmCallIsCached
  BY DEF WarmInv, CalmInv, WarmCallIsCached, Committed
<1> QED BY <1>1, <1>2, NextWarm, Whole, PTL DEF Spec

-----------------------------------------------------------------------------
(* IInv, when contents never recur. *)

LEMMA LeqAntisymmetric ==
  ASSUME NEW u \in Vectors, NEW v \in Vectors, Leq(u, v), Leq(v, u)
  PROVE  u = v
<1>1. \A f \in Files : u[f] = v[f]
  BY GenerationAssumption DEF Leq, Vectors
<1> QED BY <1>1 DEF Vectors

LEMMA LeqTransitive ==
  ASSUME NEW u \in Vectors, NEW v \in Vectors, NEW w \in Vectors, Leq(u, v), Leq(v, w)
  PROVE  Leq(u, w)
BY GenerationAssumption DEF Leq, Vectors

LEMMA LeqReflexive == ASSUME NEW v \in Vectors PROVE Leq(v, v)
BY GenerationAssumption DEF Leq, Vectors

LEMMA AgreeOnAll ==
  ASSUME NEW u \in Vectors, NEW v \in Vectors, Agree(u, v, NumFiles)
  PROVE  u = v
<1>1. \A f \in Files : u[f] = v[f]
  BY GenerationAssumption DEF Agree, Files
<1> QED BY <1>1 DEF Vectors

\* What IInv says of one call.
CallInv(b) == SnapshotInv(b) /\ PreviewInv(b) /\ CommitInv(b)
DataInv == HistoryInv /\ FilesInv /\ OneInstant /\ \A b \in Builders : CallInv(b)

LEMMA IInvParts == IInv <=> WholeInv /\ DataInv
BY DEF IInv, DataInv, CallInv

LEMMA InitData == Init => DataInv
<1> SUFFICES ASSUME Init PROVE DataInv
  OBVIOUS
<1>1. HistoryInv
  BY NoVectorType, LeqReflexive DEF Init, HistoryInv
<1>2. FilesInv
  BY DEF Init, FilesInv, Targets
<1>3. OneInstant
  BY DEF Init, OneInstant, Success, NoReport
<1>4. ASSUME NEW b \in Builders PROVE CallInv(b)
  BY DEF Init, CallInv, SnapshotInv, PreviewInv, CommitInv, Committed, Writing
<1> QED BY <1>1, <1>2, <1>3, <1>4 DEF DataInv

\* Steps that edit no input and begin no call keep the histories.
LEMMA HistoryFrame ==
  ASSUME HistoryInv, disk' = disk, past' = past, seen' = seen,
         \A c \in Builders : pc'[c] # "idle" => pc[c] # "idle"
  PROVE  HistoryInv'
BY DEF HistoryInv

LEMMA CallFrame ==
  ASSUME NEW c \in Builders, CallInv(c), disk' = disk, past' = past, seen'[c] = seen[c],
         pc'[c] = pc[c], at'[c] = at[c], rd'[c] = rd[c], snap'[c] = snap[c],
         shown'[c] = shown[c], content'[c] = content[c]
  PROVE  CallInv(c)'
<1>1. SnapshotInv(c)'
  BY DEF CallInv, SnapshotInv
<1>2. PreviewInv(c)'
  BY DEF CallInv, PreviewInv
<1>3. CommitInv(c)'
  BY DEF CallInv, CommitInv
<1> QED BY <1>1, <1>2, <1>3 DEF CallInv

LEMMA FilesFrame ==
  ASSUME FilesInv, file' = file, past \subseteq past'
  PROVE  FilesInv'
BY DEF FilesInv

LEMMA InstantFrame ==
  ASSUME OneInstant, report' = report,
         \A b \in Builders : Success(b) => seen[b] \subseteq seen'[b]
  PROVE  OneInstant'
BY DEF OneInstant, Success

\* A call that returns r leaves the invariant, if r is about one instant.
LEMMA FinishData ==
  ASSUME WholeInv, DataInv, NEW b \in Builders, NEW r, Finish(b, r),
         disk' = disk, past' = past, seen' = seen, FilesInv',
         r.outcome \in {"cached", "generated"} => r.input \in seen[b] /\ r.run = r.input
  PROVE  DataInv'
<1>1. /\ pc' = [pc EXCEPT ![b] = "idle"]
      /\ report' = [report EXCEPT ![b] = r]
      /\ \A c \in Builders : c # b =>
           /\ at'[c] = at[c] /\ rd'[c] = rd[c] /\ snap'[c] = snap[c]
           /\ shown'[c] = shown[c] /\ content'[c] = content[c]
  BY DEF Finish, StartPass, WholeInv, TypeOK
<1>2. HistoryInv'
  BY <1>1, HistoryFrame DEF DataInv, WholeInv, TypeOK
<1>3. OneInstant'
  BY <1>1 DEF DataInv, OneInstant, Success, WholeInv, TypeOK
<1>4. CallInv(b)'
  BY <1>1 DEF WholeInv, TypeOK, CallInv, SnapshotInv, PreviewInv, CommitInv, Committed,
     Writing
<1>5. ASSUME NEW c \in Builders, c # b PROVE CallInv(c)'
  BY <1>1, <1>5, CallFrame DEF WholeInv, TypeOK, DataInv
<1> QED BY <1>2, <1>3, <1>4, <1>5 DEF DataInv

\* A call that goes on, touching no file.
LEMMA GoOnData ==
  ASSUME WholeInv, DataInv, NEW b \in Builders, pc[b] # "idle",
         disk' = disk, past' = past, seen' = seen, file' = file, report' = report,
         \A c \in Builders : c # b =>
           /\ pc'[c] = pc[c] /\ at'[c] = at[c] /\ rd'[c] = rd[c] /\ snap'[c] = snap[c]
           /\ shown'[c] = shown[c] /\ content'[c] = content[c],
         CallInv(b)'
  PROVE  DataInv'
<1>1. HistoryInv'
  BY HistoryFrame DEF DataInv
<1>2. FilesInv'
  BY FilesFrame DEF DataInv
<1>3. OneInstant'
  BY InstantFrame DEF DataInv
<1>4. ASSUME NEW c \in Builders, c # b PROVE CallInv(c)'
  BY <1>4, CallFrame DEF DataInv
<1> QED BY <1>1, <1>2, <1>3, <1>4 DEF DataInv

LEMMA Entry == ASSUME NEW v \in Vectors, NEW f \in Files PROVE v[f] \in Int
BY GenerationAssumption DEF Vectors

\* Contents that never recur only move forward.
LEMMA EditFacts ==
  ASSUME WholeInv, Recurs = FALSE, NEW f \in Files, EditInput(f)
  PROVE  /\ disk' \in Vectors
         /\ Leq(disk, disk')
         /\ past' = past \cup {disk'}
         /\ \A b \in Builders :
              seen'[b] = IF pc[b] # "idle" THEN seen[b] \cup {disk'} ELSE seen[b]
         /\ UNCHANGED <<file, pc, at, rd, snap, shown, content, report>>
<1>1. /\ disk[f] + 1 \in 0..MaxVersion
      /\ disk' = [disk EXCEPT ![f] = disk[f] + 1]
  BY DEF EditInput
<1>2. disk \in Vectors
  BY DEF WholeInv, TypeOK
<1>3. disk' \in Vectors
  BY <1>1, <1>2 DEF Vectors
<1>4. ASSUME NEW g \in Files PROVE disk[g] <= disk'[g]
  <2>1. disk[g] \in Int
    BY <1>2, Entry
  <2>2. disk'[g] = IF g = f THEN disk[g] + 1 ELSE disk[g]
    BY <1>1, <1>2 DEF Vectors
  <2> QED BY <2>1, <2>2
<1>5. Leq(disk, disk')
  BY <1>4 DEF Leq
<1> QED BY <1>3, <1>5 DEF EditInput, files, locals

LEMMA EditInputData ==
  ASSUME WholeInv, DataInv, Recurs = FALSE, NEW f \in Files, EditInput(f)
  PROVE  DataInv'
<1>1. /\ disk' \in Vectors
      /\ Leq(disk, disk')
      /\ past' = past \cup {disk'}
      /\ \A b \in Builders :
           seen'[b] = IF pc[b] # "idle" THEN seen[b] \cup {disk'} ELSE seen[b]
      /\ UNCHANGED <<file, pc, at, rd, snap, shown, content, report>>
  BY EditFacts
<1>2. /\ disk \in Vectors /\ past \subseteq Vectors
      /\ \A b \in Builders : seen[b] \subseteq past /\ rd[b] \in Vectors
                             /\ snap[b] \in Vectors /\ shown[b] \in Vectors
  BY DEF WholeInv, TypeOK, DataInv, HistoryInv
<1>3. \A v \in past : Leq(v, disk) /\ Leq(v, disk')
  BY <1>1, <1>2, LeqTransitive DEF DataInv, HistoryInv
<1>4. HistoryInv'
  <2>1. \A v \in past' : Leq(v, disk')
    BY <1>1, <1>3, LeqReflexive
  <2>2. \A u, v \in past' : Leq(u, v) \/ Leq(v, u)
    BY <1>1, <1>3, LeqReflexive DEF DataInv, HistoryInv
  <2>3. ASSUME NEW b \in Builders
        PROVE  /\ seen'[b] \subseteq past'
               /\ pc'[b] # "idle" =>
                    /\ disk' \in seen'[b]
                    /\ \A p \in past' : \A q \in seen'[b] : Leq(q, p) => p \in seen'[b]
    <3>1. seen'[b] \subseteq past'
      BY <1>1, <1>2
    <3>2. ASSUME pc[b] # "idle", NEW p \in past, NEW q \in seen[b] \cup {disk'}, Leq(q, p)
          PROVE  p \in seen'[b]
      <4>1. CASE q \in seen[b]
        BY <1>1, <3>2, <4>1 DEF DataInv, HistoryInv
      <4>2. CASE q = disk'
        BY <1>1, <1>2, <1>3, <3>2, <4>2, LeqAntisymmetric
      <4> QED BY <3>2, <4>1, <4>2
    <3> QED BY <1>1, <3>1, <3>2
  <2> QED BY <1>1, <2>1, <2>2, <2>3 DEF HistoryInv
<1>5. FilesInv'
  BY <1>1, FilesFrame DEF DataInv
<1>6. OneInstant'
  BY <1>1, InstantFrame DEF DataInv
<1>7. ASSUME NEW b \in Builders PROVE CallInv(b)'
  <2>1. seen[b] \subseteq seen'[b]
    BY <1>1
  <2>2. \A g \in Files : disk[g] \in Int /\ disk'[g] \in Int /\ rd[b][g] \in Int
                         /\ disk[g] <= disk'[g]
    BY <1>1, <1>2, Entry DEF Leq
  <2>3. \A v \in Vectors : Leq(v, disk) => Leq(v, disk')
    BY <1>1, <1>2, LeqTransitive
  <2>4. SnapshotInv(b)'
    <3>1. ASSUME pc[b] = "snapshot"
          PROVE  /\ \A g \in Files : g < at[b] => rd[b][g] <= disk'[g]
                 /\ \A p \in past' : Agree(p, rd[b], at[b] - 1) =>
                      \E q \in seen'[b] : Agree(q, rd[b], at[b] - 1)
      <4>1. \A g \in Files : g < at[b] => rd[b][g] <= disk'[g]
        BY <2>2, <3>1 DEF DataInv, CallInv, SnapshotInv
      <4>2. disk' \in seen'[b]
        BY <1>1, <3>1
      <4> QED BY <1>1, <2>1, <3>1, <4>1, <4>2 DEF DataInv, CallInv, SnapshotInv
    <3>2. ASSUME pc[b] = "verify"
          PROVE  Leq(snap[b], disk') /\ (snap[b] \in past' => snap[b] \in seen'[b])
      BY <1>1, <1>2, <2>1, <2>3, <3>2 DEF DataInv, CallInv, SnapshotInv
    <3>3. pc[b] = "lookup" => Leq(snap[b], disk')
      BY <1>2, <2>3 DEF DataInv, CallInv, SnapshotInv
    <3> QED BY <1>1, <3>1, <3>2, <3>3 DEF SnapshotInv, Agree, Leq
  <2>5. PreviewInv(b)'
    <3>1. ASSUME pc[b] = "preview"
          PROVE  \E m \in seen'[b] :
                   /\ Leq(snap[b], m)
                   /\ \A g \in Files : g < at[b] => m[g] <= rd[b][g] /\ rd[b][g] <= disk'[g]
      BY <2>1, <2>2, <3>1 DEF DataInv, CallInv, PreviewInv
    <3>2. ASSUME pc[b] = "after"
          PROVE  \E m \in seen'[b] :
                   /\ Leq(snap[b], m)
                   /\ Leq(m, shown[b])
                   /\ Leq(shown[b], disk')
                   /\ \A g \in Files : g < at[b] =>
                        shown[b][g] <= rd[b][g] /\ rd[b][g] <= disk'[g]
      BY <1>2, <2>1, <2>2, <2>3, <3>2 DEF DataInv, CallInv, PreviewInv
    <3> QED BY <1>1, <3>1, <3>2 DEF PreviewInv, Leq
  <2>6. CommitInv(b)'
    BY <1>1, <2>1 DEF DataInv, CallInv, CommitInv
  <2> QED BY <2>4, <2>5, <2>6 DEF CallInv
<1> QED BY <1>4, <1>5, <1>6, <1>7 DEF DataInv

LEMMA ReplaceOutput ==
  ASSUME WholeInv, FilesInv, past' = past, NEW m, file' = [file EXCEPT ![OutputFile] = m],
         m # NoFile => /\ m.input \in past
                       /\ Accepts(m.input)
                       /\ m.content = Render(m.input)
                       /\ m.body \in {m.content, Edited}
  PROVE  FilesInv'
<1>1. file'[OutputFile] = m /\ \A c \in Caches : file'[c] = file[c]
  BY GenerationAssumption DEF WholeInv, TypeOK, Targets
<1> QED BY <1>1 DEF FilesInv

LEMMA ReplaceRecord ==
  ASSUME WholeInv, FilesInv, past' = past, NEW c \in Caches, NEW m,
         file' = [file EXCEPT ![c] = m],
         m # NoFile => \E v \in Vectors : m = Record(v, v)
  PROVE  FilesInv'
<1>1. /\ file'[OutputFile] = file[OutputFile]
      /\ \A d \in Caches : file'[d] = IF d = c THEN m ELSE file[d]
  BY GenerationAssumption DEF WholeInv, TypeOK, Targets
<1> QED BY <1>1 DEF FilesInv

\* A step that changes target paths only.
LEMMA FileStepData ==
  ASSUME WholeInv, DataInv, FilesInv',
         UNCHANGED <<disk, pc, locals, report, past, seen>>
  PROVE  DataInv'
<1>1. HistoryInv'
  BY HistoryFrame DEF DataInv, locals
<1>2. OneInstant'
  BY InstantFrame DEF DataInv
<1>3. ASSUME NEW c \in Builders PROVE CallInv(c)'
  BY CallFrame DEF DataInv, locals
<1> QED BY <1>1, <1>2, <1>3 DEF DataInv

LEMMA TamperOutputData ==
  ASSUME WholeInv, DataInv, TamperOutput
  PROVE  DataInv'
<1>1. UNCHANGED <<disk, pc, locals, report, past, seen>>
  BY DEF TamperOutput
<1>2. CASE file' = [file EXCEPT ![OutputFile] = NoFile]
  BY <1>1, <1>2, ReplaceOutput, FileStepData DEF DataInv
<1>3. ASSUME NEW v \in past, Accepts(v),
             file' = [file EXCEPT ![OutputFile] = Finalized(v, Render(v))]
      PROVE  DataInv'
  BY <1>1, <1>3, ReplaceOutput, FileStepData DEF DataInv, Finalized
<1>4. CASE /\ file[OutputFile] # NoFile
           /\ file' = [file EXCEPT ![OutputFile] =
                      [input |-> @.input, content |-> @.content, body |-> Edited]]
  <2> DEFINE m == [input |-> file[OutputFile].input, content |-> file[OutputFile].content,
                   body |-> Edited]
  <2>1. file' = [file EXCEPT ![OutputFile] = m]
    BY <1>4
  <2>2. m.input \in past /\ Accepts(m.input) /\ m.content = Render(m.input) /\ m.body = Edited
    BY <1>4 DEF DataInv, FilesInv
  <2> HIDE DEF m
  <2>3. FilesInv'
    BY <1>1, <2>1, <2>2, ReplaceOutput DEF DataInv
  <2> QED BY <1>1, <2>3, FileStepData
<1> QED BY <1>2, <1>3, <1>4 DEF TamperOutput

LEMMA LoseCacheData ==
  ASSUME WholeInv, DataInv, NEW c \in Caches, LoseCache(c)
  PROVE  DataInv'
BY ReplaceRecord, FileStepData DEF LoseCache, DataInv

LEMMA BeginData ==
  ASSUME WholeInv, DataInv, NEW b \in Builders, Begin(b)
  PROVE  DataInv'
<1>1. /\ pc[b] = "idle"
      /\ pc' = [pc EXCEPT ![b] = "snapshot"]
      /\ at' = [at EXCEPT ![b] = 1]
      /\ report' = [report EXCEPT ![b] = NoReport]
      /\ seen' = [seen EXCEPT ![b] = {disk}]
      /\ UNCHANGED <<disk, file, snap, shown, content, past>>
      /\ \A c \in Builders : c # b => rd'[c] = rd[c]
  BY DEF Begin, StartPass, files, WholeInv, TypeOK
<1>2. disk \in Vectors /\ past \subseteq Vectors /\ disk \in past
  BY DEF WholeInv, TypeOK, DataInv, HistoryInv
<1>3. \A p \in past : Leq(disk, p) => p = disk
  BY <1>2, LeqAntisymmetric DEF DataInv, HistoryInv
<1>4. HistoryInv'
  BY <1>1, <1>2, <1>3 DEF DataInv, HistoryInv, WholeInv, TypeOK
<1>5. FilesInv'
  BY <1>1, FilesFrame DEF DataInv
<1>6. OneInstant'
  BY <1>1 DEF DataInv, OneInstant, Success, NoReport, WholeInv, TypeOK
<1>7. CallInv(b)'
  <2>1. pc'[b] = "snapshot" /\ at'[b] = 1 /\ seen'[b] = {disk}
    BY <1>1 DEF WholeInv, TypeOK
  <2>2. \A f \in Files : ~(f < 1) /\ ~(f <= 1 - 1)
    BY GenerationAssumption DEF Files
  <2>3. SnapshotInv(b)'
    BY <1>1, <2>1, <2>2 DEF SnapshotInv, Agree
  <2>4. PreviewInv(b)' /\ CommitInv(b)'
    BY <2>1 DEF PreviewInv, CommitInv, Committed, Writing
  <2> QED BY <2>3, <2>4 DEF CallInv
<1>8. ASSUME NEW c \in Builders, c # b PROVE CallInv(c)'
  BY <1>1, <1>8, CallFrame DEF DataInv, WholeInv, TypeOK
<1> QED BY <1>4, <1>5, <1>6, <1>7, <1>8 DEF DataInv

\* What one more read tells of the passes before the second snapshot.
LEMMA ReadInputData ==
  ASSUME WholeInv, DataInv, NEW b \in Builders, ReadInput(b)
  PROVE  DataInv'
<1> DEFINE n == at[b]
<1>1. /\ pc[b] \in Passes
      /\ n \in Files
      /\ rd' = [rd EXCEPT ![b][n] = disk[n]]
      /\ at' = [at EXCEPT ![b] = n + 1]
      /\ UNCHANGED <<disk, file, pc, snap, shown, content, report, past, seen>>
  BY DEF ReadInput, files, history
<1>2. /\ disk \in Vectors /\ past \subseteq Vectors /\ rd[b] \in Vectors
      /\ shown[b] \in Vectors /\ seen[b] \subseteq past
      /\ disk \in seen[b] /\ disk \in past
  BY <1>1 DEF WholeInv, TypeOK, DataInv, HistoryInv, Passes
<1>3. /\ at'[b] = n + 1 /\ rd'[b] \in Vectors
      /\ \A f \in Files : rd'[b][f] = IF f = n THEN disk[f] ELSE rd[b][f]
  BY <1>1, <1>2 DEF WholeInv, TypeOK, Vectors
<1>4. n \in Nat /\ \A f \in Files : f \in Nat
  BY <1>1 DEF Files
<1>5. /\ \A f \in Files : f < n + 1 => f < n \/ f = n
      /\ \A f \in Files : f <= n => f <= n - 1 \/ f = n
      /\ \A f \in Files : f <= n - 1 => f <= n /\ f # n
      /\ n + 1 - 1 = n
  BY <1>4
<1>6. \A f \in Files : disk[f] \in Int /\ rd[b][f] \in Int
  BY <1>2, Entry
<1> HIDE DEF n
<1>7. SnapshotInv(b)'
  <2> SUFFICES ASSUME pc[b] = "snapshot"
               PROVE  /\ \A f \in Files : f < n + 1 => rd'[b][f] <= disk[f]
                      /\ \A p \in past : Agree(p, rd'[b], n) =>
                           \E q \in seen[b] : Agree(q, rd'[b], n)
    <3>1. at'[b] - 1 = n
      BY <1>3, <1>4
    <3>2. ~(pc'[b] \in {"verify", "lookup"})
      BY <1>1 DEF Passes
    <3> QED BY <1>1, <1>3, <3>1, <3>2 DEF SnapshotInv, Agree
  <2>1. \A f \in Files : f < n + 1 => rd'[b][f] <= disk[f]
    BY <1>3, <1>5, <1>6 DEF DataInv, CallInv, SnapshotInv, n
  <2>2. ASSUME NEW p \in past, Agree(p, rd'[b], n)
        PROVE  \E q \in seen[b] : Agree(q, rd'[b], n)
    <3>1. Agree(p, rd[b], n - 1)
      BY <1>3, <1>5, <2>2 DEF Agree
    <3>2. PICK q \in seen[b] : Agree(q, rd[b], n - 1)
      BY <3>1 DEF DataInv, CallInv, SnapshotInv, n
    <3>3. p[n] = disk[n]
      BY <1>1, <1>3, <1>4, <2>2 DEF Agree
    <3>4. q \in past /\ Leq(q, disk)
      BY <1>2 DEF DataInv, HistoryInv
    <3>5. CASE Leq(q, p)
      <4>1. p \in seen[b]
        BY <1>1, <3>5 DEF DataInv, HistoryInv, Passes
      <4> QED BY <2>2, <4>1
    <3>6. CASE Leq(p, q)
      <4>1. q[n] \in Int /\ disk[n] \in Int
        BY <1>1, <1>2, <3>4, Entry
      <4>2. disk[n] <= q[n] /\ q[n] <= disk[n]
        BY <1>1, <3>3, <3>4, <3>6 DEF Leq
      <4>3. q[n] = disk[n]
        BY <4>1, <4>2
      <4>4. Agree(q, rd'[b], n)
        BY <1>3, <1>5, <3>2, <4>3 DEF Agree
      <4> QED BY <4>4
    <3> QED BY <3>4, <3>5, <3>6 DEF DataInv, HistoryInv
  <2> QED BY <2>1, <2>2
<1>8. PreviewInv(b)'
  <2>1. ASSUME pc[b] = "preview"
        PROVE  \E m \in seen[b] :
                 /\ Leq(snap[b], m)
                 /\ \A f \in Files : f < n + 1 => m[f] <= rd'[b][f] /\ rd'[b][f] <= disk[f]
    <3>1. PICK m \in seen[b] :
            /\ Leq(snap[b], m)
            /\ \A f \in Files : f < n => m[f] <= rd[b][f] /\ rd[b][f] <= disk[f]
      BY <2>1 DEF DataInv, CallInv, PreviewInv, n
    <3>2. Leq(m, disk)
      BY <1>2 DEF DataInv, HistoryInv
    <3> QED BY <1>3, <1>5, <1>6, <3>1, <3>2 DEF Leq
  <2>2. ASSUME pc[b] = "after"
        PROVE  \E m \in seen[b] :
                 /\ Leq(snap[b], m)
                 /\ Leq(m, shown[b])
                 /\ Leq(shown[b], disk)
                 /\ \A f \in Files : f < n + 1 =>
                      shown[b][f] <= rd'[b][f] /\ rd'[b][f] <= disk[f]
    <3>1. PICK m \in seen[b] :
            /\ Leq(snap[b], m)
            /\ Leq(m, shown[b])
            /\ Leq(shown[b], disk)
            /\ \A f \in Files : f < n => shown[b][f] <= rd[b][f] /\ rd[b][f] <= disk[f]
      BY <2>2 DEF DataInv, CallInv, PreviewInv, n
    <3>2. \A f \in Files : f < n + 1 => shown[b][f] <= rd'[b][f] /\ rd'[b][f] <= disk[f]
      BY <1>3, <1>5, <1>6, <3>1 DEF Leq
    <3> QED BY <3>1, <3>2
  <2> QED BY <1>1, <1>3, <2>1, <2>2 DEF PreviewInv, Leq
<1>9. CommitInv(b)'
  BY <1>1 DEF DataInv, CallInv, CommitInv
<1>10. \A c \in Builders : c # b => at'[c] = at[c] /\ rd'[c] = rd[c]
  BY <1>1 DEF WholeInv, TypeOK
<1> QED BY <1>1, <1>7, <1>8, <1>9, <1>10, GoOnData DEF CallInv, Passes

LEMMA EndSnapshotData ==
  ASSUME WholeInv, DataInv, NEW b \in Builders, EndSnapshot(b)
  PROVE  DataInv'
<1>1. /\ pc[b] = "snapshot" /\ at[b] = NumFiles + 1
      /\ UNCHANGED <<disk, file, past, seen>>
  BY DEF EndSnapshot, PassRead, files, history
<1>2. FilesInv'
  BY <1>1, FilesFrame DEF DataInv
<1>3. CASE Finish(b, Rejected)
  BY <1>1, <1>2, <1>3, FinishData DEF Rejected
<1>4. CASE ~ Finish(b, Rejected)
  <2>1. PICK p \in {"preview", "verify"} : StartPass(b, p)
    BY <1>4 DEF EndSnapshot
  <2>2. snap' = [snap EXCEPT ![b] = rd[b]] /\ UNCHANGED <<shown, content, report>>
    BY <1>4 DEF EndSnapshot
  <2>3. /\ pc'[b] = p /\ at'[b] = 1 /\ snap'[b] = rd[b]
        /\ \A c \in Builders : c # b =>
             pc'[c] = pc[c] /\ at'[c] = at[c] /\ rd'[c] = rd[c] /\ snap'[c] = snap[c]
    BY <2>1, <2>2 DEF StartPass, WholeInv, TypeOK
  <2>4. /\ rd[b] \in Vectors /\ disk \in seen[b] /\ seen[b] \subseteq Vectors
    BY <1>1 DEF WholeInv, TypeOK, DataInv, HistoryInv
  <2>5. \A f \in Files : f < NumFiles + 1 /\ ~(f < 1)
    BY GenerationAssumption DEF Files
  <2>6. Leq(rd[b], disk)
    BY <1>1, <2>5 DEF DataInv, CallInv, SnapshotInv, Leq
  <2>7. ASSUME rd[b] \in past PROVE rd[b] \in seen[b]
    <3>1. Agree(rd[b], rd[b], at[b] - 1)
      BY DEF Agree
    <3>2. at[b] - 1 = NumFiles
      BY <1>1, NumFilesType
    <3>3. PICK q \in seen[b] : Agree(q, rd[b], NumFiles)
      BY <1>1, <2>7, <3>1, <3>2 DEF DataInv, CallInv, SnapshotInv
    <3> QED BY <2>4, <3>3, AgreeOnAll
  <2>8. SnapshotInv(b)'
    BY <1>1, <2>3, <2>6, <2>7 DEF SnapshotInv, Leq
  <2>9. PreviewInv(b)'
    BY <1>1, <2>3, <2>4, <2>5, <2>6 DEF PreviewInv, Leq
  <2>10. CommitInv(b)'
    BY <2>3 DEF CommitInv, Committed, Writing
  <2> QED BY <1>1, <2>2, <2>3, <2>8, <2>9, <2>10, GoOnData DEF CallInv
<1> QED BY <1>3, <1>4

\* A pass over the inputs that begins now is bounded by the inputs as they are.
LEMMA PreviewStarts ==
  ASSUME WholeInv, DataInv, NEW b \in Builders, pc[b] # "idle",
         UNCHANGED <<disk, file, past, seen, report>>, StartPass(b, "preview"),
         \A c \in Builders : c # b =>
           snap'[c] = snap[c] /\ shown'[c] = shown[c] /\ content'[c] = content[c],
         Leq(snap'[b], disk)
  PROVE  DataInv'
<1>1. /\ pc'[b] = "preview" /\ at'[b] = 1
      /\ \A c \in Builders : c # b => pc'[c] = pc[c] /\ at'[c] = at[c] /\ rd'[c] = rd[c]
  BY DEF StartPass, WholeInv, TypeOK
<1>2. disk \in seen[b]
  BY DEF DataInv, HistoryInv
<1>3. \A f \in Files : ~(f < 1)
  BY GenerationAssumption DEF Files
<1>4. PreviewInv(b)'
  BY <1>1, <1>2, <1>3 DEF PreviewInv, Leq
<1>5. SnapshotInv(b)' /\ CommitInv(b)'
  BY <1>1 DEF SnapshotInv, CommitInv, Committed, Writing
<1> QED BY <1>1, <1>4, <1>5, GoOnData DEF CallInv

LEMMA VerifyOutputData ==
  ASSUME WholeInv, DataInv, NEW b \in Builders, VerifyOutput(b)
  PROVE  DataInv'
<1>1. /\ pc[b] = "verify"
      /\ UNCHANGED <<disk, file, snap, shown, report, past, seen>>
  BY DEF VerifyOutput, files, history
<1>2. Leq(snap[b], disk) /\ (snap[b] \in past => snap[b] \in seen[b])
  BY <1>1 DEF DataInv, CallInv, SnapshotInv
<1>3. CASE Verified(file[OutputFile], snap[b])
  <2>1. /\ pc' = [pc EXCEPT ![b] = "lookup"]
        /\ content' = [content EXCEPT ![b] = file[OutputFile].body]
        /\ UNCHANGED <<at, rd>>
    BY <1>3 DEF VerifyOutput
  <2>2. /\ snap[b] \in seen[b] /\ Accepts(snap[b])
        /\ file[OutputFile].body = Render(snap[b])
    BY <1>2, <1>3 DEF Verified, DataInv, FilesInv
  <2>3. /\ pc'[b] = "lookup" /\ content'[b] = Render(snap[b])
        /\ \A c \in Builders : c # b => pc'[c] = pc[c] /\ content'[c] = content[c]
    BY <2>1, <2>2 DEF WholeInv, TypeOK
  <2>4. SnapshotInv(b)'
    BY <1>1, <1>2, <2>3 DEF SnapshotInv, Leq
  <2>5. PreviewInv(b)'
    BY <2>3 DEF PreviewInv
  <2>6. CommitInv(b)'
    BY <1>1, <2>2, <2>3 DEF CommitInv, Committed, Writing
  <2> QED BY <1>1, <2>1, <2>3, <2>4, <2>5, <2>6, GoOnData DEF CallInv
<1>4. CASE ~ Verified(file[OutputFile], snap[b])
  <2>1. StartPass(b, "preview") /\ UNCHANGED content
    BY <1>4 DEF VerifyOutput
  <2> QED BY <1>1, <1>2, <2>1, PreviewStarts
<1> QED BY <1>3, <1>4

LEMMA LookupCacheData ==
  ASSUME WholeInv, DataInv, NEW b \in Builders, LookupCache(b)
  PROVE  DataInv'
<1>1. /\ pc[b] = "lookup"
      /\ UNCHANGED <<disk, file, past, seen>>
  BY DEF LookupCache, files, history
<1>2. FilesInv'
  BY <1>1, FilesFrame DEF DataInv
<1>3. CASE Hit(file[CacheOf[b]], snap[b], content[b])
  <2>1. snap[b] \in seen[b]
    BY <1>1 DEF DataInv, CallInv, CommitInv
  <2>2. file[CacheOf[b]].run = snap[b]
    <3>1. CacheOf[b] \in Caches
      BY <1>1 DEF WholeInv, ShapeInv
    <3>2. PICK v \in Vectors : file[CacheOf[b]] = Record(v, v)
      BY <1>3, <3>1 DEF Hit, DataInv, FilesInv
    <3> QED BY <1>3, <3>2 DEF Hit, Record
  <2>3. \/ Finish(b, Rejected)
        \/ Finish(b, [outcome |-> "cached", input |-> snap[b],
                      run |-> file[CacheOf[b]].run])
    BY <1>3 DEF LookupCache
  <2>4. CASE Finish(b, Rejected)
    BY <1>1, <1>2, <2>4, FinishData DEF Rejected
  <2>5. CASE Finish(b, [outcome |-> "cached", input |-> snap[b],
                        run |-> file[CacheOf[b]].run])
    BY <1>1, <1>2, <2>1, <2>2, <2>5, FinishData
  <2> QED BY <2>3, <2>4, <2>5
<1>4. CASE ~ Hit(file[CacheOf[b]], snap[b], content[b])
  <2>1. /\ StartPass(b, "preview")
        /\ content' = [content EXCEPT ![b] = NoFile]
        /\ UNCHANGED <<snap, shown, report>>
    BY <1>4 DEF LookupCache
  <2>2. Leq(snap'[b], disk)
    BY <1>1, <2>1 DEF DataInv, CallInv, SnapshotInv
  <2> QED BY <1>1, <2>1, <2>2, PreviewStarts DEF WholeInv, TypeOK
<1> QED BY <1>3, <1>4

LEMMA EndPreviewData ==
  ASSUME WholeInv, DataInv, NEW b \in Builders, EndPreview(b)
  PROVE  DataInv'
<1>1. /\ pc[b] = "preview" /\ at[b] = NumFiles + 1
      /\ UNCHANGED <<disk, file, past, seen>>
  BY DEF EndPreview, PassRead, files, history
<1>2. FilesInv'
  BY <1>1, FilesFrame DEF DataInv
<1>3. CASE Finish(b, Rejected)
  BY <1>1, <1>2, <1>3, FinishData DEF Rejected
<1>4. CASE ~ Finish(b, Rejected)
  <2>1. /\ Accepts(rd[b])
        /\ shown' = [shown EXCEPT ![b] = rd[b]]
        /\ content' = [content EXCEPT ![b] = Render(rd[b])]
        /\ StartPass(b, "after")
        /\ UNCHANGED <<snap, report>>
    BY <1>4 DEF EndPreview
  <2>2. /\ pc'[b] = "after" /\ at'[b] = 1 /\ shown'[b] = rd[b]
        /\ content'[b] = Render(rd[b])
        /\ \A c \in Builders : c # b =>
             /\ pc'[c] = pc[c] /\ at'[c] = at[c] /\ rd'[c] = rd[c]
             /\ shown'[c] = shown[c] /\ content'[c] = content[c]
    BY <2>1 DEF StartPass, WholeInv, TypeOK
  <2>3. \A f \in Files : f < NumFiles + 1 /\ ~(f < 1)
    BY GenerationAssumption DEF Files
  <2>4. PICK m \in seen[b] :
          /\ Leq(snap[b], m)
          /\ \A f \in Files : f < at[b] => m[f] <= rd[b][f] /\ rd[b][f] <= disk[f]
    BY <1>1 DEF DataInv, CallInv, PreviewInv
  <2>5. Leq(m, rd[b]) /\ Leq(rd[b], disk)
    BY <1>1, <2>3, <2>4 DEF Leq
  <2>6. PreviewInv(b)'
    BY <1>1, <2>1, <2>2, <2>3, <2>4, <2>5 DEF PreviewInv, Leq
  <2>7. SnapshotInv(b)'
    BY <2>2 DEF SnapshotInv
  <2>8. CommitInv(b)'
    BY <2>1, <2>2 DEF CommitInv, Committed, Writing
  <2> QED BY <1>1, <2>1, <2>2, <2>6, <2>7, <2>8, GoOnData DEF CallInv
<1> QED BY <1>3, <1>4

\* Equal snapshots around the preview squeeze the preview's reads between them.
LEMMA EndAfterData ==
  ASSUME WholeInv, DataInv, NEW b \in Builders, EndAfter(b)
  PROVE  DataInv'
<1>1. /\ pc[b] = "after" /\ at[b] = NumFiles + 1
      /\ UNCHANGED <<disk, file, past, seen>>
  BY DEF EndAfter, PassRead, files, history
<1>2. FilesInv'
  BY <1>1, FilesFrame DEF DataInv
<1>3. PICK m \in seen[b] :
        /\ Leq(snap[b], m)
        /\ Leq(m, shown[b])
        /\ Leq(shown[b], disk)
        /\ \A f \in Files : f < at[b] => shown[b][f] <= rd[b][f] /\ rd[b][f] <= disk[f]
  BY <1>1 DEF DataInv, CallInv, PreviewInv
<1>4. Leq(shown[b], rd[b]) /\ Leq(rd[b], disk)
  <2>1. \A f \in Files : f < NumFiles + 1
    BY GenerationAssumption DEF Files
  <2> QED BY <1>1, <1>3, <2>1 DEF Leq
<1>5. CASE Finish(b, Rejected)
  BY <1>1, <1>2, <1>5, FinishData DEF Rejected
<1>6. CASE ~ Finish(b, Rejected) /\ rd[b] # snap[b]
  <2>1. /\ snap' = [snap EXCEPT ![b] = rd[b]]
        /\ shown' = [shown EXCEPT ![b] = NoVector]
        /\ content' = [content EXCEPT ![b] = NoFile]
        /\ StartPass(b, "preview")
        /\ UNCHANGED report
    BY <1>6 DEF EndAfter
  <2>2. /\ snap'[b] = rd[b]
        /\ \A c \in Builders : c # b =>
             snap'[c] = snap[c] /\ shown'[c] = shown[c] /\ content'[c] = content[c]
    BY <2>1 DEF WholeInv, TypeOK
  <2> QED BY <1>1, <1>4, <2>1, <2>2, PreviewStarts
<1>7. CASE ~ Finish(b, Rejected) /\ rd[b] = snap[b]
  <2>1. StartPass(b, "output") /\ UNCHANGED <<snap, shown, content, report>>
    BY <1>7 DEF EndAfter
  <2>2. /\ pc'[b] = "output"
        /\ \A c \in Builders : c # b => pc'[c] = pc[c] /\ at'[c] = at[c] /\ rd'[c] = rd[c]
    BY <2>1 DEF StartPass, WholeInv, TypeOK
  <2>3. /\ snap[b] \in Vectors /\ shown[b] \in Vectors /\ m \in Vectors
    BY DEF WholeInv, TypeOK
  <2>4. shown[b] = snap[b]
    BY <1>3, <1>4, <1>7, <2>3, LeqTransitive, LeqAntisymmetric
  <2>5. m = snap[b]
    BY <1>3, <2>3, <2>4, LeqAntisymmetric
  <2>6. CommitInv(b)'
    BY <1>1, <2>1, <2>2, <2>4, <2>5 DEF DataInv, CallInv, CommitInv, Committed, Writing
  <2>7. SnapshotInv(b)' /\ PreviewInv(b)'
    BY <2>2 DEF SnapshotInv, PreviewInv
  <2> QED BY <1>1, <2>1, <2>2, <2>6, <2>7, GoOnData DEF CallInv
<1> QED BY <1>5, <1>6, <1>7

\* A committed call that goes on to another committed place.
LEMMA CommittedData ==
  ASSUME WholeInv, DataInv, NEW b \in Builders, NEW p \in Committed, pc[b] \in Committed,
         pc' = [pc EXCEPT ![b] = p], FilesInv',
         UNCHANGED <<disk, at, rd, snap, shown, content, report, past, seen>>
  PROVE  DataInv'
<1>1. pc'[b] = p /\ \A c \in Builders : c # b => pc'[c] = pc[c]
  BY DEF WholeInv, TypeOK
<1>2. HistoryInv'
  BY <1>1, HistoryFrame DEF DataInv, Committed, Writing
<1>3. OneInstant'
  BY InstantFrame DEF DataInv
<1>4. CallInv(b)'
  <2>1. SnapshotInv(b)' /\ PreviewInv(b)'
    BY <1>1 DEF SnapshotInv, PreviewInv, Committed, Writing
  <2>2. CommitInv(b)'
    BY <1>1 DEF DataInv, CallInv, CommitInv, Committed, Writing
  <2> QED BY <2>1, <2>2 DEF CallInv
<1>5. ASSUME NEW c \in Builders, c # b PROVE CallInv(c)'
  BY <1>1, <1>5, CallFrame DEF DataInv
<1> QED BY <1>2, <1>3, <1>4, <1>5 DEF DataInv

LEMMA GeneratedData ==
  ASSUME WholeInv, DataInv, NEW b \in Builders, pc[b] \in Committed, Finish(b, Generated(b)),
         FilesInv', UNCHANGED <<disk, past, seen>>
  PROVE  DataInv'
<1>1. snap[b] \in seen[b] /\ shown[b] = snap[b]
  BY DEF DataInv, CallInv, CommitInv
<1>2. /\ Generated(b).input = snap[b]
      /\ Generated(b).run = shown[b]
  BY DEF Generated
<1> DEFINE r == Generated(b)
<1>3. r.outcome \in {"cached", "generated"} => r.input \in seen[b] /\ r.run = r.input
  BY <1>1, <1>2
<1>4. Finish(b, r)
  OBVIOUS
<1> HIDE DEF r
<1> QED BY <1>3, <1>4, FinishData

LEMMA RejectedData ==
  ASSUME WholeInv, DataInv, NEW b \in Builders, Finish(b, Rejected),
         UNCHANGED <<disk, file, past, seen>>
  PROVE  DataInv'
<1>1. FilesInv'
  BY FilesFrame DEF DataInv
<1> QED BY <1>1, FinishData DEF Rejected

LEMMA AfterTargetData ==
  ASSUME WholeInv, DataInv, NEW b \in Builders, pc[b] \in Committed, AfterTarget(b),
         FilesInv', UNCHANGED <<disk, past, seen>>
  PROVE  DataInv'
<1>1. CASE target[b] = OutputFile
  <2>1. "record" \in Committed
    BY DEF Committed
  <2> QED BY <1>1, <2>1, CommittedData DEF AfterTarget, locals
<1>2. CASE target[b] # OutputFile
  BY <1>2, GeneratedData DEF AfterTarget
<1> QED BY <1>1, <1>2

LEMMA WritesData ==
  ASSUME WholeInv, DataInv, NEW b \in Builders,
         CompareOutput(b) \/ StartRecord(b) \/ CreateTemp(b) \/ FillTemp(b)
  PROVE  DataInv'
<1>1. UNCHANGED <<disk, file, past, seen>>
  BY DEF CompareOutput, StartRecord, CreateTemp, FillTemp, files, history
<1>2. FilesInv'
  BY <1>1, FilesFrame DEF DataInv
<1>3. /\ pc[b] \in Committed
      /\ "create" \in Committed /\ "fill" \in Committed /\ "rename" \in Committed
  BY DEF CompareOutput, StartRecord, CreateTemp, FillTemp, Committed, Writing
<1>4. CASE CompareOutput(b)
  <2>1. \/ AfterTarget(b)
        \/ pc' = [pc EXCEPT ![b] = "create"] /\ UNCHANGED <<locals, report>>
    BY <1>4 DEF CompareOutput
  <2> QED BY <1>1, <1>2, <1>3, <2>1, AfterTargetData, CommittedData DEF locals
<1>5. CASE StartRecord(b)
  <2>1. \/ Finish(b, Generated(b))
        \/ /\ pc' = [pc EXCEPT ![b] = "create"]
           /\ UNCHANGED <<at, rd, snap, shown, content, report>>
    BY <1>5 DEF StartRecord
  <2> QED BY <1>1, <1>2, <1>3, <2>1, GeneratedData, CommittedData
<1>6. CASE CreateTemp(b)
  <2>1. \/ Finish(b, Rejected)
        \/ pc' = [pc EXCEPT ![b] = "fill"] /\ UNCHANGED <<locals, report>>
        \/ UNCHANGED <<pc, at, rd, snap, shown, content, report>>
    BY <1>6 DEF CreateTemp
  <2>2. CASE UNCHANGED <<pc, at, rd, snap, shown, content, report>>
    <3>1. pc' = [pc EXCEPT ![b] = pc[b]]
      BY <2>2 DEF WholeInv, TypeOK
    <3> QED BY <1>1, <1>2, <1>3, <2>2, <3>1, CommittedData
  <2> QED BY <1>1, <1>2, <1>3, <2>1, <2>2, RejectedData, CommittedData DEF locals
<1>7. CASE FillTemp(b)
  <2>1. \/ Finish(b, Rejected)
        \/ pc' = [pc EXCEPT ![b] = "rename"] /\ UNCHANGED <<locals, report>>
    BY <1>7 DEF FillTemp
  <2> QED BY <1>1, <1>2, <1>3, <2>1, RejectedData, CommittedData DEF locals
<1> QED BY <1>4, <1>5, <1>6, <1>7

\* A rename puts in place what the call committed to.
LEMMA RenameTempData ==
  ASSUME WholeInv, DataInv, NEW b \in Builders, RenameTemp(b)
  PROVE  DataInv'
<1>1. /\ pc[b] = "rename" /\ pc[b] \in Committed /\ pc[b] \in Writing
      /\ UNCHANGED <<disk, past, seen>>
  BY DEF RenameTemp, Committed, Writing
<1>2. CASE Finish(b, Rejected) /\ UNCHANGED file
  BY <1>1, <1>2, RejectedData
<1>3. CASE /\ file' = [file EXCEPT ![target[b]] = Held(b)[attempt[b]]]
           /\ AfterTarget(b)
  <2>1. /\ file' = [file EXCEPT ![target[b]] = Contents(b)]
        /\ target[b] \in {OutputFile} \cup Caches
    BY <1>1, <1>3 DEF Held, WholeInv, ShapeInv, TypeOK, Targets
  <2>2. /\ snap[b] \in seen[b] /\ seen[b] \subseteq past /\ snap[b] \in Vectors
        /\ Accepts(snap[b])
        /\ content[b] = Render(snap[b])
        /\ shown[b] = snap[b]
    BY <1>1 DEF WholeInv, TypeOK, DataInv, HistoryInv, CallInv, CommitInv
  <2>3. CASE target[b] = OutputFile
    <3>1. Contents(b) = Finalized(snap[b], Render(snap[b]))
      BY <2>2, <2>3 DEF Contents
    <3>2. FilesInv'
      BY <1>1, <2>1, <2>2, <2>3, <3>1, ReplaceOutput DEF DataInv, Finalized
    <3> QED BY <1>1, <1>3, <3>2, AfterTargetData
  <2>4. CASE target[b] # OutputFile
    <3>1. Contents(b) = Record(snap[b], snap[b]) /\ target[b] \in Caches
      BY <2>1, <2>2, <2>4 DEF Contents
    <3>2. FilesInv'
      BY <1>1, <2>1, <2>2, <3>1, ReplaceRecord DEF DataInv
    <3> QED BY <1>1, <1>3, <3>2, AfterTargetData
  <2> QED BY <2>3, <2>4
<1> QED BY <1>2, <1>3 DEF RenameTemp

LEMMA NextData == WholeInv /\ DataInv /\ Recurs = FALSE /\ [Next]_vars => DataInv'
<1> SUFFICES ASSUME WholeInv, DataInv, Recurs = FALSE, [Next]_vars PROVE DataInv'
  OBVIOUS
<1>1. CASE Environment
  <2>1. ASSUME NEW b \in Builders, Crash(b) PROVE DataInv'
    <3>1. FilesInv' /\ UNCHANGED <<disk, past, seen>> /\ Finish(b, NoReport)
      BY <2>1, FilesFrame DEF DataInv, Crash, files, history
    <3> QED BY <3>1, FinishData DEF NoReport
  <2> QED BY <1>1, <2>1, EditInputData, TamperOutputData, LoseCacheData DEF Environment
<1>2. ASSUME NEW b \in Builders, Begin(b) PROVE DataInv'
  BY <1>2, BeginData
<1>3. ASSUME NEW b \in Builders, Step(b) PROVE DataInv'
  <2>1. CASE CargoFatal(b)
    BY <2>1, RejectedData DEF CargoFatal, files, history
  <2> QED BY <1>3, <2>1, ReadInputData, EndSnapshotData, VerifyOutputData, LookupCacheData,
             EndPreviewData, EndAfterData, WritesData, RenameTempData DEF Step
<1>4. CASE UNCHANGED vars
  <2>1. FilesInv'
    BY <1>4, FilesFrame DEF DataInv, vars
  <2> QED BY <1>4, <2>1, FileStepData DEF vars, locals
<1> QED BY <1>1, <1>2, <1>3, <1>4 DEF Next

\* The inductive invariant holds when contents never recur: for any number of
\* builds, caches, files and versions.
THEOREM Inductive == ASSUME Recurs = FALSE PROVE Spec => []IInv
<1>1. Init => IInv
  BY InitWhole, InitData, IInvParts
<1>2. IInv /\ [Next]_vars => IInv'
  BY NextWhole, NextData, IInvParts DEF IInv, DataInv, CallInv
<1> QED BY <1>1, <1>2, PTL DEF Spec

\* A call that succeeds answers for its input files as they stood together at
\* one instant of the call, and replays no other run, whatever races it.
THEOREM AnswersOneInstant == ASSUME Recurs = FALSE PROVE Spec => []OneInstant
<1>1. IInv => OneInstant
  BY DEF IInv
<1> QED BY <1>1, Inductive, PTL

\* A file at the output path whose headers check is the module of an instant.
THEOREM ModulesAreTrue == ASSUME Recurs = FALSE PROVE Spec => []TrueModule
<1>1. IInv => TrueModule
  BY DEF IInv, FilesInv, TrueModule
<1> QED BY <1>1, Inductive, PTL

\* A record's run is the run of the digest it is filed under.
THEOREM RecordsAreTrue == ASSUME Recurs = FALSE PROVE Spec => []TrueRecord
<1>1. ASSUME IInv, NEW c \in Caches, file[c] # NoFile
      PROVE  file[c] = Record(file[c].input, file[c].input)
  <2>1. PICK v \in Vectors : file[c] = Record(v, v)
    BY <1>1 DEF IInv, FilesInv
  <2>2. file[c].input = v
    BY <2>1 DEF Record
  <2> QED BY <2>1, <2>2
<1>2. IInv => TrueRecord
  BY <1>1 DEF TrueRecord
<1> QED BY <1>2, Inductive, PTL

-----------------------------------------------------------------------------
(* GenerationCache implements GenerateCall. *)

LEMMA InitImplements == Init => Call!Init
BY DEF Init, Call!Init, Call!NoVector, Call!Files, NoVector, Files, Targets, Settled, Writing,
   Success, NoReport

\* b's step is no step of the promise.
LEMMA Stutters ==
  ASSUME UNCHANGED <<disk, past, seen, report>>, file'[OutputFile] = file[OutputFile],
         \A c \in Builders : /\ pc'[c] = "idle" <=> pc[c] = "idle"
                             /\ Settled(c)' = Settled(c)
  PROVE  UNCHANGED Call!vars
BY DEF Call!vars, Success

LEMMA SettledFrame ==
  ASSUME NEW c \in Builders, pc'[c] = pc[c], target'[c] = target[c], snap'[c] = snap[c]
  PROVE  Settled(c)' = Settled(c)
BY DEF Settled

LEMMA FinishReturns ==
  ASSUME WholeInv, NEW b \in Builders, NEW r, Finish(b, r), pc[b] # "idle",
         UNCHANGED <<disk, past, seen>>, file'[OutputFile] = file[OutputFile],
         r.outcome \in {"cached", "generated"} => Settled(b) = {r.input}
  PROVE  Call!Return(b)
<1>1. /\ pc'[b] = "idle" /\ report'[b] = r
      /\ \A c \in Builders : c # b =>
           /\ pc'[c] = pc[c] /\ target'[c] = target[c] /\ snap'[c] = snap[c]
           /\ report'[c] = report[c]
  BY DEF Finish, StartPass, WholeInv, TypeOK
<1>2. \A c \in Builders : Settled(c)' = IF c = b THEN {} ELSE Settled(c)
  <2>1. Settled(b)' = {}
    BY <1>1 DEF Settled, Writing
  <2> QED BY <1>1, <2>1, SettledFrame
<1>3. \A c \in Builders : Success(c)' <=>
        IF c = b THEN r.outcome \in {"cached", "generated"} ELSE Success(c)
  BY <1>1 DEF Success
<1> QED BY <1>1, <1>2, <1>3 DEF Call!Return

LEMMA RejectedReturns ==
  ASSUME WholeInv, NEW b \in Builders, Finish(b, Rejected), pc[b] # "idle",
         UNCHANGED <<disk, past, seen>>, file'[OutputFile] = file[OutputFile]
  PROVE  Call!Return(b)
BY FinishReturns DEF Rejected

LEMMA GeneratedReturns ==
  ASSUME WholeInv, NEW b \in Builders, Finish(b, Generated(b)), pc[b] # "idle",
         UNCHANGED <<disk, past, seen>>, file'[OutputFile] = file[OutputFile],
         Settled(b) = {snap[b]}
  PROVE  Call!Return(b)
<1> DEFINE r == Generated(b)
<1>1. r.input = snap[b] /\ Finish(b, r)
  BY DEF Generated
<1> HIDE DEF r
<1> QED BY <1>1, FinishReturns

\* b settles: its module is at the output path.
LEMMA Settles ==
  ASSUME WholeInv, NEW b \in Builders, pc[b] # "idle",
         UNCHANGED <<disk, past, seen, snap, report>>,
         \A c \in Builders : c # b => pc'[c] = pc[c] /\ target'[c] = target[c],
         pc'[b] \in {"lookup", "record"},
         snap[b] \in seen[b], Accepts(snap[b]),
         file'[OutputFile] = Finalized(snap[b], Render(snap[b]))
  PROVE  Call!Settle(b)
<1>1. \A c \in Builders : Settled(c)' = IF c = b THEN {snap[b]} ELSE Settled(c)
  <2>1. Settled(b)' = {snap[b]}
    BY DEF Settled
  <2> QED BY <2>1, SettledFrame
<1>2. \A c \in Builders : pc'[c] = "idle" <=> pc[c] = "idle"
  OBVIOUS
<1>3. report' = report /\ \A c \in Builders : Success(c)' <=> Success(c)
  BY DEF Success
<1> QED BY <1>1, <1>2, <1>3 DEF Call!Settle, Call!Module, Finalized

LEMMA EnvironmentImplements ==
  ASSUME WholeInv, Environment
  PROVE  [Call!Next]_(Call!vars)
<1>1. ASSUME NEW f \in Files, EditInput(f) PROVE Call!EditInput
  <2>1. disk' \in Vectors
    BY <1>1, EnvironmentWhole DEF WholeInv, TypeOK
  <2>2. disk' \in Call!Vectors
    BY <2>1, GenerationAssumption DEF Vectors, Call!Vectors, Files, Call!Files
  <2>3. /\ past' = past \cup {disk'}
        /\ seen' = [b \in Builders |->
                      IF pc[b] # "idle" THEN seen[b] \cup {disk'} ELSE seen[b]]
        /\ UNCHANGED <<file, pc, snap, target, report>>
    BY <1>1 DEF EditInput, files, locals
  <2>4. \A c \in Builders : Settled(c)' = Settled(c) /\ (Success(c)' <=> Success(c))
    BY <2>3 DEF Settled, Success
  <2> QED BY <2>2, <2>3, <2>4 DEF Call!EditInput
<1>2. CASE TamperOutput
  <2>1. UNCHANGED <<disk, pc, snap, target, report, past, seen>>
    BY <1>2 DEF TamperOutput, locals
  <2>2. \A c \in Builders : Settled(c)' = Settled(c) /\ (Success(c)' <=> Success(c))
    BY <2>1 DEF Settled, Success
  <2>3. file \in [Targets -> Modules \cup Records \cup {NoFile}] /\ OutputFile \in Targets
    BY DEF WholeInv, TypeOK, Targets
  <2>4. \/ file'[OutputFile] = NoFile
        \/ \E v \in past : Accepts(v) /\ file'[OutputFile] = Finalized(v, Render(v))
        \/ /\ file[OutputFile] # NoFile
           /\ file'[OutputFile] = [input |-> file[OutputFile].input,
                                   content |-> file[OutputFile].content, body |-> Edited]
    BY <1>2, <2>3 DEF TamperOutput
  <2>5. Call!TamperModule
    BY <2>1, <2>2, <2>4 DEF Call!TamperModule, Call!Module, Finalized
  <2> QED BY <2>5 DEF Call!Next
<1>3. ASSUME NEW c \in Caches, LoseCache(c) PROVE UNCHANGED Call!vars
  <2>1. UNCHANGED <<disk, pc, snap, target, report, past, seen>>
    BY <1>3 DEF LoseCache, locals
  <2>2. file'[OutputFile] = file[OutputFile]
    BY <1>3, GenerationAssumption DEF LoseCache, WholeInv, TypeOK, Targets
  <2> QED BY <2>1, <2>2, Stutters, SettledFrame
<1>4. ASSUME NEW b \in Builders, Crash(b) PROVE Call!Return(b)
  BY <1>4, FinishReturns DEF Crash, NoReport, files, history
<1> QED BY <1>1, <1>2, <1>3, <1>4 DEF Environment, Call!Next

LEMMA BeginImplements ==
  ASSUME WholeInv, NEW b \in Builders, Begin(b)
  PROVE  Call!Begin(b)
<1>1. /\ pc[b] = "idle" /\ pc'[b] = "snapshot" /\ report'[b] = NoReport
      /\ seen' = [seen EXCEPT ![b] = {disk}]
      /\ UNCHANGED <<disk, file, past, snap, target>>
      /\ \A c \in Builders : c # b => pc'[c] = pc[c] /\ report'[c] = report[c]
  BY DEF Begin, StartPass, files, WholeInv, TypeOK
<1>2. \A c \in Builders : Settled(c)' = IF c = b THEN {} ELSE Settled(c)
  <2>1. Settled(b)' = {}
    BY <1>1 DEF Settled, Writing
  <2> QED BY <1>1, <2>1, SettledFrame
<1>3. \A c \in Builders : Success(c)' <=> (c # b /\ Success(c))
  BY <1>1 DEF Success, NoReport
<1> QED BY <1>1, <1>2, <1>3 DEF Call!Begin

\* The passes over the inputs and the render change nothing that is promised.
LEMMA PassesImplement ==
  ASSUME WholeInv, NEW b \in Builders,
         CargoFatal(b) \/ ReadInput(b) \/ EndSnapshot(b) \/ EndPreview(b) \/ EndAfter(b)
  PROVE  Call!Return(b) \/ UNCHANGED Call!vars
<1>1. /\ UNCHANGED <<disk, file, past, seen>>
      /\ pc[b] \in Passes
  BY DEF CargoFatal, ReadInput, EndSnapshot, EndPreview, EndAfter, PassRead, Passes, files,
     history
<1>2. CASE Finish(b, Rejected)
  BY <1>1, <1>2, RejectedReturns DEF Passes
<1>3. CASE ~ Finish(b, Rejected)
  <2>1. /\ UNCHANGED <<target, report>>
        /\ pc'[b] \in Passes \cup {"verify", "output"}
        /\ \A c \in Builders : c # b => pc'[c] = pc[c] /\ snap'[c] = snap[c]
    <3>1. CASE ReadInput(b)
      BY <1>1, <3>1 DEF ReadInput
    <3>2. CASE EndSnapshot(b)
      BY <1>3, <3>2 DEF EndSnapshot, StartPass, WholeInv, TypeOK, Passes
    <3>3. CASE EndPreview(b)
      BY <1>3, <3>3 DEF EndPreview, StartPass, WholeInv, TypeOK, Passes
    <3>4. CASE EndAfter(b)
      BY <1>3, <3>4 DEF EndAfter, StartPass, WholeInv, TypeOK, Passes
    <3> QED BY <1>3, <3>1, <3>2, <3>3, <3>4 DEF CargoFatal
  <2>2. Settled(b) = {} /\ Settled(b)' = {}
    BY <1>1, <2>1 DEF Settled, Passes, Writing
  <2>3. \A c \in Builders : Settled(c)' = Settled(c)
    BY <2>1, <2>2, SettledFrame
  <2> QED BY <1>1, <2>1, <2>3, Stutters DEF Passes
<1> QED BY <1>2, <1>3

LEMMA VerifyOutputImplements ==
  ASSUME IInv, NEW b \in Builders, VerifyOutput(b)
  PROVE  Call!Settle(b) \/ UNCHANGED Call!vars
<1>0. WholeInv /\ DataInv
  BY IInvParts
<1>1. /\ pc[b] = "verify"
      /\ UNCHANGED <<disk, file, past, seen, snap, target, report>>
  BY DEF VerifyOutput, files, history
<1>2. CASE Verified(file[OutputFile], snap[b])
  <2>1. pc' = [pc EXCEPT ![b] = "lookup"]
    BY <1>2 DEF VerifyOutput
  <2>2. pc'[b] = "lookup" /\ \A c \in Builders : c # b => pc'[c] = pc[c]
    BY <1>0, <2>1 DEF WholeInv, TypeOK
  <2>3. /\ file[OutputFile] \in Modules
        /\ file[OutputFile].input = snap[b]
        /\ file[OutputFile].content = file[OutputFile].body
    BY <1>0, <1>2 DEF Verified, WholeInv, TargetsWhole
  <2>4. /\ snap[b] \in seen[b] /\ Accepts(snap[b])
        /\ file[OutputFile].body = Render(snap[b])
    BY <1>0, <1>1, <1>2, <2>3 DEF Verified, DataInv, FilesInv, CallInv, SnapshotInv
  <2>5. file[OutputFile] = Finalized(snap[b], Render(snap[b]))
    BY <2>3, <2>4 DEF Modules, Finalized
  <2> QED BY <1>0, <1>1, <2>2, <2>4, <2>5, Settles
<1>3. CASE ~ Verified(file[OutputFile], snap[b])
  <2>1. pc' = [pc EXCEPT ![b] = "preview"]
    BY <1>3 DEF VerifyOutput, StartPass
  <2>2. pc'[b] = "preview" /\ \A c \in Builders : c # b => pc'[c] = pc[c]
    BY <1>0, <2>1 DEF WholeInv, TypeOK
  <2>3. Settled(b) = {} /\ Settled(b)' = {}
    BY <1>1, <2>2 DEF Settled, Writing
  <2>4. \A c \in Builders : Settled(c)' = Settled(c)
    BY <1>1, <2>2, <2>3, SettledFrame
  <2> QED BY <1>1, <2>2, <2>4, Stutters
<1> QED BY <1>2, <1>3

LEMMA LookupCacheImplements ==
  ASSUME WholeInv, NEW b \in Builders, LookupCache(b)
  PROVE  Call!Return(b) \/ Call!Unsettle(b)
<1>1. /\ pc[b] = "lookup"
      /\ UNCHANGED <<disk, file, past, seen>>
      /\ Settled(b) = {snap[b]}
  BY DEF LookupCache, files, history, Settled
<1>2. CASE Hit(file[CacheOf[b]], snap[b], content[b])
  <2>1. \/ Finish(b, Rejected)
        \/ Finish(b, [outcome |-> "cached", input |-> snap[b],
                      run |-> file[CacheOf[b]].run])
    BY <1>2 DEF LookupCache
  <2> QED BY <1>1, <2>1, RejectedReturns, FinishReturns
<1>3. CASE ~ Hit(file[CacheOf[b]], snap[b], content[b])
  <2>1. pc' = [pc EXCEPT ![b] = "preview"] /\ UNCHANGED <<snap, target, report>>
    BY <1>3 DEF LookupCache, StartPass
  <2>2. pc'[b] = "preview" /\ \A c \in Builders : c # b => pc'[c] = pc[c]
    BY <2>1 DEF WholeInv, TypeOK
  <2>3. Settled(b)' = {}
    BY <2>2 DEF Settled, Writing
  <2>4. \A c \in Builders : Settled(c)' = IF c = b THEN {} ELSE Settled(c)
    BY <2>1, <2>2, <2>3, SettledFrame
  <2>5. \A c \in Builders : Success(c)' <=> Success(c)
    BY <2>1 DEF Success
  <2> QED BY <1>1, <2>1, <2>2, <2>4, <2>5 DEF Call!Unsettle
<1> QED BY <1>2, <1>3

LEMMA CompareOutputImplements ==
  ASSUME IInv, NEW b \in Builders, CompareOutput(b)
  PROVE  Call!Settle(b) \/ UNCHANGED Call!vars
<1>0. WholeInv /\ DataInv
  BY IInvParts
<1>1. /\ pc[b] = "output" /\ target[b] = OutputFile
      /\ UNCHANGED <<disk, file, past, seen, snap, target, report>>
  BY <1>0 DEF CompareOutput, AfterTarget, WholeInv, ShapeInv, Writing, files, history, locals
<1>2. snap[b] \in seen[b] /\ Accepts(snap[b]) /\ content[b] = Render(snap[b])
  BY <1>0, <1>1 DEF DataInv, CallInv, CommitInv, Committed
<1>3. CASE file[OutputFile] = Contents(b)
  <2>1. pc' = [pc EXCEPT ![b] = "record"]
    BY <1>1, <1>3 DEF CompareOutput, AfterTarget
  <2>2. pc'[b] = "record" /\ \A c \in Builders : c # b => pc'[c] = pc[c]
    BY <1>0, <2>1 DEF WholeInv, TypeOK
  <2>3. file'[OutputFile] = Finalized(snap[b], Render(snap[b]))
    BY <1>1, <1>2, <1>3 DEF Contents
  <2> QED BY <1>0, <1>1, <1>2, <2>2, <2>3, Settles
<1>4. CASE file[OutputFile] # Contents(b)
  <2>1. pc' = [pc EXCEPT ![b] = "create"]
    BY <1>4 DEF CompareOutput
  <2>2. pc'[b] = "create" /\ \A c \in Builders : c # b => pc'[c] = pc[c]
    BY <1>0, <2>1 DEF WholeInv, TypeOK
  <2>3. Settled(b) = {} /\ Settled(b)' = {}
    BY <1>1, <2>2 DEF Settled, Writing
  <2>4. \A c \in Builders : Settled(c)' = Settled(c)
    BY <1>1, <2>2, <2>3, SettledFrame
  <2> QED BY <1>1, <2>2, <2>4, Stutters
<1> QED BY <1>3, <1>4

LEMMA StartRecordImplements ==
  ASSUME WholeInv, NEW b \in Builders, StartRecord(b)
  PROVE  Call!Return(b) \/ UNCHANGED Call!vars
<1>1. /\ pc[b] = "record"
      /\ UNCHANGED <<disk, file, past, seen>>
      /\ Settled(b) = {snap[b]}
  BY DEF StartRecord, files, history, Settled
<1>2. CASE Finish(b, Generated(b))
  BY <1>1, <1>2, GeneratedReturns
<1>3. CASE ~ Finish(b, Generated(b))
  <2>1. /\ CacheOf[b] \in Caches
        /\ target' = [target EXCEPT ![b] = CacheOf[b]]
        /\ pc' = [pc EXCEPT ![b] = "create"]
        /\ UNCHANGED <<snap, report>>
    BY <1>3, GenerationAssumption DEF StartRecord
  <2>2. /\ pc'[b] = "create" /\ target'[b] # OutputFile
        /\ \A c \in Builders : c # b => pc'[c] = pc[c] /\ target'[c] = target[c]
    BY <2>1, GenerationAssumption DEF WholeInv, TypeOK
  <2>3. Settled(b)' = {snap[b]}
    BY <2>1, <2>2 DEF Settled, Writing
  <2>4. \A c \in Builders : Settled(c)' = Settled(c)
    BY <1>1, <2>1, <2>2, <2>3, SettledFrame
  <2> QED BY <1>1, <2>1, <2>2, <2>4, Stutters
<1> QED BY <1>2, <1>3

LEMMA TempImplements ==
  ASSUME WholeInv, NEW b \in Builders, CreateTemp(b) \/ FillTemp(b)
  PROVE  Call!Return(b) \/ UNCHANGED Call!vars
<1>1. /\ pc[b] \in Writing
      /\ UNCHANGED <<disk, file, past, seen>>
  BY DEF CreateTemp, FillTemp, Writing, history
<1>2. CASE Finish(b, Rejected)
  BY <1>1, <1>2, RejectedReturns DEF Writing
<1>3. CASE ~ Finish(b, Rejected)
  <2>1. \E p \in Writing : pc' = [pc EXCEPT ![b] = p] /\ UNCHANGED <<snap, target, report>>
    <3>1. CASE CreateTemp(b)
      <4>1. pc = [pc EXCEPT ![b] = pc[b]]
        BY DEF WholeInv, TypeOK
      <4> QED BY <1>1, <1>3, <3>1, <4>1 DEF CreateTemp, locals, Writing
    <3>2. CASE FillTemp(b)
      BY <1>3, <3>2 DEF FillTemp, locals, Writing
    <3> QED BY <3>1, <3>2
  <2>2. /\ pc'[b] \in Writing /\ UNCHANGED <<snap, target, report>>
        /\ \A c \in Builders : c # b => pc'[c] = pc[c]
    BY <2>1 DEF WholeInv, TypeOK
  <2>3. Settled(b)' = Settled(b)
    BY <1>1, <2>2 DEF Settled, Writing
  <2>4. \A c \in Builders : Settled(c)' = Settled(c)
    BY <2>2, <2>3, SettledFrame
  <2> QED BY <1>1, <2>2, <2>4, Stutters DEF Writing
<1> QED BY <1>2, <1>3

LEMMA RenameTempImplements ==
  ASSUME IInv, NEW b \in Builders, RenameTemp(b)
  PROVE  Call!Settle(b) \/ Call!Return(b)
<1>0. WholeInv /\ DataInv
  BY IInvParts
<1>1. /\ pc[b] = "rename" /\ pc[b] \in Writing /\ pc[b] \in Committed
      /\ UNCHANGED <<disk, past, seen>>
  BY DEF RenameTemp, Committed, Writing
<1>2. CASE Finish(b, Rejected) /\ UNCHANGED file
  BY <1>0, <1>1, <1>2, RejectedReturns
<1>3. CASE /\ file' = [file EXCEPT ![target[b]] = Held(b)[attempt[b]]]
           /\ AfterTarget(b)
  <2>1. /\ file' = [file EXCEPT ![target[b]] = Contents(b)]
        /\ file \in [Targets -> Modules \cup Records \cup {NoFile}]
        /\ OutputFile \in Targets
    BY <1>0, <1>1, <1>3 DEF Held, WholeInv, ShapeInv, TypeOK, Targets
  <2>2. snap[b] \in seen[b] /\ Accepts(snap[b]) /\ content[b] = Render(snap[b])
    BY <1>0, <1>1 DEF DataInv, CallInv, CommitInv
  <2>3. CASE target[b] = OutputFile
    <3>1. file'[OutputFile] = Finalized(snap[b], Render(snap[b]))
      BY <2>1, <2>2, <2>3 DEF Contents
    <3>2. pc' = [pc EXCEPT ![b] = "record"] /\ UNCHANGED <<snap, target, report>>
      BY <1>3, <2>3 DEF AfterTarget, locals
    <3>3. pc'[b] = "record" /\ \A c \in Builders : c # b => pc'[c] = pc[c]
      BY <1>0, <3>2 DEF WholeInv, TypeOK
    <3> QED BY <1>0, <1>1, <2>2, <3>1, <3>2, <3>3, Settles
  <2>4. CASE target[b] # OutputFile
    <3>1. file'[OutputFile] = file[OutputFile]
      BY <2>1, <2>4
    <3>2. Settled(b) = {snap[b]}
      BY <1>1, <2>4 DEF Settled
    <3> QED BY <1>0, <1>1, <1>3, <2>4, <3>1, <3>2, GeneratedReturns DEF AfterTarget
  <2> QED BY <2>3, <2>4
<1> QED BY <1>2, <1>3 DEF RenameTemp

LEMMA NextImplements == IInv /\ [Next]_vars => [Call!Next]_(Call!vars)
<1> SUFFICES ASSUME IInv, [Next]_vars PROVE [Call!Next]_(Call!vars)
  OBVIOUS
<1>1. WholeInv
  BY IInvParts
<1>2. CASE Environment
  BY <1>1, <1>2, EnvironmentImplements
<1>3. ASSUME NEW b \in Builders, Begin(b) PROVE Call!Next
  BY <1>1, <1>3, BeginImplements DEF Call!Next
<1>4. ASSUME NEW b \in Builders, Step(b) PROVE [Call!Next]_(Call!vars)
  <2>1. \/ Call!Settle(b) \/ Call!Unsettle(b) \/ Call!Return(b)
        \/ UNCHANGED Call!vars
    BY <1>1, <1>4, PassesImplement, VerifyOutputImplements, LookupCacheImplements,
       CompareOutputImplements, StartRecordImplements, TempImplements, RenameTempImplements
    DEF Step
  <2> QED BY <2>1 DEF Call!Next
<1>5. CASE UNCHANGED vars
  BY <1>5, Stutters, SettledFrame DEF vars
<1> QED BY <1>2, <1>3, <1>4, <1>5 DEF Next

\* Every behaviour of the cache, the retries and the two file writes is one the
\* abstract call allows, for any number of builds, when contents never recur.
THEOREM Refinement == ASSUME Recurs = FALSE PROVE Spec => Implements
<1>1. Init => Call!Init
  BY InitImplements
<1>2. IInv /\ [Next]_vars => [Call!Next]_(Call!vars)
  BY NextImplements
<1>3. Spec => []IInv
  BY Inductive
<1> QED BY <1>1, <1>2, <1>3, PTL DEF Spec, Implements, Call!Spec
=============================================================================
