--------------------------- MODULE GenerationCache ---------------------------
(***************************************************************************)
(* spargen::generate: the input snapshot, the build cache, the preview run *)
(* between two snapshots, and the two atomic file writes                   *)
(* (spargen/src/pipeline.rs, cache.rs, output.rs).                         *)
(*                                                                         *)
(* The input files are read one at a time while a user edits them.         *)
(* Digests are collision free, so a digest is the vector of file contents  *)
(* it was taken of.  A file's content is its version number.  A build may  *)
(* be killed at any point; other builds of the same output may run beside  *)
(* it, sharing its cache directory or with another one (one OUT_DIR per    *)
(* profile), or none.                                                      *)
(***************************************************************************)
EXTENDS Integers, FiniteSets

CONSTANTS
  Builders,      \* concurrent calls of generate for the same Build
  Caches,        \* the cache records: one per OUT_DIR
  CacheOf,       \* CacheOf[b]: the record b uses, or NoCache
  NoCache,
  NumFiles,      \* input files, in the order a load reads them
  Loads(_),      \* InputSnapshot::load succeeds on these contents
  Accepts(_),    \* the preview run renders a module for these contents
  Render(_),     \* the body it renders
  Edited,        \* a body no run renders: a manual edit
  NoFile,        \* no file at a path
  Partial,       \* a temporary whose bytes are not all there
  OutputFile,    \* the output path, beside the cache paths
  Recurs,        \* whether an edit may bring an earlier content back
  MaxVersion,    \* bound: contents one input file goes through
  MaxAttempt     \* bound: stale temporaries a killed build leaves per target

Files == 1..NumFiles
Vectors == [Files -> 0..MaxVersion]    \* the contents of every input file
NoVector == [f \in Files |-> 0]
MaxRounds == 3
Attempts == 0..MaxAttempt
Targets == Caches \cup {OutputFile}

ASSUME GenerationAssumption ==
  /\ NumFiles \in Nat \ {0}
  /\ MaxVersion \in Nat
  /\ MaxAttempt \in Nat
  /\ Recurs \in BOOLEAN
  /\ CacheOf \in [Builders -> Caches \cup {NoCache}]
  /\ NoCache \notin Targets
  /\ OutputFile \notin Caches

\* No run renders a body equal to a manual edit, and the three kinds of file
\* are told apart.
ASSUME BodiesDiffer ==
  /\ \A v \in Vectors : Render(v) # Edited
  /\ NoFile # Partial

\* cache::finalized: the two header lines and the body.
Finalized(v, body) == [input |-> v, content |-> body, body |-> body]
\* cache::write_cache: the record of the run over `run`, filed under digest v.
Record(v, run) == [input |-> v, content |-> Render(run), run |-> run]

\* Nor is what they write taken for a missing or a partial file.
ASSUME FilesDiffer ==
  \A v, run \in Vectors :
    {Finalized(v, Render(v)), Record(v, run)} \cap {NoFile, Partial} = {}

VARIABLES
  disk,      \* disk[f]: the content of input file f
  file,      \* file[t]: the content of a target path
  temps,     \* temps[b][t][a]: b's temporary number a beside target t
  pc,        \* pc[b]: where b's call is
  at,        \* at[b]: the next input file the current pass reads
  rd,        \* rd[b]: what the current pass has read
  snap,      \* snap[b]: the digest the call works for
  shown,     \* shown[b]: what the preview run read
  content,   \* content[b]: the content digest of the module verified or rendered
  round,     \* round[b]: previews rendered for inputs that then changed
  target,    \* target[b]: the path being written
  attempt,   \* attempt[b]: the number of the temporary being written
  report,    \* report[b]: what b's last call returned
  past,      \* history: every vector the input files have held
  seen,      \* history: seen[b], those since b's call began
  calm       \* history: calm[b], see Disturb

files == <<file, temps>>
locals == <<at, rd, snap, shown, content, round, target, attempt>>
history == <<past, seen, calm>>
vars == <<disk, file, temps, pc, at, rd, snap, shown, content, round, target, attempt,
          report, past, seen, calm>>

Passes == {"snapshot", "preview", "after"}
Writing == {"create", "fill", "rename"}
PCs == Passes \cup Writing \cup {"idle", "verify", "lookup", "output", "record"}

NoReport == [outcome |-> "none", input |-> NoVector, run |-> NoVector]
Rejected == [outcome |-> "rejected", input |-> NoVector, run |-> NoVector]
Reports == [outcome : {"none", "rejected", "cached", "generated"},
            input : Vectors, run : Vectors]
Success(b) == report[b].outcome \in {"cached", "generated"}

Init ==
  /\ disk = NoVector
  /\ file = [t \in Targets |-> NoFile]
  /\ temps = [b \in Builders |-> [t \in Targets |-> [a \in Attempts |-> NoFile]]]
  /\ pc = [b \in Builders |-> "idle"]
  /\ at = [b \in Builders |-> 1]
  /\ rd = [b \in Builders |-> NoVector]
  /\ snap = [b \in Builders |-> NoVector]
  /\ shown = [b \in Builders |-> NoVector]
  /\ content = [b \in Builders |-> NoFile]
  /\ round = [b \in Builders |-> 0]
  /\ target = [b \in Builders |-> OutputFile]
  /\ attempt = [b \in Builders |-> 0]
  /\ report = [b \in Builders |-> NoReport]
  /\ past = {NoVector}
  /\ seen = [b \in Builders |-> {}]
  /\ calm = [b \in Builders |-> "disturbed"]

-----------------------------------------------------------------------------
(* The user and the rest of the machine. *)

\* calm[b] is "call" while nothing but b has changed a file since b's last call
\* began, and "warm" while that has been so since a call of b that generated.
Disturb == calm' = [b \in Builders |-> "disturbed"]

\* The user saves input file f.
EditInput(f) ==
  /\ \E n \in 0..MaxVersion :
       /\ IF Recurs THEN n # disk[f] ELSE n = disk[f] + 1
       /\ disk' = [disk EXCEPT ![f] = n]
  /\ past' = past \cup {disk'}
  /\ seen' = [b \in Builders |->
                IF pc[b] # "idle" THEN seen[b] \cup {disk'} ELSE seen[b]]
  /\ Disturb
  /\ UNCHANGED <<files, pc, locals, report>>

\* The user deletes the module, edits its body under the headers, or checks an
\* earlier one out of version control.
TamperOutput ==
  /\ \/ file' = [file EXCEPT ![OutputFile] = NoFile]
     \/ \E v \in past :
          Accepts(v) /\ file' = [file EXCEPT ![OutputFile] = Finalized(v, Render(v))]
     \/ /\ file[OutputFile] # NoFile
        /\ file' = [file EXCEPT ![OutputFile] =
                      [input |-> @.input, content |-> @.content, body |-> Edited]]
  /\ file' # file
  /\ Disturb
  /\ UNCHANGED <<disk, temps, pc, locals, report, past, seen>>

\* cargo clean, or a corrupt record: read_cache cannot parse it.
LoseCache(c) ==
  /\ file[c] # NoFile
  /\ file' = [file EXCEPT ![c] = NoFile]
  /\ Disturb
  /\ UNCHANGED <<disk, temps, pc, locals, report, past, seen>>

-----------------------------------------------------------------------------
(* generate_with_cache_dir. *)

\* The pass named p reads the input files from the first on.
StartPass(b, p) ==
  /\ pc' = [pc EXCEPT ![b] = p]
  /\ at' = [at EXCEPT ![b] = 1]
  /\ rd' = [rd EXCEPT ![b] = NoVector]

\* b's call returns r; its locals are dropped.
Finish(b, r) ==
  /\ StartPass(b, "idle")
  /\ snap' = [snap EXCEPT ![b] = NoVector]
  /\ shown' = [shown EXCEPT ![b] = NoVector]
  /\ content' = [content EXCEPT ![b] = NoFile]
  /\ round' = [round EXCEPT ![b] = 0]
  /\ target' = [target EXCEPT ![b] = OutputFile]
  /\ attempt' = [attempt EXCEPT ![b] = 0]
  /\ report' = [report EXCEPT ![b] = r]

Begin(b) ==
  /\ pc[b] = "idle"
  /\ StartPass(b, "snapshot")
  /\ report' = [report EXCEPT ![b] = NoReport]
  /\ seen' = [seen EXCEPT ![b] = {disk}]
  /\ calm' = [calm EXCEPT ![b] =
                IF \/ @ = "call" /\ report[b].outcome = "generated"
                   \/ @ = "warm" /\ Success(b)
                THEN "warm" ELSE "call"]
  /\ UNCHANGED <<disk, files, snap, shown, content, round, target, attempt, past>>

\* cargo_environment is fatal: the call is rejected before it reads anything.
CargoFatal(b) ==
  /\ pc[b] = "snapshot" /\ at[b] = 1
  /\ Finish(b, Rejected)
  /\ UNCHANGED <<disk, files, history>>

\* One file of InputBundle::load / read_inputs.
ReadInput(b) ==
  /\ pc[b] \in Passes
  /\ at[b] \in Files
  /\ rd' = [rd EXCEPT ![b][at[b]] = disk[at[b]]]
  /\ at' = [at EXCEPT ![b] = @ + 1]
  /\ UNCHANGED <<disk, files, pc, snap, shown, content, round, target, attempt,
                 report, history>>

PassRead(b, p) == pc[b] = p /\ at[b] = NumFiles + 1

\* The first InputSnapshot::load ends.
EndSnapshot(b) ==
  /\ PassRead(b, "snapshot")
  /\ IF ~ Loads(rd[b])
     THEN Finish(b, Rejected)
     ELSE /\ snap' = [snap EXCEPT ![b] = rd[b]]
          /\ StartPass(b, IF CacheOf[b] = NoCache THEN "preview" ELSE "verify")
          /\ UNCHANGED <<shown, content, round, target, attempt, report>>
  /\ UNCHANGED <<disk, files, history>>

\* Mistake: the input header is not compared.
VerifiedBodyOnly(f, v) ==
  /\ f \notin {NoFile, Partial}
  /\ f.content = f.body

\* cache::verified_output on the file at the output path: the headers carry
\* the digest, and the body hashes to the content header.
Verified(f, v) ==
  /\ f \notin {NoFile, Partial}
  /\ f.input = v
  /\ f.content = f.body

VerifyOutput(b) ==
  /\ pc[b] = "verify"
  /\ IF Verified(file[OutputFile], snap[b])
     THEN /\ pc' = [pc EXCEPT ![b] = "lookup"]
          /\ content' = [content EXCEPT ![b] = file[OutputFile].body]
          /\ UNCHANGED <<at, rd>>
     ELSE StartPass(b, "preview") /\ UNCHANGED content
  /\ UNCHANGED <<disk, files, snap, shown, round, target, attempt, report, history>>

\* cache::read_cache: the record is filed under both digests.
Hit(f, v, body) ==
  /\ f # NoFile
  /\ f.input = v
  /\ f.content = body

\* A hit replays the recorded run and audits the consumer manifest against its
\* requirements; any finding rejects.  A miss renders.
LookupCache(b) ==
  /\ pc[b] = "lookup"
  /\ LET record == file[CacheOf[b]] IN
     IF Hit(record, snap[b], content[b])
     THEN \E finding \in BOOLEAN :
            Finish(b, IF finding THEN Rejected
                      ELSE [outcome |-> "cached", input |-> snap[b], run |-> record.run])
     ELSE /\ StartPass(b, "preview")
          /\ content' = [content EXCEPT ![b] = NoFile]
          /\ UNCHANGED <<snap, shown, round, target, attempt, report>>
  /\ UNCHANGED <<disk, files, history>>

\* run_mode(Preview) ends: it re-read the inputs, and was rejected, failed the
\* audit, or holds a module in memory.
EndPreview(b) ==
  /\ PassRead(b, "preview")
  /\ \E finding \in BOOLEAN :
       IF ~ Accepts(rd[b]) \/ finding
       THEN Finish(b, Rejected)
       ELSE /\ shown' = [shown EXCEPT ![b] = rd[b]]
            /\ content' = [content EXCEPT ![b] = Render(rd[b])]
            /\ StartPass(b, "after")
            /\ UNCHANGED <<snap, round, target, attempt, report>>
  /\ UNCHANGED <<disk, files, history>>

\* Mistake: the rendered module is filed under the newer digest.
EndAfterAdopting(b) ==
  /\ PassRead(b, "after")
  /\ snap' = [snap EXCEPT ![b] = rd[b]]
  /\ StartPass(b, "output")
  /\ UNCHANGED <<disk, files, history, round, shown, content, target, attempt, report>>

\* Mistake: the module is written whatever the second load read.
EndAfterUnchecked(b) ==
  /\ PassRead(b, "after")
  /\ StartPass(b, "output")
  /\ UNCHANGED <<disk, files, history, snap, round, shown, content, target, attempt, report>>

\* Mistake: changed inputs are tried again without a limit.
EndAfterUnlimited(b) ==
  /\ PassRead(b, "after")
  /\ snap' = [snap EXCEPT ![b] = rd[b]]
  /\ StartPass(b, IF rd[b] # snap[b] THEN "preview" ELSE "output")
  /\ UNCHANGED <<disk, files, history, round, shown, content, target, attempt, report>>

\* The second InputSnapshot::load ends.  Inputs that changed are tried again,
\* three times in all.
EndAfter(b) ==
  /\ PassRead(b, "after")
  /\ IF ~ Loads(rd[b]) \/ (rd[b] # snap[b] /\ round[b] + 1 = MaxRounds)
     THEN Finish(b, Rejected)
     ELSE /\ IF rd[b] # snap[b]
             THEN /\ snap' = [snap EXCEPT ![b] = rd[b]]
                  /\ round' = [round EXCEPT ![b] = @ + 1]
                  /\ shown' = [shown EXCEPT ![b] = NoVector]
                  /\ content' = [content EXCEPT ![b] = NoFile]
                  /\ StartPass(b, "preview")
             ELSE StartPass(b, "output") /\ UNCHANGED <<snap, round, shown, content>>
          /\ UNCHANGED <<target, attempt, report>>
  /\ UNCHANGED <<disk, files, history>>

-----------------------------------------------------------------------------
(* output::write_output and output::atomic_write. *)

\* What b writes to its target.
Contents(b) == IF target[b] = OutputFile THEN Finalized(snap[b], content[b])
                                         ELSE Record(snap[b], shown[b])

Generated(b) == [outcome |-> "generated", input |-> snap[b], run |-> shown[b]]

\* The target is in place: the call goes on to its record, or is over.
AfterTarget(b) ==
  IF target[b] = OutputFile
  THEN pc' = [pc EXCEPT ![b] = "record"] /\ UNCHANGED <<locals, report>>
  ELSE Finish(b, Generated(b))

\* Mistake: no record for an output that was left as it was.
CompareOutputWithoutRecord(b) ==
  /\ pc[b] = "output"
  /\ IF file[OutputFile] = Contents(b)
     THEN Finish(b, Generated(b))
     ELSE pc' = [pc EXCEPT ![b] = "create"] /\ UNCHANGED <<locals, report>>
  /\ UNCHANGED <<disk, files, history>>

\* write_output leaves a file that already holds exactly these bytes.
CompareOutput(b) ==
  /\ pc[b] = "output"
  /\ IF file[OutputFile] = Contents(b)
     THEN AfterTarget(b)
     ELSE /\ pc' = [pc EXCEPT ![b] = "create"]
          /\ UNCHANGED <<locals, report>>
  /\ UNCHANGED <<disk, files, history>>

\* With a cache directory the record is written after the module.
StartRecord(b) ==
  /\ pc[b] = "record"
  /\ IF CacheOf[b] = NoCache
     THEN Finish(b, Generated(b))
     ELSE /\ target' = [target EXCEPT ![b] = CacheOf[b]]
          /\ attempt' = [attempt EXCEPT ![b] = 0]
          /\ pc' = [pc EXCEPT ![b] = "create"]
          /\ UNCHANGED <<at, rd, snap, shown, content, round, report>>
  /\ UNCHANGED <<disk, files, history>>

Held(b) == temps[b][target[b]]

\* Mistake: the temporary is renamed before it is filled.
CreateTempUnfilled(b) ==
  /\ pc[b] = "create"
  /\ temps' = [temps EXCEPT ![b][target[b]][attempt[b]] = Partial]
  /\ pc' = [pc EXCEPT ![b] = "rename"]
  /\ UNCHANGED <<disk, file, history, locals, report>>

\* create_new: a name that exists is passed over, whoever left it.  Any other
\* failure ends the write, and the call with it.
CreateTemp(b) ==
  /\ pc[b] = "create"
  /\ \/ /\ Held(b)[attempt[b]] # NoFile
        /\ attempt[b] < MaxAttempt
        /\ attempt' = [attempt EXCEPT ![b] = @ + 1]
        /\ UNCHANGED <<temps, pc, at, rd, snap, shown, content, round, target, report>>
     \/ /\ Held(b)[attempt[b]] = NoFile
        /\ temps' = [temps EXCEPT ![b][target[b]][attempt[b]] = Partial]
        /\ pc' = [pc EXCEPT ![b] = "fill"]
        /\ UNCHANGED <<locals, report>>
     \/ Finish(b, Rejected) /\ UNCHANGED temps
  /\ UNCHANGED <<disk, file, history>>

\* write_all and sync_all; a failure removes the temporary.
FillTemp(b) ==
  /\ pc[b] = "fill"
  /\ \/ /\ temps' = [temps EXCEPT ![b][target[b]][attempt[b]] = Contents(b)]
        /\ pc' = [pc EXCEPT ![b] = "rename"]
        /\ UNCHANGED <<locals, report>>
     \/ /\ temps' = [temps EXCEPT ![b][target[b]][attempt[b]] = NoFile]
        /\ Finish(b, Rejected)
  /\ UNCHANGED <<disk, file, history>>

\* rename; a failure removes the temporary.
RenameTemp(b) ==
  /\ pc[b] = "rename"
  /\ temps' = [temps EXCEPT ![b][target[b]][attempt[b]] = NoFile]
  /\ \/ /\ file' = [file EXCEPT ![target[b]] = Held(b)[attempt[b]]]
        /\ AfterTarget(b)
        /\ calm' = [c \in Builders |-> IF c = b THEN calm[c] ELSE "disturbed"]
     \/ Finish(b, Rejected) /\ UNCHANGED <<file, calm>>
  /\ UNCHANGED <<disk, past, seen>>

\* The process dies: its locals are lost, its temporary stays.
Crash(b) ==
  /\ pc[b] # "idle"
  /\ pc[b] \in {"fill", "rename"} => attempt[b] < MaxAttempt
  /\ Finish(b, NoReport)
  /\ UNCHANGED <<disk, files, history>>

-----------------------------------------------------------------------------
Step(b) ==
  \/ CargoFatal(b) \/ ReadInput(b) \/ EndSnapshot(b)
  \/ VerifyOutput(b) \/ LookupCache(b)
  \/ EndPreview(b) \/ EndAfter(b)
  \/ CompareOutput(b) \/ StartRecord(b)
  \/ CreateTemp(b) \/ FillTemp(b) \/ RenameTemp(b)

Environment ==
  \/ \E f \in Files : EditInput(f)
  \/ TamperOutput
  \/ \E c \in Caches : LoseCache(c)
  \/ \E b \in Builders : Crash(b)

Next == Environment \/ \E b \in Builders : Begin(b) \/ Step(b)

Spec == Init /\ [][Next]_vars
\* A process that is not killed runs: nothing it does waits for another.
FairSpec == Spec /\ \A b \in Builders : WF_vars(Step(b))

-----------------------------------------------------------------------------
(* Properties. *)

Bodies == {Render(v) : v \in Vectors} \cup {Edited}
Modules == [input : Vectors, content : Bodies, body : Bodies]
Records == {Record(v, run) : v \in Vectors, run \in Vectors}

\* Every variable keeps its type; the bounds of the model hold.
TypeOK ==
  /\ disk \in Vectors
  /\ file \in [Targets -> Modules \cup Records \cup {NoFile}]
  /\ temps \in [Builders -> [Targets -> [Attempts ->
                 Modules \cup Records \cup {NoFile, Partial}]]]
  /\ pc \in [Builders -> PCs]
  /\ at \in [Builders -> 1..NumFiles + 1]
  /\ rd \in [Builders -> Vectors]
  /\ snap \in [Builders -> Vectors]
  /\ shown \in [Builders -> Vectors]
  /\ content \in [Builders -> Bodies \cup {NoFile}]
  /\ round \in [Builders -> 0..MaxRounds - 1]
  /\ target \in [Builders -> Targets]
  /\ attempt \in [Builders -> Attempts]
  /\ report \in [Builders -> Reports]
  /\ past \subseteq Vectors
  /\ seen \in [Builders -> SUBSET Vectors]
  /\ calm \in [Builders -> {"disturbed", "call", "warm"}]

\* A call that succeeds took ALL its input files as they stood together at one
\* instant of the call, though it read them one at a time and a cached call
\* read them only once, and its diagnostics are those of these inputs.
OneInstant ==
  \A b \in Builders : Success(b) =>
    /\ report[b].input \in seen[b]
    /\ report[b].run = report[b].input

\* Whatever was killed, raced or edited, a file at the output path that passes
\* its own header check is the module of inputs that stood together once.
TrueModule ==
  LET f == file[OutputFile] IN
  f # NoFile =>
    /\ f.input \in past
    /\ Accepts(f.input)
    /\ f.content = f.body => f.body = Render(f.input)

\* A record on disk is whole and its run is the run of the digest it is filed
\* under, so a hit never replays another input's diagnostics or requirements.
TrueRecord ==
  \A c \in Caches : file[c] # NoFile =>
    file[c] = Record(file[c].input, file[c].input)

\* A path another process reads is whole: absent, a finalized module (perhaps
\* edited by hand), or a record, whenever a build is killed or a write fails.
TargetsWhole ==
  /\ file[OutputFile] \in Modules \cup {NoFile}
  /\ \A c \in Caches : file[c] \in Records \cup {NoFile}

\* A call with a cache that found nothing changed since a generated call never
\* renders: the second build is served from the cache.
WarmCallIsCached ==
  \A b \in Builders :
    calm[b] = "warm" /\ CacheOf[b] # NoCache =>
      pc[b] \notin {"preview", "after", "output", "record"} \cup Writing

\* A call ends, however often its inputs change while they are read.
CallReturns == \A b \in Builders : pc[b] # "idle" ~> pc[b] = "idle"

\* The promise of a call, over this module's state.
Settled(b) ==
  IF \/ pc[b] \in {"lookup", "record"}
     \/ pc[b] \in Writing /\ target[b] # OutputFile
  THEN {snap[b]} ELSE {}

Call == INSTANCE GenerateCall WITH
  module  <- file[OutputFile],
  running <- {b \in Builders : pc[b] # "idle"},
  settled <- [b \in Builders |-> Settled(b)],
  result  <- [b \in Builders |-> IF Success(b) THEN {report[b].input} ELSE {}]

Implements == Call!Spec
-----------------------------------------------------------------------------
(* The inductive invariants. *)

Committed == {"output", "record"} \cup Writing

\* What the locals hold at each place, whatever the inputs do: a content digest
\* once something was verified or rendered, a target of this build, and in a
\* filled temporary exactly what is to be written.
ShapeInv(b) ==
  /\ pc[b] \in {"lookup", "after"} \cup Committed => content[b] \in Bodies
  /\ pc[b] \in {"verify", "lookup"} => CacheOf[b] \in Caches
  /\ IF pc[b] \in Writing THEN target[b] \in {OutputFile, CacheOf[b]}
                          ELSE target[b] = OutputFile
  /\ pc[b] = "rename" => temps[b][target[b]][attempt[b]] = Contents(b)

WholeInv == TypeOK /\ TargetsWhole /\ \A b \in Builders : ShapeInv(b)

\* The rest holds when contents never recur.  u is nowhere newer than v:
Leq(u, v) == \A f \in Files : u[f] <= v[f]
\* u and v agree on the first n files a pass reads.
Agree(u, v, n) == \A f \in Files : f <= n => u[f] = v[f]

\* Histories are chains: contents only move forward, and what a call has seen
\* is the end of the chain.
HistoryInv ==
  /\ disk \in past
  /\ \A v \in past : Leq(v, disk)
  /\ \A u, v \in past : Leq(u, v) \/ Leq(v, u)
  /\ \A b \in Builders :
       /\ seen[b] \subseteq past
       /\ pc[b] # "idle" =>
            /\ disk \in seen[b]
            /\ \A p \in past : \A q \in seen[b] : Leq(q, p) => p \in seen[b]

\* A first pass, though torn, agrees with an earlier instant only when it
\* agrees with an instant of the call.
SnapshotInv(b) ==
  /\ pc[b] = "snapshot" =>
       /\ \A f \in Files : f < at[b] => rd[b][f] <= disk[f]
       /\ \A p \in past : Agree(p, rd[b], at[b] - 1) =>
            \E q \in seen[b] : Agree(q, rd[b], at[b] - 1)
  /\ pc[b] = "verify" => Leq(snap[b], disk) /\ (snap[b] \in past => snap[b] \in seen[b])
  /\ pc[b] = "lookup" => Leq(snap[b], disk)

\* Between the two passes lies an instant m that bounds what the first read
\* from above and what the preview and the second read from below.
PreviewInv(b) ==
  /\ pc[b] = "preview" => \E m \in seen[b] :
       /\ Leq(snap[b], m)
       /\ \A f \in Files : f < at[b] => m[f] <= rd[b][f] /\ rd[b][f] <= disk[f]
  /\ pc[b] = "after" => \E m \in seen[b] :
       /\ Leq(snap[b], m)
       /\ Leq(m, shown[b])
       /\ Leq(shown[b], disk)
       /\ \A f \in Files : f < at[b] => shown[b][f] <= rd[b][f] /\ rd[b][f] <= disk[f]

\* From the second snapshot on, everything is about one instant of the call.
CommitInv(b) ==
  /\ pc[b] = "after" => Accepts(shown[b]) /\ content[b] = Render(shown[b])
  /\ pc[b] \in Committed \cup {"lookup"} =>
       /\ snap[b] \in seen[b]
       /\ Accepts(snap[b])
       /\ content[b] = Render(snap[b])
  /\ pc[b] \in Committed => shown[b] = snap[b]

\* What lies at the target paths is about one instant too.
FilesInv ==
  /\ LET f == file[OutputFile] IN
     f # NoFile =>
       /\ f.input \in past
       /\ Accepts(f.input)
       /\ f.content = Render(f.input)
       /\ f.body \in {f.content, Edited}
  /\ \A c \in Caches : file[c] # NoFile => \E v \in Vectors : file[c] = Record(v, v)

\* The module and the record of b are those of the inputs on disk.
Fresh(b) ==
  /\ file[OutputFile] = Finalized(disk, Render(disk))
  /\ CacheOf[b] # NoCache => file[CacheOf[b]] = Record(disk, disk)

\* While nothing but b changes a file, all b holds is of the inputs on disk; and a
\* call that generated left a module and a record of them, which the next one finds.
\* This needs no assumption about contents that recur.
CalmInv(b) ==
  calm[b] # "disturbed" =>
    /\ pc[b] \in Passes => \A f \in Files : f < at[b] => rd[b][f] = disk[f]
    /\ pc[b] \notin {"idle", "snapshot"} => snap[b] = disk
    /\ pc[b] \in {"after"} \cup Committed => shown[b] = disk /\ content[b] = Render(disk)
    /\ pc[b] = "record" \/ (pc[b] \in Writing /\ target[b] # OutputFile) =>
         file[OutputFile] = Finalized(disk, Render(disk))
    /\ pc[b] = "idle" /\ report[b].outcome = "generated" => Fresh(b)
    /\ calm[b] = "warm" /\ CacheOf[b] # NoCache =>
         /\ Fresh(b)
         /\ pc[b] \notin {"preview", "after"} \cup Committed
         /\ pc[b] = "lookup" => content[b] = Render(disk)

WarmInv == \A b \in Builders : CalmInv(b)

IInv ==
  /\ WholeInv
  /\ HistoryInv
  /\ FilesInv
  /\ OneInstant
  /\ \A b \in Builders : SnapshotInv(b) /\ PreviewInv(b) /\ CommitInv(b)
=============================================================================
