---------------------------- MODULE GenerateCall ----------------------------
(***************************************************************************)
(* What spargen::generate promises a build script, with nothing said about *)
(* how.  A call that succeeds took its inputs, which are several files, as *)
(* they stood together at ONE instant of the call, and the generated       *)
(* module of exactly those inputs lay whole at the output path at some     *)
(* instant of the call.  Nothing else ever replaces the module, except the *)
(* user.  GenerationCache is shown to implement this module.               *)
(***************************************************************************)
EXTENDS Naturals

CONSTANTS
  Builders,      \* concurrent calls of generate for the same Build
  NumFiles,      \* number of input files: documents, lock file, config files
  Accepts(_),    \* the pipeline renders a module for these inputs
  Render(_),     \* the rendered module body of these inputs
  Edited,        \* a body no run of spargen renders: a manual edit
  NoFile         \* the content of a path where there is no file

Files == 1..NumFiles
Vectors == [Files -> Nat]              \* the content of every input file
NoVector == [f \in Files |-> 0]

\* The complete generated file of the inputs v: both header lines and the body.
Module(v) == [input |-> v, content |-> Render(v), body |-> Render(v)]

VARIABLES
  disk,      \* the input files as they are now
  past,      \* every vector the input files have held (a history)
  seen,      \* seen[b]: the vectors they have held since b's call began
  module,    \* the file at the output path
  running,   \* the builders with a call in progress
  settled,   \* settled[b]: {v} once v's module lay at the output path in b's call
  result     \* result[b]: {v} when b's last call succeeded for v, {} otherwise

vars == <<disk, past, seen, module, running, settled, result>>

TypeOK ==
  /\ disk \in Vectors
  /\ past \subseteq Vectors
  /\ seen \in [Builders -> SUBSET Vectors]
  /\ running \subseteq Builders
  /\ settled \in [Builders -> SUBSET Vectors]
  /\ result \in [Builders -> SUBSET Vectors]

Init ==
  /\ disk = NoVector
  /\ past = {NoVector}
  /\ seen = [b \in Builders |-> {}]
  /\ module = NoFile
  /\ running = {}
  /\ settled = [b \in Builders |-> {}]
  /\ result = [b \in Builders |-> {}]

\* A call of b starts.
Begin(b) ==
  /\ b \notin running
  /\ running' = running \cup {b}
  /\ seen' = [seen EXCEPT ![b] = {disk}]
  /\ settled' = [settled EXCEPT ![b] = {}]
  /\ result' = [result EXCEPT ![b] = {}]
  /\ UNCHANGED <<disk, past, module>>

\* The module of inputs that stood together during the call is at the output
\* path: b put it there, or found it there.
Settle(b) ==
  /\ b \in running
  /\ \E v \in seen[b] :
       /\ Accepts(v)
       /\ module' = Module(v)
       /\ settled' = [settled EXCEPT ![b] = {v}]
  /\ UNCHANGED <<disk, past, seen, running, result>>

\* b looks further: what it found is not enough to answer the call.
Unsettle(b) ==
  /\ b \in running
  /\ settled' = [settled EXCEPT ![b] = {}]
  /\ UNCHANGED <<disk, past, seen, module, running, result>>

\* b's call returns: with the settled inputs, or without success.
Return(b) ==
  /\ b \in running
  /\ running' = running \ {b}
  /\ \/ settled[b] # {} /\ result' = [result EXCEPT ![b] = settled[b]]
     \/ result' = [result EXCEPT ![b] = {}]
  /\ settled' = [settled EXCEPT ![b] = {}]
  /\ UNCHANGED <<disk, past, seen, module>>

\* The user changes the input files.
EditInput ==
  /\ UNCHANGED <<module, running, settled, result>>
  /\ disk' \in Vectors
  /\ past' = past \cup {disk'}
  /\ seen' = [b \in Builders |->
                IF b \in running THEN seen[b] \cup {disk'} ELSE seen[b]]

\* The user deletes the module, edits its body, or checks out an earlier one.
TamperModule ==
  /\ \/ module' = NoFile
     \/ \E v \in past : Accepts(v) /\ module' = Module(v)
     \/ /\ module # NoFile
        /\ module' = [input |-> module.input, content |-> module.content, body |-> Edited]
  /\ UNCHANGED <<disk, past, seen, running, settled, result>>

Next ==
  \/ EditInput
  \/ TamperModule
  \/ \E b \in Builders : Begin(b) \/ Settle(b) \/ Unsettle(b) \/ Return(b)

Spec == Init /\ [][Next]_vars
=============================================================================
