------------------------------- MODULE Carve -------------------------------
(***************************************************************************)
(* Omit rules and auto-carve: compat/ and carve_spec, run_carve and        *)
(* run_pipeline of pipeline.rs, with the diagnostics they raise.           *)
(*                                                                         *)
(* The input is a tree of nodes in several files, some of which the        *)
(* frontend rejects, with references between them. A run applies its omit  *)
(* rules to the tree and lowers what is left. With `carve`, probes are run *)
(* first: the errors of each are traced to the smallest constructs around  *)
(* them, which become rules of the next, until a probe lowers, no error    *)
(* yields a new rule, or the rounds are used up.                           *)
(***************************************************************************)
EXTENDS Naturals, FiniteSets

CONSTANTS
    Nodes,      \* the nodes of all files
    InRoot,     \* those of the root document
    Kind,       \* what a node is, by where it stands: see Kinds
    Above,      \* a node and all nodes it lies in
    Refs,       \* the targets of the `$ref`s written in a node
    Text,       \* the place of a node's rule in the order of describe()
    Inputs,     \* the runs: [flaw, user, carve, cap, mode]
    MaxRounds,  \* MAX_CARVE_ROUNDS
    Unbounded   \* usize::MAX, more than there are diagnostics

(* "path": an entry of `paths`; "operation": one of its methods, or of its *)
(* additionalOperations; "component", "pathItem": an entry of a map of     *)
(* `components`; "webhook"; "method": a method of a path item that is none *)
(* of these; "part": anything else, "required" if the root must have it.   *)
Kinds == {"path", "operation", "component", "pathItem", "webhook", "method",
          "part", "required"}

ASSUME UnboundedAssumption == Unbounded \in Nat

ASSUME TreeAssumption ==
    /\ IsFiniteSet(Nodes)
    /\ InRoot \subseteq Nodes
    /\ Kind \in [Nodes -> Kinds]
    /\ Above \in [Nodes -> SUBSET Nodes]
    /\ \A n \in Nodes : n \in Above[n]
    /\ \A n, m \in Nodes : m \in Above[n] => Above[m] \subseteq Above[n]
    /\ \A n, m \in Nodes : m \in Above[n] /\ n \in Above[m] => m = n
    /\ Text \in [Nodes -> Nat]
    /\ \A n, m \in Nodes : Text[n] = Text[m] => n = m
    /\ MaxRounds \in Nat \ {0}

ASSUME InputAssumption ==
    \A r \in Inputs :
        /\ r.flaw \in [Nodes -> 0 .. 2]
        /\ r.carve \in BOOLEAN
        /\ r.cap \in Nat
        /\ r.mode \in {"Preview", "Requirements"}
        /\ IsFiniteSet(DOMAIN r.user)

VARIABLES
    run,        \* the run's input
    pc,
    probing,    \* whether this is a probe of carve_spec
    round,      \* probes begun
    omit,       \* the rules: [round, at, targets], round 0 the user's own
    doc,        \* the nodes the omit profile left
    batch,      \* the diagnostics of this probe, or of the run
    todo,       \* the nodes carve_at is still to look at
    visited,    \* those it has looked at
    found,      \* the constructs it found to carve
    outcome,
    emitted     \* history: all that was emitted into `batch`

carver == <<todo, visited, found>>
vars == <<run, pc, probing, round, omit, doc, batch, carver, outcome, emitted>>

-----------------------------------------------------------------------------
(* The collector of one run's diagnostics, diag/collect.rs. It retains at  *)
(* most `cap` of them, each once; past the cap it drops what comes, but an *)
(* error that is dropped still rejects the run.                            *)
(*                                                                         *)
(* A diagnostic is a record with a field `error`; two that agree in every  *)
(* field have the same code, pointer, span, message and remedy. The order  *)
(* of emission decides only which ones are retained, and is left open.     *)

NewBatch(cap) == [items |-> {}, cap |-> cap, errors |-> 0, capped |-> FALSE]

Fits(held, count) ==
    Cardinality(held.items) + count <= held.cap

(* What of `new` a batch retains: all of it, or as much as there is room   *)
(* for.                                                                    *)
Retained(held, new) ==
    {kept \in SUBSET new :
        /\ Fits(held, Cardinality(kept))
        /\ kept # new => ~ Fits(held, Cardinality(kept) + 1)}

ErrorsIn(diagnostics) == {d \in diagnostics : d.error}

(* Mistake: what is dropped at the cap is not counted. *)
EmitKeptOnly(held, diagnostics) ==
    {[held EXCEPT !.items = @ \union kept,
                  !.errors = @ + Cardinality(ErrorsIn(kept)),
                  !.capped = @ \/ kept # diagnostics \ held.items]
        : kept \in Retained(held, diagnostics \ held.items)}

(* The batches there can be once `diagnostics` were emitted. *)
Emit(held, diagnostics) ==
    LET new == diagnostics \ held.items
    IN  {[held EXCEPT !.items = @ \union kept,
                      !.errors = @ + Cardinality(ErrorsIn(new)),
                      !.capped = @ \/ kept # new]
            : kept \in Retained(held, new)}

HasErrors(held) == held.errors > 0

-----------------------------------------------------------------------------
(* Walks over the tree and its references. *)

(* All that can be reached from `from`, where `step` leads from each node. *)
Closure(from, step) ==
    LET within[i \in 0 .. Cardinality(Nodes)] ==
            IF i = 0 THEN from
            ELSE UNION {{n} \union step[n] : n \in within[i - 1]}
    IN  within[Cardinality(Nodes)]

Below == [n \in Nodes |-> {m \in Nodes : n \in Above[m]}]

Under(roots) == UNION {Below[n] : n \in roots \intersect Nodes}

(* What the frontend looks at: the root document, and what references met  *)
(* there reach.                                                            *)
Reached(present) ==
    Closure(InRoot \intersect present,
            [n \in Nodes |-> Under(Refs[n]) \intersect present])
        \intersect present

Dangling(present) == {n \in present : ~ Refs[n] \subseteq present}

-----------------------------------------------------------------------------
(* Omit rules. *)

(* The order rules are applied in: those of a round after those before it, *)
(* the user's as written, the carved ones of a round by their text.        *)
Before(r, s) == r.round < s.round \/ (r.round = s.round /\ r.at < s.at)

UserRules(user) == {[round |-> 0, at |-> i, targets |-> user[i]] : i \in DOMAIN user}

(* Mistake: the rules of a round are sorted the other way. *)
CarvedRulesReversed(k, nodes) ==
    {[round |-> k, at |-> 1000 - Text[n], targets |-> {n}] : n \in nodes}

CarvedRules(k, nodes) == {[round |-> k, at |-> Text[n], targets |-> {n}] : n \in nodes}

(* What is left when rule `r` is about to be applied. *)
LeftFor(r, rules) ==
    Nodes \ Under(UNION {s.targets : s \in {q \in rules : Before(q, r)}})

LeftBy(rules) == Nodes \ Under(UNION {r.targets : r \in rules})

(* A rule whose construct is not there, or a glob that matches nothing.    *)
MatchesNothing(r, rules) == r.targets \intersect LeftFor(r, rules) = {}

OmittedConstruct(r, n) == [error |-> FALSE, code |-> "W009", at |-> n, by |-> r]
InvalidOmitRule(r) == [error |-> TRUE, code |-> "E019", at |-> "root", by |-> r]
OmitCreatedInvalidDocument ==
    [error |-> TRUE, code |-> "E020", at |-> "root", by |-> "profile"]
Rejection(n) == [error |-> TRUE, code |-> "flaw", at |-> n, by |-> "frontend"]
InvalidInput == [error |-> TRUE, code |-> "E011", at |-> "root", by |-> "pipeline"]

(* Omit::apply: a warning for each construct removed, an error for a rule  *)
(* that removes nothing and for a root that lacks a required member.       *)
OmittedBy(rules) ==
    UNION {{OmittedConstruct(r, n) : n \in r.targets \intersect LeftFor(r, rules)}
              : r \in rules}

InvalidRules(rules) == {InvalidOmitRule(r) : r \in {q \in rules : MatchesNothing(q, rules)}}

RootCheck(rules) ==
    IF \E n \in Nodes \ LeftBy(rules) : Kind[n] = "required"
    THEN {OmitCreatedInvalidDocument} ELSE {}

ApplyDiagnostics(rules) == OmittedBy(rules) \union InvalidRules(rules) \union RootCheck(rules)

-----------------------------------------------------------------------------
(* The frontend: a stage that finds errors ends it. References are         *)
(* resolved in the last stage.                                             *)

FrontendErrors(flaw, present) ==
    LET reached == Reached(present)
        invalid == {n \in reached : flaw[n] = 1}
    IN  IF invalid # {} THEN invalid
        ELSE {n \in reached : flaw[n] = 2 \/ n \in Dangling(present)}

-----------------------------------------------------------------------------
(* The mapping from errors to constructs, compat/carve.rs. *)

Constructs == {"path", "operation", "component", "pathItem"}

(* The smallest construct `n` lies in, if there is one. *)
Enclosing == [n \in Nodes |->
    {c \in Above[n] : Kind[c] \in Constructs
        /\ \A d \in Above[n] : Kind[d] \in Constructs /\ c \in Above[d] => d = c}]

PathItemPosition(s) == Kind[s] \in {"path", "webhook", "pathItem"}

(* The method of path item `t` that `n` lies in. *)
MethodIn(t, n) ==
    {m \in Above[n] : Kind[m] = "method" /\ m # t /\ Above[m] = Above[t] \union {m}}

(* Mistake: a reference into the same file is taken to read `n`. *)
ReadsFile(s, n) == {t \in Refs[s] \intersect Nodes : Above[t] \intersect Above[n] # {}}

(* The references of `s` that read `n`: their targets enclose it. *)
Reads(s, n) == Refs[s] \intersect Above[n]

(* What is carved for an error at `n`: the construct around it or, in a    *)
(* path item file, its method.                                             *)
CarvedAt(present, n) ==
    IF n \in InRoot \/ Enclosing[n] # {} THEN Enclosing[n]
    ELSE UNION {UNION {MethodIn(t, n) : t \in Reads(s, n)}
                    : s \in {q \in present : PathItemPosition(q)}}

(* Where the tracing of an error at `n` goes on: at what reads it. *)
TracedBack(present, n) ==
    IF n \in InRoot \/ Enclosing[n] # {} THEN {}
    ELSE {s \in present : \E t \in Reads(s, n) :
            ~ (PathItemPosition(s) /\ MethodIn(t, n) # {})}

-----------------------------------------------------------------------------
TypeOK ==
    /\ run \in Inputs
    /\ pc \in {"start", "apply", "lower", "carve", "render", "done"}
    /\ probing \in BOOLEAN
    /\ round \in 0 .. MaxRounds
    /\ doc \subseteq Nodes
    /\ todo \subseteq doc /\ visited \subseteq doc /\ found \subseteq doc
    /\ batch.errors \in Nat /\ batch.capped \in BOOLEAN
    /\ outcome \in {"none", "Rejected", "Clean", "Generated"}

Init ==
    /\ run \in Inputs
    /\ pc = "start"
    /\ probing = run.carve
    /\ round = 0
    /\ omit = UserRules(run.user)
    /\ doc = Nodes
    /\ batch = NewBatch(run.cap)
    /\ todo = {} /\ visited = {} /\ found = {}
    /\ outcome = "none"
    /\ emitted = {}

Raise(diagnostics) ==
    /\ batch' \in Emit(batch, diagnostics)
    /\ emitted' = emitted \union diagnostics

Finish(result) == pc' = "done" /\ outcome' = result

(* The bundle is loaded for a probe, whose batch is unbounded, or for the  *)
(* run.                                                                    *)
Load ==
    /\ pc = "start"
    /\ pc' = "apply"
    /\ round' = IF probing THEN round + 1 ELSE round
    /\ batch' = NewBatch(IF probing THEN Unbounded ELSE run.cap)
    /\ emitted' = {}
    /\ doc' = Nodes
    /\ todo' = {} /\ visited' = {} /\ found' = {}
    /\ UNCHANGED <<run, probing, omit, outcome>>

(* An input that does not load, or not any more, encloses no construct.    *)
LoadFails ==
    /\ pc = "apply" /\ emitted = {}
    /\ Raise({InvalidInput})
    /\ Finish("Rejected")
    /\ UNCHANGED <<run, probing, round, omit, doc, carver>>

(* Omit::apply. A probe whose profile fails has no bundle to carve from.   *)
ApplyProfile ==
    /\ pc = "apply"
    /\ Raise(ApplyDiagnostics(omit))
    /\ doc' = LeftBy(omit)
    /\ IF HasErrors(batch')
       THEN Finish("Rejected")
       ELSE pc' = "lower" /\ UNCHANGED outcome
    /\ UNCHANGED <<run, probing, round, omit, carver>>

(* lower_bundle. What lowers in a probe is run for real; what does not is  *)
(* traced back.                                                            *)
LowerBundle ==
    /\ pc = "lower"
    /\ LET errors == FrontendErrors(run.flaw, doc)
       IN  /\ Raise({Rejection(n) : n \in errors})
           /\ IF ~ HasErrors(batch')
              THEN /\ IF probing THEN pc' = "start" /\ UNCHANGED outcome
                      ELSE IF run.mode = "Preview"
                      THEN pc' = "render" /\ UNCHANGED outcome
                      ELSE Finish("Clean")
                   /\ probing' = FALSE
                   /\ UNCHANGED todo
              ELSE /\ IF probing THEN pc' = "carve" /\ UNCHANGED outcome
                      ELSE Finish("Rejected")
                   /\ todo' = IF probing THEN errors ELSE {}
                   /\ UNCHANGED probing
    /\ UNCHANGED <<run, round, omit, doc, visited, found>>

(* Mistake: only the first error of a round is carved. *)
CarveAtFirst(n) ==
    /\ pc = "carve" /\ n \in todo
    /\ visited' = visited \union {n}
    /\ found' = IF found = {} THEN CarvedAt(doc, n) ELSE found
    /\ todo' = (todo \union TracedBack(doc, n)) \ visited'
    /\ UNCHANGED <<run, pc, probing, round, omit, doc, batch, outcome, emitted>>

(* Mistake: what was visited is visited again. *)
CarveAtAgain(n) ==
    /\ pc = "carve" /\ n \in todo
    /\ visited' = visited \union {n}
    /\ found' = found \union CarvedAt(doc, n)
    /\ todo' = (todo \ {n}) \union TracedBack(doc, n)
    /\ UNCHANGED <<run, pc, probing, round, omit, doc, batch, outcome, emitted>>

(* Carver::carve_at; what was visited once is not followed again. *)
CarveAt(n) ==
    /\ pc = "carve" /\ n \in todo
    /\ visited' = visited \union {n}
    /\ found' = found \union CarvedAt(doc, n)
    /\ todo' = (todo \union TracedBack(doc, n)) \ visited'
    /\ UNCHANGED <<run, pc, probing, round, omit, doc, batch, outcome, emitted>>

NewConstructs == {n \in found : ~ \E r \in omit : r.targets = {n}}

(* The rules of this round are added to the profile; without a new one, or *)
(* after the last round, its report is the answer.                         *)
EndRound ==
    /\ pc = "carve" /\ todo = {}
    /\ omit' = omit \union CarvedRules(round, NewConstructs)
    /\ IF NewConstructs = {} \/ round = MaxRounds
       THEN Finish("Rejected")
       ELSE pc' = "start" /\ UNCHANGED outcome
    /\ UNCHANGED <<run, probing, round, doc, batch, carver, emitted>>

Render ==
    /\ pc = "render"
    /\ Finish("Generated")
    /\ UNCHANGED <<run, probing, round, omit, doc, batch, carver, emitted>>

(* codegen reports what it cannot render. *)
RenderFails ==
    /\ pc = "render"
    /\ Raise({InvalidInput})
    /\ Finish("Rejected")
    /\ UNCHANGED <<run, probing, round, omit, doc, carver>>

Ended == pc = "done" /\ UNCHANGED vars

Next ==
    \/ Load \/ LoadFails \/ ApplyProfile \/ LowerBundle
    \/ \E n \in Nodes : CarveAt(n)
    \/ EndRound \/ Render \/ RenderFails \/ Ended

(* One call, in one thread. *)
Spec == Init /\ [][Next]_vars /\ WF_vars(Next)

-----------------------------------------------------------------------------
(* What is rendered, or only lowered, has nothing in it that the frontend  *)
(* rejects and no reference to what was carved, whatever was dropped at    *)
(* the cap on the way (pipeline.rs: "the document is never emitted         *)
(* broken").                                                               *)
OutputIsSound ==
    outcome \in {"Clean", "Generated"} =>
        \A n \in Reached(doc) : run.flaw[n] = 0 /\ Refs[n] \subseteq doc

(* A run is rejected if and only if something was emitted as an error,     *)
(* also past the cap, and its report says so if and only if it lacks some  *)
(* of what was emitted (`Report::truncated`).                              *)
HonestReport ==
    pc = "done" =>
        /\ outcome = "Rejected" <=> ErrorsIn(emitted) # {}
        /\ batch.capped <=> batch.items # emitted

(* The nodes whose errors are put down to construct `c`: its own, and, by  *)
(* references, those its own nodes read; the methods of a path item are    *)
(* constructs of their own.                                                *)
Own(c) ==
    IF Kind[c] = "method" THEN Under({c}) ELSE {n \in Nodes : c \in Enclosing[n]}

ReadFrom(n) ==
    {m \in Nodes : \E t \in Refs[n] \intersect Above[m] :
        PathItemPosition(n) => MethodIn(t, m) = {}}

Amenable(c) == Closure(Own(c), [n \in Nodes |-> ReadFrom(n)])

(* Only what has a cause is carved: from each carved construct a node can  *)
(* be reached which is rejected, or refers to nothing, or to what the user *)
(* omitted or an earlier round carved. Constructs that work are left       *)
(* alone, whatever else fails.                                             *)
CarvedForCause ==
    \A r \in omit : r.round > 0 =>
        \A c \in r.targets : \E n \in Amenable(c) :
            \/ run.flaw[n] # 0
            \/ ~ Refs[n] \subseteq LeftBy({q \in omit : q.round < r.round})

(* All that an error at `from` is traced to. *)
Traced(from) == Closure(from, [n \in Nodes |-> TracedBack(doc, n)])

(* An error that no construct encloses, and nothing leads back to one.     *)
Uncarvable(n) == \A m \in Traced({n}) : CarvedAt(doc, m) = {}

(* A rule whose construct lies in one that the same round carves, with the *)
(* text that comes first: "post /x" beside "path /x", but not "get /x".    *)
Overtaken(r) ==
    \E s \in omit : s.round = r.round /\
        \E c \in r.targets, d \in s.targets : d \in Above[c] \ {c} /\ Text[d] < Text[c]

(* A carving run gives up only for a cause it can do nothing about: an     *)
(* input that does not load or render, a rule of the user's own that       *)
(* fails, an error that is not in a construct, or the last round; or for   *)
(* one of its own making, a carved rule that was overtaken by another of   *)
(* its round and matches nothing any more.                                 *)
RejectedForCause ==
    outcome = "Rejected" /\ run.carve =>
        \/ InvalidInput \in emitted
        \/ OmitCreatedInvalidDocument \in emitted
        \/ \E r \in UserRules(run.user) : InvalidOmitRule(r) \in emitted
        \/ \E d \in emitted : d.code = "flaw" /\ Uncarvable(d.at)
        \/ round = MaxRounds
        \/ \E r \in omit : r.round > 0 /\ Overtaken(r) /\ InvalidOmitRule(r) \in emitted

(* compat/carve.rs: "every rule derived here names a construct that is     *)
(* still present". When it is applied it is still there too, and the rule  *)
(* is not reported as matching nothing, unless it was overtaken.           *)
CarvedRulesMatch ==
    \A r \in omit : r.round > 0 /\ InvalidOmitRule(r) \in emitted => Overtaken(r)

(* A round finds constructs only that no rule has removed yet, so a round  *)
(* that finds any leaves less of the document to the next.                 *)
RoundsProgress ==
    pc = "carve" => \A r \in omit : found \intersect r.targets = {}

(* What a round carves is the same in whatever order its errors are looked *)
(* at: all that the errors are traced to.                                  *)
OrderIsInvisible ==
    pc = "carve" /\ todo = {} =>
        found = UNION {CarvedAt(doc, n) :
                    n \in Traced(FrontendErrors(run.flaw, doc))}

(* Every run ends: also where references go round in circles. *)
RunEnds == <>(pc = "done")
=============================================================================
