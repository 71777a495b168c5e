------------------------------ MODULE Vendoring ------------------------------
(***************************************************************************)
(* Remote documents: the walk of `spargen lock`, which fetches, vendors    *)
(* and pins them (spargen/src/source/vendor.rs, lock.rs), beside the walk  *)
(* of a build, which reads what is pinned (source/bundle.rs).              *)
(*                                                                         *)
(* A document is the identity it gives itself and the references it makes, *)
(* in order; its bytes are itself, and digests are collision free.  Bytes  *)
(* that are not UTF-8, and text that does not parse, are documents too.    *)
(* A name is a host and a name on it: the host "local" is the file system, *)
(* "urn" a scheme that is not fetched, and "relative" stands in a          *)
(* reference for the host of the document's base.  References into         *)
(* specification extensions are left out.                                  *)
(***************************************************************************)
EXTENDS Integers, Sequences, FiniteSets, Functions

CONSTANTS
  Hosts,         \* the remote hosts
  Names,         \* names of documents
  Root,          \* the name of the specification
  Locals,        \* the local files: functions from Names to documents or NoDoc
  Replies(_),    \* what a URL may serve: [doc, at], at the end of its redirects
  Precedes(_, _), \* the order of URLs in a lock
  NoDoc,         \* no document: no file, no copy, no $self, nothing in hand
  Torn,          \* bytes of no document
  MaxRuns        \* bound: runs of spargen lock

Remote == [host : Hosts, name : Names]
Local == [host : {"local"}, name : Names]
Opaque == [host : {"urn"}, name : Names]
Urls == Remote \cup Local \cup Opaque
References == Remote \cup Opaque \cup [host : {"relative"}, name : Names]
Docs == {d \in [parses : BOOLEAN, utf8 : BOOLEAN,
                self : References \cup {NoDoc}, refs : Seq(References)] : d.parses => d.utf8}

ASSUME VendoringAssumption ==
  /\ Hosts \cap {"local", "urn", "relative"} = {}
  /\ Root \in Names
  /\ \A files \in Locals : files \in [Names -> Docs \cup {NoDoc}] /\ files[Root] # NoDoc
  /\ \A u \in Remote : Replies(u) \subseteq [doc : Docs, at : Remote]
  /\ NoDoc \notin Docs \cup References /\ Torn \notin Docs \cup {NoDoc}
  /\ MaxRuns \in Nat

VARIABLES
  files,         \* the local files
  lock,          \* spargen.lock: [pins, complete], Torn when it does not parse
  copies,        \* the vendored copies, by the URL their path is derived from
  \* spargen lock
  pc,            \* "idle", "walk", "open", "copy", "lock", "done": see the actions
  todo,          \* the references collected and not looked at, resolved
  seen,          \* seen_local, seen_remote, and the opaque keys of remote_docs
  pins,          \* the Lock being built
  held,          \* the document fetched last, until it is written
  errors,        \* the kinds of error the run has reported
  runs,          \* runs begun
  \* a build
  bpc,           \* "idle", "walk", "done"
  bLock,         \* the lock it read
  bTodo, bSeen,  \* its queue; url_to_file and the identities of local files
  loaded,        \* the remote documents it loaded, by the URL their pin names
  bErrors,
  \* history
  before,        \* what was usable when the run began, see Usable
  calm,          \* whether what the run that ended last wrote stands, see Standing
  bCalm          \* calm when this build began

disk == <<files, lock, copies>>
walk == <<pc, todo, seen, pins, held, errors, runs>>
build == <<bpc, bLock, bTodo, bSeen, loaded, bErrors>>
history == <<before, calm, bCalm>>
vars == <<files, lock, copies, pc, todo, seen, pins, held, errors, runs,
          bpc, bLock, bTodo, bSeen, loaded, bErrors, before, calm, bCalm>>

NoPins == [u \in {} |-> NoDoc]
NoLock == [pins |-> NoPins, complete |-> FALSE]
IsPins(p) == DOMAIN p \subseteq Remote /\ p \in [DOMAIN p -> [doc : Docs, at : Remote]]

Init ==
  /\ files \in Locals
  /\ lock = NoLock
  /\ copies = [u \in Remote |-> NoDoc]
  /\ pc = "idle"
  /\ todo = <<>>
  /\ seen = {}
  /\ pins = NoPins
  /\ held = NoDoc
  /\ errors = {}
  /\ runs = 0
  /\ bpc = "idle"
  /\ bLock = NoLock
  /\ bTodo = <<>>
  /\ bSeen = {}
  /\ loaded = NoPins
  /\ bErrors = {}
  /\ before = {}
  /\ calm = "no" /\ bCalm = "no"

-----------------------------------------------------------------------------
(* What both walks share: remote.rs. *)

\* classify_ref and classify_self against a base.
Resolve(base, ref) ==
  IF ref.host = "relative" THEN [host |-> base.host, name |-> ref.name] ELSE ref
\* The names a document reached at u is registered under by its $self.
SelfOf(u, doc) == IF doc.self = NoDoc THEN {} ELSE {Resolve(u, doc.self)}
\* Its base: its $self, unless that is opaque, or where it was reached.
Base(u, doc) ==
  IF doc.self = NoDoc \/ Resolve(u, doc.self).host = "urn" THEN u ELSE Resolve(u, doc.self)
\* collect_refs.
Refs(u, doc) == [i \in DOMAIN doc.refs |-> Resolve(Base(u, doc), doc.refs[i])]

RootUrl == [host |-> "local", name |-> Root]
RootDoc == files[Root]

-----------------------------------------------------------------------------
(* spargen lock. *)

\* Pinned, and its copy has the pinned bytes.
Usable(pinned) == {u \in DOMAIN pinned : copies[u] = pinned[u].doc}
PinsOf(l) == IF l = Torn THEN NoPins ELSE l.pins

\* The run ends as `end`; its locals are dropped.
EndRun(end) ==
  /\ pc' = end
  /\ todo' = <<>>
  /\ seen' = {}
  /\ pins' = NoPins
  /\ held' = NoDoc
  /\ errors' = IF end = "done" THEN errors ELSE {}

\* A root that does not parse ends the run before it changes anything.
StartLock ==
  /\ pc \in {"idle", "done"} /\ runs < MaxRuns
  /\ RootDoc.parses
  /\ pc' = "walk"
  /\ seen' = {RootUrl} \cup SelfOf(RootUrl, RootDoc)
  /\ todo' = Refs(RootUrl, RootDoc)
  /\ pins' = NoPins
  /\ errors' = {}
  /\ runs' = runs + 1
  /\ before' = Usable(PinsOf(lock))
  /\ calm' = "no" /\ bCalm' = "no"
  /\ UNCHANGED <<disk, held, build>>

Reached == Head(todo)
Takes(host) == pc = "walk" /\ todo # <<>> /\ Reached.host \in host

SkipSeen ==
  /\ Takes(Hosts \cup {"local", "urn"})
  /\ Reached \in seen
  /\ todo' = Tail(todo)
  /\ UNCHANGED <<disk, pc, seen, pins, held, errors, runs, build, history>>

SkipOpaque ==
  /\ Takes({"urn"})
  /\ Reached \notin seen
  /\ todo' = Tail(todo)
  /\ errors' = errors \cup {"opaque"}
  /\ UNCHANGED <<disk, pc, seen, pins, held, runs, build, history>>

\* Scanned::add: a document that parses is queued.
Add(u, doc, names) ==
  IF doc # NoDoc /\ doc.parses
  THEN /\ seen' = seen \cup names \cup SelfOf(u, doc)
       /\ todo' = Tail(todo) \o Refs(u, doc)
  ELSE seen' = seen \cup names /\ todo' = Tail(todo)

\* Mistake: a local file is not remembered.
ScanLocalForgetting ==
  /\ Takes({"local"})
  /\ Reached \notin seen
  /\ Add(Reached, files[Reached.name], {})
  /\ UNCHANGED <<disk, pc, pins, held, errors, runs, build, history>>

\* A local file that cannot be read is passed over.
ScanLocal ==
  /\ Takes({"local"})
  /\ Reached \notin seen
  /\ Add(Reached, files[Reached.name], {Reached})
  /\ UNCHANGED <<disk, pc, pins, held, errors, runs, build, history>>

FetchFails ==
  /\ Takes(Hosts)
  /\ Reached \notin seen
  /\ seen' = seen \cup {Reached}
  /\ todo' = Tail(todo)
  /\ errors' = errors \cup {"fetch"}
  /\ UNCHANGED <<disk, pc, pins, held, runs, build, history>>

\* The document is fetched, along its redirects.
Fetch ==
  /\ Takes(Hosts)
  /\ Reached \notin seen
  /\ held' \in Replies(Reached)
  /\ seen' = seen \cup {Reached, held'.at}
  /\ pc' = "open"
  /\ UNCHANGED <<disk, todo, pins, errors, runs, build, history>>

\* The walk goes on without the document.
GiveUpCopy ==
  /\ pc' = "walk"
  /\ todo' = Tail(todo)
  /\ held' = NoDoc
  /\ errors' = errors \cup {"write"}
  /\ UNCHANGED <<seen, pins>>

\* create_dir_all, and fs::write up to its truncation.
OpenCopy ==
  /\ pc = "open"
  /\ \/ /\ copies' = [copies EXCEPT ![Reached] = Torn]
        /\ pc' = "copy"
        /\ UNCHANGED <<todo, seen, pins, held, errors>>
     \/ GiveUpCopy /\ UNCHANGED copies
  /\ UNCHANGED <<files, lock, runs, build, history>>

\* Mistake: relative references resolve against the URL that was asked for.
WriteCopyAtRequested ==
  /\ pc = "copy"
  /\ \/ /\ copies' = [copies EXCEPT ![Reached] = held.doc]
        /\ pins' = [u \in DOMAIN pins \cup {Reached} |-> IF u = Reached THEN held ELSE pins[u]]
        /\ pc' = "walk"
        /\ held' = NoDoc
        /\ Add(Reached, held.doc, {})
        /\ UNCHANGED errors
     \/ GiveUpCopy /\ UNCHANGED copies
  /\ UNCHANGED <<files, lock, runs, build, history>>

\* Its bytes are written, it is pinned, and if it parses it is walked.
WriteCopy ==
  /\ pc = "copy"
  /\ \/ /\ copies' = [copies EXCEPT ![Reached] = held.doc]
        /\ pins' = [u \in DOMAIN pins \cup {Reached} |-> IF u = Reached THEN held ELSE pins[u]]
        /\ pc' = "walk"
        /\ held' = NoDoc
        /\ Add(held.at, held.doc, {})
        /\ UNCHANGED errors
     \/ GiveUpCopy /\ UNCHANGED copies
  /\ UNCHANGED <<files, lock, runs, build, history>>

\* keep_unpinned_from.
KeepUnpinned(earlier) ==
  [u \in DOMAIN pins \cup DOMAIN earlier |-> IF u \in DOMAIN pins THEN pins[u] ELSE earlier[u]]

\* What is on disk of a lock while it is written: its text does not parse, or
\* holds the first of its pins.
TornLocks(p) ==
  {Torn} \cup {[pins |-> Restrict(p, {v \in DOMAIN p : Precedes(v, u)}), complete |-> FALSE] :
                u \in DOMAIN p}

\* Mistake: the earlier pins are dropped after a failed fetch too.
EndWalkDropping ==
  /\ pc = "walk" /\ todo = <<>>
  /\ \/ /\ pc' = "lock"
        /\ lock' \in TornLocks(pins)
        /\ UNCHANGED <<todo, seen, pins, held, errors>>
     \/ EndRun("idle") /\ UNCHANGED lock
  /\ UNCHANGED <<files, copies, runs, build, history>>

\* All is walked: the lock file is opened.  Only a failed fetch keeps the pins
\* of the lock on disk.
EndWalk ==
  /\ pc = "walk" /\ todo = <<>>
  /\ LET all == IF "fetch" \in errors THEN KeepUnpinned(PinsOf(lock)) ELSE pins IN
     \/ /\ pc' = "lock"
        /\ pins' = all
        /\ lock' \in TornLocks(all)
        /\ UNCHANGED <<todo, seen, held, errors>>
     \/ EndRun("idle") /\ UNCHANGED lock
  /\ UNCHANGED <<files, copies, runs, build, history>>

\* What stands after a run: all of it, if it had no errors.
Standing == IF errors = {} THEN "complete" ELSE "no"

\* The lock is written, or only a part of it.
WriteLock ==
  /\ pc = "lock"
  /\ \/ /\ EndRun("done")
        /\ lock' = [pins |-> pins, complete |-> errors = {}]
        /\ calm' = Standing
     \/ EndRun("idle") /\ UNCHANGED <<lock, calm>>
  /\ UNCHANGED <<files, copies, runs, build, before, bCalm>>

\* The process is killed: what it wrote stays as it is.
Killed ==
  /\ pc \notin {"idle", "done"}
  /\ EndRun("idle")
  /\ UNCHANGED <<disk, runs, build, history>>

-----------------------------------------------------------------------------
(* InputBundle::load. *)

\* A lock that does not parse, or such a root, ends the load at once.
RefuseBuild ==
  /\ bpc = "idle"
  /\ lock = Torn \/ ~ RootDoc.parses
  /\ bpc' = "done"
  /\ bErrors' = {"invalid"}
  /\ UNCHANGED <<disk, walk, bLock, bTodo, bSeen, loaded, history>>

StartBuild ==
  /\ bpc = "idle"
  /\ lock # Torn /\ RootDoc.parses
  /\ bpc' = "walk"
  /\ bLock' = lock
  /\ bSeen' = {RootUrl} \cup SelfOf(RootUrl, RootDoc)
  /\ bTodo' = Refs(RootUrl, RootDoc)
  /\ bCalm' = calm
  /\ UNCHANGED <<disk, walk, loaded, bErrors, before, calm>>

BReached == Head(bTodo)
BTakes(host) == bpc = "walk" /\ bTodo # <<>> /\ BReached.host \in host

BSkipSeen ==
  /\ BTakes(Hosts \cup {"local", "urn"})
  /\ BReached \in bSeen
  /\ bTodo' = Tail(bTodo)
  /\ UNCHANGED <<disk, walk, bpc, bLock, bSeen, loaded, bErrors, history>>

\* The walk goes on with the document reached at u, or the load is aborted.
BAdd(u, doc, names) ==
  IF doc # NoDoc /\ doc.parses
  THEN /\ bSeen' = bSeen \cup names \cup SelfOf(u, doc)
       /\ bTodo' = Tail(bTodo) \o Refs(u, doc)
       /\ UNCHANGED <<bpc, bErrors>>
  ELSE /\ bpc' = "done"
       /\ bErrors' = bErrors \cup {"invalid"}
       /\ bTodo' = <<>>
       /\ UNCHANGED bSeen

BLoadLocal ==
  /\ BTakes({"local"})
  /\ BReached \notin bSeen
  /\ BAdd(BReached, files[BReached.name], {BReached})
  /\ UNCHANGED <<disk, walk, bLock, loaded, history>>

Pinned == bLock.pins[BReached]

\* load_remote without a pin, E003, over a copy that is not what the pin says,
\* E021, or that is not UTF-8, E011; and a reference that is never fetched.  The
\* walk goes on without the document, and none of its names is registered.
BReject ==
  /\ BTakes(Hosts \cup {"urn"})
  /\ BReached \notin bSeen
  /\ \/ /\ BReached \notin DOMAIN bLock.pins
        /\ bErrors' = bErrors \cup {IF BReached.host = "urn" THEN "opaque" ELSE "unpinned"}
     \/ /\ BReached \in DOMAIN bLock.pins
        /\ copies[BReached] # Pinned.doc
        /\ bErrors' = bErrors \cup {"drift"}
     \/ /\ BReached \in DOMAIN bLock.pins
        /\ copies[BReached] = Pinned.doc /\ ~ Pinned.doc.utf8
        /\ bErrors' = bErrors \cup {"bytes"}
  /\ bTodo' = Tail(bTodo)
  /\ UNCHANGED <<disk, walk, bpc, bLock, bSeen, loaded, history>>

\* Mistake: the copy is not compared with its pin.
BLoadRemoteUnchecked ==
  /\ BTakes(Hosts)
  /\ BReached \notin bSeen
  /\ BReached \in DOMAIN bLock.pins /\ copies[BReached] \in Docs /\ copies[BReached].utf8
  /\ loaded' = [u \in DOMAIN loaded \cup {BReached} |->
                  IF u = BReached THEN [doc |-> copies[u], at |-> Pinned.at] ELSE loaded[u]]
  /\ BAdd(Pinned.at, copies[BReached], {BReached, Pinned.at})
  /\ UNCHANGED <<disk, walk, bLock, history>>

\* load_remote: text is loaded, or does not parse and aborts the load.
BLoadRemote ==
  /\ BTakes(Hosts)
  /\ BReached \notin bSeen
  /\ BReached \in DOMAIN bLock.pins /\ copies[BReached] = Pinned.doc /\ Pinned.doc.utf8
  /\ loaded' = [u \in DOMAIN loaded \cup {BReached} |->
                  IF u = BReached THEN [doc |-> copies[u], at |-> Pinned.at] ELSE loaded[u]]
  /\ BAdd(Pinned.at, copies[BReached], {BReached, Pinned.at})
  /\ UNCHANGED <<disk, walk, bLock, history>>

BEnd ==
  /\ bpc = "walk" /\ bTodo = <<>>
  /\ bpc' = "done"
  /\ UNCHANGED <<disk, walk, bLock, bTodo, bSeen, loaded, bErrors, history>>

\* Its bundle is dropped.
BDrop ==
  /\ bpc = "done"
  /\ bpc' = "idle"
  /\ bLock' = NoLock
  /\ bSeen' = {}
  /\ loaded' = NoPins
  /\ bErrors' = {}
  /\ bCalm' = "no"
  /\ UNCHANGED <<disk, walk, bTodo, before, calm>>

-----------------------------------------------------------------------------
LockStep == \/ SkipSeen \/ SkipOpaque \/ ScanLocal \/ FetchFails \/ Fetch
            \/ OpenCopy \/ WriteCopy \/ EndWalk \/ WriteLock
BuildStep == BSkipSeen \/ BLoadLocal \/ BReject \/ BLoadRemote \/ BEnd
Next == StartLock \/ LockStep \/ Killed \/ RefuseBuild \/ StartBuild \/ BuildStep \/ BDrop

Spec == Init /\ [][Next]_vars
\* Neither waits for the other, and a fetch answers or times out.
FairSpec == Spec /\ WF_vars(LockStep) /\ WF_vars(BuildStep)

-----------------------------------------------------------------------------
(* Properties. *)

TypeOK ==
  /\ files \in Locals
  /\ lock = Torn \/ (IsPins(lock.pins) /\ lock.complete \in BOOLEAN)
  /\ copies \in [Remote -> Docs \cup {NoDoc, Torn}]
  /\ pc \in {"idle", "walk", "open", "copy", "lock", "done"}
  /\ todo \in Seq(Urls) /\ bTodo \in Seq(Urls)
  /\ seen \subseteq Urls /\ bSeen \subseteq Urls
  /\ IsPins(pins)
  /\ IF pc \in {"open", "copy"}
     THEN held \in [doc : Docs, at : Remote] /\ todo # <<>> /\ Reached \in Remote
     ELSE held = NoDoc
  /\ errors \subseteq {"fetch", "write", "opaque"}
  /\ runs \in 0..MaxRuns
  /\ bpc \in {"idle", "walk", "done"}
  /\ IsPins(bLock.pins) /\ bLock.complete \in BOOLEAN
  /\ IsPins(loaded)
  /\ bErrors \subseteq {"unpinned", "drift", "bytes", "opaque", "invalid"}
  /\ before \subseteq Remote
  /\ {calm, bCalm} \subseteq {"no", "complete"}

\* Whatever lock runs do beside a build, killed or failing in the middle of a
\* write, a build loads no bytes but those the lock it read pins.
BuildIsPinned ==
  \A u \in DOMAIN loaded : u \in DOMAIN bLock.pins /\ loaded[u] = bLock.pins[u]

\* The lock and the build walk the references in code of their own, and agree:
\* after a run without errors a build misses no copy, and no pin unless it has
\* reported a copy that is not UTF-8 (it does not register where that copy was
\* retrieved, and the lock does); and a build that succeeds on such a lock has
\* loaded every document it pins.
WalksAgree ==
  /\ bCalm = "complete" => /\ bErrors \cap {"drift", "opaque"} = {}
                           /\ "unpinned" \in bErrors => "bytes" \in bErrors
  /\ bpc = "done" /\ bErrors = {} /\ bLock.complete => DOMAIN loaded = DOMAIN bLock.pins

\* A run in which fetches fail, but no write, takes away no pin that had its copy.
UsableSurvives ==
  pc = "done" /\ "fetch" \in errors /\ "write" \notin errors =>
    before \subseteq Usable(lock.pins)

\* Both walks end, also over references in a cycle.
WalksEnd == /\ pc = "walk" ~> pc \in {"idle", "done"}
            /\ bpc = "walk" ~> bpc = "done"
-----------------------------------------------------------------------------
(* The inductive invariants. *)

LoadedInv == (bpc = "idle" => loaded = NoPins) /\ BuildIsPinned

\* A run writes the copy of a URL once: what it has pinned is not fetched again,
\* and has its copy; what was usable and is not pinned yet is as it was.
Fresh == DOMAIN pins \subseteq seen
Mine(u) == u \in DOMAIN pins /\ copies[u] = pins[u].doc
Old(u) == /\ u \notin DOMAIN pins
          /\ u \in DOMAIN PinsOf(lock)
          /\ copies[u] = PinsOf(lock)[u].doc

UsableInv ==
  /\ pc \in {"walk", "open", "copy"} => Fresh
  /\ pc \in {"open", "copy"} => Reached \in seen \ DOMAIN pins
  /\ "write" \notin errors =>
       /\ pc \in {"walk", "open"} => \A u \in before : Mine(u) \/ Old(u)
       /\ pc = "copy" => \A u \in before \ {Reached} : Mine(u) \/ Old(u)
       /\ pc = "lock" /\ "fetch" \in errors => \A u \in before : Mine(u)
       /\ pc = "done" /\ "fetch" \in errors => before \subseteq Usable(lock.pins)

IInv == TypeOK /\ LoadedInv /\ UsableInv
=============================================================================
