--------------------------- MODULE VendoringProofs ---------------------------
(***************************************************************************)
(* What TLAPS proves of Vendoring, for any hosts, documents and servers:   *)
(* types, that a build uses pinned bytes only, that a run in which only    *)
(* fetches fail takes away nothing that was usable, and that the walk of a *)
(* build agrees with the walk that made its lock.                          *)
(***************************************************************************)
EXTENDS Vendoring, TLAPS, SequenceTheorems

-----------------------------------------------------------------------------
(* Types. *)

LEMMA RemoteHosts ==
  ASSUME NEW u \in Urls
  PROVE  /\ u.host \in Hosts => u \in Remote
         /\ u.host = "local" => u \in Local
         /\ u.name \in Names
BY VendoringAssumption DEF Urls, Remote, Local, Opaque

LEMMA ResolveType ==
  ASSUME NEW base \in Urls, NEW ref \in References
  PROVE  Resolve(base, ref) \in Urls
<1>1. CASE ref.host = "relative"
  <2>1. ref.name \in Names
    BY DEF References, Remote, Opaque
  <2>2. [host |-> base.host, name |-> ref.name] \in Urls
    BY <2>1 DEF Urls, Remote, Local, Opaque
  <2> QED BY <1>1, <2>2 DEF Resolve
<1>2. CASE ref.host # "relative"
  BY <1>2 DEF Resolve, References, Urls
<1> QED BY <1>1, <1>2

LEMMA SelfType ==
  ASSUME NEW u \in Urls, NEW doc \in Docs
  PROVE  SelfOf(u, doc) \subseteq Urls /\ Base(u, doc) \in Urls
<1>1. doc.self \in References \cup {NoDoc}
  BY DEF Docs
<1>2. doc.self # NoDoc => Resolve(u, doc.self) \in Urls
  BY <1>1, ResolveType
<1> QED BY <1>2 DEF SelfOf, Base

\* The references of a document are names a walk can look at.
LEMMA RefsType ==
  ASSUME NEW u \in Urls, NEW doc \in Docs
  PROVE  Refs(u, doc) \in Seq(Urls)
<1>1. doc.refs \in Seq(References)
  BY DEF Docs
<1>2. Base(u, doc) \in Urls
  BY SelfType
<1>3. DOMAIN doc.refs = 1..Len(doc.refs) /\ Len(doc.refs) \in Nat
  BY <1>1
<1>4. \A i \in DOMAIN doc.refs : Resolve(Base(u, doc), doc.refs[i]) \in Urls
  BY <1>1, <1>2, <1>3, ResolveType
<1>5. Refs(u, doc) \in [1..Len(doc.refs) -> Urls]
  BY <1>3, <1>4 DEF Refs
<1> QED BY <1>3, <1>5, SeqDef

LEMMA FilesType ==
  ASSUME files \in Locals, NEW n \in Names
  PROVE  files[n] \in Docs \cup {NoDoc} /\ RootDoc \in Docs /\ RootUrl \in Urls
BY VendoringAssumption DEF RootDoc, RootUrl, Urls, Local

LEMMA QueueType ==
  ASSUME NEW q \in Seq(Urls), q # <<>>
  PROVE  Head(q) \in Urls /\ Tail(q) \in Seq(Urls)
OBVIOUS

LEMMA AddType ==
  ASSUME TypeOK, todo # <<>>, NEW u \in Urls, NEW doc \in Docs \cup {NoDoc},
         NEW names \in SUBSET Urls, Add(u, doc, names)
  PROVE  seen' \subseteq Urls /\ todo' \in Seq(Urls)
<1>1. Tail(todo) \in Seq(Urls) /\ seen \subseteq Urls
  BY QueueType DEF TypeOK
<1>2. CASE doc # NoDoc /\ doc.parses
  <2>1. SelfOf(u, doc) \subseteq Urls /\ Refs(u, doc) \in Seq(Urls)
    BY <1>2, SelfType, RefsType
  <2> QED BY <1>1, <1>2, <2>1, ConcatProperties DEF Add
<1>3. CASE ~ (doc # NoDoc /\ doc.parses)
  BY <1>1, <1>3 DEF Add
<1> QED BY <1>2, <1>3

LEMMA BAddType ==
  ASSUME TypeOK, bpc = "walk", bTodo # <<>>, NEW u \in Urls, NEW doc \in Docs \cup {NoDoc},
         NEW names \in SUBSET Urls, BAdd(u, doc, names)
  PROVE  /\ bSeen' \subseteq Urls /\ bTodo' \in Seq(Urls)
         /\ bpc' \in {"walk", "done"}
         /\ bErrors' \subseteq {"unpinned", "drift", "bytes", "opaque", "invalid"}
<1>1. Tail(bTodo) \in Seq(Urls) /\ bSeen \subseteq Urls
  BY QueueType DEF TypeOK
<1>2. CASE doc # NoDoc /\ doc.parses
  <2>1. SelfOf(u, doc) \subseteq Urls /\ Refs(u, doc) \in Seq(Urls)
    BY <1>2, SelfType, RefsType
  <2>2. /\ bSeen' = bSeen \cup names \cup SelfOf(u, doc)
        /\ bTodo' = Tail(bTodo) \o Refs(u, doc)
        /\ bpc' = bpc /\ bErrors' = bErrors
    BY <1>2 DEF BAdd
  <2> QED BY <1>1, <2>1, <2>2, ConcatProperties DEF TypeOK
<1>3. CASE ~ (doc # NoDoc /\ doc.parses)
  <2>1. bSeen' = bSeen /\ bTodo' = <<>> /\ bpc' = "done" /\ bErrors' = bErrors \cup {"invalid"}
    BY <1>3 DEF BAdd
  <2> QED BY <1>1, <2>1, EmptySeq DEF TypeOK
<1> QED BY <1>2, <1>3

LEMMA NoPinsType == IsPins(NoPins)
BY DEF IsPins, NoPins

LEMMA PinsOfType == ASSUME TypeOK PROVE IsPins(PinsOf(lock))
BY NoPinsType DEF TypeOK, PinsOf

LEMMA UsableType == ASSUME NEW p, IsPins(p) PROVE Usable(p) \subseteq Remote
BY DEF IsPins, Usable

LEMMA EndRunType ==
  ASSUME TypeOK, NEW end \in {"idle", "done"}, EndRun(end)
  PROVE  /\ pc' = end /\ todo' \in Seq(Urls) /\ seen' = {} /\ IsPins(pins')
         /\ held' = NoDoc /\ errors' \subseteq {"fetch", "write", "opaque"}
BY NoPinsType, EmptySeq DEF TypeOK, EndRun

LEMMA TakesType ==
  ASSUME TypeOK, NEW H, Takes(H)
  PROVE  /\ todo # <<>> /\ Reached \in Urls /\ Tail(todo) \in Seq(Urls)
         /\ H = Hosts => Reached \in Remote
         /\ H = {"local"} => Reached \in Local
BY QueueType, RemoteHosts DEF TypeOK, Takes, Reached

LEMMA BTakesType ==
  ASSUME TypeOK, NEW H, BTakes(H)
  PROVE  /\ bpc = "walk" /\ bTodo # <<>> /\ BReached \in Urls /\ Tail(bTodo) \in Seq(Urls)
         /\ H = Hosts => BReached \in Remote
         /\ H = {"local"} => BReached \in Local
BY QueueType, RemoteHosts DEF TypeOK, BTakes, BReached

LEMMA TypeInit == Init => TypeOK
BY NoPinsType, EmptySeq, VendoringAssumption DEF Init, TypeOK, NoLock

USE DEF disk, walk, build, history

LEMMA StartLockTypes == TypeOK /\ StartLock => TypeOK'
<1> SUFFICES ASSUME TypeOK, StartLock PROVE TypeOK'
  OBVIOUS
<1>1. RootDoc \in Docs /\ RootUrl \in Urls
  BY FilesType, VendoringAssumption DEF TypeOK
<1>2. seen' \subseteq Urls /\ todo' \in Seq(Urls)
  BY <1>1, SelfType, RefsType DEF StartLock
<1>3. IsPins(pins') /\ before' \subseteq Remote
  BY NoPinsType, PinsOfType, UsableType DEF StartLock
<1>4. runs' \in 0..MaxRuns
  BY VendoringAssumption DEF StartLock, TypeOK
<1> QED BY <1>2, <1>3, <1>4 DEF StartLock, TypeOK

LEMMA WalkTypes ==
  TypeOK /\ (SkipSeen \/ SkipOpaque \/ ScanLocal \/ FetchFails \/ Fetch) => TypeOK'
<1> SUFFICES ASSUME TypeOK, SkipSeen \/ SkipOpaque \/ ScanLocal \/ FetchFails \/ Fetch
             PROVE  TypeOK'
  OBVIOUS
<1>1. CASE SkipSeen
  BY <1>1, TakesType DEF SkipSeen, TypeOK, Takes
<1>2. CASE SkipOpaque
  BY <1>2, TakesType DEF SkipOpaque, TypeOK, Takes
<1>3. CASE ScanLocal
  <2>1. Reached \in Local /\ Reached \in Urls /\ todo # <<>> /\ pc = "walk"
    BY <1>3, TakesType DEF ScanLocal, Takes
  <2>2. files[Reached.name] \in Docs \cup {NoDoc}
    BY <2>1, FilesType DEF TypeOK, Local
  <2>3. seen' \subseteq Urls /\ todo' \in Seq(Urls)
    BY <1>3, <2>1, <2>2, AddType DEF ScanLocal
  <2> QED BY <1>3, <2>1, <2>3 DEF ScanLocal, TypeOK
<1>4. CASE FetchFails
  BY <1>4, TakesType DEF FetchFails, TypeOK, Takes
<1>5. CASE Fetch
  <2>1. Reached \in Remote /\ Reached \in Urls /\ todo # <<>>
    BY <1>5, TakesType DEF Fetch
  <2>2. held' \in [doc : Docs, at : Remote] /\ held'.at \in Urls
    BY <1>5, <2>1, VendoringAssumption DEF Fetch, Urls
  <2> QED BY <1>5, <2>1, <2>2 DEF Fetch, TypeOK, Reached
<1> QED BY <1>1, <1>2, <1>3, <1>4, <1>5

LEMMA GiveUpTypes ==
  ASSUME TypeOK, pc \in {"open", "copy"}, GiveUpCopy
  PROVE  /\ pc' = "walk" /\ todo' \in Seq(Urls) /\ held' = NoDoc /\ seen' = seen /\ pins' = pins
         /\ errors' \subseteq {"fetch", "write", "opaque"}
<1>1. todo \in Seq(Urls) /\ todo # <<>>
  BY DEF TypeOK
<1> QED BY <1>1, QueueType DEF GiveUpCopy, TypeOK

LEMMA PinType ==
  ASSUME NEW p, IsPins(p), NEW u \in Remote, NEW d \in [doc : Docs, at : Remote]
  PROVE  IsPins([v \in DOMAIN p \cup {u} |-> IF v = u THEN d ELSE p[v]])
BY DEF IsPins

LEMMA CopyTypes == TypeOK /\ (OpenCopy \/ WriteCopy) => TypeOK'
<1> SUFFICES ASSUME TypeOK, OpenCopy \/ WriteCopy PROVE TypeOK'
  OBVIOUS
<1>1. /\ pc \in {"open", "copy"} /\ todo # <<>> /\ Reached \in Remote
      /\ held \in [doc : Docs, at : Remote]
  BY DEF TypeOK, OpenCopy, WriteCopy
<1>2. CASE OpenCopy
  <2>1. CASE GiveUpCopy
    BY <1>1, <1>2, <2>1, GiveUpTypes DEF OpenCopy, TypeOK
  <2>2. CASE /\ copies' = [copies EXCEPT ![Reached] = Torn]
             /\ pc' = "copy"
             /\ UNCHANGED <<todo, seen, pins, held, errors>>
    BY <1>1, <1>2, <2>2 DEF OpenCopy, TypeOK, Reached
  <2> QED BY <1>2, <2>1, <2>2 DEF OpenCopy
<1>3. CASE WriteCopy
  <2>1. CASE GiveUpCopy
    BY <1>1, <1>3, <2>1, GiveUpTypes DEF WriteCopy, TypeOK
  <2>2. CASE ~ GiveUpCopy
    <3>1. held.at \in Urls /\ held.doc \in Docs
      BY <1>1 DEF Urls
    <3>2. seen' \subseteq Urls /\ todo' \in Seq(Urls)
      BY <1>1, <1>3, <2>2, <3>1, AddType DEF WriteCopy
    <3>3. IsPins(pins')
      <4>1. pins' = [u \in DOMAIN pins \cup {Reached} |-> IF u = Reached THEN held ELSE pins[u]]
        BY <1>3, <2>2 DEF WriteCopy
      <4>2. IsPins(pins)
        BY DEF TypeOK
      <4> QED BY <1>1, <4>1, <4>2, PinType
    <3>4. copies' \in [Remote -> Docs \cup {NoDoc, Torn}]
      BY <1>3, <2>2, <3>1 DEF WriteCopy, TypeOK
    <3> QED BY <1>3, <2>2, <3>2, <3>3, <3>4 DEF WriteCopy, TypeOK
  <2> QED BY <2>1, <2>2
<1> QED BY <1>2, <1>3

LEMMA TornLockType ==
  ASSUME NEW p, IsPins(p), NEW l \in TornLocks(p)
  PROVE  l = Torn \/ (IsPins(l.pins) /\ l.complete = FALSE)
<1> SUFFICES ASSUME NEW u \in DOMAIN p,
                    l = [pins |-> Restrict(p, {v \in DOMAIN p : Precedes(v, u)}),
                         complete |-> FALSE]
             PROVE  IsPins(l.pins) /\ l.complete = FALSE
  BY DEF TornLocks
<1> DEFINE first == {v \in DOMAIN p : Precedes(v, u)}
<1>1. l.pins = [v \in first |-> p[v]] /\ l.complete = FALSE
  BY DEF Restrict
<1>2. first \subseteq Remote /\ \A v \in first : p[v] \in [doc : Docs, at : Remote]
  BY DEF IsPins
<1> HIDE DEF first
<1> QED BY <1>1, <1>2 DEF IsPins

LEMMA KeepType ==
  ASSUME NEW p, IsPins(p), IsPins(pins)
  PROVE  IsPins(KeepUnpinned(p))
BY DEF KeepUnpinned, IsPins

LEMMA EndTypes == TypeOK /\ (EndWalk \/ WriteLock \/ Killed) => TypeOK'
<1> SUFFICES ASSUME TypeOK, EndWalk \/ WriteLock \/ Killed PROVE TypeOK'
  OBVIOUS
<1>1. CASE EndRun("idle") /\ UNCHANGED <<files, lock, copies, runs, build, history>>
  BY <1>1, EndRunType DEF TypeOK
<1>2. CASE EndWalk
  <2>1. CASE EndRun("idle")
    BY <1>1, <1>2, <2>1 DEF EndWalk, EndRun
  <2>2. CASE ~ EndRun("idle")
    <3> DEFINE all == IF "fetch" \in errors THEN KeepUnpinned(PinsOf(lock)) ELSE pins
    <3>1. IsPins(all)
      BY PinsOfType, KeepType DEF TypeOK
    <3>2. pins' = all /\ lock' \in TornLocks(all) /\ pc' = "lock"
      BY <1>2, <2>2 DEF EndWalk
    <3>3. IsPins(pins') /\ (lock' = Torn \/ (IsPins(lock'.pins) /\ lock'.complete \in BOOLEAN))
      BY <3>1, <3>2, TornLockType
    <3> QED BY <1>2, <2>2, <3>2, <3>3 DEF EndWalk, TypeOK
  <2> QED BY <2>1, <2>2
<1>3. CASE WriteLock
  <2>1. CASE EndRun("idle") /\ UNCHANGED <<lock, calm>>
    BY <1>1, <1>3, <2>1 DEF WriteLock
  <2>2. CASE /\ EndRun("done")
             /\ lock' = [pins |-> pins, complete |-> errors = {}]
             /\ calm' = Standing
    <3>1. calm' \in {"no", "complete"}
      BY <2>2 DEF Standing
    <3> QED BY <1>3, <2>2, <3>1, EndRunType DEF WriteLock, TypeOK
  <2> QED BY <1>3, <2>1, <2>2 DEF WriteLock
<1>4. CASE Killed
  BY <1>1, <1>4 DEF Killed
<1> QED BY <1>2, <1>3, <1>4

LEMMA BuildTypes ==
  TypeOK /\ (RefuseBuild \/ StartBuild \/ BuildStep \/ BDrop) => TypeOK'
<1> SUFFICES ASSUME TypeOK, RefuseBuild \/ StartBuild \/ BuildStep \/ BDrop PROVE TypeOK'
  OBVIOUS
<1>1. CASE RefuseBuild
  BY <1>1 DEF RefuseBuild, TypeOK, Reached
<1>2. CASE StartBuild
  <2>1. RootDoc \in Docs /\ RootUrl \in Urls
    BY FilesType, VendoringAssumption DEF TypeOK
  <2>2. bSeen' \subseteq Urls /\ bTodo' \in Seq(Urls)
    BY <1>2, <2>1, SelfType, RefsType DEF StartBuild
  <2> QED BY <1>2, <2>2 DEF StartBuild, TypeOK, Reached
<1>3. CASE BSkipSeen
  BY <1>3, BTakesType DEF BSkipSeen, TypeOK, Reached
<1>4. CASE BLoadLocal
  <2>1. BReached \in Local /\ BReached \in Urls /\ bTodo # <<>> /\ bpc = "walk"
    BY <1>4, BTakesType DEF BLoadLocal
  <2>2. files[BReached.name] \in Docs \cup {NoDoc}
    BY <2>1, FilesType DEF TypeOK, Local
  <2>3. /\ bSeen' \subseteq Urls /\ bTodo' \in Seq(Urls)
        /\ bpc' \in {"walk", "done"}
        /\ bErrors' \subseteq {"unpinned", "drift", "bytes", "opaque", "invalid"}
    BY <1>4, <2>1, <2>2, BAddType DEF BLoadLocal
  <2> QED BY <1>4, <2>3 DEF BLoadLocal, TypeOK, Reached
<1>5. CASE BReject
  <2>1. bTodo' \in Seq(Urls)
    BY <1>5, BTakesType DEF BReject
  <2>2. bErrors' \subseteq {"unpinned", "drift", "bytes", "opaque", "invalid"}
    BY <1>5 DEF BReject, TypeOK
  <2> QED BY <1>5, <2>1, <2>2 DEF BReject, TypeOK, Reached
<1>6. CASE BLoadRemote
  <2>1. BReached \in Remote /\ BReached \in Urls /\ bTodo # <<>> /\ bpc = "walk"
    BY <1>6, BTakesType DEF BLoadRemote
  <2>2. Pinned \in [doc : Docs, at : Remote] /\ copies[BReached] = Pinned.doc
    BY <1>6 DEF BLoadRemote, TypeOK, IsPins, Pinned
  <2>3. Pinned.at \in Urls /\ Pinned.at \in Remote /\ copies[BReached] \in Docs
    BY <2>2 DEF Urls
  <2>4. /\ bSeen' \subseteq Urls /\ bTodo' \in Seq(Urls)
        /\ bpc' \in {"walk", "done"}
        /\ bErrors' \subseteq {"unpinned", "drift", "bytes", "opaque", "invalid"}
    BY <1>6, <2>1, <2>3, BAddType DEF BLoadRemote
  <2>5. [doc |-> copies[BReached], at |-> Pinned.at] \in [doc : Docs, at : Remote]
    BY <2>3
  <2>6. IsPins(loaded')
    BY <1>6, <2>1, <2>5 DEF BLoadRemote, TypeOK, IsPins
  <2> QED BY <1>6, <2>4, <2>6 DEF BLoadRemote, TypeOK, Reached
<1>7. CASE BEnd
  BY <1>7 DEF BEnd, TypeOK, Reached
<1>8. CASE BDrop
  BY <1>8, NoPinsType DEF BDrop, TypeOK, NoLock, Reached
<1> QED BY <1>1, <1>2, <1>3, <1>4, <1>5, <1>6, <1>7, <1>8 DEF BuildStep

LEMMA TypeStep == TypeOK /\ [Next]_vars => TypeOK'
<1> SUFFICES ASSUME TypeOK, [Next]_vars PROVE TypeOK'
  OBVIOUS
<1>1. CASE UNCHANGED vars
  BY <1>1 DEF vars, TypeOK, Reached
<1>2. CASE Next
  BY <1>2, StartLockTypes, WalkTypes, CopyTypes, EndTypes, BuildTypes DEF Next, LockStep
<1> QED BY <1>1, <1>2

\* Every variable keeps its type, whatever the server serves.
THEOREM VendoringTypeCorrect == Spec => []TypeOK
<1>1. Init => TypeOK
  BY TypeInit
<1>2. TypeOK /\ [Next]_vars => TypeOK'
  BY TypeStep
<1> QED BY <1>1, <1>2, PTL DEF Spec

-----------------------------------------------------------------------------
(* A build loads pinned bytes only. *)

LEMMA LoadedStep == TypeOK /\ LoadedInv /\ [Next]_vars => LoadedInv'
<1> SUFFICES ASSUME TypeOK, LoadedInv, [Next]_vars PROVE LoadedInv'
  OBVIOUS
<1>1. CASE UNCHANGED <<bpc, bLock, loaded>>
  BY <1>1 DEF LoadedInv, BuildIsPinned
<1>2. CASE UNCHANGED <<bLock, loaded>> /\ bpc' # "idle"
  BY <1>2 DEF LoadedInv, BuildIsPinned
<1>3. CASE loaded' = NoPins
  BY <1>3 DEF LoadedInv, BuildIsPinned, NoPins
<1>4. CASE BLoadRemote
  <2>1. Pinned \in [doc : Docs, at : Remote] /\ copies[BReached] = Pinned.doc
    BY <1>4 DEF BLoadRemote, TypeOK, IsPins, Pinned
  <2>2. [doc |-> copies[BReached], at |-> Pinned.at] = bLock.pins[BReached]
    BY <2>1 DEF Pinned
  <2>3. bpc = "walk" /\ bLock' = bLock /\ BReached \in DOMAIN bLock.pins
    BY <1>4 DEF BLoadRemote, BTakes
  <2>4. bpc' # "idle"
    BY <1>4, <2>3 DEF BLoadRemote, BAdd
  <2> QED BY <1>4, <2>2, <2>3, <2>4 DEF BLoadRemote, LoadedInv, BuildIsPinned
<1>5. CASE StartBuild
  BY <1>3, <1>5 DEF StartBuild, LoadedInv
<1>6. CASE BLoadLocal
  <2>1. UNCHANGED <<bLock, loaded>> /\ bpc' # "idle"
    BY <1>6 DEF BLoadLocal, BAdd, BTakes
  <2> QED BY <1>2, <2>1
<1> QED
  BY <1>1, <1>2, <1>3, <1>4, <1>5, <1>6
  DEF Next, vars, LockStep, BuildStep, StartLock, SkipSeen, SkipOpaque, ScanLocal, FetchFails,
      Fetch, OpenCopy, WriteCopy, EndWalk, WriteLock, Killed, RefuseBuild, BSkipSeen, BReject,
      BEnd, BDrop

\* Whatever runs of spargen lock do beside a build, killed or failing in the
\* middle of a write, it loads no bytes but those pinned in the lock it read.
THEOREM PinnedBytesOnly == Spec => []BuildIsPinned
<1>1. Init => TypeOK /\ LoadedInv
  BY TypeInit DEF Init, LoadedInv, BuildIsPinned, NoPins
<1>2. TypeOK /\ LoadedInv /\ [Next]_vars => (TypeOK /\ LoadedInv)'
  BY TypeStep, LoadedStep
<1>3. LoadedInv => BuildIsPinned
  BY DEF LoadedInv
<1> QED BY <1>1, <1>2, <1>3, PTL DEF Spec

-----------------------------------------------------------------------------
(* A failed fetch takes nothing away. *)

USE DEF Mine, Old, Fresh

LEMMA UsableStart == TypeOK /\ StartLock => UsableInv'
<1> SUFFICES ASSUME TypeOK, StartLock PROVE UsableInv'
  OBVIOUS
<1>1. /\ pc' = "walk" /\ pins' = NoPins /\ errors' = {} /\ lock' = lock /\ copies' = copies
      /\ before' = Usable(PinsOf(lock))
  BY DEF StartLock
<1>2. \A u \in before' : u \in DOMAIN PinsOf(lock) /\ copies[u] = PinsOf(lock)[u].doc
  BY <1>1 DEF Usable
<1>3. DOMAIN pins' = {} /\ PinsOf(lock') = PinsOf(lock)
  BY <1>1 DEF NoPins
<1> QED BY <1>1, <1>2, <1>3 DEF UsableInv

\* The steps that only look at a reference.
LEMMA UsableLook ==
  ASSUME UsableInv, pc = "walk", pc' = "walk", seen \subseteq seen',
         errors' = errors \/ errors' = errors \cup {"fetch"} \/ errors' = errors \cup {"opaque"},
         UNCHANGED <<pins, lock, copies, before>>
  PROVE  UsableInv'
<1>1. PinsOf(lock') = PinsOf(lock)
  OBVIOUS
<1> QED BY <1>1 DEF UsableInv

LEMMA UsableWalk ==
  TypeOK /\ UsableInv /\ (SkipSeen \/ SkipOpaque \/ ScanLocal \/ FetchFails) => UsableInv'
<1> SUFFICES ASSUME UsableInv, SkipSeen \/ SkipOpaque \/ ScanLocal \/ FetchFails
             PROVE  UsableInv'
  OBVIOUS
<1>1. CASE SkipSeen
  BY <1>1, UsableLook DEF SkipSeen, Takes
<1>2. CASE SkipOpaque
  BY <1>2, UsableLook DEF SkipOpaque, Takes
<1>3. CASE ScanLocal
  <2>1. seen \subseteq seen'
    BY <1>3 DEF ScanLocal, Add
  <2> QED BY <1>3, <2>1, UsableLook DEF ScanLocal, Takes
<1>4. CASE FetchFails
  BY <1>4, UsableLook DEF FetchFails, Takes
<1> QED BY <1>1, <1>2, <1>3, <1>4

LEMMA UsableFetch == TypeOK /\ UsableInv /\ Fetch => UsableInv'
<1> SUFFICES ASSUME UsableInv, Fetch PROVE UsableInv'
  OBVIOUS
<1>1. /\ pc = "walk" /\ pc' = "open" /\ seen \subseteq seen' /\ Reached' = Reached
      /\ Reached \notin seen /\ Reached \in seen'
      /\ UNCHANGED <<pins, lock, copies, errors, before>>
  BY DEF Fetch, Takes, Reached
<1>2. DOMAIN pins \subseteq seen
  BY <1>1 DEF UsableInv
<1>3. PinsOf(lock') = PinsOf(lock)
  BY <1>1
<1> QED BY <1>1, <1>2, <1>3 DEF UsableInv

LEMMA UsableGiveUp ==
  ASSUME UsableInv, pc \in {"open", "copy"}, GiveUpCopy
  PROVE  UsableInv'
<1>1. pc' = "walk" /\ UNCHANGED <<seen, pins>> /\ "write" \in errors'
  BY DEF GiveUpCopy
<1> QED BY <1>1 DEF UsableInv

LEMMA UsableCopy == TypeOK /\ UsableInv /\ (OpenCopy \/ WriteCopy) => UsableInv'
<1> SUFFICES ASSUME TypeOK, UsableInv, OpenCopy \/ WriteCopy PROVE UsableInv'
  OBVIOUS
<1>1. /\ pc \in {"open", "copy"} /\ Reached \in Remote /\ Fresh
      /\ Reached \in seen /\ Reached \notin DOMAIN pins
  BY DEF OpenCopy, WriteCopy, UsableInv, TypeOK
<1>2. CASE GiveUpCopy
  BY <1>1, <1>2, UsableGiveUp
<1>3. CASE OpenCopy /\ ~ GiveUpCopy
  <2>1. /\ pc = "open" /\ pc' = "copy" /\ Reached' = Reached
        /\ UNCHANGED <<seen, pins, errors, lock, before>>
    BY <1>3 DEF OpenCopy, Reached
  <2>2. copies' = [copies EXCEPT ![Reached] = Torn]
    BY <1>3 DEF OpenCopy
  <2>3. \A u : u # Reached => copies'[u] = copies[u]
    BY <2>2 DEF TypeOK
  <2>4. PinsOf(lock') = PinsOf(lock)
    BY <2>1
  <2> QED BY <1>1, <2>1, <2>3, <2>4 DEF UsableInv
<1>4. CASE WriteCopy /\ ~ GiveUpCopy
  <2>1. /\ pc = "copy" /\ pc' = "walk"
        /\ UNCHANGED <<errors, lock, before>>
        /\ seen \subseteq seen'
    BY <1>4 DEF WriteCopy, Add
  <2>2. /\ pins' = [u \in DOMAIN pins \cup {Reached} |-> IF u = Reached THEN held ELSE pins[u]]
        /\ copies' = [copies EXCEPT ![Reached] = held.doc]
    BY <1>4 DEF WriteCopy
  <2>3. /\ Reached \in DOMAIN pins' /\ copies'[Reached] = pins'[Reached].doc
        /\ DOMAIN pins' = DOMAIN pins \cup {Reached}
        /\ \A u : u # Reached => copies'[u] = copies[u]
        /\ \A u \in DOMAIN pins : pins'[u] = pins[u]
    BY <1>1, <2>2 DEF TypeOK
  <2>4. Reached \in seen'
    BY <1>1, <2>1
  <2>5. DOMAIN pins' \subseteq seen'
    BY <1>1, <2>1, <2>3, <2>4
  <2>6. PinsOf(lock') = PinsOf(lock)
    BY <2>1
  <2>7. ASSUME "write" \notin errors, NEW u \in before PROVE Mine(u)' \/ Old(u)'
    <3>1. CASE u = Reached
      BY <2>3, <3>1
    <3>2. CASE u # Reached
      <4>1. Mine(u) \/ Old(u)
        BY <2>1, <2>7, <3>2 DEF UsableInv
      <4> QED BY <2>3, <2>6, <3>2, <4>1
    <3> QED BY <3>1, <3>2
  <2> QED BY <2>1, <2>5, <2>7 DEF UsableInv
<1> QED BY <1>2, <1>3, <1>4

LEMMA UsableEnd == TypeOK /\ UsableInv /\ (EndWalk \/ WriteLock \/ Killed) => UsableInv'
<1> SUFFICES ASSUME TypeOK, UsableInv, EndWalk \/ WriteLock \/ Killed PROVE UsableInv'
  OBVIOUS
<1>1. CASE EndRun("idle")
  BY <1>1 DEF EndRun, UsableInv
<1>2. CASE EndWalk /\ ~ EndRun("idle")
  <2>1. pc = "walk" /\ pc' = "lock" /\ UNCHANGED <<errors, copies, before>>
    BY <1>2 DEF EndWalk
  <2>2. CASE "fetch" \in errors /\ "write" \notin errors
    <3>1. pins' = KeepUnpinned(PinsOf(lock))
      BY <1>2, <2>2 DEF EndWalk
    <3>2. ASSUME NEW u \in before PROVE Mine(u)'
      <4>1. Mine(u) \/ Old(u)
        BY <2>1, <2>2 DEF UsableInv
      <4> QED BY <2>1, <3>1, <4>1 DEF KeepUnpinned
    <3> QED BY <2>1, <3>2 DEF UsableInv
  <2>3. CASE "fetch" \notin errors \/ "write" \in errors
    BY <2>1, <2>3 DEF UsableInv
  <2> QED BY <2>2, <2>3
<1>3. CASE WriteLock /\ ~ EndRun("idle")
  <2>1. /\ pc = "lock" /\ pc' = "done" /\ errors' = errors
        /\ lock' = [pins |-> pins, complete |-> errors = {}]
        /\ UNCHANGED <<copies, before>>
    BY <1>3 DEF WriteLock, EndRun
  <2>2. lock'.pins = pins
    BY <2>1
  <2> QED BY <2>1, <2>2 DEF UsableInv, Usable
<1> QED BY <1>1, <1>2, <1>3 DEF Killed

\* Nothing else reads or writes what the invariant speaks of.
LEMMA UsableFrame ==
  ASSUME UsableInv, UNCHANGED <<pc, todo, seen, pins, errors, before, copies, lock>>
  PROVE  UsableInv'
<1>1. Reached' = Reached /\ PinsOf(lock') = PinsOf(lock)
  BY DEF Reached
<1> QED BY <1>1 DEF UsableInv, Usable

LEMMA UsableStep == TypeOK /\ UsableInv /\ [Next]_vars => UsableInv'
<1> SUFFICES ASSUME TypeOK, UsableInv, [Next]_vars PROVE UsableInv'
  OBVIOUS
<1>1. CASE UNCHANGED vars
  BY <1>1, UsableFrame DEF vars
<1>2. CASE RefuseBuild \/ StartBuild \/ BuildStep \/ BDrop
  <2>1. UNCHANGED <<pc, todo, seen, pins, errors, before, copies, lock>>
    BY <1>2 DEF RefuseBuild, StartBuild, BuildStep, BSkipSeen, BLoadLocal, BReject,
                BLoadRemote, BEnd, BDrop, disk, walk, history
  <2> QED BY <2>1, UsableFrame
<1>3. CASE StartLock \/ LockStep \/ Killed
  BY <1>3, UsableStart, UsableWalk, UsableFetch, UsableCopy, UsableEnd DEF LockStep
<1> QED BY <1>1, <1>2, <1>3 DEF Next

\* A run of spargen lock in which fetches fail, but no write, leaves every pin
\* whose copy had the pinned bytes with a copy that has the bytes of its pin.
THEOREM FailedFetchTakesNothing == Spec => []UsableSurvives
<1>1. Init => TypeOK /\ UsableInv
  BY TypeInit DEF Init, UsableInv
<1>2. TypeOK /\ UsableInv /\ [Next]_vars => (TypeOK /\ UsableInv)'
  BY TypeStep, UsableStep
<1>3. UsableInv => UsableSurvives
  BY DEF UsableInv, UsableSurvives
<1> QED BY <1>1, <1>2, <1>3, PTL DEF Spec

-----------------------------------------------------------------------------
(* The two walks agree.  A trail is what a walk over the pins p of the local  *)
(* files fs goes through: what it still has to look at, what it has seen, and *)
(* the pins it has used.  The walk of a run without errors is a trail that    *)
(* ends with all its pins, and a build of that lock goes along the same one.  *)

At(todoNow, seenNow, got) == [todo |-> todoNow, seen |-> seenNow, got |-> got]

Start(fs) == At(Refs(RootUrl, fs[Root]), {RootUrl} \cup SelfOf(RootUrl, fs[Root]), {})

\* On from s with the document reached at u.
Onward(s, u, doc, names, got) ==
  IF doc # NoDoc /\ doc.parses
  THEN At(Tail(s.todo) \o Refs(u, doc), s.seen \cup names \cup SelfOf(u, doc), got)
  ELSE At(Tail(s.todo), s.seen \cup names, got)

\* The next place on a trail: it is one at most.
Leads(fs, p, s, t) ==
  /\ s.todo # <<>>
  /\ LET r == Head(s.todo) IN
     \/ /\ r \in s.seen
        /\ t = At(Tail(s.todo), s.seen, s.got)
     \/ /\ r \notin s.seen /\ r.host = "local"
        /\ t = Onward(s, r, fs[r.name], {r}, s.got)
     \/ /\ r \notin s.seen /\ r.host # "local" /\ r \in DOMAIN p
        /\ t = Onward(s, p[r].at, p[r].doc, {r, p[r].at}, s.got \cup {r})

Trail(fs, p, n, trail) ==
  /\ n \in Nat
  /\ trail[0] = Start(fs)
  /\ \A i \in 1..n : Leads(fs, p, trail[i - 1], trail[i])
  /\ \A i \in 0..n : /\ trail[i].seen \subseteq trail[n].seen
                     /\ trail[i].seen \cap DOMAIN p \subseteq trail[i].got

\* s is on a trail; on one that ends with all its pins.
Along(fs, p, s) == \E n, trail : Trail(fs, p, n, trail) /\ trail[n] = s
Ends(s, p) == s.todo = <<>> /\ s.got = DOMAIN p
Whole(fs, p) == \E s : Along(fs, p, s) /\ Ends(s, p)
AlongWhole(fs, p, s) ==
  \E n, trail : Trail(fs, p, n, trail) /\ Ends(trail[n], p) /\ \E i \in 0..n : trail[i] = s

LEMMA TrailStarts ==
  ASSUME NEW fs, NEW p, DOMAIN p = {}
  PROVE  Along(fs, p, Start(fs))
<1> DEFINE trail == [i \in {0} |-> Start(fs)]
<1>1. Trail(fs, p, 0, trail) /\ trail[0] = Start(fs)
  BY DEF Trail
<1> QED BY <1>1 DEF Along

LEMMA LeadsSees ==
  ASSUME NEW fs, NEW p, NEW s, NEW t, Leads(fs, p, s, t)
  PROVE  s.seen \subseteq t.seen
<1>1. ASSUME NEW u, NEW doc, NEW names, NEW got
      PROVE  s.seen \subseteq Onward(s, u, doc, names, got).seen
  BY DEF Onward, At
<1>2. At(Tail(s.todo), s.seen, s.got).seen = s.seen
  BY DEF At
<1> QED BY <1>1, <1>2 DEF Leads

LEMMA TrailGoesOn ==
  ASSUME NEW fs, NEW p, NEW s, NEW t, Along(fs, p, s), Leads(fs, p, s, t), t.got = DOMAIN p
  PROVE  Along(fs, p, t)
<1>1. PICK n, trail : Trail(fs, p, n, trail) /\ trail[n] = s
  BY DEF Along
<1> DEFINE longer == [i \in 0..n + 1 |-> IF i = n + 1 THEN t ELSE trail[i]]
<1>2. n \in Nat
  BY <1>1 DEF Trail
<1>3. longer[0] = Start(fs) /\ longer[n + 1] = t /\ longer[n] = s
  BY <1>1, <1>2 DEF Trail
<1>4. ASSUME NEW i \in 1..n + 1 PROVE Leads(fs, p, longer[i - 1], longer[i])
  <2>1. CASE i = n + 1
    <3>1. i - 1 = n
      BY <1>2, <2>1
    <3> QED BY <1>3, <2>1, <3>1
  <2>2. CASE i # n + 1
    <3>1. i \in 1..n /\ i - 1 \in 0..n /\ i - 1 # n + 1
      BY <1>2, <2>2
    <3>2. longer[i - 1] = trail[i - 1] /\ longer[i] = trail[i]
      BY <1>2, <3>1
    <3> QED BY <1>1, <3>1, <3>2 DEF Trail
  <2> QED BY <2>1, <2>2
<1>5. ASSUME NEW i \in 0..n + 1
      PROVE  longer[i].seen \subseteq t.seen /\ longer[i].seen \cap DOMAIN p \subseteq longer[i].got
  <2>1. CASE i = n + 1
    BY <1>3, <2>1
  <2>2. CASE i # n + 1
    <3>1. i \in 0..n /\ longer[i] = trail[i]
      BY <1>2, <2>2
    <3>2. s.seen \subseteq t.seen
      BY LeadsSees
    <3> QED BY <1>1, <3>1, <3>2 DEF Trail
  <2> QED BY <2>1, <2>2
<1> HIDE DEF longer
<1>6. Trail(fs, p, n + 1, longer)
  BY <1>2, <1>3, <1>4, <1>5 DEF Trail
<1> QED BY <1>3, <1>6 DEF Along

\* A new pin leaves a trail what it was.
LEMMA TrailKeeps ==
  ASSUME NEW fs, NEW p, NEW q, NEW s, NEW r, Along(fs, p, s), r \notin s.seen,
         DOMAIN q = DOMAIN p \cup {r}, \A u \in DOMAIN p : q[u] = p[u]
  PROVE  Along(fs, q, s)
<1>1. ASSUME NEW a, NEW b, Leads(fs, p, a, b) PROVE Leads(fs, q, a, b)
  BY <1>1 DEF Leads
<1>2. PICK n, trail : Trail(fs, p, n, trail) /\ trail[n] = s
  BY DEF Along
<1>3. Trail(fs, q, n, trail)
  BY <1>1, <1>2 DEF Trail
<1> QED BY <1>2, <1>3 DEF Along

LEMMA OneWay ==
  ASSUME NEW fs, NEW p, NEW s, NEW t, NEW u, Leads(fs, p, s, t), Leads(fs, p, s, u)
  PROVE  t = u
BY DEF Leads

LEMMA WholeStarts ==
  ASSUME NEW fs, NEW p, Whole(fs, p)
  PROVE  AlongWhole(fs, p, Start(fs))
<1>1. PICK s : Along(fs, p, s) /\ Ends(s, p)
  BY DEF Whole
<1>2. PICK n, trail : Trail(fs, p, n, trail) /\ trail[n] = s
  BY <1>1 DEF Along
<1>3. 0 \in 0..n /\ trail[0] = Start(fs)
  BY <1>2 DEF Trail
<1> QED BY <1>1, <1>2, <1>3 DEF AlongWhole

\* From a place on a whole trail that is not its end there is a way on, which
\* stays on the trail; and its end has all the pins.
LEMMA WholeGoesOn ==
  ASSUME NEW fs, NEW p, NEW s, AlongWhole(fs, p, s)
  PROVE  /\ s.todo # <<>> => \E t : Leads(fs, p, s, t)
         /\ \A t : Leads(fs, p, s, t) => AlongWhole(fs, p, t)
         /\ s.todo = <<>> => s.got = DOMAIN p
         /\ s.seen \cap DOMAIN p \subseteq s.got
<1>1. PICK n, trail : Trail(fs, p, n, trail) /\ Ends(trail[n], p) /\ \E i \in 0..n : trail[i] = s
  BY DEF AlongWhole
<1>2. PICK i \in 0..n : trail[i] = s
  BY <1>1
<1>3. n \in Nat
  BY <1>1 DEF Trail
<1>4. CASE i = n
  BY <1>1, <1>2, <1>4 DEF Ends, Leads, Trail
<1>5. CASE i # n
  <2>1. i + 1 \in 1..n /\ i + 1 \in 0..n /\ (i + 1) - 1 = i
    BY <1>3, <1>5
  <2>2. Leads(fs, p, s, trail[i + 1])
    BY <1>1, <1>2, <2>1 DEF Trail
  <2>3. s.todo # <<>>
    BY <2>2 DEF Leads
  <2>4. ASSUME NEW t, Leads(fs, p, s, t) PROVE AlongWhole(fs, p, t)
    <3>1. trail[i + 1] = t
      BY <2>2, <2>4, OneWay
    <3> QED BY <1>1, <2>1, <3>1 DEF AlongWhole
  <2>5. s.seen \cap DOMAIN p \subseteq s.got
    BY <1>1, <1>2 DEF Trail
  <2> QED BY <2>2, <2>3, <2>4, <2>5
<1> QED BY <1>4, <1>5

\* What each walk has done so far, and what stands between them.
LockTrail ==
  errors = {} =>
    /\ pc = "walk" => Along(files, pins, At(todo, seen, DOMAIN pins))
    /\ pc \in {"open", "copy"} => \E s :
         /\ Along(files, pins, At(todo, s, DOMAIN pins))
         /\ Reached \notin s
         /\ seen = s \cup {Reached, held.at}
    /\ pc = "lock" => Whole(files, pins)
    /\ pc \in {"walk", "open", "copy", "lock"} => \A u \in DOMAIN pins : copies[u] = pins[u].doc

LocksWhole ==
  /\ lock # Torn /\ lock.complete => Whole(files, lock.pins)
  /\ bLock.complete => Whole(files, bLock.pins)

Stands ==
  /\ calm = "complete" =>
       /\ pc \in {"idle", "done"}
       /\ lock.complete
       /\ \A u \in DOMAIN lock.pins : copies[u] = lock.pins[u].doc
  /\ bCalm = "complete" => calm = "complete" /\ bLock = lock

\* Where a build is that has passed over pinned bytes that are not UTF-8: at t,
\* but it has not registered the names of those bytes, which are remote.
Beside(t) ==
  /\ t.todo = bTodo
  /\ DOMAIN loaded \subseteq bSeen
  /\ bSeen \subseteq t.seen
  /\ t.seen \ bSeen \subseteq Remote
  /\ \A u \in t.got \ DOMAIN loaded : ~ bLock.pins[u].doc.utf8
  /\ bErrors \subseteq {"bytes", "unpinned"}
  /\ "bytes" \notin bErrors => bErrors = {} /\ t.seen = bSeen

BuildTrail ==
  /\ bpc = "idle" => bErrors = {} /\ loaded = NoPins /\ bCalm = "no"
  /\ bpc = "walk" /\ bErrors = {} /\ bLock.complete =>
       AlongWhole(files, bLock.pins, At(bTodo, bSeen, DOMAIN loaded))
  /\ bpc = "walk" /\ bCalm = "complete" =>
       \E t : AlongWhole(files, bLock.pins, t) /\ Beside(t)

TrailInv == LockTrail /\ LocksWhole /\ Stands /\ BuildTrail /\ WalksAgree

LEMMA TrailInit == Init => TrailInv
BY DEF Init, TrailInv, LockTrail, LocksWhole, Stands, BuildTrail, WalksAgree, NoLock

\* The steps of a build leave the run and the disk alone, and a run's the build.
LEMMA BuildFrame ==
  ASSUME TrailInv, UNCHANGED <<files, lock, copies, pc, todo, seen, pins, held, errors, calm>>,
         (LocksWhole /\ Stands /\ BuildTrail /\ WalksAgree)'
  PROVE  TrailInv'
BY DEF TrailInv, LockTrail, Reached

LEMMA RunFrame ==
  ASSUME TrailInv, UNCHANGED <<files, lock, build, calm, bCalm>>,
         pc' \in {"idle", "done"} \/ calm = "no",
         UNCHANGED copies \/ calm = "no", LockTrail'
  PROVE  TrailInv'
<1>1. \A t : Beside(t)' <=> Beside(t)
  BY DEF Beside
<1> QED BY <1>1 DEF TrailInv, LocksWhole, Stands, BuildTrail, WalksAgree

\* A document reached at u, added to what the run has walked, is the way on.
LEMMA AddLeads ==
  ASSUME NEW u, NEW doc, NEW names, NEW got, NEW s, Add(u, doc, names),
         s.todo = todo, s.seen \cup names = seen \cup names
  PROVE  At(todo', seen', got) = Onward(s, u, doc, names, got)
BY DEF Add, Onward, At

LEMMA StartLockTrail == TrailInv /\ StartLock => TrailInv'
<1> SUFFICES ASSUME TrailInv, StartLock PROVE TrailInv'
  OBVIOUS
<1>1. /\ pc' = "walk" /\ pins' = NoPins /\ DOMAIN pins' = {}
      /\ At(todo', seen', {}) = Start(files)
      /\ UNCHANGED <<files, lock, copies, bpc, bLock, bTodo, bSeen, loaded, bErrors>>
      /\ calm' = "no" /\ bCalm' = "no"
  BY DEF StartLock, Start, At, RootDoc, NoPins
<1>2. Along(files', pins', At(todo', seen', DOMAIN pins'))
  BY <1>1, TrailStarts
<1>3. LockTrail'
  BY <1>1, <1>2 DEF LockTrail, NoPins
<1> QED BY <1>1, <1>3 DEF TrailInv, LocksWhole, Stands, BuildTrail, WalksAgree

LEMMA WalkTrail ==
  TypeOK /\ TrailInv /\ (SkipSeen \/ SkipOpaque \/ ScanLocal \/ FetchFails \/ Fetch) => TrailInv'
<1> SUFFICES ASSUME TypeOK, TrailInv, SkipSeen \/ SkipOpaque \/ ScanLocal \/ FetchFails \/ Fetch
             PROVE  TrailInv'
  OBVIOUS
<1> DEFINE s == At(todo, seen, DOMAIN pins)
<1>1. /\ pc = "walk" /\ todo # <<>> /\ pins' = pins
      /\ UNCHANGED <<files, lock, copies, bpc, bLock, bTodo, bSeen, loaded, bErrors>>
      /\ UNCHANGED <<calm, bCalm>>
      /\ calm = "no"
  BY DEF SkipSeen, SkipOpaque, ScanLocal, FetchFails, Fetch, Takes, TrailInv, Stands, TypeOK
<1>2. s.todo = todo /\ s.seen = seen /\ s.got = DOMAIN pins
  BY DEF At
<1>3. errors = {} => Along(files, pins, s) /\ \A u \in DOMAIN pins : copies[u] = pins[u].doc
  BY <1>1 DEF TrailInv, LockTrail
<1>4. LockTrail'
  <2>1. CASE SkipOpaque \/ FetchFails
    BY <2>1 DEF SkipOpaque, FetchFails, LockTrail
  <2>2. ASSUME pc' = "walk", errors' = errors, Leads(files, pins, s, At(todo', seen', DOMAIN pins))
        PROVE  LockTrail'
    <3>1. errors = {} => Along(files', pins', At(todo', seen', DOMAIN pins'))
      <4>1. At(todo', seen', DOMAIN pins).got = DOMAIN pins
        BY DEF At
      <4> QED BY <1>1, <1>3, <2>2, <4>1, TrailGoesOn
    <3> QED BY <1>1, <1>3, <2>2, <3>1 DEF LockTrail
  <2>3. CASE SkipSeen
    <3>1. /\ Head(todo) \in seen /\ todo' = Tail(todo)
          /\ UNCHANGED <<pc, seen, errors>>
      BY <2>3 DEF SkipSeen, Reached
    <3>2. Leads(files, pins, s, At(todo', seen', DOMAIN pins))
      BY <1>1, <1>2, <3>1 DEF Leads
    <3> QED BY <1>1, <2>2, <3>1, <3>2
  <2>4. CASE ScanLocal
    <3>1. /\ Head(todo) \notin seen /\ Head(todo).host = "local"
          /\ Add(Head(todo), files[Head(todo).name], {Head(todo)})
          /\ UNCHANGED <<pc, errors>>
      BY <2>4 DEF ScanLocal, Takes, Reached
    <3>2. At(todo', seen', DOMAIN pins) =
            Onward(s, Head(todo), files[Head(todo).name], {Head(todo)}, DOMAIN pins)
      BY <1>2, <3>1, AddLeads
    <3> HIDE DEF s
    <3>3. Leads(files, pins, s, At(todo', seen', DOMAIN pins))
      BY <1>1, <1>2, <3>1, <3>2 DEF Leads
    <3> QED BY <1>1, <2>2, <3>1, <3>3
  <2>5. CASE Fetch
    <3>1. /\ Reached \notin seen /\ seen' = seen \cup {Reached, held'.at}
          /\ pc' = "open" /\ UNCHANGED <<todo, errors>> /\ Reached' = Reached
      BY <2>5 DEF Fetch, Reached
    <3> QED BY <1>1, <1>3, <3>1 DEF LockTrail
  <2> QED BY <2>1, <2>3, <2>4, <2>5
<1> QED BY <1>1, <1>4, RunFrame

LEMMA CopyTrail == TypeOK /\ UsableInv /\ TrailInv /\ (OpenCopy \/ WriteCopy) => TrailInv'
<1> SUFFICES ASSUME TypeOK, UsableInv, TrailInv, OpenCopy \/ WriteCopy PROVE TrailInv'
  OBVIOUS
<1>1. /\ pc \in {"open", "copy"} /\ Reached \in Remote /\ Reached \notin DOMAIN pins
      /\ UNCHANGED <<files, lock, bpc, bLock, bTodo, bSeen, loaded, bErrors>>
      /\ UNCHANGED <<calm, bCalm>>
      /\ calm = "no"
      /\ todo # <<>> /\ Reached = Head(todo)
  BY DEF OpenCopy, WriteCopy, UsableInv, TypeOK, TrailInv, Stands, Reached
<1>2. LockTrail'
  <2>1. CASE GiveUpCopy
    BY <2>1 DEF GiveUpCopy, LockTrail
  <2>2. CASE OpenCopy /\ ~ GiveUpCopy
    <3>1. /\ pc' = "copy" /\ Reached' = Reached /\ copies' = [copies EXCEPT ![Reached] = Torn]
          /\ UNCHANGED <<todo, seen, pins, held, errors>>
      BY <2>2 DEF OpenCopy, Reached
    <3>2. \A u : u # Reached => copies'[u] = copies[u]
      BY <3>1 DEF TypeOK
    <3> QED BY <1>1, <3>1, <3>2 DEF TrailInv, LockTrail
  <2>3. CASE WriteCopy /\ ~ GiveUpCopy
    <3>1. /\ pc' = "walk" /\ errors' = errors /\ Add(held.at, held.doc, {})
          /\ pins' = [u \in DOMAIN pins \cup {Reached} |-> IF u = Reached THEN held ELSE pins[u]]
          /\ copies' = [copies EXCEPT ![Reached] = held.doc]
      BY <2>3 DEF WriteCopy
    <3>2. /\ DOMAIN pins' = DOMAIN pins \cup {Reached} /\ pins'[Reached] = held
          /\ copies'[Reached] = held.doc
          /\ \A u : u # Reached => copies'[u] = copies[u]
          /\ \A u \in DOMAIN pins : pins'[u] = pins[u]
      BY <1>1, <3>1 DEF TypeOK
    <3>3. ASSUME errors = {} PROVE Along(files, pins', At(todo', seen', DOMAIN pins'))
      <4>1. PICK t : /\ Along(files, pins, At(todo, t, DOMAIN pins))
                     /\ Reached \notin t
                     /\ seen = t \cup {Reached, held.at}
        BY <1>1, <3>3 DEF TrailInv, LockTrail
      <4>2. PICK s : s = At(todo, t, DOMAIN pins)
        OBVIOUS
      <4>3. s.todo = todo /\ s.seen = t /\ s.got = DOMAIN pins
        BY <4>2 DEF At
      <4>4. At(todo', seen', DOMAIN pins') =
              Onward(s, held.at, held.doc, {Reached, held.at}, s.got \cup {Reached})
        BY <3>1, <3>2, <4>1, <4>3 DEF Add, Onward, At
      <4>5. Head(todo).host # "local"
        BY <1>1, VendoringAssumption DEF Remote
      <4>6. Leads(files, pins', s, At(todo', seen', DOMAIN pins'))
        BY <1>1, <3>2, <4>1, <4>3, <4>4, <4>5 DEF Leads
      <4>7. Along(files, pins', s)
        BY <3>2, <4>1, <4>2, <4>3, TrailKeeps
      <4>8. At(todo', seen', DOMAIN pins').got = DOMAIN pins'
        BY DEF At
      <4> QED BY <4>6, <4>7, <4>8, TrailGoesOn
    <3>4. errors = {} => \A u \in DOMAIN pins' : copies'[u] = pins'[u].doc
      BY <1>1, <3>2 DEF TrailInv, LockTrail
    <3> QED BY <1>1, <3>1, <3>3, <3>4 DEF LockTrail
  <2> QED BY <2>1, <2>2, <2>3
<1> QED BY <1>1, <1>2, RunFrame

\* A lock that is being written is not complete.
LEMMA EndTrail == TypeOK /\ TrailInv /\ (EndWalk \/ WriteLock \/ Killed) => TrailInv'
<1> SUFFICES ASSUME TypeOK, TrailInv, EndWalk \/ WriteLock \/ Killed PROVE TrailInv'
  OBVIOUS
<1>1. /\ UNCHANGED <<files, copies, bpc, bLock, bTodo, bSeen, loaded, bErrors, bCalm>>
      /\ calm = "no" /\ bCalm = "no"
      /\ pc \notin {"idle", "done"}
  BY DEF EndWalk, WriteLock, Killed, TrailInv, Stands, TypeOK
<1>2. CASE EndRun("idle") /\ UNCHANGED <<lock, calm>>
  <2>1. LockTrail'
    BY <1>2 DEF EndRun, LockTrail
  <2> QED BY <1>1, <1>2, <2>1, RunFrame
<1>3. CASE EndWalk /\ ~ EndRun("idle")
  <2> DEFINE all == IF "fetch" \in errors THEN KeepUnpinned(PinsOf(lock)) ELSE pins
  <2>1. /\ pc = "walk" /\ todo = <<>> /\ pc' = "lock" /\ pins' = all /\ lock' \in TornLocks(all)
        /\ UNCHANGED <<todo, seen, held, errors, calm>>
    BY <1>3 DEF EndWalk
  <2>2. IsPins(all)
    BY PinsOfType, KeepType DEF TypeOK
  <2>3. lock' = Torn \/ lock'.complete = FALSE
    BY <2>1, <2>2, TornLockType
  <2>4. ASSUME errors = {} PROVE Whole(files, pins) /\ pins' = pins
    <3>1. Along(files, pins, At(todo, seen, DOMAIN pins))
      BY <2>1, <2>4 DEF TrailInv, LockTrail
    <3>2. Ends(At(todo, seen, DOMAIN pins), pins)
      BY <2>1 DEF Ends, At
    <3> QED BY <2>1, <2>4, <3>1, <3>2 DEF Whole
  <2>5. LockTrail'
    BY <1>1, <2>1, <2>4 DEF TrailInv, LockTrail
  <2> HIDE DEF all
  <2> QED BY <1>1, <2>1, <2>3, <2>5 DEF TrailInv, LocksWhole, Stands, BuildTrail, WalksAgree
<1>4. CASE WriteLock /\ ~ (EndRun("idle") /\ UNCHANGED <<lock, calm>>)
  <2>1. /\ pc = "lock" /\ pc' = "done" /\ errors' = errors /\ pins' = NoPins
        /\ lock' = [pins |-> pins, complete |-> errors = {}]
        /\ calm' = Standing
    BY <1>4 DEF WriteLock, EndRun
  <2>2. lock'.pins = pins /\ (lock'.complete <=> errors = {})
    BY <2>1
  <2>3. errors = {} => Whole(files, pins) /\ \A u \in DOMAIN pins : copies[u] = pins[u].doc
    BY <2>1 DEF TrailInv, LockTrail
  <2>4. LockTrail'
    BY <2>1 DEF LockTrail
  <2>5. lock' # Torn /\ lock'.complete => Whole(files', lock'.pins)
    BY <1>1, <2>2, <2>3
  <2>6. calm' = "complete" =>
          /\ pc' \in {"idle", "done"} /\ lock'.complete
          /\ \A u \in DOMAIN lock'.pins : copies'[u] = lock'.pins[u].doc
    <3>1. calm' = "complete" => errors = {}
      BY <2>1 DEF Standing
    <3> QED BY <1>1, <2>1, <2>2, <2>3, <3>1
  <2> QED BY <1>1, <2>4, <2>5, <2>6 DEF TrailInv, LocksWhole, Stands, BuildTrail, WalksAgree
<1> QED BY <1>2, <1>3, <1>4 DEF EndWalk, Killed, EndRun

\* A build that reads a lock starts on its trail.
LEMMA StartBuildTrail == TypeOK /\ LoadedInv /\ TrailInv /\ StartBuild => TrailInv'
<1> SUFFICES ASSUME TypeOK, LoadedInv, TrailInv, StartBuild PROVE TrailInv'
  OBVIOUS
<1>1. /\ bpc = "idle" /\ bpc' = "walk" /\ bLock' = lock /\ bCalm' = calm
      /\ lock # Torn
      /\ UNCHANGED <<files, lock, copies, pc, todo, seen, pins, held, errors, calm>>
      /\ loaded' = NoPins /\ bErrors' = {} /\ DOMAIN loaded' = {}
      /\ At(bTodo', bSeen', {}) = Start(files)
  BY DEF StartBuild, TrailInv, BuildTrail, Start, At, RootDoc, NoPins
<1>2. lock.complete => Whole(files, lock.pins) /\ AlongWhole(files, lock.pins, Start(files))
  BY <1>1, WholeStarts DEF TrailInv, LocksWhole
<1>3. bLock'.complete => AlongWhole(files', bLock'.pins, At(bTodo', bSeen', DOMAIN loaded'))
  BY <1>1, <1>2
<1>4. Beside(At(bTodo, bSeen, {}))'
  BY <1>1 DEF Beside, At
<1>5. bCalm' = "complete" => \E t : AlongWhole(files', bLock'.pins, t) /\ Beside(t)'
  BY <1>1, <1>3, <1>4 DEF TrailInv, Stands
<1> QED BY <1>1, <1>2, <1>3, <1>5, BuildFrame
    DEF TrailInv, LocksWhole, Stands, BuildTrail, WalksAgree

\* A step of its walk along the trail, or beside it.
LEMMA BuildGoesOn ==
  ASSUME TypeOK, TrailInv, bpc = "walk",
         UNCHANGED <<files, lock, copies, pc, todo, seen, pins, held, errors, calm, bCalm>>,
         UNCHANGED <<bpc, bLock>>,
         bErrors' = {} => /\ bErrors = {}
                          /\ Leads(files, bLock.pins, At(bTodo, bSeen, DOMAIN loaded),
                                   At(bTodo', bSeen', DOMAIN loaded')),
         \A t : bCalm = "complete" /\ AlongWhole(files, bLock.pins, t) /\ Beside(t) =>
                  \E u : Leads(files, bLock.pins, t, u) /\ Beside(u)'
  PROVE  TrailInv'
<1>1. bErrors' = {} /\ bLock.complete =>
        AlongWhole(files', bLock'.pins, At(bTodo', bSeen', DOMAIN loaded'))
  BY WholeGoesOn DEF TrailInv, BuildTrail
<1>2. ASSUME bCalm' = "complete"
      PROVE  \E t : AlongWhole(files', bLock'.pins, t) /\ Beside(t)'
  <2>1. PICK t : AlongWhole(files, bLock.pins, t) /\ Beside(t)
    BY <1>2 DEF TrailInv, BuildTrail
  <2>2. PICK u : Leads(files, bLock.pins, t, u) /\ Beside(u)'
    BY <1>2, <2>1
  <2>3. AlongWhole(files, bLock.pins, u)
    BY <2>1, <2>2, WholeGoesOn
  <2> QED BY <2>2, <2>3
<1>3. bCalm' = "complete" => /\ bErrors' \cap {"drift", "opaque"} = {}
                             /\ "unpinned" \in bErrors' => "bytes" \in bErrors'
  BY <1>2 DEF Beside
<1> QED BY <1>1, <1>2, <1>3, BuildFrame DEF TrailInv, LocksWhole, Stands, BuildTrail, WalksAgree

\* An input that is no document ends it.
LEMMA BuildInvalid ==
  ASSUME TypeOK, TrailInv, bpc = "walk",
         UNCHANGED <<files, lock, copies, pc, todo, seen, pins, held, errors, calm, bCalm>>,
         bpc' = "done", bErrors' = bErrors \cup {"invalid"}, bLock' = bLock
  PROVE  TrailInv'
BY BuildFrame DEF TrailInv, LocksWhole, Stands, BuildTrail, WalksAgree

\* What a build beside t knows of a name it has not seen and t has: t's run has
\* pinned it as bytes that are not UTF-8, or has not pinned it.
LEMMA BesidePinned ==
  ASSUME NEW t, AlongWhole(files, bLock.pins, t), Beside(t),
         NEW r \in t.seen \ bSeen
  PROVE  /\ r \in Remote /\ "bytes" \in bErrors
         /\ r \in DOMAIN bLock.pins => ~ bLock.pins[r].doc.utf8
<1>1. t.seen \cap DOMAIN bLock.pins \subseteq t.got
  BY WholeGoesOn
<1> QED BY <1>1 DEF Beside

LEMMA BSkipTrail == TypeOK /\ TrailInv /\ BSkipSeen => TrailInv'
<1> SUFFICES ASSUME TypeOK, TrailInv, BSkipSeen PROVE TrailInv'
  OBVIOUS
<1> DEFINE s == At(bTodo, bSeen, DOMAIN loaded)
<1>1. /\ bpc = "walk" /\ bTodo # <<>> /\ Head(bTodo) \in bSeen /\ bTodo' = Tail(bTodo)
      /\ UNCHANGED <<files, lock, copies, pc, todo, seen, pins, held, errors, calm, bCalm>>
      /\ UNCHANGED <<bpc, bLock, bSeen, loaded, bErrors>>
  BY DEF BSkipSeen, BTakes, BReached
<1>2. s.todo = bTodo /\ s.seen = bSeen /\ s.got = DOMAIN loaded
  BY DEF At
<1>3. Leads(files, bLock.pins, s, At(bTodo', bSeen', DOMAIN loaded'))
  BY <1>1, <1>2 DEF Leads
<1>4. ASSUME NEW t, Beside(t)
      PROVE  \E u : Leads(files, bLock.pins, t, u) /\ Beside(u)'
  <2>1. PICK u : u = At(Tail(t.todo), t.seen, t.got)
    OBVIOUS
  <2>2. u.todo = Tail(t.todo) /\ u.seen = t.seen /\ u.got = t.got
    BY <2>1 DEF At
  <2>3. Leads(files, bLock.pins, t, u)
    BY <1>1, <1>4, <2>1 DEF Leads, Beside
  <2> QED BY <1>1, <1>4, <2>2, <2>3 DEF Beside
<1> QED BY <1>1, <1>3, <1>4, BuildGoesOn

LEMMA BLoadLocalTrail == TypeOK /\ TrailInv /\ BLoadLocal => TrailInv'
<1> SUFFICES ASSUME TypeOK, TrailInv, BLoadLocal PROVE TrailInv'
  OBVIOUS
<1>1. PICK s : s = At(bTodo, bSeen, DOMAIN loaded)
  OBVIOUS
<1>2. PICK r : r = Head(bTodo)
  OBVIOUS
<1>3. /\ bpc = "walk" /\ bTodo # <<>> /\ r \notin bSeen /\ r.host = "local"
      /\ UNCHANGED <<files, lock, copies, pc, todo, seen, pins, held, errors, calm, bCalm>>
      /\ UNCHANGED <<bLock, loaded>>
      /\ BAdd(r, files[r.name], {r})
  BY <1>2 DEF BLoadLocal, BTakes, BReached
<1>4. s.todo = bTodo /\ s.seen = bSeen /\ s.got = DOMAIN loaded
  BY <1>1 DEF At
<1>5. CASE bpc' = "done" /\ bErrors' = bErrors \cup {"invalid"}
  BY <1>3, <1>5, BuildInvalid
<1>6. CASE /\ UNCHANGED <<bpc, bErrors>> /\ files[r.name] # NoDoc /\ files[r.name].parses
           /\ bTodo' = Tail(bTodo) \o Refs(r, files[r.name])
           /\ bSeen' = bSeen \cup {r} \cup SelfOf(r, files[r.name])
  <2>1. At(bTodo', bSeen', DOMAIN loaded) = Onward(s, r, files[r.name], {r}, DOMAIN loaded)
    BY <1>4, <1>6 DEF Onward
  <2>2. Leads(files, bLock.pins, s, At(bTodo', bSeen', DOMAIN loaded'))
    BY <1>2, <1>3, <1>4, <2>1 DEF Leads
  <2>3. ASSUME NEW t, AlongWhole(files, bLock.pins, t), Beside(t)
        PROVE  \E u : Leads(files, bLock.pins, t, u) /\ Beside(u)'
    <3>1. PICK u : u = Onward(t, r, files[r.name], {r}, t.got)
      OBVIOUS
    <3>2. /\ u.todo = bTodo' /\ u.got = t.got
          /\ u.seen = t.seen \cup {r} \cup SelfOf(r, files[r.name])
      BY <1>6, <2>3, <3>1 DEF Onward, At, Beside
    <3>3. r \notin t.seen
      BY <1>3, <2>3, BesidePinned, VendoringAssumption DEF Remote
    <3>4. Leads(files, bLock.pins, t, u)
      BY <1>2, <1>3, <2>3, <3>1, <3>3 DEF Leads, Beside
    <3>5. Beside(u)'
      BY <1>3, <1>6, <2>3, <3>2 DEF Beside
    <3> QED BY <3>4, <3>5
  <2> QED BY <1>1, <1>3, <1>6, <2>2, <2>3, BuildGoesOn
<1> QED BY <1>3, <1>5, <1>6 DEF BAdd

LEMMA BLoadRemoteTrail == TypeOK /\ TrailInv /\ BLoadRemote => TrailInv'
<1> SUFFICES ASSUME TypeOK, TrailInv, BLoadRemote PROVE TrailInv'
  OBVIOUS
<1>1. PICK s : s = At(bTodo, bSeen, DOMAIN loaded)
  OBVIOUS
<1>2. PICK r : r = Head(bTodo)
  OBVIOUS
<1>3. PICK pin : pin = bLock.pins[r]
  OBVIOUS
<1>4. /\ bpc = "walk" /\ bTodo # <<>> /\ r \notin bSeen /\ r.host \in Hosts
      /\ r \in DOMAIN bLock.pins /\ pin.doc.utf8
      /\ UNCHANGED <<files, lock, copies, pc, todo, seen, pins, held, errors, calm, bCalm>>
      /\ bLock' = bLock
      /\ DOMAIN loaded' = DOMAIN loaded \cup {r}
      /\ BAdd(pin.at, pin.doc, {r, pin.at})
  BY <1>2, <1>3 DEF BLoadRemote, BTakes, BReached, Pinned
<1>5. s.todo = bTodo /\ s.seen = bSeen /\ s.got = DOMAIN loaded
  BY <1>1 DEF At
<1>6. CASE bpc' = "done" /\ bErrors' = bErrors \cup {"invalid"}
  BY <1>4, <1>6, BuildInvalid
<1>7. CASE /\ UNCHANGED <<bpc, bErrors>> /\ pin.doc # NoDoc /\ pin.doc.parses
           /\ bTodo' = Tail(bTodo) \o Refs(pin.at, pin.doc)
           /\ bSeen' = bSeen \cup {r, pin.at} \cup SelfOf(pin.at, pin.doc)
  <2>1. r.host # "local"
    BY <1>4, VendoringAssumption
  <2>2. At(bTodo', bSeen', DOMAIN loaded') =
          Onward(s, pin.at, pin.doc, {r, pin.at}, DOMAIN loaded')
    BY <1>5, <1>7 DEF Onward
  <2>3. Leads(files, bLock.pins, s, At(bTodo', bSeen', DOMAIN loaded'))
    BY <1>2, <1>3, <1>4, <1>5, <2>1, <2>2 DEF Leads
  <2>4. ASSUME NEW t, AlongWhole(files, bLock.pins, t), Beside(t)
        PROVE  \E u : Leads(files, bLock.pins, t, u) /\ Beside(u)'
    <3>1. PICK u : u = Onward(t, pin.at, pin.doc, {r, pin.at}, t.got \cup {r})
      OBVIOUS
    <3>2. /\ u.todo = bTodo' /\ u.got = t.got \cup {r}
          /\ u.seen = t.seen \cup {r, pin.at} \cup SelfOf(pin.at, pin.doc)
      BY <1>7, <2>4, <3>1 DEF Onward, At, Beside
    <3>3. r \notin t.seen
      BY <1>3, <1>4, <2>4, BesidePinned
    <3>4. Leads(files, bLock.pins, t, u)
      BY <1>2, <1>3, <1>4, <2>1, <2>4, <3>1, <3>3 DEF Leads, Beside
    <3>5. Beside(u)'
      BY <1>4, <1>7, <2>4, <3>2 DEF Beside
    <3> QED BY <3>4, <3>5
  <2> QED BY <1>1, <1>4, <1>7, <2>3, <2>4, BuildGoesOn
<1> QED BY <1>4, <1>6, <1>7 DEF BAdd

\* A reference is rejected off the trail, over a copy that is not pinned, over
\* bytes that are not UTF-8, or under the name of such bytes.
LEMMA BRejectTrail == TypeOK /\ TrailInv /\ BReject => TrailInv'
<1> SUFFICES ASSUME TypeOK, TrailInv, BReject PROVE TrailInv'
  OBVIOUS
<1>1. PICK r : r = BReached
  OBVIOUS
<1>2. /\ bpc = "walk" /\ bTodo # <<>> /\ r = Head(bTodo) /\ r \notin bSeen
      /\ r.host \in Hosts \cup {"urn"} /\ r.host # "local"
      /\ bTodo' = Tail(bTodo)
      /\ UNCHANGED <<files, lock, copies, pc, todo, seen, pins, held, errors, calm, bCalm>>
      /\ UNCHANGED <<bpc, bLock, bSeen, loaded>>
      /\ bErrors' # {}
  BY <1>1, VendoringAssumption DEF BReject, BTakes, BReached
<1>3. ASSUME bCalm = "complete", NEW t, AlongWhole(files, bLock.pins, t), Beside(t)
      PROVE  \E u : Leads(files, bLock.pins, t, u) /\ Beside(u)'
  <2>1. \A u \in DOMAIN bLock.pins : copies[u] = bLock.pins[u].doc
    BY <1>3 DEF TrailInv, Stands
  <2>2. CASE r \in t.seen
    <3>1. PICK u : u = At(Tail(t.todo), t.seen, t.got)
      OBVIOUS
    <3>2. u.todo = Tail(t.todo) /\ u.seen = t.seen /\ u.got = t.got
      BY <3>1 DEF At
    <3>3. Leads(files, bLock.pins, t, u)
      BY <1>2, <1>3, <2>2, <3>1 DEF Leads, Beside
    <3>4. r \in Remote /\ "bytes" \in bErrors
      BY <1>2, <1>3, <2>2, BesidePinned
    <3>5. bErrors' \in {bErrors \cup {"unpinned"}, bErrors \cup {"bytes"}}
      BY <1>1, <2>1, <3>4, VendoringAssumption DEF BReject, Pinned, Remote
    <3> QED BY <1>2, <1>3, <3>2, <3>3, <3>4, <3>5 DEF Beside
  <2>3. CASE r \notin t.seen
    <3>1. PICK u : Leads(files, bLock.pins, t, u)
      BY <1>2, <1>3, WholeGoesOn DEF Beside
    <3>2. /\ r \in DOMAIN bLock.pins
          /\ u = Onward(t, bLock.pins[r].at, bLock.pins[r].doc, {r, bLock.pins[r].at}, t.got \cup {r})
      BY <1>2, <1>3, <2>3, <3>1 DEF Leads, Beside
    <3>3. bErrors' = bErrors \cup {"bytes"} /\ ~ bLock.pins[r].doc.utf8
      BY <1>1, <2>1, <3>2 DEF BReject, Pinned
    <3>4. /\ bLock.pins[r].doc \in Docs /\ bLock.pins[r].at \in Remote /\ r \in Remote
      BY <3>2 DEF TypeOK, IsPins
    <3>5. ~ bLock.pins[r].doc.parses
      BY <3>3, <3>4 DEF Docs
    <3>6. /\ u.todo = Tail(t.todo) /\ u.seen = t.seen \cup {r, bLock.pins[r].at}
          /\ u.got = t.got \cup {r}
      BY <3>2, <3>5 DEF Onward, At
    <3>7. Beside(u)'
      BY <1>2, <1>3, <3>3, <3>4, <3>6 DEF Beside
    <3> QED BY <3>1, <3>7
  <2> QED BY <2>2, <2>3
<1> QED BY <1>2, <1>3, BuildGoesOn

LEMMA BEndTrail == TypeOK /\ TrailInv /\ BEnd => TrailInv'
<1> SUFFICES ASSUME TypeOK, TrailInv, BEnd PROVE TrailInv'
  OBVIOUS
<1>1. /\ bpc = "walk" /\ bTodo = <<>> /\ bpc' = "done"
      /\ UNCHANGED <<files, lock, copies, pc, todo, seen, pins, held, errors, calm, bCalm>>
      /\ UNCHANGED <<bLock, loaded, bErrors>>
  BY DEF BEnd
<1>2. bErrors = {} /\ bLock.complete => DOMAIN loaded = DOMAIN bLock.pins
  <2>1. At(bTodo, bSeen, DOMAIN loaded).todo = bTodo
        /\ At(bTodo, bSeen, DOMAIN loaded).got = DOMAIN loaded
    BY DEF At
  <2> QED BY <1>1, <2>1, WholeGoesOn DEF TrailInv, BuildTrail
<1> QED BY <1>1, <1>2, BuildFrame DEF TrailInv, LocksWhole, Stands, BuildTrail, WalksAgree

LEMMA RefuseTrail == TrailInv /\ (RefuseBuild \/ BDrop) => TrailInv'
<1> SUFFICES ASSUME TrailInv, RefuseBuild \/ BDrop PROVE TrailInv'
  OBVIOUS
<1>1. UNCHANGED <<files, lock, copies, pc, todo, seen, pins, held, errors, calm>>
  BY DEF RefuseBuild, BDrop
<1>2. (LocksWhole /\ Stands /\ BuildTrail /\ WalksAgree)'
  BY DEF RefuseBuild, BDrop, NoLock, TrailInv, LocksWhole, Stands, BuildTrail, WalksAgree
<1> QED BY <1>1, <1>2, BuildFrame

LEMMA TrailStep == TypeOK /\ LoadedInv /\ UsableInv /\ TrailInv /\ [Next]_vars => TrailInv'
<1> SUFFICES ASSUME TypeOK, LoadedInv, UsableInv, TrailInv, [Next]_vars PROVE TrailInv'
  OBVIOUS
<1>1. CASE UNCHANGED vars
  <2>1. UNCHANGED <<files, lock, copies, build, calm, bCalm>> /\ LockTrail'
    BY <1>1 DEF vars, TrailInv, LockTrail, Reached
  <2>2. \A t : Beside(t)' <=> Beside(t)
    BY <2>1 DEF Beside
  <2>3. pc' = pc /\ PinsOf(lock') = PinsOf(lock)
    BY <1>1 DEF vars
  <2> QED BY <2>1, <2>2, <2>3 DEF TrailInv, LocksWhole, Stands, BuildTrail, WalksAgree
<1>2. CASE StartLock \/ LockStep \/ Killed
  BY <1>2, StartLockTrail, WalkTrail, CopyTrail, EndTrail DEF LockStep
<1>3. CASE RefuseBuild \/ StartBuild \/ BuildStep \/ BDrop
  BY <1>3, RefuseTrail, StartBuildTrail, BSkipTrail, BLoadLocalTrail, BRejectTrail,
     BLoadRemoteTrail, BEndTrail DEF BuildStep
<1> QED BY <1>1, <1>2, <1>3 DEF Next

\* After a run of spargen lock without errors, as long as no other begins, a
\* build misses no copy, and no pin before it has reported a copy that is not
\* UTF-8; and a build that succeeds on a lock such a run wrote has loaded every
\* document it pins.  For any documents and servers.
THEOREM LockAndBuildAgree == Spec => []WalksAgree
<1> DEFINE Inv == TypeOK /\ LoadedInv /\ UsableInv /\ TrailInv
<1>1. Init => Inv
  BY TypeInit, TrailInit DEF Init, LoadedInv, BuildIsPinned, NoPins, UsableInv
<1>2. Inv /\ [Next]_vars => Inv'
  BY TypeStep, LoadedStep, UsableStep, TrailStep
<1>3. Inv => WalksAgree
  BY DEF TrailInv
<1> QED BY <1>1, <1>2, <1>3, PTL DEF Spec
=============================================================================
