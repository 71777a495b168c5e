---------------------------- MODULE LinkPaginator ----------------------------
(***************************************************************************)
(* LinkPaginator: the pages of a collection, fetched one by one along the  *)
(* Link headers of their responses (support-runtime/src/paginate.rs).  The *)
(* server may answer anything at any time, the same page differently twice *)
(* over.  A URL is a page and a fragment; what a Link header says is       *)
(* abstracted to the URL it resolves to against the page that sent it.     *)
(***************************************************************************)
EXTENDS Integers, FiniteSets

CONSTANTS
  Pages,         \* URLs without fragments
  Fragments

ASSUME PagesAssumption == IsFiniteSet(Pages) /\ Fragments # {}

Url == [page : Pages, fragment : Fragments]
NoUrl == [page |-> "none"]
Answers == {"page", "cycle", "error", "none"}

VARIABLES
  next,          \* Option<Url>
  fetched,       \* HashSet<Url>, fragments removed
  url,           \* the URL a call that awaits its response has sent
  pc,            \* "idle": between calls; "sent": send is awaited
  \* history
  answered,      \* what the latest call answered, "new" before
  failed,        \* a call has answered an error
  cancelled,     \* the caller has dropped a call that awaited its response
  linked,        \* the latest page yielded has a rel="next" link, or the seed is one
  requests       \* requests[p]: how often p was requested, counted to two

paginator == <<next, fetched, url, pc, answered, failed, cancelled, linked, requests>>

\* new, from the URL of the first page, and from_headers, whose link may be absent.
PaginatorInit ==
  /\ next \in Url \cup {NoUrl}
  /\ fetched = {}
  /\ url = NoUrl
  /\ pc = "idle"
  /\ answered = "new"
  /\ failed = FALSE
  /\ cancelled = FALSE
  /\ linked = (next # NoUrl)
  /\ requests = [p \in Pages |-> 0]

Answer(a) == /\ answered' = a
             /\ failed' = (failed \/ a \in {"cycle", "error"})

\* next_page with nothing armed.
NextPageNone ==
  /\ pc = "idle" /\ next = NoUrl
  /\ Answer("none")
  /\ UNCHANGED <<next, fetched, url, pc, cancelled, linked, requests>>

Cycle == next.page \in fetched

\* Mistake: the end of a cycle looks like the end of the chain.
NextPageCycleSilently ==
  /\ pc = "idle" /\ next # NoUrl /\ Cycle
  /\ next' = NoUrl
  /\ Answer("none")
  /\ UNCHANGED <<fetched, url, pc, cancelled, linked, requests>>

\* The pending URL is taken first; one fetched before is a cycle, and not sent.
NextPageCycle ==
  /\ pc = "idle" /\ next # NoUrl /\ Cycle
  /\ next' = NoUrl
  /\ Answer("cycle")
  /\ UNCHANGED <<fetched, url, pc, cancelled, linked, requests>>

\* The request cannot be built.
NextPageUnbuilt ==
  /\ pc = "idle" /\ next # NoUrl /\ ~ Cycle
  /\ next' = NoUrl
  /\ fetched' = fetched \cup {next.page}
  /\ Answer("error")
  /\ UNCHANGED <<url, pc, cancelled, linked, requests>>

Count(p) == requests' = [requests EXCEPT ![p] = IF @ < 2 THEN @ + 1 ELSE @]

\* Mistake: the page is remembered with its fragment.
NextPageSendKeepingFragment ==
  /\ pc = "idle" /\ next # NoUrl
  /\ next.page \notin fetched \/ next.fragment # CHOOSE f \in Fragments : TRUE
  /\ next' = NoUrl
  /\ fetched' = fetched \cup {next.page}
  /\ url' = next
  /\ pc' = "sent"
  /\ Count(next.page)
  /\ UNCHANGED <<answered, failed, cancelled, linked>>

\* Mistake: the page is not remembered.
NextPageSendForgetting ==
  /\ pc = "idle" /\ next # NoUrl /\ ~ Cycle
  /\ next' = NoUrl
  /\ url' = next
  /\ pc' = "sent"
  /\ Count(next.page)
  /\ UNCHANGED <<fetched, answered, failed, cancelled, linked>>

NextPageSend ==
  /\ pc = "idle" /\ next # NoUrl /\ ~ Cycle
  /\ next' = NoUrl
  /\ fetched' = fetched \cup {next.page}
  /\ url' = next
  /\ pc' = "sent"
  /\ Count(next.page)
  /\ UNCHANGED <<answered, failed, cancelled, linked>>

\* The transport fails, the status is no 2xx, or the body does not decode.
ResponseFails ==
  /\ pc = "sent"
  /\ pc' = "idle"
  /\ url' = NoUrl
  /\ Answer("error")
  /\ UNCHANGED <<next, fetched, cancelled, linked, requests>>

\* A page: the next one is its link, if it has one that resolves.
ResponsePage ==
  /\ pc = "sent"
  /\ next' \in Url \cup {NoUrl}
  /\ linked' = (next' # NoUrl)
  /\ pc' = "idle"
  /\ url' = NoUrl
  /\ Answer("page")
  /\ UNCHANGED <<fetched, cancelled, requests>>

\* The caller drops the future next_page returned while it awaits the response,
\* at a timeout, say.
Cancel ==
  /\ pc = "sent"
  /\ pc' = "idle"
  /\ url' = NoUrl
  /\ cancelled' = TRUE
  /\ UNCHANGED <<next, fetched, answered, failed, linked, requests>>

PaginatorNext == \/ NextPageNone \/ NextPageCycle \/ NextPageUnbuilt \/ NextPageSend
        \/ ResponseFails \/ ResponsePage \/ Cancel
PaginatorSpec == PaginatorInit /\ [][PaginatorNext]_paginator
\* The caller's loop calls again, and a request ends.
FairPaginatorSpec == PaginatorSpec /\ WF_paginator(PaginatorNext)

-----------------------------------------------------------------------------
(* Properties. *)

PaginatorTypeOK ==
  /\ next \in Url \cup {NoUrl}
  /\ fetched \subseteq Pages
  /\ url \in Url \cup {NoUrl}
  /\ pc \in {"idle", "sent"}
  /\ (pc = "sent") = (url # NoUrl)
  /\ answered \in Answers \cup {"new"}
  /\ failed \in BOOLEAN /\ cancelled \in BOOLEAN
  /\ linked \in BOOLEAN
  /\ requests \in [Pages -> 0..2]

\* Whatever links the server sends, now and later, no page is requested twice.
NoPageTwice == \A p \in Pages : requests[p] <= 1

\* An error ends the chain: no page is requested or yielded after one.
ErrorsAreFinal ==
  [][failed => answered' = "none" /\ requests' = requests]_paginator

\* As long as every call is awaited to its end, None means that the latest page
\* has no link or that an error was reported: no rest is dropped silently.
NoneMeansTheEnd == answered = "none" /\ ~ cancelled => failed \/ ~ linked

\* A loop over the pages ends, also when the server's links never do.
LoopEnds == <>[](answered = "none")
=============================================================================
