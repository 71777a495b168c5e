------------------------------ MODULE RetryStack ------------------------------
(***************************************************************************)
(* One request through a client's stack of backends: RetryBackend and      *)
(* MiddlewareBackend around a transport, nested in any order               *)
(* (support-runtime/src/retry.rs, middleware.rs, transport.rs).  A layer   *)
(* hands the request to the one inside it and gets the result back.  The   *)
(* policy retries what RetryOutcome::is_transient calls transient, within  *)
(* a budget; a middleware is the caller's and may change the request, the  *)
(* result, or answer by itself.                                            *)
(***************************************************************************)
EXTENDS Integers, Sequences, FiniteSets

CONSTANTS
  Stacks,        \* the stacks of layers, outermost first
  Budget         \* retries the policy grants one call of its layer

Kinds == {"retry", "middleware"}
ASSUME StackAssumption == Stacks \subseteq Seq(Kinds) /\ Budget \in Nat

\* http::Request: whether its method is idempotent, its Idempotency-Key and the
\* body it streams, each with an identity of its own, 0 for none.
Request == [idempotent : BOOLEAN, key : Nat, stream : Nat]
Results == {"ok", "transient", "permanent"}

VARIABLES
  layers,        \* the stack
  at,            \* the layer that has the request or the result, 0 the caller
  dir,           \* "call", "return"
  request,       \* the request on its way in
  result,        \* the result on its way out
  held,          \* held[i]: the request retry layer i keeps
  attempt,       \* attempt[i]: how often it has retried it
  once,          \* once[i]: the layer sent the request itself, which it cannot clone
  fresh,         \* the next identity of a key or a streaming body
  \* history
  idempotent,    \* whether the caller's method is idempotent
  keys,          \* the keys of the requests that reached the transport
  unkeyed,       \* how many reached it without, counted to two
  streams,       \* the streaming bodies that reached it
  torn,          \* one of them reached it twice
  sends          \* requests that reached it, counted to one past the bound

control == <<layers, at, dir>>
retries == <<held, attempt, once>>
history == <<idempotent, keys, unkeyed, streams, torn, sends>>
vars == <<layers, at, dir, request, result, held, attempt, once, fresh, idempotent,
          keys, unkeyed, streams, torn, sends>>

Depth == Len(layers)
Inner == Depth + 1
\* What a call of the n innermost layers may send: the attempts of nested retry
\* layers multiply.
Most == LET most[n \in 0..Depth] ==
              IF n = 0 THEN 1
              ELSE IF layers[Inner - n] = "retry" THEN (Budget + 1) * most[n - 1]
              ELSE most[n - 1]
        IN  most
MostSends == Most[Depth]
Plain(r) == [r EXCEPT !.key = 0, !.stream = 0]

Init ==
  /\ layers \in Stacks
  /\ at = 1
  /\ dir = "call"
  /\ request \in [idempotent : BOOLEAN, key : {0, 1}, stream : {0, 2}]
  /\ result = "ok"
  /\ held = [i \in 1..Depth |-> Plain(request)]
  /\ attempt = [i \in 1..Depth |-> 0]
  /\ once = [i \in 1..Depth |-> FALSE]
  /\ fresh = 3
  /\ idempotent = request.idempotent
  /\ keys = {}
  /\ unkeyed = 0
  /\ streams = {}
  /\ torn = FALSE
  /\ sends = 0

Calling(kind) == dir = "call" /\ at \in 1..Depth /\ layers[at] = kind
Returning(kind) == dir = "return" /\ at \in 1..Depth /\ layers[at] = kind
Inward == at' = at + 1 /\ dir' = "call" /\ UNCHANGED layers
Outward == at' = at - 1 /\ dir' = "return" /\ UNCHANGED layers

-----------------------------------------------------------------------------
(* Middleware::handle, with one Next: it runs the rest of the chain at most  *)
(* once.                                                                     *)

\* The request as it is, with an Idempotency-Key, with a streaming body, or
\* with its body read into memory.
Edits(r) == {r, [r EXCEPT !.stream = fresh], [r EXCEPT !.stream = 0]}
              \cup (IF r.key = 0 THEN {[r EXCEPT !.key = fresh]} ELSE {})

MiddlewareForward ==
  /\ Calling("middleware")
  /\ request' \in Edits(request)
  /\ fresh' = fresh + 1
  /\ Inward
  /\ UNCHANGED <<result, retries, history>>

MiddlewareAnswer ==
  /\ Calling("middleware")
  /\ result' \in Results
  /\ Outward
  /\ UNCHANGED <<request, retries, fresh, history>>

MiddlewareReturn ==
  /\ Returning("middleware")
  /\ result' \in Results
  /\ Outward
  /\ UNCHANGED <<request, retries, fresh, history>>

-----------------------------------------------------------------------------
(* RetryBackend::execute. *)

\* Mistake: a body that cannot be cloned is sent as the clone of another.
RetryCallCloningStreams ==
  /\ Calling("retry")
  /\ once' = [once EXCEPT ![at] = FALSE]
  /\ held' = [held EXCEPT ![at] = request]
  /\ attempt' = [attempt EXCEPT ![at] = 0]
  /\ Inward
  /\ UNCHANGED <<request, result, fresh, history>>

\* try_clone_request: a request that streams its body is handed on itself.
RetryCall ==
  /\ Calling("retry")
  /\ once' = [once EXCEPT ![at] = request.stream # 0]
  /\ held' = IF request.stream # 0 THEN held ELSE [held EXCEPT ![at] = request]
  /\ attempt' = [attempt EXCEPT ![at] = 0]
  /\ Inward
  /\ UNCHANGED <<request, result, fresh, history>>

\* Mistake: a transient failure is enough.
IsTransientAlone(r, res) == res = "transient"

\* RetryOutcome::is_transient.
IsTransient(r, res) == (r.idempotent \/ r.key # 0) /\ res = "transient"

\* The policy grants a retry: after its wait a clone is sent.
RetryAgain ==
  /\ Returning("retry")
  /\ ~ once[at]
  /\ IsTransient(held[at], result)
  /\ attempt[at] < Budget
  /\ attempt' = [attempt EXCEPT ![at] = @ + 1]
  /\ request' = held[at]
  /\ Inward
  /\ UNCHANGED <<result, held, once, fresh, history>>

\* Mistake: a request handed on itself waits for the policy too.
RetryReturnAfterPolicy ==
  /\ Returning("retry")
  /\ ~ once[at]
  /\ Outward
  /\ UNCHANGED <<request, result, retries, fresh, history>>

\* The policy grants none, or the request was handed on itself.
RetryReturn ==
  /\ Returning("retry")
  /\ Outward
  /\ UNCHANGED <<request, result, retries, fresh, history>>

-----------------------------------------------------------------------------
\* The transport sends the request.  It may reach the server whatever comes back.
Send ==
  /\ dir = "call" /\ at = Inner
  /\ result' \in Results
  /\ keys' = IF request.key = 0 THEN keys ELSE keys \cup {request.key}
  /\ unkeyed' = IF request.key = 0 /\ unkeyed < 2 THEN unkeyed + 1 ELSE unkeyed
  /\ sends' = IF sends <= MostSends THEN sends + 1 ELSE sends
  /\ streams' = IF request.stream = 0 THEN streams ELSE streams \cup {request.stream}
  /\ torn' = (torn \/ request.stream \in streams)
  /\ Outward
  /\ UNCHANGED <<request, retries, fresh, idempotent>>

Returned == dir = "return" /\ at = 0
Rest == Returned /\ UNCHANGED vars

Next == \/ MiddlewareForward \/ MiddlewareAnswer \/ MiddlewareReturn
        \/ RetryCall \/ RetryAgain \/ RetryReturn \/ Send \/ Rest
Spec == Init /\ [][Next]_vars

-----------------------------------------------------------------------------
(* Properties. *)

TypeOK ==
  /\ layers \in Stacks
  /\ at \in 0..Inner
  /\ dir \in {"call", "return"}
  /\ request \in Request
  /\ result \in Results
  /\ held \in [1..Depth -> Request]
  /\ attempt \in [1..Depth -> 0..Budget]
  /\ once \in [1..Depth -> BOOLEAN]
  /\ fresh \in Nat
  /\ idempotent \in BOOLEAN
  /\ keys \subseteq Nat /\ streams \subseteq Nat
  /\ unkeyed \in 0..2
  /\ torn \in BOOLEAN
  /\ sends \in Nat

\* A request the server may not apply twice is sent once, or every time under
\* the same key: a POST has one effect at most, however the layers are nested
\* and whatever keys the middlewares between them add.
OneEffect == ~ idempotent => unkeyed + Cardinality(keys) <= 1

\* A body that can be read once is sent once.
StreamsSentOnce == ~ torn

\* A call sends at most as many requests as the budgets of its layers allow.
SendsBounded == sends <= MostSends
=============================================================================
