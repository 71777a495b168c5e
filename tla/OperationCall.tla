---------------------------- MODULE OperationCall ----------------------------
(***************************************************************************)
(* A call of a generated operation (codegen/operation.rs): the request is  *)
(* put together from the arguments (Requests), credentials are attached    *)
(* (support-runtime/auth.rs), the request goes through the stack of        *)
(* backends (RetryStack), and the response is read as its documentation    *)
(* has it (Responses, dispatch.rs).                                        *)
(***************************************************************************)
EXTENDS RetryStack, Responses

CONSTANTS
  Calls,         \* the calls, in families: [stack, request, security, credentials,
                 \*             table, statuses, lengths]
  MaxErrorBody,  \* ClientConfig::max_error_body
  MaxChunk       \* the longest chunk of a body

AuthKinds == {"Bearer", "Basic", "ApiKey", "MutualTls"}
Credentials == {"none", "Bearer", "Basic", "ApiKey", "Provider"}

\* A security requirement is a sequence of alternatives, an alternative one of
\* schemes [name, kind]; `credentials` gives what is registered under a name.
ASSUME CallAssumption ==
  /\ \A family \in Calls : \A c \in family :
       /\ c.security \in Seq(Seq([name : DOMAIN c.credentials, kind : AuthKinds]))
       /\ \A i \in DOMAIN c.security : \A j, k \in DOMAIN c.security[i] :
            c.security[i][j].name = c.security[i][k].name => j = k
       /\ \A n \in DOMAIN c.credentials : c.credentials[n] \in Credentials
       /\ \A n \in c.lengths : n \in Nat
       /\ IsFiniteSet(DOMAIN c.table)
  /\ MaxErrorBody \in Nat /\ MaxChunk \in Nat \ {0}

VARIABLES
  call,
  stage,         \* "url", "auth", "ask", "build", "send", "read", "done"
  chosen,        \* the alternative, <<>> before it is chosen
  attached,      \* the schemes passed, of that alternative
  asked,         \* history: the names whose token providers were called
  reply,         \* [status, length]
  got,           \* bytes of its body read
  outcome        \* [kind, ...]

auth == <<chosen, attached, asked>>
answer == <<reply, got>>
allVars == <<vars, call, stage, chosen, attached, asked, reply, got, outcome>>

NoReply == [status |-> 0, length |-> 0]
Outcome(kind) == [kind |-> kind, of |-> {}, retained |-> 0, truncated |-> FALSE]

CallInit ==
  /\ \E family \in Calls : call \in family
  /\ layers = call.stack /\ request = call.request
  /\ Init
  /\ stage = "url"
  /\ chosen = <<>> /\ attached = 0 /\ asked = <<>>
  /\ reply = NoReply /\ got = 0
  /\ outcome = Outcome("none")

End(how) == stage' = "done" /\ outcome' = how

-----------------------------------------------------------------------------
(* attach_auth *)

\* resolve: the client certificate of the transport needs no credential.
Missing(scheme) ==
  scheme.kind # "MutualTls" /\ call.credentials[scheme.name] = "none"

Satisfied(i) ==
  \A j \in DOMAIN call.security[i] : ~ Missing(call.security[i][j])

\* The arguments do not serialize, or build_url_on refuses a path that would not
\* survive.
UrlRefused ==
  /\ stage = "url" /\ ~ call.built
  /\ End(Outcome("RequestConstruction"))
  /\ UNCHANGED <<vars, call, auth, answer>>

\* The first alternative of which nothing is missing is chosen.
SelectAlternative ==
  /\ stage = "url" /\ call.built
  /\ \/ /\ call.security = <<>>
        /\ stage' = "build"
        /\ UNCHANGED chosen
     \/ \E i \in DOMAIN call.security :
          /\ Satisfied(i)
          /\ \A k \in 1..i-1 : ~ Satisfied(k)
          /\ chosen' = call.security[i]
          /\ stage' = "auth"
  /\ UNCHANGED <<vars, call, attached, asked, answer, outcome>>

MissingCredential ==
  /\ stage = "url" /\ call.built
  /\ call.security # <<>>
  /\ \A i \in DOMAIN call.security : ~ Satisfied(i)
  /\ End(Outcome("RequestConstruction"))
  /\ UNCHANGED <<vars, call, auth, answer>>

Scheme == chosen[attached + 1]
AttachNext == stage = "auth" /\ attached < Len(chosen)

\* What can be attached at once: a client certificate, a secret of the kind the
\* scheme takes.
Suits(kind, credential) ==
  \/ kind = "MutualTls"
  \/ kind = "Basic" /\ credential = "Basic"
  \/ kind \in {"Bearer", "ApiKey"} /\ credential \in {"Bearer", "ApiKey"}
Asks(kind, credential) == kind \in {"Bearer", "ApiKey"} /\ credential = "Provider"

Fits(scheme) == Suits(scheme.kind, call.credentials[scheme.name])
Provided(scheme) == Asks(scheme.kind, call.credentials[scheme.name])

AttachSecret ==
  /\ AttachNext
  /\ Fits(Scheme)
  /\ attached' = attached + 1
  /\ UNCHANGED <<vars, call, stage, chosen, asked, answer, outcome>>

\* A credential of another kind, or a key no header can carry.
CredentialMismatch ==
  /\ AttachNext
  /\ ~ Provided(Scheme)
  /\ Fits(Scheme) => Scheme.kind = "ApiKey"
  /\ End(Outcome("RequestConstruction"))
  /\ UNCHANGED <<vars, call, auth, answer>>

\* The token provider is called, and awaited.
AskProvider ==
  /\ AttachNext
  /\ Provided(Scheme)
  /\ stage' = "ask"
  /\ asked' = Append(asked, Scheme.name)
  /\ UNCHANGED <<vars, call, chosen, attached, answer, outcome>>

ProviderAnswers ==
  /\ stage = "ask"
  /\ stage' = "auth"
  /\ attached' = attached + 1
  /\ UNCHANGED <<vars, call, chosen, asked, answer, outcome>>

\* Mistake: the next alternative that is satisfied is tried.
ProviderFailsOver ==
  /\ stage = "ask"
  /\ \/ \E i \in DOMAIN call.security :
          /\ Satisfied(i)
          /\ \E k \in 1..i-1 : call.security[k] = chosen
          /\ chosen' = call.security[i]
          /\ attached' = 0
          /\ stage' = "auth"
          /\ UNCHANGED outcome
     \/ End(Outcome("RequestConstruction")) /\ UNCHANGED <<chosen, attached>>
  /\ UNCHANGED <<vars, call, asked, answer>>

\* CredentialProvider; nor may its token be one a header can carry.
ProviderFails ==
  /\ stage = "ask"
  /\ End(Outcome("RequestConstruction"))
  /\ UNCHANGED <<vars, call, auth, answer>>

AllAttached ==
  /\ stage = "auth" /\ attached = Len(chosen)
  /\ stage' = "build"
  /\ UNCHANGED <<vars, call, auth, answer, outcome>>

\* RequestBuilder::build, which reports what failed before; or the request is
\* handed to the backends.
Build ==
  /\ stage = "build"
  /\ \/ stage' = "send" /\ UNCHANGED outcome
     \/ End(Outcome("RequestConstruction"))
  /\ UNCHANGED <<vars, call, auth, answer>>

-----------------------------------------------------------------------------
\* The request goes through the stack.
InStack ==
  /\ stage = "send"
  /\ Next
  /\ UNCHANGED <<call, stage, auth, answer, outcome>>

\* The stack returns an error of the transport.
SendFails ==
  /\ stage = "send" /\ Returned
  /\ result # "ok"
  /\ End(Outcome("Transport"))
  /\ UNCHANGED <<vars, call, auth, answer>>

\* is_transient_status
TransientStatus(status) == status = 429 \/ status \div 100 = 5

ReadReply == ReadAs(call.table, reply.status)

\* The stack returns a response.  A stream, a unit and a variant without a body
\* on the success side leave the body unread.
Respond ==
  /\ stage = "send" /\ Returned
  /\ \E status \in call.statuses, length \in call.lengths :
       /\ result = IF TransientStatus(status) THEN "transient" ELSE "ok"
       /\ reply' = [status |-> status, length |-> length]
       /\ LET read == ReadAs(call.table, status) IN
          IF \/ read.as \in {"stream", "unit"}
             \/ read.as = "variant" /\ IsSuccess(status)
          THEN End([Outcome("Ok") EXCEPT !.of = read.of])
          ELSE stage' = "read" /\ UNCHANGED outcome
  /\ UNCHANGED <<vars, call, auth, got>>

\* decode_success_with reads a body whole, read_capped up to the first chunk
\* past the cap.
WholeBody == ReadReply.as = "decode" /\ IsSuccess(reply.status)

ReadsOn == got < reply.length /\ (WholeBody \/ got <= MaxErrorBody)

Chunk ==
  /\ stage = "read" /\ ReadsOn
  /\ \E n \in 1..MaxChunk :
       /\ got + n <= reply.length
       /\ got' = got + n
  /\ UNCHANGED <<vars, call, stage, auth, reply, outcome>>

\* The body breaks off; the end of it may be what is awaited.
ChunkFails ==
  /\ stage = "read"
  /\ WholeBody \/ got <= MaxErrorBody
  /\ End(Outcome("Transport"))
  /\ UNCHANGED <<vars, call, auth, answer>>

\* cap_body
Capped(kind, of) ==
  [kind |-> kind, of |-> of,
   retained |-> IF got < MaxErrorBody THEN got ELSE MaxErrorBody,
   truncated |-> got > MaxErrorBody]

\* The body is read, and decoded or kept.
Classify ==
  /\ stage = "read" /\ ~ ReadsOn
  /\ LET read == ReadReply IN
     \/ read.as = "unexpected" /\ End(Capped("UnexpectedStatus", {}))
     \/ read.as = "variant" /\ End(Capped("Api", read.of))
     \/ /\ read.as = "decode"
        /\ \/ End(Capped("Decode", read.of))
           \/ IsSuccess(reply.status) /\ End([Outcome("Ok") EXCEPT !.of = read.of])
           \/ ~ IsSuccess(reply.status) /\ End(Capped("Api", read.of))
  /\ UNCHANGED <<vars, call, auth, answer>>

Finished == stage = "done" /\ UNCHANGED allVars

CallNext ==
  \/ UrlRefused \/ SelectAlternative \/ MissingCredential
  \/ AttachSecret \/ CredentialMismatch \/ AskProvider \/ ProviderAnswers
  \/ ProviderFails \/ AllAttached \/ Build
  \/ InStack \/ SendFails \/ Respond
  \/ Chunk \/ ChunkFails \/ Classify \/ Finished

CallSpec == CallInit /\ [][CallNext]_allVars
\* Providers, waits, transports and middlewares answer, bodies end.
FairCallSpec == CallSpec /\ WF_allVars(CallNext)

-----------------------------------------------------------------------------
(* Properties. *)

CallTypeOK ==
  /\ TypeOK
  /\ stage \in {"url", "auth", "ask", "build", "send", "read", "done"}
  /\ attached \in 0..Len(chosen)
  /\ got \in 0..reply.length

\* What is sent carries the credentials of the first alternative the caller has
\* registered in full, every one of a kind its scheme takes: never a part of
\* them, nor those of a later alternative (auth.rs: "there is no fall-through").
\* The token provider of each of its schemes was called once, however often the
\* request is sent, and no other was.  Without, nothing is sent.
SentAsRegistered ==
  sends > 0 /\ call.security # <<>> =>
    \E i \in DOMAIN call.security :
      /\ Satisfied(i) /\ \A k \in 1..i-1 : ~ Satisfied(k)
      /\ chosen = call.security[i] /\ attached = Len(chosen)
      /\ \A j \in DOMAIN chosen : Fits(chosen[j]) \/ Provided(chosen[j])
      /\ \A k, l \in DOMAIN asked : asked[k] = asked[l] => k = l
      /\ {asked[k] : k \in DOMAIN asked}
           = {chosen[j].name : j \in {k \in DOMAIN chosen : Provided(chosen[k])}}

\* The selector that documents a status: the most specific that covers it;
\* `default` documents a success only where no selector of one is declared.
Documenting(table, status) ==
  {s \in Declared(table) :
     /\ Matches(s, status)
     /\ IsSuccess(status) /\ s = Default => Successes(table) = {}
     /\ \A other \in Declared(table) : Matches(other, status) => s.rank <= other.rank}

\* A response is read as what documents its status, never as another response
\* of the operation, and an error that is documented with its siblings is never
\* unexpected.  Only where the operation has one type for its successes a
\* success that is not documented, or has no body, is read as that one.
ReadAsDocumented ==
  stage = "done" /\ outcome.kind \in {"Ok", "Api", "Decode", "UnexpectedStatus"} =>
    LET s == Documenting(call.table, reply.status)
        bodied == WithBody(call.table, SuccessSource(call.table))
    IN \/ outcome.of = s
       \/ /\ outcome.kind = "UnexpectedStatus"
          /\ ~ IsSuccess(reply.status) /\ WithBody(call.table, Errors(call.table)) = {}
       \/ /\ outcome.kind \in {"Ok", "Decode"} /\ IsSuccess(reply.status)
          /\ outcome.of = bodied
          /\ Cardinality(bodied) <= 1
          /\ \/ s = {} \/ bodied = {}
             \/ StreamSuccess(call.table) /\ WithBody(call.table, s) = {}

\* However a body is cut into chunks, an error keeps of it as much as the cap
\* allows, and says it was truncated exactly when some is missing; of an error
\* response no more is read than the cap and one chunk.
KeptUpToTheCap ==
  /\ outcome.kind \in {"Decode", "UnexpectedStatus", "Api"} =>
       /\ outcome.retained =
            (IF reply.length < MaxErrorBody THEN reply.length ELSE MaxErrorBody)
       /\ outcome.kind = "Decode" => outcome.truncated = (reply.length > MaxErrorBody)
  /\ ~ IsSuccess(reply.status) => got <= MaxErrorBody + MaxChunk

\* The call ends: also when providers, transports and bodies fail at any point.
CallEnds == <>(stage = "done")

=============================================================================
