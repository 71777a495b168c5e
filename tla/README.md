# A TLA+ verification project for spargen

spargen generates a typed Rust client from an OpenAPI document. It runs from a
build script (or a command line, or a macro), and the client it writes links a
small runtime. This directory holds TLA+ modules of the parts of both that have
*behaviour*: state that outlives a call, steps of several actors, failures,
retries and limits. TLC checks them on small instances. TLAPS proves the
theorems about them for every value of the constants.

Paths below are relative to the repository; `pipeline.rs` and the like are in
`spargen/src/`, `stream.rs` and the like in `support-runtime/src/`.

## 1. The system

### Parts, their state, and how they interact

| Part | State it keeps | Operations | Hard because |
|---|---|---|---|
| Build cache and output: `pipeline.rs`, `cache.rs`, `output.rs`, `report.rs` | the generated file with its two digest headers, a cache record per `OUT_DIR`, temporaries beside both | `generate_with_cache_dir`: snapshot, verify, look up, preview, second snapshot, write, record | inputs are several files edited while they are read; several builds share an output; builds are killed; writes fail half way |
| Input bundle and vendoring: `source/bundle.rs`, `vendor.rs`, `lock.rs`, `remote.rs` | the lock file, the vendored copies | `spargen lock` walks and fetches; a build walks and reads | two walks that must agree; redirects; failing fetches; two artifacts written one after the other |
| Compat and auto-carve: `compat/`, `carve_spec` in `pipeline.rs` | the growing set of omit rules of one call | rounds of lowering and carving | a fixpoint that must end and never hide an error it did not carve |
| Diagnostics: `diag/` | the collector of one call | `emit`, `finish` | a cap that must not lose an error |
| OpenAPI frontend: `oas31/` | of one lowering: the type graph with its reservations, what is finished and what is open, guesses, orders learned | parse, audit, resolve; passes of `lower` over the components | recursive schemas: types asked for while they are made; passes repeated until nothing is learned; results that must not depend on the order of declaration |
| IR: `ir/` | none beyond a call | graph analyses, invariants, the shapes of responses | overlapping status selectors |
| Types of schemas: `oas31/lower/{schema,object,union,refiner,meet,strategy,discriminator,nullability}.rs`, `codegen/union.rs`, `codegen/models.rs` | none beyond a call | `lower_schema`, `intersect_types`, `lower_union`; the decoders emitted for the result | a type must hold what the schema admits and no more, through unions met with what stands beside them, with null apart from the rest |
| Naming: `name/` | the scopes of one call | `alloc`, `alloc_ranked`, `reserve` | one spelling asked for by several items, in one family or two; results must not depend on order, nor what is listed on what is added |
| Code generation: `codegen/`, `emit/` | none | rendering; what the rendered code does belongs to the parts above | size |
| API surface: `surface/`, `diff_api.rs` | none; over the releases of an API, what consumers lean on | extract, compare, the bump | a surface that leaves out on purpose what another change must cover, over several releases |
| Runtime contract: `runtime_contract/` | none | audit of the consumer's manifest | data |
| Event stream: `stream.rs` | `EventStream` with its `StreamState`, `FrameBuffer`, last id, attempt | `poll_next`: frame, decode, read, reconnect | a state machine driven by polls; chunks cut anywhere; breaks anywhere |
| Retry and middleware: `retry.rs`, `middleware.rs`, `transport.rs` | a request under way in a stack of backends | `execute`, `handle`, `Next::run` | layers nest in any order; retries of what may have been done |
| Pagination: `paginate.rs` | the pending URL, the set of fetched ones | `next_page` | cycles; errors; calls dropped at an await |
| Requests: `oas31/lower/{parameter,body,encoding,operation}.rs`, `codegen/{params,body,operation}.rs`, `parameter.rs` | none beyond a call | `lower_parameter`, `lower_request_body`; the serializers, `build_url_on` | values, delimiters and names share one text; styles, locations, `explode`, `allowReserved` and codecs multiply |
| Credentials and dispatch: `auth.rs`, `dispatch.rs`, `client.rs` | none beyond a call | `attach_auth`, status dispatch | providers awaited between choices |
| Other codecs: `xml.rs`, `datetime.rs`, `header.rs`, ... | none | text conversions | characters |

A build script calls `generate`. It loads the *bundle* (documents, lock, config)
into a digest, asks the *cache* whether the file on disk is the one of that
digest, and otherwise runs the pipeline (frontend, carve, IR, naming, codegen),
loads the bundle again and writes file and record. The command `spargen lock`
writes the lock and the vendored copies that builds read. At run time a
generated operation builds a request, attaches credentials, hands it to a stack
of backends (retry layers and middlewares around a transport), and dispatches
the response: into a value, an `EventStream`, or a `LinkPaginator` which sends
its own further requests through the same stack. The stream's reconnects go
through the stack too.

The parts share state only through files (first half) and through the request
handed down a stack (second half). The component list in `PROJECT.json` says
for each part what is modelled; its hazard list says what can go wrong at which
line and which property would catch it.

### What makes each part correct

- *Build cache*: a call that succeeds answers for inputs that stood together at
  one instant of the call; the file and the record on disk are whole, and true
  whatever was killed; a build with nothing changed does not render; a call ends.
- *Event stream*: no event is lost, repeated or mixed with another across
  reconnects; chunks are invisible; attempts are counted as the policy is told;
  the stream ends.
- *Retry stack*: a request that may not be applied twice is not; a streaming
  body is sent once; attempts are bounded.
- *Pagination*: a page is requested once; an error ends the chain; nothing is
  dropped silently; the loop ends.
- *Vendoring*: what a lock run pins is what a build reads, nothing less and
  nothing more; bytes that are not pinned are never used.
- *Carve*: the fixpoint ends; what is rendered has no error left; what works is
  not carved; a run gives up only for a cause, or over a rule that another of its
  round overtook; the order of errors is invisible.
- *Diagnostics*: an error dropped at the cap still rejects the run.
- *Requests*: what a caller passes is what a server reads that knows the styles,
  in the place it is declared for; what no request can carry is not generated.
- *A generated call*: nothing is sent with part of its credentials; a response
  is read as it is documented; a capped body says that it is.
- *Lowering*: the order a recursive document declares its components in changes
  none of its types, and with two exceptions not whether it is refused; types have
  a finite size, unless an alias leads back to itself; two
  references to one component agree on whether it may be null; the passes end.
- *Types of schemas*: a value that satisfies the schema decodes; what a type
  holds satisfies the schema; a schema is refused as empty only if it is.
- *Naming*: no name is taken twice in a Rust scope, with one exception (section 7);
  the order of the document
  renames nothing; an addition renames nothing that was listed.
- *API surface*: code that compiled against a release, and ran, does so against
  every later one of the major version, with the exceptions of section 7.

## 2. The modules

`MC*.tla` give the constants of a module their small values; `*Proofs.tla` hold
theorems. In the state machines, an operator under a comment `Mistake:` is a
plausible bug of the action below it. No action uses it: `PROJECT.json` lists
for every property the mistake it was seen to catch.

### GenerateCall: the promise of `generate`

Says nothing of caches, digests or temporaries. A call begins, *settles* on
inputs `v` the files held together at an instant of the call (at that instant
the module of `v` is at the output path), and returns with settled inputs or
without success. Only a call that settles and the user replace the module.

### GenerationCache: how it is done

One action per step another process or a crash can come between.

| Code | Model |
|---|---|
| the input files | `disk`: a version number per file; a *digest* is the vector of versions read |
| `InputSnapshot::load`, the preview's own reads, the second load | passes `snapshot`, `preview`, `after`: `ReadInput` reads one file a step, `EndSnapshot`, `EndPreview`, `EndAfter` decide |
| three rounds of changed inputs (`pipeline.rs:70`) | `round` |
| `cargo_environment` fatal | `CargoFatal` |
| `cache::verified_output`, `read_cache` | `VerifyOutput`, `LookupCache` with `Verified`, `Hit` |
| the audit of the consumer's manifest | a choice that rejects or not |
| `write_output`'s comparison | `CompareOutput` |
| `atomic_write`: `create_new` over numbered names, fill and sync, rename, removal on failure | `CreateTemp`, `FillTemp`, `RenameTemp`; `temps` survive a kill |
| `write_cache` after the module | `StartRecord`, then the same three |
| a killed build | `Crash`: locals lost, files and temporaries stay |
| the user and other tools | `EditInput`, `TamperOutput`, `LoseCache` |

`past`, `seen` and `calm` are histories: the vectors ever held, those held since
a call began, and whether anything else touched a file since.

### EventStream and ItemFraming: `stream.rs`, in two halves

`ItemFraming` is `next_frame` over a `FrameBuffer`: bytes as symbols, the three
framings, chunks cut anywhere, the byte order mark, the search offset. Its
reference `ItemsOf` reads the items off the whole body at once, by the positions
where lines, events and records end, and shares nothing with the framers.

`EventStream` is `poll_next` above it: its unit is a line, which `ItemFraming`
justifies. `state` is `StreamState`. The four framing actions have priority over
the connection actions as in the loop of `poll_next` (`Waits`). The server is
*resumable*: asked with `Last-Event-ID: n` it sends the events after `n`, on
every connection. `numbered` says which events carry an id; without one nothing
better than at-least-once can hold, and `NoEventTwice` says so.

### RetryStack: `RetryBackend` and `MiddlewareBackend` in any order

`layers` is the stack. A request walks in (`dir = "call"`), a result walks out.
`RetryCall` is `try_clone_request`, `RetryAgain` the policy's grant,
`IsTransient` the default classifier. A middleware is the caller's own code, so
the model lets it do what its signature allows: change the key or the body,
answer itself, change the result; `Next` is consumed by `run`, so it forwards at
most once. `Send` is the transport; whatever it returns, the server may have
applied the request.

### OperationCall and Responses: a call of a generated method

`OperationCall` extends `RetryStack`: the stack is its stage `send`, and every
step of the stack is a step of a call. `stage` runs from the URL over the choice
of an alternative (`SelectAlternative`), scheme by scheme through
`apply_credential` (`AttachSecret`, `CredentialMismatch`, and `AskProvider` with
its await before `ProviderAnswers` or `ProviderFails`), the stack, and the body
chunk by chunk (`Chunk`) to `Classify`. `asked` is a history.

`Responses` has no state: which type a generated method has for a side of the
table of responses (`SuccessShape`, `ErrorShape`, from `ir/responses.rs`) and
which arm of the emitted match reads a status (`ReadSuccess`, `ReadError`, from
`codegen/dispatch.rs`), two pieces of code that have to agree.

### Parameters, Bodies, Requests, Arrival: what a call sends

A text is a sequence of symbols, where `"%" \o c` is the escape of `c`: so an
escape cannot be confused with the characters it is written in, unless a caller
writes it himself (`Triples`).

| Code | Model |
|---|---|
| `lower_parameter` and what it refuses, `StyleDomain` | `ParameterRefused`, `LowerParameter`, `AdmitsOnly` |
| `encode`, `keeps` | `Encode`, `Keeps` |
| `serialize_simple`, `_label`, `_matrix`, `_form`, `_delimited`, `_deep_object` | `SerializeSimple` and so on |
| the statements of `codegen/params.rs` | `ParamValue`, `QueryFragments`, `QuerystringFragments`, `CookieFragments` |
| `lower_request_body`, `lower_body_encoding` | `BodyRefused`, `EncodingMode` |
| `serialize_form_body`, `emit_multipart_body` | `SerializeFormBody`, `MultipartParts`, both over `Members` |
| `lower_operation`: parameters merged, the template, `querystring` | `MergedParameters`, `OperationRefused`, `Params` |
| `url_building`, `build_url_on` | `RenderedPath`, `JoinedPath`, `DotSegment`, `Query`, together `Wire` |

A call of `OperationCall` has a field `built`, whether its request comes about;
`Requests` computes it of every call (`Builds`, and `BuiltAssumption` has TLC
compare the two), so the state machine needs no text. `Arrival` reads `Wire`
back as a server does that has the document and the tables of styles of the
OpenAPI Specification: it splits at the delimiters written out, then resolves
escapes. What no reader could tell apart, whatever the serializer did
(`Inherent`), it names style by style.

### Carve: omit rules, auto-carve, and the diagnostics they raise

A document is a tree of nodes in several files, some of which the frontend
rejects early or late, with the references between them.

| Code | Model |
|---|---|
| `carve_spec`'s rounds; `run_pipeline` | `pc`, `round`; `Load`, `ApplyProfile`, `LowerBundle`, `Render` |
| `Omit`: the user's rules and those carved | `omit`; `Before`, the order in which they are applied |
| `apply_rule`, `validate_remaining` | `LeftBy`, `ApplyDiagnostics`, `RootCheck` |
| `carve_at` with its `visited` | `CarveAt`, one error or one traced site a step, in any order; `TracedBack` |
| `Diagnostics::emit` with cap, duplicates, `errors`, `truncated` | `Emit`, over a batch |
| `Report::new` | `Finish` |

`emitted`, all that was ever emitted in a run, is a history.

### Lowering and MemberOrders: how recursive components become types

A component is what takes part in a recursion: an object with its `allOf`
members and its properties, an alias, a nullable alias, or an `anyOf` that hides
its null from the decision. `doc` is drawn from `Documents`, and the same one is
lowered under each of `Orders`, so `verdicts` can be compared.

| Code | Model |
|---|---|
| `open_reservations`, `in_progress`, `alias_stack` | `frames`, the innermost last |
| `ensure_reference`, `ensure_component_closed`, `reserved_type` | the actions of one `$ref`: `UseFinished`, `BackEdge`, `AliasOfOpen`, `Undeclared`, `AliasCycle`, `FollowAlias`, `OpenBody` |
| `gather_ref_target`, `push_ref_member`, `record_open_member` | `RefuseOpenMember`, `TakeFields`, `RefuseReserved`, `Recorded` |
| `object_body`, `lower_sole_union_member` | `AddField`, `TakeFields` |
| `?` | `Unwind` |
| `lower_into_reservation`, `settle_reservation` | `OpenBody`, `Fill` |
| `chain_component_alias` | `FollowAlias`, `Chain` |
| the loop of `lower` | `LearnOrder`, `NextPass`, `Accept` |
| `MemberOrders`: `learn`, `opened_first`, `order_path` | the operators of `MemberOrders` |

A `$ref` is answered in `answer`, which the innermost frame takes up in its next
step; so the recursion of the code is a stack of frames.

### IrTypes, Schemas, Meet, Strategy, UnionLowering, SchemaLowering, Decode, ModelCode: the type of a schema

`ModelCode` takes the schemas a document may hold one by one (`LowerSchema`),
and its properties ask of each value that may arrive what the schema says of it
and what the code of the type does with it. The other modules are functions.

| Code | Model |
|---|---|
| `TypeKind`, `Ty`, `Union`, `VariantDispatch` | the records of `IrTypes`: a type is a tree, and `at` says which component's it is |
| `Schema`; `NullAdmission` and what computes it | `Schemas`: `Blank` with what a schema states, `NullAdmission` |
| `intersect_types` and its cases, `NoMeet`, `meet_refiner`, `intersect_union` | `Meet`: `MeetTypes`, `MeetNonNull`, `MeetStructs`, `MeetScoped`, `MeetUnion` |
| `disjoint_strategy`, `trial_strategy`, `discriminated_strategy`, `union_strategy` | `Strategy` |
| `lower_union_sibling`, `lower_sole_union_member`, `lower_variant_members`, `lower_union_variants`, `merge_indistinguishable_variants` | `Refiner`, `SoleMember`, `MeetMember`, `OfMembers`, `Merge` |
| `lower_schema`: `lower_schema_inner`, then `settle_null_admission` | `Lower`, `SettleNull` |
| what the derived and emitted `Deserialize` accept | `Decode`: `Reads`, with the variant `Picked` |

The reference, `Holds` in `Schemas`, is validity as JSON Schema has it, and
shares nothing with the lowering but `NullAdmission`. It comes in two readings,
because JSON Schema lets a value of another category pass a keyword, and the
lowering reads most such keywords as a type: what a value *must* satisfy
however the keywords are read, and what it *may* under some reading. The first
is what has to decode, the second what may decode. Where the types are looser
than a schema and the documents say so, a named operator of `ModelCode` says
where: `TakenByAnother`, `OneOfUnenforced`, `ReadByAny`.

### Names, Naming: `allocate`

A hint is the sequence of words it is cut into; casing keeps the words apart or
runs them together. `Names` has `Scope::alloc` and `alloc_ranked` over one scope,
and what each family of items asks for and the scope it ends in; `Naming` has
the families in their order (`Stages`: servers, types, header structs, methods,
params structs, signatures, URL accessors, errors, success enums, members). An
API is named twice, as it is listed and in a variant: reordered, or with
additions. So what the properties compare are two runs of `allocate`.

### Surface, Semver: `spargen diff`

`Surface` is `extract`: operations, types and servers of an API with the names
`Names` allocates; then `compare` with the impact of each change and the `Bump`. `Semver` publishes releases: the next one may be any API of the pool
its first came from, under the bump `diff` asks for, and `written`, the release
a consumer's code was written against, may be any earlier one of the major
version. What such code leans on (`Leaned`, `CallStands`, `YieldStands`) is read
off what the generator emits, not off the surface: names, members and values as
sets that may only grow, and for each operation one of the next release that is
called with as many arguments in the same order and yields the same. What the
comparison does not see of a call is four definitions, each an exception of
`CallersKeep`: `BundleArrives`, `Movable`, `YieldsOne`, `MayBeNone`. A signature is
the text `extract` renders, not the shape behind it: `()` without a body, `None`
without an error, which a type may be named too. An API is what lowering makes of a document (`WellFormed` in
`Names`, `WellTyped` in `Surface`): references are to types there are, and no key
is listed twice. A type is rendered by a recursive function over the references
there are (`Items`), since an alias of an alias is rendered all the way down.

### LinkPaginator: `next_page`

`NextPageNone`, `NextPageCycle`, `NextPageUnbuilt`, `NextPageSend` are the code
before the await, `ResponseFails` and `ResponsePage` the code after it, and
`Cancel` a caller that drops the future at the await. The server answers
anything, and the same page differently each time.

### Vendoring: the walk of `spargen lock` and the walk of a build

Two processes over the same files. A document is its `$self`, the references it
makes, whether it is UTF-8 and whether it parses; the digest of a pin is the
document itself. A reference resolves by `Resolve` against `Base`, which a `$self` replaces.

| Code | Model |
|---|---|
| `vendor`'s queue of documents, each with its references | `todo`, the references not looked at yet, already resolved: the order is the same |
| `Scanned`: `seen_local`, `seen_remote`, the opaque names in `remote_docs` | `seen` |
| the arms of `classify_ref`'s match | `SkipSeen`, `SkipOpaque`, `ScanLocal`, `FetchFails`, `Fetch` |
| `create_dir_all` and `fs::write` of a copy, both of which may fail, the second after truncating | `OpenCopy`, `WriteCopy`, `GiveUpCopy`; `Torn` in between |
| `upsert`, `keep_unpinned_from`, writing the lock in place | `WriteCopy`, `KeepUnpinned` in `EndWalk`, `TornLocks`, `WriteLock` |
| a killed run | `Killed`: whatever is on disk stays |
| `load_lock`, a root that does not parse | `RefuseBuild`, `StartBuild` |
| `InputBundle::load`, `load_file`, `load_remote` | `BLoadLocal`, `BLoadRemote`, `BReject` (E003, E021, and E011 of bytes that are not UTF-8, over which the walk goes on), `BSkipSeen`, `BEnd` |
| `url_to_file`, local identities | `bSeen` |

The server is external: a URL answers with any of its `Replies`, each a document
and the URL its redirects end at, or does not answer. `complete` in the lock,
`before`, `calm`, `was` and `bCalm` are histories: how the last run ended, and
what was usable when this one began.

## 3. The runs

| Run | Instance | Shows |
|---|---|---|
| `gencache` | 2 builds, 1 shared record, 2 input files of 2 versions, symmetric builds | `OneInstant`, `TrueModule`, `WarmCallIsCached`, and the refinement `Implements` of GenerateCall |
| `gencache_solo` | 1 build, 1 file whose two contents alternate without end, temporaries 0 and 1 | `TargetsWhole`; under fairness `CallReturns` |
| `event_stream` | 7 events, one of each kind and a second item; all but the comment numbered, or also one item not; 2 reconnects in a row; a frame limit of 3 lines that the `big` event exceeds by its chunks; chunks of 1 to 3 lines | `InOrderOnce`, `NoConcatenation`, `AttemptsCountTheFruitless`; under fairness `StreamEnds` |
| `item_framing` | every body of up to 6 bytes over 4 (SSE) or 3 symbols, up to 3 behind every part of a byte order mark; chunks of 0 to 3 bytes | `ChunksAreInvisible` |
| `operation_call` | every stack of up to 3 layers and those of 2 retry layers and 2 middlewares, for every request; 3 security requirements under every registration of 3 schemes; every table of 6 selectors, 6 statuses; of the operations with one parameter, of each location, style, `explode`, `allowReserved`, media and type, the 402 that are generated, 7 with several, some 95 with a body, each with every argument of a pool that holds every delimiter | of the stack `OneEffect`, `StreamsSentOnce`; of the call `SentAsRegistered`, `ReadAsDocumented`, `ArgumentsArrive`; under fairness `CallEnds` |
| `link_paginator` | 4 pages with 2 fragments | `NoPageTwice`, `NoneMeansTheEnd`; under fairness `LoopEnds` |
| `vendoring` | 2 hosts with 2 names each, 2 replies per URL; 3 sets of local files; 2 lock runs, any number of builds one at a time | `BuildIsPinned`, `WalksAgree`, `UsableSurvives`; under fairness `WalksEnd` |
| `carve` | 17 nodes in a root document and three more files, references in circles; any two nodes rejected, early or late; 5 user profiles; with and without carving and a cap; 3 rounds | `OutputIsSound`, `CarvedForCause`, `RejectedForCause`, `OrderIsInvisible`; under fairness `RunEnds` |
| `lowering` | 1226 documents of three and of four components, each under six orders: all those of three | `OrderDecidesNothing`, `FiniteTypes`, `BackEdgesAgree`; under fairness `PassesEnd` |
| `schemas` | 14,294 schemas: every oneOf and anyOf of two out of 28 members beside 13 sets of sibling keywords, 5 inner unions in both and as items and properties, discriminators under 5 mappings; each against 27 values | `ValidDecodes`, `DecodedValid`, `EmptyRefused` |
| `naming` | APIs of four types and of three operations out of pools whose names meet by case, by running together, by a suffix, across families and with reserved names; their orders, and additions | `NamesDiffer`, `OrderRenamesNothing`, `AdditionsRenameNothing` |
| `semver` | pools of 34 parameter lists, 61 tables of responses and headers, 59 sets of types, 17 of operations, 13 of servers; any sequence of releases within a pool; each exception of the property occurs, and without it the property fails | `CallersKeep` |

All runs expect their properties to hold. What is proved of a module and not
listed here (`SendsBounded`, `TrueRecord`, `SearchedOnce`, `NothingSkipped`, `KeptUpToTheCap`,
`HonestReport`) TLC agrees with on the same instances; the runs leave it to the
proofs.

Every model but `Naming` checks deadlock: the modules that stop say so with a
stuttering action (`PollAfterEnd`, `Ended`, `Rest`), the others never do.
`Naming` stops when both namings are done.

### Why the bounds are enough

*Two builds, two files, two versions.* A torn pass needs two files; an edit that
comes between two passes needs one edit; a module under the record of another
build needs two builds. `Loads` rejects the new document with the old lock file
and `Render` ignores the lock file, so inputs that do not load, and inputs that
differ only in their digest, both happen. More builds and files are covered by
the proofs, which assume nothing about their number. The liveness run needs an
input that changes without end: there `Recurs` lets two versions alternate.

*Framing.* Offsets go wrong at a terminator cut by a chunk, at a CR before or
after a cut, after a consume, at a mark cut by a chunk. Six bytes hold two
events with a CRLF each, or three records; every cut of them is explored.

*Stacks.* Four layers hold a middleware outside, between, and inside two retry
layers. The proofs are for any stack. A call varies its stack, its credentials
or its table and statuses, not all at once: the stages share only the request
and the reply, and the credentials are settled before the stack is entered.

*Requests.* A serializer goes wrong on one value, at one symbol: values of every
single symbol some encoding treats apart, of none, of dots, of a placeholder and
of an escape the caller wrote, alone, in arrays, in objects and as keys, are what
one parameter needs. Two parameters meet over names, and over the text of the
path one leaves the next; the seven operations with several have both.

*Responses.* Two exact successes, a range and the default, two errors: every
pair of selectors that overlap, with and without a body, on both sides.

*Carving.* Two errors at once are what the order of rules, a rule inside
another and a carved reference need; the path `/x` has a `get`, whose rule comes
before the path's, and a `post`, whose rule comes after it; a third round is only reached through a
chain of references, which the files hold. The proofs are for any document.

*Lowering.* Three components hold a cycle through members, one through
properties, one that passes through an alias, and two bodies that find the same
third one open. Two compositions that lead back to themselves get in each other's
way among four, which `Four` has, the diamond of section 7 among them; `Recursive`
and `Aliased` have the aliases that lead back to themselves. So both exceptions of
`OrderDecidesNothing` occur (`Entangled`, `LeadsBack`), and so does the one of
`FiniteTypes`; without aliases that is proved for any document. `BackEdgesAgree`
needs one body that contradicts its guess and two references to it.

*Schemas.* A meet, a merge and a strategy look at two members at a time, so
pairs are what they go wrong on, under each kind of keyword beside them: none,
one type with and without null, several, keywords that apply to one category,
both halves of that, values. The 28 members hold each kind of type the lowering
makes, stated with and without `type`, nullable, by reference, and those that
admit everything or nothing in particular. Inner unions add a level. The values
hold one of each category that some member takes and another refuses, and
objects that miss or exceed the keys in question. Of the schemas 11,303 are
lowered (6,169 to a union: 2,361 told apart by category or key, 3,764 by trial,
44 by tag), 2,713 are refused as empty, 262 as unrepresentable, 16 for their
discriminator; 457 unions of those lowered are a oneOf not enforced
(`OneOfUnenforced`), and in 83 `TakenByAnother` refuses a valid value.

*Naming.* A clash takes two items, its suffix a third that spells it, and what
the third pushes aside a fourth. Pools hold hints that differ in case, that run
together, that are a suffix of another, reserved names, and items of families
that end in one scope. Two server variables are spelled like a method of their
builder, which one setter keeps (`AsSpelled`) and the other does not.

*Releases.* Since the code may be written against any earlier release of the
major version, two releases are compared whatever was published in between;
what several releases do together that each alone may not is reached too.

*Vendoring.* Among the replies are a redirect to another host, a `$self` that
renames a document, an opaque `$self` with a reference to it, a document that
does not parse, a redirect to bytes that are not UTF-8 whose end another document
names, and references in a cycle; among the local files a `$self` of
each kind and a file that is missing. Two runs: the second finds what the first
left, after any failure of the first.

*Paginator.* A finite set of pages is all the code relies on; the proofs are
for any set.

## 4. Fairness

- `GenerationCache`: weak fairness of each build's own steps. A build waits for
  no other process (no lock is taken, `create_new` passes over a name), so a
  process that is not killed takes its next step. Nothing is assumed of the
  user, who may edit for ever.
- `Vendoring`: weak fairness of a lock run's own steps and of a build's. Neither
  waits for the other; a fetch answers or times out. Nothing makes a run or a
  build begin, and a kill may come at any step.
- `Carve`, `Lowering`: weak fairness of `Next`. Each is one call in one thread,
  which waits for nothing.
- `EventStream`, `OperationCall`, `LinkPaginator`: weak fairness of the next-state
  relation. Each is
  one task: its caller polls or loops on, a timer fires, a transport answers or
  fails. Nothing says *which* answer comes.

`StreamEnds` further needs a policy that grants at most `Limit` reconnects in a
row, and events with ids: a server that resends an item without an id after
every break is progress each time, and the stream rightly never ends.

## 5. What is proved

Theorems hold for every value of the constants that satisfies the named
`ASSUME`s of the module. The list with a sentence for each is in `PROJECT.json`.

**GenerationCacheProofs.** `TypeCorrect` and `AtomicTargets` need only
`WholeInv`: types, whole targets, and `ShapeInv`, which says what the locals
hold at each place (in particular that a temporary about to be renamed holds
exactly the contents to be written). They hold whatever the inputs do.

`OneInstant` is not inductive: the digest of a call is read file by file, and
nothing on disk says the files ever stood together. The argument is about the
order of contents. Where contents never recur (`~ Recurs`), the vectors held
form a chain under `Leq`, and what a call has seen is an upper end of the chain
(`HistoryInv`). Between the end of one pass and the start of the next lies an
instant `m` of the call with `snap <= m <= preview <= after` (`PreviewInv`); if
`snap` and `after` are equal, all four are `m`. For a call served from the cache
there is one pass only: the digest it read may be torn, but it can match the
digest of the *file* only when that digest stood on disk once (`FilesInv`), and
a first pass that agrees with an earlier instant on the files read so far agrees
with an instant of the call (`SnapshotInv`). `Inductive` proves the
conjunction `IInv`; `AnswersOneInstant`, `ModulesAreTrue`, `RecordsAreTrue`
follow, and `Refinement` uses `IInv` to map every step to a step of
`GenerateCall` or a stutter.

`WarmCallsAreCached` needs none of this and holds also when contents recur: what
a build has read since nothing disturbs it is what stands on disk, and what it
has yet to compare, render or write is that (`CalmInv`); so when it ends, the
output and its record are those of the inputs on disk (`Fresh`), and the next
call finds them. It assumes that what is written is not taken for a missing or
a partial file (`FilesDiffer`).

**ClientProofs, of event streams.** `AttemptsAreCounted`, from `Counted`: `attempt` is
the fruitless requests sent, with the one granted while the stream waits.
`ItemsInOrderOnce` and `ItemsAreWhole`, from `StreamInv`: while a body is read,
there is an event `k` such that buffer and remainder together are the wire after
`k`, every item up to `k` was yielded, and the id kept is that of the last
numbered event up to `k` (`InStep`); outside a body the buffer is empty, and no
item up to the id kept is missing (`Placed`). So a reconnect, which starts from
that id, repeats only events without one. Both assume that a body which ends
cleanly ends between events (`TornClose = FALSE`), as the run does: without it
they are false, see section 6.

**ItemFramingProofs.** `NoTerminatorSkipped` and `EachByteSearchedOnce`, for
bodies and chunks of any length: the search offset lies between the line start
and the end of the buffer with no terminator behind it, and the searches a chunk
pays for are its own bytes, one CR held back, and two bytes of a mark.

`CutsAreInvisible` compares what is framed chunk by chunk with what `ItemsOf`
makes of the whole body, by positions: terminators, pieces between them, blank
lines. The invariant `CutInv` says the same of the bytes fed so far: the buffer
is the end of their text; the decision on a byte order mark is open exactly
while the bytes are a strict part of one; the items out, with the event under
way, are what the reference makes of the text up to the position read
(`Framed`); after a pass nothing that ends an item is left unread but the
separator that opens a record or a last CR (`LeftOver`). Each step reads one
line or record more, and each operator of the reference has a lemma that says
what one more position adds to it.

**ClientProofs, of calls.** For a stack of any depth and any budget: what the layers
outside the request hold has no key that differs from the keys already sent,
and a layer that keeps a clone keeps one without a stream. Then a request that
is not idempotent and has no key is retried by no layer, and one with a key
carries it through every retry (`AtMostOneEffect`); a streaming body is behind
every layer that could send it again (`StreamsAreSentOnce`). The attempts of
nested retry layers multiply and no further (`SendsStayBounded`): what was sent,
what the layers from here inward may send (`Most`) and what the layers passed may
still send again (`Spare`) stay within the product. A call is a
behaviour of the stack (`CallsUseTheStack`), so both hold of calls; and of the
call itself: what is attached is a prefix of the first alternative registered in
full, each of a kind its scheme takes, and only the whole of it is sent
(`SentWithCredentials`); the bytes kept of an error's body are those read up to
one past the cap (`ErrorsKeepUpToTheCap`). `ReadsWhatIsDocumented` is about the
arms of the generated matches, one for the successes and one for the errors: a
selector that covers a status is on the side of the status or is `default`, which
ranks last, so the first arm on that side is of the response `Documenting` names
(`ArmsOfSuccesses`, `ArmsOfErrors`); the exceptions in the property are those of
operations with one type of success and of errors none of which has a body.

The pages of a list, in the same module, for any set of pages: `PagesRequestedOnce`,
`NothingDropped`, `ErrorsEndTheChain`.

**VendoringProofs.** For any hosts, documents, replies and number of runs.
`PinnedBytesOnly` needs only that a build compares what it reads with the lock
it read first (`LoadedInv`). `FailedFetchTakesNothing` rests on `UsableInv`: a
run writes the copy of a URL once, since what it has pinned is in `seen`; so at
every step of the walk whatever was usable before is either pinned by this run
with its copy in place, or not pinned by it and still as the old lock has it.
Merging the old pins at the end then adds exactly the second half.

`LockAndBuildAgree` compares two walks that do not run at the same time. What
they share is a *trail*: the sequence of work lists, names seen and documents
got that the files and pins determine, from the start (`Trail`). A run without
errors is on the trail of its own pins, which no pin added later changes
(`LockTrail`), so a complete lock holds the pins of a whole trail
(`LocksWhole`). A build without errors is on that trail too (`BuildTrail`);
where it is not at the end there is exactly one way on, to a document that is
pinned and, if nothing changed since, has its copy (`Stands`). A build that
passes over pinned bytes that are not UTF-8 (`bundle.rs:363`) registers neither
their URL nor where they were retrieved, which the lock run holds seen: it goes
on beside the trail (`Beside`), short of names of such bytes only, so the pins it
then misses (E003) are reported after the bytes (E011), and never without them.

**CarveProofs.** For any tree, references, faults, profile and cap. That nothing
broken is rendered rests on the count of errors, which a batch keeps past its
cap: `EmitFacts` says an error that comes is counted whether it is retained or
not (`ReportsAreHonest`, `OutputHasNoErrorLeft`). `CarvingProgresses`: what a
round finds is in the document it looks at, so no rule is carved twice.
`CarvedRulesFindTheirs`: a carved rule misses only where it was `Overtaken`, by
a rule of the same round whose construct lies around its own and whose text comes
first (section 7). Of a rule and an earlier one with its construct inside, both
are of one round, as each round finds only what is left; that is `MatchInv`.

Three more are about reachability. `Closure` takes as many steps as there are
nodes; by counting them that is enough, and it is the smallest set closed under
the relation (`ClosureFacts`). While a round carves, what it visited and has yet
to visit lies between its errors and all they are traced to, what it visited
leads nowhere else, and from everything in it an error can be read back
(`CarverInv`): at the end both bounds meet (`AnyOrderCarvesTheSame`), and every
construct found has its cause (`CarvesOnlyForCause`). A cause is taken as of the
round that carved: a later round may remove what was referred to as well.
`GivesUpOnlyForCause` adds that a run renders only what a probe lowered
(`ProbedInv`), and that a profile fails over the user's rules or over rules that
were overtaken (`ApplyRejects`).

**LoweringProofs.** `FiniteTypesWithoutAliases`: where no component is an alias,
what a definition holds unboxed was filled before it, for any documents, orders
and number of passes. That is not inductive, since a definition is made of what
the body gathered and of the answer it was given while others were filled. The
invariant says that what an open body or an answer holds unboxed is filled
(`HeldFilled`), that what is finished is exactly what is filled, each component
once and under its own name, and that none is open inside itself or filled while
open (`FilledOnce`). Aliases break it, as item 2 of section 7 shows: they put under
one name what belongs to another that is not filled yet. Without aliases the
exception that `FiniteTypes` makes for them is empty.

`GuessesAgree` holds with aliases, for any documents. The document decides what
a body admits (`DecidedOf`), a pass may guess otherwise (`GuessOf`). Unless an
error broke the pass, what any type in it says of a component is what is decided
of it, what was guessed while its body is open and the guess marked as read, or
anything at all if a revision of it is recorded (`Said`, `SaidTruly`): a pass
that ends without a revision has only the first kind left. An alias is given
what its target answered, so it names a union exactly if the target does
(`AliasNames`); a chain longer than there are names leads back into itself
(`AliasesLoop`).

Several of these inductions run over the length of a sequence, the steps of a
walk or the size of a set. The induction theorems of the library take a
predicate as a parameter and no installed prover can instantiate them; the
proofs argue with a smallest counterexample among the naturals instead
(`WFMin`, as in `ClientProofs!SetInduction`), and show of recursive
functions of the community modules that they exist (`FlatExists`).

**NamingProofs.** For any APIs, any dictionary of words and any reserved names:
`NamesAlwaysDiffer`, `OrderNeverRenames`, `AdditionsNeverRename`. They assume
`NumeralsAreWords`: a number written out is a word, no run of other words, and
two numbers read differently. It is a hypothesis of the theorems and not an
`ASSUME` because it takes infinitely many words, and the dictionary of the run is
finite (it holds the numbers the run needs). Without it a suffix that is counted
up may never be free.

The invariant `IndInv` says that a naming is decided by how far it is: what it
has given merges what the stages passed give, and each shared scope holds what
the batches over it took. So each property is about what the batches compute.

- A batch serves first those who get the spelling they ask for, then who must
  yield. Whoever yields finds a suffix nobody took, because a finite set does not
  hold all numbers (`DisambiguatedIsFree`). So a batch gives each item a name that
  is not among those taken and is no other's (`Clear`). Setters are named over
  nothing, though methods of their builder stand beside them: these are of one word,
  and a setter that yields is of more (`RowSpells`). Batches over one scope
  build on one another (`BatchesAreSound`), and stages that share none give to
  different keys (`PartsAreApart`).
- An order of the listing survives only where two claims, spellings with their
  ranks, are equal. Two rows of the same requests, each sorted by claim, have the
  same claim place by place: were one smaller at some place, more requests of the
  one row than of the other would lie below it (`Pigeons`). Requests of one claim
  ask with one seed (`Tied`: for types an assumption on their ranks, for the rest
  because ranks tell them apart), so place by place the same name is given
  (`MatchNames`), every item has a counterpart among its peers, and the names
  taken, which the next stage starts from, are the same set.
- Listed members and required parameters are served first in their scope: what
  they are given is the same whatever is served after them.

**SemverProofs.** `CallersAlwaysKept`, for any pools of APIs that are well formed
(`PoolsAreWellFormed`) and over any sequence of releases. It assumes
`NumeralsAreWords` as the theorems about names do, and that what types are
rendered with, `Option` or `String`, is no word of a name (`MarksAreNoWords`: the
code reserves `Option`, `String` and `Vec`, `name/mod.rs:185`, and the others are
not spelled like names of types). `None` is not reserved and not assumed away:
where no error type reads as a type of that name, `MayBeNone` says so. The four
exceptions are part of the theorem; nothing else is excepted.

`CallersKeep` is not inductive: that code lacks nothing today says nothing of the
surface the next release is compared with. The invariant `ReleasesInv` says that
every release has the names `allocate` gives its API and the surface `extract`
makes of both (`SoundRelease`), and that the last release has all that `written`
had (`Sustains`). `CallStands` and `YieldStands` do not compose: a parameter that
cannot move now may do so in the next release. `Stays` does: the arguments
stand with the bundle left aside, and with it once it is there, what cannot move
never can later, and the signatures are equal. `Sustains` is a preorder, so it is enough that one release
sustains the one before it when the bump is not major (`Succeeds`), whatever the
other releases were. That step is read off the comparison, part by part:

- The comparison is of maps by generated names, and a map is only as good as its
  keys. By `NamesAlwaysDiffer` no two entries of one map have one name, so what
  the surface holds under a name is what one type, member or value put there.
- A bump that is not major reports additions alone (`OnlyAdds`), so an entry
  stays, with its type and whether it is required; each kind of change that would
  take one away is shown not to be additive.
- Equal renderings are of equal types (`Canon`): a mark is no word, so `Option`
  or `Vec` around a name is read back.
- What moves between locations is paired by wire name only if it is alone under
  it on both sides (`MovedTo`); so parameters of one name and type go to
  parameters of that name and type, one to one, and counting how many a method
  takes of each gives the same numbers before and after.
- The arguments of a method are places in the list of parameters, then that of
  the bundle, then that of the body; those of a URL accessor are such places too,
  in order, and `url_args` holds the order. If no other required parameters are
  beside them, that makes the order of the whole call (`UrlOrderKept`,
  `ArgumentsGo`).
- A signature says which shape it is of: no type reads as `()`, nor as the enum of
  statuses, nor, but for its name, as `None` (`SigsTell`). A table has finitely
  many selectors, so a stream is a result of one type (`ShapesAre`).
- What the surface leaves out is reported elsewhere: the error body comes with
  the error type or alone, what yields to an addition is an entry of its own.

### What is only model-checked

- Liveness (`CallReturns`, `CallEnds`, `StreamEnds`, `LoopEnds`, `WalksEnd`,
  `RunEnds`, `PassesEnd`): out of the prover's reach, as is `ENABLED`.
- `ArgumentsArrive`: what `Parameters`, `Bodies`, `Requests` and `Arrival` make of
  arguments is recursive over text, by `RECURSIVE` operators, which the provers
  cannot be used with.
- `ValidDecodes`, `DecodedValid` and `EmptyRefused` of `ModelCode`, for the same
  reason: types and their comparison are recursive (`Lower`, `MeetTypes`, `Holds`).
- `OrderDecidesNothing`, and `FiniteTypes` with aliases. That no other documents
  than those their exceptions name depend on the order is what the run shows of
  its documents, and no more.

## 6. Assumptions and what is left out

- Digests are collision free.
- The proofs and runs about one instant assume that contents never recur; what
  happens when they do is not guarded against by the code: an input that changes
  and changes back between the two snapshots (`pipeline.rs:98`), while the
  preview reads it, leaves the module of other inputs under the old digest, and
  later builds are served it from the cache.
- A file of the input is read atomically. `atomic_write` is modelled on systems
  whose `rename` replaces its target; the fallback that removes the target first
  is left out.
- `EventStream` leaves out `retry:` delays, event names and an id reset by an
  empty `id:` line, and its resumable server closes cleanly only between events
  unless `TornClose`. With it `InOrderOnce` is false: what is left at a clean end
  is framed as an event, and its id kept, so a body that ends after an `id:` line
  skips the data of that event.
- `OperationCall` takes it as a choice whether a value fits a header, and a body
  decodes. Text is symbols: characters no encoding treats apart are one, and what
  a URL library does with a text it is given, but for dot segments, is left out.
  Arrays and objects of arguments have at most two members. XML and streaming
  bodies, `readOnly` and `writeOnly` members, and defaults are left out.
- `NoneMeansTheEnd` is stated of callers that await `next_page` to its end. One
  that drops the future at its await (`Cancel`, after `paginate.rs:155` took the
  pending URL) gets `None` from the next call with neither an error nor an end.
- `Carve`: a glob is the set of nodes it matches; within one rule all are
  removed at once; array indices do not shift.
- `Lowering` holds documents of one file, and of a body what can make it depend
  on another: `allOf` members that name objects, properties, aliases, nullable
  aliases. An object states its type. Inline compositions, maps, tuples, unions
  of several members, meets of properties of different types and references into
  the body of a component are left out, and so are operations, which ask for
  components when all are filled. `BackEdgesAgree` and the verdicts say nothing
  of a property that names a nullable alias (see below).
- `RetryStack` uses the default classifier and a policy with a budget.
  Middlewares add an `Idempotency-Key` only where there is none. Backoff
  arithmetic is left out.
- `LinkPaginator` abstracts a `Link` header to the URL it resolves to; a link
  that does not resolve is, as in the code, no link.
- `Vendoring` leaves out references into specification extensions, two lock runs
  at once, edits of local files while both walks are under way, and the text of
  the lock and of URLs. A copy's path is taken to be one to one with its URL.
- `Naming` leaves out keyword escaping, leading digits, the folded media keys in
  the seed of a suffix and synthesised operation ids. The lexical order of names
  is that of their words.
- `Surface` leaves out the order and the places of a report, a side that is
  rejected, tuples, base64 newtypes, scalars but two, extension media, and the
  type of `null` alone, which reads `()` as a status without a body does.
- `CallersKeep` says nothing of the names of params structs, error types, success
  enums, variants of string enums and aliases (`NamesKeep` and `AliasesKeep`,
  section 7), nor of an `api_body` that comes to be there.
- The schemas leave out `allOf`, keywords beside `$ref`, `patternProperties`,
  defaults, recursion (which `Lowering` is about), `open_unions` and
  `open_narrowing`, names, warnings, XML, and serialization. A string format is
  an annotation for what *may* satisfy a schema. The pool has no closed object,
  and none with typed additional properties, beside siblings that name a property
  it does not list: the documents of the repository read these as closed over
  both.
- Not modelled, with reasons, in `PROJECT.json`: deserialization, the audit,
  the rendering of Rust text, parsers, the comparisons of the runtime contract,
  entry points and the decoders of headers, dates and XML. They are pure functions
  of one value, about text.

## 7. Where code and documents part

Seen while modelling. No run of the project expects a violation: the properties
set each case apart by a definition of its own, which is named here, and where the
run does not hold the case, the instance that does.

1. `compat/carve.rs:70`: the rules carved in one round are
   applied in the order of their texts. `path /x` comes before `post /x`, so when
   both are carved, the path is removed first and the rule of its operation
   matches nothing, which is an error of the profile and ends the carving,
   though the same document with `get` is carved and generated. `carve.rs:48`
   says that "every rule derived here names a construct that is still present".
   The run has such documents; `Carve!Overtaken` names the rules this befalls, and
   `RejectedForCause` says that carving gives up over no others.
2. `oas31/lower/reserve.rs:373`: `chain_component_alias`
   caches what its target answered, also a back-edge. `A {b: B, c: C}`,
   `B {c: C}`, `C: $ref A`: `B.c` follows `C` to the open `A`, boxed; `A.c` finds
   `C` cached, unboxed, and `A` holds itself by value. `reserve.rs:450` warns of
   just this for the nullable alias: "a cached hit returns `boxed: false`, and a
   second reference taken during the same cycle would then emit an infinitely
   sized type".

   The stack of aliases (`reserve.rs:361`) is also kept across the bodies opened
   below an alias. With `C: $ref B` declared before `B {c: C}`, `B.c` finds `C` on
   the stack and the document is refused as a cycle of aliases (E004), which it is
   not; declared after `B` it is lowered. The run has documents of both kinds:
   `Lowering!LeadsBack` names such an alias, `FiniteTypes` makes an exception of
   the properties that name one, `OrderDecidesNothing` of the documents with one.
3. `oas31/lower/cycle.rs:272`: `A {c: C, d: D}`, `B {a: A}`,
   `C` and `D` each an `allOf` of `B`. Declared with `A` first the document is
   lowered; with `B` first each of `C` and `D` is opened first by a later pass,
   but the way from `B` leads through `A` to the other, which finds `B` open.
   `tests/lowering_props/declaration_order.rs:1` has it that "Declaration order
   decides nothing". The run has such documents: `Lowering!Entangled` says when
   the order may decide whether one is refused. It never decides a type.
4. The surface leaves out what no other change covers; `diff` then asks for a
   patch or a minor release where consumers break, against "Purely additive:
   existing code keeps compiling" (`surface/mod.rs:228`) and "No consumer-visible
   surface change" (`surface/mod.rs:226`). The first four are exceptions that
   `CallersKeep` names, and occur in its run. The definitions in parentheses state
   the claim without exception; with `Pools <- Chosen` and the pool named, TLC
   finds each violated.
   - `BundleArrives` (`CallsKeepCompiling`, pool `params`): the first optional
     header or cookie of an operation adds the bundle argument to the method
     (`codegen/operation.rs:429`) at a minor bump, and no existing call compiles.
     `tests/diff.rs:215` asserts the minor bump of just this.
   - `Movable` (`PositionsKeep`, `params`): required headers and cookies are
     positional arguments in the order of the document, and the surface holds only
     the order of those that shape the URL (`url_args`): two of them swapped is a
     patch.
   - `YieldsOne` (`StreamsKeep`, `responses`): a success that turns from one body
     of a type into a stream of it has the same `success_sig`, but the method
     returns an `EventStream`.
   - `MayBeNone`: `error_sig` renders no error as `None`
     (`surface/extract.rs:349`), which is also how it renders a type of that name,
     and `None` is not among the names kept from schemas (`name/mod.rs:185`). The
     error type of an operation whose first error body is a schema `None` turns
     from `Infallible` (`codegen/responses.rs:377`) into that schema, and `diff`
     reports no more than a type added.
   - `NamesKeep` (`names`): the names of params structs, their fields, error
     types, success enums and enum variants are no part of the surface, and an
     addition can rename them.
   - `AliasesKeep` (`types`): an alias that is removed is no change.
5. `models.rs:386` says "A required nullable field stays a single `Option<T>`
   (present but may be `null`)", but serde reads an `Option` field that is
   missing as `None`, so it may be absent. In a `oneOf` this is more than
   lenient: of `{a?: integer}` and `{a: string or null, required}` only the first
   admits `{}`, both read it, and the count of "exactly one" (E007,
   `diag/code.rs:253`) refuses it. A derived struct is also read off an array, by
   position, and the alias of an integer enum reads every integer, each with the
   same effect. (`ModelCode!TakenByAnother` sets these apart.)

6. Shapes of arguments lowering lets pass and no serializer takes: every call that
   passes one fails, with `ParameterError::NestedValue` or its like, where
   `oas31/lower/parameter.rs:766` has the shape checked so that generation refuses
   it. `Arrival!NotLookedInto` names them, and `ArgumentsArrive` says there are no
   others.
   - Raw bytes as an item or a member of a styled parameter: serde makes an array
     of numbers of them, which nests. The same in a form property that is styled,
     where they go out as decimal numbers.
   - Bytes with `contentType: text/plain` in a form, the properties of a form or
     multipart body that state a style, form-encoded `querystring` members, and
     text `content` parameters: none of their shapes is looked into.
   - A form that is null: `FormBodyNotObject`.
7. `build_url_on` trims the slashes a path begins with (`dispatch.rs:39`), so an
   empty argument for a placeholder that begins the path takes its segment with
   it: `/{x}/keys` becomes `/keys`. Elsewhere an empty segment stays.
   (`Arrival!NothingFirst` sets it apart.)
8. `name/mod.rs:332` names the setters of a server builder over nothing, but its
   `impl` defines `new` and `url` (`codegen/client.rs:369`, `:376`) and calls
   `Self::default()`. A server variable `url` or `new` gives a method that is
   defined twice, one `default` a setter where `new` expects the trait's: the
   client does not compile. Of the methods of the client, `name/mod.rs:156` says
   that what spells one of them is "disambiguated instead of emitting a duplicate
   definition". (`Naming!AsSpelled` sets these setters apart; the run has them.)

And not stated by a definition:

- Types that are imported by path are rendered by a bare label, `Uuid` for
  `uuid::Uuid`, `Value` and `Bytes` likewise (`surface/extract.rs:397`), and a
  schema may be named so: these labels are not among the names kept from it
  (`TYPES_MODULE_NAMES`). A field whose inline uuid becomes a `$ref` of a new
  schema `Uuid` reads as before, and `diff` reports a type added, at a minor
  bump. Of the two primitives of `Surface`, `String` is kept from schemas and
  `i64` is the name of none.
- A parameter, of all bodies, whose map of additional members repeats the name of
  a declared one overwrites it: the map is flattened into one object after the
  fields. Form bodies leave such an entry out (`OrderedMembers`).

- `nullable_alias_back_edge` answers "nullable" for a `oneOf` of `$ref A` and
  `null` whatever `A` admits. Where the type of `A` lists null,
  `docs/support-matrix.md:18` has it that null then matches both and the property
  is `Box<A>`, as `settle_null_admission` decides once `A` is filled.

## 8. What is left

Done, in this order: GenerateCall and GenerationCache with their refinement;
EventStream and ItemFraming; RetryStack; LinkPaginator; Vendoring; Diagnostics
and Carve; Responses and OperationCall over RetryStack; MemberOrders and
Lowering; Names and Naming; Surface and Semver; the types of
schemas and what their code decodes; Parameters, Bodies, Requests and Arrival;
eight proof modules.

What could follow:

1. **Lowering**, extended: reservations of bundle and remote targets, and the
   meets of properties of two members (`refuse_open_meet`), which are refused
   and learned from in the same way.
2. **Vendoring**, extended: references into specification extensions, and local
   files edited between a lock run and a build.
3. Proofs of the refusals of `Vendoring` and `Lowering` that items 1 and 2 add; of
   what `ModelCode` says, once `Lower` and `MeetTypes` are recursive functions.
