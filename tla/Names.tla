------------------------------- MODULE Names -------------------------------
(***************************************************************************)
(* How identifiers are allocated within one scope (name/scope.rs,          *)
(* name/casing.rs, name/keyword.rs), what the items of a generated client  *)
(* ask for, and what each family of them is given in the scope its names   *)
(* end in (name/mod.rs).                                                   *)
(*                                                                         *)
(* A hint is the sequence of words it is cut into.  A name in snake case   *)
(* keeps the words apart; a name in Pascal case runs them together, so     *)
(* that two hints may case alike (Pieces).  What escaping a keyword adds   *)
(* is taken off again by what derives a name from another one, and is left *)
(* out.  Scopes are sets of the names taken.                               *)
(*                                                                         *)
(* An API is lists of servers, types and operations.  A family is named    *)
(* over the names taken in its scope; families that end in one Rust scope  *)
(* share one.                                                              *)
(***************************************************************************)
EXTENDS SequencesExt

CONSTANTS Place,             \* the place of each word in the lexical order
          Numeral(_),        \* how a number reads, a word
          Joined,            \* the words that read as several run together
          Suffix,            \* stable_suffix(suffix_seed(pointer)), a word
          ServersModule,     \* SERVERS_MODULE_NAMES
          TypesModule,       \* TYPES_MODULE_NAMES
          ClientMethods,     \* CLIENT_METHODS
          Reexports          \* the types among the re-exports of the root

Words == DOMAIN Place
Ident == Seq(Words)

(* The words the generator itself uses. *)
Fixed == {"additional", "body", "cookies", "error", "generated", "headers", "operation",
          "other", "params", "path", "query", "raw", "reconnect", "request", "response",
          "unknown", "url"}

ASSUME PlacesDiffer == Place \in [Words -> Nat] /\ IsInjective(Place) /\ Fixed \subseteq Words
ASSUME JoinedIsOfWords == DOMAIN Joined \subseteq Words /\ \A w \in DOMAIN Joined : Joined[w] \in Ident
ASSUME SuffixesAreWords == Suffix \in [DOMAIN Suffix -> Words] /\ "root" \in DOMAIN Suffix
ASSUME StandingNames ==
    \A standing \in {ServersModule, TypesModule, ClientMethods, Reexports} :
        IsFiniteSet(standing) /\ \A name \in standing : name \in Ident

Pieces(word) == IF word \in DOMAIN Joined THEN Joined[word] ELSE <<word>>

(* escape, without keywords and leading digits. *)
Escape(hint, role) ==
    IF hint = <<>> THEN <<"generated">>
    ELSE IF role = "snake" THEN hint
    ELSE FlattenSeq([i \in DOMAIN hint |-> Pieces(hint[i])])

(* The order of strings, word by word: any total order of names would do. *)
Spelled(name) == [i \in DOMAIN name |-> Place[name[i]]]
Precedes(s, t) ==
    \/ IsStrictPrefix(s, t)
    \/ \E i \in DOMAIN s \intersect DOMAIN t :
          /\ s[i] < t[i]
          /\ \A j \in 1..(i - 1) : s[j] = t[j]

-----------------------------------------------------------------------------
(* The n-th spelling disambiguate tries. *)
Candidate(base, role, seed, n) ==
    Escape(base \o <<Suffix[seed]>> \o (IF n = 1 THEN <<>> ELSE <<Numeral(n)>>), role)

(* Mistake: the first spelling is taken to be free. *)
DisambiguatedOnce(used, base, role, seed) == Candidate(base, role, seed, 1)

Disambiguated(used, base, role, seed) ==
    LET free == {n \in 1..(Cardinality(used) + 1) : Candidate(base, role, seed, n) \notin used}
    IN  Candidate(base, role, seed, Min(free))

Reserved(used, names) == used \union names

(* A request, a RankedRequest where it is one of a batch: who asks, the    *)
(* spelling, the seed, the rank, a tuple of numbers, and the place in the  *)
(* listing, another.                                                       *)
Ask(key, hint, seed, rank, listed) ==
    [key |-> key, hint |-> hint, seed |-> seed, rank |-> rank, listed |-> listed]

Base(ask, role) == Escape(ask.hint, role)

(* Scope::alloc, the name it gives. *)
Alloc(used, ask, role) ==
    IF Base(ask, role) \notin used THEN Base(ask, role)
    ELSE Disambiguated(used, Base(ask, role), role, ask.seed)

(* The names taken when the first s of some requests have been served in   *)
(* turn, those at the places kept excepted.                                *)
Taken(used, order, role, kept) ==
    LET taken[s \in 0..Len(order)] ==
            IF s = 0 THEN used
            ELSE LET before == taken[s - 1]
                 IN  IF s \in kept THEN before ELSE before \union {Alloc(before, order[s], role)}
    IN  taken

(* An item is a key: the Rust scope its name ends in, its family, and what *)
(* it names.  A grant is what an item was given.                           *)
Key(scope, family, item) == [scope |-> scope, family |-> family, item |-> item]
Grant(name, base, rank) == [name |-> name, base |-> base, rank |-> rank]

(* What serving requests comes to: the names taken then, and the grants.   *)
Served(used, order, role, kept) ==
    LET taken == Taken(used, order, role, kept)
        names == [s \in DOMAIN order |-> IF s \in kept THEN Base(order[s], role)
                                         ELSE Alloc(taken[s - 1], order[s], role)]
    IN  [used |-> used \union ToSet(names),
         given |-> [k \in {order[s].key : s \in DOMAIN order} |->
             LET s == CHOOSE i \in DOMAIN order : order[i].key = k
             IN  Grant(names[s], Base(order[s], role), order[s].rank)]]

(* Tuples of such tuples, by the first that differ. *)
Sooner(x, y) == \E i \in DOMAIN x : Precedes(x[i], y[i]) /\ \A j \in 1..(i - 1) : x[j] = y[j]

InOrder(asks, place) ==
    LET at == [a \in asks |-> 1 + Cardinality({b \in asks : Sooner(place[b], place[a])})]
    IN  [s \in 1..Cardinality(asks) |-> CHOOSE a \in asks : at[a] = s]

(* Scope::alloc for each of some requests, as they are listed. *)
AllocEach(used, asks, role) ==
    Served(used, InOrder(asks, [a \in asks |-> <<a.listed>>]), role, {})

(* The order alloc_ranked sorts its requests into: by base, then by rank, *)
(* requests of equal rank as they are listed.                             *)
Sorted(asks, role) ==
    InOrder(asks, [a \in asks |-> <<Spelled(Base(a, role)), a.rank, a.listed>>])

(* Its first pass: who leads its spelling takes it, if it is free. *)
Winners(used, order, role) ==
    {s \in DOMAIN order :
        /\ s = 1 \/ Base(order[s - 1], role) # Base(order[s], role)
        /\ Base(order[s], role) \notin used}

(* Scope::alloc_ranked: the second pass disambiguates the others in order, *)
(* the spelling of each being taken by then.                               *)
AllocRanked(used, asks, role) ==
    LET order == Sorted(asks, role)
        winners == Winners(used, order, role)
    IN  Served(used \union {Base(order[s], role) : s \in winners}, order, role, winners)

-----------------------------------------------------------------------------
OperationAsk(scope, family, ops, i, hint) ==
    Ask(Key(scope, family, <<ops[i].id>>), hint, ops[i].seed, <<ops[i].rank>>, <<i>>)

(* What a list of items comes to, served in their order. *)
Row(used, scope, family, items, hints, role, seed) ==
    AllocEach(used,
              {Ask(Key(scope, family, items[i]), hints[i], seed, <<i>>, <<i>>) : i \in DOMAIN items},
              role)

NameOf(given, scope, family, o) == given[Key(scope, family, <<o.id>>)].name

Ids(list) == [i \in DOMAIN list |-> <<list[i].id>>]
Hints(list) == [i \in DOMAIN list |-> list[i].words]

Merged(functions) ==
    [k \in UNION {DOMAIN f : f \in functions} |-> (CHOOSE f \in functions : k \in DOMAIN f)[k]]

-----------------------------------------------------------------------------
(* Types: a declared schema before an inline one before an anonymous one,  *)
(* then by document and pointer.                                           *)

TypeRank(t) ==
    IF t.anonymous THEN <<1, 0, 0>> ELSE <<0, IF t.declared THEN 0 ELSE 1, t.place>>

TypeAsk(types, i, rank) ==
    Ask(Key(<<"types">>, "model", <<types[i].id>>), types[i].hint, types[i].seed, rank, <<i>>)

(* Mistake: the order of the listing decides between two types. *)
TypeAsksAsListed(types) == {TypeAsk(types, i, <<i>>) : i \in DOMAIN types}

TypeAsks(types) == {TypeAsk(types, i, TypeRank(types[i])) : i \in DOMAIN types}

TypeBatch(used, types) == AllocRanked(used, TypeAsks(types), "pascal")

-----------------------------------------------------------------------------
(* Operations: the smaller operationId first, under whatever is named      *)
(* after it.                                                               *)

MethodBatch(used, ops) ==
    AllocRanked(used,
        {OperationAsk(<<"impl">>, "method", ops, i, ops[i].words) : i \in DOMAIN ops}, "snake")

ParamsBatch(used, ops) ==
    AllocRanked(used,
        {OperationAsk(<<"root">>, "params", ops, i, ops[i].words \o <<"params">>) : i \in DOMAIN ops},
        "pascal")

(* After every method, so that the accessor yields. *)
AccessorBatch(used, given, ops) ==
    AllocRanked(used,
        {OperationAsk(<<"impl">>, "accessor", ops, i,
                      NameOf(given, <<"impl">>, "method", ops[i]) \o <<"url">>) : i \in DOMAIN ops},
        "snake")

(* The header structs, among the types, each with its fields. *)
HeaderAsk(o, i, j) ==
    LET label == o.headers[j].label
    IN  Ask(Key(<<"types">>, "headers", <<o.id, label>>), o.words \o <<label, "headers">>,
            "root", <<o.rank, Place[label]>>, <<i, j>>)

HeaderFields(o, h) ==
    Row({}, <<"header fields", o.id, h.label>>, "header", Ids(h.fields), Hints(h.fields),
        "snake", "root").given

(* allocate_response_headers *)
HeaderBatch(used, ops) ==
    LET structs == AllocRanked(used,
                       UNION {{HeaderAsk(ops[i], i, j) : j \in DOMAIN ops[i].headers} : i \in DOMAIN ops},
                       "pascal")
    IN  [used |-> structs.used,
         given |-> Merged({structs.given}
             \union UNION {{HeaderFields(o, h) : h \in ToSet(o.headers)} : o \in ToSet(ops)})]

(* allocate_operation_types: an error whose plain form is a re-export is *)
(* widened, and yields to a plain one.                                   *)
ErrorAsk(given, ops, i) ==
    LET method == NameOf(given, <<"impl">>, "method", ops[i])
        widened == Escape(method \o <<"error">>, "pascal") \in Reexports
    IN  Ask(Key(<<"root">>, "error", <<ops[i].id>>),
            method \o (IF widened THEN <<"operation", "error">> ELSE <<"error">>),
            ops[i].seed, <<IF widened THEN 1 ELSE 0>> \o Spelled(method), <<i>>)

SuccessAsk(given, ops, i) ==
    LET method == NameOf(given, <<"impl">>, "method", ops[i])
    IN  Ask(Key(<<"root">>, "success", <<ops[i].id>>), method \o <<"response">>,
            ops[i].seed, Spelled(method), <<i>>)

ErrorBatch(used, given, ops) ==
    AllocRanked(used, {ErrorAsk(given, ops, i) : i \in DOMAIN ops}, "pascal")

SuccessBatch(used, given, ops) ==
    AllocRanked(used, {SuccessAsk(given, ops, i) : i \in {j \in DOMAIN ops : ops[j].enum}}, "pascal")

-----------------------------------------------------------------------------
(* The signature of a method: its parameters, required ones in the scope   *)
(* of the arguments and optional ones in that of the params struct, and    *)
(* then the bindings of the method, which yield to the arguments.          *)

(* allocate_parameters *)
ParameterBatch(o, used, required) ==
    LET scope == IF required THEN <<"args", o.id>> ELSE <<"fields", o.id>>
    IN  AllocRanked(used,
            {Ask(Key(scope, "param", <<o.params[i].id>>), o.params[i].words, o.params[i].id,
                 <<o.params[i].loc, o.params[i].rank>>, <<i>>) :
               i \in {j \in DOMAIN o.params : o.params[j].required = required}},
            "snake")

Bindings(o) ==
    (IF \E i \in DOMAIN o.params : ~ o.params[i].required THEN << <<"params">> >> ELSE <<>>)
    \o (IF o.body THEN << <<"body">> >> ELSE <<>>)
    \o << <<"path">>, <<"query">>, <<"raw", "query">>, <<"url">>, <<"request">>,
          <<"reconnect", "request">>, <<"cookies">> >>

BindingRow(o, used) ==
    Row(used, <<"args", o.id>>, "binding", Bindings(o), Bindings(o), "snake", o.seed)

(* Mistake: the bindings are allocated first. *)
SignatureBindingsFirst(o) ==
    LET bindings == BindingRow(o, {})
    IN  Merged({bindings.given, ParameterBatch(o, bindings.used, TRUE).given,
                ParameterBatch(o, {}, FALSE).given})

Signature(o) ==
    LET required == ParameterBatch(o, {}, TRUE)
    IN  Merged({required.given, ParameterBatch(o, {}, FALSE).given,
                BindingRow(o, required.used).given})

-----------------------------------------------------------------------------
(* The members of a type, in their order, and then what the generator adds *)
(* to them: the overflow map of a struct, the open variant of an enum.     *)

Added(t) ==
    IF ~ t.open THEN <<>>
    ELSE CASE t.kind = "struct" -> << <<"additional">> >>
           [] t.kind = "enum" -> << <<"other">> >>
           [] t.kind = "union" -> << <<"unknown">> >>

MemberRole(t) == IF t.kind = "struct" THEN "snake" ELSE "pascal"

ListedRow(t, used) ==
    Row(used, <<"members", t.id>>, "listed", Ids(t.members), Hints(t.members), MemberRole(t), t.seed)

AddedRow(t, used) ==
    Row(used, <<"members", t.id>>, "added", Added(t), Added(t), MemberRole(t), t.seed)

(* Mistake: what the generator adds comes first. *)
MembersAddedFirst(t) ==
    LET added == AddedRow(t, {}) IN Merged({added.given, ListedRow(t, added.used).given})

Members(t) ==
    LET listed == ListedRow(t, {}) IN Merged({listed.given, AddedRow(t, listed.used).given})

-----------------------------------------------------------------------------
(* Servers: a builder and an enum for each variable with listed values, in *)
(* one scope and in their order; setters and values in scopes of their own.*)

BuilderAsks(s, i) ==
    {Ask(Key(<<"servers">>, "server", <<s.id>>), s.hint, "root", <<i, 0>>, <<i, 0>>)}
    \union {Ask(Key(<<"servers">>, "variable", <<s.id, s.variables[j].id>>),
                s.hint \o s.variables[j].words, "root", <<i, j>>, <<i, j>>) :
               j \in {l \in DOMAIN s.variables : s.variables[l].values # <<>>}}

BuilderRow(servers) ==
    AllocEach(Reserved({}, ServersModule),
              UNION {BuilderAsks(servers[i], i) : i \in DOMAIN servers}, "pascal")

Setters(s) ==
    Row({}, <<"setters", s.id>>, "setter", Ids(s.variables), Hints(s.variables), "snake", "root").given

Values(s, v) ==
    Row({}, <<"values", s.id, v.id>>, "value", v.values, v.values, "pascal", "root").given

ServerNames(servers) ==
    Merged({BuilderRow(servers).given}
           \union {Setters(s) : s \in ToSet(servers)}
           \union UNION {{Values(s, v) : v \in ToSet(s.variables)} : s \in ToSet(servers)})

-----------------------------------------------------------------------------
(* The scopes that families share, before the first of them is named. *)
FreshScopes ==
    [types |-> Reserved({}, TypesModule),
     impl |-> Reserved({}, ClientMethods),
     root |-> Reserved({}, Reexports)]

(* allocate: the names of a whole API. *)
Allocated(a) ==
    LET types == TypeBatch(FreshScopes.types, a.types)
        headers == HeaderBatch(types.used, a.ops)
        methods == MethodBatch(FreshScopes.impl, a.ops)
        params == ParamsBatch(FreshScopes.root, a.ops)
        accessors == AccessorBatch(methods.used, methods.given, a.ops)
        errors == ErrorBatch(params.used, methods.given, a.ops)
        successes == SuccessBatch(errors.used, methods.given, a.ops)
    IN  Merged({types.given, headers.given, methods.given, params.given, accessors.given,
                errors.given, successes.given, ServerNames(a.servers),
                Merged({Signature(o) : o \in ToSet(a.ops)}),
                Merged({Members(t) : t \in ToSet(a.types)})})
-----------------------------------------------------------------------------
(* What lowering makes of a document: every item has an identity, and what *)
(* ranks two items tells them apart.                                       *)

IsList(list) == Len(list) \in Nat /\ DOMAIN list = 1..Len(list)

Listing(list) == IsList(list) /\ \A i, j \in DOMAIN list : list[i].id = list[j].id => i = j

Worded(list) == \A item \in ToSet(list) : item.words \in Ident

WellFormedType(t) ==
    /\ t.hint \in Ident /\ t.seed \in DOMAIN Suffix /\ t.place \in Nat
    /\ Listing(t.members) /\ Worded(t.members)
    /\ t.open => t.kind \in {"struct", "enum", "union"}

WellFormedHeader(h) == h.label \in Words /\ Listing(h.fields) /\ Worded(h.fields)

WellFormedOperation(o) ==
    /\ o.words \in Ident /\ o.rank \in Nat /\ o.seed \in DOMAIN Suffix
    /\ Listing(o.params) /\ Worded(o.params)
    /\ \A p \in ToSet(o.params) : p.id \in DOMAIN Suffix /\ p.loc \in Nat /\ p.rank \in Nat
    /\ \A p, q \in ToSet(o.params) : p.loc = q.loc /\ p.rank = q.rank => p = q
    /\ IsList(o.headers) /\ \A h \in ToSet(o.headers) : WellFormedHeader(h)
    /\ \A i, j \in DOMAIN o.headers : o.headers[i].label = o.headers[j].label => i = j

WellFormedServer(s) ==
    /\ s.hint \in Ident
    /\ Listing(s.variables) /\ Worded(s.variables)
    /\ \A v \in ToSet(s.variables) : IsList(v.values) /\ \A w \in ToSet(v.values) : w \in Ident

WellFormed(a) ==
    /\ Listing(a.servers) /\ \A s \in ToSet(a.servers) : WellFormedServer(s)
    /\ Listing(a.types) /\ \A t \in ToSet(a.types) : WellFormedType(t)
    /\ Listing(a.ops) /\ \A o \in ToSet(a.ops) : WellFormedOperation(o)
    /\ \A t, u \in ToSet(a.types) : TypeRank(t) = TypeRank(u) => t.seed = u.seed
    /\ \A o, p \in ToSet(a.ops) : o.rank = p.rank => o = p
=============================================================================
