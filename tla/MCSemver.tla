------------------------------ MODULE MCSemver ------------------------------
(* What a client may become, kind of difference by kind of difference:       *)
(* parameters, responses, names, types, servers.                             *)
EXTENDS Semver

CONSTANT PoolNames

MCDictionary == <<"ab1", "additional", "body", "cookies", "default", "ee", "env", "error", "f0",
    "generated", "get", "headers", "host", "id", "limit", "name", "none", "operation", "other", "page",
    "params", "path", "pet", "port", "query", "raw", "reconnect", "request", "response", "s200",
    "s404", "size", "trace", "unknown", "url", "v", "v2", "2">>
MCPlace == [w \in ToSet(MCDictionary) |-> CHOOSE i \in DOMAIN MCDictionary : MCDictionary[i] = w]
MCNumeral(n) == ToString(n)
MCJoined == [w \in {"v2"} |-> <<"v", "2">>]
ParamNames == {"id", "size", "page_size", "limit", "trace"}
Identity(loc, name) == ToString(loc) \o ":" \o name
MCSuffix == [p \in {"root", "a", "b", "c"} \union {Identity(l, n) : l \in 0..4, n \in ParamNames} |->
               CASE p = "root" -> "f0" [] p \in {"a", "3:limit", "3:size"} -> "ee" [] OTHER -> "ab1"]

Str == Ref("String", FALSE)
I64 == Ref("i64", FALSE)
Null(ty) == [ty EXCEPT !.null = TRUE]

-----------------------------------------------------------------------------
P(name, words, loc, rank, required) ==
    [id |-> Identity(loc, name), name |-> name, words |-> words, loc |-> loc, rank |-> rank,
     required |-> required, ty |-> Str, json |-> FALSE]

(* Two parameters of one operation differ in their name or their place. *)
At(loc, p) == [p EXCEPT !.loc = loc, !.id = Identity(loc, p.name)]
Id == P("id", <<"id">>, 0, 1, TRUE)
Trace == P("trace", <<"trace">>, 3, 2, TRUE)
Limit == P("limit", <<"limit">>, 3, 3, FALSE)
Size == P("size", <<"page", "size">>, 3, 4, FALSE)
PageSize == P("page_size", <<"page", "size">>, 2, 5, FALSE)

Payload(ty, required) == {[ty |-> ty, required |-> required]}

S200 == R!Exact(200)
S201 == R!Exact(201)
S404 == R!Exact(404)
S4xx == R!InRange(4)
Selectors == {S200, S201, S404, S4xx, R!Default}

Op(words, rank, seed) ==
    [id |-> seed, key |-> seed, words |-> words, rank |-> rank, seed |-> seed, params |-> <<>>,
     body |-> FALSE, payload |-> {}, enum |-> FALSE, headers |-> <<>>,
     table |-> [s \in Selectors |-> IF s = S200 THEN "body" ELSE "none"],
     bodies |-> [s \in Selectors |-> Str]]

Read == Op(<<"get">>, 1, "a")

With(o, ps, payload) == [o EXCEPT !.params = ps, !.payload = payload, !.body = payload # {}]

Answering(o, table, bodies) ==
    LET full == [s \in Selectors |-> IF s \in DOMAIN table THEN table[s] ELSE "none"]
    IN  [o EXCEPT !.table = full, !.bodies = bodies @@ @,
                  !.enum = R!SuccessShape(full).shape = "enum"]

Api(types, ops, servers) == [types |-> types, ops |-> ops, servers |-> servers]

ParamLists == <<
    <<>>, <<Id>>, <<At(2, Id)>>, <<At(3, Id)>>, <<At(4, Id)>>, <<Id, Trace>>, <<Trace, Id>>,
    <<Id, At(2, Trace)>>, <<At(2, Trace), Id>>, <<Id, At(3, Id)>>, <<Id, At(4, Id)>>,
    <<At(3, Id), At(4, Id)>>, <<Id, Limit>>, <<Id, At(4, Limit)>>, <<Id, At(2, Limit)>>,
    <<Id, Limit, At(4, Limit)>>, <<Id, At(2, Limit), Limit>>, <<Id, Size>>, <<Id, Size, PageSize>>,
    <<Id, PageSize, Size>>, <<Id, PageSize>>, <<Limit>>, <<PageSize>>,
    <<Id, [Limit EXCEPT !.ty = Null(Str)]>>, <<Id, [Limit EXCEPT !.ty = Null(Str), !.json = TRUE]>>,
    <<Id, [Limit EXCEPT !.ty = I64]>>, <<[Id EXCEPT !.ty = Null(Str)]>>, <<[Id EXCEPT !.ty = I64]>>,
    <<Id, [Limit EXCEPT !.required = TRUE]>>, <<[Trace EXCEPT !.required = FALSE], Id>> >>

Payloads == << Payload(Str, TRUE), Payload(Str, FALSE), Payload(I64, TRUE) >>

ParamPool ==
    [i \in DOMAIN ParamLists |-> Api(<<>>, <<With(Read, ParamLists[i], {})>>, <<>>)]
    \o [i \in DOMAIN Payloads |-> Api(<<>>, <<With(Read, <<Id, Limit>>, Payloads[i])>>, <<>>)]
    \o << Api(<<>>, <<With(Read, <<Id>>, Payloads[1])>>, <<>>) >>

-----------------------------------------------------------------------------
Tables == <<
    S200 :> "empty", S200 :> "body", S200 :> "stream", S200 :> "none",
    S200 :> "body" @@ S201 :> "empty", S200 :> "body" @@ S201 :> "body",
    S200 :> "empty" @@ S201 :> "body", S200 :> "stream" @@ S201 :> "empty",
    R!Default :> "body", R!Default :> "stream",
    S200 :> "body" @@ S404 :> "body", S200 :> "body" @@ S404 :> "empty",
    S200 :> "body" @@ R!Default :> "body", S200 :> "body" @@ S404 :> "body" @@ R!Default :> "empty",
    S200 :> "body" @@ S404 :> "empty" @@ R!Default :> "body",
    S200 :> "body" @@ S404 :> "body" @@ R!Default :> "body",
    S200 :> "body" @@ S404 :> "body" @@ S4xx :> "empty",
    S200 :> "body" @@ S404 :> "empty" @@ S4xx :> "body" >>

BodyTypes == << [s \in {} |-> Str], [s \in Selectors |-> IF s \in {S404, S201} THEN I64 ELSE Str],
                [s \in Selectors |-> IF s = R!Default THEN Null(Str) ELSE Str] >>

H(id, words, ty, required) == [id |-> id, words |-> words, ty |-> ty, required |-> required]
Total == H("limit", <<"limit">>, Str, FALSE)
Headed == <<
    <<>>, <<[label |-> "s200", fields |-> <<Total>>]>>, <<[label |-> "s404", fields |-> <<Total>>]>>,
    <<[label |-> "s200", fields |-> <<Total, H("trace", <<"trace">>, Str, FALSE)>>]>>,
    <<[label |-> "s200", fields |-> <<H("page_size", <<"page", "size">>, Str, FALSE),
                                      H("size", <<"page", "size">>, I64, FALSE)>>]>>,
    <<[label |-> "s200", fields |-> <<H("size", <<"page", "size">>, I64, FALSE),
                                      H("page_size", <<"page", "size">>, Str, FALSE)>>]>>,
    <<[label |-> "s200", fields |-> <<[Total EXCEPT !.required = TRUE]>>]>>,
    <<[label |-> "s200", fields |-> <<Total>>], [label |-> "s404", fields |-> <<Total>>]>> >>

ResponsePool ==
    FlattenSeq([b \in DOMAIN BodyTypes |->
        [i \in DOMAIN Tables |-> Api(<<>>, <<Answering(Read, Tables[i], BodyTypes[b])>>, <<>>)]])
    \o [i \in DOMAIN Headed |-> Api(<<>>, <<[Read EXCEPT !.headers = Headed[i]]>>, <<>>)]

-----------------------------------------------------------------------------
Schema(id, hint, place, kind, members, open, target) ==
    [id |-> id, hint |-> hint, seed |-> "b", place |-> place, declared |-> TRUE,
     anonymous |-> FALSE, kind |-> kind, members |-> members, open |-> open, target |-> target]

Pet(kind, members, open, target) == Schema("pet", <<"pet">>, 1, kind, members, open, target)
Headers200 == Schema("clash", <<"get", "s200", "headers">>, 2, "struct", <<>>, FALSE, Str)

Name == H("name", <<"name">>, Str, TRUE)
V2 == H("v2", <<"v2">>, Str, TRUE)
V_2 == H("v_2", <<"v", "2">>, I64, TRUE)

Pets == <<
    Pet("scalar", <<>>, FALSE, Str), Pet("scalar", <<>>, FALSE, I64), Pet("list", <<>>, FALSE, Str),
    Pet("newtype", <<>>, FALSE, Str), Pet("newtype", <<>>, FALSE, I64), Pet("never", <<>>, FALSE, Str),
    Pet("struct", <<>>, FALSE, Str), Pet("struct", <<>>, TRUE, Str), Pet("struct", <<Name>>, FALSE, Str),
    Pet("struct", <<Name>>, TRUE, Str), Pet("struct", <<Name>>, TRUE, I64),
    Pet("struct", <<H("additional", <<"additional">>, Str, FALSE)>>, TRUE, Str),
    Pet("struct", <<H("additional", <<"additional">>, Str, FALSE)>>, FALSE, Str),
    Pet("struct", <<[Name EXCEPT !.required = FALSE]>>, FALSE, Str),
    Pet("struct", <<[Name EXCEPT !.ty = Null(Str)]>>, FALSE, Str),
    Pet("struct", <<Name, [Name EXCEPT !.id = "Name", !.required = FALSE]>>, FALSE, Str),
    Pet("enum", <<V2>>, FALSE, Str), Pet("enum", <<V2, V_2>>, FALSE, Str),
    Pet("enum", <<V_2, V2>>, FALSE, Str), Pet("enum", <<V2>>, TRUE, Str),
    Pet("enum", <<H("other", <<"other">>, Str, TRUE)>>, TRUE, Str),
    Pet("enum", <<H("other", <<"other">>, Str, TRUE)>>, FALSE, Str),
    Pet("union", <<V2>>, FALSE, Str), Pet("union", <<V_2>>, FALSE, Str),
    Pet("union", <<V2, V_2>>, FALSE, Str), Pet("union", <<V2>>, TRUE, Str) >>

(* A type named None, alone and as the error of an operation. *)
None == Schema("none", <<"none">>, 1, "struct", <<>>, FALSE, Str)
Failing == Answering(Read, S200 :> "body" @@ S404 :> "body",
                     [s \in Selectors |-> IF s = S404 THEN Ref("none", FALSE) ELSE Str])

Uses == [Read EXCEPT !.bodies = [s \in Selectors |-> Ref("pet", FALSE)]]

TypePool ==
    [i \in DOMAIN Pets |-> Api(<<Pets[i]>>, <<Uses>>, <<>>)]
    \o [i \in DOMAIN Pets |-> Api(<<Pets[i]>>, <<Read>>, <<>>)]
    \o << Api(<<None>>, <<Read>>, <<>>), Api(<<None>>, <<Failing>>, <<>>)>>
    \o << Api(<<>>, <<Read>>, <<>>), Api(<<Headers200>>, <<[Read EXCEPT !.headers = Headed[2]]>>, <<>>),
          Api(<<>>, <<[Read EXCEPT !.headers = Headed[2]]>>, <<>>),
          Api(<<Pets[9], [Pets[9] EXCEPT !.id = "Pet", !.place = 2, !.seed = "c"]>>, <<Read>>, <<>>),
          Api(<<Pets[9], [Pets[1] EXCEPT !.id = "Pet", !.place = 0, !.seed = "c"]>>, <<Read>>, <<>>) >>

-----------------------------------------------------------------------------
GetV2 == With(Op(<<"get", "v2">>, 3, "b"), <<Limit>>, {})
GetV_2 == With(Op(<<"get", "v", "2">>, 2, "c"), <<Limit>>, {})
GetUrl == Op(<<"get", "url">>, 0, "root")
Many == Answering(Read, S200 :> "body" @@ S201 :> "body" @@ S404 :> "body", [s \in {} |-> Str])

Operations == <<Read, GetV2, GetV_2, GetUrl, With(GetUrl, <<Id>>, {}), Many,
                [Read EXCEPT !.id = "b", !.key = "b", !.seed = "b", !.rank = 4]>>

Listings == << <<1>>, <<2>>, <<3>>, <<2, 3>>, <<3, 2>>, <<1, 2>>, <<1, 4>>, <<1, 5>>, <<1, 2, 3>>,
               <<1, 2, 4>>, <<1, 2, 3, 5>>, <<4, 1>>, <<6>>, <<6, 4>>, <<6, 7>>, <<7, 6>>, <<7>> >>

NamePool ==
    [l \in DOMAIN Listings |->
        Api(<<>>, [i \in DOMAIN Listings[l] |-> Operations[Listings[l][i]]], <<>>)]

-----------------------------------------------------------------------------
V(id, words, values) == [id |-> id, words |-> words, values |-> values]
Server(id, hint, variables) == [id |-> id, hint |-> hint, variables |-> variables]

Env == V("env", <<"env">>, << <<"v2">>, <<"name">> >>)
Port == V("port", <<"port">>, <<>>)
Main(variables) == Server("s0", <<"default">>, variables)

ServerLists == <<
    <<>>, <<Main(<<>>)>>, <<Main(<<Port>>)>>, <<Main(<<Env>>)>>, <<Main(<<Env, Port>>)>>,
    <<Main(<<[Env EXCEPT !.values = <<>>]>>)>>,
    <<Main(<<[Env EXCEPT !.values = @ \o << <<"v", "2">> >>]>>)>>,
    <<Main(<<[Env EXCEPT !.values = << <<"v", "2">>, <<"v2">> >>]>>)>>,
    <<Main(<<[Env EXCEPT !.values = << <<"v2">> >>]>>)>>,
    <<Server("s1", <<"default", "env">>, <<>>), Main(<<Env>>)>>,
    <<Main(<<Env>>), Server("s1", <<"default", "env">>, <<>>)>>,
    <<Main(<<Env, [Env EXCEPT !.id = "ENV"]>>)>>,
    <<Server("s1", <<"host">>, <<Port>>), Main(<<Port>>)>> >>

ServerPool == [i \in DOMAIN ServerLists |-> Api(<<>>, <<Read>>, ServerLists[i])]

-----------------------------------------------------------------------------
MCPools == [params |-> ParamPool, responses |-> ResponsePool, types |-> TypePool,
            names |-> NamePool, servers |-> ServerPool]

Chosen == [p \in PoolNames |-> ToSet(MCPools[p])]

MCServersModule == {<<"generated">>}
MCTypesModule == {<<"operation">>}
MCClientMethods == {<<"host">>}
MCReexports == {<<"request", "error">>}
=============================================================================
