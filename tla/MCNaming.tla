------------------------------ MODULE MCNaming ------------------------------
(* Pools of types and operations whose names meet: by case, by what runs    *)
(* together, by a suffix, across the families of a scope, and with what     *)
(* stands in the scope.                                                     *)
EXTENDS Naming

CONSTANTS PoolTypes, PoolOps

MCDictionary == <<"1", "2", "3", "4", "ab1", "additional", "body", "cookies", "date",
    "default", "ee", "error", "f0", "generated", "get", "headers", "host", "item", "new",
    "operation", "other", "page", "params", "path", "pet", "query", "raw", "reconnect",
    "request", "response", "s200", "s404", "shape", "size", "type", "unknown", "url", "v", "v2">>
MCPlace == [w \in ToSet(MCDictionary) |-> CHOOSE i \in DOMAIN MCDictionary : MCDictionary[i] = w]
MCNumeral(n) == ToString(n)
MCJoined == [w \in {"v2"} |-> <<"v", "2">>]
(* Two pointers hash alike: b and c. *)
MCSuffix == [p \in {"root", "a", "b", "c", "d", "path:id", "query:id", "query:page-size",
                    "header:page_size"} |->
               CASE p = "root" -> "f0" [] p = "a" -> "ee" [] OTHER -> "ab1"]

M(id, words) == [id |-> id, words |-> words]

Model(id, hint, seed, place, declared) ==
    [id |-> id, hint |-> hint, seed |-> seed, place |-> place, declared |-> declared,
     anonymous |-> seed = "root", kind |-> "struct", members |-> <<>>, open |-> FALSE]

TypePool == <<
    [Model("Shape", <<"shape">>, "a", 1, TRUE) EXCEPT !.kind = "enum",
        !.members = <<M("OTHER", <<"other">>), M("v2", <<"v2">>), M("v-2", <<"v", "2">>),
                        M("V2", <<"v2">>)>>],
    [Model("inline", <<"shape">>, "b", 2, FALSE) EXCEPT
        !.members = <<M("additional", <<"additional">>), M("page-size", <<"page", "size">>),
                        M("page_size", <<"page", "size">>)>>],
    Model("suffixed", <<"shape", "ab1">>, "d", 3, TRUE),
    Model("synthA", <<"shape">>, "root", 0, FALSE),
    Model("synthB", <<"shape">>, "root", 0, FALSE),
    Model("getHeaders", <<"get", "s200", "headers">>, "c", 4, TRUE),
    Model("date", <<"date">>, "c", 5, TRUE)>>

P(id, loc, words, rank, required) ==
    [id |-> id, loc |-> loc, words |-> words, rank |-> rank, required |-> required]
Id(loc, name) == P(name, loc, <<"item">>, 1, TRUE)

Header(label) ==
    [label |-> label,
     fields |-> <<M("page-size", <<"page", "size">>), M("page_size", <<"page", "size">>)>>]

Op(id, words, rank, seed) ==
    [id |-> id, words |-> words, rank |-> rank, seed |-> seed, params |-> <<>>,
     body |-> FALSE, enum |-> TRUE, headers |-> <<Header("s200")>>]

OpPool == <<
    [Op("get", <<"get">>, 1, "a") EXCEPT !.headers = <<Header("s200"), Header("s404")>>,
        !.params = <<P("path:id", 0, <<"body">>, 1, TRUE), P("query:id", 1, <<"body">>, 1, TRUE),
                     P("query:page-size", 1, <<"page", "size">>, 2, FALSE),
                     P("header:page_size", 3, <<"page", "size">>, 3, FALSE)>>],
    Op("getUrl", <<"get", "url">>, 2, "b"),
    Op("get_v2", <<"get", "v2">>, 3, "b"),
    Op("get_v_2", <<"get", "v", "2">>, 4, "c"),
    Op("request", <<"request">>, 5, "d"),
    Op("requestOperation", <<"request", "operation">>, 6, "c"),
    Op("GET", <<"get">>, 0, "c"),
    Op("getParams", <<"get", "params", "error">>, 7, "d"),
    Op("new", <<"new">>, 8, "d")>>

MCServers == <<
    [id |-> "s0", hint |-> <<"default">>,
     variables |-> <<[id |-> "host", words |-> <<"host">>, values |-> << <<"v2">>, <<"v", "2">> >>],
                     [id |-> "HOST", words |-> <<"host">>, values |-> << <<"1">> >>]>>],
    [id |-> "s1", hint |-> <<"default", "host">>,
     variables |-> <<[id |-> "url", words |-> <<"url">>, values |-> <<>>],
                     [id |-> "URL", words |-> <<"url">>, values |-> <<>>]>>]>>

Chosen(pool, some) == [i \in DOMAIN SetToSortSeq(some, <) |-> pool[SetToSortSeq(some, <)[i]]]

Some(pool, n) == {Chosen(pool, s) : s \in {t \in SUBSET DOMAIN pool : Cardinality(t) = n}}
Api(types, ops) == [servers |-> MCServers, types |-> types, ops |-> ops]

MCApis ==
    {Api(ts, <<OpPool[1], OpPool[7]>>) : ts \in Some(TypePool, PoolTypes)}
    \cup {Api(<<TypePool[6]>>, os) : os \in Some(OpPool, PoolOps)}

Orders(list) == {[i \in DOMAIN list |-> list[f[i]]] :
                   f \in {g \in [DOMAIN list -> DOMAIN list] : IsInjective(g)}}
Turned(o) == [o EXCEPT !.params = Reverse(@), !.headers = Reverse(@)]
Opened(t) == [t EXCEPT !.open = TRUE]
Lean(o) == [o EXCEPT !.params = SelectSeq(@, LAMBDA p : p.required)]
Laden(o) == [o EXCEPT !.body = TRUE]

MCVariants(a) ==
    {[of |-> "order", api |-> [a EXCEPT !.types = ts,
                                        !.ops = [i \in DOMAIN os |-> Turned(os[i])]]] :
        ts \in Orders(a.types), os \in Orders(a.ops)}
    \cup {[of |-> "additions",
           api |-> [a EXCEPT !.types = [i \in DOMAIN a.types |-> Opened(a.types[i])],
                             !.ops = [i \in DOMAIN a.ops |-> f[i]]]] :
            f \in {[i \in DOMAIN a.ops |-> Lean(a.ops[i])], [i \in DOMAIN a.ops |-> Laden(a.ops[i])]}}

MCServersModule == {<<"default">>}
MCTypesModule == {<<"date">>}
MCClientMethods == {<<"new">>}
MCReexports == {<<"request", "error">>, <<"error">>}
=============================================================================
