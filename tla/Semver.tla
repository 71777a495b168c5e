------------------------------- MODULE Semver -------------------------------
(***************************************************************************)
(* The releases of a generated client, each published with the version     *)
(* bump `spargen diff` asks for (diff_api.rs), and the code of a consumer  *)
(* written against one of them.                                            *)
(*                                                                         *)
(* A consumer takes every release of the major version its code is written *)
(* against.  What such code leans on is read off what the generator emits  *)
(* (codegen/operation.rs, codegen/params.rs, codegen/dispatch.rs), not off *)
(* the surface: a method is called with its arguments in their order, a    *)
(* member is set or read by its name and with its type.                    *)
(***************************************************************************)
EXTENDS Surface

(* For each client, the APIs it may come to have. *)
CONSTANT Pools

ASSUME PoolsAreWellFormed ==
    \A p \in DOMAIN Pools : \A api \in Pools[p] : WellFormed(api) /\ WellTyped(api)

VARIABLES releases,    \* the releases there may come to be
          published,   \* the last release
          written      \* the release the consumer's code is written against

releaseVars == <<releases, published, written>>

(* A release: an API with the names allocated for it and its surface. *)
ReleaseOf(api, names) == [api |-> api, names |-> names, surface |-> Surface(api, names)]

Release(api) == ReleaseOf(api, Allocated(api))

Asked(old, new) == Bump(Diff(old.surface, new.surface))

-----------------------------------------------------------------------------
(* After a major bump the consumer has to be written anew. *)
Publish(release) ==
    /\ published' = release
    /\ written' = IF Asked(published, release) = "major" THEN release ELSE written
    /\ UNCHANGED releases

Adopt ==
    /\ written # published
    /\ written' = published
    /\ UNCHANGED <<releases, published>>

ReleaseInit ==
    /\ releases \in {{Release(api) : api \in Pools[p]} : p \in DOMAIN Pools}
    /\ published \in releases
    /\ written = published

ReleaseNext ==
    \/ \E release \in releases : Publish(release)
    \/ Adopt

ReleaseSpec == ReleaseInit /\ [][ReleaseNext]_releaseVars

-----------------------------------------------------------------------------
(* What the generator emits for an operation. *)

Arg(of, ty, shapesUrl) == [of |-> of, ty |-> ty, shapesUrl |-> shapesUrl]

BodyArgTy(c, b) == Nullable(~ b.required, Canon(c.api, c.names, b.ty))

Bundled(o) == Optionals(o) # {}

(* OperationSig::new: the required parameters, the bundle, the body. *)
Places(o) ==
    {i \in DOMAIN o.params : o.params[i].required}
    \union (IF Bundled(o) THEN {BundlePlace(o)} ELSE {})
    \union (IF o.payload # {} THEN {BodyPlace(o)} ELSE {})

ArgAt(c, o, i) ==
    IF i = BundlePlace(o) THEN Arg("params", <<"Into">>, BundleShapesUrl(o))
    ELSE IF i = BodyPlace(o) THEN Arg("body", BodyArgTy(c, CHOOSE b \in o.payload : TRUE), FALSE)
    ELSE Arg(o.params[i].name, Canon(c.api, c.names, o.params[i].ty), IsUrlArg(o.params[i]))

ArgsAt(c, o, some) ==
    LET places == InPlace(some) IN [n \in DOMAIN places |-> ArgAt(c, o, places[n])]

Args(c, o) == ArgsAt(c, o, Places(o))

(* OperationSig::url_args *)
UrlArguments(c, o) == ArgsAt(c, o, {i \in Places(o) : ArgAt(c, o, i).shapesUrl})

(* emit_params_struct: a setter takes what the outer Option wraps. *)
SetterTy(c, p) == Canon(c.api, c.names, [p.ty EXCEPT !.null = SendsExplicitNull(p)])

Method(c, o) == NameOf(c.names, <<"impl">>, "method", o)

(* The variants of a status enum, or the one type. *)
Arms(c, o, shape) ==
    [enum |-> shape.shape = "enum",
     arms |-> [s \in shape.of |-> BodyTy(c.api, c.names, o, s)]]

Plainly(arms) == IF arms.enum THEN arms.arms ELSE {arms.arms[s] : s \in DOMAIN arms.arms}

Ops(c) == ToSet(c.api.ops)

-----------------------------------------------------------------------------
(* What code leans on. *)

AccessorCalls(c) ==
    {<<NameOf(c.names, <<"impl">>, "accessor", o), UrlArguments(c, o)>> : o \in Ops(c)}

Positions(o) == Places(o) \ {BundlePlace(o)}

Passed(c, o, i) == <<ArgAt(c, o, i).of, ArgAt(c, o, i).ty>>

(* The values a method takes, whatever their order, each as often as it takes it. *)
Arguments(c) ==
    {<<Method(c, o), {<<x, Cardinality({i \in Positions(o) : Passed(c, o, i) = x})>> :
                        x \in {Passed(c, o, i) : i \in Positions(o)}}>> : o \in Ops(c)}

(* For each optional parameter a setter, of parameters of one wire name one each. *)
Setter(c, p) == <<p.name, SetterTy(c, p)>>

Setting(c) ==
    UNION {UNION {{<<Method(c, o), Setter(c, p), n>> :
                      n \in 1..Cardinality({q \in Optionals(o) : Setter(c, q) = Setter(c, p)})} :
                  p \in Optionals(o)} : o \in Ops(c)}

Item(of, member, ty, required) == [of |-> of, member |-> member, ty |-> ty, required |-> required]

Listed(c, t) ==
    {Item(ModelName(c.names, t), MemberName(c.names, t, "listed", m.id),
          Canon(c.api, c.names, m.ty), m.required) : m \in ToSet(t.members)}

(* A model by its name and kind, with what it is read and matched by. *)
Model(c, t) ==
    LET name == ModelName(c.names, t)
        open(ty) == {Item(name, n, ty, TRUE) : n \in AddedName(c.names, t)}
    IN  {Item(name, <<>>, <<t.kind>>, TRUE)}
        \union CASE t.kind = "struct" -> Listed(c, t) \union open(Canon(c.api, c.names, t.target))
                 [] t.kind = "enum" ->
                      {Item(name, <<m.id>>, <<>>, TRUE) : m \in ToSet(t.members)} \union open(<<>>)
                 [] t.kind = "union" -> Listed(c, t) \union open(<<>>)
                 [] t.kind = "newtype" ->
                      {Item(name, <<"0">>, Canon(c.api, c.names, t.target), TRUE)}
                 [] OTHER -> {}

Models(c) == UNION {Model(c, t) : t \in {u \in ToSet(c.api.types) : u.kind \in Nominal}}

HeaderItems(c, o, h) ==
    LET name == c.names[Key(<<"types">>, "headers", <<o.id, h.label>>)].name
        field(f) == c.names[Key(<<"header fields", o.id, h.label>>, "header", <<f.id>>)].name
    IN  {Item(name, <<>>, <<>>, TRUE)}
        \union {Item(name, field(f), Canon(c.api, c.names, f.ty), f.required) : f \in ToSet(h.fields)}

HeaderStructs(c) == UNION {UNION {HeaderItems(c, o, h) : h \in ToSet(o.headers)} : o \in Ops(c)}

(* Builders, setters with what they take, and the variants of that. *)
SetterItems(c, s, v) ==
    LET builder == c.names[Key(<<"servers">>, "server", <<s.id>>)].name
        setter == c.names[Key(<<"setters", s.id>>, "setter", <<v.id>>)].name
        enum == c.names[Key(<<"servers">>, "variable", <<s.id, v.id>>)].name
        value(w) == c.names[Key(<<"values", s.id, v.id>>, "value", w)].name
    IN  IF v.values = <<>> THEN {Item(builder, setter, <<"String">>, TRUE)}
        ELSE {Item(builder, setter, enum, TRUE)}
             \union {Item(enum, value(w), <<>>, TRUE) : w \in ToSet(v.values)}

ServerItems(c) ==
    UNION {{Item(c.names[Key(<<"servers">>, "server", <<s.id>>)].name, <<>>, <<>>, TRUE)}
           \union UNION {SetterItems(c, s, v) : v \in ToSet(s.variables)} :
           s \in ToSet(c.api.servers)}

-----------------------------------------------------------------------------
(* A call of a method, as it is written: what is passed, in its order. *)
Call(c, o, places) ==
    LET at == InPlace(places) IN [n \in DOMAIN at |-> Passed(c, o, at[n])]

(* Not seen by the comparison: the first optional parameters of an operation, all of them   *)
(* headers and cookies, bring the bundle, an argument more.                                 *)
BundleArrives(o, p) == ~ Bundled(o) /\ Bundled(p) /\ ~ BundleShapesUrl(p)

(* Nor is the order of the required parameters, but of those that shape the URL. *)
Movable(o) ==
    \E i, j \in DOMAIN o.params : /\ i # j /\ o.params[i].required /\ o.params[j].required
                                  /\ ~ ShapesUrl(o.params[j])

(* A call that is written for o may stand when o has become p. *)
CallStands(c, o, d, p) ==
    LET call == Call(c, o, Places(o))
        now == Call(d, p, IF BundleArrives(o, p) THEN Positions(p) ELSE Places(p))
    IN  /\ DOMAIN call = DOMAIN now
        /\ call = now \/ Movable(o)

Success(c, o) == Plainly(Arms(c, o, R!SuccessShape(o.table)))
Error(c, o) == <<Plainly(Arms(c, o, R!ErrorShape(o.table))), ErrorBody(c.api, c.names, o)>>

(* Nor whether a method yields the one type it has, or a stream of it. *)
YieldsOne(o) == R!SuccessShape(o.table).shape = "one"

(* Nor is no error type told from a type that is named None. *)
NamedNone(c) == \E t \in ToSet(c.api.types) : t.kind \in Nominal /\ ModelName(c.names, t) = NoError
MayBeNone(c, o, d) ==
    ErrorSig(c.api, c.names, o) = NoError /\ (NamedNone(c) \/ NamedNone(d))

YieldStands(c, o, d, p) ==
    /\ Success(c, o) = Success(d, p)
    /\ \/ R!StreamSuccess(o.table) = R!StreamSuccess(p.table)
       \/ YieldsOne(o) /\ YieldsOne(p)
    /\ \/ Error(c, o)[1] = Error(d, p)[1] /\ Error(c, o)[2] \subseteq Error(d, p)[2]
       \/ MayBeNone(c, o, d)

Keeps(Leans(_)) == Leans(written) \subseteq Leans(published)

(* What code leans on, by what the comparison has to report for it.                         *)
(*                                                                                          *)
(* calls: a URL accessor keeps its arguments, in their order, which UrlAccessorArgsChanged  *)
(* and the types of the parameters together report.  taken: a method takes the same         *)
(* required values and the same body, and what could be set can be set with the same type,  *)
(* also where parameters move between locations or share a wire name.  types: every public  *)
(* type that is no alias keeps its name, its kind and its members, and so do header structs *)
(* and server builders, also where an addition renames what yields to it.                   *)
Leaned(c) ==
    [calls |-> AccessorCalls(c),
     taken |-> <<Arguments(c), Setting(c)>>,
     types |-> <<Models(c), HeaderStructs(c), ServerItems(c)>>]

(* Within a major version, over whichever releases it went, a consumer's code keeps what it *)
(* leans on; a call keeps its arguments, their number and their order, and yields what it   *)
(* did, variant by variant, with the body `api_body` gives.  There are four exceptions, and *)
(* each breaks code at a minor or a patch bump: the bundle arrives (BundleArrives), a       *)
(* required header or cookie changes places (Movable), one type is streamed or no longer    *)
(* (YieldsOne), a type is named None (MayBeNone).  Nothing is said of the names of params   *)
(* structs, error types, success enums, variants of string enums and aliases: none is in    *)
(* the surface, and an addition may rename or remove them.                                  *)
CallersKeep ==
    LET before == Leaned(written)
        after == Leaned(published)
    IN  /\ before.calls \subseteq after.calls
        /\ \A k \in {"taken", "types"} :
              \A i \in DOMAIN before[k] : before[k][i] \subseteq after[k][i]
        /\ \A o \in Ops(written) : \E p \in Ops(published) :
              /\ Method(written, o) = Method(published, p)
              /\ CallStands(written, o, published, p)
              /\ YieldStands(written, o, published, p)

-----------------------------------------------------------------------------
(* What the documentation says of minor and patch bumps, and the surface does not see.      *)

(* surface/mod.rs of Impact::Minor: existing code keeps compiling.  A call has as many      *)
(* arguments as it had.                                                                     *)
CallsKeepCompiling ==
    Keeps(LAMBDA c : {<<Method(c, o), Len(Args(c, o))>> : o \in Ops(c)})

(* surface/mod.rs of Impact::Patch: no consumer-visible change.  The required values and   *)
(* the body of a call keep their positions.                                                 *)
PositionsKeep ==
    Keeps(LAMBDA c : {<<Method(c, o), Call(c, o, Positions(o))>> : o \in Ops(c)})

(* surface/mod.rs of OpSurface: everything the method's signature exposes.  A method that   *)
(* returns a value does not come to return a stream.                                        *)
StreamsKeep ==
    Keeps(LAMBDA c : {<<Method(c, o), R!StreamSuccess(o.table)>> : o \in Ops(c)})

(* README.md: the semver surface is the public API of generated output.  The structs of     *)
(* optional parameters, their fields, the error types, the success enums and the variants   *)
(* of string enums keep their names.                                                        *)
NamesKeep ==
    Keeps(LAMBDA c :
        LET kept(k) == \/ k.family \in {"error", "success"}
                       \/ k.family = "params" /\ \E o \in Ops(c) : Bundled(o) /\ k.item = <<o.id>>
                       \/ k.family = "param" /\ k.scope[1] = "fields"
        IN  {Item(k.scope \o k.item, c.names[k].name, <<k.family>>, TRUE) :
                k \in {l \in DOMAIN c.names : kept(l)}}
            \union UNION {{Item(<<t.id, m.id>>, MemberName(c.names, t, "listed", m.id), <<>>, TRUE) :
                              m \in ToSet(t.members)} :
                          t \in {u \in ToSet(c.api.types) : u.kind = "enum"}})

(* surface/mod.rs of an alias: its name is public.  It stays, as an alias or as a type.     *)
AliasesKeep == Keeps(LAMBDA c : {ModelName(c.names, t) : t \in ToSet(c.api.types)})
=============================================================================
