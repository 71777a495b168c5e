------------------------------- MODULE Surface -------------------------------
(***************************************************************************)
(* What `spargen diff` sees of a generated client, and how it classifies   *)
(* the differences between two (surface/extract.rs, surface/compare.rs).   *)
(*                                                                         *)
(* An API is one of Names whose parameters, members and responses have     *)
(* types.  A type is referred to by its id, or is a primitive; boxes are   *)
(* not rendered and left out.  An Option is a set of at most one element,  *)
(* a map a function.                                                       *)
(***************************************************************************)
EXTENDS Names

R == INSTANCE Responses

Prims == {"String", "i64"}

Ref(of, null) == [of |-> of, null |-> null]

Nominal == {"struct", "enum", "union", "newtype", "never"}

TypeOf(a, id) == CHOOSE t \in ToSet(a.types) : t.id = id
ModelName(names, t) == names[Key(<<"types">>, "model", <<t.id>>)].name

Nullable(null, base) == IF null THEN <<"Option", base>> ELSE base

(* What types and signatures are rendered with, beside names, is no word of a name.  "None" *)
(* is no mark: a type may have that name.                                                    *)
Marks == Prims \union {"Option", "Vec", "()", "{tag,", "{status:"}

ASSUME MarksAreNoWords == Marks \intersect Words = {}

(* The types there are to refer to. *)
Refs(a) == [of : Prims \union {t.id : t \in ToSet(a.types)}, null : BOOLEAN]

(* canon_ty without the Option: an alias is what it stands for.  `items` is  *)
(* how the types of items read.                                             *)
Based(a, names, items, of) ==
    IF of \in Prims THEN <<of>>
    ELSE LET t == TypeOf(a, of)
         IN  CASE t.kind \in Nominal -> ModelName(names, t)
               [] t.kind = "list" -> <<"Vec", items[t.target]>>
               [] t.kind = "scalar" -> <<t.target.of>>

(* canon_container *)
Items(a, names) ==
    LET items[ty \in Refs(a)] == Nullable(ty.null, Based(a, names, items, ty.of)) IN items

Canon(a, names, ty) == Nullable(ty.null, Based(a, names, Items(a, names), ty.of))

Member(ty, required) == [ty |-> ty, required |-> required]

-----------------------------------------------------------------------------
(* Operations. *)

ShapesUrl(p) == p.loc <= 2
IsUrlArg(p) == p.required /\ ShapesUrl(p)
SendsExplicitNull(p) == ~ p.required /\ p.ty.null /\ p.json

ParamKey(p) == <<p.name, p.loc>>
Optional == <<"optional">>

(* The arguments of a method have the places of the required parameters, and after them *)
(* that of the bundle of the optional ones and that of the body.                        *)
BundlePlace(o) == Len(o.params) + 1
BodyPlace(o) == Len(o.params) + 2

Optionals(o) == {p \in ToSet(o.params) : ~ p.required}

(* url_takes_params *)
BundleShapesUrl(o) == \E p \in Optionals(o) : ShapesUrl(p)

InPlace(places) == InOrder(places, [i \in places |-> << <<i>> >>])

UrlPlaces(o) ==
    {i \in DOMAIN o.params : IsUrlArg(o.params[i])}
    \union (IF BundleShapesUrl(o) THEN {BundlePlace(o)} ELSE {})

UrlArgs(o) ==
    LET places == InPlace(UrlPlaces(o))
    IN  [n \in DOMAIN places |->
            IF places[n] = BundlePlace(o) THEN Optional ELSE ParamKey(o.params[places[n]])]

ParamTy(a, names, p) == Nullable(SendsExplicitNull(p), Canon(a, names, p.ty))

ParamMembers(a, names, o) ==
    [k \in {ParamKey(p) : p \in ToSet(o.params)} |->
        LET p == CHOOSE q \in ToSet(o.params) : ParamKey(q) = k
        IN  Member(ParamTy(a, names, p), p.required)]

(* What no body renders as, and what no error type does: the name of a schema `None`. *)
NoBody == <<"()">>
NoError == <<"none">>

BodyTy(a, names, o, s) ==
    IF o.table[s] \in R!Bodied THEN Canon(a, names, o.bodies[s]) ELSE NoBody

(* status_enum_sig, or the type alone, or what stands for no type: a signature does not say *)
(* which of the three it is.                                                                *)
Sig(a, names, o, shape, none) ==
    LET body(s) == BodyTy(a, names, o, s)
    IN  CASE shape.shape = "unit" -> none
          [] shape.shape = "one" -> body(CHOOSE s \in shape.of : TRUE)
          [] shape.shape = "enum" -> <<"{status:", {<<s, body(s)>> : s \in shape.of}>>

(* success_sig, error_sig *)
SuccessSig(a, names, o) == Sig(a, names, o, R!SuccessShape(o.table), NoBody)
ErrorSig(a, names, o) == Sig(a, names, o, R!ErrorShape(o.table), NoError)

(* error_body_sig, over ErrorShape::api_error_body. *)
ErrorBody(a, names, o) ==
    LET error == R!ErrorShape(o.table)
        bodies == {Canon(a, names, [o.bodies[s] EXCEPT !.null = FALSE]) :
                     s \in R!WithBody(o.table, error.of)}
    IN  IF error.shape = "unit" THEN {<<"Infallible">>}
        ELSE IF Cardinality(bodies) = 1 THEN bodies ELSE {}

(* response_headers *)
HeaderStruct(a, names, o, h) ==
    [name |-> names[Key(<<"types">>, "headers", <<o.id, h.label>>)].name,
     fields |->
        LET name(f) == names[Key(<<"header fields", o.id, h.label>>, "header", <<f.id>>)].name
        IN  [n \in {name(f) : f \in ToSet(h.fields)} |->
                LET f == CHOOSE g \in ToSet(h.fields) : name(g) = n
                IN  Member(Canon(a, names, f.ty), f.required)]]

OpSurface(a, names, o) ==
    [method |-> NameOf(names, <<"impl">>, "method", o),
     accessor |-> NameOf(names, <<"impl">>, "accessor", o),
     urlArgs |-> UrlArgs(o),
     params |-> ParamMembers(a, names, o),
     body |-> {Member(Canon(a, names, b.ty), b.required) : b \in o.payload},
     success |-> SuccessSig(a, names, o),
     error |-> ErrorSig(a, names, o),
     errorBody |-> ErrorBody(a, names, o),
     headers |-> [l \in {h.label : h \in ToSet(o.headers)} |->
                    HeaderStruct(a, names, o, CHOOSE h \in ToSet(o.headers) : h.label = l)]]

-----------------------------------------------------------------------------
(* Types: the wire values of an enum, the names of other members. *)

MemberName(names, t, family, id) == names[Key(<<"members", t.id>>, family, <<id>>)].name

ListedMembers(a, names, t) ==
    LET name(m) == MemberName(names, t, "listed", m.id)
    IN  [n \in {name(m) : m \in ToSet(t.members)} |->
            LET m == CHOOSE l \in ToSet(t.members) : name(l) = n
            IN  Member(Canon(a, names, m.ty), m.required)]

AddedName(names, t) == {names[k].name : k \in {l \in DOMAIN names :
                          l.scope = <<"members", t.id>> /\ l.family = "added"}}

(* An open union has one variant more, of the tag and the value. *)
UnionMembers(a, names, t) ==
    LET listed == ListedMembers(a, names, t)
    IN  [n \in DOMAIN listed \union AddedName(names, t) |->
            IF n \in DOMAIN listed THEN listed[n] ELSE Member(<<"{tag,", "value}">>, FALSE)]

TypeSurface(a, names, t) ==
    CASE t.kind = "struct" ->
           [kind |-> "struct", members |-> ListedMembers(a, names, t),
            added |-> {<<n, Canon(a, names, t.target)>> : n \in AddedName(names, t)}]
      [] t.kind = "enum" ->
           [kind |-> "enum", members |-> [v \in {<<m.id>> : m \in ToSet(t.members)} |-> <<>>],
            added |-> {<<n, <<>> >> : n \in AddedName(names, t)}]
      [] t.kind = "union" ->
           [kind |-> "union",
            members |-> UnionMembers(a, names, t),
            added |-> {}]
      [] t.kind = "newtype" ->
           [kind |-> "newtype", members |-> [n \in {<<"0">>} |-> Member(Canon(a, names, t.target), TRUE)],
            added |-> {}]
      [] t.kind = "never" -> [kind |-> "never", members |-> <<>>, added |-> {}]

ServerSurface(names, s) ==
    LET setter(v) == names[Key(<<"setters", s.id>>, "setter", <<v.id>>)].name
    IN  [n \in {setter(v) : v \in ToSet(s.variables)} |->
            LET v == CHOOSE w \in ToSet(s.variables) : setter(w) = n
            IN  [enum |-> IF v.values = <<>> THEN {}
                          ELSE {names[Key(<<"servers">>, "variable", <<s.id, v.id>>)].name},
                 variants |-> {names[Key(<<"values", s.id, v.id>>, "value", w)].name :
                                 w \in ToSet(v.values)}]]

(* build *)
Surface(a, names) ==
    LET items == {t \in ToSet(a.types) : t.kind \in Nominal}
        builder(s) == names[Key(<<"servers">>, "server", <<s.id>>)].name
    IN  [operations |-> [k \in {o.key : o \in ToSet(a.ops)} |->
                           OpSurface(a, names, CHOOSE o \in ToSet(a.ops) : o.key = k)],
         types |-> [n \in {ModelName(names, t) : t \in items} |->
                      TypeSurface(a, names, CHOOSE t \in items : ModelName(names, t) = n)],
         aliases |-> {ModelName(names, t) : t \in ToSet(a.types) \ items},
         servers |-> [n \in {builder(s) : s \in ToSet(a.servers)} |->
                        ServerSurface(names, CHOOSE s \in ToSet(a.servers) : builder(s) = n)]]

-----------------------------------------------------------------------------
(* What lowering makes of a document: references are to types there are, an operation is    *)
(* one of its method and path, a parameter one of its name and location.                    *)

WellTypedType(a, t) ==
    /\ t.kind \in Nominal \union {"list", "scalar"}
    /\ t.kind = "list" => t.target \in Refs(a)
    /\ t.kind = "scalar" => t.target.of \in Prims
    /\ t.kind = "union" => \A m \in ToSet(t.members) : m.ty \in Refs(a) /\ m.required = TRUE

WellTypedOperation(a, o) ==
    /\ IsFiniteSet(DOMAIN o.table)
    /\ \A p \in ToSet(o.params) : p.ty \in Refs(a) /\ p.required \in BOOLEAN /\ p.json \in BOOLEAN
    /\ \A p, q \in ToSet(o.params) : ParamKey(p) = ParamKey(q) => p = q
    /\ \A s \in DOMAIN o.table : o.bodies[s] \in Refs(a)

WellTyped(a) ==
    /\ \A t \in ToSet(a.types) : WellTypedType(a, t)
    /\ \A o \in ToSet(a.ops) : WellTypedOperation(a, o)
    /\ \A o, p \in ToSet(a.ops) : o.key = p.key => o = p

-----------------------------------------------------------------------------
(* The changes between two surfaces, and the version bump they ask for     *)
(* (surface/compare.rs, surface/mod.rs).  A change is its kind and where   *)
(* it is; the order of a report and its wording are left out.              *)

Change(kind, at) == [kind |-> kind, at |-> at]

(* ChangeKind::impact: every other kind is major. *)
Additive == {"OperationAdded", "ApiErrorBodyAdded", "OptionalParamAdded", "TypeAdded",
             "FieldAdded", "VariantAdded", "ResponseHeadersAdded", "ResponseHeaderAdded",
             "ServerAdded", "ServerVariableAdded", "AdditionalPropertiesAdded"}

Bump(changes) ==
    IF changes = {} THEN "patch"
    ELSE IF \A c \in changes : c.kind \in Additive THEN "minor"
    ELSE "major"

-----------------------------------------------------------------------------
Get(map, key) == IF key \in DOMAIN map THEN {map[key]} ELSE {}

Both(old, new) == DOMAIN old \union DOMAIN new

If(condition, change) == IF condition THEN {change} ELSE {}

(* The kinds a member's differences take. *)
Kinds(required, optional, removed, type, requiredness) ==
    [required |-> required, optional |-> optional, removed |-> removed,
     type |-> type, requiredness |-> requiredness]

Param == Kinds("RequiredParamAdded", "OptionalParamAdded", "ParamRemoved",
               "ParamTypeChanged", "ParamRequirednessChanged")
Body == Kinds("RequestBodyAdded", "RequestBodyAdded", "RequestBodyRemoved",
              "RequestBodyTypeChanged", "RequestBodyRequirednessChanged")
Field == Kinds("RequiredFieldAdded", "FieldAdded", "FieldRemoved",
               "FieldTypeChanged", "FieldRequirednessChanged")
Header == Kinds("RequiredResponseHeaderAdded", "ResponseHeaderAdded", "ResponseHeaderRemoved",
                "ResponseHeaderTypeChanged", "ResponseHeaderRequirednessChanged")

(* diff_member *)
DiffMember(kinds, at, old, new) ==
    {Change(IF m.required THEN kinds.required ELSE kinds.optional, at) :
        m \in IF old = {} THEN new ELSE {}}
    \union {Change(kinds.removed, at) : m \in IF new = {} THEN old ELSE {}}
    \union {Change(kinds.type, at) : m \in {p \in old \X new : p[1].ty # p[2].ty}}
    \union {Change(kinds.requiredness, at) : m \in {p \in old \X new : p[1].required # p[2].required}}

DiffMembers(kinds, at, old, new) ==
    UNION {DiffMember(kinds, <<at, k>>, Get(old, k), Get(new, k)) : k \in Both(old, new)}

-----------------------------------------------------------------------------
Named(params, key) == {k \in DOMAIN params : k[1] = key[1]}

(* Mistake: a name declared in several locations is paired all the same. *)
MovedToAny(key, here, there) == Named(there, key) \ {key}

(* moved_param *)
MovedTo(key, here, there) ==
    IF Cardinality(Named(here, key)) = 1 /\ Cardinality(Named(there, key)) = 1
    THEN Named(there, key) \ {key} ELSE {}

DiffParams(at, old, new) ==
    UNION {
        LET to == MovedTo(k, old, new)
        IN  IF k \notin DOMAIN old /\ MovedTo(k, new, old) # {} THEN {}
            ELSE IF k \notin DOMAIN new
                 THEN DiffMember(Param, <<at, k>>, {old[k]}, {new[t] : t \in to})
            ELSE DiffMember(Param, <<at, k>>, Get(old, k), Get(new, k)) :
        k \in Both(old, new)}

DiffHeaders(at, old, new) ==
    UNION {
        CASE l \notin DOMAIN old -> {Change("ResponseHeadersAdded", <<at, l>>)}
          [] l \notin DOMAIN new -> {Change("ResponseHeadersRemoved", <<at, l>>)}
          [] OTHER ->
               If(old[l].name # new[l].name, Change("ResponseHeadersRenamed", <<at, l>>))
               \union DiffMembers(Header, <<at, l>>, old[l].fields, new[l].fields) :
        l \in Both(old, new)}

DiffOperation(at, old, new) ==
    If(old.method # new.method \/ old.accessor # new.accessor, Change("MethodRenamed", at))
    \union If(old.urlArgs # new.urlArgs, Change("UrlAccessorArgsChanged", at))
    \union DiffMember(Body, at, old.body, new.body)
    \union If(old.success # new.success, Change("SuccessTypeChanged", at))
    \union If(old.error # new.error, Change("ErrorTypeChanged", at))
    \union If(old.errorBody = {} /\ new.errorBody # {}, Change("ApiErrorBodyAdded", at))
    \union If(old.errorBody # {} /\ new.errorBody = {}, Change("ApiErrorBodyRemoved", at))
    \union DiffParams(at, old.params, new.params)
    \union DiffHeaders(at, old.headers, new.headers)

DiffOperations(old, new) ==
    UNION {
        CASE k \notin DOMAIN old -> {Change("OperationAdded", k)}
          [] k \notin DOMAIN new -> {Change("OperationRemoved", k)}
          [] OTHER -> DiffOperation(k, old[k], new[k]) :
        k \in Both(old, new)}

-----------------------------------------------------------------------------

(* diff_overflow: a map under another field name is another map. *)
DiffOverflow(at, old, new) ==
    LET field(map) == {m[1] : m \in map}
    IN  IF field(old) = field(new)
        THEN If(old # new, Change("AdditionalPropertiesTypeChanged", at))
        ELSE If(old # {}, Change("AdditionalPropertiesRemoved", at))
             \union If(new # {}, Change("AdditionalPropertiesAdded", at))

DiffVariants(at, old, new) ==
    {Change("VariantAdded", <<at, v>>) : v \in new \ old}
    \union {Change("VariantRemoved", <<at, v>>) : v \in old \ new}

DiffUnion(at, old, new) ==
    DiffVariants(at, DOMAIN old, DOMAIN new)
    \union UNION {If(old[v].ty # new[v].ty, Change("VariantTypeChanged", <<at, v>>)) :
                    v \in DOMAIN old \intersect DOMAIN new}

DiffType(at, old, new) ==
    IF old.kind # new.kind THEN {Change("TypeKindChanged", at)}
    ELSE CASE old.kind = "struct" ->
                DiffMembers(Field, at, old.members, new.members)
                \union DiffOverflow(at, old.added, new.added)
           [] old.kind = "enum" ->
                DiffVariants(at, DOMAIN old.members, DOMAIN new.members)
                \union DiffVariants(<<at, "open">>, old.added, new.added)
           [] old.kind = "union" -> DiffUnion(at, old.members, new.members)
           [] old.kind = "newtype" ->
                If(old.members # new.members, Change("FieldTypeChanged", at))
           [] OTHER -> {}

DiffTypes(old, new) ==
    UNION {
        CASE n \notin DOMAIN old.types ->
               {Change(IF n \in old.aliases THEN "TypeKindChanged" ELSE "TypeAdded", n)}
          [] n \notin DOMAIN new.types ->
               {Change(IF n \in new.aliases THEN "TypeKindChanged" ELSE "TypeRemoved", n)}
          [] OTHER -> DiffType(n, old.types[n], new.types[n]) :
        n \in Both(old.types, new.types)}

-----------------------------------------------------------------------------
(* A free variable has no enum. *)
DiffVariable(at, old, new) ==
    IF old.enum = new.enum THEN DiffVariants(at, old.variants, new.variants)
    ELSE {Change("ServerVariableTypeChanged", at)}

DiffVariables(at, old, new) ==
    UNION {
        CASE n \notin DOMAIN old -> {Change("ServerVariableAdded", <<at, n>>)}
          [] n \notin DOMAIN new -> {Change("ServerVariableRemoved", <<at, n>>)}
          [] OTHER -> DiffVariable(<<at, n>>, old[n], new[n]) :
        n \in Both(old, new)}

DiffServers(old, new) ==
    UNION {
        CASE n \notin DOMAIN old -> {Change("ServerAdded", n)}
          [] n \notin DOMAIN new -> {Change("ServerRemoved", n)}
          [] OTHER -> DiffVariables(n, old[n], new[n]) :
        n \in Both(old, new)}

(* diff *)
Diff(old, new) ==
    DiffOperations(old.operations, new.operations)
    \union DiffTypes(old, new)
    \union DiffServers(old.servers, new.servers)
=============================================================================
