---------------------------- MODULE SemverProofs ----------------------------
(***************************************************************************)
(* Theorems about Semver: for any APIs that are well formed and over any   *)
(* chain of releases, what code leans on outlives every bump that is not   *)
(* major.  The names are those NamingProofs proves distinct.               *)
(***************************************************************************)
EXTENDS NamingProofs, Semver

-----------------------------------------------------------------------------
(* What a bump that is not major leaves open.                              *)

\* Only what is added.
OnlyAdds(changes) == \A x \in changes : x.kind \in Additive

\* A bump that is not major only adds.
LEMMA NotMajor ==
  ASSUME NEW changes, Bump(changes) # "major"
  PROVE  OnlyAdds(changes)
  BY DEF Bump, OnlyAdds

\* A union adds only when its parts do.
LEMMA AddsOfParts ==
  ASSUME NEW X, NEW Y
  PROVE  OnlyAdds(X \union Y) <=> OnlyAdds(X) /\ OnlyAdds(Y)
  BY DEF OnlyAdds

\* So does a union of many.
LEMMA AddsOfAll ==
  ASSUME NEW S
  PROVE  OnlyAdds(UNION S) <=> \A X \in S : OnlyAdds(X)
  BY DEF OnlyAdds

\* A condition under which something major is reported does not hold.
LEMMA AddsIf ==
  ASSUME NEW condition, NEW kind, NEW at, kind \notin Additive, OnlyAdds(If(condition, Change(kind, at)))
  PROVE  ~ condition
  BY DEF OnlyAdds, If, Change

\* One change that is not major adds.
LEMMA AddsChange ==
  ASSUME NEW kind, NEW at, OnlyAdds({Change(kind, at)})
  PROVE  kind \in Additive
  BY DEF OnlyAdds, Change

\* Kinds that say of a member that it is removed, or is another one, are major.
Strict(kinds) ==
  /\ kinds.removed \notin Additive /\ kinds.type \notin Additive /\ kinds.requiredness \notin Additive

\* For parameters, bodies, fields and headers they are.
LEMMA KindsAreStrict ==
  Strict(Param) /\ Strict(Body) /\ Strict(Field) /\ Strict(Header)
  BY DEF Strict, Param, Body, Field, Header, Kinds, Additive

\* The same type and requiredness.
AsMember(m, n) == m.ty = n.ty /\ m.required = n.required

\* A member that was there has what it had.
LEMMA MemberKept ==
  ASSUME NEW kinds, Strict(kinds), NEW at, NEW old, NEW new, OnlyAdds(DiffMember(kinds, at, old, new)),
         NEW m \in old
  PROVE  new # {} /\ \A n \in new : AsMember(m, n)
  <1>1. /\ OnlyAdds({Change(kinds.removed, at) : p \in IF new = {} THEN old ELSE {}})
        /\ OnlyAdds({Change(kinds.type, at) : p \in {q \in old \X new : q[1].ty # q[2].ty}})
        /\ OnlyAdds({Change(kinds.requiredness, at) : p \in {q \in old \X new : q[1].required # q[2].required}})
    BY AddsOfParts DEF DiffMember
  <1>2. new # {}
    <2>1. SUFFICES ASSUME new = {} PROVE FALSE
      OBVIOUS
    <2>2. Change(kinds.removed, at) \in {Change(kinds.removed, at) : p \in IF new = {} THEN old ELSE {}}
      BY <2>1
    <2> QED BY <1>1, <2>2 DEF OnlyAdds, Change, Strict
  <1>3. ASSUME NEW n \in new PROVE AsMember(m, n)
    <2>0. <<m, n>> \in old \X new /\ <<m, n>>[1] = m /\ <<m, n>>[2] = n
      OBVIOUS
    <2>1. m.ty = n.ty
      <3>1. SUFFICES ASSUME m.ty # n.ty PROVE FALSE
        OBVIOUS
      <3>2. Change(kinds.type, at) \in {Change(kinds.type, at) : p \in {q \in old \X new : q[1].ty # q[2].ty}}
        BY <2>0, <3>1
      <3> QED BY <1>1, <3>2 DEF OnlyAdds, Change, Strict
    <2>2. m.required = n.required
      <3>1. SUFFICES ASSUME m.required # n.required PROVE FALSE
        OBVIOUS
      <3>2. Change(kinds.requiredness, at) \in
              {Change(kinds.requiredness, at) : p \in {q \in old \X new : q[1].required # q[2].required}}
        BY <2>0, <3>1
      <3> QED BY <1>1, <3>2 DEF OnlyAdds, Change, Strict
    <2> QED BY <2>1, <2>2 DEF AsMember
  <1> QED BY <1>2, <1>3

\* Every member of old is one of new.
AsMembers(old, new) == \A k \in DOMAIN old : k \in DOMAIN new /\ AsMember(old[k], new[k])

\* So have the members of a map of them.
LEMMA MembersKept ==
  ASSUME NEW kinds, Strict(kinds), NEW at, NEW old, NEW new, OnlyAdds(DiffMembers(kinds, at, old, new))
  PROVE  AsMembers(old, new)
  <1>1. SUFFICES ASSUME NEW k \in DOMAIN old PROVE k \in DOMAIN new /\ AsMember(old[k], new[k])
    BY DEF AsMembers
  <1>2. OnlyAdds(DiffMember(kinds, <<at, k>>, Get(old, k), Get(new, k)))
    <2> DEFINE X == {DiffMember(kinds, <<at, l>>, Get(old, l), Get(new, l)) : l \in Both(old, new)}
    <2>1. OnlyAdds(UNION X)
      BY DEF DiffMembers
    <2>2. DiffMember(kinds, <<at, k>>, Get(old, k), Get(new, k)) \in X
      BY <1>1 DEF Both
    <2> HIDE DEF X
    <2> QED BY <2>1, <2>2, AddsOfAll
  <1>3. Get(old, k) = {old[k]}
    BY DEF Get
  <1>4. Get(new, k) # {} /\ \A n \in Get(new, k) : AsMember(old[k], n)
    <2>1. old[k] \in Get(old, k)
      BY <1>3
    <2> QED BY <1>2, <2>1, MemberKept
  <1> QED BY <1>4 DEF Get

-----------------------------------------------------------------------------
(* How types read.                                                         *)

\* What the names of an API are like.
SoundNames(a, names) ==
  /\ \A k, l \in DOMAIN names : k.scope = l.scope /\ names[k].name = names[l].name => k = l
  /\ \A t \in ToSet(a.types) :
        /\ Key(<<"types">>, "model", <<t.id>>) \in DOMAIN names
        /\ names[Key(<<"types">>, "model", <<t.id>>)].name \in Ident
        /\ \A m \in ToSet(t.members) : Key(<<"members", t.id>>, "listed", <<m.id>>) \in DOMAIN names
  /\ \A o \in ToSet(a.ops) : \A h \in ToSet(o.headers) : \A f \in ToSet(h.fields) :
        Key(<<"header fields", o.id, h.label>>, "header", <<f.id>>) \in DOMAIN names
  /\ \A s \in ToSet(a.servers) :
        /\ Key(<<"servers">>, "server", <<s.id>>) \in DOMAIN names
        /\ \A v \in ToSet(s.variables) : Key(<<"setters", s.id>>, "setter", <<v.id>>) \in DOMAIN names

\* An API as lowering leaves it, with names as they are allocated.
NamedApi(a, names) == WellFormed(a) /\ WellTyped(a) /\ SoundNames(a, names)

\* The reading of a tag.
Tagged == <<"{tag,", "value}">>

\* The reading of a type that is no Option, no tag, no lack of one and no list of statuses.
Plain(x) ==
  /\ x # NoBody /\ x # Tagged
  /\ \A y : x # <<"Option", y>> /\ x # <<"{status:", y>>

\* A type there is.
LEMMA TypeOfIs ==
  ASSUME NEW a, NEW of \in {t.id : t \in ToSet(a.types)}
  PROVE  TypeOf(a, of) \in ToSet(a.types) /\ TypeOf(a, of).id = of
  BY DEF TypeOf

\* A name is none of the marks.
LEMMA NamesArePlain ==
  ASSUME NEW x \in Ident
  PROVE  Plain(x)
  <1>1. \A i \in 1..Len(x) : x[i] \in Words
    BY DEF Ident
  <1>2. "()" \notin Words /\ "{tag," \notin Words /\ "Option" \notin Words /\ "{status:" \notin Words
    BY MarksAreNoWords DEF Marks
  <1>3. \A y, w : x = <<w>> \/ x = <<w, y>> => w \in Words
    <2> SUFFICES ASSUME NEW y, NEW w, x = <<w>> \/ x = <<w, y>> PROVE w \in Words
      OBVIOUS
    <2>1. 1 \in 1..Len(x) /\ x[1] = w
      OBVIOUS
    <2> QED BY <1>1, <2>1
  <1> QED BY <1>2, <1>3 DEF Plain, NoBody, Tagged

\* Nor is the reading of a primitive.
LEMMA PrimsArePlain ==
  ASSUME NEW x \in Prims
  PROVE  Plain(<<x>>)
  <1>1. x # "()"
    BY DEF Prims
  <1>2. \A y, w : <<x>> # <<w, y>>
    OBVIOUS
  <1> QED BY <1>1, <1>2 DEF Plain, NoBody, Tagged

\* Nor is that of a list.
LEMMA ListsArePlain ==
  ASSUME NEW x
  PROVE  Plain(<<"Vec", x>>)
  <1>1. \A y : <<"Vec", x>> # <<y>>
    OBVIOUS
  <1>2. \A w, y : <<"Vec", x>> = <<w, y>> => w = "Vec"
    OBVIOUS
  <1> QED BY <1>1, <1>2 DEF Plain, NoBody, Tagged

\* No type reads as a mark, its Option aside.
LEMMA BasedIsPlain ==
  ASSUME NEW a, NEW names, NamedApi(a, names), NEW items, NEW of \in Prims \union {t.id : t \in ToSet(a.types)}
  PROVE  Plain(Based(a, names, items, of))
  <1>1. CASE of \in Prims
    BY <1>1, PrimsArePlain DEF Based
  <1>2. CASE of \notin Prims
    <2> DEFINE t == TypeOf(a, of)
    <2>1. t \in ToSet(a.types)
      BY <1>2, TypeOfIs
    <2>2. Based(a, names, items, of) =
            CASE t.kind \in Nominal -> ModelName(names, t)
              [] t.kind = "list" -> <<"Vec", items[t.target]>>
              [] t.kind = "scalar" -> <<t.target.of>>
      BY <1>2 DEF Based
    <2> HIDE DEF t
    <2>3. /\ t.kind \in Nominal \/ t.kind = "list" \/ t.kind = "scalar"
          /\ t.kind = "scalar" => t.target.of \in Prims
          /\ ModelName(names, t) \in Ident
      BY <2>1 DEF NamedApi, WellTyped, WellTypedType, SoundNames, ModelName
    <2>4. CASE t.kind \in Nominal
      <3>1. Based(a, names, items, of) = ModelName(names, t)
        BY <2>2, <2>4 DEF Nominal
      <3> QED BY <2>3, <3>1, NamesArePlain
    <2>5. CASE t.kind = "list"
      <3>1. Based(a, names, items, of) = <<"Vec", items[t.target]>>
        BY <2>2, <2>5 DEF Nominal
      <3> QED BY <3>1, ListsArePlain
    <2>6. CASE t.kind = "scalar"
      <3>1. Based(a, names, items, of) = <<t.target.of>>
        BY <2>2, <2>6 DEF Nominal
      <3> QED BY <2>3, <2>6, <3>1, PrimsArePlain
    <2> QED BY <2>3, <2>4, <2>5, <2>6
  <1> QED BY <1>1, <1>2

\* The reading of a type without its Option.
Inner(a, names, ty) == Based(a, names, Items(a, names), ty.of)

\* A reading is a plain one, or the Option of it.
LEMMA CanonIs ==
  ASSUME NEW a, NEW names, NamedApi(a, names), NEW ty \in Refs(a)
  PROVE  /\ Plain(Inner(a, names, ty)) /\ Canon(a, names, ty) = Nullable(ty.null, Inner(a, names, ty))
         /\ ty.null \in BOOLEAN
         /\ \A null \in BOOLEAN : Canon(a, names, [ty EXCEPT !.null = null]) = Nullable(null, Inner(a, names, ty))
  <1>1. ty.of \in Prims \union {t.id : t \in ToSet(a.types)} /\ ty.null \in BOOLEAN
    BY DEF Refs
  <1>2. Plain(Based(a, names, Items(a, names), ty.of))
    BY <1>1, BasedIsPlain
  <1>3. \A null \in BOOLEAN : [ty EXCEPT !.null = null].null = null /\ [ty EXCEPT !.null = null].of = ty.of
    BY DEF Refs
  <1> QED BY <1>1, <1>2, <1>3 DEF Canon, Inner

\* The Option and what is in it are read off a reading.
LEMMA NullableTells ==
  ASSUME NEW x \in BOOLEAN, NEW y \in BOOLEAN, NEW b, NEW c, Plain(b), Plain(c), Nullable(x, b) = Nullable(y, c)
  PROVE  x = y /\ b = c
  <1>1. \A v, w : <<"Option", v>> = <<"Option", w>> => v = w
    OBVIOUS
  <1>2. CASE x /\ y
    BY <1>1, <1>2 DEF Nullable
  <1>3. CASE ~ x /\ ~ y
    BY <1>3 DEF Nullable
  <1>4. CASE x /\ ~ y
    BY <1>4 DEF Nullable, Plain
  <1>5. CASE ~ x /\ y
    BY <1>5 DEF Nullable, Plain
  <1> QED BY <1>2, <1>3, <1>4, <1>5

\* A value is not read as none, nor as a tag, nor as a list of statuses.
LEMMA CanonIsSomething ==
  ASSUME NEW a, NEW names, NamedApi(a, names), NEW ty \in Refs(a)
  PROVE  /\ Canon(a, names, ty) # NoBody /\ Canon(a, names, ty) # Tagged
         /\ \A y : Canon(a, names, ty) # <<"{status:", y>>
  <1> DEFINE b == Inner(a, names, ty)
  <1>1. Plain(b) /\ Canon(a, names, ty) = Nullable(ty.null, b) /\ ty.null \in BOOLEAN
    BY CanonIs
  <1> HIDE DEF b
  <1>2. <<"Option", b>> # NoBody /\ <<"Option", b>> # Tagged /\ \A y : <<"Option", b>> # <<"{status:", y>>
    BY DEF NoBody, Tagged
  <1> QED BY <1>1, <1>2 DEF Nullable, Plain

\* What reads as no error type is a type of that name.
LEMMA CanonIsNone ==
  ASSUME NEW a, NEW names, NEW ty \in Refs(a), WellTyped(a), Canon(a, names, ty) = NoError
  PROVE  \E t \in ToSet(a.types) : t.kind \in Nominal /\ ModelName(names, t) = NoError
  <1> DEFINE of == ty.of
             t == TypeOf(a, of)
             items == Items(a, names)
  <1>1. of \in Prims \union {u.id : u \in ToSet(a.types)}
    BY DEF Refs
  <1>2. Based(a, names, items, of) = NoError
    <2>1. \A x : <<"Option", x>> # NoError
      BY DEF NoError
    <2> QED BY <2>1 DEF Canon, Nullable
  <1> HIDE DEF items
  <1>3. \A x \in Prims : <<x>> # NoError
    <2>1. \A x \in Prims : x # "none"
      BY DEF Prims
    <2> QED BY <2>1 DEF NoError
  <1>4. of \notin Prims
    BY <1>2, <1>3 DEF Based
  <1>5. t \in ToSet(a.types)
    BY <1>1, <1>4, TypeOfIs
  <1>6. Based(a, names, items, of) =
          CASE t.kind \in Nominal -> ModelName(names, t)
            [] t.kind = "list" -> <<"Vec", items[t.target]>>
            [] t.kind = "scalar" -> <<t.target.of>>
    BY <1>4 DEF Based
  <1> HIDE DEF t, of
  <1>7. /\ t.kind \in Nominal \/ t.kind = "list" \/ t.kind = "scalar"
        /\ t.kind = "scalar" => t.target.of \in Prims
    BY <1>5 DEF WellTyped, WellTypedType
  <1>8. "list" \notin Nominal /\ "scalar" \notin Nominal
    BY DEF Nominal
  <1>9. t.kind # "list"
    <2>1. \A x : <<"Vec", x>> # NoError
      BY DEF NoError
    <2> QED BY <1>2, <1>6, <1>8, <2>1
  <1>10. t.kind # "scalar"
    BY <1>2, <1>3, <1>6, <1>7, <1>8
  <1>11. t.kind \in Nominal
    BY <1>7, <1>9, <1>10
  <1>12. Based(a, names, items, of) = ModelName(names, t)
    BY <1>6, <1>8, <1>11
  <1>13. ModelName(names, t) = NoError
    BY <1>2, <1>12
  <1> QED BY <1>5, <1>11, <1>13

-----------------------------------------------------------------------------
(* Operations.                                                             *)

\* A release of an API as it is named.
SoundRelease(c) == NamedApi(c.api, c.names) /\ c.surface = Surface(c.api, c.names)

\* A release that follows another one without a major bump.
Succeeds(c, d) == SoundRelease(c) /\ SoundRelease(d) /\ OnlyAdds(Diff(c.surface, d.surface))

\* The comparison is one of operations, of types and of servers.
LEMMA FollowsParts ==
  ASSUME NEW c, NEW d, Succeeds(c, d)
  PROVE  /\ OnlyAdds(DiffOperations(c.surface.operations, d.surface.operations))
         /\ OnlyAdds(DiffTypes(c.surface, d.surface))
         /\ OnlyAdds(DiffServers(c.surface.servers, d.surface.servers))
  BY AddsOfParts DEF Succeeds, Diff

\* The surface of an operation is found under its key.
LEMMA OperationsAt ==
  ASSUME NEW c, SoundRelease(c)
  PROVE  /\ DOMAIN c.surface.operations = {o.key : o \in Ops(c)}
         /\ \A o \in Ops(c) : c.surface.operations[o.key] = OpSurface(c.api, c.names, o)
  <1> DEFINE K == {o.key : o \in ToSet(c.api.ops)}
             PlaceOf(k) == CHOOSE o \in ToSet(c.api.ops) : o.key = k
             f == [k \in K |-> OpSurface(c.api, c.names, PlaceOf(k))]
  <1>1. c.surface.operations = f
    BY DEF SoundRelease, Surface
  <1>2. \A o \in ToSet(c.api.ops) : PlaceOf(o.key) = o
    BY DEF SoundRelease, NamedApi, WellTyped
  <1>3. \A o \in ToSet(c.api.ops) : o.key \in K
    OBVIOUS
  <1> HIDE DEF K, PlaceOf
  <1>4. \A o \in ToSet(c.api.ops) : f[o.key] = OpSurface(c.api, c.names, o)
    BY <1>2, <1>3
  <1> QED BY <1>1, <1>4 DEF K, Ops

\* What an operation of one release has in common with that of the next.
OperationStays(c, o, d, p) ==
  /\ Method(c, o) = Method(d, p)
  /\ NameOf(c.names, <<"impl">>, "accessor", o) = NameOf(d.names, <<"impl">>, "accessor", p)
  /\ UrlArgs(o) = UrlArgs(p)
  /\ SuccessSig(c.api, c.names, o) = SuccessSig(d.api, d.names, p)
  /\ ErrorSig(c.api, c.names, o) = ErrorSig(d.api, d.names, p)

\* The bodies an operation takes.
BodyMembers(c, o) == {Member(Canon(c.api, c.names, b.ty), b.required) : b \in o.payload}

HeaderMap(c, o) == OpSurface(c.api, c.names, o).headers

\* An operation is there in the next release, and only adds.
LEMMA OperationKept ==
  ASSUME NEW c, NEW d, Succeeds(c, d), NEW o \in Ops(c)
  PROVE  \E p \in Ops(d) :
            /\ OperationStays(c, o, d, p)
            /\ OnlyAdds(DiffMember(Body, o.key, BodyMembers(c, o), BodyMembers(d, p)))
            /\ OnlyAdds(DiffParams(o.key, ParamMembers(c.api, c.names, o), ParamMembers(d.api, d.names, p)))
            /\ OnlyAdds(DiffHeaders(o.key, HeaderMap(c, o), HeaderMap(d, p)))
  <1> DEFINE old == c.surface.operations
             new == d.surface.operations
             PlaceOf(k) == CASE k \notin DOMAIN old -> {Change("OperationAdded", k)}
                        [] k \notin DOMAIN new -> {Change("OperationRemoved", k)}
                        [] OTHER -> DiffOperation(k, old[k], new[k])
             X == {PlaceOf(k) : k \in Both(old, new)}
  <1>1. /\ DOMAIN old = {q.key : q \in Ops(c)} /\ old[o.key] = OpSurface(c.api, c.names, o)
        /\ DOMAIN new = {q.key : q \in Ops(d)} /\ \A q \in Ops(d) : new[q.key] = OpSurface(d.api, d.names, q)
    BY OperationsAt DEF Succeeds
  <1>2. OnlyAdds(UNION X)
    BY FollowsParts DEF DiffOperations
  <1> HIDE DEF old, new
  <1>3. o.key \in Both(old, new) /\ o.key \in DOMAIN old
    BY <1>1 DEF Both
  <1>4. PlaceOf(o.key) \in X
    BY <1>3
  <1> HIDE DEF X
  <1>5. OnlyAdds(PlaceOf(o.key))
    BY <1>2, <1>4, AddsOfAll
  <1>6. o.key \in DOMAIN new
    <2>1. SUFFICES ASSUME o.key \notin DOMAIN new PROVE FALSE
      OBVIOUS
    <2>2. PlaceOf(o.key) = {Change("OperationRemoved", o.key)}
      BY <1>3, <2>1
    <2> QED BY <1>5, <2>2, AddsChange DEF Additive
  <1>7. PICK p \in Ops(d) : p.key = o.key
    BY <1>1, <1>6
  <1> DEFINE x == OpSurface(c.api, c.names, o)
             y == OpSurface(d.api, d.names, p)
  <1>8. OnlyAdds(DiffOperation(o.key, x, y))
    <2>1. PlaceOf(o.key) = DiffOperation(o.key, old[o.key], new[o.key])
      BY <1>3, <1>6
    <2>2. old[o.key] = x /\ new[o.key] = y
      BY <1>1, <1>7
    <2> HIDE DEF PlaceOf, x, y
    <2> QED BY <1>5, <2>1, <2>2
  <1> HIDE DEF x, y
  <1>9. /\ OnlyAdds(If(x.method # y.method \/ x.accessor # y.accessor, Change("MethodRenamed", o.key)))
        /\ OnlyAdds(If(x.urlArgs # y.urlArgs, Change("UrlAccessorArgsChanged", o.key)))
        /\ OnlyAdds(DiffMember(Body, o.key, x.body, y.body))
        /\ OnlyAdds(If(x.success # y.success, Change("SuccessTypeChanged", o.key)))
        /\ OnlyAdds(If(x.error # y.error, Change("ErrorTypeChanged", o.key)))
        /\ OnlyAdds(DiffParams(o.key, x.params, y.params))
        /\ OnlyAdds(DiffHeaders(o.key, x.headers, y.headers))
    BY <1>8, AddsOfParts DEF DiffOperation
  <1>10. x.method = y.method /\ x.accessor = y.accessor /\ x.urlArgs = y.urlArgs
         /\ x.success = y.success /\ x.error = y.error
    <2>1. /\ "MethodRenamed" \notin Additive /\ "UrlAccessorArgsChanged" \notin Additive
          /\ "SuccessTypeChanged" \notin Additive /\ "ErrorTypeChanged" \notin Additive
      BY DEF Additive
    <2> QED BY <1>9, <2>1, AddsIf
  <1>11. /\ x.method = Method(c, o) /\ x.accessor = NameOf(c.names, <<"impl">>, "accessor", o)
         /\ x.urlArgs = UrlArgs(o) /\ x.body = BodyMembers(c, o)
         /\ x.params = ParamMembers(c.api, c.names, o) /\ x.headers = HeaderMap(c, o)
         /\ x.success = SuccessSig(c.api, c.names, o)
         /\ x.error = ErrorSig(c.api, c.names, o)
    BY DEF x, OpSurface, Method, BodyMembers, HeaderMap
  <1>12. /\ y.method = Method(d, p) /\ y.accessor = NameOf(d.names, <<"impl">>, "accessor", p)
         /\ y.urlArgs = UrlArgs(p) /\ y.body = BodyMembers(d, p)
         /\ y.params = ParamMembers(d.api, d.names, p) /\ y.headers = HeaderMap(d, p)
         /\ y.success = SuccessSig(d.api, d.names, p)
         /\ y.error = ErrorSig(d.api, d.names, p)
    BY DEF y, OpSurface, Method, BodyMembers, HeaderMap
  <1>13. OperationStays(c, o, d, p)
    BY <1>10, <1>11, <1>12 DEF OperationStays
  <1> QED BY <1>9, <1>11, <1>12, <1>13

-----------------------------------------------------------------------------
(* Parameters.                                                             *)

\* f takes each parameter to the one it has become: of the same name, or to itself.
Carries(f, old, new) ==
  /\ f \in [DOMAIN old -> DOMAIN new]
  /\ \A k \in DOMAIN old : /\ f[k][1] = k[1] /\ AsMember(old[k], new[f[k]])
                           /\ k \in DOMAIN new => f[k] = k
  /\ \A k, l \in DOMAIN old : f[k] = f[l] => k = l
  /\ \A t \in DOMAIN new : new[t].required => \E k \in DOMAIN old : f[k] = t

\* A name that is moved is the only one of its kind on either side.
LEMMA MovedIs ==
  ASSUME NEW here, IsFiniteSet(DOMAIN here), NEW there, IsFiniteSet(DOMAIN there),
         NEW k \in DOMAIN here, MovedTo(k, here, there) # {}
  PROVE  /\ Named(here, k) = {k}
         /\ \E t \in DOMAIN there : /\ t # k /\ t[1] = k[1]
                                    /\ Named(there, k) = {t} /\ MovedTo(k, here, there) = {t}
  <1>1. Cardinality(Named(here, k)) = 1 /\ Cardinality(Named(there, k)) = 1
        /\ MovedTo(k, here, there) = Named(there, k) \ {k}
    BY DEF MovedTo
  <1>2. /\ Named(here, k) \in SUBSET DOMAIN here /\ Named(there, k) \in SUBSET DOMAIN there
        /\ k \in Named(here, k) /\ \A t \in Named(there, k) : t[1] = k[1]
    BY DEF Named
  <1>3. IsFiniteSet(Named(here, k)) /\ IsFiniteSet(Named(there, k))
    BY <1>2, FS_Subset
  <1>4. PICK x : Named(here, k) = {x}
    BY <1>1, <1>3, FS_Singleton
  <1>5. PICK t : Named(there, k) = {t}
    BY <1>1, <1>3, FS_Singleton
  <1>6. t # k /\ {t} \ {k} = {t}
    BY <1>1, <1>5
  <1>7. t \in Named(there, k)
    BY <1>5
  <1> QED BY <1>1, <1>2, <1>4, <1>5, <1>6, <1>7

\* Every parameter of old goes to one of new, no two to the same: moved_param pairs what has moved.
LEMMA ParamsKept ==
  ASSUME NEW old, IsFiniteSet(DOMAIN old), NEW new, IsFiniteSet(DOMAIN new), NEW at,
         OnlyAdds(DiffParams(at, old, new))
  PROVE  \E f : Carries(f, old, new)
  <1> DEFINE PlaceOf(k) == LET to == MovedTo(k, old, new)
                      IN  IF k \notin DOMAIN old /\ MovedTo(k, new, old) # {} THEN {}
                          ELSE IF k \notin DOMAIN new
                               THEN DiffMember(Param, <<at, k>>, {old[k]}, {new[t] : t \in to})
                          ELSE DiffMember(Param, <<at, k>>, Get(old, k), Get(new, k))
             X == {PlaceOf(k) : k \in Both(old, new)}
             f == [k \in DOMAIN old |-> IF k \in DOMAIN new THEN k ELSE CHOOSE t \in DOMAIN new : t \in Named(new, k)]
  <1>1. OnlyAdds(UNION X)
    BY DEF DiffParams
  <1>2. ASSUME NEW k \in Both(old, new) PROVE OnlyAdds(PlaceOf(k))
    <2>1. PlaceOf(k) \in X
      OBVIOUS
    <2> HIDE DEF X
    <2> QED BY <1>1, <2>1, AddsOfAll
  <1>3. ASSUME NEW k \in DOMAIN old, k \in DOMAIN new PROVE AsMember(old[k], new[k])
    <2>1. PlaceOf(k) = DiffMember(Param, <<at, k>>, Get(old, k), Get(new, k))
      BY <1>3
    <2>2. Get(old, k) = {old[k]} /\ Get(new, k) = {new[k]}
      BY <1>3 DEF Get
    <2>3. OnlyAdds(DiffMember(Param, <<at, k>>, {old[k]}, {new[k]}))
      BY <1>2, <1>3, <2>1, <2>2 DEF Both
    <2> QED BY <2>3, MemberKept, KindsAreStrict
  <1>4. ASSUME NEW k \in DOMAIN old, k \notin DOMAIN new
        PROVE  /\ MovedTo(k, old, new) # {}
               /\ \A t \in MovedTo(k, old, new) : AsMember(old[k], new[t])
    <2> DEFINE N == {new[t] : t \in MovedTo(k, old, new)}
    <2>1. PlaceOf(k) = DiffMember(Param, <<at, k>>, {old[k]}, N)
      BY <1>4
    <2>2. OnlyAdds(DiffMember(Param, <<at, k>>, {old[k]}, N))
      BY <1>2, <1>4, <2>1 DEF Both
    <2> HIDE DEF N
    <2>3. N # {} /\ \A n \in N : AsMember(old[k], n)
      BY <2>2, MemberKept, KindsAreStrict
    <2> QED BY <2>3 DEF N
  <1>5. ASSUME NEW t \in DOMAIN new, t \notin DOMAIN old, new[t].required PROVE MovedTo(t, new, old) # {}
    <2>1. SUFFICES ASSUME MovedTo(t, new, old) = {} PROVE FALSE
      OBVIOUS
    <2>2. PlaceOf(t) = DiffMember(Param, <<at, t>>, {}, {new[t]})
      BY <1>5, <2>1 DEF Get
    <2>3. OnlyAdds(DiffMember(Param, <<at, t>>, {}, {new[t]}))
      BY <1>2, <2>2 DEF Both
    <2> DEFINE Y == {Change(IF m.required THEN Param.required ELSE Param.optional, <<at, t>>) :
                       m \in IF {} = {} THEN {new[t]} ELSE {}}
    <2>4. OnlyAdds(Y)
      BY <2>3, AddsOfParts DEF DiffMember
    <2>5. Change("RequiredParamAdded", <<at, t>>) \in Y
      BY <1>5 DEF Param, Kinds
    <2>6. Change("RequiredParamAdded", <<at, t>>).kind = "RequiredParamAdded"
      BY DEF Change
    <2> HIDE DEF Y
    <2> QED BY <2>4, <2>5, <2>6 DEF OnlyAdds, Additive
  <1> HIDE DEF PlaceOf, X
  <1>6. ASSUME NEW k \in DOMAIN old, k \notin DOMAIN new
        PROVE  /\ Named(old, k) = {k} /\ f[k] \in DOMAIN new /\ f[k][1] = k[1]
               /\ AsMember(old[k], new[f[k]]) /\ Named(new, k) = {f[k]}
    <2>1. PICK t \in DOMAIN new : /\ t # k /\ t[1] = k[1]
                                  /\ Named(new, k) = {t} /\ MovedTo(k, old, new) = {t}
      BY <1>4, <1>6, MovedIs
    <2>2. Named(old, k) = {k}
      BY <1>4, <1>6, MovedIs
    <2>3. f[k] = t
      BY <1>6, <2>1
    <2> QED BY <1>4, <1>6, <2>1, <2>2, <2>3
  <1>7. \A k \in DOMAIN old : k \in DOMAIN new => f[k] = k
    OBVIOUS
  <1>8. ASSUME NEW k \in DOMAIN old
        PROVE  /\ f[k] \in DOMAIN new /\ f[k][1] = k[1] /\ AsMember(old[k], new[f[k]])
    BY <1>3, <1>6, <1>7
  <1>9. f \in [DOMAIN old -> DOMAIN new]
    <2>1. \A k \in DOMAIN old : f[k] \in DOMAIN new
      BY <1>8
    <2>2. f = [k \in DOMAIN old |-> f[k]]
      OBVIOUS
    <2> HIDE DEF f
    <2> QED BY <2>1, <2>2
  <1>10. DOMAIN f = DOMAIN old
    OBVIOUS
  <1> HIDE DEF f
  <1>11. ASSUME NEW k \in DOMAIN old, NEW l \in DOMAIN old, f[k] = f[l], k \notin DOMAIN new PROVE k = l
    <2>1. l[1] = k[1]
      BY <1>8, <1>11
    <2>2. l \in Named(old, k)
      BY <2>1 DEF Named
    <2> QED BY <1>6, <1>11, <2>2
  <1>12. ASSUME NEW k \in DOMAIN old, NEW l \in DOMAIN old, f[k] = f[l] PROVE k = l
    BY <1>7, <1>11, <1>12
  <1>13. ASSUME NEW t \in DOMAIN new, new[t].required PROVE \E k \in DOMAIN old : f[k] = t
    <2>1. CASE t \in DOMAIN old
      BY <1>7, <2>1
    <2>2. CASE t \notin DOMAIN old
      <3>1. Named(new, t) = {t} /\ \E k \in DOMAIN old : k # t /\ k[1] = t[1] /\ Named(old, t) = {k}
        BY <1>5, <1>13, <2>2, MovedIs
      <3>2. PICK k \in DOMAIN old : k # t /\ k[1] = t[1]
        BY <3>1
      <3>3. k \notin DOMAIN new
        BY <3>1, <3>2 DEF Named
      <3>4. f[k] \in Named(new, t)
        BY <1>8, <3>2 DEF Named
      <3> QED BY <3>1, <3>4
    <2> QED BY <2>1, <2>2
  <1> QED BY <1>7, <1>8, <1>9, <1>12, <1>13 DEF Carries

\* The parameters of an operation, by their places.
ParamsAre(c, o) ==
  /\ Len(o.params) \in Nat /\ DOMAIN o.params = 1..Len(o.params)
  /\ \A i \in DOMAIN o.params : /\ o.params[i] \in ToSet(o.params) /\ o.params[i].ty \in Refs(c.api)
                                /\ o.params[i].required \in BOOLEAN /\ o.params[i].json \in BOOLEAN
  /\ \A p \in ToSet(o.params) : \E i \in DOMAIN o.params : p = o.params[i]
  /\ \A i, j \in DOMAIN o.params : ParamKey(o.params[i]) = ParamKey(o.params[j]) => i = j

\* The parameters of an operation are told apart by name and location.
LEMMA ParamsAreSound ==
  ASSUME NEW c, SoundRelease(c), NEW o \in Ops(c)
  PROVE  ParamsAre(c, o)
  <1>1. WellFormedOperation(o) /\ WellTypedOperation(c.api, o)
    BY DEF SoundRelease, NamedApi, WellFormed, WellTyped, Ops
  <1>2. Len(o.params) \in Nat /\ DOMAIN o.params = 1..Len(o.params)
        /\ \A i, j \in DOMAIN o.params : o.params[i].id = o.params[j].id => i = j
    BY <1>1 DEF WellFormedOperation, Listing, IsList
  <1>3. \A i \in DOMAIN o.params : o.params[i] \in ToSet(o.params)
    BY DEF ToSet
  <1>4. \A p \in ToSet(o.params) : \E i \in DOMAIN o.params : p = o.params[i]
    BY DEF ToSet
  <1>5. \A p \in ToSet(o.params) : p.ty \in Refs(c.api) /\ p.required \in BOOLEAN /\ p.json \in BOOLEAN
    BY <1>1 DEF WellTypedOperation
  <1>6. \A p, q \in ToSet(o.params) : ParamKey(p) = ParamKey(q) => p = q
    BY <1>1 DEF WellTypedOperation
  <1>7. \A i, j \in DOMAIN o.params : ParamKey(o.params[i]) = ParamKey(o.params[j]) => i = j
    BY <1>2, <1>3, <1>6
  <1> QED BY <1>2, <1>3, <1>4, <1>5, <1>7 DEF ParamsAre

\* What M maps them to.
MembersByKey(c, o, M) ==
  /\ IsFiniteSet(DOMAIN M)
  /\ \A k \in DOMAIN M : \E i \in DOMAIN o.params : k = ParamKey(o.params[i])
  /\ \A i \in DOMAIN o.params :
        /\ ParamKey(o.params[i]) \in DOMAIN M
        /\ M[ParamKey(o.params[i])].ty = ParamTy(c.api, c.names, o.params[i])
        /\ M[ParamKey(o.params[i])].required = o.params[i].required

\* The surface has a member for each of them.
LEMMA ParamMembersAre ==
  ASSUME NEW c, SoundRelease(c), NEW o \in Ops(c)
  PROVE  MembersByKey(c, o, ParamMembers(c.api, c.names, o))
  <1> DEFINE K == {ParamKey(p) : p \in ToSet(o.params)}
             By(k) == CHOOSE q \in ToSet(o.params) : ParamKey(q) = k
             M == [k \in K |-> Member(ParamTy(c.api, c.names, By(k)), By(k).required)]
  <1>1. ParamMembers(c.api, c.names, o) = M
    BY DEF ParamMembers
  <1>2. ParamsAre(c, o)
    BY ParamsAreSound
  <1>3. \A i \in DOMAIN o.params : By(ParamKey(o.params[i])) = o.params[i]
    <2> TAKE i \in DOMAIN o.params
    <2>1. o.params[i] \in ToSet(o.params)
      BY <1>2 DEF ParamsAre
    <2>2. By(ParamKey(o.params[i])) \in ToSet(o.params)
          /\ ParamKey(By(ParamKey(o.params[i]))) = ParamKey(o.params[i])
      BY <2>1
    <2> HIDE DEF By
    <2> QED BY <1>2, <2>2 DEF ParamsAre
  <1> HIDE DEF By
  <1>4. \A k \in K : \E i \in DOMAIN o.params : k = ParamKey(o.params[i])
    BY <1>2 DEF ParamsAre
  <1>5. IsFiniteSet(K)
    <2> DEFINE key == [i \in DOMAIN o.params |-> ParamKey(o.params[i])]
    <2>1. IsFiniteSet(DOMAIN o.params)
      BY <1>2, FS_Interval DEF ParamsAre
    <2>2. K = {key[i] : i \in DOMAIN o.params}
      <3>1. K \subseteq {key[i] : i \in DOMAIN o.params}
        BY <1>4
      <3>2. \A i \in DOMAIN o.params : key[i] \in K
        BY <1>2 DEF ParamsAre
      <3> HIDE DEF K, key
      <3> QED BY <3>1, <3>2
    <2> HIDE DEF K, key
    <2> QED BY <2>1, <2>2, ImageFinite
  <1>6. \A i \in DOMAIN o.params : ParamKey(o.params[i]) \in K
    BY <1>2 DEF ParamsAre
  <1>7. DOMAIN M = K
    OBVIOUS
  <1>8. \A i \in DOMAIN o.params : /\ M[ParamKey(o.params[i])].ty = ParamTy(c.api, c.names, o.params[i])
                                   /\ M[ParamKey(o.params[i])].required = o.params[i].required
    BY <1>3, <1>6 DEF Member
  <1> HIDE DEF K, M
  <1>9. MembersByKey(c, o, M)
    BY <1>4, <1>5, <1>6, <1>7, <1>8 DEF MembersByKey
  <1> QED BY <1>1, <1>9

\* Two parameters with the same surface.
AsParam(c, x, d, y) ==
  /\ x.name = y.name /\ x.required = y.required
  /\ ParamTy(c.api, c.names, x) = ParamTy(d.api, d.names, y)

\* g takes the place of each parameter to the place of the one it has become.
GoesTo(g, c, o, d, p) ==
  /\ g \in [DOMAIN o.params -> DOMAIN p.params]
  /\ \A i \in DOMAIN o.params : AsParam(c, o.params[i], d, p.params[g[i]])
  /\ \A i, j \in DOMAIN o.params : g[i] = g[j] => i = j
  /\ \A j \in DOMAIN p.params : p.params[j].required => \E i \in DOMAIN o.params : g[i] = j
  /\ \A i \in DOMAIN o.params, j \in DOMAIN p.params :
        ParamKey(o.params[i]) = ParamKey(p.params[j]) => g[i] = j

\* Every parameter of an operation goes to one of the next release with its name and type.
LEMMA ParamsGo ==
  ASSUME NEW c, SoundRelease(c), NEW o \in Ops(c), NEW d, SoundRelease(d), NEW p \in Ops(d), NEW at,
         OnlyAdds(DiffParams(at, ParamMembers(c.api, c.names, o), ParamMembers(d.api, d.names, p)))
  PROVE  \E g : GoesTo(g, c, o, d, p)
  <1> DEFINE old == ParamMembers(c.api, c.names, o)
             new == ParamMembers(d.api, d.names, p)
             x == o.params
             y == p.params
  <1>1. MembersByKey(c, o, old) /\ MembersByKey(d, p, new)
    BY ParamMembersAre
  <1>2. PICK f : Carries(f, old, new)
    BY <1>1, ParamsKept DEF MembersByKey
  <1>3. ParamsAre(c, o) /\ ParamsAre(d, p)
    BY ParamsAreSound
  <1> HIDE DEF old, new
  <1> DEFINE g == [i \in DOMAIN x |-> CHOOSE j \in DOMAIN y : ParamKey(y[j]) = f[ParamKey(x[i])]]
  <1>4. ASSUME NEW i \in DOMAIN x PROVE g[i] \in DOMAIN y /\ ParamKey(y[g[i]]) = f[ParamKey(x[i])]
    <2>1. f[ParamKey(x[i])] \in DOMAIN new
      BY <1>1, <1>2 DEF Carries, MembersByKey
    <2>2. \E j \in DOMAIN y : ParamKey(y[j]) = f[ParamKey(x[i])]
      BY <1>1, <2>1 DEF MembersByKey
    <2> QED BY <2>2
  <1>5. g \in [DOMAIN x -> DOMAIN y]
    <2>1. g = [i \in DOMAIN x |-> g[i]]
      OBVIOUS
    <2> HIDE DEF g
    <2> QED BY <1>4, <2>1
  <1> HIDE DEF g
  <1>6. ASSUME NEW i \in DOMAIN x PROVE AsParam(c, x[i], d, y[g[i]])
    <2>1. /\ ParamKey(x[i]) \in DOMAIN old
          /\ f[ParamKey(x[i])][1] = ParamKey(x[i])[1]
          /\ AsMember(old[ParamKey(x[i])], new[f[ParamKey(x[i])]])
      BY <1>1, <1>2 DEF Carries, MembersByKey
    <2>2. AsMember(old[ParamKey(x[i])], new[ParamKey(y[g[i]])]) /\ ParamKey(y[g[i]])[1] = ParamKey(x[i])[1]
      BY <1>4, <2>1
    <2>3. x[i].name = y[g[i]].name
      BY <2>2 DEF ParamKey
    <2>4. /\ old[ParamKey(x[i])].ty = ParamTy(c.api, c.names, x[i])
          /\ old[ParamKey(x[i])].required = x[i].required
          /\ new[ParamKey(y[g[i]])].ty = ParamTy(d.api, d.names, y[g[i]])
          /\ new[ParamKey(y[g[i]])].required = y[g[i]].required
      BY <1>1, <1>4 DEF MembersByKey
    <2> QED BY <2>2, <2>3, <2>4 DEF AsParam, AsMember
  <1>7. ASSUME NEW i \in DOMAIN x, NEW j \in DOMAIN x, g[i] = g[j] PROVE i = j
    <2>1. f[ParamKey(x[i])] = f[ParamKey(x[j])]
      BY <1>4, <1>7
    <2>2. ParamKey(x[i]) \in DOMAIN old /\ ParamKey(x[j]) \in DOMAIN old
      BY <1>1 DEF MembersByKey
    <2>3. ParamKey(x[i]) = ParamKey(x[j])
      BY <1>2, <2>1, <2>2 DEF Carries
    <2> QED BY <1>3, <2>3 DEF ParamsAre
  <1>8. ASSUME NEW j \in DOMAIN y, y[j].required PROVE \E i \in DOMAIN x : g[i] = j
    <2>1. ParamKey(y[j]) \in DOMAIN new /\ new[ParamKey(y[j])].required = y[j].required
      BY <1>1 DEF MembersByKey
    <2>2. PICK k \in DOMAIN old : f[k] = ParamKey(y[j])
      BY <1>2, <1>8, <2>1 DEF Carries
    <2>3. PICK i \in DOMAIN x : k = ParamKey(x[i])
      BY <1>1 DEF MembersByKey
    <2>4. ParamKey(y[g[i]]) = ParamKey(y[j]) /\ g[i] \in DOMAIN y
      BY <1>4, <2>2, <2>3
    <2> QED BY <1>3, <2>4 DEF ParamsAre
  <1>9. ASSUME NEW i \in DOMAIN x, NEW j \in DOMAIN y, ParamKey(x[i]) = ParamKey(y[j]) PROVE g[i] = j
    <2>1. ParamKey(x[i]) \in DOMAIN old /\ ParamKey(y[j]) \in DOMAIN new
      BY <1>1 DEF MembersByKey
    <2>2. f[ParamKey(x[i])] = ParamKey(x[i])
      BY <1>2, <1>9, <2>1 DEF Carries
    <2>3. ParamKey(y[g[i]]) = ParamKey(y[j]) /\ g[i] \in DOMAIN y
      BY <1>4, <1>9, <2>2
    <2> QED BY <1>3, <2>3 DEF ParamsAre
  <1> QED BY <1>5, <1>6, <1>7, <1>8, <1>9 DEF GoesTo

\* A parameter as ParamsAre has it.
IsParam(c, x) == x.ty \in Refs(c.api) /\ x.required \in BOOLEAN /\ x.json \in BOOLEAN

\* What is passed for a required parameter has the type its surface gives.
LEMMA RequiredTy ==
  ASSUME NEW c, NEW d, NEW x, NEW y, AsParam(c, x, d, y), x.required
  PROVE  Canon(c.api, c.names, x.ty) = Canon(d.api, d.names, y.ty)
  <1>1. ~ SendsExplicitNull(x) /\ ~ SendsExplicitNull(y)
    BY DEF SendsExplicitNull, AsParam
  <1> QED BY <1>1 DEF AsParam, ParamTy, Nullable

\* What a setter takes is in its surface, below one Option or two.
LEMMA SetterTyKept ==
  ASSUME NEW c, SoundRelease(c), NEW d, SoundRelease(d), NEW x, IsParam(c, x), NEW y, IsParam(d, y),
         AsParam(c, x, d, y), ~ x.required
  PROVE  SetterTy(c, x) = SetterTy(d, y)
  <1> DEFINE b == Inner(c.api, c.names, x.ty)
             e == Inner(d.api, d.names, y.ty)
             s == SendsExplicitNull(x)
             t == SendsExplicitNull(y)
  <1>1. /\ s = (x.ty.null /\ x.json) /\ t = (y.ty.null /\ y.json)
        /\ x.ty.null \in BOOLEAN /\ y.ty.null \in BOOLEAN /\ s \in BOOLEAN /\ t \in BOOLEAN
    BY DEF SendsExplicitNull, IsParam, AsParam, Refs
  <1>2. /\ Plain(b) /\ Canon(c.api, c.names, x.ty) = Nullable(x.ty.null, b)
        /\ SetterTy(c, x) = Nullable(s, b)
    BY <1>1, CanonIs DEF IsParam, SoundRelease, SetterTy
  <1>3. /\ Plain(e) /\ Canon(d.api, d.names, y.ty) = Nullable(y.ty.null, e)
        /\ SetterTy(d, y) = Nullable(t, e)
    BY <1>1, CanonIs DEF IsParam, SoundRelease, SetterTy
  <1>4. Nullable(s, Nullable(x.ty.null, b)) = Nullable(t, Nullable(y.ty.null, e))
    BY <1>2, <1>3 DEF AsParam, ParamTy
  <1> HIDE DEF b, e, s, t
  <1>5. \A v, w : <<"Option", v>> = <<"Option", w>> => v = w
    OBVIOUS
  <1>6. CASE s /\ t
    <2>1. x.ty.null = TRUE /\ y.ty.null = TRUE
      BY <1>1, <1>6
    <2>2. <<"Option", <<"Option", b>>>> = <<"Option", <<"Option", e>>>>
      BY <1>4, <1>6, <2>1 DEF Nullable
    <2>3. b = e
      BY <1>5, <2>2
    <2> QED BY <1>1, <1>2, <1>3, <1>6, <2>3
  <1>7. CASE ~ s /\ ~ t
    <2>1. Nullable(x.ty.null, b) = Nullable(y.ty.null, e)
      BY <1>4, <1>7 DEF Nullable
    <2>2. b = e
      BY <1>1, <1>2, <1>3, <2>1, NullableTells
    <2> QED BY <1>1, <1>2, <1>3, <1>7, <2>2
  <1>8. CASE s /\ ~ t
    <2>1. <<"Option", <<"Option", b>>>> = Nullable(y.ty.null, e)
      BY <1>1, <1>4, <1>8 DEF Nullable
    <2>2. CASE y.ty.null
      <3>1. e = <<"Option", b>>
        BY <1>5, <2>1, <2>2 DEF Nullable
      <3> QED BY <1>3, <3>1 DEF Plain
    <2>3. CASE ~ y.ty.null
      BY <1>3, <2>1, <2>3 DEF Plain, Nullable
    <2> QED BY <2>2, <2>3
  <1>9. CASE ~ s /\ t
    <2>1. <<"Option", <<"Option", e>>>> = Nullable(x.ty.null, b)
      BY <1>1, <1>4, <1>9 DEF Nullable
    <2>2. CASE x.ty.null
      <3>1. b = <<"Option", e>>
        BY <1>5, <2>1, <2>2 DEF Nullable
      <3> QED BY <1>2, <3>1 DEF Plain
    <2>3. CASE ~ x.ty.null
      BY <1>2, <2>1, <2>3 DEF Plain, Nullable
    <2> QED BY <2>2, <2>3
  <1> QED BY <1>1, <1>6, <1>7, <1>8, <1>9

-----------------------------------------------------------------------------
(* How often something is taken.                                           *)

\* Where F has x.
Where(S, F, x) == {i \in S : F[i] = x}

\* g leads from S into T, each element to one of its own that has the same.
Leads(g, S, T, F, G) ==
  /\ \A i \in S : g[i] \in T /\ F[i] = G[g[i]]
  /\ \A i, j \in S : g[i] = g[j] => i = j

Onto(g, S, T) == \A j \in T : \E i \in S : g[i] = j

\* An injection that keeps what is taken takes nothing more often than where it leads.
LEMMA CountsGrow ==
  ASSUME NEW S, NEW T, IsFiniteSet(T), NEW g, NEW F, NEW G, Leads(g, S, T, F, G), NEW x
  PROVE  /\ IsFiniteSet(Where(S, F, x)) /\ IsFiniteSet(Where(T, G, x))
         /\ Cardinality(Where(S, F, x)) <= Cardinality(Where(T, G, x))
  <1> DEFINE h == [i \in Where(S, F, x) |-> g[i]]
  <1>1. \A i \in Where(S, F, x) : g[i] \in Where(T, G, x)
    BY DEF Where, Leads
  <1>2. h \in [Where(S, F, x) -> Where(T, G, x)] /\ \A i, j \in Where(S, F, x) : h[i] = h[j] => i = j
    BY <1>1 DEF Where, Leads
  <1>3. h \in Injection(Where(S, F, x), Where(T, G, x))
    BY <1>2 DEF Injection, IsInjective
  <1>4. IsFiniteSet(Where(T, G, x))
    <2>1. Where(T, G, x) \in SUBSET T
      BY DEF Where
    <2> QED BY <2>1, FS_Subset
  <1> HIDE DEF h
  <1> QED BY <1>3, <1>4, FS_Injection

\* If it leads everywhere, what is taken is taken as often.
LEMMA CountsSame ==
  ASSUME NEW S, NEW T, IsFiniteSet(T), NEW g, NEW F, NEW G, Leads(g, S, T, F, G), Onto(g, S, T), NEW x
  PROVE  Cardinality(Where(S, F, x)) = Cardinality(Where(T, G, x))
  <1> DEFINE h == [i \in Where(S, F, x) |-> g[i]]
  <1>1. \A i \in Where(S, F, x) : g[i] \in Where(T, G, x)
    BY DEF Where, Leads
  <1>2. h \in [Where(S, F, x) -> Where(T, G, x)] /\ \A i, j \in Where(S, F, x) : h[i] = h[j] => i = j
    BY <1>1 DEF Where, Leads
  <1>3. \A j \in Where(T, G, x) : \E i \in Where(S, F, x) : h[i] = j
    BY DEF Where, Leads, Onto
  <1>5. h \in Bijection(Where(S, F, x), Where(T, G, x)) /\ h \in Injection(Where(S, F, x), Where(T, G, x))
    BY <1>2, <1>3 DEF Bijection, Injection, Surjection, IsInjective
  <1>4. IsFiniteSet(Where(S, F, x))
    <2>1. Where(T, G, x) \in SUBSET T
      BY DEF Where
    <2>2. IsFiniteSet(Where(T, G, x))
      BY <2>1, FS_Subset
    <2> HIDE DEF h
    <2> QED BY <1>5, <2>2, FS_Injection
  <1> HIDE DEF h
  <1> QED BY <1>4, <1>5, FS_Bijection DEF ExistsBijection

-----------------------------------------------------------------------------
(* What a method takes.                                                    *)

\* A body is neither added nor taken away.
SameBody(c, o, d, p) ==
  /\ o.payload = {} <=> p.payload = {}
  /\ \A b \in o.payload, e \in p.payload : BodyArgTy(c, b) = BodyArgTy(d, e)

\* The body stays, and is required as it was.
LEMMA BodyKept ==
  ASSUME NEW c, NEW o, NEW d, NEW p, NEW at, OnlyAdds(DiffMember(Body, at, BodyMembers(c, o), BodyMembers(d, p)))
  PROVE  SameBody(c, o, d, p)
  <1> DEFINE old == BodyMembers(c, o)
             new == BodyMembers(d, p)
  <1>1. \A m \in old : new # {} /\ \A n \in new : AsMember(m, n)
    BY MemberKept, KindsAreStrict
  <1>2. \A b \in o.payload : Member(Canon(c.api, c.names, b.ty), b.required) \in old
    BY DEF BodyMembers
  <1>3. \A e \in p.payload : Member(Canon(d.api, d.names, e.ty), e.required) \in new
    BY DEF BodyMembers
  <1>4. (new # {} => p.payload # {}) /\ (o.payload = {} => old = {}) /\ (p.payload = {} => new = {})
    BY DEF BodyMembers
  <1>5. ASSUME o.payload = {}, p.payload # {} PROVE FALSE
    <2>1. PICK e \in p.payload : TRUE
      BY <1>5
    <2> DEFINE X == {Change(IF m.required THEN Body.required ELSE Body.optional, at) :
                       m \in IF old = {} THEN new ELSE {}}
    <2>2. OnlyAdds(X)
      BY AddsOfParts DEF DiffMember
    <2>3. Change("RequestBodyAdded", at) \in X
      <3>1. Body.required = "RequestBodyAdded" /\ Body.optional = "RequestBodyAdded"
        BY DEF Body, Kinds
      <3>2. old = {} /\ new # {}
        BY <1>3, <1>4, <1>5, <2>1
      <3> HIDE DEF old, new
      <3> QED BY <3>1, <3>2
    <2> HIDE DEF X
    <2>4. Change("RequestBodyAdded", at).kind = "RequestBodyAdded"
      BY DEF Change
    <2> QED BY <2>2, <2>3, <2>4 DEF OnlyAdds, Additive
  <1> HIDE DEF old, new
  <1>6. ASSUME NEW b \in o.payload, NEW e \in p.payload PROVE BodyArgTy(c, b) = BodyArgTy(d, e)
    <2>1. AsMember(Member(Canon(c.api, c.names, b.ty), b.required), Member(Canon(d.api, d.names, e.ty), e.required))
      BY <1>1, <1>2, <1>3
    <2>2. Canon(c.api, c.names, b.ty) = Canon(d.api, d.names, e.ty) /\ b.required = e.required
      BY <2>1 DEF AsMember, Member
    <2> QED BY <2>2 DEF BodyArgTy
  <1> QED BY <1>1, <1>2, <1>4, <1>5, <1>6 DEF SameBody

\* The required arguments and the body.
RequiredPlaces(o) == {i \in DOMAIN o.params : o.params[i].required}

\* The places of what a method takes by position.
LEMMA PositionsAre ==
  ASSUME NEW c, NEW o, ParamsAre(c, o)
  PROVE  /\ \A i : i \in Positions(o) <=> i \in RequiredPlaces(o) \/ (i = BodyPlace(o) /\ o.payload # {})
         /\ IsFiniteSet(Positions(o)) /\ BodyPlace(o) \notin DOMAIN o.params
         /\ \A i \in RequiredPlaces(o) : Passed(c, o, i) = <<o.params[i].name, Canon(c.api, c.names, o.params[i].ty)>>
         /\ Passed(c, o, BodyPlace(o)) = <<"body", BodyArgTy(c, CHOOSE b \in o.payload : TRUE)>>
  <1>1. /\ \A i \in DOMAIN o.params : i # BundlePlace(o) /\ i # BodyPlace(o)
        /\ BundlePlace(o) # BodyPlace(o)
    BY DEF ParamsAre, BundlePlace, BodyPlace
  <1>2. \A i : i \in Positions(o) <=> i \in RequiredPlaces(o) \/ (i = BodyPlace(o) /\ o.payload # {})
    BY <1>1 DEF Positions, Places, RequiredPlaces
  <1>3. \A i \in DOMAIN o.params :
          ArgAt(c, o, i) = Arg(o.params[i].name, Canon(c.api, c.names, o.params[i].ty), IsUrlArg(o.params[i]))
    BY <1>1 DEF ArgAt
  <1>4. ArgAt(c, o, BodyPlace(o)) = Arg("body", BodyArgTy(c, CHOOSE b \in o.payload : TRUE), FALSE)
    BY <1>1 DEF ArgAt
  <1>5. IsFiniteSet(Positions(o))
    <2>1. IsFiniteSet(DOMAIN o.params)
      <3>1. IsFiniteSet(1..Len(o.params))
        BY FS_Interval DEF ParamsAre
      <3> QED BY <3>1 DEF ParamsAre
    <2>2. IsFiniteSet(DOMAIN o.params \union {BodyPlace(o)})
      BY <2>1, FS_AddElement
    <2>3. Positions(o) \in SUBSET (DOMAIN o.params \union {BodyPlace(o)})
      BY <1>2 DEF RequiredPlaces
    <2> QED BY <2>2, <2>3, FS_Subset
  <1>6. \A i \in RequiredPlaces(o) : Passed(c, o, i) = <<o.params[i].name, Canon(c.api, c.names, o.params[i].ty)>>
    BY <1>3 DEF Passed, Arg, RequiredPlaces
  <1>7. Passed(c, o, BodyPlace(o)) = <<"body", BodyArgTy(c, CHOOSE b \in o.payload : TRUE)>>
    BY <1>4 DEF Passed, Arg
  <1> QED BY <1>1, <1>2, <1>5, <1>6, <1>7

\* The values a method takes, and how often.
TakenBy(c, o) ==
  {<<x, Cardinality({i \in Positions(o) : Passed(c, o, i) = x})>> : x \in {Passed(c, o, i) : i \in Positions(o)}}

\* What is taken, by place.
PassedAt(c, o) == [i \in Positions(o) |-> Passed(c, o, i)]

\* What a method takes, counted.
LEMMA TakenByIs ==
  ASSUME NEW c, NEW o
  PROVE  \A z : z \in TakenBy(c, o) <=>
            \E i \in Positions(o) : z = <<PassedAt(c, o)[i], Cardinality(Where(Positions(o), PassedAt(c, o), PassedAt(c, o)[i]))>>
  <1>1. \A x : {i \in Positions(o) : Passed(c, o, i) = x} = Where(Positions(o), PassedAt(c, o), x)
    BY DEF Where, PassedAt
  <1>2. \A i \in Positions(o) : PassedAt(c, o)[i] = Passed(c, o, i)
    BY DEF PassedAt
  <1>3. TakenBy(c, o) = {<<x, Cardinality(Where(Positions(o), PassedAt(c, o), x))>> : x \in {Passed(c, o, i) : i \in Positions(o)}}
    BY <1>1 DEF TakenBy
  <1> QED BY <1>2, <1>3

\* A method takes the same values, each as often as it did.
LEMMA TakenKept ==
  ASSUME NEW c, SoundRelease(c), NEW o \in Ops(c), NEW d, SoundRelease(d), NEW p \in Ops(d),
         NEW g, GoesTo(g, c, o, d, p), SameBody(c, o, d, p)
  PROVE  TakenBy(c, o) = TakenBy(d, p)
  <1> DEFINE S == Positions(o)
             T == Positions(p)
             F == PassedAt(c, o)
             G == PassedAt(d, p)
             h == [i \in S |-> IF i = BodyPlace(o) THEN BodyPlace(p) ELSE g[i]]
  <1>1. ParamsAre(c, o) /\ ParamsAre(d, p)
    BY ParamsAreSound
  <1>2. /\ \A i : i \in S <=> i \in RequiredPlaces(o) \/ (i = BodyPlace(o) /\ o.payload # {})
        /\ IsFiniteSet(S) /\ BodyPlace(o) \notin DOMAIN o.params
        /\ \A i \in RequiredPlaces(o) : Passed(c, o, i) = <<o.params[i].name, Canon(c.api, c.names, o.params[i].ty)>>
        /\ Passed(c, o, BodyPlace(o)) = <<"body", BodyArgTy(c, CHOOSE b \in o.payload : TRUE)>>
    BY <1>1, PositionsAre
  <1>3. /\ \A i : i \in T <=> i \in RequiredPlaces(p) \/ (i = BodyPlace(p) /\ p.payload # {})
        /\ IsFiniteSet(T) /\ BodyPlace(p) \notin DOMAIN p.params
        /\ \A i \in RequiredPlaces(p) : Passed(d, p, i) = <<p.params[i].name, Canon(d.api, d.names, p.params[i].ty)>>
        /\ Passed(d, p, BodyPlace(p)) = <<"body", BodyArgTy(d, CHOOSE b \in p.payload : TRUE)>>
    BY <1>1, PositionsAre
  <1>4. ASSUME NEW i \in RequiredPlaces(o)
        PROVE  /\ i \in S /\ h[i] = g[i] /\ g[i] \in RequiredPlaces(p) /\ g[i] \in T
               /\ Passed(c, o, i) = Passed(d, p, g[i])
    <2>1. i \in DOMAIN o.params /\ o.params[i].required
      BY DEF RequiredPlaces
    <2>2. g[i] \in DOMAIN p.params /\ AsParam(c, o.params[i], d, p.params[g[i]])
      BY <2>1 DEF GoesTo
    <2>3. g[i] \in RequiredPlaces(p)
      BY <2>1, <2>2 DEF RequiredPlaces, AsParam
    <2>4. Canon(c.api, c.names, o.params[i].ty) = Canon(d.api, d.names, p.params[g[i]].ty)
          /\ o.params[i].name = p.params[g[i]].name
      BY <2>1, <2>2, RequiredTy DEF AsParam
    <2>5. i \in S /\ h[i] = g[i]
      BY <1>2, <2>1
    <2>6. Passed(c, o, i) = Passed(d, p, g[i])
      BY <1>2, <1>3, <2>3, <2>4
    <2> HIDE DEF h, S, T
    <2> QED BY <1>3, <2>3, <2>5, <2>6
  <1>5. ASSUME BodyPlace(o) \in S
        PROVE  /\ h[BodyPlace(o)] = BodyPlace(p) /\ BodyPlace(p) \in T
               /\ Passed(c, o, BodyPlace(o)) = Passed(d, p, BodyPlace(p))
    <2>1. o.payload # {}
      BY <1>2, <1>5 DEF RequiredPlaces
    <2>2. p.payload # {}
      BY <2>1 DEF SameBody
    <2>3. (CHOOSE b \in o.payload : TRUE) \in o.payload /\ (CHOOSE b \in p.payload : TRUE) \in p.payload
      BY <2>1, <2>2
    <2>4. BodyArgTy(c, CHOOSE b \in o.payload : TRUE) = BodyArgTy(d, CHOOSE b \in p.payload : TRUE)
      BY <2>3 DEF SameBody
    <2>5. h[BodyPlace(o)] = BodyPlace(p)
      BY <1>5
    <2> HIDE DEF h, S, T
    <2> QED BY <1>2, <1>3, <2>2, <2>4, <2>5
  <1>6. \A i \in S : i \in RequiredPlaces(o) \/ i = BodyPlace(o)
    BY <1>2
  <1> HIDE DEF h, S, T
  <1>7. \A i \in S : h[i] \in T /\ Passed(c, o, i) = Passed(d, p, h[i])
    BY <1>4, <1>5, <1>6
  <1>8. \A i \in S : F[i] = G[h[i]]
    BY <1>7 DEF PassedAt, S, T
  <1>9. ASSUME NEW i \in S, NEW j \in S, h[i] = h[j] PROVE i = j
    <2>1. \A k \in RequiredPlaces(o) : k \in DOMAIN o.params
      BY DEF RequiredPlaces
    <2>2. BodyPlace(p) \notin RequiredPlaces(p)
      BY <1>3 DEF RequiredPlaces
    <2>3. CASE i \in RequiredPlaces(o) /\ j \in RequiredPlaces(o)
      BY <1>4, <1>9, <2>1, <2>3 DEF GoesTo
    <2>4. CASE i = BodyPlace(o) /\ j = BodyPlace(o)
      BY <2>4
    <2>5. CASE i = BodyPlace(o) /\ j \in RequiredPlaces(o)
      BY <1>4, <1>5, <1>9, <2>2, <2>5
    <2>6. CASE i \in RequiredPlaces(o) /\ j = BodyPlace(o)
      BY <1>4, <1>5, <1>9, <2>2, <2>6
    <2> QED BY <1>6, <2>3, <2>4, <2>5, <2>6
  <1>10. ASSUME NEW j \in T PROVE \E i \in S : h[i] = j
    <2>1. CASE j \in RequiredPlaces(p)
      <3>1. j \in DOMAIN p.params /\ p.params[j].required
        BY <2>1 DEF RequiredPlaces
      <3>2. PICK i \in DOMAIN o.params : g[i] = j
        BY <3>1 DEF GoesTo
      <3>3. i \in RequiredPlaces(o)
        BY <3>1, <3>2 DEF GoesTo, AsParam, RequiredPlaces
      <3> QED BY <1>4, <3>2, <3>3
    <2>2. CASE j = BodyPlace(p) /\ p.payload # {}
      <3>1. BodyPlace(o) \in S
        BY <1>2, <2>2 DEF SameBody
      <3> QED BY <1>5, <2>2, <3>1
    <2> QED BY <1>3, <2>1, <2>2
  <1> HIDE DEF F, G
  <1>11. \A x : Cardinality(Where(S, F, x)) = Cardinality(Where(T, G, x))
    <2>1. Leads(h, S, T, F, G) /\ Onto(h, S, T)
      BY <1>7, <1>8, <1>9, <1>10 DEF Leads, Onto
    <2> QED BY <1>3, <2>1, CountsSame
  <1>12. \A z : z \in TakenBy(c, o) <=> \E i \in S : z = <<F[i], Cardinality(Where(S, F, F[i]))>>
    BY TakenByIs DEF S, F
  <1>13. \A z : z \in TakenBy(d, p) <=> \E j \in T : z = <<G[j], Cardinality(Where(T, G, G[j]))>>
    BY TakenByIs DEF T, G
  <1>14. \A z \in TakenBy(c, o) : z \in TakenBy(d, p)
    BY <1>7, <1>8, <1>11, <1>12, <1>13
  <1>15. \A z \in TakenBy(d, p) : z \in TakenBy(c, o)
    BY <1>8, <1>10, <1>11, <1>12, <1>13
  <1> QED BY <1>14, <1>15

\* The setters of the optional parameters.
SetterOf(c, o) == [x \in Optionals(o) |-> Setter(c, x)]

\* What can be set n times.
SetOf(c, o) ==
  UNION {{<<Method(c, o), Setter(c, p), n>> :
             n \in 1..Cardinality({q \in Optionals(o) : Setter(c, q) = Setter(c, p)})} : p \in Optionals(o)}

\* What can be set, one setter for each.
LEMMA SetOfIs ==
  ASSUME NEW c, NEW o
  PROVE  \A z : z \in SetOf(c, o) <=>
            \E x \in Optionals(o) :
               \E n \in 1..Cardinality(Where(Optionals(o), SetterOf(c, o), Setter(c, x))) :
                  z = <<Method(c, o), Setter(c, x), n>>
  <1>1. \A y : {q \in Optionals(o) : Setter(c, q) = y} = Where(Optionals(o), SetterOf(c, o), y)
    BY DEF Where, SetterOf
  <1>2. SetOf(c, o) =
          UNION {{<<Method(c, o), Setter(c, p), n>> :
             n \in 1..Cardinality(Where(Optionals(o), SetterOf(c, o), Setter(c, p)))} : p \in Optionals(o)}
    BY <1>1 DEF SetOf
  <1> QED BY <1>2

\* What could be set can be set still.
LEMMA SetOfKept ==
  ASSUME NEW c, SoundRelease(c), NEW o \in Ops(c), NEW d, SoundRelease(d), NEW p \in Ops(d),
         Method(c, o) = Method(d, p), NEW g, GoesTo(g, c, o, d, p)
  PROVE  SetOf(c, o) \subseteq SetOf(d, p)
  <1> DEFINE S == Optionals(o)
             T == Optionals(p)
             F == SetterOf(c, o)
             G == SetterOf(d, p)
             PlaceOf(x) == CHOOSE i \in DOMAIN o.params : x = o.params[i]
             h == [x \in S |-> p.params[g[PlaceOf(x)]]]
  <1>1. ParamsAre(c, o) /\ ParamsAre(d, p)
    BY ParamsAreSound
  <1>2. \A x \in S : x \in ToSet(o.params) /\ ~ x.required
    BY DEF Optionals
  <1>3. \A x \in S : PlaceOf(x) \in DOMAIN o.params /\ o.params[PlaceOf(x)] = x
    BY <1>1, <1>2 DEF ParamsAre
  <1> HIDE DEF PlaceOf
  <1>4. ASSUME NEW x \in S
        PROVE  /\ g[PlaceOf(x)] \in DOMAIN p.params /\ h[x] = p.params[g[PlaceOf(x)]] /\ h[x] \in T
               /\ AsParam(c, x, d, h[x]) /\ IsParam(c, x) /\ IsParam(d, h[x])
    <2>1. PlaceOf(x) \in DOMAIN o.params /\ o.params[PlaceOf(x)] = x
      BY <1>3
    <2>2. g[PlaceOf(x)] \in DOMAIN p.params /\ AsParam(c, x, d, p.params[g[PlaceOf(x)]])
      BY <2>1 DEF GoesTo
    <2>3. h[x] = p.params[g[PlaceOf(x)]]
      OBVIOUS
    <2>4. IsParam(c, x) /\ IsParam(d, p.params[g[PlaceOf(x)]]) /\ p.params[g[PlaceOf(x)]] \in ToSet(p.params)
      BY <1>1, <2>1, <2>2 DEF ParamsAre, IsParam
    <2>5. p.params[g[PlaceOf(x)]] \in T
      BY <1>2, <2>2, <2>4 DEF Optionals, AsParam
    <2> HIDE DEF h, T
    <2> QED BY <2>2, <2>3, <2>4, <2>5
  <1> HIDE DEF h, S, T
  <1>5. \A x \in S : Setter(c, x) = Setter(d, h[x])
    BY <1>2, <1>4, SetterTyKept DEF Setter, AsParam
  <1>6. ASSUME NEW x \in S, NEW y \in S, h[x] = h[y] PROVE x = y
    <2>1. g[PlaceOf(x)] = g[PlaceOf(y)]
      <3>1. p.params[g[PlaceOf(x)]] = p.params[g[PlaceOf(y)]]
        BY <1>4, <1>6
      <3>2. g[PlaceOf(x)] \in DOMAIN p.params /\ g[PlaceOf(y)] \in DOMAIN p.params
        BY <1>4
      <3>3. ParamKey(p.params[g[PlaceOf(x)]]) = ParamKey(p.params[g[PlaceOf(y)]])
        BY <3>1
      <3> QED BY <1>1, <3>2, <3>3 DEF ParamsAre
    <2>2. PlaceOf(x) = PlaceOf(y)
      BY <1>3, <2>1 DEF GoesTo
    <2> QED BY <1>3, <2>2
  <1>7. \A x \in S : F[x] = G[h[x]]
    BY <1>4, <1>5 DEF SetterOf, S, T
  <1>8. Leads(h, S, T, F, G)
    BY <1>4, <1>6, <1>7 DEF Leads
  <1>9. IsFiniteSet(T)
    <2>1. IsFiniteSet(1..Len(p.params))
      BY <1>1, FS_Interval DEF ParamsAre
    <2>2. IsFiniteSet({p.params[i] : i \in 1..Len(p.params)})
      BY <2>1, ImageFinite
    <2>3. T \in SUBSET {p.params[i] : i \in 1..Len(p.params)}
      BY <1>1 DEF T, Optionals, ToSet, ParamsAre
    <2> QED BY <2>2, <2>3, FS_Subset
  <1> HIDE DEF F, G
  <1>10. ASSUME NEW z PROVE /\ Cardinality(Where(S, F, z)) <= Cardinality(Where(T, G, z))
                            /\ Cardinality(Where(S, F, z)) \in Nat /\ Cardinality(Where(T, G, z)) \in Nat
    BY <1>8, <1>9, CountsGrow, FS_CardinalityType
  <1>11. \A z : z \in SetOf(c, o) <=> \E x \in S :
                 \E n \in 1..Cardinality(Where(S, F, Setter(c, x))) : z = <<Method(c, o), Setter(c, x), n>>
    BY SetOfIs DEF S, F
  <1>12. \A z : z \in SetOf(d, p) <=> \E y \in T :
                 \E n \in 1..Cardinality(Where(T, G, Setter(d, y))) : z = <<Method(d, p), Setter(d, y), n>>
    BY SetOfIs DEF T, G
  <1>13. ASSUME NEW z \in SetOf(c, o) PROVE z \in SetOf(d, p)
    <2>1. PICK x \in S : \E n \in 1..Cardinality(Where(S, F, Setter(c, x))) : z = <<Method(c, o), Setter(c, x), n>>
      BY <1>11
    <2>2. PICK n \in 1..Cardinality(Where(S, F, Setter(c, x))) : z = <<Method(c, o), Setter(c, x), n>>
      BY <2>1
    <2>3. h[x] \in T /\ Setter(c, x) = Setter(d, h[x])
      BY <1>4, <1>5
    <2>4. n \in 1..Cardinality(Where(T, G, Setter(d, h[x])))
      BY <1>10, <2>2, <2>3
    <2> QED BY <1>12, <2>2, <2>3, <2>4
  <1> QED BY <1>13

-----------------------------------------------------------------------------
(* What an accessor takes.                                                 *)

\* Of two places the smaller one is sooner.
LEMMA SoonerIsSmaller ==
  ASSUME NEW i \in Nat, NEW j \in Nat, Sooner(<< <<i>> >>, << <<j>> >>)
  PROVE  i < j
  <1> DEFINE s == <<i>>
             t == <<j>>
  <1>0. s \in Seq(Nat) /\ t \in Seq(Nat) /\ Len(s) = 1 /\ Len(t) = 1 /\ s[1] = i /\ t[1] = j
    OBVIOUS
  <1> HIDE DEF s, t
  <1>1. Sooner(<<s>>, <<t>>)
    BY DEF s, t
  <1>2. PICK k \in DOMAIN <<s>> : Precedes(<<s>>[k], <<t>>[k])
    BY <1>1 DEF Sooner
  <1>3. Precedes(s, t)
    BY <1>2
  <1>4. PICK m \in 1..Len(t) : m = Len(s) + 1 \/ (m <= Len(s) /\ s[m] < t[m])
    BY <1>0, <1>3, PrecedesAt
  <1> QED BY <1>0, <1>4

\* Places in their order have every place, the smaller first.
LEMMA InPlaceSorts ==
  ASSUME NEW S \in SUBSET Nat, IsFiniteSet(S)
  PROVE  /\ Cardinality(S) \in Nat /\ DOMAIN InPlace(S) = 1..Cardinality(S)
         /\ \A n \in 1..Cardinality(S) : InPlace(S)[n] \in S
         /\ \A i \in S : \E n \in 1..Cardinality(S) : InPlace(S)[n] = i
         /\ \A n, m \in 1..Cardinality(S) : n < m => InPlace(S)[n] < InPlace(S)[m]
  <1> DEFINE place == [i \in S |-> << <<i>> >>]
             Q == InPlace(S)
  <1>1. Placed(S, place, 1)
    <2>1. ASSUME NEW i \in S PROVE << <<i>> >> \in Tuples(1)
      <3>1. <<i>> \in Seq(Nat)
        OBVIOUS
      <3> DEFINE x == <<i>>
      <3>2. <<x>> = [j \in 1..1 |-> x]
        OBVIOUS
      <3> HIDE DEF x
      <3>3. <<x>> \in [1..1 -> Seq(Nat)]
        BY <3>1, <3>2 DEF x
      <3> QED BY <3>3 DEF Tuples, x
    <2>2. \A i, j \in S : << <<i>> >> = << <<j>> >> => i = j
      OBVIOUS
    <2> QED BY <2>1, <2>2 DEF Placed
  <1>2. Q = InOrder(S, place)
    BY DEF InPlace
  <1>3. \A i \in S : place[i] = << <<i>> >>
    OBVIOUS
  <1> HIDE DEF place, Q
  <1>4. Line(S, place, Q) /\ Len(Q) = Cardinality(S) /\ Cardinality(S) \in Nat
    BY <1>1, <1>2, InOrderIs
  <1>5. Q \in Seq(S) /\ DOMAIN Q = 1..Cardinality(S)
    BY <1>4 DEF Line
  <1>6. \A n \in 1..Cardinality(S) : Q[n] \in S
    BY <1>4, <1>5
  <1>7. \A n, m \in 1..Cardinality(S) : n < m => Sooner(place[Q[n]], place[Q[m]])
    BY <1>4 DEF Line
  <1>8. \A n, m \in 1..Cardinality(S) : n < m => Q[n] < Q[m]
    BY <1>3, <1>6, <1>7, SoonerIsSmaller
  <1> QED BY <1>4, <1>5, <1>6, <1>8 DEF Line, Q

\* The places url_args filters are those the surface orders.
LEMMA UrlPlacesAre ==
  ASSUME NEW c, NEW o, ParamsAre(c, o)
  PROVE  /\ {i \in Places(o) : ArgAt(c, o, i).shapesUrl} = UrlPlaces(o)
         /\ UrlPlaces(o) \in SUBSET Nat /\ IsFiniteSet(UrlPlaces(o))
         /\ \A i \in UrlPlaces(o) : /\ i = BundlePlace(o) => BundleShapesUrl(o)
                                    /\ i # BundlePlace(o) => i \in DOMAIN o.params /\ IsUrlArg(o.params[i])
         /\ ArgAt(c, o, BundlePlace(o)) = Arg("params", <<"Into">>, BundleShapesUrl(o))
         /\ \A i \in DOMAIN o.params :
              ArgAt(c, o, i) = Arg(o.params[i].name, Canon(c.api, c.names, o.params[i].ty), IsUrlArg(o.params[i]))
  <1>1. /\ \A i \in DOMAIN o.params : i # BundlePlace(o) /\ i # BodyPlace(o) /\ i \in Nat
        /\ BundlePlace(o) # BodyPlace(o) /\ BundlePlace(o) \in Nat
    BY DEF ParamsAre, BundlePlace, BodyPlace
  <1>2. \A i \in DOMAIN o.params :
          ArgAt(c, o, i) = Arg(o.params[i].name, Canon(c.api, c.names, o.params[i].ty), IsUrlArg(o.params[i]))
    BY <1>1 DEF ArgAt
  <1>3. ArgAt(c, o, BodyPlace(o)).shapesUrl = FALSE
    BY <1>1 DEF ArgAt, Arg
  <1>4. ArgAt(c, o, BundlePlace(o)) = Arg("params", <<"Into">>, BundleShapesUrl(o))
    BY DEF ArgAt
  <1>5. BundleShapesUrl(o) => Bundled(o)
    BY DEF BundleShapesUrl, Bundled
  <1>6. \A i : i \in Places(o) <=> \/ i \in DOMAIN o.params /\ o.params[i].required
                                   \/ i = BundlePlace(o) /\ Bundled(o)
                                   \/ i = BodyPlace(o) /\ o.payload # {}
    BY <1>1 DEF Places
  <1>7. \A i : i \in UrlPlaces(o) <=> \/ i \in DOMAIN o.params /\ IsUrlArg(o.params[i])
                                      \/ i = BundlePlace(o) /\ BundleShapesUrl(o)
    BY <1>1 DEF UrlPlaces
  <1>8. \A i \in DOMAIN o.params : /\ ArgAt(c, o, i).shapesUrl <=> IsUrlArg(o.params[i])
                                   /\ IsUrlArg(o.params[i]) => o.params[i].required
    <2>1. \A x, y, z : Arg(x, y, z).shapesUrl = z
      BY DEF Arg
    <2>2. \A i \in DOMAIN o.params : ArgAt(c, o, i).shapesUrl = IsUrlArg(o.params[i])
      BY <1>2, <2>1
    <2>3. \A i \in DOMAIN o.params : IsUrlArg(o.params[i]) => o.params[i].required
      BY DEF IsUrlArg
    <2> QED BY <2>2, <2>3
  <1>9. ArgAt(c, o, BundlePlace(o)).shapesUrl <=> BundleShapesUrl(o)
    BY <1>4 DEF Arg
  <1>10. \A i : (i \in Places(o) /\ ArgAt(c, o, i).shapesUrl) <=> i \in UrlPlaces(o)
    BY <1>1, <1>3, <1>5, <1>6, <1>7, <1>8, <1>9
  <1>11. {i \in Places(o) : ArgAt(c, o, i).shapesUrl} = UrlPlaces(o)
    BY <1>10
  <1>12. UrlPlaces(o) \in SUBSET Nat
    BY <1>1, <1>7
  <1>13. IsFiniteSet(UrlPlaces(o))
    <2>1. IsFiniteSet(1..Len(o.params))
      BY FS_Interval DEF ParamsAre
    <2>2. IsFiniteSet((1..Len(o.params)) \union {BundlePlace(o)})
      BY <2>1, FS_AddElement
    <2>3. UrlPlaces(o) \in SUBSET ((1..Len(o.params)) \union {BundlePlace(o)})
      BY <1>7 DEF ParamsAre
    <2> QED BY <2>2, <2>3, FS_Subset
  <1>14. \A i \in UrlPlaces(o) : /\ i = BundlePlace(o) => BundleShapesUrl(o)
                                 /\ i # BundlePlace(o) => i \in DOMAIN o.params /\ IsUrlArg(o.params[i])
    BY <1>1, <1>7
  <1> QED BY <1>2, <1>4, <1>11, <1>12, <1>13, <1>14

\* An accessor takes the arguments it took, in their order.
LEMMA UrlArgumentsKept ==
  ASSUME NEW c, SoundRelease(c), NEW o \in Ops(c), NEW d, SoundRelease(d), NEW p \in Ops(d),
         UrlArgs(o) = UrlArgs(p), NEW g, GoesTo(g, c, o, d, p)
  PROVE  UrlArguments(c, o) = UrlArguments(d, p)
  <1> DEFINE P == InPlace(UrlPlaces(o))
             Q == InPlace(UrlPlaces(p))
             F == [n \in DOMAIN P |-> ArgAt(c, o, P[n])]
             G == [n \in DOMAIN Q |-> ArgAt(d, p, Q[n])]
             U == [n \in DOMAIN P |-> IF P[n] = BundlePlace(o) THEN Optional ELSE ParamKey(o.params[P[n]])]
             V == [n \in DOMAIN Q |-> IF Q[n] = BundlePlace(p) THEN Optional ELSE ParamKey(p.params[Q[n]])]
  <1>1. ParamsAre(c, o) /\ ParamsAre(d, p)
    BY ParamsAreSound
  <1>2. /\ \A i \in UrlPlaces(o) : /\ i = BundlePlace(o) => BundleShapesUrl(o)
                                   /\ i # BundlePlace(o) => i \in DOMAIN o.params /\ IsUrlArg(o.params[i])
        /\ ArgAt(c, o, BundlePlace(o)) = Arg("params", <<"Into">>, BundleShapesUrl(o))
        /\ \A i \in DOMAIN o.params :
              ArgAt(c, o, i) = Arg(o.params[i].name, Canon(c.api, c.names, o.params[i].ty), IsUrlArg(o.params[i]))
    BY <1>1, UrlPlacesAre
  <1>3. /\ \A i \in UrlPlaces(p) : /\ i = BundlePlace(p) => BundleShapesUrl(p)
                                   /\ i # BundlePlace(p) => i \in DOMAIN p.params /\ IsUrlArg(p.params[i])
        /\ ArgAt(d, p, BundlePlace(p)) = Arg("params", <<"Into">>, BundleShapesUrl(p))
        /\ \A i \in DOMAIN p.params :
              ArgAt(d, p, i) = Arg(p.params[i].name, Canon(d.api, d.names, p.params[i].ty), IsUrlArg(p.params[i]))
    BY <1>1, UrlPlacesAre
  <1>4. UrlArguments(c, o) = F /\ UrlArguments(d, p) = G
    BY <1>1, UrlPlacesAre DEF UrlArguments, ArgsAt
  <1>5. U = V
    BY DEF UrlArgs
  <1>6. /\ \A n \in DOMAIN P : P[n] \in UrlPlaces(o)
        /\ \A n \in DOMAIN Q : Q[n] \in UrlPlaces(p)
    BY <1>1, UrlPlacesAre, InPlaceSorts
  <1>7. DOMAIN P = DOMAIN Q
    <2>1. DOMAIN U = DOMAIN P /\ DOMAIN V = DOMAIN Q
      OBVIOUS
    <2> QED BY <1>5, <2>1
  <1>8. ASSUME NEW n \in DOMAIN P PROVE ArgAt(c, o, P[n]) = ArgAt(d, p, Q[n])
    <2>1. (IF P[n] = BundlePlace(o) THEN Optional ELSE ParamKey(o.params[P[n]]))
            = (IF Q[n] = BundlePlace(p) THEN Optional ELSE ParamKey(p.params[Q[n]]))
      <3>1. U[n] = V[n] /\ n \in DOMAIN Q
        BY <1>5, <1>7
      <3> QED BY <3>1
    <2>2. \A x : ParamKey(x) # Optional
      BY DEF ParamKey, Optional
    <2>3. P[n] \in UrlPlaces(o) /\ Q[n] \in UrlPlaces(p)
      BY <1>6, <1>7
    <2> HIDE DEF P, Q
    <2>4. CASE P[n] = BundlePlace(o)
      <3>1. Q[n] = BundlePlace(p)
        BY <2>1, <2>2, <2>4
      <3>2. BundleShapesUrl(o) = TRUE /\ BundleShapesUrl(p) = TRUE
        BY <1>2, <1>3, <2>3, <2>4, <3>1 DEF BundleShapesUrl
      <3> QED BY <1>2, <1>3, <2>4, <3>1, <3>2
    <2>5. CASE P[n] # BundlePlace(o)
      <3>1. Q[n] # BundlePlace(p) /\ ParamKey(o.params[P[n]]) = ParamKey(p.params[Q[n]])
        BY <2>1, <2>2, <2>5
      <3>2. /\ P[n] \in DOMAIN o.params /\ IsUrlArg(o.params[P[n]])
            /\ Q[n] \in DOMAIN p.params /\ IsUrlArg(p.params[Q[n]])
        BY <1>2, <1>3, <2>3, <2>5, <3>1
      <3>3. g[P[n]] = Q[n] /\ AsParam(c, o.params[P[n]], d, p.params[Q[n]])
        BY <3>1, <3>2 DEF GoesTo
      <3>4. o.params[P[n]].required
        BY <3>2 DEF IsUrlArg
      <3>5. Canon(c.api, c.names, o.params[P[n]].ty) = Canon(d.api, d.names, p.params[Q[n]].ty)
        BY <3>3, <3>4, RequiredTy
      <3>6. o.params[P[n]].name = p.params[Q[n]].name
        BY <3>3 DEF AsParam
      <3>7. IsUrlArg(o.params[P[n]]) = IsUrlArg(p.params[Q[n]])
        BY <3>2 DEF IsUrlArg
      <3> QED BY <1>2, <1>3, <3>2, <3>5, <3>6, <3>7
    <2> QED BY <2>4, <2>5
  <1>9. F = G
    BY <1>7, <1>8
  <1> QED BY <1>4, <1>9

-----------------------------------------------------------------------------
(* The order of a call.                                                    *)

\* h takes S onto T.
Bijects(h, S, T) ==
  /\ h \in [S -> T] /\ \A j \in T : \E i \in S : h[i] = j
  /\ \A i, j \in S : h[i] = h[j] => i = j

\* What takes places to as many places, in their order, takes the n-th to the n-th.
LEMMA PlacesGo ==
  ASSUME NEW S \in SUBSET Nat, IsFiniteSet(S), NEW T \in SUBSET Nat, IsFiniteSet(T),
         NEW h, Bijects(h, S, T)
  PROVE  /\ DOMAIN InPlace(S) = DOMAIN InPlace(T)
         /\ (\A i, j \in S : i < j => h[i] < h[j]) =>
               \A n \in DOMAIN InPlace(S) : InPlace(T)[n] = h[InPlace(S)[n]]
  <1> DEFINE P == InPlace(S)
             Q == InPlace(T)
             m == Cardinality(S)
  <1>1. /\ m \in Nat /\ DOMAIN P = 1..m /\ \A n \in 1..m : P[n] \in S
        /\ \A i \in S : \E n \in 1..m : P[n] = i
        /\ \A n, k \in 1..m : n < k => P[n] < P[k]
    BY InPlaceSorts
  <1>2. /\ DOMAIN Q = 1..Cardinality(T) /\ \A n \in 1..Cardinality(T) : Q[n] \in T
        /\ \A i \in T : \E n \in 1..Cardinality(T) : Q[n] = i
        /\ \A n, k \in 1..Cardinality(T) : n < k => Q[n] < Q[k]
    BY InPlaceSorts
  <1>3. Cardinality(T) = m
    <2>1. h \in Bijection(S, T)
      BY DEF Bijects, Bijection, Injection, Surjection, IsInjective
    <2> QED BY <2>1, FS_Bijection DEF ExistsBijection
  <1> HIDE DEF P, Q, m
  <1>4. ASSUME \A i, j \in S : i < j => h[i] < h[j],
               NEW n0 \in 1..m, Q[n0] # h[P[n0]]
        PROVE  FALSE
    <2> DEFINE D == {n \in 1..m : Q[n] # h[P[n]]}
    <2>1. D \in SUBSET Nat /\ D # {}
      BY <1>1, <1>4
    <2>2. PICK n \in D : \A k \in D : n <= k
      BY <2>1, SmallestExists
    <2>3. n \in 1..m /\ Q[n] # h[P[n]]
      OBVIOUS
    <2>4. \A k \in 1..m : k < n => Q[k] = h[P[k]]
      BY <1>1, <2>2, <2>3
    <2> HIDE DEF D
    <2>5. h[P[n]] \in T /\ Q[n] \in T /\ P[n] \in S /\ P[n] \in Nat /\ h[P[n]] \in Nat /\ Q[n] \in Nat
      BY <1>1, <1>2, <1>3, <2>3 DEF Bijects
    <2>6. PICK a \in 1..m : Q[a] = h[P[n]]
      BY <1>2, <1>3, <2>5
    <2>7. PICK b \in 1..m : h[P[b]] = Q[n]
      BY <1>1, <2>5 DEF Bijects
    <2>8. n < a
      <3>1. a # n
        BY <2>3, <2>6
      <3>2. ~ (a < n)
        <4>1. ASSUME a < n PROVE FALSE
          <5>1. h[P[a]] = h[P[n]] /\ P[a] \in S
            BY <1>1, <2>4, <2>6, <4>1
          <5>2. P[a] = P[n]
            BY <2>5, <5>1 DEF Bijects
          <5>3. P[a] < P[n]
            BY <1>1, <2>3, <4>1
          <5> QED BY <2>5, <5>2, <5>3
        <4> QED BY <4>1
      <3> QED BY <1>1, <2>3, <3>1, <3>2
    <2>9. n < b
      <3>1. b # n
        BY <2>3, <2>7
      <3>2. ~ (b < n)
        <4>1. ASSUME b < n PROVE FALSE
          <5>1. Q[b] = Q[n] /\ Q[b] < Q[n]
            BY <1>2, <1>3, <2>3, <2>4, <2>7, <4>1
          <5> QED BY <2>5, <5>1
        <4> QED BY <4>1
      <3> QED BY <1>1, <2>3, <3>1, <3>2
    <2>10. Q[n] < Q[a]
      BY <1>2, <1>3, <2>3, <2>8
    <2>11. P[b] \in S /\ P[n] < P[b]
      BY <1>1, <2>3, <2>9
    <2>12. h[P[n]] < h[P[b]]
      BY <1>4, <2>5, <2>11
    <2> QED BY <2>5, <2>6, <2>7, <2>10, <2>12
  <1> QED BY <1>1, <1>2, <1>3, <1>4 DEF P, Q

\* What shapes the URL keeps to it, in its order.
UrlOrder(g, o, p) ==
  /\ \A i \in DOMAIN o.params : IsUrlArg(o.params[i]) <=> IsUrlArg(p.params[g[i]])
  /\ \A i, j \in DOMAIN o.params : IsUrlArg(o.params[i]) /\ IsUrlArg(o.params[j]) /\ i < j => g[i] < g[j]
  /\ BundleShapesUrl(o) <=> BundleShapesUrl(p)

\* The order the surface has of a URL's arguments is that of the parameters.
LEMMA UrlOrderKept ==
  ASSUME NEW c, SoundRelease(c), NEW o \in Ops(c), NEW d, SoundRelease(d), NEW p \in Ops(d),
         UrlArgs(o) = UrlArgs(p), NEW g, GoesTo(g, c, o, d, p)
  PROVE  UrlOrder(g, o, p)
  <1> DEFINE P == InPlace(UrlPlaces(o))
             Q == InPlace(UrlPlaces(p))
             U == [n \in DOMAIN P |-> IF P[n] = BundlePlace(o) THEN Optional ELSE ParamKey(o.params[P[n]])]
             V == [n \in DOMAIN Q |-> IF Q[n] = BundlePlace(p) THEN Optional ELSE ParamKey(p.params[Q[n]])]
             m == Cardinality(UrlPlaces(o))
             k == Cardinality(UrlPlaces(p))
  <1>1. ParamsAre(c, o) /\ ParamsAre(d, p)
    BY ParamsAreSound
  <1>2. /\ \A i \in UrlPlaces(o) : /\ i = BundlePlace(o) => BundleShapesUrl(o)
                                   /\ i # BundlePlace(o) => i \in DOMAIN o.params /\ IsUrlArg(o.params[i])
        /\ UrlPlaces(o) \in SUBSET Nat /\ IsFiniteSet(UrlPlaces(o))
    BY <1>1, UrlPlacesAre
  <1>3. /\ \A i \in UrlPlaces(p) : /\ i = BundlePlace(p) => BundleShapesUrl(p)
                                   /\ i # BundlePlace(p) => i \in DOMAIN p.params /\ IsUrlArg(p.params[i])
        /\ UrlPlaces(p) \in SUBSET Nat /\ IsFiniteSet(UrlPlaces(p))
    BY <1>1, UrlPlacesAre
  <1>4. /\ \A i \in DOMAIN o.params : i # BundlePlace(o)
        /\ \A j \in DOMAIN p.params : j # BundlePlace(p)
    BY <1>1 DEF ParamsAre, BundlePlace
  <1>5. /\ \A i : i \in UrlPlaces(o) <=> \/ i \in DOMAIN o.params /\ IsUrlArg(o.params[i])
                                         \/ i = BundlePlace(o) /\ BundleShapesUrl(o)
        /\ \A j : j \in UrlPlaces(p) <=> \/ j \in DOMAIN p.params /\ IsUrlArg(p.params[j])
                                         \/ j = BundlePlace(p) /\ BundleShapesUrl(p)
    BY DEF UrlPlaces
  <1>6. /\ m \in Nat /\ DOMAIN P = 1..m /\ \A n \in 1..m : P[n] \in UrlPlaces(o)
        /\ \A i \in UrlPlaces(o) : \E n \in 1..m : P[n] = i
        /\ \A n, l \in 1..m : n < l => P[n] < P[l]
    BY <1>2, InPlaceSorts
  <1>7. /\ k \in Nat /\ DOMAIN Q = 1..k /\ \A n \in 1..k : Q[n] \in UrlPlaces(p)
        /\ \A i \in UrlPlaces(p) : \E n \in 1..k : Q[n] = i
        /\ \A n, l \in 1..k : n < l => Q[n] < Q[l]
    BY <1>3, InPlaceSorts
  <1>8. U = V
    BY DEF UrlArgs
  <1>9. DOMAIN P = DOMAIN Q
    <2>1. DOMAIN U = DOMAIN P /\ DOMAIN V = DOMAIN Q
      OBVIOUS
    <2> QED BY <1>8, <2>1
  <1>10. \A n \in DOMAIN P : (IF P[n] = BundlePlace(o) THEN Optional ELSE ParamKey(o.params[P[n]]))
                               = (IF Q[n] = BundlePlace(p) THEN Optional ELSE ParamKey(p.params[Q[n]]))
    <2> TAKE n \in DOMAIN P
    <2>1. U[n] = V[n] /\ n \in DOMAIN Q
      BY <1>8, <1>9
    <2> QED BY <2>1
  <1>11. \A x : ParamKey(x) # Optional
    BY DEF ParamKey, Optional
  <1> HIDE DEF P, Q, U, V, m, k
  <1>12. ASSUME NEW n \in DOMAIN P
         PROVE  /\ P[n] = BundlePlace(o) <=> Q[n] = BundlePlace(p)
                /\ P[n] # BundlePlace(o) => P[n] \in DOMAIN o.params /\ Q[n] \in DOMAIN p.params /\ g[P[n]] = Q[n]
    <2>1. P[n] = BundlePlace(o) <=> Q[n] = BundlePlace(p)
      BY <1>10, <1>11
    <2>2. ASSUME P[n] # BundlePlace(o)
          PROVE  P[n] \in DOMAIN o.params /\ Q[n] \in DOMAIN p.params /\ g[P[n]] = Q[n]
      <3>1. ParamKey(o.params[P[n]]) = ParamKey(p.params[Q[n]])
        BY <1>10, <2>1, <2>2
      <3>2. P[n] \in DOMAIN o.params /\ Q[n] \in DOMAIN p.params
        BY <1>2, <1>3, <1>6, <1>7, <1>9, <2>1, <2>2
      <3> QED BY <3>1, <3>2 DEF GoesTo
    <2> QED BY <2>1, <2>2
  <1>13. ASSUME NEW i \in DOMAIN o.params, IsUrlArg(o.params[i])
         PROVE  \E n \in DOMAIN P : P[n] = i /\ Q[n] = g[i] /\ g[i] \in UrlPlaces(p)
    <2>1. PICK n \in DOMAIN P : P[n] = i
      BY <1>5, <1>6, <1>13
    <2>2. Q[n] = g[i] /\ Q[n] \in UrlPlaces(p)
      BY <1>4, <1>7, <1>9, <1>12, <2>1
    <2> QED BY <2>1, <2>2
  <1>14. ASSUME NEW i \in DOMAIN o.params, IsUrlArg(p.params[g[i]]) PROVE IsUrlArg(o.params[i])
    <2>1. g[i] \in DOMAIN p.params
      BY DEF GoesTo
    <2>2. PICK n \in DOMAIN Q : Q[n] = g[i]
      BY <1>5, <1>7, <1>14, <2>1
    <2>3. Q[n] # BundlePlace(p)
      BY <1>4, <2>1, <2>2
    <2>4. P[n] \in DOMAIN o.params /\ g[P[n]] = g[i] /\ P[n] \in UrlPlaces(o) /\ P[n] # BundlePlace(o)
      BY <1>6, <1>9, <1>12, <2>2, <2>3
    <2>5. P[n] = i
      BY <2>4 DEF GoesTo
    <2> QED BY <1>2, <2>4, <2>5
  <1>15. ASSUME NEW i \in DOMAIN o.params, IsUrlArg(o.params[i]) PROVE IsUrlArg(p.params[g[i]])
    <2>1. g[i] \in UrlPlaces(p) /\ g[i] \in DOMAIN p.params
      BY <1>13, <1>15 DEF GoesTo
    <2> QED BY <1>3, <1>4, <2>1
  <1>16. ASSUME NEW i \in DOMAIN o.params, NEW j \in DOMAIN o.params,
                IsUrlArg(o.params[i]), IsUrlArg(o.params[j]), i < j
         PROVE  g[i] < g[j]
    <2>1. PICK n \in DOMAIN P : P[n] = i /\ Q[n] = g[i]
      BY <1>13, <1>16
    <2>2. PICK l \in DOMAIN P : P[l] = j /\ Q[l] = g[j]
      BY <1>13, <1>16
    <2>3. i \in Nat /\ j \in Nat
      BY <1>1 DEF ParamsAre
    <2>4. n < l
      <3>1. n # l
        BY <1>16, <2>1, <2>2, <2>3
      <3>2. ~ (l < n)
        <4>1. ASSUME l < n PROVE FALSE
          <5>1. P[l] < P[n]
            BY <1>6, <4>1
          <5> QED BY <1>16, <2>1, <2>2, <2>3, <5>1
        <4> QED BY <4>1
      <3> QED BY <1>6, <3>1, <3>2
    <2> QED BY <1>7, <1>9, <2>1, <2>2, <2>4
  <1>17. BundleShapesUrl(o) => BundleShapesUrl(p)
    <2>1. SUFFICES ASSUME BundleShapesUrl(o) PROVE BundleShapesUrl(p)
      OBVIOUS
    <2>2. PICK n \in DOMAIN P : P[n] = BundlePlace(o)
      BY <1>5, <1>6, <2>1
    <2> QED BY <1>3, <1>7, <1>9, <1>12, <2>2
  <1>18. BundleShapesUrl(p) => BundleShapesUrl(o)
    <2>1. SUFFICES ASSUME BundleShapesUrl(p) PROVE BundleShapesUrl(o)
      OBVIOUS
    <2>2. PICK n \in DOMAIN Q : Q[n] = BundlePlace(p)
      BY <1>5, <1>7, <2>1
    <2> QED BY <1>2, <1>6, <1>9, <1>12, <2>2
  <1>19. BundleShapesUrl(o) <=> BundleShapesUrl(p)
    BY <1>17, <1>18
  <1>20. \A i \in DOMAIN o.params : IsUrlArg(o.params[i]) <=> IsUrlArg(p.params[g[i]])
    BY <1>14, <1>15 DEF IsUrlArg
  <1> QED BY <1>16, <1>19, <1>20 DEF UrlOrder

\* The places of the arguments of a method.
LEMMA PlacesAre ==
  ASSUME NEW c, NEW o, ParamsAre(c, o)
  PROVE  /\ \A i : i \in Places(o) <=> \/ i \in RequiredPlaces(o)
                                       \/ i = BundlePlace(o) /\ Bundled(o)
                                       \/ i = BodyPlace(o) /\ o.payload # {}
         /\ Positions(o) = Places(o) \ {BundlePlace(o)}
         /\ Places(o) \in SUBSET Nat /\ IsFiniteSet(Places(o)) /\ IsFiniteSet(Positions(o))
         /\ \A i \in RequiredPlaces(o) : i \in DOMAIN o.params /\ i \in Nat /\ i < BundlePlace(o)
         /\ BundlePlace(o) \in Nat /\ BodyPlace(o) = BundlePlace(o) + 1
         /\ Passed(c, o, BundlePlace(o)) = <<"params", <<"Into">> >>
  <1>1. /\ BundlePlace(o) = Len(o.params) + 1 /\ BodyPlace(o) = Len(o.params) + 2
        /\ Len(o.params) \in Nat /\ DOMAIN o.params = 1..Len(o.params)
    BY DEF BundlePlace, BodyPlace, ParamsAre
  <1>2. \A i \in RequiredPlaces(o) : i \in DOMAIN o.params /\ i \in Nat /\ i < BundlePlace(o)
    BY <1>1 DEF RequiredPlaces
  <1>3. \A i : i \in Places(o) <=> \/ i \in RequiredPlaces(o)
                                   \/ i = BundlePlace(o) /\ Bundled(o)
                                   \/ i = BodyPlace(o) /\ o.payload # {}
    BY DEF Places, RequiredPlaces
  <1>4. Places(o) \in SUBSET Nat /\ Places(o) \subseteq 1..(Len(o.params) + 2)
    BY <1>1, <1>2, <1>3
  <1>5. IsFiniteSet(Places(o)) /\ IsFiniteSet(Positions(o))
    <2>1. IsFiniteSet(1..(Len(o.params) + 2))
      BY <1>1, FS_Interval
    <2>2. Places(o) \in SUBSET (1..(Len(o.params) + 2)) /\ Positions(o) \in SUBSET Places(o)
      BY <1>4 DEF Positions
    <2> QED BY <2>1, <2>2, FS_Subset
  <1>6. Passed(c, o, BundlePlace(o)) = <<"params", <<"Into">> >>
    <2>1. ArgAt(c, o, BundlePlace(o)) = Arg("params", <<"Into">>, BundleShapesUrl(o))
      BY DEF ArgAt
    <2> QED BY <2>1 DEF Passed, Arg
  <1> QED BY <1>1, <1>2, <1>3, <1>4, <1>5, <1>6 DEF Positions

\* Without a bundle all of them are by position.
LEMMA NoBundle ==
  ASSUME NEW c, NEW o, ParamsAre(c, o), ~ Bundled(o)
  PROVE  Places(o) = Positions(o)
  <1>1. /\ \A i : i \in Places(o) <=> \/ i \in RequiredPlaces(o)
                                      \/ i = BundlePlace(o) /\ Bundled(o)
                                      \/ i = BodyPlace(o) /\ o.payload # {}
        /\ \A i \in RequiredPlaces(o) : i \in Nat /\ i < BundlePlace(o)
        /\ BundlePlace(o) \in Nat /\ BodyPlace(o) = BundlePlace(o) + 1
        /\ Positions(o) = Places(o) \ {BundlePlace(o)}
    BY PlacesAre
  <1>2. BundlePlace(o) \notin Places(o)
    BY <1>1
  <1> QED BY <1>1, <1>2

\* Two required parameters of which one shapes no URL may change places.
LEMMA StaysPut ==
  ASSUME NEW o, ~ Movable(o), NEW i \in RequiredPlaces(o), NEW j \in RequiredPlaces(o), i # j
  PROVE  IsUrlArg(o.params[i]) /\ IsUrlArg(o.params[j])
  BY DEF Movable, RequiredPlaces, IsUrlArg

\* The values of a call, the bundle among them or left aside, go where their parameters go.
LEMMA ArgumentsGo ==
  ASSUME NEW c, SoundRelease(c), NEW o \in Ops(c), NEW d, SoundRelease(d), NEW p \in Ops(d),
         NEW g, GoesTo(g, c, o, d, p), SameBody(c, o, d, p), UrlOrder(g, o, p), NEW S, NEW T,
         \/ S = Positions(o) /\ T = Positions(p)
         \/ Bundled(o) /\ Bundled(p) /\ S = Places(o) /\ T = Places(p)
  PROVE  /\ DOMAIN Call(c, o, S) = DOMAIN Call(d, p, T)
         /\ ~ Movable(o) => Call(c, o, S) = Call(d, p, T)
  <1> DEFINE bundle == BundlePlace(o)
             body == BodyPlace(o)
             h == [i \in S |-> IF i = bundle THEN BundlePlace(p) ELSE IF i = body THEN BodyPlace(p) ELSE g[i]]
  <1>1. ParamsAre(c, o) /\ ParamsAre(d, p)
    BY ParamsAreSound
  <1>2. /\ \A i : i \in Places(o) <=> \/ i \in RequiredPlaces(o)
                                      \/ i = bundle /\ Bundled(o)
                                      \/ i = body /\ o.payload # {}
        /\ Positions(o) = Places(o) \ {bundle}
        /\ Places(o) \in SUBSET Nat /\ IsFiniteSet(Places(o)) /\ IsFiniteSet(Positions(o))
        /\ \A i \in RequiredPlaces(o) : i \in DOMAIN o.params /\ i \in Nat /\ i < bundle
        /\ bundle \in Nat /\ body = bundle + 1
        /\ Passed(c, o, bundle) = <<"params", <<"Into">> >>
    BY <1>1, PlacesAre
  <1>3. /\ \A i : i \in Places(p) <=> \/ i \in RequiredPlaces(p)
                                      \/ i = BundlePlace(p) /\ Bundled(p)
                                      \/ i = BodyPlace(p) /\ p.payload # {}
        /\ Positions(p) = Places(p) \ {BundlePlace(p)}
        /\ Places(p) \in SUBSET Nat /\ IsFiniteSet(Places(p)) /\ IsFiniteSet(Positions(p))
        /\ \A i \in RequiredPlaces(p) : i \in DOMAIN p.params /\ i \in Nat /\ i < BundlePlace(p)
        /\ BundlePlace(p) \in Nat /\ BodyPlace(p) = BundlePlace(p) + 1
        /\ Passed(d, p, BundlePlace(p)) = <<"params", <<"Into">> >>
    BY <1>1, PlacesAre
  <1>4. /\ \A i \in RequiredPlaces(o) : Passed(c, o, i) = <<o.params[i].name, Canon(c.api, c.names, o.params[i].ty)>>
        /\ \A i \in RequiredPlaces(p) : Passed(d, p, i) = <<p.params[i].name, Canon(d.api, d.names, p.params[i].ty)>>
        /\ Passed(c, o, body) = <<"body", BodyArgTy(c, CHOOSE b \in o.payload : TRUE)>>
        /\ Passed(d, p, BodyPlace(p)) = <<"body", BodyArgTy(d, CHOOSE b \in p.payload : TRUE)>>
    BY <1>1, PositionsAre
  <1>5. /\ \A i \in RequiredPlaces(o) : i \in S
        /\ \A i \in RequiredPlaces(p) : i \in T
        /\ \A i \in S : i \in RequiredPlaces(o) \/ i = bundle \/ i = body
        /\ \A j \in T : j \in RequiredPlaces(p) \/ j = BundlePlace(p) \/ j = BodyPlace(p)
        /\ bundle \in S <=> BundlePlace(p) \in T
        /\ (body \in S <=> o.payload # {}) /\ (BodyPlace(p) \in T <=> p.payload # {})
        /\ S \in SUBSET Nat /\ T \in SUBSET Nat /\ IsFiniteSet(S) /\ IsFiniteSet(T)
    <2>1. /\ bundle # body /\ \A i \in RequiredPlaces(o) : i # bundle /\ i # body
          /\ BundlePlace(p) # BodyPlace(p) /\ \A i \in RequiredPlaces(p) : i # BundlePlace(p) /\ i # BodyPlace(p)
      BY <1>2, <1>3
    <2>2. CASE S = Positions(o) /\ T = Positions(p)
      BY <1>2, <1>3, <2>1, <2>2
    <2>3. CASE Bundled(o) /\ Bundled(p) /\ S = Places(o) /\ T = Places(p)
      BY <1>2, <1>3, <2>1, <2>3
    <2> QED BY <2>2, <2>3
  <1>6. o.payload # {} <=> p.payload # {}
    BY DEF SameBody
  <1>7. ASSUME NEW i \in RequiredPlaces(o)
        PROVE  /\ g[i] \in RequiredPlaces(p) /\ i # bundle /\ i # body
               /\ Passed(c, o, i) = Passed(d, p, g[i])
    <2>1. i \in DOMAIN o.params /\ o.params[i].required
      BY DEF RequiredPlaces
    <2>2. g[i] \in DOMAIN p.params /\ AsParam(c, o.params[i], d, p.params[g[i]])
      BY <2>1 DEF GoesTo
    <2>3. g[i] \in RequiredPlaces(p)
      BY <2>1, <2>2 DEF RequiredPlaces, AsParam
    <2>4. Canon(c.api, c.names, o.params[i].ty) = Canon(d.api, d.names, p.params[g[i]].ty)
          /\ o.params[i].name = p.params[g[i]].name
      BY <2>1, <2>2, RequiredTy DEF AsParam
    <2>5. i # bundle /\ i # body
      BY <1>2
    <2>6. Passed(c, o, i) = Passed(d, p, g[i])
      BY <1>4, <2>3, <2>4
    <2> QED BY <2>3, <2>5, <2>6
  <1>8. o.payload # {} => Passed(c, o, body) = Passed(d, p, BodyPlace(p))
    <2>1. SUFFICES ASSUME o.payload # {} PROVE Passed(c, o, body) = Passed(d, p, BodyPlace(p))
      OBVIOUS
    <2>2. (CHOOSE b \in o.payload : TRUE) \in o.payload /\ (CHOOSE b \in p.payload : TRUE) \in p.payload
      BY <1>6, <2>1
    <2>3. BodyArgTy(c, CHOOSE b \in o.payload : TRUE) = BodyArgTy(d, CHOOSE b \in p.payload : TRUE)
      BY <2>2 DEF SameBody
    <2> HIDE DEF body
    <2> QED BY <1>4, <2>3
  <1>9. ASSUME NEW j \in RequiredPlaces(p) PROVE \E i \in RequiredPlaces(o) : g[i] = j
    <2>1. j \in DOMAIN p.params /\ p.params[j].required
      BY DEF RequiredPlaces
    <2>2. PICK i \in DOMAIN o.params : g[i] = j
      BY <2>1 DEF GoesTo
    <2>3. i \in RequiredPlaces(o)
      BY <2>1, <2>2 DEF GoesTo, AsParam, RequiredPlaces
    <2> QED BY <2>2, <2>3
  <1>10. /\ \A i \in RequiredPlaces(o) : h[i] = g[i]
         /\ bundle \in S => h[bundle] = BundlePlace(p)
         /\ body \in S => h[body] = BodyPlace(p)
    <2>1. body # bundle
      BY <1>2
    <2>2. \A i \in RequiredPlaces(o) : i \in S /\ i # bundle /\ i # body
      BY <1>5, <1>7
    <2> HIDE DEF bundle, body
    <2> QED BY <2>1, <2>2
  <1>11. h = [i \in S |-> h[i]]
    OBVIOUS
  <1> HIDE DEF h, bundle, body
  <1>12. \A i \in S : h[i] \in T /\ Passed(c, o, i) = Passed(d, p, h[i])
    <2> TAKE i \in S
    <2>1. CASE i \in RequiredPlaces(o)
      BY <1>5, <1>7, <1>10, <2>1
    <2>2. CASE i = bundle
      BY <1>2, <1>3, <1>5, <1>10, <2>2
    <2>3. CASE i = body
      BY <1>5, <1>6, <1>8, <1>10, <2>3
    <2> QED BY <1>5, <2>1, <2>2, <2>3
  <1>13. \A j \in T : \E i \in S : h[i] = j
    <2> TAKE j \in T
    <2>1. CASE j \in RequiredPlaces(p)
      BY <1>5, <1>9, <1>10, <2>1
    <2>2. CASE j = BundlePlace(p)
      BY <1>5, <1>10, <2>2
    <2>3. CASE j = BodyPlace(p)
      BY <1>5, <1>6, <1>10, <2>3
    <2> QED BY <1>5, <2>1, <2>2, <2>3
  <1>14. ASSUME NEW i \in S, NEW j \in S, h[i] = h[j] PROVE i = j
    <2>1. CASE i \in RequiredPlaces(o) /\ j \in RequiredPlaces(o)
      BY <1>2, <1>10, <1>14, <2>1 DEF GoesTo
    <2>2. CASE i \in RequiredPlaces(o) /\ j \notin RequiredPlaces(o)
      BY <1>3, <1>5, <1>7, <1>10, <1>14, <2>2
    <2>3. CASE i \notin RequiredPlaces(o) /\ j \in RequiredPlaces(o)
      BY <1>3, <1>5, <1>7, <1>10, <1>14, <2>3
    <2>4. CASE i \notin RequiredPlaces(o) /\ j \notin RequiredPlaces(o)
      BY <1>3, <1>5, <1>10, <1>14, <2>4
    <2> QED BY <2>1, <2>2, <2>3, <2>4
  <1>15. Bijects(h, S, T)
    BY <1>11, <1>12, <1>13, <1>14 DEF Bijects
  <1>16. ASSUME ~ Movable(o), NEW i \in S, NEW j \in S, i < j PROVE h[i] < h[j]
    <2>1. CASE i \in RequiredPlaces(o) /\ j \in RequiredPlaces(o)
      <3>1. i \in Nat /\ j \in Nat /\ i \in DOMAIN o.params /\ j \in DOMAIN o.params
        BY <1>2, <2>1
      <3>2. i # j
        BY <1>16, <3>1
      <3>3. IsUrlArg(o.params[i]) /\ IsUrlArg(o.params[j])
        BY <1>16, <2>1, <3>2, StaysPut
      <3> QED BY <1>10, <1>16, <2>1, <3>1, <3>3 DEF UrlOrder
    <2>2. CASE i \in RequiredPlaces(o) /\ j \notin RequiredPlaces(o)
      <3>1. h[i] \in RequiredPlaces(p) /\ (h[j] = BundlePlace(p) \/ h[j] = BodyPlace(p))
        BY <1>5, <1>7, <1>10, <2>2
      <3> QED BY <1>3, <3>1
    <2>3. CASE i \notin RequiredPlaces(o) /\ j \in RequiredPlaces(o)
      BY <1>2, <1>5, <1>16, <2>3
    <2>4. CASE i \notin RequiredPlaces(o) /\ j \notin RequiredPlaces(o)
      <3>1. i = bundle /\ j = body
        BY <1>2, <1>5, <1>16, <2>4
      <3> QED BY <1>3, <1>10, <3>1
    <2> QED BY <2>1, <2>2, <2>3, <2>4
  <1>17. DOMAIN InPlace(S) = DOMAIN InPlace(T)
    BY <1>5, <1>15, PlacesGo
  <1>18. DOMAIN Call(c, o, S) = DOMAIN InPlace(S) /\ DOMAIN Call(d, p, T) = DOMAIN InPlace(T)
    BY DEF Call
  <1>19. ASSUME ~ Movable(o) PROVE Call(c, o, S) = Call(d, p, T)
    <2>1. \A n \in DOMAIN InPlace(S) : InPlace(T)[n] = h[InPlace(S)[n]] /\ InPlace(S)[n] \in S
      BY <1>5, <1>15, <1>16, <1>19, PlacesGo, InPlaceSorts
    <2>2. \A n \in DOMAIN InPlace(S) : Passed(c, o, InPlace(S)[n]) = Passed(d, p, InPlace(T)[n])
      BY <1>12, <2>1
    <2> QED BY <1>17, <2>2 DEF Call
  <1> QED BY <1>17, <1>18, <1>19

\* What stays of a call from release to release.
CallGoes(c, o, d, p) ==
  /\ DOMAIN Call(c, o, Positions(o)) = DOMAIN Call(d, p, Positions(p))
  /\ Bundled(o) => Bundled(p) /\ DOMAIN Call(c, o, Places(o)) = DOMAIN Call(d, p, Places(p))
  /\ BundleShapesUrl(o) <=> BundleShapesUrl(p)
  /\ ~ Movable(o) => /\ ~ Movable(p) /\ Call(c, o, Positions(o)) = Call(d, p, Positions(p))
                     /\ Bundled(o) => Call(c, o, Places(o)) = Call(d, p, Places(p))

\* A call goes on to the next release.
LEMMA CallKept ==
  ASSUME NEW c, SoundRelease(c), NEW o \in Ops(c), NEW d, SoundRelease(d), NEW p \in Ops(d),
         UrlArgs(o) = UrlArgs(p), NEW g, GoesTo(g, c, o, d, p), SameBody(c, o, d, p)
  PROVE  CallGoes(c, o, d, p)
  <1>1. UrlOrder(g, o, p)
    BY UrlOrderKept
  <1>2. ParamsAre(c, o) /\ ParamsAre(d, p)
    BY ParamsAreSound
  <1>3. Bundled(o) => Bundled(p)
    <2>1. SUFFICES ASSUME NEW x \in Optionals(o) PROVE Optionals(p) # {}
      BY DEF Bundled
    <2>2. PICK i \in DOMAIN o.params : x = o.params[i]
      BY <1>2 DEF ParamsAre, Optionals
    <2>3. g[i] \in DOMAIN p.params /\ AsParam(c, x, d, p.params[g[i]])
      BY <2>2 DEF GoesTo
    <2>4. p.params[g[i]] \in ToSet(p.params) /\ ~ p.params[g[i]].required
      BY <1>2, <2>3 DEF ParamsAre, AsParam, Optionals
    <2> QED BY <2>4 DEF Optionals
  <1>4. ASSUME Movable(p) PROVE Movable(o)
    <2>1. PICK i \in DOMAIN p.params, j \in DOMAIN p.params :
             i # j /\ p.params[i].required /\ p.params[j].required /\ ~ ShapesUrl(p.params[j])
      BY <1>4 DEF Movable
    <2>2. PICK k \in DOMAIN o.params : g[k] = i
      BY <2>1 DEF GoesTo
    <2>3. PICK l \in DOMAIN o.params : g[l] = j
      BY <2>1 DEF GoesTo
    <2>4. k # l /\ o.params[k].required /\ o.params[l].required
      BY <2>1, <2>2, <2>3 DEF GoesTo, AsParam
    <2>5. ~ IsUrlArg(o.params[l])
      BY <1>1, <2>1, <2>3 DEF UrlOrder, IsUrlArg
    <2>6. ~ ShapesUrl(o.params[l])
      BY <2>4, <2>5 DEF IsUrlArg
    <2> QED BY <2>4, <2>6 DEF Movable
  <1>5. /\ DOMAIN Call(c, o, Positions(o)) = DOMAIN Call(d, p, Positions(p))
        /\ ~ Movable(o) => Call(c, o, Positions(o)) = Call(d, p, Positions(p))
    BY <1>1, ArgumentsGo
  <1>6. ASSUME Bundled(o)
        PROVE  /\ DOMAIN Call(c, o, Places(o)) = DOMAIN Call(d, p, Places(p))
               /\ ~ Movable(o) => Call(c, o, Places(o)) = Call(d, p, Places(p))
    BY <1>1, <1>3, <1>6, ArgumentsGo
  <1> QED BY <1>1, <1>3, <1>4, <1>5, <1>6 DEF CallGoes, UrlOrder

\* A call that goes on stands, but for the bundle that arrives and what may move.
LEMMA CallStays ==
  ASSUME NEW c, NEW o, ParamsAre(c, o), NEW d, NEW p, ParamsAre(d, p), CallGoes(c, o, d, p)
  PROVE  CallStands(c, o, d, p)
  <1>1. ~ Bundled(o) => Places(o) = Positions(o)
    BY NoBundle
  <1>2. ~ Bundled(p) => Places(p) = Positions(p)
    BY NoBundle
  <1>3. CASE Bundled(o)
    BY <1>3 DEF CallGoes, CallStands, BundleArrives
  <1>4. CASE ~ Bundled(o) /\ Bundled(p)
    <2>1. ~ BundleShapesUrl(o)
      BY <1>4 DEF Bundled, BundleShapesUrl
    <2>2. BundleArrives(o, p)
      BY <1>4, <2>1 DEF CallGoes, BundleArrives
    <2> QED BY <1>1, <1>4, <2>2 DEF CallGoes, CallStands
  <1>5. CASE ~ Bundled(o) /\ ~ Bundled(p)
    <2>1. ~ BundleArrives(o, p)
      BY <1>5 DEF BundleArrives
    <2> QED BY <1>1, <1>2, <1>5, <2>1 DEF CallGoes, CallStands
  <1> QED BY <1>3, <1>4, <1>5

-----------------------------------------------------------------------------
(* What a method yields.                                                   *)

\* Pairs of a place and of what is there.
Pairs(F) == {<<s, F[s]>> : s \in DOMAIN F}

\* What pairs tell of a function.
LEMMA PairsTell ==
  ASSUME NEW F, NEW G, Pairs(F) = Pairs(G)
  PROVE  DOMAIN F = DOMAIN G /\ \A s \in DOMAIN F : F[s] = G[s]
  <1>1. \A s \in DOMAIN F : \E t \in DOMAIN G : <<s, F[s]>> = <<t, G[t]>>
    BY DEF Pairs
  <1>2. \A t \in DOMAIN G : \E s \in DOMAIN F : <<s, F[s]>> = <<t, G[t]>>
    BY DEF Pairs
  <1> QED BY <1>1, <1>2

\* Responses counts as this module does.
LEMMA CountsAlike == \A S : R!Cardinality(S) = Cardinality(S)
  BY DEF R!Cardinality, Cardinality

\* A shape of a table: of no status, of one with a body, or of several.
IsShape(table, x) ==
  /\ x.of \subseteq DOMAIN table /\ x.shape \in {"unit", "one", "enum"}
  /\ x.shape = "unit" => x.of = {}
  /\ x.shape = "one" => \E s : x.of = {s} /\ table[s] \in R!Bodied

\* A table has shapes, and a stream is a result of one type.
LEMMA ShapesAre ==
  ASSUME NEW table, IsFiniteSet(DOMAIN table)
  PROVE  /\ IsShape(table, R!SuccessShape(table)) /\ IsShape(table, R!ErrorShape(table))
         /\ R!StreamSuccess(table) => R!SuccessShape(table).shape = "one"
  <1>1. ASSUME NEW S \in SUBSET DOMAIN table
        PROVE  /\ IsShape(table, R!Enum(S)) /\ IsShape(table, R!Shape(table, S))
               /\ Cardinality(R!WithBody(table, S)) = 1 => R!Shape(table, S).shape = "one"
    <2> DEFINE bodied == R!WithBody(table, S)
    <2>1. IsFiniteSet(bodied) /\ bodied \subseteq S /\ \A s \in bodied : table[s] \in R!Bodied
      BY FS_Subset DEF R!WithBody
    <2>2. IsShape(table, R!Enum(S)) /\ IsShape(table, R!Unit)
      BY DEF R!Enum, R!Unit, IsShape
    <2>3. R!Shape(table, S) = IF bodied = {} THEN R!Unit
                              ELSE IF Cardinality(bodied) = 1 THEN R!One(bodied) ELSE R!Enum(S)
      BY CountsAlike DEF R!Shape
    <2> HIDE DEF bodied
    <2>4. ASSUME Cardinality(bodied) = 1 PROVE bodied # {} /\ IsShape(table, R!One(bodied))
      <3>1. PICK s : bodied = {s}
        BY <2>1, <2>4, FS_Singleton
      <3>2. s \in DOMAIN table /\ table[s] \in R!Bodied
        BY <2>1, <3>1
      <3> QED BY <3>1, <3>2 DEF R!One, IsShape
    <2>5. R!One(bodied).shape = "one"
      BY DEF R!One
    <2> QED BY <2>2, <2>3, <2>4, <2>5 DEF bodied
  <1>2. /\ R!Successes(table) \in SUBSET DOMAIN table /\ R!Errors(table) \in SUBSET DOMAIN table
        /\ R!SuccessSource(table) \in SUBSET DOMAIN table
    BY DEF R!Successes, R!Errors, R!SuccessSource, R!Declared
  <1>3. IsShape(table, R!SuccessShape(table)) /\ IsShape(table, R!ErrorShape(table))
    BY <1>1, <1>2 DEF R!SuccessShape, R!ErrorShape
  <1>4. ASSUME R!StreamSuccess(table) PROVE R!SuccessShape(table).shape = "one"
    <2>1. Cardinality(R!WithBody(table, R!SuccessSource(table))) = 1
      BY <1>4, CountsAlike DEF R!StreamSuccess
    <2>2. R!SuccessShape(table) = R!Shape(table, R!SuccessSource(table))
      BY <1>4 DEF R!SuccessShape, R!SuccessSource
    <2> QED BY <1>1, <1>2, <2>1, <2>2
  <1> QED BY <1>3, <1>4

\* What the selectors of a shape are read as.
Read(c, o, shape) == [s \in shape.of |-> BodyTy(c.api, c.names, o, s)]

\* The rendering of a result.
Renders(c, o, x, none, sig) ==
  /\ x.shape = "unit" => sig = none
  /\ x.shape = "one" => \E s \in DOMAIN o.table :
        /\ x.of = {s} /\ Read(c, o, x) = [t \in {s} |-> sig]
        /\ o.bodies[s] \in Refs(c.api) /\ sig = Canon(c.api, c.names, o.bodies[s])
  /\ x.shape = "enum" => sig = <<"{status:", Pairs(Read(c, o, x))>>

\* How a result is rendered.
LEMMA SigIs ==
  ASSUME NEW c, SoundRelease(c), NEW o \in Ops(c), NEW x, IsShape(o.table, x), NEW none
  PROVE  Renders(c, o, x, none, Sig(c.api, c.names, o, x, none))
  <1> DEFINE sig == Sig(c.api, c.names, o, x, none)
             body(s) == BodyTy(c.api, c.names, o, s)
  <1>1. x.shape = "unit" => sig = none
    BY DEF Sig
  <1>2. ASSUME x.shape = "one"
        PROVE  \E s \in DOMAIN o.table :
                 /\ x.of = {s} /\ Read(c, o, x) = [t \in {s} |-> sig]
                 /\ o.bodies[s] \in Refs(c.api) /\ sig = Canon(c.api, c.names, o.bodies[s])
    <2>1. PICK s : x.of = {s} /\ o.table[s] \in R!Bodied
      BY <1>2 DEF IsShape
    <2>2. s \in DOMAIN o.table
      BY <2>1 DEF IsShape
    <2>3. o.bodies[s] \in Refs(c.api)
      BY <2>2 DEF SoundRelease, NamedApi, WellTyped, WellTypedOperation, Ops
    <2>4. sig = body(CHOOSE t \in x.of : TRUE)
      BY <1>2 DEF Sig
    <2>5. (CHOOSE t \in x.of : TRUE) = s
      BY <2>1
    <2> HIDE DEF sig
    <2>6. sig = body(s)
      BY <2>4, <2>5
    <2>7. body(s) = Canon(c.api, c.names, o.bodies[s])
      BY <2>1 DEF BodyTy
    <2>8. Read(c, o, x) = [t \in {s} |-> sig]
      BY <2>1, <2>6 DEF Read
    <2> QED BY <2>1, <2>2, <2>3, <2>6, <2>7, <2>8
  <1>3. ASSUME x.shape = "enum" PROVE sig = <<"{status:", Pairs(Read(c, o, x))>>
    <2>1. sig = <<"{status:", {<<s, body(s)>> : s \in x.of}>>
      BY <1>3 DEF Sig
    <2>2. Pairs(Read(c, o, x)) = {<<s, body(s)>> : s \in x.of}
      BY DEF Pairs, Read
    <2> HIDE DEF sig, body
    <2> QED BY <2>1, <2>2
  <1> QED BY <1>1, <1>2, <1>3 DEF Renders

\* Results of one shape and with the same types.
SameShape(c, o, x, d, p, y) ==
  /\ x.shape = y.shape /\ (x.shape = "enum" => Read(c, o, x) = Read(d, p, y))
  /\ {Read(c, o, x)[s] : s \in DOMAIN Read(c, o, x)} = {Read(d, p, y)[s] : s \in DOMAIN Read(d, p, y)}

\* Results that render alike are alike, but for a type that reads as no error type.
LEMMA SigsTell ==
  ASSUME NEW c, SoundRelease(c), NEW o \in Ops(c), NEW x, IsShape(o.table, x),
         NEW d, SoundRelease(d), NEW p \in Ops(d), NEW y, IsShape(p.table, y),
         NEW none \in {NoBody, NoError}, Sig(c.api, c.names, o, x, none) = Sig(d.api, d.names, p, y, none)
  PROVE  \/ SameShape(c, o, x, d, p, y)
         \/ none = NoError /\ Sig(c.api, c.names, o, x, none) = none /\ (NamedNone(c) \/ NamedNone(d))
  <1> DEFINE sig == Sig(c.api, c.names, o, x, none)
             other == Sig(d.api, d.names, p, y, none)
             F == Read(c, o, x)
             G == Read(d, p, y)
  <1>1. /\ x.shape = "unit" => sig = none
        /\ x.shape = "one" => \E s \in DOMAIN o.table :
               /\ x.of = {s} /\ F = [t \in {s} |-> sig]
               /\ o.bodies[s] \in Refs(c.api) /\ sig = Canon(c.api, c.names, o.bodies[s])
        /\ x.shape = "enum" => sig = <<"{status:", Pairs(F)>>
    <2>1. Renders(c, o, x, none, sig)
      BY SigIs
    <2> HIDE DEF sig
    <2> QED BY <2>1 DEF Renders
  <1>2. /\ y.shape = "unit" => other = none
        /\ y.shape = "one" => \E s \in DOMAIN p.table :
               /\ y.of = {s} /\ G = [t \in {s} |-> other]
               /\ p.bodies[s] \in Refs(d.api) /\ other = Canon(d.api, d.names, p.bodies[s])
        /\ y.shape = "enum" => other = <<"{status:", Pairs(G)>>
    <2>1. Renders(d, p, y, none, other)
      BY SigIs
    <2> HIDE DEF other
    <2> QED BY <2>1 DEF Renders
  <1>3. x.shape \in {"unit", "one", "enum"} /\ y.shape \in {"unit", "one", "enum"}
    BY DEF IsShape
  <1>4. DOMAIN F = x.of /\ DOMAIN G = y.of /\ (x.shape = "unit" => x.of = {}) /\ (y.shape = "unit" => y.of = {})
    BY DEF Read, IsShape
  <1>5. NamedApi(c.api, c.names) /\ NamedApi(d.api, d.names) /\ WellTyped(c.api) /\ WellTyped(d.api)
    BY DEF SoundRelease, NamedApi
  <1>6. F = [s \in DOMAIN F |-> F[s]] /\ G = [s \in DOMAIN G |-> G[s]]
    BY DEF Read
  <1>7. \A z : <<"{status:", z>> # none
    <2>1. \A z : <<"{status:", z>> # NoBody
      BY DEF NoBody
    <2>2. \A z : <<"{status:", z>> # NoError
      BY DEF NoError
    <2> QED BY <2>1, <2>2
  <1>0. other = sig
    OBVIOUS
  <1> HIDE DEF sig, other, F, G
  <1>8. ASSUME x.shape = "one"
        PROVE  /\ sig # NoBody /\ (\A z : sig # <<"{status:", z>>)
               /\ sig = NoError => NamedNone(c)
    <2>1. PICK s \in DOMAIN o.table : o.bodies[s] \in Refs(c.api) /\ sig = Canon(c.api, c.names, o.bodies[s])
      BY <1>1, <1>8
    <2> QED BY <1>5, <2>1, CanonIsSomething, CanonIsNone DEF NamedNone
  <1>9. ASSUME y.shape = "one"
        PROVE  /\ sig # NoBody /\ (\A z : sig # <<"{status:", z>>)
               /\ sig = NoError => NamedNone(d)
    <2>1. PICK s \in DOMAIN p.table : p.bodies[s] \in Refs(d.api) /\ sig = Canon(d.api, d.names, p.bodies[s])
      BY <1>0, <1>2, <1>9
    <2> QED BY <1>5, <2>1, CanonIsSomething, CanonIsNone DEF NamedNone
  <1> DEFINE ReadAlike == /\ x.shape = y.shape /\ (x.shape = "enum" => F = G)
                     /\ {F[s] : s \in DOMAIN F} = {G[s] : s \in DOMAIN G}
             ByName == none = NoError /\ sig = none /\ (NamedNone(c) \/ NamedNone(d))
  <1>10. CASE x.shape = "unit" /\ y.shape = "unit"
    <2>1. DOMAIN F = {} /\ DOMAIN G = {}
      BY <1>4, <1>10
    <2>2. ReadAlike
      BY <1>10, <2>1
    <2> QED BY <2>2 DEF SameShape, F, G
  <1>11. CASE x.shape = "one" /\ y.shape = "one"
    <2>1. {F[s] : s \in DOMAIN F} = {sig} /\ {G[s] : s \in DOMAIN G} = {sig}
      <3>1. PICK s : F = [t \in {s} |-> sig]
        BY <1>1, <1>11
      <3>2. PICK r : G = [t \in {r} |-> sig]
        BY <1>0, <1>2, <1>11
      <3>3. {F[t] : t \in DOMAIN F} = {sig}
        BY <3>1
      <3>4. {G[t] : t \in DOMAIN G} = {sig}
        BY <3>2
      <3> QED BY <3>3, <3>4
    <2>2. ReadAlike
      BY <1>11, <2>1
    <2> QED BY <2>2 DEF SameShape, F, G
  <1>12. CASE x.shape = "enum" /\ y.shape = "enum"
    <2>1. Pairs(F) = Pairs(G)
      <3>1. sig = <<"{status:", Pairs(F)>>
        BY <1>1, <1>12
      <3>2. sig = <<"{status:", Pairs(G)>>
        BY <1>0, <1>2, <1>12
      <3>3. \A z : <<"{status:", z>>[2] = z
        OBVIOUS
      <3>4. sig[2] = Pairs(F)
        BY <3>1, <3>3
      <3>5. sig[2] = Pairs(G)
        BY <3>2, <3>3
      <3> QED BY <3>4, <3>5
    <2>2. F = G
      BY <1>6, <2>1, PairsTell
    <2>3. ReadAlike
      BY <1>12, <2>2
    <2> QED BY <2>3 DEF SameShape, F, G
  <1>13. CASE x.shape # y.shape
    <2>1. sig = none
      <3>1. CASE x.shape = "unit" \/ y.shape = "unit"
        BY <1>0, <1>1, <1>2, <3>1
      <3>2. CASE x.shape = "one" /\ y.shape = "enum"
        <4>1. sig = <<"{status:", Pairs(G)>>
          BY <1>0, <1>2, <3>2
        <4> QED BY <1>8, <3>2, <4>1
      <3>3. CASE x.shape = "enum" /\ y.shape = "one"
        <4>1. sig = <<"{status:", Pairs(F)>>
          BY <1>1, <3>3
        <4> QED BY <1>9, <3>3, <4>1
      <3> QED BY <1>3, <1>13, <3>1, <3>2, <3>3
    <2>2. x.shape = "one" \/ y.shape = "one"
      BY <1>0, <1>1, <1>2, <1>3, <1>7, <1>13, <2>1
    <2>3. ByName
      BY <1>8, <1>9, <2>1, <2>2
    <2> QED BY <2>3 DEF sig
  <1> QED BY <1>3, <1>10, <1>11, <1>12, <1>13

\* Results that are alike are read alike.
LEMMA YieldsSame ==
  ASSUME NEW c, NEW o, NEW x, NEW d, NEW p, NEW y, SameShape(c, o, x, d, p, y)
  PROVE  Plainly(Arms(c, o, x)) = Plainly(Arms(d, p, y))
  <1>1. Arms(c, o, x) = [enum |-> x.shape = "enum", arms |-> Read(c, o, x)]
        /\ Arms(d, p, y) = [enum |-> y.shape = "enum", arms |-> Read(d, p, y)]
    BY DEF Arms, Read
  <1> DEFINE a == Arms(c, o, x)
             b == Arms(d, p, y)
  <1>2. /\ (a.enum <=> x.shape = "enum") /\ a.arms = Read(c, o, x)
        /\ (b.enum <=> y.shape = "enum") /\ b.arms = Read(d, p, y)
    <2>1. \A e, r : [enum |-> e, arms |-> r].enum = e /\ [enum |-> e, arms |-> r].arms = r
      OBVIOUS
    <2>2. a.enum = (x.shape = "enum") /\ b.enum = (y.shape = "enum")
      BY <1>1, <2>1
    <2>3. a.arms = Read(c, o, x) /\ b.arms = Read(d, p, y)
      BY <1>1, <2>1
    <2> QED BY <2>2, <2>3
  <1>3. /\ Plainly(a) = IF a.enum THEN a.arms ELSE {a.arms[s] : s \in DOMAIN a.arms}
        /\ Plainly(b) = IF b.enum THEN b.arms ELSE {b.arms[s] : s \in DOMAIN b.arms}
    BY DEF Plainly
  <1> HIDE DEF a, b
  <1>4. CASE x.shape = "enum"
    <2>1. y.shape = "enum" /\ Read(c, o, x) = Read(d, p, y)
      BY <1>4 DEF SameShape
    <2>2. Plainly(a) = Read(c, o, x) /\ Plainly(b) = Read(d, p, y)
      BY <1>4, <1>2, <1>3, <2>1
    <2> QED BY <2>1, <2>2 DEF a, b
  <1>5. CASE x.shape # "enum"
    <2>1. y.shape # "enum"
      BY <1>5 DEF SameShape
    <2>2. /\ Plainly(a) = {Read(c, o, x)[s] : s \in DOMAIN Read(c, o, x)}
          /\ Plainly(b) = {Read(d, p, y)[s] : s \in DOMAIN Read(d, p, y)}
      BY <1>5, <1>2, <1>3, <2>1
    <2> QED BY <2>2 DEF SameShape, a, b
  <1> QED BY <1>4, <1>5

\* An error is of statuses the table has.
LEMMA ErrorShapeIs ==
  ASSUME NEW table
  PROVE  R!ErrorShape(table).of \subseteq DOMAIN table
  BY DEF R!ErrorShape, R!Errors, R!Declared, R!Shape, R!WithBody, R!Enum, R!One, R!Unit

\* The types of the bodies of errors, without their Option.
ErrorBodies(c, o) ==
  {Canon(c.api, c.names, [o.bodies[s] EXCEPT !.null = FALSE]) :
      s \in R!WithBody(o.table, R!ErrorShape(o.table).of)}

\* A reading without its Option.
LEMMA StrippedIs ==
  ASSUME NEW a, NEW names, NamedApi(a, names), NEW ty \in Refs(a)
  PROVE  /\ Plain(Inner(a, names, ty)) /\ Canon(a, names, ty) = Nullable(ty.null, Inner(a, names, ty))
         /\ ty.null \in BOOLEAN
         /\ Canon(a, names, [ty EXCEPT !.null = FALSE]) = Nullable(FALSE, Inner(a, names, ty))
  <1>1. /\ Plain(Inner(a, names, ty)) /\ Canon(a, names, ty) = Nullable(ty.null, Inner(a, names, ty))
        /\ ty.null \in BOOLEAN
        /\ \A null \in BOOLEAN : Canon(a, names, [ty EXCEPT !.null = null]) = Nullable(null, Inner(a, names, ty))
    BY CanonIs
  <1> QED BY <1>1

\* Errors that render alike have the same bodies.
LEMMA ErrorBodiesGo ==
  ASSUME NEW c, SoundRelease(c), NEW o \in Ops(c), NEW d, SoundRelease(d), NEW p \in Ops(d),
         SameShape(c, o, R!ErrorShape(o.table), d, p, R!ErrorShape(p.table))
  PROVE  ErrorBodies(c, o) \subseteq ErrorBodies(d, p)
  <1> DEFINE x == R!ErrorShape(o.table)
             y == R!ErrorShape(p.table)
             F == Read(c, o, x)
             G == Read(d, p, y)
  <1>1. {F[s] : s \in DOMAIN F} = {G[s] : s \in DOMAIN G}
    BY DEF SameShape
  <1>2. x.of \subseteq DOMAIN o.table /\ y.of \subseteq DOMAIN p.table
    BY ErrorShapeIs
  <1>3. /\ \A s \in DOMAIN o.table : o.bodies[s] \in Refs(c.api)
        /\ \A s \in DOMAIN p.table : p.bodies[s] \in Refs(d.api)
    BY DEF SoundRelease, NamedApi, WellTyped, WellTypedOperation, Ops
  <1> HIDE DEF x, y
  <1>4. SUFFICES ASSUME NEW s \in R!WithBody(o.table, x.of)
                 PROVE  Canon(c.api, c.names, [o.bodies[s] EXCEPT !.null = FALSE]) \in ErrorBodies(d, p)
    BY DEF ErrorBodies, x
  <1>5. s \in x.of /\ o.table[s] \in R!Bodied
    BY DEF R!WithBody
  <1>6. s \in DOMAIN F /\ F[s] = Canon(c.api, c.names, o.bodies[s])
    BY <1>5 DEF Read, BodyTy
  <1>7. PICK t \in DOMAIN G : G[t] = F[s]
    BY <1>1, <1>6
  <1>8. t \in y.of /\ G[t] = BodyTy(d.api, d.names, p, t)
    BY <1>7 DEF Read
  <1>9. o.bodies[s] \in Refs(c.api) /\ p.bodies[t] \in Refs(d.api)
    BY <1>2, <1>3, <1>5, <1>8
  <1>10. NamedApi(c.api, c.names) /\ NamedApi(d.api, d.names)
    BY DEF SoundRelease
  <1> HIDE DEF F, G
  <1>11. F[s] # NoBody
    BY <1>6, <1>9, <1>10, CanonIsSomething
  <1>12. p.table[t] \in R!Bodied /\ G[t] = Canon(d.api, d.names, p.bodies[t])
    BY <1>7, <1>8, <1>11 DEF BodyTy, NoBody
  <1>13. t \in R!WithBody(p.table, y.of)
    BY <1>8, <1>12 DEF R!WithBody
  <1> DEFINE b == Inner(c.api, c.names, o.bodies[s])
             e == Inner(d.api, d.names, p.bodies[t])
  <1> HIDE DEF b, e
  <1>14. /\ Plain(b) /\ Canon(c.api, c.names, o.bodies[s]) = Nullable(o.bodies[s].null, b)
         /\ o.bodies[s].null \in BOOLEAN
         /\ Canon(c.api, c.names, [o.bodies[s] EXCEPT !.null = FALSE]) = Nullable(FALSE, b)
    BY <1>9, <1>10, StrippedIs DEF b
  <1>15. /\ Plain(e) /\ Canon(d.api, d.names, p.bodies[t]) = Nullable(p.bodies[t].null, e)
         /\ p.bodies[t].null \in BOOLEAN
         /\ Canon(d.api, d.names, [p.bodies[t] EXCEPT !.null = FALSE]) = Nullable(FALSE, e)
    BY <1>9, <1>10, StrippedIs DEF e
  <1>16. b = e
    BY <1>6, <1>7, <1>12, <1>14, <1>15, NullableTells
  <1>17. Canon(d.api, d.names, [p.bodies[t] EXCEPT !.null = FALSE]) \in ErrorBodies(d, p)
    BY <1>13 DEF ErrorBodies, y
  <1> QED BY <1>14, <1>15, <1>16, <1>17

\* And then the same `api_body`.
LEMMA ErrorBodyKept ==
  ASSUME NEW c, SoundRelease(c), NEW o \in Ops(c), NEW d, SoundRelease(d), NEW p \in Ops(d),
         SameShape(c, o, R!ErrorShape(o.table), d, p, R!ErrorShape(p.table))
  PROVE  ErrorBody(c.api, c.names, o) = ErrorBody(d.api, d.names, p)
  <1>1. ErrorBodies(c, o) = ErrorBodies(d, p)
    <2>1. ErrorBodies(c, o) \subseteq ErrorBodies(d, p)
      BY ErrorBodiesGo
    <2>2. SameShape(d, p, R!ErrorShape(p.table), c, o, R!ErrorShape(o.table))
      BY DEF SameShape
    <2>3. ErrorBodies(d, p) \subseteq ErrorBodies(c, o)
      BY <2>2, ErrorBodiesGo
    <2> QED BY <2>1, <2>3
  <1>2. R!ErrorShape(o.table).shape = R!ErrorShape(p.table).shape
    BY DEF SameShape
  <1>3. /\ ErrorBody(c.api, c.names, o) =
             IF R!ErrorShape(o.table).shape = "unit" THEN {<<"Infallible">>}
             ELSE IF Cardinality(ErrorBodies(c, o)) = 1 THEN ErrorBodies(c, o) ELSE {}
        /\ ErrorBody(d.api, d.names, p) =
             IF R!ErrorShape(p.table).shape = "unit" THEN {<<"Infallible">>}
             ELSE IF Cardinality(ErrorBodies(d, p)) = 1 THEN ErrorBodies(d, p) ELSE {}
    BY DEF ErrorBody, ErrorBodies
  <1> QED BY <1>1, <1>2, <1>3

-----------------------------------------------------------------------------
(* The structs of response headers.                                        *)

StructName(c, o, h) == c.names[Key(<<"types">>, "headers", <<o.id, h.label>>)].name
FieldName(c, o, h, f) == c.names[Key(<<"header fields", o.id, h.label>>, "header", <<f.id>>)].name

\* The items of a listing have an identity each.
LEMMA ItemsOfList ==
  ASSUME NEW list, Listing(list), NEW m \in ToSet(list), NEW n \in ToSet(list), m.id = n.id
  PROVE  m = n
  <1>1. PICK i \in DOMAIN list : list[i] = m
    BY DEF ToSet
  <1>2. PICK j \in DOMAIN list : list[j] = n
    BY DEF ToSet
  <1> QED BY <1>1, <1>2 DEF Listing

\* A header struct is found under its label.
LEMMA HeadersAt ==
  ASSUME NEW c, SoundRelease(c), NEW o \in Ops(c)
  PROVE  /\ DOMAIN HeaderMap(c, o) = {h.label : h \in ToSet(o.headers)}
         /\ \A h \in ToSet(o.headers) : HeaderMap(c, o)[h.label] = HeaderStruct(c.api, c.names, o, h)
  <1> DEFINE K == {h.label : h \in ToSet(o.headers)}
             HeaderOf(l) == CHOOSE h \in ToSet(o.headers) : h.label = l
             f == [l \in K |-> HeaderStruct(c.api, c.names, o, HeaderOf(l))]
  <1>1. HeaderMap(c, o) = f
    BY DEF HeaderMap, OpSurface
  <1>2. \A h \in ToSet(o.headers) : HeaderOf(h.label) = h
    <2>1. \A i, j \in DOMAIN o.headers : o.headers[i].label = o.headers[j].label => i = j
      BY DEF SoundRelease, NamedApi, WellFormed, WellFormedOperation, Ops
    <2>2. \A h, g \in ToSet(o.headers) : h.label = g.label => h = g
      BY <2>1 DEF ToSet
    <2>3. \A h \in ToSet(o.headers) : HeaderOf(h.label) \in ToSet(o.headers) /\ HeaderOf(h.label).label = h.label
      OBVIOUS
    <2> HIDE DEF HeaderOf
    <2> QED BY <2>2, <2>3
  <1>3. \A h \in ToSet(o.headers) : h.label \in K
    OBVIOUS
  <1> HIDE DEF K, HeaderOf
  <1>4. \A h \in ToSet(o.headers) : f[h.label] = HeaderStruct(c.api, c.names, o, h)
    BY <1>2, <1>3
  <1> QED BY <1>1, <1>4 DEF K

\* A map of the members of a list, under their names.
FieldsAt(map, c, o, h) ==
  /\ DOMAIN map = {FieldName(c, o, h, f) : f \in ToSet(h.fields)}
  /\ \A f \in ToSet(h.fields) :
        map[FieldName(c, o, h, f)] = Member(Canon(c.api, c.names, f.ty), f.required)

\* Its fields are found under their names.
LEMMA HeaderFieldsAt ==
  ASSUME NEW c, SoundRelease(c), NEW o \in Ops(c), NEW h \in ToSet(o.headers)
  PROVE  FieldsAt(HeaderStruct(c.api, c.names, o, h).fields, c, o, h)
  <1> DEFINE K == {FieldName(c, o, h, f) : f \in ToSet(h.fields)}
             FieldOf(n) == CHOOSE g \in ToSet(h.fields) : FieldName(c, o, h, g) = n
             M == [n \in K |-> Member(Canon(c.api, c.names, FieldOf(n).ty), FieldOf(n).required)]
  <1>1. HeaderStruct(c.api, c.names, o, h).fields = M
    BY DEF HeaderStruct, FieldName
  <1>2. ASSUME NEW f \in ToSet(h.fields), NEW g \in ToSet(h.fields), FieldName(c, o, h, f) = FieldName(c, o, h, g)
        PROVE  f = g
    <2>1. SoundNames(c.api, c.names) /\ o \in ToSet(c.api.ops)
      BY DEF SoundRelease, NamedApi, Ops
    <2> DEFINE k == Key(<<"header fields", o.id, h.label>>, "header", <<f.id>>)
               l == Key(<<"header fields", o.id, h.label>>, "header", <<g.id>>)
    <2>2. k \in DOMAIN c.names /\ l \in DOMAIN c.names
      BY <2>1 DEF SoundNames
    <2>3. k.scope = l.scope /\ c.names[k].name = c.names[l].name
      BY <1>2 DEF Key, FieldName
    <2>4. k.item = <<f.id>> /\ l.item = <<g.id>>
      BY DEF Key
    <2> HIDE DEF k, l
    <2>5. k = l
      BY <2>1, <2>2, <2>3 DEF SoundNames
    <2>6. f.id = g.id
      BY <2>4, <2>5
    <2>7. Listing(h.fields)
      BY DEF SoundRelease, NamedApi, WellFormed, WellFormedOperation, WellFormedHeader, Ops
    <2> QED BY <2>6, <2>7, ItemsOfList
  <1>3. \A f \in ToSet(h.fields) : FieldOf(FieldName(c, o, h, f)) = f
    <2> TAKE f \in ToSet(h.fields)
    <2>1. FieldOf(FieldName(c, o, h, f)) \in ToSet(h.fields)
          /\ FieldName(c, o, h, FieldOf(FieldName(c, o, h, f))) = FieldName(c, o, h, f)
      OBVIOUS
    <2> HIDE DEF FieldOf
    <2> QED BY <1>2, <2>1
  <1>4. \A f \in ToSet(h.fields) : FieldName(c, o, h, f) \in K
    OBVIOUS
  <1> HIDE DEF FieldOf, K
  <1>5. \A f \in ToSet(h.fields) : M[FieldName(c, o, h, f)] = Member(Canon(c.api, c.names, f.ty), f.required)
    BY <1>3, <1>4
  <1> QED BY <1>1, <1>5 DEF FieldsAt, K

\* A header struct keeps its name and its fields.
LEMMA HeaderItemsKept ==
  ASSUME NEW c, SoundRelease(c), NEW o \in Ops(c), NEW d, SoundRelease(d), NEW p \in Ops(d), NEW at,
         OnlyAdds(DiffHeaders(at, HeaderMap(c, o), HeaderMap(d, p))), NEW h \in ToSet(o.headers)
  PROVE  \E g \in ToSet(p.headers) : HeaderItems(c, o, h) \subseteq HeaderItems(d, p, g)
  <1> DEFINE old == HeaderMap(c, o)
             new == HeaderMap(d, p)
             PlaceOf(l) == CASE l \notin DOMAIN old -> {Change("ResponseHeadersAdded", <<at, l>>)}
                        [] l \notin DOMAIN new -> {Change("ResponseHeadersRemoved", <<at, l>>)}
                        [] OTHER ->
                             If(old[l].name # new[l].name, Change("ResponseHeadersRenamed", <<at, l>>))
                             \union DiffMembers(Header, <<at, l>>, old[l].fields, new[l].fields)
             X == {PlaceOf(l) : l \in Both(old, new)}
             l == h.label
  <1>1. OnlyAdds(UNION X)
    BY DEF DiffHeaders
  <1>2. /\ DOMAIN old = {x.label : x \in ToSet(o.headers)} /\ old[l] = HeaderStruct(c.api, c.names, o, h)
        /\ DOMAIN new = {x.label : x \in ToSet(p.headers)}
        /\ \A x \in ToSet(p.headers) : new[x.label] = HeaderStruct(d.api, d.names, p, x)
    BY HeadersAt
  <1> HIDE DEF old, new
  <1>3. l \in DOMAIN old /\ l \in Both(old, new)
    BY <1>2 DEF Both
  <1>4. OnlyAdds(PlaceOf(l))
    <2>1. PlaceOf(l) \in X
      BY <1>3
    <2> HIDE DEF X, PlaceOf
    <2> QED BY <1>1, <2>1, AddsOfAll
  <1>5. l \in DOMAIN new
    <2>1. SUFFICES ASSUME l \notin DOMAIN new PROVE FALSE
      OBVIOUS
    <2>2. PlaceOf(l) = {Change("ResponseHeadersRemoved", <<at, l>>)}
      BY <1>3, <2>1
    <2> QED BY <1>4, <2>2, AddsChange DEF Additive
  <1>6. /\ OnlyAdds(If(old[l].name # new[l].name, Change("ResponseHeadersRenamed", <<at, l>>)))
        /\ OnlyAdds(DiffMembers(Header, <<at, l>>, old[l].fields, new[l].fields))
    <2>1. PlaceOf(l) = If(old[l].name # new[l].name, Change("ResponseHeadersRenamed", <<at, l>>))
                       \union DiffMembers(Header, <<at, l>>, old[l].fields, new[l].fields)
      BY <1>3, <1>5
    <2> HIDE DEF PlaceOf
    <2> QED BY <1>4, <2>1, AddsOfParts
  <1>7. PICK g \in ToSet(p.headers) : g.label = l
    BY <1>2, <1>5
  <1>8. old[l] = HeaderStruct(c.api, c.names, o, h) /\ new[l] = HeaderStruct(d.api, d.names, p, g)
    BY <1>2, <1>7
  <1>9. StructName(c, o, h) = StructName(d, p, g)
    <2>1. old[l].name = new[l].name
      <3>1. "ResponseHeadersRenamed" \notin Additive
        BY DEF Additive
      <3> QED BY <1>6, <3>1, AddsIf
    <2>2. /\ HeaderStruct(c.api, c.names, o, h).name = StructName(c, o, h)
          /\ HeaderStruct(d.api, d.names, p, g).name = StructName(d, p, g)
      BY DEF HeaderStruct, StructName
    <2> HIDE DEF l
    <2> QED BY <1>8, <2>1, <2>2
  <1>10. AsMembers(old[l].fields, new[l].fields)
    BY <1>6, MembersKept, KindsAreStrict
  <1>11. FieldsAt(old[l].fields, c, o, h) /\ FieldsAt(new[l].fields, d, p, g)
    BY <1>8, HeaderFieldsAt
  <1>12. ASSUME NEW f \in ToSet(h.fields)
         PROVE  \E e \in ToSet(g.fields) : /\ FieldName(c, o, h, f) = FieldName(d, p, g, e)
                                           /\ Canon(c.api, c.names, f.ty) = Canon(d.api, d.names, e.ty)
                                           /\ f.required = e.required
    <2> DEFINE n == FieldName(c, o, h, f)
    <2>1. n \in DOMAIN old[l].fields /\ old[l].fields[n] = Member(Canon(c.api, c.names, f.ty), f.required)
      BY <1>11 DEF FieldsAt
    <2> HIDE DEF n
    <2>2. n \in DOMAIN new[l].fields /\ AsMember(old[l].fields[n], new[l].fields[n])
      BY <1>10, <2>1 DEF AsMembers
    <2>3. PICK e \in ToSet(g.fields) : n = FieldName(d, p, g, e)
      BY <1>11, <2>2 DEF FieldsAt
    <2>4. new[l].fields[n] = Member(Canon(d.api, d.names, e.ty), e.required)
      BY <1>11, <2>3 DEF FieldsAt
    <2>5. Canon(c.api, c.names, f.ty) = Canon(d.api, d.names, e.ty) /\ f.required = e.required
      BY <2>1, <2>2, <2>4 DEF AsMember, Member
    <2> QED BY <2>3, <2>5 DEF n
  <1>13. /\ HeaderItems(c, o, h) = {Item(StructName(c, o, h), <<>>, <<>>, TRUE)}
              \union {Item(StructName(c, o, h), FieldName(c, o, h, f), Canon(c.api, c.names, f.ty), f.required) :
                        f \in ToSet(h.fields)}
         /\ HeaderItems(d, p, g) = {Item(StructName(d, p, g), <<>>, <<>>, TRUE)}
              \union {Item(StructName(d, p, g), FieldName(d, p, g, f), Canon(d.api, d.names, f.ty), f.required) :
                        f \in ToSet(g.fields)}
    BY DEF HeaderItems, StructName, FieldName
  <1>14. HeaderItems(c, o, h) \subseteq HeaderItems(d, p, g)
    BY <1>9, <1>12, <1>13
  <1> QED BY <1>14

-----------------------------------------------------------------------------
(* What code leans on of an operation.                                     *)

\* What an operation has that code leans on.
SameCall(c, o, d, p) ==
  /\ Method(c, o) = Method(d, p)
  /\ NameOf(c.names, <<"impl">>, "accessor", o) = NameOf(d.names, <<"impl">>, "accessor", p)
  /\ UrlArguments(c, o) = UrlArguments(d, p)
  /\ TakenBy(c, o) = TakenBy(d, p) /\ SetOf(c, o) \subseteq SetOf(d, p)
  /\ \A h \in ToSet(o.headers) : \E g \in ToSet(p.headers) : HeaderItems(c, o, h) \subseteq HeaderItems(d, p, g)

\* What a method yields renders as it did, and what stays of a call stays.
Stays(c, o, d, p) ==
  /\ Method(c, o) = Method(d, p) /\ CallGoes(c, o, d, p)
  /\ SuccessSig(c.api, c.names, o) = SuccessSig(d.api, d.names, p)
  /\ ErrorSig(c.api, c.names, o) = ErrorSig(d.api, d.names, p)

\* An operation is called in the next release as it was.
LEMMA OperationGoes ==
  ASSUME NEW c, NEW d, Succeeds(c, d), NEW o \in Ops(c)
  PROVE  \E p \in Ops(d) : SameCall(c, o, d, p) /\ Stays(c, o, d, p)
  <1>1. SoundRelease(c) /\ SoundRelease(d)
    BY DEF Succeeds
  <1>2. PICK p \in Ops(d) :
            /\ OperationStays(c, o, d, p)
            /\ OnlyAdds(DiffMember(Body, o.key, BodyMembers(c, o), BodyMembers(d, p)))
            /\ OnlyAdds(DiffParams(o.key, ParamMembers(c.api, c.names, o), ParamMembers(d.api, d.names, p)))
            /\ OnlyAdds(DiffHeaders(o.key, HeaderMap(c, o), HeaderMap(d, p)))
    BY OperationKept
  <1>3. PICK g : GoesTo(g, c, o, d, p)
    BY <1>1, <1>2, ParamsGo
  <1>4. SameBody(c, o, d, p)
    BY <1>2, BodyKept
  <1>5. TakenBy(c, o) = TakenBy(d, p)
    BY <1>1, <1>3, <1>4, TakenKept
  <1>6. SetOf(c, o) \subseteq SetOf(d, p)
    BY <1>1, <1>2, <1>3, SetOfKept DEF OperationStays
  <1>7. UrlArguments(c, o) = UrlArguments(d, p)
    BY <1>1, <1>2, <1>3, UrlArgumentsKept DEF OperationStays
  <1>8. CallGoes(c, o, d, p)
    BY <1>1, <1>2, <1>3, <1>4, CallKept DEF OperationStays
  <1>9. Stays(c, o, d, p)
    BY <1>2, <1>8 DEF OperationStays, Stays
  <1>10. \A h \in ToSet(o.headers) : \E k \in ToSet(p.headers) : HeaderItems(c, o, h) \subseteq HeaderItems(d, p, k)
    BY <1>1, <1>2, HeaderItemsKept
  <1> QED BY <1>2, <1>5, <1>6, <1>7, <1>9, <1>10 DEF SameCall, OperationStays

\* The parts of what code leans on that operations make up.
OperationsLean(c, d) ==
  /\ AccessorCalls(c) \subseteq AccessorCalls(d)
  /\ Arguments(c) \subseteq Arguments(d) /\ Setting(c) \subseteq Setting(d)
  /\ HeaderStructs(c) \subseteq HeaderStructs(d)
  /\ \A o \in Ops(c) : \E p \in Ops(d) : Stays(c, o, d, p)

\* What code leans on of operations stays.
LEMMA OperationsKept ==
  ASSUME NEW c, NEW d, Succeeds(c, d)
  PROVE  OperationsLean(c, d)
  <1>1. \A o \in Ops(c) : \E p \in Ops(d) : SameCall(c, o, d, p) /\ Stays(c, o, d, p)
    BY OperationGoes
  <1>2. AccessorCalls(c) \subseteq AccessorCalls(d)
    BY <1>1 DEF AccessorCalls, SameCall
  <1>3. Arguments(c) \subseteq Arguments(d)
    <2>1. /\ Arguments(c) = {<<Method(c, o), TakenBy(c, o)>> : o \in Ops(c)}
          /\ Arguments(d) = {<<Method(d, o), TakenBy(d, o)>> : o \in Ops(d)}
      BY DEF Arguments, TakenBy
    <2> QED BY <1>1, <2>1 DEF SameCall
  <1>4. Setting(c) \subseteq Setting(d)
    <2>1. /\ Setting(c) = UNION {SetOf(c, o) : o \in Ops(c)}
          /\ Setting(d) = UNION {SetOf(d, o) : o \in Ops(d)}
      BY DEF Setting, SetOf
    <2>2. ASSUME NEW z \in Setting(c) PROVE z \in Setting(d)
      <3>1. PICK o \in Ops(c) : z \in SetOf(c, o)
        BY <2>1
      <3>2. PICK p \in Ops(d) : SameCall(c, o, d, p)
        BY <1>1
      <3>3. z \in SetOf(d, p)
        BY <3>1, <3>2 DEF SameCall
      <3> QED BY <2>1, <3>3
    <2> QED BY <2>2
  <1>5. HeaderStructs(c) \subseteq HeaderStructs(d)
    <2>1. ASSUME NEW z \in HeaderStructs(c) PROVE z \in HeaderStructs(d)
      <3>1. PICK o \in Ops(c) : \E h \in ToSet(o.headers) : z \in HeaderItems(c, o, h)
        BY DEF HeaderStructs
      <3>2. PICK h \in ToSet(o.headers) : z \in HeaderItems(c, o, h)
        BY <3>1
      <3>3. PICK p \in Ops(d) : SameCall(c, o, d, p)
        BY <1>1
      <3>4. PICK g \in ToSet(p.headers) : HeaderItems(c, o, h) \subseteq HeaderItems(d, p, g)
        BY <3>3 DEF SameCall
      <3>5. z \in HeaderItems(d, p, g)
        BY <3>2, <3>4
      <3> QED BY <3>5 DEF HeaderStructs
    <2> QED BY <2>1
  <1> QED BY <1>1, <1>2, <1>3, <1>4, <1>5 DEF OperationsLean

-----------------------------------------------------------------------------
(* Types.                                                                  *)

NominalTypes(c) == {t \in ToSet(c.api.types) : t.kind \in Nominal}

SurfaceOf(c, t) == TypeSurface(c.api, c.names, t)

\* Types of one name are one.
LEMMA ModelsDiffer ==
  ASSUME NEW c, SoundRelease(c), NEW t \in ToSet(c.api.types), NEW u \in ToSet(c.api.types),
         ModelName(c.names, t) = ModelName(c.names, u)
  PROVE  t = u
  <1> DEFINE k == Key(<<"types">>, "model", <<t.id>>)
             l == Key(<<"types">>, "model", <<u.id>>)
  <1>1. SoundNames(c.api, c.names) /\ Listing(c.api.types)
    BY DEF SoundRelease, NamedApi, WellFormed
  <1>2. k \in DOMAIN c.names /\ l \in DOMAIN c.names
    BY <1>1 DEF SoundNames
  <1>3. k.scope = l.scope /\ c.names[k].name = c.names[l].name
    BY DEF Key, ModelName
  <1>4. k.item = <<t.id>> /\ l.item = <<u.id>>
    BY DEF Key
  <1> HIDE DEF k, l
  <1>5. k = l
    BY <1>1, <1>2, <1>3 DEF SoundNames
  <1>6. t.id = u.id
    BY <1>4, <1>5
  <1> QED BY <1>1, <1>6, ItemsOfList

\* A type is found under its name.
LEMMA TypesAt ==
  ASSUME NEW c, SoundRelease(c)
  PROVE  /\ DOMAIN c.surface.types = {ModelName(c.names, t) : t \in NominalTypes(c)}
         /\ \A t \in NominalTypes(c) : c.surface.types[ModelName(c.names, t)] = SurfaceOf(c, t)
  <1> DEFINE S == {t \in ToSet(c.api.types) : t.kind \in Nominal}
             K == {ModelName(c.names, t) : t \in S}
             TypeAt(n) == CHOOSE t \in S : ModelName(c.names, t) = n
             f == [n \in K |-> TypeSurface(c.api, c.names, TypeAt(n))]
  <1>1. c.surface.types = f
    BY DEF SoundRelease, Surface
  <1>2. \A t \in S : TypeAt(ModelName(c.names, t)) = t
    <2> TAKE t \in S
    <2>1. TypeAt(ModelName(c.names, t)) \in S
          /\ ModelName(c.names, TypeAt(ModelName(c.names, t))) = ModelName(c.names, t)
      OBVIOUS
    <2>2. \A u \in S : u \in ToSet(c.api.types)
      OBVIOUS
    <2> HIDE DEF TypeAt, S
    <2> QED BY <2>1, <2>2, ModelsDiffer
  <1>3. \A t \in S : ModelName(c.names, t) \in K
    OBVIOUS
  <1> HIDE DEF TypeAt, K
  <1>4. \A t \in S : f[ModelName(c.names, t)] = TypeSurface(c.api, c.names, t)
    BY <1>2, <1>3
  <1> QED BY <1>1, <1>4 DEF K, SurfaceOf, NominalTypes

\* A nominal type is there in the next release, and only adds.
LEMMA TypeKept ==
  ASSUME NEW c, NEW d, Succeeds(c, d), NEW t \in NominalTypes(c)
  PROVE  \E u \in NominalTypes(d) :
            /\ ModelName(c.names, t) = ModelName(d.names, u)
            /\ \E at : OnlyAdds(DiffType(at, SurfaceOf(c, t), SurfaceOf(d, u)))
  <1> DEFINE old == c.surface
             new == d.surface
             PlaceOf(n) ==
                CASE n \notin DOMAIN old.types ->
                       {Change(IF n \in old.aliases THEN "TypeKindChanged" ELSE "TypeAdded", n)}
                  [] n \notin DOMAIN new.types ->
                       {Change(IF n \in new.aliases THEN "TypeKindChanged" ELSE "TypeRemoved", n)}
                  [] OTHER -> DiffType(n, old.types[n], new.types[n])
             X == {PlaceOf(n) : n \in Both(old.types, new.types)}
             name == ModelName(c.names, t)
  <1>1. OnlyAdds(UNION X)
    BY FollowsParts DEF DiffTypes
  <1>2. /\ DOMAIN old.types = {ModelName(c.names, x) : x \in NominalTypes(c)}
        /\ old.types[name] = SurfaceOf(c, t)
        /\ DOMAIN new.types = {ModelName(d.names, x) : x \in NominalTypes(d)}
        /\ \A x \in NominalTypes(d) : new.types[ModelName(d.names, x)] = SurfaceOf(d, x)
    BY TypesAt DEF Succeeds
  <1> HIDE DEF old, new
  <1>3. name \in DOMAIN old.types /\ name \in Both(old.types, new.types)
    BY <1>2 DEF Both
  <1> HIDE DEF name
  <1>4. OnlyAdds(PlaceOf(name))
    <2>1. PlaceOf(name) \in X
      BY <1>3
    <2> HIDE DEF X, PlaceOf
    <2> QED BY <1>1, <2>1, AddsOfAll
  <1>5. name \in DOMAIN new.types
    <2>1. SUFFICES ASSUME name \notin DOMAIN new.types PROVE FALSE
      OBVIOUS
    <2>2. PlaceOf(name) = {Change(IF name \in new.aliases THEN "TypeKindChanged" ELSE "TypeRemoved", name)}
      BY <1>3, <2>1
    <2> HIDE DEF PlaceOf
    <2>3. (IF name \in new.aliases THEN "TypeKindChanged" ELSE "TypeRemoved") \in Additive
      BY <1>4, <2>2, AddsChange
    <2> QED BY <2>3 DEF Additive
  <1>6. PICK u \in NominalTypes(d) : name = ModelName(d.names, u)
    BY <1>2, <1>5
  <1>7. PlaceOf(name) = DiffType(name, old.types[name], new.types[name])
    BY <1>3, <1>5
  <1> HIDE DEF PlaceOf
  <1>8. OnlyAdds(DiffType(name, SurfaceOf(c, t), SurfaceOf(d, u)))
    BY <1>2, <1>4, <1>6, <1>7
  <1> QED BY <1>6, <1>8 DEF name

\* A map of the members of a type, under their names.
MembersAt(map, c, t) ==
  /\ DOMAIN map = {MemberName(c.names, t, "listed", m.id) : m \in ToSet(t.members)}
  /\ \A m \in ToSet(t.members) :
        map[MemberName(c.names, t, "listed", m.id)] = Member(Canon(c.api, c.names, m.ty), m.required)

\* The listed members are found under their names.
LEMMA ListedMembersAt ==
  ASSUME NEW c, SoundRelease(c), NEW t \in ToSet(c.api.types)
  PROVE  MembersAt(ListedMembers(c.api, c.names, t), c, t)
  <1> DEFINE CalledAs(m) == MemberName(c.names, t, "listed", m.id)
             K == {CalledAs(m) : m \in ToSet(t.members)}
             MemberAt(n) == CHOOSE l \in ToSet(t.members) : CalledAs(l) = n
             M == [n \in K |-> Member(Canon(c.api, c.names, MemberAt(n).ty), MemberAt(n).required)]
  <1>1. ListedMembers(c.api, c.names, t) = M
    BY DEF ListedMembers
  <1>2. ASSUME NEW m \in ToSet(t.members), NEW n \in ToSet(t.members), CalledAs(m) = CalledAs(n) PROVE m = n
    <2>1. SoundNames(c.api, c.names) /\ Listing(t.members)
      BY DEF SoundRelease, NamedApi, WellFormed, WellFormedType
    <2> DEFINE k == Key(<<"members", t.id>>, "listed", <<m.id>>)
               l == Key(<<"members", t.id>>, "listed", <<n.id>>)
    <2>2. k \in DOMAIN c.names /\ l \in DOMAIN c.names
      BY <2>1 DEF SoundNames
    <2>3. k.scope = l.scope /\ c.names[k].name = c.names[l].name
      BY <1>2 DEF Key, MemberName
    <2>4. k.item = <<m.id>> /\ l.item = <<n.id>>
      BY DEF Key
    <2> HIDE DEF k, l
    <2>5. k = l
      BY <2>1, <2>2, <2>3 DEF SoundNames
    <2>6. m.id = n.id
      BY <2>4, <2>5
    <2> QED BY <2>1, <2>6, ItemsOfList
  <1>3. \A m \in ToSet(t.members) : MemberAt(CalledAs(m)) = m
    <2> TAKE m \in ToSet(t.members)
    <2>1. MemberAt(CalledAs(m)) \in ToSet(t.members) /\ CalledAs(MemberAt(CalledAs(m))) = CalledAs(m)
      OBVIOUS
    <2> HIDE DEF MemberAt, CalledAs
    <2> QED BY <1>2, <2>1
  <1>4. \A m \in ToSet(t.members) : CalledAs(m) \in K
    OBVIOUS
  <1> HIDE DEF MemberAt, K, CalledAs
  <1>5. \A m \in ToSet(t.members) : M[CalledAs(m)] = Member(Canon(c.api, c.names, m.ty), m.required)
    BY <1>3, <1>4
  <1> QED BY <1>1, <1>5 DEF MembersAt, K, CalledAs

\* Every member of one list is a member of another.
ListGoes(c, t, d, u) ==
  \A m \in ToSet(t.members) : \E n \in ToSet(u.members) :
     /\ MemberName(c.names, t, "listed", m.id) = MemberName(d.names, u, "listed", n.id)
     /\ Canon(c.api, c.names, m.ty) = Canon(d.api, d.names, n.ty)
     /\ m.required = n.required

\* Members that go to members of the same name, type and requiredness are the same items.
LEMMA ListedGoes ==
  ASSUME NEW c, NEW t, NEW d, NEW u, ModelName(c.names, t) = ModelName(d.names, u), ListGoes(c, t, d, u)
  PROVE  Listed(c, t) \subseteq Listed(d, u)
  BY DEF Listed, ListGoes

\* What a variant lacks was removed.
LEMMA VariantsKept ==
  ASSUME NEW at, NEW old, NEW new, OnlyAdds(DiffVariants(at, old, new))
  PROVE  old \subseteq new
  <1>1. SUFFICES ASSUME NEW v \in old, v \notin new PROVE FALSE
    OBVIOUS
  <1>2. Change("VariantRemoved", <<at, v>>) \in DiffVariants(at, old, new)
    BY <1>1 DEF DiffVariants
  <1>3. Change("VariantRemoved", <<at, v>>).kind = "VariantRemoved"
    BY DEF Change
  <1> QED BY <1>2, <1>3 DEF OnlyAdds, Additive

\* An overflow map stays.
LEMMA OverflowKept ==
  ASSUME NEW at, NEW old, NEW new, OnlyAdds(DiffOverflow(at, old, new))
  PROVE  old \subseteq new
  <1> DEFINE same == {m[1] : m \in old} = {m[1] : m \in new}
  <1>1. DiffOverflow(at, old, new) =
          IF same THEN If(old # new, Change("AdditionalPropertiesTypeChanged", at))
          ELSE If(old # {}, Change("AdditionalPropertiesRemoved", at))
               \union If(new # {}, Change("AdditionalPropertiesAdded", at))
    BY DEF DiffOverflow
  <1> HIDE DEF same
  <1>2. CASE same
    <2>1. OnlyAdds(If(old # new, Change("AdditionalPropertiesTypeChanged", at)))
      BY <1>1, <1>2
    <2>2. "AdditionalPropertiesTypeChanged" \notin Additive
      BY DEF Additive
    <2>3. ~ (old # new)
      BY <2>1, <2>2, AddsIf
    <2> QED BY <2>3
  <1>3. CASE ~ same
    <2>1. OnlyAdds(If(old # {}, Change("AdditionalPropertiesRemoved", at)))
      BY <1>1, <1>3, AddsOfParts
    <2>2. "AdditionalPropertiesRemoved" \notin Additive
      BY DEF Additive
    <2>3. ~ (old # {})
      BY <2>1, <2>2, AddsIf
    <2> QED BY <2>3
  <1> QED BY <1>2, <1>3

\* The items of a model that are neither its own nor of its listed members.
OpenItems(c, t, ty) == {Item(ModelName(c.names, t), n, ty, TRUE) : n \in AddedName(c.names, t)}

\* A type of one release is one of the next under its name.
SameModel(c, t, d, u) ==
  /\ t \in NominalTypes(c) /\ u \in NominalTypes(d)
  /\ ModelName(c.names, t) = ModelName(d.names, u)
  /\ t.kind = u.kind
  /\ \E at : OnlyAdds(DiffType(at, SurfaceOf(c, t), SurfaceOf(d, u)))

\* The surface tells the kind of a type.
LEMMA KindOf ==
  ASSUME NEW c, NEW t \in NominalTypes(c)
  PROVE  SurfaceOf(c, t).kind = t.kind
  <1>1. t.kind \in Nominal
    BY DEF NominalTypes
  <1> QED BY <1>1 DEF SurfaceOf, TypeSurface, Nominal

\* A nominal type keeps its kind.
LEMMA ModelStays ==
  ASSUME NEW c, NEW d, Succeeds(c, d), NEW t \in NominalTypes(c)
  PROVE  \E u : SameModel(c, t, d, u)
  <1>1. PICK u \in NominalTypes(d) :
            /\ ModelName(c.names, t) = ModelName(d.names, u)
            /\ \E at : OnlyAdds(DiffType(at, SurfaceOf(c, t), SurfaceOf(d, u)))
    BY TypeKept
  <1>2. PICK at : OnlyAdds(DiffType(at, SurfaceOf(c, t), SurfaceOf(d, u)))
    BY <1>1
  <1>3. SurfaceOf(c, t).kind = t.kind /\ SurfaceOf(d, u).kind = u.kind
    BY KindOf
  <1>4. t.kind = u.kind
    <2>1. SUFFICES ASSUME t.kind # u.kind PROVE FALSE
      OBVIOUS
    <2> DEFINE old == SurfaceOf(c, t)
               new == SurfaceOf(d, u)
    <2> HIDE DEF old, new
    <2>2. old.kind # new.kind
      BY <1>3, <2>1 DEF old, new
    <2>3. DiffType(at, old, new) = {Change("TypeKindChanged", at)}
      BY <2>2 DEF DiffType
    <2>4. OnlyAdds({Change("TypeKindChanged", at)})
      BY <1>2, <2>3 DEF old, new
    <2> QED BY <2>4, AddsChange DEF Additive
  <1> QED BY <1>1, <1>4 DEF SameModel

\* Equal maps of members tell of lists where one goes.
LEMMA MapsGo ==
  ASSUME NEW c, NEW t, NEW d, NEW u, NEW old, NEW new, MembersAt(old, c, t), MembersAt(new, d, u),
         AsMembers(old, new)
  PROVE  ListGoes(c, t, d, u)
  <1>1. SUFFICES ASSUME NEW m \in ToSet(t.members)
                 PROVE  \E n \in ToSet(u.members) :
                           /\ MemberName(c.names, t, "listed", m.id) = MemberName(d.names, u, "listed", n.id)
                           /\ Canon(c.api, c.names, m.ty) = Canon(d.api, d.names, n.ty)
                           /\ m.required = n.required
    BY DEF ListGoes
  <1> DEFINE k == MemberName(c.names, t, "listed", m.id)
  <1>2. k \in DOMAIN old /\ old[k] = Member(Canon(c.api, c.names, m.ty), m.required)
    BY DEF MembersAt
  <1>3. k \in DOMAIN new /\ AsMember(old[k], new[k])
    BY <1>2 DEF AsMembers
  <1>4. PICK n \in ToSet(u.members) : k = MemberName(d.names, u, "listed", n.id)
    BY <1>3 DEF MembersAt
  <1>5. new[k] = Member(Canon(d.api, d.names, n.ty), n.required)
    BY <1>4 DEF MembersAt
  <1> HIDE DEF k
  <1>6. Canon(c.api, c.names, m.ty) = Canon(d.api, d.names, n.ty) /\ m.required = n.required
    BY <1>2, <1>3, <1>5 DEF AsMember, Member
  <1> QED BY <1>4, <1>6 DEF k

\* A struct keeps its fields and its overflow map.
LEMMA StructKept ==
  ASSUME NEW c, SoundRelease(c), NEW d, SoundRelease(d), NEW t, NEW u, SameModel(c, t, d, u), t.kind = "struct"
  PROVE  Model(c, t) \subseteq Model(d, u)
  <1>1. t \in ToSet(c.api.types) /\ u \in ToSet(d.api.types) /\ u.kind = "struct"
        /\ ModelName(c.names, t) = ModelName(d.names, u)
    BY DEF SameModel, NominalTypes
  <1> DEFINE old == SurfaceOf(c, t)
             new == SurfaceOf(d, u)
             x == Canon(c.api, c.names, t.target)
             y == Canon(d.api, d.names, u.target)
  <1>2. PICK at : OnlyAdds(DiffType(at, old, new))
    BY DEF SameModel
  <1>3. /\ old.kind = "struct" /\ old.members = ListedMembers(c.api, c.names, t)
        /\ old.added = {<<n, x>> : n \in AddedName(c.names, t)}
    BY DEF SurfaceOf, TypeSurface
  <1>4. /\ new.kind = "struct" /\ new.members = ListedMembers(d.api, d.names, u)
        /\ new.added = {<<n, y>> : n \in AddedName(d.names, u)}
    BY <1>1 DEF SurfaceOf, TypeSurface
  <1> HIDE DEF old, new, x, y
  <1>5. OnlyAdds(DiffMembers(Field, at, old.members, new.members)) /\ OnlyAdds(DiffOverflow(at, old.added, new.added))
    <2>1. DiffType(at, old, new) = DiffMembers(Field, at, old.members, new.members)
                                   \union DiffOverflow(at, old.added, new.added)
      BY <1>3, <1>4 DEF DiffType
    <2> QED BY <1>2, <2>1, AddsOfParts
  <1>6. ListGoes(c, t, d, u)
    <2>1. AsMembers(old.members, new.members)
      BY <1>5, MembersKept, KindsAreStrict
    <2>2. MembersAt(old.members, c, t) /\ MembersAt(new.members, d, u)
      BY <1>1, <1>3, <1>4, ListedMembersAt
    <2> QED BY <2>1, <2>2, MapsGo
  <1>7. Listed(c, t) \subseteq Listed(d, u)
    BY <1>1, <1>6, ListedGoes
  <1>8. OpenItems(c, t, x) \subseteq OpenItems(d, u, y)
    <2>1. old.added \subseteq new.added
      BY <1>5, OverflowKept
    <2>2. \A n \in AddedName(c.names, t) : n \in AddedName(d.names, u) /\ x = y
      <3> TAKE n \in AddedName(c.names, t)
      <3>1. <<n, x>> \in new.added
        BY <1>3, <2>1
      <3>2. PICK m \in AddedName(d.names, u) : <<n, x>> = <<m, y>>
        BY <1>4, <3>1
      <3> QED BY <3>2
    <2> QED BY <1>1, <2>2 DEF OpenItems
  <1>9. /\ Model(c, t) = {Item(ModelName(c.names, t), <<>>, <<"struct">>, TRUE)} \union Listed(c, t) \union OpenItems(c, t, x)
        /\ Model(d, u) = {Item(ModelName(d.names, u), <<>>, <<"struct">>, TRUE)} \union Listed(d, u) \union OpenItems(d, u, y)
    BY <1>1 DEF Model, OpenItems, x, y
  <1> QED BY <1>1, <1>7, <1>8, <1>9

\* An enum keeps its values and its open variant.
LEMMA EnumKept ==
  ASSUME NEW c, SoundRelease(c), NEW d, SoundRelease(d), NEW t, NEW u, SameModel(c, t, d, u), t.kind = "enum"
  PROVE  Model(c, t) \subseteq Model(d, u)
  <1>1. u.kind = "enum" /\ ModelName(c.names, t) = ModelName(d.names, u)
    BY DEF SameModel
  <1> DEFINE old == SurfaceOf(c, t)
             new == SurfaceOf(d, u)
  <1>2. PICK at : OnlyAdds(DiffType(at, old, new))
    BY DEF SameModel
  <1>3. /\ old.kind = "enum" /\ DOMAIN old.members = {<<m.id>> : m \in ToSet(t.members)}
        /\ old.added = {<<n, <<>> >> : n \in AddedName(c.names, t)}
    BY DEF SurfaceOf, TypeSurface
  <1>4. /\ new.kind = "enum" /\ DOMAIN new.members = {<<m.id>> : m \in ToSet(u.members)}
        /\ new.added = {<<n, <<>> >> : n \in AddedName(d.names, u)}
    BY <1>1 DEF SurfaceOf, TypeSurface
  <1> HIDE DEF old, new
  <1>5. /\ OnlyAdds(DiffVariants(at, DOMAIN old.members, DOMAIN new.members))
        /\ OnlyAdds(DiffVariants(<<at, "open">>, old.added, new.added))
    <2>1. DiffType(at, old, new) = DiffVariants(at, DOMAIN old.members, DOMAIN new.members)
                                   \union DiffVariants(<<at, "open">>, old.added, new.added)
      BY <1>3, <1>4 DEF DiffType
    <2> QED BY <1>2, <2>1, AddsOfParts
  <1>6. DOMAIN old.members \subseteq DOMAIN new.members /\ old.added \subseteq new.added
    BY <1>5, VariantsKept
  <1>7. \A n \in AddedName(c.names, t) : n \in AddedName(d.names, u)
    <2> TAKE n \in AddedName(c.names, t)
    <2>1. <<n, <<>> >> \in new.added
      BY <1>3, <1>6
    <2>2. PICK m \in AddedName(d.names, u) : <<n, <<>> >> = <<m, <<>> >>
      BY <1>4, <2>1
    <2> QED BY <2>2
  <1>8. OpenItems(c, t, <<>>) \subseteq OpenItems(d, u, <<>>)
    BY <1>1, <1>7 DEF OpenItems
  <1>9. \A m \in ToSet(t.members) : \E n \in ToSet(u.members) : <<m.id>> = <<n.id>>
    <2> TAKE m \in ToSet(t.members)
    <2>1. <<m.id>> \in DOMAIN new.members
      BY <1>3, <1>6
    <2> QED BY <1>4, <2>1
  <1>10. /\ Model(c, t) = {Item(ModelName(c.names, t), <<>>, <<"enum">>, TRUE)}
              \union {Item(ModelName(c.names, t), <<m.id>>, <<>>, TRUE) : m \in ToSet(t.members)}
              \union OpenItems(c, t, <<>>)
         /\ Model(d, u) = {Item(ModelName(d.names, u), <<>>, <<"enum">>, TRUE)}
              \union {Item(ModelName(d.names, u), <<m.id>>, <<>>, TRUE) : m \in ToSet(u.members)}
              \union OpenItems(d, u, <<>>)
    BY <1>1 DEF Model, OpenItems
  <1>11. {Item(ModelName(c.names, t), <<m.id>>, <<>>, TRUE) : m \in ToSet(t.members)}
           \subseteq {Item(ModelName(d.names, u), <<m.id>>, <<>>, TRUE) : m \in ToSet(u.members)}
    BY <1>1, <1>9
  <1> QED BY <1>1, <1>8, <1>10, <1>11

\* A newtype keeps what it wraps.
LEMMA NewtypeKept ==
  ASSUME NEW c, SoundRelease(c), NEW d, SoundRelease(d), NEW t, NEW u, SameModel(c, t, d, u), t.kind = "newtype"
  PROVE  Model(c, t) \subseteq Model(d, u)
  <1>1. u.kind = "newtype" /\ ModelName(c.names, t) = ModelName(d.names, u)
    BY DEF SameModel
  <1> DEFINE old == SurfaceOf(c, t)
             new == SurfaceOf(d, u)
             x == Canon(c.api, c.names, t.target)
             y == Canon(d.api, d.names, u.target)
  <1>2. PICK at : OnlyAdds(DiffType(at, old, new))
    BY DEF SameModel
  <1>3. old.kind = "newtype" /\ old.members = [n \in {<<"0">>} |-> Member(x, TRUE)]
    BY DEF SurfaceOf, TypeSurface
  <1>4. new.kind = "newtype" /\ new.members = [n \in {<<"0">>} |-> Member(y, TRUE)]
    BY <1>1 DEF SurfaceOf, TypeSurface
  <1> HIDE DEF old, new, x, y
  <1>5. OnlyAdds(If(old.members # new.members, Change("FieldTypeChanged", at)))
    BY <1>2, <1>3, <1>4 DEF DiffType
  <1>6. old.members = new.members
    <2>1. "FieldTypeChanged" \notin Additive
      BY DEF Additive
    <2>2. ~ (old.members # new.members)
      BY <1>5, <2>1, AddsIf
    <2> QED BY <2>2
  <1>7. x = y
    <2>1. old.members[<<"0">>] = Member(x, TRUE) /\ new.members[<<"0">>] = Member(y, TRUE)
      BY <1>3, <1>4
    <2>2. Member(x, TRUE) = Member(y, TRUE)
      BY <1>6, <2>1
    <2> QED BY <2>2 DEF Member
  <1>8. /\ Model(c, t) = {Item(ModelName(c.names, t), <<>>, <<"newtype">>, TRUE)}
              \union {Item(ModelName(c.names, t), <<"0">>, x, TRUE)}
        /\ Model(d, u) = {Item(ModelName(d.names, u), <<>>, <<"newtype">>, TRUE)}
              \union {Item(ModelName(d.names, u), <<"0">>, y, TRUE)}
    BY <1>1 DEF Model, x, y
  <1> QED BY <1>1, <1>7, <1>8

\* A type without values has nothing else to keep.
LEMMA NeverKept ==
  ASSUME NEW c, NEW d, NEW t, NEW u, SameModel(c, t, d, u), t.kind = "never"
  PROVE  Model(c, t) \subseteq Model(d, u)
  <1>1. u.kind = "never" /\ ModelName(c.names, t) = ModelName(d.names, u)
    BY DEF SameModel
  <1>2. /\ Model(c, t) = {Item(ModelName(c.names, t), <<>>, <<"never">>, TRUE)}
        /\ Model(d, u) = {Item(ModelName(d.names, u), <<>>, <<"never">>, TRUE)}
    BY <1>1 DEF Model
  <1> QED BY <1>1, <1>2

\* The names of what is added are not those of listed members.
LEMMA AddedApart ==
  ASSUME NEW c, SoundRelease(c), NEW t \in ToSet(c.api.types), NEW m \in ToSet(t.members)
  PROVE  MemberName(c.names, t, "listed", m.id) \notin AddedName(c.names, t)
  <1> DEFINE k == Key(<<"members", t.id>>, "listed", <<m.id>>)
  <1>1. SUFFICES ASSUME MemberName(c.names, t, "listed", m.id) \in AddedName(c.names, t) PROVE FALSE
    OBVIOUS
  <1>2. SoundNames(c.api, c.names)
    BY DEF SoundRelease, NamedApi
  <1>3. k \in DOMAIN c.names /\ k.scope = <<"members", t.id>> /\ k.family = "listed"
    BY <1>2 DEF SoundNames, Key
  <1>4. PICK l \in DOMAIN c.names : l.scope = <<"members", t.id>> /\ l.family = "added" /\ c.names[k].name = c.names[l].name
    BY <1>1 DEF AddedName, MemberName
  <1> HIDE DEF k
  <1>5. k = l
    BY <1>2, <1>3, <1>4 DEF SoundNames
  <1> QED BY <1>3, <1>4, <1>5

\* The variants of a union: those listed, and what takes every other tag.
UnionAt(map, c, t) ==
  /\ \A n : n \in DOMAIN map <=> \/ \E m \in ToSet(t.members) : n = MemberName(c.names, t, "listed", m.id)
                                 \/ n \in AddedName(c.names, t)
  /\ \A m \in ToSet(t.members) :
        /\ map[MemberName(c.names, t, "listed", m.id)].ty = Canon(c.api, c.names, m.ty)
        /\ m.required = TRUE /\ Canon(c.api, c.names, m.ty) # Tagged
  /\ \A n \in AddedName(c.names, t) : map[n].ty = Tagged

\* The members of a union, and its open variant with them.
LEMMA UnionIs ==
  ASSUME NEW c, SoundRelease(c), NEW t \in ToSet(c.api.types), t.kind = "union"
  PROVE  SurfaceOf(c, t).kind = "union" /\ UnionAt(SurfaceOf(c, t).members, c, t)
  <1> DEFINE L == ListedMembers(c.api, c.names, t)
             M == [n \in DOMAIN L \union AddedName(c.names, t) |-> IF n \in DOMAIN L THEN L[n] ELSE Member(Tagged, FALSE)]
  <1>1. SurfaceOf(c, t).kind = "union" /\ SurfaceOf(c, t).members = M
    <2>1. SurfaceOf(c, t) = [kind |-> "union", members |-> UnionMembers(c.api, c.names, t), added |-> {}]
      BY DEF SurfaceOf, TypeSurface
    <2>2. UnionMembers(c.api, c.names, t) = M
      BY DEF UnionMembers, Tagged
    <2> QED BY <2>1, <2>2
  <1>2. MembersAt(L, c, t)
    BY ListedMembersAt
  <1> HIDE DEF L
  <1>3. DOMAIN M = DOMAIN L \union AddedName(c.names, t)
    OBVIOUS
  <1>4. \A n : n \in DOMAIN M <=> \/ \E m \in ToSet(t.members) : n = MemberName(c.names, t, "listed", m.id)
                                  \/ n \in AddedName(c.names, t)
    BY <1>2, <1>3 DEF MembersAt
  <1>5. ASSUME NEW m \in ToSet(t.members)
        PROVE  /\ M[MemberName(c.names, t, "listed", m.id)].ty = Canon(c.api, c.names, m.ty)
               /\ m.required = TRUE /\ Canon(c.api, c.names, m.ty) # Tagged
    <2> DEFINE n == MemberName(c.names, t, "listed", m.id)
    <2>1. n \in DOMAIN L /\ L[n] = Member(Canon(c.api, c.names, m.ty), m.required)
      BY <1>2 DEF MembersAt
    <2> HIDE DEF n
    <2>2. M[n] = L[n]
      BY <2>1
    <2>3. M[n].ty = Canon(c.api, c.names, m.ty)
      BY <2>1, <2>2 DEF Member
    <2>4. m.ty \in Refs(c.api) /\ m.required = TRUE
      BY DEF SoundRelease, NamedApi, WellTyped, WellTypedType
    <2>5. Canon(c.api, c.names, m.ty) # Tagged
      BY <2>4, CanonIsSomething DEF SoundRelease
    <2> QED BY <2>3, <2>4, <2>5 DEF n
  <1>6. ASSUME NEW n \in AddedName(c.names, t) PROVE M[n].ty = Tagged
    <2>1. n \notin DOMAIN L
      BY <1>2, AddedApart DEF MembersAt
    <2>2. M[n] = Member(Tagged, FALSE)
      BY <2>1
    <2> QED BY <2>2 DEF Member
  <1> HIDE DEF M
  <1>7. UnionAt(M, c, t)
    BY <1>4, <1>5, <1>6 DEF UnionAt
  <1> QED BY <1>1, <1>7

\* A union keeps its variants, and its open one.
LEMMA UnionKept ==
  ASSUME NEW c, SoundRelease(c), NEW d, SoundRelease(d), NEW t, NEW u, SameModel(c, t, d, u), t.kind = "union"
  PROVE  Model(c, t) \subseteq Model(d, u)
  <1>1. t \in ToSet(c.api.types) /\ u \in ToSet(d.api.types) /\ u.kind = "union"
        /\ ModelName(c.names, t) = ModelName(d.names, u)
    BY DEF SameModel, NominalTypes
  <1> DEFINE old == SurfaceOf(c, t)
             new == SurfaceOf(d, u)
             M == old.members
             N == new.members
  <1>2. PICK at : OnlyAdds(DiffType(at, old, new))
    BY DEF SameModel
  <1>3. old.kind = "union" /\ UnionAt(M, c, t) /\ new.kind = "union" /\ UnionAt(N, d, u)
    BY <1>1, UnionIs
  <1> HIDE DEF old, new
  <1>4. OnlyAdds(DiffUnion(at, M, N))
    BY <1>2, <1>3 DEF DiffType
  <1> HIDE DEF M, N
  <1> DEFINE X == {If(M[v].ty # N[v].ty, Change("VariantTypeChanged", <<at, v>>)) : v \in DOMAIN M \intersect DOMAIN N}
  <1>5. OnlyAdds(DiffVariants(at, DOMAIN M, DOMAIN N)) /\ OnlyAdds(UNION X)
    BY <1>4, AddsOfParts DEF DiffUnion
  <1>6. DOMAIN M \subseteq DOMAIN N
    BY <1>5, VariantsKept
  <1>7. ASSUME NEW v \in DOMAIN M PROVE v \in DOMAIN N /\ M[v].ty = N[v].ty
    <2>1. v \in DOMAIN N
      BY <1>6
    <2>2. If(M[v].ty # N[v].ty, Change("VariantTypeChanged", <<at, v>>)) \in X
      BY <2>1
    <2> HIDE DEF X
    <2>3. OnlyAdds(If(M[v].ty # N[v].ty, Change("VariantTypeChanged", <<at, v>>)))
      BY <1>5, <2>2, AddsOfAll
    <2>4. "VariantTypeChanged" \notin Additive
      BY DEF Additive
    <2>5. ~ (M[v].ty # N[v].ty)
      BY <2>3, <2>4, AddsIf
    <2> QED BY <2>1, <2>5
  <1>8. ListGoes(c, t, d, u)
    <2>1. SUFFICES ASSUME NEW m \in ToSet(t.members)
                   PROVE  \E n \in ToSet(u.members) :
                             /\ MemberName(c.names, t, "listed", m.id) = MemberName(d.names, u, "listed", n.id)
                             /\ Canon(c.api, c.names, m.ty) = Canon(d.api, d.names, n.ty)
                             /\ m.required = n.required
      BY DEF ListGoes
    <2> DEFINE k == MemberName(c.names, t, "listed", m.id)
    <2>2. k \in DOMAIN M /\ M[k].ty = Canon(c.api, c.names, m.ty) /\ m.required = TRUE /\ M[k].ty # Tagged
      BY <1>3 DEF UnionAt
    <2> HIDE DEF k
    <2>3. k \in DOMAIN N /\ N[k].ty = M[k].ty
      BY <1>7, <2>2
    <2>4. k \notin AddedName(d.names, u)
      BY <1>3, <2>2, <2>3 DEF UnionAt
    <2>5. PICK n \in ToSet(u.members) : k = MemberName(d.names, u, "listed", n.id)
      BY <1>3, <2>3, <2>4 DEF UnionAt
    <2>6. N[k].ty = Canon(d.api, d.names, n.ty) /\ n.required = TRUE
      BY <1>3, <2>5 DEF UnionAt
    <2> QED BY <2>2, <2>3, <2>5, <2>6 DEF k
  <1>9. ASSUME NEW n \in AddedName(c.names, t) PROVE n \in AddedName(d.names, u)
    <2>1. n \in DOMAIN M /\ M[n].ty = Tagged
      BY <1>3 DEF UnionAt
    <2>2. n \in DOMAIN N /\ N[n].ty = Tagged
      BY <1>7, <2>1
    <2> QED BY <1>3, <2>2 DEF UnionAt
  <1>10. Listed(c, t) \subseteq Listed(d, u)
    BY <1>1, <1>8, ListedGoes
  <1>11. OpenItems(c, t, <<>>) \subseteq OpenItems(d, u, <<>>)
    BY <1>1, <1>9 DEF OpenItems
  <1>12. /\ Model(c, t) = {Item(ModelName(c.names, t), <<>>, <<"union">>, TRUE)} \union Listed(c, t) \union OpenItems(c, t, <<>>)
         /\ Model(d, u) = {Item(ModelName(d.names, u), <<>>, <<"union">>, TRUE)} \union Listed(d, u) \union OpenItems(d, u, <<>>)
    BY <1>1 DEF Model, OpenItems
  <1> QED BY <1>1, <1>10, <1>11, <1>12

\* What code leans on of types stays.
LEMMA ModelsKept ==
  ASSUME NEW c, NEW d, Succeeds(c, d)
  PROVE  Models(c) \subseteq Models(d)
  <1>1. SUFFICES ASSUME NEW z \in Models(c) PROVE z \in Models(d)
    OBVIOUS
  <1>2. /\ Models(c) = UNION {Model(c, t) : t \in NominalTypes(c)}
        /\ Models(d) = UNION {Model(d, t) : t \in NominalTypes(d)}
    BY DEF Models, NominalTypes
  <1>3. PICK t \in NominalTypes(c) : z \in Model(c, t)
    BY <1>2
  <1>4. PICK u : SameModel(c, t, d, u)
    BY ModelStays
  <1>5. Model(c, t) \subseteq Model(d, u)
    <2>1. SoundRelease(c) /\ SoundRelease(d)
      BY DEF Succeeds
    <2>2. t.kind \in {"struct", "enum", "union", "newtype", "never"}
      BY DEF NominalTypes, Nominal
    <2> QED BY <1>4, <2>1, <2>2, StructKept, EnumKept, UnionKept, NewtypeKept, NeverKept
  <1>6. u \in NominalTypes(d)
    BY <1>4 DEF SameModel
  <1> QED BY <1>2, <1>3, <1>5, <1>6

-----------------------------------------------------------------------------
(* Servers.                                                                *)

Builder(c, s) == c.names[Key(<<"servers">>, "server", <<s.id>>)].name
SetterName(c, s, v) == c.names[Key(<<"setters", s.id>>, "setter", <<v.id>>)].name
EnumName(c, s, v) == c.names[Key(<<"servers">>, "variable", <<s.id, v.id>>)].name
ValueName(c, s, v, w) == c.names[Key(<<"values", s.id, v.id>>, "value", w)].name

Servers(c) == ToSet(c.api.servers)

\* Servers of one builder are one.
LEMMA BuildersDiffer ==
  ASSUME NEW c, SoundRelease(c), NEW s \in Servers(c), NEW r \in Servers(c), Builder(c, s) = Builder(c, r)
  PROVE  s = r
  <1> DEFINE k == Key(<<"servers">>, "server", <<s.id>>)
             l == Key(<<"servers">>, "server", <<r.id>>)
  <1>1. SoundNames(c.api, c.names) /\ Listing(c.api.servers)
    BY DEF SoundRelease, NamedApi, WellFormed
  <1>2. k \in DOMAIN c.names /\ l \in DOMAIN c.names
    BY <1>1 DEF SoundNames, Servers
  <1>3. k.scope = l.scope /\ c.names[k].name = c.names[l].name
    BY DEF Key, Builder
  <1>4. k.item = <<s.id>> /\ l.item = <<r.id>>
    BY DEF Key
  <1> HIDE DEF k, l
  <1>5. k = l
    BY <1>1, <1>2, <1>3 DEF SoundNames
  <1>6. s.id = r.id
    BY <1>4, <1>5
  <1> QED BY <1>1, <1>6, ItemsOfList DEF Servers

\* Variables of one setter are one.
LEMMA SettersDiffer ==
  ASSUME NEW c, SoundRelease(c), NEW s \in Servers(c), NEW v \in ToSet(s.variables), NEW w \in ToSet(s.variables),
         SetterName(c, s, v) = SetterName(c, s, w)
  PROVE  v = w
  <1> DEFINE k == Key(<<"setters", s.id>>, "setter", <<v.id>>)
             l == Key(<<"setters", s.id>>, "setter", <<w.id>>)
  <1>1. SoundNames(c.api, c.names) /\ Listing(s.variables)
    BY DEF SoundRelease, NamedApi, WellFormed, WellFormedServer, Servers
  <1>2. k \in DOMAIN c.names /\ l \in DOMAIN c.names
    BY <1>1 DEF SoundNames, Servers
  <1>3. k.scope = l.scope /\ c.names[k].name = c.names[l].name
    BY DEF Key, SetterName
  <1>4. k.item = <<v.id>> /\ l.item = <<w.id>>
    BY DEF Key
  <1> HIDE DEF k, l
  <1>5. k = l
    BY <1>1, <1>2, <1>3 DEF SoundNames
  <1>6. v.id = w.id
    BY <1>4, <1>5
  <1> QED BY <1>1, <1>6, ItemsOfList

\* A server is found under its builder.
LEMMA ServersAt ==
  ASSUME NEW c, SoundRelease(c)
  PROVE  /\ DOMAIN c.surface.servers = {Builder(c, s) : s \in Servers(c)}
         /\ \A s \in Servers(c) : c.surface.servers[Builder(c, s)] = ServerSurface(c.names, s)
  <1> DEFINE S == ToSet(c.api.servers)
             K == {Builder(c, s) : s \in S}
             ServerAt(n) == CHOOSE s \in S : Builder(c, s) = n
             f == [n \in K |-> ServerSurface(c.names, ServerAt(n))]
  <1>1. c.surface.servers = f
    BY DEF SoundRelease, Surface, Builder
  <1>2. \A s \in S : ServerAt(Builder(c, s)) = s
    <2> TAKE s \in S
    <2>1. ServerAt(Builder(c, s)) \in S /\ Builder(c, ServerAt(Builder(c, s))) = Builder(c, s)
      OBVIOUS
    <2> HIDE DEF ServerAt
    <2> QED BY <2>1, BuildersDiffer DEF Servers
  <1>3. \A s \in S : Builder(c, s) \in K
    OBVIOUS
  <1> HIDE DEF ServerAt, K
  <1>4. \A s \in S : f[Builder(c, s)] = ServerSurface(c.names, s)
    BY <1>2, <1>3
  <1> QED BY <1>1, <1>4 DEF K, Servers

\* The surface of a variable.
VariableOf(c, s, v) ==
  [enum |-> IF v.values = <<>> THEN {} ELSE {EnumName(c, s, v)},
   variants |-> {ValueName(c, s, v, w) : w \in ToSet(v.values)}]

\* A variable is found under its setter.
LEMMA VariablesAt ==
  ASSUME NEW c, SoundRelease(c), NEW s \in Servers(c)
  PROVE  /\ DOMAIN ServerSurface(c.names, s) = {SetterName(c, s, v) : v \in ToSet(s.variables)}
         /\ \A v \in ToSet(s.variables) : ServerSurface(c.names, s)[SetterName(c, s, v)] = VariableOf(c, s, v)
  <1> DEFINE S == ToSet(s.variables)
             K == {SetterName(c, s, v) : v \in S}
             VariableAt(n) == CHOOSE w \in S : SetterName(c, s, w) = n
             f == [n \in K |-> VariableOf(c, s, VariableAt(n))]
  <1>1. ServerSurface(c.names, s) = f
    BY DEF ServerSurface, SetterName, EnumName, ValueName, VariableOf
  <1>2. \A v \in S : VariableAt(SetterName(c, s, v)) = v
    <2> TAKE v \in S
    <2>1. VariableAt(SetterName(c, s, v)) \in S
          /\ SetterName(c, s, VariableAt(SetterName(c, s, v))) = SetterName(c, s, v)
      OBVIOUS
    <2> HIDE DEF VariableAt
    <2> QED BY <2>1, SettersDiffer
  <1>3. \A v \in S : SetterName(c, s, v) \in K
    OBVIOUS
  <1> HIDE DEF VariableAt, K
  <1>4. \A v \in S : f[SetterName(c, s, v)] = VariableOf(c, s, v)
    BY <1>2, <1>3
  <1> QED BY <1>1, <1>4 DEF K

\* A server is there in the next release, and only adds.
LEMMA ServerKept ==
  ASSUME NEW c, NEW d, Succeeds(c, d), NEW s \in Servers(c)
  PROVE  \E r \in Servers(d) : /\ Builder(c, s) = Builder(d, r)
                               /\ \E at : OnlyAdds(DiffVariables(at, ServerSurface(c.names, s), ServerSurface(d.names, r)))
  <1> DEFINE old == c.surface.servers
             new == d.surface.servers
             PlaceOf(n) == CASE n \notin DOMAIN old -> {Change("ServerAdded", n)}
                        [] n \notin DOMAIN new -> {Change("ServerRemoved", n)}
                        [] OTHER -> DiffVariables(n, old[n], new[n])
             X == {PlaceOf(n) : n \in Both(old, new)}
             name == Builder(c, s)
  <1>1. OnlyAdds(UNION X)
    BY FollowsParts DEF DiffServers
  <1>2. /\ DOMAIN old = {Builder(c, x) : x \in Servers(c)} /\ old[name] = ServerSurface(c.names, s)
        /\ DOMAIN new = {Builder(d, x) : x \in Servers(d)}
        /\ \A x \in Servers(d) : new[Builder(d, x)] = ServerSurface(d.names, x)
    BY ServersAt DEF Succeeds
  <1> HIDE DEF old, new
  <1>3. name \in DOMAIN old /\ name \in Both(old, new)
    BY <1>2 DEF Both
  <1> HIDE DEF name
  <1>4. OnlyAdds(PlaceOf(name))
    <2>1. PlaceOf(name) \in X
      BY <1>3
    <2> HIDE DEF X, PlaceOf
    <2> QED BY <1>1, <2>1, AddsOfAll
  <1>5. name \in DOMAIN new
    <2>1. SUFFICES ASSUME name \notin DOMAIN new PROVE FALSE
      OBVIOUS
    <2>2. PlaceOf(name) = {Change("ServerRemoved", name)}
      BY <1>3, <2>1
    <2> QED BY <1>4, <2>2, AddsChange DEF Additive
  <1>6. PICK r \in Servers(d) : name = Builder(d, r)
    BY <1>2, <1>5
  <1>7. PlaceOf(name) = DiffVariables(name, old[name], new[name])
    BY <1>3, <1>5
  <1> HIDE DEF PlaceOf
  <1>8. OnlyAdds(DiffVariables(name, ServerSurface(c.names, s), ServerSurface(d.names, r)))
    BY <1>2, <1>4, <1>6, <1>7
  <1> QED BY <1>6, <1>8 DEF name

\* So is a variable, with its enum.
LEMMA VariableKept ==
  ASSUME NEW c, SoundRelease(c), NEW s \in Servers(c), NEW d, SoundRelease(d), NEW r \in Servers(d), NEW at,
         OnlyAdds(DiffVariables(at, ServerSurface(c.names, s), ServerSurface(d.names, r))),
         NEW v \in ToSet(s.variables)
  PROVE  \E w \in ToSet(r.variables) :
            /\ SetterName(c, s, v) = SetterName(d, r, w)
            /\ VariableOf(c, s, v).enum = VariableOf(d, r, w).enum
            /\ VariableOf(c, s, v).variants \subseteq VariableOf(d, r, w).variants
  <1> DEFINE old == ServerSurface(c.names, s)
             new == ServerSurface(d.names, r)
             PlaceOf(n) == CASE n \notin DOMAIN old -> {Change("ServerVariableAdded", <<at, n>>)}
                        [] n \notin DOMAIN new -> {Change("ServerVariableRemoved", <<at, n>>)}
                        [] OTHER -> DiffVariable(<<at, n>>, old[n], new[n])
             X == {PlaceOf(n) : n \in Both(old, new)}
             name == SetterName(c, s, v)
  <1>1. OnlyAdds(UNION X)
    BY DEF DiffVariables
  <1>2. /\ DOMAIN old = {SetterName(c, s, x) : x \in ToSet(s.variables)} /\ old[name] = VariableOf(c, s, v)
        /\ DOMAIN new = {SetterName(d, r, x) : x \in ToSet(r.variables)}
        /\ \A x \in ToSet(r.variables) : new[SetterName(d, r, x)] = VariableOf(d, r, x)
    BY VariablesAt
  <1> HIDE DEF old, new
  <1>3. name \in DOMAIN old /\ name \in Both(old, new)
    BY <1>2 DEF Both
  <1> HIDE DEF name
  <1>4. OnlyAdds(PlaceOf(name))
    <2>1. PlaceOf(name) \in X
      BY <1>3
    <2> HIDE DEF X, PlaceOf
    <2> QED BY <1>1, <2>1, AddsOfAll
  <1>5. name \in DOMAIN new
    <2>1. SUFFICES ASSUME name \notin DOMAIN new PROVE FALSE
      OBVIOUS
    <2>2. PlaceOf(name) = {Change("ServerVariableRemoved", <<at, name>>)}
      BY <1>3, <2>1
    <2> QED BY <1>4, <2>2, AddsChange DEF Additive
  <1>6. PICK w \in ToSet(r.variables) : name = SetterName(d, r, w)
    BY <1>2, <1>5
  <1> DEFINE x == VariableOf(c, s, v)
             y == VariableOf(d, r, w)
             place == <<at, name>>
  <1>7. PlaceOf(name) = DiffVariable(place, x, y)
    <2>1. PlaceOf(name) = DiffVariable(<<at, name>>, old[name], new[name])
      BY <1>3, <1>5
    <2>2. old[name] = x /\ new[name] = y
      BY <1>2, <1>6
    <2> HIDE DEF PlaceOf, x, y
    <2> QED BY <2>1, <2>2
  <1> HIDE DEF PlaceOf, x, y, place
  <1>8. OnlyAdds(DiffVariable(place, x, y))
    BY <1>4, <1>7
  <1>9. x.enum = y.enum
    <2>1. SUFFICES ASSUME x.enum # y.enum PROVE FALSE
      OBVIOUS
    <2>2. DiffVariable(place, x, y) = {Change("ServerVariableTypeChanged", place)}
      BY <2>1 DEF DiffVariable
    <2> QED BY <1>8, <2>2, AddsChange DEF Additive
  <1>10. x.variants \subseteq y.variants
    <2>1. OnlyAdds(DiffVariants(place, x.variants, y.variants))
      BY <1>8, <1>9 DEF DiffVariable
    <2> QED BY <2>1, VariantsKept
  <1> QED BY <1>6, <1>9, <1>10 DEF x, y, name

\* A setter keeps what it takes, with the variants of that.
LEMMA SetterItemsKept ==
  ASSUME NEW c, NEW s, NEW v, NEW d, NEW r, NEW w, Builder(c, s) = Builder(d, r),
         SetterName(c, s, v) = SetterName(d, r, w),
         VariableOf(c, s, v).enum = VariableOf(d, r, w).enum,
         VariableOf(c, s, v).variants \subseteq VariableOf(d, r, w).variants
  PROVE  SetterItems(c, s, v) \subseteq SetterItems(d, r, w)
  <1>1. (IF v.values = <<>> THEN {} ELSE {EnumName(c, s, v)}) = (IF w.values = <<>> THEN {} ELSE {EnumName(d, r, w)})
    BY DEF VariableOf
  <1>2. {ValueName(c, s, v, x) : x \in ToSet(v.values)} \subseteq {ValueName(d, r, w, x) : x \in ToSet(w.values)}
    BY DEF VariableOf
  <1>3. /\ SetterItems(c, s, v) =
             IF v.values = <<>> THEN {Item(Builder(c, s), SetterName(c, s, v), <<"String">>, TRUE)}
             ELSE {Item(Builder(c, s), SetterName(c, s, v), EnumName(c, s, v), TRUE)}
                  \union {Item(EnumName(c, s, v), ValueName(c, s, v, x), <<>>, TRUE) : x \in ToSet(v.values)}
        /\ SetterItems(d, r, w) =
             IF w.values = <<>> THEN {Item(Builder(d, r), SetterName(d, r, w), <<"String">>, TRUE)}
             ELSE {Item(Builder(d, r), SetterName(d, r, w), EnumName(d, r, w), TRUE)}
                  \union {Item(EnumName(d, r, w), ValueName(d, r, w, x), <<>>, TRUE) : x \in ToSet(w.values)}
    BY DEF SetterItems, Builder, SetterName, EnumName, ValueName
  <1>4. CASE v.values = <<>>
    <2>1. w.values = <<>>
      <3>1. SUFFICES ASSUME w.values # <<>> PROVE FALSE
        OBVIOUS
      <3>2. {} = {EnumName(d, r, w)}
        BY <1>1, <1>4, <3>1
      <3> QED BY <3>2
    <2> QED BY <1>3, <1>4, <2>1
  <1>5. CASE v.values # <<>>
    <2>1. w.values # <<>>
      <3>1. SUFFICES ASSUME w.values = <<>> PROVE FALSE
        OBVIOUS
      <3>2. {EnumName(c, s, v)} = {}
        BY <1>1, <1>5, <3>1
      <3> QED BY <3>2
    <2>2. EnumName(c, s, v) = EnumName(d, r, w)
      <3>1. {EnumName(c, s, v)} = {EnumName(d, r, w)}
        BY <1>1, <1>5, <2>1
      <3> QED BY <3>1
    <2>3. \A x \in ToSet(v.values) : \E y \in ToSet(w.values) : ValueName(c, s, v, x) = ValueName(d, r, w, y)
      BY <1>2
    <2>4. {Item(EnumName(c, s, v), ValueName(c, s, v, x), <<>>, TRUE) : x \in ToSet(v.values)}
            \subseteq {Item(EnumName(d, r, w), ValueName(d, r, w, x), <<>>, TRUE) : x \in ToSet(w.values)}
      BY <2>2, <2>3
    <2>5. /\ SetterItems(c, s, v) = {Item(Builder(c, s), SetterName(c, s, v), EnumName(c, s, v), TRUE)}
                \union {Item(EnumName(c, s, v), ValueName(c, s, v, x), <<>>, TRUE) : x \in ToSet(v.values)}
          /\ SetterItems(d, r, w) = {Item(Builder(d, r), SetterName(d, r, w), EnumName(d, r, w), TRUE)}
                \union {Item(EnumName(d, r, w), ValueName(d, r, w, x), <<>>, TRUE) : x \in ToSet(w.values)}
      BY <1>3, <1>5, <2>1
    <2> QED BY <2>2, <2>4, <2>5
  <1> QED BY <1>4, <1>5

\* What code leans on of servers stays.
LEMMA ServersKept ==
  ASSUME NEW c, NEW d, Succeeds(c, d)
  PROVE  ServerItems(c) \subseteq ServerItems(d)
  <1> DEFINE Of(x, s) == {Item(Builder(x, s), <<>>, <<>>, TRUE)} \union UNION {SetterItems(x, s, v) : v \in ToSet(s.variables)}
  <1>1. /\ ServerItems(c) = UNION {Of(c, s) : s \in Servers(c)}
        /\ ServerItems(d) = UNION {Of(d, s) : s \in Servers(d)}
    BY DEF ServerItems, Builder, Servers
  <1>2. ASSUME NEW s \in Servers(c) PROVE \E r \in Servers(d) : Of(c, s) \subseteq Of(d, r)
    <2>1. PICK r \in Servers(d) :
             /\ Builder(c, s) = Builder(d, r)
             /\ \E at : OnlyAdds(DiffVariables(at, ServerSurface(c.names, s), ServerSurface(d.names, r)))
      BY ServerKept
    <2>2. PICK at : OnlyAdds(DiffVariables(at, ServerSurface(c.names, s), ServerSurface(d.names, r)))
      BY <2>1
    <2>3. SoundRelease(c) /\ SoundRelease(d)
      BY DEF Succeeds
    <2>4. ASSUME NEW v \in ToSet(s.variables)
          PROVE  \E w \in ToSet(r.variables) : SetterItems(c, s, v) \subseteq SetterItems(d, r, w)
      <3>1. PICK w \in ToSet(r.variables) :
              /\ SetterName(c, s, v) = SetterName(d, r, w)
              /\ VariableOf(c, s, v).enum = VariableOf(d, r, w).enum
              /\ VariableOf(c, s, v).variants \subseteq VariableOf(d, r, w).variants
        BY <2>2, <2>3, VariableKept
      <3>2. SetterItems(c, s, v) \subseteq SetterItems(d, r, w)
        BY <2>1, <3>1, SetterItemsKept
      <3> QED BY <3>2
    <2>5. ASSUME NEW z \in Of(c, s) PROVE z \in Of(d, r)
      <3>1. CASE z = Item(Builder(c, s), <<>>, <<>>, TRUE)
        BY <2>1, <3>1
      <3>2. CASE \E v \in ToSet(s.variables) : z \in SetterItems(c, s, v)
        <4>1. PICK v \in ToSet(s.variables) : z \in SetterItems(c, s, v)
          BY <3>2
        <4>2. PICK w \in ToSet(r.variables) : SetterItems(c, s, v) \subseteq SetterItems(d, r, w)
          BY <2>4
        <4> QED BY <4>1, <4>2
      <3> QED BY <2>5, <3>1, <3>2
    <2> QED BY <2>5
  <1> HIDE DEF Of
  <1>3. ASSUME NEW z \in ServerItems(c) PROVE z \in ServerItems(d)
    <2>1. PICK s \in Servers(c) : z \in Of(c, s)
      BY <1>1
    <2>2. PICK r \in Servers(d) : Of(c, s) \subseteq Of(d, r)
      BY <1>2
    <2>3. z \in Of(d, r)
      BY <2>1, <2>2
    <2> QED BY <1>1, <2>3
  <1> QED BY <1>3

-----------------------------------------------------------------------------
(* The names of a release.                                                 *)

\* All that is allocated.
LEMMA AllocatedIs ==
  ASSUME NEW a
  PROVE  Allocated(a) = Gathered(a, "done")
  <1> DEFINE F == {Part(a, p) : p \in StagesBefore("done")}
             G == {TypesOf(a).given, HeadersOf(a).given, MethodsOf(a).given, ParamsOf(a).given,
                   AccessorsOf(a).given, ErrorsOf(a).given, SuccessesOf(a).given, ServerNames(a.servers),
                   Merged({Signature(o) : o \in ToSet(a.ops)}), Merged({Members(t) : t \in ToSet(a.types)})}
  <1>1. Allocated(a) = Merged(G)
    BY DEF Allocated, TypesOf, HeadersOf, MethodsOf, ParamsOf, AccessorsOf, ErrorsOf, SuccessesOf
  <1>2. Gathered(a, "done") = Merged(F)
    BY DEF Gathered
  <1>3. StagesBefore("done") = {"servers", "types", "headers", "methods", "params", "signatures",
                                "accessors", "errors", "successes", "members"}
    BY DEF StagesBefore, StageNames, At
  <1>4. F = G
    <2>1. F = {Part(a, "servers"), Part(a, "types"), Part(a, "headers"), Part(a, "methods"),
               Part(a, "params"), Part(a, "signatures"), Part(a, "accessors"), Part(a, "errors"),
               Part(a, "successes"), Part(a, "members")}
      BY <1>3
    <2> QED BY <2>1, PartIs
  <1> QED BY <1>1, <1>2, <1>4

\* What a part gives is allocated.
LEMMA PartIsAllocated ==
  ASSUME NumeralsAreWords, NEW a, WellFormed(a), NEW p \in StageNames, NEW k \in DOMAIN Part(a, p)
  PROVE  k \in DOMAIN Allocated(a) /\ Allocated(a)[k] = Part(a, p)[k]
  <1>1. p \in StagesBefore("done")
    BY DEF StagesBefore, StageNames, At
  <1> QED BY <1>1, GatheredIs, AllocatedIs

\* A row has an entry for each of its items.
LEMMA RowKeys ==
  ASSUME NumeralsAreWords, NEW used, IsFiniteSet(used), NEW scope, NEW family,
         NEW items, IsFiniteSet(DOMAIN items), \A i \in DOMAIN items : i \in Nat,
         NEW hints, \A i \in DOMAIN items : hints[i] \in Ident,
         NEW role, NEW seed, seed \in DOMAIN Suffix, NEW i \in DOMAIN items
  PROVE  Key(scope, family, items[i]) \in DOMAIN Row(used, scope, family, items, hints, role, seed).given
  <1> DEFINE f == [j \in DOMAIN items |-> Ask(Key(scope, family, items[j]), hints[j], seed, <<j>>, <<j>>)]
             asks == {Ask(Key(scope, family, items[j]), hints[j], seed, <<j>>, <<j>>) : j \in DOMAIN items}
  <1>1. \A j \in DOMAIN items : Asking(f[j], j, scope, family)
    <2> TAKE j \in DOMAIN items
    <2>1. <<j>> \in Seq(Nat)
      OBVIOUS
    <2> QED BY <2>1, AskIs
  <1>2. asks = {f[j] : j \in DOMAIN items} /\ f[i] \in asks
    OBVIOUS
  <1>3. f[i].key = Key(scope, family, items[i])
    BY DEF Ask
  <1>4. Row(used, scope, family, items, hints, role, seed) = AllocEach(used, asks, role)
    BY DEF Row
  <1> HIDE DEF f, asks
  <1>5. AsksFor(asks, DOMAIN items, f, scope, family)
    BY <1>1, <1>2 DEF AsksFor, Asking
  <1>6. Requests(asks)
    BY <1>5, AskedRequests
  <1>7. Gives(used, asks, AllocEach(used, asks, role))
    BY <1>6, AllocEachGives
  <1> QED BY <1>2, <1>3, <1>4, <1>7 DEF Gives

\* What a row of listed things gives, thing by thing.
LEMMA ListKeys ==
  ASSUME NumeralsAreWords, NEW scope, NEW family, NEW list, Listing(list), Worded(list),
         NEW role, NEW seed, seed \in DOMAIN Suffix, NEW x \in ToSet(list)
  PROVE  Key(scope, family, <<x.id>>) \in DOMAIN Row({}, scope, family, Ids(list), Hints(list), role, seed).given
  <1> DEFINE items == Ids(list)
             hints == Hints(list)
  <1>1. PICK i \in DOMAIN list : x = list[i]
    BY DEF ToSet
  <1>2. IsList(items) /\ DOMAIN items = DOMAIN list /\ \A j \in DOMAIN items : hints[j] \in Ident
    BY ListHints
  <1>3. items[i] = <<x.id>>
    BY <1>1 DEF Ids
  <1> HIDE DEF items, hints
  <1>4. IsFiniteSet(DOMAIN items) /\ \A j \in DOMAIN items : j \in Nat
    BY <1>2, ListIsFinite
  <1>5. IsFiniteSet({})
    BY FS_EmptySet
  <1>6. Key(scope, family, items[i]) \in DOMAIN Row({}, scope, family, items, hints, role, seed).given
    BY <1>1, <1>2, <1>4, <1>5, RowKeys
  <1> QED BY <1>3, <1>6 DEF items, hints

\* Every type has a name.
LEMMA TypesGiven ==
  ASSUME NumeralsAreWords, NEW a, WellFormed(a), NEW t \in ToSet(a.types)
  PROVE  /\ Key(<<"types">>, "model", <<t.id>>) \in DOMAIN Part(a, "types")
         /\ Part(a, "types")[Key(<<"types">>, "model", <<t.id>>)].name \in Ident
  <1> DEFINE types == a.types
             asks == TypeAsks(types)
             f == [i \in DOMAIN types |-> TypeAsk(types, i, TypeRank(types[i]))]
             done == TypesOf(a)
  <1>1. /\ IsFiniteSet(DOMAIN types) /\ \A i \in DOMAIN types : i \in Nat
        /\ \A i \in DOMAIN types : WellFormedType(types[i])
    BY WellFormedParts, ListIsFinite DEF Listing
  <1>2. \A i \in DOMAIN types : /\ TypeRank(types[i]) \in Seq(Nat)
                                /\ types[i].hint \in Ident /\ types[i].seed \in DOMAIN Suffix
    BY <1>1 DEF TypeRank, WellFormedType
  <1>3. \A i \in DOMAIN types : Asking(f[i], i, <<"types">>, "model")
    BY <1>1, <1>2, AskIs DEF TypeAsk
  <1>4. asks = {f[i] : i \in DOMAIN types}
    BY DEF TypeAsks
  <1>5. PICK i \in DOMAIN types : t = types[i]
    BY DEF ToSet
  <1>6. f[i] \in asks /\ f[i].key = Key(<<"types">>, "model", <<t.id>>)
    BY <1>4, <1>5 DEF TypeAsk, Ask
  <1>7. done = AllocRanked(TypesModule, asks, "pascal")
    BY FreshAre DEF TypesOf, TypeBatch
  <1> HIDE DEF f, asks, done, types
  <1>8. AsksFor(asks, DOMAIN types, f, <<"types">>, "model")
    BY <1>3, <1>4 DEF AsksFor, Asking
  <1>9. Requests(asks)
    BY <1>1, <1>8, AskedRequests
  <1>10. Gives(TypesModule, asks, done)
    BY <1>7, <1>9, FreshAre, AllocRankedGives
  <1>11. \A k \in {b.key : b \in asks} : k \in DOMAIN done.given /\ done.given[k].name \in Ident
    BY <1>10 DEF Gives
  <1>12. Part(a, "types") = done.given
    BY PartIs DEF done
  <1> QED BY <1>6, <1>11, <1>12

\* Every member that is listed has a name.
LEMMA EveryMemberGiven ==
  ASSUME NumeralsAreWords, NEW a, WellFormed(a), NEW t \in ToSet(a.types), NEW m \in ToSet(t.members)
  PROVE  Key(<<"members", t.id>>, "listed", <<m.id>>) \in DOMAIN Part(a, "members")
  <1> DEFINE k == Key(<<"members", t.id>>, "listed", <<m.id>>)
             F == {Members(u) : u \in ToSet(a.types)}
             added == AddedRow(t, ListedRow(t, {}).used).given
             G == {ListedRow(t, {}).given, added}
  <1>1. WellFormedType(t)
    BY WellFormedParts
  <1>2. k \in DOMAIN ListedRow(t, {}).given
    BY <1>1, ListKeys DEF WellFormedType, ListedRow
  <1>3. Members(t) = Merged(G) /\ ListedRow(t, {}).given \in G
    BY DEF Members
  <1>4. Members(t) \in F /\ Part(a, "members") = Merged(F)
    BY PartIs
  <1> HIDE DEF k, F, G
  <1>5. k \in DOMAIN Members(t)
    BY <1>2, <1>3, MergedFrom
  <1>6. k \in DOMAIN Part(a, "members")
    BY <1>4, <1>5, MergedFrom
  <1> QED BY <1>6 DEF k

\* Every header field has a name.
LEMMA HeadersGiven ==
  ASSUME NumeralsAreWords, NEW a, WellFormed(a), NEW o \in ToSet(a.ops), NEW h \in ToSet(o.headers),
         NEW x \in ToSet(h.fields)
  PROVE  Key(<<"header fields", o.id, h.label>>, "header", <<x.id>>) \in DOMAIN Part(a, "headers")
  <1> DEFINE scope == <<"header fields", o.id, h.label>>
             k == Key(scope, "header", <<x.id>>)
             F == {StructsOf(TypesOf(a).used, a.ops).given} \union FieldsOf(a.ops)
  <1>1. WellFormedHeader(h)
    BY WellFormedParts DEF Operations, WellFormedOperation
  <1>2. Listing(h.fields) /\ Worded(h.fields) /\ "root" \in DOMAIN Suffix
    BY <1>1, SuffixesAreWords DEF WellFormedHeader
  <1>3. k \in DOMAIN Row({}, scope, "header", Ids(h.fields), Hints(h.fields), "snake", "root").given
    BY <1>2, ListKeys
  <1>4. k \in DOMAIN HeaderFields(o, h)
    BY <1>3 DEF HeaderFields
  <1>5. HeaderFields(o, h) \in F
    BY DEF FieldsOf
  <1>6. Part(a, "headers") = Merged(F)
    BY PartIs, HeaderBatchIs DEF HeadersOf
  <1> HIDE DEF k, F
  <1>7. k \in DOMAIN Part(a, "headers")
    BY <1>4, <1>5, <1>6, MergedFrom
  <1> QED BY <1>7 DEF k

\* Every builder of a server and every setter has a name.
LEMMA ServersGiven ==
  ASSUME NumeralsAreWords, NEW a, WellFormed(a), NEW s \in ToSet(a.servers)
  PROVE  /\ Key(<<"servers">>, "server", <<s.id>>) \in DOMAIN Part(a, "servers")
         /\ \A v \in ToSet(s.variables) :
               Key(<<"setters", s.id>>, "setter", <<v.id>>) \in DOMAIN Part(a, "servers")
  <1> DEFINE servers == a.servers
             asks == BuildersOf(servers)
             done == BuilderRow(servers)
             F == {done.given} \union {Setters(u) : u \in ToSet(servers)}
                  \union UNION {{Values(u, v) : v \in ToSet(u.variables)} : u \in ToSet(servers)}
             k == Key(<<"servers">>, "server", <<s.id>>)
             setter(v) == Key(<<"setters", s.id>>, "setter", <<v.id>>)
  <1>1. /\ Listing(servers) /\ \A u \in ToSet(servers) : WellFormedServer(u)
        /\ IsFiniteSet(ServersModule)
    BY WellFormedParts, StandingNames
  <1>2. Part(a, "servers") = Merged(F)
    BY PartIs DEF ServerNames
  <1>3. k \in DOMAIN done.given
    <2>1. Requests(asks)
      BY <1>1, BuilderRequests
    <2>2. done = AllocEach(ServersModule, asks, "pascal")
      BY DEF BuilderRow, BuildersOf, Reserved
    <2>3. PICK i \in DOMAIN servers : s = servers[i]
      BY DEF ToSet
    <2>4. \E b \in BuilderAsks(servers[i], i) : b.key = k
      <3> DEFINE b == Ask(k, s.hint, "root", <<i, 0>>, <<i, 0>>)
      <3>1. b.key = k
        BY DEF Ask
      <3>2. b \in BuilderAsks(servers[i], i)
        BY <2>3 DEF BuilderAsks
      <3> HIDE DEF b
      <3> QED BY <3>1, <3>2
    <2>5. \E b \in asks : b.key = k
      BY <2>4 DEF BuildersOf
    <2> HIDE DEF asks, done
    <2>6. Gives(ServersModule, asks, done)
      BY <1>1, <2>1, <2>2, AllocEachGives
    <2> QED BY <2>5, <2>6 DEF Gives
  <1>4. ASSUME NEW v \in ToSet(s.variables) PROVE setter(v) \in DOMAIN Setters(s)
    <2>1. Listing(s.variables) /\ Worded(s.variables) /\ "root" \in DOMAIN Suffix
      BY <1>1, SuffixesAreWords DEF WellFormedServer
    <2>2. setter(v) \in DOMAIN Row({}, <<"setters", s.id>>, "setter", Ids(s.variables), Hints(s.variables), "snake", "root").given
      BY <2>1, ListKeys
    <2> QED BY <2>2 DEF Setters
  <1>5. done.given \in F /\ Setters(s) \in F
    OBVIOUS
  <1> HIDE DEF F, k, setter, done
  <1>6. k \in DOMAIN Part(a, "servers")
    BY <1>2, <1>3, <1>5, MergedFrom
  <1>7. \A v \in ToSet(s.variables) : setter(v) \in DOMAIN Part(a, "servers")
    BY <1>2, <1>4, <1>5, MergedFrom
  <1> QED BY <1>6, <1>7 DEF k, setter

\* The names of a well-formed API are what the surface takes them for.
LEMMA AllocatedIsSound ==
  ASSUME NumeralsAreWords, NEW a, WellFormed(a)
  PROVE  SoundNames(a, Allocated(a))
  <1> DEFINE names == Allocated(a)
  <1>1. \A k, l \in DOMAIN names : k.scope = l.scope /\ names[k].name = names[l].name => k = l
    BY GatheredIsClear, AllocatedIs DEF Clear
  <1>2. \A p \in StageNames : \A k \in DOMAIN Part(a, p) : k \in DOMAIN names /\ names[k] = Part(a, p)[k]
    BY PartIsAllocated
  <1>3. {"types", "members", "headers", "servers"} \subseteq StageNames
    BY DEF StageNames
  <1> HIDE DEF names
  <1>4. \A t \in ToSet(a.types) :
          /\ Key(<<"types">>, "model", <<t.id>>) \in DOMAIN names
          /\ names[Key(<<"types">>, "model", <<t.id>>)].name \in Ident
          /\ \A m \in ToSet(t.members) : Key(<<"members", t.id>>, "listed", <<m.id>>) \in DOMAIN names
    <2> TAKE t \in ToSet(a.types)
    <2> DEFINE k == Key(<<"types">>, "model", <<t.id>>)
    <2>1. k \in DOMAIN Part(a, "types") /\ Part(a, "types")[k].name \in Ident
      BY TypesGiven
    <2>2. \A m \in ToSet(t.members) : Key(<<"members", t.id>>, "listed", <<m.id>>) \in DOMAIN Part(a, "members")
      BY EveryMemberGiven
    <2> HIDE DEF k
    <2>3. k \in DOMAIN names /\ names[k].name \in Ident
      BY <1>2, <1>3, <2>1
    <2>4. \A m \in ToSet(t.members) : Key(<<"members", t.id>>, "listed", <<m.id>>) \in DOMAIN names
      BY <1>2, <1>3, <2>2
    <2> QED BY <2>3, <2>4 DEF k
  <1>5. \A o \in ToSet(a.ops) : \A h \in ToSet(o.headers) : \A f \in ToSet(h.fields) :
          Key(<<"header fields", o.id, h.label>>, "header", <<f.id>>) \in DOMAIN names
    BY <1>2, <1>3, HeadersGiven
  <1>6. \A s \in ToSet(a.servers) :
          /\ Key(<<"servers">>, "server", <<s.id>>) \in DOMAIN names
          /\ \A v \in ToSet(s.variables) : Key(<<"setters", s.id>>, "setter", <<v.id>>) \in DOMAIN names
    BY <1>2, <1>3, ServersGiven
  <1>7. SoundNames(a, names)
    BY <1>1, <1>4, <1>5, <1>6 DEF SoundNames
  <1> QED BY <1>7 DEF names

-----------------------------------------------------------------------------
(* The releases of a client.                                               *)

\* Every release is of an API as it is named.
LEMMA ReleasesAreSound ==
  ASSUME NumeralsAreWords, NEW p \in DOMAIN Pools, NEW a \in Pools[p]
  PROVE  SoundRelease(Release(a))
  <1> DEFINE names == Allocated(a)
             c == [api |-> a, names |-> names, surface |-> Surface(a, names)]
  <1>1. WellFormed(a) /\ WellTyped(a)
    BY PoolsAreWellFormed
  <1>2. SoundNames(a, names)
    BY <1>1, AllocatedIsSound
  <1>3. Release(a) = c
    BY DEF Release, ReleaseOf
  <1> HIDE DEF names
  <1>4. SoundRelease(c)
    BY <1>1, <1>2 DEF SoundRelease, NamedApi
  <1> QED BY <1>3, <1>4

\* All that code written against c leans on is in d.
Sustains(c, d) ==
  /\ OperationsLean(c, d)
  /\ Models(c) \subseteq Models(d) /\ ServerItems(c) \subseteq ServerItems(d)

\* A release sustains its own code.
LEMMA SustainsItself ==
  ASSUME NEW c
  PROVE  Sustains(c, c)
  BY DEF Sustains, OperationsLean, Stays, CallGoes

\* What is sustained twice in turn is sustained.
LEMMA SustainsOn ==
  ASSUME NEW c, NEW d, NEW e, Sustains(c, d), Sustains(d, e)
  PROVE  Sustains(c, e)
  <1>1. ASSUME NEW o \in Ops(c) PROVE \E q \in Ops(e) : Stays(c, o, e, q)
    <2>1. PICK p \in Ops(d) : Stays(c, o, d, p)
      BY DEF Sustains, OperationsLean
    <2>2. PICK q \in Ops(e) : Stays(d, p, e, q)
      BY DEF Sustains, OperationsLean
    <2>3. CallGoes(c, o, e, q)
      BY <2>1, <2>2 DEF Stays, CallGoes
    <2> QED BY <2>1, <2>2, <2>3 DEF Stays
  <1> QED BY <1>1 DEF Sustains, OperationsLean

\* A release without a major bump sustains what was written against the last one.
LEMMA SuccessorSustains ==
  ASSUME NEW c, NEW d, SoundRelease(c), SoundRelease(d), Asked(c, d) # "major"
  PROVE  Sustains(c, d)
  <1>1. OnlyAdds(Diff(c.surface, d.surface))
    BY NotMajor DEF Asked
  <1>2. Succeeds(c, d)
    BY <1>1 DEF Succeeds
  <1> QED BY <1>2, OperationsKept, ModelsKept, ServersKept DEF Sustains

\* The inductive invariant: what code leans on was sustained over whichever releases it went.
ReleasesInv ==
  /\ \A c \in releases : SoundRelease(c)
  /\ published \in releases /\ written \in releases
  /\ Sustains(written, published)

\* What a method yields stands, but for what may be read otherwise.
LEMMA YieldStays ==
  ASSUME NEW c, SoundRelease(c), NEW o \in Ops(c), NEW d, SoundRelease(d), NEW p \in Ops(d),
         Stays(c, o, d, p)
  PROVE  YieldStands(c, o, d, p)
  <1> DEFINE x == R!SuccessShape(o.table)
             y == R!SuccessShape(p.table)
             e == R!ErrorShape(o.table)
             f == R!ErrorShape(p.table)
  <1>1. IsFiniteSet(DOMAIN o.table) /\ IsFiniteSet(DOMAIN p.table)
    BY DEF SoundRelease, NamedApi, WellTyped, WellTypedOperation, Ops
  <1>2. /\ IsShape(o.table, x) /\ IsShape(o.table, e) /\ IsShape(p.table, y) /\ IsShape(p.table, f)
        /\ R!StreamSuccess(o.table) => YieldsOne(o)
        /\ R!StreamSuccess(p.table) => YieldsOne(p)
    BY <1>1, ShapesAre DEF YieldsOne
  <1>3. /\ Sig(c.api, c.names, o, x, NoBody) = Sig(d.api, d.names, p, y, NoBody)
        /\ Sig(c.api, c.names, o, e, NoError) = Sig(d.api, d.names, p, f, NoError)
        /\ ErrorSig(c.api, c.names, o) = Sig(c.api, c.names, o, e, NoError)
    BY DEF Stays, SuccessSig, ErrorSig
  <1>4. NoBody # NoError
    BY DEF NoBody, NoError
  <1>5. SameShape(c, o, x, d, p, y)
    <2> HIDE DEF x, y
    <2> QED BY <1>2, <1>3, <1>4, SigsTell
  <1>6. SameShape(c, o, e, d, p, f) \/ MayBeNone(c, o, d)
    <2> HIDE DEF e, f
    <2> QED BY <1>2, <1>3, SigsTell DEF MayBeNone
  <1>7. Success(c, o) = Success(d, p)
    BY <1>5, YieldsSame DEF Success
  <1>8. \/ R!StreamSuccess(o.table) = R!StreamSuccess(p.table)
        \/ YieldsOne(o) /\ YieldsOne(p)
    <2>1. YieldsOne(o) <=> YieldsOne(p)
      BY <1>5 DEF YieldsOne, SameShape
    <2>2. R!StreamSuccess(o.table) \in BOOLEAN /\ R!StreamSuccess(p.table) \in BOOLEAN
      BY DEF R!StreamSuccess
    <2> QED BY <1>2, <2>1, <2>2
  <1>9. ASSUME SameShape(c, o, e, d, p, f) PROVE Error(c, o) = Error(d, p)
    BY <1>9, YieldsSame, ErrorBodyKept DEF Error
  <1>10. \/ Error(c, o)[1] = Error(d, p)[1] /\ Error(c, o)[2] \subseteq Error(d, p)[2]
         \/ MayBeNone(c, o, d)
    BY <1>6, <1>9
  <1> QED BY <1>7, <1>8, <1>10 DEF YieldStands

\* In those terms nothing is lost of what code calls, passes, reads and matches.
LEMMA SustainedCode ==
  ASSUME SoundRelease(written), SoundRelease(published), Sustains(written, published)
  PROVE  CallersKeep
  <1> DEFINE old == Leaned(written)
             new == Leaned(published)
  <1>1. /\ old.calls = AccessorCalls(written) /\ new.calls = AccessorCalls(published)
        /\ old["taken"] = <<Arguments(written), Setting(written)>>
        /\ new["taken"] = <<Arguments(published), Setting(published)>>
        /\ old["types"] = <<Models(written), HeaderStructs(written), ServerItems(written)>>
        /\ new["types"] = <<Models(published), HeaderStructs(published), ServerItems(published)>>
    BY DEF Leaned
  <1> HIDE DEF old, new
  <1>2. old.calls \subseteq new.calls
    BY <1>1 DEF Sustains, OperationsLean
  <1>3. \A i \in DOMAIN old["taken"] : old["taken"][i] \subseteq new["taken"][i]
    BY <1>1 DEF Sustains, OperationsLean
  <1>4. \A i \in DOMAIN old["types"] : old["types"][i] \subseteq new["types"][i]
    BY <1>1 DEF Sustains, OperationsLean
  <1>5. \A k \in {"taken", "types"} : \A i \in DOMAIN old[k] : old[k][i] \subseteq new[k][i]
    BY <1>3, <1>4
  <1>6. ASSUME NEW o \in Ops(written)
        PROVE  \E p \in Ops(published) : /\ Method(written, o) = Method(published, p)
                                         /\ CallStands(written, o, published, p)
                                         /\ YieldStands(written, o, published, p)
    <2>1. PICK p \in Ops(published) : Stays(written, o, published, p)
      BY DEF Sustains, OperationsLean
    <2>2. ParamsAre(written, o) /\ ParamsAre(published, p)
      BY ParamsAreSound
    <2>3. CallStands(written, o, published, p)
      BY <2>1, <2>2, CallStays DEF Stays
    <2>4. YieldStands(written, o, published, p)
      BY <2>1, YieldStays
    <2> QED BY <2>1, <2>3, <2>4 DEF Stays
  <1> QED BY <1>2, <1>5, <1>6 DEF CallersKeep, old, new

\* The first release.
LEMMA FirstRelease ==
  ASSUME NumeralsAreWords
  PROVE  ReleaseInit => ReleasesInv
  <1> SUFFICES ASSUME ReleaseInit PROVE ReleasesInv
    OBVIOUS
  <1>1. PICK p \in DOMAIN Pools : releases = {Release(a) : a \in Pools[p]}
    BY DEF ReleaseInit
  <1>2. \A c \in releases : SoundRelease(c)
    BY <1>1, ReleasesAreSound
  <1>3. published \in releases /\ written = published
    BY DEF ReleaseInit
  <1>4. Sustains(written, published)
    BY <1>3, SustainsItself
  <1> QED BY <1>2, <1>3, <1>4 DEF ReleasesInv

\* A further release, and a consumer who takes it.
LEMMA NextRelease == ReleasesInv /\ [ReleaseNext]_releaseVars => ReleasesInv'
  <1> SUFFICES ASSUME ReleasesInv, [ReleaseNext]_releaseVars PROVE ReleasesInv'
    OBVIOUS
  <1>0. /\ \A c \in releases : SoundRelease(c)
        /\ published \in releases /\ written \in releases /\ Sustains(written, published)
    BY DEF ReleasesInv
  <1>1. ASSUME NEW release \in releases, Publish(release) PROVE ReleasesInv'
    <2>1. /\ published' = release /\ releases' = releases
          /\ written' = IF Asked(published, release) = "major" THEN release ELSE written
      BY <1>1 DEF Publish
    <2>2. CASE Asked(published, release) = "major"
      <3>1. Sustains(release, release)
        BY SustainsItself
      <3>2. written' = release
        BY <2>1, <2>2
      <3>3. Sustains(written', published')
        BY <2>1, <3>1, <3>2
      <3> QED BY <1>0, <2>1, <3>3 DEF ReleasesInv
    <2>3. CASE Asked(published, release) # "major"
      <3>1. Sustains(published, release)
        BY <1>0, <2>3, SuccessorSustains
      <3>2. Sustains(written, release)
        BY <1>0, <3>1, SustainsOn
      <3>3. written' = written
        BY <2>1, <2>3
      <3>4. Sustains(written', published')
        BY <2>1, <3>2, <3>3
      <3> QED BY <1>0, <2>1, <3>4 DEF ReleasesInv
    <2> QED BY <2>2, <2>3
  <1>2. ASSUME Adopt PROVE ReleasesInv'
    <2>1. written' = published /\ releases' = releases /\ published' = published
      BY <1>2 DEF Adopt
    <2>2. Sustains(published, published)
      BY SustainsItself
    <2>3. Sustains(written', published')
      BY <2>1, <2>2
    <2> QED BY <1>0, <2>1, <2>3 DEF ReleasesInv
  <1>3. ASSUME UNCHANGED releaseVars PROVE ReleasesInv'
    BY <1>0, <1>3 DEF ReleasesInv, releaseVars
  <1> QED BY <1>1, <1>2, <1>3 DEF ReleaseNext

(* Within a major version the code of a consumer keeps what it calls, passes, reads and     *)
(* matches, but for the four exceptions CallersKeep names: for any APIs that are well       *)
(* formed, and over any chain of releases, what `spargen diff` classifies as minor or patch *)
(* (surface/compare.rs) takes nothing else of it away.                                      *)
THEOREM CallersAlwaysKept == ASSUME NumeralsAreWords PROVE ReleaseSpec => []CallersKeep
  <1>1. ReleaseInit => ReleasesInv
    BY FirstRelease
  <1>2. ReleasesInv /\ [ReleaseNext]_releaseVars => ReleasesInv'
    BY NextRelease
  <1>3. ReleasesInv => CallersKeep
    BY SustainedCode DEF ReleasesInv
  <1> QED BY <1>1, <1>2, <1>3, PTL DEF ReleaseSpec
=============================================================================
