------------------------------- MODULE Naming -------------------------------
(***************************************************************************)
(* The identifiers of a generated client (name/mod.rs, allocate).          *)
(*                                                                         *)
(* allocate goes through an API family by family.  The same API is named   *)
(* twice: as it is listed, and in a variant (Variants) that lists the same *)
(* in another order, or adds what must not rename what was there.          *)
(***************************************************************************)
EXTENDS Names

CONSTANTS Apis,              \* the APIs to name
          Variants(_)        \* the variants of an API

-----------------------------------------------------------------------------
(* The same API in another order. *)
SameOperation(o, p) ==
    /\ o.id = p.id /\ o.words = p.words /\ o.rank = p.rank /\ o.seed = p.seed /\ o.enum = p.enum
    /\ ToSet(o.params) = ToSet(p.params) /\ ToSet(o.headers) = ToSet(p.headers)

Reordered(a, b) ==
    /\ ToSet(a.types) = ToSet(b.types)
    /\ \A o \in ToSet(a.ops) : \E p \in ToSet(b.ops) : SameOperation(o, p)
    /\ \A p \in ToSet(b.ops) : \E o \in ToSet(a.ops) : SameOperation(o, p)

(* An API with other open types, bodies and optional parameters. *)
Required(o) == {p \in ToSet(o.params) : p.required}

Extended(a, b) ==
    /\ \A t \in ToSet(a.types), u \in ToSet(b.types) :
          t.id = u.id => t.members = u.members /\ t.kind = u.kind /\ t.seed = u.seed
    /\ \A o \in ToSet(a.ops), p \in ToSet(b.ops) : o.id = p.id => Required(o) = Required(p)

ASSUME ApisAreWellFormed ==
    \A a \in Apis :
        /\ WellFormed(a)
        /\ \A v \in Variants(a) :
              /\ WellFormed(v.api)
              /\ v.of = "order" => Reordered(a, v.api)
              /\ v.of = "additions" => Extended(a, v.api)

-----------------------------------------------------------------------------
VARIABLES variant,    \* what the second naming varies
          api,        \* api[r]: what naming r is given
          stage,      \* stage[r]: the families naming r has allocated
          scopes,     \* scopes[r]: the names taken in each scope
          given       \* given[r]: what each item was given

vars == <<variant, api, stage, scopes, given>>

Stages == <<"servers", "types", "headers", "methods", "params", "signatures",
            "accessors", "errors", "successes", "members", "done">>

-----------------------------------------------------------------------------
Advance(r, of) ==
    /\ stage[r] = of
    /\ stage' = [stage EXCEPT ![r] =
                   Stages[1 + CHOOSE i \in DOMAIN Stages : Stages[i] = of]]
    /\ r = 2 => stage[1] = "done"
    /\ UNCHANGED <<variant, api>>

(* The step of a family allocated as one batch in one of the shared scopes. *)
Allocates(r, scope, done) ==
    /\ scopes' = [scopes EXCEPT ![r][scope] = done.used]
    /\ given' = [given EXCEPT ![r] = Merged({@, done.given})]

(* The step of families whose scopes end with the step. *)
Adds(r, names) ==
    /\ given' = [given EXCEPT ![r] = Merged({@, names})]
    /\ UNCHANGED scopes

AllocServers(r) ==
    /\ Advance(r, "servers")
    /\ Adds(r, ServerNames(api[r].servers))

AllocTypes(r) ==
    /\ Advance(r, "types")
    /\ Allocates(r, "types", TypeBatch(scopes[r].types, api[r].types))

AllocHeaders(r) ==
    /\ Advance(r, "headers")
    /\ Allocates(r, "types", HeaderBatch(scopes[r].types, api[r].ops))

AllocMethods(r) ==
    /\ Advance(r, "methods")
    /\ Allocates(r, "impl", MethodBatch(scopes[r].impl, api[r].ops))

AllocParamsStructs(r) ==
    /\ Advance(r, "params")
    /\ Allocates(r, "root", ParamsBatch(scopes[r].root, api[r].ops))

AllocSignatures(r) ==
    /\ Advance(r, "signatures")
    /\ Adds(r, Merged({Signature(o) : o \in ToSet(api[r].ops)}))

AllocAccessors(r) ==
    /\ Advance(r, "accessors")
    /\ Allocates(r, "impl", AccessorBatch(scopes[r].impl, given[r], api[r].ops))

AllocErrors(r) ==
    /\ Advance(r, "errors")
    /\ Allocates(r, "root", ErrorBatch(scopes[r].root, given[r], api[r].ops))

AllocSuccessEnums(r) ==
    /\ Advance(r, "successes")
    /\ Allocates(r, "root", SuccessBatch(scopes[r].root, given[r], api[r].ops))

AllocMembers(r) ==
    /\ Advance(r, "members")
    /\ Adds(r, Merged({Members(t) : t \in ToSet(api[r].types)}))

Init ==
    /\ \E a \in Apis : \E v \in Variants(a) :
          /\ variant = v.of
          /\ api = <<a, v.api>>
    /\ stage = <<"servers", "servers">>
    /\ scopes = <<FreshScopes, FreshScopes>>
    /\ given = << <<>>, <<>> >>

Next == \E r \in 1..2 :
    \/ AllocServers(r)
    \/ AllocTypes(r)
    \/ AllocHeaders(r)
    \/ AllocMethods(r)
    \/ AllocParamsStructs(r)
    \/ AllocSignatures(r)
    \/ AllocAccessors(r)
    \/ AllocErrors(r)
    \/ AllocSuccessEnums(r)
    \/ AllocMembers(r)

Spec == Init /\ [][Next]_vars

-----------------------------------------------------------------------------
(* What the impl of a builder defines, or calls on Self, beside the setters. *)
BuilderMethods == {<<"new">>, <<"url">>, <<"default">>}

(* What a Rust scope holds beside the names the client puts in it. *)
Standing(scope) ==
    CASE scope = <<"servers">> -> ServersModule
      [] scope = <<"types">> -> TypesModule
      [] scope = <<"impl">> -> ClientMethods
      [] scope = <<"root">> -> Reexports
      [] scope[1] = "setters" -> BuilderMethods
      [] OTHER -> {}

(* Nothing is reserved where setters are named: a variable keeps the spelling the document  *)
(* has, also if a method of the builder has it.                                             *)
AsSpelled(k, grant) == k.family = "setter" /\ grant.name = grant.base

(* In every Rust scope all names the client puts there differ, whichever families they come *)
(* from; and none is one that stands there already, but for a setter whose variable is      *)
(* spelled like a method of its builder, which the client does not compile with.            *)
NamesDiffer ==
    \A r \in 1..2 : \A k \in DOMAIN given[r] :
        /\ given[r][k].name \in Standing(k.scope) => AsSpelled(k, given[r][k])
        /\ \A l \in DOMAIN given[r] \ {k} :
              l.scope = k.scope => given[r][l].name # given[r][k].name

(* A public name that is not the spelling asked for yields to one that stands there, or to  *)
(* an item of the same family that asked for that very spelling and is of no higher rank,   *)
(* or to an item of a family named before: never to the suffixed name of another item of    *)
(* its family.                                                                              *)
Ranked == {"model", "headers", "method", "params", "accessor", "error", "success", "param"}

YieldsToWhoAsked ==
    \A r \in 1..2 : \A k \in DOMAIN given[r] :
        LET g == given[r][k]
        IN  k.family \in Ranked /\ g.name # g.base /\ g.base \notin Standing(k.scope) =>
                \E l \in DOMAIN given[r] :
                    /\ l.scope = k.scope /\ given[r][l].name = g.base
                    /\ l.family = k.family =>
                          given[r][l].base = g.base /\ ~ Precedes(g.rank, given[r][l].rank)

Finished == stage = <<"done", "done">>

(* An item's peers: those of its family that ask for the same with the same rank. *)
Peers(r, k) ==
    {l \in DOMAIN given[r] :
        /\ l.family = k.family /\ l.scope = k.scope
        /\ given[r][l].base = given[r][k].base /\ given[r][l].rank = given[r][k].rank}

(* Listing the types, the operations and their parameters in another order renames nothing  *)
(* that is public: each item has the name it had, up to an exchange among types without an  *)
(* identity of their own.                                                                   *)
OrderRenamesNothing ==
    Finished /\ variant = "order" =>
        \A k \in DOMAIN given[1] : k.family \in Ranked =>
            {given[1][l].name : l \in Peers(1, k)} = {given[2][l].name : l \in Peers(2, k)}

(* What the generator adds to a type or to a method (an open variant, an overflow map, a    *)
(* body, optional parameters) renames no member that is listed and no argument that is      *)
(* required.                                                                                *)
AdditionsRenameNothing ==
    Finished /\ variant = "additions" =>
        \A k \in DOMAIN given[1] \intersect DOMAIN given[2] :
            \/ k.family = "listed"
            \/ k.family = "param" /\ k.scope[1] = "args"
            => given[1][k].name = given[2][k].name
=============================================================================
