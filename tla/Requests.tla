------------------------------ MODULE Requests ------------------------------
(***************************************************************************)
(* The request of a call: its path, query, headers, cookies and body, put  *)
(* together from the arguments (oas31/lower/operation.rs,                  *)
(* codegen/operation.rs, build_url_on of support-runtime/dispatch.rs).     *)
(*                                                                         *)
(* An operation is [template, shared, parameters, body, base]: the         *)
(* parameters of its Path Item and its own, the body or none, and the path *)
(* and query of the URL it is called on.  A call of it is [operation,      *)
(* arguments, payload]; what is not passed is empty.                       *)
(***************************************************************************)
EXTENDS OperationCall, Bodies

-----------------------------------------------------------------------------
(* Which operations are generated. *)

Key(p) == <<p.in, p.name>>
KeysOf(parameters) == {Key(parameters[i]) : i \in DOMAIN parameters}

(* A parameter of the operation takes the place of the one of the Path Item. *)
MergedParameters(op) ==
    [i \in DOMAIN op.shared |->
        IF Key(op.shared[i]) \in KeysOf(op.parameters)
        THEN op.parameters[CHOOSE j \in DOMAIN op.parameters : Key(op.parameters[j]) = Key(op.shared[i])]
        ELSE op.shared[i]]
      \o SelectSeq(op.parameters, LAMBDA p : Key(p) \notin KeysOf(op.shared))

KeptParameters(op) == SelectSeq(MergedParameters(op), LAMBDA p : ~ IsReservedHeader(p))

(* A template is a sequence of symbols, the name of a placeholder one between braces. *)
Placeholders(template) == {template[i + 1] : i \in {j \in DOMAIN template : template[j] = "{"}}

OperationRefused(op) ==
    LET kept == KeptParameters(op)
        those(location) == {i \in DOMAIN kept : kept[i].in = location}
    IN \/ \E i \in DOMAIN kept : ParameterRefused(kept[i])
       \/ Cardinality(KeysOf(op.shared)) < Len(op.shared)
       \/ Cardinality(KeysOf(op.parameters)) < Len(op.parameters)
       \/ Placeholders(op.template) # {kept[i].name : i \in those("path")}
       \/ Cardinality(those("querystring")) > 1
       \/ those("querystring") # {} /\ those("query") # {}
       \/ \E b \in op.body : BodyRefused(b)

Params(op) ==
    LET kept == KeptParameters(op) IN [i \in DOMAIN kept |-> LowerParameter(kept[i])]

-----------------------------------------------------------------------------
(* The request. *)

(* The parameters of a location that are passed, the required ones first. *)
PassedAt(c, location) ==
    LET params == Params(c.operation)
        those(required) == SelectSeq([i \in DOMAIN params |-> i],
                          LAMBDA i : /\ params[i].in = location /\ params[i].required = required
                                     /\ c.arguments[i] # {})
        passed == those(TRUE) \o those(FALSE)
    IN [k \in DOMAIN passed |-> [p |-> params[passed[k]], v |-> CHOOSE v \in c.arguments[passed[k]] : TRUE]]

(* Every place of a placeholder, in the path as the ones before have left it. *)
Replace(path, name, text) ==
    LET starts == {i \in 1..Len(path) - 2 : SubSeq(path, i, i + 2) = <<"{", name, "}">>} IN
    FlattenSeq([i \in DOMAIN path |->
        CASE i \in starts -> text
          [] {i - 1, i - 2} \cap starts # {} -> <<>>
          [] OTHER -> <<path[i]>>])

RenderedPath(c) ==
    FoldLeft(LAMBDA path, given : Replace(path, given.p.name, ParamValue(given.p, given.v)),
             c.operation.template, PassedAt(c, "path"))

TrimStart(path) ==
    LET n == CHOOSE k \in 0..Len(path) :
               /\ \A i \in 1..k : path[i] = "/"
               /\ k = Len(path) \/ path[k + 1] # "/"
    IN SubSeq(path, n + 1, Len(path))

JoinedPath(c) ==
    LET base == c.operation.base.path
        path == TrimStart(RenderedPath(c))
    IN IF base # <<>> /\ path = <<>> THEN base ELSE base \o <<"/">> \o path

Split(text, separators) ==
    FoldLeft(LAMBDA pieces, c :
                 IF c \in separators THEN Append(pieces, <<>>)
                 ELSE [pieces EXCEPT ![Len(pieces)] = Append(@, c)],
             <<<<>>>>, text)

Dots == {".", "%."}
IsDotSegment(segment) ==
    SelectSeq(segment, LAMBDA c : c # "\t") \in {<<d>> : d \in Dots} \cup {<<d, e>> : d \in Dots, e \in Dots}

DotSegment(c) ==
    \E segment \in ToSet(Split(TrimStart(RenderedPath(c)), {"/", "\\"})) : IsDotSegment(segment)

LocationFragments(p, v) ==
    CASE p.in = "query" -> QueryFragments(p, v)
      [] p.in = "querystring" -> QuerystringFragments(p, v)
      [] p.in = "cookie" -> CookieFragments(p, v)

AllFragments(c, location) ==
    LET passed == PassedAt(c, location) IN
    FlattenSeq([k \in DOMAIN passed |-> LocationFragments(passed[k].p, passed[k].v)])

(* A whole query takes the place of the one of the URL. *)
Query(c) ==
    LET params == Params(c.operation)
        whole == \E i \in DOMAIN params : params[i].in = "querystring"
    IN (IF whole THEN <<>> ELSE c.operation.base.query)
         \o AllFragments(c, "query")
         \o AllFragments(c, "querystring")

Headers(c) ==
    LET passed == PassedAt(c, "header") IN
    [k \in DOMAIN passed |-> <<passed[k].p.name, ParamValue(passed[k].p, passed[k].v)>>]

Wire(c) ==
    [path |-> JoinedPath(c),
     query |-> Join(Query(c), <<"&">>),
     headers |-> Headers(c),
     cookies |-> Join(AllFragments(c, "cookie"), <<";", " ">>),
     body |-> IF c.payload = {} THEN NothingSent
              ELSE SentBody(CHOOSE b \in c.operation.body : TRUE, CHOOSE v \in c.payload : TRUE)]

CallErrors(c) ==
    UNION {ArgumentErrors(Params(c.operation)[i], v) : <<i, v>> \in
             {<<j, w>> \in (DOMAIN c.arguments) \X UNION Range(c.arguments) : w \in c.arguments[j]}}
      \cup UNION {BodyErrors(b, v) : b \in c.operation.body, v \in c.payload}

Builds(c) == CallErrors(c) = {} /\ ~ DotSegment(c)

ASSUME BuiltAssumption == \A family \in Calls : \A c \in family : c.built = Builds(c)

=============================================================================
