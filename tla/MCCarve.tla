------------------------------ MODULE MCCarve ------------------------------
(* A root document and three files it reads: a path item file, a file of   *)
(* bare schemas, two of which read each other, and a file with components. *)
EXTENDS Carve, Sequences

(* xPost is the `post` of /x: its rule comes after that of /x, the rule of  *)
(* xGet before it.                                                          *)
Tree == [
    info   |-> <<"required", {"info"}, {}>>,
    x      |-> <<"path", {"x"}, {}>>,
    xPar   |-> <<"part", {"xPar", "x"}, {}>>,
    xGet   |-> <<"operation", {"xGet", "x"}, {"c1"}>>,
    xPost  |-> <<"operation", {"xPost", "x"}, {"lib", "d"}>>,
    y      |-> <<"path", {"y"}, {"pi"}>>,
    hook   |-> <<"webhook", {"hook"}, {"pi"}>>,
    c1     |-> <<"component", {"c1"}, {"c2", "lib3"}>>,
    c2     |-> <<"component", {"c2"}, {}>>,
    pi     |-> <<"part", {"pi"}, {}>>,
    piGet  |-> <<"method", {"piGet", "pi"}, {"lib"}>>,
    piPar  |-> <<"part", {"piPar", "pi"}, {}>>,
    defs   |-> <<"part", {"defs"}, {}>>,
    lib    |-> <<"part", {"lib", "defs"}, {"lib2"}>>,
    lib2   |-> <<"part", {"lib2", "defs"}, {"lib"}>>,
    lib3   |-> <<"part", {"lib3", "defs"}, {}>>,
    d      |-> <<"component", {"d"}, {}>>]

MCNodes == DOMAIN Tree
MCInRoot == {"info", "x", "xPar", "xGet", "xPost", "y", "hook", "c1", "c2"}
MCKind == [n \in MCNodes |-> Tree[n][1]]
MCAbove == [n \in MCNodes |-> Tree[n][2]]
MCRefs == [n \in MCNodes |-> Tree[n][3]]

(* "component schemas C1", ..., "get /x", "path /x", "path /y",            *)
(* "pointer ...", "post /x"; what is no construct has no rule.             *)
InOrder ==
    <<"c1", "c2", "xGet", "x", "y", "d", "piGet", "xPost",
      "hook", "info", "xPar", "pi", "piPar", "defs", "lib", "lib2", "lib3">>
MCText == [n \in MCNodes |-> CHOOSE i \in DOMAIN InOrder : InOrder[i] = n]

Flaws == {f \in SUBSET MCNodes : Cardinality(f) <= 2}
Healthy == [n \in MCNodes |-> 0]
MCFlaws ==
    {[n \in MCNodes |-> IF n \in f THEN IF n \in late THEN 2 ELSE 1 ELSE 0]
        : f \in Flaws, late \in {MCNodes, {"xGet", "lib", "c2", "piGet"}}}

Profiles == {<<>>, <<{"c2"}>>, <<{"x", "xGet"}, {"xPost"}>>, <<{"xGet"}, {"x"}>>,
             <<{"info"}>>, <<{"nowhere"}>>}

MCInputs ==
    [flaw : MCFlaws, user : {<<>>, <<{"c2"}>>}, carve : {TRUE},
     cap : {1, Unbounded}, mode : {"Preview"}]
    \union
    [flaw : {f \in MCFlaws : Cardinality({n \in MCNodes : f[n] # 0}) <= 1},
     user : Profiles, carve : BOOLEAN, cap : {0, 2}, mode : {"Preview", "Requirements"}]
=============================================================================
