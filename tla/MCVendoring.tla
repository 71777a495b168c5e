----------------------------- MODULE MCVendoring -----------------------------
(* A specification and a local library over two hosts: documents that refer to *)
(* each other, name themselves, and end redirects.                             *)
EXTENDS Vendoring, TLC

Url(h, n) == [host |-> h, name |-> n]
Doc(self, refs) == [parses |-> TRUE, utf8 |-> TRUE, self |-> self, refs |-> refs]
Broken == [parses |-> FALSE, utf8 |-> TRUE, self |-> NoDoc, refs |-> <<>>]
Binary == [Broken EXCEPT !.utf8 = FALSE]

Leaf == Doc(NoDoc, <<>>)
Neighbour == Doc(NoDoc, <<Url("relative", "b"), Url("relative", "a")>>)
Mover == Doc(Url("g", "a"), <<Url("relative", "b")>>)
Crate == Doc(Url("urn", "a"), <<Url("urn", "a"), Url("h", "b")>>)

MCLocals ==
  {[n \in Names |-> IF n = "a" THEN Doc(NoDoc, <<Url("relative", "b"), Url("h", "a")>>)
                    ELSE Doc(NoDoc, <<Url("g", "b"), Url("relative", "b")>>)],
   [n \in Names |-> IF n = "a" THEN Doc(Url("h", "a"), <<Url("relative", "b"), Url("g", "a")>>)
                    ELSE NoDoc],
   [n \in Names |-> IF n = "a" THEN Doc(Url("relative", "b"), <<Url("relative", "b"), Url("urn", "a"), Url("h", "b")>>)
                    ELSE Doc(NoDoc, <<Url("g", "a")>>)]}

Reply(d, h, n) == [doc |-> d, at |-> Url(h, n)]
MCReplies(u) ==
  CASE u = Url("h", "a") -> {Reply(Leaf, "h", "a"), Reply(Neighbour, "g", "a")}
    [] u = Url("h", "b") -> {Reply(Binary, "g", "a"), Reply(Crate, "h", "b")}
    [] u = Url("g", "a") -> {Reply(Neighbour, "g", "a"), Reply(Broken, "g", "a")}
    [] u = Url("g", "b") -> {Reply(Leaf, "g", "b"), Reply(Mover, "g", "b")}

Rank(u) == (IF u.host = "h" THEN 2 ELSE 0) + (IF u.name = "b" THEN 1 ELSE 0)
MCPrecedes(u, v) == Rank(u) < Rank(v)
=============================================================================
