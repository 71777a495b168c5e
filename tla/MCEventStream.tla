---------------------------- MODULE MCEventStream ----------------------------
(* One event of each kind, all numbered but the comment, or all but an item. *)
EXTENDS EventStream

MCKind(e) == <<"item", "meta", "bad", "ping", "item", "big", "done">>[e]
MCNumberings == {Events \ {4}, Events \ {4, 5}}
=============================================================================
