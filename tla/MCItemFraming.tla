---------------------------- MODULE MCItemFraming ----------------------------
(* Every body of at most MaxBody bytes over the bytes a framing tells apart, and *)
(* shorter ones behind every prefix of a byte order mark.                        *)
EXTENDS ItemFraming

CONSTANTS MaxBody, MaxMarked

Strings(S, n) == UNION {[1..k -> S] : k \in 0..n}
SseBytes == {"d", "i", "CR", "LF"}
MCBodies(f) ==
  CASE f = "sse" -> Strings(SseBytes, MaxBody)
                      \cup {SubSeq(BOM, 1, k) \o s : k \in 1..3, s \in Strings(SseBytes, MaxMarked)}
    [] f = "ndjson" -> Strings({"d", "CR", "LF"}, MaxBody)
    [] f = "jsonseq" -> Strings({"d", "RS", "LF"}, MaxBody)
=============================================================================
