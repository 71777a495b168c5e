----------------------------- MODULE ItemFraming -----------------------------
(***************************************************************************)
(* next_frame over a FrameBuffer (support-runtime/src/stream.rs): how the  *)
(* bytes of a streaming body become items.  The body arrives in chunks     *)
(* which may be cut anywhere; the buffer remembers the lines it has read   *)
(* and where the search for the next terminator resumes.  A step is one    *)
(* round of a framer's loop.                                               *)
(*                                                                         *)
(* Bytes are symbols.  In SSE a line that opens with "d" is a data: field, *)
(* one that opens with "i" an id: field, any other a comment or a field    *)
(* without effect.  The [DONE] sentinel and the frame limit, which end the *)
(* stream, are in EventStream.                                             *)
(***************************************************************************)
EXTENDS Integers, Sequences, FiniteSets, SequencesExt

CONSTANTS
  Bodies(_),     \* the bodies a server may send under a framing
  MaxChunk       \* bound: bytes of one chunk

Framings == {"sse", "ndjson", "jsonseq"}
BOM == <<"EF", "BB", "BF">>
Symbols == {"d", "i", "CR", "LF", "RS"} \cup {BOM[k] : k \in DOMAIN BOM}

ASSUME FramingAssumption ==
  /\ MaxChunk \in Nat \ {0}
  /\ \A f \in Framings : Bodies(f) \subseteq Seq(Symbols)

VARIABLES
  framing,       \* Framing
  body,          \* what the server sends, and how much of it was fed
  fed,
  eof,           \* at_eof: no further chunk will come
  \* FrameBuffer, and EventStream::bom_pending
  buffer, lineStart, scanned, event, bomPending,
  pc,            \* "frame": next_frame runs; "more": it needs more; "end"
  \* history
  out,           \* the items framed: [data, id]
  credit         \* bytes the framer may still search before the next chunk

vars == <<framing, body, fed, eof, buffer, lineStart, scanned, event, bomPending, pc,
          out, credit>>

\* SseFields, an absent id as {}.
NoFields == [data |-> <<>>, id |-> {}]

Init ==
  /\ framing \in Framings
  /\ body \in Bodies(framing)
  /\ fed = 0
  /\ eof = FALSE
  /\ buffer = <<>>
  /\ lineStart = 0
  /\ scanned = 0
  /\ event = NoFields
  /\ bomPending = (framing = "sse")
  /\ pc = "frame"
  /\ out = <<>>
  /\ credit = 0

From(s, k) == SubSeq(s, k, Len(s))
Least(S) == CHOOSE i \in S : \A j \in S : i <= j

-----------------------------------------------------------------------------
(* What a line, a record or an event means. *)

AppendSseField(line, fields) ==
  CASE line = <<>> -> fields
    [] line # <<>> /\ line[1] = "d" -> [fields EXCEPT !.data = Append(@, Tail(line))]
    [] line # <<>> /\ line[1] = "i" -> [fields EXCEPT !.id = {Tail(line)}]
    [] OTHER -> fields
\* finish_sse_fields: data, or an id alone, is a frame; other events are none.
FinishSseFields(fields) == IF fields = NoFields THEN <<>> ELSE <<fields>>
FrameItem(payload) ==
  IF payload = <<>> THEN <<>> ELSE <<[data |-> <<payload>>, id |-> {}]>>

TrimCr(line) == IF line # <<>> /\ Last(line) = "CR" THEN Front(line) ELSE line
\* trim_ascii.
TrimAscii(s) ==
  LET solid == {i \in DOMAIN s : s[i] \notin {"CR", "LF"}} IN
  IF solid = {} THEN <<>>
  ELSE SubSeq(s, Least(solid), CHOOSE i \in solid : \A j \in solid : j <= i)

-----------------------------------------------------------------------------
(* The framers. *)

\* Where the search resumes: the separator that opens a record is not searched.
SearchFrom == IF framing = "jsonseq" /\ buffer # <<>> /\ buffer[1] = "RS" /\ scanned = 0
              THEN 1 ELSE scanned
Terminators == CASE framing = "sse" -> {"CR", "LF"}
                 [] framing = "ndjson" -> {"LF"}
                 [] framing = "jsonseq" -> {"RS"}
Hits == {i \in SearchFrom + 1 .. Len(buffer) : buffer[i] \in Terminators}
End == Least(Hits)
\* A CR that is the last byte buffered may be half of a CRLF.
CrHeld == framing = "sse" /\ Hits # {} /\ End = Len(buffer) /\ buffer[End] = "CR"
Found == Hits # {} /\ ~ CrHeld

Spend(upto) == credit' = credit - (upto - SearchFrom)
\* take_line.
Line == SubSeq(buffer, lineStart + 1, End - 1)
NextLine == IF buffer[End] = "CR" /\ buffer[End + 1] = "LF" THEN End + 1 ELSE End

Consume(k) == /\ buffer' = From(buffer, k + 1)
              /\ lineStart' = 0
              /\ scanned' = 0

SseLine ==
  /\ pc = "frame" /\ framing = "sse" /\ Found
  /\ Line # <<>>
  /\ event' = AppendSseField(Line, event)
  /\ lineStart' = NextLine
  /\ scanned' = NextLine
  /\ Spend(End)
  /\ UNCHANGED <<framing, body, fed, eof, buffer, bomPending, pc, out>>

\* A blank line ends the event.
SseBlank ==
  /\ pc = "frame" /\ framing = "sse" /\ Found
  /\ Line = <<>>
  /\ Consume(NextLine)
  /\ event' = NoFields
  /\ out' = out \o FinishSseFields(event)
  /\ Spend(End)
  /\ UNCHANGED <<framing, body, fed, eof, bomPending, pc>>

NdjsonLine ==
  /\ pc = "frame" /\ framing = "ndjson" /\ Found
  /\ Consume(End)
  /\ out' = out \o FrameItem(TrimCr(SubSeq(buffer, 1, End - 1)))
  /\ Spend(End)
  /\ UNCHANGED <<framing, body, fed, eof, event, bomPending, pc>>

\* Up to the next separator: a record, or what comes before the first.
JsonRecord ==
  /\ pc = "frame" /\ framing = "jsonseq" /\ Found
  /\ Consume(End - 1)
  /\ out' = IF buffer[1] = "RS" THEN out \o FrameItem(TrimAscii(SubSeq(buffer, 2, End - 1)))
            ELSE out
  /\ Spend(End)
  /\ UNCHANGED <<framing, body, fed, eof, event, bomPending, pc>>

\* Mistake: the search resumes after a CR that may be half of a line ending.
NeedMorePastCr ==
  /\ pc = "frame" /\ ~ Found /\ ~ eof
  /\ scanned' = Len(buffer)
  /\ Spend(Len(buffer))
  /\ pc' = "more"
  /\ UNCHANGED <<framing, body, fed, eof, buffer, lineStart, event, bomPending, out>>

\* No terminator yet: the next search starts where this one ended.
NeedMore ==
  /\ pc = "frame" /\ ~ Found /\ ~ eof
  /\ scanned' = IF CrHeld THEN End - 1 ELSE Len(buffer)
  /\ Spend(Len(buffer))
  /\ pc' = "more"
  /\ UNCHANGED <<framing, body, fed, eof, buffer, lineStart, event, bomPending, out>>

\* Once no further byte will come, what is left is an item.
Tails ==
  CASE framing = "sse" ->
         FinishSseFields(AppendSseField(TrimCr(From(buffer, lineStart + 1)), event))
    [] framing = "ndjson" -> FrameItem(TrimCr(buffer))
    [] framing = "jsonseq" /\ (buffer = <<>> \/ buffer[1] # "RS") -> <<>>
    [] OTHER -> FrameItem(TrimAscii(Tail(buffer)))
Flush ==
  /\ pc = "frame" /\ ~ Found /\ eof
  /\ out' = out \o Tails
  /\ Consume(Len(buffer))
  /\ event' = NoFields
  /\ Spend(Len(buffer))
  /\ pc' = "end"
  /\ UNCHANGED <<framing, body, fed, eof, bomPending>>

-----------------------------------------------------------------------------
(* The body: the chunks poll_next reads once the framer needs more. *)

\* strip_leading_bom: undecided while the bytes are a proper prefix of the mark.
StripLeadingBom(b) ==
  [pending |-> IsStrictPrefix(b, BOM),
   bytes |-> IF IsPrefix(BOM, b) THEN From(b, 4) ELSE b]

Read ==
  /\ pc = "more" /\ ~ eof
  /\ \E n \in 0..MaxChunk :
       /\ fed + n <= Len(body)
       /\ fed' = fed + n
       /\ LET bytes == buffer \o SubSeq(body, fed + 1, fed + n) IN
          IF bomPending
          THEN /\ buffer' = StripLeadingBom(bytes).bytes
               /\ bomPending' = StripLeadingBom(bytes).pending
               /\ lineStart' = 0
               /\ scanned' = 0
               /\ event' = NoFields
          ELSE /\ buffer' = bytes
               /\ UNCHANGED <<bomPending, lineStart, scanned, event>>
       /\ credit' = n + 1 + (IF bomPending THEN 2 ELSE 0)
  /\ pc' = "frame"
  /\ UNCHANGED <<framing, body, eof, out>>

Close ==
  /\ pc = "more" /\ fed = Len(body)
  /\ eof' = TRUE
  /\ pc' = "frame"
  /\ credit' = 1
  /\ UNCHANGED <<framing, body, fed, buffer, lineStart, scanned, event, bomPending, out>>

Ended == pc = "end" /\ UNCHANGED vars

Next == \/ SseLine \/ SseBlank \/ NdjsonLine \/ JsonRecord \/ NeedMore \/ Flush
        \/ Read \/ Close \/ Ended
Spec == Init /\ [][Next]_vars

-----------------------------------------------------------------------------
(* The reference: the items of bytes that are there all at once, read off    *)
(* where the lines, the events and the records end.                         *)

\* The k-th of some numbers; what stands at the positions in S; the pieces of s that
\* end at the positions in S, and what follows the last.
Nth(S, k) == Least({i \in S : Cardinality({j \in S : j <= i}) = k})
Picked(s, S) == [k \in 1..Cardinality(S) |-> s[Nth(S, k)]]
Begin(S, k) == IF k = 1 THEN 1 ELSE Nth(S, k - 1) + 1
Pieces(s, S) == [k \in 1..Cardinality(S) |-> SubSeq(s, Begin(S, k), Nth(S, k))]
Rest(s, S) == From(s, Begin(S, Cardinality(S) + 1))

\* The positions where a line ends: CRLF, LF or CR.
LineEnds(b) == {i \in DOMAIN b : \/ b[i] = "LF"
                                 \/ b[i] = "CR" /\ (i = Len(b) \/ b[i + 1] # "LF")}
Strip(piece) == Picked(piece, {i \in DOMAIN piece : piece[i] \notin {"CR", "LF"}})
Lines(b, S) == [k \in DOMAIN Pieces(b, S) |-> Strip(Pieces(b, S)[k])]
Blanks(lines) == {k \in DOMAIN lines : lines[k] = <<>>}

OpenedBy(lines, c) == Picked(lines, {k \in DOMAIN lines : lines[k] # <<>> /\ lines[k][1] = c})
FieldsOf(lines) ==
  [data |-> [k \in DOMAIN OpenedBy(lines, "d") |-> Tail(OpenedBy(lines, "d")[k])],
   id |-> IF OpenedBy(lines, "i") = <<>> THEN {} ELSE {Tail(Last(OpenedBy(lines, "i")))}]
Dispatched(events) ==
  LET fields == [k \in DOMAIN events |-> FieldsOf(events[k])] IN
  Picked(fields, {k \in DOMAIN events : fields[k] # NoFields})
Solid(parts) == Picked(parts, {k \in DOMAIN parts : parts[k] # <<>>})
Payloads(parts) == [k \in DOMAIN Solid(parts) |-> [data |-> <<Solid(parts)[k]>>, id |-> {}]]

\* The items whose end is among the bytes, and with `last` what they end with.
SseItems(text, last) ==
  LET ends == IF ~ last /\ text # <<>> /\ Last(text) = "CR"
              THEN LineEnds(text) \ {Len(text)} ELSE LineEnds(text)
      all == IF last THEN Append(Lines(text, ends), Strip(Rest(text, ends)))
             ELSE Lines(text, ends)
      events == Pieces(all, Blanks(all)) IN
  Dispatched(IF last THEN Append(events, Rest(all, Blanks(all))) ELSE events)
NdjsonItems(b, last) ==
  LET ends == {i \in DOMAIN b : b[i] = "LF"}
      lines == [k \in DOMAIN Pieces(b, ends) |-> TrimCr(Front(Pieces(b, ends)[k]))] IN
  Payloads(IF last THEN Append(lines, TrimCr(Rest(b, ends))) ELSE lines)
\* A record follows each separator; what precedes the first is none.
Records(parts) == [k \in 1..Len(parts) - 1 |-> TrimAscii(Tail(parts[k + 1]))]
JsonItems(b, last) ==
  LET opens == {i \in DOMAIN b : b[i] = "RS"}
      upto == {i - 1 : i \in opens} IN
  IF upto = {} THEN <<>>
  ELSE Payloads(Records(Pieces(b, IF last THEN upto \cup {Len(b)} ELSE upto)))

ItemsOf(f, b, last) ==
  CASE f = "sse" -> SseItems(IF IsPrefix(BOM, b) THEN From(b, 4) ELSE b, last)
    [] f = "ndjson" -> NdjsonItems(b, last)
    [] f = "jsonseq" -> JsonItems(b, last)

-----------------------------------------------------------------------------
(* Properties. *)

TypeOK ==
  /\ framing \in Framings
  /\ fed \in 0..Len(body)
  /\ eof \in BOOLEAN /\ bomPending \in BOOLEAN
  /\ buffer \in Seq(Symbols)
  /\ lineStart \in 0..Len(buffer)
  /\ scanned \in lineStart..Len(buffer)
  /\ event.data \in Seq(Seq(Symbols))
  /\ Cardinality(event.id) <= 1
  /\ pc \in {"frame", "more", "end"}
  /\ credit \in Int

\* Chunks are invisible: when the framer asks for more it has framed exactly the
\* items that are whole in the bytes fed so far, and once the body ended exactly
\* those of the body.
ChunksAreInvisible ==
  /\ pc = "more" => out = ItemsOf(framing, SubSeq(body, 1, fed), FALSE)
  /\ pc = "end" => out = ItemsOf(framing, body, TRUE)

\* The search never resumes behind a terminator it has not seen, which would join
\* two items: the bytes before its offset hold none but the one that opens a record.
NothingSkipped ==
  \A i \in lineStart + 1 .. scanned :
    buffer[i] \in Terminators => framing = "jsonseq" /\ i = 1

\* A byte is searched once however many chunks an item takes, but for the one CR
\* held back and an undecided byte order mark.
SearchedOnce == credit >= 0
=============================================================================
