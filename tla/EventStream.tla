----------------------------- MODULE EventStream -----------------------------
(***************************************************************************)
(* EventStream::poll_next: framing, decoding and automatic reconnects of a *)
(* Server-Sent Events response (support-runtime/src/stream.rs).            *)
(*                                                                         *)
(* The server holds a fixed list of events and sends the lines of each, on *)
(* any connection from the one after the Last-Event-ID it was given, which *)
(* is what a resumable server does.  A line is the unit of the wire:       *)
(* ItemFraming shows that how bytes are cut into chunks changes nothing.    *)
(* An event's id is its number.                                            *)
(***************************************************************************)
EXTENDS Integers, Sequences, FiniteSets, SequencesExt

CONSTANTS
  NumEvents,     \* events the server holds
  Kind(_),       \* "item" | "bad" | "big" | "ping" | "meta" | "done", see Lines
  Numberings,    \* the sets of events that carry an id: line, one per server
  Limit,         \* reconnects the policy grants in a row
  MaxFrame,      \* ClientConfig::max_stream_frame, in lines
  ChunkLines,    \* bound: lines one chunk brings
  TornClose      \* whether a server closes a body cleanly inside an event

Events == 1..NumEvents

ASSUME StreamAssumption ==
  /\ NumEvents \in Nat
  /\ Limit \in Nat
  /\ MaxFrame \in Nat
  /\ ChunkLines \in Nat \ {0}
  /\ TornClose \in BOOLEAN
  /\ Numberings \subseteq SUBSET Events
  /\ \A e \in Events : Kind(e) \in {"item", "bad", "big", "ping", "meta", "done"}

VARIABLES
  \* the stream
  state,         \* StreamState: body, eof, waiting, connecting, done
  buffer,        \* lines read and not framed: [event, line], and conn they came on
  lastId,        \* last_event_id, 0 for none
  attempts,      \* ReconnectContext::attempt
  replayable,    \* the request kept for reconnects can be cloned
  \* the server and the network
  numbered,      \* the events that carry an id
  conn,          \* parity of the connection whose status and headers the stream reports
  rest,          \* the lines the server has still to send on it
  \* history
  yielded,       \* yielded[e]: how often e's own payload was yielded, at most 2
  foreign,       \* items whose data is not that of exactly one event
  fruitless,     \* requests sent again since an item last decoded
  ending         \* "none" or "error": what ended the stream, "no" before

stream == <<state, buffer, lastId, attempts, replayable>>
server == <<numbered, conn, rest>>
streamHistory == <<yielded, foreign, fruitless, ending>>
streamVars == <<state, buffer, lastId, attempts, replayable, numbered, conn, rest, yielded,
          foreign, fruitless, ending>>

\* The field lines of an event, and the blank line that ends it.  "bad" has data
\* that does not decode, "big" has more data lines than the others, "meta" has
\* none, "ping" is a comment, and "done" is the [DONE] sentinel.
DataOf(e) == CASE Kind(e) = "big" -> <<"data", "data", "data">>
               [] Kind(e) \in {"item", "bad", "done"} -> <<"data">>
               [] OTHER -> <<>>
Lines(e) == (IF e \in numbered THEN <<"id">> ELSE <<>>) \o DataOf(e) \o <<"end">>
\* What the server sends a client whose last event is `last`.
Wire(last) ==
  FlattenSeq([k \in 1..NumEvents - last |->
                [i \in DOMAIN Lines(last + k) |->
                   [event |-> last + k, line |-> Lines(last + k)[i]]]])

\* new_reconnectable over the first response, with_reconnect enabled.
StreamInit ==
  /\ state = "body"
  /\ buffer = <<>>
  /\ lastId = 0
  /\ attempts = 0
  /\ replayable \in BOOLEAN
  /\ numbered \in Numberings
  /\ conn = 0
  /\ rest = Wire(0)
  /\ yielded = [e \in Events |-> 0]
  /\ foreign = FALSE
  /\ fruitless = 0
  /\ ending = "no"

-----------------------------------------------------------------------------
(* Framing: next_frame over the lines in the buffer. *)

Ends == {i \in 1..Len(buffer) : buffer[i].line = "end"}
\* How many lines the next frame takes: up to the first blank line, or all that
\* is left once no more will come; 0 when a frame needs more.
FrameLength ==
  IF Ends # {} THEN CHOOSE i \in Ends : \A j \in Ends : i <= j
  ELSE IF state = "eof" THEN Len(buffer) ELSE 0
NeedMore == FrameLength = 0

Frame == SubSeq(buffer, 1, FrameLength)
EventsOf(line) == {Frame[i].event : i \in {j \in 1..FrameLength : Frame[j].line = line}}
DataLines == {i \in 1..FrameLength : Frame[i].line = "data"}
\* The last id: line of the frame counts.
FrameId == LET ids == {i \in 1..FrameLength : Frame[i].line = "id"} IN
           IF ids = {} THEN 0 ELSE Frame[CHOOSE i \in ids : \A j \in ids : j <= i].event

\* The frame's data is the whole payload of event e, and nothing else.
PayloadOf(e) ==
  /\ EventsOf("data") = {e}
  /\ Cardinality(DataLines) = Len(DataOf(e))
Decodes == \E e \in Events : PayloadOf(e) /\ Kind(e) # "bad"
IsDone == \E e \in Events : PayloadOf(e) /\ Kind(e) = "done"

Consume == buffer' = SubSeq(buffer, FrameLength + 1, Len(buffer))
ApplyMetadata == lastId' = IF FrameId # 0 THEN FrameId ELSE lastId

Deliver ==
  /\ yielded' = [e \in Events |->
                   IF PayloadOf(e) /\ yielded[e] < 2 THEN yielded[e] + 1 ELSE yielded[e]]
  /\ foreign' = (foreign \/ ~ \E e \in Events : PayloadOf(e))

\* Mistake: a decode error counts as progress too.
FrameItemAlwaysResetting ==
  /\ state # "done" /\ ~ NeedMore
  /\ DataLines # {} /\ ~ IsDone
  /\ Consume
  /\ ApplyMetadata
  /\ attempts' = 0
  /\ fruitless' = IF Decodes THEN 0 ELSE fruitless
  /\ Deliver
  /\ UNCHANGED <<state, replayable, server, ending>>

\* Mistake: the id of a frame is not kept.
FrameItemWithoutId ==
  /\ state # "done" /\ ~ NeedMore
  /\ DataLines # {} /\ ~ IsDone
  /\ Consume
  /\ attempts' = IF Decodes THEN 0 ELSE attempts
  /\ fruitless' = IF Decodes THEN 0 ELSE fruitless
  /\ Deliver
  /\ UNCHANGED <<state, lastId, replayable, server, ending>>

\* An item is yielded, decoded or as a Decode error; only a decoded one resets
\* the attempts.
FrameItem ==
  /\ state # "done" /\ ~ NeedMore
  /\ DataLines # {} /\ ~ IsDone
  /\ Consume
  /\ ApplyMetadata
  /\ attempts' = IF Decodes THEN 0 ELSE attempts
  /\ fruitless' = IF Decodes THEN 0 ELSE fruitless
  /\ Deliver
  /\ UNCHANGED <<state, replayable, server, ending>>

\* An event without data yields nothing; its id counts.
FrameMetadata ==
  /\ state # "done" /\ ~ NeedMore
  /\ DataLines = {}
  /\ Consume
  /\ ApplyMetadata
  /\ UNCHANGED <<state, attempts, replayable, server, streamHistory>>

\* The sentinel ends the stream.
FrameDone ==
  /\ state # "done" /\ ~ NeedMore
  /\ IsDone
  /\ ApplyMetadata
  /\ state' = "done"
  /\ buffer' = <<>>
  /\ ending' = "none"
  /\ UNCHANGED <<attempts, replayable, server, yielded, foreign, fruitless>>

\* What is left is one item without its end, over the limit: frame_overflow
\* ends the stream and asks no policy.
Overflow ==
  /\ state # "done" /\ NeedMore
  /\ Len(buffer) > MaxFrame
  /\ state' = "done"
  /\ buffer' = <<>>
  /\ ending' = "error"
  /\ UNCHANGED <<lastId, attempts, replayable, server, yielded, foreign, fruitless>>

\* Nothing to frame: the loop looks at the state of the connection.
Waits(s) == state = s /\ NeedMore /\ Len(buffer) <= MaxFrame

-----------------------------------------------------------------------------
(* The connection. *)

\* Mistake: the partial event is kept for the next connection.
ScheduleReconnectKeepingBuffer(failure) ==
  \/ /\ attempts < Limit
     /\ attempts' = attempts + 1
     /\ state' = "waiting"
     /\ UNCHANGED <<buffer, ending>>
  \/ /\ state' = "done"
     /\ ending' = IF failure THEN "error" ELSE "none"
     /\ UNCHANGED <<attempts, buffer>>

\* schedule_reconnect: the policy, which grants at most Limit in a row, decides;
\* a failure it declines is yielded.
ScheduleReconnect(failure) ==
  \/ /\ attempts < Limit
     /\ attempts' = attempts + 1
     /\ buffer' = <<>>
     /\ state' = "waiting"
     /\ UNCHANGED ending
  \/ /\ state' = "done"
     /\ ending' = IF failure THEN "error" ELSE "none"
     /\ UNCHANGED <<attempts, buffer>>

\* A chunk arrives.
ReadChunk ==
  /\ Waits("body")
  /\ \E n \in 1..ChunkLines :
       /\ n <= Len(rest)
       /\ buffer' = buffer \o [i \in 1..n |-> [event |-> rest[i].event,
                                               line |-> rest[i].line, conn |-> conn]]
       /\ rest' = SubSeq(rest, n + 1, Len(rest))
  /\ UNCHANGED <<state, lastId, attempts, replayable, numbered, conn, streamHistory>>

\* Reading fails: whatever the failure, InterruptedBody.
ReadFails ==
  /\ Waits("body")
  /\ ScheduleReconnect(TRUE)
  /\ UNCHANGED <<lastId, replayable, server, yielded, foreign, fruitless>>

\* The body ends cleanly, after its last event or before.
ReadEnds ==
  /\ Waits("body")
  /\ TornClose \/ buffer = <<>>
  /\ state' = "eof"
  /\ UNCHANGED <<buffer, lastId, attempts, replayable, server, streamHistory>>

\* All that was left is framed.
EndOfStream ==
  /\ Waits("eof")
  /\ ScheduleReconnect(FALSE)
  /\ UNCHANGED <<lastId, replayable, server, yielded, foreign, fruitless>>

\* Mistake: the reconnect asks for what follows the event read last, framed or not.
WaitOverFromLastRead ==
  /\ Waits("waiting")
  /\ IF replayable
     THEN /\ state' = "connecting"
          /\ rest' = Wire(IF rest = <<>> THEN NumEvents ELSE rest[1].event)
          /\ fruitless' = fruitless + 1
          /\ UNCHANGED ending
     ELSE state' = "done" /\ ending' = "error" /\ UNCHANGED <<rest, fruitless>>
  /\ UNCHANGED <<buffer, lastId, attempts, replayable, numbered, conn, yielded, foreign>>

\* The policy's wait is over: reconnect_future sends the request again with the
\* last id; one whose body is a stream cannot be cloned, which ends the stream.
WaitOver ==
  /\ Waits("waiting")
  /\ IF replayable
     THEN /\ state' = "connecting"
          /\ rest' = Wire(lastId)
          /\ fruitless' = fruitless + 1
          /\ UNCHANGED ending
     ELSE state' = "done" /\ ending' = "error" /\ UNCHANGED <<rest, fruitless>>
  /\ UNCHANGED <<buffer, lastId, attempts, replayable, numbered, conn, yielded, foreign>>

\* A 2xx response: its status, headers and body replace the old ones.
Connected ==
  /\ Waits("connecting")
  /\ state' = "body"
  /\ conn' = 1 - conn
  /\ UNCHANGED <<buffer, lastId, attempts, replayable, numbered, rest, streamHistory>>

\* A transport failure, or another status.
ConnectFails ==
  /\ Waits("connecting")
  /\ ScheduleReconnect(TRUE)
  /\ UNCHANGED <<lastId, replayable, server, yielded, foreign, fruitless>>

\* Polled again after its end, the stream answers None.
PollAfterEnd == state = "done" /\ UNCHANGED streamVars

StreamNext ==
  \/ FrameItem \/ FrameMetadata \/ FrameDone \/ Overflow
  \/ ReadChunk \/ ReadFails \/ ReadEnds \/ EndOfStream
  \/ WaitOver \/ Connected \/ ConnectFails
  \/ PollAfterEnd

StreamSpec == StreamInit /\ [][StreamNext]_streamVars
\* The caller polls on, the policy's timer fires, a server answers and sends
\* what it has, or closes.
FairStreamSpec == StreamSpec /\ WF_streamVars(StreamNext)

-----------------------------------------------------------------------------
(* Properties. *)

StreamTypeOK ==
  /\ state \in {"body", "eof", "waiting", "connecting", "done"}
  /\ buffer \in Seq([event : Events, line : {"id", "data", "end"}, conn : {0, 1}])
  /\ lastId \in 0..NumEvents
  /\ attempts \in 0..Limit
  /\ replayable \in BOOLEAN
  /\ numbered \in Numberings
  /\ conn \in {0, 1}
  /\ rest \in Seq([event : Events, line : {"id", "data", "end"}])
  /\ yielded \in [Events -> 0..2]
  /\ foreign \in BOOLEAN
  /\ fruitless \in 0..Limit
  /\ ending \in {"no", "none", "error"}

\* Events that are yielded: not metadata, comments or the sentinel.
Data == {e \in Events : Kind(e) \in {"item", "bad", "big"}}

\* Reconnecting loses nothing: whatever breaks and wherever, an event is yielded
\* only when every earlier one was, also when a decode error came between.
NoEventLost ==
  \A e, f \in Data : f < e /\ yielded[e] > 0 => yielded[f] > 0

\* An event that carries an id is yielded once: the stream resumes after it,
\* whatever breaks once it is yielded.
NoEventTwice == \A e \in numbered : yielded[e] <= 1

\* What a consumer sees is the stream of the server, each event in its place:
\* reconnects leave no trace in it.
InOrderOnce == NoEventLost /\ NoEventTwice

\* An item never mixes the data of two events, nor of two connections, and the
\* headers an error reports are those of the connection its bytes came from.
NoConcatenation ==
  /\ ~ foreign
  /\ \A i \in 1..Len(buffer) : buffer[i].conn = conn

\* The attempt the policy is told is the number of requests sent again since an
\* item last decoded, with the one it has just granted: neither an undecodable
\* item nor a refused connection resets it, and every decoded item does.
AttemptsCountTheFruitless == fruitless \in {attempts - 1, attempts}

\* Under a policy with a limit a stream of numbered events ends, however often
\* its connections break.
StreamEnds ==
  {e \in Events : Kind(e) # "ping"} \subseteq numbered => <>(state = "done")
=============================================================================
