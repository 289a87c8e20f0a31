---------------------------- MODULE EventStream ----------------------------
(***************************************************************************)
(* One Server-Sent Events stream, from the local channel of a connection   *)
(* to the listeners of its browser: the loop of                            *)
(* SSEHandler.SubscribePost (internal/handlers/sse.go), events.Split,      *)
(* sse.WriteEvent and the statusRecorder through which they write          *)
(* (internal/middleware/middleware.go).                                    *)
(*                                                                         *)
(* What is written is a sequence of lines.  It passes through the          *)
(* bufio.Writer of WriteEvent (frame), the buffer of the HTTP response     *)
(* (buffer) and the connection (wire), which may break at any moment; the  *)
(* browser dispatches an event at each empty line (external).              *)
(***************************************************************************)
EXTENDS Naturals, Sequences, SequencesExt

CONSTANTS Payload,       \* what the bus may carry
          Envelope,      \* the payloads that are envelopes with a type and data
          Type,          \* envelope -> the text of its type
          Data,          \* payload -> the text of its data, or its own
          Reading,       \* payload -> how the browser reads its lines alone
          Word,          \* what a field of an event may carry
          MaxKeepAlive   \* bound on the heartbeats

Value == Word \cup {"connected", "ready", "message", "keepalive", "none"}
Line == [field : {"event", "data", "comment", "other", "empty"}, value : Value]
Event == [type : Value, data : Seq(Value)]

\* Bytes that are printed behind a field's name: the field gets them up to the
\* first newline, and each newline starts a line of its own, whatever it is.
Text == [head : Value, tail : Seq(Line)]

ASSUME EventStreamAssumption ==
    /\ Envelope \subseteq Payload
    /\ Type \in [Envelope -> Text]
    /\ Data \in [Payload -> Text]
    /\ MaxKeepAlive \in Nat

VARIABLES
    pc,           \* "headers", "ready", "waiting", "writing", "flushing", "returned"
    local,        \* the channel the handler reads
    closed,       \* the store closed it
    frame,        \* lines in the bufio.Writer or in the hands of Write
    buffer,       \* lines in the buffer of the response
    wire,         \* lines on the connection
    broken,       \* the connection is lost or the browser left
    taken,        \* payloads received from local, in order
    expected,     \* the events the browser ought to dispatch by what was written
    beats,        \* heartbeats written
    parser,       \* the browser's event under construction
    dispatched    \* the events the browser dispatched

stream == <<frame, buffer, wire>>
source == <<local, closed, taken, expected>>
browser == <<parser, dispatched>>
vars == <<pc, source, stream, broken, beats, browser>>

Field(f, v) == [field |-> f, value |-> v]
Blank == Field("empty", "none")
NoEvent == [type |-> "message", data |-> << >>]

Init ==
    /\ pc = "headers"
    /\ local = << >> /\ closed = FALSE /\ taken = << >> /\ expected = << >>
    /\ frame = << >> /\ buffer = << >> /\ wire = << >>
    /\ broken = FALSE
    /\ beats = 0
    /\ parser = NoEvent /\ dispatched = << >>

-----------------------------------------------------------------------------
(* events.Split and sse.WriteEvent                                         *)

OneLine(v) == [head |-> v, tail |-> << >>]

Split(p) ==
    [type |-> IF p \in Envelope THEN Type[p] ELSE OneLine("message"),
     data |-> Data[p]]

Lines(e) ==
    <<Field("event", e.type.head)>> \o e.type.tail
    \o <<Field("data", e.data.head)>> \o e.data.tail
    \o <<Blank>>

-----------------------------------------------------------------------------
(* EventSource                                                             *)

\* The event under construction after a line, and whether the line completes it;
\* one without data is not dispatched.  The fields "id" and "retry", of which the
\* repository makes no use, count as "other".
After(event, line) ==
    CASE line.field = "event" -> [event EXCEPT !.type = line.value]
      [] line.field = "data"  -> [event EXCEPT !.data = Append(@, line.value)]
      [] line.field = "empty" -> NoEvent
      [] OTHER                -> event

Completes(event, line) == line.field = "empty" /\ event.data # << >>

\* Going through lines q, e[j] is under construction after j of them and n[j]
\* events are complete, those of the sequence events.
IsRun(q, events, e, n) ==
    \A j \in 1..Len(q) :
        /\ e[j] = After(e[j - 1], q[j])
        /\ n[j] = IF Completes(e[j - 1], q[j]) THEN n[j - 1] + 1 ELSE n[j - 1]
        /\ Completes(e[j - 1], q[j]) => n[j] <= Len(events) /\ e[j - 1] = events[n[j]]

\* Reading is no restriction of the payloads: there is just one run through the
\* lines of each.
ASSUME ReadingAssumption ==
    \A p \in Payload :
        LET q == Lines(Split(p))
            run == Reading[p]
        IN  /\ run.events \in Seq(Event)
            /\ run.event \in [0..Len(q) -> Event]
            /\ run.count \in [0..Len(q) -> Nat]
            /\ run.event[0] = NoEvent /\ run.count[0] = 0
            /\ run.count[Len(q)] = Len(run.events)
            /\ IsRun(q, run.events, run.event, run.count)

\* Type and data on one line are one event, just as they are; what else is in
\* the type or the data is for the browser to read.
Events(e, events) ==
    IF e.type.tail = << >> /\ e.data.tail = << >>
    THEN <<[type |-> e.type.head, data |-> <<e.data.head>>]>>
    ELSE events

EventsOf(p) == Events(Split(p), Reading[p].events)

-----------------------------------------------------------------------------
(* The handler                                                             *)

\* The headers, flushed; then "ready", whose error is ignored.
Headers ==
    /\ pc = "headers"
    /\ frame' = Lines([type |-> OneLine("ready"), data |-> OneLine("connected")])
    /\ expected' = <<[type |-> "ready", data |-> <<"connected">>]>>
    /\ pc' = "ready"
    /\ UNCHANGED <<local, closed, taken, buffer, wire, broken, beats, browser>>

Take ==
    /\ pc = "waiting"
    /\ local # << >>
    /\ local' = Tail(local)
    /\ taken' = Append(taken, Head(local))
    /\ frame' = Lines(Split(Head(local)))
    /\ expected' = expected \o EventsOf(Head(local))
    /\ pc' = "writing"
    /\ UNCHANGED <<closed, buffer, wire, broken, beats, browser>>

\* Wrong: the heartbeat is written by a goroutine of its own.
KeepAlive_Concurrent ==
    /\ pc \in {"waiting", "writing"}
    /\ beats < MaxKeepAlive
    /\ beats' = beats + 1
    /\ buffer' = buffer \o <<Field("comment", "keepalive"), Blank>>
    /\ UNCHANGED <<pc, source, frame, wire, broken, browser>>

KeepAlive ==
    /\ pc = "waiting"
    /\ beats < MaxKeepAlive
    /\ beats' = beats + 1
    /\ frame' = <<Field("comment", "keepalive"), Blank>>
    /\ pc' = "writing"
    /\ UNCHANGED <<source, buffer, wire, broken, browser>>

\* statusRecorder.Write: what does not fit in the bufio.Writer goes ahead.  A
\* broken connection need not be noticed.
Write ==
    /\ pc \in {"ready", "writing"}
    /\ frame # << >>
    /\ \E n \in 1..Len(frame) :
          /\ buffer' = buffer \o SubSeq(frame, 1, n)
          /\ frame' = SubSeq(frame, n + 1, Len(frame))
          /\ pc' = IF n = Len(frame) THEN "flushing" ELSE pc
    /\ UNCHANGED <<source, wire, broken, beats, browser>>

\* The error ends the stream, but not when it is that of "ready".
WriteFail ==
    /\ pc \in {"ready", "writing"}
    /\ broken
    /\ frame' = << >>
    /\ pc' = IF pc = "ready" THEN "waiting" ELSE "returned"
    /\ UNCHANGED <<source, buffer, wire, broken, beats, browser>>

\* Wrong: statusRecorder does not pass Flush on.
Flush_NotForwarded ==
    /\ pc = "flushing"
    /\ pc' = "waiting"
    /\ UNCHANGED <<source, stream, broken, beats, browser>>

\* statusRecorder.Flush, which reports no error.
Flush ==
    /\ pc = "flushing"
    /\ wire' = IF broken THEN wire ELSE wire \o buffer
    /\ buffer' = << >>
    /\ pc' = "waiting"
    /\ UNCHANGED <<source, frame, broken, beats, browser>>

\* r.Context() is done or the channel is closed and drained; then the server
\* sends what is left in the buffer.
Return ==
    /\ pc = "waiting"
    /\ broken \/ (closed /\ local = << >>)
    /\ pc' = "returned"
    /\ UNCHANGED <<source, stream, broken, beats, browser>>

-----------------------------------------------------------------------------
(* Its surroundings                                                        *)

\* The store offers a payload, or closes the channel.
Offer(p) ==
    /\ ~closed /\ pc # "returned"
    /\ p \notin Range(local \o taken)
    /\ local' = Append(local, p)
    /\ UNCHANGED <<pc, closed, taken, expected, stream, broken, beats, browser>>

StoreClose ==
    /\ ~closed
    /\ closed' = TRUE
    /\ UNCHANGED <<pc, local, taken, expected, stream, broken, beats, browser>>

\* A full response buffer is written out before any Flush.
Spill ==
    /\ buffer # << >> /\ ~broken
    /\ wire' = Append(wire, Head(buffer))
    /\ buffer' = Tail(buffer)
    /\ UNCHANGED <<pc, source, frame, broken, beats, browser>>

\* What is on its way may be lost.
Break ==
    /\ ~broken
    /\ broken' = TRUE
    /\ \E n \in 0..Len(wire) : wire' = SubSeq(wire, 1, n)
    /\ UNCHANGED <<pc, source, frame, buffer, beats, browser>>

Parse ==
    /\ wire # << >>
    /\ wire' = Tail(wire)
    /\ parser' = After(parser, Head(wire))
    /\ dispatched' = IF Completes(parser, Head(wire))
                     THEN Append(dispatched, parser) ELSE dispatched
    /\ UNCHANGED <<pc, source, frame, buffer, broken, beats>>

-----------------------------------------------------------------------------
Handler == Headers \/ Take \/ Write \/ WriteFail \/ Flush \/ Return

Next ==
    \/ Handler \/ KeepAlive
    \/ \E p \in Payload : Offer(p)
    \/ StoreClose \/ Spill \/ Break \/ Parse

Spec == Init /\ [][Next]_vars

\* The handler's goroutine runs on, the browser reads.
FairSpec == Spec /\ WF_vars(Handler) /\ WF_vars(Parse)

-----------------------------------------------------------------------------
(* Properties                                                              *)

\* The browser dispatches "ready" and then the events of the channel, in order and
\* none twice, whatever heartbeats lie between them and wherever the connection
\* breaks: for an envelope as the dispatcher marshals it, on one line, just one
\* event of its type, for bytes that were marshalled elsewhere what their own
\* lines say, be it several events or another type, while the events before and
\* after them stay as they are ("a malformed publisher can never wedge the
\* delivery loop", events.go:39-42).
EventsIntact == IsPrefix(dispatched, expected)

\* Whatever is in the channel is dispatched in the end, with all its events,
\* unless the connection breaks: no buffer holds back the last one ("flushes it
\* to the client immediately", writer.go:24).
EventuallyDispatched ==
    \A p \in Payload :
        p \in Range(local) ~>
            \/ broken
            \/ \E i \in 1..Len(dispatched) :
                   IsPrefix(EventsOf(p), SubSeq(dispatched, i, Len(dispatched)))

-----------------------------------------------------------------------------
(* The invariant behind the first                                          *)

TypeOK ==
    /\ pc \in {"headers", "ready", "waiting", "writing", "flushing", "returned"}
    /\ local \in Seq(Payload) /\ taken \in Seq(Payload) /\ expected \in Seq(Event)
    /\ closed \in BOOLEAN /\ broken \in BOOLEAN
    /\ frame \in Seq(Line) /\ buffer \in Seq(Line) /\ wire \in Seq(Line)
    /\ beats \in 0..MaxKeepAlive
    /\ parser \in Event /\ dispatched \in Seq(Event)

\* Between two writes the bufio.Writer is empty, and before "ready" nothing is
\* expected.
OneWriter ==
    /\ frame # << >> => pc \in {"ready", "writing"}
    /\ pc = "headers" => expected = << >>

\* What the browser has still to read.
Pending == IF broken THEN wire ELSE wire \o buffer \o frame

\* A browser that constructs x after m events goes through lines q: it ends with
\* y after k events, and those that it dispatches are those of events.
Reads(q, events, x, m, y, k) ==
    \E e \in [0..Len(q) -> Event], n \in [0..Len(q) -> Nat] :
        /\ e[0] = x /\ n[0] = m /\ e[Len(q)] = y /\ n[Len(q)] = k
        /\ IsRun(q, events, e, n)

\* The rest of the stream is that of the events that are still expected, and
\* unless it was cut off leaves none half read.
PendingExpected ==
    \E y \in Event, k \in Nat :
        /\ Reads(Pending, expected, parser, Len(dispatched), y, k)
        /\ ~broken => y = NoEvent /\ k = Len(expected)

Inv == TypeOK /\ OneWriter /\ EventsIntact /\ PendingExpected
=============================================================================
