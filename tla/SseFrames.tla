------------------------------ MODULE SseFrames --------------------------------
(***************************************************************************)
(* An event stream as bytes: events written as lines, cut into chunks      *)
(* anywhere, and read back (SSEEvent, read_frames, read_sse).  The writer  *)
(* is this server or another one, so lines end with LF, CR or CRLF and the *)
(* stream may begin with a byte order mark.                                *)
(* A line is one symbol, an ending one or two, the mark three; text that   *)
(* contains newlines is the sequence of its lines.                         *)
(***************************************************************************)
EXTENDS Naturals, Sequences, SequencesExt, Ordered

CONSTANTS
    Events,    \* [comment, event, id, retry, data], each None or its text
    MaxEvents, \* bound: events of a stream
    None

VARIABLES
    sent,
    wire,      \* symbols that have not arrived
    buffer, held, start, ended,   \* the variables of read_frames
    last_id,   \* of read_sse
    received

vars == <<sent, wire, buffer, held, start, ended, last_id, received>>

\* A symbol: a whole line, one end-of-line character, or a byte of the mark.
Symbol(field, value) == [field |-> field, value |-> value]
LF == Symbol("lf", None)
CR == Symbol("cr", None)
BOM == [n \in 1 .. 3 |-> Symbol("bom", None)]
IsLine(symbol) == symbol.field \notin {"lf", "cr", "bom"}
Endings == {<<LF>>, <<CR>>, <<CR, LF>>}

(***************************************************************************)
(* Writing: one_line refuses an event or id of more than one line, so      *)
(* those are single values.                                                *)
(***************************************************************************)
lines(field, text) == IF text = None THEN <<>> ELSE [n \in DOMAIN text |-> Symbol(field, text[n])]
one(field, value) == IF value = None THEN <<>> ELSE <<Symbol(field, value)>>

EventLines(e) ==
    lines("comment", e.comment) \o one("event", e.event) \o one("id", e.id)
    \o one("retry", e.retry) \o lines("data", e.data)

\* The lines up to each, every one with its ending.
Laid(text, ending) ==
    LET laid[n \in 0 .. Len(text)] == IF n = 0 THEN <<>> ELSE laid[n - 1] \o <<text[n]>> \o ending
    IN  laid

to_bytes(e, ending) == Laid(EventLines(e), ending)[Len(EventLines(e))] \o ending

Write ==
    /\ ~ended /\ Len(sent) < MaxEvents
    /\ \E e \in Events, ending \in Endings :
          /\ sent' = Append(sent, e)
          /\ wire' = wire \o to_bytes(e, ending)
    /\ UNCHANGED <<buffer, held, start, ended, last_id, received>>

(***************************************************************************)
(* read_frames                                                             *)
(***************************************************************************)
\* A chunk up to each symbol, with LF for CRLF and for CR.
Uniting(chunk) ==
    LET united[n \in 0 .. Len(chunk)] ==
            IF n = 0 THEN <<>>
            ELSE IF chunk[n] = CR THEN Append(united[n - 1], LF)
            ELSE IF chunk[n] = LF /\ n > 1 /\ chunk[n - 1] = CR THEN united[n - 1]
            ELSE Append(united[n - 1], chunk[n])
    IN  united

Unified(chunk) == Uniting(chunk)[Len(chunk)]

\* Where a blank line ends a frame.
Cuts(text) == {n \in 1 .. Len(text) - 1 : text[n] = LF /\ text[n + 1] = LF}

\* (Mutant) A CR at the end of a chunk is a line ending at once.
NothingHeld(chunk) == <<>>

Held(chunk) == IF chunk # <<>> /\ Last(chunk) = CR THEN <<CR>> ELSE <<>>

\* A line is longer than the mark.
Read(arrived, last) ==
    LET chunk == held \o arrived
        kept == IF last THEN <<>> ELSE Held(chunk)
        text == buffer \o Unified(SubSeq(chunk, 1, Len(chunk) - Len(kept)))
        looked == Len(text) >= Len(BOM) \/ last \/ \E n \in DOMAIN text : IsLine(text[n])
    IN  /\ Cuts(buffer) = {}
        /\ held' = kept
        /\ buffer' = IF start /\ looked /\ IsPrefix(BOM, text) THEN SubSeq(text, Len(BOM) + 1, Len(text)) ELSE text
        /\ start' = (start /\ ~looked)

Chunk ==
    /\ \E n \in DOMAIN wire :
          /\ Read(SubSeq(wire, 1, n), FALSE)
          /\ wire' = SubSeq(wire, n + 1, Len(wire))
    /\ UNCHANGED <<sent, ended, last_id, received>>

StopAsyncIteration ==
    /\ wire = <<>> /\ ~ended
    /\ Read(<<>>, TRUE)
    /\ ended' = TRUE
    /\ UNCHANGED <<sent, wire, last_id, received>>

(***************************************************************************)
(* read_sse                                                                *)
(***************************************************************************)
NoEvent == [comment |-> None, event |-> None, id |-> None, retry |-> None, data |-> None]

Field(event, symbol) ==
    IF ~IsLine(symbol) THEN event
    ELSE CASE symbol.field = "data" -> [event EXCEPT !.data = IF @ = None THEN <<symbol.value>> ELSE Append(@, symbol.value)]
           [] symbol.field = "event" -> [event EXCEPT !.event = symbol.value]
           [] symbol.field = "id" -> [event EXCEPT !.id = symbol.value]
           [] symbol.field = "retry" -> [event EXCEPT !.retry = symbol.value]
           [] symbol.field = "comment" -> event

\* What a frame adds up to, line after line.
Adding(frame, id) ==
    LET event[n \in 0 .. Len(frame)] ==
            IF n = 0 THEN [NoEvent EXCEPT !.id = id] ELSE Field(event[n - 1], frame[n])
    IN  event

Decoded(frame, id) == Adding(frame, id)[Len(frame)]

Yield ==
    /\ \E cut \in Cuts(buffer) :
          /\ \A other \in Cuts(buffer) : cut <= other
          /\ LET event == Decoded(SubSeq(buffer, 1, cut - 1), last_id) IN
                /\ last_id' = event.id
                /\ received' = IF event.data = None THEN received ELSE Append(received, event)
          /\ buffer' = SubSeq(buffer, cut + 2, Len(buffer))
    /\ UNCHANGED <<sent, wire, held, start, ended>>

Init ==
    /\ sent = <<>> /\ wire \in {<<>>, BOM}
    /\ buffer = <<>> /\ held = <<>> /\ start = TRUE /\ ended = FALSE
    /\ last_id = None /\ received = <<>>

Next == Write \/ Chunk \/ StopAsyncIteration \/ Yield

Spec == Init /\ [][Next]_vars

(***************************************************************************)
(* Properties                                                              *)
(***************************************************************************)
\* The last id given up to the n-th event.
IdAt(n) ==
    LET named == {m \in 1 .. n : sent[m].id # None}
    IN  IF named = {} THEN None ELSE sent[CHOOSE m \in named : \A other \in named : other <= m].id

\* What a reader is to be told of the n-th event.
Told(n) == [sent[n] EXCEPT !.comment = None, !.id = IdAt(n)]
Due == At([n \in DOMAIN sent |-> Told(n)], {n \in DOMAIN sent : sent[n].data # None})

\* However the bytes are cut, and whatever ends the lines, a reader gets the
\* events that have data, each with its own fields and the last id given so
\* far, in order, and all of them by the end of the stream.
ChunksDoNotMatter == IsPrefix(received, Due) /\ (ended /\ Cuts(buffer) = {} => received = Due)
=============================================================================
