------------------------ MODULE NotificationStreams ------------------------
(***************************************************************************)
(* The three streams a server announces changes on, all fed by one hub     *)
(* topic: "listen" (subscriptions/listen, server/subscriptions.py), "get"  *)
(* (the GET stream of Streamable HTTP, server/http.py), which a client may *)
(* resume by `Last-Event-ID`, and "sse" (the HTTP+SSE endpoint of revision *)
(* 2024-11-05, server/sse.py), which carries replies to posted messages    *)
(* from a topic of its own and owns its session.                           *)
(*                                                                         *)
(* Abstractions: one stream of one kind; an event is the list that changed *)
(* or the resource that did, its hub id its position in the topic; the hub *)
(* keeps what it is given (HubBackends says how long).  What a posted      *)
(* message does is the dispatcher's business; here it makes one reply.     *)
(***************************************************************************)
EXTENDS Naturals, Sequences, FiniteSets, SequencesExt

CONSTANTS
    Uri,            \* resources the server has
    MaxEvents,      \* bound: events published
    Message,        \* messages posted to a 2024-11-05 stream
    MaxCuts         \* bound: connections that break

VARIABLES
    kind,       \* "listen", "get" or "sse"
    log,        \* the notifications topic: Seq(Subject)
    session,    \* "none", "live" or "gone": the record
    subscribed, \* its subscribed URIs
    pc,         \* where the handler stands
    cursor,     \* the id its subscription has read to
    accepted,   \* what is relayed: what a listen request was granted, or what
                \* the session wanted when the batch was polled
    batch,      \* ids polled and not yet written
    wire, got,  \* what was written, what the client received: Seq([from, id])
    last,       \* the Last-Event-ID the client holds, 0 for none
    outbox,     \* the stream's own topic: Seq(Message)
    o_cursor,
    posts,      \* [Message -> "new", "serving", "accepted" or "refused"]
    cuts,
    due         \* history: ids this client has been promised

vars == <<kind, log, session, subscribed, pc, cursor, accepted, batch, wire, got, last, outbox,
          o_cursor, posts, cuts, due>>
shared == <<log, subscribed>>
received == <<got, last>>
letters == <<outbox, o_cursor, posts>>

Subject == {"list"} \cup Uri
Unserved == "unserved"      \* a URI no resource matches
Open == {"told", "reread", "write"}

Init ==
    /\ kind \in {"listen", "get", "sse"}
    /\ log = <<>>
    /\ session = IF kind = "get" THEN "live" ELSE "none"
    /\ subscribed = {} /\ accepted = {}
    /\ pc = "start" /\ cursor = 0 /\ batch = <<>>
    /\ wire = <<>> /\ got = <<>> /\ last = 0
    /\ outbox = <<>> /\ o_cursor = 0 /\ posts = [p \in Message |-> "new"]
    /\ cuts = 0 /\ due = {}

Goto(where) == pc' = where

-----------------------------------------------------------------------------
(* Opening a stream *)

\* listen: what is asked for and served; nothing of it is acknowledged, and over.
listen(requested) ==
    /\ kind = "listen" /\ pc = "start"
    /\ accepted' = requested \cap Subject
    /\ Goto(IF requested \cap Subject = {} THEN "done" ELSE "subscribe")
    /\ UNCHANGED <<kind, shared, session, cursor, batch, wire, received, letters, cuts, due>>

\* notifications: load_session, then the headers.
load_session ==
    /\ kind = "get" /\ pc = "start"
    /\ Goto(IF session = "live" THEN "subscribe" ELSE "done")
    /\ UNCHANGED <<kind, shared, session, cursor, accepted, batch, wire, received, letters, cuts, due>>

open_session ==
    /\ kind = "sse" /\ pc = "start"
    /\ session' = "live"
    /\ Goto("subscribe")
    /\ UNCHANGED <<kind, shared, cursor, accepted, batch, wire, received, letters, cuts, due>>

\* hub.subscribe: from now; the 2024-11-05 stream to its own topic as well.
Subscribe ==
    /\ pc = "subscribe" /\ kind # "get"
    /\ cursor' = Len(log) /\ o_cursor' = Len(outbox)
    /\ Goto("subscribed")
    /\ UNCHANGED <<kind, shared, session, accepted, batch, wire, received, outbox, posts, cuts, due>>

\* The acknowledgement, or the endpoint event.
Tell ==
    /\ pc = "subscribed"
    /\ Goto("told")
    /\ UNCHANGED <<kind, shared, session, cursor, accepted, batch, wire, received, letters, cuts, due>>

\* (Mutant) The header is ignored.
FromNow == Len(log)

\* (Mutant) The event the header names comes again.
FromLast == IF last = 0 THEN Len(log) ELSE last - 1

\* What hub.subscribe starts behind: Last-Event-ID, or now where there is none.
AfterLast == IF last = 0 THEN Len(log) ELSE last

resumed ==
    /\ kind = "get" /\ pc = "subscribe"
    /\ cursor' = AfterLast
    /\ due' = IF last = 0 THEN {} ELSE due
    /\ Goto("told")
    /\ UNCHANGED <<kind, shared, session, accepted, batch, wire, received, letters, cuts>>

-----------------------------------------------------------------------------
(* Relaying *)

\* wanted: the lists, and the URIs of the session while there is one.
wanted == {"list"} \cup IF session = "live" THEN subscribed ELSE {}

relays(i) == log[i] \in accepted

Poll ==
    /\ pc = "told" /\ cursor < Len(log)
    /\ cursor' = Len(log)
    /\ batch' = [n \in 1..(Len(log) - cursor) |-> cursor + n]
    /\ Goto(IF kind = "listen" THEN "write" ELSE "reread")
    /\ UNCHANGED <<kind, shared, session, accepted, wire, received, letters, cuts, due>>

\* (Mutant) A stream without its session goes on like a GET stream.
RereadRegardless ==
    /\ pc = "reread"
    /\ Goto("write") /\ accepted' = wanted
    /\ UNCHANGED <<kind, shared, session, cursor, batch, wire, received, letters, cuts, due>>

\* The record is read again for every batch.  Without one a GET stream goes on
\* with the lists, and a 2024-11-05 stream ends.
Reread ==
    /\ pc = "reread"
    /\ IF kind = "sse" /\ session # "live"
       THEN Goto("finally") /\ batch' = <<>> /\ UNCHANGED accepted
       ELSE Goto("write") /\ accepted' = wanted /\ UNCHANGED batch
    /\ UNCHANGED <<kind, shared, session, cursor, wire, received, letters, cuts, due>>

Write ==
    /\ pc = "write"
    /\ IF batch = <<>>
       THEN Goto("told") /\ UNCHANGED <<wire, batch>>
       ELSE /\ wire' = IF relays(Head(batch)) THEN Append(wire, [from |-> "hub", id |-> Head(batch)])
                       ELSE wire
            /\ batch' = Tail(batch)
            /\ UNCHANGED pc
    /\ UNCHANGED <<kind, shared, session, cursor, accepted, received, letters, cuts, due>>

\* relay: the second task of a 2024-11-05 stream.
relay ==
    /\ kind = "sse" /\ pc \in Open /\ o_cursor < Len(outbox)
    /\ wire' = Append(wire, [from |-> "outbox", id |-> outbox[o_cursor + 1]])
    /\ o_cursor' = o_cursor + 1
    /\ UNCHANGED <<kind, shared, session, pc, cursor, accepted, batch, received, outbox, posts, cuts, due>>

\* finally: hub.delete, then session_store.delete.
Finally ==
    /\ pc = "finally" /\ Goto("delete session")
    /\ outbox' = <<>>
    /\ UNCHANGED <<kind, shared, session, cursor, accepted, batch, wire, received, o_cursor, posts, cuts, due>>

DeleteSession ==
    /\ pc = "delete session" /\ Goto("done")
    /\ session' = "gone"
    /\ UNCHANGED <<kind, shared, cursor, accepted, batch, wire, received, letters, cuts, due>>

-----------------------------------------------------------------------------
(* The client and the other workers *)

Receive ==
    /\ wire # <<>> /\ pc \in Open
    /\ got' = Append(got, Head(wire))
    /\ wire' = Tail(wire)
    /\ last' = IF kind = "get" THEN Head(wire).id ELSE last
    /\ UNCHANGED <<kind, shared, session, pc, cursor, accepted, batch, letters, cuts, due>>

\* The connection breaks: what was not received is lost.  A GET stream may be
\* opened again.
Cut ==
    /\ cuts < MaxCuts /\ pc \in Open
    /\ cuts' = cuts + 1
    /\ wire' = <<>> /\ batch' = <<>>
    /\ Goto(CASE kind = "get" -> "start" [] kind = "sse" -> "finally" [] kind = "listen" -> "done")
    /\ UNCHANGED <<kind, shared, session, cursor, accepted, received, letters, due>>

\* A change anywhere, published by whichever worker made it.
Publish(subject) ==
    /\ Len(log) < MaxEvents
    /\ log' = Append(log, subject)
    /\ due' = IF (pc \in Open \/ kind = "get") /\ subject \in (IF kind = "listen" THEN accepted ELSE wanted)
              THEN due \cup {Len(log) + 1} ELSE due
    /\ UNCHANGED <<kind, session, subscribed, pc, cursor, accepted, batch, wire, received, letters, cuts>>

\* resources/subscribe and /unsubscribe, on any worker.
subscribe(uri) ==
    /\ kind # "listen" /\ session = "live"
    /\ subscribed' = subscribed \cup {uri}
    /\ UNCHANGED <<kind, log, session, pc, cursor, accepted, batch, wire, received, letters, cuts, due>>

unsubscribe(uri) ==
    /\ uri \in subscribed /\ session = "live"
    /\ subscribed' = subscribed \ {uri}
    /\ due' = {i \in due : log[i] # uri}
    /\ UNCHANGED <<kind, log, session, pc, cursor, accepted, batch, wire, received, letters, cuts>>

\* The session's TTL runs out: a stream alone does not renew it.
Lapse ==
    /\ session = "live" /\ pc \in Open
    /\ session' = "gone"
    /\ due' = {i \in due : log[i] = "list"}
    /\ UNCHANGED <<kind, shared, pc, cursor, accepted, batch, wire, received, letters, cuts>>

\* receive: 404 without the session; the record is read before the message is
\* served, and the answer is published before the 202.
receive(p) ==
    /\ kind = "sse" /\ posts[p] = "new" /\ pc \notin {"start", "subscribe", "subscribed"}
    /\ posts' = [posts EXCEPT ![p] = IF session = "live" THEN "serving" ELSE "refused"]
    /\ UNCHANGED <<kind, shared, session, pc, cursor, accepted, batch, wire, received, outbox, o_cursor, cuts, due>>

serve(p) ==
    /\ posts[p] = "serving"
    /\ outbox' = Append(outbox, p)
    /\ posts' = [posts EXCEPT ![p] = "accepted"]
    /\ UNCHANGED <<kind, shared, session, pc, cursor, accepted, batch, wire, received, o_cursor, cuts, due>>

Handler ==
    \/ load_session \/ open_session \/ Subscribe \/ Tell \/ resumed
    \/ Poll \/ Reread \/ Write \/ Finally \/ DeleteSession

Next ==
    \/ \E requested \in SUBSET (Subject \cup {Unserved}) : listen(requested)
    \/ Handler \/ relay \/ Receive \/ Cut \/ Lapse
    \/ \E subject \in Subject : Publish(subject)
    \/ \E uri \in Uri : subscribe(uri) \/ unsubscribe(uri)
    \/ \E p \in Message : receive(p) \/ serve(p)

\* The event loop runs the tasks of the stream, and a client reads.
Fairness == WF_vars(Handler) /\ WF_vars(relay) /\ WF_vars(Receive)

Spec == Init /\ [][Next]_vars /\ Fairness

-----------------------------------------------------------------------------
(* Properties *)

\* A client sees changes in the order they were published and none twice,
\* however often it resumes, and each reply of a 2024-11-05 stream once.
InOrderOnce ==
    \A i, j \in DOMAIN got : i < j /\ got[i].from = got[j].from =>
        IF got[i].from = "hub" THEN got[i].id < got[j].id ELSE got[i].id # got[j].id

Seen(where) == {e.id : e \in {f \in Range(got) \cup Range(wire) : f.from = where}}

\* A change the client was promised (published after its stream said it listens
\* or past the id it resumes from, to a list or a resource it has been
\* subscribed to since) was written or is still ahead of the stream, and so is
\* the answer to every message that was accepted while the stream is open.
NothingMissed ==
    /\ pc \in Open \/ (kind = "get" /\ last # 0) =>
        \A i \in due : \/ i \in Seen("hub") \cup Range(batch)
                       \/ i > IF pc \in Open THEN cursor ELSE last
    /\ pc \in Open => \A p \in Message : posts[p] = "accepted" =>
        p \in Seen("outbox") \/ p \in Range(SubSeq(outbox, o_cursor + 1, Len(outbox)))

\* An open stream delivers: a promised change and the answer to an accepted
\* message arrive unless the connection breaks or the subscription ends first,
\* and a 2024-11-05 stream whose session lapsed ends at the next change.
StreamsDeliver ==
    /\ \A i \in 1..MaxEvents :
        pc \in Open /\ i \in due ~> pc \notin Open \/ i \notin due \/ i \in Seen("hub")
    /\ \A p \in Message : posts[p] = "accepted" ~> pc \notin Open \/ p \in Seen("outbox")
    /\ kind = "sse" /\ session = "gone" /\ cursor < Len(log) ~> pc = "done"
=============================================================================
