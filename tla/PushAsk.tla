------------------------------ MODULE PushAsk ------------------------------
(***************************************************************************)
(* A question put to the client while its handler waits:                   *)
(* Exchange.push_ask of server/exchange.py.  The asker subscribes to a     *)
(* topic named by the question's fresh id, sends the question on the       *)
(* call's stream, and polls the hub until an answer, the deadline or a     *)
(* cancellation; then it deletes the topic.  The client posts its answer   *)
(* to any worker, which publishes it on the topic without asking whether   *)
(* anybody waits (relay_reply): a POST may be repeated, delayed past       *)
(* another, lost, or arrive when the asker has left.                       *)
(*                                                                         *)
(* Abstractions: an answer is the case answer_of makes of it; the hub      *)
(* keeps an event longer than a poll takes.                                *)
(***************************************************************************)
EXTENDS Naturals, Sequences, FiniteSets, FiniteSetsExt

CONSTANTS
    Ask,            \* questions, by wire id
    Reply,          \* kinds of answers the client gives, a subset of AnyReply
    MaxReplies,     \* bound: answers posted per question
    None

\* "other": an action the protocol does not know.  "bare": content without an
\* action.  "error": a JSON-RPC error.  "scalar": a result that is no object.
AnyReply == {"accept", "decline", "cancel", "other", "bare", "error", "scalar"}

ASSUME PushAskConstants ==
    /\ Reply \subseteq AnyReply
    /\ MaxReplies \in Nat
    /\ None \notin AnyReply

VARIABLES
    pc,         \* [Ask -> "subscribe", "emit", "loop", "poll", "leave", "done" or "aborted"]
    cursor,     \* [Ask -> id of the last event its subscription read]
    asked,      \* questions that went out on the stream
    cancelled,  \* [Ask -> BOOLEAN]: the exchange's cancelled event
    overdue,    \* [Ask -> BOOLEAN]: ask_timeout_seconds have passed
    result,     \* [Ask -> what push_ask returns, "gave up" for its own CANCEL]
    rows,       \* [Ask -> set of [id, reply]]: the topic's events in the hub
    published,  \* [Ask -> events ever published on the topic]
    posted,     \* [Ask -> answers the client sent]
    inflight,   \* POSTs on their way: [ask, n, reply]
    first,      \* [Ask -> the first published answer that is an object]
    late        \* [Ask -> events published after the ask ended]

vars == <<pc, cursor, asked, cancelled, overdue, result, rows, published, posted,
          inflight, first, late>>
asker == <<pc, cursor, asked, cancelled, overdue, result>>
client == <<posted, inflight>>
hub == <<rows, published, first, late>>

Init ==
    /\ pc = [a \in Ask |-> "subscribe"]
    /\ cursor = [a \in Ask |-> 0]
    /\ asked = {}
    /\ cancelled = [a \in Ask |-> FALSE]
    /\ overdue = [a \in Ask |-> FALSE]
    /\ result = [a \in Ask |-> "none"]
    /\ rows = [a \in Ask |-> {}]
    /\ published = [a \in Ask |-> 0]
    /\ posted = [a \in Ask |-> 0]
    /\ inflight = {}
    /\ first = [a \in Ask |-> None]
    /\ late = [a \in Ask |-> 0]

\* core.answer_of: no action is an agreement, an unknown one a refusal.
answer_of(reply) ==
    CASE reply \in {"accept", "decline", "cancel"} -> reply
      [] reply = "other" -> "decline"
      [] reply \in {"bare", "error"} -> "accept"

Goto(a, where) == pc' = [pc EXCEPT ![a] = where]

-----------------------------------------------------------------------------
(* push_ask *)

\* hub.subscribe: after now.
Subscribe(a) ==
    /\ pc[a] = "subscribe"
    /\ cursor' = [cursor EXCEPT ![a] = Max({row.id : row \in rows[a]} \cup {0})]
    /\ Goto(a, "emit")
    /\ UNCHANGED <<asked, cancelled, overdue, result, client, hub>>

\* emit: nothing is sent on a cancelled exchange.
Emit(a) ==
    /\ pc[a] = "emit"
    /\ asked' = IF cancelled[a] THEN asked ELSE asked \cup {a}
    /\ Goto(a, "loop")
    /\ UNCHANGED <<cursor, cancelled, overdue, result, client, hub>>

Leave(a, what) ==
    /\ result' = [result EXCEPT ![a] = what]
    /\ Goto(a, "leave")

\* (Mutant) Each round reads from a subscription of its own.
LookAfresh(a) ==
    /\ pc[a] = "loop"
    /\ IF cancelled[a] \/ overdue[a]
       THEN Leave(a, "gave up") /\ UNCHANGED cursor
       ELSE /\ Goto(a, "poll")
            /\ cursor' = [cursor EXCEPT ![a] = Max({row.id : row \in rows[a]} \cup {0})]
            /\ UNCHANGED result
    /\ UNCHANGED <<asked, cancelled, overdue, client, hub>>

\* The head of the loop.
Look(a) ==
    /\ pc[a] = "loop"
    /\ IF cancelled[a] \/ overdue[a]
       THEN Leave(a, "gave up")
       ELSE Goto(a, "poll") /\ UNCHANGED result
    /\ UNCHANGED <<cursor, asked, cancelled, overdue, client, hub>>

Unread(a) == {row \in rows[a] : row.id > cursor[a]}
Answers(found) == {row \in found : row.reply # "scalar"}
\* (Mutant) The newest answer of a batch.
Newest(found) == CHOOSE row \in found : \A other \in found : other.id <= row.id

Earliest(found) == CHOOSE row \in found : \A other \in found : row.id <= other.id

\* (Mutant) The answer is returned past the finally.
FoundAndReturned(a) ==
    /\ pc[a] = "poll"
    /\ Unread(a) # {}
    /\ cursor' = [cursor EXCEPT ![a] = Max({row.id : row \in Unread(a)})]
    /\ IF Answers(Unread(a)) # {}
       THEN /\ result' = [result EXCEPT ![a] = answer_of(Earliest(Answers(Unread(a))).reply)]
            /\ Goto(a, "done")
       ELSE Goto(a, "loop") /\ UNCHANGED result
    /\ UNCHANGED <<asked, cancelled, overdue, client, hub>>

Found(a) ==
    /\ pc[a] = "poll"
    /\ Unread(a) # {}
    /\ cursor' = [cursor EXCEPT ![a] = Max({row.id : row \in Unread(a)})]
    /\ IF Answers(Unread(a)) # {}
       THEN Leave(a, answer_of(Earliest(Answers(Unread(a))).reply))
       ELSE Goto(a, "loop") /\ UNCHANGED result
    /\ UNCHANGED <<asked, cancelled, overdue, client, hub>>

\* The poll's own timeout: the shorter of what is left and replies.wait.
FoundNothing(a) ==
    /\ pc[a] = "poll"
    /\ Unread(a) = {}
    /\ Goto(a, "loop")
    /\ UNCHANGED <<cursor, asked, cancelled, overdue, result, client, hub>>

\* finally: hub.delete, then the call goes on, or its CancelledError does.
Delete(a) ==
    /\ pc[a] = "leave"
    /\ rows' = [rows EXCEPT ![a] = {}]
    /\ Goto(a, "done")
    /\ UNCHANGED <<cursor, asked, cancelled, overdue, result, client, published, first, late>>

-----------------------------------------------------------------------------
(* What ends an ask early *)

\* ask_timeout_seconds after the question went out.
Due(a) ==
    /\ pc[a] \in {"loop", "poll"}
    /\ ~overdue[a]
    /\ overdue' = [overdue EXCEPT ![a] = TRUE]
    /\ UNCHANGED <<pc, cursor, asked, cancelled, result, client, hub>>

\* Exchange.cancel: notifications/cancelled, or the client hung up.
Cancel(a) ==
    /\ pc[a] \in {"subscribe", "emit", "loop", "poll", "leave"}
    /\ ~cancelled[a]
    /\ cancelled' = [cancelled EXCEPT ![a] = TRUE]
    /\ UNCHANGED <<pc, cursor, asked, overdue, result, client, hub>>

\* stop(task): CancelledError at an await.  Only in the loop is there a finally,
\* and stop() cancels again a task that is slow to leave it.
Interrupt(a) ==
    /\ \/ pc[a] \in {"subscribe", "emit", "leave"} /\ Goto(a, "aborted") /\ UNCHANGED result
       \/ pc[a] = "poll" /\ Leave(a, "raised")
    /\ UNCHANGED <<cursor, asked, cancelled, overdue, client, hub>>

-----------------------------------------------------------------------------
(* The client, and whichever worker its POST reaches *)

Post(a, reply) ==
    /\ a \in asked
    /\ posted[a] < MaxReplies
    /\ posted' = [posted EXCEPT ![a] = @ + 1]
    /\ inflight' = inflight \cup {[ask |-> a, n |-> posted[a], reply |-> reply]}
    /\ UNCHANGED <<asker, hub>>

Lose(m) ==
    /\ inflight' = inflight \ {m}
    /\ UNCHANGED <<asker, hub, posted>>

relay_reply(m) ==
    /\ inflight' = inflight \ {m}
    /\ published' = [published EXCEPT ![m.ask] = @ + 1]
    /\ rows' = [rows EXCEPT ![m.ask] = @ \cup {[id |-> published[m.ask] + 1, reply |-> m.reply]}]
    /\ first' = [first EXCEPT ![m.ask] =
                    IF @ = None /\ m.reply # "scalar" THEN m.reply ELSE @]
    /\ late' = [late EXCEPT ![m.ask] = IF pc[m.ask] \in {"done", "aborted"} THEN @ + 1 ELSE @]
    /\ UNCHANGED <<asker, posted>>

push_ask(a) ==
    Subscribe(a) \/ Emit(a) \/ Look(a) \/ Found(a) \/ FoundNothing(a) \/ Delete(a)

Next ==
    \/ \E a \in Ask :
        push_ask(a) \/ Due(a) \/ Cancel(a) \/ Interrupt(a) \/ \E reply \in Reply : Post(a, reply)
    \/ \E m \in inflight : relay_reply(m) \/ Lose(m)

Spec == Init /\ [][Next]_vars

\* The event loop runs the asker, and time passes.
FairSpec == Spec /\ \A a \in Ask : WF_vars(push_ask(a)) /\ WF_vars(Due(a))

-----------------------------------------------------------------------------
(* Properties *)

TypeOK ==
    /\ pc \in [Ask -> {"subscribe", "emit", "loop", "poll", "leave", "done", "aborted"}]
    /\ cursor \in [Ask -> Nat]
    /\ asked \subseteq Ask
    /\ cancelled \in [Ask -> BOOLEAN]
    /\ overdue \in [Ask -> BOOLEAN]
    /\ result \in [Ask -> {"none", "accept", "decline", "cancel", "gave up", "raised"}]
    /\ rows \in [Ask -> SUBSET [id : Nat, reply : AnyReply]]
    /\ published \in [Ask -> Nat]
    /\ posted \in [Ask -> 0..MaxReplies]
    /\ inflight \subseteq [ask : Ask, n : 0..MaxReplies, reply : AnyReply]
    /\ first \in [Ask -> AnyReply \cup {None}]
    /\ late \in [Ask -> Nat]

\* "Subscribe before sending so fast replies are not missed": while the asker
\* waits, every answer that reached the hub is still ahead of its cursor.
NoAnswerIsPassedOver ==
    \A a \in Ask : pc[a] \in {"loop", "poll"} =>
        \A row \in Answers(rows[a]) : row.id > cursor[a]

\* An ask that ends with an answer ends with the first one that any worker
\* published, whatever repeats and corrections followed it.
FirstAnswerCounts ==
    \A a \in Ask : result[a] \notin {"none", "gave up", "raised"} =>
        first[a] # None /\ result[a] = answer_of(first[a])

\* The topic outlives its ask only by answers that came after the ask ended,
\* or by an ask that was interrupted a second time before its delete.
TopicEndsWithItsAsk ==
    \A a \in Ask : pc[a] = "done" => Cardinality(rows[a]) <= late[a]

\* Every ask ends: no client and no lost POST keeps a handler for ever.
EveryAskEnds == \A a \in Ask : pc[a] = "subscribe" ~> pc[a] \in {"done", "aborted"}

\* docs/guide/asking.md: "`accepted` is true only for `accept`" (and, in core.py,
\* for "a bare answer", which "carries content and no verdict").
AcceptedOnlyForAccept ==
    \A a \in Ask : result[a] = "accept" => first[a] \in {"accept", "bare"}
=============================================================================
