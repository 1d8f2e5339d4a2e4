---------------------------- MODULE StdioChannel ----------------------------
(***************************************************************************)
(* `serve_stdio` of server/stdio.py with a `StdioClient` (client/stdio.py  *)
(* over `BaseClient.request_method`) at the other end of two pipes.  The   *)
(* server's loop reads a line at a time.  A request whose handler may ask  *)
(* runs as a task in `active`; any other runs in the loop, which reads no  *)
(* further until it is done.  The client waits for one call at a time and  *)
(* handles whatever else it reads on the way: questions, and replies to    *)
(* calls it gave up.                                                       *)
(*                                                                         *)
(* An exception out of dispatcher.run, encode or the write is nobody's     *)
(* reply: a task logs it, and the loop, for a request of its own, ends by  *)
(* it.  A handler started over after its answer may raise one              *)
(* (dispatcher.py:153), and so may a store or a result no JSON can say.    *)
(*                                                                         *)
(* Abstractions: a handler asks at most once; a frame is its kind and its  *)
(* id, and a question has the id of the call that asked it.  Ids that are  *)
(* in flight twice come from clients other than this one (`Tell`).         *)
(***************************************************************************)
EXTENDS Naturals, Sequences

CONSTANTS MaxCalls      \* bound on calls

VARIABLES
    mode,       \* "push": questions are pushed; "retry": MRTR; "plain": nothing can be asked
    c2s, s2c,   \* the pipes: Seq([kind, id])
    waiting,    \* the call the client waits for, 0 for none
    calls,      \* next_id_counter
    given_up,   \* calls whose task was cancelled
    active,     \* [id -> "idle", "running", "asking", "answered" or "resumed"]
    stopped,    \* ids of active exchanges with `cancelled` set
    inline,     \* the request the loop is waiting for itself, 0 for none
    raised,     \* (history) ids of tasks that raised
    eof         \* "open", "sent", "seen" or "broken": the loop ended by an exception

vars == <<mode, c2s, s2c, waiting, calls, given_up, active, stopped, inline, raised, eof>>
client == <<waiting, calls, given_up>>

Id == 1..MaxCalls
Frame(kind, id) == [kind |-> kind, id |-> id]

Init ==
    /\ mode \in {"push", "retry", "plain"}
    /\ c2s = <<>> /\ s2c = <<>>
    /\ waiting = 0 /\ calls = 0 /\ given_up = {}
    /\ active = [i \in Id |-> "idle"] /\ stopped = {} /\ inline = 0
    /\ raised = {} /\ eof = "open"

-----------------------------------------------------------------------------
(* The client *)

Write(kind, id) == c2s' = Append(c2s, Frame(kind, id))

request_method ==
    /\ waiting = 0 /\ calls < MaxCalls /\ eof \in {"open", "broken"}
    /\ calls' = calls + 1
    /\ waiting' = calls + 1
    /\ Write("request", calls + 1)
    /\ UNCHANGED <<mode, s2c, given_up, active, stopped, inline, raised, eof>>

answers(f) == f.kind \in {"reply", "error"} /\ f.id = waiting

\* incoming: a notification is handed on, a question is answered, and anything
\* else that carries an id is answered "unsupported".
incoming(f) ==
    CASE f.kind = "note" -> UNCHANGED c2s
      [] f.kind = "ask" -> Write("answer", f.id)
      [] OTHER -> Write("unsupported", f.id)

Read ==
    /\ waiting # 0 /\ s2c # <<>>
    /\ s2c' = Tail(s2c)
    /\ IF answers(Head(s2c)) THEN waiting' = 0 /\ UNCHANGED c2s
       ELSE incoming(Head(s2c)) /\ UNCHANGED waiting
    /\ UNCHANGED <<mode, calls, given_up, active, stopped, inline, raised, eof>>

ServerIsGone == eof \in {"seen", "broken"} /\ \A i \in Id : active[i] = "idle"

\* readline returns nothing: a ClientError ends the call.
ReadEof ==
    /\ waiting # 0 /\ s2c = <<>> /\ ServerIsGone
    /\ waiting' = 0
    /\ UNCHANGED <<mode, c2s, s2c, calls, given_up, active, stopped, inline, raised, eof>>

\* The task of a call is cancelled, a timeout of the application for one.
GiveUp ==
    /\ waiting # 0
    /\ waiting' = 0 /\ given_up' = given_up \cup {waiting}
    /\ UNCHANGED <<mode, c2s, s2c, calls, active, stopped, inline, raised, eof>>

\* notifications/cancelled for a call that was given up, or a request sent again.
Tell(kind, i) ==
    /\ i \in given_up /\ eof = "open"
    /\ given_up' = given_up \ {i}
    /\ Write(kind, i)
    /\ UNCHANGED <<mode, s2c, waiting, calls, active, stopped, inline, raised, eof>>

Close ==
    /\ eof = "open" /\ waiting = 0
    /\ eof' = "sent"
    /\ UNCHANGED <<mode, c2s, s2c, client, active, stopped, inline, raised>>

-----------------------------------------------------------------------------
(* The server's loop *)

InProgress == {i \in Id : active[i] # "idle"}

send(kind, id) == s2c' = Append(s2c, Frame(kind, id))

\* (Mutant) Every request runs in the loop.
AlwaysInline == TRUE

\* `not selected.can_ask and not ex.can_ask`
RunsInline == mode = "plain"

Request(i) ==
    /\ IF active[i] # "idle"
       THEN send("error", i) /\ UNCHANGED <<active, inline>>
       ELSE /\ active' = [active EXCEPT ![i] = "running"]
            /\ inline' = IF RunsInline THEN i ELSE 0
            /\ UNCHANGED s2c
    /\ UNCHANGED stopped

\* is_reply: an answer with the string id of a question goes to the hub, where
\* the handler waits for it, or nobody does.
Relay(i) ==
    /\ active' = IF active[i] = "asking" THEN [active EXCEPT ![i] = "answered"] ELSE active
    /\ UNCHANGED <<s2c, stopped, inline>>

Cancelled(i) ==
    /\ stopped' = IF active[i] = "idle" THEN stopped ELSE stopped \cup {i}
    /\ UNCHANGED <<s2c, active, inline>>

\* A message without a method, whose id is no string, is a malformed request.
Malformed(i) == send("error", i) /\ UNCHANGED <<active, stopped, inline>>

serve_stdio ==
    /\ inline = 0 /\ eof \in {"open", "sent"} /\ c2s # <<>>
    /\ c2s' = Tail(c2s)
    /\ LET i == Head(c2s).id IN
       CASE Head(c2s).kind = "request" -> Request(i)
         [] Head(c2s).kind = "answer" -> Relay(i)
         [] Head(c2s).kind = "cancelled" -> Cancelled(i)
         [] Head(c2s).kind = "unsupported" -> Malformed(i)
    /\ UNCHANGED <<mode, client, raised, eof>>

\* EOF: every exchange is cancelled, and the loop ends when their tasks have.
AtEof ==
    /\ eof = "sent" /\ inline = 0 /\ c2s = <<>>
    /\ eof' = "seen"
    /\ stopped' = InProgress
    /\ UNCHANGED <<mode, c2s, s2c, client, active, inline, raised>>

-----------------------------------------------------------------------------
(* execute: the task of one request *)

\* ex.emit: nothing is written once the exchange is cancelled.
emit(kind, i) == IF i \in stopped THEN UNCHANGED s2c ELSE send(kind, i)

AskUser(i) ==
    /\ mode = "push" /\ active[i] = "running"
    /\ emit("ask", i)
    /\ active' = [active EXCEPT ![i] = "asking"]
    /\ UNCHANGED <<mode, c2s, client, stopped, inline, raised, eof>>

\* The deadline of the question passes.
AskEnds(i) ==
    /\ active[i] = "asking"
    /\ active' = [active EXCEPT ![i] = "answered"]
    /\ UNCHANGED <<mode, c2s, s2c, client, stopped, inline, raised, eof>>

\* The handler returned, or its cancellation cut it short.
Replies(i) ==
    /\ emit("reply", i)
    /\ stopped' = stopped \ {i}
    /\ inline' = IF inline = i THEN 0 ELSE inline
    /\ UNCHANGED <<raised, eof>>

\* `log.exception`: nothing is sent.
Raises(i) ==
    /\ inline # i
    /\ raised' = raised \cup {i}
    /\ stopped' = stopped \ {i}
    /\ UNCHANGED <<s2c, inline, eof>>

\* Nobody catches what a request the loop runs raises: the rest is cancelled.
BreaksLoop(i) ==
    /\ inline = i
    /\ inline' = 0
    /\ stopped' = InProgress \ {i}
    /\ eof' = IF eof = "sent" THEN "seen" ELSE "broken"
    /\ UNCHANGED <<s2c, raised>>

\* However the run ends, its id is free.
execute(i) ==
    /\ \/ active[i] \in {"running", "answered"}
       \/ active[i] = "asking" /\ i \in stopped
    /\ active' = [active EXCEPT ![i] = "idle"]
    /\ Replies(i) \/ Raises(i) \/ BreaksLoop(i)
    /\ UNCHANGED <<mode, c2s, client>>

Server == serve_stdio \/ AtEof

Next ==
    \/ request_method \/ Read \/ ReadEof \/ GiveUp \/ Close
    \/ \E i \in Id : Tell("cancelled", i) \/ Tell("request", i) \/ AskUser(i) \/ AskEnds(i) \/ execute(i)
    \/ Server

\* The loop goes on reading, handlers that do not wait return or raise, and a
\* client that waits goes on reading.  Nothing here relies on a question's deadline.
Fairness == WF_vars(Server) /\ WF_vars(Read \/ ReadEof) /\ \A i \in Id : WF_vars(execute(i))

Spec == Init /\ [][Next]_vars /\ Fairness

-----------------------------------------------------------------------------
(* Properties *)

\* A call the client waits for ends, with its reply or with an error at EOF,
\* whatever its handler asks and whatever earlier calls left in the pipes: the
\* loop never waits for a handler that waits for the loop.  Only a call whose
\* own task raised is waited for in vain: the code sends nothing for it.  After
\* the loop ended nothing goes on running.
EveryCallEnds ==
    /\ \A i \in Id : waiting = i ~> waiting # i \/ i \in raised
    /\ eof \in {"seen", "broken"} ~> \A i \in Id : active[i] = "idle"

On(pipe, f) == \E n \in DOMAIN pipe : pipe[n] = f

\* What EveryCallEnds rests on: the call a client waits for is lost by nothing
\* but an exception out of its own task.  Its request, its question or the
\* answer to that is in a pipe, or its handler can go on and will be heard, or
\* its reply is in the pipe, or the loop has ended and the client will read
\* EOF.  And the loop waits for none but a handler that waits for nothing.
CallsAreOnTheirWay ==
    /\ waiting # 0 =>
        \/ On(c2s, Frame("request", waiting))
        \/ waiting \notin stopped /\ active[waiting] \in {"running", "answered"}
        \/ /\ waiting \notin stopped /\ active[waiting] = "asking"
           /\ On(s2c, Frame("ask", waiting)) \/ On(c2s, Frame("answer", waiting))
        \/ On(s2c, Frame("reply", waiting)) \/ On(s2c, Frame("error", waiting))
        \/ waiting \in raised
        \/ eof = "broken"
    /\ inline # 0 => active[inline] = "running"

\* "Answer a request the server made. Carries no reply of its own."
RepliesCarryNoReply ==
    [][c2s # <<>> /\ Head(c2s).kind \in {"answer", "unsupported"} /\ c2s' = Tail(c2s)
        => s2c' = s2c]_vars
=============================================================================
