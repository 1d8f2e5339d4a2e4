---------------------------- MODULE MCCallStream ----------------------------
(* What stands between a handler and its client, in one run: a question    *)
(* and its topic (PushAsk: three answers of every kind, so that a repeat,   *)
(* a correction and a straggler can meet every stage of the ask), the       *)
(* queue of an SSE response (SseQueue: two tasks and the close contend for *)
(* three slots), its bytes (SseFrames: two events, every ending, every     *)
(* cut), and the pipes of a stdio server (StdioChannel: a call after an    *)
(* abandoned one).  `part` is the one that takes the steps.                *)
EXTENDS PushAsk

CONSTANTS Pusher, Closer, MaxQueue, MaxPushes, End, MaxCalls, Events, MaxEvents

VARIABLES part,
    queue, putters, open, writer, batch, q_pc, pushed, wire, failed, owed,
    mode, c2s, s2c, waiting, calls, given_up, active, stopped, inline, raised, eof,
    sent, bytes, buffer, held, start, at_end, last_id, received

\* A task closes or pushes, and the sentinel is no event.
ASSUME QueueConstants ==
    /\ IsFiniteSet(Pusher) /\ Closer \notin Pusher
    /\ MaxQueue \in Nat /\ MaxPushes \in Nat
    /\ End \notin Pusher \X (1..MaxPushes)

ASSUME StdioConstants == MaxCalls \in Nat

\* one_line refuses an event or id with more than one line; a text has one at least.
ASSUME FramesConstants ==
    /\ None \notin STRING /\ None \notin Seq(STRING)
    /\ \A e \in Events :
          /\ DOMAIN e = {"comment", "event", "id", "retry", "data"}
          /\ \A value \in {e.event, e.id, e.retry} : value = None \/ value \in STRING
          /\ \A text \in {e.comment, e.data} : text = None \/ text \in Seq(STRING) \ {<<>>}

Q == INSTANCE SseQueue WITH pc <- q_pc
S == INSTANCE StdioChannel
F == INSTANCE SseFrames WITH wire <- bytes, ended <- at_end

sse == <<queue, putters, open, writer, batch, q_pc, pushed, wire, failed, owed>>
stdio == <<mode, c2s, s2c, waiting, calls, given_up, active, stopped, inline, raised, eof>>
frames == <<sent, bytes, buffer, held, start, at_end, last_id, received>>

Everything == AnyReply

Event(comment, event, id, retry, data) ==
    [comment |-> comment, event |-> event, id |-> id, retry |-> retry, data |-> data]
Written ==
    {Event(None, None, "1", None, <<"a">>), Event(None, "endpoint", None, None, <<"a", "">>),
     Event(<<"ping">>, None, None, None, None), Event(None, None, "2", None, None),
     Event(None, None, None, "3", <<"">>), Event(None, None, None, None, None)}

MCInit ==
    /\ part \in {"ask", "sse", "stdio", "frames"}
    /\ Init /\ Q!Init /\ S!Init /\ F!Init
    /\ part # "stdio" => mode = "push"
    /\ part # "frames" => bytes = <<>>
MCNext ==
    /\ UNCHANGED part
    /\ \/ part = "ask" /\ Next /\ UNCHANGED <<sse, stdio, frames>>
       \/ part = "sse" /\ Q!Next /\ UNCHANGED <<vars, stdio, frames>>
       \/ part = "stdio" /\ S!Next /\ UNCHANGED <<vars, sse, frames>>
       \/ part = "frames" /\ F!Next /\ UNCHANGED <<vars, sse, stdio>>

\* No action the other parts' fairness names is enabled while they rest.
MCSpec ==
    /\ MCInit /\ [][MCNext]_<<part, vars, sse, stdio, frames>>
    /\ \A a \in Ask : WF_vars(part = "ask" /\ push_ask(a)) /\ WF_vars(part = "ask" /\ Due(a))
    /\ Q!Fairness
    /\ S!Fairness

(* What the parts promise. *)
WireIsComplete == Q!WireInOrder /\ Q!CloseFlushes
ChunksDoNotMatter == F!ChunksDoNotMatter

\* A question, a push and a close each come to an end, and so does a call over
\* stdio whose own task did not raise; no more tasks push than there are slots.
NobodyWaitsForever == (part = "ask" => EveryAskEnds) /\ Q!NobodyIsStuck /\ S!EveryCallEnds
=============================================================================
