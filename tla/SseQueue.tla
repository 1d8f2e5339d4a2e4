------------------------------ MODULE SseQueue ------------------------------
(***************************************************************************)
(* `SSEResponse` of transport/sse.py: tasks push events on a bounded       *)
(* asyncio queue, one task writes them to the client.  A push waits where  *)
(* the queue is full; the writer takes everything queued at once and, when *)
(* a write fails or the sentinel came by, empties the queue so that those  *)
(* who wait get in and out; close() queues the sentinel (End, None in the  *)
(* code) and waits for the writer.                                         *)
(*                                                                         *)
(* A putter that is woken has no slot yet: it looks again when it runs,    *)
(* and another task may have put first (asyncio.Queue.put).  Tasks may be  *)
(* cancelled while they wait.  A heartbeat is a batch without events.      *)
(*                                                                         *)
(* Abstractions: framing and compression are left out; a batch reaches the *)
(* client whole or the write fails; close() is called once.                *)
(***************************************************************************)
EXTENDS Naturals, Sequences, FiniteSets, SequencesExt

CONSTANTS
    Pusher,         \* tasks that push
    Closer,         \* the task that closes the stream
    MaxQueue,       \* max_queue
    MaxPushes,      \* bound: pushes per task
    End             \* the sentinel

Task == Pusher \cup {Closer}
Event == Pusher \X (1..MaxPushes)
Item == Event \cup {End}

VARIABLES
    queue,      \* self.queue
    putters,    \* Seq(Task): who waits for a slot, the queue's _putters
    open,       \* self.writer is not None
    writer,     \* "reading", "draining", "writing" or "done"
    batch,      \* what the writer took and has not written
    pc,         \* [Task -> where it stands]
    pushed,     \* [Pusher -> pushes begun]
    wire,       \* events the client was sent
    failed,     \* a write raised Gone
    owed        \* events queued when close was called

vars == <<queue, putters, open, writer, batch, pc, pushed, wire, failed, owed>>

Init ==
    /\ queue = <<>>
    /\ putters = <<>>
    /\ open = TRUE
    /\ writer = "reading"
    /\ batch = <<>>
    /\ pc = [t \in Task |-> "ready"]
    /\ pushed = [p \in Pusher |-> 0]
    /\ wire = <<>>
    /\ failed = FALSE
    /\ owed = {}

closed == ~open \/ writer = "done"
Full == Len(queue) >= MaxQueue

\* Each get_nowait wakes the putter that waits longest.
Wake(n) ==
    LET k == IF n < Len(putters) THEN n ELSE Len(putters)
        woken == {putters[i] : i \in 1..k}
    IN  /\ putters' = SubSeq(putters, k + 1, Len(putters))
        /\ pc' = [t \in Task |-> IF t \in woken THEN "woken" ELSE pc[t]]

\* s without its one occurrence of x.
Without(s, x) == IF x \in Range(s) THEN RemoveAt(s, CHOOSE i \in DOMAIN s : s[i] = x) ELSE s

-----------------------------------------------------------------------------
(* push and close: queue.put *)

\* What t puts, and where it stands once that is queued.
ToPut(t) == IF t = Closer THEN End ELSE <<t, pushed[t]>>
Queued(t) == IF t = Closer THEN "joining" ELSE "ready"

\* asyncio.Queue.put for a task that gets to run: put, or wait for a slot.
Put(t, item) ==
    IF Full
    THEN /\ putters' = Append(putters, t)
         /\ pc' = [pc EXCEPT ![t] = "waiting"]
         /\ UNCHANGED queue
    ELSE /\ queue' = Append(queue, item)
         /\ pc' = [pc EXCEPT ![t] = Queued(t)]
         /\ UNCHANGED putters

push(p) ==
    /\ pc[p] = "ready"
    /\ pushed[p] < MaxPushes
    /\ pushed' = [pushed EXCEPT ![p] = @ + 1]
    /\ IF closed THEN UNCHANGED <<queue, putters, pc>> ELSE Put(p, <<p, pushed[p] + 1>>)
    /\ UNCHANGED <<open, writer, batch, wire, failed, owed>>

close ==
    /\ pc[Closer] = "ready"
    /\ open
    /\ open' = FALSE
    /\ owed' = Event \cap (Range(queue) \cup Range(batch))
    /\ IF writer = "done"
       THEN /\ pc' = [pc EXCEPT ![Closer] = "returned"]
            /\ UNCHANGED <<queue, putters>>
       ELSE Put(Closer, End)
    /\ UNCHANGED <<writer, batch, pushed, wire, failed>>

\* A woken putter looks again; it does not ask again whether the stream is closed.
Resume(t) ==
    /\ pc[t] = "woken"
    /\ Put(t, ToPut(t))
    /\ UNCHANGED <<open, writer, batch, pushed, wire, failed, owed>>

\* close() awaits the writer.
Joined ==
    /\ pc[Closer] = "joining"
    /\ writer = "done"
    /\ pc' = [pc EXCEPT ![Closer] = "returned"]
    /\ UNCHANGED <<queue, putters, open, writer, batch, pushed, wire, failed, owed>>

\* A waiting task is cancelled.  One that was woken passes its turn on.
Cancel(t) ==
    /\ pc[t] \in {"waiting", "woken"}
    /\ LET passesOn == pc[t] = "woken" /\ ~Full /\ putters # <<>> IN
       /\ pc' = [u \in Task |-> IF u = t THEN "cancelled"
                                ELSE IF passesOn /\ u = Head(putters) THEN "woken" ELSE pc[u]]
       /\ putters' = IF passesOn THEN Tail(putters) ELSE Without(putters, t)
    /\ UNCHANGED <<queue, open, writer, batch, pushed, wire, failed, owed>>

-----------------------------------------------------------------------------
(* _deliver *)

\* take(): the first event.
Take ==
    /\ writer = "reading"
    /\ queue # <<>>
    /\ batch' = <<Head(queue)>>
    /\ queue' = Tail(queue)
    /\ Wake(1)
    /\ writer' = "draining"
    /\ UNCHANGED <<open, pushed, wire, failed, owed>>

\* heartbeat seconds of silence: a ping instead.
TimedOut ==
    /\ writer = "reading"
    /\ queue = <<>>
    /\ writer' = "draining"
    /\ UNCHANGED <<queue, putters, open, batch, pc, pushed, wire, failed, owed>>

\* (Mutant) The first event goes behind the rest.
DrainInFront ==
    /\ writer = "draining"
    /\ batch' = queue \o batch
    /\ queue' = <<>>
    /\ Wake(Len(queue))
    /\ writer' = "writing"
    /\ UNCHANGED <<open, pushed, wire, failed, owed>>

\* while not queue.empty(): batch.append(queue.get_nowait())
Drain ==
    /\ writer = "draining"
    /\ batch' = batch \o queue
    /\ queue' = <<>>
    /\ Wake(Len(queue))
    /\ writer' = "writing"
    /\ UNCHANGED <<open, pushed, wire, failed, owed>>

\* The finally of _deliver.
Finish ==
    /\ writer' = "done"
    /\ queue' = <<>>
    /\ Wake(Len(queue))

\* `if e` of the join: the sentinel is queued once and writes nothing.
Unended(s) == Without(s, End)

\* (Mutant) The sentinel ends the writer before its batch is written.
EmitUnlessEnding ==
    /\ writer = "writing"
    /\ wire' = IF End \in Range(batch) THEN wire ELSE wire \o Unended(batch)
    /\ batch' = <<>>
    /\ IF End \in Range(batch)
       THEN Finish
       ELSE writer' = "reading" /\ UNCHANGED <<queue, putters, pc>>
    /\ UNCHANGED <<open, pushed, failed, owed>>

Emit ==
    /\ writer = "writing"
    /\ wire' = wire \o Unended(batch)
    /\ batch' = <<>>
    /\ IF End \in Range(batch)
       THEN Finish
       ELSE writer' = "reading" /\ UNCHANGED <<queue, putters, pc>>
    /\ UNCHANGED <<open, pushed, failed, owed>>

Gone ==
    /\ writer = "writing"
    /\ failed' = TRUE
    /\ batch' = <<>>
    /\ Finish
    /\ UNCHANGED <<open, pushed, wire, owed>>

_deliver == Take \/ TimedOut \/ Drain \/ Emit \/ Gone

Next ==
    \/ close \/ Joined \/ _deliver
    \/ \E p \in Pusher : push(p)
    \/ \E t \in Task : Resume(t) \/ Cancel(t)

Spec == Init /\ [][Next]_vars

\* The event loop runs what is ready, and the client reads or its connection
\* is lost, so that every write ends.
Fairness ==
    /\ WF_vars(Take) /\ WF_vars(Drain) /\ WF_vars(Emit \/ Gone) /\ WF_vars(Joined)
    /\ \A t \in Task : WF_vars(Resume(t))

FairSpec == Spec /\ Fairness

-----------------------------------------------------------------------------
(* Properties *)

TypeOK ==
    /\ queue \in Seq(Item) /\ Len(queue) <= MaxQueue
    /\ putters \in Seq(Task)
    /\ open \in BOOLEAN
    /\ writer \in {"reading", "draining", "writing", "done"}
    /\ batch \in Seq(Item)
    /\ pc \in [Task -> {"ready", "waiting", "woken", "joining", "returned", "cancelled"}]
    /\ pushed \in [Pusher -> 0..MaxPushes]
    /\ wire \in Seq(Event)
    /\ failed \in BOOLEAN
    /\ owed \subseteq Event

\* The event its task pushed just before e.
Predecessor(e) == <<e[1], e[2] - 1>>

\* A client sees each task's events in the order they were pushed, none twice
\* and none missing before the last one it sees, however often putters were
\* overtaken, cancelled or cut off by a close: each event comes once, and after
\* its predecessor.
WireInOrder ==
    \A i \in 1..Len(wire) :
        LET before == {wire[j] : j \in 1..(i - 1)} IN
        /\ wire[i] \notin before
        /\ wire[i][2] > 1 => Predecessor(wire[i]) \in before

\* "Write what is queued, then stop": when close() returns and the client did
\* not go away, everything that was queued when it was called has been sent.
CloseFlushes == pc[Closer] = "returned" /\ ~failed => owed \subseteq Range(wire)

\* No task is left waiting for a slot and no close for the writer, whether the
\* client reads, goes away or the stream ends, as long as there are no more
\* tasks than slots (one handler and 1024 slots).
FewerTasksThanSlots == Cardinality(Task) <= MaxQueue

\* No turn is lost: whoever waits for a slot is in line, and as many items are
\* queued or tasks woken as there are slots, so that taking them reaches the
\* one who waits.  Nobody waits when the writer is done, as long as there are
\* no more tasks than slots, and a close that waits has its sentinel ahead.
TurnsAreKept ==
    /\ \A t \in Task : pc[t] = "waiting" =>
        /\ t \in Range(putters)
        /\ Len(queue) + Cardinality({u \in Task : pc[u] = "woken"}) >= MaxQueue
        /\ FewerTasksThanSlots => writer # "done"
    /\ pc[Closer] = "joining" /\ writer # "done" => End \in Range(batch) \cup Range(queue)

NobodyIsStuck == FewerTasksThanSlots =>
    \A t \in Task :
        pc[t] \in {"waiting", "woken", "joining"} ~> pc[t] \in {"ready", "returned", "cancelled"}
=============================================================================
