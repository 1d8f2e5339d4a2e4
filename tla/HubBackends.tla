---------------------------- MODULE HubBackends ----------------------------
(***************************************************************************)
(* The hubs whose publish is one step: `MemoryHub` of storage/hub.py, a    *)
(* dict of lists under one Condition; `SqliteHub`, an INSERT into a table  *)
(* whose ids are AUTOINCREMENT; and `RedisHub`, a stream per topic whose   *)
(* ids are the server's clock.  `Subscription`, which keeps a reader's     *)
(* place over any of them, is here too.                                    *)
(*                                                                         *)
(* Abstractions: one number stands for an event and its id; a Redis id     *)
(* "ms-seq" is ms * Scale + seq.  A poll that finds nothing changes        *)
(* nothing, so waiting is left out.  The shared topic is resumed and never *)
(* deleted; the others are deleted by their reader (push_ask and the       *)
(* 2024-11-05 stream), who leaves, and nobody resumes them.                *)
(***************************************************************************)
EXTENDS Naturals, Sequences, FiniteSetsExt, Ordered

CONSTANTS
    Topic, Reader, Nowhere,
    Shared,         \* the topics that are never deleted: NOTIFICATIONS
    Keep,           \* the `keep` of MemoryHub and RedisHub
    MaxPublish,     \* bound on publishes to a topic
    Horizon         \* bound on the Redis clock, in milliseconds

VARIABLES
    backend,    \* "memory", "sqlite" or "redis"
    clock,      \* Redis: TIME in milliseconds
    last_id,    \* MemoryHub.last_id, the AUTOINCREMENT sequence of SQLite
    top,        \* Redis: [Topic -> last-generated-id of its stream, 0 without a key]
    expiring,   \* Redis: [Topic -> whether EXPIRE was reached since the key was made]
    published,  \* [Topic -> Seq(id)], everything ever published
    first,      \* [Topic -> index of the first event still there]
    cursor, following, pending, got     \* Subscription, by reader

vars == <<backend, clock, last_id, top, expiring, published, first, cursor, following, pending, got>>
reading == <<cursor, following, pending, got>>

Scale == MaxPublish + 1

\* Bound on the ids.
Id == 1..(Horizon + 1) * Scale + MaxPublish

Init ==
    /\ backend \in {"memory", "sqlite", "redis"}
    /\ clock = 1 /\ last_id = 0
    /\ top = [t \in Topic |-> 0] /\ expiring = [t \in Topic |-> FALSE]
    /\ published = [t \in Topic |-> <<>>]
    /\ first = [t \in Topic |-> 1]
    /\ cursor = [r \in Reader |-> Nowhere] /\ following = [r \in Reader |-> Nowhere]
    /\ pending = [r \in Reader |-> <<>>] /\ got = [r \in Reader |-> <<>>]

Rows(t) == first[t]..Len(published[t])
Present(t) == {published[t][i] : i \in Rows(t)}

-----------------------------------------------------------------------------
(* publish *)

\* (Mutant) INTEGER PRIMARY KEY without AUTOINCREMENT: one more than the largest.
RowId(t) == Max({0} \cup UNION {Present(u) : u \in Topic}) + 1

\* AUTOINCREMENT never uses an id again, whatever was deleted.
Autoincrement(t) == last_id + 1

\* XADD: the clock, or the stream's last id and one where that is not later.
XaddId(t) == IF top[t] >= clock * Scale THEN top[t] + 1 ELSE clock * Scale

NewId(t) == CASE backend = "memory" -> last_id + 1
              [] backend = "sqlite" -> Autoincrement(t)
              [] backend = "redis" -> XaddId(t)

\* `del rows[: -keep]` leaves exactly keep; MAXLEN ~ at least keep.
Trimmed(t) ==
    LET exact == Max({first[t], Len(published[t]) + 2 - Keep})
    IN  CASE backend = "memory" -> {exact}
          [] backend = "sqlite" -> {first[t]}
          [] backend = "redis" -> first[t]..exact

\* Redis: EXPIRE is a command of its own, which a crash may leave out.
publish(t) ==
    /\ Len(published[t]) < MaxPublish /\ NewId(t) \in Id
    /\ published' = [published EXCEPT ![t] = Append(@, NewId(t))]
    /\ first' \in {[first EXCEPT ![t] = i] : i \in Trimmed(t)}
    /\ IF backend = "redis"
       THEN /\ top' = [top EXCEPT ![t] = NewId(t)]
            /\ \E reached \in BOOLEAN : expiring' = [expiring EXCEPT ![t] = @ \/ reached]
            /\ UNCHANGED last_id
       ELSE last_id' = NewId(t) /\ UNCHANGED <<top, expiring>>
    /\ UNCHANGED <<backend, clock, reading>>

-----------------------------------------------------------------------------
(* Subscription, position, poll *)

position(t) == Max({0} \cup Present(t))

After(t, c) == At(published[t], {i \in Rows(t) : published[t][i] > c})

Last(s) == s[Len(s)]

\* Hub.subscribe without `after`.
subscribe(r, t) ==
    /\ cursor' = [cursor EXCEPT ![r] = position(t)]
    /\ following' = [following EXCEPT ![r] = t]
    /\ pending' = [pending EXCEPT ![r] = <<>>] /\ got' = [got EXCEPT ![r] = <<>>]
    /\ UNCHANGED <<backend, clock, last_id, top, expiring, published, first>>

\* Hub.subscribe after an id: what the first look finds is kept for the first poll.
resume(r, t, c) ==
    /\ t \in Shared
    /\ cursor' = [cursor EXCEPT ![r] = c]
    /\ following' = [following EXCEPT ![r] = t]
    /\ pending' = [pending EXCEPT ![r] = After(t, c)] /\ got' = [got EXCEPT ![r] = <<>>]
    /\ UNCHANGED <<backend, clock, last_id, top, expiring, published, first>>

\* Subscription.poll
poll(r) ==
    /\ following[r] # Nowhere
    /\ LET events == IF pending[r] # <<>> THEN pending[r] ELSE After(following[r], cursor[r]) IN
       /\ events # <<>>
       /\ got' = [got EXCEPT ![r] = @ \o events]
       /\ cursor' = [cursor EXCEPT ![r] = Last(events)]
    /\ pending' = [pending EXCEPT ![r] = <<>>]
    /\ UNCHANGED <<backend, clock, last_id, top, expiring, published, first, following>>

-----------------------------------------------------------------------------
(* delete, age *)

Emptied(t) == first' = [first EXCEPT ![t] = Len(published[t]) + 1]

delete(t) ==
    /\ t \notin Shared
    /\ Emptied(t)
    /\ top' = [top EXCEPT ![t] = 0] /\ expiring' = [expiring EXCEPT ![t] = FALSE]
    /\ following' = [r \in Reader |-> IF following[r] = t THEN Nowhere ELSE following[r]]
    /\ cursor' = [r \in Reader |-> IF following[r] = t THEN Nowhere ELSE cursor[r]]
    /\ UNCHANGED <<backend, clock, last_id, published, pending, got>>

\* SqliteStorage.sweep: the oldest rows of every topic.
sweep ==
    /\ backend = "sqlite"
    /\ \E age \in 1..last_id :
        first' = [t \in Topic |-> Max({first[t]} \cup {i + 1 : i \in {j \in Rows(t) : published[t][j] <= age}})]
    /\ UNCHANGED <<backend, clock, last_id, top, expiring, published, reading>>

\* Redis drops a stream as a whole, its TTL after the last EXPIRE.
Lapse(t) ==
    /\ backend = "redis" /\ expiring[t] /\ top[t] < clock * Scale
    /\ Emptied(t)
    /\ top' = [top EXCEPT ![t] = 0] /\ expiring' = [expiring EXCEPT ![t] = FALSE]
    /\ UNCHANGED <<backend, clock, last_id, published, reading>>

Tick ==
    /\ backend = "redis" /\ clock < Horizon
    /\ clock' = clock + 1
    /\ UNCHANGED <<backend, last_id, top, expiring, published, first, reading>>

Next ==
    \/ \E t \in Topic : publish(t) \/ delete(t) \/ Lapse(t)
    \/ \E r \in Reader : poll(r) \/ \E t \in Topic :
        subscribe(r, t) \/ \E i \in 1..Len(published[t]) : resume(r, t, published[t][i])
    \/ sweep \/ Tick

Spec == Init /\ [][Next]_vars

-----------------------------------------------------------------------------
(* Properties *)

IndexOf(t, c) == Max({0} \cup {i \in 1..Len(published[t]) : published[t][i] <= c})
Place(r) == IndexOf(following[r], IF pending[r] # <<>> THEN Last(pending[r]) ELSE cursor[r])

Log == INSTANCE TopicLog WITH
    Message <- Id,
    log <- published,
    kept <- [t \in Topic |-> Rows(t)],
    place <- [r \in Reader |-> IF following[r] = Nowhere THEN Nowhere ELSE Place(r)],
    got <- [r \in Reader |-> got[r] \o pending[r]]

\* Each of the three is a log: an id is never used again behind a reader, even
\* when rows are trimmed, swept, expired or deleted and their topic starts
\* afresh; and what a resumed reader was promised at its first look reaches it.
ImplementsTopicLog == Log!Spec
=============================================================================
