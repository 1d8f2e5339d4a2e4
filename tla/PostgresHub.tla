----------------------------- MODULE PostgresHub -----------------------------
(***************************************************************************)
(* `PostgresHub` of storage/postgres.py.  A publish is a transaction: take *)
(* the topic's advisory lock, insert (the sequence hands out the id there  *)
(* and then, to whoever asks first), commit.  Readers see committed rows   *)
(* only and remember the highest id they saw, so an id that commits after  *)
(* a higher one of the same topic would be lost on them: the lock is what  *)
(* keeps commits in id order.  Rows go by age, or with their topic.        *)
(***************************************************************************)
EXTENDS Naturals, Sequences, FiniteSetsExt, Ordered

CONSTANTS
    Publisher, Reader, Topic,
    Nowhere,
    MaxId           \* bound: ids the sequence hands out

VARIABLES
    next_id,        \* the BIGSERIAL sequence
    committed,      \* rows ever committed: a set of [id, topic, by]
    readable,       \* ids of the committed rows not yet deleted
    lock,           \* [Topic -> publisher holding pg_advisory_xact_lock, or Nowhere]
    tx,             \* [Publisher -> its open transaction: [step, topic, id]]
    cursor,         \* [Reader -> id, 0 for START, or Nowhere]
    following,      \* [Reader -> topic or Nowhere]
    got             \* [Reader -> Seq(id)]

vars == <<next_id, committed, readable, lock, tx, cursor, following, got>>

Row == [id : 1..MaxId, topic : Topic]
NoTx == [step |-> "none", topic |-> Nowhere, id |-> 0]

Init ==
    /\ next_id = 1
    /\ committed = {}
    /\ readable = {}
    /\ lock = [t \in Topic |-> Nowhere]
    /\ tx = [p \in Publisher |-> NoTx]
    /\ cursor = [r \in Reader |-> Nowhere]
    /\ following = [r \in Reader |-> Nowhere]
    /\ got = [r \in Reader |-> <<>>]

-----------------------------------------------------------------------------
(* publish(topic, message) *)

Begin(p, t) ==
    /\ tx[p] = NoTx
    /\ tx' = [tx EXCEPT ![p] = [step |-> "lock", topic |-> t, id |-> 0]]
    /\ UNCHANGED <<next_id, committed, readable, lock, cursor, following, got>>

\* (Mutant) Publishers of one topic do not wait for each other.
TakeNoLock(p) ==
    /\ tx[p].step = "lock"
    /\ tx' = [tx EXCEPT ![p].step = "insert"]
    /\ UNCHANGED <<next_id, committed, readable, lock, cursor, following, got>>

\* SELECT pg_advisory_xact_lock(hashtext(topic)): waits while another holds it.
TakeLock(p) ==
    /\ tx[p].step = "lock"
    /\ lock[tx[p].topic] = Nowhere
    /\ lock' = [lock EXCEPT ![tx[p].topic] = p]
    /\ tx' = [tx EXCEPT ![p].step = "insert"]
    /\ UNCHANGED <<next_id, committed, readable, cursor, following, got>>

\* INSERT ... RETURNING id: the id is taken, the row not yet visible.
Insert(p) ==
    /\ tx[p].step = "insert"
    /\ next_id <= MaxId
    /\ next_id' = next_id + 1
    /\ tx' = [tx EXCEPT ![p].step = "commit", ![p].id = next_id]
    /\ UNCHANGED <<committed, readable, lock, cursor, following, got>>

\* The end of the transaction gives its locks back.
End(p) ==
    /\ tx' = [tx EXCEPT ![p] = NoTx]
    /\ lock' = [t \in Topic |-> IF lock[t] = p THEN Nowhere ELSE lock[t]]

Commit(p) ==
    /\ tx[p].step = "commit"
    /\ committed' = committed \cup {[id |-> tx[p].id, topic |-> tx[p].topic]}
    /\ readable' = readable \cup {tx[p].id}
    /\ End(p)
    /\ UNCHANGED <<next_id, cursor, following, got>>

\* The connection or the caller goes away; the id stays taken.
Rollback(p) ==
    /\ tx[p] # NoTx
    /\ End(p)
    /\ UNCHANGED <<next_id, committed, readable, cursor, following, got>>

-----------------------------------------------------------------------------
(* Reading *)

Readable(t) == {row.id : row \in {x \in committed : x.topic = t}} \cap readable

\* position(): SELECT max(id), START where the topic has no rows.
Subscribe(r, t) ==
    /\ following[r] = Nowhere
    /\ cursor' = [cursor EXCEPT ![r] = IF Readable(t) = {} THEN 0 ELSE Max(Readable(t))]
    /\ following' = [following EXCEPT ![r] = t]
    /\ UNCHANGED <<next_id, committed, readable, lock, tx, got>>

After(t, c) == {i \in Readable(t) : i > c}

\* after(): WHERE topic = %s AND id > %s ORDER BY id; Subscription.poll then
\* moves its cursor to the last id found.
Poll(r) ==
    /\ following[r] # Nowhere
    /\ LET found == After(following[r], cursor[r]) IN
       /\ found # {}
       /\ got' = [got EXCEPT ![r] = @ \o InOrder(found)]
       /\ cursor' = [cursor EXCEPT ![r] = Max(found)]
    /\ UNCHANGED <<next_id, committed, readable, lock, tx, following>>

\* delete_expired: rows past event_ttl_seconds.  A row's created_at is the time
\* its transaction began, so age need not follow id.
Sweep ==
    /\ \E S \in SUBSET readable : S # {} /\ readable' = readable \ S
    /\ UNCHANGED <<next_id, committed, lock, tx, cursor, following, got>>

\* delete(topic)
Delete(t) ==
    /\ readable' = readable \ Readable(t)
    /\ UNCHANGED <<next_id, committed, lock, tx, cursor, following, got>>

Publishing(p) == TakeLock(p) \/ Insert(p) \/ Commit(p)

Next ==
    \/ Sweep
    \/ \E t \in Topic : Delete(t)
    \/ \E p \in Publisher : Publishing(p) \/ Rollback(p) \/ \E t \in Topic : Begin(p, t)
    \/ \E r \in Reader : Poll(r) \/ \E t \in Topic : Subscribe(r, t)

Spec == Init /\ [][Next]_vars

-----------------------------------------------------------------------------
(* Properties *)

TypeOK ==
    /\ next_id \in 1..(MaxId + 1)
    /\ committed \subseteq Row
    /\ readable \subseteq {row.id : row \in committed}
    /\ lock \in [Topic -> Publisher \cup {Nowhere}]
    /\ tx \in [Publisher -> [step : {"none", "lock", "insert", "commit"},
                             topic : Topic \cup {Nowhere}, id : 0..MaxId]]
    /\ cursor \in [Reader -> 0..MaxId \cup {Nowhere}]
    /\ following \in [Reader -> Topic \cup {Nowhere}]
    /\ got \in [Reader -> Seq(1..MaxId)]

\* "a reader that moved past the higher id would never see the lower one": no
\* row still readable lies behind a reader's cursor without having reached it.
\* (Rows that were there when the reader subscribed are behind it by design.)
Published(t) == {row.id : row \in {x \in committed : x.topic = t}}

NothingAppearsBehindACursor ==
    [][\A r \in Reader : following[r] # Nowhere /\ following'[r] = following[r] =>
        \A i \in Published(following[r])' \ Published(following[r]) : i > cursor[r]]_vars

\* The k-th index of a topic's log is its k-th id; deleted rows keep theirs.
IdsOf(t) == InOrder(Published(t))
IndexOf(t, i) == Rank(Published(t), i)

Log == INSTANCE TopicLog WITH
    Message <- 1..MaxId,
    log <- [t \in Topic |-> IdsOf(t)],
    kept <- [t \in Topic |-> {IndexOf(t, i) : i \in Readable(t)}],
    place <- [r \in Reader |->
                IF following[r] = Nowhere THEN Nowhere ELSE IndexOf(following[r], cursor[r])]

\* The table with its lock is a log: publishes append, readers miss nothing
\* that is retained and read nothing twice.
ImplementsTopicLog == Log!Spec
=============================================================================
