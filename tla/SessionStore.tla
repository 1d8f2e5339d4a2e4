---------------------------- MODULE SessionStore ----------------------------
(***************************************************************************)
(* What every backend promises of a session store: the `SessionStore`      *)
(* protocol of storage/sessions.py.  One instant decides each call; a      *)
(* record whose TTL has lapsed at that instant is absent, whatever is      *)
(* still in the backend's tables.  `live` holds exactly the records alive  *)
(* at `clock`, so that a store which resurrects one cannot map to it.      *)
(***************************************************************************)
EXTENDS Naturals

CONSTANTS
    Key,        \* session ids, already scoped to a namespace
    Data,       \* values a record may carry
    Ttl,        \* the time-to-live values callers ask for
    NoRecord,   \* the answer None
    Horizon,    \* bound: the clock stops here
    MaxVersion  \* bound: the largest version a caller passes to save

Instant == 0..Horizon
Record == [data : Data, version : Nat, expiry : Nat]

VARIABLES
    clock,      \* the store's time
    live,       \* [Key -> Record or NoRecord], alive at clock
    reply       \* the last answer a caller got: [op, key, result]

vars == <<clock, live, reply>>

\* What a caller sees of a record: its data and version, never its expiry.
Seen(r) == IF r = NoRecord THEN NoRecord ELSE [data |-> r.data, version |-> r.version]

\* The records still alive at instant t.
AliveAt(records, t) ==
    [k \in Key |-> IF records[k] # NoRecord /\ records[k].expiry > t THEN records[k] ELSE NoRecord]

Answer(o, k, result) == reply' = [op |-> o, key |-> k, result |-> result]

Fresh(d, v, t, ttl) == [data |-> d, version |-> v, expiry |-> t + ttl]

-----------------------------------------------------------------------------
Init ==
    /\ clock = 0
    /\ live = [k \in Key |-> NoRecord]
    /\ reply = [op |-> "none", key |-> NoRecord, result |-> NoRecord]

\* Each operation takes effect at an instant t no earlier than its call.
Create(k, d, ttl, t) ==
    LET alive == AliveAt(live, t) IN
    /\ clock' = t
    /\ live' = IF alive[k] = NoRecord THEN [alive EXCEPT ![k] = Fresh(d, 1, t, ttl)] ELSE alive
    /\ Answer("create", k, alive[k] = NoRecord)

Get(k, t) ==
    LET alive == AliveAt(live, t) IN
    /\ clock' = t
    /\ live' = alive
    /\ Answer("get", k, Seen(alive[k]))

Save(k, d, expected, ttl, t) ==
    LET alive == AliveAt(live, t)
        wins == alive[k] # NoRecord /\ alive[k].version = expected
    IN  /\ clock' = t
        /\ live' = IF wins THEN [alive EXCEPT ![k] = Fresh(d, expected + 1, t, ttl)] ELSE alive
        /\ Answer("save", k, wins)

Touch(k, ttl, t) ==
    LET alive == AliveAt(live, t) IN
    /\ clock' = t
    /\ live' = IF alive[k] = NoRecord THEN alive
               ELSE [alive EXCEPT ![k] = Fresh(alive[k].data, alive[k].version, t, ttl)]
    /\ Answer("touch", k, alive[k] # NoRecord)

Delete(k, t) ==
    /\ clock' = t
    /\ live' = [AliveAt(live, t) EXCEPT ![k] = NoRecord]
    /\ Answer("delete", k, NoRecord)

Pass(t) ==
    /\ clock' = t
    /\ live' = AliveAt(live, t)
    /\ UNCHANGED reply

Operation(k, t) ==
    \/ \E d \in Data, ttl \in Ttl : Create(k, d, ttl, t)
    \/ Get(k, t)
    \/ \E d \in Data, v \in 1..MaxVersion, ttl \in Ttl : Save(k, d, v, ttl, t)
    \/ \E ttl \in Ttl : Touch(k, ttl, t)
    \/ Delete(k, t)

Next == \E t \in Instant :
    /\ t >= clock
    /\ Pass(t) \/ \E k \in Key : Operation(k, t)

Spec == Init /\ [][Next]_vars
=============================================================================
