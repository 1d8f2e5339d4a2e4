------------------------- MODULE SqliteSessionStore -------------------------
(***************************************************************************)
(* `SqliteSessionStore` of storage/sqlite.py: one row per session, every   *)
(* method one statement that reads NOW once and carries the expiry in its  *)
(* own WHERE clause, plus the sweeper that deletes lapsed rows whenever it *)
(* happens to run.  SQLite runs one writing statement at a time, so a      *)
(* statement is one step at one instant t.                                 *)
(***************************************************************************)
EXTENDS Naturals

CONSTANTS Key, Data, Ttl, NoRecord, Horizon, MaxVersion

VARIABLES
    clock,
    mcp_sessions,   \* [Key -> row or NoRecord]: the table, lapsed rows included
    reply

vars == <<clock, mcp_sessions, reply>>

AliveAt(rows, t) ==
    [k \in Key |-> IF rows[k] # NoRecord /\ rows[k].expiry > t THEN rows[k] ELSE NoRecord]
Contract == INSTANCE SessionStore WITH live <- AliveAt(mcp_sessions, clock)

Instant == 0..Horizon
Row == [data : Data, version : Nat, expiry : Nat]

-----------------------------------------------------------------------------
Init ==
    /\ clock = 0
    /\ mcp_sessions = [k \in Key |-> NoRecord]
    /\ reply = [op |-> "none", key |-> NoRecord, result |-> NoRecord]

\* (Mutant) The statements forget expires_at.
Exists(k, t) == mcp_sessions[k] # NoRecord

\* The WHERE clauses of the statements on session k at NOW = t.
Unexpired(k, t) == mcp_sessions[k] # NoRecord /\ mcp_sessions[k].expiry > t
Insertable(k, t) == mcp_sessions[k] = NoRecord \/ mcp_sessions[k].expiry <= t

\* Write row k where the statement's condition holds; rowcount > 0 is the answer.
Statement(o, k, t, where, row) ==
    /\ clock' = t
    /\ mcp_sessions' = IF where THEN [mcp_sessions EXCEPT ![k] = row] ELSE mcp_sessions
    /\ reply' = [op |-> o, key |-> k, result |-> where]

create(k, d, ttl, t) ==
    Statement("create", k, t, Insertable(k, t), [data |-> d, version |-> 1, expiry |-> t + ttl])

get(k, t) ==
    /\ clock' = t
    /\ reply' = [op |-> "get", key |-> k, result |->
                 IF Unexpired(k, t)
                 THEN [data |-> mcp_sessions[k].data, version |-> mcp_sessions[k].version]
                 ELSE NoRecord]
    /\ UNCHANGED mcp_sessions

save(k, d, expected, ttl, t) ==
    Statement("save", k, t, Unexpired(k, t) /\ mcp_sessions[k].version = expected,
              [data |-> d, version |-> expected + 1, expiry |-> t + ttl])

touch(k, ttl, t) ==
    IF Unexpired(k, t)
    THEN Statement("touch", k, t, TRUE, [mcp_sessions[k] EXCEPT !.expiry = t + ttl])
    ELSE Statement("touch", k, t, FALSE, NoRecord)

delete(k, t) ==
    /\ clock' = t
    /\ mcp_sessions' = [mcp_sessions EXCEPT ![k] = NoRecord]
    /\ reply' = [op |-> "delete", key |-> k, result |-> NoRecord]

\* SqliteStorage.sweep, from any worker's sweeping() loop.
sweep(t) ==
    /\ clock' = t
    /\ mcp_sessions' = [k \in Key |-> IF Unexpired(k, t) THEN mcp_sessions[k] ELSE NoRecord]
    /\ UNCHANGED reply

Tick(t) ==
    /\ t > clock
    /\ clock' = t
    /\ UNCHANGED <<mcp_sessions, reply>>

Call(k, t) ==
    \/ \E d \in Data, ttl \in Ttl : create(k, d, ttl, t)
    \/ get(k, t)
    \/ \E d \in Data, v \in 1..MaxVersion, ttl \in Ttl : save(k, d, v, ttl, t)
    \/ \E ttl \in Ttl : touch(k, ttl, t)
    \/ delete(k, t)

Next == \E t \in Instant :
    /\ t >= clock
    /\ Tick(t) \/ sweep(t) \/ \E k \in Key : Call(k, t)

Spec == Init /\ [][Next]_vars

-----------------------------------------------------------------------------
(* Properties *)

TypeOK ==
    /\ clock \in Instant
    /\ mcp_sessions \in [Key -> Row \cup {NoRecord}]

\* Rows that lapsed but were not swept yet are invisible, and a sweep is
\* invisible: the table answers every call as the contract does.
ImplementsContract == Contract!Spec
=============================================================================
