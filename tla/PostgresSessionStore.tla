------------------------ MODULE PostgresSessionStore ------------------------
(***************************************************************************)
(* `PostgresSessionStore` and `PostgresStorage.sweep_if_due` of            *)
(* storage/postgres.py, called by several workers.  Each call opens a      *)
(* transaction (`pool.connection()`) and then runs its statement.          *)
(* PostgreSQL's now() is the time the transaction began, so the statement  *)
(* judges expiry by a time that may be earlier than the one it runs at;    *)
(* row locks make the statement and its commit one step of their own.      *)
(*                                                                         *)
(* A record's data is left out: what is modelled is which row survives.    *)
(***************************************************************************)
EXTENDS Naturals

CONSTANTS
    Worker, Key,
    Ttl,            \* time-to-live values
    NoRow,          \* no row for this id; also: no transaction open
    Every,          \* sweep_seconds
    Horizon,        \* bound on the clock
    MaxVersion      \* bound on a row's version

VARIABLES
    clock,
    sessions,       \* [Key -> row or NoRow]
    swept,          \* updated_at of the SWEPT key of the state table, NoRow before any
    sweep_lock,     \* the worker holding pg_try_advisory_xact_lock(prefix_sweep), or NoRow
    tx              \* [Worker -> the call whose transaction is open, or NoRow]

vars == <<clock, sessions, swept, sweep_lock, tx>>

Row == [version : 1..MaxVersion, expiry : Nat]
\* A call with an open transaction; now is the time the transaction began.
Call == [op : {"create", "save", "touch", "delete"}, key : Key, ttl : Ttl,
         expected : 1..MaxVersion, now : 0..Horizon]
Sweep == [op : {"due", "lock", "recheck", "purge"}, now : 0..Horizon]

Init ==
    /\ clock = 0
    /\ sessions = [k \in Key |-> NoRow]
    /\ swept = NoRow
    /\ sweep_lock = NoRow
    /\ tx = [w \in Worker |-> NoRow]

Tick ==
    /\ clock < Horizon
    /\ clock' = clock + 1
    /\ UNCHANGED <<sessions, swept, sweep_lock, tx>>

-----------------------------------------------------------------------------
(* The session statements. *)

Begin(w, o, k, ttl, v) ==
    /\ tx[w] = NoRow
    /\ tx' = [tx EXCEPT ![w] = [op |-> o, key |-> k, ttl |-> ttl, expected |-> v, now |-> clock]]
    /\ UNCHANGED <<clock, sessions, swept, sweep_lock>>

Unexpired(k, now) == sessions[k] # NoRow /\ sessions[k].expiry > now

\* End w's transaction: row k becomes `row` where the statement's condition holds.
Commit(w, where, row) ==
    /\ sessions' = IF where THEN [sessions EXCEPT ![tx[w].key] = row] ELSE sessions
    /\ tx' = [tx EXCEPT ![w] = NoRow]
    /\ UNCHANGED <<clock, swept, sweep_lock>>

Running(w, o) == tx[w] # NoRow /\ tx[w].op = o

\* (Mutant) ON CONFLICT DO UPDATE without its WHERE.
createOverwrites(w) ==
    /\ Running(w, "create")
    /\ Commit(w, TRUE, [version |-> 1, expiry |-> tx[w].now + tx[w].ttl])

create(w) ==
    /\ Running(w, "create")
    /\ LET c == tx[w] IN
       Commit(w, sessions[c.key] = NoRow \/ sessions[c.key].expiry <= c.now,
              [version |-> 1, expiry |-> c.now + c.ttl])

save(w) ==
    /\ Running(w, "save")
    /\ LET c == tx[w] IN
       Commit(w, Unexpired(c.key, c.now) /\ sessions[c.key].version = c.expected,
              [version |-> c.expected + 1, expiry |-> c.now + c.ttl])

touch(w) ==
    /\ Running(w, "touch")
    /\ LET c == tx[w] IN
       IF Unexpired(c.key, c.now)
       THEN Commit(w, TRUE, [sessions[c.key] EXCEPT !.expiry = c.now + c.ttl])
       ELSE Commit(w, FALSE, NoRow)

delete(w) ==
    /\ Running(w, "delete")
    /\ Commit(w, TRUE, NoRow)

-----------------------------------------------------------------------------
(* sweep_if_due: a check of its own, then one transaction that takes the   *)
(* lock, checks again, deletes and stamps the time.                        *)

Due(now) == swept = NoRow \/ swept + Every <= now

\* Begin the transaction of the first check, or of the sweep itself.
BeginSweep(w, o) ==
    /\ tx' = [tx EXCEPT ![w] = [op |-> o, now |-> clock]]
    /\ UNCHANGED <<clock, sessions, swept, sweep_lock>>

StartSweep(w) == tx[w] = NoRow /\ BeginSweep(w, "due")

\* `due` outside the lock: cheap, and stale by the time the lock is asked for.
FirstCheck(w) ==
    /\ Running(w, "due")
    /\ IF Due(tx[w].now)
       THEN BeginSweep(w, "lock")
       ELSE /\ tx' = [tx EXCEPT ![w] = NoRow]
            /\ UNCHANGED <<clock, sessions, swept, sweep_lock>>

\* pg_try_advisory_xact_lock: never waits.
TryLock(w) ==
    /\ Running(w, "lock")
    /\ IF sweep_lock = NoRow
       THEN /\ sweep_lock' = w
            /\ tx' = [tx EXCEPT ![w].op = "recheck"]
       ELSE /\ UNCHANGED sweep_lock
            /\ tx' = [tx EXCEPT ![w] = NoRow]
    /\ UNCHANGED <<clock, sessions, swept>>

\* (Mutant) The check made before the lock is trusted.
NoSecondCheck(w) ==
    /\ Running(w, "recheck")
    /\ tx' = [tx EXCEPT ![w].op = "purge"]
    /\ UNCHANGED <<clock, sessions, swept, sweep_lock>>

SecondCheck(w) ==
    /\ Running(w, "recheck")
    /\ IF Due(tx[w].now)
       THEN tx' = [tx EXCEPT ![w].op = "purge"] /\ UNCHANGED sweep_lock
       ELSE tx' = [tx EXCEPT ![w] = NoRow] /\ sweep_lock' = NoRow
    /\ UNCHANGED <<clock, sessions, swept>>

\* delete_expired, remember and the commit that releases the lock.
FinishSweep(w) ==
    /\ Running(w, "purge")
    /\ sessions' = [k \in Key |-> IF Unexpired(k, tx[w].now) THEN sessions[k] ELSE NoRow]
    /\ swept' = tx[w].now
    /\ sweep_lock' = NoRow
    /\ tx' = [tx EXCEPT ![w] = NoRow]
    /\ UNCHANGED clock

\* The connection drops: the transaction rolls back and its lock goes with it.
Rollback(w) ==
    /\ tx[w] # NoRow
    /\ tx' = [tx EXCEPT ![w] = NoRow]
    /\ sweep_lock' = IF sweep_lock = w THEN NoRow ELSE sweep_lock
    /\ UNCHANGED <<clock, sessions, swept>>

Statement(w) == create(w) \/ save(w) \/ touch(w) \/ delete(w)
Sweeping(w) == StartSweep(w) \/ FirstCheck(w) \/ TryLock(w) \/ SecondCheck(w) \/ FinishSweep(w)

\* A call names the version it read; only a save uses it, only some use a TTL.
BeginCall(w) == \E k \in Key :
    \/ \E ttl \in Ttl : Begin(w, "create", k, ttl, 1) \/ Begin(w, "touch", k, ttl, 1)
    \/ \E ttl \in Ttl, v \in 1..(MaxVersion - 1) : Begin(w, "save", k, ttl, v)
    \/ \E ttl \in {t \in Ttl : \A u \in Ttl : t <= u} : Begin(w, "delete", k, ttl, 1)

Next == Tick \/ \E w \in Worker : BeginCall(w) \/ Statement(w) \/ Sweeping(w) \/ Rollback(w)

Spec == Init /\ [][Next]_vars

-----------------------------------------------------------------------------
(* Properties *)

TypeOK ==
    /\ clock \in 0..Horizon
    /\ sessions \in [Key -> Row \cup {NoRow}]
    /\ swept \in 0..Horizon \cup {NoRow}
    /\ sweep_lock \in Worker \cup {NoRow}
    /\ tx \in [Worker -> Call \cup Sweep \cup {NoRow}]

\* "Sweep once per interval across all workers": two sweeps that both ran
\* began at least Every apart, however the workers' checks interleave.
OneSweepPerInterval ==
    [][swept' # swept /\ swept # NoRow => swept' >= swept + Every]_vars

\* Worker w's call for session k runs its statement, or fails: in both cases it ends.
Ends(w, o, k) == Running(w, o) /\ tx'[w] = NoRow /\ tx[w].key = k

Alive(k) == sessions[k] # NoRow /\ sessions[k].expiry > clock

\* The lifetime a call gives counts from the time its transaction began; a call
\* that waited that long or longer for its statement gives one that is over.
InTime(w) == tx[w].now + tx[w].ttl > clock

\* A live session is left as it is by every sweep, every create and every call
\* for another session, whatever stale now() they judge it by.  It ends by its
\* own delete, or by a save or touch of it that was open for as long as the TTL
\* it gives; one in time leaves it alive.  A save that lands moves it exactly
\* one version on from the one its caller read.
LiveSessionSurvives ==
    [][\A k \in Key : Alive(k) =>
        \/ sessions'[k] = sessions[k]
        \/ \E w \in Worker : Ends(w, "delete", k)
        \/ \E w \in Worker : /\ Ends(w, "touch", k) /\ (InTime(w) => Alive(k)')
                             /\ sessions'[k].version = sessions[k].version
        \/ \E w \in Worker : /\ Ends(w, "save", k) /\ (InTime(w) => Alive(k)')
                             /\ tx[w].expected = sessions[k].version
                             /\ sessions'[k].version = sessions[k].version + 1]_vars
=============================================================================
