----------------------------- MODULE MCStorage -----------------------------
(* Every session store and every hub in one run; `part` is the one that     *)
(* takes the steps.  The memory store has two keys, so that one key's call  *)
(* purges the other's record.  SQLite and Redis are held against the same   *)
(* contract with one key, which is enough where no operation relates two.   *)
(* In PostgreSQL two workers race over one session and one sweep, and the   *)
(* clock passes a short TTL and two sweep intervals; two publishers may     *)
(* meet on one topic or pass each other on two, with ids enough for a gap,  *)
(* a sweep and a late commit.  The other hubs have a shared topic and one   *)
(* that is deleted, one more publish than `keep`, and a Redis clock that    *)
(* may stand still between two of them.                                     *)
EXTENDS MemorySessionStore, TLC

CONSTANTS
    RowKey, Ttls, Long, MaxSave, Worker, NoRow, Every, PgTtl,
    Publisher, Reader, Topic, Nowhere, MaxId, Queue, Shared, Keep, MaxPublish, MaxTime

VARIABLES part, sql_clock, mcp_sessions, sql_reply, redis_clock, hash, expire_at, redis_reply,
    pg_clock, sessions, swept, sweep_lock, tx,
    next_id, committed, readable, lock, pub, cursor, following, got,
    backend, hub_clock, last_id, top, expiring, published, first, b_cursor, b_following, pending, b_got

S == INSTANCE SqliteSessionStore WITH Key <- RowKey, Ttl <- Ttls, Horizon <- Long,
        MaxVersion <- MaxSave, clock <- sql_clock, reply <- sql_reply
R == INSTANCE RedisSessionStore WITH Key <- RowKey, Ttl <- Ttls, Horizon <- Long,
        MaxVersion <- MaxSave, clock <- redis_clock, reply <- redis_reply
P == INSTANCE PostgresSessionStore WITH Key <- RowKey, Ttl <- PgTtl, Horizon <- Long,
        MaxVersion <- MaxSave, clock <- pg_clock
H == INSTANCE PostgresHub WITH tx <- pub
B == INSTANCE HubBackends WITH Topic <- Queue, Horizon <- MaxTime, clock <- hub_clock,
        cursor <- b_cursor, following <- b_following, got <- b_got

\* What the other stores and the hubs need to know of their constants: a clock,
\* TTLs and versions are numbers, and None is none of the values.
ASSUME StorageConstants ==
    /\ Ttls \cup PgTtl \subseteq Nat \ {0}
    /\ Long \in Nat /\ MaxSave \in Nat \ {0} /\ Every \in Nat /\ MaxId \in Nat
    /\ NoRecord \notin [data : Data, version : Nat]
    /\ NoRow \notin P!Row \cup P!Call \cup P!Sweep \cup Nat \cup Worker
    /\ Nowhere \notin Publisher \cup Topic \cup Queue \cup Nat
    /\ Keep \in Nat \ {0} /\ MaxPublish \in Nat /\ MaxTime \in Nat

sqlite == <<sql_clock, mcp_sessions, sql_reply>>
redis == <<redis_clock, hash, expire_at, redis_reply>>
postgres == <<pg_clock, sessions, swept, sweep_lock, tx>>
pg_hub == <<next_id, committed, readable, lock, pub, cursor, following, got>>
hubs == <<backend, hub_clock, last_id, top, expiring, published, first, b_cursor, b_following,
          pending, b_got>>

MCTtl == {1, 2}
MCPgTtl == {1, 3}
Symmetries == Permutations(Worker) \cup Permutations(Publisher) \cup Permutations(Topic)
Parts == {"memory", "sqlite", "redis", "postgres", "pg_hub", "hubs"}

MCInit ==
    /\ part \in Parts
    /\ Init /\ S!Init /\ R!Init /\ P!Init /\ H!Init /\ B!Init
    /\ part # "hubs" => backend = "memory"
MCNext ==
    /\ UNCHANGED part
    /\ \/ part = "memory" /\ Next /\ UNCHANGED <<sqlite, redis, postgres, pg_hub, hubs>>
       \/ part = "sqlite" /\ S!Next /\ UNCHANGED <<vars, redis, postgres, pg_hub, hubs>>
       \/ part = "redis" /\ R!Next /\ UNCHANGED <<vars, sqlite, postgres, pg_hub, hubs>>
       \/ part = "postgres" /\ P!Next /\ UNCHANGED <<vars, sqlite, redis, pg_hub, hubs>>
       \/ part = "pg_hub" /\ H!Next /\ UNCHANGED <<vars, sqlite, redis, postgres, hubs>>
       \/ part = "hubs" /\ B!Next /\ UNCHANGED <<vars, sqlite, redis, postgres, pg_hub>>
MCSpec == MCInit /\ [][MCNext]_<<part, vars, sqlite, redis, postgres, pg_hub, hubs>>

(* What the other stores promise, under the names of their modules. *)
OneSweepPerInterval == P!OneSweepPerInterval
LiveSessionSurvives == P!LiveSessionSurvives
NothingAppearsBehindACursor == H!NothingAppearsBehindACursor

\* The SQLite and Redis stores answer as the contract does.
RowsImplementContract == S!ImplementsContract /\ R!ImplementsContract

\* Every hub is a log.
HubsImplementTopicLog == H!ImplementsTopicLog /\ B!ImplementsTopicLog
=============================================================================
