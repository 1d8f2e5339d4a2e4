------------------------- MODULE RedisSessionStore -------------------------
(***************************************************************************)
(* `RedisSessionStore` of storage/redis.py: one hash per session, every    *)
(* method one command or one Lua script, which Redis runs alone.  The      *)
(* scripts name no expiry of their own: a key whose EXPIRE has run out is  *)
(* gone at the instant of the next command, whatever that command is, and  *)
(* HSET on a key that is there leaves its TTL to the EXPIRE behind it.     *)
(***************************************************************************)
EXTENDS Naturals

CONSTANTS Key, Data, Ttl, NoRecord, Horizon, MaxVersion

VARIABLES
    clock,
    hash,       \* [Key -> [data, version] or NoRecord]
    expire_at,  \* [Key -> the deadline EXPIRE set, 0 for a key that persists]
    reply

vars == <<clock, hash, expire_at, reply>>

Exists(k, t) == hash[k] # NoRecord /\ (expire_at[k] = 0 \/ expire_at[k] > t)
Live == [k \in Key |-> IF Exists(k, clock)
    THEN [data |-> hash[k].data, version |-> hash[k].version, expiry |-> expire_at[k]] ELSE NoRecord]
Contract == INSTANCE SessionStore WITH live <- Live

Init ==
    /\ clock = 0
    /\ hash = [k \in Key |-> NoRecord] /\ expire_at = [k \in Key |-> 0]
    /\ reply = [op |-> "none", key |-> NoRecord, result |-> NoRecord]

\* One command on k at instant t; a new key has no TTL until it is given one.
Command(o, k, t, held, deadline, result) ==
    /\ clock' = t
    /\ hash' = [hash EXCEPT ![k] = held]
    /\ expire_at' = [expire_at EXCEPT ![k] = deadline]
    /\ reply' = [op |-> o, key |-> k, result |-> result]

Held(k, t) == IF Exists(k, t) THEN hash[k] ELSE NoRecord
Ttl0(k, t) == IF Exists(k, t) THEN expire_at[k] ELSE 0
Unchanged(o, k, t, result) == Command(o, k, t, Held(k, t), Ttl0(k, t), result)

\* The CREATE script.
create(k, d, ttl, t) ==
    IF Exists(k, t) THEN Unchanged("create", k, t, FALSE)
    ELSE Command("create", k, t, [data |-> d, version |-> 1], t + ttl, TRUE)

\* HMGET of both fields.
get(k, t) == Unchanged("get", k, t, Held(k, t))

\* The SAVE script.
save(k, d, expected, ttl, t) ==
    IF Exists(k, t) /\ hash[k].version = expected
    THEN Command("save", k, t, [data |-> d, version |-> expected + 1], t + ttl, TRUE)
    ELSE Unchanged("save", k, t, FALSE)

\* EXPIRE answers 1 only for a key that exists.
touch(k, ttl, t) ==
    IF Exists(k, t) THEN Command("touch", k, t, hash[k], t + ttl, TRUE)
    ELSE Unchanged("touch", k, t, FALSE)

delete(k, t) == Command("delete", k, t, NoRecord, 0, NoRecord)

Tick(t) ==
    /\ t > clock
    /\ clock' = t
    /\ UNCHANGED <<hash, expire_at, reply>>

Call(k, t) ==
    \/ \E d \in Data, ttl \in Ttl : create(k, d, ttl, t) \/ \E v \in 1..MaxVersion : save(k, d, v, ttl, t)
    \/ get(k, t) \/ delete(k, t)
    \/ \E ttl \in Ttl : touch(k, ttl, t)

Next == \E t \in 0..Horizon : t >= clock /\ (Tick(t) \/ \E k \in Key : Call(k, t))

Spec == Init /\ [][Next]_vars

-----------------------------------------------------------------------------
(* Property *)

\* The scripts are atomic, every key they write has a deadline, and a key
\* past it is gone for whichever command comes next: Redis answers every call
\* as the contract does.
ImplementsContract == Contract!Spec
=============================================================================
