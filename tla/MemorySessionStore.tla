------------------------- MODULE MemorySessionStore -------------------------
(***************************************************************************)
(* `MemorySessionStore` of storage/sessions.py: one dict, purged lazily.   *)
(* A call that looks a record up first purges every expired one, but only  *)
(* when the clock has reached `next_cleanup`, the earliest expiry it may   *)
(* still hold; then it checks the one record it wants against a second     *)
(* reading of the clock.  No method awaits, so each call is one step; the  *)
(* clock may advance between its two readings (`clock` and t below).       *)
(*                                                                         *)
(* Abstraction: the second and third readings of the clock inside one call *)
(* (the check and the new expiry) are one instant.                         *)
(***************************************************************************)
EXTENDS Naturals

CONSTANTS Key, Data, Ttl, NoRecord, Horizon, MaxVersion,
          Infinity      \* float("inf"): later than any expiry

VARIABLES
    clock,
    records,            \* [Key -> Record or NoRecord]: the dict, expired entries included
    next_cleanup,       \* `_next_cleanup`
    reply

vars == <<clock, records, next_cleanup, reply>>

\* The contract, seen through the records that are still alive.
AliveAt(recs, t) ==
    [k \in Key |-> IF recs[k] # NoRecord /\ recs[k].expiry > t THEN recs[k] ELSE NoRecord]
Contract == INSTANCE SessionStore WITH live <- AliveAt(records, clock)

ASSUME MemoryConstants ==
    /\ Ttl \subseteq Nat \ {0}
    /\ Horizon \in Nat
    /\ MaxVersion \in Nat
    /\ NoRecord \notin [data : Data, version : Nat, expiry : Nat]
    /\ Infinity \in Nat
    /\ \A ttl \in Ttl : Horizon + ttl < Infinity

Instant == 0..Horizon
Record == [data : Data, version : Nat, expiry : Nat]

-----------------------------------------------------------------------------
Init ==
    /\ clock = 0
    /\ records = [k \in Key |-> NoRecord]
    /\ next_cleanup = Infinity
    /\ reply = [op |-> "none", key |-> NoRecord, result |-> NoRecord]

\* (Mutant) The scan is put off while the clock stands at next_cleanup.
KeptOnTheInstant == IF clock <= next_cleanup THEN records
                    ELSE [k \in Key |-> IF records[k] # NoRecord /\ records[k].expiry <= clock
                                        THEN NoRecord ELSE records[k]]

\* The entries _purge_expired keeps, and the earliest expiry among them.
Kept == IF clock < next_cleanup THEN records
        ELSE [k \in Key |-> IF records[k] # NoRecord /\ records[k].expiry <= clock
                            THEN NoRecord ELSE records[k]]

EarliestExpiry(m, recs) ==
    /\ \A k \in Key : recs[k] # NoRecord => m <= recs[k].expiry
    /\ \/ m = Infinity /\ \A k \in Key : recs[k] = NoRecord
       \/ \E k \in Key : recs[k] # NoRecord /\ recs[k].expiry = m

\* m is the value _purge_expired leaves in _next_cleanup.
CleanupAfterPurge(m) ==
    IF clock < next_cleanup THEN m = next_cleanup ELSE EarliestExpiry(m, Kept)

CleanupCandidates ==
    {next_cleanup, Infinity} \cup {records[k].expiry : k \in {j \in Key : records[j] # NoRecord}}

\* (Mutant) No second reading of the clock for the wanted record.
LookedOnce(k, t) == Kept

\* The dict after live(k): purged, and without k when k has lapsed at t.
Looked(k, t) ==
    IF Kept[k] # NoRecord /\ Kept[k].expiry <= t THEN [Kept EXCEPT ![k] = NoRecord] ELSE Kept

\* `_expiry`: the new record's expiry also pulls _next_cleanup forward.
Lowered(m, t, ttl) == IF t + ttl < m THEN t + ttl ELSE m

Answer(o, k, result) == reply' = [op |-> o, key |-> k, result |-> result]
Seen(r) == IF r = NoRecord THEN NoRecord ELSE [data |-> r.data, version |-> r.version]

\* Store a record for k and lower _next_cleanup, m being its value after the purge.
Store(k, d, v, ttl, t, m) ==
    /\ records' = [Looked(k, t) EXCEPT ![k] = [data |-> d, version |-> v, expiry |-> t + ttl]]
    /\ next_cleanup' = Lowered(m, t, ttl)

Leave(k, t, m) ==
    /\ records' = Looked(k, t)
    /\ next_cleanup' = m

create(k, d, ttl, t, m) ==
    LET free == Looked(k, t)[k] = NoRecord IN
    /\ clock' = t
    /\ CleanupAfterPurge(m)
    /\ IF free THEN Store(k, d, 1, ttl, t, m) ELSE Leave(k, t, m)
    /\ Answer("create", k, free)

get(k, t, m) ==
    /\ clock' = t
    /\ CleanupAfterPurge(m)
    /\ Leave(k, t, m)
    /\ Answer("get", k, Seen(Looked(k, t)[k]))

save(k, d, expected, ttl, t, m) ==
    LET entry == Looked(k, t)[k]
        wins == entry # NoRecord /\ entry.version = expected
    IN  /\ clock' = t
        /\ CleanupAfterPurge(m)
        /\ IF wins THEN Store(k, d, expected + 1, ttl, t, m) ELSE Leave(k, t, m)
        /\ Answer("save", k, wins)

touch(k, ttl, t, m) ==
    LET entry == Looked(k, t)[k] IN
    /\ clock' = t
    /\ CleanupAfterPurge(m)
    /\ IF entry # NoRecord THEN Store(k, entry.data, entry.version, ttl, t, m) ELSE Leave(k, t, m)
    /\ Answer("touch", k, entry # NoRecord)

\* delete pops the key without a purge and without touching _next_cleanup.
delete(k, t) ==
    /\ clock' = t
    /\ records' = [records EXCEPT ![k] = NoRecord]
    /\ UNCHANGED next_cleanup
    /\ Answer("delete", k, NoRecord)

\* Time passes and nobody calls.
Tick(t) ==
    /\ t > clock
    /\ clock' = t
    /\ UNCHANGED <<records, next_cleanup, reply>>

Lookup(k, t, m) ==
    \/ \E d \in Data, ttl \in Ttl : create(k, d, ttl, t, m)
    \/ get(k, t, m)
    \/ \E d \in Data, v \in 1..MaxVersion, ttl \in Ttl : save(k, d, v, ttl, t, m)
    \/ \E ttl \in Ttl : touch(k, ttl, t, m)

Next == \E t \in Instant :
    /\ t >= clock
    /\ \/ Tick(t)
       \/ \E k \in Key : delete(k, t) \/ \E m \in CleanupCandidates : Lookup(k, t, m)

Spec == Init /\ [][Next]_vars

-----------------------------------------------------------------------------
(* Properties *)

TypeOK ==
    /\ clock \in Instant
    /\ records \in [Key -> Record \cup {NoRecord}]
    /\ next_cleanup \in Nat

\* The lazy purge is never late: no stored record expires before next_cleanup,
\* so skipping the scan while the clock is short of it leaves nothing expired.
CleanupNeverLate ==
    \A k \in Key : records[k] # NoRecord => next_cleanup <= records[k].expiry

\* Every lookup leaves the dict without a record that had lapsed when the call
\* began: the memory an idle deployment holds is bounded by its live sessions.
ExpiredArePurged ==
    [][reply' # reply /\ reply'.op # "delete" =>
        \A k \in Key : records'[k] # NoRecord => records'[k].expiry > clock]_vars

\* The dict with its lazy purge behaves as a store in which a record vanishes
\* the instant its TTL lapses: one winner per create and per version, nothing
\* resurrected, every answer the contract's.
ImplementsContract == Contract!Spec
=============================================================================
