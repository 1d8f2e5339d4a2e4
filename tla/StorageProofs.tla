---------------------------- MODULE StorageProofs ----------------------------
(***************************************************************************)
(* Theorems about the storage in memory and over PostgreSQL, SQLite and    *)
(* Redis, for every set of keys, data and TTLs, for any number             *)
(* of workers, sessions, publishers, readers and topics, and about the     *)
(* specification that MCStorage composes of them.                          *)
(***************************************************************************)
EXTENDS MCStorage, OrderedProofs, FiniteSetTheorems, SequenceTheorems, TLAPS

(* The lazily purged dict of MemorySessionStore keeps its cleanup time     *)
(* early enough, and implements the SessionStore contract.                 *)

Inv == TypeOK /\ CleanupNeverLate

\* An expiry the store computes lies below Infinity.
LEMMA ExpiryInRange ==
    ASSUME NEW t \in Instant, NEW ttl \in Ttl
    PROVE  t + ttl \in Nat /\ t + ttl < Infinity
BY MemoryConstants DEF Instant

\* A purge keeps the dict well typed and drops every record that had lapsed.
LEMMA PurgedDict ==
    ASSUME Inv
    PROVE  /\ Kept \in [Key -> Record \cup {NoRecord}]
           /\ \A k \in Key : Kept[k] # NoRecord => Kept[k] = records[k] /\ Kept[k].expiry > clock
           /\ \A k \in Key : records[k] # NoRecord /\ records[k].expiry > clock => Kept[k] = records[k]
<1>1. CASE clock < next_cleanup
    BY <1>1, MemoryConstants DEF Inv, TypeOK, CleanupNeverLate, Kept, Record, Instant
<1>2. CASE ~ (clock < next_cleanup)
    BY <1>2, MemoryConstants DEF Inv, TypeOK, Kept, Record, Instant
<1>3. QED
    BY <1>1, <1>2

\* The cleanup time a purge leaves is no later than any record it keeps.
LEMMA PurgedCleanup ==
    ASSUME Inv, NEW m \in CleanupCandidates, CleanupAfterPurge(m)
    PROVE  /\ m \in Nat
           /\ \A k \in Key : Kept[k] # NoRecord => m <= Kept[k].expiry
<1>1. CASE clock < next_cleanup
    BY <1>1 DEF CleanupAfterPurge, Kept, Inv, TypeOK, CleanupNeverLate
<1>2. CASE ~ (clock < next_cleanup)
    <2>1. EarliestExpiry(m, Kept)
        BY <1>2 DEF CleanupAfterPurge
    <2>2. \A k \in Key : Kept[k] # NoRecord => m <= Kept[k].expiry
        BY <2>1 DEF EarliestExpiry
    <2>3. m \in Nat
        <3>1. m = next_cleanup \/ m = Infinity \/ \E k \in Key : records[k] # NoRecord /\ m = records[k].expiry
            BY DEF CleanupCandidates
        <3>2. QED
            BY <3>1, MemoryConstants DEF Inv, TypeOK, Record
    <2>4. QED
        BY <2>2, <2>3
<1>3. QED
    BY <1>1, <1>2

\* What a lookup of k at t finds, and the dict it leaves.
LEMMA LookedDict ==
    ASSUME Inv, NEW k \in Key, NEW t \in Instant, t >= clock
    PROVE  /\ Looked(k, t) \in [Key -> Record \cup {NoRecord}]
           /\ \A j \in Key : Looked(k, t)[j] # NoRecord =>
                  Looked(k, t)[j] = Kept[j] /\ Looked(k, t)[j] = records[j] /\ records[j].expiry > clock
           /\ Looked(k, t)[k] # NoRecord => records[k].expiry > t
           /\ \A j \in Key : records[j] # NoRecord /\ records[j].expiry > t => Looked(k, t)[j] = records[j]
<1>1. /\ Kept \in [Key -> Record \cup {NoRecord}]
      /\ \A j \in Key : Kept[j] # NoRecord => Kept[j] = records[j] /\ Kept[j].expiry > clock
      /\ \A j \in Key : records[j] # NoRecord /\ records[j].expiry > clock => Kept[j] = records[j]
    BY PurgedDict
<1>2. clock \in Nat /\ t \in Nat
    BY MemoryConstants DEF Inv, TypeOK, Instant
<1>3. \A j \in Key : records[j] # NoRecord => records[j].expiry \in Nat
    BY DEF Inv, TypeOK, Record
<1>4. QED
    BY <1>1, <1>2, <1>3 DEF Looked

\* Lookups that store a record, and lookups that do not, keep the invariant.
LEMMA StoreKeepsInv ==
    ASSUME Inv, NEW k \in Key, NEW t \in Instant, t >= clock, NEW m \in CleanupCandidates,
           CleanupAfterPurge(m), NEW d \in Data, NEW v \in Nat, NEW ttl \in Ttl,
           clock' = t, Store(k, d, v, ttl, t, m)
    PROVE  Inv'
<1>1. /\ m \in Nat
      /\ \A j \in Key : Kept[j] # NoRecord => m <= Kept[j].expiry
    BY PurgedCleanup
<1>2. /\ Looked(k, t) \in [Key -> Record \cup {NoRecord}]
      /\ \A j \in Key : Looked(k, t)[j] # NoRecord => Looked(k, t)[j] = Kept[j]
    BY LookedDict
<1>3. t + ttl \in Nat
    BY ExpiryInRange
<1>4. [data |-> d, version |-> v, expiry |-> t + ttl] \in Record
    BY <1>3 DEF Record
<1>5. records' \in [Key -> Record \cup {NoRecord}]
    BY <1>2, <1>4 DEF Store
<1>6. Lowered(m, t, ttl) \in Nat /\ Lowered(m, t, ttl) <= m /\ Lowered(m, t, ttl) <= t + ttl
    BY <1>1, <1>3 DEF Lowered
<1>7. ASSUME NEW j \in Key, records'[j] # NoRecord
      PROVE  next_cleanup' <= records'[j].expiry
    <2>1. CASE j = k
        BY <2>1, <1>2, <1>6 DEF Store
    <2>2. CASE j # k
        <3>1. records'[j] = Kept[j] /\ Kept[j] # NoRecord
            BY <2>2, <1>2, <1>7 DEF Store
        <3>2. Kept[j].expiry \in Nat
            BY <3>1, <1>5, <1>7 DEF Record
        <3>3. QED
            BY <3>1, <3>2, <1>1, <1>6 DEF Store
    <2>3. QED
        BY <2>1, <2>2
<1>8. QED
    BY <1>5, <1>6, <1>7 DEF Inv, TypeOK, CleanupNeverLate, Store

LEMMA LeaveKeepsInv ==
    ASSUME Inv, NEW k \in Key, NEW t \in Instant, t >= clock, NEW m \in CleanupCandidates,
           CleanupAfterPurge(m), clock' = t, Leave(k, t, m)
    PROVE  Inv'
<1>1. /\ m \in Nat
      /\ \A j \in Key : Kept[j] # NoRecord => m <= Kept[j].expiry
    BY PurgedCleanup
<1>2. /\ Looked(k, t) \in [Key -> Record \cup {NoRecord}]
      /\ \A j \in Key : Looked(k, t)[j] # NoRecord => Looked(k, t)[j] = Kept[j]
    BY LookedDict
<1>3. QED
    BY <1>1, <1>2 DEF Inv, TypeOK, CleanupNeverLate, Leave

\* A lookup stores a record at k or leaves the dict as the purge left it.
LEMMA LookupStoresOrLeaves ==
    ASSUME Inv, NEW k \in Key, NEW t \in Instant, t >= clock, NEW m, Lookup(k, t, m)
    PROVE  /\ clock' = t
           /\ CleanupAfterPurge(m)
           /\ \/ Leave(k, t, m)
              \/ \E d \in Data, v \in Nat, ttl \in Ttl : Store(k, d, v, ttl, t, m)
<1>1. CASE \E d \in Data, ttl \in Ttl : create(k, d, ttl, t, m)
    BY <1>1 DEF create
<1>2. CASE get(k, t, m)
    BY <1>2 DEF get
<1>3. CASE \E d \in Data, v \in 1..MaxVersion, ttl \in Ttl : save(k, d, v, ttl, t, m)
    <2>1. PICK d \in Data, v \in 1..MaxVersion, ttl \in Ttl : save(k, d, v, ttl, t, m)
        BY <1>3
    <2>2. v + 1 \in Nat
        BY MemoryConstants
    <2>3. QED
        BY <2>1, <2>2 DEF save
<1>4. CASE \E ttl \in Ttl : touch(k, ttl, t, m)
    <2>1. PICK ttl \in Ttl : touch(k, ttl, t, m)
        BY <1>4
    <2>2. Looked(k, t)[k] # NoRecord =>
              Looked(k, t)[k].data \in Data /\ Looked(k, t)[k].version \in Nat
        BY LookedDict DEF Record
    <2>3. QED
        BY <2>1, <2>2 DEF touch
<1>5. QED
    BY <1>1, <1>2, <1>3, <1>4 DEF Lookup

LEMMA InvInit == Init => Inv
BY MemoryConstants DEF Init, Inv, TypeOK, CleanupNeverLate, Instant

LEMMA InvStep == Inv /\ [Next]_vars => Inv'
<1> SUFFICES ASSUME Inv, [Next]_vars PROVE Inv'
    OBVIOUS
<1>1. ASSUME NEW t \in Instant, t >= clock, Tick(t) PROVE Inv'
    BY <1>1 DEF Tick, Inv, TypeOK, CleanupNeverLate
<1>2. ASSUME NEW t \in Instant, t >= clock, NEW k \in Key, delete(k, t) PROVE Inv'
    BY <1>2 DEF delete, Inv, TypeOK, CleanupNeverLate
<1>3. ASSUME NEW t \in Instant, t >= clock, NEW k \in Key,
             NEW m \in CleanupCandidates, Lookup(k, t, m)
      PROVE  Inv'
    <2>1. /\ clock' = t
          /\ CleanupAfterPurge(m)
          /\ \/ Leave(k, t, m)
             \/ \E d \in Data, v \in Nat, ttl \in Ttl : Store(k, d, v, ttl, t, m)
        BY <1>3, LookupStoresOrLeaves
    <2>2. CASE Leave(k, t, m)
        BY <1>3, <2>1, <2>2, LeaveKeepsInv
    <2>3. CASE \E d \in Data, v \in Nat, ttl \in Ttl : Store(k, d, v, ttl, t, m)
        BY <1>3, <2>1, <2>3, StoreKeepsInv
    <2>4. QED
        BY <2>1, <2>2, <2>3
<1>4. CASE UNCHANGED vars
    BY <1>4 DEF vars, Inv, TypeOK, CleanupNeverLate
<1>5. QED
    BY <1>1, <1>2, <1>3, <1>4 DEF Next

\* MemorySessionStore.records, _next_cleanup: every value the dict holds is a
\* record, and the cleanup time is a time.
THEOREM TypeCorrect == Spec => []TypeOK
<1>1. Inv => TypeOK
    BY DEF Inv
<1>2. QED
    BY <1>1, InvInit, InvStep, PTL DEF Spec

\* MemorySessionStore._purge_expired may skip its scan: nothing in the dict
\* expires before _next_cleanup.
THEOREM PurgeIsNeverLate == Spec => []CleanupNeverLate
<1>1. Inv => CleanupNeverLate
    BY DEF Inv
<1>2. QED
    BY <1>1, InvInit, InvStep, PTL DEF Spec

-----------------------------------------------------------------------------
(* The dict implements the contract. *)

\* Every lookup's purge leaves nothing that had lapsed when it began.
LEMMA PurgeStep == Inv /\ [Next]_vars =>
    (reply' # reply /\ reply'.op # "delete" =>
        \A k \in Key : records'[k] # NoRecord => records'[k].expiry > clock)
<1> SUFFICES ASSUME Inv, [Next]_vars, reply' # reply, reply'.op # "delete",
                    NEW j \in Key, records'[j] # NoRecord
             PROVE  records'[j].expiry > clock
    OBVIOUS
<1>1. PICK t \in Instant : t >= clock /\ \E k \in Key, m \in CleanupCandidates : Lookup(k, t, m)
    BY DEF Next, vars, Tick, delete, Answer
<1>2. PICK k \in Key, m \in CleanupCandidates : Lookup(k, t, m)
    BY <1>1
<1>3. \A i \in Key : Looked(k, t)[i] # NoRecord =>
          Looked(k, t)[i] = records[i] /\ records[i].expiry > clock
    BY <1>1, LookedDict
<1>4. Looked(k, t) \in [Key -> Record \cup {NoRecord}]
    BY <1>1, LookedDict
<1>5. CASE Leave(k, t, m)
    BY <1>3, <1>5 DEF Leave
<1>6. CASE \E d \in Data, v \in Nat, ttl \in Ttl : Store(k, d, v, ttl, t, m)
    <2>1. PICK d \in Data, v \in Nat, ttl \in Ttl : Store(k, d, v, ttl, t, m)
        BY <1>6
    <2>2. t + ttl > clock
        BY <1>1, MemoryConstants DEF Inv, TypeOK, Instant
    <2>3. CASE j = k
        BY <2>1, <2>2, <2>3, <1>4 DEF Store
    <2>4. CASE j # k
        BY <2>1, <2>4, <1>3, <1>4 DEF Store
    <2>5. QED
        BY <2>3, <2>4
<1>7. QED
    BY <1>1, <1>2, <1>5, <1>6, LookupStoresOrLeaves

\* MemorySessionStore.live purges before it answers: after any lookup the dict
\* holds no record that had lapsed when the call began.
THEOREM LookupPurges == Spec => ExpiredArePurged
BY InvInit, InvStep, PurgeStep, PTL DEF Spec, ExpiredArePurged

\* What is alive at t is what was alive at clock and still is at t, and a
\* lookup of k at t leaves, and finds, exactly that.
LEMMA AliveRecords ==
    ASSUME Inv, NEW k \in Key, NEW t \in Instant, t >= clock
    PROVE  /\ Contract!AliveAt(AliveAt(records, clock), t) = AliveAt(records, t)
           /\ AliveAt(records, t)[k] = Looked(k, t)[k]
           /\ AliveAt(Looked(k, t), t) = AliveAt(records, t)
<1>1. clock \in Nat /\ t \in Nat /\ \A j \in Key : records[j] # NoRecord => records[j].expiry \in Nat
    BY DEF Inv, TypeOK, Instant, Record
<1>2. /\ \A j \in Key : Looked(k, t)[j] # NoRecord =>
             Looked(k, t)[j] = records[j] /\ records[j].expiry > clock
      /\ Looked(k, t)[k] # NoRecord => records[k].expiry > t
      /\ \A j \in Key : records[j] # NoRecord /\ records[j].expiry > t => Looked(k, t)[j] = records[j]
    BY LookedDict
<1>3. Contract!AliveAt(AliveAt(records, clock), t) = AliveAt(records, t)
    BY <1>1 DEF Contract!AliveAt, AliveAt
<1>4. AliveAt(records, t)[k] = Looked(k, t)[k]
    BY <1>1, <1>2 DEF AliveAt
<1>5. AliveAt(Looked(k, t), t) = AliveAt(records, t)
    BY <1>1, <1>2 DEF AliveAt
<1>6. QED
    BY <1>3, <1>4, <1>5

\* Storing a record that outlives t at k is storing it among those alive at t.
LEMMA StoredIsAlive ==
    ASSUME Inv, NEW k \in Key, NEW t \in Instant, t >= clock,
           NEW d \in Data, NEW v \in Nat, NEW ttl \in Ttl
    PROVE  AliveAt([Looked(k, t) EXCEPT ![k] = Contract!Fresh(d, v, t, ttl)], t)
               = [AliveAt(records, t) EXCEPT ![k] = Contract!Fresh(d, v, t, ttl)]
<1> DEFINE rec == Contract!Fresh(d, v, t, ttl)
<1>1. rec # NoRecord /\ rec.expiry > t
    <2>1. t + ttl \in Nat /\ t + ttl > t
        BY MemoryConstants DEF Instant
    <2>2. rec \in [data : Data, version : Nat, expiry : Nat]
        BY <2>1 DEF Contract!Fresh
    <2>3. QED
        BY <2>1, <2>2, MemoryConstants DEF Contract!Fresh
<1>2. /\ Looked(k, t) \in [Key -> Record \cup {NoRecord}]
      /\ AliveAt(Looked(k, t), t) = AliveAt(records, t)
    BY LookedDict, AliveRecords
<1>3. rec # NoRecord /\ rec.expiry > t => 
        AliveAt([Looked(k, t) EXCEPT ![k] = rec], t) = [AliveAt(Looked(k, t), t) EXCEPT ![k] = rec]
    <2> HIDE DEF rec
    <2>1. QED
        BY <1>2 DEF AliveAt
<1>4. QED
    BY <1>1, <1>2, <1>3

\* Every lookup is the contract's operation of the same name.
LEMMA LookupImplements ==
    ASSUME Inv, NEW k \in Key, NEW t \in Instant, t >= clock,
           NEW m \in CleanupCandidates, Lookup(k, t, m)
    PROVE  Contract!Operation(k, t)
<1> DEFINE now == AliveAt(records, t)
<1>1. /\ Contract!AliveAt(AliveAt(records, clock), t) = now
      /\ now[k] = Looked(k, t)[k]
      /\ AliveAt(Looked(k, t), t) = now
    BY AliveRecords
<1>2. Looked(k, t)[k] # NoRecord =>
          Looked(k, t)[k].data \in Data /\ Looked(k, t)[k].version \in Nat
    BY LookedDict DEF Record
<1>3. clock' = t
    BY LookupStoresOrLeaves
<1>4. Leave(k, t, m) => AliveAt(records, clock)' = now
    BY <1>1, <1>3 DEF Leave, AliveAt
<1>5. ASSUME NEW d \in Data, NEW v \in Nat, NEW ttl \in Ttl, Store(k, d, v, ttl, t, m)
      PROVE  AliveAt(records, clock)' = [now EXCEPT ![k] = Contract!Fresh(d, v, t, ttl)]
    <2>1. records' = [Looked(k, t) EXCEPT ![k] = Contract!Fresh(d, v, t, ttl)]
        BY <1>5 DEF Store, Contract!Fresh
    <2>2. AliveAt([Looked(k, t) EXCEPT ![k] = Contract!Fresh(d, v, t, ttl)], t)
              = [now EXCEPT ![k] = Contract!Fresh(d, v, t, ttl)]
        BY StoredIsAlive
    <2>3. QED
        BY <2>1, <2>2, <1>3 DEF AliveAt
<1> HIDE DEF now
<1>6. CASE \E d \in Data, ttl \in Ttl : create(k, d, ttl, t, m)
    <2>1. PICK d \in Data, ttl \in Ttl : create(k, d, ttl, t, m)
        BY <1>6
    <2>2. Contract!Create(k, d, ttl, t)
        BY <2>1, <1>1, <1>3, <1>4, <1>5 DEF create, Answer, Contract!Create, Contract!Answer
    <2>3. QED
        BY <2>2 DEF Contract!Operation
<1>7. CASE get(k, t, m)
    <2>1. Contract!Get(k, t)
        BY <1>7, <1>1, <1>3, <1>4 DEF get, Answer, Seen, Contract!Get, Contract!Answer, Contract!Seen
    <2>2. QED
        BY <2>1 DEF Contract!Operation
<1>8. CASE \E d \in Data, v \in 1..MaxVersion, ttl \in Ttl : save(k, d, v, ttl, t, m)
    <2>1. PICK d \in Data, v \in 1..MaxVersion, ttl \in Ttl : save(k, d, v, ttl, t, m)
        BY <1>8
    <2>2. v + 1 \in Nat
        BY MemoryConstants
    <2>3. Contract!Save(k, d, v, ttl, t)
        BY <2>1, <2>2, <1>1, <1>3, <1>4, <1>5 DEF save, Answer, Contract!Save, Contract!Answer
    <2>4. QED
        BY <2>3 DEF Contract!Operation
<1>9. CASE \E ttl \in Ttl : touch(k, ttl, t, m)
    <2>1. PICK ttl \in Ttl : touch(k, ttl, t, m)
        BY <1>9
    <2>2. Contract!Touch(k, ttl, t)
        BY <2>1, <1>1, <1>2, <1>3, <1>4, <1>5 DEF touch, Answer, Contract!Touch, Contract!Answer
    <2>3. QED
        BY <2>2 DEF Contract!Operation
<1>10. QED
    BY <1>6, <1>7, <1>8, <1>9 DEF Lookup

LEMMA DeleteImplements ==
    ASSUME Inv, NEW k \in Key, NEW t \in Instant, t >= clock, delete(k, t)
    PROVE  Contract!Delete(k, t)
<1>1. Contract!AliveAt(AliveAt(records, clock), t) = AliveAt(records, t)
    BY AliveRecords
<1>2. AliveAt(records, clock)' = [AliveAt(records, t) EXCEPT ![k] = NoRecord]
    BY DEF delete, AliveAt, Inv, TypeOK
<1>3. QED
    BY <1>1, <1>2 DEF delete, Answer, Contract!Delete, Contract!Answer

LEMMA TickImplements ==
    ASSUME Inv, NEW t \in Instant, t >= clock, Tick(t)
    PROVE  Contract!Pass(t)
<1>1. Contract!AliveAt(AliveAt(records, clock), t) = AliveAt(records, t)
    BY DEF Inv, TypeOK, Instant, Record, Contract!AliveAt, AliveAt
<1>2. QED
    BY <1>1 DEF Tick, Contract!Pass, AliveAt

LEMMA StepImplements == Inv /\ [Next]_vars => [Contract!Next]_(Contract!vars)
<1> SUFFICES ASSUME Inv, [Next]_vars PROVE [Contract!Next]_(Contract!vars)
    OBVIOUS
<1>1. CASE UNCHANGED vars
    BY <1>1 DEF vars, Contract!vars, AliveAt
<1>2. CASE Next
    <2>1. PICK t \in Instant :
              /\ t >= clock
              /\ \/ Tick(t)
                 \/ \E k \in Key : delete(k, t) \/ \E m \in CleanupCandidates : Lookup(k, t, m)
        BY <1>2 DEF Next
    <2>2. Contract!Pass(t) \/ \E k \in Key : Contract!Operation(k, t)
        BY <2>1, TickImplements, DeleteImplements, LookupImplements DEF Contract!Operation
    <2>3. QED
        BY <2>1, <2>2 DEF Contract!Next, Contract!Instant, Instant
<1>3. QED
    BY <1>1, <1>2

LEMMA InitImplements == Init => Contract!Init
BY DEF Init, Contract!Init, AliveAt

\* The MemorySessionStore dict, purged lazily, answers every call as the
\* SessionStore protocol promises.
THEOREM MemoryStoreImplementsContract == Spec => ImplementsContract
BY InvInit, InvStep, StepImplements, InitImplements, PTL
   DEF Spec, ImplementsContract, Contract!Spec

-----------------------------------------------------------------------------
(* PostgreSQL's sessions.  A transaction's now() is never ahead of the     *)
(* clock, and between the second check of a sweep and its end the lock     *)
(* keeps the time of the last sweep as it was.                             *)

NowIsPast == \A w \in Worker : tx[w] # NoRow => tx[w].now <= pg_clock

\* A save names a version that has a successor.
SavesHaveRoom == \A w \in Worker : P!Running(w, "save") => tx[w].expected < MaxSave

SweeperHasTheLock ==
    \A w \in Worker :
        /\ P!Running(w, "recheck") \/ P!Running(w, "purge") <=> sweep_lock = w
        /\ P!Running(w, "purge") => P!Due(tx[w].now)

PgIInv == P!TypeOK /\ NowIsPast /\ SavesHaveRoom /\ SweeperHasTheLock

LEMMA PgInit == P!Init => PgIInv
    BY StorageConstants
    DEF P!Init, PgIInv, P!TypeOK, NowIsPast, SavesHaveRoom, SweeperHasTheLock, P!Running

\* What an open transaction is.
LEMMA PgCalls ==
    ASSUME P!TypeOK, NEW w \in Worker, tx[w] # NoRow
    PROVE  /\ tx[w].op \in {"create", "save", "touch", "delete"} => tx[w] \in P!Call
           /\ tx[w].op \in {"due", "lock", "recheck", "purge"} => tx[w] \in P!Sweep
           /\ tx[w].now \in 0..Long
    BY DEF P!TypeOK, P!Call, P!Sweep

\* A transaction that begins, or moves on, at its clock's time.
LEMMA PgBegins ==
    ASSUME PgIInv, NEW w \in Worker, NEW c \in P!Call \cup P!Sweep,
           c.now <= pg_clock,
           c.op = "save" => c.expected < MaxSave,
           c.op \in {"recheck", "purge"} <=> sweep_lock' = w,
           c.op = "purge" => P!Due(c.now),
           \A u \in Worker \ {w} : sweep_lock' = u <=> sweep_lock = u,
           sweep_lock' \in Worker \cup {NoRow},
           tx' = [tx EXCEPT ![w] = c],
           UNCHANGED <<pg_clock, sessions, swept>>
    PROVE  PgIInv'
<1>1. tx'[w] = c /\ \A u \in Worker \ {w} : tx'[u] = tx[u]
    BY DEF PgIInv, P!TypeOK
<1>2. c # NoRow
    BY StorageConstants
<1>3. P!TypeOK'
    BY DEF PgIInv, P!TypeOK
<1>4. NowIsPast' /\ SavesHaveRoom'
    BY <1>1, <1>2 DEF PgIInv, NowIsPast, SavesHaveRoom, P!Running
<1>5. SweeperHasTheLock'
    BY <1>1, <1>2 DEF PgIInv, SweeperHasTheLock, P!Running, P!Due
<1> QED
    BY <1>3, <1>4, <1>5 DEF PgIInv

\* A transaction that ends.
LEMMA PgEnds ==
    ASSUME PgIInv, NEW w \in Worker,
           tx' = [tx EXCEPT ![w] = NoRow],
           sweep_lock' = (IF sweep_lock = w THEN NoRow ELSE sweep_lock),
           sessions' \in [RowKey -> P!Row \cup {NoRow}],
           swept' = swept \/ (sweep_lock = w /\ swept' \in 0..Long),
           UNCHANGED pg_clock
    PROVE  PgIInv'
<1>1. tx'[w] = NoRow /\ \A u \in Worker \ {w} : tx'[u] = tx[u]
    BY DEF PgIInv, P!TypeOK
<1>2. P!TypeOK'
    BY DEF PgIInv, P!TypeOK
<1>3. NowIsPast' /\ SavesHaveRoom'
    BY <1>1 DEF PgIInv, NowIsPast, SavesHaveRoom, P!Running
<1>4. \A u \in Worker : sweep_lock' = u => sweep_lock = u /\ u # w
    BY StorageConstants
<1>5. SweeperHasTheLock'
    BY <1>1, <1>4 DEF PgIInv, SweeperHasTheLock, P!Running, P!Due
<1> QED
    BY <1>2, <1>3, <1>5 DEF PgIInv

LEMMA PgStatement ==
    ASSUME PgIInv, NEW w \in Worker, P!Statement(w)
    PROVE  PgIInv'
<1>1. PICK o \in {"create", "save", "touch", "delete"} : P!Running(w, o)
    BY DEF P!Statement, P!create, P!save, P!touch, P!delete
<1>2. tx[w] \in P!Call /\ tx[w] # NoRow
    BY <1>1, PgCalls DEF P!Running, PgIInv
<1>3. PICK k \in RowKey : k = tx[w].key
    BY <1>2 DEF P!Call
<1>4. sweep_lock # w
    BY <1>1 DEF PgIInv, SweeperHasTheLock, P!Running
<1>5. tx[w].now + tx[w].ttl \in Nat
    BY <1>2, StorageConstants DEF P!Call
<1>6. sessions' \in [RowKey -> P!Row \cup {NoRow}]
    <2>1. CASE P!create(w)
        <3>1. [version |-> 1, expiry |-> tx[w].now + tx[w].ttl] \in P!Row
            BY <1>5, StorageConstants DEF P!Row
        <3> QED
            BY <2>1, <3>1, <1>3 DEF P!create, P!Commit, PgIInv, P!TypeOK
    <2>2. CASE P!save(w)
        <3>1. [version |-> tx[w].expected + 1, expiry |-> tx[w].now + tx[w].ttl] \in P!Row
            BY <2>2, <1>2, <1>5, StorageConstants DEF P!Row, P!Call, P!save, PgIInv, SavesHaveRoom
        <3> QED
            BY <2>2, <3>1, <1>3 DEF P!save, P!Commit, PgIInv, P!TypeOK
    <2>3. CASE P!touch(w)
        <3>1. sessions[k] # NoRow =>
                [sessions[k] EXCEPT !.expiry = tx[w].now + tx[w].ttl] \in P!Row
            BY <1>5 DEF P!Row, PgIInv, P!TypeOK
        <3> QED
            BY <2>3, <3>1, <1>3 DEF P!touch, P!Commit, P!Unexpired, PgIInv, P!TypeOK
    <2>4. CASE P!delete(w)
        BY <2>4, <1>3 DEF P!delete, P!Commit, PgIInv, P!TypeOK
    <2> QED
        BY <2>1, <2>2, <2>3, <2>4 DEF P!Statement
<1>7. tx' = [tx EXCEPT ![w] = NoRow] /\ UNCHANGED <<pg_clock, swept, sweep_lock>>
    BY DEF P!Statement, P!create, P!save, P!touch, P!delete, P!Commit
<1> QED
    BY <1>4, <1>6, <1>7, PgEnds

LEMMA PgBeginCall ==
    ASSUME PgIInv, NEW w \in Worker, P!BeginCall(w)
    PROVE  PgIInv'
<1>1. PICK k \in RowKey, o \in {"create", "save", "touch", "delete"}, ttl \in PgTtl, v \in 1..MaxSave :
          P!Begin(w, o, k, ttl, v) /\ (o = "save" => v < MaxSave)
    BY StorageConstants DEF P!BeginCall
<1> DEFINE c == [op |-> o, key |-> k, ttl |-> ttl, expected |-> v, now |-> pg_clock]
<1>2. c \in P!Call /\ c.now = pg_clock /\ c.op = o /\ c.expected = v
    BY DEF P!Call, PgIInv, P!TypeOK
<1>3. tx[w] = NoRow /\ tx' = [tx EXCEPT ![w] = c] /\ UNCHANGED <<pg_clock, sessions, swept, sweep_lock>>
    BY <1>1 DEF P!Begin
<1>4. sweep_lock # w
    BY <1>3 DEF PgIInv, SweeperHasTheLock, P!Running
<1>5. pg_clock \in Nat /\ sweep_lock \in Worker \cup {NoRow}
    BY StorageConstants DEF PgIInv, P!TypeOK
<1> HIDE DEF c
<1>6. /\ c \in P!Call \cup P!Sweep /\ c.now <= pg_clock
      /\ c.op = "save" => c.expected < MaxSave
      /\ c.op \notin {"recheck", "purge"} /\ sweep_lock' # w
      /\ sweep_lock' \in Worker \cup {NoRow}
      /\ \A u \in Worker \ {w} : sweep_lock' = u <=> sweep_lock = u
    BY <1>1, <1>2, <1>3, <1>4, <1>5
<1> QED
    BY <1>3, <1>6, PgBegins

LEMMA PgSweeping ==
    ASSUME PgIInv, NEW w \in Worker, P!Sweeping(w)
    PROVE  PgIInv'
<1>0. pg_clock \in 0..Long /\ pg_clock \in Nat /\ sweep_lock \in Worker \cup {NoRow}
    BY StorageConstants DEF PgIInv, P!TypeOK
<1>1. ASSUME NEW o \in {"due", "lock"}, P!BeginSweep(w, o), sweep_lock # w PROVE PgIInv'
    <2> DEFINE c == [op |-> o, now |-> pg_clock]
    <2>1. c \in P!Sweep /\ c.now = pg_clock /\ c.op = o
        BY <1>0 DEF P!Sweep
    <2>2. tx' = [tx EXCEPT ![w] = c] /\ UNCHANGED <<pg_clock, sessions, swept, sweep_lock>>
        BY <1>1 DEF P!BeginSweep
    <2>3. /\ c \in P!Call \cup P!Sweep /\ c.now <= pg_clock
          /\ c.op # "save" /\ c.op \notin {"recheck", "purge"} /\ sweep_lock' # w
          /\ sweep_lock' \in Worker \cup {NoRow}
          /\ \A u \in Worker \ {w} : sweep_lock' = u <=> sweep_lock = u
        BY <1>0, <1>1, <2>1, <2>2
    <2> HIDE DEF c
    <2> QED
        BY <2>2, <2>3, PgBegins
<1>2. ASSUME NEW o \in {"recheck", "purge"}, tx[w] # NoRow, tx[w].op \in {"lock", "recheck"},
             tx' = [tx EXCEPT ![w].op = o], sweep_lock' = w,
             sweep_lock = w \/ sweep_lock = NoRow,
             o = "purge" => P!Due(tx[w].now),
             UNCHANGED <<pg_clock, sessions, swept>>
      PROVE  PgIInv'
    <2> DEFINE c == [tx[w] EXCEPT !.op = o]
    <2>1. tx[w] \in P!Sweep
        BY <1>2, PgCalls DEF PgIInv
    <2>2. c \in P!Sweep /\ c.now = tx[w].now /\ c.op = o /\ c.now <= pg_clock
        BY <2>1, <1>2 DEF P!Sweep, PgIInv, NowIsPast
    <2>3. tx' = [tx EXCEPT ![w] = c]
        BY <1>2
    <2>4. /\ c \in P!Call \cup P!Sweep /\ c.op # "save"
          /\ c.op \in {"recheck", "purge"} /\ sweep_lock' = w
          /\ c.op = "purge" => P!Due(c.now)
          /\ sweep_lock' \in Worker \cup {NoRow}
          /\ \A u \in Worker \ {w} : sweep_lock' = u <=> sweep_lock = u
        BY <1>2, <2>2, StorageConstants
    <2> HIDE DEF c
    <2> QED
        BY <1>2, <2>2, <2>3, <2>4, PgBegins
<1>3. CASE P!StartSweep(w)
    BY <1>3, <1>1 DEF P!StartSweep, PgIInv, SweeperHasTheLock, P!Running
<1>4. CASE P!FirstCheck(w)
    <2>1. tx[w] # NoRow /\ tx[w].op = "due" /\ sweep_lock # w
        BY <1>4 DEF P!FirstCheck, PgIInv, SweeperHasTheLock, P!Running
    <2>2. CASE P!Due(tx[w].now)
        BY <1>4, <1>1, <2>1, <2>2 DEF P!FirstCheck
    <2>3. CASE ~P!Due(tx[w].now)
        BY <1>4, <2>1, <2>3, PgEnds DEF P!FirstCheck, PgIInv, P!TypeOK
    <2> QED
        BY <2>2, <2>3
<1>5. CASE P!TryLock(w)
    <2>1. tx[w] # NoRow /\ tx[w].op = "lock" /\ sweep_lock # w
        BY <1>5 DEF P!TryLock, PgIInv, SweeperHasTheLock, P!Running
    <2>2. CASE sweep_lock = NoRow
        BY <1>5, <1>2, <2>1, <2>2 DEF P!TryLock
    <2>3. CASE sweep_lock # NoRow
        BY <1>5, <2>1, <2>3, PgEnds DEF P!TryLock, PgIInv, P!TypeOK
    <2> QED
        BY <2>2, <2>3
<1>6. CASE P!SecondCheck(w)
    <2>1. tx[w] # NoRow /\ tx[w].op = "recheck" /\ sweep_lock = w
        BY <1>6 DEF P!SecondCheck, PgIInv, SweeperHasTheLock, P!Running
    <2>2. CASE P!Due(tx[w].now)
        BY <1>6, <1>2, <2>1, <2>2 DEF P!SecondCheck
    <2>3. CASE ~P!Due(tx[w].now)
        BY <1>6, <2>1, <2>3, PgEnds DEF P!SecondCheck, PgIInv, P!TypeOK
    <2> QED
        BY <2>2, <2>3
<1>7. CASE P!FinishSweep(w)
    <2>1. tx[w] # NoRow /\ sweep_lock = w
        BY <1>7 DEF P!FinishSweep, PgIInv, SweeperHasTheLock, P!Running
    <2>2. tx[w].now \in 0..Long
        BY <2>1, PgCalls DEF PgIInv
    <2>3. sessions' \in [RowKey -> P!Row \cup {NoRow}]
        BY <1>7 DEF P!FinishSweep, PgIInv, P!TypeOK
    <2> QED
        BY <1>7, <2>1, <2>2, <2>3, PgEnds DEF P!FinishSweep
<1> QED
    BY <1>3, <1>4, <1>5, <1>6, <1>7 DEF P!Sweeping

LEMMA PgStep == PgIInv /\ [P!Next]_(P!vars) => PgIInv'
<1> SUFFICES ASSUME PgIInv, [P!Next]_(P!vars) PROVE PgIInv'
    OBVIOUS
<1>1. CASE P!Tick
    BY <1>1, StorageConstants
    DEF P!Tick, PgIInv, P!TypeOK, NowIsPast, SavesHaveRoom, SweeperHasTheLock, P!Running, P!Due, P!Sweep, P!Call
<1>2. ASSUME NEW w \in Worker, P!Rollback(w) PROVE PgIInv'
    BY <1>2, PgEnds DEF P!Rollback, PgIInv, P!TypeOK
<1>3. CASE UNCHANGED P!vars
    BY <1>3 DEF P!vars, PgIInv, P!TypeOK, NowIsPast, SavesHaveRoom, SweeperHasTheLock, P!Running, P!Due
<1> QED
    BY <1>1, <1>2, <1>3, PgBeginCall, PgStatement, PgSweeping DEF P!Next

\* The check that counts is the one under the lock: nobody else sets `swept`
\* between it and the end of the sweep.
LEMMA PgSweepsApart ==
    ASSUME PgIInv, [P!Next]_(P!vars), swept' # swept, swept # NoRow
    PROVE  swept' >= swept + Every
<1>1. PICK w \in Worker : P!FinishSweep(w)
    BY DEF P!Next, P!vars, P!Tick, P!BeginCall, P!Begin, P!Statement, P!create, P!save, P!touch,
        P!delete, P!Commit, P!Sweeping, P!StartSweep, P!BeginSweep, P!FirstCheck, P!TryLock,
        P!SecondCheck, P!Rollback
<1>2. swept' = tx[w].now /\ P!Due(tx[w].now)
    BY <1>1 DEF P!FinishSweep, PgIInv, SweeperHasTheLock
<1>3. tx[w].now \in 0..Long /\ swept \in 0..Long
    BY <1>1, PgCalls DEF P!FinishSweep, P!Running, PgIInv, P!TypeOK
<1> QED
    BY <1>2, <1>3, StorageConstants DEF P!Due

\* What a step may do to a live row.
PgRowKept(k) ==
    \/ sessions'[k] = sessions[k]
    \/ \E w \in Worker : P!Ends(w, "delete", k)
    \/ \E w \in Worker : /\ P!Ends(w, "touch", k) /\ (P!InTime(w) => P!Alive(k)')
                         /\ sessions'[k].version = sessions[k].version
    \/ \E w \in Worker : /\ P!Ends(w, "save", k) /\ (P!InTime(w) => P!Alive(k)')
                         /\ tx[w].expected = sessions[k].version
                         /\ sessions'[k].version = sessions[k].version + 1

\* Every step keeps a live row in that sense.
LEMMA PgLiveRow ==
    ASSUME PgIInv, [P!Next]_(P!vars), NEW k \in RowKey, P!Alive(k)
    PROVE  PgRowKept(k)
<1>0. /\ sessions[k] \in P!Row /\ sessions[k] # NoRow /\ sessions[k].expiry \in Nat
      /\ sessions[k].expiry > pg_clock /\ pg_clock \in Nat
      /\ sessions \in [RowKey -> P!Row \cup {NoRow}] /\ tx \in [Worker -> P!Call \cup P!Sweep \cup {NoRow}]
    BY StorageConstants DEF P!Alive, PgIInv, P!TypeOK, P!Row
<1>1. \A w \in Worker : tx[w] # NoRow => tx[w].now \in Nat /\ sessions[k].expiry > tx[w].now
    BY <1>0, PgCalls DEF PgIInv, NowIsPast
<1>2. ASSUME NEW w \in Worker, P!create(w) PROVE sessions'[k] = sessions[k]
    BY <1>0, <1>1, <1>2 DEF P!create, P!Running, P!Commit
<1>3. ASSUME NEW w \in Worker, P!save(w) PROVE PgRowKept(k)
    <2>1. P!Running(w, "save") /\ tx[w] \in P!Call /\ tx'[w] = NoRow
        BY <1>0, <1>3, PgCalls DEF P!save, P!Commit, P!Running, PgIInv
    <2>2. PICK j \in RowKey : j = tx[w].key
        BY <2>1 DEF P!Call
    <2> DEFINE row == [version |-> tx[w].expected + 1, expiry |-> tx[w].now + tx[w].ttl]
    <2>3. CASE sessions' = sessions
        BY <2>3 DEF PgRowKept
    <2>4. CASE sessions[j].version = tx[w].expected /\ sessions' = [sessions EXCEPT ![j] = row]
        <3>1. CASE j # k
            BY <1>0, <2>4, <3>1 DEF PgRowKept
        <3>2. CASE j = k
            <4>1. sessions'[k] = row /\ tx[w].expected = sessions[k].version
                BY <1>0, <2>4, <3>2
            <4>2. pg_clock' = pg_clock
                BY <1>3 DEF P!save, P!Commit
            <4>3. sessions'[k] # NoRow
                <5>1. tx[w].now + tx[w].ttl \in Nat /\ tx[w].expected + 1 \in 1..MaxSave
                    BY <1>3, <2>1, StorageConstants, PgIInv DEF P!Call, PgIInv, SavesHaveRoom, P!Running
                <5>2. row \in P!Row
                    BY <5>1 DEF P!Row
                <5> QED
                    BY <4>1, <5>2, StorageConstants
            <4>4. P!InTime(w) => P!Alive(k)'
                BY <4>1, <4>2, <4>3 DEF P!InTime, P!Alive
            <4>5. sessions'[k].version = sessions[k].version + 1
                BY <4>1
            <4>6. P!Ends(w, "save", k)
                BY <2>1, <2>2, <3>2 DEF P!Ends
            <4> QED
                BY <4>1, <4>4, <4>5, <4>6 DEF PgRowKept
        <3> QED
            BY <3>1, <3>2
    <2> QED
        BY <1>3, <2>2, <2>3, <2>4 DEF P!save, P!Commit
<1>4. ASSUME NEW w \in Worker, P!touch(w) PROVE PgRowKept(k)
    <2>1. P!Running(w, "touch") /\ tx[w] \in P!Call /\ tx'[w] = NoRow
        BY <1>0, <1>4, PgCalls DEF P!touch, P!Commit, P!Running, PgIInv
    <2>2. PICK j \in RowKey : j = tx[w].key
        BY <2>1 DEF P!Call
    <2> DEFINE row == [sessions[j] EXCEPT !.expiry = tx[w].now + tx[w].ttl]
    <2>3. sessions' = sessions \/ (sessions[j] # NoRow /\ sessions' = [sessions EXCEPT ![j] = row])
        BY <1>4, <2>2 DEF P!touch, P!Commit, P!Unexpired
    <2>4. CASE j = k /\ sessions' = [sessions EXCEPT ![j] = row]
        <3>1. tx[w].now + tx[w].ttl \in Nat
            BY <2>1, StorageConstants DEF P!Call
        <3>2. /\ row \in P!Row /\ row.version = sessions[k].version
              /\ row.expiry = tx[w].now + tx[w].ttl
            BY <1>0, <2>4, <3>1 DEF P!Row
        <3>3. sessions'[k] = row /\ sessions'[k] # NoRow
            BY <1>0, <2>4, <3>2, StorageConstants
        <3>4. pg_clock' = pg_clock
            BY <1>4 DEF P!touch, P!Commit
        <3> HIDE DEF row
        <3>5. P!InTime(w) => P!Alive(k)'
            BY <3>2, <3>3, <3>4 DEF P!InTime, P!Alive
        <3>6. P!Ends(w, "touch", k)
            BY <2>1, <2>2, <2>4 DEF P!Ends
        <3> QED
            BY <3>2, <3>3, <3>5, <3>6 DEF PgRowKept
    <2> HIDE DEF row
    <2>5. CASE j # k
        BY <1>0, <2>3, <2>5 DEF PgRowKept
    <2>6. CASE sessions' = sessions
        BY <2>6 DEF PgRowKept
    <2> QED
        BY <2>3, <2>4, <2>5, <2>6
<1>5. ASSUME NEW w \in Worker, P!delete(w) PROVE PgRowKept(k)
    BY <1>0, <1>5 DEF P!delete, P!Running, P!Commit, P!Ends, PgRowKept
<1>6. ASSUME NEW w \in Worker, P!FinishSweep(w) PROVE sessions'[k] = sessions[k]
    BY <1>0, <1>1, <1>6 DEF P!FinishSweep, P!Running, P!Unexpired
<1>7. CASE sessions' = sessions
    BY <1>7 DEF PgRowKept
<1>8. sessions'[k] = sessions[k] => PgRowKept(k)
    BY DEF PgRowKept
<1> QED
    BY <1>2, <1>3, <1>4, <1>5, <1>6, <1>7, <1>8
    DEF P!Next, P!vars, P!Tick, P!BeginCall, P!Begin, P!Statement, P!Sweeping, P!StartSweep,
        P!BeginSweep, P!FirstCheck, P!TryLock, P!SecondCheck, P!Rollback

\* Rows, transactions, and the sweep lock with its worker.
THEOREM PgTypeCorrect == P!Spec => []P!TypeOK
<1>1. PgIInv => P!TypeOK
    BY DEF PgIInv
<1> QED
    BY PgInit, PgStep, <1>1, PTL DEF P!Spec

\* sweep_if_due: "once per interval across all workers".
THEOREM PgSweepsOncePerInterval == P!Spec => P!OneSweepPerInterval
<1>1. PgIInv /\ [P!Next]_(P!vars) => (swept' # swept /\ swept # NoRow => swept' >= swept + Every)
    BY PgSweepsApart
<1> QED
    BY PgInit, PgStep, <1>1, PTL DEF P!Spec, P!OneSweepPerInterval

\* No sweep or create ends a live session by a stale now(), and a save or touch
\* of it only when its own lifetime ran out while it waited.
THEOREM PgLiveSessionSurvives == P!Spec => P!LiveSessionSurvives
<1>1. PgIInv /\ [P!Next]_(P!vars) => \A k \in RowKey : P!Alive(k) => PgRowKept(k)
    BY PgLiveRow
<1> QED
    BY PgInit, PgStep, <1>1, PTL DEF P!Spec, P!LiveSessionSurvives, PgRowKept

-----------------------------------------------------------------------------
(* PostgreSQL's hub.  Whoever has inserted a row holds its topic's lock    *)
(* until it commits, and so no row of the topic commits in between: an     *)
(* inserted id exceeds all those a reader of the topic can have seen.      *)

HubTypes ==
    /\ next_id \in 1..(MaxId + 1)
    /\ committed \subseteq H!Row
    /\ readable \subseteq {row.id : row \in committed}
    /\ lock \in [Topic -> Publisher \cup {Nowhere}]
    /\ pub \in [Publisher -> [step : {"none", "lock", "insert", "commit"},
                              topic : Topic \cup {Nowhere}, id : 0..MaxId]]
    /\ cursor \in [Reader -> 0..MaxId \cup {Nowhere}]
    /\ following \in [Reader -> Topic \cup {Nowhere}]

LocksAreHeld ==
    \A p \in Publisher :
        /\ pub[p].step # "none" => pub[p].topic \in Topic
        /\ pub[p].step \in {"insert", "commit"} => lock[pub[p].topic] = p

IdsAreFresh ==
    /\ \A row \in committed : row.id < next_id
    /\ \A p \in Publisher : pub[p].step = "commit" =>
          /\ pub[p].id \in 1..(next_id - 1)
          /\ \A row \in committed : row.topic = pub[p].topic => row.id < pub[p].id

CursorsArePublished ==
    \A r \in Reader : following[r] # Nowhere =>
        cursor[r] = 0 \/ cursor[r] \in H!Published(following[r])

HubIInv == HubTypes /\ LocksAreHeld /\ IdsAreFresh /\ CursorsArePublished

LEMMA HubInit == H!Init => HubIInv
    BY StorageConstants
    DEF H!Init, H!NoTx, HubIInv, HubTypes, LocksAreHeld, IdsAreFresh, CursorsArePublished

\* The largest of finitely many numbers is one of them.
LEMMA LargestMember ==
    ASSUME NEW n \in Nat, NEW M \in SUBSET (0..n), M # {}
    PROVE  \E m \in M : \A i \in M : i <= m
<1>1. IsWellFoundedOn(OpToRel(<, Nat), Nat)
    BY NatLessThanWellFounded
<1> DEFINE T == {n - i : i \in M}
<1>2. \A i \in M : i \in Nat /\ n - i \in Nat
    OBVIOUS
<1>3. T \subseteq Nat /\ T # {}
    BY <1>2
<1>4. \E x \in T : \A y \in T : <<y, x>> \notin OpToRel(<, Nat)
    BY <1>1, <1>3, WFMin
<1>5. PICK x \in T : \A y \in T : ~(y < x)
    BY <1>3, <1>4 DEF OpToRel
<1>6. PICK m \in M : x = n - m
    OBVIOUS
<1>7. ASSUME NEW i \in M PROVE i <= m
    <2>1. ~(n - i < n - m)
        BY <1>5, <1>6
    <2>2. i \in Nat /\ m \in Nat
        BY <1>2
    <2> HIDE DEF T
    <2> QED
        BY <2>1, <2>2
<1> QED
    BY <1>7

\* max() of the ids of a topic is one of them.
LEMMA MaxOfIds ==
    ASSUME NEW M \in SUBSET (1..MaxId), M # {}
    PROVE  H!Max(M) \in M /\ \A i \in M : i <= H!Max(M)
<1>1. M \in SUBSET (0..MaxId) /\ MaxId \in Nat
    BY StorageConstants
<1>2. PICK m \in M : \A i \in M : i <= m
    BY <1>1, LargestMember
<1>3. \A i \in M : i \in Nat /\ m >= i
    BY <1>1, <1>2
<1> QED
    BY <1>2, <1>3 DEF H!Max

LEMMA HubStep == HubIInv /\ [H!Next]_(H!vars) => HubIInv'
<1> SUFFICES ASSUME HubIInv, [H!Next]_(H!vars) PROVE HubIInv'
    OBVIOUS
<1> USE StorageConstants DEF HubIInv
<1>1. ASSUME NEW p \in Publisher, NEW t \in Topic, H!Begin(p, t) PROVE HubIInv'
    <2>1. /\ pub' = [pub EXCEPT ![p] = [step |-> "lock", topic |-> t, id |-> 0]]
          /\ UNCHANGED <<next_id, committed, readable, lock, cursor, following>>
        BY <1>1 DEF H!Begin
    <2>2. HubTypes' /\ LocksAreHeld'
        BY <2>1 DEF HubTypes, LocksAreHeld
    <2>3. IdsAreFresh' /\ CursorsArePublished'
        BY <2>1 DEF HubTypes, IdsAreFresh, CursorsArePublished, H!Published
    <2> QED
        BY <2>2, <2>3
<1>2. ASSUME NEW p \in Publisher, H!TakeLock(p) PROVE HubIInv'
    <2>1. PICK t \in Topic : t = pub[p].topic
        BY <1>2 DEF H!TakeLock, LocksAreHeld
    <2>2. /\ pub[p].step = "lock" /\ lock[t] = Nowhere
          /\ lock' = [lock EXCEPT ![t] = p]
          /\ pub' = [pub EXCEPT ![p].step = "insert"]
          /\ UNCHANGED <<next_id, committed, readable, cursor, following>>
        BY <1>2, <2>1 DEF H!TakeLock
    <2>3. /\ pub'[p].step = "insert" /\ pub'[p].topic = t
          /\ \A q \in Publisher : q # p => pub'[q] = pub[q]
        BY <2>1, <2>2 DEF HubTypes
    <2>4. HubTypes'
        BY <2>1, <2>2 DEF HubTypes
    <2>5. LocksAreHeld'
        BY <2>1, <2>2, <2>3 DEF HubTypes, LocksAreHeld
    <2>6. IdsAreFresh' /\ CursorsArePublished'
        BY <2>2, <2>3 DEF IdsAreFresh, CursorsArePublished, H!Published
    <2> QED
        BY <2>4, <2>5, <2>6
<1>3. ASSUME NEW p \in Publisher, H!Insert(p) PROVE HubIInv'
    <2>1. /\ pub[p].step = "insert" /\ next_id <= MaxId /\ next_id' = next_id + 1
          /\ pub' = [pub EXCEPT ![p] = [@ EXCEPT !.step = "commit", !.id = next_id]]
          /\ UNCHANGED <<committed, readable, lock, cursor, following>>
        BY <1>3 DEF H!Insert, HubTypes
    <2>2. /\ pub'[p].step = "commit" /\ pub'[p].topic = pub[p].topic /\ pub'[p].id = next_id
          /\ \A q \in Publisher : q # p => pub'[q] = pub[q]
        BY <2>1 DEF HubTypes
    <2>3. HubTypes'
        <3>1. [pub[p] EXCEPT !.step = "commit", !.id = next_id]
                  \in [step : {"none", "lock", "insert", "commit"}, topic : Topic \cup {Nowhere}, id : 0..MaxId]
            <4>1. pub[p] \in [step : {"none", "lock", "insert", "commit"}, topic : Topic \cup {Nowhere}, id : 0..MaxId]
                BY DEF HubTypes
            <4>2. next_id \in 0..MaxId
                BY <2>1 DEF HubTypes
            <4> QED
                BY <4>1, <4>2
        <3>2. next_id' \in 1..(MaxId + 1)
            BY <2>1 DEF HubTypes
        <3> QED
            BY <2>1, <3>1, <3>2 DEF HubTypes
    <2>4. LocksAreHeld'
        BY <2>1, <2>2 DEF LocksAreHeld
    <2>5. IdsAreFresh'
        BY <2>1, <2>2 DEF HubTypes, IdsAreFresh, H!Row
    <2>6. CursorsArePublished'
        BY <2>1 DEF CursorsArePublished, H!Published
    <2> QED
        BY <2>3, <2>4, <2>5, <2>6
<1>4. ASSUME NEW p \in Publisher, H!End(p), UNCHANGED <<next_id, cursor, following>>,
             \/ UNCHANGED <<committed, readable>>
             \/ /\ pub[p].step = "commit"
                /\ committed' = committed \cup {[id |-> pub[p].id, topic |-> pub[p].topic]}
                /\ readable' = readable \cup {pub[p].id}
      PROVE  HubIInv'
    <2>1. /\ pub'[p].step = "none" /\ pub' = [pub EXCEPT ![p] = H!NoTx]
          /\ \A q \in Publisher : q # p => pub'[q] = pub[q]
          /\ \A t \in Topic : lock'[t] = IF lock[t] = p THEN Nowhere ELSE lock[t]
        BY <1>4 DEF H!End, H!NoTx, HubTypes
    <2> DEFINE new == [id |-> pub[p].id, topic |-> pub[p].topic]
    <2>2. pub[p].step = "commit" => new \in H!Row /\ new.id = pub[p].id /\ new.topic = pub[p].topic
        BY DEF H!Row, HubTypes, LocksAreHeld, IdsAreFresh
    <2>3. committed' = committed \/ (pub[p].step = "commit" /\ committed' = committed \cup {new})
        BY <1>4
    <2> HIDE DEF new
    <2>4. readable' \subseteq {row.id : row \in committed'}
        <3>1. CASE UNCHANGED <<committed, readable>>
            BY <3>1 DEF HubTypes
        <3>2. CASE pub[p].step = "commit" /\ readable' = readable \cup {pub[p].id} /\ committed' = committed \cup {new}
            BY <2>2, <3>2 DEF HubTypes
        <3> QED
            BY <1>4, <3>1, <3>2 DEF new
    <2>5. HubTypes'
        BY <1>4, <2>1, <2>2, <2>3, <2>4 DEF HubTypes, H!NoTx, H!End
    <2>6. LocksAreHeld'
        BY <2>1 DEF LocksAreHeld
    <2>7. IdsAreFresh'
        BY <1>4, <2>1, <2>2, <2>3 DEF IdsAreFresh, LocksAreHeld, HubTypes
    <2>8. CursorsArePublished'
        BY <1>4, <2>3 DEF CursorsArePublished, H!Published
    <2> QED
        BY <2>5, <2>6, <2>7, <2>8
<1>5. ASSUME NEW r \in Reader, NEW t \in Topic, H!Subscribe(r, t) PROVE HubIInv'
    <2>1. H!Readable(t) \subseteq H!Published(t) /\ H!Published(t) \subseteq 1..MaxId
        BY DEF H!Readable, H!Published, HubTypes, H!Row
    <2>2. PICK c \in {0} \cup H!Published(t) : cursor' = [cursor EXCEPT ![r] = c]
        BY <1>5, <2>1, MaxOfIds DEF H!Subscribe
    <2>3. /\ following' = [following EXCEPT ![r] = t]
          /\ UNCHANGED <<next_id, committed, readable, lock, pub>>
        BY <1>5 DEF H!Subscribe
    <2>4. HubTypes' /\ LocksAreHeld' /\ IdsAreFresh'
        BY <2>1, <2>2, <2>3 DEF HubTypes, LocksAreHeld, IdsAreFresh
    <2>5. cursor'[r] = c /\ following'[r] = t /\ \A q \in Reader \ {r} : UNCHANGED <<cursor[q], following[q]>>
        BY <2>2, <2>3 DEF HubTypes
    <2> QED
        BY <2>2, <2>3, <2>4, <2>5 DEF CursorsArePublished, H!Published
<1>6. ASSUME NEW r \in Reader, H!Poll(r) PROVE HubIInv'
    <2>1. PICK t \in Topic : t = following[r]
        BY <1>6 DEF H!Poll, HubTypes
    <2> DEFINE found == H!After(t, cursor[r])
    <2>2. /\ found # {} /\ cursor' = [cursor EXCEPT ![r] = H!Max(found)]
          /\ UNCHANGED <<next_id, committed, readable, lock, pub, following>>
        BY <1>6, <2>1 DEF H!Poll
    <2>3. found \subseteq H!Published(t) /\ H!Published(t) \subseteq 1..MaxId
        BY DEF H!After, H!Readable, H!Published, HubTypes, H!Row
    <2> HIDE DEF found
    <2>4. PICK c \in H!Published(t) : c = H!Max(found)
        BY <2>2, <2>3, MaxOfIds
    <2> QED
        BY <2>1, <2>2, <2>3, <2>4 DEF HubTypes, LocksAreHeld, IdsAreFresh, CursorsArePublished, H!Published
<1>7. CASE H!Sweep \/ \E t \in Topic : H!Delete(t)
    BY <1>7 DEF H!Sweep, H!Delete, HubTypes, LocksAreHeld, IdsAreFresh, CursorsArePublished, H!Published
<1>8. CASE UNCHANGED H!vars
    BY <1>8 DEF H!vars, HubTypes, LocksAreHeld, IdsAreFresh, CursorsArePublished, H!Published
<1> QED
    BY <1>1, <1>2, <1>3, <1>4, <1>5, <1>6, <1>7, <1>8 DEF H!Next, H!Publishing, H!Commit, H!Rollback

\* What a step adds to a topic is the id of the publisher that holds its lock.
LEMMA HubAppearsAhead ==
    ASSUME HubIInv, [H!Next]_(H!vars), NEW r \in Reader, following[r] # Nowhere,
           NEW i \in H!Published(following[r])', following'[r] = following[r],
           i \notin H!Published(following[r])
    PROVE  i > cursor[r]
<1>0. PICK t \in Topic : t = following[r]
    BY DEF HubIInv, HubTypes
<1>1. PICK row \in committed' : row.topic = t /\ row.id = i
    BY <1>0 DEF H!Published
<1>2. row \notin committed
    BY <1>0, <1>1 DEF H!Published
<1>3. PICK p \in Publisher : H!Commit(p)
    BY <1>2 DEF H!Next, H!Publishing, H!vars, H!Begin, H!TakeLock, H!Insert, H!Rollback, H!Subscribe,
        H!Poll, H!Sweep, H!Delete
<1>4. pub[p].step = "commit" /\ i = pub[p].id /\ pub[p].topic = t
    BY <1>1, <1>2, <1>3 DEF H!Commit
<1>5. cursor[r] = 0 \/ \E x \in committed : x.topic = t /\ x.id = cursor[r]
    BY <1>0 DEF HubIInv, CursorsArePublished, H!Published
<1> QED
    BY <1>4, <1>5 DEF HubIInv, IdsAreFresh, HubTypes

\* "A reader that moved past the higher id would never see the lower one":
\* publishers of one topic commit in the order of their ids.
THEOREM HubCommitsInOrder == H!Spec => H!NothingAppearsBehindACursor
<1>1. HubIInv /\ [H!Next]_(H!vars) =>
        \A r \in Reader : following[r] # Nowhere /\ following'[r] = following[r] =>
            \A i \in H!Published(following[r])' \ H!Published(following[r]) : i > cursor[r]
    BY HubAppearsAhead
<1> QED
    BY HubInit, HubStep, <1>1, PTL DEF H!Spec, H!NothingAppearsBehindACursor

-----------------------------------------------------------------------------
(* SQLite's sessions answer as the contract does: a row that has lapsed is *)
(* no row for any WHERE clause, swept or not.                              *)

LEMMA SqlInit == S!Init => S!TypeOK /\ S!Contract!Init
    BY StorageConstants DEF S!Init, S!TypeOK, S!Instant, S!Contract!Init, S!AliveAt

\* A statement's row is one of the table, and outlives the statement.
LEMMA SqlFreshRow ==
    ASSUME NEW d \in Data, NEW v \in Nat, NEW ttl \in Ttls, NEW t \in S!Instant
    PROVE  /\ [data |-> d, version |-> v, expiry |-> t + ttl] \in S!Row
           /\ [data |-> d, version |-> v, expiry |-> t + ttl] # NoRecord
           /\ t + ttl > t
<1>1. t + ttl \in Nat /\ t + ttl > t
    BY StorageConstants DEF S!Instant
<1> QED
    BY <1>1, MemoryConstants DEF S!Row

\* What a call of k does to the table.
LEMMA SqlCallWrites ==
    ASSUME S!TypeOK, NEW k \in RowKey, NEW t \in S!Instant, t >= sql_clock, S!Call(k, t)
    PROVE  /\ sql_clock' = t
           /\ \/ mcp_sessions' = mcp_sessions
              \/ \E row \in S!Row \cup {NoRecord} : mcp_sessions' = [mcp_sessions EXCEPT ![k] = row]
<1>1. ASSUME NEW d \in Data, NEW ttl \in Ttls, S!create(k, d, ttl, t)
      PROVE  \E row \in S!Row \cup {NoRecord} :
                mcp_sessions' = mcp_sessions \/ mcp_sessions' = [mcp_sessions EXCEPT ![k] = row]
    BY <1>1, SqlFreshRow DEF S!create, S!Statement
<1>2. ASSUME NEW d \in Data, NEW v \in 1..MaxSave, NEW ttl \in Ttls, S!save(k, d, v, ttl, t)
      PROVE  \E row \in S!Row \cup {NoRecord} :
                mcp_sessions' = mcp_sessions \/ mcp_sessions' = [mcp_sessions EXCEPT ![k] = row]
    <2>1. v + 1 \in Nat
        BY StorageConstants
    <2> QED
        BY <1>2, <2>1, SqlFreshRow DEF S!save, S!Statement
<1>3. ASSUME NEW ttl \in Ttls, S!touch(k, ttl, t)
      PROVE  \E row \in S!Row \cup {NoRecord} :
                mcp_sessions' = mcp_sessions \/ mcp_sessions' = [mcp_sessions EXCEPT ![k] = row]
    <2>1. CASE S!Unexpired(k, t)
        <3>1. t + ttl \in Nat /\ mcp_sessions[k] \in S!Row
            BY <2>1, StorageConstants DEF S!Unexpired, S!TypeOK, S!Instant
        <3>2. [mcp_sessions[k] EXCEPT !.expiry = t + ttl] \in S!Row
            BY <3>1 DEF S!Row
        <3> QED
            BY <1>3, <2>1, <3>2 DEF S!touch, S!Statement
    <2>2. CASE ~S!Unexpired(k, t)
        BY <1>3, <2>2 DEF S!touch, S!Statement
    <2> QED
        BY <2>1, <2>2
<1>4. CASE S!get(k, t) \/ S!delete(k, t)
    BY <1>4 DEF S!get, S!delete
<1>5. sql_clock' = t
    BY DEF S!Call, S!create, S!get, S!save, S!touch, S!delete, S!Statement
<1> QED
    BY <1>1, <1>2, <1>3, <1>4, <1>5 DEF S!Call

LEMMA SqlStep == S!TypeOK /\ [S!Next]_(S!vars) => S!TypeOK'
<1> SUFFICES ASSUME S!TypeOK, [S!Next]_(S!vars) PROVE S!TypeOK'
    OBVIOUS
<1>1. ASSUME NEW t \in S!Instant, S!Tick(t) \/ S!sweep(t) PROVE S!TypeOK'
    BY <1>1 DEF S!Tick, S!sweep, S!TypeOK
<1>2. ASSUME NEW t \in S!Instant, t >= sql_clock, NEW k \in RowKey, S!Call(k, t) PROVE S!TypeOK'
    BY <1>2, SqlCallWrites DEF S!TypeOK
<1>3. CASE UNCHANGED S!vars
    BY <1>3 DEF S!vars, S!TypeOK
<1> QED
    BY <1>1, <1>2, <1>3 DEF S!Next

\* The contract's records at t, and what a write of row k makes of them.
LEMMA SqlAlive ==
    ASSUME S!TypeOK, NEW t \in S!Instant, t >= sql_clock
    PROVE  /\ S!Contract!AliveAt(S!AliveAt(mcp_sessions, sql_clock), t) = S!AliveAt(mcp_sessions, t)
           /\ S!AliveAt(mcp_sessions, t) \in [RowKey -> S!Row \cup {NoRecord}]
<1>1. /\ sql_clock \in Nat /\ t \in Nat
      /\ \A j \in RowKey : mcp_sessions[j] # NoRecord => mcp_sessions[j].expiry \in Nat
    BY StorageConstants DEF S!TypeOK, S!Instant, S!Row
<1>2. S!Contract!AliveAt(S!AliveAt(mcp_sessions, sql_clock), t) = S!AliveAt(mcp_sessions, t)
    BY <1>1 DEF S!Contract!AliveAt, S!AliveAt
<1>3. S!AliveAt(mcp_sessions, t) \in [RowKey -> S!Row \cup {NoRecord}]
    BY DEF S!TypeOK, S!AliveAt
<1> QED
    BY <1>2, <1>3

LEMMA SqlWritten ==
    ASSUME S!TypeOK, NEW k \in RowKey, NEW t, NEW row, row # NoRecord, row.expiry > t
    PROVE  S!AliveAt([mcp_sessions EXCEPT ![k] = row], t) = [S!AliveAt(mcp_sessions, t) EXCEPT ![k] = row]
    BY DEF S!TypeOK, S!AliveAt

LEMMA SqlCallImplements ==
    ASSUME S!TypeOK, NEW k \in RowKey, NEW t \in S!Instant, t >= sql_clock, S!Call(k, t)
    PROVE  S!Contract!Operation(k, t)
<1> DEFINE now == S!AliveAt(mcp_sessions, t)
<1>1. /\ S!Contract!AliveAt(S!AliveAt(mcp_sessions, sql_clock), t) = now
      /\ now[k] = IF S!Unexpired(k, t) THEN mcp_sessions[k] ELSE NoRecord
      /\ S!Insertable(k, t) <=> ~S!Unexpired(k, t)
    <2>1. mcp_sessions[k] # NoRecord => mcp_sessions[k].expiry \in Nat /\ t \in Nat
        BY StorageConstants DEF S!TypeOK, S!Row, S!Instant
    <2> QED
        BY <2>1, SqlAlive DEF S!AliveAt, S!Unexpired, S!Insertable
<1>2. sql_clock' = t
    BY SqlCallWrites
<1>3. mcp_sessions' = mcp_sessions => S!AliveAt(mcp_sessions, sql_clock)' = now
    BY <1>2 DEF S!AliveAt
<1>4. ASSUME NEW row, row # NoRecord, row.expiry > t, mcp_sessions' = [mcp_sessions EXCEPT ![k] = row]
      PROVE  S!AliveAt(mcp_sessions, sql_clock)' = [now EXCEPT ![k] = row]
    <2>1. S!AliveAt(mcp_sessions, sql_clock)' = S!AliveAt([mcp_sessions EXCEPT ![k] = row], t)
        BY <1>2, <1>4 DEF S!AliveAt
    <2> QED
        BY <1>4, <2>1, SqlWritten
<1>5. mcp_sessions[k] # NoRecord => mcp_sessions[k] \in S!Row
    BY DEF S!TypeOK
<1> HIDE DEF now
<1>6. ASSUME NEW d \in Data, NEW ttl \in Ttls, S!create(k, d, ttl, t)
      PROVE  S!Contract!Create(k, d, ttl, t)
    <2> DEFINE row == S!Contract!Fresh(d, 1, t, ttl)
    <2>1. row # NoRecord /\ row.expiry > t
        BY SqlFreshRow DEF S!Contract!Fresh
    <2>2. CASE S!Unexpired(k, t)
        <3>1. mcp_sessions' = mcp_sessions /\ sql_reply' = [op |-> "create", key |-> k, result |-> FALSE]
            BY <1>6, <2>2, <1>1 DEF S!create, S!Statement, S!Insertable
        <3>2. now[k] # NoRecord
            BY <1>1, <2>2 DEF S!Unexpired
        <3> QED
            BY <1>1, <1>2, <1>3, <3>1, <3>2 DEF S!Contract!Create, S!Contract!Answer
    <2>3. CASE ~S!Unexpired(k, t)
        <3>1. /\ mcp_sessions' = [mcp_sessions EXCEPT ![k] = row]
              /\ sql_reply' = [op |-> "create", key |-> k, result |-> TRUE]
            BY <1>6, <2>3, <1>1 DEF S!create, S!Statement, S!Insertable, S!Contract!Fresh
        <3> HIDE DEF row
        <3>2. S!AliveAt(mcp_sessions, sql_clock)' = [now EXCEPT ![k] = row]
            BY <1>4, <2>1, <3>1
        <3> QED
            BY <1>1, <1>2, <2>3, <3>1, <3>2 DEF row, S!Contract!Create, S!Contract!Answer
    <2> QED
        BY <2>2, <2>3
<1>7. CASE S!get(k, t)
    <2>1. sql_reply' = [op |-> "get", key |-> k, result |-> S!Contract!Seen(now[k])]
        <3>1. CASE S!Unexpired(k, t)
            BY <1>1, <1>7, <3>1 DEF S!get, S!Unexpired, S!Contract!Seen
        <3>2. CASE ~S!Unexpired(k, t)
            BY <1>1, <1>7, <3>2 DEF S!get, S!Contract!Seen
        <3> QED
            BY <3>1, <3>2
    <2>2. mcp_sessions' = mcp_sessions
        BY <1>7 DEF S!get
    <2>3. S!Contract!Get(k, t)
        BY <1>1, <1>2, <1>3, <2>1, <2>2 DEF S!Contract!Get, S!Contract!Answer
    <2> QED
        BY <2>3 DEF S!Contract!Operation
<1>8. ASSUME NEW d \in Data, NEW v \in 1..MaxSave, NEW ttl \in Ttls, S!save(k, d, v, ttl, t)
      PROVE  S!Contract!Save(k, d, v, ttl, t)
    <2> DEFINE row == S!Contract!Fresh(d, v + 1, t, ttl)
               wins == S!Unexpired(k, t) /\ mcp_sessions[k].version = v
    <2>1. row # NoRecord /\ row.expiry > t
        <3>1. v + 1 \in Nat
            BY StorageConstants
        <3> QED
            BY <3>1, SqlFreshRow DEF S!Contract!Fresh
    <2>2. wins <=> now[k] # NoRecord /\ now[k].version = v
        BY <1>1 DEF S!Unexpired
    <2>3. CASE ~wins
        <3>1. mcp_sessions' = mcp_sessions /\ sql_reply' = [op |-> "save", key |-> k, result |-> FALSE]
            BY <1>8, <2>3 DEF S!save, S!Statement, S!Unexpired
        <3> QED
            BY <1>1, <1>2, <1>3, <2>2, <2>3, <3>1 DEF S!Contract!Save, S!Contract!Answer
    <2>4. CASE wins
        <3>1. /\ mcp_sessions' = [mcp_sessions EXCEPT ![k] = row]
              /\ sql_reply' = [op |-> "save", key |-> k, result |-> TRUE]
            BY <1>8, <2>4 DEF S!save, S!Statement, S!Contract!Fresh, S!Unexpired
        <3> HIDE DEF row, wins
        <3>2. S!AliveAt(mcp_sessions, sql_clock)' = [now EXCEPT ![k] = row]
            BY <1>4, <2>1, <3>1
        <3> QED
            BY <1>1, <1>2, <2>2, <2>4, <3>1, <3>2 DEF row, S!Contract!Save, S!Contract!Answer
    <2> QED
        BY <2>3, <2>4
<1>9. ASSUME NEW ttl \in Ttls, S!touch(k, ttl, t) PROVE S!Contract!Touch(k, ttl, t)
    <2>1. CASE ~S!Unexpired(k, t)
        BY <1>1, <1>2, <1>3, <1>9, <2>1
        DEF S!touch, S!Statement, S!Contract!Touch, S!Contract!Answer
    <2>2. CASE S!Unexpired(k, t)
        <3>1. mcp_sessions[k] \in S!Row /\ mcp_sessions[k].data \in Data /\ mcp_sessions[k].version \in Nat
            BY <1>5, <2>2 DEF S!Unexpired, S!Row
        <3>2. [mcp_sessions[k] EXCEPT !.expiry = t + ttl]
                  = S!Contract!Fresh(mcp_sessions[k].data, mcp_sessions[k].version, t, ttl)
            BY <3>1 DEF S!Contract!Fresh, S!Row
        <3>3. S!AliveAt(mcp_sessions, sql_clock)' =
                  [now EXCEPT ![k] = S!Contract!Fresh(mcp_sessions[k].data, mcp_sessions[k].version, t, ttl)]
            BY <1>4, <1>9, <2>2, <3>1, <3>2, SqlFreshRow DEF S!touch, S!Statement, S!Contract!Fresh
        <3> QED
            BY <1>1, <1>2, <1>9, <2>2, <3>3
            DEF S!touch, S!Statement, S!Unexpired, S!Contract!Touch, S!Contract!Answer
    <2> QED
        BY <2>1, <2>2
<1>10. CASE S!delete(k, t)
    <2>1. S!AliveAt(mcp_sessions, sql_clock)' = [now EXCEPT ![k] = NoRecord]
        BY <1>2, <1>10 DEF S!delete, S!AliveAt, S!TypeOK, now
    <2>2. S!Contract!Delete(k, t)
        BY <1>1, <1>2, <1>10, <2>1 DEF S!delete, S!Contract!Delete, S!Contract!Answer
    <2> QED
        BY <2>2 DEF S!Contract!Operation
<1> QED
    BY <1>6, <1>7, <1>8, <1>9, <1>10 DEF S!Call, S!Contract!Operation

LEMMA SqlStepImplements == S!TypeOK /\ [S!Next]_(S!vars) => [S!Contract!Next]_(S!Contract!vars)
<1> SUFFICES ASSUME S!TypeOK, [S!Next]_(S!vars) PROVE [S!Contract!Next]_(S!Contract!vars)
    OBVIOUS
<1>1. CASE UNCHANGED S!vars
    BY <1>1 DEF S!vars, S!Contract!vars, S!AliveAt
<1>2. ASSUME NEW t \in S!Instant, t >= sql_clock, S!Tick(t) \/ S!sweep(t) PROVE S!Contract!Pass(t)
    <2>1. S!AliveAt(mcp_sessions, sql_clock)' = S!AliveAt(mcp_sessions, t)
        BY <1>2 DEF S!Tick, S!sweep, S!AliveAt, S!Unexpired
    <2> QED
        BY <1>2, <2>1, SqlAlive DEF S!Tick, S!sweep, S!Contract!Pass
<1> QED
    BY <1>1, <1>2, SqlCallImplements DEF S!Next, S!Contract!Next, S!Contract!Instant, S!Instant

\* The SQLite table, swept whenever a sweeper happens to run, answers every
\* call as the SessionStore protocol promises.
THEOREM SqliteStoreImplementsContract == S!Spec => S!ImplementsContract
    BY SqlInit, SqlStep, SqlStepImplements, PTL DEF S!Spec, S!ImplementsContract, S!Contract!Spec

-----------------------------------------------------------------------------
(* Redis's sessions: every key the scripts write has a deadline, and a key *)
(* past it is gone for the command that comes next.                        *)

Hashes == [data : Data, version : Nat]

RedisIInv ==
    /\ redis_clock \in 0..Long
    /\ hash \in [RowKey -> Hashes \cup {NoRecord}]
    /\ expire_at \in [RowKey -> Nat]
    /\ \A k \in RowKey : hash[k] # NoRecord => expire_at[k] > 0

\* The records Redis would show at t.
RedisAt(t) ==
    [k \in RowKey |-> IF R!Exists(k, t)
        THEN [data |-> hash[k].data, version |-> hash[k].version, expiry |-> expire_at[k]] ELSE NoRecord]

LEMMA RedisInit == R!Init => RedisIInv /\ R!Contract!Init
    BY StorageConstants DEF R!Init, RedisIInv, R!Contract!Init, R!Live, R!Exists

\* A record shown is not None, and says how it is held.
LEMMA RedisShown ==
    ASSUME RedisIInv, NEW k \in RowKey, NEW t \in 0..Long
    PROVE  /\ R!Exists(k, t) => /\ hash[k] \in Hashes /\ hash[k] # NoRecord
                                /\ RedisAt(t)[k] # NoRecord /\ RedisAt(t)[k].data = hash[k].data
                                /\ RedisAt(t)[k].version = hash[k].version
                                /\ hash[k] = [data |-> hash[k].data, version |-> hash[k].version]
                                /\ expire_at[k] > t /\ expire_at[k] \in Nat
           /\ ~R!Exists(k, t) => RedisAt(t)[k] = NoRecord
<1>1. ASSUME R!Exists(k, t)
      PROVE  /\ hash[k] \in Hashes /\ hash[k] # NoRecord
             /\ expire_at[k] > t /\ expire_at[k] \in Nat
    BY <1>1, StorageConstants DEF R!Exists, RedisIInv
<1>2. hash[k] \in Hashes => hash[k] = [data |-> hash[k].data, version |-> hash[k].version]
    BY DEF Hashes
<1> DEFINE shown == [data |-> hash[k].data, version |-> hash[k].version, expiry |-> expire_at[k]]
<1>3. hash[k] \in Hashes /\ expire_at[k] \in Nat => shown # NoRecord
    BY MemoryConstants DEF Hashes
<1>4. shown.data = hash[k].data /\ shown.version = hash[k].version
    OBVIOUS
<1>5. RedisAt(t)[k] = IF R!Exists(k, t) THEN shown ELSE NoRecord
    BY DEF RedisAt
<1> HIDE DEF shown
<1> QED
    BY <1>1, <1>2, <1>3, <1>4, <1>5

LEMMA RedisAlive ==
    ASSUME RedisIInv, NEW t \in 0..Long, t >= redis_clock
    PROVE  R!Contract!AliveAt(R!Live, t) = RedisAt(t)
<1>1. R!Live = RedisAt(redis_clock) /\ redis_clock \in 0..Long
    BY DEF R!Live, RedisAt, RedisIInv
<1>2. ASSUME NEW k \in RowKey
      PROVE  (IF R!Live[k] # NoRecord /\ R!Live[k].expiry > t THEN R!Live[k] ELSE NoRecord) = RedisAt(t)[k]
    <2> DEFINE shown == [data |-> hash[k].data, version |-> hash[k].version, expiry |-> expire_at[k]]
    <2>1. /\ R!Live[k] = IF R!Exists(k, redis_clock) THEN shown ELSE NoRecord
          /\ RedisAt(t)[k] = IF R!Exists(k, t) THEN shown ELSE NoRecord
          /\ shown.expiry = expire_at[k]
        BY DEF R!Live, RedisAt
    <2>2. R!Exists(k, redis_clock) => R!Live[k] # NoRecord
        BY <1>1, RedisShown
    <2> HIDE DEF shown
    <2>3. R!Exists(k, t) <=> R!Exists(k, redis_clock) /\ expire_at[k] > t
        BY StorageConstants DEF R!Exists, RedisIInv
    <2> QED
        BY <2>1, <2>2, <2>3
<1> QED
    BY <1>2 DEF R!Contract!AliveAt, RedisAt

\* What a command leaves for the contract to see.
LEMMA RedisCommand ==
    ASSUME RedisIInv, NEW o, NEW k \in RowKey, NEW t \in 0..Long, NEW held \in Hashes \cup {NoRecord},
           NEW deadline \in Nat, held # NoRecord => deadline > t, NEW result,
           R!Command(o, k, t, held, deadline, result)
    PROVE  /\ RedisIInv'
           /\ redis_clock' = t
           /\ redis_reply' = [op |-> o, key |-> k, result |-> result]
           /\ R!Live' = [RedisAt(t) EXCEPT ![k] = IF held = NoRecord THEN NoRecord
                  ELSE [data |-> held.data, version |-> held.version, expiry |-> deadline]]
<1>1. /\ redis_clock' = t
      /\ hash' = [hash EXCEPT ![k] = held] /\ expire_at' = [expire_at EXCEPT ![k] = deadline]
      /\ redis_reply' = [op |-> o, key |-> k, result |-> result]
    BY DEF R!Command
<1>2. /\ hash'[k] = held /\ expire_at'[k] = deadline
      /\ \A j \in RowKey : j # k => hash'[j] = hash[j] /\ expire_at'[j] = expire_at[j]
    BY <1>1 DEF RedisIInv
<1>3. RedisIInv'
    BY <1>1, <1>2 DEF RedisIInv
<1>4. (R!Exists(k, redis_clock))' <=> held # NoRecord
    BY <1>1, <1>2, StorageConstants DEF R!Exists
<1>5. ASSUME NEW j \in RowKey, j # k
      PROVE  R!Live'[j] = RedisAt(t)[j]
    BY <1>1, <1>2, <1>5 DEF R!Live, RedisAt, R!Exists
<1>6. R!Live'[k] = IF held = NoRecord THEN NoRecord
                   ELSE [data |-> held.data, version |-> held.version, expiry |-> deadline]
    BY <1>2, <1>4 DEF R!Live
<1>7. R!Live' = [j \in RowKey |-> R!Live'[j]]
    BY DEF R!Live
<1>8. R!Live' = [RedisAt(t) EXCEPT ![k] = IF held = NoRecord THEN NoRecord
                  ELSE [data |-> held.data, version |-> held.version, expiry |-> deadline]]
    BY <1>5, <1>6, <1>7 DEF RedisAt
<1> QED
    BY <1>1, <1>3, <1>8

LEMMA RedisUnchanged ==
    ASSUME RedisIInv, NEW o, NEW k \in RowKey, NEW t \in 0..Long, NEW result,
           R!Unchanged(o, k, t, result)
    PROVE  /\ RedisIInv'
           /\ redis_clock' = t
           /\ redis_reply' = [op |-> o, key |-> k, result |-> result]
           /\ R!Live' = RedisAt(t)
<1>1. PICK held \in Hashes \cup {NoRecord} : held = R!Held(k, t)
    BY DEF R!Held, RedisIInv
<1>2. PICK deadline \in Nat : deadline = R!Ttl0(k, t)
    BY DEF R!Ttl0, RedisIInv
<1>3. held # NoRecord => deadline > t
    BY <1>1, <1>2, RedisShown DEF R!Held, R!Ttl0
<1>4. R!Command(o, k, t, held, deadline, result)
    BY <1>1, <1>2 DEF R!Unchanged
<1>5. RedisAt(t)[k] = IF held = NoRecord THEN NoRecord
                      ELSE [data |-> held.data, version |-> held.version, expiry |-> deadline]
    <2>1. CASE R!Exists(k, t)
        <3>1. held = hash[k] /\ held # NoRecord /\ deadline = expire_at[k]
            BY <1>1, <1>2, <2>1, RedisShown DEF R!Held, R!Ttl0
        <3> QED
            BY <2>1, <3>1 DEF RedisAt
    <2>2. CASE ~R!Exists(k, t)
        BY <1>1, <2>2 DEF R!Held, RedisAt
    <2> QED
        BY <2>1, <2>2
<1>6. /\ RedisIInv' /\ redis_clock' = t
      /\ redis_reply' = [op |-> o, key |-> k, result |-> result]
      /\ R!Live' = [RedisAt(t) EXCEPT ![k] = IF held = NoRecord THEN NoRecord
                  ELSE [data |-> held.data, version |-> held.version, expiry |-> deadline]]
    BY <1>3, <1>4, RedisCommand
<1>7. [RedisAt(t) EXCEPT ![k] = RedisAt(t)[k]] = RedisAt(t)
    BY DEF RedisAt
<1> QED
    BY <1>5, <1>6, <1>7

LEMMA RedisCallImplements ==
    ASSUME RedisIInv, NEW k \in RowKey, NEW t \in 0..Long, t >= redis_clock, R!Call(k, t)
    PROVE  RedisIInv' /\ R!Contract!Operation(k, t)
<1> DEFINE now == RedisAt(t)
<1>1. R!Contract!AliveAt(R!Live, t) = now
    BY RedisAlive
<1>2. R!Exists(k, t) <=> now[k] # NoRecord
    BY RedisShown
<1> HIDE DEF now
<1>3. ASSUME NEW d \in Data, NEW ttl \in Ttls, R!create(k, d, ttl, t)
      PROVE  RedisIInv' /\ R!Contract!Create(k, d, ttl, t)
    <2>1. CASE R!Exists(k, t)
        <3>1. R!Unchanged("create", k, t, FALSE)
            BY <1>3, <2>1 DEF R!create
        <3> QED
            BY <1>1, <1>2, <2>1, <3>1, RedisUnchanged DEF now, R!Contract!Create, R!Contract!Answer
    <2>2. CASE ~R!Exists(k, t)
        <3> DEFINE held == [data |-> d, version |-> 1]
                   deadline == t + ttl
        <3>1. /\ R!Command("create", k, t, held, deadline, TRUE)
              /\ held = [data |-> d, version |-> 1] /\ deadline = t + ttl
            BY <1>3, <2>2 DEF R!create
        <3>2. held \in Hashes \cup {NoRecord} /\ held # NoRecord /\ deadline \in Nat /\ deadline > t
            BY StorageConstants DEF Hashes
        <3> HIDE DEF held, deadline
        <3>3. R!Command("create", k, t, held, deadline, TRUE)
            BY <3>1
        <3>4. /\ RedisIInv' /\ redis_clock' = t
              /\ redis_reply' = [op |-> "create", key |-> k, result |-> TRUE]
              /\ R!Live' = [now EXCEPT ![k] = IF held = NoRecord THEN NoRecord
                    ELSE [data |-> held.data, version |-> held.version, expiry |-> deadline]]
            BY <3>2, <3>3, RedisCommand, ZenonT(60) DEF now
        <3>5. R!Live' = [now EXCEPT ![k] = R!Contract!Fresh(d, 1, t, ttl)]
            BY <3>1, <3>2, <3>4 DEF R!Contract!Fresh
        <3> QED
            BY <1>1, <1>2, <2>2, <3>4, <3>5 DEF R!Contract!Create, R!Contract!Answer
    <2> QED
        BY <2>1, <2>2
<1>4. ASSUME NEW d \in Data, NEW ttl \in Ttls, NEW v \in 1..MaxSave, R!save(k, d, v, ttl, t)
      PROVE  RedisIInv' /\ R!Contract!Save(k, d, v, ttl, t)
    <2> DEFINE wins == R!Exists(k, t) /\ hash[k].version = v
    <2>1. wins <=> now[k] # NoRecord /\ now[k].version = v
        BY <1>2, RedisShown DEF now
    <2>2. CASE ~wins
        <3>1. R!Unchanged("save", k, t, FALSE)
            BY <1>4, <2>2 DEF R!save
        <3> QED
            BY <1>1, <2>1, <2>2, <3>1, RedisUnchanged DEF now, R!Contract!Save, R!Contract!Answer
    <2>3. CASE wins
        <3>0. PICK w \in Nat : w = v + 1
            BY StorageConstants
        <3> DEFINE held == [data |-> d, version |-> w]
                   deadline == t + ttl
        <3>1. /\ R!Command("save", k, t, held, deadline, TRUE)
              /\ held = [data |-> d, version |-> w] /\ deadline = t + ttl
            BY <1>4, <2>3, <3>0 DEF R!save
        <3>2. held \in Hashes \cup {NoRecord} /\ held # NoRecord /\ deadline \in Nat /\ deadline > t
            BY StorageConstants DEF Hashes
        <3> HIDE DEF held, deadline, wins
        <3>3. R!Command("save", k, t, held, deadline, TRUE)
            BY <3>1
        <3>4. /\ RedisIInv' /\ redis_clock' = t
              /\ redis_reply' = [op |-> "save", key |-> k, result |-> TRUE]
              /\ R!Live' = [now EXCEPT ![k] = IF held = NoRecord THEN NoRecord
                    ELSE [data |-> held.data, version |-> held.version, expiry |-> deadline]]
            BY <3>2, <3>3, RedisCommand, ZenonT(60) DEF now
        <3>5. R!Live' = [now EXCEPT ![k] = R!Contract!Fresh(d, w, t, ttl)]
            BY <3>1, <3>2, <3>4 DEF R!Contract!Fresh
        <3> QED
            BY <1>1, <2>1, <2>3, <3>0, <3>4, <3>5 DEF R!Contract!Save, R!Contract!Answer
    <2> QED
        BY <2>2, <2>3
<1>5. CASE R!get(k, t)
    <2>1. R!Held(k, t) = R!Contract!Seen(now[k])
        <3>1. CASE R!Exists(k, t)
            BY <1>2, <3>1, RedisShown DEF now, R!Held, R!Contract!Seen
        <3>2. CASE ~R!Exists(k, t)
            BY <1>2, <3>2 DEF R!Held, R!Contract!Seen
        <3> QED
            BY <3>1, <3>2
    <2>2. R!Unchanged("get", k, t, R!Contract!Seen(now[k]))
        BY <1>5, <2>1 DEF R!get
    <2>3. RedisIInv' /\ R!Contract!Get(k, t)
        BY <1>1, <2>2, RedisUnchanged DEF now, R!Contract!Get, R!Contract!Answer
    <2> QED
        BY <2>3 DEF R!Contract!Operation
<1>6. ASSUME NEW ttl \in Ttls, R!touch(k, ttl, t) PROVE RedisIInv' /\ R!Contract!Touch(k, ttl, t)
    <2>1. CASE ~R!Exists(k, t)
        <3>1. R!Unchanged("touch", k, t, FALSE)
            BY <1>6, <2>1 DEF R!touch
        <3> QED
            BY <1>1, <1>2, <2>1, <3>1, RedisUnchanged DEF now, R!Contract!Touch, R!Contract!Answer
    <2>2. CASE R!Exists(k, t)
        <3>1. PICK d \in Data, v \in Nat : d = hash[k].data /\ v = hash[k].version
            BY <2>2, RedisShown DEF Hashes
        <3>2. /\ hash[k] = [data |-> d, version |-> v]
              /\ now[k].data = d /\ now[k].version = v
            BY <2>2, <3>1, RedisShown DEF now
        <3> DEFINE held == [data |-> d, version |-> v]
                   deadline == t + ttl
        <3>3. /\ R!Command("touch", k, t, held, deadline, TRUE)
              /\ held = [data |-> d, version |-> v] /\ deadline = t + ttl
            BY <1>6, <2>2, <3>2 DEF R!touch
        <3>4. held \in Hashes \cup {NoRecord} /\ held # NoRecord /\ deadline \in Nat /\ deadline > t
            BY StorageConstants DEF Hashes
        <3> HIDE DEF held, deadline
        <3>5. R!Command("touch", k, t, held, deadline, TRUE)
            BY <3>3
        <3>6. /\ RedisIInv' /\ redis_clock' = t
              /\ redis_reply' = [op |-> "touch", key |-> k, result |-> TRUE]
              /\ R!Live' = [now EXCEPT ![k] = IF held = NoRecord THEN NoRecord
                    ELSE [data |-> held.data, version |-> held.version, expiry |-> deadline]]
            BY <3>4, <3>5, RedisCommand, ZenonT(60) DEF now
        <3>7. R!Live' = [now EXCEPT ![k] = R!Contract!Fresh(d, v, t, ttl)]
            BY <3>3, <3>4, <3>6 DEF R!Contract!Fresh
        <3> QED
            BY <1>1, <1>2, <2>2, <3>2, <3>6, <3>7 DEF R!Contract!Touch, R!Contract!Answer
    <2> QED
        BY <2>1, <2>2
<1>7. CASE R!delete(k, t)
    <2>1. /\ RedisIInv' /\ redis_clock' = t
          /\ redis_reply' = [op |-> "delete", key |-> k, result |-> NoRecord]
          /\ R!Live' = [now EXCEPT ![k] = NoRecord]
        BY <1>7, RedisCommand DEF R!delete, now
    <2>2. R!Contract!Delete(k, t)
        BY <1>1, <2>1 DEF R!Contract!Delete, R!Contract!Answer
    <2> QED
        BY <2>1, <2>2 DEF R!Contract!Operation
<1> QED
    BY <1>3, <1>4, <1>5, <1>6, <1>7 DEF R!Call, R!Contract!Operation

LEMMA RedisStep ==
    RedisIInv /\ [R!Next]_(R!vars) => RedisIInv' /\ [R!Contract!Next]_(R!Contract!vars)
<1> SUFFICES ASSUME RedisIInv, [R!Next]_(R!vars)
             PROVE  RedisIInv' /\ [R!Contract!Next]_(R!Contract!vars)
    OBVIOUS
<1>1. CASE UNCHANGED R!vars
    BY <1>1 DEF R!vars, R!Contract!vars, RedisIInv, R!Live, R!Exists
<1>2. ASSUME NEW t \in 0..Long, t >= redis_clock, R!Tick(t) PROVE RedisIInv' /\ R!Contract!Pass(t)
    <2>1. R!Live' = RedisAt(t)
        BY <1>2 DEF R!Tick, R!Live, RedisAt, R!Exists
    <2> QED
        BY <1>2, <2>1, RedisAlive DEF R!Tick, RedisIInv, R!Contract!Pass
<1> QED
    BY <1>1, <1>2, RedisCallImplements DEF R!Next, R!Contract!Next, R!Contract!Instant

\* Redis's scripts and its EXPIRE answer every call as the SessionStore
\* protocol promises.
THEOREM RedisStoreImplementsContract == R!Spec => R!ImplementsContract
    BY RedisInit, RedisStep, PTL DEF R!Spec, R!ImplementsContract, R!Contract!Spec

-----------------------------------------------------------------------------
(* PostgreSQL's hub is a log: the k-th index of a topic is its k-th id.     *)

\* An id that is to be committed is nobody else's.
IdsAreOwn ==
    \A p \in Publisher : pub[p].step = "commit" =>
        /\ \A row \in committed : row.id # pub[p].id
        /\ \A q \in Publisher \ {p} : pub[q].step = "commit" => pub[q].id # pub[p].id

GotIsAnOrder ==
    /\ got \in [Reader -> Seq(1..MaxId)]
    /\ \A r \in Reader : following[r] = Nowhere => got[r] = <<>>

HubLogIInv == HubIInv /\ IdsAreOwn /\ GotIsAnOrder

HubLog == [t \in Topic |-> H!IdsOf(t)]
HubKept == [t \in Topic |-> {H!IndexOf(t, i) : i \in H!Readable(t)}]
HubPlace == [r \in Reader |-> IF following[r] = Nowhere THEN Nowhere ELSE H!IndexOf(following[r], cursor[r])]

LEMMA HubInOrder ==
    /\ \A M, i : H!Rank(M, i) = Rank(M, i)
    /\ \A M : H!InOrder(M) = InOrder(M)
    /\ \A s, M : H!Log!At(s, M) = At(s, M)
<1>1. ASSUME NEW M, NEW i PROVE H!Rank(M, i) = Rank(M, i)
    BY DEF H!Rank, Rank, H!Cardinality, Cardinality
<1>2. ASSUME NEW M, NEW i PROVE H!Log!Rank(M, i) = Rank(M, i)
    BY DEF H!Log!Rank, Rank, H!Log!Cardinality, Cardinality
<1>3. \A M, n : H!Nth(M, n) = Nth(M, n) /\ H!Log!Nth(M, n) = Nth(M, n)
    BY <1>1, <1>2 DEF H!Nth, H!Log!Nth, Nth
<1>0. ASSUME NEW M PROVE H!Cardinality(M) = Cardinality(M) /\ H!Log!Cardinality(M) = Cardinality(M)
    BY DEF H!Cardinality, H!Log!Cardinality, Cardinality
<1>4. ASSUME NEW M PROVE H!InOrder(M) = InOrder(M)
    BY <1>3, <1>0 DEF H!InOrder, InOrder
<1>5. ASSUME NEW s, NEW M PROVE H!Log!At(s, M) = At(s, M)
    BY <1>3, <1>0 DEF H!Log!At, At
<1> QED
    BY <1>1, <1>4, <1>5

LEMMA HubTopic ==
    ASSUME HubIInv, NEW t \in Topic
    PROVE  /\ H!Published(t) \in SUBSET (1..MaxId) /\ H!Published(t) \in SUBSET Nat
           /\ IsFiniteSet(H!Published(t))
           /\ H!Readable(t) \subseteq H!Published(t)
           /\ H!IdsOf(t) = InOrder(H!Published(t))
           /\ \A i : H!IndexOf(t, i) = Rank(H!Published(t), i)
<1>1. H!Published(t) \in SUBSET (1..MaxId)
    BY DEF HubIInv, HubTypes, H!Published, H!Row
<1>2. IsFiniteSet(1..MaxId)
    BY StorageConstants, FS_Interval
<1>3. H!Readable(t) \subseteq H!Published(t)
    BY DEF H!Readable, H!Published
<1> QED
    BY <1>1, <1>2, <1>3, FS_Subset, HubInOrder, StorageConstants DEF H!IdsOf, H!IndexOf

LEMMA HubLogInit == H!Init => HubLogIInv /\ H!Log!Init
<1> SUFFICES ASSUME H!Init PROVE HubLogIInv /\ H!Log!Init
    OBVIOUS
<1>1. HubLogIInv
    BY HubInit DEF H!Init, H!NoTx, HubLogIInv, IdsAreOwn, GotIsAnOrder
<1>2. ASSUME NEW t \in Topic PROVE H!IdsOf(t) = <<>> /\ H!Readable(t) = {}
    <2>1. H!Published(t) = {}
        BY DEF H!Init, H!Published
    <2>2. InOrder({}) = <<>>
        BY ListedInOrder, FS_EmptySet, EmptySeq
    <2>3. H!IdsOf(t) = InOrder(H!Published(t)) /\ H!Readable(t) \subseteq H!Published(t)
        BY <1>1, HubTopic DEF HubLogIInv
    <2> QED
        BY <2>1, <2>2, <2>3
<1>3. HubLog = [t \in Topic |-> <<>>] /\ HubKept = [t \in Topic |-> {}]
    BY <1>2 DEF HubLog, HubKept
<1>4. HubPlace = [r \in Reader |-> Nowhere]
    BY DEF HubPlace, H!Init
<1> QED
    BY <1>1, <1>3, <1>4 DEF H!Init, H!Log!Init, HubLog, HubKept, HubPlace

LEMMA HubFound ==
    ASSUME HubIInv, NEW t \in Topic, NEW c
    PROVE  /\ H!After(t, c) \in SUBSET Nat /\ IsFiniteSet(H!After(t, c))
           /\ H!After(t, c) \in SUBSET H!Published(t)
           /\ InOrder(H!After(t, c)) \in Seq(1..MaxId)
<1>1. H!After(t, c) \in SUBSET H!Published(t)
    BY HubTopic DEF H!After
<1>2. H!After(t, c) \in SUBSET Nat /\ IsFiniteSet(H!After(t, c)) /\ H!After(t, c) \in SUBSET (1..MaxId)
    BY <1>1, HubTopic, FS_Subset
<1>3. InOrder(H!After(t, c)) \in Seq(H!After(t, c))
    BY <1>2, ListedInOrder
<1>5. InOrder(H!After(t, c)) \in Seq(1..MaxId)
    BY <1>2, <1>3, SeqMonotonic
<1> QED
    BY <1>1, <1>2, <1>5

LEMMA HubLogKeeps == HubLogIInv /\ [H!Next]_(H!vars) => HubLogIInv'
<1> SUFFICES ASSUME HubLogIInv, [H!Next]_(H!vars) PROVE HubLogIInv'
    OBVIOUS
<1>1. HubIInv /\ HubIInv' /\ IdsAreOwn /\ GotIsAnOrder
    BY HubStep DEF HubLogIInv
<1>2. IdsAreOwn'
    <2>1. CASE UNCHANGED <<committed, pub>>
        BY <1>1, <2>1 DEF IdsAreOwn
    <2>2. ASSUME NEW p \in Publisher, H!Insert(p) PROVE IdsAreOwn'
        <3>1. /\ next_id <= MaxId /\ UNCHANGED committed
              /\ pub' = [pub EXCEPT ![p] = [@ EXCEPT !.step = "commit", !.id = next_id]]
            BY <1>1, <2>2 DEF H!Insert, HubIInv, HubTypes
        <3>2. /\ pub'[p].id = next_id
              /\ \A q \in Publisher : q # p => pub'[q] = pub[q]
            BY <1>1, <3>1 DEF HubIInv, HubTypes
        <3>3. /\ \A row \in committed : row.id < next_id /\ row.id \in Nat
              /\ \A q \in Publisher : pub[q].step = "commit" => pub[q].id < next_id /\ pub[q].id \in Nat
            BY <1>1 DEF HubIInv, HubTypes, IdsAreFresh, H!Row
        <3>4. next_id \in Nat
            BY <1>1 DEF HubIInv, HubTypes
        <3> QED
            BY <1>1, <3>1, <3>2, <3>3, <3>4 DEF IdsAreOwn
    <2>3. ASSUME NEW p \in Publisher, H!End(p),
                 committed' \in {committed, committed \cup {[id |-> pub[p].id, topic |-> pub[p].topic]}},
                 pub[p].step = "commit" \/ UNCHANGED committed
          PROVE  IdsAreOwn'
        <3>1. /\ pub'[p].step = "none"
              /\ \A q \in Publisher : q # p => pub'[q] = pub[q]
            BY <1>1, <2>3 DEF H!End, H!NoTx, HubIInv, HubTypes
        <3> QED
            BY <1>1, <2>3, <3>1 DEF IdsAreOwn
    <2>4. ASSUME NEW p \in Publisher, NEW t, H!Begin(p, t) \/ H!TakeLock(p) PROVE IdsAreOwn'
        <3>1. /\ UNCHANGED committed /\ pub'[p].step # "commit"
              /\ \A q \in Publisher : q # p => pub'[q] = pub[q]
            BY <1>1, <2>4 DEF H!Begin, H!TakeLock, HubIInv, HubTypes
        <3> QED
            BY <1>1, <3>1 DEF IdsAreOwn
    <2>5. CASE UNCHANGED H!vars \/ H!Sweep \/ \E t \in Topic : H!Delete(t)
        BY <2>1, <2>5 DEF H!vars, H!Sweep, H!Delete
    <2>6. CASE \E r \in Reader : H!Poll(r) \/ \E t \in Topic : H!Subscribe(r, t)
        BY <2>1, <2>6 DEF H!Poll, H!Subscribe
    <2> QED
        BY <2>2, <2>3, <2>4, <2>5, <2>6 DEF H!Next, H!Publishing, H!Commit, H!Rollback
<1>3. GotIsAnOrder'
    <2>1. ASSUME NEW r \in Reader, H!Poll(r) PROVE GotIsAnOrder'
        <3>1. PICK t \in Topic : t = following[r]
            BY <1>1, <2>1 DEF H!Poll, HubIInv, HubTypes
        <3>2. PICK s \in Seq(1..MaxId) : s = InOrder(H!After(t, cursor[r]))
            BY <1>1, HubFound
        <3>3. got' = [got EXCEPT ![r] = @ \o s] /\ UNCHANGED following
            BY <2>1, <3>1, <3>2, HubInOrder DEF H!Poll
        <3>4. got[r] \o s \in Seq(1..MaxId)
            BY <1>1 DEF GotIsAnOrder
        <3> QED
            BY <1>1, <2>1, <3>3, <3>4 DEF GotIsAnOrder, H!Poll
    <2>2. ASSUME NEW r \in Reader, NEW t \in Topic, H!Subscribe(r, t) PROVE GotIsAnOrder'
        BY <1>1, <2>2, StorageConstants DEF H!Subscribe, GotIsAnOrder, HubIInv, HubTypes
    <2>3. CASE UNCHANGED <<got, following>>
        BY <1>1, <2>3 DEF GotIsAnOrder
    <2> QED
        BY <2>1, <2>2, <2>3 DEF H!Next, H!vars, H!Publishing, H!Begin, H!TakeLock, H!Insert, H!Commit,
                                H!Rollback, H!Sweep, H!Delete
<1> QED
    BY <1>1, <1>2, <1>3 DEF HubLogIInv

LEMMA HubCommitAppends ==
    ASSUME HubLogIInv, NEW p \in Publisher, H!Commit(p)
    PROVE  \E t \in Topic : \E m \in 1..MaxId : H!Log!Publish(t, m)
<1>1. HubIInv /\ IdsAreOwn
    BY DEF HubLogIInv
<1>2. PICK t \in Topic : t = pub[p].topic
    BY <1>1 DEF H!Commit, HubIInv, LocksAreHeld
<1>3. PICK m \in 1..MaxId : m = pub[p].id
    BY <1>1 DEF H!Commit, HubIInv, IdsAreFresh, HubTypes
<1>4. /\ committed' = committed \cup {[id |-> m, topic |-> t]} /\ readable' = readable \cup {m}
      /\ UNCHANGED <<cursor, following, got>> /\ pub[p].step = "commit"
    BY <1>2, <1>3 DEF H!Commit
<1>5. PICK M \in SUBSET Nat : M = H!Published(t) /\ IsFiniteSet(M)
    BY <1>1, HubTopic
<1>6. H!Published(t)' = M \cup {m} /\ \A i \in M : i < m
    <2>1. H!Published(t)' = M \cup {m}
        <3> DEFINE row0 == [id |-> m, topic |-> t]
        <3>0. row0.id = m /\ row0.topic = t
            OBVIOUS
        <3> HIDE DEF row0
        <3>1. PICK new : new = row0 /\ new.id = m /\ new.topic = t
            BY <3>0
        <3>2. H!Published(t)' = {row.id : row \in {x \in committed \cup {new} : x.topic = t}}
            BY <1>4, <3>1 DEF H!Published, row0
        <3>3. M = {row.id : row \in {x \in committed : x.topic = t}}
            BY <1>5 DEF H!Published
        <3> QED
            BY <3>1, <3>2, <3>3
    <2>2. \A i \in M : i < m
        BY <1>1, <1>2, <1>3, <1>4, <1>5 DEF H!Published, HubIInv, IdsAreFresh
    <2> QED
        BY <2>1, <2>2
<1>7. \A u \in Topic \ {t} : H!Published(u)' = H!Published(u)
    BY <1>4 DEF H!Published
<1>8. m \in Nat /\ \A u \in Topic : m \notin H!Published(u)
    BY <1>1, <1>3, <1>4, StorageConstants DEF IdsAreOwn, H!Published
<1>9. H!Readable(t)' = H!Readable(t) \cup {m} /\ \A u \in Topic \ {t} : H!Readable(u)' = H!Readable(u)
    <2>1. \A u \in Topic : H!Readable(u) = H!Published(u) \cap readable
        BY DEF H!Readable, H!Published
    <2>2. \A u \in Topic : H!Readable(u)' = H!Published(u)' \cap readable'
        BY DEF H!Readable, H!Published
    <2>3. H!Readable(t)' = (M \cup {m}) \cap (readable \cup {m})
        BY <1>4, <1>6, <2>2
    <2>4. ASSUME NEW u \in Topic \ {t} PROVE H!Readable(u)' = H!Readable(u)
        <3>1. /\ H!Readable(u) = H!Published(u) \cap readable
              /\ H!Readable(u)' = H!Published(u) \cap (readable \cup {m})
            BY <1>4, <1>7, <2>1, <2>2
        <3>2. m \notin H!Published(u)
            BY <1>8
        <3> QED
            BY <3>1, <3>2
    <2> QED
        BY <1>5, <2>1, <2>3, <2>4
<1>10. /\ Rank(M \cup {m}, m) = Cardinality(M) + 1 /\ InOrder(M \cup {m}) = Append(InOrder(M), m)
       /\ \A i \in Nat : i < m => Rank(M \cup {m}, i) = Rank(M, i)
    <2>1. M \in SUBSET Nat /\ IsFiniteSet(M) /\ m \in Nat /\ \A i \in M : i < m
        BY <1>5, <1>6, <1>8
    <2>2. /\ Rank(M \cup {m}, m) = Cardinality(M) + 1
          /\ InOrder(M \cup {m}) = Append(InOrder(M), m)
        BY <2>1, NewestIsLast
    <2>3. \A i \in Nat : i < m => Rank(M \cup {m}, i) = Rank(M, i)
        BY <2>1, NewestIsLast
    <2> QED
        BY <2>2, <2>3
<1>11. HubIInv'
    BY <1>1, HubStep DEF H!Next, H!Publishing
<1>12. ASSUME NEW u \in Topic
       PROVE  /\ H!IdsOf(u)' = InOrder(H!Published(u)')
              /\ \A i : H!IndexOf(u, i)' = Rank(H!Published(u)', i)
    BY HubInOrder DEF H!IdsOf, H!IndexOf
<1>13. HubLog' = [HubLog EXCEPT ![t] = Append(@, m)]
    BY <1>1, <1>5, <1>6, <1>7, <1>10, <1>12, HubTopic DEF HubLog
<1>14. HubKept[t] \cup {Len(HubLog[t]) + 1} = {H!IndexOf(t, i) : i \in H!Readable(t)}'
    <2>1. Len(HubLog[t]) = Cardinality(M)
        BY <1>1, <1>5, HubTopic, ListedInOrder DEF HubLog
    <2>2. \A i \in H!Readable(t) : i \in Nat /\ i < m
        BY <1>1, <1>5, <1>6, HubTopic
    <2>3. HubKept[t] = {Rank(M, i) : i \in H!Readable(t)}
        BY <1>1, <1>5, HubTopic DEF HubKept
    <2>4. {H!IndexOf(t, i) : i \in H!Readable(t)}' = {Rank(M \cup {m}, i) : i \in H!Readable(t) \cup {m}}
        BY <1>6, <1>9, <1>12
    <2> QED
        BY <1>10, <2>1, <2>2, <2>3, <2>4
<1>15. HubKept' = [HubKept EXCEPT ![t] = HubKept[t] \cup {Len(HubLog[t]) + 1}]
    <2>1. \A u \in Topic \ {t} : {H!IndexOf(u, i) : i \in H!Readable(u)}' = {H!IndexOf(u, i) : i \in H!Readable(u)}
        BY <1>1, <1>7, <1>9, <1>12, HubTopic
    <2> QED
        BY <1>14, <2>1 DEF HubKept
<1>16. HubPlace' = HubPlace
    <2>1. ASSUME NEW r \in Reader, following[r] # Nowhere
          PROVE  H!IndexOf(following[r], cursor[r])' = H!IndexOf(following[r], cursor[r])
        <3>1. PICK u \in Topic : u = following[r]
            BY <1>1, <2>1 DEF HubIInv, HubTypes
        <3>2. PICK c \in Nat : c = cursor[r] /\ (c = 0 \/ c \in H!Published(u))
            BY <1>1, <2>1, <3>1, HubTopic DEF HubIInv, CursorsArePublished
        <3>3. Rank(H!Published(u)', c) = Rank(H!Published(u), c)
            <4>1. CASE u = t
                <5>1. c < m
                    BY <1>3, <1>5, <1>6, <3>2, <4>1
                <5> QED
                    BY <1>5, <1>6, <1>10, <4>1, <5>1
            <4>2. CASE u # t
                BY <1>7, <4>2
            <4> QED
                BY <4>1, <4>2
        <3>4. H!IndexOf(u, c)' = Rank(H!Published(u)', c) /\ H!IndexOf(u, c) = Rank(H!Published(u), c)
            BY <1>1, <1>12, HubTopic
        <3>5. H!IndexOf(following[r], cursor[r])' = H!IndexOf(u, c)'
            BY <1>4, <3>1, <3>2 DEF H!IndexOf
        <3> QED
            BY <3>1, <3>2, <3>3, <3>4, <3>5
    <2> QED
        BY <1>4, <2>1 DEF HubPlace
<1>17. \E K \in SUBSET HubKept[t] : HubKept' = [HubKept EXCEPT ![t] = K \cup {Len(HubLog[t]) + 1}]
    BY <1>15
<1>18. H!Log!Publish(t, m)
    BY <1>4, <1>13, <1>16, <1>17 DEF H!Log!Publish, HubLog, HubKept, HubPlace
<1> QED
    BY <1>18

\* Rows that go take their indexes with them, and move no others.
LEMMA HubRowsGo ==
    ASSUME HubIInv, UNCHANGED <<committed, cursor, following, got>>, readable' \subseteq readable
    PROVE  H!Log!ForgetAcross
<1>1. \A t \in Topic : H!Published(t)' = H!Published(t) /\ H!Readable(t)' \subseteq H!Readable(t)
    BY DEF H!Published, H!Readable
<1>2. \A t \in Topic : \A i : H!IndexOf(t, i)' = H!IndexOf(t, i)
    BY <1>1 DEF H!IndexOf
<1>3. HubLog' = HubLog
    BY <1>1 DEF HubLog, H!IdsOf
<1>4. HubPlace' = HubPlace
    <2>1. \A r \in Reader : following[r] # Nowhere =>
            H!IndexOf(following[r], cursor[r])' = H!IndexOf(following[r], cursor[r])
        BY <1>1 DEF H!IndexOf, HubIInv, HubTypes
    <2> QED
        BY <2>1 DEF HubPlace
<1>5. ASSUME NEW t \in Topic
      PROVE  {H!IndexOf(t, i) : i \in H!Readable(t)}' \subseteq {H!IndexOf(t, i) : i \in H!Readable(t)}
    <2>1. {H!IndexOf(t, i) : i \in H!Readable(t)}' = {H!IndexOf(t, i) : i \in H!Readable(t)'}
        BY <1>2
    <2> QED
        BY <1>1, <2>1
<1>6. /\ HubKept' \in [Topic -> SUBSET UNION {HubKept[t] : t \in Topic}]
      /\ \A t \in Topic : HubKept'[t] \subseteq HubKept[t]
    BY <1>5 DEF HubKept
<1> QED
    BY <1>3, <1>4, <1>6 DEF H!Log!ForgetAcross, HubLog, HubKept, HubPlace

LEMMA HubSubscribes ==
    ASSUME HubLogIInv, NEW r \in Reader, NEW t \in Topic, H!Subscribe(r, t)
    PROVE  H!Log!Subscribe(r, t)
<1>1. HubIInv /\ GotIsAnOrder
    BY DEF HubLogIInv
<1>2. PICK M \in SUBSET Nat : M = H!Published(t) /\ IsFiniteSet(M) /\ M \in SUBSET (1..MaxId)
    BY <1>1, HubTopic
<1>3. PICK c \in Nat : /\ cursor' = [cursor EXCEPT ![r] = c]
                       /\ \A i \in H!Readable(t) : i <= c
    <2>1. H!Readable(t) \in SUBSET (1..MaxId)
        BY <1>1, HubTopic
    <2>2. CASE H!Readable(t) = {}
        BY <2>2 DEF H!Subscribe
    <2>3. CASE H!Readable(t) # {}
        <3>1. PICK c \in H!Readable(t) : c = H!Max(H!Readable(t)) /\ \A i \in H!Readable(t) : i <= c
            BY <2>1, <2>3, MaxOfIds
        <3>2. c \in Nat
            BY <2>1
        <3>3. cursor' = [cursor EXCEPT ![r] = H!Max(H!Readable(t))]
            BY <2>3 DEF H!Subscribe
        <3> QED
            BY <3>1, <3>2, <3>3
    <2> QED
        BY <2>2, <2>3
<1>4. /\ following' = [following EXCEPT ![r] = t] /\ following[r] = Nowhere /\ got[r] = <<>>
      /\ UNCHANGED <<committed, readable, got>>
    BY <1>1 DEF H!Subscribe, GotIsAnOrder
<1>5. \A u \in Topic : H!Published(u)' = H!Published(u) /\ H!Readable(u)' = H!Readable(u)
    BY <1>4 DEF H!Published, H!Readable
<1>6. \A u \in Topic : \A i : H!IndexOf(u, i)' = H!IndexOf(u, i)
    BY <1>5 DEF H!IndexOf
<1>7. HubLog' = HubLog
    BY <1>5 DEF HubLog, H!IdsOf
<1>8. HubKept' = HubKept
    <2>1. \A u \in Topic : {H!IndexOf(u, i) : i \in H!Readable(u)}' = {H!IndexOf(u, i) : i \in H!Readable(u)}
        BY <1>5, <1>6
    <2> QED
        BY <2>1 DEF HubKept
<1>9. PICK n \in Nat : n = Rank(M, c) /\ n \in 0..Cardinality(M)
    BY <1>2, RankGrows
<1>10. HubPlace' = [HubPlace EXCEPT ![r] = n]
    <2>1. \A q \in Reader \ {r} : cursor'[q] = cursor[q] /\ following'[q] = following[q]
        BY <1>3, <1>4
    <2>2. cursor'[r] = c /\ following'[r] = t /\ t # Nowhere
        BY <1>1, <1>3, <1>4, StorageConstants DEF HubIInv, HubTypes
    <2>3. H!IndexOf(t, c)' = n
        BY <1>1, <1>2, <1>6, <1>9, HubTopic
    <2>4. \A q \in Reader \ {r} : following[q] # Nowhere =>
            H!IndexOf(following[q], cursor[q])' = H!IndexOf(following[q], cursor[q])
        BY <1>1, <1>5, <2>1 DEF HubIInv, HubTypes, H!IndexOf
    <2>5. H!IndexOf(following[r], cursor[r])' = H!IndexOf(t, c)'
        BY <2>2 DEF H!IndexOf
    <2> QED
        BY <2>1, <2>2, <2>3, <2>4, <2>5 DEF HubPlace
<1>11. n \in 0..Len(HubLog[t]) /\ \A i \in HubKept[t] : i <= n
    <2>1. Len(HubLog[t]) = Cardinality(M)
        BY <1>1, <1>2, HubTopic, ListedInOrder DEF HubLog
    <2>2. ASSUME NEW i \in H!Readable(t) PROVE H!IndexOf(t, i) <= n
        <3>1. i \in Nat /\ i <= c
            BY <1>1, <1>3, HubTopic
        <3>2. Rank(M, i) <= n
            BY <1>2, <1>9, <3>1, RankGrows
        <3> QED
            BY <1>1, <1>2, <3>2, HubTopic
    <2> QED
        BY <1>9, <2>1, <2>2 DEF HubKept
<1>12. got' = [got EXCEPT ![r] = <<>>]
    BY <1>1, <1>4 DEF GotIsAnOrder
<1> QED
    BY <1>4, <1>7, <1>8, <1>10, <1>11, <1>12 DEF H!Log!Subscribe, HubLog, HubKept, HubPlace

LEMMA HubPolls ==
    ASSUME HubLogIInv, NEW r \in Reader, H!Poll(r)
    PROVE  H!Log!Poll(r)
<1>1. HubIInv /\ GotIsAnOrder
    BY DEF HubLogIInv
<1>2. PICK t \in Topic : t = following[r] /\ t # Nowhere
    BY <1>1, StorageConstants DEF H!Poll, HubIInv, HubTypes
<1>3. PICK M \in SUBSET Nat : M = H!Published(t) /\ IsFiniteSet(M) /\ M \in SUBSET (1..MaxId)
    BY <1>1, HubTopic
<1>4. PICK c \in Nat : c = cursor[r]
    BY <1>1, <1>2, <1>3 DEF HubIInv, CursorsArePublished
<1>5. PICK found \in SUBSET M : found = H!After(t, c) /\ found # {}
    BY <1>1, <1>2, <1>3, <1>4, HubFound DEF H!Poll
<1>6. PICK m \in found : m = H!Max(found) /\ \A i \in found : i <= m
    BY <1>3, <1>5, MaxOfIds
<1>7. /\ got' = [got EXCEPT ![r] = @ \o InOrder(found)]
      /\ cursor' = [cursor EXCEPT ![r] = m]
      /\ UNCHANGED <<committed, readable, following>>
    BY <1>2, <1>4, <1>5, <1>6, HubInOrder DEF H!Poll
<1>8. \A u \in Topic : H!Published(u)' = H!Published(u) /\ H!Readable(u)' = H!Readable(u)
    BY <1>7 DEF H!Published, H!Readable
<1>9. \A u \in Topic : \A i : H!IndexOf(u, i)' = H!IndexOf(u, i)
    BY <1>8 DEF H!IndexOf
<1>10. HubLog' = HubLog
    BY <1>8 DEF HubLog, H!IdsOf
<1>11. HubKept' = HubKept
    <2>1. \A u \in Topic : {H!IndexOf(u, i) : i \in H!Readable(u)}' = {H!IndexOf(u, i) : i \in H!Readable(u)}
        BY <1>8, <1>9
    <2> QED
        BY <2>1 DEF HubKept
\* What is behind the cursor is behind the place, by rank.
<1>12. H!Log!Unread(r) = {Rank(M, i) : i \in found}
    <2>1. HubPlace[r] = Rank(M, c) /\ HubKept[t] = {Rank(M, i) : i \in H!Readable(t)}
        BY <1>1, <1>2, <1>3, <1>4, HubTopic DEF HubPlace, HubKept
    <2>2. H!Readable(t) \in SUBSET Nat /\ found = {i \in H!Readable(t) : i > c} /\ H!Readable(t) \subseteq M
        BY <1>1, <1>3, <1>5, HubTopic DEF H!After
    <2>3. ASSUME NEW i \in H!Readable(t) PROVE Rank(M, i) > Rank(M, c) <=> i > c
        <3>1. i \in Nat /\ i \in M /\ Rank(M, i) \in Nat /\ Rank(M, c) \in Nat
            BY <1>3, <2>2, RankGrows
        <3>2. (i <= c => Rank(M, i) <= Rank(M, c)) /\ (c < i => Rank(M, c) < Rank(M, i))
            BY <1>3, <3>1, RankGrows
        <3> QED
            BY <3>1, <3>2
    <2>4. H!Log!Unread(r) = {i \in HubKept[t] : i > HubPlace[r]}
        BY <1>2 DEF H!Log!Unread, HubKept, HubPlace
    <2> QED
        BY <2>1, <2>2, <2>3, <2>4
<1>13. H!Log!At(HubLog[t], H!Log!Unread(r)) = InOrder(found)
    BY <1>1, <1>3, <1>12, HubInOrder, HubTopic, ListedByRank DEF HubLog
<1>14. H!Log!Newest(H!Log!Unread(r)) = Rank(M, m)
    <2>1. \A i \in found : Rank(M, i) \in Nat /\ Rank(M, i) <= Rank(M, m)
        BY <1>3, <1>6, RankGrows
    <2>2. PICK I : I = {Rank(M, i) : i \in found}
        OBVIOUS
    <2>3. Rank(M, m) \in I /\ \A k \in I : k \in Nat /\ k <= Rank(M, m)
        BY <2>1, <2>2
    <2>4. \A k \in I : (\A j \in I : j <= k) => k = Rank(M, m)
        BY <2>3
    <2>5. H!Log!Newest(I) = Rank(M, m)
        BY <2>3, <2>4 DEF H!Log!Newest
    <2> QED
        BY <1>12, <2>2, <2>5
<1>15. HubPlace' = [HubPlace EXCEPT ![r] = Rank(M, m)]
    <2>1. \A q \in Reader \ {r} : cursor'[q] = cursor[q]
        BY <1>7
    <2>2. cursor'[r] = m
        BY <1>1, <1>7 DEF HubIInv, HubTypes
    <2>3. H!IndexOf(t, m)' = Rank(M, m)
        BY <1>1, <1>3, <1>9, HubTopic
    <2>4. \A q \in Reader \ {r} : following[q] # Nowhere =>
            H!IndexOf(following[q], cursor[q])' = H!IndexOf(following[q], cursor[q])
        BY <1>1, <1>7, <1>8, <2>1 DEF HubIInv, HubTypes, H!IndexOf
    <2>5. H!IndexOf(following[r], cursor[r])' = H!IndexOf(t, m)'
        BY <1>2, <1>7, <2>2 DEF H!IndexOf
    <2> QED
        BY <1>2, <1>7, <2>1, <2>2, <2>3, <2>4, <2>5 DEF HubPlace
<1>16. H!Log!Unread(r) # {}
    BY <1>5, <1>12
<1> QED
    BY <1>2, <1>7, <1>10, <1>11, <1>13, <1>14, <1>15, <1>16 DEF H!Log!Poll, HubLog, HubKept, HubPlace

\* Every step of the transactions, the readers and the sweep is a step of the
\* log or none.
LEMMA HubImplements == HubLogIInv /\ [H!Next]_(H!vars) => [H!Log!Next]_(H!Log!vars)
<1> SUFFICES ASSUME HubLogIInv, [H!Next]_(H!vars) PROVE [H!Log!Next]_(H!Log!vars)
    OBVIOUS
<1>1. HubIInv
    BY DEF HubLogIInv
<1>2. CASE UNCHANGED <<committed, readable, cursor, following, got>>
    BY <1>2 DEF H!Log!vars, H!IdsOf, H!IndexOf, H!Published, H!Readable
<1>3. CASE H!Sweep \/ \E t \in Topic : H!Delete(t)
    <2>1. UNCHANGED <<committed, cursor, following, got>> /\ readable' \subseteq readable
        BY <1>3 DEF H!Sweep, H!Delete
    <2> QED
        BY <1>1, <2>1, HubRowsGo DEF H!Log!Next
<1>4. CASE \E p \in Publisher : H!Commit(p)
    BY <1>4, HubCommitAppends DEF H!Log!Next
<1>5. CASE \E r \in Reader : H!Poll(r)
    BY <1>5, HubPolls DEF H!Log!Next
<1>6. CASE \E r \in Reader : \E t \in Topic : H!Subscribe(r, t)
    BY <1>6, HubSubscribes DEF H!Log!Next
<1> QED
    BY <1>2, <1>3, <1>4, <1>5, <1>6 DEF H!Next, H!vars, H!Publishing, H!Begin, H!TakeLock, H!Insert, H!Rollback

\* The table with its advisory lock is a log: a publish appends, a reader misses
\* nothing that is retained and reads nothing twice, whenever rows are deleted.
THEOREM PostgresHubIsALog == H!Spec => H!ImplementsTopicLog
    BY HubLogInit, HubLogKeeps, HubImplements, PTL DEF H!Spec, H!ImplementsTopicLog, H!Log!Spec

-----------------------------------------------------------------------------
(* The memory, SQLite and Redis hubs are logs too: whatever is trimmed,     *)
(* swept or dropped, the next id of a topic is ahead of every reader of it. *)

\* The last of the elements listed is that of the last index.
LEMMA ListedLast ==
    ASSUME NEW X, NEW s \in Seq(X), NEW I \in SUBSET (1..Len(s))
    PROVE  /\ At(s, I) \in Seq(X) /\ (At(s, I) = <<>> <=> I = {})
           /\ \A m \in I : (\A i \in I : i <= m) =>
                Len(At(s, I)) # 0 /\ At(s, I)[Len(At(s, I))] = s[m]
<1>0. Len(s) \in Nat /\ \A i \in 1..Len(s) : s[i] \in X
    OBVIOUS
<1>1. I \in SUBSET Nat /\ IsFiniteSet(I)
    <2>1. IsFiniteSet(1..Len(s))
        BY <1>0, FS_Interval
    <2>2. IsFiniteSet(I)
        BY <2>1, FS_Subset
    <2>3. 1..Len(s) \subseteq Nat
        BY <1>0
    <2> QED
        BY <2>2, <2>3
<1>2. Cardinality(I) \in Nat /\ (Cardinality(I) = 0 <=> I = {})
    BY <1>1, FS_CardinalityType, FS_EmptySet
<1>3. \A n \in 1..Cardinality(I) : Nth(I, n) \in I /\ s[Nth(I, n)] \in X
    BY <1>0, <1>1, RankIsTaken
<1>4. At(s, I) \in Seq(X) /\ Len(At(s, I)) = Cardinality(I)
    BY <1>2, <1>3 DEF At
<1>5. At(s, I) = <<>> <=> I = {}
    BY <1>2, <1>4
<1>6. ASSUME NEW m \in I, \A i \in I : i <= m
      PROVE  Len(At(s, I)) # 0 /\ At(s, I)[Len(At(s, I))] = s[m]
    <2>1. {j \in I : j <= m} = I
        BY <1>6
    <2>2. Rank(I, m) = Cardinality(I)
        BY <2>1 DEF Rank
    <2>3. Nth(I, Cardinality(I)) = m
        BY <1>1, <2>2, RankIsOwn
    <2>4. Cardinality(I) \in 1..Cardinality(I)
        BY <1>2
    <2>5. At(s, I)[Cardinality(I)] = s[m]
        BY <2>3, <2>4 DEF At
    <2> QED
        BY <1>2, <1>4, <2>5
<1> QED
    BY <1>4, <1>5, <1>6

\* The index of the last id up to c.
IndexIn(s, c) == B!Max({0} \cup {i \in 1..Len(s) : s[i] <= c})

LEMMA IndexFound ==
    ASSUME NEW s \in Seq(Nat), NEW c \in Nat
    PROVE  /\ IndexIn(s, c) \in 0..Len(s)
           /\ \A i \in 1..Len(s) : s[i] <= c => i <= IndexIn(s, c)
           /\ IndexIn(s, c) # 0 => s[IndexIn(s, c)] <= c
           /\ Len(s) # 0 => IndexIn(s, s[Len(s)]) = Len(s)
           /\ \A m \in Nat : c < m => IndexIn(Append(s, m), c) = IndexIn(s, c)
<1> DEFINE Upto(u, b) == {0} \cup {i \in 1..Len(u) : u[i] <= b}
<1>0. Len(s) \in Nat
    OBVIOUS
<1>1. ASSUME NEW b \in Nat
      PROVE  /\ IndexIn(s, b) \in Upto(s, b)
             /\ \A i \in Upto(s, b) : i <= IndexIn(s, b)
    <2>1. Upto(s, b) \in SUBSET (0..Len(s)) /\ Upto(s, b) # {}
        BY <1>0
    <2> HIDE DEF Upto
    <2>2. PICK m \in Upto(s, b) : \A i \in Upto(s, b) : i <= m
        BY <1>0, <2>1, LargestMember
    <2>3. \A i \in Upto(s, b) : m >= i /\ i \in Nat
        BY <2>1, <2>2
    <2>4. B!Max(Upto(s, b)) \in Upto(s, b) /\ \A i \in Upto(s, b) : B!Max(Upto(s, b)) >= i
        BY <2>3 DEF B!Max
    <2>5. IndexIn(s, b) = B!Max(Upto(s, b))
        BY DEF IndexIn, Upto
    <2> QED
        BY <2>1, <2>3, <2>4, <2>5
<1>2. IndexIn(s, c) \in 0..Len(s) /\ (IndexIn(s, c) # 0 => s[IndexIn(s, c)] <= c)
    BY <1>0, <1>1
<1>3. \A i \in 1..Len(s) : s[i] <= c => i <= IndexIn(s, c)
    BY <1>0, <1>1
<1>4. ASSUME Len(s) # 0 PROVE IndexIn(s, s[Len(s)]) = Len(s)
    <2>1. s[Len(s)] \in Nat /\ s[Len(s)] <= s[Len(s)] /\ Len(s) \in 1..Len(s)
        BY <1>0, <1>4
    <2>2. Len(s) \in Upto(s, s[Len(s)])
        BY <2>1
    <2>3. Len(s) <= IndexIn(s, s[Len(s)]) /\ IndexIn(s, s[Len(s)]) \in 0..Len(s)
        BY <1>0, <1>1, <2>1, <2>2
    <2> QED
        BY <1>0, <2>3
<1>5. ASSUME NEW m \in Nat, c < m PROVE IndexIn(Append(s, m), c) = IndexIn(s, c)
    <2>1. /\ Len(Append(s, m)) = Len(s) + 1 /\ Append(s, m)[Len(s) + 1] = m
          /\ \A i \in 1..Len(s) : Append(s, m)[i] = s[i]
        OBVIOUS
    <2>2. \A i \in 1..Len(s) + 1 : Append(s, m)[i] <= c <=> i \in 1..Len(s) /\ s[i] <= c
        BY <1>0, <1>5, <2>1
    <2>3. Upto(Append(s, m), c) = Upto(s, c)
        BY <1>0, <2>1, <2>2
    <2> QED
        BY <2>3 DEF IndexIn
<1> QED
    BY <1>2, <1>3, <1>4, <1>5

\* Among the rows that are left, in their order, what comes after an id is what
\* comes after its index.
LEMMA IndexSplits ==
    ASSUME NEW s \in Seq(Nat), NEW c \in Nat, NEW f \in Nat \ {0},
           \A i, j \in f..Len(s) : i < j => s[i] < s[j], NEW i \in f..Len(s)
    PROVE  s[i] > c <=> i > IndexIn(s, c)
<1>1. Len(s) \in Nat /\ i \in 1..Len(s) /\ s[i] \in Nat
    OBVIOUS
<1>2. PICK n \in 0..Len(s) : /\ n = IndexIn(s, c) /\ (s[i] <= c => i <= n)
                             /\ n # 0 => s[n] <= c
    BY <1>1, IndexFound
<1>3. ASSUME i <= n PROVE s[i] <= c
    <2>1. n # 0 /\ n \in f..Len(s) /\ s[n] \in Nat
        BY <1>1, <1>3
    <2>2. i = n \/ s[i] < s[n]
        BY <1>1, <1>3, <2>1
    <2> QED
        BY <1>1, <1>2, <2>1, <2>2
<1> QED
    BY <1>1, <1>2, <1>3

LEMMA HubsInOrder ==
    /\ \A s, I : B!At(s, I) = At(s, I) /\ B!Log!At(s, I) = At(s, I)
    /\ \A I : B!Log!Newest(I) = CHOOSE i \in I : \A j \in I : j <= i
<1>0. ASSUME NEW I PROVE B!Cardinality(I) = Cardinality(I) /\ B!Log!Cardinality(I) = Cardinality(I)
    BY DEF B!Cardinality, B!Log!Cardinality, Cardinality
<1>1. ASSUME NEW I, NEW i PROVE B!Rank(I, i) = Rank(I, i)
    BY DEF B!Rank, Rank, B!Cardinality, Cardinality
<1>2. ASSUME NEW I, NEW i PROVE B!Log!Rank(I, i) = Rank(I, i)
    BY DEF B!Log!Rank, Rank, B!Log!Cardinality, Cardinality
<1>3. \A I, n : B!Nth(I, n) = Nth(I, n) /\ B!Log!Nth(I, n) = Nth(I, n)
    BY <1>1, <1>2 DEF B!Nth, B!Log!Nth, Nth
<1>4. ASSUME NEW s, NEW I PROVE B!At(s, I) = At(s, I)
    BY <1>0, <1>3 DEF B!At, At
<1>5. ASSUME NEW s, NEW I PROVE B!Log!At(s, I) = At(s, I)
    BY <1>0, <1>3 DEF B!Log!At, At
<1> QED
    BY <1>4, <1>5 DEF B!Log!Newest

\* The id that comes next.
NextId(kind, now, last, newest) ==
    IF kind = "redis" THEN IF newest >= now * B!Scale THEN newest + 1 ELSE now * B!Scale
    ELSE last + 1

LEMMA NextIds ==
    ASSUME NEW kind, NEW now \in Nat, NEW last \in Nat, NEW newest \in Nat
    PROVE  LET m == NextId(kind, now, last, newest) IN
           /\ m \in Nat \ {0}
           /\ kind = "redis" => NextId(kind, now, last, m) = m + 1
           /\ kind = "redis" => m <= NextId(kind, now + 1, last, newest)
           /\ kind = "redis" /\ newest < now * B!Scale => NextId(kind, now, last, 0) = m
<1>1. PICK scale \in Nat : scale = B!Scale
    BY StorageConstants DEF B!Scale
<1>2. now * scale \in Nat /\ (now + 1) * scale = now * scale + scale
    OBVIOUS
<1>3. PICK a \in Nat : a = now * scale
    BY <1>2
<1>4. (now + 1) * scale = a + scale /\ a + scale >= a
    BY <1>2, <1>3
<1> QED
    BY <1>1, <1>3, <1>4 DEF NextId

Reach(r) == IF pending[r] # <<>> THEN B!Last(pending[r]) ELSE b_cursor[r]

HubsTypes ==
    /\ backend \in {"memory", "sqlite", "redis"}
    /\ hub_clock \in Nat /\ last_id \in Nat
    /\ top \in [Queue -> Nat] /\ DOMAIN expiring = Queue
    /\ published \in [Queue -> Seq(B!Id)]
    /\ first \in [Queue -> Nat \ {0}]
    /\ \A t \in Queue : first[t] <= Len(published[t]) + 1
    /\ b_following \in [Reader -> Queue \cup {Nowhere}]
    /\ b_cursor \in [Reader -> Nat \cup {Nowhere}]
    /\ pending \in [Reader -> Seq(B!Id)] /\ b_got \in [Reader -> Seq(B!Id)]
    /\ \A r \in Reader : b_following[r] # Nowhere => b_cursor[r] \in Nat

\* What is left of a topic is in order, and what comes next comes behind it.
RowsAscend ==
    \A t \in Queue : \A i \in B!Rows(t) :
        /\ published[t][i] < B!NewId(t)
        /\ \A j \in B!Rows(t) : i < j => published[t][i] < published[t][j]

\* A topic that is never deleted never hands out an id again.
SharedAscend ==
    \A t \in Shared \cap Queue : \A i \in 1..Len(published[t]) : published[t][i] < B!NewId(t)

ReadersAreBehind ==
    \A r \in Reader : b_following[r] # Nowhere => Reach(r) < B!NewId(b_following[r])

HubsIInv == HubsTypes /\ RowsAscend /\ SharedAscend /\ ReadersAreBehind

LEMMA IdsAreNumbers == B!Id \subseteq Nat /\ \A s \in Seq(B!Id) : s \in Seq(Nat)
<1>1. B!Id \subseteq Nat
    BY DEF B!Id
<1> QED
    BY <1>1, SeqMonotonic

LEMMA NewIdIs ==
    ASSUME HubsTypes, NEW t \in Queue
    PROVE  B!NewId(t) = NextId(backend, hub_clock, last_id, top[t]) /\ B!NewId(t) \in Nat \ {0}
<1>1. B!NewId(t) = NextId(backend, hub_clock, last_id, top[t])
    BY DEF HubsTypes, B!NewId, B!Autoincrement, B!XaddId, NextId
<1>2. NextId(backend, hub_clock, last_id, top[t]) \in Nat \ {0}
    BY NextIds DEF HubsTypes
<1> QED
    BY <1>1, <1>2

\* Found holds ids greater than c and ends with the last row of the topic.
EndsWithTheLast(t, c, found) ==
    /\ found \in Seq(B!Id)
    /\ found = <<>> <=> {i \in B!Rows(t) : published[t][i] > c} = {}
    /\ found # <<>> => /\ Len(published[t]) \in B!Rows(t)
                       /\ published[t][Len(published[t])] > c
                       /\ B!Last(found) = published[t][Len(published[t])]
                       /\ B!Last(found) \in Nat /\ B!Last(found) < B!NewId(t)

\* What a reader finds ends with a row that is left.
LEMMA AfterIs ==
    ASSUME HubsIInv, NEW t \in Queue, NEW c \in Nat
    PROVE  EndsWithTheLast(t, c, B!After(t, c))
<1> DEFINE found == B!After(t, c)
<1> HIDE DEF found
<1>1. PICK s \in Seq(B!Id) : s = published[t]
    BY DEF HubsIInv, HubsTypes
<1>2. PICK f \in Nat \ {0} : f = first[t]
    BY DEF HubsIInv, HubsTypes
<1>3. Len(s) \in Nat /\ \A i \in 1..Len(s) : s[i] \in Nat
    BY IdsAreNumbers
<1>4. PICK I \in SUBSET (1..Len(s)) : I = {i \in f..Len(s) : s[i] > c}
    <2>1. f..Len(s) \subseteq 1..Len(s)
        BY <1>2, <1>3
    <2> QED
        BY <2>1
<1>5. found = At(s, I) /\ I = {i \in B!Rows(t) : published[t][i] > c}
    BY <1>1, <1>2, <1>4, HubsInOrder DEF found, B!After, B!Rows
<1>6. found \in Seq(B!Id) /\ (found = <<>> <=> I = {})
    BY <1>5, ListedLast
<1>7. ASSUME I # {} PROVE Len(s) \in I /\ \A i \in I : i <= Len(s)
    <2>1. PICK i \in I : i \in f..Len(s) /\ s[i] > c
        BY <1>4, <1>7
    <2>2. Len(s) \in f..Len(s) /\ \A j \in f..Len(s) : j < Len(s) => s[j] < s[Len(s)]
        BY <1>1, <1>2, <1>3, <2>1 DEF HubsIInv, RowsAscend, B!Rows
    <2>3. s[i] \in Nat /\ s[Len(s)] \in Nat /\ (i = Len(s) \/ s[i] < s[Len(s)])
        BY <1>2, <1>3, <2>1, <2>2
    <2>4. s[Len(s)] > c
        BY <2>1, <2>3
    <2> QED
        BY <1>3, <1>4, <2>2, <2>4
<1>8. ASSUME I # {}
      PROVE  /\ B!Last(found) = s[Len(s)] /\ s[Len(s)] > c /\ s[Len(s)] \in Nat
             /\ Len(s) \in B!Rows(t) /\ s[Len(s)] < B!NewId(t)
    <2>1. Len(found) # 0 /\ found[Len(found)] = s[Len(s)]
        BY <1>5, <1>7, <1>8, ListedLast
    <2>2. Len(s) \in B!Rows(t) /\ s[Len(s)] > c /\ s[Len(s)] \in Nat
        BY <1>1, <1>2, <1>3, <1>4, <1>7, <1>8 DEF B!Rows
    <2> QED
        BY <1>1, <2>1, <2>2 DEF B!Last, HubsIInv, RowsAscend
<1>9. EndsWithTheLast(t, c, found)
    BY <1>1, <1>5, <1>6, <1>8 DEF EndsWithTheLast
<1> QED
    BY <1>9 DEF found

LEMMA HubsInit == B!Init => HubsIInv
<1> SUFFICES ASSUME B!Init PROVE HubsIInv
    OBVIOUS
<1>1. HubsTypes
    BY StorageConstants DEF B!Init, HubsTypes
<1>2. \A t \in Queue : B!Rows(t) = {} /\ Len(published[t]) = 0
    BY DEF B!Init, B!Rows
<1> QED
    BY <1>1, <1>2 DEF HubsIInv, RowsAscend, SharedAscend, ReadersAreBehind, B!Init

LEMMA TrimmedIs ==
    ASSUME HubsTypes, NEW t \in Queue, NEW f \in B!Trimmed(t)
    PROVE  f \in first[t]..Len(published[t]) + 1
<1>1. PICK a \in Nat \ {0} : a = first[t]
    BY DEF HubsTypes
<1>2. PICK n \in Nat : n = Len(published[t])
    BY DEF HubsTypes
<1>3. a <= n + 1
    BY <1>1, <1>2 DEF HubsTypes
<1>4. \A x, y \in Int : B!Max({x, y}) = IF x >= y THEN x ELSE y
    <2>1. ASSUME NEW x \in Int, NEW y \in Int PROVE B!Max({x, y}) = IF x >= y THEN x ELSE y
        BY DEF B!Max
    <2> QED
        BY <2>1
<1>5. n + 2 - Keep \in Int /\ n + 2 - Keep <= n + 1
    BY StorageConstants
<1>6. B!Max({a, n + 2 - Keep}) \in a..n + 1
    BY <1>3, <1>4, <1>5
<1>7. f \in {a, B!Max({a, n + 2 - Keep})} \cup a..B!Max({a, n + 2 - Keep})
    BY <1>1, <1>2 DEF B!Trimmed, HubsTypes
<1> QED
    BY <1>1, <1>2, <1>3, <1>6, <1>7

\* A topic that is emptied keeps its ids and loses its rows.
LEMMA EmptiedIs ==
    ASSUME HubsTypes, NEW t \in Queue, B!Emptied(t), UNCHANGED published
    PROVE  /\ first' \in [Queue -> Nat \ {0}] /\ B!Rows(t)' = {}
           /\ \A u \in Queue : first[u] <= first'[u] /\ first'[u] <= Len(published[u]) + 1
<1>0. Len(published[t]) \in Nat
    BY DEF HubsTypes
<1>1. PICK n \in Nat : n = Len(published[t]) /\ first' = [first EXCEPT ![t] = n + 1]
    BY <1>0 DEF B!Emptied
<1>2. \A u \in Queue : Len(published[u]) \in Nat /\ first[u] \in Nat \ {0} /\ first[u] <= Len(published[u]) + 1
    BY DEF HubsTypes
<1>3. first'[t] = n + 1 /\ \A u \in Queue : u # t => first'[u] = first[u]
    BY <1>1 DEF HubsTypes
<1>4. first' \in [Queue -> Nat \ {0}]
    BY <1>1 DEF HubsTypes
<1>5. B!Rows(t)' = {}
    BY <1>1, <1>3 DEF B!Rows
<1> QED
    BY <1>1, <1>2, <1>3, <1>4, <1>5

\* A sweep takes rows from the front, at most all of them.
LEMMA SweptIs ==
    ASSUME HubsTypes, B!sweep
    PROVE  /\ first' \in [Queue -> Nat \ {0}]
           /\ \A t \in Queue : first'[t] \in first[t]..Len(published[t]) + 1
<1>2. PICK age \in 1..last_id : first' = [t \in Queue |->
        B!Max({first[t]} \cup {i + 1 : i \in {j \in B!Rows(t) : published[t][j] <= age}})]
    BY DEF B!sweep
<1>3. ASSUME NEW t \in Queue PROVE first'[t] \in first[t]..Len(published[t]) + 1
    <2>1. PICK f \in Nat \ {0}, n \in Nat : f = first[t] /\ n = Len(published[t]) /\ f <= n + 1
        BY DEF HubsTypes
    <2>2. PICK G : G = {first[t]} \cup {i + 1 : i \in {j \in B!Rows(t) : published[t][j] <= age}}
        OBVIOUS
    <2>3. G \in SUBSET (f..n + 1) /\ G # {}
        <3>1. ASSUME NEW i \in B!Rows(t) PROVE i + 1 \in f..n + 1
            BY <2>1 DEF B!Rows
        <3> QED
            BY <2>1, <2>2, <3>1
    <2>5. PICK g \in G : \A i \in G : i <= g
        <3>1. G \in SUBSET (0..n + 1) /\ n + 1 \in Nat
            BY <2>1, <2>3
        <3> QED
            BY <2>3, <3>1, LargestMember
    <2>4. B!Max(G) \in G
        <3>1. \A i \in G : g >= i
            BY <2>3, <2>5
        <3> QED
            BY <2>5, <3>1 DEF B!Max
    <2> QED
        BY <1>2, <2>1, <2>2, <2>3, <2>4
<1>4. first' \in [Queue -> Nat \ {0}]
    <2>1. \A t \in Queue : first'[t] \in Nat \ {0}
        BY <1>3 DEF HubsTypes
    <2> QED
        BY <1>2, <2>1
<1> QED
    BY <1>3, <1>4

\* Hub.subscribe starts behind everything that is left.
LEMMA PositionIs ==
    ASSUME HubsIInv, NEW t \in Queue
    PROVE  /\ B!position(t) \in Nat /\ B!position(t) < B!NewId(t)
           /\ \A i \in B!Rows(t) : published[t][i] <= B!position(t)
<1>1. PICK X : X = {0} \cup B!Present(t)
    OBVIOUS
<1>2. PICK next \in Nat \ {0} : next = B!NewId(t)
    BY NewIdIs DEF HubsIInv
<1>3. ASSUME NEW i \in B!Rows(t) PROVE published[t][i] \in Nat /\ published[t][i] < next
    <2>1. i \in 1..Len(published[t]) /\ published[t] \in Seq(B!Id)
        BY DEF B!Rows, HubsIInv, HubsTypes
    <2>2. published[t] \in Seq(Nat)
        BY <2>1, IdsAreNumbers
    <2> QED
        BY <1>2, <2>1, <2>2 DEF HubsIInv, RowsAscend
<1>4. X \in SUBSET (0..next - 1) /\ X # {}
    BY <1>1, <1>2, <1>3 DEF B!Present
<1>5. PICK n \in Nat : n = next - 1
    OBVIOUS
<1>6. PICK c \in X : \A i \in X : i <= c
    BY <1>4, <1>5, LargestMember
<1>7. B!Max(X) \in X /\ \A i \in X : B!Max(X) >= i
    <2>1. \A i \in X : c >= i
        BY <1>4, <1>6
    <2> QED
        BY <1>6, <2>1 DEF B!Max
<1>8. \A i \in B!Rows(t) : published[t][i] \in X
    BY <1>1 DEF B!Present
<1> QED
    BY <1>1, <1>2, <1>4, <1>5, <1>7, <1>8 DEF B!position

LEMMA HubsKeep == HubsIInv /\ [B!Next]_(B!vars) => HubsIInv'
<1> SUFFICES ASSUME HubsIInv, [B!Next]_(B!vars) PROVE HubsIInv'
    OBVIOUS
<1>1. HubsTypes /\ RowsAscend /\ SharedAscend /\ ReadersAreBehind
    BY DEF HubsIInv
<1>2. ASSUME HubsTypes' PROVE \A t \in Queue : B!NewId(t)' = NextId(backend', hub_clock', last_id', top'[t])
    BY <1>2 DEF HubsTypes, B!NewId, B!Autoincrement, B!XaddId, NextId
<1>3. \A t \in Queue : B!NewId(t) = NextId(backend, hub_clock, last_id, top[t]) /\ B!NewId(t) \in Nat \ {0}
    BY <1>1, NewIdIs
<1>4. \A t \in Queue : \A i \in 1..Len(published[t]) : published[t][i] \in Nat
    BY <1>1, IdsAreNumbers DEF HubsTypes
<1>5. ASSUME NEW t \in Queue, B!publish(t) PROVE HubsIInv'
    <2>1. PICK m \in B!Id : m = B!NewId(t)
        BY <1>5 DEF B!publish
    <2>2. /\ published' = [published EXCEPT ![t] = Append(@, m)]
          /\ UNCHANGED <<backend, hub_clock, b_cursor, b_following, pending, b_got>>
        BY <1>5, <2>1 DEF B!publish, B!reading
    <2>3. PICK f : f \in first[t]..Len(published[t]) + 1 /\ first' = [first EXCEPT ![t] = f]
        BY <1>1, <1>5, TrimmedIs DEF B!publish
    <2>4. \/ /\ backend = "redis" /\ top' = [top EXCEPT ![t] = m] /\ UNCHANGED last_id
             /\ DOMAIN expiring' = Queue
          \/ /\ backend # "redis" /\ last_id' = m /\ UNCHANGED <<top, expiring>>
        BY <1>1, <1>5, <2>1 DEF B!publish, HubsTypes
    <2>5. m \in Nat /\ Append(published[t], m) \in Seq(B!Id)
        BY <1>1, <2>1, IdsAreNumbers DEF HubsTypes
    <2>6. HubsTypes'
        <3>1. Len(published'[t]) = Len(published[t]) + 1 /\ Len(published[t]) \in Nat
            BY <1>1, <2>2 DEF HubsTypes
        <3>2. f \in Nat \ {0}
            BY <1>1, <2>3, <3>1 DEF HubsTypes
        <3>3. \A u \in Queue : first'[u] <= Len(published'[u]) + 1
            BY <1>1, <2>2, <2>3, <3>1 DEF HubsTypes
        <3>4. published' \in [Queue -> Seq(B!Id)] /\ first' \in [Queue -> Nat \ {0}]
            BY <1>1, <2>2, <2>3, <2>5, <3>2 DEF HubsTypes
        <3>5. last_id' \in Nat /\ top' \in [Queue -> Nat] /\ DOMAIN expiring' = Queue
            BY <1>1, <2>4, <2>5 DEF HubsTypes
        <3> QED
            BY <1>1, <2>2, <3>3, <3>4, <3>5 DEF HubsTypes
    <2>7. /\ B!NewId(t)' = m + 1
          /\ \A u \in Queue \ {t} : B!NewId(u)' \in Nat /\ B!NewId(u) <= B!NewId(u)'
        <3>1. m = NextId(backend, hub_clock, last_id, top[t])
            BY <1>3, <2>1
        <3>2. CASE backend = "redis"
            <4>1. NextId(backend, hub_clock, last_id, m) = m + 1
                BY <1>1, <3>1, <3>2, NextIds DEF HubsTypes
            <4>2. top'[t] = m /\ \A u \in Queue \ {t} : top'[u] = top[u]
                BY <1>1, <2>4, <3>2 DEF HubsTypes
            <4> QED
                BY <1>2, <1>3, <2>2, <2>4, <2>6, <3>2, <4>1, <4>2
        <3>3. CASE backend # "redis"
            <4>1. m = last_id + 1 /\ last_id \in Nat /\ last_id' = m
                BY <1>1, <2>4, <3>1, <3>3 DEF NextId, HubsTypes
            <4> QED
                BY <1>2, <1>3, <2>2, <2>6, <3>3, <4>1 DEF NextId
        <3> QED
            BY <3>2, <3>3
    <2>8. /\ Len(published[t]) \in Nat /\ Len(published'[t]) = Len(published[t]) + 1
          /\ published'[t][Len(published[t]) + 1] = m
          /\ \A i \in 1..Len(published[t]) : published'[t][i] = published[t][i]
          /\ \A u \in Queue \ {t} : published'[u] = published[u] /\ first'[u] = first[u]
          /\ first'[t] = f
        BY <1>1, <2>2, <2>3 DEF HubsTypes
    <2>9. RowsAscend'
        <3>1. \A i \in B!Rows(t)' : i = Len(published[t]) + 1 \/ (i \in B!Rows(t) /\ i \in 1..Len(published[t]))
            BY <1>1, <2>3, <2>8 DEF B!Rows, HubsTypes
        <3>2. \A i \in B!Rows(t) : published[t][i] < m
            BY <1>1, <2>1 DEF RowsAscend
        <3>3. ASSUME NEW i \in B!Rows(t)'
              PROVE  /\ published'[t][i] < B!NewId(t)'
                     /\ \A j \in B!Rows(t)' : i < j => published'[t][i] < published'[t][j]
            <4>1. published'[t][i] \in Nat /\ published'[t][i] <= m
                BY <1>4, <2>5, <2>8, <3>1, <3>2, SMTT(60)
            <4>2. ASSUME NEW j \in B!Rows(t)', i < j PROVE published'[t][i] < published'[t][j]
                BY <1>1, <2>8, <3>1, <3>2, <4>2 DEF RowsAscend
            <4> QED
                BY <2>5, <2>7, <4>1, <4>2
        <3>4. ASSUME NEW u \in Queue \ {t}, NEW i \in B!Rows(u)'
              PROVE  /\ published'[u][i] < B!NewId(u)'
                     /\ \A j \in B!Rows(u)' : i < j => published'[u][i] < published'[u][j]
            <4>1. B!Rows(u)' = B!Rows(u) /\ i \in 1..Len(published[u])
                BY <1>1, <2>8 DEF B!Rows, HubsTypes
            <4>2. published[u][i] \in Nat /\ published[u][i] < B!NewId(u)
                BY <1>1, <1>4, <4>1 DEF RowsAscend
            <4> QED
                BY <1>1, <1>3, <2>7, <2>8, <4>1, <4>2 DEF RowsAscend
        <3> QED
            BY <3>3, <3>4 DEF RowsAscend
    <2>10. SharedAscend'
        <3>1. ASSUME NEW u \in Shared \cap Queue, NEW i \in 1..Len(published'[u])
              PROVE  published'[u][i] < B!NewId(u)'
            <4>1. CASE u = t
                BY <1>1, <1>4, <2>1, <2>5, <2>7, <2>8, <3>1, <4>1 DEF SharedAscend
            <4>2. CASE u # t
                BY <1>1, <1>3, <1>4, <2>7, <2>8, <3>1, <4>2 DEF SharedAscend
            <4> QED
                BY <4>1, <4>2
        <3> QED
            BY <3>1 DEF SharedAscend
    <2>11. ReadersAreBehind'
        <3>1. ASSUME NEW r \in Reader, b_following[r] # Nowhere PROVE Reach(r)' < B!NewId(b_following[r])'
            <4>1. PICK u \in Queue : u = b_following[r]
                BY <1>1, <3>1 DEF HubsTypes
            <4>2. Reach(r) < B!NewId(u) /\ Reach(r)' = Reach(r)
                BY <1>1, <2>2, <3>1, <4>1 DEF ReadersAreBehind, Reach, B!Last
            <4>3. Reach(r) \in Nat
                <5>1. \A s \in Seq(B!Id) : s # <<>> => B!Last(s) \in Nat
                    BY IdsAreNumbers DEF B!Last
                <5> QED
                    BY <1>1, <3>1, <5>1 DEF Reach, HubsTypes
            <4>4. Reach(r) < B!NewId(u)'
                BY <1>3, <2>1, <2>5, <2>7, <4>2, <4>3
            <4> QED
                BY <2>2, <4>1, <4>2, <4>4
        <3> QED
            BY <2>2, <3>1 DEF ReadersAreBehind
    <2> QED
        BY <2>6, <2>9, <2>10, <2>11 DEF HubsIInv
\* A step that publishes nothing moves the rows' first index at most, and the
\* next ids of the topics that anybody still follows grow at most.
<1>6. ASSUME HubsTypes', UNCHANGED published,
             \A t \in Queue : first[t] <= first'[t],
             \A t \in Queue : B!NewId(t) <= B!NewId(t)' \/ (t \notin Shared /\ B!Rows(t)' = {})
      PROVE  RowsAscend' /\ SharedAscend'
    <2>1. ASSUME NEW t \in Queue, NEW i \in B!Rows(t)' PROVE i \in B!Rows(t) /\ i \in 1..Len(published[t])
        BY <1>1, <1>6 DEF B!Rows, HubsTypes
    <2>2. \A t \in Queue : B!NewId(t)' \in Nat
        BY <1>2, <1>6, NextIds DEF HubsTypes
    <2>3. RowsAscend'
        <3>1. ASSUME NEW t \in Queue, NEW i \in B!Rows(t)'
              PROVE  /\ published[t][i] < B!NewId(t)'
                     /\ \A j \in B!Rows(t)' : i < j => published[t][i] < published[t][j]
            <4>1. i \in B!Rows(t) /\ published[t][i] \in Nat /\ published[t][i] < B!NewId(t)
                BY <1>1, <1>4, <2>1 DEF RowsAscend
            <4>2. B!NewId(t) <= B!NewId(t)'
                BY <1>6
            <4> QED
                BY <1>1, <1>3, <2>1, <2>2, <4>1, <4>2 DEF RowsAscend
        <3> QED
            BY <1>6, <3>1 DEF RowsAscend
    <2>4. SharedAscend'
        <3>1. ASSUME NEW t \in Shared \cap Queue, NEW i \in 1..Len(published[t])
              PROVE  published[t][i] < B!NewId(t)'
            BY <1>1, <1>3, <1>4, <1>6, <2>2 DEF SharedAscend
        <3> QED
            BY <1>6, <3>1 DEF SharedAscend
    <2> QED
        BY <2>3, <2>4
<1>7. ASSUME HubsTypes', NEW r \in Reader, b_following'[r] # Nowhere,
             UNCHANGED <<b_following[r], b_cursor[r], pending[r]>>,
             B!NewId(b_following[r]) <= B!NewId(b_following[r])'
      PROVE  Reach(r)' < B!NewId(b_following[r])'
    <2>1. PICK u \in Queue : u = b_following[r]
        BY <1>1, <1>7 DEF HubsTypes
    <2>2. Reach(r) < B!NewId(u) /\ Reach(r)' = Reach(r)
        BY <1>1, <1>7, <2>1 DEF ReadersAreBehind, Reach, B!Last
    <2>3. Reach(r) \in Nat
        <3>1. \A s \in Seq(B!Id) : s # <<>> => B!Last(s) \in Nat
            BY IdsAreNumbers DEF B!Last
        <3> QED
            BY <1>1, <1>7, <3>1 DEF Reach, HubsTypes
    <2>4. B!NewId(u)' \in Nat
        BY <1>2, <1>7, NextIds, SMTT(60) DEF HubsTypes
    <2> QED
        BY <1>3, <1>7, <2>1, <2>2, <2>3, <2>4
<1>9. ASSUME NEW t \in Queue, B!delete(t) PROVE HubsIInv'
    <2>1. /\ t \notin Shared /\ B!Emptied(t)
          /\ top' = [top EXCEPT ![t] = 0] /\ expiring' = [expiring EXCEPT ![t] = FALSE]
          /\ b_following' = [r \in Reader |-> IF b_following[r] = t THEN Nowhere ELSE b_following[r]]
          /\ b_cursor' = [r \in Reader |-> IF b_following[r] = t THEN Nowhere ELSE b_cursor[r]]
          /\ UNCHANGED <<backend, hub_clock, last_id, published, pending, b_got>>
        BY <1>9 DEF B!delete
    <2>2. HubsTypes'
        <3>1. top' \in [Queue -> Nat] /\ DOMAIN expiring' = Queue
            BY <1>1, <2>1 DEF HubsTypes
        <3>2. b_following' \in [Reader -> Queue \cup {Nowhere}] /\ b_cursor' \in [Reader -> Nat \cup {Nowhere}]
            BY <1>1, <2>1 DEF HubsTypes
        <3>3. \A r \in Reader : b_following'[r] # Nowhere => b_cursor'[r] \in Nat
            BY <1>1, <2>1 DEF HubsTypes
        <3>4. first' \in [Queue -> Nat \ {0}] /\ \A u \in Queue : first'[u] <= Len(published'[u]) + 1
            BY <1>1, <2>1, EmptiedIs
        <3> QED
            BY <1>1, <2>1, <3>1, <3>2, <3>3, <3>4 DEF HubsTypes
    <2>3. \A u \in Queue : u # t => B!NewId(u)' = B!NewId(u)
        BY <1>1, <1>2, <1>3, <2>1, <2>2 DEF HubsTypes
    <2>4. RowsAscend' /\ SharedAscend'
        <3>1. \A u \in Queue : B!NewId(u) <= B!NewId(u)' \/ (u \notin Shared /\ B!Rows(u)' = {})
            BY <1>1, <1>3, <2>1, <2>3, EmptiedIs
        <3>2. \A u \in Queue : first[u] <= first'[u]
            BY <1>1, <2>1, EmptiedIs
        <3> QED
            BY <1>6, <2>1, <2>2, <3>1, <3>2
    <2>5. ReadersAreBehind'
        <3>1. ASSUME NEW r \in Reader, b_following'[r] # Nowhere PROVE Reach(r)' < B!NewId(b_following[r])'
            <4>1. b_following[r] # t /\ b_following[r] \in Queue /\ UNCHANGED <<b_following[r], b_cursor[r], pending[r]>>
                BY <1>1, <2>1, <3>1 DEF HubsTypes
            <4>2. B!NewId(b_following[r])' = B!NewId(b_following[r])
                <5>1. PICK u \in Queue : u = b_following[r] /\ u = b_following'[r] /\ u # t
                    BY <4>1
                <5>2. B!NewId(u)' = B!NewId(u)
                    BY <2>3, <5>1
                <5> QED
                    BY <5>1, <5>2
            <4>3. B!NewId(b_following[r]) <= B!NewId(b_following[r])'
                BY <1>3, <4>1, <4>2
            <4> QED
                BY <1>7, <2>2, <3>1, <4>1, <4>3
        <3> QED
            BY <3>1 DEF ReadersAreBehind
    <2> QED
        BY <2>2, <2>4, <2>5 DEF HubsIInv
\* A step that leaves the readers where they are and no next id smaller.
<1>10. ASSUME UNCHANGED <<published, b_following, b_cursor, pending, b_got>>, HubsTypes',
              \A t \in Queue : first[t] <= first'[t] /\ B!NewId(t) <= B!NewId(t)'
       PROVE  HubsIInv'
    <2>1. RowsAscend' /\ SharedAscend'
        BY <1>6, <1>10
    <2>2. ReadersAreBehind'
        <3>1. ASSUME NEW r \in Reader, b_following'[r] # Nowhere PROVE Reach(r)' < B!NewId(b_following[r])'
            <4>1. PICK u \in Queue : u = b_following[r] /\ u = b_following'[r]
                BY <1>1, <1>10, <3>1 DEF HubsTypes
            <4>2. B!NewId(u) <= B!NewId(u)'
                BY <1>10
            <4> QED
                BY <1>7, <1>10, <3>1, <4>1, <4>2
        <3> QED
            BY <3>1 DEF ReadersAreBehind
    <2> QED
        BY <1>10, <2>1, <2>2 DEF HubsIInv
<1>11. ASSUME NEW t \in Queue, B!Lapse(t) PROVE HubsIInv'
    <2>1. /\ backend = "redis" /\ top[t] < hub_clock * B!Scale /\ B!Emptied(t)
          /\ top' = [top EXCEPT ![t] = 0] /\ expiring' = [expiring EXCEPT ![t] = FALSE]
          /\ UNCHANGED <<backend, hub_clock, last_id, published, b_following, b_cursor, pending, b_got>>
        BY <1>11 DEF B!Lapse, B!reading
    <2>2. HubsTypes'
        BY <1>1, <2>1, EmptiedIs DEF HubsTypes
    <2>3. \A u \in Queue : B!NewId(u)' = B!NewId(u)
        <3>1. ASSUME NEW u \in Queue, u # t PROVE B!NewId(u)' = B!NewId(u)
            BY <1>1, <1>2, <1>3, <2>1, <2>2, <3>1 DEF HubsTypes
        <3>2. NextId(backend, hub_clock, last_id, 0) = NextId(backend, hub_clock, last_id, top[t])
            BY <1>1, <2>1, NextIds DEF HubsTypes
        <3>3. top'[t] = 0
            BY <1>1, <2>1 DEF HubsTypes
        <3>4. B!NewId(t)' = B!NewId(t)
            BY <1>2, <1>3, <2>1, <2>2, <3>2, <3>3
        <3> QED
            BY <3>1, <3>4
    <2>4. \A u \in Queue : first[u] <= first'[u] /\ B!NewId(u) <= B!NewId(u)'
        BY <1>1, <1>3, <2>1, <2>3, EmptiedIs
    <2> QED
        BY <1>10, <2>1, <2>2, <2>4
<1>12. ASSUME B!sweep PROVE HubsIInv'
    <2>1. /\ backend = "sqlite"
          /\ UNCHANGED <<backend, hub_clock, last_id, top, expiring, published, b_following, b_cursor, pending, b_got>>
        BY <1>12 DEF B!sweep, B!reading
    <2>2. first' \in [Queue -> Nat \ {0}] /\ \A t \in Queue : first'[t] \in first[t]..Len(published[t]) + 1
        BY <1>1, <1>12, SweptIs
    <2>5. HubsTypes'
        BY <1>1, <2>1, <2>2 DEF HubsTypes
    <2>6. \A t \in Queue : first[t] <= first'[t] /\ B!NewId(t) <= B!NewId(t)'
        <3>1. ASSUME NEW t \in Queue PROVE first[t] <= first'[t]
            BY <1>1, <2>2 DEF HubsTypes
        <3>2. \A t \in Queue : B!NewId(t) <= B!NewId(t)'
            BY <1>2, <1>3, <2>1, <2>5
        <3> QED
            BY <3>1, <3>2
    <2> QED
        BY <1>10, <2>1, <2>5, <2>6
<1>13. ASSUME B!Tick PROVE HubsIInv'
    <2>1. /\ backend = "redis" /\ hub_clock' = hub_clock + 1
          /\ UNCHANGED <<backend, last_id, top, expiring, published, first, b_following, b_cursor, pending, b_got>>
        BY <1>13 DEF B!Tick, B!reading
    <2>2. HubsTypes'
        BY <1>1, <2>1 DEF HubsTypes
    <2>3. ASSUME NEW t \in Queue PROVE B!NewId(t) <= B!NewId(t)'
        <3>1. top[t] \in Nat
            BY <1>1 DEF HubsTypes
        <3>2. NextId(backend, hub_clock, last_id, top[t]) <= NextId(backend, hub_clock + 1, last_id, top[t])
            BY <1>1, <2>1, <3>1, NextIds DEF HubsTypes
        <3> QED
            BY <1>2, <1>3, <2>1, <2>2, <3>2
    <2>4. \A t \in Queue : first[t] <= first'[t]
        BY <1>1, <2>1 DEF HubsTypes
    <2> QED
        BY <1>10, <2>1, <2>2, <2>3, <2>4
\* A step that moves a reader and no event.
<1>14. ASSUME NEW r \in Reader, HubsTypes',
              UNCHANGED <<backend, hub_clock, last_id, top, expiring, published, first>>,
              \A q \in Reader : q # r =>
                UNCHANGED <<b_following[q], b_cursor[q], pending[q]>>,
              b_following'[r] # Nowhere => Reach(r)' < B!NewId(b_following'[r])
       PROVE  HubsIInv'
    <2>1. \A t \in Queue : B!NewId(t)' = B!NewId(t)
        BY <1>2, <1>3, <1>14
    <2>2. RowsAscend' /\ SharedAscend'
        <3>1. \A t \in Queue : first[t] <= first'[t] /\ B!NewId(t) <= B!NewId(t)'
            BY <1>1, <1>3, <1>14, <2>1 DEF HubsTypes
        <3> QED
            BY <1>6, <1>14, <3>1
    <2>3. ASSUME NEW q \in Reader, b_following'[q] # Nowhere PROVE Reach(q)' < B!NewId(b_following[q])'
        <3>1. PICK u \in Queue : u = b_following'[q]
            BY <1>14, <2>3 DEF HubsTypes
        <3>2. B!NewId(u)' = B!NewId(u) /\ B!NewId(u) <= B!NewId(u)'
            BY <1>3, <2>1
        <3>3. CASE q = r
            BY <1>14, <2>3, <3>1, <3>2, <3>3
        <3>4. CASE q # r
            <4>1. UNCHANGED <<b_following[q], b_cursor[q], pending[q]>>
                BY <1>14, <3>4
            <4> QED
                BY <1>7, <1>14, <2>3, <3>1, <3>2, <4>1
        <3> QED
            BY <3>3, <3>4
    <2> QED
        BY <1>14, <2>2, <2>3 DEF HubsIInv, ReadersAreBehind
<1>15. ASSUME NEW r \in Reader, NEW t \in Queue, B!subscribe(r, t) PROVE HubsIInv'
    <2>1. PICK c \in Nat : c = B!position(t) /\ c < B!NewId(t)
        BY PositionIs
    <2>2. /\ b_cursor' = [b_cursor EXCEPT ![r] = c] /\ b_following' = [b_following EXCEPT ![r] = t]
          /\ pending' = [pending EXCEPT ![r] = <<>>] /\ b_got' = [b_got EXCEPT ![r] = <<>>]
          /\ UNCHANGED <<backend, hub_clock, last_id, top, expiring, published, first>>
        BY <1>15, <2>1 DEF B!subscribe
    <2>3. HubsTypes'
        BY <1>1, <2>1, <2>2 DEF HubsTypes
    <2>4. b_following'[r] = t /\ Reach(r)' = c
        BY <1>1, <2>2 DEF HubsTypes, Reach
    <2>5. \A q \in Reader : q # r => UNCHANGED <<b_following[q], b_cursor[q], pending[q]>>
        BY <1>1, <2>2 DEF HubsTypes
    <2> QED
        BY <1>14, <2>1, <2>2, <2>3, <2>4, <2>5
<1>16. ASSUME NEW r \in Reader, NEW t \in Queue, NEW i \in 1..Len(published[t]),
              B!resume(r, t, published[t][i])
       PROVE  HubsIInv'
    <2>1. PICK c \in Nat : c = published[t][i]
        BY <1>4
    <2>2. t \in Shared /\ c < B!NewId(t)
        BY <1>1, <1>16, <2>1 DEF B!resume, SharedAscend
    <2>3. PICK found : found = B!After(t, c)
        OBVIOUS
    <2>4. found \in Seq(B!Id) /\ (found # <<>> => B!Last(found) < B!NewId(t))
        <3>1. EndsWithTheLast(t, c, B!After(t, c))
            BY AfterIs
        <3> QED
            BY <2>3, <3>1 DEF EndsWithTheLast
    <2>5. /\ b_cursor' = [b_cursor EXCEPT ![r] = c] /\ b_following' = [b_following EXCEPT ![r] = t]
          /\ pending' = [pending EXCEPT ![r] = found] /\ b_got' = [b_got EXCEPT ![r] = <<>>]
          /\ UNCHANGED <<backend, hub_clock, last_id, top, expiring, published, first>>
        BY <1>16, <2>1, <2>3 DEF B!resume
    <2>6. HubsTypes'
        BY <1>1, <2>4, <2>5 DEF HubsTypes
    <2>7. b_following'[r] = t /\ Reach(r)' = IF found # <<>> THEN B!Last(found) ELSE c
        BY <1>1, <2>5 DEF HubsTypes, Reach, B!Last
    <2>8. \A q \in Reader : q # r => UNCHANGED <<b_following[q], b_cursor[q], pending[q]>>
        BY <1>1, <2>5 DEF HubsTypes
    <2> QED
        BY <1>14, <2>2, <2>4, <2>5, <2>6, <2>7, <2>8
<1>17. ASSUME NEW r \in Reader, B!poll(r) PROVE HubsIInv'
    <2>1. PICK t \in Queue : t = b_following[r] /\ t # Nowhere
        BY <1>1, <1>17 DEF B!poll, HubsTypes
    <2>2. PICK c \in Nat : c = b_cursor[r]
        BY <1>1, <2>1 DEF HubsTypes
    <2>3. PICK events : /\ events = IF pending[r] # <<>> THEN pending[r] ELSE B!After(t, c)
                        /\ events # <<>>
                        /\ b_got' = [b_got EXCEPT ![r] = @ \o events]
                        /\ b_cursor' = [b_cursor EXCEPT ![r] = B!Last(events)]
        BY <1>17, <2>1, <2>2 DEF B!poll
    <2>4. /\ pending' = [pending EXCEPT ![r] = <<>>]
          /\ UNCHANGED <<backend, hub_clock, last_id, top, expiring, published, first, b_following>>
        BY <1>17 DEF B!poll
    <2>5. events \in Seq(B!Id) /\ B!Last(events) \in Nat /\ B!Last(events) < B!NewId(t)
        <3>1. CASE pending[r] # <<>>
            <4>1. events \in Seq(B!Id) /\ B!Last(events) < B!NewId(t)
                BY <1>1, <2>1, <2>3, <3>1 DEF HubsTypes, ReadersAreBehind, Reach
            <4>2. events \in Seq(Nat)
                BY <4>1, IdsAreNumbers
            <4> QED
                BY <2>3, <4>1, <4>2 DEF B!Last
        <3>2. CASE pending[r] = <<>>
            <4>1. events = B!After(t, c)
                BY <2>3, <3>2
            <4>2. EndsWithTheLast(t, c, B!After(t, c))
                BY AfterIs
            <4> QED
                BY <2>3, <4>1, <4>2 DEF EndsWithTheLast
        <3> QED
            BY <3>1, <3>2
    <2>6. HubsTypes'
        <3>1. b_got[r] \o events \in Seq(B!Id)
            BY <1>1, <2>5 DEF HubsTypes
        <3>2. b_got' \in [Reader -> Seq(B!Id)]
            BY <1>1, <2>3, <3>1 DEF HubsTypes
        <3>3. /\ b_cursor' \in [Reader -> Nat \cup {Nowhere}]
              /\ \A q \in Reader : b_following'[q] # Nowhere => b_cursor'[q] \in Nat
            BY <1>1, <2>3, <2>4, <2>5 DEF HubsTypes
        <3>4. pending' \in [Reader -> Seq(B!Id)]
            BY <1>1, <2>4 DEF HubsTypes
        <3> QED
            BY <1>1, <2>4, <3>2, <3>3, <3>4 DEF HubsTypes
    <2>7. b_following'[r] = t /\ Reach(r)' = B!Last(events)
        BY <1>1, <2>1, <2>3, <2>4 DEF HubsTypes, Reach
    <2>8. \A q \in Reader : q # r => UNCHANGED <<b_following[q], b_cursor[q], pending[q]>>
        BY <1>1, <2>3, <2>4 DEF HubsTypes
    <2> QED
        BY <1>14, <2>4, <2>5, <2>6, <2>7, <2>8
<1>18. CASE UNCHANGED B!vars
    <2>1. UNCHANGED <<backend, hub_clock, last_id, top, expiring, published, first, b_cursor, b_following, pending, b_got>>
        BY <1>18 DEF B!vars
    <2>2. HubsTypes'
        BY <1>1, <2>1 DEF HubsTypes
    <2>3. \A t \in Queue : first[t] <= first'[t] /\ B!NewId(t) <= B!NewId(t)'
        <3>1. \A t \in Queue : first[t] <= first'[t]
            BY <1>1, <2>1 DEF HubsTypes
        <3>2. \A t \in Queue : B!NewId(t) <= B!NewId(t)'
            BY <1>2, <1>3, <2>1, <2>2
        <3> QED
            BY <3>1, <3>2
    <2> QED
        BY <1>10, <2>1, <2>2, <2>3
<1> QED
    BY <1>5, <1>9, <1>11, <1>12, <1>13, <1>15, <1>16, <1>17, <1>18 DEF B!Next

\* What the log sees of these hubs.
HubsKept == [t \in Queue |-> B!Rows(t)]
HubsPlace == [r \in Reader |-> IF b_following[r] = Nowhere THEN Nowhere ELSE B!Place(r)]
HubsGot == [r \in Reader |-> b_got[r] \o pending[r]]

LEMMA PlaceIs ==
    ASSUME HubsTypes, NEW r \in Reader, b_following[r] # Nowhere
    PROVE  /\ Reach(r) \in Nat
           /\ B!Place(r) = IndexIn(published[b_following[r]], Reach(r))
<1>1. \A s \in Seq(B!Id) : s # <<>> => B!Last(s) \in Nat
    BY IdsAreNumbers DEF B!Last
<1> QED
    BY <1>1 DEF HubsTypes, Reach, B!Place, B!IndexOf, IndexIn

\* A statement that found the ids of a topic from an index on read what the log
\* has unread there.
Beyond(t, c) == {i \in B!Rows(t) : i > IndexIn(published[t], c)}
IsReading(t, found, unread) ==
    /\ found \in Seq(B!Id) /\ found = B!Log!At(published[t], unread)
    /\ found = <<>> <=> unread = {}
    /\ found # <<>> => /\ B!Log!Newest(unread) = Len(published[t])
                       /\ IndexIn(published[t], B!Last(found)) = Len(published[t])

\* What comes after an id is what the log has unread after its index.
LEMMA FindingIsReading ==
    ASSUME HubsIInv, NEW t \in Queue, NEW c \in Nat
    PROVE  IsReading(t, B!After(t, c), Beyond(t, c))
<1> DEFINE found == B!After(t, c)
           unread == Beyond(t, c)
<1> HIDE DEF found, unread
<1>1. PICK s \in Seq(Nat) : s = published[t] /\ Len(s) \in Nat
    BY IdsAreNumbers DEF HubsIInv, HubsTypes
<1>2. PICK f \in Nat \ {0} : f = first[t]
    BY DEF HubsIInv, HubsTypes
<1>3. \A i, j \in f..Len(s) : i < j => s[i] < s[j]
    BY <1>1, <1>2 DEF HubsIInv, RowsAscend, B!Rows
<1>4. \A i \in f..Len(s) : s[i] > c <=> i > IndexIn(s, c)
    BY <1>1, <1>2, <1>3, IndexSplits
<1>5. unread = {i \in B!Rows(t) : published[t][i] > c}
    BY <1>1, <1>2, <1>4 DEF unread, Beyond, B!Rows
<1>6. found = B!Log!At(published[t], unread)
    BY <1>5, HubsInOrder DEF found, B!After
<1>7. /\ found \in Seq(B!Id) /\ (found = <<>> <=> unread = {})
      /\ found # <<>> => /\ Len(s) \in B!Rows(t) /\ s[Len(s)] > c
                         /\ B!Last(found) = s[Len(s)]
    <2>1. EndsWithTheLast(t, c, found)
        BY AfterIs DEF found
    <2> QED
        BY <1>1, <1>5, <2>1 DEF EndsWithTheLast
<1>8. ASSUME found # <<>>
      PROVE  B!Log!Newest(unread) = Len(s) /\ IndexIn(s, B!Last(found)) = Len(s)
    <2>1. Len(s) \in unread /\ \A i \in unread : i <= Len(s) /\ i \in Nat
        BY <1>1, <1>2, <1>5, <1>7, <1>8 DEF B!Rows
    <2>2. \A i \in unread : (\A j \in unread : j <= i) => i = Len(s)
        BY <1>1, <2>1
    <2>3. B!Log!Newest(unread) = Len(s)
        BY <2>1, <2>2 DEF B!Log!Newest
    <2>4. Len(s) # 0
        BY <1>1, <1>2, <1>7, <1>8 DEF B!Rows
    <2> QED
        BY <1>1, <1>7, <1>8, <2>3, <2>4, IndexFound
<1>9. IsReading(t, found, unread)
    BY <1>1, <1>6, <1>7, <1>8 DEF IsReading
<1> QED
    BY <1>9 DEF found, unread

\* A step that moves a reader moves it to the index of what it now reaches.
LEMMA ReaderMoves ==
    ASSUME HubsTypes, HubsTypes', NEW r \in Reader, NEW t \in Queue,
           published' = published, first' = first,
           b_following' = [b_following EXCEPT ![r] = t],
           \A q \in Reader : q # r => b_cursor'[q] = b_cursor[q] /\ pending'[q] = pending[q]
    PROVE  /\ HubsPlace' = [HubsPlace EXCEPT ![r] = HubsPlace'[r]]
           /\ HubsPlace'[r] = IndexIn(published[t], IF pending'[r] # <<>> THEN B!Last(pending'[r])
                                                                        ELSE b_cursor'[r])
           /\ HubsKept' = HubsKept
<1>1. b_following'[r] = t /\ t # Nowhere /\ \A q \in Reader : q # r => b_following'[q] = b_following[q]
    BY StorageConstants DEF HubsTypes
<1>2. B!Place(r)' = IndexIn(published[t], IF pending'[r] # <<>> THEN B!Last(pending'[r]) ELSE b_cursor'[r])
    BY <1>1 DEF Reach, B!Place, B!IndexOf, IndexIn
<1>3. ASSUME NEW q \in Reader, q # r PROVE B!Place(q)' = B!Place(q)
    BY <1>1, <1>3 DEF B!Place, B!IndexOf, B!Last
<1>4. /\ HubsPlace'[r] = B!Place(r)'
      /\ HubsPlace' = [HubsPlace EXCEPT ![r] = HubsPlace'[r]]
    BY <1>1, <1>3 DEF HubsPlace
<1>5. HubsKept' = HubsKept
    BY DEF HubsKept, B!Rows
<1> QED
    BY <1>2, <1>4, <1>5

\* A publish appends, whatever `keep` or MAXLEN pushes out.
LEMMA HubsAppend ==
    ASSUME HubsIInv, HubsIInv', NEW t \in Queue, B!publish(t)
    PROVE  \E m \in B!Id : B!Log!Publish(t, m)
<1>1. HubsTypes /\ ReadersAreBehind
    BY DEF HubsIInv
<1>2. PICK m \in B!Id : m = B!NewId(t) /\ m \in Nat
    BY IdsAreNumbers DEF B!publish
<1>3. /\ published' = [published EXCEPT ![t] = Append(@, m)]
      /\ UNCHANGED <<b_cursor, b_following, pending, b_got>>
    BY <1>2 DEF B!publish, B!reading
<1>4. PICK f : f \in first[t]..Len(published[t]) + 1 /\ first' = [first EXCEPT ![t] = f]
    BY <1>1, TrimmedIs DEF B!publish
<1>5. PICK n \in Nat : n = Len(published[t]) /\ Len(published'[t]) = n + 1
    BY <1>1, <1>3 DEF HubsTypes
<1>6. first'[t] = f /\ f \in Nat \ {0} /\ f <= n + 1 /\ first[t] <= f /\ first[t] \in Nat
    BY <1>1, <1>4, <1>5 DEF HubsTypes
<1>7. \E K \in SUBSET HubsKept[t] : HubsKept' = [HubsKept EXCEPT ![t] = K \cup {n + 1}]
    <2>1. PICK K : K = f..n
        OBVIOUS
    <2>2. HubsKept[t] = first[t]..n
        BY <1>5 DEF HubsKept, B!Rows
    <2>3. K \in SUBSET HubsKept[t]
        BY <1>5, <1>6, <2>1, <2>2
    <2>4. B!Rows(t)' = K \cup {n + 1}
        BY <1>5, <1>6, <2>1 DEF B!Rows
    <2>5. \A u \in Queue : u # t => B!Rows(u)' = B!Rows(u)
        BY <1>1, <1>3, <1>4 DEF B!Rows, HubsTypes
    <2>6. HubsKept' = [HubsKept EXCEPT ![t] = K \cup {n + 1}]
        BY <2>4, <2>5 DEF HubsKept
    <2> QED
        BY <2>3, <2>6
<1>8. HubsPlace' = HubsPlace
    <2>1. ASSUME NEW r \in Reader, b_following[r] # Nowhere PROVE B!Place(r)' = B!Place(r)
        <3>1. PICK u \in Queue : u = b_following[r]
            BY <1>1, <2>1 DEF HubsTypes
        <3>2. PICK x \in Nat : x = Reach(r) /\ x < B!NewId(u) /\ B!Place(r) = IndexIn(published[u], x)
            BY <1>1, <2>1, <3>1, PlaceIs DEF ReadersAreBehind
        <3>3. B!Place(r)' = IndexIn(published'[u], x)
            BY <1>3, <3>1, <3>2 DEF Reach, B!Place, B!IndexOf, B!Last, IndexIn
        <3>4. IndexIn(published'[u], x) = IndexIn(published[u], x)
            <4>1. CASE u = t
                <5>1. published[t] \in Seq(Nat) /\ published'[t] = Append(published[t], m)
                    BY <1>1, <1>3, IdsAreNumbers DEF HubsTypes
                <5> QED
                    BY <1>2, <3>2, <4>1, <5>1, IndexFound
            <4>2. CASE u # t
                BY <1>1, <1>3, <4>2 DEF HubsTypes
            <4> QED
                BY <4>1, <4>2
        <3> QED
            BY <3>2, <3>3, <3>4
    <2> QED
        BY <1>3, <2>1 DEF HubsPlace
<1> QED
    BY <1>3, <1>5, <1>7, <1>8 DEF B!Log!Publish, HubsKept, HubsPlace

\* A deleted topic is closed.
LEMMA HubsClose ==
    ASSUME HubsIInv, NEW t \in Queue, B!delete(t)
    PROVE  B!Log!Close(t)
<1>1. HubsTypes
    BY DEF HubsIInv
<1>2. /\ B!Emptied(t)
      /\ b_following' = [r \in Reader |-> IF b_following[r] = t THEN Nowhere ELSE b_following[r]]
      /\ b_cursor' = [r \in Reader |-> IF b_following[r] = t THEN Nowhere ELSE b_cursor[r]]
      /\ UNCHANGED <<published, pending, b_got>>
    BY DEF B!delete
<1>3. HubsKept' = [HubsKept EXCEPT ![t] = {}]
    <2>1. PICK n \in Nat : n = Len(published[t])
        BY <1>1 DEF HubsTypes
    <2>2. first'[t] = n + 1 /\ \A u \in Queue : u # t => first'[u] = first[u]
        BY <1>1, <1>2, <2>1 DEF B!Emptied, HubsTypes
    <2>3. B!Rows(t)' = {}
        BY <1>2, <2>1, <2>2 DEF B!Rows
    <2>4. \A u \in Queue : u # t => B!Rows(u)' = B!Rows(u)
        BY <1>2, <2>2 DEF B!Rows
    <2> QED
        BY <2>3, <2>4 DEF HubsKept
<1>4. HubsPlace' = [r \in Reader |-> IF b_following[r] = t THEN Nowhere ELSE HubsPlace[r]]
    <2>1. ASSUME NEW r \in Reader, b_following[r] # t
          PROVE  b_following'[r] = b_following[r] /\ B!Place(r)' = B!Place(r)
        <3>1. b_following'[r] = b_following[r] /\ b_cursor'[r] = b_cursor[r] /\ pending'[r] = pending[r]
            BY <1>2, <2>1
        <3> QED
            BY <1>2, <3>1 DEF B!Place, B!IndexOf, B!Last
    <2>2. \A r \in Reader : b_following[r] = t => b_following'[r] = Nowhere
        BY <1>2
    <2> QED
        BY <2>1, <2>2 DEF HubsPlace
<1> QED
    BY <1>2, <1>3, <1>4 DEF B!Log!Close, HubsKept, HubsPlace

\* A stream that lapses and a sweep forget, and move no reader.
LEMMA HubsForget ==
    ASSUME HubsIInv, HubsIInv', UNCHANGED <<published, b_cursor, b_following, pending, b_got>>,
           \A t \in Queue : first[t] <= first'[t]
    PROVE  B!Log!ForgetAcross
<1>1. ASSUME NEW t \in Queue PROVE B!Rows(t)' \subseteq B!Rows(t)
    BY DEF B!Rows, HubsIInv, HubsTypes
<1>2. /\ HubsKept' \in [Queue -> SUBSET UNION {HubsKept[t] : t \in Queue}]
      /\ \A t \in Queue : HubsKept'[t] \subseteq HubsKept[t]
    BY <1>1 DEF HubsKept
<1>3. HubsPlace' = HubsPlace
    BY DEF HubsPlace, B!Place, B!IndexOf, B!Last
<1> QED
    BY <1>2, <1>3 DEF B!Log!ForgetAcross, HubsKept, HubsPlace

LEMMA HubsSubscribe ==
    ASSUME HubsIInv, HubsIInv', NEW r \in Reader, NEW t \in Queue, B!subscribe(r, t)
    PROVE  B!Log!Subscribe(r, t)
<1>1. HubsTypes /\ HubsTypes'
    BY DEF HubsIInv
<1>2. PICK c \in Nat : c = B!position(t) /\ \A i \in B!Rows(t) : published[t][i] <= c
    BY PositionIs
<1>3. /\ b_cursor' = [b_cursor EXCEPT ![r] = c] /\ b_following' = [b_following EXCEPT ![r] = t]
      /\ pending' = [pending EXCEPT ![r] = <<>>] /\ b_got' = [b_got EXCEPT ![r] = <<>>]
      /\ published' = published /\ first' = first
    BY <1>2 DEF B!subscribe
<1>4. /\ pending'[r] = <<>> /\ c = b_cursor'[r]
      /\ \A q \in Reader : q # r =>
            b_cursor'[q] = b_cursor[q] /\ pending'[q] = pending[q] /\ b_got'[q] = b_got[q]
    BY <1>1, <1>3 DEF HubsTypes, Reach
<1>5. HubsPlace' = [HubsPlace EXCEPT ![r] = IndexIn(published[t], c)] /\ HubsKept' = HubsKept
    <2>1. /\ HubsPlace' = [HubsPlace EXCEPT ![r] = HubsPlace'[r]] /\ HubsKept' = HubsKept
          /\ HubsPlace'[r] = IndexIn(published[t], IF pending'[r] # <<>> THEN B!Last(pending'[r])
                                                                        ELSE b_cursor'[r])
        BY <1>1, <1>3, <1>4, ReaderMoves
    <2> QED
        BY <1>4, <2>1
<1>6. PICK s \in Seq(Nat) : s = published[t]
    BY <1>1, IdsAreNumbers DEF HubsTypes
<1>7. IndexIn(s, c) \in 0..Len(s) /\ \A i \in B!Rows(t) : i <= IndexIn(s, c)
    <2>1. \A i \in B!Rows(t) : i \in 1..Len(s)
        BY <1>1, <1>6 DEF B!Rows, HubsTypes
    <2> QED
        BY <1>2, <1>6, <2>1, IndexFound
<1>8. HubsGot' = [HubsGot EXCEPT ![r] = <<>>]
    <2>1. b_got'[r] \o pending'[r] = <<>>
        BY <1>1, <1>3 DEF HubsTypes
    <2> QED
        BY <1>4, <2>1 DEF HubsGot
<1> QED
    BY <1>3, <1>5, <1>6, <1>7, <1>8 DEF B!Log!Subscribe, HubsKept, HubsPlace, HubsGot

\* Whoever resumes has read what its first look found.
LEMMA HubsResume ==
    ASSUME HubsIInv, HubsIInv', NEW r \in Reader, NEW t \in Queue,
           NEW i \in 1..Len(published[t]), B!resume(r, t, published[t][i])
    PROVE  \E n \in 0..Len(published[t]) : B!Log!Resume(r, t, n)
<1>1. HubsTypes /\ HubsTypes'
    BY DEF HubsIInv
<1>2. PICK s \in Seq(Nat) : s = published[t]
    BY <1>1, IdsAreNumbers DEF HubsTypes
<1>3. PICK c \in Nat : c = published[t][i]
    BY <1>2
<1>4. PICK n \in 0..Len(s) : n = IndexIn(s, c)
    BY <1>2, <1>3, IndexFound
<1>5. PICK found : found = B!After(t, c)
    OBVIOUS
<1>6. PICK unread : unread = {j \in B!Rows(t) : j > n}
    OBVIOUS
<1>7. /\ found \in Seq(B!Id) /\ found = B!Log!At(published[t], unread) /\ (found = <<>> <=> unread = {})
      /\ found # <<>> => /\ B!Log!Newest(unread) = Len(s)
                         /\ IndexIn(s, B!Last(found)) = Len(s)
    <2>1. unread = Beyond(t, c)
        BY <1>2, <1>4, <1>6 DEF Beyond
    <2>2. IsReading(t, B!After(t, c), Beyond(t, c))
        BY FindingIsReading
    <2> QED
        BY <1>2, <1>3, <1>5, <2>1, <2>2 DEF IsReading
<1>8. /\ b_cursor' = [b_cursor EXCEPT ![r] = c] /\ b_following' = [b_following EXCEPT ![r] = t]
      /\ pending' = [pending EXCEPT ![r] = found] /\ b_got' = [b_got EXCEPT ![r] = <<>>]
      /\ published' = published /\ first' = first
    BY <1>3, <1>5 DEF B!resume
<1>9. PICK x : x = IF found # <<>> THEN B!Last(found) ELSE c
    OBVIOUS
<1>10. /\ pending'[r] # <<>> => x = B!Last(pending'[r])
       /\ pending'[r] = <<>> => x = b_cursor'[r]
       /\ \A q \in Reader : q # r =>
            b_cursor'[q] = b_cursor[q] /\ pending'[q] = pending[q] /\ b_got'[q] = b_got[q]
    BY <1>1, <1>8, <1>9 DEF HubsTypes, Reach, B!Last
<1>11. HubsPlace' = [HubsPlace EXCEPT ![r] = IndexIn(published[t], x)] /\ HubsKept' = HubsKept
    <2>1. /\ published' = published /\ first' = first
          /\ b_following' = [b_following EXCEPT ![r] = t]
        BY <1>8
    <2>2. \A q \in Reader : q # r => b_cursor'[q] = b_cursor[q] /\ pending'[q] = pending[q]
        BY <1>10
    <2>3. /\ HubsPlace' = [HubsPlace EXCEPT ![r] = HubsPlace'[r]] /\ HubsKept' = HubsKept
          /\ HubsPlace'[r] = IndexIn(published[t], IF pending'[r] # <<>> THEN B!Last(pending'[r])
                                                                        ELSE b_cursor'[r])
        BY <1>1, <2>1, <2>2, ReaderMoves
    <2> QED
        BY <1>10, <2>3
<1>12. IndexIn(published[t], x) = IF unread = {} THEN n ELSE B!Log!Newest(unread)
    BY <1>2, <1>4, <1>7, <1>9
<1>13. HubsGot' = [HubsGot EXCEPT ![r] = B!Log!At(published[t], unread)]
    <2>1. b_got'[r] \o pending'[r] = found
        BY <1>1, <1>7, <1>8 DEF HubsTypes
    <2> QED
        BY <1>7, <1>10, <2>1 DEF HubsGot
<1>14. unread = {j \in HubsKept[t] : j > n}
    BY <1>6 DEF HubsKept
<1>15. B!Log!Resume(r, t, n)
    BY <1>2, <1>8, <1>11, <1>12, <1>13, <1>14 DEF B!Log!Resume, HubsKept, HubsPlace, HubsGot
<1> QED
    BY <1>2, <1>15

\* The poll that hands over the first look changes nothing that the log sees; any
\* other is a poll of the log.
LEMMA HubsPoll ==
    ASSUME HubsIInv, HubsIInv', NEW r \in Reader, B!poll(r)
    PROVE  B!Log!Poll(r) \/ UNCHANGED B!Log!vars
<1>1. HubsTypes /\ HubsTypes'
    BY DEF HubsIInv
<1>2. PICK t \in Queue : t = b_following[r] /\ t # Nowhere
    BY <1>1 DEF B!poll, HubsTypes
<1>3. PICK c \in Nat : c = b_cursor[r]
    BY <1>1, <1>2 DEF HubsTypes
<1>4. PICK events : /\ events = IF pending[r] # <<>> THEN pending[r] ELSE B!After(t, c)
                    /\ events # <<>>
                    /\ b_got' = [b_got EXCEPT ![r] = @ \o events]
                    /\ b_cursor' = [b_cursor EXCEPT ![r] = B!Last(events)]
    BY <1>2, <1>3 DEF B!poll
<1>5. /\ pending' = [pending EXCEPT ![r] = <<>>]
      /\ published' = published /\ first' = first /\ b_following' = b_following
    BY DEF B!poll
<1>6. /\ pending'[r] = <<>> /\ B!Last(events) = b_cursor'[r]
      /\ \A q \in Reader : q # r =>
            b_cursor'[q] = b_cursor[q] /\ pending'[q] = pending[q] /\ b_got'[q] = b_got[q]
    BY <1>1, <1>4, <1>5 DEF HubsTypes, Reach
<1>7. HubsPlace' = [HubsPlace EXCEPT ![r] = IndexIn(published[t], B!Last(events))] /\ HubsKept' = HubsKept
    <2>1. b_following' = [b_following EXCEPT ![r] = t]
        BY <1>1, <1>2, <1>5 DEF HubsTypes
    <2>2. /\ HubsPlace' = [HubsPlace EXCEPT ![r] = HubsPlace'[r]] /\ HubsKept' = HubsKept
          /\ HubsPlace'[r] = IndexIn(published[t], IF pending'[r] # <<>> THEN B!Last(pending'[r])
                                                                        ELSE b_cursor'[r])
        BY <1>1, <1>5, <1>6, <2>1, ReaderMoves
    <2> QED
        BY <1>6, <2>2
<1>8. HubsPlace[r] = IndexIn(published[t], Reach(r))
    BY <1>1, <1>2, PlaceIs DEF HubsPlace
<1>9. CASE pending[r] # <<>>
    <2>1. Reach(r) = B!Last(events) /\ events = pending[r]
        BY <1>4, <1>9 DEF Reach
    <2>2. HubsPlace' = HubsPlace
        BY <1>7, <1>8, <2>1 DEF HubsPlace
    <2>3. HubsGot' = HubsGot
        <3>1. b_got[r] \o events \in Seq(B!Id) /\ b_got'[r] = b_got[r] \o events /\ pending'[r] = <<>>
            BY <1>1, <1>4, <1>5, <2>1 DEF HubsTypes
        <3>2. b_got'[r] \o pending'[r] = b_got[r] \o pending[r]
            BY <2>1, <3>1
        <3> QED
            BY <1>6, <3>2 DEF HubsGot
    <2> QED
        BY <1>5, <1>7, <2>2, <2>3 DEF B!Log!vars, HubsKept, HubsPlace, HubsGot
<1>10. CASE pending[r] = <<>>
    <2>1. events = B!After(t, c) /\ Reach(r) = c
        BY <1>3, <1>4, <1>10 DEF Reach
    <2>2. PICK unread : unread = {j \in B!Rows(t) : j > IndexIn(published[t], c)}
        OBVIOUS
    <2>3. /\ events \in Seq(B!Id) /\ events = B!Log!At(published[t], unread) /\ unread # {}
          /\ B!Log!Newest(unread) = IndexIn(published[t], B!Last(events))
        <3>1. /\ events \in Seq(B!Id) /\ events = B!Log!At(published[t], unread)
              /\ events = <<>> <=> unread = {}
              /\ events # <<>> => /\ B!Log!Newest(unread) = Len(published[t])
                                  /\ IndexIn(published[t], B!Last(events)) = Len(published[t])
            <4>1. IsReading(t, B!After(t, c), Beyond(t, c))
                BY FindingIsReading
            <4>2. unread = Beyond(t, c)
                BY <2>2 DEF Beyond
            <4> QED
                BY <2>1, <4>1, <4>2 DEF IsReading
        <3> QED
            BY <1>4, <3>1
    <2>4. HubsGot' = [HubsGot EXCEPT ![r] = @ \o B!Log!At(published[t], unread)]
        <3>1. b_got[r] \in Seq(B!Id) /\ b_got'[r] = b_got[r] \o events /\ pending'[r] = <<>>
            BY <1>1, <1>4, <1>5 DEF HubsTypes
        <3>2. b_got[r] \o events \in Seq(B!Id)
            BY <2>3, <3>1
        <3>3. b_got'[r] \o pending'[r] = (b_got[r] \o pending[r]) \o events
            BY <1>10, <3>1, <3>2
        <3> QED
            BY <1>6, <2>3, <3>3 DEF HubsGot
    <2>5. B!Log!Unread(r) = unread
        <3>1. unread = {j \in HubsKept[t] : j > HubsPlace[r]}
            BY <1>8, <2>1, <2>2 DEF HubsKept
        <3> QED
            BY <1>2, <3>1 DEF B!Log!Unread, HubsKept, HubsPlace
    <2> QED
        BY <1>2, <1>5, <1>7, <2>3, <2>4, <2>5 DEF B!Log!Poll, HubsKept, HubsPlace, HubsGot
<1> QED
    BY <1>9, <1>10

LEMMA HubsStartAsALog == B!Init => B!Log!Init
<1> SUFFICES ASSUME B!Init PROVE B!Log!Init
    OBVIOUS
<1>1. HubsKept = [t \in Queue |-> {}]
    BY DEF HubsKept, B!Rows, B!Init
<1>2. HubsPlace = [r \in Reader |-> Nowhere]
    BY DEF HubsPlace, B!Init
<1>3. HubsGot = [r \in Reader |-> <<>>]
    BY DEF HubsGot, B!Init
<1> QED
    BY <1>1, <1>2, <1>3 DEF B!Init, B!Log!Init, HubsKept, HubsPlace, HubsGot

LEMMA HubsImplement == HubsIInv /\ HubsIInv' /\ [B!Next]_(B!vars) => [B!Log!Next]_(B!Log!vars)
<1> SUFFICES ASSUME HubsIInv, HubsIInv', [B!Next]_(B!vars) PROVE [B!Log!Next]_(B!Log!vars)
    OBVIOUS
<1>1. HubsTypes
    BY DEF HubsIInv
<1>2. ASSUME NEW t \in Queue, B!publish(t) PROVE B!Log!Next
    BY <1>2, HubsAppend DEF B!Log!Next
<1>3. ASSUME NEW t \in Queue, B!delete(t) PROVE B!Log!Next
    BY <1>3, HubsClose DEF B!Log!Next
<1>4. ASSUME NEW t \in Queue, B!Lapse(t) PROVE B!Log!Next
    <2>1. UNCHANGED <<published, b_cursor, b_following, pending, b_got>> /\ B!Emptied(t)
        BY <1>4 DEF B!Lapse, B!reading
    <2>2. \A u \in Queue : first[u] <= first'[u]
        BY <1>1, <2>1, EmptiedIs
    <2> QED
        BY <2>1, <2>2, HubsForget DEF B!Log!Next
<1>5. ASSUME B!sweep PROVE B!Log!Next
    <2>1. UNCHANGED <<published, b_cursor, b_following, pending, b_got>>
        BY <1>5 DEF B!sweep, B!reading
    <2>2. \A u \in Queue : first[u] <= first'[u]
        BY <1>1, <1>5, SweptIs DEF HubsTypes
    <2> QED
        BY <2>1, <2>2, HubsForget DEF B!Log!Next
<1>6. ASSUME NEW r \in Reader, B!poll(r) PROVE [B!Log!Next]_(B!Log!vars)
    BY <1>6, HubsPoll DEF B!Log!Next
<1>7. ASSUME NEW r \in Reader, NEW t \in Queue, B!subscribe(r, t) PROVE B!Log!Next
    BY <1>7, HubsSubscribe DEF B!Log!Next
<1>8. ASSUME NEW r \in Reader, NEW t \in Queue, NEW i \in 1..Len(published[t]),
             B!resume(r, t, published[t][i])
      PROVE  B!Log!Next
    BY <1>8, HubsResume DEF B!Log!Next
<1>9. CASE B!Tick \/ UNCHANGED B!vars
    <2>1. UNCHANGED <<published, first, b_cursor, b_following, pending, b_got>>
        BY <1>9 DEF B!Tick, B!reading, B!vars
    <2> QED
        BY <2>1 DEF B!Log!vars, B!Rows, B!Place, B!IndexOf, B!Last
<1> QED
    BY <1>2, <1>3, <1>4, <1>5, <1>6, <1>7, <1>8, <1>9 DEF B!Next

\* The list in memory, the table of SQLite and the stream of Redis are logs: their
\* readers miss nothing that is retained and read nothing twice, whatever `keep`,
\* the sweep, a lapsed key or a deleted topic takes away.
THEOREM OtherHubsAreLogs == B!Spec => B!ImplementsTopicLog
    BY HubsInit, HubsKeep, HubsStartAsALog, HubsImplement, PTL
    DEF B!Spec, B!ImplementsTopicLog, B!Log!Spec

-----------------------------------------------------------------------------
(* All of them together *)

\* Each step of MCNext is a step of one part, and a stutter of the others.
LEMMA StoragePartsStep ==
    [MCNext]_<<part, vars, sqlite, redis, postgres, pg_hub, hubs>> =>
        /\ [Next]_vars /\ [S!Next]_(S!vars) /\ [R!Next]_(R!vars)
        /\ [P!Next]_(P!vars) /\ [H!Next]_(H!vars) /\ [B!Next]_(B!vars)
    BY DEF MCNext, vars, sqlite, redis, postgres, pg_hub, hubs, S!vars, R!vars, P!vars, H!vars,
           B!vars, B!reading

\* The dict of the memory store, purged when it has to be.
THEOREM MemoryPurges == MCSpec => ExpiredArePurged
    BY InvInit, InvStep, PurgeStep, StoragePartsStep, PTL DEF MCSpec, MCInit, ExpiredArePurged

\* The session stores that are held against the contract meet it.
THEOREM MemoryMeetsTheContract == MCSpec => ImplementsContract
    BY InvInit, InvStep, StepImplements, InitImplements, StoragePartsStep, PTL
    DEF MCSpec, MCInit, ImplementsContract, Contract!Spec

\* The rows of SQLite and the keys of Redis: both answer as the contract does.
THEOREM RowsMeetTheContract == MCSpec => RowsImplementContract
<1>1. MCSpec => S!ImplementsContract
    BY SqlInit, SqlStep, SqlStepImplements, StoragePartsStep, PTL
    DEF MCSpec, MCInit, S!ImplementsContract, S!Contract!Spec
<1>2. MCSpec => R!ImplementsContract
    BY RedisInit, RedisStep, StoragePartsStep, PTL
    DEF MCSpec, MCInit, R!ImplementsContract, R!Contract!Spec
<1> QED
    BY <1>1, <1>2 DEF RowsImplementContract

\* PostgreSQL's sweep, its sessions and its hub.
THEOREM SweepsApart == MCSpec => OneSweepPerInterval
<1>1. PgIInv /\ [P!Next]_(P!vars) => (swept' # swept /\ swept # NoRow => swept' >= swept + Every)
    BY PgSweepsApart
<1> QED
    BY PgInit, PgStep, <1>1, StoragePartsStep, PTL
    DEF MCSpec, MCInit, OneSweepPerInterval, P!OneSweepPerInterval

\* In PostgreSQL a session that is alive goes by its own delete only, or by a save
\* or touch of it that waited for as long as the TTL it gives.
THEOREM LiveSessionsStay == MCSpec => LiveSessionSurvives
<1>1. PgIInv /\ [P!Next]_(P!vars) => \A k \in RowKey : P!Alive(k) => PgRowKept(k)
    BY PgLiveRow
<1> QED
    BY PgInit, PgStep, <1>1, StoragePartsStep, PTL
    DEF MCSpec, MCInit, LiveSessionSurvives, P!LiveSessionSurvives, PgRowKept

\* In PostgreSQL what a commit adds to a topic is ahead of all that was committed.
THEOREM NothingIsMissedByACursor == MCSpec => NothingAppearsBehindACursor
<1>1. HubIInv /\ [H!Next]_(H!vars) =>
        \A r \in Reader : following[r] # Nowhere /\ following'[r] = following[r] =>
            \A i \in H!Published(following[r])' \ H!Published(following[r]) : i > cursor[r]
    BY HubAppearsAhead
<1> QED
    BY HubInit, HubStep, <1>1, StoragePartsStep, PTL
    DEF MCSpec, MCInit, NothingAppearsBehindACursor, H!NothingAppearsBehindACursor

\* Every hub is a log.
THEOREM HubsAreLogs == MCSpec => HubsImplementTopicLog
<1>1. MCSpec => H!ImplementsTopicLog
    BY HubLogInit, HubLogKeeps, HubImplements, StoragePartsStep, PTL
    DEF MCSpec, MCInit, H!ImplementsTopicLog, H!Log!Spec
<1>2. MCSpec => B!ImplementsTopicLog
    BY HubsInit, HubsKeep, HubsStartAsALog, HubsImplement, StoragePartsStep, PTL
    DEF MCSpec, MCInit, B!ImplementsTopicLog, B!Log!Spec
<1> QED
    BY <1>1, <1>2 DEF HubsImplementTopicLog
=============================================================================
