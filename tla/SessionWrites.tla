---------------------------- MODULE SessionWrites ----------------------------
(***************************************************************************)
(* Writes to one session: `Session.update_slot` and `Session.write_value`  *)
(* of storage/sessions.py, run by tasks on any number of workers against   *)
(* one stored row.  A write reads the snapshot its Session object holds,   *)
(* saves it under compare-and-set, reads the row back, adopts what it      *)
(* read as the object's snapshot, and retries when the save lost.  Every   *)
(* await is a step of its own.  Two tasks of one handler may share a       *)
(* Session object (asyncio.gather over session.set), so one can adopt an   *)
(* answer older than the snapshot the other left there.                    *)
(*                                                                         *)
(* Abstractions: an update adds one entry of its own to the application's  *)
(* values (`set` of a fresh key), a write_value replaces one other         *)
(* top-level value; the TTL lapses, and another request drops the session, *)
(* at any time; session ids are random, so a row once gone never returns.  *)
(***************************************************************************)
EXTENDS Naturals

CONSTANTS
    Updater,        \* tasks that call update()/set()
    Leveller,       \* tasks that call set_log_level()/remember_version()
    Object,         \* Session objects
    Holds,          \* [Task -> Object]: the object a task writes through
    SaveAttempts,   \* SAVE_ATTEMPTS
    MaxWrites,      \* bound: writes per task
    Gone            \* no live row

Task == Updater \cup Leveller
Write == Task \X (1..MaxWrites)

ASSUME SessionWritesConstants ==
    /\ Updater \cap Leveller = {}
    /\ Holds \in [Task -> Object]
    /\ SaveAttempts \in Nat \ {0}
    /\ MaxWrites \in Nat
    /\ Gone \notin [values : SUBSET Write, level : Write \cup {<<>>}, version : Nat]

VARIABLES
    row,            \* what the store holds: a record, or Gone
    record,         \* [Object -> record]: `self.record` of each Session object
    fresh,          \* [Task -> record or Gone]: the row as read back
    saved,          \* [Task -> BOOLEAN]: what save() answered
    attempt,        \* [Task -> 0..SaveAttempts]: saves made by the current write
    pc,             \* [Task -> where the task stands]
    written,        \* [Task -> 0..MaxWrites]: writes begun
    outcome,        \* [Write -> "none", or how the caller was answered]
    begun           \* [Task -> version of the snapshot its write started from]

vars == <<row, record, fresh, saved, attempt, pc, written, outcome, begun>>

Record == [values : SUBSET Write, level : Write \cup {<<>>}, version : Nat]
This(t) == <<t, written[t]>>

\* The session as the handshake stored it, loaded into every object.
Opened == [values |-> {}, level |-> <<>>, version |-> 1]

Init ==
    /\ row = Opened
    /\ record = [o \in Object |-> Opened]
    /\ fresh = [t \in Task |-> Gone]
    /\ saved = [t \in Task |-> FALSE]
    /\ attempt = [t \in Task |-> 0]
    /\ pc = [t \in Task |-> "ready"]
    /\ written = [t \in Task |-> 0]
    /\ outcome = [w \in Write |-> "none"]
    /\ begun = [t \in Task |-> 0]

Begin(t) ==
    /\ pc[t] = "ready"
    /\ written[t] < MaxWrites
    /\ written' = [written EXCEPT ![t] = @ + 1]
    /\ begun' = [begun EXCEPT ![t] = record[Holds[t]].version]
    /\ pc' = [pc EXCEPT ![t] = "save"]
    /\ UNCHANGED <<row, record, fresh, saved, attempt, outcome>>

\* {**record.data, name: change(slot)} or {**record.data, key: value}, under
\* the version the store gives it.
Changed(t, r) ==
    [values |-> IF t \in Updater THEN r.values \cup {This(t)} ELSE r.values,
     level |-> IF t \in Updater THEN r.level ELSE This(t),
     version |-> r.version + 1]

\* (Mutant) The save is not conditional on the version.
BlindSaveWins(t) == row # Gone

\* store.save(): the version decides, atomically.
SaveWins(t) == row # Gone /\ row.version = record[Holds[t]].version

Save(t) ==
    /\ pc[t] = "save"
    /\ saved' = [saved EXCEPT ![t] = SaveWins(t)]
    /\ row' = IF SaveWins(t) THEN Changed(t, record[Holds[t]]) ELSE row
    /\ attempt' = [attempt EXCEPT ![t] = @ + 1]
    /\ pc' = [pc EXCEPT ![t] = "get"]
    /\ UNCHANGED <<record, fresh, written, outcome, begun>>

\* The store answers get(); a missing row ends the write, saved or not.
Get(t) ==
    /\ pc[t] = "get"
    /\ fresh' = [fresh EXCEPT ![t] = row]
    /\ pc' = [pc EXCEPT ![t] = "adopt"]
    /\ UNCHANGED <<row, record, saved, attempt, written, outcome, begun>>

\* The call returns or raises to its caller, and its locals are gone.
Leave(t, to) ==
    /\ pc' = [pc EXCEPT ![t] = to]
    /\ saved' = [saved EXCEPT ![t] = FALSE]
    /\ attempt' = [attempt EXCEPT ![t] = 0]
    /\ begun' = [begun EXCEPT ![t] = 0]
    /\ fresh' = [fresh EXCEPT ![t] = Gone]

Answer(t, how) ==
    /\ outcome' = [outcome EXCEPT ![This(t)] = how]
    /\ Leave(t, "ready")

\* (Mutant) A missing row is taken for a lost race and tried again.
ExpiredTriesAgain(t) ==
    /\ pc[t] = "adopt"
    /\ fresh[t] = Gone
    /\ pc' = [pc EXCEPT ![t] = "save"]
    /\ attempt' = [attempt EXCEPT ![t] = 0]
    /\ saved' = [saved EXCEPT ![t] = FALSE]
    /\ UNCHANGED <<row, record, fresh, written, outcome, begun>>

Expired(t) ==
    /\ pc[t] = "adopt"
    /\ fresh[t] = Gone
    /\ Answer(t, "expired")
    /\ UNCHANGED <<row, record, written>>

Retry(t) ==
    /\ pc' = [pc EXCEPT ![t] = "save"]
    /\ fresh' = [fresh EXCEPT ![t] = Gone]
    /\ UNCHANGED <<saved, attempt, outcome, begun>>

\* self.record = r; then return, retry, or give up.
AdoptAs(t, r, triesLeft, isSaved) ==
    /\ pc[t] = "adopt"
    /\ fresh[t] # Gone
    /\ record' = [record EXCEPT ![Holds[t]] = r]
    /\ \/ isSaved /\ Answer(t, "acked")
       \/ ~isSaved /\ ~triesLeft /\ Answer(t, "lost")
       \/ ~isSaved /\ triesLeft /\ Retry(t)
    /\ UNCHANGED <<row, written>>

\* (Mutant) The answer of the save is not looked at until the attempts are used up.
AdoptIgnoresSaved(t) ==
    AdoptAs(t, fresh[t], attempt[t] < SaveAttempts, saved[t] /\ attempt[t] = SaveAttempts)

\* (Mutant) Only the version is taken over from the row.
AdoptVersionOnly(t) ==
    AdoptAs(t, [record[Holds[t]] EXCEPT !.version = fresh[t].version],
            attempt[t] < SaveAttempts, saved[t])

\* (Mutant) The retry starts from the snapshot that lost.
AdoptNothing(t) == AdoptAs(t, record[Holds[t]], attempt[t] < SaveAttempts, saved[t])

Adopt(t) == AdoptAs(t, fresh[t], attempt[t] < SaveAttempts, saved[t])

\* The request is cancelled at one of its awaits.
Cancel(t) ==
    /\ pc[t] \in {"save", "get", "adopt"}
    /\ Leave(t, "cancelled")
    /\ UNCHANGED <<row, record, written, outcome>>

\* The TTL lapses, or SessionAccess.drop deletes the row.
Vanish ==
    /\ row # Gone
    /\ row' = Gone
    /\ UNCHANGED <<record, fresh, saved, attempt, pc, written, outcome, begun>>

Step(t) == Save(t) \/ Get(t) \/ Expired(t) \/ Adopt(t)

Next == Vanish \/ \E t \in Task : Begin(t) \/ Step(t) \/ Cancel(t)

Spec == Init /\ [][Next]_vars

\* The event loop resumes every task whose await is answered.
FairSpec == Spec /\ \A t \in Task : WF_vars(Step(t))

-----------------------------------------------------------------------------
(* Properties *)

TypeOK ==
    /\ row \in Record \cup {Gone}
    /\ record \in [Object -> Record]
    /\ fresh \in [Task -> Record \cup {Gone}]
    /\ saved \in [Task -> BOOLEAN]
    /\ attempt \in [Task -> 0..SaveAttempts]
    /\ pc \in [Task -> {"ready", "save", "get", "adopt", "cancelled"}]
    /\ written \in [Task -> 0..MaxWrites]
    /\ outcome \in [Write -> {"none", "acked", "lost", "expired"}]
    /\ begun \in [Task -> Nat]

\* While the session lives, an update its caller saw succeed is in the row
\* whatever every other worker wrote since, and one that was reported as lost
\* to other writers is not: update() never succeeds or fails falsely.
AnswersAreTrue ==
    row # Gone =>
        \A w \in Write : w[1] \in Updater =>
            /\ outcome[w] = "acked" => w \in row.values
            /\ outcome[w] = "lost" => w \notin row.values

\* A retry never applies a change the row already holds.
AppliedOnce ==
    row # Gone => \A t \in Updater : pc[t] = "save" => This(t) \notin row.values

\* No save takes back what another put there: not an update's entry, and not
\* a top-level value, which only a write of that value replaces.
NothingReverted ==
    [][row # Gone /\ row' # Gone =>
        /\ row.values \subseteq row'.values
        /\ row'.level # row.level => \E t \in Leveller : pc[t] = "save" /\ row'.level = This(t)]_vars

\* "kept losing writes to another worker" is only said when SaveAttempts other
\* writes landed after the write's own snapshot.  (Not so for tasks that share
\* an object: one may adopt an older answer over the other's snapshot.)
Alone(t) == \A u \in Task : Holds[u] = Holds[t] => u = t

LossesAreReal ==
    [][\A t \in Task :
        Alone(t) /\ written[t] > 0 /\ outcome'[This(t)] = "lost" /\ outcome[This(t)] # "lost"
        => fresh[t].version >= begun[t] + SaveAttempts]_vars

\* Every write ends in an answer, however many workers contend.
EveryWriteEnds == \A t \in Task : pc[t] = "save" ~> pc[t] \in {"ready", "cancelled"}
=============================================================================
