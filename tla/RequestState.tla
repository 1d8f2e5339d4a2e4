---------------------------- MODULE RequestState ----------------------------
(***************************************************************************)
(* State a handler leaves on the server between two rounds of questions:   *)
(* RequestStates of server/request_state.py as Dispatcher.run drives it.   *)
(* A call that raises NeedInput(state=...) answers with an id; the client  *)
(* sends the call again with that id, on any worker; the payload is read,  *)
(* the handler runs from it, a further state may be opened, and the old    *)
(* one is dropped last.  Every await is a step, and a request may be       *)
(* cancelled at any of them.  Clients repeat requests, resend old ids and  *)
(* try an id on another call.                                              *)
(*                                                                         *)
(* Abstraction: a payload is the number of the round that left it; a       *)
(* binding hash is the call it was computed from.                          *)
(***************************************************************************)
EXTENDS Naturals, FiniteSets

CONSTANTS
    Call,       \* operation, target and arguments: what binding_of hashes
    Run,        \* executions of Dispatcher.run, on any worker
    MaxIds,     \* bound: states opened
    MaxRounds,  \* bound: rounds a handler asks for
    None

Id == 1..MaxIds
State == [call : Call, round : 1..MaxRounds]

ASSUME RequestStateConstants ==
    /\ MaxIds \in Nat
    /\ MaxRounds \in Nat
    /\ None \notin Id
    /\ None \notin State
    /\ None \notin Call

VARIABLES
    states,     \* [Id -> State or None]: rows under state/<id>
    opened,     \* [Id -> State or None]: what was stored under each id, kept for good
    known,      \* ids an answer carried to a client
    pc,         \* [Run -> where the run stands]
    call,       \* [Run -> the call it carries]
    resumed,    \* [Run -> the id the request named, or None]
    round,      \* [Run -> the round its payload came from; 0 without one]
    successor,  \* [Run -> the id protect_request_state opened, or None]
    expired,    \* ids whose TTL lapsed
    finished    \* [Id -> how many runs resumed from it and ended their round trip]

vars == <<states, opened, known, pc, call, resumed, round, successor, expired, finished>>

Init ==
    /\ states = [i \in Id |-> None]
    /\ opened = [i \in Id |-> None]
    /\ known = {}
    /\ pc = [r \in Run |-> "idle"]
    /\ call = [r \in Run |-> None]
    /\ resumed = [r \in Run |-> None]
    /\ round = [r \in Run |-> 0]
    /\ successor = [r \in Run |-> None]
    /\ expired = {}
    /\ finished = [i \in Id |-> 0]

Goto(r, where) == pc' = [pc EXCEPT ![r] = where]

\* A request: a first call, or one that names an id some answer carried.
Receive(r, c, i) ==
    /\ pc[r] = "idle"
    /\ call' = [call EXCEPT ![r] = c]
    /\ resumed' = [resumed EXCEPT ![r] = i]
    /\ Goto(r, "restore")
    /\ UNCHANGED <<states, opened, known, round, successor, expired, finished>>

\* (Mutant) The binding is not compared.
ReadableByAnyCall(r) == states[resumed[r]] # None

\* RequestStates.read: missing and bound to another call are one answer.
Readable(r) == states[resumed[r]] # None /\ states[resumed[r]].call = call[r]

\* (Mutant) Reading consumes.
RestoreConsumes(r) ==
    /\ pc[r] = "restore"
    /\ \/ /\ resumed[r] = None
          /\ UNCHANGED <<round, states>>
       \/ /\ resumed[r] # None
          /\ Readable(r)
          /\ round' = [round EXCEPT ![r] = states[resumed[r]].round]
          /\ states' = [states EXCEPT ![resumed[r]] = None]
    /\ Goto(r, "handler")
    /\ UNCHANGED <<opened, known, call, resumed, successor, expired, finished>>

\* restore_request_state
Restore(r) ==
    /\ pc[r] = "restore"
    /\ \/ /\ resumed[r] = None
          /\ Goto(r, "handler")
          /\ UNCHANGED round
       \/ /\ resumed[r] # None
          /\ Readable(r)
          /\ round' = [round EXCEPT ![r] = states[resumed[r]].round]
          /\ Goto(r, "handler")
    /\ UNCHANGED <<states, opened, known, call, resumed, successor, expired, finished>>

\* The run is over and its locals are gone.
Forget(r) ==
    /\ Goto(r, "idle")
    /\ call' = [call EXCEPT ![r] = None]
    /\ resumed' = [resumed EXCEPT ![r] = None]
    /\ round' = [round EXCEPT ![r] = 0]
    /\ successor' = [successor EXCEPT ![r] = None]

\* "invalid requestState": the run returns before the drop.
Refuse(r) ==
    /\ pc[r] = "restore"
    /\ resumed[r] # None
    /\ ~Readable(r)
    /\ Forget(r)
    /\ UNCHANGED <<states, opened, known, expired, finished>>

\* The handler returns, fails, or asks without leaving a state.
Settle(r) ==
    /\ pc[r] = "handler"
    /\ Goto(r, "drop")
    /\ UNCHANGED <<states, opened, known, call, resumed, round, successor, expired, finished>>

\* (Mutant) The state the request came from is dropped before the next is stored.
AskDropsFirst(r) ==
    /\ pc[r] = "handler"
    /\ round[r] < MaxRounds
    /\ IF resumed[r] = None THEN UNCHANGED <<states, finished>>
       ELSE /\ states' = [states EXCEPT ![resumed[r]] = None]
            /\ finished' = [finished EXCEPT ![resumed[r]] = @ + 1]
    /\ Goto(r, "protect")
    /\ UNCHANGED <<opened, known, call, resumed, round, successor, expired>>

\* The handler raises NeedInput with a state for a further round.
Ask(r) ==
    /\ pc[r] = "handler"
    /\ round[r] < MaxRounds
    /\ Goto(r, "protect")
    /\ UNCHANGED <<states, opened, known, call, resumed, round, successor, expired, finished>>

\* RequestStates.open under a fresh id.
Protect(r) ==
    /\ pc[r] = "protect"
    /\ \E i \in Id :
        /\ opened[i] = None
        /\ \A j \in 1..(i - 1) : opened[j] # None
        /\ states' = [states EXCEPT ![i] = [call |-> call[r], round |-> round[r] + 1]]
        /\ opened' = [opened EXCEPT ![i] = [call |-> call[r], round |-> round[r] + 1]]
        /\ successor' = [successor EXCEPT ![r] = i]
    /\ Goto(r, "drop")
    /\ UNCHANGED <<known, call, resumed, round, expired, finished>>

\* The payload is not JSON or the store refused: the outcome becomes INTERNAL.
ProtectFails(r) ==
    /\ pc[r] = "protect"
    /\ Goto(r, "drop")
    /\ UNCHANGED <<states, opened, known, call, resumed, round, successor, expired, finished>>

\* (Mutant) A call that asks again keeps the state it came from.
DropUnlessAsking(r) ==
    /\ pc[r] = "drop"
    /\ \/ /\ resumed[r] # None
          /\ states' = IF successor[r] = None THEN [states EXCEPT ![resumed[r]] = None] ELSE states
          /\ finished' = [finished EXCEPT ![resumed[r]] = @ + 1]
       \/ resumed[r] = None /\ UNCHANGED <<states, finished>>
    /\ \/ known' = known \cup ({successor[r]} \ {None})
       \/ UNCHANGED known
    /\ Forget(r)
    /\ UNCHANGED <<opened, expired>>

\* Dispatcher.run's last await, and the answer; the client may never get it.
Drop(r) ==
    /\ pc[r] = "drop"
    /\ \/ /\ resumed[r] # None
          /\ states' = [states EXCEPT ![resumed[r]] = None]
          /\ finished' = [finished EXCEPT ![resumed[r]] = @ + 1]
       \/ resumed[r] = None /\ UNCHANGED <<states, finished>>
    /\ \/ known' = known \cup ({successor[r]} \ {None})
       \/ UNCHANGED known
    /\ Forget(r)
    /\ UNCHANGED <<opened, expired>>

\* The client hangs up, or the worker stops: CancelledError skips the rest.
Cancel(r) ==
    /\ pc[r] # "idle"
    /\ Forget(r)
    /\ UNCHANGED <<states, opened, known, expired, finished>>

\* The row's TTL lapses.
Expire(i) ==
    /\ states[i] # None
    /\ states' = [states EXCEPT ![i] = None]
    /\ expired' = expired \cup {i}
    /\ UNCHANGED <<opened, known, pc, call, resumed, round, successor, finished>>

Next ==
    \/ \E i \in Id : Expire(i)
    \/ \E r \in Run :
        \/ \E c \in Call, i \in known \cup {None} : Receive(r, c, i)
        \/ Restore(r) \/ Refuse(r) \/ Settle(r) \/ Ask(r)
        \/ Protect(r) \/ ProtectFails(r) \/ Drop(r) \/ Cancel(r)

Spec == Init /\ [][Next]_vars

-----------------------------------------------------------------------------
(* Properties *)

TypeOK ==
    /\ states \in [Id -> State \cup {None}]
    /\ opened \in [Id -> State \cup {None}]
    /\ known \subseteq Id
    /\ pc \in [Run -> {"idle", "restore", "handler", "protect", "drop"}]
    /\ call \in [Run -> Call \cup {None}]
    /\ resumed \in [Run -> Id \cup {None}]
    /\ round \in [Run -> 0..MaxRounds]
    /\ successor \in [Run -> Id \cup {None}]
    /\ expired \subseteq Id
    /\ finished \in [Id -> Nat]

\* "an id issued for `purge cache` cannot finish `purge database`": a handler
\* runs from exactly the payload that its own call left under the id.
StateStaysWithItsCall ==
    \A r \in Run : pc[r] \in {"handler", "protect", "drop"} /\ resumed[r] # None =>
        opened[resumed[r]] = [call |-> call[r], round |-> round[r]]

\* A request that starts after the round trip ended is refused.
FinishedStateIsGone ==
    [][\A r \in Run : pc[r] = "restore" /\ pc'[r] = "handler" /\ resumed[r] # None
        => finished[resumed[r]] = 0]_vars

\* A round trip that was cut short consumed nothing: until one ends or the TTL
\* lapses, the client that holds the id can send the call again.
CutShortIsRepeatable ==
    \A i \in known : i \notin expired /\ finished[i] = 0 => states[i] = opened[i]

\* A row goes by its TTL, or with the end of a run that came from it, and then
\* the row of the id that run answers with is there: at no time does the client's
\* call have neither (its TTL aside), and a run cut short anywhere before its end
\* leaves the client the state it has.
Ends(r, i) == pc[r] # "idle" /\ pc'[r] = "idle" /\ resumed[r] = i
HeldAfter(i) == states'[i] # None \/ i \in expired' \/ finished'[i] > 0

SuccessorComesFirst ==
    [][\A i \in Id : states[i] # None /\ states'[i] = None =>
          \/ i \in expired'
          \/ \E r \in Run : Ends(r, i) /\ (successor[r] # None => HeldAfter(successor[r]))]_vars

\* docs/guide/sessions.md: "it is dropped as soon as the round trip ends, so it
\* cannot be replayed".  No state completes two round trips.
NoReplay == \A i \in Id : finished[i] <= 1
=============================================================================
