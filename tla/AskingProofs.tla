---------------------------- MODULE AskingProofs ----------------------------
(***************************************************************************)
(* Theorems about questions to the user.  For any number of runs, calls,   *)
(* ids and rounds: the state a question leaves behind is read by its own   *)
(* operation and goes when it has served.  For any handlers, numbers of    *)
(* rounds and users: every question is settled as it would be by asking it *)
(* once.                                                                   *)
(***************************************************************************)
EXTENDS RequestsProofs
-----------------------------------------------------------------------------
(* The state that is kept.  The inductive invariant says of every id what   *)
(* was stored under it and whether the row is still there, and of every run *)
(* which id it came from and which one it left.                             *)

\* What a run's locals must be for its next step to be well typed.
RunsAreTyped ==
    \A r \in Run :
        /\ pc[r] # "idle" => call[r] \in Call
        /\ pc[r] = "protect" => round[r] < MaxRounds
        /\ resumed[r] # None => opened[resumed[r]] # None

\* A row holds what was stored under its id.
RowsAreAsOpened == \A i \in Id : states[i] # None => states[i] = opened[i]

\* An id whose round trip ended was given out, and its row is gone.
FinishedRowsAreGone == \A i \in Id : finished[i] > 0 => opened[i] # None /\ states[i] = None

\* A row goes only by its TTL or by the end of a round trip.
RowsAreKept ==
    \A i \in Id : opened[i] # None /\ i \notin expired /\ finished[i] = 0 => states[i] = opened[i]

\* The next round is stored under another id than the last one, by one run.
SuccessorsAreOpened ==
    \A r \in Run : successor[r] # None =>
        /\ pc[r] = "drop"
        /\ opened[successor[r]] # None
        /\ opened[successor[r]] = [call |-> call[r], round |-> round[r] + 1]

KnownAreOpened == \A i \in known : opened[i] # None

IInv ==
    /\ TypeOK
    /\ RunsAreTyped
    /\ RowsAreAsOpened
    /\ FinishedRowsAreGone
    /\ RowsAreKept
    /\ SuccessorsAreOpened
    /\ KnownAreOpened
    /\ StateStaysWithItsCall

LEMMA InitIInv == Init => IInv
<1> SUFFICES ASSUME Init PROVE IInv
    OBVIOUS
<1> USE RequestStateConstants DEF Init, Id
<1>1. TypeOK
    BY DEF TypeOK
<1>2. RunsAreTyped /\ RowsAreAsOpened /\ FinishedRowsAreGone /\ RowsAreKept
    BY DEF RunsAreTyped, RowsAreAsOpened, FinishedRowsAreGone, RowsAreKept
<1>3. SuccessorsAreOpened /\ KnownAreOpened /\ StateStaysWithItsCall
    BY DEF SuccessorsAreOpened, KnownAreOpened, StateStaysWithItsCall
<1> QED
    BY <1>1, <1>2, <1>3 DEF IInv

LEMMA StepIInv == IInv /\ [Next]_vars => IInv'
<1> SUFFICES ASSUME IInv, [Next]_vars PROVE IInv'
    OBVIOUS
<1> USE RequestStateConstants DEF IInv
<1>1. ASSUME NEW i \in Id, Expire(i) PROVE IInv'
    <2>1. TypeOK'
        BY <1>1 DEF TypeOK, Expire
    <2>2. RunsAreTyped' /\ SuccessorsAreOpened' /\ KnownAreOpened' /\ StateStaysWithItsCall'
        BY <1>1 DEF Expire, RunsAreTyped, SuccessorsAreOpened, KnownAreOpened, StateStaysWithItsCall
    <2>3. RowsAreAsOpened' /\ FinishedRowsAreGone' /\ RowsAreKept'
        BY <1>1 DEF TypeOK, Expire, RowsAreAsOpened, FinishedRowsAreGone, RowsAreKept
    <2> QED
        BY <2>1, <2>2, <2>3
<1>2. ASSUME NEW r \in Run, NEW c \in Call, NEW i \in known \cup {None}, Receive(r, c, i)
      PROVE IInv'
    <2> USE <1>2 DEF Receive, Goto
    <2>1. TypeOK'
        BY DEF TypeOK
    <2>2. RunsAreTyped' /\ SuccessorsAreOpened' /\ KnownAreOpened' /\ StateStaysWithItsCall'
        BY DEF TypeOK, RunsAreTyped, SuccessorsAreOpened, KnownAreOpened, StateStaysWithItsCall
    <2>3. RowsAreAsOpened' /\ FinishedRowsAreGone' /\ RowsAreKept'
        BY DEF RowsAreAsOpened, FinishedRowsAreGone, RowsAreKept
    <2> QED
        BY <2>1, <2>2, <2>3
<1>3. ASSUME NEW r \in Run, Restore(r) PROVE IInv'
    <2> USE <1>3 DEF Restore, Readable, Goto
    <2>1. TypeOK'
        <3>1. round' \in [Run -> 0..MaxRounds]
            BY DEF TypeOK, State
        <3> QED
            BY <3>1 DEF TypeOK
    <2>2. RunsAreTyped' /\ SuccessorsAreOpened' /\ KnownAreOpened'
        BY DEF TypeOK, RunsAreTyped, SuccessorsAreOpened, KnownAreOpened
    <2>3. StateStaysWithItsCall'
        <3>1. CASE resumed[r] = None
            BY <3>1 DEF TypeOK, StateStaysWithItsCall
        <3>2. CASE resumed[r] # None
            <4>1. resumed[r] \in Id /\ states[resumed[r]] \in State
                BY <3>2 DEF TypeOK
            <4>2. opened[resumed[r]] = [call |-> call[r], round |-> states[resumed[r]].round]
                BY <3>2, <4>1 DEF RowsAreAsOpened, State
            <4> QED
                BY <3>2, <4>1, <4>2 DEF TypeOK, StateStaysWithItsCall
        <3> QED
            BY <3>1, <3>2
    <2>4. RowsAreAsOpened' /\ FinishedRowsAreGone' /\ RowsAreKept'
        BY DEF RowsAreAsOpened, FinishedRowsAreGone, RowsAreKept
    <2> QED
        BY <2>1, <2>2, <2>3, <2>4
<1>4. ASSUME NEW r \in Run, Refuse(r) \/ Cancel(r) PROVE IInv'
    <2> USE <1>4 DEF Refuse, Cancel, Forget, Goto
    <2>1. TypeOK'
        BY DEF TypeOK
    <2>2. RunsAreTyped' /\ SuccessorsAreOpened' /\ KnownAreOpened' /\ StateStaysWithItsCall'
        BY DEF TypeOK, RunsAreTyped, SuccessorsAreOpened, KnownAreOpened, StateStaysWithItsCall
    <2>3. RowsAreAsOpened' /\ FinishedRowsAreGone' /\ RowsAreKept'
        BY DEF RowsAreAsOpened, FinishedRowsAreGone, RowsAreKept
    <2> QED
        BY <2>1, <2>2, <2>3
<1>5. ASSUME NEW r \in Run, Settle(r) \/ Ask(r) \/ ProtectFails(r) PROVE IInv'
    <2> USE <1>5 DEF Settle, Ask, ProtectFails, Goto
    <2>1. TypeOK'
        BY DEF TypeOK
    <2>2. RunsAreTyped' /\ SuccessorsAreOpened' /\ KnownAreOpened' /\ StateStaysWithItsCall'
        BY DEF TypeOK, RunsAreTyped, SuccessorsAreOpened, KnownAreOpened, StateStaysWithItsCall
    <2>3. RowsAreAsOpened' /\ FinishedRowsAreGone' /\ RowsAreKept'
        BY DEF RowsAreAsOpened, FinishedRowsAreGone, RowsAreKept
    <2> QED
        BY <2>1, <2>2, <2>3
<1>6. ASSUME NEW r \in Run, Protect(r) PROVE IInv'
    <2> DEFINE left == [call |-> call[r], round |-> round[r] + 1]
    <2>1. PICK i \in Id :
            /\ opened[i] = None
            /\ states' = [states EXCEPT ![i] = left]
            /\ opened' = [opened EXCEPT ![i] = left]
            /\ successor' = [successor EXCEPT ![r] = i]
        BY <1>6 DEF Protect
    <2>2. /\ pc[r] = "protect"
          /\ pc' = [pc EXCEPT ![r] = "drop"]
          /\ UNCHANGED <<known, call, resumed, round, expired, finished>>
        BY <1>6 DEF Protect, Goto
    <2>3. left \in State
        BY <2>2 DEF TypeOK, RunsAreTyped, State
    <2>4. left # None
        BY <2>3
    <2> HIDE DEF left
    <2>5. TypeOK'
        BY <2>1, <2>2, <2>3 DEF TypeOK
    <2>6. RunsAreTyped' /\ KnownAreOpened'
        BY <2>1, <2>2, <2>4 DEF TypeOK, RunsAreTyped, KnownAreOpened
    <2>7. SuccessorsAreOpened'
        <3>1. ASSUME NEW other \in Run, other # r, successor[other] # None PROVE opened'[successor[other]] = opened[successor[other]]
            BY <2>1, <3>1 DEF TypeOK, SuccessorsAreOpened
        <3>2. successor'[r] = i /\ opened'[i] = left /\ pc'[r] = "drop"
            BY <2>1, <2>2 DEF TypeOK
        <3>3. ASSUME NEW other \in Run, other # r PROVE successor'[other] = successor[other] /\ pc'[other] = pc[other]
            BY <2>1, <2>2, <3>3 DEF TypeOK
        <3> QED
            BY <2>2, <2>4, <3>1, <3>2, <3>3 DEF SuccessorsAreOpened, left
    <2>8. StateStaysWithItsCall'
        <3> SUFFICES ASSUME NEW other \in Run, pc'[other] \in {"handler", "protect", "drop"}, resumed[other] # None
                     PROVE opened'[resumed[other]] = [call |-> call[other], round |-> round[other]]
            BY <2>2 DEF StateStaysWithItsCall
        <3>1. opened[resumed[other]] = [call |-> call[other], round |-> round[other]]
            BY <2>2 DEF TypeOK, StateStaysWithItsCall
        <3>2. resumed[other] # i
            BY <2>1 DEF RunsAreTyped
        <3> QED
            BY <2>1, <3>1, <3>2 DEF TypeOK
    <2>9. RowsAreAsOpened' /\ FinishedRowsAreGone' /\ RowsAreKept'
        BY <2>1, <2>2, <2>4 DEF TypeOK, RowsAreAsOpened, FinishedRowsAreGone, RowsAreKept
    <2> QED
        BY <2>5, <2>6, <2>7, <2>8, <2>9
<1>7. ASSUME NEW r \in Run, Drop(r) PROVE IInv'
    <2> USE <1>7 DEF Drop, Forget, Goto
    <2>1. TypeOK'
        BY DEF TypeOK
    <2>2. RunsAreTyped' /\ SuccessorsAreOpened' /\ StateStaysWithItsCall'
        BY DEF TypeOK, RunsAreTyped, SuccessorsAreOpened, StateStaysWithItsCall
    <2>3. KnownAreOpened'
        <3>1. successor[r] # None => opened[successor[r]] # None
            BY DEF SuccessorsAreOpened
        <3> QED
            BY <3>1 DEF KnownAreOpened
    <2>4. RowsAreAsOpened' /\ FinishedRowsAreGone' /\ RowsAreKept'
        <3>1. resumed[r] # None => opened[resumed[r]] # None
            BY DEF RunsAreTyped
        <3> QED
            BY <3>1 DEF TypeOK, RowsAreAsOpened, FinishedRowsAreGone, RowsAreKept
    <2> QED
        BY <2>1, <2>2, <2>3, <2>4
<1>8. CASE UNCHANGED vars
    BY <1>8 DEF vars, TypeOK, RunsAreTyped, RowsAreAsOpened, FinishedRowsAreGone, RowsAreKept,
        SuccessorsAreOpened, KnownAreOpened, StateStaysWithItsCall
<1> QED
    BY <1>1, <1>2, <1>3, <1>4, <1>5, <1>6, <1>7, <1>8 DEF Next

\* The variables keep their types, whatever the interleaving of requests,
\* cancellations and lapsing rows.
THEOREM TypeCorrect == Spec => []TypeOK
<1>1. IInv => TypeOK
    BY DEF IInv
<1> QED
    BY <1>1, InitIInv, StepIInv, PTL DEF Spec

\* restore_request_state hands a handler only what its own operation, target
\* and arguments left under the id.
THEOREM StateStays == Spec => []StateStaysWithItsCall
<1>1. IInv => StateStaysWithItsCall
    BY DEF IInv
<1> QED
    BY <1>1, InitIInv, StepIInv, PTL DEF Spec

\* A request cut off anywhere in Dispatcher.run consumes nothing: the id an
\* answer carried stays good until a round trip ends or its TTL lapses.
THEOREM CutShort == Spec => []CutShortIsRepeatable
<1>1. IInv => CutShortIsRepeatable
    BY DEF IInv, TypeOK, RowsAreKept, KnownAreOpened, CutShortIsRepeatable
<1> QED
    BY <1>1, InitIInv, StepIInv, PTL DEF Spec

\* Once a round trip ended with an id, no later restore reads it.
THEOREM FinishedGone == Spec => FinishedStateIsGone
<1>1. ASSUME IInv, [Next]_vars
      PROVE [\A r \in Run : pc[r] = "restore" /\ pc'[r] = "handler" /\ resumed[r] # None
                => finished[resumed[r]] = 0]_vars
    <2> SUFFICES ASSUME Next, NEW r \in Run, pc[r] = "restore", pc'[r] = "handler", resumed[r] # None
                 PROVE finished[resumed[r]] = 0
        BY <1>1
    <2>1. states[resumed[r]] # None
        <3>1. pc \in [Run -> {"idle", "restore", "handler", "protect", "drop"}]
            BY <1>1 DEF IInv, TypeOK
        <3>2. ASSUME NEW i \in Id, Expire(i) PROVE FALSE
            BY <3>2 DEF Expire
        <3>3. ASSUME NEW other \in Run, NEW where, where # "handler", Goto(other, where) PROVE FALSE
            BY <3>1, <3>3 DEF Goto
        <3>4. ASSUME NEW other \in Run, Restore(other) PROVE Restore(r)
            BY <3>1, <3>4 DEF Restore, Goto
        <3>5. ASSUME NEW other \in Run, NEW c \in Call, NEW i \in known \cup {None}, Receive(other, c, i) PROVE FALSE
            BY <3>3, <3>5 DEF Receive
        <3>6. ASSUME NEW other \in Run, Refuse(other) \/ Settle(other) \/ Ask(other) \/ Protect(other) \/ ProtectFails(other)
                                     \/ Drop(other) \/ Cancel(other)
              PROVE FALSE
            <4>1. \E where : where # "handler" /\ Goto(other, where)
                BY <3>6 DEF Refuse, Settle, Ask, Protect, ProtectFails, Drop, Cancel, Forget
            <4> QED
                BY <3>3, <4>1
        <3>7. Restore(r)
            BY <3>2, <3>4, <3>5, <3>6 DEF Next
        <3> QED
            BY <3>7 DEF Restore, Readable
    <2>2. resumed[r] \in Id /\ finished[resumed[r]] \in Nat
        BY <1>1 DEF IInv, TypeOK
    <2> QED
        BY <1>1, <2>1, <2>2 DEF IInv, FinishedRowsAreGone
<1> QED
    BY <1>1, InitIInv, StepIInv, PTL DEF Spec, FinishedStateIsGone

\* protect_request_state comes before drop_request_state: a row that did not lapse
\* goes in the last step of a run that came from it, and the row of the id that run
\* answers with is there.
THEOREM SuccessorFirst == Spec => SuccessorComesFirst
<1>1. ASSUME IInv, [Next]_vars
      PROVE [\A i \in Id : states[i] # None /\ states'[i] = None =>
                \/ i \in expired'
                \/ \E r \in Run : Ends(r, i) /\ (successor[r] # None => HeldAfter(successor[r]))]_vars
    <2> SUFFICES ASSUME Next, NEW i \in Id, states[i] # None, states'[i] = None, i \notin expired'
                 PROVE \E r \in Run : Ends(r, i) /\ (successor[r] # None => HeldAfter(successor[r]))
        BY <1>1
    <2>1. PICK r \in Run : Drop(r)
        <3>1. ASSUME NEW j \in Id, Expire(j) PROVE FALSE
            BY <1>1, <3>1 DEF Expire, IInv, TypeOK
        <3>2. ASSUME NEW r \in Run, Protect(r) PROVE FALSE
            BY <1>1, <3>2 DEF Protect, IInv, TypeOK, RowsAreAsOpened
        <3>3. states' # states
            OBVIOUS
        <3> QED
            BY <3>1, <3>2, <3>3 DEF Next, Restore, Refuse, Settle, Ask, ProtectFails, Cancel, Receive
    <2>2. /\ resumed[r] # None /\ states' = [states EXCEPT ![resumed[r]] = None]
          /\ finished' = [finished EXCEPT ![resumed[r]] = @ + 1] /\ UNCHANGED <<opened, expired>>
          /\ pc[r] = "drop" /\ pc'[r] = "idle"
        BY <1>1, <2>1 DEF Drop, Forget, Goto, IInv, TypeOK
    <2>3. resumed[r] = i
        BY <1>1, <2>2 DEF IInv, TypeOK
    <2>4. ASSUME successor[r] # None PROVE HeldAfter(successor[r])
        <3>1. /\ successor[r] \in Id /\ resumed[r] \in Id /\ round[r] \in Nat
              /\ finished[successor[r]] \in Nat
            BY <1>1, <2>2, <2>4 DEF IInv, TypeOK
        <3>2. resumed[r] # successor[r]
            <4>1. /\ opened[successor[r]] = [call |-> call[r], round |-> round[r] + 1]
                  /\ opened[resumed[r]] = [call |-> call[r], round |-> round[r]]
                BY <1>1, <2>2, <2>4 DEF IInv, SuccessorsAreOpened, StateStaysWithItsCall
            <4> QED
                BY <3>1, <4>1
        <3>3. /\ states'[successor[r]] = states[successor[r]]
              /\ finished'[successor[r]] = finished[successor[r]]
            BY <1>1, <2>2, <3>1, <3>2 DEF IInv, TypeOK
        <3>4. CASE successor[r] \notin expired /\ finished[successor[r]] = 0
            <4>1. states[successor[r]] # None
                BY <1>1, <2>4, <3>1, <3>4 DEF IInv, RowsAreKept, SuccessorsAreOpened
            <4> QED
                BY <3>3, <4>1 DEF HeldAfter
        <3>5. CASE ~(successor[r] \notin expired /\ finished[successor[r]] = 0)
            BY <2>2, <3>1, <3>3, <3>5 DEF HeldAfter
        <3> QED
            BY <3>4, <3>5
    <2> QED
        BY <2>2, <2>3, <2>4 DEF Ends
<1> QED
    BY <1>1, InitIInv, StepIInv, PTL DEF Spec, SuccessorComesFirst

-----------------------------------------------------------------------------
(* Handlers that ask.  What the user was asked is what the client or the    *)
(* exchange can tell again, the steps before the handler's own are told,   *)
(* and a round or a restart has asked something.                           *)

Keys(n) == handler.steps[n].keys
KeySet(n) == Elements(Keys(n))
AllAsked(n) == \A k \in KeySet(n) : A!Asked(k)
NoneAsked(n) == \A k \in KeySet(n) : ~A!Asked(k)

AskTypes ==
    /\ me \in A!Clients /\ handler \in Handlers
    /\ stage \in {"calling", "handling", "asking", "replied", "answering", "ended"}
    /\ asked \in Seq(Elements(asked))
    /\ rounds \in Nat
    /\ ex = [answers |-> ex.answers, state |-> ex.state, sse |-> ex.sse, got |-> ex.got, pos |-> ex.pos,
             pending |-> ex.pending, next |-> ex.next, restarts |-> ex.restarts, dep |-> ex.dep]
    /\ reply = [kind |-> reply.kind, keys |-> reply.keys, state |-> reply.state, got |-> reply.got, saw |-> reply.saw]
    /\ ex.got \in Seq(Elements(ex.got)) /\ ex.pos = Len(ex.got) + 1 /\ ex.pos <= Len(handler.steps) + 1
    /\ ex.restarts \in Nat

AskedOnce ==
    /\ \A n \in DOMAIN asked : asked[n][1] \in A!Questions
    /\ \A n, m \in DOMAIN asked : asked[n][1] = asked[m][1] => n = m

\* Verdicts that are known are those of the user.
Knows(given) == \A k \in DOMAIN given : A!Asked(k) /\ given[k] = A!VerdictOf(k)

\* ask() on the stream keeps no answer: the handler is past that question.
Covered(k) ==
    \/ k \in DOMAIN ex.answers
    \/ A!Needs = {} /\ \E n \in 1..Len(ex.got) : k \in KeySet(n)

Recalls ==
    /\ Knows(answers) /\ Knows(ex.answers)
    /\ asked # <<>> => A!can_ask
    /\ ~A!asks_on_the_stream /\ asked # <<>> => handler.operation = "call_tool"
    /\ ~A!asks_on_the_stream => \A n \in DOMAIN asked : asked[n][1] \in DOMAIN answers
    /\ A!asks_on_the_stream /\ stage = "calling" => asked = <<>>
    /\ stage \in {"handling", "asking"} => \A n \in DOMAIN asked : Covered(asked[n][1])

Phases ==
    /\ stage = "answering" => reply.kind = "input_required" /\ handler.operation = "call_tool"
    /\ stage = "asking" => A!asks_on_the_stream
    /\ reply.kind = "input_required" => A!can_ask /\ ~A!asks_on_the_stream

IsTold(n, verdicts) ==
    /\ verdicts = [i \in DOMAIN Keys(n) |-> A!Settled(Keys(n)[i])]
    /\ \A k \in KeySet(n) : ~A!Asked(k) => ~A!can_ask /\ A!Defaulted(k)

ToldSoFar == stage \in {"handling", "asking"} => \A n \in 1..Len(ex.got) : IsTold(n, ex.got[n])

\* Keys that are needed together are asked together, and needs in their turn.
Together ==
    \A n \in A!Needs : AllAsked(n) \/ NoneAsked(n) \/ (stage \in {"asking", "answering"} /\ n = ex.pos)
InTurn == \A n, m \in A!Needs : m < n /\ ~NoneAsked(n) => AllAsked(m)

\* The keys that are still to be asked of the step that asks.
Done(rest) == Len(Keys(ex.pos)) - Len(rest)
Pending(rest) ==
    /\ ex.pos \in DOMAIN handler.steps
    /\ Len(rest) \in 0..Len(Keys(ex.pos))
    /\ rest = [i \in 1..Len(rest) |-> Keys(ex.pos)[Done(rest) + i]]
    /\ \A i \in DOMAIN Keys(ex.pos) : A!Asked(Keys(ex.pos)[i]) <=> i <= Done(rest)
    /\ \A m \in A!Needs : (m < ex.pos => AllAsked(m)) /\ (m > ex.pos => NoneAsked(m))

InHand ==
    /\ stage \in {"replied", "answering", "ended"} /\ reply.kind = "input_required" =>
        /\ Pending(reply.keys) /\ Keys(ex.pos) # <<>>
        /\ stage # "answering" => Done(reply.keys) = 0
        /\ ex.pos \in A!Needs => reply.state = Keys(ex.pos)[1]
    /\ stage = "asking" =>
        /\ Pending(ex.pending) /\ ex.pending # <<>>
        /\ ex.next = <<>> => A!Needs = {} /\ Len(Keys(ex.pos)) = 1
        /\ ex.next # <<>> => ex.pos \in A!Needs /\ ex.next[1] = Keys(ex.pos)[1]

\* The state is the one left with the last of the needs that was asked.
Leaves(saved) ==
    \A n \in A!Needs : AllAsked(n) /\ (\A m \in A!Needs : n < m => NoneAsked(m)) => saved = Keys(n)[1]

StateIsLast == (stage = "calling" => Leaves(state)) /\ (stage = "handling" => Leaves(ex.state))

RoundsAsk ==
    /\ stage = "calling" => rounds <= Len(asked)
    /\ stage \in {"handling", "replied"} /\ ~A!asks_on_the_stream => rounds <= Len(asked) + 1
    /\ stage = "answering" => rounds <= Len(asked) + 1 /\ (Done(reply.keys) > 0 => rounds <= Len(asked))
    /\ stage \in {"handling", "asking"} => ex.restarts <= Len(asked)

EndsSettled ==
    stage \in {"replied", "ended"} =>
        /\ reply.kind = "result" =>
            /\ reply.got = [n \in DOMAIN handler.steps |-> [i \in DOMAIN Keys(n) |-> A!Settled(Keys(n)[i])]]
            /\ \A k \in A!Questions : ~A!Asked(k) => A!Defaulted(k) /\ ~A!can_ask
            /\ \A n \in A!Needs : (\A m \in A!Needs : m <= n) => reply.saw = Keys(n)[1]
        /\ reply.kind = "still asking" =>
              Len(asked) >= IF A!asks_on_the_stream THEN PUSH_ASK_ROUNDS ELSE ASK_ROUNDS
        /\ reply.kind = "cannot ask" =>
              asked = <<>> /\ ~me.declared /\ \E k \in A!Questions : ~A!Defaulted(k)

AskInvariants ==
    /\ AskTypes /\ AskedOnce /\ Recalls /\ Phases /\ ToldSoFar /\ Together /\ InTurn /\ InHand
    /\ StateIsLast /\ RoundsAsk /\ EndsSettled

SettledIInv == handler \in Handlers /\ (A!AsksPlainly(handler) => AskInvariants)

-----------------------------------------------------------------------------
(* Steps and their keys. *)

\* The step at n is a question, needs, or has nothing to ask; no key is asked twice.
Step(n) == handler.steps[n]
Plain ==
    /\ Len(handler.steps) \in Nat /\ DOMAIN handler.steps = 1..Len(handler.steps)
    /\ \A n \in DOMAIN handler.steps :
        /\ Len(Keys(n)) \in Nat /\ DOMAIN Keys(n) = 1..Len(Keys(n))
        /\ Keys(n) = [i \in 1..Len(Keys(n)) |-> Keys(n)[i]]
        /\ Step(n).does = "ask" => Len(Keys(n)) = 1 /\ A!Needs = {}
        /\ Step(n).does = "need" => Len(Keys(n)) > 0 /\ ~Step(n).default
        /\ Step(n).does \notin {"ask", "need"} => Len(Keys(n)) = 0
        /\ KeySet(n) \subseteq A!Questions
        /\ \A m \in DOMAIN handler.steps : \A k \in KeySet(n) : k \in KeySet(m) => n = m
        /\ \A i, j \in DOMAIN Keys(n) : Keys(n)[i] = Keys(n)[j] => i = j

LEMMA HandlersArePlain ==
    ASSUME handler \in Handlers, A!AsksPlainly(handler)
    PROVE  Plain
<1> DEFINE steps == handler.steps
<1>1. /\ steps \in Seq({steps[n] : n \in DOMAIN steps})
      /\ \A n \in DOMAIN steps :
            /\ steps[n].keys \in Seq({steps[n].keys[i] : i \in DOMAIN steps[n].keys})
            /\ steps[n].default \in BOOLEAN
            /\ IF steps[n].does = "ask" THEN Len(steps[n].keys) = 1
               ELSE IF steps[n].does = "need" THEN steps[n].keys # <<>> /\ ~steps[n].default
               ELSE steps[n].keys = <<>>
    BY AskingConstants
<1>2. Len(steps) \in Nat /\ DOMAIN steps = 1..Len(steps)
    BY <1>1, LenProperties
<1> SUFFICES ASSUME NEW n \in DOMAIN steps
             PROVE  /\ Len(Keys(n)) \in Nat /\ DOMAIN Keys(n) = 1..Len(Keys(n))
                    /\ Keys(n) = [i \in 1..Len(Keys(n)) |-> Keys(n)[i]]
                    /\ Step(n).does = "ask" => Len(Keys(n)) = 1 /\ A!Needs = {}
                    /\ Step(n).does = "need" => Len(Keys(n)) > 0 /\ ~Step(n).default
                    /\ Step(n).does \notin {"ask", "need"} => Len(Keys(n)) = 0
                    /\ KeySet(n) \subseteq A!Questions
                    /\ \A m \in DOMAIN steps : \A k \in KeySet(n) : k \in KeySet(m) => n = m
                    /\ \A i, j \in DOMAIN Keys(n) : Keys(n)[i] = Keys(n)[j] => i = j
    BY <1>2 DEF Plain
<1>3. Keys(n) = steps[n].keys /\ Step(n) = steps[n]
    BY DEF Keys, Step
<1>4. /\ Len(Keys(n)) \in Nat /\ DOMAIN Keys(n) = 1..Len(Keys(n))
      /\ Keys(n) = [i \in 1..Len(Keys(n)) |-> Keys(n)[i]]
    <2>1. Keys(n) \in Seq({Keys(n)[i] : i \in DOMAIN Keys(n)})
        BY <1>1, <1>3
    <2> QED
        BY <2>1, LenProperties
<1>5. Step(n).does = "ask" => Len(Keys(n)) = 1 /\ A!Needs = {}
    BY <1>1, <1>3 DEF A!AsksPlainly, A!Needs
<1>6. Step(n).does = "need" => Len(Keys(n)) > 0 /\ ~Step(n).default
    <2>1. Step(n).does = "need" => Keys(n) # <<>> /\ ~Step(n).default
        BY <1>1, <1>3
    <2>2. Keys(n) = <<>> <=> Len(Keys(n)) = 0
        BY <1>1, <1>3, EmptySeq
    <2> QED
        BY <1>4, <2>1, <2>2
<1>7. Step(n).does \notin {"ask", "need"} => Len(Keys(n)) = 0
    <2>1. Step(n).does \notin {"ask", "need"} => Keys(n) = <<>>
        BY <1>1, <1>3
    <2> QED
        BY <2>1
<1>8. KeySet(n) \subseteq A!Questions
    BY <1>3 DEF KeySet, Elements, A!Questions, A!ToSet
<1>9. \A m \in DOMAIN steps : \A k \in KeySet(n) : k \in KeySet(m) => n = m
    BY DEF A!AsksPlainly, KeySet, Elements, Keys
<1>10. \A i, j \in DOMAIN Keys(n) : Keys(n)[i] = Keys(n)[j] => i = j
    BY DEF A!AsksPlainly, Keys
<1> QED
    BY <1>4, <1>5, <1>6, <1>7, <1>8, <1>9, <1>10

\* What a step says of the handler and the client holds after it.
HandlerStays ==
    /\ \A n : Keys(n)' = Keys(n) /\ KeySet(n)' = KeySet(n) /\ Step(n)' = Step(n)
    /\ A!Needs' = A!Needs /\ A!Questions' = A!Questions
    /\ \A k : A!Defaulted(k)' <=> A!Defaulted(k)
    /\ A!can_ask' <=> A!can_ask
    /\ A!asks_on_the_stream' <=> A!asks_on_the_stream
    /\ (handler.steps)' = handler.steps /\ handler' = handler /\ me' = me

LEMMA HandlerIsKept == ASSUME UNCHANGED <<me, handler>> PROVE HandlerStays
    BY DEF HandlerStays, Keys, KeySet, Elements, Step, A!Needs, A!Questions, A!ToSet, A!Defaulted, A!can_ask,
        A!asks_on_the_stream, A!asks_in_arguments, A!can_push_ask

-----------------------------------------------------------------------------
(* One more question asked. *)

Grows(key, verdict) ==
    /\ \A k : A!Asked(k)' <=> A!Asked(k) \/ k = key
    /\ \A k : A!Asked(k) => A!VerdictOf(k)' = A!VerdictOf(k)
    /\ A!VerdictOf(key)' = verdict
    /\ Len(asked') = Len(asked) + 1
    /\ \A n \in DOMAIN asked' : asked'[n][1] = key \/ \E m \in DOMAIN asked : asked'[n] = asked[m]

LEMMA AskedGrows ==
    ASSUME NEW key, NEW verdict, asked \in Seq(Elements(asked)), AskedOnce, ~A!Asked(key), key \in A!Questions,
           HandlerStays, asked' = Append(asked, <<key, verdict>>)
    PROVE  Grows(key, verdict) /\ AskedOnce' /\ asked' \in Seq(Elements(asked'))
<1>1. PICK s, t : s = asked /\ t = asked'
    OBVIOUS
<1> DEFINE last == Len(s) + 1
<1>2. /\ Len(s) \in Nat /\ DOMAIN s = 1..Len(s) /\ DOMAIN t = 1..last /\ Len(t) = last
      /\ t[last] = <<key, verdict>> /\ \A n \in 1..Len(s) : t[n] = s[n]
    BY <1>1, LenProperties, AppendProperties
<1>3. t \in Seq(Elements(t))
    <2>1. t = [n \in 1..last |-> t[n]] /\ last \in Nat
        BY <1>1, <1>2
    <2>2. \A n \in 1..last : t[n] \in Elements(t)
        BY <1>2 DEF Elements
    <2>3. PICK E : E = Elements(t)
        OBVIOUS
    <2> QED
        BY <2>1, <2>2, <2>3
<1>4. \A n \in 1..Len(s) : s[n][1] # key
    BY <1>1, <1>2 DEF A!Asked
<1>5. \A n, m \in 1..last : t[n][1] = t[m][1] => n = m
    <2>1. \A n, m \in 1..Len(s) : s[n][1] = s[m][1] => n = m
        BY <1>1, <1>2 DEF AskedOnce
    <2>2. \A n \in 1..last : n \in 1..Len(s) \/ n = last
        BY <1>2
    <2>3. t[last][1] = key
        BY <1>2
    <2> QED
        BY <1>2, <1>4, <2>1, <2>2, <2>3
<1>6. \A n \in 1..last : t[n][1] \in A!Questions
    <2>1. \A n \in 1..Len(s) : s[n][1] \in A!Questions
        BY <1>1, <1>2 DEF AskedOnce
    <2>2. \A n \in 1..last : n \in 1..Len(s) \/ n = last
        BY <1>2
    <2> QED
        BY <1>2, <2>1, <2>2
<1>7. AskedOnce'
    BY <1>1, <1>2, <1>5, <1>6 DEF AskedOnce, HandlerStays
<1>8. ASSUME NEW k PROVE A!Asked(k)' <=> A!Asked(k) \/ k = key
    <2>1. A!Asked(k)' <=> \E n \in 1..last : t[n][1] = k
        BY <1>1, <1>2 DEF A!Asked
    <2>2. A!Asked(k) <=> \E n \in 1..Len(s) : s[n][1] = k
        BY <1>1, <1>2 DEF A!Asked
    <2>3. \A n \in 1..last : n \in 1..Len(s) \/ n = last
        BY <1>2
    <2>4. last \in 1..last /\ t[last][1] = key /\ \A n \in 1..Len(s) : n \in 1..last
        BY <1>2
    <2> QED
        BY <1>2, <2>1, <2>2, <2>3, <2>4
<1>9. ASSUME NEW k, A!Asked(k) PROVE A!VerdictOf(k)' = A!VerdictOf(k)
    <2>1. PICK n \in 1..Len(s) : s[n][1] = k
        BY <1>1, <1>2, <1>9 DEF A!Asked
    <2>2. (CHOOSE i \in DOMAIN s : s[i][1] = k) = n
        BY <1>2, <1>5, <2>1
    <2>3. (CHOOSE i \in DOMAIN t : t[i][1] = k) = n
        BY <1>2, <1>5, <2>1
    <2>4. A!VerdictOf(k) = s[n][2]
        BY <1>1, <2>2 DEF A!VerdictOf
    <2>5. A!VerdictOf(k)' = t[n][2]
        BY <1>1, <2>3 DEF A!VerdictOf
    <2> QED
        BY <1>2, <2>4, <2>5
<1>10. A!VerdictOf(key)' = verdict
    <2>1. last \in 1..last /\ t[last] = <<key, verdict>>
        BY <1>2
    <2>2. (CHOOSE i \in DOMAIN t : t[i][1] = key) = last
        BY <1>2, <1>5, <2>1
    <2>3. A!VerdictOf(key)' = t[last][2]
        BY <1>1, <2>2 DEF A!VerdictOf
    <2> QED
        BY <2>1, <2>3
<1>11. \A n \in DOMAIN asked' : asked'[n][1] = key \/ \E m \in DOMAIN asked : asked'[n] = asked[m]
    <2>1. \A n \in 1..last : n \in 1..Len(s) \/ n = last
        BY <1>2
    <2> QED
        BY <1>1, <1>2, <2>1
<1> QED
    BY <1>1, <1>2, <1>3, <1>7, <1>8, <1>9, <1>10, <1>11 DEF Grows

\* The next key is one nobody was asked; the others were, or are still to be.
LEMMA NextKey ==
    ASSUME Plain, NEW rest, Pending(rest), rest # <<>>
    PROVE  /\ Head(rest) \in KeySet(ex.pos) /\ Head(rest) \in A!Questions /\ ~A!Asked(Head(rest))
           /\ Head(rest) = Keys(ex.pos)[Done(rest) + 1] /\ Done(rest) + 1 \in DOMAIN Keys(ex.pos)
           /\ Len(Tail(rest)) = Len(rest) - 1 /\ Done(Tail(rest)) = Done(rest) + 1
           /\ Tail(rest) = [i \in 1..Len(Tail(rest)) |-> Keys(ex.pos)[Done(Tail(rest)) + i]]
<1>1. PICK n, ks : n = ex.pos /\ ks = Keys(n)
    OBVIOUS
<1>2. /\ n \in DOMAIN handler.steps /\ Len(ks) \in Nat /\ DOMAIN ks = 1..Len(ks)
      /\ KeySet(n) \subseteq A!Questions /\ KeySet(n) = {ks[i] : i \in 1..Len(ks)}
    BY <1>1 DEF Plain, Pending, KeySet, Elements
<1>3. PICK m : m = Len(rest)
    OBVIOUS
<1>4. PICK d : d = Len(ks) - m
    OBVIOUS
<1>5. /\ m \in 0..Len(ks) /\ rest = [i \in 1..m |-> ks[d + i]] /\ Done(rest) = d
      /\ \A i \in 1..Len(ks) : A!Asked(ks[i]) <=> i <= d
    BY <1>1, <1>2, <1>3, <1>4 DEF Pending, Done
<1>6. m > 0
    <2>1. m = 0 => rest = <<>>
        BY <1>5
    <2> QED
        BY <1>5, <2>1, <1>2
<1>7. rest \in Seq({ks[i] : i \in 1..Len(ks)})
    <2>1. \A i \in 1..m : d + i \in 1..Len(ks)
        BY <1>2, <1>4, <1>5
    <2> QED
        BY <1>5, <1>2, <2>1
<1>8. Head(rest) = rest[1] /\ Tail(rest) = [i \in 1..(m - 1) |-> rest[i + 1]] /\ Len(Tail(rest)) = m - 1
    BY <1>3, <1>5, <1>6, <1>7
<1>9. Head(rest) = ks[d + 1] /\ d + 1 \in 1..Len(ks)
    BY <1>2, <1>4, <1>5, <1>6, <1>8
<1>10. Done(Tail(rest)) = d + 1
    <2>1. Done(Tail(rest)) = Len(ks) - (m - 1)
        BY <1>1, <1>8 DEF Done
    <2> QED
        BY <1>2, <1>4, <1>5, <2>1
<1>11. Tail(rest) = [i \in 1..(m - 1) |-> ks[d + 1 + i]]
    <2>1. \A i \in 1..(m - 1) : rest[i + 1] = ks[d + 1 + i]
        BY <1>2, <1>4, <1>5, <1>6
    <2> QED
        BY <1>8, <2>1
<1>12. ~A!Asked(ks[d + 1])
    BY <1>2, <1>4, <1>5, <1>9
<1>13. Head(rest) \in KeySet(n) /\ Head(rest) \in A!Questions /\ ~A!Asked(Head(rest))
    BY <1>2, <1>9, <1>12
<1>14. Keys(ex.pos) = ks /\ KeySet(ex.pos) = KeySet(n)
    BY <1>1
<1>15. Tail(rest) = [i \in 1..Len(Tail(rest)) |-> ks[Done(Tail(rest)) + i]]
    BY <1>8, <1>10, <1>11
<1> QED
    BY <1>2, <1>3, <1>5, <1>8, <1>9, <1>10, <1>13, <1>14, <1>15

-----------------------------------------------------------------------------
(* What one more question leaves of what holds of the others. *)

LEMMA KnowsMore ==
    ASSUME NEW key, NEW verdict, Grows(key, verdict), NEW given, Knows(given)
    PROVE  (\A k \in DOMAIN given : A!Asked(k)' /\ given[k] = A!VerdictOf(k)')
           /\ \A k \in DOMAIN A!Put(given, key, verdict) :
                  A!Asked(k)' /\ A!Put(given, key, verdict)[k] = A!VerdictOf(k)'
<1>1. \A k \in DOMAIN given : A!Asked(k)' /\ given[k] = A!VerdictOf(k)'
    BY DEF Grows, Knows
<1>2. PICK put : put = A!Put(given, key, verdict)
    OBVIOUS
<1>3. DOMAIN put = DOMAIN given \cup {key}
      /\ \A k \in DOMAIN put : put[k] = IF k = key THEN verdict ELSE given[k]
    BY <1>2 DEF A!Put
<1>4. A!Asked(key)' /\ verdict = A!VerdictOf(key)'
    BY DEF Grows
<1> QED
    BY <1>1, <1>2, <1>3, <1>4

\* A step that was told stays told: a default is told of who cannot be asked.
LEMMA ToldStays ==
    ASSUME NEW key, NEW verdict, Grows(key, verdict), HandlerStays, A!can_ask, NEW n, NEW verdicts, IsTold(n, verdicts)
    PROVE  IsTold(n, verdicts)'
<1>1. PICK ks : ks = Keys(n)
    OBVIOUS
<1>2. \A k \in KeySet(n) : A!Asked(k)
    BY DEF IsTold
<1>3. \A i \in DOMAIN ks : ks[i] \in KeySet(n)
    BY <1>1 DEF KeySet, Elements
<1>4. \A k \in KeySet(n) : A!Asked(k)' /\ A!VerdictOf(k)' = A!VerdictOf(k)
    BY <1>2 DEF Grows
<1>5. \A i \in DOMAIN ks : A!Settled(ks[i])' = A!Settled(ks[i])
    BY <1>2, <1>3, <1>4 DEF A!Settled
<1>6. Keys(n)' = ks /\ KeySet(n)' = KeySet(n)
    BY <1>1 DEF HandlerStays
<1>7. verdicts = [i \in DOMAIN ks |-> A!Settled(ks[i])]
    BY <1>1 DEF IsTold
<1>8. verdicts = [i \in DOMAIN ks |-> A!Settled(ks[i])']
    BY <1>5, <1>7
<1> QED
    BY <1>4, <1>6, <1>8 DEF IsTold

\* Keys of one step leave those of the others as they were.
LEMMA OthersStay ==
    ASSUME Plain, NEW key, NEW verdict, Grows(key, verdict), HandlerStays, NEW n \in DOMAIN handler.steps,
           key \in KeySet(n)
    PROVE  \A m \in DOMAIN handler.steps :
               (AllAsked(m) => AllAsked(m)') /\ (m # n => (NoneAsked(m) <=> NoneAsked(m)'))
    BY DEF Plain, Grows, HandlerStays, AllAsked, NoneAsked

\* Needs in their turn, and who is not in turn has been asked all or nothing.
LEMMA TurnsStay ==
    ASSUME Plain, NEW key, NEW verdict, Grows(key, verdict), HandlerStays, NEW rest, Pending(rest), InTurn,
           key \in KeySet(ex.pos)
    PROVE  /\ InTurn'
           /\ \A m \in A!Needs : (m < ex.pos => AllAsked(m)') /\ (m > ex.pos => NoneAsked(m)')
<1>1. PICK n : n = ex.pos
    OBVIOUS
<1>2. n \in DOMAIN handler.steps /\ DOMAIN handler.steps \subseteq Nat /\ A!Needs \subseteq DOMAIN handler.steps
    BY <1>1 DEF Pending, Plain, A!Needs
<1>3. \A m \in DOMAIN handler.steps : (AllAsked(m) => AllAsked(m)') /\ (m # n => (NoneAsked(m) <=> NoneAsked(m)'))
    BY <1>1, <1>2, OthersStay
<1>4. \A m \in A!Needs : (m < n => AllAsked(m)) /\ (m > n => NoneAsked(m))
    BY <1>1 DEF Pending
<1>5. \A i, m \in A!Needs : m < i /\ ~NoneAsked(i)' => AllAsked(m)'
    BY <1>2, <1>3, <1>4 DEF InTurn
<1>6. A!Needs' = A!Needs
    BY DEF HandlerStays
<1> QED
    BY <1>1, <1>2, <1>3, <1>4, <1>5, <1>6 DEF InTurn

-----------------------------------------------------------------------------
(* Steps that ask nobody. *)

AskedStays ==
    /\ HandlerStays /\ asked' = asked
    /\ \A k : (A!Asked(k)' <=> A!Asked(k)) /\ A!VerdictOf(k)' = A!VerdictOf(k) /\ A!Settled(k)' = A!Settled(k)
    /\ \A n : (AllAsked(n)' <=> AllAsked(n)) /\ (NoneAsked(n)' <=> NoneAsked(n))
    /\ \A given : Knows(given) => \A k \in DOMAIN given : A!Asked(k)' /\ given[k] = A!VerdictOf(k)'
    /\ \A n, verdicts : IsTold(n, verdicts) => IsTold(n, verdicts)'
    /\ AskedOnce => AskedOnce'
    /\ InTurn => InTurn'

LEMMA NobodyIsAsked == ASSUME UNCHANGED <<me, handler, asked>> PROVE AskedStays
<1>1. HandlerStays
    BY HandlerIsKept
<1>2. \A k : (A!Asked(k)' <=> A!Asked(k)) /\ A!VerdictOf(k)' = A!VerdictOf(k)
    BY DEF A!Asked, A!VerdictOf
<1>3. \A k : A!Settled(k)' = A!Settled(k)
    BY <1>2 DEF A!Settled
<1>4. \A n : (AllAsked(n)' <=> AllAsked(n)) /\ (NoneAsked(n)' <=> NoneAsked(n))
    BY <1>1, <1>2 DEF AllAsked, NoneAsked, HandlerStays
<1>5. \A given : Knows(given) => \A k \in DOMAIN given : A!Asked(k)' /\ given[k] = A!VerdictOf(k)'
    BY <1>2 DEF Knows
<1>6. ASSUME NEW n, NEW verdicts, IsTold(n, verdicts) PROVE IsTold(n, verdicts)'
    <2>1. PICK ks : ks = Keys(n)
        OBVIOUS
    <2>2. verdicts = [i \in DOMAIN ks |-> A!Settled(ks[i])]
        BY <1>6, <2>1 DEF IsTold
    <2>3. verdicts = [i \in DOMAIN ks |-> A!Settled(ks[i])']
        BY <1>3, <2>2
    <2>4. Keys(n)' = ks /\ KeySet(n)' = KeySet(n)
        BY <1>1, <2>1 DEF HandlerStays
    <2>5. \A k \in KeySet(n) : ~A!Asked(k)' => ~A!can_ask' /\ A!Defaulted(k)'
        BY <1>1, <1>2, <1>6 DEF IsTold, HandlerStays
    <2> QED
        BY <2>3, <2>4, <2>5 DEF IsTold
<1>7. AskedOnce => AskedOnce'
    BY <1>1 DEF AskedOnce, HandlerStays
<1>8. InTurn => InTurn'
    BY <1>1, <1>4 DEF InTurn, HandlerStays
<1> QED
    BY <1>1, <1>2, <1>3, <1>4, <1>5, <1>6, <1>7, <1>8 DEF AskedStays

-----------------------------------------------------------------------------
(* The handler's step at ex.pos. *)

Open(n) == \E k \in KeySet(n) : k \notin DOMAIN ex.answers

\* A key it has no answer to is one nobody was asked, and so are those with it;
\* the needs before it were asked, and none after it.
LEMMA OpenIsPending ==
    ASSUME AskInvariants, Plain, stage = "handling", ex.pos \in DOMAIN handler.steps, Open(ex.pos), A!can_ask
    PROVE  NoneAsked(ex.pos) /\ Pending(Keys(ex.pos)) /\ Done(Keys(ex.pos)) = 0
<1>1. PICK n, ks : n = ex.pos /\ ks = Keys(n)
    OBVIOUS
<1>2. AskTypes /\ Recalls /\ ToldSoFar /\ Together /\ InTurn
    BY DEF AskInvariants
<1>3. /\ n \in DOMAIN handler.steps /\ n \in Nat /\ n = Len(ex.got) + 1 /\ Len(ex.got) \in Nat
      /\ DOMAIN handler.steps \subseteq Nat
    BY <1>1, <1>2 DEF AskTypes, Plain
<1>4. /\ Len(ks) \in Nat /\ DOMAIN ks = 1..Len(ks) /\ ks = [i \in 1..Len(ks) |-> ks[i]]
      /\ KeySet(n) = {ks[i] : i \in 1..Len(ks)}
    BY <1>1, <1>3, SMTT(60) DEF Plain, KeySet, Elements
<1>5. PICK k \in KeySet(n) : k \notin DOMAIN ex.answers
    BY <1>1 DEF Open
<1>6. \A m \in 1..Len(ex.got) : m \in DOMAIN handler.steps /\ n \notin 1..Len(ex.got)
    BY <1>3 DEF Plain
<1>7. \A j \in KeySet(n) : A!Asked(j) => j \in DOMAIN ex.answers
    <2> SUFFICES ASSUME NEW j \in KeySet(n), A!Asked(j), j \notin DOMAIN ex.answers PROVE FALSE
        OBVIOUS
    <2>1. Covered(j)
        BY <1>2 DEF Recalls, A!Asked
    <2>2. PICK m \in 1..Len(ex.got) : j \in KeySet(m)
        BY <2>1 DEF Covered
    <2>3. m \in DOMAIN handler.steps /\ m # n
        BY <1>6
    <2> QED
        BY <1>3, <2>2, <2>3 DEF Plain
<1>8. NoneAsked(n)
    <2>1. CASE Step(n).does = "need"
        <3>1. n \in A!Needs
            BY <1>3, <2>1 DEF A!Needs, Step
        <3>2. AllAsked(n) \/ NoneAsked(n)
            BY <1>2, <3>1 DEF Together
        <3> QED
            BY <1>5, <1>7, <3>2 DEF AllAsked
    <2>2. CASE Step(n).does = "ask"
        <3>1. Len(ks) = 1
            BY <1>1, <1>3, <2>2 DEF Plain
        <3>2. \A i \in 1..Len(ks) : i = 1
            BY <3>1
        <3>3. \A j \in KeySet(n) : j = k
            BY <1>4, <1>5, <3>2
        <3> QED
            BY <1>5, <1>7, <3>3 DEF NoneAsked
    <2>3. CASE Step(n).does \notin {"ask", "need"}
        <3>1. Len(ks) = 0
            BY <1>1, <1>3, <2>3 DEF Plain
        <3> QED
            BY <1>4, <1>5, <3>1
    <2> QED
        BY <2>1, <2>2, <2>3
<1>9. ASSUME NEW m \in A!Needs PROVE (m < n => AllAsked(m)) /\ (m > n => NoneAsked(m))
    <2>1. m \in DOMAIN handler.steps /\ m \in Nat
        BY <1>3 DEF A!Needs
    <2>2. m < n => AllAsked(m)
        <3> SUFFICES ASSUME m < n PROVE AllAsked(m)
            OBVIOUS
        <3>1. m \in 1..Len(ex.got)
            BY <1>3, <2>1 DEF Plain
        <3>2. IsTold(m, ex.got[m])
            BY <1>2, <3>1 DEF ToldSoFar
        <3> QED
            BY <3>2 DEF IsTold, AllAsked
    <2>3. m > n => NoneAsked(m)
        <3> SUFFICES ASSUME m > n, ~NoneAsked(m) PROVE FALSE
            OBVIOUS
        <3>1. n \in A!Needs
            <4>1. Step(n).does = "ask" => A!Needs = {}
                BY <1>3 DEF Plain
            <4>2. Step(n).does \notin {"ask", "need"} => Len(ks) = 0
                BY <1>1, <1>3 DEF Plain
            <4>3. Len(ks) # 0
                BY <1>4, <1>5
            <4> QED
                BY <1>3, <4>1, <4>2, <4>3 DEF A!Needs, Step
        <3>2. AllAsked(n)
            BY <1>2, <3>1 DEF InTurn
        <3> QED
            BY <1>5, <1>8, <3>2 DEF AllAsked, NoneAsked
    <2> QED
        BY <2>2, <2>3
<1>10. Done(ks) = 0
    BY <1>1, <1>4 DEF Done
<1>11. \A i \in DOMAIN ks : A!Asked(ks[i]) <=> i <= 0
    BY <1>4, <1>8 DEF NoneAsked
<1>12. ks = [i \in 1..Len(ks) |-> ks[0 + i]]
    BY <1>4
<1>13. Pending(ks)
    BY <1>1, <1>3, <1>4, <1>9, <1>10, <1>11, <1>12 DEF Pending
<1> QED
    BY <1>1, <1>8, <1>10, <1>13

LEMMA AppendOfElements ==
    ASSUME NEW s, s \in Seq(Elements(s)), NEW x
    PROVE  /\ Append(s, x) \in Seq(Elements(Append(s, x)))
           /\ Len(Append(s, x)) = Len(s) + 1 /\ Append(s, x)[Len(s) + 1] = x
           /\ \A n \in 1..Len(s) : Append(s, x)[n] = s[n]
<1>1. Append(s, x) \in Seq(Elements(s) \cup {x}) /\ Len(s) \in Nat /\ DOMAIN s = 1..Len(s)
    <2>1. s \in Seq(Elements(s) \cup {x})
        BY SeqMonotonic
    <2> QED
        BY <2>1, AppendProperties, LenProperties
<1>2. Append(s, x) \in Seq(Elements(Append(s, x)))
    BY <1>1, OfItsElements
<1> QED
    BY <1>1, <1>2, AppendProperties

\* The handler goes on with the verdicts of its step.
LEMMA ToldKeeps ==
    ASSUME AskInvariants, Plain, stage = "handling", ex.pos \in DOMAIN handler.steps,
           NEW verdicts, IsTold(ex.pos, verdicts), A!Told(verdicts),
           UNCHANGED <<me, handler, answers, state, rounds, asked>>
    PROVE  AskInvariants'
<1>1. AskedStays
    BY NobodyIsAsked
<1>2. AskTypes /\ AskedOnce /\ Recalls /\ Phases /\ ToldSoFar /\ Together /\ InTurn /\ StateIsLast /\ RoundsAsk
    BY DEF AskInvariants
<1>3. PICK got, n : got = ex.got /\ n = ex.pos
    OBVIOUS
<1>4. got \in Seq(Elements(got)) /\ Len(got) \in Nat /\ n = Len(got) + 1 /\ n <= Len(handler.steps)
    BY <1>2, <1>3 DEF AskTypes, Plain
<1>5. /\ ex'.got = Append(got, verdicts) /\ ex'.pos = n + 1 /\ ex'.answers = ex.answers /\ ex'.state = ex.state
      /\ ex'.restarts = ex.restarts
      /\ ex' = [answers |-> ex'.answers, state |-> ex'.state, sse |-> ex'.sse, got |-> ex'.got, pos |-> ex'.pos,
                pending |-> ex'.pending, next |-> ex'.next, restarts |-> ex'.restarts, dep |-> ex'.dep]
      /\ stage' = "handling" /\ reply' = reply
    BY <1>2, <1>3 DEF A!Told, AskTypes
<1>6. PICK more : more = Append(got, verdicts)
    OBVIOUS
<1>7. /\ more \in Seq(Elements(more)) /\ Len(more) = n /\ more[n] = verdicts
      /\ \A m \in 1..Len(got) : more[m] = got[m]
    BY <1>4, <1>6, AppendOfElements
<1>8. ex'.got = more /\ 1..Len(more) = 1..Len(got) \cup {n}
    BY <1>4, <1>5, <1>6, <1>7
<1>9. AskTypes'
    BY <1>1, <1>2, <1>4, <1>5, <1>7, <1>8 DEF AskTypes, AskedStays, HandlerStays
<1>10. AskedOnce' /\ InTurn'
    BY <1>1, <1>2 DEF AskedStays
<1>11. ASSUME NEW k, Covered(k) PROVE Covered(k)'
    <2>1. CASE k \in DOMAIN ex.answers
        BY <1>5, <2>1 DEF Covered
    <2>2. CASE A!Needs = {} /\ \E m \in 1..Len(ex.got) : k \in KeySet(m)
        <3>1. PICK m \in 1..Len(got) : k \in KeySet(m)
            BY <1>3, <2>2
        <3>2. m \in 1..Len(more) /\ k \in KeySet(m)' /\ A!Needs' = {}
            BY <1>1, <1>8, <2>2, <3>1 DEF AskedStays, HandlerStays
        <3> QED
            BY <1>8, <3>2 DEF Covered
    <2> QED
        BY <1>11, <2>1, <2>2 DEF Covered
<1>12. Recalls'
    <2>1. Knows(answers)' /\ Knows(ex.answers)'
        BY <1>1, <1>2, <1>5 DEF Recalls, Knows, AskedStays
    <2>2. \A m \in DOMAIN asked : Covered(asked[m][1])'
        BY <1>2, <1>11 DEF Recalls
    <2>3. \A m \in DOMAIN asked' : Covered(asked[m][1])'
        BY <1>1, <2>2 DEF AskedStays
    <2> QED
        BY <1>1, <1>2, <1>5, <2>1, <2>3 DEF Recalls, AskedStays, HandlerStays
<1>13. Phases'
    BY <1>1, <1>2, <1>5 DEF Phases, AskedStays, HandlerStays
<1>14. ToldSoFar'
    <2>1. \A m \in 1..Len(got) : IsTold(m, more[m])
        BY <1>2, <1>3, <1>7 DEF ToldSoFar
    <2>2. \A m \in 1..Len(more) : IsTold(m, more[m])
        BY <1>3, <1>7, <1>8, <2>1
    <2>3. \A m \in 1..Len(more) : IsTold(m, more[m])'
        BY <1>1, <2>2 DEF AskedStays
    <2>4. more' = more
        OBVIOUS
    <2> QED
        BY <1>8, <2>3 DEF ToldSoFar
<1>15. Together'
    BY <1>1, <1>2, <1>5 DEF Together, AskedStays, HandlerStays
<1>16. InHand'
    BY <1>5 DEF InHand
<1>17. StateIsLast'
    BY <1>1, <1>2, <1>5 DEF StateIsLast, Leaves, AskedStays, HandlerStays
<1>18. RoundsAsk'
    BY <1>1, <1>2, <1>5 DEF RoundsAsk, AskedStays, HandlerStays
<1>19. EndsSettled'
    BY <1>5 DEF EndsSettled
<1> QED
    BY <1>9, <1>10, <1>12, <1>13, <1>14, <1>15, <1>16, <1>17, <1>18, <1>19 DEF AskInvariants

\* The exchange asks for the keys of the step.
LEMMA PushKeeps ==
    ASSUME AskInvariants, Plain, stage = "handling", A!asks_on_the_stream, NEW keys, NEW next,
           Pending(keys), keys # <<>>, A!Push(keys, next),
           next = <<>> => A!Needs = {} /\ Len(Keys(ex.pos)) = 1,
           next # <<>> => ex.pos \in A!Needs /\ next[1] = Keys(ex.pos)[1],
           UNCHANGED <<me, handler, answers, state, rounds, asked>>
    PROVE  AskInvariants'
<1>1. AskedStays
    BY NobodyIsAsked
<1>2. AskTypes /\ AskedOnce /\ Recalls /\ Phases /\ ToldSoFar /\ Together /\ InTurn /\ StateIsLast /\ RoundsAsk
    BY DEF AskInvariants
<1>3. /\ ex'.got = ex.got /\ ex'.pos = ex.pos /\ ex'.answers = ex.answers /\ ex'.state = ex.state
      /\ ex'.restarts = ex.restarts /\ ex'.pending = keys /\ ex'.next = next
      /\ ex' = [answers |-> ex'.answers, state |-> ex'.state, sse |-> ex'.sse, got |-> ex'.got, pos |-> ex'.pos,
                pending |-> ex'.pending, next |-> ex'.next, restarts |-> ex'.restarts, dep |-> ex'.dep]
      /\ stage' = "asking" /\ reply' = reply
    BY <1>2 DEF A!Push, AskTypes
<1>4. AskTypes'
    BY <1>1, <1>2, <1>3 DEF AskTypes, AskedStays, HandlerStays
<1>5. AskedOnce' /\ InTurn'
    BY <1>1, <1>2 DEF AskedStays
<1>6. \A k : Covered(k) => Covered(k)'
    BY <1>1, <1>3 DEF Covered, AskedStays, HandlerStays
<1>7. Recalls'
    <2>1. Knows(answers)' /\ Knows(ex.answers)'
        BY <1>1, <1>2, <1>3 DEF Recalls, Knows, AskedStays
    <2>2. \A m \in DOMAIN asked' : Covered(asked[m][1])'
        BY <1>1, <1>2, <1>6 DEF Recalls, AskedStays
    <2> QED
        BY <1>1, <1>2, <1>3, <2>1, <2>2 DEF Recalls, AskedStays, HandlerStays
<1>8. Phases'
    BY <1>1, <1>2, <1>3 DEF Phases, AskedStays, HandlerStays
<1>9. ToldSoFar'
    <2>1. PICK got : got = ex.got
        OBVIOUS
    <2>2. \A m \in 1..Len(got) : IsTold(m, got[m])'
        BY <1>1, <1>2, <2>1 DEF ToldSoFar, AskedStays
    <2>3. ex'.got = got
        BY <1>3, <2>1
    <2> QED
        BY <2>2, <2>3 DEF ToldSoFar
<1>10. Together'
    BY <1>1, <1>2, <1>3 DEF Together, AskedStays, HandlerStays
<1>11. Pending(keys)'
    BY <1>1, <1>3 DEF Pending, Done, AskedStays, HandlerStays
<1>12. InHand'
    BY <1>1, <1>3, <1>11 DEF InHand, Pending, Done, AskedStays, HandlerStays
<1>13. StateIsLast' /\ EndsSettled'
    BY <1>3 DEF StateIsLast, EndsSettled
<1>14. RoundsAsk'
    BY <1>1, <1>2, <1>3 DEF RoundsAsk, AskedStays, HandlerStays
<1> QED
    BY <1>4, <1>5, <1>7, <1>8, <1>9, <1>10, <1>12, <1>13, <1>14 DEF AskInvariants

\* Why the exchange answers as it does: a question is one that is open.
Justified(kind, keys, saved) ==
    /\ kind = "input_required" =>
        /\ A!can_ask /\ ~A!asks_on_the_stream
        /\ Pending(keys) /\ Done(keys) = 0 /\ Len(Keys(ex.pos)) > 0
        /\ ex.pos \in A!Needs => saved = Keys(ex.pos)[1]
    /\ kind = "result" => ex.pos > Len(handler.steps)
    /\ kind = "still asking" => A!asks_on_the_stream /\ ex.restarts >= PUSH_ASK_ROUNDS
    /\ kind = "cannot ask" => ~A!can_ask /\ \E k \in A!Questions : ~A!Defaulted(k)

LEMMA AsManyAndMore == ASSUME NEW a \in Nat, NEW b \in Nat, NEW c \in Nat, b <= a, b >= c PROVE a >= c
    OBVIOUS

\* The exchange answers: with a question, or for good.
LEMMA AnswerKeeps ==
    ASSUME AskInvariants, Plain, stage = "handling", NEW kind, NEW keys, NEW saved, A!Answer(kind, keys, saved),
           Justified(kind, keys, saved),
           UNCHANGED <<me, handler, answers, state, rounds, asked>>
    PROVE  AskInvariants'
<1>1. AskedStays
    BY NobodyIsAsked
<1>2. AskTypes /\ AskedOnce /\ Recalls /\ Phases /\ ToldSoFar /\ Together /\ InTurn /\ StateIsLast /\ RoundsAsk
    BY DEF AskInvariants
<1>3. /\ ex'.got = ex.got /\ ex'.pos = ex.pos /\ ex'.answers = ex.answers /\ ex'.state = ex.state
      /\ ex'.restarts = ex.restarts /\ ex'.pending = ex.pending /\ ex'.next = ex.next
      /\ ex' = [answers |-> ex'.answers, state |-> ex'.state, sse |-> ex'.sse, got |-> ex'.got, pos |-> ex'.pos,
                pending |-> ex'.pending, next |-> ex'.next, restarts |-> ex'.restarts, dep |-> ex'.dep]
      /\ stage' = "replied"
      /\ reply' = [kind |-> kind, keys |-> keys, state |-> saved, got |-> ex.got, saw |-> ex.state]
    BY <1>2 DEF A!Answer, AskTypes
<1>4. AskTypes'
    BY <1>1, <1>2, <1>3 DEF AskTypes, AskedStays, HandlerStays
<1>5. AskedOnce' /\ InTurn'
    BY <1>1, <1>2 DEF AskedStays
<1>6. Recalls'
    <2>1. Knows(answers)' /\ Knows(ex.answers)'
        BY <1>1, <1>2, <1>3 DEF Recalls, Knows, AskedStays
    <2> QED
        BY <1>1, <1>2, <1>3, <2>1 DEF Recalls, AskedStays, HandlerStays
<1>7. Phases'
    BY <1>1, <1>3 DEF Justified, Phases, AskedStays, HandlerStays
<1>8. ToldSoFar' /\ StateIsLast'
    BY <1>3 DEF ToldSoFar, StateIsLast
<1>9. Together'
    BY <1>1, <1>2, <1>3 DEF Together, AskedStays, HandlerStays
<1>10. Pending(keys) => Pending(keys)'
    BY <1>1, <1>3 DEF Pending, Done, AskedStays, HandlerStays
<1>11. InHand'
    <2>1. ASSUME kind = "input_required"
          PROVE  Pending(keys)' /\ Keys(ex.pos)' # <<>> /\ Done(keys)' = 0
        <3>1. Keys(ex.pos)' = Keys(ex.pos) /\ Keys(ex.pos) # <<>>
            BY <1>1, <1>3, <2>1 DEF AskedStays, HandlerStays, Keys, Justified
        <3> QED
            BY <1>10, <2>1, <3>1 DEF Done, Justified
    <2>2. kind = "input_required" /\ ex'.pos \in A!Needs' => saved = Keys(ex.pos)'[1]
        BY <1>1, <1>3 DEF AskedStays, HandlerStays, Justified
    <2> QED
        BY <1>3, <2>1, <2>2 DEF InHand
<1>12. RoundsAsk'
    BY <1>1, <1>2, <1>3 DEF RoundsAsk, AskedStays, HandlerStays
<1>13. ASSUME kind = "result"
       PROVE  /\ ex.got = [n \in DOMAIN handler.steps |-> [i \in DOMAIN Keys(n) |-> A!Settled(Keys(n)[i])]]
              /\ \A k \in A!Questions : ~A!Asked(k) => A!Defaulted(k) /\ ~A!can_ask
              /\ \A n \in A!Needs : (\A m \in A!Needs : m <= n) => ex.state = Keys(n)[1]
    <2>1. PICK got : got = ex.got
        OBVIOUS
    <2>2. PICK last : last = Len(handler.steps)
        OBVIOUS
    <2>3. last \in Nat /\ DOMAIN handler.steps = 1..last /\ Len(got) = last /\ got = [n \in 1..last |-> got[n]]
        <3>1. last \in Nat /\ DOMAIN handler.steps = 1..last
            BY <2>2 DEF Plain
        <3>2. got \in Seq(Elements(got)) /\ ex.pos = Len(got) + 1 /\ ex.pos <= last + 1 /\ ex.pos > last
            BY <1>2, <1>13, <2>1, <2>2 DEF AskTypes, Justified
        <3>3. Len(got) \in Nat /\ got \in [1..Len(got) -> Elements(got)]
            BY <3>2, LenProperties
        <3>4. Len(got) = last
            BY <3>1, <3>2, <3>3
        <3> QED
            BY <3>1, <3>3, <3>4
    <2>4. \A n \in 1..last : IsTold(n, got[n])
        BY <1>2, <2>1, <2>3 DEF ToldSoFar
    <2>5. \A n \in 1..last : got[n] = [i \in DOMAIN Keys(n) |-> A!Settled(Keys(n)[i])]
        BY <2>4 DEF IsTold
    <2>6. got = [n \in DOMAIN handler.steps |-> [i \in DOMAIN Keys(n) |-> A!Settled(Keys(n)[i])]]
        BY <2>3, <2>5
    <2>7. ASSUME NEW k \in A!Questions, ~A!Asked(k) PROVE A!Defaulted(k) /\ ~A!can_ask
        <3>1. PICK n \in DOMAIN handler.steps : k \in KeySet(n)
            BY DEF A!Questions, A!ToSet, KeySet, Elements, Keys
        <3> QED
            BY <2>3, <2>4, <2>7, <3>1 DEF IsTold
    <2>8. ASSUME NEW n \in A!Needs, \A m \in A!Needs : m <= n PROVE ex.state = Keys(n)[1]
        <3>1. n \in 1..last /\ A!Needs \subseteq 1..last
            BY <2>3 DEF A!Needs
        <3>2. AllAsked(n)
            <4>1. ASSUME NEW k \in KeySet(n) PROVE ~A!Defaulted(k)
                <5> SUFFICES ASSUME A!Defaulted(k) PROVE FALSE
                    OBVIOUS
                <5>1. PICK m \in DOMAIN handler.steps : Keys(m) = <<k>> /\ Step(m).default
                    BY DEF A!Defaulted, Keys, Step
                <5>2. k \in KeySet(m)
                    <6>1. 1 \in DOMAIN Keys(m) /\ Keys(m)[1] = k
                        BY <5>1
                    <6> QED
                        BY <6>1 DEF KeySet, Elements
                <5>3. m = n
                    BY <2>3, <3>1, <5>2 DEF Plain
                <5>4. ~Step(n).default
                    BY <2>3, <3>1 DEF Plain, A!Needs, Step
                <5> QED
                    BY <5>1, <5>3, <5>4
            <4> QED
                BY <2>4, <3>1, <4>1 DEF IsTold, AllAsked
        <3>3. ASSUME NEW m \in A!Needs PROVE ~(n < m)
            <4>1. m <= n /\ m \in Nat /\ n \in Nat
                BY <2>3, <2>8, <3>1
            <4> QED
                BY <4>1
        <3> QED
            BY <1>2, <3>2, <3>3 DEF StateIsLast, Leaves
    <2> QED
        BY <2>1, <2>6, <2>7, <2>8
<1>14. EndsSettled'
    <2>1. kind = "still asking" => Len(asked) >= IF A!asks_on_the_stream THEN PUSH_ASK_ROUNDS ELSE ASK_ROUNDS
        <3> SUFFICES ASSUME kind = "still asking" PROVE A!asks_on_the_stream /\ Len(asked) >= PUSH_ASK_ROUNDS
            OBVIOUS
        <3>1. ex.restarts \in Nat /\ ex.restarts <= Len(asked)
            BY <1>2 DEF AskTypes, RoundsAsk
        <3>2. Len(asked) \in Nat /\ PUSH_ASK_ROUNDS \in Nat
            <4>1. asked \in Seq(Elements(asked))
                BY <1>2 DEF AskTypes
            <4> QED
                BY <4>1, LenProperties, AskingConstants
        <3>3. A!asks_on_the_stream
            BY DEF Justified
        <3>4. ex.restarts >= PUSH_ASK_ROUNDS
            BY DEF Justified
        <3>5. Len(asked) >= PUSH_ASK_ROUNDS
            BY <3>1, <3>2, <3>4, AsManyAndMore
        <3> QED
            BY <3>3, <3>5
    <2>2. kind = "cannot ask" => asked = <<>> /\ ~me.declared
        BY <1>2 DEF Recalls, A!can_ask, Justified
    <2>3. kind = "cannot ask" => asked' = <<>> /\ ~me'.declared /\ \E k \in A!Questions' : ~A!Defaulted(k)'
        BY <1>1, <2>2 DEF AskedStays, HandlerStays, Justified
    <2>4. kind = "still asking" => Len(asked') >= IF A!asks_on_the_stream' THEN PUSH_ASK_ROUNDS ELSE ASK_ROUNDS
        BY <1>1, <2>1 DEF AskedStays, HandlerStays
    <2>5. reply'.kind = kind /\ reply'.got = ex.got /\ reply'.saw = ex.state
        BY <1>3
    <2>6. kind = "result" =>
              /\ reply'.got = [n \in DOMAIN handler'.steps |-> [i \in DOMAIN Keys(n)' |-> A!Settled(Keys(n)[i])']]
              /\ \A k \in A!Questions' : ~A!Asked(k)' => A!Defaulted(k)' /\ ~A!can_ask'
              /\ \A n \in A!Needs' : (\A m \in A!Needs' : m <= n) => reply'.saw = Keys(n)'[1]
        <3>1. [n \in DOMAIN handler'.steps |-> [i \in DOMAIN Keys(n)' |-> A!Settled(Keys(n)[i])']]
                = [n \in DOMAIN handler.steps |-> [i \in DOMAIN Keys(n) |-> A!Settled(Keys(n)[i])]]
            BY <1>1 DEF AskedStays, HandlerStays, Keys
        <3> QED
            BY <1>1, <1>13, <2>5, <3>1 DEF AskedStays, HandlerStays
    <2> QED
        BY <2>3, <2>4, <2>5, <2>6 DEF EndsSettled
<1> QED
    BY <1>4, <1>5, <1>6, <1>7, <1>8, <1>9, <1>11, <1>12, <1>14 DEF AskInvariants

-----------------------------------------------------------------------------
(* The actions of the handler. *)

\* What answers tell, and what a default does.
LEMMA RecalledIsTold ==
    ASSUME AskInvariants, Plain, NEW n \in DOMAIN handler.steps, ~Open(n)
    PROVE  IsTold(n, A!Recalled(Keys(n)))
<1>1. PICK ks : ks = Keys(n)
    OBVIOUS
<1>2. Knows(ex.answers)
    BY DEF AskInvariants, Recalls
<1>3. \A i \in DOMAIN ks : ks[i] \in KeySet(n)
    BY <1>1 DEF KeySet, Elements
<1>4. \A k \in KeySet(n) : A!Asked(k) /\ ex.answers[k] = A!VerdictOf(k)
    BY <1>2 DEF Open, Knows
<1>5. \A i \in DOMAIN ks : <<ks[i], ex.answers[ks[i]]>> = A!Settled(ks[i])
    BY <1>3, <1>4 DEF A!Settled
<1>6. A!Recalled(ks) = [i \in DOMAIN ks |-> <<ks[i], ex.answers[ks[i]]>>]
    BY DEF A!Recalled
<1>7. A!Recalled(ks) = [i \in DOMAIN ks |-> A!Settled(ks[i])]
    BY <1>5, <1>6
<1> QED
    BY <1>1, <1>4, <1>7 DEF IsTold

\* A question is one key, and a default nobody is asked for is told as such.
LEMMA OneKey ==
    ASSUME Plain, NEW n \in DOMAIN handler.steps, Step(n).does = "ask"
    PROVE  \E k : /\ Keys(n) = <<k>> /\ KeySet(n) = {k} /\ Keys(n)[1] = k
                  /\ Open(n) <=> k \notin DOMAIN ex.answers
                  /\ A!Defaulted(k) <=> Step(n).default
<1>1. PICK ks : ks = Keys(n)
    OBVIOUS
<1>2. Len(ks) = 1 /\ ks = [i \in 1..Len(ks) |-> ks[i]]
    BY <1>1 DEF Plain
<1>3. PICK k : k = ks[1]
    OBVIOUS
<1>4. ks = <<k>>
    BY <1>2, <1>3
<1>5. KeySet(n) = {k}
    BY <1>1, <1>4 DEF KeySet, Elements
<1>6. A!Defaulted(k) <=> Step(n).default
    <2>1. Step(n).default => A!Defaulted(k)
        BY <1>1, <1>4 DEF A!Defaulted, Keys, Step
    <2>2. ASSUME A!Defaulted(k) PROVE Step(n).default
        <3>1. PICK m \in DOMAIN handler.steps : Keys(m) = <<k>> /\ Step(m).default
            BY <2>2 DEF A!Defaulted, Keys, Step
        <3>2. 1 \in DOMAIN Keys(m) /\ Keys(m)[1] = k
            BY <3>1
        <3>3. k \in KeySet(m)
            BY <3>2 DEF KeySet, Elements
        <3>4. m = n
            BY <1>5, <3>3 DEF Plain
        <3> QED
            BY <3>1, <3>4
    <2> QED
        BY <2>1, <2>2
<1> QED
    BY <1>1, <1>3, <1>4, <1>5, <1>6 DEF Open

LEMMA ResolveKeeps ==
    ASSUME AskInvariants, Plain, stage = "handling", ex.pos \in DOMAIN handler.steps, Open(ex.pos),
           Step(ex.pos).does \in {"ask", "need"}, NEW saved, A!resolve_need_input(Keys(ex.pos), saved),
           Step(ex.pos).does = "ask" => ~A!asks_on_the_stream /\ (~A!can_ask => ~Step(ex.pos).default),
           Step(ex.pos).does = "need" => saved = Keys(ex.pos)[1],
           UNCHANGED <<me, handler, answers, state, rounds, asked>>
    PROVE  AskInvariants'
<1>1. PICK n : n = ex.pos
    OBVIOUS
<1>2. PICK ks : ks = Keys(n)
    OBVIOUS
<1>3. A!can_ask => Pending(ks) /\ Done(ks) = 0
    BY <1>1, <1>2, OpenIsPending
<1>4. Len(ks) > 0 /\ ks # <<>> /\ ks[1] \in KeySet(n)
    <2>1. /\ Len(ks) \in Nat /\ DOMAIN ks = 1..Len(ks) /\ n \in DOMAIN handler.steps
          /\ KeySet(n) = {ks[i] : i \in DOMAIN ks}
        BY <1>1, <1>2 DEF Plain, KeySet, Elements
    <2>2. Len(ks) # 0
        BY <1>1, <1>2, <2>1 DEF Open
    <2> QED
        BY <2>1, <2>2
<1>5. n \in A!Needs <=> Step(n).does = "need"
    BY <1>1 DEF A!Needs, Step
<1>6. CASE A!asks_on_the_stream /\ ex.restarts < PUSH_ASK_ROUNDS
    <2>1. A!can_ask
        BY <1>6 DEF A!asks_on_the_stream
    <2>2. A!Push(ks, <<saved>>)
        BY <1>1, <1>2, <1>6 DEF A!resolve_need_input
    <2>3. Step(n).does = "need"
        BY <1>1, <1>6
    <2>4. <<saved>> # <<>> /\ <<saved>>[1] = saved
        OBVIOUS
    <2> QED
        BY <1>1, <1>2, <1>3, <1>4, <1>5, <1>6, <2>1, <2>2, <2>3, <2>4, PushKeeps
<1>7. CASE A!asks_on_the_stream /\ ~(ex.restarts < PUSH_ASK_ROUNDS)
    <2>1. A!Answer("still asking", <<>>, None)
        BY <1>7 DEF A!resolve_need_input
    <2>2. ex.restarts \in Nat /\ PUSH_ASK_ROUNDS \in Nat
        BY AskingConstants DEF AskInvariants, AskTypes
    <2>3. ~(ex.restarts < PUSH_ASK_ROUNDS)
        BY <1>7
    <2>4. ex.restarts >= PUSH_ASK_ROUNDS
        BY <2>2, <2>3
    <2>5. Justified("still asking", <<>>, None)
        BY <1>7, <2>4 DEF Justified
    <2> QED
        BY <2>1, <2>5, AnswerKeeps
<1>8. CASE ~A!asks_on_the_stream /\ A!can_ask
    <2>1. A!Answer("input_required", ks, saved)
        BY <1>1, <1>2, <1>8 DEF A!resolve_need_input
    <2>2. n \in A!Needs => saved = ks[1]
        BY <1>1, <1>2, <1>5
    <2>3. Justified("input_required", ks, saved)
        BY <1>1, <1>2, <1>3, <1>4, <1>8, <2>2 DEF Justified
    <2> QED
        BY <2>1, <2>3, AnswerKeeps
<1>9. CASE ~A!asks_on_the_stream /\ ~A!can_ask
    <2>1. A!Answer("cannot ask", <<>>, None)
        BY <1>9 DEF A!resolve_need_input
    <2>2. \E k \in A!Questions : ~A!Defaulted(k)
        <3>1. KeySet(n) \subseteq A!Questions /\ n \in DOMAIN handler.steps
            BY <1>1 DEF Plain
        <3>2. CASE Step(n).does = "ask"
            <4>1. PICK k : KeySet(n) = {k} /\ (A!Defaulted(k) <=> Step(n).default)
                BY <3>1, <3>2, OneKey
            <4>2. ~Step(n).default
                BY <1>1, <1>9, <3>2
            <4> QED
                BY <3>1, <4>1, <4>2
        <3>3. CASE Step(n).does = "need"
            <4>1. ASSUME A!Defaulted(ks[1]) PROVE FALSE
                <5>1. PICK m \in DOMAIN handler.steps : Keys(m) = <<ks[1]>> /\ Step(m).default
                    BY <4>1 DEF A!Defaulted, Keys, Step
                <5>2. 1 \in DOMAIN Keys(m) /\ Keys(m)[1] = ks[1]
                    BY <5>1
                <5>3. ks[1] \in KeySet(m)
                    BY <5>2 DEF KeySet, Elements
                <5>4. m = n
                    BY <1>4, <3>1, <5>3 DEF Plain
                <5>5. ~Step(n).default
                    BY <3>1, <3>3 DEF Plain
                <5> QED
                    BY <5>1, <5>4, <5>5
            <4> QED
                BY <1>4, <3>1, <4>1
        <3> QED
            BY <1>1, <3>2, <3>3
    <2>3. Justified("cannot ask", <<>>, None)
        BY <1>9, <2>2 DEF Justified
    <2> QED
        BY <2>1, <2>3, AnswerKeeps
<1> QED
    BY <1>6, <1>7, <1>8, <1>9

\* No step is told that has a key to ask.
LEMMA NothingToTell ==
    ASSUME Plain, NEW n \in DOMAIN handler.steps, Step(n).does \notin {"ask", "need"}
    PROVE  IsTold(n, <<>>)
<1>1. PICK ks : ks = Keys(n)
    OBVIOUS
<1>2. Len(ks) = 0 /\ ks = [i \in 1..Len(ks) |-> ks[i]]
    BY <1>1 DEF Plain
<1>3. ks = <<>> /\ DOMAIN ks = {}
    BY <1>2
<1>4. KeySet(n) = {}
    BY <1>1, <1>3 DEF KeySet, Elements
<1>5. <<>> = [i \in DOMAIN ks |-> A!Settled(ks[i])]
    BY <1>3
<1> QED
    BY <1>1, <1>4, <1>5 DEF IsTold

LEMMA AskKeeps ==
    ASSUME AskInvariants, Plain, A!ask, UNCHANGED <<me, handler, answers, state, rounds, asked>>
    PROVE  AskInvariants'
<1>1. PICK n : n = ex.pos
    OBVIOUS
<1>2. n \in DOMAIN handler.steps /\ stage = "handling" /\ Step(n).does = "ask"
    <2>1. A!At("ask") /\ ex.pos \in Nat /\ ex.pos >= 1
        <3>1. ex.got \in Seq(Elements(ex.got)) /\ ex.pos = Len(ex.got) + 1
            BY DEF AskInvariants, AskTypes
        <3>2. Len(ex.got) \in Nat
            BY <3>1, LenProperties
        <3> QED
            BY <3>1, <3>2 DEF A!ask
    <2> QED
        BY <1>1, <2>1 DEF A!At, Plain, Step
<1>3. PICK k : /\ Keys(n) = <<k>> /\ KeySet(n) = {k} /\ Keys(n)[1] = k
               /\ Open(n) <=> k \notin DOMAIN ex.answers
               /\ A!Defaulted(k) <=> Step(n).default
    BY <1>2, OneKey
<1>4. A!Step = Step(n) /\ A!Step.keys[1] = k
    BY <1>1, <1>3 DEF A!Step, Step, Keys
<1>5. CASE k \in DOMAIN ex.answers /\ A!Told(A!Recalled(<<k>>))
    <2>1. IsTold(n, A!Recalled(<<k>>))
        BY <1>2, <1>3, <1>5, RecalledIsTold
    <2> QED
        BY <1>1, <1>2, <1>5, <2>1, ToldKeeps
<1>6. CASE k \notin DOMAIN ex.answers /\ A!asks_on_the_stream /\ A!Push(<<k>>, <<>>)
    <2>1. A!can_ask
        BY <1>6 DEF A!asks_on_the_stream
    <2>2. Pending(<<k>>)
        BY <1>1, <1>2, <1>3, <1>6, <2>1, OpenIsPending
    <2>3. A!Needs = {} /\ Len(Keys(n)) = 1
        BY <1>2 DEF Plain
    <2> QED
        BY <1>1, <1>2, <1>6, <2>2, <2>3, PushKeeps
<1>7. CASE k \notin DOMAIN ex.answers /\ ~A!can_ask /\ Step(n).default /\ A!Told(<< <<k, "default">> >>)
    <2>1. asked = <<>>
        BY <1>7 DEF AskInvariants, Recalls
    <2>2. ~A!Asked(k)
        BY <2>1 DEF A!Asked
    <2>3. A!Settled(k) = <<k, "default">>
        BY <2>2 DEF A!Settled
    <2>4. << <<k, "default">> >> = [i \in DOMAIN <<k>> |-> A!Settled(<<k>>[i])]
        BY <2>3
    <2>5. IsTold(n, << <<k, "default">> >>)
        BY <1>3, <1>7, <2>4 DEF IsTold
    <2> QED
        BY <1>1, <1>2, <1>7, <2>5, ToldKeeps
<1>8. CASE /\ k \notin DOMAIN ex.answers /\ ~A!asks_on_the_stream
           /\ ~Step(n).default \/ A!can_ask
           /\ A!resolve_need_input(<<k>>, None)
    BY <1>1, <1>2, <1>3, <1>8, ResolveKeeps
<1> QED
    BY <1>4, <1>5, <1>6, <1>7, <1>8 DEF A!ask, A!answered

LEMMA NeedKeeps ==
    ASSUME AskInvariants, Plain, A!NeedInput, UNCHANGED <<me, handler, answers, state, rounds, asked>>
    PROVE  AskInvariants'
<1>1. PICK n : n = ex.pos
    OBVIOUS
<1>2. n \in DOMAIN handler.steps /\ stage = "handling" /\ Step(n).does = "need"
    <2>1. A!At("need") /\ ex.pos \in Nat /\ ex.pos >= 1
        <3>1. ex.got \in Seq(Elements(ex.got)) /\ ex.pos = Len(ex.got) + 1
            BY DEF AskInvariants, AskTypes
        <3>2. Len(ex.got) \in Nat
            BY <3>1, LenProperties
        <3> QED
            BY <3>1, <3>2 DEF A!NeedInput
    <2> QED
        BY <1>1, <2>1 DEF A!At, Plain, Step
<1>3. A!Step = Step(n) /\ A!Step.keys = Keys(n)
    BY <1>1 DEF A!Step, Step, Keys
<1>4. (\A i \in DOMAIN Keys(n) : Keys(n)[i] \in DOMAIN ex.answers) <=> ~Open(n)
    BY DEF Open, KeySet, Elements
<1>5. CASE ~Open(n) /\ A!Told(A!Recalled(Keys(n)))
    BY <1>1, <1>2, <1>5, RecalledIsTold, ToldKeeps
<1>6. CASE Open(n) /\ A!resolve_need_input(Keys(n), Keys(n)[1])
    BY <1>1, <1>2, <1>6, ResolveKeeps
<1> QED
    BY <1>3, <1>4, <1>5, <1>6 DEF A!NeedInput, A!answered

LEMMA OtherStepsKeep ==
    ASSUME AskInvariants, Plain, A!log \/ A!fail \/ A!Return, UNCHANGED <<me, handler, answers, state, rounds, asked>>
    PROVE  AskInvariants'
<1>1. ex.pos \in Nat /\ ex.pos >= 1
    <2>1. ex.got \in Seq(Elements(ex.got)) /\ ex.pos = Len(ex.got) + 1
        BY DEF AskInvariants, AskTypes
    <2>2. Len(ex.got) \in Nat
        BY <2>1, LenProperties
    <2> QED
        BY <2>1, <2>2
<1>2. ASSUME A!Fails, stage = "handling" PROVE AskInvariants'
    <2>1. PICK kind : A!Answer(kind, <<>>, None) /\ kind \in {"failed result", "internal error", None}
        BY <1>2 DEF A!Fails
    <2>2. kind \notin {"result", "still asking", "cannot ask", "input_required"}
        BY <2>1, AskingConstants
    <2>3. Justified(kind, <<>>, None)
        BY <2>2 DEF Justified
    <2> QED
        BY <1>2, <2>1, <2>3, AnswerKeeps
<1>3. CASE A!fail
    BY <1>2, <1>3 DEF A!fail, A!At
<1>4. CASE A!log
    <2>1. stage = "handling" /\ ex.pos \in DOMAIN handler.steps /\ Step(ex.pos).does = "log"
        BY <1>1, <1>4 DEF A!log, A!At, Plain, Step
    <2>2. IsTold(ex.pos, <<>>)
        BY <2>1, NothingToTell
    <2>3. CASE A!Told(<<>>)
        BY <2>1, <2>2, <2>3, ToldKeeps
    <2>4. CASE A!Fails
        BY <1>2, <2>1, <2>4
    <2> QED
        BY <1>4, <2>3, <2>4 DEF A!log
<1>5. CASE A!Return
    <2>1. stage = "handling" /\ ex.pos > Len(handler.steps) /\ A!Answer("result", <<>>, None)
        BY <1>5 DEF A!Return
    <2>2. Justified("result", <<>>, None)
        BY <2>1 DEF Justified
    <2> QED
        BY <2>1, <2>2, AnswerKeeps
<1> QED
    BY <1>3, <1>4, <1>5

LEMMA HandleKeeps == ASSUME AskInvariants, Plain, A!Handle PROVE AskInvariants'
    BY AskKeeps, NeedKeeps, OtherStepsKeep DEF A!Handle

-----------------------------------------------------------------------------
(* The actions of the client that ask nobody. *)

LEMMA CallKeeps == ASSUME AskInvariants, Plain, A!call_tool PROVE AskInvariants'
<1>1. AskedStays
    BY NobodyIsAsked DEF A!call_tool
<1>2. AskTypes /\ AskedOnce /\ Recalls /\ Phases /\ Together /\ InTurn /\ StateIsLast /\ RoundsAsk
    BY DEF AskInvariants
<1>3. /\ stage = "calling" /\ stage' = "handling" /\ reply' = A!NoReply /\ rounds' = rounds + 1
      /\ answers' = answers /\ state' = state
      /\ ex'.got = <<>> /\ ex'.pos = 1 /\ ex'.restarts = 0
      /\ ex'.answers = (IF A!Carried THEN answers ELSE <<>>) /\ ex'.state = (IF A!Carried THEN state ELSE None)
      /\ ex' = [answers |-> ex'.answers, state |-> ex'.state, sse |-> ex'.sse, got |-> ex'.got, pos |-> ex'.pos,
                pending |-> ex'.pending, next |-> ex'.next, restarts |-> ex'.restarts, dep |-> ex'.dep]
    BY DEF A!call_tool, A!NoExchange
<1>4. AskTypes'
    <2>1. <<>> \in Seq(Elements(<<>>)) /\ Len(<<>>) = 0
        BY EmptySeq
    <2>2. 1 <= Len(handler.steps) + 1 /\ rounds + 1 \in Nat
        BY <1>2 DEF Plain, AskTypes
    <2>3. ex'.got \in Seq(Elements(ex'.got)) /\ ex'.pos = Len(ex'.got) + 1
        BY <1>3, <2>1
    <2>4. reply' = [kind |-> reply'.kind, keys |-> reply'.keys, state |-> reply'.state, got |-> reply'.got,
                    saw |-> reply'.saw]
        BY <1>3 DEF A!NoReply
    <2> QED
        BY <1>1, <1>2, <1>3, <2>2, <2>3, <2>4 DEF AskTypes, AskedStays, HandlerStays
<1>5. AskedOnce' /\ InTurn'
    BY <1>1, <1>2 DEF AskedStays
<1>6. asked # <<>> => A!Carried /\ \A n \in DOMAIN asked : asked[n][1] \in DOMAIN answers
    <2> SUFFICES ASSUME asked # <<>> PROVE A!Carried /\ \A n \in DOMAIN asked : asked[n][1] \in DOMAIN answers
        OBVIOUS
    <2>1. A!can_ask /\ ~A!asks_on_the_stream
        BY <1>2, <1>3 DEF Recalls
    <2>2. handler.operation = "call_tool" /\ \A n \in DOMAIN asked : asked[n][1] \in DOMAIN answers
        BY <1>2, <2>1 DEF Recalls
    <2>3. me.revision \in 1..5 /\ (me.revision \in {1, 2} \/ me.revision = 5)
        <3>1. me \in A!Clients
            BY <1>2 DEF AskTypes
        <3>2. me.revision \in 1..5
            <4>1. \/ me \in [revision : 1..5, on_ask : BOOLEAN, declared : BOOLEAN, log_level : BOOLEAN]
                  \/ me \in [revision : {5}, on_ask : {FALSE}, declared : {FALSE}, log_level : {FALSE}]
                BY <3>1 DEF A!Clients, A!Revision
            <4>2. me \in [revision : 1..5, on_ask : BOOLEAN, declared : BOOLEAN, log_level : BOOLEAN]
                    => me.revision \in 1..5
                OBVIOUS
            <4>3. me \in [revision : {5}, on_ask : {FALSE}, declared : {FALSE}, log_level : {FALSE}]
                    => me.revision = 5
                OBVIOUS
            <4>4. 5 \in 1..5
                OBVIOUS
            <4> QED
                BY <4>1, <4>2, <4>3, <4>4
        <3>3. me.revision \notin {3, 4}
            BY <2>1 DEF A!asks_on_the_stream, A!can_push_ask
        <3> QED
            BY <3>2, <3>3
    <2> QED
        BY <2>2, <2>3 DEF A!Carried, A!asks_in_arguments
<1>7. Recalls'
    <2>1. Knows(<<>>)
        BY DEF Knows
    <2>2. Knows(ex'.answers)
        BY <1>2, <1>3, <2>1 DEF Recalls
    <2>3. PICK given : given = ex'.answers
        OBVIOUS
    <2>4. \A k \in DOMAIN given : A!Asked(k)' /\ given[k] = A!VerdictOf(k)'
        BY <1>1, <2>2, <2>3 DEF AskedStays
    <2>5. Knows(ex.answers)'
        BY <2>3, <2>4 DEF Knows
    <2>6. Knows(answers)'
        BY <1>1, <1>2, <1>3 DEF Recalls, Knows, AskedStays
    <2>7. \A n \in DOMAIN asked : asked[n][1] \in DOMAIN ex'.answers
        <3>1. CASE asked = <<>>
            BY <3>1
        <3>2. CASE asked # <<>>
            BY <1>3, <1>6, <3>2
        <3> QED
            BY <3>1, <3>2
    <2>8. \A n \in DOMAIN asked' : Covered(asked[n][1])'
        BY <1>1, <2>7 DEF Covered, AskedStays
    <2> QED
        BY <1>1, <1>2, <1>3, <2>5, <2>6, <2>8 DEF Recalls, AskedStays, HandlerStays
<1>8. Phases' /\ InHand' /\ EndsSettled'
    <2>1. None # "input_required"
        BY AskingConstants
    <2> QED
        BY <1>3, <2>1 DEF Phases, InHand, EndsSettled, A!NoReply
<1>9. ToldSoFar'
    <2>1. 1..Len(ex'.got) = {}
        BY <1>3
    <2> QED
        BY <2>1 DEF ToldSoFar
<1>10. Together'
    BY <1>1, <1>2, <1>3 DEF Together, AskedStays, HandlerStays
<1>11. StateIsLast'
    <2>1. CASE asked = <<>>
        <3>1. ASSUME NEW n \in A!Needs PROVE ~AllAsked(n)
            <4>1. n \in DOMAIN handler.steps /\ Step(n).does = "need"
                BY DEF A!Needs, Step
            <4>2. Len(Keys(n)) > 0 /\ Len(Keys(n)) \in Nat /\ DOMAIN Keys(n) = 1..Len(Keys(n))
                BY <4>1 DEF Plain
            <4>3. 1 \in DOMAIN Keys(n)
                BY <4>2
            <4>4. Keys(n)[1] \in KeySet(n) /\ ~A!Asked(Keys(n)[1])
                BY <2>1, <4>3 DEF KeySet, Elements, A!Asked
            <4> QED
                BY <4>4 DEF AllAsked
        <3> QED
            BY <1>1, <1>3, <3>1 DEF StateIsLast, Leaves, AskedStays, HandlerStays
    <2>2. CASE asked # <<>>
        <3>1. Leaves(state)
            BY <1>2, <1>3 DEF StateIsLast
        <3>2. ex'.state = state
            BY <1>3, <1>6, <2>2
        <3> QED
            BY <1>1, <1>3, <3>1, <3>2 DEF StateIsLast, Leaves, AskedStays, HandlerStays
    <2> QED
        BY <2>1, <2>2
<1>12. RoundsAsk'
    <2>1. Len(asked) \in Nat /\ rounds \in Nat /\ rounds <= Len(asked)
        <3>1. asked \in Seq(Elements(asked)) /\ rounds \in Nat /\ rounds <= Len(asked)
            BY <1>2, <1>3 DEF AskTypes, RoundsAsk
        <3> QED
            BY <3>1, LenProperties
    <2>2. rounds + 1 <= Len(asked) + 1 /\ 0 <= Len(asked)
        BY <2>1
    <2>3. Len(asked') = Len(asked)
        BY <1>1 DEF AskedStays
    <2> QED
        BY <1>3, <2>2, <2>3 DEF RoundsAsk
<1> QED
    BY <1>4, <1>5, <1>7, <1>8, <1>9, <1>10, <1>11, <1>12 DEF AskInvariants

\* Nothing changes but the stage: what is received is acted on or the end.
LEMMA RestKeeps ==
    ASSUME AskInvariants,
           \/ stage' = stage /\ rounds' = rounds
           \/ stage = "replied" /\ stage' \in {"answering", "ended"} /\ rounds' = rounds
           \/ stage = "ended" /\ stage' = "answering" /\ rounds' = 0,
           stage # stage' /\ stage' = "answering" => reply.kind = "input_required" /\ handler.operation = "call_tool",
           UNCHANGED <<me, handler, answers, state, ex, asked, reply>>
    PROVE  AskInvariants'
<1>1. AskedStays
    BY NobodyIsAsked
<1>2. /\ AskTypes /\ AskedOnce /\ Recalls /\ Phases /\ ToldSoFar /\ Together /\ InTurn /\ InHand
      /\ StateIsLast /\ RoundsAsk /\ EndsSettled
    BY DEF AskInvariants
<1>3. ex' = ex /\ reply' = reply /\ answers' = answers /\ state' = state
    OBVIOUS
<1>4. AskTypes'
    BY <1>1, <1>2 DEF AskTypes, AskedStays, HandlerStays
<1>5. AskedOnce' /\ InTurn'
    BY <1>1, <1>2 DEF AskedStays
<1>6. Recalls'
    <2>1. Knows(answers)' /\ Knows(ex.answers)'
        BY <1>1, <1>2, <1>3 DEF Recalls, Knows, AskedStays
    <2>2. \A k : Covered(k) => Covered(k)'
        BY <1>1, <1>3 DEF Covered, AskedStays, HandlerStays
    <2>3. stage' \in {"calling", "handling", "asking"} => stage = stage'
        OBVIOUS
    <2> QED
        BY <1>1, <1>2, <2>1, <2>2, <2>3 DEF Recalls, AskedStays, HandlerStays
<1>7. Phases'
    BY <1>1, <1>2, <1>3 DEF Phases, AskedStays, HandlerStays
<1>8. ToldSoFar'
    <2>1. PICK got : got = ex.got
        OBVIOUS
    <2>2. stage' \in {"handling", "asking"} => \A n \in 1..Len(got) : IsTold(n, got[n])'
        BY <1>1, <1>2, <2>1 DEF ToldSoFar, AskedStays
    <2>3. ex'.got = got
        BY <1>3, <2>1
    <2> QED
        BY <2>2, <2>3 DEF ToldSoFar
<1>9. Together'
    BY <1>1, <1>2, <1>3 DEF Together, AskedStays, HandlerStays
<1>10. \A keys : (Pending(keys) <=> Pending(keys)') /\ Done(keys)' = Done(keys)
    BY <1>1, <1>3 DEF Pending, Done, AskedStays, HandlerStays
<1>11. InHand'
    BY <1>1, <1>2, <1>3, <1>10 DEF InHand, AskedStays, HandlerStays
<1>12. StateIsLast'
    BY <1>1, <1>2, <1>3 DEF StateIsLast, Leaves, AskedStays, HandlerStays
<1>13. Len(asked) \in Nat /\ rounds \in Nat
    <2>1. asked \in Seq(Elements(asked)) /\ rounds \in Nat
        BY <1>2 DEF AskTypes
    <2> QED
        BY <2>1, LenProperties
<1>14. RoundsAsk'
    <2>1. CASE stage' = stage /\ rounds' = rounds
        BY <1>1, <1>2, <1>3, <1>10, <2>1 DEF RoundsAsk, AskedStays, HandlerStays
    <2>2. CASE stage' = "answering" /\ rounds' = 0
        BY <1>1, <1>13, <2>2 DEF RoundsAsk, AskedStays
    <2>3. CASE stage' = "ended" /\ stage # stage'
        BY <2>3 DEF RoundsAsk
    <2>4. CASE stage = "replied" /\ stage' = "answering" /\ rounds' = rounds
        <3>1. reply.kind = "input_required"
            BY <2>4
        <3>2. ~A!asks_on_the_stream /\ Done(reply.keys) = 0
            BY <1>2, <2>4, <3>1 DEF Phases, InHand
        <3>3. rounds <= Len(asked) + 1
            BY <1>2, <2>4, <3>2 DEF RoundsAsk
        <3>4. Done(reply.keys)' = 0
            BY <1>3, <1>10, <3>2
        <3> QED
            BY <1>1, <2>4, <3>3, <3>4 DEF RoundsAsk, AskedStays
    <2> QED
        BY <2>1, <2>2, <2>3, <2>4
<1>15. EndsSettled'
    <2>1. CASE stage' \in {"replied", "ended"}
        <3>1. stage \in {"replied", "ended"}
            BY <2>1
        <3>2. /\ reply.kind = "result" =>
                  /\ reply.got = [n \in DOMAIN handler.steps |-> [i \in DOMAIN Keys(n) |-> A!Settled(Keys(n)[i])]]
                  /\ \A k \in A!Questions : ~A!Asked(k) => A!Defaulted(k) /\ ~A!can_ask
                  /\ \A n \in A!Needs : (\A m \in A!Needs : m <= n) => reply.saw = Keys(n)[1]
              /\ reply.kind = "still asking" =>
                    Len(asked) >= IF A!asks_on_the_stream THEN PUSH_ASK_ROUNDS ELSE ASK_ROUNDS
              /\ reply.kind = "cannot ask" =>
                    asked = <<>> /\ ~me.declared /\ \E k \in A!Questions : ~A!Defaulted(k)
            BY <1>2, <3>1 DEF EndsSettled
        <3>3. [n \in DOMAIN handler'.steps |-> [i \in DOMAIN Keys(n)' |-> A!Settled(Keys(n)[i])']]
                = [n \in DOMAIN handler.steps |-> [i \in DOMAIN Keys(n) |-> A!Settled(Keys(n)[i])]]
            BY <1>1 DEF AskedStays, HandlerStays, Keys
        <3> QED
            BY <1>1, <1>3, <3>2, <3>3 DEF EndsSettled, AskedStays, HandlerStays
    <2> QED
        BY <2>1 DEF EndsSettled
<1> QED
    BY <1>4, <1>5, <1>6, <1>7, <1>8, <1>9, <1>11, <1>12, <1>14, <1>15 DEF AskInvariants

LEMMA ReceiveKeeps == ASSUME AskInvariants, A!Receive PROVE AskInvariants'
    BY RestKeeps DEF A!Receive

LEMMA ByHandKeeps == ASSUME AskInvariants, A!ByHand PROVE AskInvariants'
    BY RestKeeps DEF A!ByHand, A!Ended

\* All the keys were answered: the next round, or no more.
Round ==
    IF rounds < ASK_ROUNDS THEN stage' = "calling" /\ reply' = reply
    ELSE stage' = "ended" /\ reply' = [reply EXCEPT !.kind = "still asking"]

LEMMA RoundKeeps ==
    ASSUME AskInvariants, Plain, stage = "answering", reply.keys = <<>>, state' = reply.state, Round,
           UNCHANGED <<answers, asked>>, UNCHANGED <<me, handler, rounds, ex>>
    PROVE  AskInvariants'
<1>1. AskedStays
    BY NobodyIsAsked
<1>2. /\ AskTypes /\ AskedOnce /\ Recalls /\ Phases /\ ToldSoFar /\ Together /\ InTurn /\ InHand
      /\ StateIsLast /\ RoundsAsk /\ EndsSettled
    BY DEF AskInvariants
<1>3. /\ ex' = ex /\ answers' = answers /\ rounds' = rounds /\ stage' \in {"calling", "ended"}
      /\ reply' = [kind |-> reply'.kind, keys |-> reply'.keys, state |-> reply'.state, got |-> reply'.got,
                   saw |-> reply'.saw]
      /\ stage' = "ended" => reply'.kind = "still asking" /\ ~(rounds < ASK_ROUNDS)
      /\ reply'.kind \in {reply.kind, "still asking"}
    BY <1>2 DEF AskTypes, Round
<1>4. AskTypes'
    BY <1>1, <1>2, <1>3 DEF AskTypes, AskedStays, HandlerStays
<1>5. AskedOnce' /\ InTurn'
    BY <1>1, <1>2 DEF AskedStays
<1>6. reply.kind = "input_required" /\ ~A!asks_on_the_stream /\ A!can_ask
    BY <1>2 DEF Phases
<1>7. Recalls'
    <2>1. Knows(answers)' /\ Knows(ex.answers)'
        BY <1>1, <1>2, <1>3 DEF Recalls, Knows, AskedStays
    <2> QED
        BY <1>1, <1>2, <1>3, <1>6, <2>1 DEF Recalls, AskedStays, HandlerStays
<1>8. Phases' /\ ToldSoFar'
    BY <1>1, <1>2, <1>3, <1>6 DEF Phases, ToldSoFar, AskedStays, HandlerStays
<1>9. PICK n, ks : n = ex.pos /\ ks = Keys(n)
    OBVIOUS
<1>10. /\ n \in DOMAIN handler.steps /\ Len(ks) \in Nat /\ Len(ks) > 0 /\ Done(reply.keys) = Len(ks)
       /\ A!Needs \subseteq Nat /\ n \in Nat /\ DOMAIN ks = 1..Len(ks) /\ KeySet(n) = {ks[i] : i \in DOMAIN ks}
       /\ AllAsked(n)
    <2>1. Pending(reply.keys) /\ ks # <<>>
        BY <1>2, <1>6, <1>9 DEF InHand
    <2>2. /\ n \in DOMAIN handler.steps /\ Len(ks) \in Nat /\ DOMAIN ks = 1..Len(ks) /\ n \in Nat
          /\ A!Needs \subseteq Nat /\ ks = [i \in 1..Len(ks) |-> ks[i]] /\ KeySet(n) = {ks[i] : i \in DOMAIN ks}
        BY <1>9, <2>1 DEF Pending, Plain, A!Needs, KeySet, Elements
    <2>3. Len(ks) # 0
        BY <2>1, <2>2
    <2>4. Done(reply.keys) = Len(ks)
        BY <1>9, <2>2 DEF Done
    <2>5. \A i \in 1..Len(ks) : A!Asked(ks[i])
        BY <1>9, <2>1, <2>2, <2>4 DEF Pending
    <2>6. AllAsked(n)
        BY <2>2, <2>5 DEF AllAsked
    <2> QED
        BY <2>2, <2>3, <2>4, <2>6
<1>11. Together'
    BY <1>1, <1>2, <1>3, <1>9, <1>10 DEF Together, AskedStays, HandlerStays
<1>12. InHand'
    BY <1>3 DEF InHand
<1>13. StateIsLast'
    <2>1. CASE n \in A!Needs
        <3>1. reply.state = ks[1]
            BY <1>2, <1>6, <1>9, <2>1 DEF InHand
        <3>2. \A m \in A!Needs : (m < n => AllAsked(m)) /\ (m > n => NoneAsked(m))
            BY <1>2, <1>6, <1>9 DEF InHand, Pending
        <3>3. ks[1] \in KeySet(n) /\ ~NoneAsked(n)
            <4>1. ks[1] \in KeySet(n)
                BY <1>10
            <4> QED
                BY <1>10, <4>1 DEF NoneAsked, AllAsked
        <3>4. ASSUME NEW m \in A!Needs, AllAsked(m), \A i \in A!Needs : m < i => NoneAsked(i)
              PROVE  m = n
            <4>1. m \in Nat /\ n \in Nat /\ ~(m < n)
                BY <1>10, <2>1, <3>3, <3>4
            <4>2. ~(m > n)
                <5>1. ASSUME NoneAsked(m) PROVE FALSE
                    <6>1. m \in DOMAIN handler.steps /\ Step(m).does = "need"
                        BY DEF A!Needs, Step
                    <6>2. Len(Keys(m)) > 0 /\ Len(Keys(m)) \in Nat /\ DOMAIN Keys(m) = 1..Len(Keys(m))
                        BY <6>1 DEF Plain
                    <6>3. 1 \in DOMAIN Keys(m)
                        BY <6>2
                    <6>4. Keys(m)[1] \in KeySet(m)
                        BY <6>3 DEF KeySet, Elements
                    <6> QED
                        BY <3>4, <5>1, <6>4 DEF AllAsked, NoneAsked
                <5> QED
                    BY <3>2, <5>1
            <4> QED
                BY <4>1, <4>2
        <3>5. Leaves(reply.state)
            BY <1>9, <3>1, <3>4 DEF Leaves
        <3>6. Leaves(state)'
            BY <1>1, <3>5 DEF Leaves, AskedStays, HandlerStays
        <3> QED
            BY <1>3, <3>6 DEF StateIsLast
    <2>2. CASE n \notin A!Needs
        <3>1. A!Needs = {}
            BY <1>9, <1>10, <2>2 DEF Plain, A!Needs, Step
        <3> QED
            BY <1>1, <1>3, <3>1 DEF StateIsLast, Leaves, AskedStays, HandlerStays
    <2> QED
        BY <2>1, <2>2
<1>14. rounds <= Len(asked) /\ rounds \in Nat /\ Len(asked) \in Nat
    <2>1. Done(reply.keys) > 0
        BY <1>10
    <2>2. rounds <= Len(asked)
        BY <1>2, <2>1 DEF RoundsAsk
    <2>3. asked \in Seq(Elements(asked)) /\ rounds \in Nat
        BY <1>2 DEF AskTypes
    <2> QED
        BY <2>2, <2>3, LenProperties
<1>15. RoundsAsk'
    BY <1>1, <1>3, <1>14 DEF RoundsAsk, AskedStays
<1>16. EndsSettled'
    <2>1. ASK_ROUNDS \in Nat
        BY AskingConstants
    <2>2. ~(rounds < ASK_ROUNDS) => Len(asked) >= ASK_ROUNDS
        BY <1>14, <2>1
    <2>3. stage' = "ended" => Len(asked') >= ASK_ROUNDS /\ ~A!asks_on_the_stream' /\ reply'.kind = "still asking"
        BY <1>1, <1>3, <1>6, <2>2 DEF AskedStays, HandlerStays
    <2>4. stage' # "replied"
        BY <1>3
    <2> QED
        BY <2>3, <2>4 DEF EndsSettled
<1> QED
    BY <1>4, <1>5, <1>7, <1>8, <1>11, <1>12, <1>13, <1>15, <1>16 DEF AskInvariants

-----------------------------------------------------------------------------
(* The actions that ask. *)

\* Of a step with this left to ask, the next key was asked.
AsksNext(rest, verdict) ==
    /\ Pending(rest) /\ rest # <<>> /\ A!can_ask
    /\ asked' = Append(asked, <<Head(rest), verdict>>) /\ UNCHANGED <<me, handler>>

LEMMA NextIsAsked ==
    ASSUME AskInvariants, Plain, NEW rest, NEW verdict, AsksNext(rest, verdict),
           NEW n, n = ex.pos, NEW ks, ks = Keys(n)
    PROVE  /\ Grows(Head(rest), verdict) /\ HandlerStays /\ AskedOnce' /\ InTurn'
           /\ asked' \in Seq(Elements(asked')) /\ Len(asked) \in Nat /\ asked' # <<>>
           /\ Head(rest) \in KeySet(n) /\ n \in DOMAIN handler.steps
           /\ \A i \in DOMAIN ks : A!Asked(ks[i])' <=> i <= Done(Tail(rest))
           /\ Tail(rest) = <<>> => AllAsked(n)'
           /\ \A m \in A!Needs :
                 /\ (m < n => AllAsked(m)') /\ (m > n => NoneAsked(m)')
                 /\ m # n => AllAsked(m)' \/ NoneAsked(m)'
<1>1. PICK key : key = Head(rest)
    OBVIOUS
<1>2. n = ex.pos /\ ks = Keys(n)
    OBVIOUS
<1>3. HandlerStays
    BY HandlerIsKept DEF AsksNext
<1>4. /\ key \in KeySet(n) /\ key \in A!Questions /\ ~A!Asked(key) /\ key = ks[Done(rest) + 1]
      /\ Done(rest) + 1 \in DOMAIN ks /\ Done(Tail(rest)) = Done(rest) + 1 /\ Len(Tail(rest)) = Len(rest) - 1
    BY <1>1, <1>2, NextKey DEF AsksNext
<1>5. asked \in Seq(Elements(asked)) /\ AskedOnce /\ InTurn
    BY DEF AskInvariants, AskTypes
<1>6. Grows(key, verdict) /\ AskedOnce' /\ asked' \in Seq(Elements(asked'))
    BY <1>1, <1>3, <1>4, <1>5, AskedGrows DEF AsksNext
<1>7. Len(asked) \in Nat
    BY <1>5, LenProperties
<1>8. asked' # <<>>
    <2>1. Len(asked') = Len(asked) + 1
        BY <1>6 DEF Grows
    <2>2. Len(<<>>) = 0
        BY EmptySeq
    <2> QED
        BY <1>7, <2>1, <2>2
<1>9. Pending(rest)
    BY DEF AsksNext
<1>10. InTurn' /\ \A m \in A!Needs : (m < n => AllAsked(m)') /\ (m > n => NoneAsked(m)')
    BY <1>1, <1>2, <1>3, <1>4, <1>5, <1>6, <1>9, TurnsStay
<1>11. /\ n \in DOMAIN handler.steps /\ n \in Nat /\ A!Needs \subseteq Nat
       /\ Len(ks) \in Nat /\ DOMAIN ks = 1..Len(ks) /\ KeySet(n) = {ks[i] : i \in DOMAIN ks}
       /\ \A i, j \in DOMAIN ks : ks[i] = ks[j] => i = j
    BY <1>2, <1>9 DEF Pending, Plain, KeySet, Elements, A!Needs
<1>12. \A m \in A!Needs : m # n => AllAsked(m)' \/ NoneAsked(m)'
    <2> SUFFICES ASSUME NEW m \in A!Needs, m # n PROVE AllAsked(m)' \/ NoneAsked(m)'
        OBVIOUS
    <2>1. m < n \/ m > n
        BY <1>11
    <2> QED
        BY <1>2, <1>10, <2>1
<1>13. PICK d : d = Done(rest)
    OBVIOUS
<1>14. d \in Nat /\ Done(Tail(rest)) = d + 1 /\ key = ks[d + 1] /\ d + 1 \in DOMAIN ks
    <2>1. d = Len(ks) - Len(rest) /\ Len(rest) \in 0..Len(ks)
        BY <1>2, <1>9, <1>13 DEF Pending, Done
    <2> QED
        BY <1>4, <1>11, <1>13, <2>1
<1>15. ASSUME NEW i \in DOMAIN ks PROVE A!Asked(ks[i])' <=> i <= d + 1
    <2>1. A!Asked(ks[i])' <=> A!Asked(ks[i]) \/ ks[i] = key
        BY <1>6 DEF Grows
    <2>2. A!Asked(ks[i]) <=> i <= d
        BY <1>2, <1>9, <1>13, <1>15 DEF Pending
    <2>3. ks[i] = key <=> i = d + 1
        BY <1>11, <1>14
    <2>4. i <= d + 1 <=> i <= d \/ i = d + 1
        BY <1>11, <1>14
    <2> QED
        BY <2>1, <2>2, <2>3, <2>4
<1>16. Tail(rest) = <<>> => AllAsked(n)'
    <2> SUFFICES ASSUME Tail(rest) = <<>> PROVE AllAsked(n)'
        OBVIOUS
    <2>1. Len(Tail(rest)) = 0
        BY EmptySeq
    <2>2. d + 1 = Len(ks)
        <3>1. Done(Tail(rest)) = Len(ks) - Len(Tail(rest))
            BY <1>2 DEF Done
        <3>2. Done(Tail(rest)) = Len(ks) - 0
            BY <2>1, <3>1
        <3>3. Done(Tail(rest)) = Len(ks)
            BY <1>11, <3>2
        <3> QED
            BY <1>14, <3>3
    <2>3. \A i \in DOMAIN ks : A!Asked(ks[i])'
        BY <1>11, <1>15, <2>2
    <2>4. \A k \in KeySet(n) : A!Asked(k)'
        BY <1>11, <2>3
    <2> QED
        BY <1>3, <2>4 DEF AllAsked, HandlerStays
<1> QED
    BY <1>1, <1>2, <1>3, <1>4, <1>6, <1>7, <1>8, <1>10, <1>11, <1>12, <1>14, <1>15, <1>16

\* The rest of the step is still to be asked.
LEMMA RestIsPending ==
    ASSUME AskInvariants, Plain, NEW rest, NEW verdict, AsksNext(rest, verdict), ex'.pos = ex.pos
    PROVE  Pending(Tail(rest))' /\ Done(Tail(rest))' = Done(Tail(rest))
<1>1. PICK n, ks, left : n = ex.pos /\ ks = Keys(n) /\ left = Tail(rest)
    OBVIOUS
<1>2. /\ HandlerStays /\ n \in DOMAIN handler.steps
      /\ \A i \in DOMAIN ks : A!Asked(ks[i])' <=> i <= Done(left)
      /\ \A m \in A!Needs : (m < n => AllAsked(m)') /\ (m > n => NoneAsked(m)')
    BY <1>1, NextIsAsked
<1>3. /\ Len(left) = Len(rest) - 1 /\ left = [i \in 1..Len(left) |-> ks[Done(left) + i]]
      /\ Done(left) = Done(rest) + 1 /\ Done(rest) + 1 \in DOMAIN ks
    BY <1>1, NextKey DEF AsksNext
<1>4. Len(ks) \in Nat /\ DOMAIN ks = 1..Len(ks)
    BY <1>1, <1>2 DEF Plain
<1>5. Done(left) = Len(ks) - Len(left) /\ Len(rest) \in 0..Len(ks)
    BY <1>1 DEF AsksNext, Pending, Done
<1>6. Len(left) \in 0..Len(ks)
    BY <1>3, <1>4, <1>5
<1>7. Keys(ex.pos)' = ks /\ ex'.pos = n
    BY <1>1, <1>2 DEF HandlerStays, Keys
<1>8. left' = left
    OBVIOUS
<1>9. Done(left)' = Done(left)
    BY <1>5, <1>7 DEF Done
<1>10. Pending(left)'
    BY <1>2, <1>3, <1>6, <1>7, <1>9 DEF Pending, HandlerStays
<1>11. (Tail(rest))' = left
    BY <1>1
<1> QED
    BY <1>1, <1>9, <1>10

\* The client asks the user for the next key.
LEMMA QuestionKeeps ==
    ASSUME AskInvariants, Plain, stage = "answering", reply.keys # <<>>, NEW verdict,
           answers' = A!Collected(Head(reply.keys), verdict),
           asked' = Append(asked, <<Head(reply.keys), verdict>>),
           reply' = [reply EXCEPT !.keys = Tail(@)],
           UNCHANGED <<state, stage>>, UNCHANGED <<me, handler, rounds, ex>>
    PROVE  AskInvariants'
<1>1. /\ AskTypes /\ AskedOnce /\ Recalls /\ Phases /\ ToldSoFar /\ Together /\ InTurn /\ InHand
      /\ StateIsLast /\ RoundsAsk /\ EndsSettled
    BY DEF AskInvariants
<1>2. reply.kind = "input_required" /\ handler.operation = "call_tool" /\ ~A!asks_on_the_stream /\ A!can_ask
    BY <1>1 DEF Phases
<1>3. PICK rest, n, ks, key : rest = reply.keys /\ n = ex.pos /\ ks = Keys(n) /\ key = Head(rest)
    OBVIOUS
<1>4. Pending(rest) /\ ks # <<>> /\ (n \in A!Needs => reply.state = ks[1])
    BY <1>1, <1>2, <1>3 DEF InHand
<1>5. AsksNext(rest, verdict)
    BY <1>2, <1>3, <1>4 DEF AsksNext
<1>6. /\ Grows(key, verdict) /\ HandlerStays /\ AskedOnce' /\ InTurn'
      /\ asked' \in Seq(Elements(asked')) /\ Len(asked) \in Nat /\ asked' # <<>>
      /\ \A m \in A!Needs : m # n => AllAsked(m)' \/ NoneAsked(m)'
    BY <1>3, <1>5, NextIsAsked
<1>7. /\ reply'.kind = reply.kind /\ reply'.keys = Tail(rest) /\ reply'.state = reply.state
      /\ reply' = [kind |-> reply'.kind, keys |-> reply'.keys, state |-> reply'.state, got |-> reply'.got,
                   saw |-> reply'.saw]
      /\ stage' = "answering" /\ ex' = ex
    BY <1>1, <1>3 DEF AskTypes
<1>8. AskTypes'
    BY <1>1, <1>6, <1>7 DEF AskTypes, HandlerStays
<1>9. Recalls'
    <2>1. \A k \in DOMAIN ex.answers : A!Asked(k)' /\ ex.answers[k] = A!VerdictOf(k)'
        BY <1>1, <1>6, KnowsMore DEF Recalls
    <2>2. Knows(ex.answers)'
        BY <1>7, <2>1 DEF Knows
    <2>3. PICK put : put = A!Put(answers, key, verdict)
        OBVIOUS
    <2>4. answers' = put
        BY <1>3, <2>3 DEF A!Collected
    <2>5. \A k \in DOMAIN put : A!Asked(k)' /\ put[k] = A!VerdictOf(k)'
        BY <1>1, <1>6, <2>3, KnowsMore DEF Recalls
    <2>6. Knows(answers)'
        BY <2>4, <2>5 DEF Knows
    <2>7. DOMAIN put = DOMAIN answers \cup {key}
        BY <2>3 DEF A!Put
    <2>8. \A m \in DOMAIN asked' : asked'[m][1] \in DOMAIN put
        BY <1>1, <1>2, <1>6, <2>7 DEF Recalls, Grows
    <2> QED
        BY <1>2, <1>6, <1>7, <2>2, <2>4, <2>6, <2>8 DEF Recalls, HandlerStays
<1>10. Phases' /\ ToldSoFar' /\ StateIsLast' /\ EndsSettled'
    BY <1>2, <1>6, <1>7 DEF Phases, ToldSoFar, StateIsLast, EndsSettled, HandlerStays
<1>11. Together'
    BY <1>3, <1>6, <1>7 DEF Together, HandlerStays
<1>12. Pending(Tail(rest))' /\ Done(Tail(rest))' = Done(Tail(rest))
    BY <1>5, <1>7, RestIsPending
<1>13. InHand'
    <2>1. (Tail(rest))' = Tail(rest) /\ reply'.keys = Tail(rest)
        BY <1>7
    <2>2. Pending(reply.keys)'
        BY <1>12, <2>1 DEF Pending, Done
    <2>3. Keys(ex.pos)' = ks
        BY <1>3, <1>6, <1>7 DEF HandlerStays, Keys
    <2> QED
        BY <1>3, <1>4, <1>6, <1>7, <2>2, <2>3 DEF InHand, HandlerStays
<1>14. RoundsAsk'
    <2>1. rounds \in Nat /\ rounds <= Len(asked) + 1 /\ rounds' = rounds
        BY <1>1 DEF AskTypes, RoundsAsk
    <2>2. Len(asked') = Len(asked) + 1
        BY <1>6 DEF Grows
    <2>3. rounds <= Len(asked') /\ rounds <= Len(asked') + 1
        BY <1>6, <2>1, <2>2
    <2> QED
        BY <1>7, <2>1, <2>3 DEF RoundsAsk
<1> QED
    BY <1>6, <1>8, <1>9, <1>10, <1>11, <1>13, <1>14 DEF AskInvariants

LEMMA OnAskKeeps == ASSUME AskInvariants, Plain, A!on_ask PROVE AskInvariants'
<1>1. CASE /\ reply.keys # <<>> /\ reply' = [reply EXCEPT !.keys = Tail(@)] /\ UNCHANGED <<state, stage>>
           /\ \E verdict : /\ answers' = A!Collected(Head(reply.keys), verdict)
                           /\ asked' = Append(asked, <<Head(reply.keys), verdict>>)
    BY <1>1, QuestionKeeps DEF A!on_ask
<1>2. CASE reply.keys = <<>> /\ state' = reply.state /\ Round /\ UNCHANGED <<answers, asked>>
    BY <1>2, RoundKeeps DEF A!on_ask
<1> QED
    BY <1>1, <1>2 DEF A!on_ask, Round

\* What every answer on the stream keeps.
LEMMA PushedKeeps ==
    ASSUME AskInvariants, Plain, stage = "asking", NEW verdict,
           asked' = Append(asked, <<Head(ex.pending), verdict>>),
           UNCHANGED <<me, handler, answers, state, rounds, reply>>
    PROVE  /\ AsksNext(ex.pending, verdict) /\ A!asks_on_the_stream
           /\ \A k \in DOMAIN answers : A!Asked(k)' /\ answers[k] = A!VerdictOf(k)'
           /\ \A m, verdicts : IsTold(m, verdicts) => IsTold(m, verdicts)'
           /\ ex.restarts \in Nat /\ ex.restarts + 1 <= Len(asked') /\ ex.restarts <= Len(asked')
<1>1. AskTypes /\ Recalls /\ Phases /\ InHand /\ RoundsAsk
    BY DEF AskInvariants
<1>2. A!asks_on_the_stream /\ A!can_ask
    BY <1>1 DEF Phases, A!asks_on_the_stream
<1>3. AsksNext(ex.pending, verdict)
    BY <1>1, <1>2 DEF InHand, AsksNext
<1>4. PICK n, ks, key : n = ex.pos /\ ks = Keys(n) /\ key = Head(ex.pending)
    OBVIOUS
<1>5. Grows(key, verdict) /\ HandlerStays /\ Len(asked) \in Nat
    BY <1>3, <1>4, NextIsAsked
<1>6. \A k \in DOMAIN answers : A!Asked(k)' /\ answers[k] = A!VerdictOf(k)'
    BY <1>1, <1>5, KnowsMore DEF Recalls
<1>7. \A m, verdicts : IsTold(m, verdicts) => IsTold(m, verdicts)'
    BY <1>2, <1>5, ToldStays
<1>8. ex.restarts \in Nat /\ ex.restarts <= Len(asked)
    BY <1>1 DEF AskTypes, RoundsAsk
<1>9. Len(asked') = Len(asked) + 1
    BY <1>5 DEF Grows
<1>10. ex.restarts + 1 <= Len(asked') /\ ex.restarts <= Len(asked')
    BY <1>5, <1>8, <1>9
<1> QED
    BY <1>2, <1>3, <1>6, <1>7, <1>8, <1>10

Pushed(verdict) ==
    /\ stage = "asking" /\ asked' = Append(asked, <<Head(ex.pending), verdict>>)
    /\ UNCHANGED <<me, handler, answers, state, rounds, reply>>

\* ask() goes on with the verdict.
LEMMA AnsweredKeeps ==
    ASSUME AskInvariants, Plain, NEW verdict, Pushed(verdict), ex.next = <<>>,
           ex' = [ex EXCEPT !.got = Append(@, << <<Head(ex.pending), verdict>> >>), !.pos = @ + 1],
           stage' = "handling"
    PROVE  AskInvariants'
<1>1. /\ AskTypes /\ AskedOnce /\ Recalls /\ Phases /\ ToldSoFar /\ Together /\ InTurn /\ InHand
      /\ StateIsLast /\ RoundsAsk
    BY DEF AskInvariants
<1>2. PICK n, ks, key, got : n = ex.pos /\ ks = Keys(n) /\ key = Head(ex.pending) /\ got = ex.got
    OBVIOUS
<1>3. /\ AsksNext(ex.pending, verdict) /\ A!asks_on_the_stream
      /\ \A k \in DOMAIN answers : A!Asked(k)' /\ answers[k] = A!VerdictOf(k)'
      /\ \A m, verdicts : IsTold(m, verdicts) => IsTold(m, verdicts)'
      /\ ex.restarts \in Nat /\ ex.restarts <= Len(asked')
    BY PushedKeeps DEF Pushed
<1>4. /\ Grows(key, verdict) /\ HandlerStays /\ AskedOnce' /\ InTurn'
      /\ asked' \in Seq(Elements(asked')) /\ asked' # <<>>
      /\ key \in KeySet(n) /\ n \in DOMAIN handler.steps
    BY <1>2, <1>3, NextIsAsked
<1>5. A!Needs = {} /\ Len(ks) = 1
    BY <1>1, <1>2 DEF InHand, Pushed
<1>6. /\ ex'.got = Append(got, << <<key, verdict>> >>) /\ ex'.pos = n + 1 /\ ex'.answers = ex.answers
      /\ ex'.restarts = ex.restarts
      /\ ex' = [answers |-> ex'.answers, state |-> ex'.state, sse |-> ex'.sse, got |-> ex'.got, pos |-> ex'.pos,
                pending |-> ex'.pending, next |-> ex'.next, restarts |-> ex'.restarts, dep |-> ex'.dep]
      /\ stage' = "handling" /\ reply' = reply /\ answers' = answers /\ state' = state /\ rounds' = rounds
    BY <1>1, <1>2 DEF AskTypes, Pushed
<1>7. got \in Seq(Elements(got)) /\ Len(got) \in Nat /\ n = Len(got) + 1 /\ n <= Len(handler.steps)
    <2>1. got \in Seq(Elements(got)) /\ n = Len(got) + 1
        BY <1>1, <1>2 DEF AskTypes
    <2>2. n \in 1..Len(handler.steps)
        BY <1>4 DEF Plain
    <2> QED
        BY <2>1, <2>2, LenProperties
<1>8. PICK more : more = Append(got, << <<key, verdict>> >>)
    OBVIOUS
<1>9. /\ more \in Seq(Elements(more)) /\ Len(more) = n /\ more[n] = << <<key, verdict>> >>
      /\ \A m \in 1..Len(got) : more[m] = got[m]
    BY <1>7, <1>8, AppendOfElements
<1>10. ex'.got = more /\ 1..Len(more) = 1..Len(got) \cup {n} /\ Len(more) + 1 = n + 1
    BY <1>6, <1>7, <1>8, <1>9
<1>11. AskTypes'
    <2>1. n + 1 <= Len(handler.steps) + 1
        BY <1>7 DEF Plain
    <2> QED
        BY <1>1, <1>4, <1>6, <1>9, <1>10, <2>1 DEF AskTypes, HandlerStays
<1>12. Recalls'
    <2>1. Knows(answers)'
        BY <1>3, <1>6 DEF Knows
    <2>2. \A k \in DOMAIN ex.answers : A!Asked(k)' /\ ex.answers[k] = A!VerdictOf(k)'
        BY <1>1, <1>4, KnowsMore DEF Recalls
    <2>3. Knows(ex.answers)'
        BY <1>6, <2>2 DEF Knows
    <2>4. ASSUME NEW k, Covered(k) \/ k = key PROVE Covered(k)'
        <3>1. CASE k \in DOMAIN ex.answers
            BY <1>6, <3>1 DEF Covered
        <3>2. CASE \E m \in 1..Len(got) : k \in KeySet(m)
            BY <1>4, <1>5, <1>10, <3>2 DEF Covered, HandlerStays
        <3>3. CASE k = key
            BY <1>4, <1>5, <1>10, <3>3 DEF Covered, HandlerStays
        <3> QED
            BY <1>2, <2>4, <3>1, <3>2, <3>3 DEF Covered
    <2>5. \A m \in DOMAIN asked : Covered(asked[m][1])
        BY <1>1 DEF Recalls, Pushed
    <2>6. \A m \in DOMAIN asked' : \E k : k = asked'[m][1] /\ (Covered(k) \/ k = key)
        BY <1>4, <2>5 DEF Grows
    <2>7. \A m \in DOMAIN asked' : \E k : k = asked'[m][1] /\ Covered(k)'
        BY <2>4, <2>6
    <2> QED
        BY <1>3, <1>4, <1>6, <2>1, <2>3, <2>7 DEF Recalls, HandlerStays, A!asks_on_the_stream, Covered
<1>13. Phases' /\ EndsSettled' /\ InHand'
    BY <1>1, <1>4, <1>6 DEF Phases, EndsSettled, InHand, HandlerStays
<1>14. ToldSoFar'
    <2>1. \A m \in 1..Len(got) : IsTold(m, more[m])'
        BY <1>1, <1>2, <1>3, <1>9 DEF ToldSoFar, Pushed
    <2>2. IsTold(n, more[n])'
        <3>1. A!Asked(key)' /\ A!VerdictOf(key)' = verdict
            BY <1>4 DEF Grows
        <3>2. A!Settled(key)' = <<key, verdict>>
            BY <3>1 DEF A!Settled
        <3>3. ks = [i \in 1..Len(ks) |-> ks[i]] /\ KeySet(n) = {ks[i] : i \in DOMAIN ks}
            BY <1>2, <1>4 DEF Plain, KeySet, Elements
        <3>4. DOMAIN ks = {1} /\ ks[1] = key /\ KeySet(n) = {key}
            BY <1>4, <1>5, <3>3
        <3>5. << <<key, verdict>> >> = [i \in DOMAIN ks |-> A!Settled(ks[i])']
            BY <3>2, <3>4
        <3>6. Keys(n)' = ks /\ KeySet(n)' = {key} /\ more[n] = << <<key, verdict>> >>
            BY <1>2, <1>4, <1>9, <3>4 DEF HandlerStays
        <3> QED
            BY <3>1, <3>5, <3>6 DEF IsTold
    <2>3. \A m \in 1..Len(more) : IsTold(m, more[m])'
        BY <1>10, <2>1, <2>2
    <2> QED
        BY <1>10, <2>3 DEF ToldSoFar
<1>15. Together' /\ StateIsLast'
    BY <1>4, <1>5, <1>6 DEF Together, StateIsLast, Leaves, HandlerStays
<1>16. RoundsAsk'
    BY <1>3, <1>4, <1>6 DEF RoundsAsk, HandlerStays
<1> QED
    BY <1>4, <1>11, <1>12, <1>13, <1>14, <1>15, <1>16 DEF AskInvariants

\* What the exchange keeps of an answer for the handler it runs again.
LEMMA KeptAnswers ==
    ASSUME AskInvariants, Plain, NEW verdict, Pushed(verdict), ex.next # <<>>,
           NEW put, put = A!Put(ex.answers, Head(ex.pending), verdict)
    PROVE  /\ \A k \in DOMAIN put : A!Asked(k)' /\ put[k] = A!VerdictOf(k)'
           /\ \A m \in DOMAIN asked' : asked'[m][1] \in DOMAIN put
           /\ ex.pos \in A!Needs /\ ex.next[1] = Keys(ex.pos)[1]
<1>1. PICK n, ks, key : n = ex.pos /\ ks = Keys(n) /\ key = Head(ex.pending)
    OBVIOUS
<1>2. n \in A!Needs /\ ex.next[1] = ks[1]
    BY <1>1 DEF AskInvariants, InHand, Pushed
<1>3. Grows(key, verdict)
    BY <1>1, PushedKeeps, NextIsAsked DEF Pushed
<1>4. \A k \in DOMAIN put : A!Asked(k)' /\ put[k] = A!VerdictOf(k)'
    BY <1>1, <1>3, KnowsMore DEF AskInvariants, Recalls
<1>5. DOMAIN put = DOMAIN ex.answers \cup {key}
    BY <1>1 DEF A!Put
<1>6. \A m \in DOMAIN asked : asked[m][1] \in DOMAIN ex.answers
    BY <1>2 DEF AskInvariants, Recalls, Covered, Pushed
<1>7. \A m \in DOMAIN asked' : asked'[m][1] \in DOMAIN put
    BY <1>3, <1>5, <1>6 DEF Grows
<1> QED
    BY <1>1, <1>2, <1>4, <1>7

\* The exchange asks for the next of the keys that are needed.
LEMMA NextNeededKeeps ==
    ASSUME AskInvariants, Plain, NEW verdict, Pushed(verdict), ex.next # <<>>, Tail(ex.pending) # <<>>,
           ex' = [ex EXCEPT !.answers = A!Put(@, Head(ex.pending), verdict), !.pending = Tail(ex.pending)],
           stage' = "asking"
    PROVE  AskInvariants'
<1>1. /\ AskTypes /\ AskedOnce /\ Recalls /\ Phases /\ ToldSoFar /\ Together /\ InTurn /\ InHand
      /\ StateIsLast /\ RoundsAsk
    BY DEF AskInvariants
<1>2. PICK n, ks, rest, got, put :
          n = ex.pos /\ ks = Keys(n) /\ rest = ex.pending /\ got = ex.got
          /\ put = A!Put(ex.answers, Head(ex.pending), verdict)
    OBVIOUS
<1>3. /\ AsksNext(rest, verdict) /\ A!asks_on_the_stream
      /\ \A k \in DOMAIN answers : A!Asked(k)' /\ answers[k] = A!VerdictOf(k)'
      /\ \A m, verdicts : IsTold(m, verdicts) => IsTold(m, verdicts)'
      /\ ex.restarts \in Nat /\ ex.restarts <= Len(asked')
    BY <1>2, PushedKeeps DEF Pushed
<1>4. /\ HandlerStays /\ AskedOnce' /\ InTurn'
      /\ asked' \in Seq(Elements(asked')) /\ asked' # <<>>
      /\ \A m \in A!Needs : m # n => AllAsked(m)' \/ NoneAsked(m)'
    BY <1>2, <1>3, NextIsAsked
<1>5. /\ \A k \in DOMAIN put : A!Asked(k)' /\ put[k] = A!VerdictOf(k)'
      /\ \A m \in DOMAIN asked' : asked'[m][1] \in DOMAIN put
      /\ n \in A!Needs /\ ex.next[1] = ks[1]
    BY <1>2, KeptAnswers
<1>6. /\ ex'.answers = put /\ ex'.pending = Tail(rest) /\ ex'.got = got /\ ex'.pos = n /\ ex'.next = ex.next
      /\ ex'.restarts = ex.restarts
      /\ ex' = [answers |-> ex'.answers, state |-> ex'.state, sse |-> ex'.sse, got |-> ex'.got, pos |-> ex'.pos,
                pending |-> ex'.pending, next |-> ex'.next, restarts |-> ex'.restarts, dep |-> ex'.dep]
      /\ stage' = "asking" /\ reply' = reply /\ answers' = answers /\ state' = state /\ rounds' = rounds
    BY <1>1, <1>2 DEF AskTypes, Pushed
<1>7. AskTypes'
    BY <1>1, <1>2, <1>4, <1>6 DEF AskTypes, HandlerStays
<1>8. Recalls'
    <2>1. Knows(answers)'
        BY <1>3, <1>6 DEF Knows
    <2>2. Knows(ex.answers)'
        BY <1>5, <1>6 DEF Knows
    <2>3. \A m \in DOMAIN asked' : \E k : k = asked'[m][1] /\ Covered(k)'
        BY <1>5, <1>6 DEF Covered
    <2> QED
        BY <1>3, <1>4, <1>6, <2>1, <2>2, <2>3 DEF Recalls, HandlerStays, A!asks_on_the_stream, Covered
<1>9. Phases' /\ EndsSettled' /\ StateIsLast'
    BY <1>1, <1>3, <1>4, <1>6 DEF Phases, EndsSettled, StateIsLast, HandlerStays
<1>10. ToldSoFar'
    <2>1. \A m \in 1..Len(got) : IsTold(m, got[m])'
        BY <1>1, <1>2, <1>3 DEF ToldSoFar, Pushed
    <2> QED
        BY <1>6, <2>1 DEF ToldSoFar
<1>11. Together'
    BY <1>4, <1>6 DEF Together, HandlerStays
<1>12. Pending(Tail(rest))'
    BY <1>2, <1>3, <1>6, RestIsPending
<1>13. InHand'
    <2>1. Pending(ex.pending)'
        BY <1>6, <1>12
    <2>2. Keys(ex.pos)' = ks
        BY <1>2, <1>4, <1>6 DEF HandlerStays, Keys
    <2> QED
        BY <1>2, <1>4, <1>5, <1>6, <2>1, <2>2 DEF InHand, HandlerStays
<1>14. RoundsAsk'
    BY <1>3, <1>6 DEF RoundsAsk
<1> QED
    BY <1>4, <1>7, <1>8, <1>9, <1>10, <1>11, <1>13, <1>14 DEF AskInvariants

\* The handler runs again with all it needed and its state.
LEMMA AgainKeeps ==
    ASSUME AskInvariants, Plain, NEW verdict, Pushed(verdict), ex.next # <<>>, Tail(ex.pending) = <<>>,
           ex' = [ex EXCEPT !.answers = A!Put(@, Head(ex.pending), verdict), !.pending = Tail(ex.pending),
                            !.state = ex.next[1], !.restarts = @ + 1, !.pos = 1, !.got = <<>>,
                            !.dep = A!resolve(@)],
           stage' = "handling"
    PROVE  AskInvariants'
<1>1. /\ AskTypes /\ AskedOnce /\ Recalls /\ Phases /\ ToldSoFar /\ Together /\ InTurn /\ InHand
      /\ StateIsLast /\ RoundsAsk
    BY DEF AskInvariants
<1>2. PICK n, ks, rest, put :
          n = ex.pos /\ ks = Keys(n) /\ rest = ex.pending /\ put = A!Put(ex.answers, Head(ex.pending), verdict)
    OBVIOUS
<1>3. /\ AsksNext(rest, verdict) /\ A!asks_on_the_stream
      /\ \A k \in DOMAIN answers : A!Asked(k)' /\ answers[k] = A!VerdictOf(k)'
      /\ ex.restarts \in Nat /\ ex.restarts + 1 <= Len(asked')
    BY <1>2, PushedKeeps DEF Pushed
<1>4. /\ HandlerStays /\ AskedOnce' /\ InTurn' /\ n \in DOMAIN handler.steps
      /\ asked' \in Seq(Elements(asked')) /\ asked' # <<>>
      /\ AllAsked(n)'
      /\ \A m \in A!Needs : (m > n => NoneAsked(m)') /\ (m # n => AllAsked(m)' \/ NoneAsked(m)')
    BY <1>2, <1>3, NextIsAsked
<1>5. /\ \A k \in DOMAIN put : A!Asked(k)' /\ put[k] = A!VerdictOf(k)'
      /\ \A m \in DOMAIN asked' : asked'[m][1] \in DOMAIN put
      /\ n \in A!Needs /\ ex.next[1] = ks[1]
    BY <1>2, KeptAnswers
<1>6. /\ ex'.answers = put /\ ex'.got = <<>> /\ ex'.pos = 1 /\ ex'.state = ks[1]
      /\ ex'.restarts = ex.restarts + 1
      /\ ex' = [answers |-> ex'.answers, state |-> ex'.state, sse |-> ex'.sse, got |-> ex'.got, pos |-> ex'.pos,
                pending |-> ex'.pending, next |-> ex'.next, restarts |-> ex'.restarts, dep |-> ex'.dep]
      /\ stage' = "handling" /\ reply' = reply /\ answers' = answers /\ state' = state /\ rounds' = rounds
    BY <1>1, <1>2, <1>5 DEF AskTypes, Pushed
<1>7. AskTypes'
    <2>1. <<>> \in Seq(Elements(<<>>)) /\ Len(<<>>) = 0
        BY EmptySeq
    <2>2. 1 <= Len(handler.steps) + 1 /\ ex.restarts + 1 \in Nat
        BY <1>3 DEF Plain
    <2>3. ex'.got \in Seq(Elements(ex'.got)) /\ ex'.pos = Len(ex'.got) + 1
        BY <1>6, <2>1
    <2> QED
        BY <1>1, <1>4, <1>6, <2>2, <2>3 DEF AskTypes, HandlerStays
<1>8. Recalls'
    <2>1. Knows(answers)'
        BY <1>3, <1>6 DEF Knows
    <2>2. Knows(ex.answers)'
        BY <1>5, <1>6 DEF Knows
    <2>3. \A m \in DOMAIN asked' : \E k : k = asked'[m][1] /\ Covered(k)'
        BY <1>5, <1>6 DEF Covered
    <2> QED
        BY <1>3, <1>4, <1>6, <2>1, <2>2, <2>3 DEF Recalls, HandlerStays, A!asks_on_the_stream, Covered
<1>9. Phases' /\ EndsSettled' /\ InHand'
    BY <1>1, <1>4, <1>6 DEF Phases, EndsSettled, InHand, HandlerStays
<1>10. ToldSoFar'
    <2>1. 1..Len(ex'.got) = {}
        BY <1>6
    <2> QED
        BY <2>1 DEF ToldSoFar
<1>11. Together'
    BY <1>4 DEF Together, HandlerStays
<1>12. StateIsLast'
    <2>1. ASSUME NEW m \in A!Needs, AllAsked(m)', \A i \in A!Needs : m < i => NoneAsked(i)' PROVE m = n
        <3>1. n \in Nat /\ m \in Nat /\ m \in DOMAIN handler.steps
            BY <1>4 DEF Plain, A!Needs
        <3>2. ASSUME NEW i \in A!Needs PROVE ~(AllAsked(i)' /\ NoneAsked(i)')
            <4>1. i \in DOMAIN handler.steps /\ Step(i).does = "need"
                BY DEF A!Needs, Step
            <4>2. Len(Keys(i)) > 0 /\ Len(Keys(i)) \in Nat /\ DOMAIN Keys(i) = 1..Len(Keys(i))
                BY <4>1 DEF Plain
            <4>3. 1 \in DOMAIN Keys(i)
                BY <4>2
            <4>4. Keys(i)[1] \in KeySet(i)
                BY <4>3 DEF KeySet, Elements
            <4>5. KeySet(i)' # {}
                BY <1>4, <4>4 DEF HandlerStays
            <4> QED
                BY <4>5 DEF AllAsked, NoneAsked
        <3>3. ~(m < n) /\ ~(m > n)
            BY <1>4, <1>5, <2>1, <3>1, <3>2
        <3> QED
            BY <3>1, <3>3
    <2>2. \A m \in A!Needs' : AllAsked(m)' /\ (\A i \in A!Needs' : m < i => NoneAsked(i)') => m = n
        BY <1>4, <2>1 DEF HandlerStays
    <2>3. Keys(n)' = ks
        BY <1>2, <1>4 DEF HandlerStays
    <2>4. Leaves(ex.state)'
        BY <1>6, <2>2, <2>3 DEF Leaves
    <2> QED
        BY <1>6, <2>4 DEF StateIsLast
<1>13. RoundsAsk'
    BY <1>3, <1>4, <1>6 DEF RoundsAsk, HandlerStays
<1> QED
    BY <1>4, <1>7, <1>8, <1>9, <1>10, <1>11, <1>12, <1>13 DEF AskInvariants

LEMMA PushAskKeeps == ASSUME AskInvariants, Plain, A!push_ask PROVE AskInvariants'
<1>1. PICK verdict :
          /\ Pushed(verdict)
          /\ \/ /\ ex.next = <<>>
                /\ ex' = [ex EXCEPT !.got = Append(@, << <<Head(ex.pending), verdict>> >>), !.pos = @ + 1]
                /\ stage' = "handling"
             \/ /\ ex.next # <<>> /\ Tail(ex.pending) # <<>>
                /\ ex' = [ex EXCEPT !.answers = A!Put(@, Head(ex.pending), verdict), !.pending = Tail(ex.pending)]
                /\ stage' = "asking"
             \/ /\ ex.next # <<>> /\ Tail(ex.pending) = <<>>
                /\ ex' = [ex EXCEPT !.answers = A!Put(@, Head(ex.pending), verdict), !.pending = Tail(ex.pending),
                                    !.state = ex.next[1], !.restarts = @ + 1, !.pos = 1, !.got = <<>>,
                                    !.dep = A!resolve(@)]
                /\ stage' = "handling"
    BY DEF A!push_ask, Pushed
<1> QED
    BY <1>1, AnsweredKeeps, NextNeededKeeps, AgainKeeps

-----------------------------------------------------------------------------
(* The theorems. *)

LEMMA SettledInit == A!Init => SettledIInv
<1> SUFFICES ASSUME A!Init, A!AsksPlainly(handler) PROVE AskInvariants
    BY DEF SettledIInv, A!Init
<1>1. Plain
    BY HandlersArePlain DEF A!Init
<1>2. /\ me \in A!Clients /\ handler \in Handlers /\ answers = <<>> /\ rounds = 0 /\ ex = A!NoExchange
      /\ asked = <<>> /\ stage = "calling" /\ reply = A!NoReply
    BY DEF A!Init
<1>3. <<>> \in Seq(Elements(<<>>)) /\ Len(<<>>) = 0
    BY EmptySeq
<1>4. AskTypes
    <2>1. 1 <= Len(handler.steps) + 1
        BY <1>1 DEF Plain
    <2>2. ex.got \in Seq(Elements(ex.got)) /\ ex.pos = Len(ex.got) + 1 /\ ex.pos <= Len(handler.steps) + 1
        BY <1>2, <1>3, <2>1 DEF A!NoExchange
    <2>3. asked \in Seq(Elements(asked))
        BY <1>2, <1>3
    <2> QED
        BY <1>2, <2>2, <2>3 DEF AskTypes, A!NoExchange, A!NoReply
<1>5. \A k : ~A!Asked(k)
    BY <1>2 DEF A!Asked
<1>6. AskedOnce /\ Recalls
    BY <1>2 DEF AskedOnce, Recalls, Knows, A!NoExchange
<1>7. None # "input_required"
    BY AskingConstants
<1>8. Phases /\ ToldSoFar /\ InHand /\ EndsSettled
    BY <1>2, <1>7 DEF Phases, ToldSoFar, InHand, EndsSettled, A!NoReply
<1>9. Together /\ InTurn
    BY <1>5 DEF Together, InTurn, NoneAsked
<1>10. RoundsAsk
    BY <1>2, <1>3 DEF RoundsAsk
<1>11. StateIsLast
    <2>1. ASSUME NEW n \in A!Needs PROVE ~AllAsked(n)
        <3>1. n \in DOMAIN handler.steps /\ Step(n).does = "need"
            BY DEF A!Needs, Step
        <3>2. Len(Keys(n)) > 0 /\ Len(Keys(n)) \in Nat /\ DOMAIN Keys(n) = 1..Len(Keys(n))
            BY <1>1, <3>1 DEF Plain
        <3>3. 1 \in DOMAIN Keys(n)
            BY <3>2
        <3>4. Keys(n)[1] \in KeySet(n)
            BY <3>3 DEF KeySet, Elements
        <3> QED
            BY <1>5, <3>4 DEF AllAsked
    <2> QED
        BY <1>2, <2>1 DEF StateIsLast, Leaves
<1> QED
    BY <1>4, <1>6, <1>8, <1>9, <1>10, <1>11 DEF AskInvariants

LEMMA SettledStep == SettledIInv /\ [A!Next]_(A!vars) => SettledIInv'
<1> SUFFICES ASSUME SettledIInv, [A!Next]_(A!vars) PROVE SettledIInv'
    OBVIOUS
<1>1. handler' = handler
    BY DEF A!Next, A!vars, A!call_tool, A!Handle, A!push_ask, A!Receive, A!on_ask, A!ByHand
<1> SUFFICES ASSUME A!AsksPlainly(handler) PROVE AskInvariants'
    BY <1>1 DEF SettledIInv
<1>2. AskInvariants /\ handler \in Handlers
    BY DEF SettledIInv
<1>3. Plain
    BY <1>2, HandlersArePlain
<1>4. CASE A!call_tool
    BY <1>2, <1>3, <1>4, CallKeeps
<1>5. CASE A!Handle
    BY <1>2, <1>3, <1>5, HandleKeeps
<1>6. CASE A!push_ask
    BY <1>2, <1>3, <1>6, PushAskKeeps
<1>7. CASE A!Receive
    BY <1>2, <1>7, ReceiveKeeps
<1>8. CASE A!on_ask
    BY <1>2, <1>3, <1>8, OnAskKeeps
<1>9. CASE A!ByHand
    BY <1>2, <1>9, ByHandKeeps
<1>10. CASE UNCHANGED A!vars
    BY <1>2, <1>10, RestKeeps DEF A!vars
<1> QED
    BY <1>4, <1>5, <1>6, <1>7, <1>8, <1>9, <1>10 DEF A!Next

LEMMA AskedAreSettled == MCSpec => []SettledIInv
<1>1. MCInit => A!Init
    BY DEF MCInit
<1>2. [MCNext]_<<part, vars, request, asking, registry>> => [A!Next]_(A!vars)
    BY DEF MCNext, asking, A!vars
<1> QED
    BY <1>1, <1>2, SettledInit, SettledStep, PTL DEF MCSpec

LEMMA SettledInvariantSettles == SettledIInv => (A!AsksPlainly(handler) => EveryQuestionIsSettled)
<1> SUFFICES ASSUME SettledIInv, A!AsksPlainly(handler) PROVE A!EveryQuestionIsSettled
    BY DEF EveryQuestionIsSettled
<1>1. AskedOnce /\ EndsSettled
    BY DEF SettledIInv, AskInvariants
<1>2. AskedOnce = ((\A n \in DOMAIN asked : asked[n][1] \in A!Questions)
                   /\ (\A n, m \in DOMAIN asked : asked[n][1] = asked[m][1] => n = m))
    BY DEF AskedOnce
<1> QED
    BY <1>1, <1>2 DEF EndsSettled, A!EveryQuestionIsSettled, A!Ended, Keys

\* A handler that asks by ask() or by NeedInput, and by no key twice, is told
\* of each of its questions what the user said the one time it was asked, in
\* whatever revision and by whatever mechanic, with its state and in its steps.
THEOREM PlainQuestionsAreSettled == MCSpec => [](A!AsksPlainly(handler) => EveryQuestionIsSettled)
    BY AskedAreSettled, SettledInvariantSettles, PTL

\* Where every handler asks so, every question is settled.
THEOREM QuestionsAreSettled ==
    ASSUME \A one \in Handlers : A!AsksPlainly(one)
    PROVE  MCSpec => []EveryQuestionIsSettled
<1>1. SettledIInv => EveryQuestionIsSettled
    BY SettledInvariantSettles DEF SettledIInv
<1> QED
    BY <1>1, AskedAreSettled, PTL

=============================================================================
