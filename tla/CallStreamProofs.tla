-------------------------- MODULE CallStreamProofs --------------------------
(***************************************************************************)
(* Theorems about a question put to the client on a call's stream, about   *)
(* the queue of an SSE response and about the pipes of a stdio server, for *)
(* any number of questions, answers, tasks, slots and calls, and about the *)
(* specification that MCCallStream composes of them.                       *)
(***************************************************************************)
EXTENDS MCCallStream, FiniteSetTheorems, SequenceTheorems, WellFoundedInduction, TLAPS

(* PushAsk.  An answer can only reach a topic whose question was sent, and *)
(* a question is sent by an asker that has subscribed: its cursor is 0 when *)
(* the first event is published, and never beyond the last one read.       *)

\* Nothing is published on the topic of a question that was not sent.
NothingBeforeTheQuestion ==
    \A a \in Ask :
        /\ pc[a] \in {"subscribe", "emit"} => a \notin asked
        /\ a \notin asked =>
            /\ \A m \in inflight : m.ask # a
            /\ rows[a] = {} /\ published[a] = 0 /\ first[a] = None /\ cursor[a] = 0

\* A topic numbers its events, and a subscription reads no further than they go.
EventsAreNumbered ==
    \A a \in Ask :
        /\ IsFiniteSet(rows[a])
        /\ \A row \in rows[a] : row.id \in 1..published[a]
        /\ \A row \in rows[a] : \A other \in rows[a] : row.id = other.id => row = other
        /\ cursor[a] <= published[a]

\* While its asker waits, the first answer is the earliest one in the topic.
FirstIsEarliest ==
    \A a \in Ask : pc[a] \in {"loop", "poll"} =>
        /\ first[a] = None => Answers(rows[a]) = {}
        /\ first[a] # None => \E row \in Answers(rows[a]) :
                /\ row.reply = first[a]
                /\ \A other \in Answers(rows[a]) : row.id <= other.id

FirstIsAnAnswer == \A a \in Ask : first[a] # "scalar"

AskIInv ==
    /\ TypeOK
    /\ NothingBeforeTheQuestion
    /\ EventsAreNumbered
    /\ FirstIsEarliest
    /\ FirstIsAnAnswer
    /\ NoAnswerIsPassedOver
    /\ FirstAnswerCounts
    /\ TopicEndsWithItsAsk

LEMMA AskInit == Init => AskIInv
<1> SUFFICES ASSUME Init PROVE AskIInv
    OBVIOUS
<1> USE PushAskConstants DEF Init
<1>1. TypeOK
    BY DEF TypeOK
<1>2. NothingBeforeTheQuestion /\ FirstIsEarliest /\ FirstIsAnAnswer
    BY DEF NothingBeforeTheQuestion, FirstIsEarliest, FirstIsAnAnswer, AnyReply
<1>3. EventsAreNumbered
    BY FS_EmptySet DEF EventsAreNumbered
<1>4. NoAnswerIsPassedOver /\ FirstAnswerCounts /\ TopicEndsWithItsAsk
    BY DEF NoAnswerIsPassedOver, FirstAnswerCounts, TopicEndsWithItsAsk
<1> QED
    BY <1>1, <1>2, <1>3, <1>4 DEF AskIInv

\* A set of numbers up to n has a greatest one.
LEMMA MaxOfNumbers ==
    ASSUME NEW n \in Nat, NEW M \in SUBSET (1..n), M # {}
    PROVE  Max(M) \in M /\ \A i \in M : i <= Max(M)
<1>1. IsWellFoundedOn(OpToRel(<, Nat), Nat)
    BY NatLessThanWellFounded
<1> DEFINE T == {n - i : i \in M}
<1>0. \A i \in M : i \in Nat /\ n - i \in Nat
    OBVIOUS
<1>2. T \subseteq Nat /\ T # {}
    BY <1>0
<1>3. \E x \in T : \A y \in T : <<y, x>> \notin OpToRel(<, Nat)
    BY <1>1, <1>2, WFMin
<1>4. PICK x \in T : \A y \in T : ~(y < x)
    BY <1>2, <1>3 DEF OpToRel
<1>5. PICK m \in M : x = n - m
    OBVIOUS
<1>6. ASSUME NEW i \in M PROVE m >= i
    <2>1. ~(n - i < n - m)
        BY <1>4, <1>5
    <2>2. i \in 1..n /\ m \in 1..n
        OBVIOUS
    <2> HIDE DEF T
    <2> QED
        BY <1>0, <2>1, <2>2
<1> QED
    BY <1>6 DEF Max

\* What a poll finds is answered by the first answer, and moves the cursor to an event.
LEMMA WhatAPollFinds ==
    ASSUME AskIInv, NEW a \in Ask, pc[a] = "poll", Unread(a) # {}
    PROVE  /\ Max({row.id : row \in Unread(a)}) \in 1..published[a]
           /\ Answers(Unread(a)) = Answers(rows[a])
           /\ Answers(Unread(a)) # {} =>
                /\ first[a] # None
                /\ Earliest(Answers(Unread(a))).reply = first[a]
                /\ answer_of(first[a]) \in {"accept", "decline", "cancel"}
<1> USE DEF AskIInv
<1>0. \A row \in rows[a] : row.id \in Nat
    <2>1. rows[a] \subseteq [id : Nat, reply : AnyReply]
        BY DEF TypeOK
    <2> QED
        BY <2>1
<1>1. Max({row.id : row \in Unread(a)}) \in 1..published[a]
    <2>1. {row.id : row \in Unread(a)} \in SUBSET (1..published[a])
        BY DEF EventsAreNumbered, Unread
    <2>2. {row.id : row \in Unread(a)} # {} /\ published[a] \in Nat
        BY ZenonT(60) DEF TypeOK
    <2> QED
        BY <2>1, <2>2, MaxOfNumbers
<1>2. Answers(Unread(a)) = Answers(rows[a])
    BY DEF NoAnswerIsPassedOver, Answers, Unread
<1>3. ASSUME Answers(rows[a]) # {}
      PROVE  /\ first[a] # None
             /\ Earliest(Answers(rows[a])).reply = first[a]
             /\ answer_of(first[a]) \in {"accept", "decline", "cancel"}
    <2>1. first[a] # None
        BY <1>3 DEF FirstIsEarliest
    <2>2. PICK row \in Answers(rows[a]) :
                row.reply = first[a] /\ \A other \in Answers(rows[a]) : row.id <= other.id
        BY <2>1 DEF FirstIsEarliest
    <2>3. ASSUME NEW other \in Answers(rows[a]),
                 \A third \in Answers(rows[a]) : other.id <= third.id
          PROVE  other = row
        <3>1. other.id <= row.id /\ row.id <= other.id
            BY <2>2, <2>3
        <3>2. other.id \in Nat /\ row.id \in Nat /\ row \in rows[a] /\ other \in rows[a]
            BY <1>0, <2>2, <2>3 DEF Answers
        <3> QED
            BY <3>1, <3>2 DEF EventsAreNumbered
    <2>4. Earliest(Answers(rows[a])) = row
        BY <2>2, <2>3 DEF Earliest
    <2>5. first[a] \in AnyReply \ {"scalar"}
        BY <2>1 DEF TypeOK, FirstIsAnAnswer
    <2> QED
        BY <2>1, <2>2, <2>4, <2>5 DEF answer_of, AnyReply
<1> QED
    BY <1>1, <1>2, <1>3

\* Events stay numbered where a step publishes none.
LEMMA NumberedStill ==
    ASSUME AskIInv, UNCHANGED <<rows, published>>,
           \A b \in Ask : cursor'[b] = cursor[b] \/ cursor'[b] <= published[b]
    PROVE  EventsAreNumbered'
    BY DEF AskIInv, EventsAreNumbered

LEMMA AskStep == AskIInv /\ [Next]_vars => AskIInv'
<1> SUFFICES ASSUME AskIInv, [Next]_vars PROVE AskIInv'
    OBVIOUS
<1>0. /\ cursor \in [Ask -> Nat] /\ published \in [Ask -> Nat] /\ late \in [Ask -> Nat]
      /\ posted \in [Ask -> 0..MaxReplies] /\ MaxReplies \in Nat
      /\ pc \in [Ask -> {"subscribe", "emit", "loop", "poll", "leave", "done", "aborted"}]
    BY PushAskConstants DEF AskIInv, TypeOK
<1> USE PushAskConstants DEF AskIInv
<1>1. ASSUME NEW a \in Ask, Subscribe(a) PROVE AskIInv'
    <2>1. /\ pc[a] = "subscribe" /\ pc' = [pc EXCEPT ![a] = "emit"]
          /\ cursor' = [cursor EXCEPT ![a] = 0]
          /\ UNCHANGED <<asked, cancelled, overdue, result, client, hub>>
        <3>1. {row.id : row \in rows[a]} \cup {0} = {0}
            BY <1>1 DEF Subscribe, NothingBeforeTheQuestion
        <3>2. Max({0}) = 0
            BY DEF Max
        <3> QED
            BY <1>1, <3>1, <3>2 DEF Subscribe, Goto
    <2>2. TypeOK'
        BY <2>1 DEF client, hub, TypeOK, AnyReply
    <2>3. NothingBeforeTheQuestion'
        BY <2>1 DEF client, hub, TypeOK, NothingBeforeTheQuestion
    <2>4. EventsAreNumbered'
        <3>1. \A b \in Ask : cursor'[b] = cursor[b] \/ cursor'[b] <= published[b]
            BY <1>0, <2>1
        <3> QED
            BY <2>1, <3>1, NumberedStill DEF hub
    <2>5. FirstIsEarliest' /\ FirstIsAnAnswer' /\ NoAnswerIsPassedOver'
        BY <2>1 DEF client, hub, TypeOK, FirstIsEarliest, FirstIsAnAnswer,
            NoAnswerIsPassedOver, Answers, NothingBeforeTheQuestion
    <2>6. FirstAnswerCounts' /\ TopicEndsWithItsAsk'
        BY <2>1 DEF client, hub, TypeOK, FirstAnswerCounts, TopicEndsWithItsAsk
    <2> QED
        BY <2>2, <2>3, <2>4, <2>5, <2>6
<1>2. ASSUME NEW a \in Ask, Emit(a) PROVE AskIInv'
    <2>1. /\ pc[a] = "emit" /\ pc' = [pc EXCEPT ![a] = "loop"]
          /\ asked' \in {asked, asked \cup {a}}
          /\ UNCHANGED <<cursor, cancelled, overdue, result, client, hub>>
        BY <1>2 DEF Emit, Goto
    <2>2. TypeOK'
        BY <2>1 DEF client, hub, TypeOK, AnyReply
    <2>3. NothingBeforeTheQuestion'
        <3>1. \A b \in Ask : /\ b \notin asked' => b \notin asked
                            /\ pc'[b] \in {"subscribe", "emit"} =>
                                    pc[b] \in {"subscribe", "emit"} /\ b \notin asked'
            BY <1>0, <2>1 DEF NothingBeforeTheQuestion
        <3> QED
            BY <2>1, <3>1 DEF client, hub, NothingBeforeTheQuestion
    <2>4. EventsAreNumbered'
        BY <2>1 DEF client, hub, TypeOK, EventsAreNumbered
    <2>5. FirstIsEarliest' /\ FirstIsAnAnswer' /\ NoAnswerIsPassedOver'
        BY <2>1 DEF client, hub, TypeOK, FirstIsEarliest, FirstIsAnAnswer,
            NoAnswerIsPassedOver, Answers, NothingBeforeTheQuestion
    <2>6. FirstAnswerCounts' /\ TopicEndsWithItsAsk'
        BY <2>1 DEF client, hub, TypeOK, FirstAnswerCounts, TopicEndsWithItsAsk
    <2> QED
        BY <2>2, <2>3, <2>4, <2>5, <2>6
\* To leave the loop without an answer.
<1>3. ASSUME NEW a \in Ask, pc[a] \in {"loop", "poll"}, NEW why \in {"gave up", "raised"},
             Leave(a, why), UNCHANGED <<cursor, asked, cancelled, overdue, client, hub>>
      PROVE  AskIInv'
    <2>1. /\ pc' = [pc EXCEPT ![a] = "leave"] /\ result' = [result EXCEPT ![a] = why]
          /\ UNCHANGED <<cursor, asked, cancelled, overdue, client, hub>>
        BY <1>3 DEF Leave, Goto
    <2>2. TypeOK'
        BY <1>3, <2>1 DEF client, hub, TypeOK, AnyReply
    <2>3. NothingBeforeTheQuestion'
        BY <1>3, <2>1 DEF client, hub, TypeOK, NothingBeforeTheQuestion
    <2>4. EventsAreNumbered'
        BY <1>3, <2>1 DEF client, hub, TypeOK, EventsAreNumbered
    <2>5. FirstIsEarliest' /\ FirstIsAnAnswer' /\ NoAnswerIsPassedOver'
        BY <1>3, <2>1, ZenonT(60) DEF client, hub, TypeOK, FirstIsEarliest, FirstIsAnAnswer,
            NoAnswerIsPassedOver, Answers, NothingBeforeTheQuestion
    <2>6. FirstAnswerCounts' /\ TopicEndsWithItsAsk'
        BY <1>3, <2>1 DEF client, hub, TypeOK, FirstAnswerCounts, TopicEndsWithItsAsk
    <2> QED
        BY <2>2, <2>3, <2>4, <2>5, <2>6
\* To move between the steps that leave everything else alone.
<1>4. ASSUME NEW a \in Ask, NEW where \in {"loop", "poll", "aborted"},
             where # "aborted" => pc[a] \in {"loop", "poll"},
             pc[a] # "done",
             Goto(a, where), UNCHANGED <<cursor, asked, cancelled, overdue, result, client, hub>>
      PROVE  AskIInv'
    <2>1. /\ pc' = [pc EXCEPT ![a] = where]
          /\ UNCHANGED <<cursor, asked, cancelled, overdue, result, client, hub>>
        BY <1>4 DEF Goto
    <2>2. TypeOK'
        BY <1>4, <2>1 DEF client, hub, TypeOK, AnyReply
    <2>3. NothingBeforeTheQuestion'
        BY <1>4, <2>1 DEF client, hub, TypeOK, NothingBeforeTheQuestion
    <2>4. EventsAreNumbered'
        BY <1>4, <2>1 DEF client, hub, TypeOK, EventsAreNumbered
    <2>5. FirstIsEarliest' /\ FirstIsAnAnswer' /\ NoAnswerIsPassedOver'
        BY <1>4, <2>1 DEF client, hub, TypeOK, FirstIsEarliest, FirstIsAnAnswer,
            NoAnswerIsPassedOver, Answers, NothingBeforeTheQuestion
    <2>6. FirstAnswerCounts' /\ TopicEndsWithItsAsk'
        BY <1>4, <2>1 DEF client, hub, TypeOK, FirstAnswerCounts, TopicEndsWithItsAsk
    <2> QED
        BY <2>2, <2>3, <2>4, <2>5, <2>6
<1>5. ASSUME NEW a \in Ask, Look(a) PROVE AskIInv'
    <2>1. CASE cancelled[a] \/ overdue[a]
        BY <1>3, <1>5, <2>1 DEF Look
    <2>2. CASE ~(cancelled[a] \/ overdue[a])
        BY <1>4, <1>5, <2>2 DEF Look
    <2> QED
        BY <2>1, <2>2
<1>6. ASSUME NEW a \in Ask, FoundNothing(a) PROVE AskIInv'
    BY <1>4, <1>6 DEF FoundNothing
<1>7. ASSUME NEW a \in Ask, Interrupt(a) PROVE AskIInv'
    <2>1. CASE pc[a] = "poll"
        BY <1>3, <1>7, <2>1 DEF Interrupt
    <2>2. CASE pc[a] # "poll"
        BY <1>4, <1>7, <2>2 DEF Interrupt
    <2> QED
        BY <2>1, <2>2
<1>8. ASSUME NEW a \in Ask, Found(a) PROVE AskIInv'
    <2>0. /\ pc[a] = "poll" /\ Unread(a) # {}
          /\ UNCHANGED <<asked, cancelled, overdue, client, hub>>
        BY <1>8 DEF Found
    <2>1. PICK c \in 1..published[a] : cursor' = [cursor EXCEPT ![a] = c]
        BY <1>8, <2>0, WhatAPollFinds DEF Found
    <2>2. published[a] \in Nat /\ published[a] # 0 /\ a \in asked /\ c \in Nat
        <3>1. published[a] \in Nat
            BY DEF TypeOK
        <3>2. published[a] # 0 /\ c \in Nat
            BY <2>1, <3>1
        <3> QED
            BY <3>1, <3>2 DEF NothingBeforeTheQuestion
    <2>9. EventsAreNumbered'
        <3>1. \A b \in Ask : cursor'[b] = cursor[b] \/ cursor'[b] <= published[b]
            BY <1>0, <2>1, <2>2
        <3> QED
            BY <2>0, <3>1, NumberedStill DEF hub
    <2>3. CASE Answers(rows[a]) # {}
        <3>1. /\ first[a] # None /\ answer_of(first[a]) \in {"accept", "decline", "cancel"}
              /\ result' = [result EXCEPT ![a] = answer_of(first[a])]
              /\ pc' = [pc EXCEPT ![a] = "leave"]
            BY <1>8, <2>0, <2>3, WhatAPollFinds DEF Found, Leave, Goto
        <3>2. TypeOK'
            BY <2>0, <2>1, <2>2, <3>1 DEF client, hub, TypeOK, AnyReply
        <3>3. NothingBeforeTheQuestion'
            BY <2>0, <2>1, <2>2, <3>1 DEF client, hub, TypeOK, NothingBeforeTheQuestion
        <3>5. FirstIsEarliest' /\ FirstIsAnAnswer' /\ NoAnswerIsPassedOver'
            BY <2>0, <2>1, <2>2, <3>1 DEF client, hub, TypeOK, FirstIsEarliest, FirstIsAnAnswer,
                NoAnswerIsPassedOver, Answers, NothingBeforeTheQuestion
        <3>6. FirstAnswerCounts' /\ TopicEndsWithItsAsk'
            BY <2>0, <2>1, <2>2, <3>1 DEF client, hub, TypeOK, FirstAnswerCounts, TopicEndsWithItsAsk
        <3> QED
            BY <2>9, <3>2, <3>3, <3>5, <3>6
    <2>4. CASE Answers(rows[a]) = {}
        <3>1. UNCHANGED result /\ pc' = [pc EXCEPT ![a] = "loop"]
            BY <1>8, <2>0, <2>4, WhatAPollFinds DEF Found, Goto
        <3>2. TypeOK'
            BY <2>0, <2>1, <2>2, <2>4, <3>1 DEF client, hub, TypeOK, AnyReply
        <3>3. NothingBeforeTheQuestion'
            BY <2>0, <2>1, <2>2, <2>4, <3>1 DEF client, hub, TypeOK, NothingBeforeTheQuestion
        <3>5. FirstIsEarliest' /\ FirstIsAnAnswer' /\ NoAnswerIsPassedOver'
            BY <2>0, <2>1, <2>2, <2>4, <3>1 DEF client, hub, TypeOK, FirstIsEarliest, FirstIsAnAnswer,
                NoAnswerIsPassedOver, Answers, NothingBeforeTheQuestion
        <3>6. FirstAnswerCounts' /\ TopicEndsWithItsAsk'
            BY <2>0, <2>1, <2>2, <2>4, <3>1 DEF client, hub, TypeOK, FirstAnswerCounts, TopicEndsWithItsAsk
        <3> QED
            BY <2>9, <3>2, <3>3, <3>5, <3>6
    <2> QED
        BY <2>3, <2>4
<1>9. ASSUME NEW a \in Ask, Delete(a) PROVE AskIInv'
    <2>1. /\ pc[a] = "leave" /\ pc' = [pc EXCEPT ![a] = "done"]
          /\ rows' = [rows EXCEPT ![a] = {}]
          /\ UNCHANGED <<cursor, asked, cancelled, overdue, result, client, published, first, late>>
        BY <1>9 DEF Delete, Goto
    <2>8. \A b \in Ask : rows'[b] = IF b = a THEN {} ELSE rows[b]
        BY <2>1 DEF TypeOK
    <2>9. IsFiniteSet({}) /\ Cardinality({}) = 0
        BY FS_EmptySet
    <2>2. TypeOK'
        BY <2>1, <2>8, <2>9 DEF client, TypeOK, AnyReply
    <2>3. NothingBeforeTheQuestion'
        BY <2>1, <2>8, <2>9 DEF client, TypeOK, NothingBeforeTheQuestion
    <2>4. EventsAreNumbered'
        BY <2>1, <2>8, <2>9 DEF client, TypeOK, EventsAreNumbered
    <2>5. FirstIsEarliest' /\ FirstIsAnAnswer' /\ NoAnswerIsPassedOver'
        BY <2>1, <2>8, <2>9, ZenonT(60) DEF client, TypeOK, FirstIsEarliest, FirstIsAnAnswer,
            NoAnswerIsPassedOver, Answers, NothingBeforeTheQuestion
    <2>6. FirstAnswerCounts'
        BY <2>1 DEF client, FirstAnswerCounts
    <2>7. TopicEndsWithItsAsk'
        <3>1. ASSUME NEW b \in Ask, pc'[b] = "done" PROVE Cardinality(rows'[b]) <= late'[b]
            <4>1. CASE b = a
                BY <1>0, <2>1, <2>8, <2>9, <4>1
            <4>2. CASE b # a
                BY <1>0, <2>1, <2>8, <3>1, <4>2 DEF TopicEndsWithItsAsk
            <4> QED
                BY <4>1, <4>2
        <3> QED
            BY <3>1 DEF TopicEndsWithItsAsk
    <2> QED
        BY <2>2, <2>3, <2>4, <2>5, <2>6, <2>7
<1>10. ASSUME NEW a \in Ask, Due(a) \/ Cancel(a) PROVE AskIInv'
    <2>1. /\ cancelled' \in [Ask -> BOOLEAN] /\ overdue' \in [Ask -> BOOLEAN]
          /\ UNCHANGED <<pc, cursor, asked, result, client, hub>>
        BY <1>10 DEF Due, Cancel, TypeOK
    <2>2. TypeOK'
        BY <2>1 DEF client, hub, TypeOK, AnyReply
    <2>3. NothingBeforeTheQuestion'
        BY <2>1 DEF client, hub, TypeOK, NothingBeforeTheQuestion
    <2>4. EventsAreNumbered'
        BY <2>1 DEF client, hub, TypeOK, EventsAreNumbered
    <2>5. FirstIsEarliest' /\ FirstIsAnAnswer' /\ NoAnswerIsPassedOver'
        BY <2>1 DEF client, hub, TypeOK, FirstIsEarliest, FirstIsAnAnswer,
            NoAnswerIsPassedOver, Answers, NothingBeforeTheQuestion
    <2>6. FirstAnswerCounts' /\ TopicEndsWithItsAsk'
        BY <2>1 DEF client, hub, TypeOK, FirstAnswerCounts, TopicEndsWithItsAsk
    <2> QED
        BY <2>2, <2>3, <2>4, <2>5, <2>6
<1>11. ASSUME NEW a \in Ask, NEW reply \in Reply, Post(a, reply) PROVE AskIInv'
    <2>0. PICK m \in [ask : Ask, n : 0..MaxReplies, reply : AnyReply] :
                m.ask = a /\ inflight' = inflight \cup {m}
        <3>1. posted[a] \in 0..MaxReplies /\ reply \in AnyReply
            BY DEF TypeOK
        <3>2. inflight' = inflight \cup {[ask |-> a, n |-> posted[a], reply |-> reply]}
            BY <1>11 DEF Post
        <3> QED
            BY <3>1, <3>2
    <2>1. TypeOK'
        <3>1. posted' \in [Ask -> 0..MaxReplies]
            BY <1>0, <1>11 DEF Post
        <3> QED
            BY <1>11, <2>0, <3>1 DEF Post, asker, hub, TypeOK
    <2>2. NothingBeforeTheQuestion'
        <3>1. a \in asked /\ UNCHANGED <<asker, hub>>
            BY <1>11 DEF Post
        <3> QED
            BY <2>0, <3>1 DEF asker, hub, NothingBeforeTheQuestion
    <2>3. EventsAreNumbered'
        BY <1>11 DEF Post, asker, hub, TypeOK, EventsAreNumbered
    <2>4. FirstIsEarliest' /\ FirstIsAnAnswer' /\ NoAnswerIsPassedOver'
        BY <1>11 DEF Post, asker, hub, TypeOK, FirstIsEarliest, FirstIsAnAnswer,
            NoAnswerIsPassedOver, Answers, NothingBeforeTheQuestion
    <2>5. FirstAnswerCounts' /\ TopicEndsWithItsAsk'
        BY <1>11 DEF Post, asker, hub, TypeOK, FirstAnswerCounts, TopicEndsWithItsAsk
    <2> QED
        BY <2>1, <2>2, <2>3, <2>4, <2>5
<1>12. ASSUME NEW m \in inflight, Lose(m) PROVE AskIInv'
    BY <1>12 DEF Lose, asker, hub, TypeOK, NothingBeforeTheQuestion, EventsAreNumbered,
        FirstIsEarliest, FirstIsAnAnswer, NoAnswerIsPassedOver, FirstAnswerCounts,
        TopicEndsWithItsAsk, Answers
<1>13. ASSUME NEW m \in inflight, relay_reply(m) PROVE AskIInv'
    <2>1. PICK a \in Ask, reply \in AnyReply : a = m.ask /\ reply = m.reply
        BY DEF TypeOK
    <2>2. a \in asked /\ pc[a] \notin {"subscribe", "emit"}
        BY <2>1 DEF NothingBeforeTheQuestion
    <2>3. PICK row \in [id : Nat, reply : AnyReply] :
                row.id = published[a] + 1 /\ row.reply = reply
        <3>1. [id |-> published[a] + 1, reply |-> reply] \in [id : Nat, reply : AnyReply]
            BY <1>0
        <3> QED
            BY <3>1
    <2>4. row = [id |-> published[a] + 1, reply |-> m.reply]
        BY <2>1, <2>3
    <2>5. /\ inflight' = inflight \ {m}
          /\ published' = [published EXCEPT ![a] = @ + 1]
          /\ rows' = [rows EXCEPT ![a] = @ \cup {row}]
          /\ first' = [first EXCEPT ![a] = IF @ = None /\ reply # "scalar" THEN reply ELSE @]
          /\ late' = [late EXCEPT ![a] = IF pc[a] \in {"done", "aborted"} THEN @ + 1 ELSE @]
          /\ UNCHANGED <<asker, posted>>
        BY <1>13, <2>1, <2>4 DEF relay_reply
    <2>6. /\ rows \in [Ask -> SUBSET [id : Nat, reply : AnyReply]]
          /\ first \in [Ask -> AnyReply \cup {None}]
        BY DEF TypeOK
    <2>7. \A b \in Ask :
            /\ published'[b] = IF b = a THEN published[b] + 1 ELSE published[b]
            /\ rows'[b] = IF b = a THEN rows[b] \cup {row} ELSE rows[b]
            /\ first'[b] = IF b = a /\ first[b] = None /\ reply # "scalar" THEN reply ELSE first[b]
            /\ late'[b] = IF b = a /\ pc[b] \in {"done", "aborted"} THEN late[b] + 1 ELSE late[b]
        BY <1>0, <2>5, <2>6
    <2>8. UNCHANGED <<pc, cursor, asked, result>>
        BY <2>5 DEF asker
    <2>9. TypeOK'
        <3>1. published' \in [Ask -> Nat] /\ late' \in [Ask -> Nat]
            BY <1>0, <2>5
        <3>2. /\ rows' \in [Ask -> SUBSET [id : Nat, reply : AnyReply]]
              /\ first' \in [Ask -> AnyReply \cup {None}]
            BY <2>5, <2>6
        <3> QED
            BY <2>5, <3>1, <3>2 DEF TypeOK, asker
    <2>10. NothingBeforeTheQuestion'
        BY <2>2, <2>5, <2>7, <2>8 DEF NothingBeforeTheQuestion
    <2>11. EventsAreNumbered'
        <3> SUFFICES ASSUME NEW b \in Ask
                     PROVE  /\ IsFiniteSet(rows'[b])
                            /\ \A r \in rows'[b] : r.id \in 1..published'[b]
                            /\ \A r \in rows'[b] : \A other \in rows'[b] : r.id = other.id => r = other
                            /\ cursor'[b] <= published'[b]
            BY DEF EventsAreNumbered
        <3>1. /\ IsFiniteSet(rows[b]) /\ published[b] \in Nat /\ cursor[b] \in Nat
              /\ \A r \in rows[b] : r.id \in 1..published[b]
              /\ \A r \in rows[b] : \A other \in rows[b] : r.id = other.id => r = other
              /\ cursor[b] <= published[b]
            BY <1>0 DEF EventsAreNumbered
        <3>2. CASE b = a
            <4>1. IsFiniteSet(rows[b] \cup {row})
                BY <3>1, FS_AddElement
            <4>2. rows'[b] = rows[b] \cup {row} /\ published'[b] = published[b] + 1
                BY <2>7, <3>2
            <4>3. row.id = published[b] + 1 /\ \A r \in rows[b] : r.id # row.id
                BY <2>3, <3>1, <3>2
            <4> QED
                BY <2>8, <3>1, <4>1, <4>2, <4>3
        <3>3. CASE b # a
            BY <2>7, <2>8, <3>1, <3>3
        <3> QED
            BY <3>2, <3>3
    <2>12. NoAnswerIsPassedOver'
        <3>1. cursor[a] < row.id
            BY <1>0, <2>3 DEF EventsAreNumbered
        <3>2. \A b \in Ask : \A r \in Answers(rows'[b]) : r \in Answers(rows[b]) \/ (b = a /\ r = row)
            BY <2>7 DEF Answers
        <3>3. cursor[a] \in Nat /\ row.id \in Nat
            BY <1>0, <2>3
        <3> QED
            BY <2>8, <3>1, <3>2, <3>3 DEF NoAnswerIsPassedOver, Answers
    <2>13. FirstIsEarliest'
        <3> SUFFICES ASSUME NEW b \in Ask, pc[b] \in {"loop", "poll"}
                     PROVE  /\ first'[b] = None => Answers(rows'[b]) = {}
                            /\ first'[b] # None => \E r \in Answers(rows'[b]) :
                                    /\ r.reply = first'[b]
                                    /\ \A other \in Answers(rows'[b]) : r.id <= other.id
            BY <2>8 DEF FirstIsEarliest, Answers
        <3>1. CASE b # a
            BY <2>7, <3>1 DEF FirstIsEarliest, Answers
        <3>2. CASE b = a /\ reply = "scalar"
            <4>1. first'[b] = first[b] /\ Answers(rows'[b]) = Answers(rows[b])
                BY <2>3, <2>7, <3>2 DEF Answers
            <4> QED
                BY <4>1 DEF FirstIsEarliest
        <3>3. CASE b = a /\ reply # "scalar" /\ first[b] = None
            <4>1. Answers(rows[b]) = {} /\ first'[b] = reply
                BY <2>7, <3>3 DEF FirstIsEarliest
            <4>2. Answers(rows'[b]) = {row}
                BY <2>3, <2>7, <3>3, <4>1 DEF Answers
            <4> QED
                BY <2>3, <4>1, <4>2
        <3>4. CASE b = a /\ reply # "scalar" /\ first[b] # None
            <4>1. first'[b] = first[b] /\ Answers(rows'[b]) = Answers(rows[b]) \cup {row}
                BY <2>3, <2>7, <3>4 DEF Answers
            <4>2. PICK r \in Answers(rows[b]) :
                    r.reply = first[b] /\ \A other \in Answers(rows[b]) : r.id <= other.id
                BY <3>4 DEF FirstIsEarliest
            <4>3. r.id <= row.id
                <5>1. r.id \in 1..published[a]
                    BY <3>4, <4>2 DEF Answers, EventsAreNumbered
                <5> QED
                    BY <1>0, <2>3, <5>1
            <4> QED
                BY <3>4, <4>1, <4>2, <4>3
        <3> QED
            BY <3>1, <3>2, <3>3, <3>4
    <2>14. FirstIsAnAnswer' /\ FirstAnswerCounts'
        BY <2>7, <2>8 DEF FirstIsAnAnswer, FirstAnswerCounts
    <2>15. TopicEndsWithItsAsk'
        <3> SUFFICES ASSUME NEW b \in Ask, pc[b] = "done" PROVE Cardinality(rows'[b]) <= late'[b]
            BY <2>8 DEF TopicEndsWithItsAsk
        <3>1. /\ IsFiniteSet(rows[b]) /\ Cardinality(rows[b]) <= late[b]
              /\ late[b] \in Nat /\ Cardinality(rows[b]) \in Nat
            BY <1>0, FS_CardinalityType DEF EventsAreNumbered, TopicEndsWithItsAsk
        <3>2. \/ Cardinality(rows[b] \cup {row}) = Cardinality(rows[b])
              \/ Cardinality(rows[b] \cup {row}) = Cardinality(rows[b]) + 1
            BY <3>1, FS_AddElement
        <3>3. Cardinality(rows[b] \cup {row}) \in Nat
            BY <3>1, FS_AddElement, FS_CardinalityType
        <3> QED
            BY <2>7, <3>1, <3>2, <3>3
    <2> QED
        BY <2>9, <2>10, <2>11, <2>12, <2>13, <2>14, <2>15
<1>14. CASE UNCHANGED vars
    BY <1>14 DEF vars, TypeOK, NothingBeforeTheQuestion, EventsAreNumbered,
        FirstIsEarliest, FirstIsAnAnswer, NoAnswerIsPassedOver, FirstAnswerCounts,
        TopicEndsWithItsAsk, Answers
<1> QED
    BY <1>1, <1>2, <1>5, <1>6, <1>7, <1>8, <1>9, <1>10, <1>11, <1>12, <1>13, <1>14
    DEF Next, push_ask

\* The asker, the client and the hub keep the types their variables are declared with.
THEOREM AskTypeCorrect == Spec => []TypeOK
<1>1. AskIInv => TypeOK
    BY DEF AskIInv
<1> QED
    BY AskInit, AskStep, <1>1, PTL DEF Spec

\* "Subscribe before sending so fast replies are not missed" (push_ask): no
\* interleaving of posts, polls and repeats takes an answer out of the asker's sight.
THEOREM AskMissesNoAnswer == Spec => []NoAnswerIsPassedOver
<1>1. AskIInv => NoAnswerIsPassedOver
    BY DEF AskIInv
<1> QED
    BY AskInit, AskStep, <1>1, PTL DEF Spec

\* What push_ask returns is answer_of the first answer any worker published.
THEOREM AskTakesTheFirst == Spec => []FirstAnswerCounts
<1>1. AskIInv => FirstAnswerCounts
    BY DEF AskIInv
<1> QED
    BY AskInit, AskStep, <1>1, PTL DEF Spec

\* The finally of push_ask leaves no event in the hub but the stragglers'.
THEOREM AskClearsItsTopic == Spec => []TopicEndsWithItsAsk
<1>1. AskIInv => TopicEndsWithItsAsk
    BY DEF AskIInv
<1> QED
    BY AskInit, AskStep, <1>1, PTL DEF Spec

-----------------------------------------------------------------------------
(* SseQueue.  What a task put is in one place: on the wire, in the batch   *)
(* or in the queue.  These follow one another as the events were put.      *)

\* Everything put so far, as the client is to see it, the sentinel included.
Stream == wire \o batch \o queue
Somewhere == Q!Range(wire) \cup Q!Range(batch) \cup Q!Range(queue)

\* No item is there twice, and none before its task's previous one.
OnceInOrder(s) ==
    \A i \in 1..Len(s) :
        /\ \A j \in 1..(i - 1) : s[j] # s[i]
        /\ s[i] # End /\ s[i][2] > 1 => \E j \in 1..(i - 1) : s[j] = Q!Predecessor(s[i])

PuttersWait ==
    \A i \in 1..Len(putters) :
        /\ q_pc[putters[i]] = "waiting"
        /\ \A j \in 1..Len(putters) : putters[i] = putters[j] => i = j

WriterHoldsItsBatch == writer \in {"reading", "done"} => batch = <<>>

CloserKnows ==
    /\ open <=> q_pc[Closer] = "ready"
    /\ q_pc[Closer] = "returned" => writer = "done"
    /\ writer = "done" /\ ~failed => ~open /\ owed \subseteq Q!Range(wire)

\* Who waits for a slot has an event to put.
WaitersHaveAnEvent ==
    \A p \in Pusher : q_pc[p] \in {"waiting", "woken"} => pushed[p] > 0

\* A task that waits has put everything but its last event, one that is ready
\* on an open stream that too.
PushersKnow ==
    /\ q_pc[Closer] \notin {"joining", "returned"} => End \notin Somewhere
    /\ \A p \in Pusher :
        /\ q_pc[p] \in {"ready", "waiting", "woken", "cancelled"}
        /\ \A k \in 1..MaxPushes : <<p, k>> \in Somewhere => k <= pushed[p]
        /\ q_pc[p] \in {"waiting", "woken"} =>
            /\ <<p, pushed[p]>> \notin Somewhere
            /\ pushed[p] > 1 => <<p, pushed[p] - 1>> \in Somewhere
        /\ q_pc[p] = "ready" /\ open /\ pushed[p] > 0 => <<p, pushed[p]>> \in Somewhere

AheadOfTheEnd ==
    {queue[j] : j \in {i \in 1..Len(queue) : \A k \in 1..i : queue[k] # End}}

\* What close() owes the client is ahead of the sentinel.
OwedIsAhead ==
    ~open /\ ~failed =>
        owed \subseteq Q!Range(wire) \cup Q!Range(batch)
            \cup (IF End \in Q!Range(batch) THEN {} ELSE AheadOfTheEnd)

QueueIInv ==
    /\ Q!TypeOK /\ PuttersWait /\ WaitersHaveAnEvent /\ WriterHoldsItsBatch /\ CloserKnows
    /\ OnceInOrder(wire)
    /\ writer # "done" => OnceInOrder(Stream) /\ PushersKnow /\ OwedIsAhead

(* Lemmas on sequences.                                                    *)

LEMMA RangeOfASequence ==
    ASSUME NEW M, NEW s \in Seq(M)
    PROVE  /\ Q!Range(s) = {s[i] : i \in 1..Len(s)}
           /\ \A i \in 1..Len(s) : s[i] \in Q!Range(s)
           /\ \A x \in Q!Range(s) : \E i \in 1..Len(s) : s[i] = x
           /\ Q!Range(s) \subseteq M
<1>1. DOMAIN s = 1..Len(s) /\ \A i \in 1..Len(s) : s[i] \in M
    BY LenProperties, ElementOfSeq
<1> QED
    BY <1>1 DEF Q!Range

LEMMA RangeOfConcat ==
    ASSUME NEW M, NEW s \in Seq(M), NEW u \in Seq(M)
    PROVE  Q!Range(s \o u) = Q!Range(s) \cup Q!Range(u)
<1>1. /\ s \o u \in Seq(M) /\ Len(s \o u) = Len(s) + Len(u)
      /\ \A i \in 1..Len(s) + Len(u) :
            (s \o u)[i] = IF i <= Len(s) THEN s[i] ELSE u[i - Len(s)]
    BY ConcatProperties
<1>2. Len(s) \in Nat /\ Len(u) \in Nat
    BY LenProperties
<1>3. ASSUME NEW x \in Q!Range(s \o u) PROVE x \in Q!Range(s) \cup Q!Range(u)
    <2>1. PICK i \in 1..Len(s) + Len(u) : x = (s \o u)[i]
        BY <1>1, RangeOfASequence
    <2>2. i <= Len(s) => i \in 1..Len(s) /\ x = s[i]
        BY <1>1, <1>2, <2>1
    <2>3. i > Len(s) => i - Len(s) \in 1..Len(u) /\ x = u[i - Len(s)]
        BY <1>1, <1>2, <2>1
    <2>4. i <= Len(s) \/ i > Len(s)
        BY <1>2
    <2> QED
        BY <2>2, <2>3, <2>4, RangeOfASequence
<1>4. ASSUME NEW x \in Q!Range(s) PROVE x \in Q!Range(s \o u)
    <2>1. PICK i \in 1..Len(s) : s[i] = x
        BY RangeOfASequence
    <2>2. i \in 1..Len(s) + Len(u) /\ (s \o u)[i] = x
        BY <1>1, <1>2, <2>1
    <2> QED
        BY <1>1, <2>2, RangeOfASequence
<1>5. ASSUME NEW x \in Q!Range(u) PROVE x \in Q!Range(s \o u)
    <2>1. PICK i \in 1..Len(u) : u[i] = x
        BY RangeOfASequence
    <2>2. i + Len(s) \in 1..Len(s) + Len(u) /\ ~(i + Len(s) <= Len(s)) /\ i + Len(s) - Len(s) = i
        BY <1>2
    <2>3. (s \o u)[i + Len(s)] = x
        BY <1>1, <2>1, <2>2
    <2> QED
        BY <1>1, <2>2, <2>3, RangeOfASequence
<1> QED
    BY <1>3, <1>4, <1>5

LEMMA RangeOfAppend ==
    ASSUME NEW M, NEW s \in Seq(M), NEW x \in M
    PROVE  Q!Range(Append(s, x)) = Q!Range(s) \cup {x}
<1> DEFINE one == <<x>>
<1>1. Append(s, x) = s \o one /\ one \in Seq(M)
    BY AppendIsConcat
<1>2. Len(one) = 1 /\ one[1] = x
    OBVIOUS
<1> HIDE DEF one
<1>3. {one[i] : i \in 1..1} = {x}
    BY <1>2
<1>4. Q!Range(one) = {x}
    BY <1>1, <1>2, <1>3, RangeOfASequence
<1> QED
    BY <1>1, <1>4, RangeOfConcat

LEMMA HeadAndTail ==
    ASSUME NEW M, NEW s \in Seq(M), s # <<>>
    PROVE  /\ <<Head(s)>> \in Seq(M) /\ Tail(s) \in Seq(M) /\ Len(Tail(s)) = Len(s) - 1
           /\ Head(s) = s[1] /\ \A i \in 1..Len(s) - 1 : Tail(s)[i] = s[i + 1]
           /\ <<Head(s)>> \o Tail(s) = s
           /\ Q!Range(<<Head(s)>>) = {Head(s)}
<1>1. /\ Head(s) \in M /\ Tail(s) \in Seq(M) /\ Len(Tail(s)) = Len(s) - 1
      /\ \A i \in 1..Len(Tail(s)) : Tail(s)[i] = s[i + 1]
    BY HeadTailProperties
<1>2. Head(s) = s[1] /\ Len(s) \in Nat /\ Len(s) > 0
    BY LenProperties, EmptySeq
<1> DEFINE one == <<Head(s)>>
<1>3. one \in Seq(M) /\ Len(one) = 1 /\ one[1] = Head(s)
    BY <1>1
<1> HIDE DEF one
<1> DEFINE rest == Tail(s)
<1> HIDE DEF rest
<1>4. /\ one \o rest \in Seq(M) /\ Len(one \o rest) = Len(one) + Len(rest)
      /\ \A i \in 1..Len(one) + Len(rest) :
            (one \o rest)[i] = IF i <= Len(one) THEN one[i] ELSE rest[i - Len(one)]
    <2>1. rest \in Seq(M)
        BY <1>1 DEF rest
    <2> QED
        BY <1>3, <2>1, ConcatProperties
<1> USE DEF rest
<1>5. ASSUME NEW i \in 1..Len(s) PROVE (one \o Tail(s))[i] = s[i]
    <2>1. i \in 1..1 + Len(Tail(s)) /\ (i = 1 \/ (~(i <= 1) /\ i - 1 \in 1..Len(Tail(s)) /\ i - 1 + 1 = i))
        BY <1>1, <1>2
    <2> QED
        BY <1>1, <1>2, <1>3, <1>4, <2>1
<1>6. one \o Tail(s) = s
    <2>1. Len(one \o Tail(s)) = Len(s)
        BY <1>1, <1>2, <1>3, <1>4
    <2> QED
        BY <1>4, <1>5, <2>1, SeqEqual
<1>7. Q!Range(one) = {Head(s)}
    <2>1. {one[i] : i \in 1..1} = {Head(s)}
        BY <1>3
    <2> QED
        BY <1>3, <2>1, RangeOfASequence
<1> QED
    BY <1>1, <1>2, <1>3, <1>6, <1>7 DEF one

LEMMA AppendAtTheEnd ==
    ASSUME NEW M, NEW s \in Seq(M), NEW q \in Seq(M), NEW x \in M
    PROVE  s \o Append(q, x) = Append(s \o q, x)
<1> DEFINE one == <<x>>
<1>1. s \o q \in Seq(M)
    BY ConcatProperties
<1>2. one \in Seq(M) /\ Append(q, x) = q \o one
    BY AppendIsConcat
<1>3. Append(s \o q, x) = (s \o q) \o one
    BY <1>1, AppendIsConcat
<1> HIDE DEF one
<1>4. (s \o q) \o one = s \o (q \o one)
    BY <1>2, ConcatAssociative
<1> QED
    BY <1>2, <1>3, <1>4

\* An event is a task's push of some number, and so is its predecessor.
LEMMA Predecessors ==
    ASSUME NEW e \in Q!Item, e # End
    PROVE  /\ e \in Q!Event /\ e = <<e[1], e[2]>> /\ e[1] \in Pusher /\ e[2] \in 1..MaxPushes
           /\ e[2] > 1 => Q!Predecessor(e) \in Q!Event /\ Q!Predecessor(e) # End
<1>1. e \in Q!Event
    BY DEF Q!Item
<1>2. PICK p \in Pusher, k \in 1..MaxPushes : e = <<p, k>>
    BY <1>1 DEF Q!Event
<1>3. e[1] = p /\ e[2] = k
    BY <1>2
<1>4. ASSUME k > 1 PROVE Q!Predecessor(e) \in Q!Event /\ Q!Predecessor(e) # End
    <2>1. k - 1 \in 1..MaxPushes
        BY <1>4, QueueConstants
    <2> QED
        BY <1>3, <2>1, QueueConstants DEF Q!Predecessor, Q!Event
<1> QED
    BY <1>1, <1>2, <1>3, <1>4

\* A beginning of what is in order is in order.
LEMMA OrderOfABeginning ==
    ASSUME NEW M, NEW s \in Seq(M), NEW u \in Seq(M), OnceInOrder(s \o u)
    PROVE  OnceInOrder(s)
<1>1. /\ Len(s \o u) = Len(s) + Len(u) /\ Len(s) \in Nat /\ Len(u) \in Nat
      /\ \A i \in 1..Len(s) + Len(u) : i <= Len(s) => (s \o u)[i] = s[i]
    BY ConcatProperties, LenProperties
<1>2. \A i \in 1..Len(s) : /\ i \in 1..Len(s \o u) /\ (s \o u)[i] = s[i]
                           /\ \A j \in 1..(i - 1) : (s \o u)[j] = s[j]
    BY <1>1
<1> QED
    BY <1>2 DEF OnceInOrder

\* An item that is new and follows its predecessor keeps the order.
LEMMA OrderOfAnAppend ==
    ASSUME NEW M, NEW s \in Seq(M), NEW x \in M, OnceInOrder(s),
           x \notin Q!Range(s),
           x # End /\ x[2] > 1 => Q!Predecessor(x) \in Q!Range(s)
    PROVE  OnceInOrder(Append(s, x))
<1> DEFINE w == Append(s, x)
<1>1. /\ w \in Seq(M) /\ Len(w) = Len(s) + 1 /\ Len(s) \in Nat
      /\ \A i \in 1..Len(s) : w[i] = s[i]
      /\ w[Len(s) + 1] = x
    BY AppendProperties, LenProperties
<1> HIDE DEF w
<1> SUFFICES ASSUME NEW i \in 1..Len(w)
             PROVE  /\ \A j \in 1..(i - 1) : w[j] # w[i]
                    /\ w[i] # End /\ w[i][2] > 1 => \E j \in 1..(i - 1) : w[j] = Q!Predecessor(w[i])
    BY DEF OnceInOrder, w
<1>2. CASE i <= Len(s)
    <2>1. i \in 1..Len(s) /\ w[i] = s[i] /\ \A j \in 1..(i - 1) : w[j] = s[j]
        BY <1>1, <1>2
    <2> QED
        BY <2>1 DEF OnceInOrder
<1>3. CASE i = Len(s) + 1
    <2>1. 1..(i - 1) = 1..Len(s) /\ w[i] = x
        BY <1>1, <1>3
    <2>2. /\ \A j \in 1..Len(s) : s[j] # x
          /\ x # End /\ x[2] > 1 => \E j \in 1..Len(s) : s[j] = Q!Predecessor(x)
        BY RangeOfASequence
    <2> QED
        BY <1>1, <2>1, <2>2
<1> QED
    BY <1>1, <1>2, <1>3

\* A sequence without its k-th element.
LEMMA RemovedAt ==
    ASSUME NEW M, NEW b \in Seq(M), NEW k \in 1..Len(b)
    PROVE  /\ Q!RemoveAt(b, k) \in Seq(M) /\ Len(Q!RemoveAt(b, k)) = Len(b) - 1
           /\ \A i \in 1..Len(b) - 1 : Q!RemoveAt(b, k)[i] = IF i < k THEN b[i] ELSE b[i + 1]
<1>1. Len(b) \in Nat /\ \A i \in 1..Len(b) : b[i] \in M
    BY LenProperties, ElementOfSeq
<1> DEFINE l == SubSeq(b, 1, k - 1)
           r == SubSeq(b, k + 1, Len(b))
<1>2. /\ l \in Seq(M) /\ Len(l) = k - 1 /\ \A i \in 1..k - 1 : l[i] = b[i]
    <2>1. 1 \in Int /\ k - 1 \in Int /\ \A i \in 1..k - 1 : b[i] \in M
        BY <1>1
    <2>2. /\ SubSeq(b, 1, k - 1) \in Seq(M)
          /\ Len(SubSeq(b, 1, k - 1)) = IF 1 <= k - 1 THEN k - 1 - 1 + 1 ELSE 0
          /\ \A i \in 1..k - 1 - 1 + 1 : SubSeq(b, 1, k - 1)[i] = b[1 + i - 1]
        BY <2>1, SubSeqProperties
    <2> QED
        BY <1>1, <2>2
<1>3. /\ r \in Seq(M) /\ Len(r) = Len(b) - k
      /\ \A i \in 1..Len(b) - k : r[i] = b[i + k]
    <2>1. k + 1 \in Int /\ Len(b) \in Int /\ \A i \in k + 1..Len(b) : b[i] \in M
        BY <1>1
    <2>2. /\ SubSeq(b, k + 1, Len(b)) \in Seq(M)
          /\ Len(SubSeq(b, k + 1, Len(b))) = IF k + 1 <= Len(b) THEN Len(b) - (k + 1) + 1 ELSE 0
          /\ \A i \in 1..Len(b) - (k + 1) + 1 : SubSeq(b, k + 1, Len(b))[i] = b[k + 1 + i - 1]
        BY <2>1, SubSeqProperties
    <2>3. /\ Len(b) - (k + 1) + 1 = Len(b) - k
          /\ k + 1 <= Len(b) \/ Len(b) - k = 0
          /\ \A i \in 1..Len(b) - k : k + 1 + i - 1 = i + k
        <3> HIDE DEF l, r
        <3>1. k \in Int /\ Len(b) \in Int /\ k <= Len(b)
            BY <1>1
        <3> QED
            BY <3>1
    <2>4. Len(r) = Len(b) - k
        BY <1>1, <2>2, <2>3
    <2>5. \A i \in 1..Len(b) - k : r[i] = b[i + k]
        BY <2>2, <2>3
    <2> QED
        BY <2>2, <2>4, <2>5
<1>4. Q!RemoveAt(b, k) = l \o r
    BY DEF Q!RemoveAt
<1> HIDE DEF l, r
<1>5. /\ l \o r \in Seq(M) /\ Len(l \o r) = Len(l) + Len(r)
      /\ \A i \in 1..Len(l) + Len(r) : (l \o r)[i] = IF i <= Len(l) THEN l[i] ELSE r[i - Len(l)]
    BY <1>2, <1>3, ConcatProperties
<1>6. Len(l) + Len(r) = Len(b) - 1
    BY <1>1, <1>2, <1>3
<1>7. ASSUME NEW i \in 1..Len(b) - 1 PROVE (l \o r)[i] = IF i < k THEN b[i] ELSE b[i + 1]
    <2>1. CASE i < k
        <3>1. i <= Len(l) /\ i \in 1..k - 1
            BY <1>1, <1>2, <2>1
        <3> QED
            BY <1>2, <1>5, <1>6, <2>1, <3>1
    <2>2. CASE ~(i < k)
        <3>1. /\ ~(i <= Len(l)) /\ i - Len(l) \in 1..Len(b) - k /\ i - Len(l) + k = i + 1
            BY <1>1, <1>2, <2>2
        <3> QED
            BY <1>3, <1>5, <1>6, <2>2, <3>1
    <2> QED
        BY <2>1, <2>2
<1> QED
    BY <1>4, <1>5, <1>6, <1>7

\* The sentinel is nobody's predecessor: the order does without it.
LEMMA OrderWithoutTheEnd ==
    ASSUME NEW s \in Seq(Q!Item), NEW b \in Seq(Q!Item), OnceInOrder(s \o b)
    PROVE  /\ Q!Unended(b) \in Seq(Q!Item)
           /\ Q!Range(Q!Unended(b)) = Q!Range(b) \ {End}
           /\ OnceInOrder(s \o Q!Unended(b))
<1>1. CASE End \notin Q!Range(b)
    BY <1>1 DEF Q!Unended, Q!Without
<1>2. CASE End \in Q!Range(b)
    <2>1. DOMAIN b = 1..Len(b) /\ Len(b) \in Nat /\ Len(s) \in Nat
        BY LenProperties
    <2>2. PICK k \in 1..Len(b) : b[k] = End /\ Q!Unended(b) = Q!RemoveAt(b, k)
        <3>1. \E k \in DOMAIN b : b[k] = End
            BY <1>2 DEF Q!Range
        <3> QED
            BY <1>2, <2>1, <3>1 DEF Q!Unended, Q!Without
    <2> DEFINE d == Q!RemoveAt(b, k)
               w == s \o b
               v == s \o d
               n == Len(s) + k
    <2>3. /\ d \in Seq(Q!Item) /\ Len(d) = Len(b) - 1
          /\ \A i \in 1..Len(b) - 1 : d[i] = IF i < k THEN b[i] ELSE b[i + 1]
        BY RemovedAt
    <2> HIDE DEF d
    <2>5. /\ w \in Seq(Q!Item) /\ Len(w) = Len(s) + Len(b)
          /\ \A i \in 1..Len(s) + Len(b) : w[i] = IF i <= Len(s) THEN s[i] ELSE b[i - Len(s)]
        BY ConcatProperties
    <2>7. /\ v \in Seq(Q!Item) /\ Len(v) = Len(s) + Len(d)
          /\ \A i \in 1..Len(s) + Len(d) : v[i] = IF i <= Len(s) THEN s[i] ELSE d[i - Len(s)]
        BY <2>3, ConcatProperties
    <2> HIDE DEF w, v
    <2>8. Len(v) = Len(w) - 1 /\ n \in 1..Len(w) /\ w[n] = End
        <3>1. Len(v) = Len(w) - 1
            BY <2>1, <2>3, <2>5, <2>7
        <3>2. n \in 1..Len(s) + Len(b) /\ ~(n <= Len(s)) /\ n - Len(s) = k
            BY <2>1
        <3> QED
            BY <2>2, <2>5, <3>1, <3>2
    <2>9. \A i \in 1..Len(v) : v[i] = IF i < n THEN w[i] ELSE w[i + 1]
        <3> SUFFICES ASSUME NEW i \in 1..Len(v) PROVE v[i] = IF i < n THEN w[i] ELSE w[i + 1]
            OBVIOUS
        <3>0. i \in Nat /\ i \in 1..Len(s) + Len(d) /\ i + 1 \in 1..Len(s) + Len(b)
            BY <2>1, <2>3, <2>7
        <3>1. CASE i <= Len(s)
            BY <2>1, <2>5, <2>7, <3>0, <3>1
        <3>2. CASE i > Len(s)
            <4>1. /\ i - Len(s) \in 1..Len(b) - 1 /\ i - Len(s) + 1 = i + 1 - Len(s)
                  /\ i < n <=> i - Len(s) < k
                  /\ ~(i <= Len(s)) /\ ~(i + 1 <= Len(s)) /\ i \in 1..Len(s) + Len(b)
                BY <2>1, <2>3, <3>0, <3>2, SMTT(60)
            <4>2. v[i] = IF i < n THEN b[i - Len(s)] ELSE b[i + 1 - Len(s)]
                BY <2>3, <2>7, <3>0, <4>1
            <4> QED
                BY <2>5, <3>0, <4>1, <4>2
        <3> QED
            BY <2>1, <3>0, <3>1, <3>2
    <2>10. OnceInOrder(v)
        <3>0. OnceInOrder(w) /\ Len(v) \in Nat /\ Len(w) \in Nat /\ n \in Nat
            BY <2>1, <2>5, <2>8 DEF w
        <3> DEFINE from(i) == IF i < n THEN i ELSE i + 1
        <3>1. \A i \in 1..Len(v) : /\ from(i) \in 1..Len(w) /\ v[i] = w[from(i)]
                                  /\ \A j \in 1..(i - 1) : from(j) \in 1..(from(i) - 1)
            BY <2>8, <2>9, <3>0
        <3>2. \A i \in 1..Len(v) : \A j \in 1..(from(i) - 1) :
                    j = n \/ \E m \in 1..(i - 1) : from(m) = j
            <4> SUFFICES ASSUME NEW i \in 1..Len(v), NEW j \in 1..(from(i) - 1), j # n
                         PROVE  \E m \in 1..(i - 1) : from(m) = j
                OBVIOUS
            <4>1. CASE j < n
                <5>1. j \in 1..(i - 1) /\ from(j) = j
                    BY <3>0, <4>1
                <5> QED
                    BY <5>1
            <4>2. CASE j > n
                <5>1. j - 1 \in 1..(i - 1) /\ from(j - 1) = j
                    BY <3>0, <4>2
                <5> QED
                    BY <5>1
            <4> QED
                BY <3>0, <4>1, <4>2
        <3> HIDE DEF from
        <3> SUFFICES ASSUME NEW i \in 1..Len(v)
                     PROVE  /\ \A j \in 1..(i - 1) : v[j] # v[i]
                            /\ v[i] # End /\ v[i][2] > 1 =>
                                    \E j \in 1..(i - 1) : v[j] = Q!Predecessor(v[i])
            BY DEF OnceInOrder
        <3>3. \A j \in 1..(i - 1) : j \in 1..Len(v)
            BY <3>0
        <3>4. \A j \in 1..(i - 1) : v[j] # v[i]
            <4>1. \A j \in 1..(from(i) - 1) : w[j] # w[from(i)]
                BY <3>0, <3>1 DEF OnceInOrder
            <4> QED
                BY <3>1, <3>3, <4>1
        <3>5. ASSUME v[i] # End, v[i][2] > 1
              PROVE  \E j \in 1..(i - 1) : v[j] = Q!Predecessor(v[i])
            <4>1. PICK j \in 1..(from(i) - 1) : w[j] = Q!Predecessor(v[i])
                BY <3>0, <3>1, <3>5, SMTT(60) DEF OnceInOrder
            <4>2. w[j] # End
                <5>1. v[i] \in Q!Item
                    BY <2>7, ElementOfSeq
                <5> QED
                    BY <3>5, <4>1, <5>1, Predecessors
            <4>3. PICK m \in 1..(i - 1) : from(m) = j
                BY <2>8, <3>2, <4>2
            <4> QED
                BY <3>1, <3>3, <4>1, <4>3
        <3> QED
            BY <3>4, <3>5
    <2>11. Q!Range(d) = Q!Range(b) \ {End}
        <3>2. ASSUME NEW j \in 1..Len(b), b[j] = End PROVE j = k
            <4>1. /\ Len(s) + j \in 1..Len(s) + Len(b) /\ ~(Len(s) + j <= Len(s))
                  /\ Len(s) + j - Len(s) = j
                BY <2>1
            <4>2. w[Len(s) + j] = End
                BY <2>5, <3>2, <4>1
            <4>3. ~(Len(s) + j < n) /\ ~(n < Len(s) + j)
                <5>1. \A i \in 1..Len(s) + Len(b) : \A m \in 1..(i - 1) : w[m] # w[i]
                    <6>1. OnceInOrder(w)
                        BY DEF w
                    <6> QED
                        BY <2>5, <6>1 DEF OnceInOrder
                <5>2. Len(s) + j < n => Len(s) + j \in 1..(n - 1)
                    BY <2>1
                <5>3. n < Len(s) + j => n \in 1..(Len(s) + j - 1)
                    BY <2>1
                <5>4. PICK at : at = Len(s) + j /\ at \in 1..Len(s) + Len(b) /\ w[at] = End
                    BY <4>1, <4>2
                <5>5. ~(at < n)
                    <6>1. at < n => at \in 1..(n - 1)
                        BY <5>2, <5>4
                    <6> QED
                        BY <2>5, <2>8, <5>1, <5>4, <6>1
                <5>6. ~(n < at)
                    <6>1. n < at => n \in 1..(at - 1)
                        BY <5>3, <5>4
                    <6> QED
                        BY <2>5, <2>8, <5>1, <5>4, <6>1
                <5> QED
                    BY <5>4, <5>5, <5>6
            <4> QED
                BY <2>1, <4>3
        <3>3. /\ \A j \in 1..Len(b) : j = k \/ (j < k /\ j \in 1..Len(b) - 1)
                                      \/ (~(j - 1 < k) /\ j - 1 \in 1..Len(b) - 1 /\ j - 1 + 1 = j)
              /\ \A i \in 1..Len(b) - 1 : /\ i \in 1..Len(b) /\ i + 1 \in 1..Len(b)
                                          /\ i < k => i # k
                                          /\ ~(i < k) => i + 1 # k
            BY <2>1
        <3>4. ASSUME NEW x \in Q!Range(d) PROVE x \in Q!Range(b) \ {End}
            <4>1. PICK i \in 1..Len(b) - 1 : x = d[i]
                BY <2>3, RangeOfASequence
            <4>2. PICK j \in 1..Len(b) : j # k /\ x = b[j]
                BY <2>3, <3>3, <4>1
            <4> QED
                BY <3>2, <4>2, RangeOfASequence
        <3>5. ASSUME NEW x \in Q!Range(b) \ {End} PROVE x \in Q!Range(d)
            <4>1. PICK j \in 1..Len(b) : x = b[j]
                BY RangeOfASequence
            <4>2. j # k
                BY <2>2, <4>1
            <4>3. PICK i \in 1..Len(b) - 1 : d[i] = x
                BY <2>3, <3>3, <4>1, <4>2
            <4> QED
                BY <2>3, <4>3, RangeOfASequence
        <3> QED
            BY <3>4, <3>5
    <2> QED
        BY <2>2, <2>3, <2>10, <2>11 DEF d, v
<1> QED
    BY <1>1, <1>2

-----------------------------------------------------------------------------
(* Lemmas on the queue.                                                    *)

LEMMA QueueInit == Q!Init => QueueIInv
<1> SUFFICES ASSUME Q!Init PROVE QueueIInv
    OBVIOUS
<1> USE QueueConstants DEF Q!Init
<1>1. /\ wire = <<>> /\ batch = <<>> /\ queue = <<>> /\ putters = <<>>
      /\ Len(<<>>) = 0 /\ \A M : <<>> \in Seq(M)
    BY EmptySeq
<1>2. Stream = <<>> /\ OnceInOrder(<<>>)
    <2>1. wire \o batch \o queue = <<>>
        BY <1>1, ConcatEmptySeq
    <2> QED
        BY <1>1, <2>1 DEF Stream, OnceInOrder
<1>3. Somewhere = {}
    <2>1. Q!Range(<<>>) = {}
        BY DEF Q!Range
    <2> QED
        BY <1>1, <2>1 DEF Somewhere
<1>4. Q!TypeOK
    <2>1. pushed \in [Pusher -> 0..MaxPushes] /\ Len(queue) <= MaxQueue
        BY <1>1
    <2> QED
        BY <1>1, <2>1 DEF Q!TypeOK
<1>5. PuttersWait /\ WriterHoldsItsBatch /\ CloserKnows
    BY <1>1 DEF PuttersWait, WriterHoldsItsBatch, CloserKnows, Q!Task
<1>6. PushersKnow /\ WaitersHaveAnEvent
    BY <1>3 DEF PushersKnow, WaitersHaveAnEvent, Q!Task
<1> QED
    BY <1>1, <1>2, <1>4, <1>5, <1>6 DEF QueueIInv, OwedIsAhead

\* The stream is a sequence of items, and holds what is somewhere.
LEMMA StreamItems ==
    ASSUME Q!TypeOK
    PROVE  /\ wire \in Seq(Q!Item) /\ batch \in Seq(Q!Item) /\ queue \in Seq(Q!Item)
           /\ wire \o batch \in Seq(Q!Item) /\ Stream \in Seq(Q!Item)
           /\ Stream = wire \o (batch \o queue)
           /\ Q!Range(Stream) = Somewhere
<1>1. wire \in Seq(Q!Item) /\ batch \in Seq(Q!Item) /\ queue \in Seq(Q!Item)
    <2>1. Q!Event \subseteq Q!Item
        BY DEF Q!Item
    <2> QED
        BY <2>1, SeqMonotonic DEF Q!TypeOK
<1>2. wire \o batch \in Seq(Q!Item) /\ Stream \in Seq(Q!Item)
    BY <1>1, ConcatProperties DEF Stream
<1>3. Stream = wire \o (batch \o queue)
    BY <1>1, ConcatAssociative DEF Stream
<1>4. Q!Range(Stream) = Q!Range(wire \o batch) \cup Q!Range(queue)
    BY <1>1, <1>2, RangeOfConcat, ZenonT(60) DEF Stream
<1>5. Q!Range(wire \o batch) = Q!Range(wire) \cup Q!Range(batch)
    BY <1>1, RangeOfConcat
<1> QED
    BY <1>1, <1>2, <1>3, <1>4, <1>5 DEF Somewhere

States == {"ready", "waiting", "woken", "joining", "returned", "cancelled"}

\* Tasks that waited were woken or cancelled, the others stay where they are.
Roused ==
    \A t \in Q!Task :
        \/ q_pc'[t] = q_pc[t]
        \/ q_pc[t] \in {"waiting", "woken"} /\ q_pc'[t] \in {"woken", "cancelled"}

LEMMA Wakes ==
    ASSUME NEW n \in Nat, Q!TypeOK, PuttersWait, Q!Wake(n)
    PROVE  /\ putters' \in Seq(Q!Task) /\ q_pc' \in [Q!Task -> States]
           /\ PuttersWait' /\ Roused
<1>0. /\ putters \in Seq(Q!Task) /\ Len(putters) \in Nat
      /\ \A i \in 1..Len(putters) : putters[i] \in Q!Task
      /\ q_pc \in [Q!Task -> States]
    BY LenProperties, ElementOfSeq DEF Q!TypeOK, States
<1>1. PICK k \in 0..Len(putters) :
        /\ putters' = SubSeq(putters, k + 1, Len(putters))
        /\ q_pc' = [t \in Q!Task |-> IF t \in {putters[i] : i \in 1..k} THEN "woken" ELSE q_pc[t]]
    <2>1. (IF n < Len(putters) THEN n ELSE Len(putters)) \in 0..Len(putters)
        BY <1>0
    <2> QED
        BY <2>1 DEF Q!Wake
<1>2. /\ putters' \in Seq(Q!Task) /\ Len(putters') = Len(putters) - k
      /\ \A i \in 1..Len(putters') : putters'[i] = putters[i + k]
    <2>1. k + 1 \in Int /\ Len(putters) \in Int /\ \A i \in k + 1..Len(putters) : putters[i] \in Q!Task
        BY <1>0
    <2>2. /\ putters' \in Seq(Q!Task)
          /\ Len(putters') = IF k + 1 <= Len(putters) THEN Len(putters) - (k + 1) + 1 ELSE 0
          /\ \A i \in 1..Len(putters) - (k + 1) + 1 : putters'[i] = putters[k + 1 + i - 1]
        BY <1>1, <2>1, SubSeqProperties
    <2>3. /\ Len(putters) - (k + 1) + 1 = Len(putters) - k
          /\ k + 1 <= Len(putters) \/ Len(putters) - k = 0
          /\ \A i \in 1..Len(putters) - k : k + 1 + i - 1 = i + k
        BY <1>0
    <2> QED
        BY <2>2, <2>3
<1>3. \A t \in Q!Task : q_pc'[t] = IF \E i \in 1..k : putters[i] = t THEN "woken" ELSE q_pc[t]
    BY <1>1
<1>4. \A i \in 1..k : i \in 1..Len(putters)
    BY <1>0
<1>5. q_pc' \in [Q!Task -> States]
    BY <1>0, <1>1 DEF States
<1>6. Roused
    BY <1>3, <1>4 DEF Roused, PuttersWait
<1>7. PuttersWait'
    <2>1. \A i \in 1..Len(putters') : i + k \in 1..Len(putters) /\ \A j \in 1..k : j # i + k
        BY <1>0, <1>2
    <2>2. ASSUME NEW i \in 1..Len(putters') PROVE q_pc'[putters'[i]] = "waiting"
        <3>1. \A j \in 1..k : putters[j] # putters[i + k]
            BY <1>4, <2>1 DEF PuttersWait
        <3>2. putters[i + k] \in Q!Task /\ q_pc[putters[i + k]] = "waiting"
            BY <1>0, <2>1 DEF PuttersWait
        <3> QED
            BY <1>2, <1>3, <3>1, <3>2
    <2>3. ASSUME NEW i \in 1..Len(putters'), NEW j \in 1..Len(putters'), putters'[i] = putters'[j]
          PROVE  i = j
        <3>1. putters[i + k] = putters[j + k] /\ i + k \in 1..Len(putters) /\ j + k \in 1..Len(putters)
            BY <1>2, <2>1, <2>3
        <3>2. i + k = j + k
            BY <3>1 DEF PuttersWait
        <3>3. i \in Int /\ j \in Int /\ k \in Int
            BY <1>0, <1>2
        <3> QED
            BY <3>2, <3>3
    <2> QED
        BY <2>2, <2>3 DEF PuttersWait
<1> QED
    BY <1>2, <1>5, <1>6, <1>7

\* What the tasks know is as true after others were woken.
LEMMA StillKnown ==
    ASSUME Roused, UNCHANGED <<open, pushed>>, Somewhere' = Somewhere, PushersKnow
    PROVE  PushersKnow' /\ (WaitersHaveAnEvent => WaitersHaveAnEvent')
<1>1. \A p \in Pusher : p \in Q!Task
    BY DEF Q!Task
<1>2. Closer \in Q!Task
    BY DEF Q!Task
<1>3. (q_pc[Closer] \notin {"joining", "returned"} => End \notin Somewhere)
        => (q_pc'[Closer] \notin {"joining", "returned"} => End \notin Somewhere)
    BY <1>2 DEF Roused
<1> QED
    BY <1>1, <1>3 DEF Roused, PushersKnow, WaitersHaveAnEvent

\* A step that moves items within the stream keeps the rest of the invariant.
LEMMA StreamStays ==
    ASSUME QueueIInv, Roused, Q!TypeOK', PuttersWait', WriterHoldsItsBatch',
           UNCHANGED <<open, pushed, failed, owed>>,
           writer # "done", writer' # "done",
           Stream' = Stream, Somewhere' = Somewhere, OnceInOrder(wire'), OwedIsAhead'
    PROVE  QueueIInv'
<1>1. PushersKnow' /\ WaitersHaveAnEvent'
    BY StillKnown DEF QueueIInv
<1>2. CloserKnows'
    <2>1. Closer \in Q!Task
        BY DEF Q!Task
    <2> QED
        BY <2>1 DEF Roused, CloserKnows, QueueIInv
<1> QED
    BY <1>1, <1>2 DEF QueueIInv

\* A put: the task waits for a slot, or its item is the last of the stream.
LEMMA Puts ==
    ASSUME QueueIInv, NEW t \in Q!Task, NEW x \in Q!Item, q_pc[t] \in {"ready", "woken"},
           Q!Put(t, x), UNCHANGED <<wire, batch>>,
           writer # "done" =>
                /\ x \notin Somewhere
                /\ x # End /\ x[2] > 1 => Q!Predecessor(x) \in Somewhere
    PROVE  /\ queue' \in Seq(Q!Item) /\ Len(queue') <= MaxQueue
           /\ putters' \in Seq(Q!Task) /\ q_pc' \in [Q!Task -> States]
           /\ PuttersWait'
           /\ writer # "done" => OnceInOrder(Stream')
           /\ \/ /\ q_pc' = [q_pc EXCEPT ![t] = "waiting"]
                 /\ queue' = queue /\ Somewhere' = Somewhere
              \/ /\ q_pc' = [q_pc EXCEPT ![t] = Q!Queued(t)]
                 /\ queue' = Append(queue, x) /\ Somewhere' = Somewhere \cup {x}
           /\ AheadOfTheEnd \subseteq AheadOfTheEnd'
<1>0. /\ queue \in Seq(Q!Item) /\ Len(queue) <= MaxQueue /\ Len(queue) \in Nat /\ MaxQueue \in Nat
      /\ putters \in Seq(Q!Task) /\ Len(putters) \in Nat /\ q_pc \in [Q!Task -> States]
      /\ batch \in Seq(Q!Item) /\ wire \in Seq(Q!Item) /\ Q!TypeOK
      /\ \A i \in 1..Len(putters) : putters[i] \in Q!Task
    BY StreamItems, LenProperties, ElementOfSeq, QueueConstants DEF QueueIInv, Q!TypeOK, States
<1>1. CASE Q!Full
    <2>1. /\ putters' = Append(putters, t) /\ q_pc' = [q_pc EXCEPT ![t] = "waiting"]
          /\ queue' = queue
        BY <1>1 DEF Q!Put
    <2>2. /\ putters' \in Seq(Q!Task) /\ Len(putters') = Len(putters) + 1
          /\ \A i \in 1..Len(putters) : putters'[i] = putters[i]
          /\ putters'[Len(putters) + 1] = t
        BY <1>0, <2>1, AppendProperties
    <2>3. PuttersWait'
        <3>1. \A i \in 1..Len(putters') : i \in 1..Len(putters) \/ i = Len(putters) + 1
            BY <1>0, <2>2
        <3>2. \A i \in 1..Len(putters) : putters[i] # t
            BY DEF QueueIInv, PuttersWait
        <3>3. \A i \in 1..Len(putters') : q_pc'[putters'[i]] = "waiting"
            BY <1>0, <2>1, <2>2, <3>1, <3>2 DEF QueueIInv, PuttersWait
        <3>4. \A i, j \in 1..Len(putters') : putters'[i] = putters'[j] => i = j
            BY <2>2, <3>1, <3>2 DEF QueueIInv, PuttersWait
        <3> QED
            BY <3>3, <3>4 DEF PuttersWait
    <2>4. Stream' = Stream /\ Somewhere' = Somewhere /\ AheadOfTheEnd' = AheadOfTheEnd
        BY <2>1 DEF Stream, Somewhere, AheadOfTheEnd
    <2>5. q_pc' \in [Q!Task -> States]
        BY <1>0, <2>1 DEF States
    <2> QED
        BY <1>0, <2>1, <2>2, <2>3, <2>4, <2>5 DEF QueueIInv
<1>2. CASE ~Q!Full
    <2>1. /\ queue' = Append(queue, x) /\ q_pc' = [q_pc EXCEPT ![t] = Q!Queued(t)]
          /\ putters' = putters
        BY <1>2 DEF Q!Put
    <2>2. /\ queue' \in Seq(Q!Item) /\ Len(queue') = Len(queue) + 1
          /\ \A i \in 1..Len(queue) : queue'[i] = queue[i]
        BY <1>0, <2>1, AppendProperties
    <2>3. Len(queue') <= MaxQueue
        BY <1>0, <1>2, <2>2 DEF Q!Full
    <2>4. q_pc' \in [Q!Task -> States]
        BY <1>0, <2>1 DEF States, Q!Queued
    <2>5. PuttersWait'
        <3>1. \A i \in 1..Len(putters) : putters[i] # t
            BY DEF QueueIInv, PuttersWait
        <3> QED
            BY <1>0, <2>1, <3>1 DEF QueueIInv, PuttersWait
    <2>6. Somewhere' = Somewhere \cup {x}
        <3>1. Q!Range(queue') = Q!Range(queue) \cup {x}
            BY <1>0, <2>1, RangeOfAppend
        <3> QED
            BY <3>1 DEF Somewhere, Q!Range
    <2>7. ASSUME writer # "done" PROVE OnceInOrder(Stream')
        <3>1. Stream' = Append(Stream, x)
            <4>1. wire \o batch \in Seq(Q!Item)
                BY <1>0, StreamItems
            <4>2. (wire \o batch) \o Append(queue, x) = Append((wire \o batch) \o queue, x)
                BY <1>0, <4>1, AppendAtTheEnd
            <4> QED
                BY <2>1, <4>2 DEF Stream
        <3>2. Stream \in Seq(Q!Item) /\ Q!Range(Stream) = Somewhere /\ OnceInOrder(Stream)
            BY <1>0, <2>7, StreamItems DEF QueueIInv
        <3> QED
            BY <2>7, <3>1, <3>2, OrderOfAnAppend
    <2>8. AheadOfTheEnd \subseteq AheadOfTheEnd'
        <3> SUFFICES ASSUME NEW i \in 1..Len(queue), \A k \in 1..i : queue[k] # End
                     PROVE  /\ i \in 1..Len(queue') /\ queue'[i] = queue[i]
                            /\ \A k \in 1..i : queue'[k] # End
            BY DEF AheadOfTheEnd
        <3> QED
            BY <1>0, <2>2
    <2> QED
        BY <1>0, <2>1, <2>2, <2>3, <2>4, <2>5, <2>6, <2>7, <2>8
<1> QED
    BY <1>1, <1>2

\* What a put leaves alone, and how the rest of the invariant follows.
LEMMA PutKeeps ==
    ASSUME QueueIInv, NEW t \in Q!Task, q_pc[t] \in {"ready", "woken"},
           NEW x, x = IF t = Closer THEN End ELSE <<t, pushed'[t]>>,
           Q!Put(t, x),
           UNCHANGED <<writer, batch, wire, failed>>,
           \/ UNCHANGED <<open, owed>>
           \/ /\ open' = FALSE /\ t = Closer /\ open
              /\ owed' = Q!Event \cap (Q!Range(queue) \cup Q!Range(batch)),
           t = Closer => (q_pc[t] = "ready" => ~open') /\ pushed' = pushed,
           t # Closer /\ q_pc[t] = "ready" =>
                open /\ pushed[t] < MaxPushes /\ pushed' = [pushed EXCEPT ![t] = @ + 1],
           t # Closer /\ q_pc[t] = "woken" => pushed' = pushed,
           q_pc[t] = "ready" => writer # "done"
    PROVE  QueueIInv'
<1>0. /\ pushed \in [Pusher -> 0..MaxPushes] /\ q_pc \in [Q!Task -> States] /\ Q!TypeOK
      /\ Closer \notin Pusher /\ MaxPushes \in Nat /\ End \notin Q!Event
      /\ Q!Task = Pusher \cup {Closer}
    BY QueueConstants DEF QueueIInv, Q!TypeOK, States, Q!Event, Q!Task
<1>1. pushed' \in [Pusher -> 0..MaxPushes] /\ \A p \in Pusher \ {t} : pushed'[p] = pushed[p]
    BY <1>0
\* The item is one, and new, and its predecessor went before.
<1>9. x \in Q!Item /\ (t # Closer => x # End /\ pushed'[t] > 0)
    <2>1. ASSUME t # Closer PROVE x \in Q!Event /\ pushed'[t] > 0
        <3>1. t \in Pusher /\ pushed'[t] \in 1..MaxPushes
            BY <1>0, <1>1, <2>1 DEF QueueIInv, WaitersHaveAnEvent
        <3> QED
            BY <2>1, <3>1 DEF Q!Event
    <2> QED
        BY <1>0, <2>1 DEF Q!Item
<1>2. ASSUME writer # "done"
      PROVE  x \notin Somewhere /\ (x # End /\ x[2] > 1 => Q!Predecessor(x) \in Somewhere)
    <2>0. PushersKnow
        BY <1>2 DEF QueueIInv
    <2>1. CASE t = Closer
        <3>1. q_pc[Closer] \notin {"joining", "returned"}
            BY <2>1
        <3> QED
            BY <2>0, <2>1, <3>1 DEF PushersKnow
    <2>2. CASE t # Closer /\ q_pc[t] = "ready"
        <3>1. t \in Pusher /\ open /\ pushed[t] \in 0..MaxPushes /\ pushed'[t] = pushed[t] + 1
            BY <1>0, <2>2
        <3>2. x = <<t, pushed[t] + 1>> /\ x[2] = pushed[t] + 1 /\ x[1] = t
              /\ pushed[t] + 1 \in 1..MaxPushes
            BY <1>0, <2>2, <3>1
        <3>3. x \notin Somewhere
            <4>1. ~(pushed[t] + 1 <= pushed[t])
                BY <3>1
            <4> QED
                BY <2>0, <3>1, <3>2, <4>1 DEF PushersKnow
        <3>4. ASSUME x[2] > 1 PROVE Q!Predecessor(x) \in Somewhere
            <4>1. pushed[t] > 0 /\ Q!Predecessor(x) = <<t, pushed[t]>>
                BY <3>1, <3>2, <3>4 DEF Q!Predecessor
            <4> QED
                BY <2>0, <2>2, <3>1, <4>1 DEF PushersKnow
        <3> QED
            BY <3>3, <3>4
    <2>3. CASE t # Closer /\ q_pc[t] = "woken"
        <3>1. t \in Pusher /\ x = <<t, pushed[t]>> /\ x[1] = t /\ x[2] = pushed[t]
            BY <1>0, <2>3
        <3> QED
            BY <2>0, <2>3, <3>1 DEF PushersKnow, Q!Predecessor
    <2> QED
        BY <2>1, <2>2, <2>3
<1>3. /\ queue' \in Seq(Q!Item) /\ Len(queue') <= MaxQueue
      /\ putters' \in Seq(Q!Task) /\ q_pc' \in [Q!Task -> States]
      /\ PuttersWait'
      /\ writer # "done" => OnceInOrder(Stream')
      /\ \/ /\ q_pc' = [q_pc EXCEPT ![t] = "waiting"]
            /\ queue' = queue /\ Somewhere' = Somewhere
         \/ /\ q_pc' = [q_pc EXCEPT ![t] = Q!Queued(t)]
            /\ queue' = Append(queue, x) /\ Somewhere' = Somewhere \cup {x}
      /\ AheadOfTheEnd \subseteq AheadOfTheEnd'
    BY <1>2, <1>9, Puts
<1>4. Q!TypeOK'
    <2>1. open' \in BOOLEAN /\ owed' \subseteq Q!Event
        <3>1. open \in BOOLEAN /\ owed \subseteq Q!Event
            BY <1>0 DEF Q!TypeOK
        <3> QED
            BY <3>1
    <2> QED
        BY <1>0, <1>1, <1>3, <2>1 DEF Q!TypeOK, States
<1>5. WriterHoldsItsBatch'
    BY DEF QueueIInv, WriterHoldsItsBatch
<1>6. CloserKnows'
    <2>1. q_pc'[Closer] = IF t = Closer THEN q_pc'[t] ELSE q_pc[Closer]
        BY <1>0, <1>3
    <2>2. t = Closer => q_pc'[t] \in {"waiting", "joining"} /\ ~open' /\ (open => writer # "done")
        BY <1>0, <1>3 DEF Q!Queued, QueueIInv, CloserKnows
    <2>3. t # Closer => UNCHANGED <<open, owed>>
        OBVIOUS
    <2>4. UNCHANGED owed \/ writer # "done"
        BY <2>2
    <2> QED
        BY <2>1, <2>2, <2>3, <2>4 DEF QueueIInv, CloserKnows, Q!Range
<1>7. ASSUME writer # "done" PROVE PushersKnow'
    <2>0. PushersKnow
        BY <1>7 DEF QueueIInv
    <2>1. Somewhere' \in {Somewhere, Somewhere \cup {x}}
        BY <1>3
    <2>2. q_pc'[Closer] \notin {"joining", "returned"} => End \notin Somewhere'
        <3>1. CASE t = Closer
            BY <1>0, <1>3, <2>0, <3>1 DEF PushersKnow, Q!Queued
        <3>2. CASE t # Closer
            <4>1. q_pc'[Closer] = q_pc[Closer] /\ x # End
                BY <1>0, <1>3, <1>9, <3>2
            <4> QED
                BY <2>0, <2>1, <4>1 DEF PushersKnow
        <3> QED
            BY <3>1, <3>2
    <2>3. ASSUME NEW p \in Pusher, p # t
          PROVE  /\ q_pc'[p] \in {"ready", "waiting", "woken", "cancelled"}
                 /\ \A k \in 1..MaxPushes : <<p, k>> \in Somewhere' => k <= pushed'[p]
                 /\ q_pc'[p] \in {"waiting", "woken"} =>
                     /\ <<p, pushed'[p]>> \notin Somewhere'
                     /\ pushed'[p] > 1 => <<p, pushed'[p] - 1>> \in Somewhere'
                 /\ q_pc'[p] = "ready" /\ open' /\ pushed'[p] > 0 => <<p, pushed'[p]>> \in Somewhere'
        <3>1. q_pc'[p] = q_pc[p] /\ pushed'[p] = pushed[p] /\ (open' => open)
            BY <1>0, <1>1, <1>3, <2>3
        <3>2. \A k : <<p, k>> # x \/ x = End
            BY <2>3
        <3>3. \A k \in 1..MaxPushes : <<p, k>> # End
            BY <1>0 DEF Q!Event
        <3>4. \A k \in 1..MaxPushes : <<p, k>> \in Somewhere' <=> <<p, k>> \in Somewhere
            BY <2>1, <3>2, <3>3
        <3>5. PICK n \in 0..MaxPushes : n = pushed[p]
            BY <1>0
        <3>6. (n > 0 => n \in 1..MaxPushes) /\ (n > 1 => n - 1 \in 1..MaxPushes)
            BY <1>0
        <3>7. /\ q_pc[p] \in {"ready", "waiting", "woken", "cancelled"}
              /\ \A k \in 1..MaxPushes : <<p, k>> \in Somewhere => k <= n
              /\ q_pc[p] \in {"waiting", "woken"} =>
                    n > 0 /\ <<p, n>> \notin Somewhere /\ (n > 1 => <<p, n - 1>> \in Somewhere)
              /\ q_pc[p] = "ready" /\ open /\ n > 0 => <<p, n>> \in Somewhere
            BY <2>0, <3>5 DEF PushersKnow, QueueIInv, WaitersHaveAnEvent
        <3> QED
            BY <3>1, <3>4, <3>5, <3>6, <3>7
    <2>4. ASSUME t \in Pusher
          PROVE  /\ q_pc'[t] \in {"ready", "waiting", "woken", "cancelled"}
                 /\ \A k \in 1..MaxPushes : <<t, k>> \in Somewhere' => k <= pushed'[t]
                 /\ q_pc'[t] \in {"waiting", "woken"} =>
                     /\ <<t, pushed'[t]>> \notin Somewhere'
                     /\ pushed'[t] > 1 => <<t, pushed'[t] - 1>> \in Somewhere'
                 /\ q_pc'[t] = "ready" /\ open' /\ pushed'[t] > 0 => <<t, pushed'[t]>> \in Somewhere'
        <3>1. x = <<t, pushed'[t]>> /\ pushed'[t] \in 1..MaxPushes
            BY <1>0, <1>1, <1>9, <2>4
        <3>2. /\ x \notin Somewhere
              /\ pushed'[t] > 1 => <<t, pushed'[t] - 1>> \in Somewhere
            BY <1>2, <1>7, <1>9, <2>4, <1>0, <3>1 DEF Q!Predecessor
        <3>3. \A k \in 1..MaxPushes : <<t, k>> \in Somewhere => k <= pushed'[t]
            <4>1. pushed[t] \in 0..MaxPushes /\ pushed[t] <= pushed'[t]
                BY <1>0, <1>1, <2>4
            <4>2. ASSUME NEW k \in 1..MaxPushes, <<t, k>> \in Somewhere PROVE k <= pushed'[t]
                <5>1. k <= pushed[t]
                    BY <2>0, <2>4, <4>2 DEF PushersKnow
                <5> QED
                    BY <3>1, <4>1, <5>1
            <4> QED
                BY <4>2
        <3>4. CASE q_pc'[t] = "waiting" /\ Somewhere' = Somewhere
            BY <3>1, <3>2, <3>3, <3>4
        <3>5. CASE q_pc'[t] = "ready" /\ Somewhere' = Somewhere \cup {x}
            BY <3>1, <3>2, <3>3, <3>5
        <3> QED
            BY <1>0, <1>3, <2>4, <3>4, <3>5 DEF Q!Queued
    <2> QED
        BY <1>0, <2>2, <2>3, <2>4 DEF PushersKnow
<1>10. WaitersHaveAnEvent'
    <2> SUFFICES ASSUME NEW p \in Pusher, q_pc'[p] \in {"waiting", "woken"} PROVE pushed'[p] > 0
        BY DEF WaitersHaveAnEvent
    <2>1. CASE p = t
        BY <1>0, <1>9, <2>1
    <2>2. CASE p # t
        BY <1>0, <1>1, <1>3, <2>2 DEF QueueIInv, WaitersHaveAnEvent
    <2> QED
        BY <2>1, <2>2
<1>8. ASSUME writer # "done" PROVE OwedIsAhead'
    <2>1. CASE UNCHANGED <<open, owed>>
        BY <1>3, <1>8, <2>1 DEF QueueIInv, OwedIsAhead, Q!Range
    <2>2. CASE open /\ owed' = Q!Event \cap (Q!Range(queue) \cup Q!Range(batch))
        <3>1. End \notin Somewhere
            BY <1>8, <2>2 DEF QueueIInv, CloserKnows, PushersKnow
        <3>2. /\ Q!Range(queue) = {queue[i] : i \in 1..Len(queue)} /\ Len(queue) \in Nat
              /\ \A i \in 1..Len(queue) : queue[i] \in Q!Range(queue)
            BY <1>0, StreamItems, RangeOfASequence, LenProperties
        <3>3. \A i \in 1..Len(queue) : \A k \in 1..i : queue[k] # End
            BY <3>1, <3>2 DEF Somewhere
        <3>4. Q!Range(queue) \subseteq AheadOfTheEnd
            BY <3>2, <3>3 DEF AheadOfTheEnd
        <3>5. End \notin Q!Range(batch)
            BY <3>1 DEF Somewhere
        <3> QED
            BY <1>3, <2>2, <3>4, <3>5 DEF OwedIsAhead, Q!Range
    <2> QED
        BY <2>1, <2>2
<1> QED
    BY <1>3, <1>4, <1>5, <1>6, <1>7, <1>8, <1>10 DEF QueueIInv, OnceInOrder

\* The end of the writer: everyone who waits is let go with what is queued.
LEMMA Finishes ==
    ASSUME QueueIInv, Q!Finish, batch' = <<>>, UNCHANGED <<open, pushed, owed>>,
           wire' \in Seq(Q!Event), failed' \in BOOLEAN, OnceInOrder(wire'),
           ~failed' => ~open /\ owed \subseteq Q!Range(wire')
    PROVE  QueueIInv'
<1>1. Q!TypeOK /\ PuttersWait /\ Len(queue) \in Nat
    BY LenProperties DEF QueueIInv, Q!TypeOK
<1>2. writer' = "done" /\ queue' = <<>> /\ Q!Wake(Len(queue))
    BY DEF Q!Finish
<1>3. putters' \in Seq(Q!Task) /\ q_pc' \in [Q!Task -> States] /\ PuttersWait' /\ Roused
    BY <1>1, <1>2, Wakes
<1>4. Q!TypeOK'
    <2>1. queue' \in Seq(Q!Item) /\ batch' \in Seq(Q!Item) /\ Len(queue') <= MaxQueue
        BY <1>2, EmptySeq, QueueConstants
    <2> QED
        BY <1>1, <1>2, <1>3, <2>1 DEF Q!TypeOK, States
<1>5. Closer \in Q!Task /\ \A p \in Pusher : p \in Q!Task
    BY DEF Q!Task
<1>6. WaitersHaveAnEvent' /\ WriterHoldsItsBatch'
    BY <1>3, <1>5 DEF Roused, QueueIInv, WaitersHaveAnEvent, WriterHoldsItsBatch
<1>7. CloserKnows'
    BY <1>2, <1>3, <1>5 DEF Roused, QueueIInv, CloserKnows, Q!Range
<1> QED
    BY <1>2, <1>3, <1>4, <1>6, <1>7 DEF QueueIInv, OnceInOrder

LEMMA QueueStep == QueueIInv /\ [Q!Next]_(Q!vars) => QueueIInv'
<1> SUFFICES ASSUME QueueIInv, [Q!Next]_(Q!vars) PROVE QueueIInv'
    OBVIOUS
<1>0. /\ Q!TypeOK /\ q_pc \in [Q!Task -> States] /\ Closer \in Q!Task
      /\ Q!Task = Pusher \cup {Closer} /\ Closer \notin Pusher
    BY QueueConstants DEF QueueIInv, Q!TypeOK, States, Q!Task
<1>1. ASSUME NEW p \in Pusher, Q!push(p) PROVE QueueIInv'
    <2>1. /\ q_pc[p] = "ready" /\ pushed[p] < MaxPushes
          /\ pushed' = [pushed EXCEPT ![p] = @ + 1]
          /\ UNCHANGED <<open, writer, batch, wire, failed, owed>>
        BY <1>1 DEF Q!push
    <2>2. /\ p \in Q!Task /\ p # Closer /\ pushed \in [Pusher -> 0..MaxPushes]
          /\ pushed'[p] = pushed[p] + 1
        BY <1>0, <2>1 DEF Q!TypeOK
    <2>3. CASE Q!closed
        <3>1. UNCHANGED <<queue, putters, q_pc>>
            BY <1>1, <2>3 DEF Q!push
        <3>2. /\ Stream' = Stream /\ Somewhere' = Somewhere /\ AheadOfTheEnd' = AheadOfTheEnd
              /\ Q!Range(wire)' = Q!Range(wire) /\ Q!Range(batch)' = Q!Range(batch)
            BY <2>1, <3>1 DEF Stream, Somewhere, AheadOfTheEnd
        <3>3. pushed' \in [Pusher -> 0..MaxPushes] /\ \A q \in Pusher : pushed'[q] >= pushed[q]
            BY <2>1, <2>2, QueueConstants
        <3>4. Q!TypeOK'
            BY <1>0, <2>1, <3>1, <3>3 DEF Q!TypeOK
        <3>5. PuttersWait' /\ WriterHoldsItsBatch' /\ OnceInOrder(wire')
            BY <2>1, <3>1 DEF QueueIInv, PuttersWait, WriterHoldsItsBatch
        <3>6. CloserKnows'
            BY <2>1, <3>1, <3>2 DEF QueueIInv, CloserKnows
        <3>7. WaitersHaveAnEvent'
            BY <2>1, <2>2, <3>1, <3>3 DEF QueueIInv, WaitersHaveAnEvent
        <3>8. ASSUME writer # "done" PROVE OnceInOrder(Stream') /\ PushersKnow' /\ OwedIsAhead'
            <4>1. OnceInOrder(Stream') /\ OwedIsAhead'
                BY <2>1, <3>2, <3>8 DEF QueueIInv, OwedIsAhead
            <4>2. ~open
                BY <2>3, <3>8 DEF Q!closed
            <4>3. PushersKnow'
                <5>1. \A q \in Pusher \ {p} : pushed'[q] = pushed[q]
                    BY <2>1, <2>2
                <5>2. \A k \in 1..MaxPushes : k <= pushed[p] => k <= pushed'[p]
                    BY <2>2
                <5>3. PushersKnow
                    BY <3>8 DEF QueueIInv
                <5>4. ~open'
                    BY <2>1, <4>2
                <5>5. \A q \in Pusher : q_pc'[q] \in {"waiting", "woken"} => pushed'[q] = pushed[q]
                    BY <2>1, <3>1, <5>1
                <5>6. \A q \in Pusher : \A k \in 1..MaxPushes :
                            <<q, k>> \in Somewhere => k <= pushed'[q]
                    BY <5>1, <5>2, <5>3 DEF PushersKnow
                <5> QED
                    BY <3>1, <3>2, <5>3, <5>4, <5>5, <5>6 DEF PushersKnow
            <4> QED
                BY <4>1, <4>3
        <3> QED
            BY <2>1, <3>4, <3>5, <3>6, <3>7, <3>8 DEF QueueIInv
    <2>4. CASE ~Q!closed
        <3>1. Q!Put(p, <<p, pushed'[p]>>) /\ open /\ writer # "done"
            BY <1>1, <2>2, <2>4 DEF Q!push, Q!closed
        <3> DEFINE x == <<p, pushed'[p]>>
        <3>2. Q!Put(p, x) /\ x = IF p = Closer THEN End ELSE <<p, pushed'[p]>>
            BY <2>2, <3>1
        <3> HIDE DEF x
        <3> QED
            BY <2>1, <2>2, <3>1, <3>2, PutKeeps
    <2> QED
        BY <2>3, <2>4
<1>2. ASSUME Q!close PROVE QueueIInv'
    <2>1. /\ q_pc[Closer] = "ready" /\ open /\ open' = FALSE
          /\ owed' = Q!Event \cap (Q!Range(queue) \cup Q!Range(batch))
          /\ UNCHANGED <<writer, batch, pushed, wire, failed>>
        BY <1>2 DEF Q!close
    <2>2. CASE writer # "done"
        <3>1. Q!Put(Closer, End)
            BY <1>2, <2>2 DEF Q!close
        <3> QED
            BY <1>0, <2>1, <2>2, <3>1, PutKeeps
    <2>3. CASE writer = "done"
        <3>1. q_pc' = [q_pc EXCEPT ![Closer] = "returned"] /\ UNCHANGED <<queue, putters>>
            BY <1>2, <2>3 DEF Q!close
        <3>2. failed
            BY <2>1, <2>3 DEF QueueIInv, CloserKnows
        <3>3. Q!TypeOK'
            BY <1>0, <2>1, <3>1 DEF Q!TypeOK
        <3>4. PuttersWait'
            BY <1>0, <2>1, <3>1 DEF QueueIInv, PuttersWait
        <3>5. WriterHoldsItsBatch' /\ OnceInOrder(wire') /\ CloserKnows'
            BY <1>0, <2>1, <2>3, <3>1, <3>2 DEF QueueIInv, WriterHoldsItsBatch, CloserKnows
        <3>6. WaitersHaveAnEvent'
            BY <1>0, <2>1, <3>1 DEF QueueIInv, WaitersHaveAnEvent
        <3> QED
            BY <2>1, <2>3, <3>3, <3>4, <3>5, <3>6 DEF QueueIInv
    <2> QED
        BY <2>2, <2>3
<1>3. ASSUME NEW t \in Q!Task, Q!Resume(t) PROVE QueueIInv'
    <2>1. /\ q_pc[t] = "woken" /\ Q!Put(t, Q!ToPut(t))
          /\ UNCHANGED <<open, writer, batch, pushed, wire, failed, owed>>
        BY <1>3 DEF Q!Resume
    <2> DEFINE x == Q!ToPut(t)
    <2>2. Q!Put(t, x) /\ x = IF t = Closer THEN End ELSE <<t, pushed'[t]>>
        BY <2>1 DEF Q!ToPut
    <2> HIDE DEF x
    <2> QED
        BY <2>1, <2>2, PutKeeps
<1>4. ASSUME Q!Joined PROVE QueueIInv'
    <2>1. /\ q_pc[Closer] = "joining" /\ writer = "done"
          /\ q_pc' = [q_pc EXCEPT ![Closer] = "returned"]
          /\ UNCHANGED <<queue, putters, open, writer, batch, pushed, wire, failed, owed>>
        BY <1>4 DEF Q!Joined
    <2>2. Q!TypeOK'
        BY <1>0, <2>1 DEF Q!TypeOK
    <2>3. PuttersWait' /\ WaitersHaveAnEvent'
        BY <1>0, <2>1 DEF QueueIInv, PuttersWait, WaitersHaveAnEvent
    <2>4. WriterHoldsItsBatch' /\ OnceInOrder(wire') /\ CloserKnows'
        BY <1>0, <2>1 DEF QueueIInv, WriterHoldsItsBatch, CloserKnows
    <2> QED
        BY <2>1, <2>2, <2>3, <2>4 DEF QueueIInv
<1>5. ASSUME NEW t \in Q!Task, Q!Cancel(t) PROVE QueueIInv'
    <2> DEFINE passesOn == q_pc[t] = "woken" /\ ~Q!Full /\ putters # <<>>
    <2>0. /\ putters \in Seq(Q!Task) /\ Len(putters) \in Nat /\ DOMAIN putters = 1..Len(putters)
          /\ \A i \in 1..Len(putters) : putters[i] \in Q!Task /\ q_pc[putters[i]] = "waiting"
          /\ \A i, j \in 1..Len(putters) : putters[i] = putters[j] => i = j
        BY <1>0, LenProperties, ElementOfSeq DEF Q!TypeOK, QueueIInv, PuttersWait
    <2>1. /\ q_pc[t] \in {"waiting", "woken"}
          /\ q_pc' = [u \in Q!Task |-> IF u = t THEN "cancelled"
                                ELSE IF passesOn /\ u = Head(putters) THEN "woken" ELSE q_pc[u]]
          /\ putters' = IF passesOn THEN Tail(putters) ELSE Q!Without(putters, t)
          /\ UNCHANGED <<queue, open, writer, batch, pushed, wire, failed, owed>>
        BY <1>5 DEF Q!Cancel
    <2>2. passesOn => /\ Head(putters) = putters[1] /\ 1 \in 1..Len(putters)
        BY <2>0, HeadAndTail, EmptySeq
    <2>3. Roused
        BY <2>0, <2>1, <2>2 DEF Roused
    <2>11. \A u \in Q!Task : u # t /\ (passesOn => u # Head(putters)) => q_pc'[u] = q_pc[u]
        BY <2>1
    <2>4. /\ putters' \in Seq(Q!Task)
          /\ \A i \in 1..Len(putters') : /\ putters'[i] \in Q!Task
                                         /\ q_pc'[putters'[i]] = "waiting"
          /\ \A i, j \in 1..Len(putters') : putters'[i] = putters'[j] => i = j
        <3>1. CASE passesOn
            <4>1. /\ putters' \in Seq(Q!Task) /\ Len(putters') = Len(putters) - 1
                  /\ \A i \in 1..Len(putters) - 1 : putters'[i] = putters[i + 1]
                BY <2>0, <2>1, <3>1, HeadAndTail
            <4>2. /\ \A i \in 1..Len(putters) - 1 : i + 1 \in 1..Len(putters) /\ i + 1 # 1
                  /\ \A i, j \in 1..Len(putters) - 1 : i + 1 = j + 1 => i = j
                BY <2>0
            <4>3. \A i \in 1..Len(putters) - 1 : putters[i + 1] # t /\ putters[i + 1] # Head(putters)
                BY <2>0, <2>2, <3>1, <4>2
            <4>4. \A i \in 1..Len(putters) - 1 :
                    putters[i + 1] \in Q!Task /\ q_pc'[putters[i + 1]] = "waiting"
                BY <2>0, <2>11, <4>2, <4>3
            <4>5. \A i, j \in 1..Len(putters) - 1 : putters[i + 1] = putters[j + 1] => i = j
                BY <2>0, <4>2
            <4> HIDE DEF passesOn
            <4> QED
                BY <4>1, <4>4, <4>5
        <3>2. CASE ~passesOn /\ t \in Q!Range(putters)
            <4>1. PICK k \in 1..Len(putters) : putters[k] = t /\ putters' = Q!RemoveAt(putters, k)
                BY <2>0, <2>1, <3>2 DEF Q!Without, Q!Range
            <4>2. /\ putters' \in Seq(Q!Task) /\ Len(putters') = Len(putters) - 1
                  /\ \A i \in 1..Len(putters) - 1 :
                        putters'[i] = IF i < k THEN putters[i] ELSE putters[i + 1]
                BY <2>0, <4>1, RemovedAt, ZenonT(60)
            <4> DEFINE from(i) == IF i < k THEN i ELSE i + 1
            <4>3. /\ \A i \in 1..Len(putters) - 1 : from(i) \in 1..Len(putters) /\ from(i) # k
                  /\ \A i, j \in 1..Len(putters) - 1 : from(i) = from(j) => i = j
                BY <2>0
            <4>4. \A i \in 1..Len(putters) - 1 : putters'[i] = putters[from(i)]
                BY <4>2
            <4> HIDE DEF from
            <4>5. \A i \in 1..Len(putters) - 1 : putters[from(i)] # t
                BY <2>0, <4>1, <4>3
            <4>6. \A i \in 1..Len(putters) - 1 :
                    putters[from(i)] \in Q!Task /\ q_pc'[putters[from(i)]] = "waiting"
                BY <2>0, <2>11, <3>2, <4>3, <4>5
            <4>7. \A i, j \in 1..Len(putters) - 1 : putters[from(i)] = putters[from(j)] => i = j
                BY <2>0, <4>3
            <4> QED
                BY <4>2, <4>4, <4>6, <4>7
        <3>3. CASE ~passesOn /\ t \notin Q!Range(putters)
            <4>1. putters' = putters
                BY <2>1, <3>3 DEF Q!Without
            <4>2. \A i \in 1..Len(putters) : putters[i] # t
                BY <2>0, <3>3, RangeOfASequence
            <4> QED
                BY <2>0, <2>1, <3>3, <4>1, <4>2
        <3> QED
            BY <3>1, <3>2, <3>3
    <2> HIDE DEF passesOn
    <2>5. PuttersWait'
        BY <2>4 DEF PuttersWait
    <2>6. q_pc' \in [Q!Task -> States]
        BY <1>0, <2>1 DEF States
    <2>7. Q!TypeOK'
        BY <1>0, <2>1, <2>4, <2>6 DEF Q!TypeOK, States
    <2>8. /\ Stream' = Stream /\ Somewhere' = Somewhere /\ AheadOfTheEnd' = AheadOfTheEnd
          /\ Q!Range(wire)' = Q!Range(wire) /\ Q!Range(batch)' = Q!Range(batch)
        BY <2>1 DEF Stream, Somewhere, AheadOfTheEnd
    <2>9. /\ WriterHoldsItsBatch' /\ OnceInOrder(wire') /\ CloserKnows'
          /\ WaitersHaveAnEvent'
        <3>1. \A p \in Pusher : p \in Q!Task
            BY <1>0
        <3> QED
            BY <1>0, <2>1, <2>3, <2>8, <3>1
            DEF QueueIInv, WriterHoldsItsBatch, CloserKnows, Roused, WaitersHaveAnEvent
    <2>10. ASSUME writer # "done" PROVE OnceInOrder(Stream') /\ PushersKnow' /\ OwedIsAhead'
        <3>1. PushersKnow'
            BY <2>1, <2>3, <2>8, <2>10, StillKnown DEF QueueIInv
        <3> QED
            BY <2>1, <2>8, <2>10, <3>1 DEF QueueIInv, OwedIsAhead
    <2> QED
        BY <2>1, <2>5, <2>7, <2>9, <2>10 DEF QueueIInv
<1>6. ASSUME Q!Take PROVE QueueIInv'
    <2>1. /\ writer = "reading" /\ writer' = "draining" /\ queue # <<>>
          /\ batch' = <<Head(queue)>> /\ queue' = Tail(queue) /\ Q!Wake(1)
          /\ UNCHANGED <<open, pushed, wire, failed, owed>>
        BY <1>6 DEF Q!Take
    <2>2. /\ batch = <<>> /\ queue \in Seq(Q!Item) /\ wire \in Seq(Q!Item)
          /\ Len(queue) \in Nat /\ Len(queue) > 0 /\ Len(queue) <= MaxQueue /\ MaxQueue \in Nat
        BY <1>0, <2>1, StreamItems, LenProperties, EmptySeq, QueueConstants
        DEF QueueIInv, WriterHoldsItsBatch, Q!TypeOK
    <2>3. /\ batch' \in Seq(Q!Item) /\ queue' \in Seq(Q!Item) /\ Len(queue') = Len(queue) - 1
          /\ Head(queue) = queue[1] /\ \A i \in 1..Len(queue) - 1 : queue'[i] = queue[i + 1]
          /\ batch' \o queue' = queue
          /\ Q!Range(batch') = {queue[1]}
        BY <2>1, <2>2, HeadAndTail
    <2>4. /\ putters' \in Seq(Q!Task) /\ q_pc' \in [Q!Task -> States] /\ PuttersWait' /\ Roused
        BY <1>0, <2>1, Wakes DEF QueueIInv
    <2>5. Q!TypeOK' /\ WriterHoldsItsBatch'
        BY <1>0, <2>1, <2>2, <2>3, <2>4 DEF Q!TypeOK, States, WriterHoldsItsBatch
    <2>6. Stream' = Stream
        <3>1. Stream' = wire \o (batch' \o queue')
            BY <2>1, <2>2, <2>3, ConcatAssociative DEF Stream
        <3>2. Stream = wire \o queue
            BY <2>2, ConcatEmptySeq DEF Stream
        <3> QED
            BY <2>3, <3>1, <3>2
    <2>7. Somewhere' = Somewhere
        <3>1. Q!Range(batch') \cup Q!Range(queue') = Q!Range(queue)
            <4>1. PICK b \in Seq(Q!Item), q \in Seq(Q!Item) : b = batch' /\ q = queue'
                BY <2>3
            <4>2. Q!Range(b) \cup Q!Range(q) = Q!Range(b \o q)
                BY RangeOfConcat
            <4>3. b \o q = queue
                BY <2>3, <4>1
            <4> QED
                BY <4>1, <4>2, <4>3
        <3>2. Q!Range(batch) = {}
            BY <2>2 DEF Q!Range
        <3>3. Somewhere' = Q!Range(wire') \cup Q!Range(batch') \cup Q!Range(queue')
            BY DEF Somewhere, Q!Range
        <3> QED
            BY <2>1, <3>1, <3>2, <3>3 DEF Somewhere
    <2>8. OwedIsAhead'
        <3>1. \A e \in AheadOfTheEnd : e = queue[1] \/ e \in AheadOfTheEnd'
            <4> SUFFICES ASSUME NEW i \in 1..Len(queue), \A k \in 1..i : queue[k] # End, i # 1
                         PROVE  queue[i] \in AheadOfTheEnd'
                BY DEF AheadOfTheEnd
            <4>1. /\ i - 1 \in 1..Len(queue') /\ queue'[i - 1] = queue[i]
                  /\ \A k \in 1..i - 1 : k \in 1..Len(queue) - 1 /\ k + 1 \in 1..i
                BY <2>2, <2>3
            <4>2. \A k \in 1..i - 1 : queue'[k] # End
                BY <2>3, <4>1
            <4> QED
                BY <4>1, <4>2 DEF AheadOfTheEnd
        <3>2. queue[1] = End => AheadOfTheEnd = {}
            <4>1. \A i \in 1..Len(queue) : 1 \in 1..i
                BY <2>2
            <4> QED
                BY <4>1 DEF AheadOfTheEnd
        <3>3. ~open /\ ~failed => owed \subseteq Q!Range(wire) \cup AheadOfTheEnd
            <4>1. Q!Range(batch) = {}
                BY <2>2 DEF Q!Range
            <4> QED
                BY <2>1, <4>1 DEF QueueIInv, OwedIsAhead
        <3>4. ~open /\ ~failed => owed \subseteq Q!Range(wire) \cup Q!Range(batch')
                                    \cup (IF End \in Q!Range(batch') THEN {} ELSE AheadOfTheEnd')
            <4>1. CASE queue[1] = End
                BY <2>3, <3>2, <3>3, <4>1
            <4>2. CASE queue[1] # End
                BY <2>3, <3>1, <3>3, <4>2
            <4> QED
                BY <4>1, <4>2
        <3> QED
            BY <2>1, <3>4 DEF OwedIsAhead, Q!Range
    <2>9. OnceInOrder(wire')
        BY <2>1 DEF QueueIInv
    <2> QED
        BY <2>1, <2>4, <2>5, <2>6, <2>7, <2>8, <2>9, StreamStays
<1>7. ASSUME Q!TimedOut PROVE QueueIInv'
    <2>1. /\ writer = "reading" /\ writer' = "draining"
          /\ UNCHANGED <<queue, putters, open, batch, q_pc, pushed, wire, failed, owed>>
        BY <1>7 DEF Q!TimedOut
    <2>2. Q!TypeOK' /\ PuttersWait' /\ WriterHoldsItsBatch' /\ Roused /\ OnceInOrder(wire')
        BY <1>0, <2>1 DEF Q!TypeOK, PuttersWait, WriterHoldsItsBatch, Roused, QueueIInv
    <2>3. Stream' = Stream /\ Somewhere' = Somewhere /\ OwedIsAhead'
        BY <2>1 DEF Stream, Somewhere, QueueIInv, OwedIsAhead, AheadOfTheEnd
    <2> QED
        BY <2>1, <2>2, <2>3, StreamStays
<1>8. ASSUME Q!Drain PROVE QueueIInv'
    <2>1. /\ writer = "draining" /\ writer' = "writing"
          /\ batch' = batch \o queue /\ queue' = <<>> /\ Q!Wake(Len(queue))
          /\ UNCHANGED <<open, pushed, wire, failed, owed>>
        BY <1>8 DEF Q!Drain
    <2>2. /\ batch \in Seq(Q!Item) /\ queue \in Seq(Q!Item) /\ wire \in Seq(Q!Item)
          /\ Len(queue) \in Nat /\ MaxQueue \in Nat
          /\ Stream = wire \o (batch \o queue)
        BY <1>0, StreamItems, LenProperties, QueueConstants
    <2>3. /\ batch' \in Seq(Q!Item) /\ Q!Range(batch') = Q!Range(batch) \cup Q!Range(queue)
          /\ queue' \in Seq(Q!Item) /\ Len(queue') <= MaxQueue /\ Q!Range(queue') = {}
        <3>1. Q!Range(<<>>) = {}
            BY DEF Q!Range
        <3> QED
            BY <2>1, <2>2, <3>1, ConcatProperties, RangeOfConcat, EmptySeq
    <2>4. /\ putters' \in Seq(Q!Task) /\ q_pc' \in [Q!Task -> States] /\ PuttersWait' /\ Roused
        BY <1>0, <2>1, <2>2, Wakes DEF QueueIInv
    <2>5. Q!TypeOK' /\ WriterHoldsItsBatch'
        BY <1>0, <2>1, <2>2, <2>3, <2>4 DEF Q!TypeOK, States, WriterHoldsItsBatch
    <2>6. Stream' = Stream
        <3>1. wire \o batch' \in Seq(Q!Item)
            BY <2>2, <2>3, ConcatProperties
        <3> QED
            BY <2>1, <2>2, <3>1, ConcatEmptySeq DEF Stream
    <2>7. Somewhere' = Somewhere
        <3>1. Somewhere' = Q!Range(wire') \cup Q!Range(batch') \cup Q!Range(queue')
            BY DEF Somewhere, Q!Range
        <3> QED
            BY <2>1, <2>3, <3>1 DEF Somewhere
    <2>8. OwedIsAhead'
        <3>1. AheadOfTheEnd \subseteq Q!Range(queue)
            BY <2>2, RangeOfASequence DEF AheadOfTheEnd
        <3> QED
            BY <2>1, <2>3, <3>1 DEF QueueIInv, OwedIsAhead, Q!Range
    <2>9. OnceInOrder(wire')
        BY <2>1 DEF QueueIInv
    <2> QED
        BY <2>1, <2>4, <2>5, <2>6, <2>7, <2>8, <2>9, StreamStays
<1>9. ASSUME Q!Emit PROVE QueueIInv'
    <2>1. /\ writer = "writing" /\ wire' = wire \o Q!Unended(batch) /\ batch' = <<>>
          /\ UNCHANGED <<open, pushed, failed, owed>>
        BY <1>9 DEF Q!Emit
    <2>2. /\ batch \in Seq(Q!Item) /\ queue \in Seq(Q!Item) /\ wire \in Seq(Q!Item)
          /\ wire \o batch \in Seq(Q!Item) /\ OnceInOrder(Stream)
        BY <1>0, <2>1, StreamItems DEF QueueIInv
    <2>3. OnceInOrder(wire \o batch)
        BY <2>2, OrderOfABeginning DEF Stream
    <2>4. /\ Q!Unended(batch) \in Seq(Q!Item) /\ OnceInOrder(wire')
          /\ Q!Range(Q!Unended(batch)) = Q!Range(batch) \ {End}
        BY <2>1, <2>2, <2>3, OrderWithoutTheEnd
    <2>5. wire' \in Seq(Q!Event)
        <3>1. Q!Unended(batch) \in Seq(Q!Event)
            <4>1. \A i \in 1..Len(Q!Unended(batch)) : Q!Unended(batch)[i] \in Q!Event
                BY <2>2, <2>4, RangeOfASequence DEF Q!Item
            <4> QED
                BY <2>4, <4>1, IsASeq, LenProperties
        <3> QED
            BY <1>0, <2>1, <3>1, ConcatProperties DEF Q!TypeOK
    <2>6. Q!Range(wire') = Q!Range(wire) \cup (Q!Range(batch) \ {End})
        BY <2>1, <2>2, <2>4, RangeOfConcat
    <2>7. CASE End \in Q!Range(batch)
        <3>1. Q!Finish
            BY <1>9, <2>7 DEF Q!Emit
        <3>2. ~open
            <4>1. End \in Somewhere
                BY <2>7 DEF Somewhere
            <4> QED
                BY <2>1, <4>1 DEF QueueIInv, PushersKnow, CloserKnows
        <3>3. ~failed => owed \subseteq Q!Range(wire')
            <4>1. End \notin owed
                BY <1>0, QueueConstants DEF Q!TypeOK, Q!Event
            <4> QED
                BY <2>1, <2>6, <2>7, <3>2, <4>1 DEF QueueIInv, OwedIsAhead
        <3>4. failed' \in BOOLEAN /\ (~failed' => ~open /\ owed \subseteq Q!Range(wire'))
            BY <1>0, <2>1, <3>2, <3>3 DEF Q!TypeOK
        <3> QED
            BY <2>1, <2>4, <2>5, <3>1, <3>4, Finishes
    <2>8. CASE End \notin Q!Range(batch)
        <3>1. writer' = "reading" /\ UNCHANGED <<queue, putters, q_pc>>
            BY <1>9, <2>8 DEF Q!Emit
        <3>2. wire' = wire \o batch
            BY <2>1, <2>8 DEF Q!Unended, Q!Without
        <3>3. Stream' = Stream
            BY <2>1, <2>2, <3>1, <3>2, ConcatEmptySeq DEF Stream
        <3>4. Q!Range(batch') = {} /\ Q!Range(queue') = Q!Range(queue)
            BY <2>1, <3>1 DEF Q!Range
        <3>5. Somewhere' = Somewhere
            <4>1. Somewhere' = Q!Range(wire') \cup Q!Range(batch') \cup Q!Range(queue')
                BY DEF Somewhere, Q!Range
            <4> QED
                BY <2>6, <2>8, <3>4, <4>1 DEF Somewhere
        <3>6. Q!TypeOK' /\ PuttersWait' /\ WriterHoldsItsBatch' /\ Roused
            <4>1. batch' \in Seq(Q!Item)
                BY <2>1, EmptySeq
            <4> QED
                BY <1>0, <2>1, <2>5, <3>1, <4>1
                DEF Q!TypeOK, QueueIInv, PuttersWait, WriterHoldsItsBatch, Roused
        <3>7. OwedIsAhead'
            <4>1. AheadOfTheEnd' = AheadOfTheEnd
                BY <3>1 DEF AheadOfTheEnd
            <4>2. ~open /\ ~failed => owed \subseteq Q!Range(wire') \cup Q!Range(batch') \cup AheadOfTheEnd'
                BY <2>1, <2>6, <2>8, <4>1 DEF QueueIInv, OwedIsAhead
            <4> QED
                BY <2>1, <3>4, <4>2 DEF OwedIsAhead, Q!Range
        <3> QED
            BY <2>1, <2>4, <3>1, <3>3, <3>5, <3>6, <3>7, StreamStays
    <2> QED
        BY <2>7, <2>8
<1>10. ASSUME Q!Gone PROVE QueueIInv'
    <2>1. /\ failed' = TRUE /\ batch' = <<>> /\ Q!Finish
          /\ UNCHANGED <<open, pushed, wire, owed>>
        BY <1>10 DEF Q!Gone
    <2>2. wire' \in Seq(Q!Event) /\ OnceInOrder(wire') /\ failed' \in BOOLEAN
        BY <1>0, <2>1 DEF Q!TypeOK, QueueIInv
    <2> QED
        BY <2>1, <2>2, Finishes
<1>11. CASE UNCHANGED Q!vars
    <2>1. UNCHANGED <<queue, putters, open, writer, batch, q_pc, pushed, wire, failed, owed>>
        BY <1>11 DEF Q!vars
    <2>2. PuttersWait' /\ WaitersHaveAnEvent' /\ WriterHoldsItsBatch' /\ CloserKnows'
        BY <2>1 DEF QueueIInv, PuttersWait, WaitersHaveAnEvent, WriterHoldsItsBatch,
            CloserKnows, Q!Range
    <2>5. Q!TypeOK'
        BY <1>0, <2>1 DEF Q!TypeOK
    <2>3. Stream' = Stream /\ Somewhere' = Somewhere /\ AheadOfTheEnd' = AheadOfTheEnd
        BY <2>1 DEF Stream, Somewhere, AheadOfTheEnd, Q!Range
    <2>4. writer # "done" => PushersKnow' /\ OwedIsAhead'
        BY <2>1, <2>3 DEF QueueIInv, PushersKnow, OwedIsAhead, Q!Range
    <2> QED
        BY <2>1, <2>2, <2>3, <2>4, <2>5 DEF QueueIInv
<1> QED
    BY <1>1, <1>2, <1>3, <1>4, <1>5, <1>6, <1>7, <1>8, <1>9, <1>10, <1>11
    DEF Q!Next, Q!_deliver

\* The queue, its tasks and the writer keep the types their variables are declared with.
THEOREM QueueTypeCorrect == Q!Spec => []Q!TypeOK
<1>1. QueueIInv => Q!TypeOK
    BY DEF QueueIInv
<1> QED
    BY QueueInit, QueueStep, <1>1, PTL DEF Q!Spec

\* The tasks of one SSEResponse share a bounded queue: however they overtake each
\* other, are cancelled or cut off, the client reads each one's events in order.
THEOREM QueueKeepsOrder == Q!Spec => []Q!WireInOrder
<1>1. QueueIInv => Q!WireInOrder
    <2> SUFFICES ASSUME QueueIInv PROVE Q!WireInOrder
        OBVIOUS
    <2>1. wire \in Seq(Q!Item) /\ OnceInOrder(wire) /\ wire \in Seq(Q!Event)
        BY StreamItems DEF QueueIInv, Q!TypeOK
    <2>2. \A i \in 1..Len(wire) : wire[i] # End
        BY <2>1, ElementOfSeq, QueueConstants DEF Q!Event
    <2> QED
        BY <2>1, <2>2 DEF OnceInOrder, Q!WireInOrder
<1> QED
    BY QueueInit, QueueStep, <1>1, PTL DEF Q!Spec

\* "Write what is queued, then stop" (SSEResponse.close).
THEOREM QueueIsFlushed == Q!Spec => []Q!CloseFlushes
<1>1. QueueIInv => Q!CloseFlushes
    BY DEF QueueIInv, CloserKnows, Q!CloseFlushes
<1> QED
    BY QueueInit, QueueStep, <1>1, PTL DEF Q!Spec

-----------------------------------------------------------------------------
(* SseQueue.  Who waits has a turn to come: as many items are queued or    *)
(* tasks woken as there are slots, since a getter that takes items wakes   *)
(* as many tasks, and a task that is woken puts an item, finds all slots   *)
(* taken, or passes its turn on.                                           *)

Woken == {t \in Q!Task : q_pc[t] = "woken"}
Waiting == {t \in Q!Task : q_pc[t] = "waiting"}

InLine == \A t \in Waiting : \E i \in 1..Len(putters) : putters[i] = t

SlotsAreTaken == Waiting # {} => Len(queue) + Cardinality(Woken) >= MaxQueue

\* What is left to do for a queue that nobody reads.
LeftOver ==
    Cardinality(Q!Task) <= MaxQueue /\ writer = "done" =>
        Waiting = {} /\ Len(queue) + Cardinality(Woken) <= Cardinality(Q!Task)

EndIsAhead ==
    q_pc[Closer] = "joining" /\ writer # "done" => End \in Q!Range(batch) \cup Q!Range(queue)

TurnsIInv == InLine /\ SlotsAreTaken /\ LeftOver /\ EndIsAhead

LEMMA TasksAreFinite ==
    /\ IsFiniteSet(Q!Task) /\ Cardinality(Q!Task) \in Nat
    /\ \A M \in SUBSET Q!Task : IsFiniteSet(M) /\ Cardinality(M) \in Nat /\ Cardinality(M) <= Cardinality(Q!Task)
<1>1. IsFiniteSet(Pusher \cup {Closer})
    BY QueueConstants, FS_AddElement
<1>2. IsFiniteSet(Q!Task)
    BY <1>1 DEF Q!Task
<1>3. ASSUME NEW M \in SUBSET Q!Task PROVE IsFiniteSet(M) /\ Cardinality(M) <= Cardinality(Q!Task)
    BY <1>2, FS_Subset
<1> QED
    BY <1>2, <1>3, FS_CardinalityType

\* Tasks that are woken and tasks that wait are not the same.
LEMMA NotBoth ==
    ASSUME Waiting # {}
    PROVE  Cardinality(Woken) < Cardinality(Q!Task)
<1>1. PICK t \in Q!Task : q_pc[t] = "waiting"
    BY DEF Waiting
<1>2. Woken \in SUBSET Q!Task /\ t \notin Woken
    BY <1>1 DEF Woken
<1>3. Cardinality(Woken) <= Cardinality(Q!Task) /\ Cardinality(Woken) # Cardinality(Q!Task)
    BY <1>1, <1>2, TasksAreFinite, FS_Subset
<1> QED
    BY <1>2, <1>3, TasksAreFinite

\* Getting n items wakes n tasks, unless fewer wait.
LEMMA WakesAsMany ==
    ASSUME NEW n \in Nat, Q!TypeOK, PuttersWait, InLine, Q!Wake(n)
    PROVE  /\ InLine' /\ Waiting' \subseteq Waiting
           /\ Waiting' # {} => Cardinality(Woken') = Cardinality(Woken) + n
           /\ q_pc'[Closer] = "joining" => q_pc[Closer] = "joining"
<1>0. /\ putters \in Seq(Q!Task) /\ Len(putters) \in Nat
      /\ \A i \in 1..Len(putters) : putters[i] \in Q!Task /\ q_pc[putters[i]] = "waiting"
      /\ \A i, j \in 1..Len(putters) : putters[i] = putters[j] => i = j
    BY LenProperties, ElementOfSeq DEF Q!TypeOK, PuttersWait
<1> DEFINE k == IF n < Len(putters) THEN n ELSE Len(putters)
           M == {putters[i] : i \in 1..k}
<1>1. k \in Nat /\ k <= Len(putters) /\ 1..k \subseteq 1..Len(putters) /\ (k < Len(putters) => k = n)
    BY <1>0
<1>2. /\ putters' = SubSeq(putters, k + 1, Len(putters))
      /\ \A t \in Q!Task : q_pc'[t] = IF t \in M THEN "woken" ELSE q_pc[t]
    BY DEF Q!Wake
<1>3. M \in SUBSET Q!Task /\ M \cap Woken = {} /\ \A t \in M : q_pc[t] = "waiting"
    BY <1>0, <1>1 DEF Woken
<1> HIDE DEF k
<1>4. Cardinality(M) = k /\ IsFiniteSet(M)
    <2> DEFINE f == [i \in 1..k |-> putters[i]]
    <2>1. f \in Surjection(1..k, M)
        BY DEF Surjection
    <2>2. f \in Injection(1..k, M)
        <3>1. \A i, j \in 1..k : i \in 1..Len(putters) /\ j \in 1..Len(putters)
            BY <1>1
        <3>2. f \in [1..k -> M] /\ \A i \in 1..k : f[i] = putters[i]
            OBVIOUS
        <3>3. IsInjective(f)
            BY <1>0, <3>1, <3>2 DEF IsInjective
        <3> QED
            BY <3>2, <3>3 DEF Injection
    <2>3. IsFiniteSet(1..k) /\ Cardinality(1..k) = k
        <3>1. /\ 1 \in Int /\ k \in Int /\ (1 > k => k = 0) /\ k - 1 + 1 = k
            BY <1>1
        <3> QED
            BY <3>1, FS_Interval
    <2> HIDE DEF f, M
    <2> QED
        BY <2>1, <2>2, <2>3, FS_Surjection
<1>5. Woken' = Woken \cup M
    BY <1>2, <1>3 DEF Woken
<1>6. Cardinality(Woken') = Cardinality(Woken) + k
    <2>1. IsFiniteSet(Woken) /\ Cardinality(Woken) \in Nat
        BY TasksAreFinite DEF Woken
    <2>2. Cardinality(Woken \cup M) = Cardinality(Woken) + Cardinality(M) - Cardinality(Woken \cap M)
        BY <1>4, <2>1, FS_Union
    <2>3. Cardinality(Woken \cap M) = 0
        BY <1>3, FS_EmptySet
    <2> QED
        BY <1>1, <1>4, <1>5, <2>1, <2>2, <2>3
<1>7. ASSUME NEW t \in Q!Task, q_pc'[t] = "waiting"
      PROVE  q_pc[t] = "waiting" /\ \E i \in 1..Len(putters) : i > k /\ putters[i] = t
    <2>1. t \notin M /\ q_pc[t] = "waiting"
        BY <1>2, <1>7
    <2>2. PICK i \in 1..Len(putters) : putters[i] = t
        BY <2>1 DEF InLine, Waiting
    <2>3. i > k
        BY <1>1, <2>1, <2>2
    <2> QED
        BY <2>1, <2>2, <2>3
<1>8. Waiting' \subseteq Waiting
    BY <1>7 DEF Waiting
<1>9. ASSUME Waiting' # {} PROVE k = n
    <2>1. PICK i \in 1..Len(putters) : i > k
        BY <1>7, <1>9 DEF Waiting
    <2> QED
        BY <1>0, <1>1, <2>1
<1>10. InLine'
    <2> SUFFICES ASSUME NEW t \in Q!Task, q_pc'[t] = "waiting"
                 PROVE  \E i \in 1..Len(putters') : putters'[i] = t
        BY DEF InLine, Waiting
    <2>1. PICK i \in 1..Len(putters) : i > k /\ putters[i] = t
        BY <1>7
    <2>2. k + 1 \in Int /\ Len(putters) \in Int /\ \A j \in k + 1..Len(putters) : putters[j] \in Q!Task
        BY <1>0, <1>1
    <2>3. /\ Len(putters') = IF k + 1 <= Len(putters) THEN Len(putters) - (k + 1) + 1 ELSE 0
          /\ \A j \in 1..Len(putters) - (k + 1) + 1 : putters'[j] = putters[k + 1 + j - 1]
        BY <1>2, <2>2, SubSeqProperties
    <2>4. /\ i - k \in 1..Len(putters) - (k + 1) + 1 /\ k + 1 + (i - k) - 1 = i
          /\ k + 1 <= Len(putters)
        BY <1>0, <1>1, <2>1
    <2>5. putters'[i - k] = putters[i] /\ i - k \in 1..Len(putters')
        BY <2>3, <2>4
    <2> QED
        BY <2>1, <2>5
<1>11. q_pc'[Closer] = "joining" => q_pc[Closer] = "joining"
    BY <1>2 DEF Q!Task
<1> QED
    BY <1>6, <1>8, <1>9, <1>10, <1>11

LEMMA TurnsInit == Q!Init => TurnsIInv
<1> SUFFICES ASSUME Q!Init PROVE TurnsIInv
    OBVIOUS
<1>1. \A t \in Q!Task : q_pc[t] = "ready"
    BY DEF Q!Init
<1>2. Waiting = {}
    BY <1>1 DEF Waiting
<1>3. q_pc[Closer] = "ready" /\ writer = "reading"
    BY <1>1 DEF Q!Init, Q!Task
<1> QED
    BY <1>2, <1>3 DEF TurnsIInv, InLine, SlotsAreTaken, LeftOver, EndIsAhead

\* A put takes a slot, or there is none.
LEMMA PutKeepsTurns ==
    ASSUME QueueIInv, TurnsIInv, NEW t \in Q!Task, q_pc[t] \in {"ready", "woken"},
           NEW x \in Q!Item, t = Closer => x = End, Q!Put(t, x), UNCHANGED <<writer, batch>>,
           q_pc[t] = "ready" => writer # "done"
    PROVE  TurnsIInv'
<1>0. /\ queue \in Seq(Q!Item) /\ Len(queue) \in Nat /\ Len(queue) <= MaxQueue /\ MaxQueue \in Nat
      /\ putters \in Seq(Q!Task) /\ Len(putters) \in Nat
      /\ q_pc \in [Q!Task -> States] /\ Closer \in Q!Task
    BY StreamItems, LenProperties, QueueConstants DEF QueueIInv, Q!TypeOK, States, Q!Task
<1>1. /\ Cardinality(Woken) \in Nat /\ Cardinality(Woken') \in Nat /\ Cardinality(Q!Task) \in Nat
      /\ IsFiniteSet(Woken)
    BY TasksAreFinite DEF Woken
<1>2. CASE Q!Full
    <2>1. /\ putters' = Append(putters, t) /\ q_pc' = [q_pc EXCEPT ![t] = "waiting"] /\ queue' = queue
        BY <1>2 DEF Q!Put
    <2>2. InLine'
        <3>1. /\ Len(putters') = Len(putters) + 1 /\ putters'[Len(putters) + 1] = t
              /\ \A i \in 1..Len(putters) : putters'[i] = putters[i]
            BY <1>0, <2>1, AppendProperties
        <3>2. \A u \in Waiting' : u = t \/ u \in Waiting
            BY <1>0, <2>1 DEF Waiting
        <3>3. Len(putters) + 1 \in 1..Len(putters') /\ \A i \in 1..Len(putters) : i \in 1..Len(putters')
            BY <1>0, <3>1
        <3> QED
            BY <3>1, <3>2, <3>3 DEF InLine, TurnsIInv
    <2>3. SlotsAreTaken'
        BY <1>0, <1>1, <1>2, <2>1 DEF SlotsAreTaken, Q!Full
    <2>4. ~(Cardinality(Q!Task) <= MaxQueue /\ writer = "done")
        <3> SUFFICES ASSUME Cardinality(Q!Task) <= MaxQueue, writer = "done" PROVE FALSE
            OBVIOUS
        <3>1. Len(queue) + Cardinality(Woken) <= Cardinality(Q!Task) /\ t \in Woken
            BY DEF TurnsIInv, LeftOver, Woken
        <3>2. Cardinality(Woken) # 0
            BY <1>1, <3>1, FS_EmptySet
        <3> QED
            BY <1>0, <1>1, <1>2, <3>1, <3>2 DEF Q!Full
    <2>5. LeftOver'
        BY <2>4 DEF LeftOver, Q!Task
    <2>6. EndIsAhead'
        <3>1. q_pc'[Closer] = "joining" => q_pc[Closer] = "joining"
            BY <1>0, <2>1
        <3> QED
            BY <2>1, <3>1 DEF TurnsIInv, EndIsAhead, Q!Range
    <2> QED
        BY <2>2, <2>3, <2>5, <2>6 DEF TurnsIInv
<1>3. CASE ~Q!Full
    <2>1. /\ putters' = putters /\ q_pc' = [q_pc EXCEPT ![t] = Q!Queued(t)] /\ queue' = Append(queue, x)
          /\ Q!Queued(t) \in {"joining", "ready"}
        BY <1>3 DEF Q!Put, Q!Queued
    <2>2. Len(queue') = Len(queue) + 1 /\ Q!Range(queue') = Q!Range(queue) \cup {x}
        BY <1>0, <2>1, AppendProperties, RangeOfAppend
    <2>3. Waiting' = Waiting /\ Woken' = Woken \ {t}
        BY <1>0, <2>1 DEF Waiting, Woken
    <2>4. Cardinality(Woken') = IF t \in Woken THEN Cardinality(Woken) - 1 ELSE Cardinality(Woken)
        BY <1>1, <2>3, FS_RemoveElement
    <2>5. InLine'
        BY <2>1, <2>3 DEF TurnsIInv, InLine
    <2>6. SlotsAreTaken'
        BY <1>0, <1>1, <2>2, <2>3, <2>4 DEF TurnsIInv, SlotsAreTaken
    <2>7. LeftOver'
        <3> SUFFICES ASSUME Cardinality(Q!Task) <= MaxQueue, writer = "done"
                     PROVE  Waiting' = {} /\ Len(queue') + Cardinality(Woken') <= Cardinality(Q!Task)
            BY DEF LeftOver, Q!Task
        <3>1. t \in Woken
            BY DEF Woken
        <3>2. Waiting = {} /\ Len(queue) + Cardinality(Woken) <= Cardinality(Q!Task)
            BY DEF TurnsIInv, LeftOver
        <3> QED
            BY <1>0, <1>1, <2>2, <2>3, <2>4, <3>1, <3>2
    <2>8. EndIsAhead'
        <3>1. t # Closer /\ q_pc'[Closer] = "joining" => q_pc[Closer] = "joining"
            BY <1>0, <2>1
        <3>2. Q!Range(batch') = Q!Range(batch)
            BY DEF Q!Range
        <3>3. EndIsAhead
            BY DEF TurnsIInv
        <3>4. CASE t = Closer
            BY <2>2, <3>4 DEF EndIsAhead, Q!Range
        <3>5. CASE t # Closer
            BY <2>2, <3>1, <3>2, <3>3, <3>5 DEF EndIsAhead, Q!Range
        <3> QED
            BY <3>4, <3>5
    <2> QED
        BY <2>5, <2>6, <2>7, <2>8 DEF TurnsIInv
<1> QED
    BY <1>2, <1>3

\* The writer takes n items, all but m of the queue, and wakes as many tasks.
LEMMA TakingKeepsTurns ==
    ASSUME QueueIInv, TurnsIInv, NEW n \in Nat, Q!Wake(n),
           Len(queue') \in Nat, Len(queue') + n = Len(queue),
           writer # "done", writer' = "done" => queue' = <<>>,
           writer' # "done" =>
                Q!Range(batch) \cup Q!Range(queue) \subseteq Q!Range(batch') \cup Q!Range(queue')
    PROVE  TurnsIInv'
<1>1. /\ InLine' /\ Waiting' \subseteq Waiting
      /\ Waiting' # {} => Cardinality(Woken') = Cardinality(Woken) + n
      /\ q_pc'[Closer] = "joining" => q_pc[Closer] = "joining"
    BY WakesAsMany DEF QueueIInv, TurnsIInv
<1>2. /\ Cardinality(Woken) \in Nat /\ Cardinality(Woken') \in Nat /\ Cardinality(Q!Task) \in Nat
      /\ Cardinality(Woken') <= Cardinality(Q!Task) /\ MaxQueue \in Nat
    BY TasksAreFinite, QueueConstants DEF Woken
<1>3. SlotsAreTaken'
    <2> SUFFICES ASSUME Waiting' # {} PROVE Len(queue') + Cardinality(Woken') >= MaxQueue
        BY DEF SlotsAreTaken
    <2>1. Len(queue) + Cardinality(Woken) >= MaxQueue
        BY <1>1 DEF TurnsIInv, SlotsAreTaken
    <2> QED
        BY <1>1, <1>2, <2>1
<1>4. LeftOver'
    <2> SUFFICES ASSUME Cardinality(Q!Task) <= MaxQueue, writer' = "done"
                 PROVE  Waiting' = {} /\ Len(queue') + Cardinality(Woken') <= Cardinality(Q!Task)
        BY DEF LeftOver, Q!Task
    <2>1. Len(queue') = 0
        BY EmptySeq
    <2>2. ASSUME Waiting' # {} PROVE FALSE
        <3>1. Cardinality(Woken') >= MaxQueue
            BY <1>2, <1>3, <2>1, <2>2 DEF SlotsAreTaken
        <3>2. PICK t \in Q!Task : q_pc'[t] = "waiting"
            BY <2>2 DEF Waiting
        <3>3. Woken' \in SUBSET Q!Task /\ t \notin Woken'
            BY <3>2 DEF Woken
        <3>4. Cardinality(Woken') # Cardinality(Q!Task)
            BY <3>2, <3>3, TasksAreFinite, FS_Subset
        <3> QED
            BY <1>2, <3>1, <3>4
    <2> QED
        BY <1>2, <2>1, <2>2
<1>5. EndIsAhead'
    BY <1>1 DEF TurnsIInv, EndIsAhead, Q!Range
<1> QED
    BY <1>1, <1>3, <1>4, <1>5 DEF TurnsIInv

\* A task that waits is cancelled: the turn it had, if any, is the next one's.
LEMMA CancelKeepsTurns ==
    ASSUME QueueIInv, TurnsIInv, NEW t \in Q!Task, Q!Cancel(t)
    PROVE  TurnsIInv'
<1> DEFINE passesOn == q_pc[t] = "woken" /\ ~Q!Full /\ putters # <<>>
<1>0. /\ putters \in Seq(Q!Task) /\ Len(putters) \in Nat /\ DOMAIN putters = 1..Len(putters)
      /\ \A i \in 1..Len(putters) : putters[i] \in Q!Task /\ q_pc[putters[i]] = "waiting"
      /\ \A i, j \in 1..Len(putters) : putters[i] = putters[j] => i = j
      /\ Len(queue) \in Nat /\ MaxQueue \in Nat /\ Closer \in Q!Task
    BY LenProperties, ElementOfSeq, QueueConstants DEF Q!TypeOK, QueueIInv, PuttersWait, Q!Task
<1>1. /\ q_pc[t] \in {"waiting", "woken"}
      /\ \A u \in Q!Task : q_pc'[u] = IF u = t THEN "cancelled"
                              ELSE IF passesOn /\ u = Head(putters) THEN "woken" ELSE q_pc[u]
      /\ putters' = IF passesOn THEN Tail(putters) ELSE Q!Without(putters, t)
      /\ UNCHANGED <<queue, writer, batch>>
    BY DEF Q!Cancel
<1>2. passesOn => /\ Head(putters) = putters[1] /\ 1 \in 1..Len(putters)
                  /\ Len(Tail(putters)) = Len(putters) - 1
                  /\ \A i \in 1..Len(putters) - 1 : Tail(putters)[i] = putters[i + 1]
    BY <1>0, HeadAndTail, EmptySeq
<1>3. /\ Cardinality(Woken) \in Nat /\ Cardinality(Woken') \in Nat /\ Cardinality(Q!Task) \in Nat
      /\ IsFiniteSet(Woken) /\ IsFiniteSet(Woken')
    BY TasksAreFinite DEF Woken
<1>4. Waiting' \subseteq Waiting \ {t}
    BY <1>1 DEF Waiting
<1>5. InLine'
    <2> SUFFICES ASSUME NEW u \in Q!Task, q_pc'[u] = "waiting"
                 PROVE  \E i \in 1..Len(putters') : putters'[i] = u
        BY DEF InLine, Waiting
    <2>1. u # t /\ q_pc[u] = "waiting" /\ (passesOn => u # Head(putters))
        BY <1>1
    <2>2. PICK i \in 1..Len(putters) : putters[i] = u
        BY <2>1 DEF TurnsIInv, InLine, Waiting
    <2>3. CASE passesOn
        <3>1. i # 1 /\ i - 1 \in 1..Len(putters) - 1 /\ (i - 1) + 1 = i
            BY <1>0, <1>2, <2>1, <2>2, <2>3
        <3>2. putters'[i - 1] = u /\ i - 1 \in 1..Len(putters')
            BY <1>1, <1>2, <2>2, <2>3, <3>1
        <3> QED
            BY <3>2
    <2>4. CASE ~passesOn /\ t \in Q!Range(putters)
        <3>1. PICK k \in 1..Len(putters) : putters[k] = t /\ putters' = Q!RemoveAt(putters, k)
            BY <1>0, <1>1, <2>4 DEF Q!Without, Q!Range
        <3>2. /\ Len(putters') = Len(putters) - 1
              /\ \A j \in 1..Len(putters) - 1 :
                    putters'[j] = IF j < k THEN putters[j] ELSE putters[j + 1]
            BY <1>0, <3>1, RemovedAt, ZenonT(60)
        <3>3. i # k
            BY <2>1, <2>2, <3>1
        <3>4. CASE i < k
            <4>1. i \in 1..Len(putters) - 1
                BY <1>0, <3>4
            <4> QED
                BY <2>2, <3>2, <3>4, <4>1
        <3>5. CASE i > k
            <4>1. i - 1 \in 1..Len(putters) - 1 /\ ~(i - 1 < k) /\ (i - 1) + 1 = i
                BY <1>0, <3>5
            <4> QED
                BY <2>2, <3>2, <4>1
        <3> QED
            BY <1>0, <3>3, <3>4, <3>5
    <2>5. CASE ~passesOn /\ t \notin Q!Range(putters)
        BY <1>1, <2>2, <2>5 DEF Q!Without
    <2> HIDE DEF passesOn
    <2> QED
        BY <2>3, <2>4, <2>5
<1>6. CASE passesOn
    <2> DEFINE u == Head(putters)
    <2>1. u \in Q!Task /\ q_pc[u] = "waiting" /\ u # t /\ t \in Woken /\ u \notin Woken
        BY <1>0, <1>2, <1>6 DEF Woken
    <2>2. Woken' = (Woken \ {t}) \cup {u}
        BY <1>1, <1>6, <2>1 DEF Woken
    <2> HIDE DEF u, passesOn
    <2>3. Cardinality(Woken') = Cardinality(Woken)
        <3>1. IsFiniteSet(Woken \ {t}) /\ Cardinality(Woken \ {t}) = Cardinality(Woken) - 1
            BY <1>3, <2>1, FS_RemoveElement
        <3>2. Cardinality((Woken \ {t}) \cup {u}) = Cardinality(Woken \ {t}) + 1
            BY <2>1, <3>1, FS_AddElement
        <3> QED
            BY <1>3, <2>2, <3>1, <3>2
    <2>4. SlotsAreTaken'
        BY <1>1, <1>4, <2>3 DEF TurnsIInv, SlotsAreTaken
    <2>5. LeftOver'
        BY <1>1, <1>4, <2>3 DEF TurnsIInv, LeftOver, Q!Task
    <2> QED
        <3>1. EndIsAhead'
            BY <1>0, <1>1, <2>1 DEF TurnsIInv, EndIsAhead, Q!Range
        <3> QED
            BY <1>5, <2>4, <2>5, <3>1 DEF TurnsIInv
<1>7. CASE ~passesOn
    <2>1. Woken' = Woken \ {t}
        BY <1>1, <1>7 DEF Woken
    <2>2. Cardinality(Woken') <= Cardinality(Woken) /\ (t \notin Woken => Cardinality(Woken') = Cardinality(Woken))
        <3>1. Cardinality(Woken \ {t}) = IF t \in Woken THEN Cardinality(Woken) - 1 ELSE Cardinality(Woken)
            BY <1>3, FS_RemoveElement
        <3> QED
            BY <1>3, <2>1, <3>1
    <2>3. SlotsAreTaken'
        <3> SUFFICES ASSUME Waiting' # {} PROVE Len(queue) + Cardinality(Woken') >= MaxQueue
            BY <1>1 DEF SlotsAreTaken
        <3>1. Len(queue) + Cardinality(Woken) >= MaxQueue
            BY <1>4 DEF TurnsIInv, SlotsAreTaken
        <3>2. CASE t \in Woken
            <4>1. \E i \in 1..Len(putters) : TRUE
                BY <1>4 DEF TurnsIInv, InLine
            <4>2. putters # <<>>
                BY <1>0, <4>1, EmptySeq
            <4>3. Q!Full
                BY <1>7, <3>2, <4>2 DEF Woken
            <4> QED
                BY <1>0, <1>3, <4>3 DEF Q!Full
        <3>3. CASE t \notin Woken
            BY <2>2, <3>1, <3>3
        <3> QED
            BY <3>2, <3>3
    <2>4. LeftOver'
        <3> SUFFICES ASSUME Cardinality(Q!Task) <= MaxQueue, writer = "done"
                     PROVE  Waiting' = {} /\ Len(queue) + Cardinality(Woken') <= Cardinality(Q!Task)
            BY <1>1 DEF LeftOver, Q!Task
        <3>1. Waiting = {} /\ Len(queue) + Cardinality(Woken) <= Cardinality(Q!Task)
            BY DEF TurnsIInv, LeftOver
        <3> QED
            BY <1>0, <1>3, <1>4, <2>2, <3>1
    <2>5. EndIsAhead'
        BY <1>0, <1>1, <1>7 DEF TurnsIInv, EndIsAhead, Q!Range
    <2> HIDE DEF passesOn
    <2> QED
        BY <1>5, <2>3, <2>4, <2>5 DEF TurnsIInv
<1> QED
    BY <1>6, <1>7

LEMMA TurnsStep == QueueIInv /\ TurnsIInv /\ [Q!Next]_(Q!vars) => TurnsIInv'
<1> SUFFICES ASSUME QueueIInv, TurnsIInv, [Q!Next]_(Q!vars) PROVE TurnsIInv'
    OBVIOUS
<1>0. /\ Q!TypeOK /\ q_pc \in [Q!Task -> States] /\ Closer \in Q!Task
      /\ Q!Task = Pusher \cup {Closer} /\ Closer \notin Pusher
      /\ queue \in Seq(Q!Item) /\ batch \in Seq(Q!Item) /\ Len(queue) \in Nat
      /\ pushed \in [Pusher -> 0..MaxPushes] /\ MaxPushes \in Nat
    BY StreamItems, LenProperties, QueueConstants DEF QueueIInv, Q!TypeOK, States, Q!Task
<1>1. ASSUME UNCHANGED <<putters, queue, q_pc>>, writer' = "done" <=> writer = "done",
             End \in Q!Range(batch) => End \in Q!Range(batch')
      PROVE  TurnsIInv'
    <2>1. Woken' = Woken /\ Waiting' = Waiting
        BY <1>1 DEF Woken, Waiting, Q!Task
    <2>2. InLine' /\ SlotsAreTaken' /\ LeftOver'
        BY <1>1, <2>1 DEF TurnsIInv, InLine, SlotsAreTaken, LeftOver, Q!Task
    <2>3. EndIsAhead'
        BY <1>1 DEF TurnsIInv, EndIsAhead, Q!Range
    <2> QED
        BY <2>2, <2>3 DEF TurnsIInv
<1>2. ASSUME NEW p \in Pusher, Q!push(p) PROVE TurnsIInv'
    <2>1. CASE Q!closed
        BY <1>1, <1>2, <2>1 DEF Q!push, Q!Range
    <2>2. CASE ~Q!closed
        <3> DEFINE x == <<p, pushed[p] + 1>>
        <3>1. /\ q_pc[p] = "ready" /\ Q!Put(p, x) /\ writer # "done" /\ p # Closer /\ p \in Q!Task
              /\ UNCHANGED <<writer, batch>> /\ pushed[p] < MaxPushes
            BY <1>0, <1>2, <2>2 DEF Q!push, Q!closed
        <3>2. x \in Q!Item
            <4>1. pushed[p] + 1 \in 1..MaxPushes
                BY <1>0, <3>1
            <4> QED
                BY <4>1 DEF Q!Item, Q!Event
        <3> HIDE DEF x
        <3> QED
            BY <3>1, <3>2, PutKeepsTurns
    <2> QED
        BY <2>1, <2>2
<1>3. ASSUME Q!close PROVE TurnsIInv'
    <2>1. q_pc[Closer] = "ready" /\ UNCHANGED <<writer, batch>>
        BY <1>3 DEF Q!close
    <2>2. CASE writer # "done"
        <3>1. Q!Put(Closer, End) /\ End \in Q!Item
            BY <1>3, <2>2 DEF Q!close, Q!Item
        <3> QED
            BY <1>0, <2>1, <2>2, <3>1, PutKeepsTurns
    <2>3. CASE writer = "done"
        <3>1. q_pc' = [q_pc EXCEPT ![Closer] = "returned"] /\ UNCHANGED <<queue, putters>>
            BY <1>3, <2>3 DEF Q!close
        <3>2. Woken' = Woken /\ Waiting' = Waiting
            BY <1>0, <2>1, <3>1 DEF Woken, Waiting
        <3>3. InLine' /\ SlotsAreTaken' /\ LeftOver'
            BY <2>1, <3>1, <3>2 DEF TurnsIInv, InLine, SlotsAreTaken, LeftOver, Q!Task
        <3>4. EndIsAhead'
            BY <2>1, <2>3 DEF EndIsAhead
        <3> QED
            BY <3>3, <3>4 DEF TurnsIInv
    <2> QED
        BY <2>2, <2>3
<1>4. ASSUME NEW t \in Q!Task, Q!Resume(t) PROVE TurnsIInv'
    <2> DEFINE x == Q!ToPut(t)
    <2>1. q_pc[t] = "woken" /\ Q!Put(t, x) /\ UNCHANGED <<writer, batch>> /\ (t = Closer => x = End)
        BY <1>4 DEF Q!Resume, Q!ToPut
    <2>2. x \in Q!Item
        <3>1. t # Closer => t \in Pusher /\ pushed[t] \in 1..MaxPushes
            BY <1>0, <2>1 DEF QueueIInv, WaitersHaveAnEvent
        <3> QED
            BY <3>1 DEF Q!ToPut, Q!Item, Q!Event
    <2> HIDE DEF x
    <2> QED
        BY <2>1, <2>2, PutKeepsTurns
<1>5. ASSUME Q!Joined PROVE TurnsIInv'
    <2>1. /\ q_pc[Closer] = "joining" /\ q_pc' = [q_pc EXCEPT ![Closer] = "returned"]
          /\ UNCHANGED <<queue, putters, writer, batch>> /\ writer = "done"
        BY <1>5 DEF Q!Joined
    <2>2. Woken' = Woken /\ Waiting' = Waiting
        BY <1>0, <2>1 DEF Woken, Waiting
    <2>3. InLine' /\ SlotsAreTaken' /\ LeftOver'
        BY <2>1, <2>2 DEF TurnsIInv, InLine, SlotsAreTaken, LeftOver, Q!Task
    <2>4. EndIsAhead'
        BY <2>1 DEF EndIsAhead
    <2> QED
        BY <2>3, <2>4 DEF TurnsIInv
<1>6. ASSUME NEW t \in Q!Task, Q!Cancel(t) PROVE TurnsIInv'
    BY <1>6, CancelKeepsTurns
<1>7. ASSUME Q!Take PROVE TurnsIInv'
    <2>1. /\ writer = "reading" /\ writer' = "draining" /\ queue # <<>>
          /\ batch' = <<Head(queue)>> /\ queue' = Tail(queue) /\ Q!Wake(1)
        BY <1>7 DEF Q!Take
    <2>2. batch = <<>>
        BY <2>1 DEF QueueIInv, WriterHoldsItsBatch
    <2>3. /\ batch' \in Seq(Q!Item) /\ queue' \in Seq(Q!Item) /\ Len(queue') = Len(queue) - 1
          /\ batch' \o queue' = queue /\ Len(queue) > 0
        BY <1>0, <2>1, HeadAndTail, EmptySeq
    <2>4. Q!Range(batch) = {} /\ Q!Range(queue) = Q!Range(batch') \cup Q!Range(queue')
        <3>1. PICK b \in Seq(Q!Item), q \in Seq(Q!Item) : b = batch' /\ q = queue'
            BY <2>3
        <3>2. Q!Range(b \o q) = Q!Range(b) \cup Q!Range(q)
            BY RangeOfConcat
        <3>3. Q!Range(batch) = {}
            BY <2>2 DEF Q!Range
        <3> QED
            BY <2>3, <3>1, <3>2, <3>3
    <2>5. Len(queue') \in Nat /\ Len(queue') + 1 = Len(queue)
        BY <1>0, <2>3
    <2> QED
        BY <2>1, <2>4, <2>5, TakingKeepsTurns
<1>8. ASSUME Q!Drain PROVE TurnsIInv'
    <2>1. /\ writer = "draining" /\ writer' = "writing"
          /\ batch' = batch \o queue /\ queue' = <<>> /\ Q!Wake(Len(queue))
        BY <1>8 DEF Q!Drain
    <2>2. Q!Range(batch') = Q!Range(batch) \cup Q!Range(queue)
        BY <1>0, <2>1, RangeOfConcat
    <2>3. Len(queue') \in Nat /\ Len(queue') + Len(queue) = Len(queue)
        BY <1>0, <2>1, EmptySeq
    <2> QED
        BY <1>0, <2>1, <2>2, <2>3, TakingKeepsTurns
<1>9. ASSUME Q!TimedOut PROVE TurnsIInv'
    <2>1. UNCHANGED <<putters, queue, q_pc, batch>> /\ writer = "reading" /\ writer' = "draining"
        BY <1>9 DEF Q!TimedOut
    <2> QED
        BY <1>1, <2>1 DEF Q!Range
<1>10. ASSUME Q!Finish, writer = "writing" PROVE TurnsIInv'
    <2>1. writer' = "done" /\ queue' = <<>> /\ Q!Wake(Len(queue))
        BY <1>10 DEF Q!Finish
    <2>2. Len(queue') \in Nat /\ Len(queue') + Len(queue) = Len(queue)
        BY <1>0, <2>1, EmptySeq
    <2> QED
        BY <1>0, <1>10, <2>1, <2>2, TakingKeepsTurns
<1>11. ASSUME Q!Emit \/ Q!Gone PROVE TurnsIInv'
    <2>1. CASE Q!Finish
        BY <1>10, <1>11, <2>1 DEF Q!Emit, Q!Gone
    <2>2. CASE ~Q!Finish
        <3>1. /\ writer = "writing" /\ writer' = "reading" /\ UNCHANGED <<queue, putters, q_pc>>
              /\ End \notin Q!Range(batch)
            BY <1>11, <2>2 DEF Q!Emit, Q!Gone
        <3> QED
            BY <1>1, <3>1
    <2> QED
        BY <2>1, <2>2
<1>12. CASE UNCHANGED Q!vars
    <2>1. UNCHANGED <<putters, queue, q_pc, writer, batch>>
        BY <1>12 DEF Q!vars
    <2> QED
        BY <1>1, <2>1 DEF Q!Range
<1> QED
    BY <1>2, <1>3, <1>4, <1>5, <1>6, <1>7, <1>8, <1>9, <1>11, <1>12 DEF Q!Next, Q!_deliver

LEMMA TurnsAreTold == TurnsIInv /\ QueueIInv => Q!TurnsAreKept
<1> SUFFICES ASSUME TurnsIInv, QueueIInv PROVE Q!TurnsAreKept
    OBVIOUS
<1>1. \A M : Q!Cardinality(M) = Cardinality(M)
    BY DEF Q!Cardinality, Cardinality
<1>2. putters \in Seq(Q!Task)
    BY DEF QueueIInv, Q!TypeOK
<1>3. ASSUME NEW t \in Q!Task, q_pc[t] = "waiting"
      PROVE  /\ t \in Q!Range(putters)
             /\ Len(queue) + Cardinality(Woken) >= MaxQueue
             /\ Cardinality(Q!Task) <= MaxQueue => writer # "done"
    <2>1. t \in Waiting
        BY <1>3 DEF Waiting
    <2>2. t \in Q!Range(putters)
        <3>1. PICK i \in 1..Len(putters) : putters[i] = t
            BY <2>1 DEF TurnsIInv, InLine
        <3> QED
            BY <1>2, <3>1, RangeOfASequence
    <2> QED
        BY <2>1, <2>2 DEF TurnsIInv, SlotsAreTaken, LeftOver
<1> QED
    BY <1>1, <1>3 DEF Q!TurnsAreKept, Q!FewerTasksThanSlots, Woken, TurnsIInv, EndIsAhead

\* No wakeup of the bounded queue is lost, however its tasks overtake each other
\* or are cancelled: while one waits for a slot, as many items are queued or
\* tasks woken as there are slots; when the writer has ended nobody waits, given
\* as many slots as tasks; and a close() that joins the writer has its sentinel
\* ahead.  It is what NobodyIsStuck needs besides fairness.
THEOREM QueueKeepsTurns == Q!Spec => []Q!TurnsAreKept
    BY QueueInit, QueueStep, TurnsInit, TurnsStep, TurnsAreTold, PTL DEF Q!Spec

-----------------------------------------------------------------------------
(* StdioChannel.  The call that is waited for was never given up, so that  *)
(* no one cancels it, and nothing that bears its id is older than it.      *)

Kinds == {"request", "cancelled", "answer", "unsupported", "ask", "reply", "error", "note"}
Frames == [kind : Kinds, id : S!Id]
ToServer == {"request", "cancelled", "answer", "unsupported"}
Runs == {"idle", "running", "asking", "answered", "resumed"}

StdioShape ==
    /\ c2s \in Seq(Frames) /\ s2c \in Seq(Frames)
    /\ calls \in 0..MaxCalls /\ waiting \in 0..calls
    /\ given_up \subseteq 1..calls
    /\ active \in [S!Id -> Runs] /\ stopped \subseteq 1..calls
    /\ inline \in 0..MaxCalls

NothingIsOlder ==
    /\ \A f \in Frames : S!On(c2s, f) \/ S!On(s2c, f) => f.id <= calls
    /\ \A f \in Frames : S!On(c2s, f) => f.kind \in ToServer
    /\ \A i \in S!Id : i > calls => active[i] = "idle"

NobodyCancels ==
    /\ waiting \notin given_up /\ waiting \notin stopped
    /\ waiting # 0 => eof \in {"open", "broken"} /\ ~S!On(c2s, S!Frame("cancelled", waiting))

\* Only a request that cannot ask is waited for by the loop itself, and then
\* nothing else is in progress.
LoopGoesOn ==
    /\ inline # 0 => mode = "plain" /\ active[inline] = "running"
    /\ mode = "plain" => \A i \in S!Id : active[i] # "idle" => i = inline

\* Call w, given both pipes, who was stopped and how far the runs are.
OnItsWay(sent_in, sent_out, w, halted, runs) ==
    w # 0 =>
        \/ S!On(sent_in, S!Frame("request", w))
        \/ w \notin halted /\ runs[w] \in {"running", "answered"}
        \/ /\ w \notin halted /\ runs[w] = "asking"
           /\ S!On(sent_out, S!Frame("ask", w)) \/ S!On(sent_in, S!Frame("answer", w))
        \/ S!On(sent_out, S!Frame("reply", w)) \/ S!On(sent_out, S!Frame("error", w))

CallIsOnItsWay ==
    waiting \in raised \/ eof = "broken" \/ OnItsWay(c2s, s2c, waiting, stopped, active)

StdioIInv == StdioShape /\ NothingIsOlder /\ NobodyCancels /\ LoopGoesOn /\ CallIsOnItsWay

LEMMA FramesAreFrames ==
    ASSUME NEW kind \in Kinds, NEW i \in S!Id
    PROVE  /\ S!Frame(kind, i) \in Frames
           /\ S!Frame(kind, i).kind = kind /\ S!Frame(kind, i).id = i
    BY DEF S!Frame, Frames

LEMMA FrameIsAFrame ==
    ASSUME NEW f \in Frames
    PROVE  f.kind \in Kinds /\ f.id \in S!Id /\ f = S!Frame(f.kind, f.id)
    BY DEF S!Frame, Frames

LEMMA OnAppended ==
    ASSUME NEW pipe \in Seq(Frames), NEW f \in Frames
    PROVE  /\ Append(pipe, f) \in Seq(Frames)
           /\ \A g : S!On(Append(pipe, f), g) <=> S!On(pipe, g) \/ g = f
<1>1. /\ Append(pipe, f) \in Seq(Frames) /\ Len(pipe) \in Nat
      /\ DOMAIN pipe = 1..Len(pipe) /\ DOMAIN Append(pipe, f) = 1..Len(pipe) + 1
      /\ \A n \in 1..Len(pipe) : Append(pipe, f)[n] = pipe[n]
      /\ Append(pipe, f)[Len(pipe) + 1] = f
    BY AppendProperties, LenProperties
<1>2. /\ \A n \in 1..Len(pipe) + 1 : n \in 1..Len(pipe) \/ n = Len(pipe) + 1
      /\ Len(pipe) + 1 \in 1..Len(pipe) + 1
      /\ \A n \in 1..Len(pipe) : n \in 1..Len(pipe) + 1
    BY <1>1
<1> QED
    BY <1>1, <1>2 DEF S!On

LEMMA OnHeadOrTail ==
    ASSUME NEW pipe \in Seq(Frames), pipe # <<>>
    PROVE  /\ Tail(pipe) \in Seq(Frames) /\ Head(pipe) \in Frames /\ S!On(pipe, Head(pipe))
           /\ \A g : S!On(pipe, g) <=> g = Head(pipe) \/ S!On(Tail(pipe), g)
<1>1. /\ Tail(pipe) \in Seq(Frames) /\ Len(pipe) \in Nat /\ Len(pipe) > 0 /\ Head(pipe) = pipe[1]
      /\ DOMAIN pipe = 1..Len(pipe) /\ DOMAIN Tail(pipe) = 1..Len(pipe) - 1
      /\ \A n \in 1..Len(pipe) - 1 : Tail(pipe)[n] = pipe[n + 1]
    BY HeadAndTail, LenProperties, EmptySeq
<1>2. /\ 1 \in 1..Len(pipe)
      /\ \A n \in 1..Len(pipe) : n = 1 \/ (n - 1 \in 1..Len(pipe) - 1 /\ (n - 1) + 1 = n)
      /\ \A n \in 1..Len(pipe) - 1 : n + 1 \in 1..Len(pipe)
    BY <1>1
<1>3. Head(pipe) \in Frames
    BY <1>1, <1>2, ElementOfSeq
<1>4. ASSUME NEW g, S!On(pipe, g) PROVE g = Head(pipe) \/ S!On(Tail(pipe), g)
    <2>1. PICK n \in 1..Len(pipe) : pipe[n] = g
        BY <1>1, <1>4 DEF S!On
    <2>2. n = 1 \/ Tail(pipe)[n - 1] = g
        BY <1>1, <1>2, <2>1
    <2> QED
        BY <1>1, <1>2, <2>1, <2>2 DEF S!On
<1>5. ASSUME NEW g, S!On(Tail(pipe), g) PROVE S!On(pipe, g)
    <2>1. PICK n \in 1..Len(pipe) - 1 : Tail(pipe)[n] = g
        BY <1>1, <1>5 DEF S!On
    <2> QED
        BY <1>1, <1>2, <2>1 DEF S!On
<1> QED
    BY <1>1, <1>2, <1>3, <1>4, <1>5 DEF S!On

LEMMA StdioInit == S!Init => StdioIInv
<1> SUFFICES ASSUME S!Init PROVE StdioIInv
    OBVIOUS
<1>1. /\ c2s = <<>> /\ s2c = <<>> /\ waiting = 0 /\ calls = 0 /\ given_up = {}
      /\ active = [i \in S!Id |-> "idle"] /\ stopped = {} /\ inline = 0
    BY DEF S!Init
<1>2. StdioShape
    BY <1>1, EmptySeq, StdioConstants DEF StdioShape, Runs
<1>3. \A f : ~S!On(c2s, f) /\ ~S!On(s2c, f)
    BY <1>1 DEF S!On
<1> QED
    BY <1>1, <1>2, <1>3 DEF StdioIInv, NothingIsOlder, NobodyCancels, LoopGoesOn, CallIsOnItsWay, OnItsWay

LEMMA StdioStep == StdioIInv /\ [S!Next]_(S!vars) => StdioIInv'
<1> SUFFICES ASSUME StdioIInv, [S!Next]_(S!vars) PROVE StdioIInv'
    OBVIOUS
<1>0. /\ c2s \in Seq(Frames) /\ s2c \in Seq(Frames)
      /\ calls \in Nat /\ calls <= MaxCalls /\ MaxCalls \in Nat /\ waiting \in 0..calls
      /\ given_up \subseteq 1..calls /\ 1..calls \subseteq S!Id
      /\ active \in [S!Id -> Runs] /\ stopped \subseteq 1..calls /\ inline \in 0..MaxCalls
      /\ \A i \in S!Id : i \in Nat /\ i # 0
    BY StdioConstants DEF StdioIInv, StdioShape, S!Id
<1>1. ASSUME S!request_method PROVE StdioIInv'
    <2> DEFINE f == S!Frame("request", calls + 1)
    <2>1. /\ waiting = 0 /\ calls < MaxCalls /\ eof \in {"open", "broken"} /\ calls' = calls + 1 /\ waiting' = calls + 1
          /\ c2s' = Append(c2s, f) /\ UNCHANGED <<mode, s2c, given_up, active, stopped, inline, raised, eof>>
        BY <1>1 DEF S!request_method, S!Write
    <2>2. calls + 1 \in S!Id /\ calls + 1 \notin 1..calls /\ 1..calls \subseteq 1..calls'
          /\ calls' \in 0..MaxCalls /\ waiting' \in 0..calls' /\ waiting' # 0
        BY <1>0, <2>1 DEF S!Id
    <2>3. f \in Frames /\ f.kind = "request" /\ f.id = calls + 1
        BY <2>2, FramesAreFrames DEF Kinds
    <2>4. c2s' \in Seq(Frames) /\ \A g : S!On(c2s', g) <=> S!On(c2s, g) \/ g = f
        BY <1>0, <2>1, <2>3, OnAppended
    <2>5. StdioShape'
        <3>1. given_up' \subseteq 1..calls' /\ stopped' \subseteq 1..calls'
            BY <1>0, <2>1, <2>2
        <3>2. active' \in [S!Id -> Runs] /\ s2c' \in Seq(Frames) /\ inline' \in 0..MaxCalls
            BY <1>0, <2>1
        <3> QED
            BY <2>2, <2>4, <3>1, <3>2 DEF StdioShape, S!Id
    <2>6. NothingIsOlder'
        <3>1. \A g \in Frames : S!On(c2s', g) \/ S!On(s2c', g) => g.id <= calls'
            <4> SUFFICES ASSUME NEW g \in Frames, S!On(c2s', g) \/ S!On(s2c', g) PROVE g.id <= calls'
                OBVIOUS
            <4>1. g = f \/ g.id <= calls
                BY <2>1, <2>4 DEF StdioIInv, NothingIsOlder
            <4>2. g.id \in Nat
                BY <1>0, FrameIsAFrame
            <4> QED
                BY <1>0, <2>1, <2>3, <4>1, <4>2
        <3>2. \A i \in S!Id : i > calls' => active'[i] = "idle"
            BY <1>0, <2>1 DEF StdioIInv, NothingIsOlder
        <3>3. \A g \in Frames : S!On(c2s', g) => g.kind \in ToServer
            BY <2>3, <2>4 DEF StdioIInv, NothingIsOlder, ToServer
        <3> QED
            BY <3>1, <3>2, <3>3 DEF NothingIsOlder, S!On, S!Id
    <2>7. NobodyCancels'
        <3>1. ~S!On(c2s, S!Frame("cancelled", calls + 1))
            <4>1. S!Frame("cancelled", calls + 1) \in Frames /\ S!Frame("cancelled", calls + 1).id = calls + 1
                BY <2>2, FramesAreFrames DEF Kinds
            <4>2. ~(calls + 1 <= calls)
                BY <1>0
            <4> QED
                BY <4>1, <4>2 DEF StdioIInv, NothingIsOlder
        <3>2. S!Frame("cancelled", calls + 1) # f
            BY <2>2, <2>3, FramesAreFrames DEF Kinds
        <3>3. waiting' \notin given_up /\ waiting' \notin stopped
            BY <1>0, <2>1, <2>2
        <3>4. ~S!On(c2s', S!Frame("cancelled", waiting'))
            BY <2>1, <2>4, <3>1, <3>2
        <3> QED
            BY <2>1, <3>3, <3>4 DEF NobodyCancels, S!On, S!Frame
    <2>8. LoopGoesOn' /\ CallIsOnItsWay'
        <3>1. S!On(c2s', S!Frame("request", waiting'))
            BY <2>1, <2>4
        <3> QED
            BY <2>1, <3>1 DEF StdioIInv, LoopGoesOn, CallIsOnItsWay, OnItsWay
    <2> QED
        BY <2>5, <2>6, <2>7, <2>8 DEF StdioIInv
<1>2. ASSUME S!Read PROVE StdioIInv'
    <2> DEFINE f == Head(s2c)
    <2>1. /\ waiting # 0 /\ s2c # <<>> /\ s2c' = Tail(s2c)
          /\ UNCHANGED <<mode, calls, given_up, active, stopped, inline, raised, eof>>
          /\ \/ S!answers(f) /\ waiting' = 0 /\ c2s' = c2s
             \/ ~S!answers(f) /\ waiting' = waiting /\ S!incoming(f)
        BY <1>2 DEF S!Read
    <2>2. s2c' \in Seq(Frames) /\ f \in Frames /\ S!On(s2c, f) /\ \A g : S!On(s2c, g) <=> g = f \/ S!On(s2c', g)
        BY <1>0, <2>1, OnHeadOrTail
    <2> HIDE DEF f
    <2>3. f.id \in S!Id /\ f.id <= calls /\ f.id \in 1..calls
        <3>1. f.id \in S!Id /\ f.id <= calls
            BY <2>2, FrameIsAFrame DEF StdioIInv, NothingIsOlder
        <3> QED
            BY <1>0, <3>1 DEF S!Id
    <2>4. PICK kind \in {"answer", "unsupported"} :
              /\ c2s' = c2s \/ (waiting' = waiting /\ c2s' = Append(c2s, S!Frame(kind, f.id)))
              /\ f.kind = "ask" => waiting' = waiting /\ c2s' = Append(c2s, S!Frame(kind, f.id)) /\ kind = "answer"
        BY <2>1 DEF S!answers, S!incoming, S!Write
    <2>5. S!Frame(kind, f.id) \in Frames /\ S!Frame(kind, f.id).kind = kind /\ S!Frame(kind, f.id).id = f.id
        BY <2>3, FramesAreFrames DEF Kinds
    <2>6. /\ c2s' \in Seq(Frames)
          /\ \A g : S!On(c2s, g) => S!On(c2s', g)
          /\ \A g : S!On(c2s', g) => S!On(c2s, g) \/ g = S!Frame(kind, f.id)
          /\ f.kind = "ask" => S!On(c2s', S!Frame("answer", f.id))
        <3>1. CASE c2s' = c2s
            BY <1>0, <2>4, <3>1, OnAppended
        <3>2. CASE c2s' = Append(c2s, S!Frame(kind, f.id))
            <4>1. c2s' \in Seq(Frames) /\ \A g : S!On(c2s', g) <=> S!On(c2s, g) \/ g = S!Frame(kind, f.id)
                BY <1>0, <2>5, <3>2, OnAppended
            <4> QED
                BY <2>4, <4>1
        <3> QED
            BY <2>4, <3>1, <3>2
    <2>7. StdioShape'
        BY <1>0, <2>1, <2>2, <2>6 DEF StdioShape, S!Id
    <2>8. NothingIsOlder'
        <3>1. \A g \in Frames : S!On(c2s', g) \/ S!On(s2c', g) => g.id <= calls
            BY <2>2, <2>3, <2>5, <2>6 DEF StdioIInv, NothingIsOlder
        <3>2. \A g \in Frames : S!On(c2s', g) => g.kind \in ToServer
            BY <2>5, <2>6 DEF StdioIInv, NothingIsOlder, ToServer
        <3> QED
            BY <2>1, <3>1, <3>2 DEF StdioIInv, NothingIsOlder, S!On, S!Id
    <2>9. NobodyCancels'
        <3>1. ASSUME waiting' # 0 PROVE ~S!On(c2s', S!Frame("cancelled", waiting))
            <4>1. waiting \in S!Id
                BY <1>0, <2>1
            <4>2. S!Frame("cancelled", waiting).kind = "cancelled"
                BY <4>1, FramesAreFrames DEF Kinds
            <4> QED
                BY <2>1, <2>5, <2>6, <4>2 DEF StdioIInv, NobodyCancels
        <3>2. waiting' # 0 => waiting' = waiting
            BY <2>1
        <3>3. 0 \notin given_up /\ 0 \notin stopped
            BY <1>0
        <3> QED
            BY <2>1, <3>1, <3>2, <3>3 DEF StdioIInv, NobodyCancels, S!On, S!Frame
    <2>10. LoopGoesOn'
        BY <2>1 DEF StdioIInv, LoopGoesOn
    <2>11. CallIsOnItsWay'
        <3>1. CASE waiting' = 0
            BY <3>1 DEF CallIsOnItsWay, OnItsWay
        <3>2. CASE waiting' # 0
            <4>1. waiting' = waiting /\ ~S!answers(f) /\ waiting \in S!Id
                BY <1>0, <2>1, <3>2
            <4>2. f # S!Frame("reply", waiting) /\ f # S!Frame("error", waiting)
                BY <4>1, FramesAreFrames DEF S!answers, Kinds
            <4>3. f = S!Frame("ask", waiting) => S!On(c2s', S!Frame("answer", waiting))
                BY <2>6, <4>1, FramesAreFrames DEF Kinds
            <4>4. CallIsOnItsWay
                BY DEF StdioIInv
            <4> QED
                BY <2>1, <2>2, <2>6, <4>1, <4>2, <4>3, <4>4 DEF CallIsOnItsWay, OnItsWay
        <3> QED
            BY <3>1, <3>2
    <2> QED
        BY <2>7, <2>8, <2>9, <2>10, <2>11 DEF StdioIInv
<1>3. ASSUME S!GiveUp PROVE StdioIInv'
    <2>1. /\ waiting # 0 /\ waiting' = 0 /\ given_up' = given_up \cup {waiting}
          /\ UNCHANGED <<mode, c2s, s2c, calls, active, stopped, inline, raised, eof>>
        BY <1>3 DEF S!GiveUp
    <2>2. waiting \in 1..calls /\ 0 \notin given_up' /\ 0 \notin stopped /\ 0 \in 0..calls
        BY <1>0, <2>1
    <2>3. StdioShape'
        BY <1>0, <2>1, <2>2 DEF StdioShape
    <2> QED
        BY <2>1, <2>2, <2>3
        DEF StdioIInv, NothingIsOlder, NobodyCancels, LoopGoesOn, CallIsOnItsWay, OnItsWay, S!On
<1>4. ASSUME NEW kind \in {"cancelled", "request"}, NEW i \in S!Id, S!Tell(kind, i) PROVE StdioIInv'
    <2> DEFINE f == S!Frame(kind, i)
    <2>1. /\ i \in given_up /\ given_up' = given_up \ {i} /\ c2s' = Append(c2s, f)
          /\ UNCHANGED <<mode, s2c, waiting, calls, active, stopped, inline, raised, eof>>
        BY <1>4 DEF S!Tell, S!Write
    <2>2. f \in Frames /\ f.kind = kind /\ f.id = i /\ i <= calls /\ i # waiting
        <3>1. i \in 1..calls /\ i # waiting
            BY <1>0, <2>1 DEF StdioIInv, NobodyCancels
        <3>2. i <= calls
            BY <1>0, <3>1
        <3> QED
            BY <3>1, <3>2, FramesAreFrames DEF Kinds
    <2>3. c2s' \in Seq(Frames) /\ \A g : S!On(c2s', g) <=> S!On(c2s, g) \/ g = f
        BY <1>0, <2>1, <2>2, OnAppended
    <2> HIDE DEF f
    <2>4. StdioShape'
        BY <1>0, <2>1, <2>3 DEF StdioShape
    <2>5. NothingIsOlder'
        <3>1. \A g \in Frames : S!On(c2s', g) \/ S!On(s2c', g) => g.id <= calls
            BY <2>1, <2>2, <2>3 DEF StdioIInv, NothingIsOlder
        <3>2. \A g \in Frames : S!On(c2s', g) => g.kind \in ToServer
            BY <2>2, <2>3 DEF StdioIInv, NothingIsOlder, ToServer
        <3> QED
            BY <2>1, <3>1, <3>2 DEF StdioIInv, NothingIsOlder, S!On, S!Id
    <2>6. NobodyCancels'
        <3>1. waiting # 0 => S!Frame("cancelled", waiting) # f
            <4>1. waiting # 0 => waiting \in S!Id
                BY <1>0
            <4> QED
                BY <2>2, <4>1, FramesAreFrames DEF Kinds
        <3> QED
            BY <2>1, <2>3, <3>1 DEF StdioIInv, NobodyCancels, S!On, S!Frame
    <2>7. LoopGoesOn' /\ CallIsOnItsWay'
        BY <2>1, <2>3 DEF StdioIInv, LoopGoesOn, CallIsOnItsWay, OnItsWay
    <2> QED
        BY <2>4, <2>5, <2>6, <2>7 DEF StdioIInv
<1>5. ASSUME S!Close PROVE StdioIInv'
    <2>1. waiting = 0 /\ UNCHANGED <<mode, c2s, s2c, waiting, calls, given_up, active, stopped, inline, raised>>
        BY <1>5 DEF S!Close, S!client
    <2> QED
        BY <2>1
        DEF StdioIInv, StdioShape, NothingIsOlder, NobodyCancels, LoopGoesOn, CallIsOnItsWay, OnItsWay, S!On
<1>6. ASSUME S!AtEof PROVE StdioIInv'
    <2>1. /\ eof = "sent" /\ stopped' = {i \in S!Id : active[i] # "idle"}
          /\ UNCHANGED <<mode, c2s, s2c, waiting, calls, given_up, active, inline, raised>>
        BY <1>6 DEF S!AtEof, S!InProgress, S!client
    <2>2. waiting = 0
        BY <2>1 DEF StdioIInv, NobodyCancels
    <2>3. stopped' \subseteq 1..calls
        <3>1. \A i \in S!Id : active[i] # "idle" => i \in 1..calls
            BY <1>0 DEF StdioIInv, NothingIsOlder, S!Id
        <3> QED
            BY <2>1, <3>1
    <2>4. 0 \notin stopped'
        BY <1>0, <2>3
    <2> QED
        BY <2>1, <2>2, <2>3, <2>4
        DEF StdioIInv, StdioShape, NothingIsOlder, NobodyCancels, LoopGoesOn, CallIsOnItsWay, OnItsWay, S!On
\* A step of the server that sends at most one frame and moves one run.
<1>7. ASSUME NEW i \in S!Id, i <= calls, UNCHANGED <<mode, waiting, calls, given_up>>,
             waiting # 0 => eof' \in {eof, "broken"},
             NEW f \in Frames, f.id = i, s2c' = s2c \/ s2c' = Append(s2c, f),
             c2s' \in Seq(Frames), \A g : S!On(c2s', g) => S!On(c2s, g),
             NEW run \in Runs, active' = [active EXCEPT ![i] = run],
             stopped' \subseteq 1..calls, waiting \notin stopped',
             inline' \in {0, inline, i}, LoopGoesOn', CallIsOnItsWay'
      PROVE  StdioIInv'
    <2>1. s2c' \in Seq(Frames) /\ \A g : S!On(s2c', g) => S!On(s2c, g) \/ g = f
        <3>1. s2c \in Seq(Frames)
            BY <1>0
        <3>2. CASE s2c' = s2c
            BY <3>1, <3>2
        <3>3. CASE s2c' = Append(s2c, f)
            <4>1. /\ Append(s2c, f) \in Seq(Frames)
                  /\ \A g : S!On(Append(s2c, f), g) <=> S!On(s2c, g) \/ g = f
                BY <3>1, OnAppended
            <4> QED
                BY <3>3, <4>1
        <3> QED
            BY <1>7, <3>2, <3>3
    <2>2. StdioShape'
        <3>1. inline' \in 0..MaxCalls
            BY <1>0, <1>7 DEF S!Id
        <3> QED
            BY <1>0, <1>7, <2>1, <3>1 DEF StdioShape
    <2>3. NothingIsOlder'
        <3>1. \A j \in S!Id : j > calls => active'[j] = "idle"
            BY <1>0, <1>7 DEF StdioIInv, NothingIsOlder
        <3>2. \A g \in Frames : S!On(c2s', g) \/ S!On(s2c', g) => g.id <= calls
            BY <1>7, <2>1 DEF StdioIInv, NothingIsOlder
        <3>3. \A g \in Frames : S!On(c2s', g) => g.kind \in ToServer
            BY <1>7 DEF StdioIInv, NothingIsOlder
        <3> QED
            BY <1>7, <3>1, <3>2, <3>3 DEF NothingIsOlder, S!On, S!Id
    <2>4. NobodyCancels'
        BY <1>7 DEF StdioIInv, NobodyCancels, S!On, S!Frame
    <2> QED
        BY <1>7, <2>2, <2>3, <2>4 DEF StdioIInv
<1>8. ASSUME S!serve_stdio PROVE StdioIInv'
    <2> DEFINE f == Head(c2s)
               i == f.id
    <2>1. /\ inline = 0 /\ c2s # <<>> /\ c2s' = Tail(c2s)
          /\ UNCHANGED <<mode, waiting, calls, given_up, raised, eof>>
          /\ \/ f.kind = "request" /\ S!Request(i)
             \/ f.kind = "answer" /\ S!Relay(i)
             \/ f.kind = "cancelled" /\ S!Cancelled(i)
             \/ f.kind = "unsupported" /\ S!Malformed(i)
        <3> HIDE DEF f, i
        <3>1. i = f.id /\ f = Head(c2s)
            BY DEF f, i
        <3>2. /\ inline = 0 /\ c2s # <<>> /\ c2s' = Tail(c2s)
              /\ UNCHANGED <<mode, waiting, calls, given_up, raised, eof>>
            BY <1>8 DEF S!serve_stdio, S!client
        <3>3. f.kind \in ToServer
            BY <1>0, <3>1, <3>2, OnHeadOrTail DEF StdioIInv, NothingIsOlder
        <3>4. \/ f.kind = "request" /\ S!Request(i)
              \/ f.kind = "answer" /\ S!Relay(i)
              \/ f.kind = "cancelled" /\ S!Cancelled(i)
              \/ f.kind = "unsupported" /\ S!Malformed(i)
            <4>1. CASE f.kind = "request"
                BY <1>8, <3>1, <4>1 DEF S!serve_stdio
            <4>2. CASE f.kind = "answer"
                BY <1>8, <3>1, <4>2 DEF S!serve_stdio
            <4>3. CASE f.kind = "cancelled"
                BY <1>8, <3>1, <4>3 DEF S!serve_stdio
            <4>4. CASE f.kind = "unsupported"
                BY <1>8, <3>1, <4>4 DEF S!serve_stdio
            <4> QED
                BY <3>3, <4>1, <4>2, <4>3, <4>4 DEF ToServer
        <3> QED
            BY <3>2, <3>4
    <2>2. /\ c2s' \in Seq(Frames) /\ f \in Frames /\ S!On(c2s, f)
          /\ \A g : S!On(c2s, g) <=> g = f \/ S!On(c2s', g)
        BY <1>0, <2>1, OnHeadOrTail
    <2>3. i \in S!Id /\ i <= calls /\ i \in 1..calls /\ f = S!Frame(f.kind, i) /\ i # 0 /\ i = f.id
        <3>1. i \in S!Id /\ i <= calls /\ f = S!Frame(f.kind, i)
            BY <2>2, FrameIsAFrame DEF StdioIInv, NothingIsOlder
        <3> QED
            BY <1>0, <3>1 DEF S!Id
    <2>4. waiting # 0 => waiting \in S!Id
        BY <1>0
    <2>5. /\ \A k \in Kinds : S!Frame(k, i) \in Frames /\ S!Frame(k, i).id = i
          /\ waiting # 0 => \A k \in Kinds : S!Frame(k, waiting).kind = k /\ S!Frame(k, waiting).id = waiting
        BY <2>3, <2>4, FramesAreFrames
    <2>6. CallIsOnItsWay /\ LoopGoesOn /\ active[i] \in Runs /\ active = [active EXCEPT ![i] = active[i]]
        BY <1>0, <2>3 DEF StdioIInv
    <2>7. "error" \in Kinds /\ "request" \in Kinds /\ "ask" \in Kinds /\ "answer" \in Kinds /\ "reply" \in Kinds
          /\ "cancelled" \in Kinds
        BY DEF Kinds
    <2>8. waiting \notin stopped /\ stopped \subseteq 1..calls
        BY <1>0 DEF StdioIInv, NobodyCancels
    <2> HIDE DEF f, i
    <2>9. CASE f.kind = "request" /\ S!Request(i) /\ active[i] # "idle"
        <3>1. s2c' = Append(s2c, S!Frame("error", i)) /\ UNCHANGED <<active, inline, stopped>>
            BY <2>9 DEF S!Request, S!send
        <3>2. \A g : S!On(s2c', g) <=> S!On(s2c, g) \/ g = S!Frame("error", i)
            BY <1>0, <2>5, <2>7, <3>1, OnAppended
        <3>3. CallIsOnItsWay'
            <4>1. waiting # 0 /\ f = S!Frame("request", waiting) => i = waiting
                BY <2>3, <2>5, <2>7
            <4>2. waiting # 0 /\ f = S!Frame("answer", waiting) => FALSE
                BY <2>5, <2>7, <2>9
            <4> QED
                BY <2>1, <2>2, <2>6, <3>1, <3>2, <4>1, <4>2 DEF CallIsOnItsWay, OnItsWay
        <3>4. LoopGoesOn'
            BY <2>1, <2>6, <3>1 DEF LoopGoesOn
        <3> QED
            BY <1>7, <2>1, <2>2, <2>3, <2>5, <2>6, <2>7, <2>8, <3>1, <3>3, <3>4
    <2>10. CASE f.kind = "request" /\ S!Request(i) /\ active[i] = "idle"
        <3>1. /\ active' = [active EXCEPT ![i] = "running"] /\ UNCHANGED <<s2c, stopped>>
              /\ inline' = IF mode = "plain" THEN i ELSE 0
            BY <2>10 DEF S!Request, S!RunsInline
        <3>2. /\ active'[i] = "running" /\ \A j \in S!Id \ {i} : active'[j] = active[j]
            BY <1>0, <2>3, <3>1
        <3>3. CallIsOnItsWay'
            <4>1. inline' # 0 => active'[inline'] = "running"
                BY <3>1, <3>2
            <4>2. waiting = i => active'[waiting] = "running" /\ waiting \notin stopped'
                BY <2>8, <3>1, <3>2
            <4>3. waiting # 0 /\ waiting # i => active'[waiting] = active[waiting] /\ f # S!Frame("request", waiting)
                    /\ f # S!Frame("answer", waiting)
                BY <2>3, <2>4, <2>5, <2>7, <3>2
            <4> QED
                BY <2>1, <2>2, <2>6, <3>1, <4>1, <4>2, <4>3 DEF CallIsOnItsWay, OnItsWay
        <3>4. LoopGoesOn'
            BY <1>0, <2>1, <2>3, <2>6, <3>1, <3>2 DEF LoopGoesOn
        <3>5. "running" \in Runs /\ inline' \in {0, inline, i}
            BY <3>1 DEF Runs
        <3> QED
            BY <1>7, <2>1, <2>2, <2>3, <2>5, <2>7, <2>8, <3>1, <3>3, <3>4, <3>5
    <2>11. CASE f.kind = "answer" /\ S!Relay(i)
        <3> DEFINE run == IF active[i] = "asking" THEN "answered" ELSE active[i]
        <3>1. active' = [active EXCEPT ![i] = run] /\ UNCHANGED <<s2c, stopped, inline>>
            BY <2>6, <2>11 DEF S!Relay
        <3>2. active'[i] = run /\ (\A j \in S!Id \ {i} : active'[j] = active[j]) /\ run \in Runs
            BY <1>0, <2>3, <3>1 DEF Runs
        <3>3. CallIsOnItsWay'
            <4>1. waiting # 0 /\ waiting # i => active'[waiting] = active[waiting] /\ f # S!Frame("answer", waiting)
                BY <2>3, <2>4, <2>5, <2>7, <3>2
            <4>2. waiting # 0 => f # S!Frame("request", waiting)
                BY <2>5, <2>7, <2>11
            <4>3. waiting = i => \/ active[waiting] # "asking" /\ active'[waiting] = active[waiting]
                                 \/ active'[waiting] = "answered"
                BY <3>2
            <4> QED
                BY <2>1, <2>2, <2>6, <2>8, <3>1, <4>1, <4>2, <4>3 DEF CallIsOnItsWay, OnItsWay
        <3>4. LoopGoesOn'
            BY <2>1, <2>3, <2>6, <3>1, <3>2 DEF LoopGoesOn
        <3> HIDE DEF run
        <3> QED
            BY <1>7, <2>1, <2>2, <2>3, <2>5, <2>7, <2>8, <3>1, <3>2, <3>3, <3>4
    <2>12. CASE f.kind = "cancelled" /\ S!Cancelled(i)
        <3>1. /\ UNCHANGED <<s2c, active, inline>> /\ stopped' \subseteq stopped \cup {i}
            BY <2>12 DEF S!Cancelled
        <3>2. waiting # i
            BY <2>2, <2>3, <2>12 DEF StdioIInv, NobodyCancels
        <3>3. waiting \notin stopped' /\ stopped' \subseteq 1..calls
            BY <2>3, <2>8, <3>1, <3>2
        <3>4. CallIsOnItsWay'
            <4>1. waiting # 0 => f # S!Frame("request", waiting) /\ f # S!Frame("answer", waiting)
                BY <2>5, <2>7, <2>12
            <4> QED
                BY <2>1, <2>2, <2>6, <3>1, <3>3, <4>1 DEF CallIsOnItsWay, OnItsWay
        <3>5. LoopGoesOn'
            BY <2>1, <2>6, <3>1 DEF LoopGoesOn
        <3> QED
            BY <1>7, <2>1, <2>2, <2>3, <2>5, <2>6, <2>7, <3>1, <3>3, <3>4, <3>5
    <2>13. CASE f.kind = "unsupported" /\ S!Malformed(i)
        <3>1. s2c' = Append(s2c, S!Frame("error", i)) /\ UNCHANGED <<active, inline, stopped>>
            BY <2>13 DEF S!Malformed, S!send
        <3>2. \A g : S!On(s2c', g) <=> S!On(s2c, g) \/ g = S!Frame("error", i)
            BY <1>0, <2>5, <2>7, <3>1, OnAppended
        <3>3. CallIsOnItsWay'
            <4>1. waiting # 0 => f # S!Frame("request", waiting) /\ f # S!Frame("answer", waiting)
                BY <2>5, <2>7, <2>13
            <4> QED
                BY <2>1, <2>2, <2>6, <3>1, <3>2, <4>1 DEF CallIsOnItsWay, OnItsWay
        <3>4. LoopGoesOn'
            BY <2>1, <2>6, <3>1 DEF LoopGoesOn
        <3> QED
            BY <1>7, <2>1, <2>2, <2>3, <2>5, <2>6, <2>7, <2>8, <3>1, <3>3, <3>4
    <2> QED
        BY <2>1, <2>9, <2>10, <2>11, <2>12, <2>13
<1>9. ASSUME NEW i \in S!Id, S!AskUser(i) \/ S!AskEnds(i) \/ S!execute(i) PROVE StdioIInv'
    <2>1. PICK run \in {"asking", "answered", "idle"}, how \in {"speaks", "raises", "breaks"} :
              /\ UNCHANGED <<mode, c2s, waiting, calls, given_up>>
              /\ how # "breaks" => eof' = eof
              /\ how # "raises" => raised' = raised
              /\ how # "speaks" => run = "idle" /\ s2c' = s2c
              /\ how = "raises" => inline' = inline /\ inline # i /\ raised' = raised \cup {i}
                                   /\ stopped' = stopped \ {i}
              /\ how = "breaks" => inline = i /\ inline' = 0 /\ stopped' = S!InProgress \ {i}
                                   /\ eof' = IF eof = "sent" THEN "seen" ELSE "broken"
              /\ active[i] \in {"running", "asking", "answered"}
              /\ active' = [active EXCEPT ![i] = run]
              /\ how = "speaks" =>
                 \/ /\ run = "answered" /\ active[i] = "asking" /\ UNCHANGED <<s2c, stopped, inline>>
                 \/ /\ run = "asking" /\ active[i] = "running" /\ mode = "push"
                    /\ UNCHANGED <<stopped, inline>>
                    /\ s2c' = IF i \in stopped THEN s2c ELSE Append(s2c, S!Frame("ask", i))
                 \/ /\ run = "idle" /\ stopped' = stopped \ {i}
                    /\ inline' = IF inline = i THEN 0 ELSE inline
                    /\ s2c' = IF i \in stopped THEN s2c ELSE Append(s2c, S!Frame("reply", i))
        <3>1. CASE S!AskUser(i)
            BY <3>1 DEF S!AskUser, S!emit, S!send, S!client
        <3>2. CASE S!AskEnds(i)
            BY <3>2 DEF S!AskEnds, S!client
        <3>3. CASE S!execute(i)
            <4>1. /\ UNCHANGED <<mode, c2s, waiting, calls, given_up>>
                  /\ active[i] \in {"running", "asking", "answered"}
                  /\ active' = [active EXCEPT ![i] = "idle"]
                  /\ S!Replies(i) \/ S!Raises(i) \/ S!BreaksLoop(i)
                BY <3>3 DEF S!execute, S!client
            <4>2. CASE S!Replies(i)
                BY <4>1, <4>2 DEF S!Replies, S!emit, S!send
            <4>3. CASE S!Raises(i)
                BY <4>1, <4>3 DEF S!Raises
            <4>4. CASE S!BreaksLoop(i)
                BY <4>1, <4>4 DEF S!BreaksLoop
            <4> QED
                BY <4>1, <4>2, <4>3, <4>4
        <3> QED
            BY <1>9, <3>1, <3>2, <3>3
    <2>2. i <= calls /\ i # 0
        <3>1. ~(i > calls)
            BY <2>1 DEF StdioIInv, NothingIsOlder
        <3> QED
            BY <1>0, <3>1
    <2>3. /\ S!Frame("ask", i) \in Frames /\ S!Frame("ask", i).id = i
          /\ S!Frame("reply", i) \in Frames /\ S!Frame("reply", i).id = i
        BY FramesAreFrames DEF Kinds
    <2>4. PICK f \in Frames : /\ f.id = i /\ (s2c' = s2c \/ s2c' = Append(s2c, f))
                              /\ run = "asking" /\ i \notin stopped => f = S!Frame("ask", i) /\ s2c' = Append(s2c, f)
                              /\ run = "idle" /\ how = "speaks" /\ i \notin stopped => f = S!Frame("reply", i) /\ s2c' = Append(s2c, f)
        BY <2>1, <2>3
    <2>5. /\ \A g : S!On(s2c, g) => S!On(s2c', g)
          /\ run = "asking" /\ i \notin stopped => S!On(s2c', S!Frame("ask", i))
          /\ run = "idle" /\ how = "speaks" /\ i \notin stopped => S!On(s2c', S!Frame("reply", i))
        <3>1. \A g : S!On(Append(s2c, f), g) <=> S!On(s2c, g) \/ g = f
            BY <1>0, OnAppended
        <3> QED
            BY <2>4, <3>1
    <2>6. active'[i] = run /\ (\A j \in S!Id \ {i} : active'[j] = active[j]) /\ run \in Runs
        BY <1>0, <2>1 DEF Runs
    <2>7. waiting \notin stopped /\ stopped \subseteq 1..calls /\ CallIsOnItsWay /\ LoopGoesOn
        BY <1>0 DEF StdioIInv, NobodyCancels
    <2>8. waiting \notin stopped' /\ stopped' \subseteq 1..calls
        <3>1. CASE how # "breaks"
            BY <2>1, <2>7, <3>1
        <3>2. CASE how = "breaks"
            <4>1. mode = "plain" /\ \A j \in S!Id : active[j] # "idle" => j = i
                BY <2>1, <2>2, <2>7, <3>2 DEF LoopGoesOn
            <4>2. stopped' = {}
                BY <2>1, <3>2, <4>1 DEF S!InProgress
            <4> QED
                BY <4>2
        <3> QED
            BY <3>1, <3>2
    <2>9. CallIsOnItsWay'
        <3>1. waiting = i => \/ active'[i] = "answered"
                             \/ active'[i] = "asking" /\ S!On(s2c', S!Frame("ask", i))
                             \/ S!On(s2c', S!Frame("reply", i))
                             \/ i \in raised'
                             \/ eof' = "broken"
            BY <2>1, <2>2, <2>5, <2>6, <2>7 DEF StdioIInv, NobodyCancels
        <3>2. waiting # 0 /\ waiting # i => active'[waiting] = active[waiting]
            BY <1>0, <2>6
        <3>3. /\ eof = "broken" /\ waiting # 0 => eof' = "broken"
              /\ waiting \in raised => waiting \in raised' \/ eof' = "broken" \/ waiting = 0
            BY <2>1 DEF StdioIInv, NobodyCancels
        <3> QED
            BY <2>1, <2>5, <2>7, <2>8, <3>1, <3>2, <3>3 DEF CallIsOnItsWay, OnItsWay
    <2>10. LoopGoesOn'
        <3>1. inline # 0 => inline \in S!Id /\ mode = "plain" /\ active[inline] = "running"
            BY <1>0, <2>7 DEF LoopGoesOn, S!Id
        <3>2. inline' # 0 => inline' = inline /\ inline # i
            BY <2>1, <3>1
        <3> QED
            BY <2>1, <2>6, <2>7, <3>1, <3>2 DEF LoopGoesOn
    <2>11. c2s' \in Seq(Frames) /\ inline' \in {0, inline, i} /\ \A g : S!On(c2s', g) => S!On(c2s, g)
        BY <1>0, <2>1
    <2>12. waiting # 0 => eof' \in {eof, "broken"}
        BY <2>1 DEF StdioIInv, NobodyCancels
    <2> QED
        BY <1>7, <2>1, <2>2, <2>4, <2>6, <2>8, <2>9, <2>10, <2>11, <2>12
<1>10. ASSUME S!ReadEof PROVE StdioIInv'
    <2>1. waiting' = 0 /\ UNCHANGED <<mode, c2s, s2c, calls, given_up, active, stopped, inline, raised, eof>>
        BY <1>10 DEF S!ReadEof
    <2>2. 0 \notin given_up /\ 0 \notin stopped /\ 0 \in 0..calls
        BY <1>0
    <2> QED
        BY <2>1, <2>2
        DEF StdioIInv, StdioShape, NothingIsOlder, NobodyCancels, LoopGoesOn, CallIsOnItsWay, OnItsWay, S!On
<1>11. CASE UNCHANGED S!vars
    <2>1. UNCHANGED <<mode, c2s, s2c, waiting, calls, given_up, active, stopped, inline, raised, eof>>
        BY <1>11 DEF S!vars
    <2> QED
        BY <2>1
        DEF StdioIInv, StdioShape, NothingIsOlder, NobodyCancels, LoopGoesOn, CallIsOnItsWay, OnItsWay, S!On
<1> QED
    BY <1>1, <1>2, <1>3, <1>4, <1>5, <1>6, <1>8, <1>9, <1>10, <1>11 DEF S!Next, S!Server

\* Over the pipes of a stdio server no call is lost that a client waits for,
\* unless its own task raised or the loop did: whatever its handler asks and
\* whatever calls that were given up left in the pipes; and the loop that reads
\* them waits for no handler that waits for it.
THEOREM StdioCallsAreOnTheirWay == S!Spec => []S!CallsAreOnTheirWay
<1>1. StdioIInv => S!CallsAreOnTheirWay
    BY DEF StdioIInv, LoopGoesOn, CallIsOnItsWay, OnItsWay, S!CallsAreOnTheirWay
<1> QED
    BY StdioInit, StdioStep, <1>1, PTL DEF S!Spec

-----------------------------------------------------------------------------
(* The specification of MCCallStream: one part moves, the others rest.     *)

LEMMA StreamHoldsAnAsk == MCSpec => Spec
<1>1. MCInit => Init
    BY DEF MCInit
<1>2. [MCNext]_<<part, vars, sse, stdio, frames>> => [Next]_vars
    BY DEF MCNext
<1> QED
    BY <1>1, <1>2, PTL DEF MCSpec, Spec

\* The same of the questions of a call's stream.
THEOREM NothingIsPassedOver == MCSpec => []NoAnswerIsPassedOver
    BY StreamHoldsAnAsk, AskMissesNoAnswer, PTL

\* An ask that ends with an answer ends with the first one published.
THEOREM FirstCounts == MCSpec => []FirstAnswerCounts
    BY StreamHoldsAnAsk, AskTakesTheFirst, PTL

\* A question that is over leaves nothing in the hub but answers that came later.
THEOREM TopicsEnd == MCSpec => []TopicEndsWithItsAsk
    BY StreamHoldsAnAsk, AskClearsItsTopic, PTL

LEMMA StreamHoldsAQueue == MCSpec => Q!Spec
<1>1. MCInit => Q!Init
    BY DEF MCInit
<1>2. [MCNext]_<<part, vars, sse, stdio, frames>> => [Q!Next]_(Q!vars)
    BY DEF MCNext, sse, Q!vars
<1> QED
    BY <1>1, <1>2, PTL DEF MCSpec, Q!Spec

\* A client that stays reads everything its stream was given before the close,
\* each task's events in order.
THEOREM NothingIsLostOnTheWire == MCSpec => []WireIsComplete
<1>1. Q!WireInOrder /\ Q!CloseFlushes => WireIsComplete
    BY DEF WireIsComplete
<1> QED
    BY StreamHoldsAQueue, QueueKeepsOrder, QueueIsFlushed, <1>1, PTL

\* The same of the queue of a call's stream.
THEOREM NoTurnIsLost == MCSpec => []Q!TurnsAreKept
    BY StreamHoldsAQueue, QueueKeepsTurns, PTL

LEMMA StreamHoldsPipes == MCSpec => S!Init /\ [][S!Next]_(S!vars)
<1>1. MCInit => S!Init
    BY DEF MCInit
<1>2. [MCNext]_<<part, vars, sse, stdio, frames>> => [S!Next]_(S!vars)
    BY DEF MCNext, stdio, S!vars
<1> QED
    BY <1>1, <1>2, PTL DEF MCSpec

\* The same of the pipes of MCCallStream.
THEOREM NoCallIsLost == MCSpec => []S!CallsAreOnTheirWay
<1>1. StdioIInv => S!CallsAreOnTheirWay
    BY DEF StdioIInv, LoopGoesOn, CallIsOnItsWay, OnItsWay, S!CallsAreOnTheirWay
<1> QED
    BY StreamHoldsPipes, StdioInit, StdioStep, <1>1, PTL

=============================================================================
