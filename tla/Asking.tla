------------------------------- MODULE Asking --------------------------------
(***************************************************************************)
(* One tool call or prompt whose handler asks the user, from call_tool to  *)
(* its end, by the three mechanics: the question as the result and a       *)
(* second call (2026-07-28), the question pushed on the open stream        *)
(* (2025-06-18, 2025-11-25), and the question in the text of a tool result *)
(* with the answers in the arguments (2024-11-05, 2025-03-26).  A handler  *)
(* is the sequence of what it does before it returns.                      *)
(* Abstracted: the text of questions and answers (an answer carries its    *)
(* content exactly if it is an acceptance), what the state holds (it names *)
(* the step that left it; RequestState models where it is kept), and the   *)
(* topic a pushed answer travels by (PushAsk).                             *)
(***************************************************************************)
EXTENDS Naturals, Sequences, SequencesExt

CONSTANTS
    Handlers,         \* what may be called
    ASK_ROUNDS, PUSH_ASK_ROUNDS,
    None

VARIABLES
    me,        \* the client: revision, on_ask, whether it declared elicitation, log level
    handler,   \* what it calls
    answers, state, rounds,   \* the variables of call_tool
    ex,        \* the exchange of the request at the server
    asked,     \* what the user was asked, and the verdicts
    stage, reply

vars == <<me, handler, answers, state, rounds, ex, asked, stage, reply>>

Ask(key, default) == [does |-> "ask", keys |-> <<key>>, default |-> default]
Need(keys) == [does |-> "need", keys |-> keys, default |-> FALSE]
Just(what) == [does |-> what, keys |-> <<>>, default |-> FALSE]
\* uses: a parameter of it is provided by an async generator.
Handler(operation, streaming, uses, steps) ==
    [operation |-> operation, streaming |-> streaming, uses |-> uses, steps |-> steps]

\* 1 is 2024-11-05, ..., 5 is 2026-07-28.
Revision == 1 .. 5
asks_in_arguments(v) == v \in {1, 2}
can_push_ask(v) == v \in {3, 4}
adapter_can_ask(v) == v = 5

\* Without on_ask a client of 2026-07-28 may still declare that it can be asked.
Clients ==
    {c \in [revision : Revision, on_ask : BOOLEAN, declared : BOOLEAN, log_level : BOOLEAN] :
        c.declared # c.on_ask => c.revision = 5 /\ c.declared}
    \cup [revision : {5}, on_ask : {FALSE}, declared : {FALSE}, log_level : {FALSE}]

(***************************************************************************)
(* Replies of a user, and the verdict a handler reads: no action is an     *)
(* agreement, an action nobody knows is not, and silence is an abandonment.*)
(***************************************************************************)
Said == {"accept", "decline", "cancel", "postpone", "bare"}
answer_of(said) ==
    CASE said = "bare" -> "accept"
      [] said = "postpone" -> "decline"
      [] said = "silence" -> "cancel"
      [] OTHER -> said

(***************************************************************************)
(* The client.                                                             *)
(***************************************************************************)
NoExchange == [answers |-> <<>>, state |-> None, sse |-> FALSE, got |-> <<>>, pos |-> 1,
               pending |-> <<>>, next |-> <<>>, restarts |-> 0, dep |-> None]
NoReply == [kind |-> None, keys |-> <<>>, state |-> None, got |-> <<>>, saw |-> None]

Init ==
    /\ me \in Clients
    /\ handler \in Handlers
    /\ answers = <<>> /\ state = None /\ rounds = 0
    /\ ex = NoExchange
    /\ asked = <<>>
    /\ stage = "calling" /\ reply = NoReply

\* What the request carries of the answers: a field of its own, or arguments,
\* which only a tool has.
Carried == me.revision = 5 \/ (asks_in_arguments(me.revision) /\ handler.operation = "call_tool")

stream_reason ==
    \/ handler.operation = "call_tool" /\ handler.streaming
    \/ can_push_ask(me.revision) /\ me.declared

\* Exchange.resolve keeps what a provider yielded for the rest of the request;
\* Exchange.scope releases it when the handler is left.
resolve(resolved) == IF handler.uses /\ resolved = None THEN "open" ELSE resolved
scope_left(resolved) == IF resolved = "open" THEN "released" ELSE resolved

call_tool ==
    /\ stage = "calling"
    /\ ex' = [NoExchange EXCEPT !.answers = IF Carried THEN answers ELSE <<>>,
                                !.state = IF Carried THEN state ELSE None,
                                !.sse = stream_reason, !.dep = resolve(None)]
    /\ rounds' = rounds + 1
    /\ stage' = "handling" /\ reply' = NoReply
    /\ UNCHANGED <<me, handler, answers, state, asked>>

Ended == stage = "ended"

Put(given, k, verdict) == [x \in DOMAIN given \cup {k} |-> IF x = k THEN verdict ELSE given[x]]

\* (Mutant) Only the newest answers go back.
NewestOnly(k, verdict) == Put(<<>>, k, verdict)

Collected(k, verdict) == Put(answers, k, verdict)

\* A result that asks is read as a question by call_tool only; get_prompt takes
\* it for a prompt and fails.
Receive ==
    /\ stage = "replied"
    /\ stage' = IF reply.kind = "input_required" /\ handler.operation = "call_tool" /\ me.on_ask
                THEN "answering" ELSE "ended"
    /\ UNCHANGED <<me, handler, answers, state, rounds, ex, asked, reply>>

\* The caller of a client without on_ask may answer by calling again.
ByHand ==
    /\ Ended /\ reply.kind = "input_required" /\ ~me.on_ask /\ handler.operation = "call_tool"
    /\ stage' = "answering" /\ rounds' = 0
    /\ UNCHANGED <<me, handler, answers, state, ex, asked, reply>>

on_ask ==
    /\ stage = "answering"
    /\ \/ /\ reply.keys # <<>>
          /\ \E said \in Said :
                LET k == Head(reply.keys) IN
                /\ answers' = Collected(k, answer_of(said))
                /\ asked' = Append(asked, <<k, answer_of(said)>>)
          /\ reply' = [reply EXCEPT !.keys = Tail(@)]
          /\ UNCHANGED <<state, stage>>
       \/ /\ reply.keys = <<>>
          /\ state' = reply.state
          /\ IF rounds < ASK_ROUNDS
             THEN stage' = "calling" /\ reply' = reply
             ELSE stage' = "ended" /\ reply' = [reply EXCEPT !.kind = "still asking"]
          /\ UNCHANGED <<answers, asked>>
    /\ UNCHANGED <<me, handler, rounds, ex>>

(***************************************************************************)
(* The handler and the exchange.                                           *)
(***************************************************************************)
can_ask == asks_in_arguments(me.revision) \/ me.declared
asks_on_the_stream == can_ask /\ can_push_ask(me.revision)

Answer(kind, keys, saved) ==
    /\ reply' = [kind |-> kind, keys |-> keys, state |-> saved, got |-> ex.got, saw |-> ex.state]
    /\ stage' = "replied"
    /\ ex' = [ex EXCEPT !.dep = scope_left(@)]

At(what) == stage = "handling" /\ ex.pos <= Len(handler.steps) /\ handler.steps[ex.pos].does = what
Step == handler.steps[ex.pos]

answered(k) == k \in DOMAIN ex.answers

\* The handler goes on with these verdicts.
Told(verdicts) ==
    /\ ex' = [ex EXCEPT !.got = Append(@, verdicts), !.pos = @ + 1]
    /\ UNCHANGED <<stage, reply>>
Recalled(keys) == [n \in DOMAIN keys |-> <<keys[n], ex.answers[keys[n]]>>]

\* push_ask: for ask itself (next is empty), or for ask_on_the_stream, which
\* then runs the handler again with the answers and this state.
Push(keys, next) ==
    /\ stage' = "asking"
    /\ ex' = [ex EXCEPT !.pending = keys, !.next = next, !.dep = IF next = <<>> THEN @ ELSE scope_left(@)]
    /\ reply' = reply

resolve_need_input(keys, saved) ==
    IF asks_on_the_stream
    THEN IF ex.restarts < PUSH_ASK_ROUNDS THEN Push(keys, <<saved>>) ELSE Answer("still asking", <<>>, None)
    ELSE IF can_ask THEN Answer("input_required", keys, saved)
    ELSE Answer("cannot ask", <<>>, None)

ask ==
    /\ At("ask")
    /\ LET k == Step.keys[1] IN
       \/ answered(k) /\ Told(Recalled(<<k>>))
       \/ ~answered(k) /\ asks_on_the_stream /\ Push(<<k>>, <<>>)
       \/ ~answered(k) /\ ~can_ask /\ Step.default /\ Told(<< <<k, "default">> >>)
       \/ /\ ~answered(k) /\ ~asks_on_the_stream
          /\ ~Step.default \/ can_ask
          /\ resolve_need_input(<<k>>, None)

\* A handler that raises NeedInput itself, with state, unless it has its answers.
NeedInput ==
    /\ At("need")
    /\ IF \A n \in DOMAIN Step.keys : answered(Step.keys[n])
       THEN Told(Recalled(Step.keys))
       ELSE resolve_need_input(Step.keys, Step.keys[1])

\* A failure of a tool is a result, of anything else an error; a handler that
\* was started over on the stream is past the clause that would make it one.
Fails ==
    Answer(IF handler.operation = "call_tool" THEN "failed result"
           ELSE IF ex.restarts = 0 THEN "internal error" ELSE None, <<>>, None)
fail == At("fail") /\ Fails

\* log asks for a level and takes the stream for granted.
log ==
    /\ At("log")
    /\ \/ (me.log_level => ex.sse) /\ Told(<<>>)
       \/ me.log_level /\ ~ex.sse /\ Fails

push_ask ==
    /\ stage = "asking"
    /\ \E said \in Said \cup {"silence"} :
          LET k == Head(ex.pending)
              verdict == answer_of(said)
              rest == Tail(ex.pending)
          IN
          /\ asked' = Append(asked, <<k, verdict>>)
          /\ \/ /\ ex.next = <<>>
                /\ ex' = [ex EXCEPT !.got = Append(@, << <<k, verdict>> >>), !.pos = @ + 1]
                /\ stage' = "handling"
             \/ /\ ex.next # <<>> /\ rest # <<>>
                /\ ex' = [ex EXCEPT !.answers = Put(@, k, verdict), !.pending = rest]
                /\ stage' = "asking"
             \/ /\ ex.next # <<>> /\ rest = <<>>
                /\ ex' = [ex EXCEPT !.answers = Put(@, k, verdict), !.pending = rest, !.state = ex.next[1],
                                    !.restarts = @ + 1, !.pos = 1, !.got = <<>>, !.dep = resolve(@)]
                /\ stage' = "handling"
    /\ UNCHANGED <<me, handler, answers, state, rounds, reply>>

Return ==
    /\ stage = "handling" /\ ex.pos > Len(handler.steps)
    /\ Answer("result", <<>>, None)

Handle ==
    /\ ask \/ NeedInput \/ log \/ fail \/ Return
    /\ UNCHANGED <<me, handler, answers, state, rounds, asked>>

Next == call_tool \/ Handle \/ push_ask \/ Receive \/ on_ask \/ ByHand

Spec == Init /\ [][Next]_vars

(***************************************************************************)
(* Properties                                                              *)
(***************************************************************************)
Questions == UNION {ToSet(handler.steps[n].keys) : n \in DOMAIN handler.steps}
Asked(k) == \E n \in DOMAIN asked : asked[n][1] = k
VerdictOf(k) == LET n == CHOOSE n \in DOMAIN asked : asked[n][1] = k IN asked[n][2]
Defaulted(k) == \E n \in DOMAIN handler.steps : handler.steps[n].keys = <<k>> /\ handler.steps[n].default
Settled(k) == <<k, IF Asked(k) THEN VerdictOf(k) ELSE "default">>
Needs == {n \in DOMAIN handler.steps : handler.steps[n].does = "need"}

\* What a handler is asked to keep to: it asks by ask() or by NeedInput, and by
\* no key twice.
AsksPlainly(h) ==
    /\ \A n, m \in DOMAIN h.steps : ~(h.steps[n].does = "ask" /\ h.steps[m].does = "need")
    /\ \A n, m \in DOMAIN h.steps : \A i \in DOMAIN h.steps[n].keys, j \in DOMAIN h.steps[m].keys :
          h.steps[n].keys[i] = h.steps[m].keys[j] => n = m /\ i = j

\* The same handler and the same user end alike on every revision: a handler
\* that returns was told, step by step, the verdict of the one time the user
\* was asked each of its questions, or the default where nobody can be asked,
\* and has the state it left with its last question; who runs out of rounds
\* had a question for each; nobody is asked who cannot be, nobody the same
\* twice, and nobody what the handler did not ask.
EveryQuestionIsSettled ==
    /\ \A n \in DOMAIN asked : asked[n][1] \in Questions
    /\ \A n, m \in DOMAIN asked : asked[n][1] = asked[m][1] => n = m
    /\ Ended /\ reply.kind = "result" =>
          /\ reply.got = [n \in DOMAIN handler.steps |->
                [i \in DOMAIN handler.steps[n].keys |-> Settled(handler.steps[n].keys[i])]]
          /\ \A k \in Questions : ~Asked(k) => Defaulted(k) /\ ~can_ask
          /\ \A n \in Needs : (\A m \in Needs : m <= n) => reply.saw = handler.steps[n].keys[1]
    /\ Ended /\ reply.kind = "still asking" =>
          Len(asked) >= IF asks_on_the_stream THEN PUSH_ASK_ROUNDS ELSE ASK_ROUNDS
    /\ Ended /\ reply.kind = "cannot ask" => asked = <<>> /\ ~me.declared /\ \E k \in Questions : ~Defaulted(k)

\* sse.py: "a failed call must still answer".
EveryRequestIsAnswered == stage = "replied" => reply.kind # None

\* docs/guide/dependencies.md: a dependency of an async generator "must be
\* released when the request ends", and no handler runs with a released one.
NothingReleasedIsUsed == stage = "handling" => ex.dep # "released"
=============================================================================
