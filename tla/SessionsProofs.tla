--------------------------- MODULE SessionsProofs ---------------------------
(***************************************************************************)
(* Theorems about MCSpec, for any number of callers, losses and cuts: that *)
(* tasks that share a Client end up naming a session that has its log      *)
(* level, that a notification stream delivers in order, and that an update *)
(* of a session applies once, is answered truly and never reverts another. *)
(***************************************************************************)
EXTENDS MCSessions, SequenceTheorems, TLAPS

-----------------------------------------------------------------------------
(* HttpSession: what a task's stack of exchanges may look like. *)

Places == {"unsent", "sent", "loaded", "answered"}
OwnOps == {"call", "set"}

Exchanges == [op : OwnOps \cup {"initialize", "initialized", "restore"}, level : Level \cup {None},
              again : BOOLEAN, header : Nat \cup {None}, at : Places,
              status : {None, "ok", "refused", "gone"}, minted : Nat \cup {None}]

\* An exchange, where the endpoint has numbered n sessions.
Sound(x, n) ==
    /\ x.header \in 1..n \cup {None}
    /\ x.minted \in 1..n \cup {None}
    /\ x.minted # None => x.op = "initialize" /\ x.at = "answered"
    /\ x.at = "unsent" => x.header = None
    /\ x.at = "answered" => x.status \in {"ok", "refused", "gone"}
    /\ x.op = "set" \/ (x.op = "restore" /\ x.at # "unsent") => x.level \in Level
    /\ x.op = "initialize" =>
        /\ x.header = None /\ x.at # "unsent"
        /\ x.at = "answered" => x.status = "ok" /\ x.minted # None

\* What the task was asked for comes last; a handshake is done in its order, and
\* only the exchange on top has been sent.
Stack(s, n) ==
    /\ s \in Seq(Exchanges)
    /\ \A i \in 1..Len(s) :
        /\ Sound(s[i], n)
        /\ i # 1 => s[i].at = "unsent"
        /\ s[i].op \in OwnOps <=> i = Len(s)
        /\ s[i].op = "initialize" => s[i + 1].op = "initialized"
        /\ s[i].op = "initialized" => s[i + 1].op = "restore"

ClientTypes ==
    /\ sessions \in Seq(Level \cup {None, C!Lost})
    /\ session_id \in 1..Len(sessions) \cup {None}
    /\ log_level \in Level \cup {None}
    /\ DOMAIN todo = Caller /\ \A t \in Caller : Stack(todo[t], Len(sessions))
    /\ ended \in [Caller -> {None, "ok", "refused", "gone", "unrepaired", "broken"}]
    /\ served \in [Caller -> Nat]
    /\ calls \in 0 .. MaxCalls
    /\ disturbed \in BOOLEAN

Doing(t, op) == todo[t] # <<>> /\ todo[t][1].op = op

\* A call that was served is answered, and not by a 404: nothing repeats it.
ServedIsOver ==
    \A t \in Caller :
        /\ served[t] <= 1
        /\ todo[t] # <<>> /\ served[t] # 0 =>
            Len(todo[t]) = 1 /\ todo[t][1].at = "answered" /\ todo[t][1].status # "gone"

\* A session the Client has not heard of has no level, and nothing names it.
MintedIsFresh ==
    \A t \in Caller : todo[t] # <<>> /\ todo[t][1].minted # None =>
        /\ session_id # todo[t][1].minted
        /\ sessions[todo[t][1].minted] \in {None, C!Lost}
        /\ \A u \in Caller : todo[u] # <<>> =>
            /\ todo[u][1].header # todo[t][1].minted
            /\ u # t => todo[u][1].minted # todo[t][1].minted

\* A task that sets the level is alone.
SetterIsAlone ==
    \A t, u \in Caller : t # u /\ todo[t] # <<>> /\ todo[u] # <<>> =>
        todo[t][Len(todo[t])].op # "set"

\* While the Client names no session, a task is opening one.
SomeoneOpens == session_id = None => \E t \in Caller : Doing(t, "initialize")

\* The endpoint has set the level the Client is about to take over.
SetDone(t) == Doing(t, "set") /\ todo[t][1].at = "answered" /\ todo[t][1].status = "ok"

\* What is on its way carries what the Client holds.
UpToDate ==
    \A t \in Caller : todo[t] # <<>> /\ todo[t][1].at # "unsent" =>
        /\ todo[t][1].op = "restore" => todo[t][1].level = log_level
        /\ todo[t][1].op = "set" => todo[t][1].header = session_id
        /\ SetDone(t) =>
            session_id # None /\ sessions[session_id] \in {C!Lost, todo[t][1].level}

\* t will set the log level of the session the Client names.
Restoring(t) ==
    /\ sessions[session_id] = None
    /\ \/ Doing(t, "initialized")
       \/ Doing(t, "restore") /\ todo[t][1].at # "answered"
    /\ todo[t][1].at # "unsent" => todo[t][1].header = session_id
    /\ todo[t][1].at = "answered" => todo[t][1].status # "gone"

LevelIsKept ==
    session_id # None =>
        \/ sessions[session_id] \in {C!Lost, log_level}
        \/ \E t \in Caller : Restoring(t) \/ SetDone(t)

Undisturbed == SetterIsAlone /\ SomeoneOpens /\ UpToDate /\ LevelIsKept

ClientIInv ==
    /\ ClientTypes
    /\ ServedIsOver
    /\ MintedIsFresh
    /\ ~disturbed => Undisturbed

(* Stacks *)

LEMMA StackElements ==
    ASSUME NEW n \in Nat, NEW s, Stack(s, n)
    PROVE  /\ Len(s) \in Nat /\ \A i \in 1..Len(s) : s[i] \in Exchanges
           /\ s # <<>> <=> Len(s) > 0
           /\ s # <<>> => 1 \in 1..Len(s) /\ Len(s) \in 1..Len(s) /\ Head(s) = s[1]
BY LenProperties, EmptySeq, ElementOfSeq DEF Stack

LEMMA StackGrows ==
    ASSUME NEW n \in Nat, NEW m \in Nat, n <= m, NEW s, Stack(s, n)
    PROVE  Stack(s, m)
<1>1. 1..n \subseteq 1..m
    OBVIOUS
<1>2. \A x : Sound(x, n) => Sound(x, m)
    BY <1>1 DEF Sound
<1>3. QED
    BY <1>2 DEF Stack

LEMMA StackBelow ==
    ASSUME NEW n \in Nat, NEW s, Stack(s, n), s # <<>>
    PROVE  /\ Stack(Tail(s), n)
           /\ Len(Tail(s)) = Len(s) - 1
           /\ \A i \in 1..Len(s) - 1 : Tail(s)[i] = s[i + 1] /\ i + 1 \in 1..Len(s)
<1>1. s \in Seq(Exchanges) /\ Len(s) \in Nat /\ Len(s) > 0
    BY StackElements DEF Stack
<1>2. /\ Tail(s) \in Seq(Exchanges) /\ Len(Tail(s)) = Len(s) - 1
      /\ \A i \in 1..Len(Tail(s)) : Tail(s)[i] = s[i + 1]
    BY <1>1, HeadTailProperties
<1> DEFINE u == Tail(s)
<1>3. u \in Seq(Exchanges) /\ Len(u) = Len(s) - 1 /\ \A i \in 1..Len(u) : u[i] = s[i + 1]
    BY <1>2
<1> HIDE DEF u
<1>4. \A i \in 1..Len(u) : i + 1 \in 1..Len(s) /\ i + 1 # 1 /\ (i = Len(u) <=> i + 1 = Len(s))
    BY <1>1, <1>3
<1>5. ASSUME NEW i \in 1..Len(u)
      PROVE  /\ Sound(u[i], n)
             /\ u[i].at = "unsent"
             /\ u[i].op \in OwnOps <=> i = Len(u)
             /\ u[i].op = "initialize" => u[i + 1].op = "initialized"
             /\ u[i].op = "initialized" => u[i + 1].op = "restore"
    <2>1. /\ Sound(s[i + 1], n) /\ s[i + 1].at = "unsent"
          /\ s[i + 1].op \in OwnOps <=> i + 1 = Len(s)
          /\ s[i + 1].op = "initialize" => s[(i + 1) + 1].op = "initialized"
          /\ s[i + 1].op = "initialized" => s[(i + 1) + 1].op = "restore"
        BY <1>4 DEF Stack
    <2>2. s[i + 1].op \notin OwnOps => i + 1 \in 1..Len(u)
        BY <2>1, <1>1, <1>3
    <2>3. s[i + 1].op \notin OwnOps => u[i + 1] = s[(i + 1) + 1]
        BY <2>2, <1>3
    <2>4. s[i + 1].op \in {"initialize", "initialized"} => s[i + 1].op \notin OwnOps
        BY DEF OwnOps
    <2>5. QED
        BY <2>1, <2>3, <2>4, <1>3, <1>4
<1>6. Stack(u, n)
    BY <1>3, <1>5 DEF Stack
<1>7. QED
    BY <1>3, <1>4, <1>6 DEF u

LEMMA InFront ==
    ASSUME NEW S, NEW p \in Seq(S), NEW s \in Seq(S), s # <<>>
    PROVE  /\ p \o Tail(s) \in Seq(S)
           /\ Len(p \o Tail(s)) = Len(p) + Len(s) - 1
           /\ \A i \in 1..Len(p) : (p \o Tail(s))[i] = p[i]
           /\ \A i \in 2..Len(s) : (p \o Tail(s))[Len(p) + i - 1] = s[i]
<1>1. /\ Tail(s) \in Seq(S) /\ Len(Tail(s)) = Len(s) - 1
      /\ \A i \in 1..Len(Tail(s)) : Tail(s)[i] = s[i + 1]
      /\ Len(s) \in Nat /\ Len(p) \in Nat
    BY HeadTailProperties, LenProperties
<1> DEFINE rest == Tail(s)
<1>2. /\ rest \in Seq(S) /\ Len(rest) = Len(s) - 1
      /\ \A i \in 1..Len(rest) : rest[i] = s[i + 1]
    BY <1>1
<1> HIDE DEF rest
<1>3. /\ p \o rest \in Seq(S) /\ Len(p \o rest) = Len(p) + Len(rest)
      /\ \A i \in 1..Len(p) + Len(rest) :
            (p \o rest)[i] = IF i <= Len(p) THEN p[i] ELSE rest[i - Len(p)]
    BY <1>2, ConcatProperties
<1>4. ASSUME NEW i \in 2..Len(s) PROVE (p \o rest)[Len(p) + i - 1] = s[i]
    <2>1. /\ i - 1 \in 1..Len(rest) /\ (i - 1) + 1 = i
          /\ Len(p) + i - 1 \in 1..Len(p) + Len(rest)
          /\ ~(Len(p) + i - 1 <= Len(p)) /\ (Len(p) + i - 1) - Len(p) = i - 1
        BY <1>1, <1>2
    <2>2. QED
        BY <2>1, <1>2, <1>3
<1>5. \A i \in 1..Len(p) : i \in 1..Len(p) + Len(rest) /\ i <= Len(p)
    BY <1>1, <1>2
<1>6. Len(p \o rest) = Len(p) + Len(s) - 1
    BY <1>1, <1>2, <1>3
<1>7. QED
    BY <1>3, <1>4, <1>5, <1>6 DEF rest

LEMMA OnTop ==
    ASSUME NEW S, NEW x \in S, NEW s \in Seq(S), s # <<>>
    PROVE  /\ <<x>> \o Tail(s) \in Seq(S)
           /\ Len(<<x>> \o Tail(s)) = Len(s)
           /\ (<<x>> \o Tail(s))[1] = x
           /\ \A i \in 2..Len(s) : (<<x>> \o Tail(s))[i] = s[i]
<1>0. PICK one \in Seq(S) : one = <<x>>
    <2>1. <<x>> \in Seq(S)
        OBVIOUS
    <2>2. QED
        BY <2>1
<1>1. Len(one) = 1 /\ one[1] = x /\ Len(s) \in Nat
    BY <1>0, LenProperties
<1>2. /\ one \o Tail(s) \in Seq(S)
      /\ Len(one \o Tail(s)) = Len(one) + Len(s) - 1
      /\ \A i \in 1..Len(one) : (one \o Tail(s))[i] = one[i]
      /\ \A i \in 2..Len(s) : (one \o Tail(s))[Len(one) + i - 1] = s[i]
    BY InFront
<1> DEFINE u == one \o Tail(s)
<1>3. u \in Seq(S) /\ Len(u) = 1 + Len(s) - 1 /\ u[1] = x
    BY <1>1, <1>2
<1>4. Len(u) = Len(s)
    BY <1>1, <1>3
<1>5. \A i \in 2..Len(s) : u[i] = s[i]
    <2>1. \A i \in 2..Len(s) : 1 + i - 1 = i
        BY <1>1
    <2>2. QED
        BY <2>1, <1>1, <1>2
<1> HIDE DEF u
<1>6. QED
    BY <1>0, <1>3, <1>4, <1>5 DEF u

\* The exchange on top is replaced by one of the same operation.
LEMMA StackTop ==
    ASSUME NEW n \in Nat, NEW m \in Nat, n <= m, NEW s, Stack(s, n), s # <<>>,
           NEW x \in Exchanges, Sound(x, m), x.op = s[1].op
    PROVE  /\ Stack(<<x>> \o Tail(s), m)
           /\ <<x>> \o Tail(s) # <<>>
           /\ Len(<<x>> \o Tail(s)) = Len(s)
           /\ (<<x>> \o Tail(s))[1] = x
           /\ \A i \in 2..Len(s) : (<<x>> \o Tail(s))[i] = s[i]
           /\ (<<x>> \o Tail(s))[Len(s)].op = s[Len(s)].op
<1>1. s \in Seq(Exchanges) /\ Len(s) \in Nat /\ Len(s) > 0 /\ Stack(s, m)
    BY StackElements, StackGrows DEF Stack
<1> DEFINE u == <<x>> \o Tail(s)
<1>4. u \in Seq(Exchanges) /\ Len(u) = Len(s) /\ u[1] = x
    BY <1>1, OnTop
<1>6. \A i \in 2..Len(s) : u[i] = s[i]
    BY <1>1, OnTop
<1> HIDE DEF u
<1>7. ASSUME NEW i \in 1..Len(u)
      PROVE  /\ Sound(u[i], m)
             /\ i # 1 => u[i].at = "unsent"
             /\ u[i].op \in OwnOps <=> i = Len(u)
             /\ u[i].op = "initialize" => u[i + 1].op = "initialized"
             /\ u[i].op = "initialized" => u[i + 1].op = "restore"
    <2>1. /\ Sound(s[i], m)
          /\ i # 1 => s[i].at = "unsent"
          /\ s[i].op \in OwnOps <=> i = Len(s)
          /\ s[i].op = "initialize" => s[i + 1].op = "initialized"
          /\ s[i].op = "initialized" => s[i + 1].op = "restore"
        BY <1>1, <1>4 DEF Stack
    <2>2. u[i].op = s[i].op /\ (i = 1 \/ u[i] = s[i])
        <3>1. i = 1 \/ i \in 2..Len(s)
            BY <1>1, <1>4
        <3>2. QED
            BY <3>1, <1>4, <1>6
    <2>3. s[i].op \notin OwnOps => i + 1 \in 2..Len(s)
        BY <2>1, <1>1, <1>4
    <2>4. s[i].op \in {"initialize", "initialized"} => s[i].op \notin OwnOps
        BY DEF OwnOps
    <2>5. s[i].op \in {"initialize", "initialized"} => u[i + 1] = s[i + 1]
        BY <2>3, <2>4, <1>6
    <2>6. QED
        BY <2>1, <2>2, <2>5, <1>4
<1>8. Stack(u, m)
    BY <1>4, <1>7 DEF Stack
<1>9. u # <<>>
    BY <1>4, <1>1, EmptySeq
<1>10. QED
    BY <1>4, <1>6, <1>8, <1>9 DEF u
\* What a caller starts with.
LEMMA StackNew ==
    ASSUME NEW n \in Nat, NEW x \in Exchanges, Sound(x, n), x.op \in OwnOps
    PROVE  Stack(<<x>>, n) /\ Len(<<x>>) = 1 /\ <<x>>[1] = x /\ <<x>> # <<>>
<1>1. PICK one \in Seq(Exchanges) : one = <<x>>
    <2>1. <<x>> \in Seq(Exchanges)
        OBVIOUS
    <2>2. QED
        BY <2>1
<1>2. Len(one) = 1 /\ one[1] = x
    BY <1>1
<1>3. one # <<>>
    BY <1>1, <1>2, EmptySeq
<1>4. Stack(one, n)
    BY <1>2 DEF Stack, OwnOps
<1>5. QED
    BY <1>1, <1>2, <1>3, <1>4

LEMMA NewExchange ==
    ASSUME NEW op \in OwnOps \cup {"initialized", "restore"}, NEW level \in Level \cup {None},
           op = "set" => level \in Level, NEW n \in Nat,
           NEW x, x = C!Exchange(op, level) \/ x = [C!Exchange(op, level) EXCEPT !.again = TRUE]
    PROVE  /\ x \in Exchanges /\ Sound(x, n)
           /\ x.op = op /\ x.at = "unsent" /\ x.minted = None /\ x.header = None
<1>1. /\ x \in Exchanges
      /\ x.op = op /\ x.level = level /\ x.at = "unsent" /\ x.minted = None /\ x.header = None
    <2>1. PICK r \in Exchanges :
            /\ r = C!Exchange(op, level)
            /\ r.op = op /\ r.level = level /\ r.at = "unsent" /\ r.minted = None /\ r.header = None
        BY DEF Exchanges, Places, OwnOps, C!Exchange
    <2>2. PICK q : q = [r EXCEPT !.again = TRUE]
        OBVIOUS
    <2>3. /\ q \in Exchanges
          /\ q.op = op /\ q.level = level /\ q.at = "unsent" /\ q.minted = None /\ q.header = None
        BY <2>1, <2>2 DEF Exchanges
    <2>4. QED
        BY <2>1, <2>2, <2>3
<1>2. Sound(x, n)
    BY <1>1 DEF Sound, OwnOps
<1>3. QED
    BY <1>1, <1>2

Greeting == C!Sent(C!Exchange("initialize", None), None)

LEMMA GreetingIsSound ==
    ASSUME NEW n \in Nat
    PROVE  /\ Greeting \in Exchanges /\ Sound(Greeting, n)
           /\ Greeting.op = "initialize" /\ Greeting.at = "sent"
           /\ Greeting.minted = None /\ Greeting.header = None
<1>1. /\ Greeting \in Exchanges
      /\ Greeting.op = "initialize" /\ Greeting.at = "sent"
      /\ Greeting.minted = None /\ Greeting.header = None
    BY DEF Exchanges, Places, Greeting, C!Sent, C!Exchange
<1>2. Sound(Greeting, n)
    BY <1>1 DEF Sound
<1>3. QED
    BY <1>1, <1>2

Again(x) == [C!Exchange(x.op, x.level) EXCEPT !.again = TRUE]
Reopened(s) == C!Handshake \o <<Again(s[1])>> \o Tail(s)

\* A handshake before the request that lost its session.
LEMMA StackAgain ==
    ASSUME NEW n \in Nat, NEW s, Stack(s, n), s # <<>>, s[1].op # "initialize"
    PROVE  /\ Stack(Reopened(s), n)
           /\ Reopened(s) # <<>>
           /\ Len(Reopened(s)) = Len(s) + 3
           /\ Reopened(s)[1] = Greeting
           /\ Reopened(s)[Len(s) + 3].op = s[Len(s)].op
<1>1. /\ s \in Seq(Exchanges) /\ Len(s) \in Nat /\ Len(s) > 0 /\ 1 \in 1..Len(s)
      /\ s[1] \in Exchanges /\ Sound(s[1], n)
    BY StackElements DEF Stack
<1>2. /\ Again(s[1]) \in Exchanges /\ Sound(Again(s[1]), n)
      /\ Again(s[1]).op = s[1].op /\ Again(s[1]).at = "unsent"
    <2>1. /\ s[1].op \in OwnOps \cup {"initialized", "restore"}
          /\ s[1].level \in Level \cup {None}
          /\ s[1].op = "set" => s[1].level \in Level
        BY <1>1 DEF Exchanges, Sound
    <2>2. QED
        BY <2>1, NewExchange DEF Again
<1>3. /\ C!Exchange("initialized", None) \in Exchanges /\ Sound(C!Exchange("initialized", None), n)
      /\ C!Exchange("initialized", None).op = "initialized"
      /\ C!Exchange("initialized", None).at = "unsent"
    BY NewExchange
<1>4. /\ C!Exchange("restore", None) \in Exchanges /\ Sound(C!Exchange("restore", None), n)
      /\ C!Exchange("restore", None).op = "restore"
      /\ C!Exchange("restore", None).at = "unsent"
    BY NewExchange
<1>5. PICK h \in Seq(Exchanges) :
        /\ h = C!Handshake /\ Len(h) = 3
        /\ h[1] = Greeting /\ h[2] = C!Exchange("initialized", None)
        /\ h[3] = C!Exchange("restore", None)
    <2>1. PICK x1, x2, x3 \in Exchanges :
            /\ x1 = Greeting /\ x2 = C!Exchange("initialized", None)
            /\ x3 = C!Exchange("restore", None)
        BY <1>3, <1>4, GreetingIsSound
    <2>2. C!Handshake = <<x1, x2, x3>>
        BY <2>1 DEF C!Handshake, Greeting
    <2>3. <<x1, x2, x3>> \in Seq(Exchanges) /\ Len(<<x1, x2, x3>>) = 3
        OBVIOUS
    <2>4. QED
        BY <2>1, <2>2, <2>3
<1>6. PICK y \in Seq(Exchanges) : y = <<Again(s[1])>> /\ Len(y) = 1 /\ y[1] = Again(s[1])
    <2>1. PICK x \in Exchanges : x = Again(s[1])
        BY <1>2
    <2>2. <<x>> \in Seq(Exchanges) /\ Len(<<x>>) = 1 /\ <<x>>[1] = x
        OBVIOUS
    <2>3. QED
        BY <2>1, <2>2
<1>7. PICK p \in Seq(Exchanges) :
        /\ p = h \o y /\ Len(p) = 4
        /\ p[1] = h[1] /\ p[2] = h[2] /\ p[3] = h[3] /\ p[4] = y[1]
    <2>1. /\ h \o y \in Seq(Exchanges) /\ Len(h \o y) = Len(h) + Len(y)
          /\ \A i \in 1..Len(h) + Len(y) : (h \o y)[i] = IF i <= Len(h) THEN h[i] ELSE y[i - Len(h)]
        BY ConcatProperties
    <2>2. /\ 1 \in 1..4 /\ 2 \in 1..4 /\ 3 \in 1..4 /\ 4 \in 1..4
          /\ 1 <= 3 /\ 2 <= 3 /\ 3 <= 3 /\ ~(4 <= 3) /\ 4 - 3 = 1 /\ 3 + 1 = 4
        OBVIOUS
    <2>3. PICK p \in Seq(Exchanges) : p = h \o y
        BY <2>1
    <2>4. Len(h) = 3 /\ Len(y) = 1
        BY <1>5, <1>6
    <2>5. Len(p) = 4 /\ \A i \in 1..4 : p[i] = IF i <= 3 THEN h[i] ELSE y[i - 3]
        BY <2>1, <2>2, <2>3, <2>4
    <2>6. p[1] = h[1] /\ p[2] = h[2] /\ p[3] = h[3] /\ p[4] = y[1]
        BY <2>2, <2>5
    <2>7. QED
        BY <2>3, <2>5, <2>6
<1>8. /\ p \o Tail(s) \in Seq(Exchanges)
      /\ Len(p \o Tail(s)) = Len(p) + Len(s) - 1
      /\ \A i \in 1..Len(p) : (p \o Tail(s))[i] = p[i]
      /\ \A i \in 2..Len(s) : (p \o Tail(s))[Len(p) + i - 1] = s[i]
    BY <1>1, InFront
<1>9. PICK u \in Seq(Exchanges) : u = p \o Tail(s)
    BY <1>8
<1>10. /\ Len(u) = Len(s) + 3
       /\ u[1] = Greeting /\ u[2] = C!Exchange("initialized", None)
       /\ u[3] = C!Exchange("restore", None) /\ u[4] = Again(s[1])
    <2>1. 1 \in 1..4 /\ 2 \in 1..4 /\ 3 \in 1..4 /\ 4 \in 1..4
        OBVIOUS
    <2>2. 4 + Len(s) - 1 = Len(s) + 3
        BY <1>1
    <2>3. QED
        BY <2>1, <2>2, <1>5, <1>6, <1>7, <1>8, <1>9
<1>11. \A i \in 2..Len(s) : u[i + 3] = s[i]
    <2>1. SUFFICES ASSUME NEW i \in 2..Len(s) PROVE u[i + 3] = s[i]
        OBVIOUS
    <2>2. 4 + i - 1 = i + 3
        BY <1>1
    <2>3. u[Len(p) + i - 1] = s[i] /\ Len(p) = 4
        BY <1>7, <1>8, <1>9
    <2>4. QED
        BY ONLY <2>2, <2>3, ZenonT(60)
<1>12. \A i \in 1..Len(s) : \A k : k = i + 3 =>
            u[k].op = s[i].op /\ u[k].at = "unsent" /\ Sound(u[k], n)
    <2>1. ASSUME NEW i \in 1..Len(s), i # 1
          PROVE  u[i + 3].op = s[i].op /\ u[i + 3].at = "unsent" /\ Sound(u[i + 3], n)
        <3>1. i \in 2..Len(s)
            BY <2>1, <1>1
        <3>2. QED
            BY <3>1, <2>1, <1>11 DEF Stack
    <2>2. u[1 + 3].op = s[1].op /\ u[1 + 3].at = "unsent" /\ Sound(u[1 + 3], n)
        BY <1>2, <1>10
    <2>3. QED
        BY <2>1, <2>2
<1>13. ASSUME NEW i \in 1..Len(u)
       PROVE  /\ Sound(u[i], n)
              /\ i # 1 => u[i].at = "unsent"
              /\ u[i].op \in OwnOps <=> i = Len(u)
              /\ u[i].op = "initialize" => u[i + 1].op = "initialized"
              /\ u[i].op = "initialized" => u[i + 1].op = "restore"
    <2>1. i = 1 \/ i = 2 \/ i = 3 \/ \E j \in 1..Len(s) : i = j + 3
        <3>1. i > 3 => i - 3 \in 1..Len(s) /\ i = (i - 3) + 3
            BY <1>1, <1>10
        <3>2. i > 3 => \E j \in 1..Len(s) : i = j + 3
            BY <3>1
        <3>3. i > 3 \/ i = 1 \/ i = 2 \/ i = 3
            OBVIOUS
        <3>4. QED
            BY <3>2, <3>3
    <2>2. CASE i = 1
        BY <2>2, <1>1, <1>3, <1>10, GreetingIsSound DEF OwnOps
    <2>3. CASE i = 2
        BY <2>3, <1>1, <1>3, <1>4, <1>10 DEF OwnOps
    <2>4. CASE i = 3
        BY <2>4, <1>1, <1>4, <1>10 DEF OwnOps
    <2>5. ASSUME NEW j \in 1..Len(s), i = j + 3
          PROVE  /\ Sound(u[i], n)
                 /\ i # 1 => u[i].at = "unsent"
                 /\ u[i].op \in OwnOps <=> i = Len(u)
                 /\ u[i].op = "initialize" => u[i + 1].op = "initialized"
                 /\ u[i].op = "initialized" => u[i + 1].op = "restore"
        <3>1. /\ s[j].op \in OwnOps <=> j = Len(s)
              /\ s[j].op = "initialize" => s[j + 1].op = "initialized"
              /\ s[j].op = "initialized" => s[j + 1].op = "restore"
            BY DEF Stack
        <3>2. s[j].op \in {"initialize", "initialized"} => j # Len(s)
            BY <3>1 DEF OwnOps
        <3>3. s[j].op \in {"initialize", "initialized"} => u[i + 1] = s[j + 1]
            <4>1. j # Len(s) => j + 1 \in 2..Len(s) /\ i + 1 = (j + 1) + 3
                BY <2>5, <1>1
            <4>2. QED
                BY <4>1, <3>2, <1>11
        <3>4. u[i].op = s[j].op /\ u[i].at = "unsent" /\ Sound(u[i], n)
            BY <2>5, <1>12
        <3>5. i = Len(u) <=> j = Len(s)
            BY <2>5, <1>1, <1>10
        <3>6. QED
            BY <3>1, <3>3, <3>4, <3>5
    <2>6. QED
        BY <2>1, <2>2, <2>3, <2>4, <2>5
<1>14. Stack(u, n)
    BY <1>13 DEF Stack
<1>15. u # <<>>
    BY <1>1, <1>10, EmptySeq
<1>16. u[Len(s) + 3].op = s[Len(s)].op
    <2>1. Len(s) \in 1..Len(s)
        BY <1>1
    <2>2. QED
        BY <2>1, <1>12
<1>17. u = Reopened(s)
    BY <1>5, <1>6, <1>7, <1>9 DEF Reopened
<1>18. QED
    BY <1>10, <1>14, <1>15, <1>16, <1>17
-----------------------------------------------------------------------------
(* What the steps of a task do to its stack. *)

LEMMA SentExchange ==
    ASSUME NEW x \in Exchanges, NEW l \in Level \cup {None}, NEW h \in Nat \cup {None}
    PROVE  LET y == C!Sent([x EXCEPT !.level = l], h) IN
           /\ y \in Exchanges
           /\ y.op = x.op /\ y.again = x.again /\ y.status = x.status /\ y.minted = x.minted
           /\ y.level = l /\ y.header = h /\ y.at = "sent"
<1>1. PICK z : z = [x EXCEPT !.level = l]
    OBVIOUS
<1>2. /\ z \in Exchanges /\ z.level = l
      /\ z.op = x.op /\ z.again = x.again /\ z.status = x.status /\ z.minted = x.minted
    BY <1>1 DEF Exchanges
<1>3. PICK y : y = C!Sent(z, h)
    OBVIOUS
<1>4. /\ y \in Exchanges /\ y.level = l /\ y.header = h /\ y.at = "sent"
      /\ y.op = x.op /\ y.again = x.again /\ y.status = x.status /\ y.minted = x.minted
    BY <1>2, <1>3 DEF Exchanges, Places, C!Sent
<1>5. QED
    BY <1>1, <1>3, <1>4

LEMMA AnsweredExchange ==
    ASSUME NEW x \in Exchanges, NEW status \in {"ok", "refused", "gone"}
    PROVE  LET y == C!Answered(x, status) IN
           /\ y \in Exchanges
           /\ y.op = x.op /\ y.again = x.again /\ y.minted = x.minted
           /\ y.level = x.level /\ y.header = x.header /\ y.at = "answered" /\ y.status = status
<1>1. PICK y : y = C!Answered(x, status)
    OBVIOUS
<1>2. /\ y \in Exchanges
      /\ y.op = x.op /\ y.again = x.again /\ y.minted = x.minted
      /\ y.level = x.level /\ y.header = x.header /\ y.at = "answered" /\ y.status = status
    BY <1>1 DEF Exchanges, Places, C!Answered
<1>3. QED
    BY <1>1, <1>2

LEMMA TopOfStack ==
    ASSUME ClientTypes, NEW t \in Caller, todo[t] # <<>>
    PROVE  /\ Head(todo[t]) = todo[t][1] /\ todo[t][1] \in Exchanges
           /\ Sound(todo[t][1], Len(sessions))
           /\ Stack(todo[t], Len(sessions)) /\ Len(todo[t]) \in Nat /\ Len(todo[t]) > 0
           /\ 1 \in 1..Len(todo[t]) /\ Len(sessions) \in Nat
<1>1. Len(sessions) \in Nat
    BY LenProperties DEF ClientTypes
<1>2. Stack(todo[t], Len(sessions))
    BY DEF ClientTypes
<1>3. QED
    BY <1>1, <1>2, StackElements DEF Stack

\* t's top exchange becomes y.
Replaces(t, y) ==
    /\ todo[t] # <<>> /\ todo'[t] # <<>>
    /\ todo'[t][1] = y /\ y.op = todo[t][1].op
    /\ Len(todo'[t]) = Len(todo[t])
    /\ todo'[t][Len(todo[t])].op = todo[t][Len(todo[t])].op
    /\ \A u \in Caller \ {t} : todo'[u] = todo[u]

LEMMA PutStep ==
    ASSUME ClientTypes, NEW t \in Caller, todo[t] # <<>>, NEW y \in Exchanges,
           Sound(y, Len(sessions)'), y.op = todo[t][1].op,
           Len(sessions)' \in Nat, Len(sessions) <= Len(sessions)', C!Put(t, y)
    PROVE  /\ Replaces(t, y)
           /\ DOMAIN todo' = Caller /\ \A u \in Caller : Stack(todo'[u], Len(sessions)')
<1>1. Stack(todo[t], Len(sessions)) /\ Len(sessions) \in Nat
    BY TopOfStack
<1>2. /\ DOMAIN todo' = Caller
      /\ todo'[t] = <<y>> \o Tail(todo[t])
      /\ \A u \in Caller \ {t} : todo'[u] = todo[u]
    BY DEF C!Put, ClientTypes
<1>3. /\ Stack(todo'[t], Len(sessions)') /\ todo'[t] # <<>> /\ Len(todo'[t]) = Len(todo[t])
      /\ todo'[t][1] = y /\ todo'[t][Len(todo[t])].op = todo[t][Len(todo[t])].op
    BY <1>1, <1>2, StackTop
<1>4. \A u \in Caller \ {t} : Stack(todo'[u], Len(sessions)')
    BY <1>1, <1>2, StackGrows DEF ClientTypes
<1>5. QED
    BY <1>2, <1>3, <1>4 DEF Replaces

\* A request leaves with the session the Client names.
LEMMA SendStep ==
    ASSUME ClientTypes, NEW t \in Caller, C!Send(t)
    PROVE  /\ ClientTypes'
           /\ \E y \in Exchanges :
                /\ Replaces(t, y)
                /\ todo[t][1].at = "unsent" /\ y.at = "sent" /\ y.header = session_id
                /\ y.minted = None
                /\ y.op = "restore" => y.level = log_level
           /\ UNCHANGED <<session_id, log_level, ended, sessions, calls, served, disturbed>>
<1>1. todo[t] # <<>> /\ Head(todo[t]).at = "unsent"
    BY DEF C!Send, C!At, C!Idle
<1>2. PICK x \in Exchanges : x = todo[t][1] /\ x = Head(todo[t]) /\ Sound(x, Len(sessions))
    BY <1>1, TopOfStack
<1>3. PICK l \in Level \cup {None} : l = IF x.op = "restore" THEN log_level ELSE x.level
    BY <1>2 DEF Exchanges, ClientTypes
<1>4. session_id \in Nat \cup {None} /\ session_id \in 1..Len(sessions) \cup {None}
    BY DEF ClientTypes
<1>5. PICK y \in Exchanges :
        /\ y = C!Sent([x EXCEPT !.level = l], session_id)
        /\ y.op = x.op /\ y.minted = x.minted
        /\ y.level = l /\ y.header = session_id /\ y.at = "sent"
    BY <1>3, <1>4, SentExchange
<1>6. x.op # "initialize" /\ x.minted = None
    BY <1>1, <1>2 DEF Sound
<1>7. x.op = "restore" => l \in Level
    <2>1. x.op = "restore" => log_level # None
        BY <1>2 DEF C!Send
    <2>2. QED
        BY <2>1, <1>3 DEF ClientTypes
<1>8. Sound(y, Len(sessions))
    BY <1>2, <1>3, <1>4, <1>5, <1>6, <1>7 DEF Sound
<1>9. C!Put(t, y)
    BY <1>2, <1>3, <1>5 DEF C!Send
<1>10. UNCHANGED <<session_id, log_level, ended, sessions, calls, served, disturbed>>
    BY DEF C!Send, C!bounds
<1>11. Replaces(t, y) /\ DOMAIN todo' = Caller /\ \A u \in Caller : Stack(todo'[u], Len(sessions)')
    BY <1>1, <1>2, <1>5, <1>8, <1>9, <1>10, TopOfStack, PutStep
<1>12. ClientTypes'
    BY <1>10, <1>11 DEF ClientTypes
<1>13. QED
    BY <1>1, <1>2, <1>3, <1>5, <1>6, <1>10, <1>11, <1>12

\* The endpoint lets a request pass that names no session or one it holds.
LEMMA LoadStep ==
    ASSUME ClientTypes, NEW t \in Caller, C!load_session(t)
    PROVE  /\ ClientTypes'
           /\ \E y \in Exchanges :
                /\ Replaces(t, y)
                /\ todo[t][1].at = "sent" /\ y.minted = None
                /\ y.header = todo[t][1].header /\ y.level = todo[t][1].level
                /\ \/ y.at = "loaded"
                   \/ /\ y.at = "answered" /\ y.status = "gone"
                      /\ y.header # None /\ y.op # "initialize" /\ ~C!Knows(y.header)
           /\ UNCHANGED <<session_id, log_level, ended, sessions, calls, served, disturbed>>
<1>1. todo[t] # <<>> /\ Head(todo[t]).at = "sent"
    BY DEF C!load_session, C!At, C!Idle
<1>2. PICK x \in Exchanges : x = todo[t][1] /\ x = Head(todo[t]) /\ Sound(x, Len(sessions))
    BY <1>1, TopOfStack
<1>3. UNCHANGED <<session_id, log_level, ended, sessions, calls, served, disturbed>>
    BY DEF C!load_session, C!bounds
<1>4. PICK y \in Exchanges :
        /\ y = IF x.header = None \/ C!Knows(x.header) THEN [x EXCEPT !.at = "loaded"]
               ELSE C!Answered(x, "gone")
        /\ y.op = x.op /\ y.minted = x.minted /\ y.level = x.level /\ y.header = x.header
        /\ \/ y.at = "loaded"
           \/ y.at = "answered" /\ y.status = "gone" /\ y.header # None /\ ~C!Knows(y.header)
    <2>1. CASE x.header = None \/ C!Knows(x.header)
        <3>1. PICK y : y = [x EXCEPT !.at = "loaded"]
            OBVIOUS
        <3>2. /\ y \in Exchanges /\ y.at = "loaded"
              /\ y.op = x.op /\ y.minted = x.minted /\ y.level = x.level /\ y.header = x.header
            BY <3>1 DEF Exchanges, Places
        <3>3. QED
            BY <2>1, <3>1, <3>2
    <2>2. CASE ~(x.header = None \/ C!Knows(x.header))
        BY <2>2, AnsweredExchange
    <2>3. QED
        BY <2>1, <2>2
<1>5. x.minted = None /\ (x.op = "initialize" => x.header = None)
    BY <1>1, <1>2 DEF Sound
<1>6. Sound(y, Len(sessions))
    BY <1>1, <1>2, <1>4, <1>5 DEF Sound
<1>7. C!Put(t, y)
    BY <1>2, <1>4 DEF C!load_session
<1>8. Replaces(t, y) /\ DOMAIN todo' = Caller /\ \A u \in Caller : Stack(todo'[u], Len(sessions)')
    <2>1. Sound(y, Len(sessions)') /\ Len(sessions)' \in Nat /\ Len(sessions) <= Len(sessions)'
        BY <1>1, <1>3, <1>6, TopOfStack
    <2>2. QED
        BY <1>1, <1>2, <1>4, <1>7, <2>1, PutStep
<1>9. ClientTypes'
    BY <1>3, <1>8 DEF ClientTypes
<1>10. QED
    BY <1>1, <1>2, <1>3, <1>4, <1>5, <1>8, <1>9

LEMMA KnownSession ==
    ASSUME ClientTypes, NEW s
    PROVE  C!Knows(s) <=> s \in 1..Len(sessions) /\ sessions[s] # C!Lost
BY DEF ClientTypes, C!Knows, C!Sid

\* The handler runs: what it leaves in the store, and what it answers.
Ran(y) ==
    \/ /\ y.op = "initialize" /\ y.status = "ok" /\ y.minted = Len(sessions) + 1
       /\ sessions' = Append(sessions, None)
    \/ /\ y.op \in {"set", "restore"} /\ y.minted = None /\ y.level \in Level
       /\ \/ C!Knows(y.header) /\ sessions' = [sessions EXCEPT ![y.header] = y.level] /\ y.status = "ok"
          \/ ~C!Knows(y.header) /\ sessions' = sessions /\ y.status = "refused"
    \/ /\ y.op \in {"call", "initialized"} /\ y.minted = None /\ y.status = "ok"
       /\ sessions' = sessions

LEMMA RunStep ==
    ASSUME ClientTypes, NEW t \in Caller, C!Run(t)
    PROVE  /\ ClientTypes'
           /\ \E y \in Exchanges :
                /\ Replaces(t, y) /\ Ran(y)
                /\ todo[t][1].at = "loaded" /\ y.at = "answered" /\ y.header = todo[t][1].header
                /\ y.level = todo[t][1].level
           /\ \A u \in Caller : served'[u] = IF u = t /\ Len(todo[t]) = 1 THEN served[u] + 1 ELSE served[u]
           /\ UNCHANGED <<session_id, log_level, ended, calls, disturbed>>
<1>1. todo[t] # <<>> /\ Head(todo[t]).at = "loaded"
    BY DEF C!Run, C!At, C!Idle
<1>2. PICK x \in Exchanges : x = todo[t][1] /\ x = Head(todo[t]) /\ Sound(x, Len(sessions))
    BY <1>1, TopOfStack
<1>3. UNCHANGED <<session_id, log_level, ended, calls, disturbed>>
    BY DEF C!Run, C!bounds
<1>4. /\ served' \in [Caller -> Nat]
      /\ \A u \in Caller : served'[u] = IF u = t /\ Len(todo[t]) = 1 THEN served[u] + 1 ELSE served[u]
    <2>1. served \in [Caller -> Nat]
        BY DEF ClientTypes
    <2>2. served' = IF Len(todo[t]) = 1 THEN [served EXCEPT ![t] = @ + 1] ELSE served
        BY DEF C!Run
    <2>3. QED
        BY <2>1, <2>2
<1>5. x.minted = None /\ (x.op = "initialize" => x.header = None)
    BY <1>1, <1>2 DEF Sound
<1>6. sessions \in Seq(Level \cup {None, C!Lost}) /\ Len(sessions) \in Nat
    BY LenProperties DEF ClientTypes
<1>7. /\ sessions' \in Seq(Level \cup {None, C!Lost}) /\ Len(sessions)' \in Nat
      /\ Len(sessions) <= Len(sessions)'
      /\ \E y \in Exchanges :
            /\ C!Put(t, y) /\ Ran(y) /\ Sound(y, Len(sessions)') /\ y.op = x.op
            /\ y.at = "answered" /\ y.header = x.header /\ y.level = x.level
    <2>1. CASE C!open_session(t)
        <3>1. /\ x.op = "initialize" /\ sessions' = Append(sessions, None)
              /\ C!Put(t, [C!Answered(x, "ok") EXCEPT !.minted = Len(sessions')])
            BY <1>2, <2>1 DEF C!open_session
        <3>2. sessions' \in Seq(Level \cup {None, C!Lost}) /\ Len(sessions') = Len(sessions) + 1
            BY <1>6, <3>1, AppendProperties
        <3>3. PICK z \in Exchanges :
                /\ z = C!Answered(x, "ok")
                /\ z.op = x.op /\ z.level = x.level /\ z.header = x.header /\ z.at = "answered"
                /\ z.status = "ok"
            BY AnsweredExchange
        <3>4. PICK y : y = [z EXCEPT !.minted = Len(sessions')]
            OBVIOUS
        <3>5. /\ y \in Exchanges /\ y.minted = Len(sessions) + 1
              /\ y.op = x.op /\ y.level = x.level /\ y.header = x.header /\ y.at = "answered"
              /\ y.status = "ok"
            BY <1>6, <3>2, <3>3, <3>4 DEF Exchanges
        <3>6. Sound(y, Len(sessions)')
            BY <1>2, <1>5, <1>6, <3>1, <3>2, <3>5, SessionsConstants DEF Sound
        <3>7. C!Put(t, y) /\ Ran(y)
            BY <3>1, <3>3, <3>4, <3>5 DEF Ran
        <3>8. QED
            BY <1>6, <3>2, <3>5, <3>6, <3>7
    <2>2. CASE C!set_log_level(t)
        <3>1. /\ x.op \in {"set", "restore"}
              /\ sessions' = IF C!Knows(x.header) THEN [sessions EXCEPT ![x.header] = x.level] ELSE sessions
              /\ C!Put(t, C!Answered(x, IF C!Knows(x.header) THEN "ok" ELSE "refused"))
            BY <1>2, <2>2 DEF C!set_log_level
        <3>2. x.level \in Level
            BY <1>1, <1>2, <3>1 DEF Sound
        <3>3. sessions' \in Seq(Level \cup {None, C!Lost}) /\ Len(sessions') = Len(sessions)
            BY <1>6, <3>1, <3>2, KnownSession, ExceptSeq
        <3>4. PICK status \in {"ok", "refused", "gone"} :
                status = IF C!Knows(x.header) THEN "ok" ELSE "refused"
            OBVIOUS
        <3>5. PICK y \in Exchanges :
                /\ y = C!Answered(x, status)
                /\ y.op = x.op /\ y.level = x.level /\ y.header = x.header /\ y.at = "answered"
                /\ y.status = status /\ y.minted = x.minted
            BY AnsweredExchange
        <3>6. Sound(y, Len(sessions)')
            BY <1>1, <1>2, <1>5, <3>1, <3>3, <3>5 DEF Sound
        <3>7. C!Put(t, y) /\ Ran(y)
            BY <1>5, <3>1, <3>2, <3>4, <3>5 DEF Ran
        <3>8. QED
            BY <1>6, <3>3, <3>5, <3>6, <3>7
    <2>3. CASE C!Serve(t)
        <3>1. /\ x.op \in {"call", "initialized"} /\ sessions' = sessions
              /\ C!Put(t, C!Answered(x, "ok"))
            BY <1>2, <1>5, <2>3 DEF C!Serve
        <3>2. PICK y \in Exchanges :
                /\ y = C!Answered(x, "ok")
                /\ y.op = x.op /\ y.level = x.level /\ y.header = x.header /\ y.at = "answered"
                /\ y.status = "ok" /\ y.minted = x.minted
            BY AnsweredExchange
        <3>3. Sound(y, Len(sessions)')
            BY <1>1, <1>2, <1>5, <3>1, <3>2 DEF Sound
        <3>4. C!Put(t, y) /\ Ran(y)
            BY <1>5, <3>1, <3>2 DEF Ran
        <3>5. QED
            BY <1>6, <3>1, <3>2, <3>3, <3>4
    <2>4. QED
        BY <2>1, <2>2, <2>3 DEF C!Run
<1>8. PICK y \in Exchanges :
        /\ C!Put(t, y) /\ Ran(y) /\ Sound(y, Len(sessions)') /\ y.op = x.op
        /\ y.at = "answered" /\ y.header = x.header /\ y.level = x.level
    BY <1>7
<1>9. Replaces(t, y) /\ DOMAIN todo' = Caller /\ \A u \in Caller : Stack(todo'[u], Len(sessions)')
    BY <1>1, <1>2, <1>7, <1>8, PutStep
<1>10. session_id' \in 1..Len(sessions') \cup {None}
    BY <1>3, <1>6, <1>7 DEF ClientTypes
<1>11. ClientTypes'
    BY <1>3, <1>4, <1>7, <1>9, <1>10 DEF ClientTypes
<1>12. QED
    BY <1>1, <1>2, <1>3, <1>4, <1>8, <1>9, <1>11

\* A task whose session is gone forgets it and shakes hands again.
LEMMA ReopenStep ==
    ASSUME ClientTypes, NEW t \in Caller, C!reopen(t)
    PROVE  /\ ClientTypes'
           /\ todo[t] # <<>> /\ todo[t][1].at = "answered" /\ todo[t][1].status = "gone"
           /\ todo'[t] # <<>> /\ todo'[t][1] = Greeting
           /\ Len(todo'[t]) = Len(todo[t]) + 3
           /\ todo'[t][Len(todo'[t])].op = todo[t][Len(todo[t])].op
           /\ \A u \in Caller \ {t} : todo'[u] = todo[u]
           /\ session_id # None /\ session_id' = None
           /\ UNCHANGED <<log_level, ended, sessions, calls, served, disturbed>>
<1>1. todo[t] # <<>> /\ Head(todo[t]).at = "answered"
    BY DEF C!reopen, C!At, C!Idle
<1>2. PICK x \in Exchanges : x = todo[t][1] /\ x = Head(todo[t]) /\ Sound(x, Len(sessions))
    BY <1>1, TopOfStack
<1>3. UNCHANGED <<log_level, ended, sessions, calls, served, disturbed>>
    BY DEF C!reopen, C!bounds
<1>4. x.status = "gone" /\ session_id # None /\ session_id' = None
    BY <1>2 DEF C!reopen, C!lost_session
<1>5. x.op # "initialize"
    BY <1>1, <1>2, <1>4 DEF Sound
<1>6. /\ DOMAIN todo' = Caller
      /\ todo'[t] = Reopened(todo[t])
      /\ \A u \in Caller \ {t} : todo'[u] = todo[u]
    <2>1. todo' = [todo EXCEPT ![t] =
              C!Handshake \o <<[C!Exchange(x.op, x.level) EXCEPT !.again = TRUE]>> \o Tail(todo[t])]
        BY <1>2 DEF C!reopen
    <2>2. Reopened(todo[t]) =
              C!Handshake \o <<[C!Exchange(x.op, x.level) EXCEPT !.again = TRUE]>> \o Tail(todo[t])
        BY <1>2 DEF Reopened, Again
    <2>3. QED
        BY <2>1, <2>2 DEF ClientTypes
<1>7. /\ Stack(todo'[t], Len(sessions)) /\ todo'[t] # <<>> /\ Len(todo'[t]) = Len(todo[t]) + 3
      /\ todo'[t][1] = Greeting /\ todo'[t][Len(todo[t]) + 3].op = todo[t][Len(todo[t])].op
    BY <1>1, <1>2, <1>5, <1>6, TopOfStack, StackAgain
<1>8. \A u \in Caller : Stack(todo'[u], Len(sessions)')
    BY <1>3, <1>6, <1>7 DEF ClientTypes
<1>9. ClientTypes'
    BY <1>3, <1>4, <1>6, <1>8 DEF ClientTypes
<1>10. QED
    BY <1>1, <1>2, <1>3, <1>4, <1>6, <1>7, <1>9

LEMMA EmptyStack == ASSUME NEW n PROVE Stack(<<>>, n)
<1>1. <<>> \in Seq(Exchanges) /\ Len(<<>>) = 0
    OBVIOUS
<1>2. QED
    BY <1>1 DEF Stack

\* The answer is taken in: the task goes on with what is below, or gives up.
LEMMA ReceiveStep ==
    ASSUME ClientTypes, NEW t \in Caller, C!Receive(t)
    PROVE  /\ ClientTypes'
           /\ todo[t] # <<>> /\ todo[t][1].at = "answered"
           /\ todo[t][1].status = "gone" => todo[t][1].again \/ session_id = None
           /\ session_id' = IF todo[t][1].minted = None THEN session_id ELSE todo[t][1].minted
           /\ log_level' = IF todo[t][1].op \in {"set", "restore"} /\ todo[t][1].status = "ok"
                           THEN todo[t][1].level ELSE log_level
           /\ IF todo[t][1].op # "initialized" /\ todo[t][1].status # "ok"
              THEN todo'[t] = <<>> ELSE todo'[t] = Tail(todo[t])
           /\ \A u \in Caller \ {t} : todo'[u] = todo[u]
           /\ \A u \in Caller : ended'[u] # ended[u] =>
                /\ u = t
                /\ ended'[t] = "unrepaired" => todo[t][1].status = "gone" /\ ~todo[t][1].again
           /\ UNCHANGED <<sessions, calls, served, disturbed>>
<1>1. todo[t] # <<>> /\ Head(todo[t]).at = "answered"
    BY DEF C!Receive, C!At, C!Idle
<1>2. PICK x \in Exchanges : x = todo[t][1] /\ x = Head(todo[t]) /\ Sound(x, Len(sessions))
    BY <1>1, TopOfStack
<1>3. UNCHANGED <<sessions, calls, served, disturbed>>
    BY DEF C!Receive, C!bounds
<1>4. /\ x.again \/ ~(x.status = "gone" /\ session_id # None)
      /\ session_id' = IF x.minted = None THEN session_id ELSE x.minted
      /\ log_level' = IF x.op \in {"set", "restore"} /\ ~(x.op # "initialized" /\ x.status # "ok")
                      THEN x.level ELSE log_level
      /\ todo' = [todo EXCEPT ![t] = IF x.op # "initialized" /\ x.status # "ok" THEN <<>> ELSE Tail(todo[t])]
      /\ ended' = IF todo'[t] # <<>> THEN ended
                  ELSE [ended EXCEPT ![t] =
                          IF x.status = "gone" /\ ~x.again THEN "unrepaired" ELSE x.status]
    BY <1>2 DEF C!Receive, C!lost_session, C!Fails
<1>5. /\ DOMAIN todo' = Caller
      /\ todo'[t] = IF x.op # "initialized" /\ x.status # "ok" THEN <<>> ELSE Tail(todo[t])
      /\ \A u \in Caller \ {t} : todo'[u] = todo[u]
    BY <1>4 DEF ClientTypes
<1>6. \A u \in Caller : Stack(todo'[u], Len(sessions)')
    <2>1. Stack(<<>>, Len(sessions)) /\ Stack(Tail(todo[t]), Len(sessions))
        BY <1>1, TopOfStack, StackBelow, EmptyStack
    <2>2. QED
        BY <2>1, <1>3, <1>5 DEF ClientTypes
<1>7. x.status \in {"ok", "refused", "gone"}
    BY <1>1, <1>2 DEF Sound
<1>8. /\ ended' \in [Caller -> {None, "ok", "refused", "gone", "unrepaired", "broken"}]
      /\ \A u \in Caller : ended'[u] # ended[u] =>
            u = t /\ (ended'[t] = "unrepaired" => x.status = "gone" /\ ~x.again)
    <2>1. ended \in [Caller -> {None, "ok", "refused", "gone", "unrepaired", "broken"}]
        BY DEF ClientTypes
    <2>2. CASE todo'[t] # <<>>
        BY <1>4, <2>1, <2>2
    <2>3. CASE todo'[t] = <<>>
        <3>1. PICK how \in {"ok", "refused", "gone", "unrepaired"} :
                /\ how = IF x.status = "gone" /\ ~x.again THEN "unrepaired" ELSE x.status
                /\ how = "unrepaired" => x.status = "gone" /\ ~x.again
            BY <1>7
        <3>2. ended' = [ended EXCEPT ![t] = how]
            BY <1>4, <2>3, <3>1
        <3>3. QED
            BY <2>1, <3>1, <3>2
    <2>4. QED
        BY <2>2, <2>3
<1>9. log_level' \in Level \cup {None} /\ session_id' \in 1..Len(sessions) \cup {None}
    BY <1>1, <1>2, <1>4 DEF Sound, ClientTypes
<1>10. ClientTypes'
    BY <1>3, <1>5, <1>6, <1>8, <1>9 DEF ClientTypes
<1>11. QED
    BY <1>1, <1>2, <1>3, <1>4, <1>5, <1>8, <1>10

LEMMA SkipStep ==
    ASSUME ClientTypes, NEW t \in Caller, C!SkipRestore(t)
    PROVE  /\ ClientTypes'
           /\ todo[t] # <<>> /\ todo[t][1].at = "unsent" /\ todo[t][1].op = "restore"
           /\ log_level = None
           /\ todo'[t] = Tail(todo[t]) /\ \A u \in Caller \ {t} : todo'[u] = todo[u]
           /\ UNCHANGED <<session_id, log_level, ended, sessions, calls, served, disturbed>>
<1>1. todo[t] # <<>> /\ Head(todo[t]) = todo[t][1]
    BY TopOfStack DEF C!SkipRestore, C!At, C!Idle
<1>2. /\ Head(todo[t]).at = "unsent" /\ Head(todo[t]).op = "restore" /\ log_level = None
      /\ todo' = [todo EXCEPT ![t] = Tail(todo[t])]
      /\ UNCHANGED <<session_id, log_level, ended, sessions, calls, served, disturbed>>
    BY DEF C!SkipRestore, C!At, C!bounds
<1>3. DOMAIN todo' = Caller /\ todo'[t] = Tail(todo[t]) /\ \A u \in Caller \ {t} : todo'[u] = todo[u]
    BY <1>2 DEF ClientTypes
<1>4. Stack(Tail(todo[t]), Len(sessions))
    BY <1>1, TopOfStack, StackBelow
<1>5. ClientTypes'
    BY <1>2, <1>3, <1>4 DEF ClientTypes
<1>6. QED
    BY <1>1, <1>2, <1>3, <1>5

LEMMA StartStep ==
    ASSUME ClientTypes, NEW t \in Caller, C!Start(t)
    PROVE  /\ ClientTypes'
           /\ todo[t] = <<>> /\ todo'[t] # <<>> /\ Len(todo'[t]) = 1
           /\ todo'[t][1].at = "unsent" /\ todo'[t][1].minted = None /\ todo'[t][1].header = None
           /\ \A u \in Caller \ {t} : todo'[u] = todo[u]
           /\ ~disturbed' =>
                /\ ~disturbed
                /\ \/ /\ todo'[t][1].op = "call"
                      /\ \A u \in Caller \ {t} : todo[u] # <<>> => todo[u][Len(todo[u])].op # "set"
                   \/ \A u \in Caller \ {t} : todo[u] = <<>>
           /\ served'[t] = 0 /\ \A u \in Caller \ {t} : served'[u] = served[u]
           /\ ended'[t] = None /\ \A u \in Caller \ {t} : ended'[u] = ended[u]
           /\ UNCHANGED <<session_id, log_level, sessions>>
<1>1. /\ todo[t] = <<>> /\ calls < MaxCalls /\ calls' = calls + 1
      /\ served' = [served EXCEPT ![t] = 0] /\ ended' = [ended EXCEPT ![t] = None]
      /\ UNCHANGED <<session_id, log_level, sessions>>
    BY DEF C!Start, C!Idle
<1>2. \E x \in Exchanges :
        /\ todo' = [todo EXCEPT ![t] = <<x>>]
        /\ Sound(x, Len(sessions)) /\ x.op \in OwnOps
        /\ x.at = "unsent" /\ x.minted = None /\ x.header = None
        /\ disturbed' \in BOOLEAN
        /\ \/ x.op = "call" /\ disturbed' = (disturbed \/ C!SomeoneSets(t))
           \/ disturbed' = (disturbed \/ C!Crowded(t))
    <2>1. disturbed \in BOOLEAN /\ C!SomeoneSets(t) \in BOOLEAN /\ C!Crowded(t) \in BOOLEAN
          /\ Len(sessions) \in Nat
        BY LenProperties DEF ClientTypes, C!SomeoneSets, C!Crowded
    <2>2. CASE /\ todo' = [todo EXCEPT ![t] = <<C!Exchange("call", None)>>]
               /\ disturbed' = (disturbed \/ C!SomeoneSets(t))
        <3>1. PICK x \in Exchanges :
                /\ x = C!Exchange("call", None) /\ Sound(x, Len(sessions)) /\ x.op = "call"
                /\ x.at = "unsent" /\ x.minted = None /\ x.header = None
            BY <2>1, NewExchange DEF OwnOps
        <3>2. QED
            BY <2>1, <2>2, <3>1 DEF OwnOps
    <2>3. CASE /\ \E l \in Level : todo' = [todo EXCEPT ![t] = <<C!Exchange("set", l)>>]
               /\ disturbed' = (disturbed \/ C!Crowded(t))
        <3>1. PICK l \in Level : todo' = [todo EXCEPT ![t] = <<C!Exchange("set", l)>>]
            BY <2>3
        <3>2. PICK x \in Exchanges :
                /\ x = C!Exchange("set", l) /\ Sound(x, Len(sessions)) /\ x.op = "set"
                /\ x.at = "unsent" /\ x.minted = None /\ x.header = None
            BY <2>1, NewExchange DEF OwnOps
        <3>3. QED
            BY <2>1, <2>3, <3>1, <3>2 DEF OwnOps
    <2>4. QED
        BY <2>2, <2>3 DEF C!Start
<1>3. PICK x \in Exchanges :
        /\ todo' = [todo EXCEPT ![t] = <<x>>]
        /\ Sound(x, Len(sessions)) /\ x.op \in OwnOps
        /\ x.at = "unsent" /\ x.minted = None /\ x.header = None
        /\ disturbed' \in BOOLEAN
        /\ \/ x.op = "call" /\ disturbed' = (disturbed \/ C!SomeoneSets(t))
           \/ disturbed' = (disturbed \/ C!Crowded(t))
    BY <1>2
<1>4. DOMAIN todo' = Caller /\ todo'[t] = <<x>> /\ \A u \in Caller \ {t} : todo'[u] = todo[u]
    BY <1>3 DEF ClientTypes
<1>5. Stack(<<x>>, Len(sessions)) /\ Len(<<x>>) = 1 /\ <<x>>[1] = x /\ <<x>> # <<>>
    <2>1. Len(sessions) \in Nat
        BY LenProperties DEF ClientTypes
    <2>2. QED
        BY <1>3, <2>1, StackNew
<1>6. /\ served' \in [Caller -> Nat]
      /\ served'[t] = 0 /\ \A u \in Caller \ {t} : served'[u] = served[u]
      /\ ended' \in [Caller -> {None, "ok", "refused", "gone", "unrepaired", "broken"}]
      /\ ended'[t] = None /\ \A u \in Caller \ {t} : ended'[u] = ended[u]
    BY <1>1 DEF ClientTypes
<1>7. calls' \in 0 .. MaxCalls
    BY <1>1, SessionsConstants DEF ClientTypes
<1>8. ClientTypes'
    BY <1>1, <1>3, <1>4, <1>5, <1>6, <1>7 DEF ClientTypes
<1>9. ~disturbed' =>
        /\ ~disturbed
        /\ \/ /\ x.op = "call"
              /\ \A u \in Caller \ {t} : todo[u] # <<>> => todo[u][Len(todo[u])].op # "set"
           \/ \A u \in Caller \ {t} : todo[u] = <<>>
    BY <1>3 DEF C!SomeoneSets, C!Crowded, C!Idle, C!Last
<1>10. QED
    BY <1>1, <1>4, <1>5, <1>6, <1>8, <1>9, <1>3

LEMMA LoseStep ==
    ASSUME ClientTypes, NEW s \in C!Sid, C!Lose(s)
    PROVE  /\ ClientTypes'
           /\ s \in 1..Len(sessions) /\ Len(sessions') = Len(sessions)
           /\ sessions' = [sessions EXCEPT ![s] = C!Lost]
           /\ UNCHANGED <<session_id, log_level, todo, ended, calls, served, disturbed>>
<1>1. /\ s \in 1..Len(sessions) /\ sessions' = [sessions EXCEPT ![s] = C!Lost]
      /\ UNCHANGED <<session_id, log_level, todo, ended, calls, served, disturbed>>
    BY KnownSession DEF C!Lose, C!client
<1>2. sessions' \in Seq(Level \cup {None, C!Lost}) /\ Len(sessions') = Len(sessions)
    BY <1>1, ExceptSeq DEF ClientTypes
<1>3. ClientTypes'
    BY <1>1, <1>2 DEF ClientTypes
<1>4. QED
    BY <1>1, <1>2, <1>3

LEMMA BreakStep ==
    ASSUME ClientTypes, NEW t \in Caller, C!Break(t)
    PROVE  /\ ClientTypes' /\ disturbed'
           /\ todo'[t] = <<>> /\ \A u \in Caller \ {t} : todo'[u] = todo[u]
           /\ ended'[t] = "broken" /\ \A u \in Caller \ {t} : ended'[u] = ended[u]
           /\ UNCHANGED <<session_id, log_level, sessions, calls, served>>
<1>1. /\ disturbed' = TRUE /\ todo' = [todo EXCEPT ![t] = <<>>]
      /\ ended' = [ended EXCEPT ![t] = "broken"]
      /\ UNCHANGED <<session_id, log_level, sessions, calls, served>>
    BY DEF C!Break
<1>2. /\ DOMAIN todo' = Caller /\ todo'[t] = <<>> /\ \A u \in Caller \ {t} : todo'[u] = todo[u]
      /\ ended' \in [Caller -> {None, "ok", "refused", "gone", "unrepaired", "broken"}]
      /\ ended'[t] = "broken" /\ \A u \in Caller \ {t} : ended'[u] = ended[u]
    BY <1>1 DEF ClientTypes
<1>3. ClientTypes'
    BY <1>1, <1>2, EmptyStack DEF ClientTypes
<1>4. QED
    BY <1>1, <1>2, <1>3

-----------------------------------------------------------------------------
(* The invariant of the shared Client *)

LEMMA Tops ==
    ASSUME ClientTypes, NEW u \in Caller, todo[u] # <<>>
    PROVE  /\ todo[u][1].header \in 1..Len(sessions) \cup {None}
           /\ todo[u][1].minted \in 1..Len(sessions) \cup {None}
           /\ todo[u][1].minted # None => todo[u][1].op = "initialize" /\ todo[u][1].at = "answered"
           /\ todo[u][1].op = "initialize" => todo[u][1].header = None /\ todo[u][1].at # "unsent"
           /\ todo[u][1].op = "initialize" /\ todo[u][1].at = "answered" =>
                todo[u][1].status = "ok" /\ todo[u][1].minted # None
           /\ Len(todo[u]) \in Nat /\ Len(todo[u]) > 0
           /\ todo[u][1].op \in OwnOps <=> Len(todo[u]) = 1
           /\ todo[u][1].op = "initialize" => Len(todo[u]) > 1 /\ todo[u][2].op = "initialized"
           /\ todo[u][1].op = "initialized" => Len(todo[u]) > 1 /\ todo[u][2].op = "restore"
<1>1. /\ Sound(todo[u][1], Len(sessions)) /\ Len(todo[u]) \in Nat /\ Len(todo[u]) > 0
      /\ 1 \in 1..Len(todo[u]) /\ Stack(todo[u], Len(sessions))
    BY TopOfStack
<1>2. /\ todo[u][1].op \in OwnOps <=> 1 = Len(todo[u])
      /\ todo[u][1].op = "initialize" => todo[u][1 + 1].op = "initialized"
      /\ todo[u][1].op = "initialized" => todo[u][1 + 1].op = "restore"
    BY <1>1 DEF Stack
<1>3. todo[u][1].op \in {"initialize", "initialized"} => todo[u][1].op \notin OwnOps
    BY DEF OwnOps
<1>4. /\ todo[u][1].header \in 1..Len(sessions) \cup {None}
      /\ todo[u][1].minted \in 1..Len(sessions) \cup {None}
      /\ todo[u][1].minted # None => todo[u][1].op = "initialize" /\ todo[u][1].at = "answered"
      /\ todo[u][1].op = "initialize" => todo[u][1].header = None /\ todo[u][1].at # "unsent"
      /\ todo[u][1].op = "initialize" /\ todo[u][1].at = "answered" =>
                todo[u][1].status = "ok" /\ todo[u][1].minted # None
    BY <1>1 DEF Sound
<1>5. /\ todo[u][1].op = "initialize" => Len(todo[u]) > 1 /\ todo[u][2].op = "initialized"
      /\ todo[u][1].op = "initialized" => Len(todo[u]) > 1 /\ todo[u][2].op = "restore"
    <2>1. 1 + 1 = 2 /\ \A k \in Nat : k > 0 /\ k # 1 => k > 1
        OBVIOUS
    <2>2. Len(todo[u]) # 1 => Len(todo[u]) > 1
        BY <2>1, <1>1
    <2>3. QED
        BY <2>1, <2>2, <1>2, <1>3
<1>6. QED
    BY <1>1, <1>2, <1>4, <1>5

LEMMA ClientInit == C!Init => ClientIInv
<1> SUFFICES ASSUME C!Init PROVE ClientIInv
    OBVIOUS
<1>1. /\ log_level \in Level \cup {None} /\ session_id = 1 /\ sessions = <<log_level>>
      /\ todo = [t \in Caller |-> <<>>] /\ ended = [t \in Caller |-> None] /\ calls = 0
      /\ served = [t \in Caller |-> 0] /\ disturbed = FALSE
    BY DEF C!Init
<1>2. sessions \in Seq(Level \cup {None, C!Lost}) /\ Len(sessions) = 1 /\ sessions[1] = log_level
    BY <1>1
<1>3. ClientTypes
    <2>1. DOMAIN todo = Caller /\ \A t \in Caller : Stack(todo[t], Len(sessions))
        BY <1>1, EmptyStack
    <2>2. /\ ended \in [Caller -> {None, "ok", "refused", "gone", "unrepaired", "broken"}]
          /\ served \in [Caller -> Nat] /\ calls \in 0 .. MaxCalls
        BY <1>1, SessionsConstants
    <2>3. session_id \in 1..Len(sessions) \cup {None}
        BY <1>1, <1>2
    <2>4. QED
        BY <1>1, <1>2, <2>1, <2>2, <2>3 DEF ClientTypes
<1>4. ServedIsOver /\ MintedIsFresh /\ SetterIsAlone /\ UpToDate
    BY <1>1 DEF ServedIsOver, MintedIsFresh, SetterIsAlone, UpToDate, SetDone, Doing
<1>5. SomeoneOpens /\ LevelIsKept
    BY <1>1, <1>2, SessionsConstants DEF SomeoneOpens, LevelIsKept
<1>6. QED
    BY <1>3, <1>4, <1>5 DEF ClientIInv, Undisturbed

LEMMA SendKeeps == ASSUME ClientIInv, NEW t \in Caller, C!Send(t) PROVE ClientIInv'
<1>1. ClientTypes /\ ServedIsOver /\ MintedIsFresh /\ (~disturbed => Undisturbed)
    BY DEF ClientIInv
<1>2. ClientTypes'
    BY <1>1, SendStep
<1>3. PICK y \in Exchanges :
        /\ Replaces(t, y)
        /\ todo[t][1].at = "unsent" /\ y.at = "sent" /\ y.header = session_id
        /\ y.minted = None
        /\ y.op = "restore" => y.level = log_level
    BY <1>1, SendStep
<1>4. UNCHANGED <<session_id, log_level, ended, sessions, calls, served, disturbed>>
    BY <1>1, SendStep
<1>5. ServedIsOver'
    BY <1>1, <1>3, <1>4 DEF ServedIsOver, Replaces
<1>6. MintedIsFresh'
    BY <1>1, <1>3, <1>4 DEF MintedIsFresh, Replaces
<1>7. ASSUME ~disturbed' PROVE Undisturbed'
    <2>1. SetterIsAlone /\ SomeoneOpens /\ UpToDate /\ LevelIsKept
        BY <1>1, <1>4, <1>7 DEF Undisturbed
    <2>2. SetterIsAlone'
        BY <2>1, <1>3 DEF SetterIsAlone, Replaces
    <2>3. SomeoneOpens'
        BY <2>1, <1>3, <1>4 DEF SomeoneOpens, Doing, Replaces
    <2>4. UpToDate'
        BY <2>1, <1>3, <1>4 DEF UpToDate, SetDone, Doing, Replaces
    <2>5. LevelIsKept'
        <3>1. \A u \in Caller : Restoring(u) => Restoring(u)'
            BY <1>3, <1>4 DEF Restoring, Doing, Replaces
        <3>2. \A u \in Caller : SetDone(u) => SetDone(u)'
            BY <1>3, <1>4 DEF SetDone, Doing, Replaces
        <3>3. QED
            BY <2>1, <3>1, <3>2, <1>4 DEF LevelIsKept
    <2>6. QED
        BY <2>2, <2>3, <2>4, <2>5 DEF Undisturbed
<1>8. QED
    BY <1>2, <1>5, <1>6, <1>7 DEF ClientIInv

LEMMA LoadKeeps == ASSUME ClientIInv, NEW t \in Caller, C!load_session(t) PROVE ClientIInv'
<1>1. ClientTypes /\ ServedIsOver /\ MintedIsFresh /\ (~disturbed => Undisturbed)
    BY DEF ClientIInv
<1>2. ClientTypes'
    BY <1>1, LoadStep
<1>3. PICK y \in Exchanges :
        /\ Replaces(t, y)
        /\ todo[t][1].at = "sent" /\ y.minted = None
        /\ y.header = todo[t][1].header /\ y.level = todo[t][1].level
        /\ \/ y.at = "loaded"
           \/ /\ y.at = "answered" /\ y.status = "gone"
              /\ y.header # None /\ y.op # "initialize" /\ ~C!Knows(y.header)
    BY <1>1, LoadStep
<1>4. UNCHANGED <<session_id, log_level, ended, sessions, calls, served, disturbed>>
    BY <1>1, LoadStep
<1>5. ServedIsOver'
    BY <1>1, <1>3, <1>4 DEF ServedIsOver, Replaces
<1>6. MintedIsFresh'
    BY <1>1, <1>3, <1>4 DEF MintedIsFresh, Replaces
<1>7. ASSUME ~disturbed' PROVE Undisturbed'
    <2>1. SetterIsAlone /\ SomeoneOpens /\ UpToDate /\ LevelIsKept
        BY <1>1, <1>4, <1>7 DEF Undisturbed
    <2>2. SetterIsAlone'
        BY <2>1, <1>3 DEF SetterIsAlone, Replaces
    <2>3. SomeoneOpens'
        BY <2>1, <1>3, <1>4 DEF SomeoneOpens, Doing, Replaces
    <2>4. UpToDate'
        BY <2>1, <1>3, <1>4 DEF UpToDate, SetDone, Doing, Replaces
    <2>5. LevelIsKept'
        <3>0. session_id # None /\ ~C!Knows(session_id) => sessions[session_id] = C!Lost
            BY <1>1, KnownSession DEF ClientTypes
        <3>1. session_id # None /\ sessions[session_id] # C!Lost =>
                \A u \in Caller : Restoring(u) => Restoring(u)'
            BY <1>3, <1>4, <3>0 DEF Restoring, Doing, Replaces
        <3>2. \A u \in Caller : SetDone(u) => SetDone(u)'
            BY <1>3, <1>4 DEF SetDone, Doing, Replaces
        <3>3. QED
            BY <2>1, <3>1, <3>2, <1>4 DEF LevelIsKept
    <2>6. QED
        BY <2>2, <2>3, <2>4, <2>5 DEF Undisturbed
<1>8. QED
    BY <1>2, <1>5, <1>6, <1>7 DEF ClientIInv

LEMMA Below ==
    ASSUME ClientTypes, NEW t \in Caller, todo[t] # <<>>
    PROVE  /\ todo[t][1].op \in OwnOps => Tail(todo[t]) = <<>>
           /\ todo[t][1].op \notin OwnOps => Tail(todo[t]) # <<>>
           /\ Tail(todo[t]) # <<>> =>
                /\ Len(todo[t]) > 1 /\ Len(Tail(todo[t])) = Len(todo[t]) - 1
                /\ Tail(todo[t])[1] = todo[t][2]
                /\ Tail(todo[t])[Len(Tail(todo[t]))] = todo[t][Len(todo[t])]
                /\ todo[t][2].at = "unsent" /\ todo[t][2].minted = None /\ todo[t][2].header = None
<1>1. /\ Stack(todo[t], Len(sessions)) /\ Len(todo[t]) \in Nat /\ Len(todo[t]) > 0
      /\ Len(sessions) \in Nat /\ (todo[t][1].op \in OwnOps <=> Len(todo[t]) = 1)
    BY TopOfStack, Tops
<1>2. PICK s : s = Tail(todo[t])
    OBVIOUS
<1>3. /\ Stack(s, Len(sessions)) /\ Len(s) = Len(todo[t]) - 1
      /\ \A i \in 1..Len(todo[t]) - 1 : s[i] = todo[t][i + 1]
    BY <1>1, <1>2, StackBelow
<1>4. s # <<>> <=> Len(s) > 0
    BY <1>1, <1>3, StackElements
<1>5. ASSUME s # <<>>
      PROVE  /\ Len(todo[t]) > 1 /\ s[1] = todo[t][2] /\ s[Len(s)] = todo[t][Len(todo[t])]
             /\ todo[t][2].at = "unsent" /\ todo[t][2].minted = None /\ todo[t][2].header = None
    <2>1. /\ Len(s) > 0 /\ Len(todo[t]) > 1
          /\ 1 \in 1..Len(todo[t]) - 1 /\ Len(todo[t]) - 1 \in 1..Len(todo[t]) - 1
          /\ 2 \in 1..Len(todo[t]) /\ 2 # 1 /\ 1 + 1 = 2 /\ (Len(todo[t]) - 1) + 1 = Len(todo[t])
        BY <1>1, <1>3, <1>4, <1>5
    <2>2. s[1] = todo[t][2] /\ s[Len(s)] = todo[t][Len(todo[t])]
        BY <1>3, <2>1
    <2>3. todo[t][2].at = "unsent" /\ Sound(todo[t][2], Len(sessions))
        BY <1>1, <2>1 DEF Stack
    <2>4. QED
        BY <2>1, <2>2, <2>3 DEF Sound
<1>6. Len(s) > 0 <=> Len(todo[t]) # 1
    <2>1. \A k \in Nat : k > 0 => (k - 1 > 0 <=> k # 1)
        OBVIOUS
    <2>2. QED
        BY <2>1, <1>1, <1>3
<1>7. QED
    BY <1>1, <1>2, <1>3, <1>4, <1>5, <1>6

LEMMA SettersAreAlone ==
    ASSUME ClientTypes, SetterIsAlone, NEW t \in Caller, todo[t] # <<>>
    PROVE  \A u \in Caller \ {t} : todo[u] # <<>> => todo[u][1].op # "set"
<1>1. ASSUME NEW u \in Caller \ {t}, todo[u] # <<>>, todo[u][1].op = "set" PROVE FALSE
    <2>1. todo[u][Len(todo[u])].op = "set"
        BY <1>1, Tops DEF OwnOps
    <2>2. QED
        BY <1>1, <2>1 DEF SetterIsAlone
<1>2. QED
    BY <1>1

LEMMA RunKeeps == ASSUME ClientIInv, NEW t \in Caller, C!Run(t) PROVE ClientIInv'
<1>1. ClientTypes /\ ServedIsOver /\ MintedIsFresh /\ (~disturbed => Undisturbed)
    BY DEF ClientIInv
<1>2. ClientTypes'
    BY <1>1, RunStep
<1>3. PICK y \in Exchanges :
        /\ Replaces(t, y) /\ Ran(y)
        /\ todo[t][1].at = "loaded" /\ y.at = "answered" /\ y.header = todo[t][1].header
        /\ y.level = todo[t][1].level
    BY <1>1, RunStep
<1>4. /\ UNCHANGED <<session_id, log_level, ended, calls, disturbed>>
      /\ \A u \in Caller : served'[u] = IF u = t /\ Len(todo[t]) = 1 THEN served[u] + 1 ELSE served[u]
    BY <1>1, RunStep
<1>5. ServedIsOver'
    <2>1. served[t] = 0
        BY <1>1, <1>3 DEF ServedIsOver, Replaces
    <2>2. y.status # "gone"
        BY <1>3 DEF Ran
    <2>3. QED
        BY <2>1, <2>2, <1>1, <1>3, <1>4 DEF ServedIsOver, Replaces
<1>6. sessions \in Seq(Level \cup {None, C!Lost}) /\ Len(sessions) \in Nat
    BY <1>1, LenProperties DEF ClientTypes
<1>7. \A s \in 1..Len(sessions) : s # y.header \/ y.op \notin {"set", "restore"} => sessions'[s] = sessions[s]
    <2>1. CASE y.op = "initialize"
        <3>1. sessions' = Append(sessions, None)
            BY <1>3, <2>1 DEF Ran
        <3>2. QED
            BY <1>6, <3>1, AppendProperties
    <2>2. CASE y.op # "initialize"
        BY <1>1, <1>3, <1>6, <2>2, KnownSession DEF Ran
    <2>3. QED
        BY <2>1, <2>2
<1>8. todo[t] # <<>> /\ todo'[t] # <<>> /\ y.op = todo[t][1].op
    BY <1>3 DEF Replaces
<1>9. MintedIsFresh'
    <2>1. ASSUME NEW v \in Caller, todo'[v] # <<>>, todo'[v][1].minted # None
          PROVE  /\ session_id # todo'[v][1].minted
                 /\ sessions'[todo'[v][1].minted] \in {None, C!Lost}
                 /\ \A u \in Caller : todo'[u] # <<>> =>
                        /\ todo'[u][1].header # todo'[v][1].minted
                        /\ u # v => todo'[u][1].minted # todo'[v][1].minted
        <3>1. session_id \in 1..Len(sessions) \cup {None}
            BY <1>1 DEF ClientTypes
        <3>2. \A u \in Caller : todo[u] # <<>> =>
                todo[u][1].header \in 1..Len(sessions) \cup {None}
                /\ todo[u][1].minted \in 1..Len(sessions) \cup {None}
            BY <1>1, Tops
        <3>3. CASE v = t
            <4>1. y.op = "initialize" /\ y.minted = Len(sessions) + 1 /\ sessions' = Append(sessions, None)
                BY <2>1, <3>3, <1>3 DEF Replaces, Ran
            <4>2. sessions'[y.minted] = None
                BY <1>6, <4>1, AppendProperties
            <4>3. y.minted # None /\ y.minted \notin 1..Len(sessions)
                BY <4>1, <1>6, SessionsConstants
            <4>4. QED
                BY <3>1, <3>2, <3>3, <4>2, <4>3, <1>3 DEF Replaces
        <3>4. CASE v # t
            <4>1. PICK m \in 1..Len(sessions) : m = todo[v][1].minted /\ m = todo'[v][1].minted /\ todo[v] # <<>>
                BY <2>1, <3>2, <3>4, <1>3 DEF Replaces
            <4>2. /\ session_id # m /\ sessions[m] \in {None, C!Lost}
                  /\ \A u \in Caller : todo[u] # <<>> =>
                        todo[u][1].header # m /\ (u # v => todo[u][1].minted # m)
                <5>1. todo[v][1].minted # None
                    BY <2>1, <4>1
                <5>2. QED
                    BY <1>1, <4>1, <5>1 DEF MintedIsFresh
            <4>3. sessions'[m] = sessions[m]
                BY <4>1, <4>2, <1>3, <1>7, <1>8
            <4>4. y.minted # m
                BY <1>3, <1>6, SessionsConstants DEF Ran
            <4>5. QED
                BY <3>4, <4>1, <4>2, <4>3, <4>4, <1>3 DEF Replaces
        <3>5. QED
            BY <3>3, <3>4
    <2>2. QED
        BY <2>1, <1>4 DEF MintedIsFresh
<1>10. ASSUME ~disturbed' PROVE Undisturbed'
    <2>1. SetterIsAlone /\ SomeoneOpens /\ UpToDate /\ LevelIsKept
        BY <1>1, <1>4, <1>10 DEF Undisturbed
    <2>2. SetterIsAlone'
        BY <2>1, <1>3 DEF SetterIsAlone, Replaces
    <2>3. SomeoneOpens'
        BY <2>1, <1>3, <1>4 DEF SomeoneOpens, Doing, Replaces
    <2>4. \A u \in Caller \ {t} : todo[u] # <<>> => todo[u][1].op # "set"
        BY <2>1, <1>1, <1>8, SettersAreAlone
    <2>5. UpToDate'
        <3>1. y.op = "restore" => y.level = log_level
            BY <2>1, <1>3, <1>8 DEF UpToDate
        <3>2. y.op = "set" => y.header = session_id
            BY <2>1, <1>3, <1>8 DEF UpToDate
        <3>3. y.op = "set" /\ y.status = "ok" =>
                session_id # None /\ sessions'[session_id] = y.level
            <4>1. y.op = "set" /\ y.status = "ok" =>
                    C!Knows(y.header) /\ sessions' = [sessions EXCEPT ![y.header] = y.level]
                BY <1>3 DEF Ran
            <4>2. QED
                BY <3>2, <4>1, <1>1, <1>6, KnownSession, SessionsConstants
        <3>4. \A u \in Caller \ {t} : todo'[u] = todo[u]
            BY <1>3 DEF Replaces
        <3>5. todo'[t][1] = y
            BY <1>3 DEF Replaces
        <3>6. \A u \in Caller \ {t} : ~SetDone(u)'
            BY <2>4, <3>4 DEF SetDone, Doing
        <3>7. SetDone(t)' => y.op = "set" /\ y.status = "ok"
            BY <3>5 DEF SetDone, Doing
        <3>8. QED
            BY <2>1, <2>4, <3>1, <3>2, <3>3, <3>4, <3>5, <3>6, <3>7, <1>4 DEF UpToDate
    <2>6. LevelIsKept'
        <3> SUFFICES ASSUME session_id # None, sessions'[session_id] \notin {C!Lost, log_level}
                     PROVE  \E u \in Caller : Restoring(u)' \/ SetDone(u)'
            BY <1>4 DEF LevelIsKept
        <3>1. session_id \in 1..Len(sessions)
            BY <1>1 DEF ClientTypes
        <3>2. CASE y.op \in {"set", "restore"} /\ y.header = session_id /\ C!Knows(session_id)
            <4>1. sessions'[session_id] = y.level /\ y.status = "ok"
                BY <1>3, <1>6, <3>1, <3>2 DEF Ran
            <4>2. y.op = "set"
                BY <2>1, <3>2, <4>1, <1>3, <1>8 DEF UpToDate
            <4>3. QED
                BY <4>1, <4>2, <1>3 DEF SetDone, Doing, Replaces
        <3>3. CASE ~(y.op \in {"set", "restore"} /\ y.header = session_id /\ C!Knows(session_id))
            <4>1. sessions'[session_id] = sessions[session_id]
                <5>1. CASE y.op \in {"set", "restore"} /\ y.header = session_id
                    BY <3>3, <5>1, <1>3 DEF Ran
                <5>2. CASE ~(y.op \in {"set", "restore"} /\ y.header = session_id)
                    BY <5>2, <3>1, <1>7
                <5>3. QED
                    BY <5>1, <5>2
            <4>2. C!Knows(session_id)
                BY <3>1, <4>1, <1>1, KnownSession
            <4>3. PICK u \in Caller : Restoring(u) \/ SetDone(u)
                BY <2>1, <4>1 DEF LevelIsKept
            <4>4. CASE u # t
                BY <4>1, <4>3, <4>4, <1>3, <1>4 DEF Restoring, SetDone, Doing, Replaces
            <4>5. CASE u = t
                <5>1. Restoring(t) /\ y.header = session_id
                    BY <4>3, <4>5, <1>3 DEF SetDone, Restoring
                <5>2. y.op = "initialized"
                    BY <5>1, <4>2, <3>3, <1>8 DEF Restoring, Doing
                <5>3. y.status = "ok"
                    BY <5>2, <1>3 DEF Ran
                <5>4. Restoring(t)'
                    BY <5>1, <5>2, <5>3, <4>1, <1>3, <1>4 DEF Restoring, Doing, Replaces
                <5>5. QED
                    BY <5>4
            <4>6. QED
                BY <4>4, <4>5
        <3>4. QED
            BY <3>2, <3>3
    <2>7. QED
        BY <2>2, <2>3, <2>5, <2>6 DEF Undisturbed
<1>11. QED
    BY <1>2, <1>5, <1>9, <1>10 DEF ClientIInv

LEMMA ReopenKeeps == ASSUME ClientIInv, NEW t \in Caller, C!reopen(t) PROVE ClientIInv'
<1>1. ClientTypes /\ ServedIsOver /\ MintedIsFresh /\ (~disturbed => Undisturbed)
    BY DEF ClientIInv
<1>2. /\ ClientTypes'
      /\ todo[t] # <<>> /\ todo[t][1].at = "answered" /\ todo[t][1].status = "gone"
      /\ todo'[t] # <<>> /\ todo'[t][1] = Greeting
      /\ Len(todo'[t]) = Len(todo[t]) + 3
      /\ todo'[t][Len(todo'[t])].op = todo[t][Len(todo[t])].op
      /\ \A u \in Caller \ {t} : todo'[u] = todo[u]
      /\ session_id # None /\ session_id' = None
      /\ UNCHANGED <<log_level, ended, sessions, calls, served, disturbed>>
    BY <1>1, ReopenStep
<1>3. /\ Greeting.op = "initialize" /\ Greeting.at = "sent"
      /\ Greeting.minted = None /\ Greeting.header = None
    BY GreetingIsSound, SessionsConstants
<1>4. ServedIsOver'
    BY <1>1, <1>2 DEF ServedIsOver
<1>5. MintedIsFresh'
    BY <1>1, <1>2, <1>3 DEF MintedIsFresh
<1>6. ASSUME ~disturbed' PROVE Undisturbed'
    <2>1. SetterIsAlone /\ SomeoneOpens /\ UpToDate /\ LevelIsKept
        BY <1>1, <1>2, <1>6 DEF Undisturbed
    <2>2. SetterIsAlone'
        BY <2>1, <1>2 DEF SetterIsAlone
    <2>3. SomeoneOpens'
        BY <1>2, <1>3 DEF SomeoneOpens, Doing
    <2>4. \A u \in Caller \ {t} : todo[u] # <<>> => todo[u][1].op # "set"
        BY <2>1, <1>1, <1>2, SettersAreAlone
    <2>5. UpToDate'
        <3>1. \A u \in Caller \ {t} : ~SetDone(u)'
            BY <2>4, <1>2 DEF SetDone, Doing
        <3>2. ~SetDone(t)'
            BY <1>2, <1>3 DEF SetDone, Doing
        <3>3. QED
            BY <2>1, <2>4, <3>1, <3>2, <1>2, <1>3 DEF UpToDate
    <2>6. LevelIsKept'
        BY <1>2 DEF LevelIsKept
    <2>7. QED
        BY <2>2, <2>3, <2>5, <2>6 DEF Undisturbed
<1>7. QED
    BY <1>2, <1>4, <1>5, <1>6 DEF ClientIInv

LEMMA ReceiveKeeps == ASSUME ClientIInv, NEW t \in Caller, C!Receive(t) PROVE ClientIInv'
<1>1. ClientTypes /\ ServedIsOver /\ MintedIsFresh /\ (~disturbed => Undisturbed)
    BY DEF ClientIInv
<1>2. PICK x : x = todo[t][1]
    OBVIOUS
<1>3. /\ ClientTypes'
      /\ todo[t] # <<>> /\ x.at = "answered"
      /\ session_id' = IF x.minted = None THEN session_id ELSE x.minted
      /\ log_level' = IF x.op \in {"set", "restore"} /\ x.status = "ok" THEN x.level ELSE log_level
      /\ IF x.op # "initialized" /\ x.status # "ok" THEN todo'[t] = <<>> ELSE todo'[t] = Tail(todo[t])
      /\ \A u \in Caller \ {t} : todo'[u] = todo[u]
      /\ UNCHANGED <<sessions, calls, served, disturbed>>
    BY <1>1, <1>2, ReceiveStep
<1>4. /\ x.minted \in 1..Len(sessions) \cup {None}
      /\ x.minted # None => x.op = "initialize"
      /\ x.op = "initialize" => x.status = "ok" /\ x.minted # None /\ todo[t][2].op = "initialized"
      /\ x.op = "initialized" => todo[t][2].op = "restore"
    BY <1>1, <1>2, <1>3, Tops
<1>5. todo'[t] # <<>> =>
        /\ x.op \notin OwnOps /\ todo'[t] = Tail(todo[t])
        /\ Len(todo[t]) > 1
        /\ todo'[t][1] = todo[t][2]
        /\ todo'[t][Len(todo'[t])] = todo[t][Len(todo[t])]
        /\ todo'[t][1].at = "unsent" /\ todo'[t][1].minted = None /\ todo'[t][1].header = None
    BY <1>1, <1>2, <1>3, Below
<1>6. x.op \in {"initialize", "initialized"} => todo'[t] # <<>>
    BY <1>1, <1>2, <1>3, <1>4, Below DEF OwnOps
<1>7. ServedIsOver'
    BY <1>1, <1>2, <1>3, <1>5 DEF ServedIsOver
<1>8. MintedIsFresh'
    BY <1>1, <1>2, <1>3, <1>5, SessionsConstants DEF MintedIsFresh
<1>9. ASSUME ~disturbed' PROVE Undisturbed'
    <2>1. SetterIsAlone /\ SomeoneOpens /\ UpToDate /\ LevelIsKept
        BY <1>1, <1>3, <1>9 DEF Undisturbed
    <2>2. SetterIsAlone'
        BY <2>1, <1>3, <1>5 DEF SetterIsAlone
    <2>3. SomeoneOpens'
        BY <2>1, <1>2, <1>3, <1>4 DEF SomeoneOpens, Doing
    <2>4. \A u \in Caller \ {t} : todo[u] # <<>> => todo[u][1].op # "set"
        BY <2>1, <1>1, <1>3, SettersAreAlone
    <2>5. x.op = "set" => \A u \in Caller : todo'[u] = <<>>
        <3>1. ASSUME x.op = "set", NEW u \in Caller \ {t} PROVE todo[u] = <<>>
            <4>1. todo[t][Len(todo[t])].op = "set"
                BY <1>1, <1>2, <1>3, <3>1, Tops DEF OwnOps
            <4>2. QED
                BY <2>1, <4>1, <1>3 DEF SetterIsAlone
        <3>2. x.op = "set" => todo'[t] = <<>>
            BY <1>5 DEF OwnOps
        <3>3. QED
            BY <3>1, <3>2, <1>3
    <2>6. x.op = "restore" => log_level' = log_level
        BY <2>1, <1>2, <1>3 DEF UpToDate
    <2>7. x.op # "set" => log_level' = log_level
        BY <2>6, <1>3
    <2>8. UpToDate'
        <3>1. \A u \in Caller \ {t} : ~SetDone(u)'
            BY <2>4, <1>3 DEF SetDone, Doing
        <3>2. ~SetDone(t)'
            BY <1>5 DEF SetDone, Doing
        <3>3. CASE x.op = "set"
            BY <2>5, <3>3 DEF UpToDate, SetDone, Doing
        <3>4. CASE x.op # "set"
            BY <2>1, <2>4, <2>7, <3>1, <3>2, <3>4, <1>3, <1>5 DEF UpToDate
        <3>5. QED
            BY <3>3, <3>4
    <2>9. LevelIsKept'
        <3> SUFFICES ASSUME session_id' # None, sessions[session_id'] \notin {C!Lost, log_level'}
                     PROVE  \E u \in Caller : Restoring(u)' \/ SetDone(u)'
            BY <1>3 DEF LevelIsKept
        <3>1. CASE x.minted # None
            <4>1. session_id' = x.minted /\ sessions[session_id'] = None
                BY <3>1, <1>1, <1>2, <1>3 DEF MintedIsFresh
            <4>2. todo'[t] # <<>> /\ todo'[t][1].op = "initialized" /\ todo'[t][1].at = "unsent"
                BY <3>1, <1>4, <1>5, <1>6
            <4>3. Restoring(t)'
                BY <4>1, <4>2, <1>3 DEF Restoring, Doing
            <4>4. QED
                BY <4>3
        <3>2. CASE x.minted = None
            <4>1. session_id' = session_id
                BY <3>2, <1>3
            <4>2. ~SetDone(t)
                <5>1. SetDone(t) => sessions[session_id] \in {C!Lost, x.level} /\ log_level' = x.level
                    BY <2>1, <1>2, <1>3 DEF UpToDate, SetDone, Doing
                <5>2. QED
                    BY <4>1, <5>1
            <4>3. sessions[session_id] \notin {C!Lost, log_level} \/ SetDone(t)
                <5>1. CASE x.op # "set" \/ x.status # "ok"
                    <6>1. log_level' = log_level
                        BY <2>6, <5>1, <1>3
                    <6>2. QED
                        BY <6>1, <4>1
                <5>2. CASE x.op = "set" /\ x.status = "ok"
                    BY <5>2, <1>2, <1>3 DEF SetDone, Doing
                <5>3. QED
                    BY <5>1, <5>2
            <4>4. PICK u \in Caller : Restoring(u) \/ SetDone(u)
                BY <2>1, <4>1, <4>2, <4>3 DEF LevelIsKept
            <4>5. CASE u # t
                BY <4>1, <4>4, <4>5, <1>3 DEF Restoring, SetDone, Doing
            <4>6. CASE u = t
                <5>1. Restoring(t) /\ x.op = "initialized"
                    BY <4>2, <4>4, <4>6, <1>2, <1>3 DEF Restoring, Doing
                <5>2. todo'[t] # <<>> /\ todo'[t][1].op = "restore" /\ todo'[t][1].at = "unsent"
                    BY <5>1, <1>4, <1>5, <1>6
                <5>3. Restoring(t)'
                    BY <5>1, <5>2, <4>1, <1>3 DEF Restoring, Doing
                <5>4. QED
                    BY <5>3
            <4>7. QED
                BY <4>5, <4>6
        <3>3. QED
            BY <3>1, <3>2
    <2>10. QED
        BY <2>2, <2>3, <2>8, <2>9 DEF Undisturbed
<1>10. QED
    BY <1>3, <1>7, <1>8, <1>9 DEF ClientIInv

LEMMA SkipKeeps == ASSUME ClientIInv, NEW t \in Caller, C!SkipRestore(t) PROVE ClientIInv'
<1>1. ClientTypes /\ ServedIsOver /\ MintedIsFresh /\ (~disturbed => Undisturbed)
    BY DEF ClientIInv
<1>2. /\ ClientTypes'
      /\ todo[t] # <<>> /\ todo[t][1].at = "unsent" /\ todo[t][1].op = "restore"
      /\ log_level = None
      /\ todo'[t] = Tail(todo[t]) /\ \A u \in Caller \ {t} : todo'[u] = todo[u]
      /\ UNCHANGED <<session_id, log_level, ended, sessions, calls, served, disturbed>>
    BY <1>1, SkipStep
<1>3. todo'[t] # <<>> /\ Len(todo[t]) > 1
      /\ todo'[t][Len(todo'[t])] = todo[t][Len(todo[t])]
      /\ todo'[t][1].at = "unsent" /\ todo'[t][1].minted = None /\ todo'[t][1].header = None
    BY <1>1, <1>2, Below DEF OwnOps
<1>4. ServedIsOver'
    BY <1>1, <1>2, <1>3 DEF ServedIsOver
<1>5. MintedIsFresh'
    <2>1. ASSUME NEW v \in Caller, todo'[v] # <<>>, todo'[v][1].minted # None
          PROVE  /\ session_id # todo'[v][1].minted
                 /\ sessions[todo'[v][1].minted] \in {None, C!Lost}
                 /\ \A u \in Caller : todo'[u] # <<>> =>
                        /\ todo'[u][1].header # todo'[v][1].minted
                        /\ u # v => todo'[u][1].minted # todo'[v][1].minted
        <3>1. v # t
            BY <2>1, <1>3
        <3>2. todo'[v] = todo[v]
            BY <3>1, <1>2
        <3>3. \A u \in Caller : u = t \/ todo'[u] = todo[u]
            BY <1>2
        <3>4. todo'[t][1].header # todo'[v][1].minted /\ todo'[t][1].minted # todo'[v][1].minted
            BY <2>1, <1>3
        <3>5. QED
            BY <2>1, <3>1, <3>2, <3>3, <3>4, <1>1 DEF MintedIsFresh
    <2>2. QED
        BY <2>1, <1>2 DEF MintedIsFresh
<1>6. ASSUME ~disturbed' PROVE Undisturbed'
    <2>1. SetterIsAlone /\ SomeoneOpens /\ UpToDate /\ LevelIsKept
        BY <1>1, <1>2, <1>6 DEF Undisturbed
    <2>2. SetterIsAlone'
        BY <2>1, <1>2, <1>3 DEF SetterIsAlone
    <2>3. SomeoneOpens'
        BY <2>1, <1>2 DEF SomeoneOpens, Doing
    <2>4. UpToDate'
        BY <2>1, <1>2, <1>3 DEF UpToDate, SetDone, Doing
    <2>5. LevelIsKept'
        BY <2>1, <1>2 DEF LevelIsKept, Restoring, SetDone, Doing
    <2>6. QED
        BY <2>2, <2>3, <2>4, <2>5 DEF Undisturbed
<1>7. QED
    BY <1>2, <1>4, <1>5, <1>6 DEF ClientIInv

LEMMA StartKeeps == ASSUME ClientIInv, NEW t \in Caller, C!Start(t) PROVE ClientIInv'
<1>1. ClientTypes /\ ServedIsOver /\ MintedIsFresh /\ (~disturbed => Undisturbed)
    BY DEF ClientIInv
<1>2. /\ ClientTypes'
      /\ todo[t] = <<>> /\ todo'[t] # <<>> /\ Len(todo'[t]) = 1
      /\ todo'[t][1].at = "unsent" /\ todo'[t][1].minted = None /\ todo'[t][1].header = None
      /\ \A u \in Caller \ {t} : todo'[u] = todo[u]
      /\ ~disturbed' =>
            /\ ~disturbed
            /\ \/ /\ todo'[t][1].op = "call"
                  /\ \A u \in Caller \ {t} : todo[u] # <<>> => todo[u][Len(todo[u])].op # "set"
               \/ \A u \in Caller \ {t} : todo[u] = <<>>
      /\ served'[t] = 0 /\ \A u \in Caller \ {t} : served'[u] = served[u]
      /\ UNCHANGED <<session_id, log_level, sessions>>
    BY <1>1, StartStep
<1>3. ServedIsOver'
    BY <1>1, <1>2 DEF ServedIsOver
<1>4. MintedIsFresh'
    <2>1. ASSUME NEW v \in Caller, todo'[v] # <<>>, todo'[v][1].minted # None
          PROVE  /\ session_id # todo'[v][1].minted
                 /\ sessions[todo'[v][1].minted] \in {None, C!Lost}
                 /\ \A u \in Caller : todo'[u] # <<>> =>
                        /\ todo'[u][1].header # todo'[v][1].minted
                        /\ u # v => todo'[u][1].minted # todo'[v][1].minted
        <3>1. v # t
            BY <2>1, <1>2
        <3>2. todo'[v] = todo[v]
            BY <3>1, <1>2
        <3>3. \A u \in Caller : u = t \/ todo'[u] = todo[u]
            BY <1>2
        <3>4. QED
            BY <2>1, <3>1, <3>2, <3>3, <1>1, <1>2 DEF MintedIsFresh
    <2>2. QED
        BY <2>1, <1>2 DEF MintedIsFresh
<1>5. ASSUME ~disturbed' PROVE Undisturbed'
    <2>1. SetterIsAlone /\ SomeoneOpens /\ UpToDate /\ LevelIsKept
        BY <1>1, <1>2, <1>5 DEF Undisturbed
    <2>2. SetterIsAlone'
        BY <2>1, <1>2, <1>5 DEF SetterIsAlone
    <2>3. SomeoneOpens'
        BY <2>1, <1>2 DEF SomeoneOpens, Doing
    <2>4. UpToDate'
        BY <2>1, <1>2 DEF UpToDate, SetDone, Doing
    <2>5. LevelIsKept'
        BY <2>1, <1>2 DEF LevelIsKept, Restoring, SetDone, Doing
    <2>6. QED
        BY <2>2, <2>3, <2>4, <2>5 DEF Undisturbed
<1>6. QED
    BY <1>2, <1>3, <1>4, <1>5 DEF ClientIInv

LEMMA LoseKeeps == ASSUME ClientIInv, NEW s \in C!Sid, C!Lose(s) PROVE ClientIInv'
<1>1. ClientTypes /\ ServedIsOver /\ MintedIsFresh /\ (~disturbed => Undisturbed)
    BY DEF ClientIInv
<1>2. /\ ClientTypes'
      /\ s \in 1..Len(sessions) /\ Len(sessions') = Len(sessions)
      /\ sessions' = [sessions EXCEPT ![s] = C!Lost]
      /\ UNCHANGED <<session_id, log_level, todo, ended, calls, served, disturbed>>
    BY <1>1, LoseStep
<1>3. \A i \in 1..Len(sessions) : sessions'[i] = IF i = s THEN C!Lost ELSE sessions[i]
    BY <1>1, <1>2 DEF ClientTypes
<1>4. ServedIsOver'
    BY <1>1, <1>2 DEF ServedIsOver
<1>5. MintedIsFresh'
    <2>1. ASSUME NEW v \in Caller, todo[v] # <<>>, todo[v][1].minted # None
          PROVE  sessions'[todo[v][1].minted] \in {None, C!Lost}
        <3>1. todo[v][1].minted \in 1..Len(sessions) /\ sessions[todo[v][1].minted] \in {None, C!Lost}
            BY <2>1, <1>1, Tops DEF MintedIsFresh
        <3>2. QED
            BY <3>1, <1>3
    <2>2. QED
        BY <2>1, <1>1, <1>2 DEF MintedIsFresh
<1>6. ASSUME ~disturbed' PROVE Undisturbed'
    <2>1. SetterIsAlone /\ SomeoneOpens /\ UpToDate /\ LevelIsKept
        BY <1>1, <1>2, <1>6 DEF Undisturbed
    <2>2. SetterIsAlone' /\ SomeoneOpens'
        BY <2>1, <1>2 DEF SetterIsAlone, SomeoneOpens, Doing
    <2>3. session_id # None => session_id \in 1..Len(sessions)
        BY <1>1 DEF ClientTypes
    <2>4. UpToDate'
        BY <2>1, <2>3, <1>2, <1>3 DEF UpToDate, SetDone, Doing
    <2>5. LevelIsKept'
        BY <2>1, <2>3, <1>2, <1>3 DEF LevelIsKept, Restoring, SetDone, Doing
    <2>6. QED
        BY <2>2, <2>4, <2>5 DEF Undisturbed
<1>7. QED
    BY <1>2, <1>4, <1>5, <1>6 DEF ClientIInv

LEMMA BreakKeeps == ASSUME ClientIInv, NEW t \in Caller, C!Break(t) PROVE ClientIInv'
<1>1. ClientTypes /\ ServedIsOver /\ MintedIsFresh
    BY DEF ClientIInv
<1>2. /\ ClientTypes' /\ disturbed'
      /\ todo'[t] = <<>> /\ \A u \in Caller \ {t} : todo'[u] = todo[u]
      /\ UNCHANGED <<session_id, log_level, sessions, calls, served>>
    BY <1>1, BreakStep
<1>3. ServedIsOver' /\ MintedIsFresh'
    BY <1>1, <1>2 DEF ServedIsOver, MintedIsFresh
<1>4. QED
    BY <1>2, <1>3 DEF ClientIInv

LEMMA ClientNext == ClientIInv /\ [C!Next]_(C!vars) => ClientIInv'
<1> SUFFICES ASSUME ClientIInv, [C!Next]_(C!vars) PROVE ClientIInv'
    OBVIOUS
<1>1. CASE \E t \in Caller : C!Start(t) \/ C!Task(t) \/ C!Break(t)
    <2>1. PICK t \in Caller : C!Start(t) \/ C!Task(t) \/ C!Break(t)
        BY <1>1
    <2>2. QED
        BY <2>1, StartKeeps, SendKeeps, SkipKeeps, LoadKeeps, RunKeeps, ReopenKeeps, ReceiveKeeps,
           BreakKeeps DEF C!Task
<1>2. CASE \E s \in C!Sid : C!Lose(s)
    BY <1>2, LoseKeeps
<1>3. CASE UNCHANGED C!vars
    <2>1. UNCHANGED <<session_id, log_level, todo, ended, sessions, calls, served, disturbed>>
        BY <1>3 DEF C!vars, C!client, C!bounds
    <2>2. ClientTypes' /\ ServedIsOver' /\ MintedIsFresh'
        BY <2>1 DEF ClientIInv, ClientTypes, ServedIsOver, MintedIsFresh
    <2>3. ~disturbed' => Undisturbed'
        BY <2>1 DEF ClientIInv, Undisturbed, SetterIsAlone, SomeoneOpens, UpToDate, LevelIsKept,
           Restoring, SetDone, Doing
    <2>4. QED
        BY <2>2, <2>3 DEF ClientIInv
<1>4. QED
    BY <1>1, <1>2, <1>3 DEF C!Next

LEMMA ClientInvariant == C!Spec => []ClientIInv
    BY ClientInit, ClientNext, PTL DEF C!Spec

\* The variables of tasks that share a Client stay well formed, however many
\* tasks lose the session together.
THEOREM ClientTypeCorrect == C!Spec => []C!TypeOK
<1>1. ClientIInv => C!TypeOK
    <2> SUFFICES ASSUME ClientTypes PROVE C!TypeOK
        BY DEF ClientIInv
    <2>1. /\ sessions \in Seq(Level \cup {None, C!Lost}) /\ log_level \in Level \cup {None}
          /\ \A t \in Caller : ended[t] \in {None, "ok", "refused", "gone", "unrepaired", "broken"}
          /\ calls \in 0 .. MaxCalls
          /\ DOMAIN sessions = 1..Len(sessions) /\ session_id \in 1..Len(sessions) \cup {None}
        BY DEF ClientTypes
    <2>2. ASSUME NEW t \in Caller, NEW i \in DOMAIN todo[t]
          PROVE  /\ todo[t][i].header \in 1..Len(sessions) \cup {None}
                 /\ todo[t][i].minted \in 1..Len(sessions) \cup {None}
                 /\ todo[t][i].op \in {"set", "restore"} /\ todo[t][i].at # "unsent"
                        => todo[t][i].level \in Level
        <3>1. Stack(todo[t], Len(sessions))
            BY DEF ClientTypes
        <3>2. i \in 1..Len(todo[t])
            BY <3>1 DEF Stack
        <3>3. Sound(todo[t][i], Len(sessions))
            BY <3>1, <3>2 DEF Stack
        <3>4. QED
            BY <3>3 DEF Sound
    <2>3. QED
        BY <2>1, <2>2 DEF C!TypeOK, C!SidOrNone, C!Sid
<1>2. QED
    BY ClientInvariant, <1>1, PTL

\* lost_session, reopen and the repeat: a request that is repeated on a fresh
\* session was answered 404 before anything ran.
THEOREM ClientServesOnce == C!Spec => []C!ServedOnce
<1>1. ClientIInv => C!ServedOnce
    BY DEF ClientIInv, ServedIsOver, C!ServedOnce
<1>2. QED
    BY ClientInvariant, <1>1, PTL

\* However the tasks' handshakes interleave, the session the Client ends up
\* naming has the level the Client holds, or is lost.
THEOREM ClientSettles == C!Spec => []C!SettledClientHasItsSession
<1>1. ClientIInv => C!SettledClientHasItsSession
    <2> SUFFICES ASSUME ClientIInv, \A t \in Caller : todo[t] = <<>>, ~disturbed
                 PROVE  session_id # None /\ (C!Knows(session_id) => sessions[session_id] = log_level)
        BY DEF C!SettledClientHasItsSession, C!Idle
    <2>1. ClientTypes /\ SomeoneOpens /\ LevelIsKept
        BY DEF ClientIInv, Undisturbed
    <2>2. session_id # None
        BY <2>1 DEF SomeoneOpens, Doing
    <2>3. sessions[session_id] \in {C!Lost, log_level}
        BY <2>1, <2>2 DEF LevelIsKept, Restoring, SetDone, Doing
    <2>4. QED
        BY <2>1, <2>2, <2>3, KnownSession
<1>2. QED
    BY ClientInvariant, <1>1, PTL

\* lost_session is asked of the id the Client holds now: only when another task
\* has just forgotten it does a 404 go unrepaired.
THEOREM LonersRepair == C!Spec => C!LonersAreRepaired
<1>1. ClientIInv /\ [C!Next]_(C!vars) =>
        [\A t \in Caller :
            ended'[t] = "unrepaired" /\ ended[t] # "unrepaired" => C!Crowded(t) \/ disturbed]_(C!vars)
    <2> SUFFICES ASSUME ClientIInv, C!Next, NEW t \in Caller,
                        ended'[t] = "unrepaired", ended[t] # "unrepaired", ~disturbed
                 PROVE  C!Crowded(t)
        OBVIOUS
    <2>0. ClientTypes /\ SomeoneOpens
        BY DEF ClientIInv, Undisturbed
    <2>1. ASSUME NEW u \in Caller, C!Receive(u) PROVE C!Crowded(t)
        <3>1. /\ u = t /\ todo[t] # <<>> /\ todo[t][1].at = "answered"
              /\ todo[t][1].status = "gone" /\ session_id = None
            BY <2>0, <2>1, ReceiveStep
        <3>2. PICK v \in Caller : Doing(v, "initialize")
            BY <2>0, <3>1 DEF SomeoneOpens
        <3>3. v # t
            BY <2>0, <3>1, <3>2, Tops DEF Doing
        <3>4. QED
            BY <3>2, <3>3 DEF Doing, C!Crowded, C!Idle
    <2>2. ASSUME NEW u \in Caller, C!Start(u) PROVE FALSE
        BY <2>0, <2>2, StartStep, SessionsConstants
    <2>3. ASSUME NEW u \in Caller,
                 C!Send(u) \/ C!SkipRestore(u) \/ C!load_session(u) \/ C!Run(u) \/ C!reopen(u)
          PROVE  FALSE
        <3>1. ended' = ended
            BY <2>0, <2>3, SendStep, SkipStep, LoadStep, RunStep, ReopenStep
        <3>2. QED
            BY <3>1
    <2>4. ASSUME NEW u \in Caller, C!Break(u) PROVE FALSE
        BY <2>0, <2>4, BreakStep
    <2>5. ASSUME NEW s \in C!Sid, C!Lose(s) PROVE FALSE
        BY <2>0, <2>5, LoseStep
    <2>6. QED
        BY <2>1, <2>2, <2>3, <2>4, <2>5 DEF C!Next, C!Task
<1>2. QED
    BY ClientInvariant, <1>1, PTL DEF C!Spec, C!LonersAreRepaired

LEMMA SessionsHoldAClient == MCSpec => C!Spec
<1>1. MCInit => C!Init
    BY DEF MCInit
<1>2. [MCNext]_<<part, vars, client, stream>> => [C!Next]_(C!vars)
    BY DEF MCNext, client, C!vars, C!client, C!bounds
<1>3. QED
    BY <1>1, <1>2, PTL DEF MCSpec, C!Spec

\* In the composition: no call is served twice by the endpoint, however often
\* its session is lost under it.
THEOREM CallsAreServedOnce == MCSpec => []ServedOnce
<1>1. C!ServedOnce => ServedOnce
    BY DEF ServedOnce
<1>2. QED
    BY SessionsHoldAClient, ClientServesOnce, <1>1, PTL

\* In the composition: once no task is at work, the session the Client names
\* has the log level that was asked for.
THEOREM ClientsSettle == MCSpec => []SettledClientHasItsSession
<1>1. C!SettledClientHasItsSession => SettledClientHasItsSession
    BY DEF SettledClientHasItsSession
<1>2. QED
    BY SessionsHoldAClient, ClientSettles, <1>1, PTL

-----------------------------------------------------------------------------
(* NotificationStreams: where a stream stands and what it owes its client. *)

Early == {"start", "subscribe", "subscribed"}

Entries == [from : {"hub"}, id : Nat \ {0}] \cup [from : {"outbox"}, id : Message]

StreamTypes ==
    /\ kind \in {"listen", "get", "sse"} /\ log \in Seq(N!Subject)
    /\ session \in {"none", "live", "gone"}
    /\ n_pc \in Early \cup N!Open \cup {"finally", "delete session", "done"}
    /\ batch \in Seq(Nat \ {0}) /\ wire \in Seq(Entries) /\ got \in Seq(Entries)
    /\ cursor \in 0..Len(log) /\ last \in 0..cursor
    /\ outbox \in Seq(Message) /\ o_cursor \in Nat
    /\ posts \in [Message -> {"new", "serving", "accepted", "refused"}]
    /\ due \subseteq 1..Len(log)

\* Where a stream stands, and what there is of it by then.
Phases ==
    /\ n_pc \notin {"reread", "write"} => batch = <<>>
    /\ n_pc \in Early => wire = <<>> /\ (kind # "get" => got = <<>> /\ due = {})
    /\ n_pc = "subscribed" => kind # "get"
    /\ n_pc = "reread" => kind # "listen"
    /\ n_pc \in {"finally", "delete session"} => kind = "sse"

FromHub(s, i) == s[i].from = "hub"
FromOutbox(s, i) == s[i].from = "outbox"

\* The ids still to be written come after those on the wire, these after those
\* received, and a GET stream resumes behind the last of them.
Ascending ==
    /\ \A i, j \in DOMAIN got :
        i < j /\ FromHub(got, i) /\ FromHub(got, j) => got[i].id < got[j].id
    /\ \A i, j \in DOMAIN wire :
        i < j /\ FromHub(wire, i) /\ FromHub(wire, j) => wire[i].id < wire[j].id
    /\ \A i, j \in DOMAIN batch : i < j => batch[i] < batch[j]
    /\ \A i \in DOMAIN got, j \in DOMAIN wire :
        FromHub(got, i) /\ FromHub(wire, j) => got[i].id < wire[j].id
    /\ \A i \in DOMAIN got, j \in DOMAIN batch : FromHub(got, i) => got[i].id < batch[j]
    /\ \A i \in DOMAIN wire, j \in DOMAIN batch : FromHub(wire, i) => wire[i].id < batch[j]
    /\ \A i \in DOMAIN got : FromHub(got, i) => got[i].id <= cursor
    /\ \A i \in DOMAIN wire : FromHub(wire, i) => wire[i].id <= cursor
    /\ \A i \in DOMAIN batch : batch[i] <= cursor

Resumable ==
    kind = "get" =>
        /\ \A i \in DOMAIN got : FromHub(got, i) /\ got[i].id <= last
        /\ last # 0 => \E i \in DOMAIN got : got[i].id = last
        /\ \A i \in DOMAIN wire : FromHub(wire, i)

\* A letter is in the stream's topic from when its message is accepted, once.
Letters ==
    /\ n_pc \in Early \/ kind # "sse" => o_cursor = 0 /\ \A p \in Message : posts[p] = "new"
    /\ \A k \in DOMAIN outbox : posts[outbox[k]] = "accepted"
    /\ \A i, j \in DOMAIN outbox : i # j => outbox[i] # outbox[j]
    /\ \A i \in DOMAIN got : FromOutbox(got, i) => posts[got[i].id] = "accepted"
    /\ \A i \in DOMAIN wire : FromOutbox(wire, i) => posts[wire[i].id] = "accepted"
    /\ \A i, j \in DOMAIN got :
        i < j /\ FromOutbox(got, i) /\ FromOutbox(got, j) => got[i].id # got[j].id
    /\ \A i, j \in DOMAIN wire :
        i < j /\ FromOutbox(wire, i) /\ FromOutbox(wire, j) => wire[i].id # wire[j].id
    /\ \A i \in DOMAIN got, j \in DOMAIN wire :
        FromOutbox(got, i) /\ FromOutbox(wire, j) => got[i].id # wire[j].id
    /\ n_pc \in N!Open =>
        /\ o_cursor <= Len(outbox)
        /\ \A k \in DOMAIN outbox : k > o_cursor =>
            /\ \A i \in DOMAIN got : FromOutbox(got, i) => got[i].id # outbox[k]
            /\ \A i \in DOMAIN wire : FromOutbox(wire, i) => wire[i].id # outbox[k]
        /\ \A p \in Message : posts[p] = "accepted" =>
            \/ \E i \in DOMAIN got : FromOutbox(got, i) /\ got[i].id = p
            \/ \E i \in DOMAIN wire : FromOutbox(wire, i) /\ wire[i].id = p
            \/ \E k \in DOMAIN outbox : k > o_cursor /\ outbox[k] = p

\* What was promised is relayed when its turn comes.
Promised ==
    /\ kind = "listen" => \A i \in due : log[i] \in accepted
    /\ kind = "get" \/ (kind = "sse" /\ n_pc \in N!Open) => \A i \in due : log[i] \in N!wanted
    /\ n_pc = "write" => \A n \in DOMAIN batch : batch[n] \in due => log[batch[n]] \in accepted

Ahead ==
    n_pc \in N!Open \/ (kind = "get" /\ last # 0) =>
        \A i \in due :
            \/ \E n \in DOMAIN got : FromHub(got, n) /\ got[n].id = i
            \/ \E n \in DOMAIN wire : FromHub(wire, n) /\ wire[n].id = i
            \/ \E n \in DOMAIN batch : batch[n] = i
            \/ i > IF n_pc \in N!Open THEN cursor ELSE last

StreamIInv == StreamTypes /\ Phases /\ Ascending /\ Resumable /\ Letters /\ Promised /\ Ahead

-----------------------------------------------------------------------------
(* One end of a sequence moves. *)

LEMMA Longer ==
    ASSUME NEW S, NEW s \in Seq(S), NEW e \in S, NEW t, t = Append(s, e)
    PROVE  /\ t \in Seq(S)
           /\ Len(t) \in DOMAIN t /\ t[Len(t)] = e
           /\ \A i \in DOMAIN s : i \in DOMAIN t /\ t[i] = s[i] /\ i < Len(t)
           /\ \A i \in DOMAIN t : i \in Nat /\ (i \in DOMAIN s \/ i = Len(t))
    OBVIOUS

LEMMA Shorter ==
    ASSUME NEW S, NEW s \in Seq(S), s # <<>>, NEW t, t = Tail(s)
    PROVE  /\ t \in Seq(S)
           /\ 1 \in DOMAIN s /\ s[1] \in S /\ Head(s) = s[1]
           /\ \A i \in DOMAIN t : i \in Nat /\ i + 1 \in DOMAIN s /\ t[i] = s[i + 1] /\ 1 < i + 1
           /\ \A i \in DOMAIN s : i \in Nat /\ (i = 1 \/ (i - 1 \in DOMAIN t /\ t[i - 1] = s[i]))
<1>1. /\ t \in Seq(S) /\ Len(s) \in Nat /\ Len(s) > 0 /\ Len(t) = Len(s) - 1
      /\ DOMAIN s = 1..Len(s) /\ DOMAIN t = 1..Len(t) /\ Head(s) = s[1]
      /\ \A i \in 1..Len(t) : t[i] = s[i + 1]
    BY EmptySeq
<1>2. \A i \in DOMAIN s : i = 1 \/ (i - 1 \in DOMAIN t /\ i = (i - 1) + 1)
    BY <1>1
<1>3. \A i \in DOMAIN s : i = 1 \/ t[i - 1] = s[i]
    BY <1>1, <1>2
<1>4. \A i \in DOMAIN t : i + 1 \in DOMAIN s /\ 1 < i + 1
    BY <1>1
<1>5. \A i \in DOMAIN s : s[i] \in S
    BY <1>1
<1>6. QED
    BY <1>1, <1>2, <1>3, <1>4, <1>5

-----------------------------------------------------------------------------
(* Opening, closing, and what happens elsewhere, keeps it. *)

LEMMA Numbered ==
    ASSUME StreamTypes
    PROVE  /\ Len(log) \in Nat /\ cursor \in Nat /\ last \in Nat /\ last <= cursor /\ cursor <= Len(log)
           /\ DOMAIN log = 1..Len(log) /\ DOMAIN got = 1..Len(got) /\ DOMAIN wire = 1..Len(wire)
           /\ DOMAIN batch = 1..Len(batch) /\ DOMAIN outbox = 1..Len(outbox)
           /\ Len(got) \in Nat /\ Len(wire) \in Nat /\ Len(batch) \in Nat /\ Len(outbox) \in Nat
           /\ \A i \in DOMAIN got :
                /\ FromHub(got, i) => got[i].id \in Nat \ {0}
                /\ FromOutbox(got, i) => got[i].id \in Message
                /\ FromHub(got, i) \/ FromOutbox(got, i)
           /\ \A i \in DOMAIN wire :
                /\ FromHub(wire, i) => wire[i].id \in Nat \ {0}
                /\ FromOutbox(wire, i) => wire[i].id \in Message
                /\ FromHub(wire, i) \/ FromOutbox(wire, i)
           /\ \A i \in DOMAIN batch : batch[i] \in Nat \ {0}
           /\ \A i \in DOMAIN outbox : outbox[i] \in Message
           /\ \A i \in due : i \in Nat /\ i >= 1 /\ i <= Len(log)
<1>1. /\ log \in Seq(N!Subject) /\ got \in Seq(Entries) /\ wire \in Seq(Entries) /\ batch \in Seq(Nat \ {0})
      /\ outbox \in Seq(Message) /\ cursor \in 0..Len(log) /\ last \in 0..cursor /\ due \subseteq 1..Len(log)
    BY DEF StreamTypes
<1>2. \A e \in Entries : /\ e.from = "hub" => e.id \in Nat \ {0}
                         /\ e.from = "outbox" => e.id \in Message
                         /\ e.from = "hub" \/ e.from = "outbox"
    BY DEF Entries
<1>3. /\ \A i \in DOMAIN got : got[i] \in Entries
      /\ \A i \in DOMAIN wire : wire[i] \in Entries
      /\ \A i \in DOMAIN batch : batch[i] \in Nat \ {0}
      /\ \A i \in DOMAIN outbox : outbox[i] \in Message
    BY <1>1
<1>4. /\ Len(log) \in Nat /\ DOMAIN log = 1..Len(log) /\ DOMAIN got = 1..Len(got)
      /\ DOMAIN wire = 1..Len(wire) /\ DOMAIN batch = 1..Len(batch) /\ DOMAIN outbox = 1..Len(outbox)
      /\ Len(got) \in Nat /\ Len(wire) \in Nat /\ Len(batch) \in Nat /\ Len(outbox) \in Nat
    BY <1>1
<1>5. QED
    BY <1>1, <1>2, <1>3, <1>4 DEF FromHub, FromOutbox

\* Before a stream of 2024-11-05 is open nothing is accepted.
LEMMA NoLetters ==
    ASSUME StreamIInv, n_pc \in Early \/ kind # "sse"
    PROVE  /\ DOMAIN outbox = {} /\ Len(outbox) = 0 /\ o_cursor = 0
           /\ \A p \in Message : posts[p] = "new"
           /\ \A i \in DOMAIN got : FromHub(got, i)
           /\ \A i \in DOMAIN wire : FromHub(wire, i)
<1>1. /\ o_cursor = 0 /\ \A p \in Message : posts[p] = "new"
      /\ \A k \in DOMAIN outbox : posts[outbox[k]] = "accepted"
      /\ \A i \in DOMAIN got : FromOutbox(got, i) => posts[got[i].id] = "accepted"
      /\ \A i \in DOMAIN wire : FromOutbox(wire, i) => posts[wire[i].id] = "accepted"
    BY DEF StreamIInv, Letters
<1>2. /\ DOMAIN outbox = 1..Len(outbox) /\ Len(outbox) \in Nat
      /\ \A k \in DOMAIN outbox : outbox[k] \in Message
      /\ \A i \in DOMAIN got : /\ FromOutbox(got, i) => got[i].id \in Message
                               /\ FromHub(got, i) \/ FromOutbox(got, i)
      /\ \A i \in DOMAIN wire : /\ FromOutbox(wire, i) => wire[i].id \in Message
                                /\ FromHub(wire, i) \/ FromOutbox(wire, i)
    BY Numbered DEF StreamIInv
<1>3. \A k \in DOMAIN outbox : FALSE
    BY <1>1, <1>2
<1>4. Len(outbox) = 0
    BY <1>2, <1>3
<1>5. QED
    BY <1>1, <1>2, <1>3, <1>4

LEMMA StreamInit == N!Init => StreamIInv
<1> SUFFICES ASSUME N!Init PROVE StreamIInv
    OBVIOUS
<1>1. /\ log = <<>> /\ got = <<>> /\ wire = <<>> /\ batch = <<>> /\ outbox = <<>> /\ due = {}
      /\ n_pc = "start" /\ cursor = 0 /\ last = 0 /\ o_cursor = 0
      /\ posts = [p \in Message |-> "new"] /\ kind \in {"listen", "get", "sse"}
      /\ session \in {"none", "live"}
    BY DEF N!Init
<1>2. StreamTypes
    BY <1>1 DEF StreamTypes, Early
<1>3. Phases
    BY <1>1 DEF Phases, Early
<1>4. Ascending /\ Resumable
    BY <1>1 DEF Ascending, Resumable
<1>5. Letters
    BY <1>1 DEF Letters, N!Open
<1>6. Promised /\ Ahead
    BY <1>1 DEF Promised, Ahead, N!Open
<1>7. QED
    BY <1>2, <1>3, <1>4, <1>5, <1>6 DEF StreamIInv

\* listen, load_session, open_session: the request is turned down or subscribes.
LEMMA OpenedKeeps ==
    ASSUME StreamIInv, NEW requested, N!listen(requested) \/ N!load_session \/ N!open_session
    PROVE  StreamIInv'
<1>1. /\ n_pc = "start" /\ n_pc' \in {"subscribe", "done"}
      /\ n_pc' = "done" => kind # "sse"
      /\ session' \in {session, "live"} /\ (kind # "sse" => session' = session)
      /\ UNCHANGED <<kind, log, subscribed, cursor, batch, wire, got, last, outbox, o_cursor, posts, due>>
    BY DEF N!listen, N!load_session, N!open_session, N!Goto, N!shared, N!received, N!letters
<1>2. StreamTypes'
    BY <1>1 DEF StreamIInv, StreamTypes, Early
<1>3. Phases'
    BY <1>1 DEF StreamIInv, Phases, Early
<1>4. Ascending' /\ Resumable'
    BY <1>1 DEF StreamIInv, Ascending, Resumable, FromHub
<1>5. Letters'
    BY <1>1 DEF StreamIInv, Letters, N!Open, FromOutbox, Early
<1>6. Promised'
    BY <1>1 DEF StreamIInv, Phases, Promised, N!Open, N!wanted, Early
<1>7. Ahead'
    BY <1>1 DEF StreamIInv, Ahead, N!Open, FromHub
<1>8. QED
    BY <1>2, <1>3, <1>4, <1>5, <1>6, <1>7 DEF StreamIInv

LEMMA SubscribeKeeps == ASSUME StreamIInv, N!Subscribe PROVE StreamIInv'
<1>1. /\ n_pc = "subscribe" /\ n_pc' = "subscribed" /\ kind # "get" /\ cursor' = Len(log)
      /\ o_cursor' = Len(outbox)
      /\ UNCHANGED <<kind, session, accepted, log, subscribed, batch, wire, got, last, outbox, posts, due>>
    BY DEF N!Subscribe, N!Goto, N!shared, N!received
<1>2. got = <<>> /\ wire = <<>> /\ batch = <<>> /\ due = {}
    BY <1>1 DEF StreamIInv, Phases, Early
<1>3. StreamTypes'
    <2>1. cursor' \in 0..Len(log') /\ last' \in 0..cursor' /\ o_cursor' \in Nat
        BY <1>1, Numbered DEF StreamIInv, StreamTypes
    <2>2. QED
        BY <1>1, <2>1 DEF StreamIInv, StreamTypes, Early
<1>4. Phases'
    BY <1>1 DEF StreamIInv, Phases, Early
<1>5. Ascending' /\ Resumable'
    BY <1>1, <1>2 DEF Ascending, Resumable
<1>6. Letters'
    <2>1. DOMAIN outbox = {} /\ Len(outbox) = 0 /\ \A p \in Message : posts[p] = "new"
        BY <1>1, NoLetters DEF Early
    <2>2. QED
        BY <1>1, <1>2, <2>1 DEF Letters, N!Open
<1>7. Promised' /\ Ahead'
    BY <1>1, <1>2 DEF Promised, Ahead, N!Open
<1>8. QED
    BY <1>3, <1>4, <1>5, <1>6, <1>7 DEF StreamIInv

LEMMA TellKeeps == ASSUME StreamIInv, N!Tell PROVE StreamIInv'
<1>1. /\ n_pc = "subscribed" /\ n_pc' = "told"
      /\ UNCHANGED <<kind, session, accepted, log, subscribed, cursor, batch, wire, got, last, outbox,
                     o_cursor, posts, due>>
    BY DEF N!Tell, N!Goto, N!shared, N!received, N!letters
<1>2. /\ kind # "get" /\ got = <<>> /\ wire = <<>> /\ batch = <<>> /\ due = {}
      /\ \A p \in Message : posts[p] = "new"
    BY <1>1 DEF StreamIInv, Phases, Letters, Early
<1>3. StreamTypes'
    BY <1>1 DEF StreamIInv, StreamTypes, N!Open
<1>4. Phases'
    BY <1>1, <1>2 DEF Phases, Early
<1>5. Ascending' /\ Resumable'
    BY <1>1, <1>2 DEF Ascending, Resumable
<1>6. Letters'
    <2>1. DOMAIN outbox = {} /\ Len(outbox) = 0 /\ o_cursor = 0
        BY <1>1, NoLetters DEF Early
    <2>2. o_cursor <= Len(outbox)
        BY <2>1
    <2>3. QED
        BY <1>1, <1>2, <2>1, <2>2 DEF Letters, Early
<1>7. Promised' /\ Ahead'
    BY <1>1, <1>2 DEF Promised, Ahead
<1>8. QED
    BY <1>3, <1>4, <1>5, <1>6, <1>7 DEF StreamIInv

\* A GET stream goes on behind what its client has received.
LEMMA ResumedKeeps == ASSUME StreamIInv, N!resumed PROVE StreamIInv'
<1>1. /\ n_pc = "subscribe" /\ n_pc' = "told" /\ kind = "get"
      /\ cursor' = (IF last = 0 THEN Len(log) ELSE last)
      /\ due' = (IF last = 0 THEN {} ELSE due)
      /\ UNCHANGED <<kind, session, accepted, log, subscribed, batch, wire, got, last, outbox,
                     o_cursor, posts>>
    BY DEF N!resumed, N!AfterLast, N!Goto, N!shared, N!received, N!letters
<1>2. wire = <<>> /\ batch = <<>> /\ \A p \in Message : posts[p] = "new"
    BY <1>1 DEF StreamIInv, Phases, Letters, Early
<1>3. \A i \in DOMAIN got : FromHub(got, i) /\ got[i].id <= last /\ got[i].id \in Nat \ {0}
    BY <1>1, Numbered DEF StreamIInv, Resumable
<1>4. last = 0 => \A i \in DOMAIN got : FALSE
    BY <1>3
<1>5. StreamTypes'
    <2>1. cursor' \in 0..Len(log') /\ last' \in 0..cursor'
        BY <1>1, Numbered DEF StreamIInv
    <2>2. QED
        BY <1>1, <2>1 DEF StreamIInv, StreamTypes, N!Open
<1>6. Phases'
    BY <1>1, <1>2 DEF Phases, Early
<1>7. Ascending'
    <2>1. \A i \in DOMAIN got : got[i].id <= cursor'
        BY <1>1, <1>3, <1>4
    <2>2. QED
        BY <1>1, <1>2, <2>1 DEF StreamIInv, Ascending, FromHub
<1>8. Resumable'
    BY <1>1, <1>2 DEF StreamIInv, Resumable, FromHub
<1>9. Letters'
    <2>1. /\ DOMAIN outbox = {} /\ Len(outbox) = 0 /\ o_cursor = 0
          /\ \A i \in DOMAIN got : FromHub(got, i)
        BY <1>1, NoLetters DEF Early
    <2>2. o_cursor <= Len(outbox) /\ \A i \in DOMAIN got : ~FromOutbox(got, i)
        BY <2>1 DEF FromHub, FromOutbox
    <2>3. QED
        BY <1>1, <1>2, <2>1, <2>2 DEF Letters, FromOutbox, Early
<1>10. Promised'
    BY <1>1 DEF StreamIInv, Promised, N!wanted
<1>11. Ahead'
    BY <1>1, <1>2 DEF StreamIInv, Ahead, N!Open, FromHub
<1>12. QED
    BY <1>5, <1>6, <1>7, <1>8, <1>9, <1>10, <1>11 DEF StreamIInv

\* What was published and not read yet becomes the batch.
LEMMA PollKeeps == ASSUME StreamIInv, N!Poll PROVE StreamIInv'
<1>1. /\ n_pc = "told" /\ cursor < Len(log) /\ cursor' = Len(log)
      /\ batch' = [n \in 1..(Len(log) - cursor) |-> cursor + n]
      /\ n_pc' = (IF kind = "listen" THEN "write" ELSE "reread")
      /\ UNCHANGED <<kind, session, accepted, log, subscribed, wire, got, last, outbox,
                     o_cursor, posts, due>>
    BY DEF N!Poll, N!Goto, N!shared, N!received, N!letters
<1>2. /\ Len(log) \in Nat /\ cursor \in Nat /\ last \in Nat /\ last <= cursor
      /\ \A i \in due : i \in Nat /\ i <= Len(log)
    BY Numbered DEF StreamIInv
<1>3. PICK length \in Nat : length = Len(log) - cursor
    <2>1. \A m, n \in Nat : n < m => m - n \in Nat
        OBVIOUS
    <2>2. Len(log) - cursor \in Nat
        BY <1>1, <1>2, <2>1
    <2>3. QED
        BY <2>2
<1>4. /\ batch' \in Seq(Nat \ {0}) /\ DOMAIN batch' = 1..length
      /\ \A n \in DOMAIN batch' : n \in Nat /\ n >= 1 /\ batch'[n] = cursor + n /\ n <= length
    BY <1>1, <1>2, <1>3
<1>5. /\ \A n \in DOMAIN batch' : batch'[n] > cursor /\ batch'[n] <= cursor'
      /\ \A m, n \in DOMAIN batch' : m < n => batch'[m] < batch'[n]
    BY <1>1, <1>2, <1>3, <1>4
<1>6. batch = <<>>
    BY <1>1 DEF StreamIInv, Phases
<1>7. StreamTypes'
    <2>1. cursor' \in 0..Len(log') /\ last' \in 0..cursor'
        BY <1>1, <1>2
    <2>2. QED
        BY <1>1, <1>4, <2>1 DEF StreamIInv, StreamTypes, N!Open
<1>8. Phases'
    BY <1>1 DEF StreamIInv, StreamTypes, Phases, Early
<1>9. Ascending'
    <2>1. /\ \A i \in DOMAIN got : FromHub(got, i) => got[i].id \in Nat /\ got[i].id <= cursor
          /\ \A i \in DOMAIN wire : FromHub(wire, i) => wire[i].id \in Nat /\ wire[i].id <= cursor
        BY Numbered DEF StreamIInv, Ascending
    <2>2. /\ \A i \in DOMAIN got : FromHub(got, i) =>
                got[i].id <= cursor' /\ \A n \in DOMAIN batch' : got[i].id < batch'[n]
          /\ \A i \in DOMAIN wire : FromHub(wire, i) =>
                wire[i].id <= cursor' /\ \A n \in DOMAIN batch' : wire[i].id < batch'[n]
        BY <1>1, <1>2, <1>4, <1>5, <2>1
    <2>3. QED
        BY <1>1, <1>5, <2>2 DEF StreamIInv, Ascending, FromHub
<1>10. Resumable'
    BY <1>1 DEF StreamIInv, Resumable, FromHub
<1>11. Letters'
    BY <1>1 DEF StreamIInv, Letters, N!Open, FromOutbox, Early
<1>12. Promised'
    BY <1>1 DEF StreamIInv, Promised, N!Open, N!wanted
<1>13. Ahead'
    <2>1. ASSUME NEW i \in due
          PROVE  \/ \E n \in DOMAIN got : FromHub(got, n) /\ got[n].id = i
                 \/ \E n \in DOMAIN wire : FromHub(wire, n) /\ wire[n].id = i
                 \/ \E n \in DOMAIN batch' : batch'[n] = i
        <3>1. CASE i > cursor
            <4>1. PICK n \in Nat : n = i - cursor
                BY <1>2, <3>1
            <4>2. n \in 1..length /\ cursor + n = i
                BY <1>2, <1>3, <3>1, <4>1
            <4>3. QED
                BY <1>4, <4>2
        <3>2. CASE ~(i > cursor)
            BY <1>1, <1>6, <3>2 DEF StreamIInv, Ahead, N!Open
        <3>3. QED
            BY <3>1, <3>2
    <2>2. QED
        BY <1>1, <2>1 DEF Ahead, FromHub
<1>14. QED
    BY <1>7, <1>8, <1>9, <1>10, <1>11, <1>12, <1>13 DEF StreamIInv

\* The session is read again: what was promised is what it wants.
LEMMA RereadKeeps == ASSUME StreamIInv, N!Reread PROVE StreamIInv'
<1>1. /\ n_pc = "reread"
      /\ \/ n_pc' = "finally" /\ kind = "sse" /\ batch' = <<>> /\ UNCHANGED accepted
         \/ n_pc' = "write" /\ accepted' = N!wanted /\ UNCHANGED batch
      /\ UNCHANGED <<kind, session, log, subscribed, cursor, wire, got, last, outbox,
                     o_cursor, posts, due>>
    BY DEF N!Reread, N!Goto, N!shared, N!received, N!letters
<1>2. kind \in {"get", "sse"}
    BY <1>1 DEF StreamIInv, StreamTypes, Phases
<1>3. StreamTypes'
    <2>1. batch' \in Seq(Nat \ {0})
        BY <1>1, EmptySeq DEF StreamIInv, StreamTypes
    <2>2. QED
        BY <1>1, <2>1 DEF StreamIInv, StreamTypes, N!Open
<1>4. Phases'
    BY <1>1 DEF StreamIInv, Phases, Early
<1>5. Ascending'
    BY <1>1 DEF StreamIInv, Ascending, FromHub
<1>6. Resumable'
    BY <1>1 DEF StreamIInv, Resumable, FromHub
<1>7. Letters'
    BY <1>1 DEF StreamIInv, Letters, N!Open, FromOutbox, Early
<1>8. Promised'
    BY <1>1, <1>2 DEF StreamIInv, Promised, N!Open, N!wanted
<1>9. Ahead'
    BY <1>1 DEF StreamIInv, Ahead, N!Open, FromHub
<1>10. QED
    BY <1>3, <1>4, <1>5, <1>6, <1>7, <1>8, <1>9 DEF StreamIInv

-----------------------------------------------------------------------------
(* Writing and reading keep it. *)

LEMMA WriteKeeps == ASSUME StreamIInv, N!Write PROVE StreamIInv'
<1>1. /\ n_pc = "write"
      /\ UNCHANGED <<kind, session, accepted, log, subscribed, cursor, got, last, outbox,
                     o_cursor, posts, due>>
    BY DEF N!Write, N!shared, N!received, N!letters
<1>2. CASE batch = <<>>
    <2>1. n_pc' = "told" /\ UNCHANGED <<wire, batch>>
        BY <1>2 DEF N!Write, N!Goto
    <2>2. StreamTypes' /\ Phases'
        BY <1>1, <1>2, <2>1 DEF StreamIInv, StreamTypes, Phases, N!Open, Early
    <2>3. Ascending' /\ Resumable'
        BY <1>1, <2>1 DEF StreamIInv, Ascending, Resumable, FromHub
    <2>4. Letters'
        BY <1>1, <2>1 DEF StreamIInv, Letters, N!Open, FromOutbox, Early
    <2>5. Promised' /\ Ahead'
        BY <1>1, <2>1 DEF StreamIInv, Promised, Ahead, N!Open, N!wanted, FromHub
    <2>6. QED
        BY <2>2, <2>3, <2>4, <2>5 DEF StreamIInv
<1>3. CASE batch # <<>>
    <2>1. /\ n_pc' = "write" /\ batch' = Tail(batch)
          /\ \/ /\ log[Head(batch)] \in accepted
                /\ wire' = Append(wire, [from |-> "hub", id |-> Head(batch)])
             \/ log[Head(batch)] \notin accepted /\ wire' = wire
        BY <1>1, <1>3 DEF N!Write, N!relays
    <2>2. /\ batch \in Seq(Nat \ {0}) /\ wire \in Seq(Entries)
        BY DEF StreamIInv, StreamTypes
    <2>3. /\ batch' \in Seq(Nat \ {0}) /\ 1 \in DOMAIN batch /\ Head(batch) = batch[1]
          /\ \A i \in DOMAIN batch' : i + 1 \in DOMAIN batch /\ batch'[i] = batch[i + 1]
                                      /\ i \in Nat /\ 1 < i + 1
          /\ \A i \in DOMAIN batch : i \in Nat /\ (i = 1 \/ (i - 1 \in DOMAIN batch' /\ batch'[i - 1] = batch[i]))
        BY <1>3, <2>1, <2>2, Shorter
    <2>4. PICK head \in Nat \ {0} : head = batch[1] /\ head = Head(batch)
        BY <2>2, <2>3
    <2>5. /\ head <= cursor
          /\ \A i \in DOMAIN batch' : batch'[i] \in Nat /\ head < batch'[i] /\ batch'[i] <= cursor
          /\ \A i, j \in DOMAIN batch' : i < j => batch'[i] < batch'[j]
          /\ \A i \in DOMAIN got : FromHub(got, i) =>
                got[i].id < head /\ \A j \in DOMAIN batch' : got[i].id < batch'[j]
          /\ \A i \in DOMAIN wire : FromHub(wire, i) =>
                wire[i].id < head /\ \A j \in DOMAIN batch' : wire[i].id < batch'[j]
        <3>1. /\ \A i, j \in DOMAIN batch : i < j => batch[i] < batch[j]
              /\ \A i \in DOMAIN got, j \in DOMAIN batch : FromHub(got, i) => got[i].id < batch[j]
              /\ \A i \in DOMAIN wire, j \in DOMAIN batch : FromHub(wire, i) => wire[i].id < batch[j]
              /\ \A i \in DOMAIN batch : batch[i] <= cursor /\ batch[i] \in Nat \ {0}
            BY Numbered DEF StreamIInv, Ascending
        <3>2. \A i, j \in DOMAIN batch' : i < j => i + 1 < j + 1
            BY <2>3
        <3>3. \A i, j \in DOMAIN batch' : i < j => batch'[i] < batch'[j]
            BY <2>3, <3>1, <3>2
        <3>4. QED
            BY <2>3, <2>4, <3>1, <3>3
    <2> DEFINE entry == [from |-> "hub", id |-> head]
    <2>6. entry \in Entries /\ entry.from = "hub" /\ entry.id = head
        BY <2>4, <2>5 DEF Entries
    <2>7. \/ /\ log[head] \in accepted
             /\ wire' = Append(wire, entry)
          \/ log[head] \notin accepted /\ wire' = wire
        BY <2>1, <2>4
    <2> HIDE DEF entry
    <2>8. /\ wire' \in Seq(Entries)
          /\ \A i \in DOMAIN wire : i \in DOMAIN wire' /\ wire'[i] = wire[i]
          /\ \A i \in DOMAIN wire' :
                \/ i \in DOMAIN wire
                \/ /\ wire'[i] = entry /\ log[head] \in accepted
                   /\ \A j \in DOMAIN wire : j < i
                   /\ \A j \in DOMAIN wire' : j # i => j \in DOMAIN wire
          /\ log[head] \in accepted => \E i \in DOMAIN wire' : wire'[i] = entry
        <3>1. CASE wire' = wire
            BY <2>2, <2>7, <3>1, Longer, <2>6
        <3>2. CASE wire' = Append(wire, entry) /\ log[head] \in accepted
            BY <2>2, <2>6, <3>2, Longer
        <3>3. QED
            BY <2>7, <3>1, <3>2
    <2>9. StreamTypes'
        BY <1>1, <2>1, <2>3, <2>8 DEF StreamIInv, StreamTypes
    <2>10. Phases'
        BY <1>1, <2>1 DEF StreamIInv, Phases, Early
    <2>11. Ascending'
        BY <1>1, <2>5, <2>6, <2>8 DEF StreamIInv, Ascending, FromHub
    <2>12. Resumable'
        BY <1>1, <2>6, <2>8 DEF StreamIInv, Resumable, FromHub
    <2>13. Letters'
        BY <1>1, <2>1, <2>6, <2>8 DEF StreamIInv, Letters, N!Open, FromOutbox, Early
    <2>14. Promised'
        BY <1>1, <2>1, <2>3 DEF StreamIInv, Promised, N!Open, N!wanted
    <2>15. Ahead'
        <3>1. ASSUME NEW i \in due
              PROVE  \/ \E n \in DOMAIN got : FromHub(got, n) /\ got[n].id = i
                     \/ \E n \in DOMAIN wire' : wire'[n].from = "hub" /\ wire'[n].id = i
                     \/ \E n \in DOMAIN batch' : batch'[n] = i
                     \/ i > cursor
            <4>1. CASE \E n \in DOMAIN wire : FromHub(wire, n) /\ wire[n].id = i
                BY <4>1, <2>8 DEF FromHub
            <4>2. CASE \E n \in DOMAIN batch : batch[n] = i
                <5>1. PICK n \in DOMAIN batch : batch[n] = i
                    BY <4>2
                <5>2. CASE n = 1
                    <6>1. log[head] \in accepted
                        BY <1>1, <2>4, <5>1, <5>2 DEF StreamIInv, Promised
                    <6>2. QED
                        BY <6>1, <2>4, <2>6, <2>8, <5>1, <5>2
                <5>3. CASE n # 1
                    BY <2>3, <5>1, <5>3
                <5>4. QED
                    BY <5>2, <5>3
            <4>3. QED
                BY <1>1, <4>1, <4>2 DEF StreamIInv, Ahead, N!Open
        <3>2. QED
            BY <1>1, <2>1, <3>1 DEF Ahead, FromHub, N!Open
    <2>16. QED
        BY <2>9, <2>10, <2>11, <2>12, <2>13, <2>14, <2>15 DEF StreamIInv
<1>4. QED
    BY <1>2, <1>3

\* A reply goes out when its turn in the stream's own topic comes.
LEMMA RelayKeeps == ASSUME StreamIInv, N!relay PROVE StreamIInv'
<1>1. /\ kind = "sse" /\ n_pc \in N!Open /\ o_cursor < Len(outbox) /\ o_cursor' = o_cursor + 1
      /\ wire' = Append(wire, [from |-> "outbox", id |-> outbox[o_cursor + 1]])
      /\ UNCHANGED <<kind, session, n_pc, accepted, batch, log, subscribed, cursor, got, last, outbox,
                     posts, due>>
    BY DEF N!relay, N!shared, N!received
<1>2. /\ wire \in Seq(Entries) /\ outbox \in Seq(Message) /\ o_cursor \in Nat
    BY DEF StreamIInv, StreamTypes
<1>3. PICK k \in Nat : k = o_cursor + 1
    BY <1>2
<1>4. /\ Len(outbox) \in Nat /\ DOMAIN outbox = 1..Len(outbox)
    BY <1>2
<1>5. /\ k \in DOMAIN outbox /\ k > o_cursor /\ k <= Len(outbox) /\ o_cursor' = k
      /\ \A n \in Nat : n > o_cursor => n = k \/ n > k
      /\ \A n \in Nat : n > k => n > o_cursor
    BY <1>1, <1>2, <1>3, <1>4
<1> DEFINE entry == [from |-> "outbox", id |-> outbox[k]]
<1>6. entry \in Entries /\ entry.from = "outbox" /\ entry.id = outbox[k]
    BY <1>2, <1>5 DEF Entries
<1>7. wire' = Append(wire, entry)
    BY <1>1, <1>3
<1> HIDE DEF entry
<1>8. /\ wire' \in Seq(Entries)
      /\ \A i \in DOMAIN wire : i \in DOMAIN wire' /\ wire'[i] = wire[i]
      /\ \A i \in DOMAIN wire' :
            \/ i \in DOMAIN wire
            \/ /\ wire'[i] = entry
               /\ \A j \in DOMAIN wire : j < i
               /\ \A j \in DOMAIN wire' : j # i => j \in DOMAIN wire
      /\ \E i \in DOMAIN wire' : wire'[i] = entry
    BY <1>2, <1>6, <1>7, Longer
<1>9. StreamTypes'
    BY <1>1, <1>5, <1>8 DEF StreamIInv, StreamTypes
<1>10. Phases'
    BY <1>1 DEF StreamIInv, Phases, Early, N!Open
<1>11. Ascending'
    BY <1>1, <1>6, <1>8 DEF StreamIInv, Ascending, FromHub
<1>12. Resumable'
    BY <1>1 DEF Resumable
<1>13. Letters'
    <2>1. /\ \A i \in DOMAIN outbox : i \in Nat
          /\ \A i, j \in DOMAIN outbox : i # j => outbox[i] # outbox[j]
          /\ posts[outbox[k]] = "accepted"
          /\ \A i \in DOMAIN got : FromOutbox(got, i) => got[i].id # outbox[k]
          /\ \A i \in DOMAIN wire : FromOutbox(wire, i) => wire[i].id # outbox[k]
        BY <1>1, <1>4, <1>5 DEF StreamIInv, Letters
    <2>2. /\ n_pc' \in Early \/ kind' # "sse" => o_cursor' = 0 /\ \A p \in Message : posts'[p] = "new"
          /\ \A i \in DOMAIN wire' : FromOutbox(wire, i)' => posts[wire'[i].id] = "accepted"
        BY <1>1, <1>6, <1>8, <2>1 DEF StreamIInv, Letters, FromOutbox, Early, N!Open
    <2>3. /\ \A i, j \in DOMAIN wire' :
                i < j /\ FromOutbox(wire, i)' /\ FromOutbox(wire, j)' => wire'[i].id # wire'[j].id
          /\ \A i \in DOMAIN got, j \in DOMAIN wire' :
                FromOutbox(got, i) /\ FromOutbox(wire, j)' => got[i].id # wire'[j].id
        BY <1>6, <1>8, <2>1 DEF StreamIInv, Letters, FromOutbox
    <2>4. /\ o_cursor' <= Len(outbox')
          /\ \A n \in DOMAIN outbox : n > o_cursor' =>
                /\ \A i \in DOMAIN got : FromOutbox(got, i) => got[i].id # outbox[n]
                /\ \A i \in DOMAIN wire' : FromOutbox(wire, i)' => wire'[i].id # outbox[n]
        <3>1. \A n \in DOMAIN outbox : n > o_cursor' => n > o_cursor /\ n # k
            BY <1>5, <2>1
        <3>2. QED
            BY <1>1, <1>5, <1>6, <1>8, <2>1, <3>1 DEF StreamIInv, Letters, FromOutbox
    <2>5. ASSUME NEW p \in Message, posts[p] = "accepted"
          PROVE  \/ \E i \in DOMAIN got : FromOutbox(got, i) /\ got[i].id = p
                 \/ \E i \in DOMAIN wire' : FromOutbox(wire, i)' /\ wire'[i].id = p
                 \/ \E n \in DOMAIN outbox : n > o_cursor' /\ outbox[n] = p
        <3>1. CASE \E n \in DOMAIN outbox : n > o_cursor /\ outbox[n] = p
            BY <3>1, <1>5, <1>6, <1>8, <2>1 DEF FromOutbox
        <3>2. CASE \E i \in DOMAIN wire : FromOutbox(wire, i) /\ wire[i].id = p
            BY <3>2, <1>8 DEF FromOutbox
        <3>3. QED
            BY <1>1, <2>5, <3>1, <3>2 DEF StreamIInv, Letters
    <2>6. QED
        BY <1>1, <2>2, <2>3, <2>4, <2>5 DEF StreamIInv, Letters, FromOutbox
<1>14. Promised'
    BY <1>1 DEF StreamIInv, Promised, N!Open, N!wanted
<1>15. Ahead'
    BY <1>1, <1>8 DEF StreamIInv, Ahead, N!Open, FromHub
<1>16. QED
    BY <1>9, <1>10, <1>11, <1>12, <1>13, <1>14, <1>15 DEF StreamIInv

LEMMA ReceiptKeeps == ASSUME StreamIInv, N!Receive PROVE StreamIInv'
<1>1. /\ wire # <<>> /\ n_pc \in N!Open
      /\ got' = Append(got, Head(wire)) /\ wire' = Tail(wire)
      /\ last' = (IF kind = "get" THEN Head(wire).id ELSE last)
      /\ UNCHANGED <<kind, session, n_pc, accepted, batch, log, subscribed, cursor, outbox, o_cursor,
                     posts, due>>
    BY DEF N!Receive, N!shared, N!letters
<1>2. wire \in Seq(Entries) /\ got \in Seq(Entries)
    BY DEF StreamIInv, StreamTypes
<1>3. /\ wire' \in Seq(Entries) /\ 1 \in DOMAIN wire /\ wire[1] \in Entries /\ Head(wire) = wire[1]
      /\ \A i \in DOMAIN wire' : i \in Nat /\ i + 1 \in DOMAIN wire /\ wire'[i] = wire[i + 1] /\ 1 < i + 1
      /\ \A i \in DOMAIN wire : i \in Nat /\ (i = 1 \/ (i - 1 \in DOMAIN wire' /\ wire'[i - 1] = wire[i]))
    BY <1>1, <1>2, Shorter
<1>4. /\ got' \in Seq(Entries)
      /\ Len(got') \in DOMAIN got' /\ got'[Len(got')] = wire[1]
      /\ \A i \in DOMAIN got : i \in DOMAIN got' /\ got'[i] = got[i] /\ i < Len(got')
      /\ \A i \in DOMAIN got' : i \in Nat /\ (i \in DOMAIN got \/ i = Len(got'))
    BY <1>1, <1>2, <1>3, Longer
<1>5. \A i, j \in DOMAIN got' : i < j => i \in DOMAIN got /\ i # Len(got')
    BY <1>4
<1>6. \A i, j \in DOMAIN wire' : i < j => i + 1 < j + 1
    BY <1>3
<1>7. /\ FromHub(wire, 1) => wire[1].id <= cursor /\ wire[1].id \in Nat \ {0}
      /\ FromHub(wire, 1) \/ FromOutbox(wire, 1)
      /\ kind = "get" => FromHub(wire, 1) /\ last' = wire[1].id
      /\ kind # "get" => last' = last
    BY <1>1, <1>3, Numbered DEF StreamIInv, Ascending, Resumable
<1>8. StreamTypes'
    <2>1. last' \in 0..cursor
        <3>1. cursor \in Nat /\ last \in Nat /\ last <= cursor
            BY Numbered DEF StreamIInv
        <3>2. QED
            BY <1>7, <3>1
    <2>2. QED
        BY <1>1, <1>3, <1>4, <2>1 DEF StreamIInv, StreamTypes
<1>9. Phases'
    BY <1>1 DEF StreamIInv, Phases, Early, N!Open
<1>10. Ascending'
    <2>1. \A i, j \in DOMAIN got' : i < j /\ got'[i].from = "hub" /\ got'[j].from = "hub" => got'[i].id < got'[j].id
        <3>1. \A i \in DOMAIN got : got[i].from = "hub" /\ wire[1].from = "hub" => got[i].id < wire[1].id
            BY <1>3 DEF StreamIInv, Ascending, FromHub
        <3>2. \A i, j \in DOMAIN got :
                i < j /\ got[i].from = "hub" /\ got[j].from = "hub" => got[i].id < got[j].id
            BY DEF StreamIInv, Ascending, FromHub
        <3>3. QED
            BY <1>4, <1>5, <3>1, <3>2
    <2>2. /\ \A i, j \in DOMAIN wire' :
                i < j /\ wire'[i].from = "hub" /\ wire'[j].from = "hub" => wire'[i].id < wire'[j].id
          /\ \A i \in DOMAIN wire' : wire'[i].from = "hub" =>
                wire'[i].id <= cursor /\ \A j \in DOMAIN batch : wire'[i].id < batch[j]
        BY <1>3, <1>6 DEF StreamIInv, Ascending, FromHub
    <2>3. \A i \in DOMAIN got', j \in DOMAIN wire' :
                got'[i].from = "hub" /\ wire'[j].from = "hub" => got'[i].id < wire'[j].id
        <3>1. \A j \in DOMAIN wire' : FromHub(wire, 1) /\ wire'[j].from = "hub" => wire[1].id < wire'[j].id
            BY <1>3 DEF StreamIInv, Ascending, FromHub
        <3>2. \A i \in DOMAIN got, j \in DOMAIN wire' :
                FromHub(got, i) /\ wire'[j].from = "hub" => got[i].id < wire'[j].id
            BY <1>3 DEF StreamIInv, Ascending, FromHub
        <3>3. QED
            BY <1>4, <3>1, <3>2 DEF FromHub
    <2>4. \A i \in DOMAIN got' : got'[i].from = "hub" =>
                got'[i].id <= cursor /\ \A j \in DOMAIN batch : got'[i].id < batch[j]
        BY <1>3, <1>4, <1>7 DEF StreamIInv, Ascending, FromHub
    <2>5. QED
        BY <1>1, <2>1, <2>2, <2>3, <2>4 DEF StreamIInv, Ascending, FromHub
<1>11. Resumable'
    <2>1. ASSUME kind = "get"
          PROVE  /\ \A i \in DOMAIN got' : got'[i].from = "hub" /\ got'[i].id <= last'
                 /\ \E i \in DOMAIN got' : got'[i].id = last'
                 /\ \A i \in DOMAIN wire' : wire'[i].from = "hub"
        <3>1. \A i \in DOMAIN got : FromHub(got, i) /\ got[i].id \in Nat /\ got[i].id < wire[1].id
            BY <2>1, <1>3, <1>7, Numbered DEF StreamIInv, Ascending, Resumable
        <3>2. \A i \in DOMAIN got' : got'[i].from = "hub" /\ got'[i].id <= last'
            BY <2>1, <1>4, <1>7, <3>1 DEF FromHub
        <3>3. \A i \in DOMAIN wire' : wire'[i].from = "hub"
            BY <2>1, <1>3 DEF StreamIInv, Resumable, FromHub
        <3>4. QED
            BY <2>1, <1>4, <1>7, <3>2, <3>3
    <2>2. QED
        BY <1>1, <2>1 DEF Resumable, FromHub
<1>12. Letters'
    <2>1. /\ \A i \in DOMAIN got' : got'[i].from = "outbox" => posts[got'[i].id] = "accepted"
          /\ \A i \in DOMAIN wire' : wire'[i].from = "outbox" => posts[wire'[i].id] = "accepted"
        BY <1>3, <1>4 DEF StreamIInv, Letters, FromOutbox
    <2>2. /\ \A i, j \in DOMAIN got' :
                i < j /\ got'[i].from = "outbox" /\ got'[j].from = "outbox" => got'[i].id # got'[j].id
          /\ \A i, j \in DOMAIN wire' :
                i < j /\ wire'[i].from = "outbox" /\ wire'[j].from = "outbox" => wire'[i].id # wire'[j].id
        BY <1>3, <1>4, <1>5, <1>6, SMTT(60) DEF StreamIInv, Letters, FromOutbox
    <2>3. \A i \in DOMAIN got', j \in DOMAIN wire' :
                got'[i].from = "outbox" /\ wire'[j].from = "outbox" => got'[i].id # wire'[j].id
        <3>1. \A j \in DOMAIN wire' :
                wire[1].from = "outbox" /\ wire'[j].from = "outbox" => wire[1].id # wire'[j].id
            BY <1>3 DEF StreamIInv, Letters, FromOutbox
        <3>2. \A i \in DOMAIN got, j \in DOMAIN wire' :
                got[i].from = "outbox" /\ wire'[j].from = "outbox" => got[i].id # wire'[j].id
            BY <1>3 DEF StreamIInv, Letters, FromOutbox
        <3> QED
            BY <1>4, <3>1, <3>2
    <2>4. \A k \in DOMAIN outbox : k > o_cursor =>
                /\ \A i \in DOMAIN got' : got'[i].from = "outbox" => got'[i].id # outbox[k]
                /\ \A i \in DOMAIN wire' : wire'[i].from = "outbox" => wire'[i].id # outbox[k]
        BY <1>1, <1>3, <1>4 DEF StreamIInv, Letters, FromOutbox
    <2>5. ASSUME NEW p \in Message, posts[p] = "accepted"
          PROVE  \/ \E i \in DOMAIN got' : got'[i].from = "outbox" /\ got'[i].id = p
                 \/ \E i \in DOMAIN wire' : wire'[i].from = "outbox" /\ wire'[i].id = p
                 \/ \E n \in DOMAIN outbox : n > o_cursor /\ outbox[n] = p
        <3>1. CASE \E i \in DOMAIN wire : FromOutbox(wire, i) /\ wire[i].id = p
            BY <3>1, <1>3, <1>4 DEF FromOutbox
        <3>2. CASE \E i \in DOMAIN got : FromOutbox(got, i) /\ got[i].id = p
            BY <3>2, <1>4 DEF FromOutbox
        <3>3. QED
            BY <1>1, <2>5, <3>1, <3>2 DEF StreamIInv, Letters
    <2>6. QED
        BY <1>1, <2>1, <2>2, <2>3, <2>4, <2>5, SMTT(60) DEF StreamIInv, Letters, FromOutbox
<1>13. Promised'
    BY <1>1 DEF StreamIInv, Promised, N!wanted
<1>14. Ahead'
    <2>1. ASSUME NEW i \in due
          PROVE  \/ \E n \in DOMAIN got' : got'[n].from = "hub" /\ got'[n].id = i
                 \/ \E n \in DOMAIN wire' : wire'[n].from = "hub" /\ wire'[n].id = i
                 \/ \E n \in DOMAIN batch : batch[n] = i
                 \/ i > cursor
        <3>1. CASE \E n \in DOMAIN wire : FromHub(wire, n) /\ wire[n].id = i
            BY <3>1, <1>3, <1>4 DEF FromHub
        <3>2. CASE \E n \in DOMAIN got : FromHub(got, n) /\ got[n].id = i
            BY <3>2, <1>4 DEF FromHub
        <3>3. QED
            BY <1>1, <3>1, <3>2 DEF StreamIInv, Ahead
    <2>2. QED
        BY <1>1, <2>1 DEF Ahead, FromHub
<1>15. QED
    BY <1>8, <1>9, <1>10, <1>11, <1>12, <1>13, <1>14 DEF StreamIInv

\* What is lost with the connection lies behind the last id that arrived.
LEMMA CutKeeps == ASSUME StreamIInv, N!Cut PROVE StreamIInv'
<1>1. /\ n_pc \in N!Open /\ wire' = <<>> /\ batch' = <<>>
      /\ n_pc' = (CASE kind = "get" -> "start" [] kind = "sse" -> "finally" [] kind = "listen" -> "done")
      /\ UNCHANGED <<kind, session, accepted, log, subscribed, cursor, got, last, outbox, o_cursor,
                     posts, due>>
    BY DEF N!Cut, N!Goto, N!shared, N!received, N!letters
<1>2. \/ kind = "get" /\ n_pc' = "start"
      \/ kind = "sse" /\ n_pc' = "finally"
      \/ kind = "listen" /\ n_pc' = "done"
    BY <1>1 DEF StreamIInv, StreamTypes
<1>3. wire' \in Seq(Entries) /\ batch' \in Seq(Nat \ {0})
    BY <1>1, EmptySeq
<1>4. StreamTypes'
    BY <1>1, <1>2, <1>3 DEF StreamIInv, StreamTypes, Early
<1>5. Phases'
    BY <1>1, <1>2 DEF Phases, Early
<1>6. Ascending' /\ Resumable'
    BY <1>1 DEF StreamIInv, Ascending, Resumable, FromHub
<1>7. Letters'
    BY <1>1, <1>2 DEF StreamIInv, Letters, Early, N!Open, FromOutbox
<1>8. Promised'
    BY <1>1, <1>2 DEF StreamIInv, Promised, N!wanted, N!Open
<1>9. Ahead'
    <2>1. ASSUME kind = "get", last # 0, NEW i \in due
          PROVE  (\E n \in DOMAIN got : FromHub(got, n) /\ got[n].id = i) \/ i > last
        <3>1. PICK m \in DOMAIN got : FromHub(got, m) /\ got[m].id = last
            BY <2>1 DEF StreamIInv, Resumable
        <3>2. /\ \A n \in DOMAIN wire : FromHub(wire, n) => last < wire[n].id
              /\ \A n \in DOMAIN batch : last < batch[n]
            BY <3>1 DEF StreamIInv, Ascending
        <3>3. /\ i \in Nat /\ last \in Nat /\ cursor \in Nat /\ last <= cursor
              /\ \A n \in DOMAIN wire : FromHub(wire, n) => wire[n].id \in Nat
              /\ \A n \in DOMAIN batch : batch[n] \in Nat
            BY Numbered DEF StreamIInv
        <3>4. \/ \E n \in DOMAIN got : FromHub(got, n) /\ got[n].id = i
              \/ \E n \in DOMAIN wire : FromHub(wire, n) /\ wire[n].id = i
              \/ \E n \in DOMAIN batch : batch[n] = i
              \/ i > cursor
            BY <1>1 DEF StreamIInv, Ahead
        <3>5. QED
            BY <3>2, <3>3, <3>4
    <2>2. QED
        BY <1>1, <1>2, <2>1 DEF Ahead, FromHub, N!Open
<1>10. QED
    BY <1>4, <1>5, <1>6, <1>7, <1>8, <1>9 DEF StreamIInv

-----------------------------------------------------------------------------
(* What other tasks and workers do keeps it. *)

LEMMA EndKeeps == ASSUME StreamIInv, N!Finally \/ N!DeleteSession PROVE StreamIInv'
<1>1. /\ n_pc \in {"finally", "delete session"} /\ n_pc' \in {"delete session", "done"}
      /\ session' \in {session, "gone"} /\ outbox' \in {outbox, <<>>}
      /\ UNCHANGED <<kind, accepted, log, subscribed, cursor, batch, wire, got, last, o_cursor, posts, due>>
    BY DEF N!Finally, N!DeleteSession, N!Goto, N!shared, N!received, N!letters
<1>2. kind = "sse"
    BY <1>1 DEF StreamIInv, Phases
<1>3. StreamTypes'
    <2>1. outbox' \in Seq(Message)
        BY <1>1, EmptySeq DEF StreamIInv, StreamTypes
    <2>2. QED
        BY <1>1, <2>1 DEF StreamIInv, StreamTypes
<1>4. Phases'
    BY <1>1, <1>2 DEF StreamIInv, Phases, Early
<1>5. Ascending' /\ Resumable'
    BY <1>1 DEF StreamIInv, Ascending, Resumable, FromHub
<1>6. Letters'
    <2>1. n_pc' \notin Early /\ n_pc' \notin N!Open
        BY <1>1 DEF Early, N!Open
    <2>2. /\ \A k \in DOMAIN outbox' : posts[outbox'[k]] = "accepted"
          /\ \A i, j \in DOMAIN outbox' : i # j => outbox'[i] # outbox'[j]
        <3>1. CASE outbox' = outbox
            BY <3>1 DEF StreamIInv, Letters
        <3>2. CASE outbox' = <<>>
            BY <3>2
        <3>3. QED
            BY <1>1, <3>1, <3>2
    <2>3. QED
        BY <1>1, <1>2, <2>1, <2>2, ZenonT(60) DEF StreamIInv, Letters, FromOutbox
<1>7. Promised' /\ Ahead'
    BY <1>1, <1>2 DEF StreamIInv, Promised, Ahead, N!Open
<1>8. QED
    BY <1>3, <1>4, <1>5, <1>6, <1>7 DEF StreamIInv

LEMMA PublishKeeps == ASSUME StreamIInv, NEW subject \in N!Subject, N!Publish(subject) PROVE StreamIInv'
<1>1. /\ log' = Append(log, subject)
      /\ due' = (IF (n_pc \in N!Open \/ kind = "get")
                    /\ subject \in (IF kind = "listen" THEN accepted ELSE N!wanted)
                 THEN due \cup {Len(log) + 1} ELSE due)
      /\ UNCHANGED <<kind, session, n_pc, accepted, subscribed, cursor, batch, wire, got, last, outbox,
                     o_cursor, posts>>
    BY DEF N!Publish, N!received, N!letters
<1>2. /\ Len(log) \in Nat /\ cursor \in Nat /\ last \in Nat /\ last <= cursor /\ cursor <= Len(log)
      /\ \A i \in due : i \in Nat /\ i >= 1 /\ i <= Len(log)
      /\ log \in Seq(N!Subject) /\ DOMAIN log = 1..Len(log)
    BY Numbered DEF StreamIInv, StreamTypes
<1>3. PICK new \in Nat : new = Len(log) + 1
    BY <1>2
<1>4. /\ log' \in Seq(N!Subject) /\ Len(log') = new /\ log'[new] = subject
      /\ \A i \in 1..Len(log) : log'[i] = log[i]
      /\ new > cursor /\ new > last /\ new > Len(log) /\ new >= 1
    BY <1>1, <1>2, <1>3
<1>5. \A i \in due : log'[i] = log[i] /\ i # new
    BY <1>2, <1>4
<1>6. /\ due' \subseteq due \cup {new}
      /\ new \in due' => /\ n_pc \in N!Open \/ kind = "get"
                         /\ log'[new] \in (IF kind = "listen" THEN accepted ELSE N!wanted)
    BY <1>1, <1>3, <1>4, <1>5
<1>7. StreamTypes'
    <2>1. cursor \in 0..Len(log') /\ due' \subseteq 1..Len(log')
        BY <1>2, <1>3, <1>4, <1>6
    <2>2. QED
        BY <1>1, <1>4, <2>1 DEF StreamIInv, StreamTypes
<1>8. Phases'
    BY <1>1 DEF StreamIInv, Phases, Early, N!Open
<1>9. Ascending' /\ Resumable'
    BY <1>1 DEF StreamIInv, Ascending, Resumable, FromHub
<1>10. Letters'
    BY <1>1 DEF StreamIInv, Letters, FromOutbox
<1>11. Promised'
    <2>1. kind = "listen" => \A i \in due' : log'[i] \in accepted
        BY <1>5, <1>6 DEF StreamIInv, Promised
    <2>2. kind = "get" \/ (kind = "sse" /\ n_pc \in N!Open) => \A i \in due' : log'[i] \in N!wanted
        BY <1>5, <1>6 DEF StreamIInv, Promised
    <2>3. n_pc = "write" => \A n \in DOMAIN batch : batch[n] \in due' => log'[batch[n]] \in accepted
        <3>1. \A n \in DOMAIN batch : batch[n] # new
            BY <1>2, <1>4, Numbered DEF StreamIInv, Ascending
        <3>2. QED
            BY <3>1, <1>5, <1>6 DEF StreamIInv, Promised
    <2>4. QED
        BY <1>1, <2>1, <2>2, <2>3 DEF Promised, N!wanted
<1>12. Ahead'
    BY <1>1, <1>4, <1>6 DEF StreamIInv, Ahead, FromHub
<1>13. QED
    BY <1>7, <1>8, <1>9, <1>10, <1>11, <1>12 DEF StreamIInv

\* A subscription that ends takes its promises along.
LEMMA SubscriptionKeeps ==
    ASSUME StreamIInv, NEW uri, N!subscribe(uri) \/ N!unsubscribe(uri) \/ N!Lapse
    PROVE  StreamIInv'
<1>1. /\ due' \subseteq due
      /\ N!wanted \subseteq N!wanted' \/ \A i \in due' : log[i] \in N!wanted => log[i] \in N!wanted'
      /\ session' \in {session, "gone"}
      /\ UNCHANGED <<kind, n_pc, accepted, log, cursor, batch, wire, got, last, outbox, o_cursor, posts>>
    <2>1. CASE N!subscribe(uri)
        BY <2>1 DEF N!subscribe, N!received, N!letters, N!wanted
    <2>2. CASE N!unsubscribe(uri)
        BY <2>2 DEF N!unsubscribe, N!received, N!letters, N!wanted
    <2>3. CASE N!Lapse
        BY <2>3 DEF N!Lapse, N!shared, N!received, N!letters, N!wanted
    <2>4. QED
        BY <2>1, <2>2, <2>3
<1>2. StreamTypes'
    BY <1>1 DEF StreamIInv, StreamTypes
<1>3. Phases'
    BY <1>1 DEF StreamIInv, Phases, Early, N!Open
<1>4. Ascending' /\ Resumable'
    BY <1>1 DEF StreamIInv, Ascending, Resumable, FromHub
<1>5. Letters'
    BY <1>1 DEF StreamIInv, Letters, FromOutbox
<1>6. Promised'
    BY <1>1 DEF StreamIInv, Promised
<1>7. Ahead'
    BY <1>1 DEF StreamIInv, Ahead, FromHub
<1>8. QED
    BY <1>2, <1>3, <1>4, <1>5, <1>6, <1>7 DEF StreamIInv

LEMMA PostKeeps == ASSUME StreamIInv, NEW p \in Message, N!receive(p) PROVE StreamIInv'
<1>1. /\ kind = "sse" /\ posts[p] = "new" /\ n_pc \notin Early
      /\ posts' = [posts EXCEPT ![p] = IF session = "live" THEN "serving" ELSE "refused"]
      /\ UNCHANGED <<kind, session, n_pc, accepted, log, subscribed, cursor, batch, wire, got, last, outbox,
                     o_cursor, due>>
    BY DEF N!receive, N!shared, N!received, Early
<1>2. posts \in [Message -> {"new", "serving", "accepted", "refused"}]
    BY DEF StreamIInv, StreamTypes
<1>3. /\ posts' \in [Message -> {"new", "serving", "accepted", "refused"}]
      /\ \A q \in Message : posts'[q] = "accepted" <=> posts[q] = "accepted"
    BY <1>1, <1>2
<1>4. StreamTypes'
    BY <1>1, <1>3 DEF StreamIInv, StreamTypes
<1>5. Phases'
    BY <1>1 DEF StreamIInv, Phases
<1>6. Ascending' /\ Resumable'
    BY <1>1 DEF StreamIInv, Ascending, Resumable, FromHub
<1>7. Letters'
    <2>1. /\ \A k \in DOMAIN outbox : posts'[outbox[k]] = "accepted"
          /\ \A i \in DOMAIN got : FromOutbox(got, i) => posts'[got[i].id] = "accepted"
          /\ \A i \in DOMAIN wire : FromOutbox(wire, i) => posts'[wire[i].id] = "accepted"
        BY <1>3, Numbered DEF StreamIInv, Letters
    <2>2. QED
        BY <1>1, <1>3, <2>1 DEF StreamIInv, Letters, FromOutbox
<1>8. Promised' /\ Ahead'
    BY <1>1 DEF StreamIInv, Promised, Ahead, FromHub, N!wanted
<1>9. QED
    BY <1>4, <1>5, <1>6, <1>7, <1>8 DEF StreamIInv

LEMMA ServeKeeps == ASSUME StreamIInv, NEW p \in Message, N!serve(p) PROVE StreamIInv'
<1>1. /\ posts[p] = "serving" /\ outbox' = Append(outbox, p)
      /\ posts' = [posts EXCEPT ![p] = "accepted"]
      /\ UNCHANGED <<kind, session, n_pc, accepted, log, subscribed, cursor, batch, wire, got, last,
                     o_cursor, due>>
    BY DEF N!serve, N!shared, N!received
<1>2. /\ posts \in [Message -> {"new", "serving", "accepted", "refused"}]
      /\ outbox \in Seq(Message) /\ o_cursor \in Nat
    BY DEF StreamIInv, StreamTypes
<1>3. /\ posts' \in [Message -> {"new", "serving", "accepted", "refused"}]
      /\ \A q \in Message : posts'[q] = "accepted" <=> posts[q] = "accepted" \/ q = p
    BY <1>1, <1>2
<1>4. /\ outbox' \in Seq(Message)
      /\ Len(outbox') \in DOMAIN outbox' /\ outbox'[Len(outbox')] = p
      /\ \A k \in DOMAIN outbox : k \in DOMAIN outbox' /\ outbox'[k] = outbox[k] /\ k < Len(outbox')
      /\ \A k \in DOMAIN outbox' : k \in Nat /\ (k \in DOMAIN outbox \/ k = Len(outbox'))
    BY <1>1, <1>2, Longer
<1>5. Len(outbox) \in Nat /\ Len(outbox') = Len(outbox) + 1
    BY <1>1, <1>2
<1>6. /\ \A k \in DOMAIN outbox : outbox[k] # p /\ posts[outbox[k]] = "accepted" /\ outbox[k] \in Message
      /\ \A i \in DOMAIN got : FromOutbox(got, i) =>
            got[i].id # p /\ posts[got[i].id] = "accepted" /\ got[i].id \in Message
      /\ \A i \in DOMAIN wire : FromOutbox(wire, i) =>
            wire[i].id # p /\ posts[wire[i].id] = "accepted" /\ wire[i].id \in Message
      /\ ~(n_pc \in Early \/ kind # "sse")
    BY <1>1, Numbered DEF StreamIInv, Letters
<1>7. StreamTypes'
    BY <1>1, <1>3, <1>4 DEF StreamIInv, StreamTypes
<1>8. Phases'
    BY <1>1 DEF StreamIInv, Phases
<1>9. Ascending' /\ Resumable'
    BY <1>1 DEF StreamIInv, Ascending, Resumable, FromHub
<1>10. Letters'
    <2>1. /\ \A k \in DOMAIN outbox' : posts'[outbox'[k]] = "accepted"
          /\ \A i \in DOMAIN got : FromOutbox(got, i) => posts'[got[i].id] = "accepted"
          /\ \A i \in DOMAIN wire : FromOutbox(wire, i) => posts'[wire[i].id] = "accepted"
          /\ \A i, j \in DOMAIN outbox' : i # j => outbox'[i] # outbox'[j]
        BY <1>3, <1>4, <1>6 DEF StreamIInv, Letters
    <2>2. n_pc \in N!Open =>
            /\ o_cursor <= Len(outbox') /\ Len(outbox') > o_cursor
            /\ \A k \in DOMAIN outbox' : k > o_cursor =>
                /\ \A i \in DOMAIN got : FromOutbox(got, i) => got[i].id # outbox'[k]
                /\ \A i \in DOMAIN wire : FromOutbox(wire, i) => wire[i].id # outbox'[k]
        <3>1. ASSUME n_pc \in N!Open PROVE o_cursor <= Len(outbox)
            BY <3>1 DEF StreamIInv, Letters
        <3>2. n_pc \in N!Open => o_cursor <= Len(outbox') /\ Len(outbox') > o_cursor
            BY <1>2, <1>5, <3>1
        <3>3. QED
            BY <1>4, <1>6, <3>2 DEF StreamIInv, Letters
    <2>3. n_pc \in N!Open => \A q \in Message : posts'[q] = "accepted" =>
            \/ \E i \in DOMAIN got : FromOutbox(got, i) /\ got[i].id = q
            \/ \E i \in DOMAIN wire : FromOutbox(wire, i) /\ wire[i].id = q
            \/ \E k \in DOMAIN outbox' : k > o_cursor /\ outbox'[k] = q
        BY <1>3, <1>4, <2>2 DEF StreamIInv, Letters
    <2>4. QED
        BY <1>1, <1>6, <2>1, <2>2, <2>3 DEF StreamIInv, Letters, FromOutbox
<1>11. Promised' /\ Ahead'
    BY <1>1 DEF StreamIInv, Promised, Ahead, FromHub, N!wanted
<1>12. QED
    BY <1>7, <1>8, <1>9, <1>10, <1>11 DEF StreamIInv

LEMMA StreamNext == StreamIInv /\ [N!Next]_(N!vars) => StreamIInv'
<1> SUFFICES ASSUME StreamIInv, [N!Next]_(N!vars) PROVE StreamIInv'
    OBVIOUS
<1>1. ASSUME NEW requested, N!listen(requested) \/ N!load_session \/ N!open_session PROVE StreamIInv'
    BY <1>1, OpenedKeeps
<1>2. CASE N!Handler
    <2>1. CASE N!load_session \/ N!open_session
        BY <2>1, OpenedKeeps
    <2>2. QED
        BY <1>2, <2>1, SubscribeKeeps, TellKeeps, ResumedKeeps, PollKeeps, RereadKeeps, WriteKeeps,
           EndKeeps DEF N!Handler
<1>3. CASE N!Lapse
    BY <1>3, SubscriptionKeeps
<1>4. CASE UNCHANGED N!vars
    <2>1. UNCHANGED <<kind, log, session, subscribed, n_pc, cursor, accepted, batch, wire, got, last,
                      outbox, o_cursor, posts, due>>
        BY <1>4 DEF N!vars
    <2>2. StreamTypes' /\ Phases' /\ Ascending' /\ Resumable'
        BY <2>1 DEF StreamIInv, StreamTypes, Phases, Ascending, Resumable, FromHub
    <2>3. Letters' /\ Promised' /\ Ahead'
        BY <2>1 DEF StreamIInv, Letters, Promised, Ahead, FromHub, FromOutbox, N!wanted
    <2>4. QED
        BY <2>2, <2>3 DEF StreamIInv
<1>5. QED
    BY <1>1, <1>2, <1>3, <1>4, RelayKeeps, ReceiptKeeps, CutKeeps, PublishKeeps, SubscriptionKeeps,
       PostKeeps, ServeKeeps DEF N!Next

LEMMA StreamInvariant == N!Spec => []StreamIInv
    BY StreamInit, StreamNext, PTL DEF N!Spec

\* A notification stream delivers changes in the order they were published,
\* each at most once, however often the connection breaks and the GET stream is
\* resumed, and no reply of a 2024-11-05 stream twice.
THEOREM StreamDeliversInOrder == N!Spec => []N!InOrderOnce
<1>1. StreamIInv => N!InOrderOnce
    <2> SUFFICES ASSUME StreamIInv, NEW i \in DOMAIN got, NEW j \in DOMAIN got,
                        i < j, got[i].from = got[j].from
                 PROVE  IF got[i].from = "hub" THEN got[i].id < got[j].id ELSE got[i].id # got[j].id
        BY DEF N!InOrderOnce
    <2>1. FromHub(got, i) \/ FromOutbox(got, i)
        BY Numbered DEF StreamIInv
    <2>2. QED
        BY <2>1 DEF StreamIInv, Ascending, Letters, FromHub, FromOutbox
<1>2. QED
    BY StreamInvariant, <1>1, PTL

\* Nothing a client was promised is passed over, whether its session is read
\* again between polling and writing, loses a subscription or lapses, and
\* whether the stream breaks.
THEOREM StreamMissesNothing == N!Spec => []N!NothingMissed
<1>1. StreamIInv => N!NothingMissed
    <2> SUFFICES ASSUME StreamIInv PROVE N!NothingMissed
        OBVIOUS
    <2>1. ASSUME NEW from, NEW i, \/ \E n \in DOMAIN got : got[n].from = from /\ got[n].id = i
                                  \/ \E n \in DOMAIN wire : wire[n].from = from /\ wire[n].id = i
          PROVE  i \in N!Seen(from)
        BY <2>1 DEF N!Seen, N!Range
    <2>2. ASSUME NEW n \in DOMAIN batch PROVE batch[n] \in N!Range(batch)
        BY DEF N!Range
    <2>3. ASSUME n_pc \in N!Open \/ (kind = "get" /\ last # 0), NEW i \in due
          PROVE  \/ i \in N!Seen("hub") \cup N!Range(batch)
                 \/ i > IF n_pc \in N!Open THEN cursor ELSE last
        BY <2>1, <2>2, <2>3 DEF StreamIInv, Ahead, FromHub
    <2>4. ASSUME n_pc \in N!Open, NEW p \in Message, posts[p] = "accepted"
          PROVE  p \in N!Seen("outbox") \/ p \in N!Range(SubSeq(outbox, o_cursor + 1, Len(outbox)))
        <3>1. CASE \E k \in DOMAIN outbox : k > o_cursor /\ outbox[k] = p
            <4>1. PICK k \in DOMAIN outbox : k > o_cursor /\ outbox[k] = p
                BY <3>1
            <4>2. outbox \in Seq(Message) /\ o_cursor \in Nat /\ k \in 1..Len(outbox)
                BY <4>1, Numbered DEF StreamIInv, StreamTypes
            <4>3. PICK first \in Nat : first = k - o_cursor
                <5>1. \A m, n \in Nat : n < m => m - n \in Nat
                    OBVIOUS
                <5>2. QED
                    BY <4>1, <4>2, <5>1
            <4> DEFINE rest == SubSeq(outbox, o_cursor + 1, Len(outbox))
            <4>4. first \in 1..Len(rest) /\ rest[first] = outbox[k] /\ DOMAIN rest = 1..Len(rest)
                BY <4>1, <4>2, <4>3
            <4>5. QED
                BY <4>1, <4>4 DEF N!Range
        <3>2. QED
            BY <2>1, <2>4, <3>1 DEF StreamIInv, Letters, FromOutbox
    <2>5. QED
        BY <2>3, <2>4 DEF N!NothingMissed
<1>2. QED
    BY StreamInvariant, <1>1, PTL

LEMMA SessionsHoldAStream == MCSpec => N!Spec
<1>1. MCInit => N!Init
    BY DEF MCInit
<1>2. [MCNext]_<<part, vars, client, stream>> => [N!Next]_(N!vars)
    BY DEF MCNext, stream, N!vars
<1>3. QED
    BY <1>1, <1>2, PTL DEF MCSpec, N!Spec

\* In the composition: changes arrive in order, and nothing arrives twice.
THEOREM NotificationsComeInOrder == MCSpec => []InOrderOnce
<1>1. N!InOrderOnce => InOrderOnce
    BY DEF InOrderOnce
<1>2. QED
    BY SessionsHoldAStream, StreamDeliversInOrder, <1>1, PTL

\* In the composition: what a client was promised is written or still ahead.
THEOREM NoNotificationIsMissed == MCSpec => []NothingMissed
<1>1. N!NothingMissed => NothingMissed
    BY DEF NothingMissed
<1>2. QED
    BY SessionsHoldAStream, StreamMissesNothing, <1>1, PTL

-----------------------------------------------------------------------------
(* SessionWrites: update_slot and write_value, for any number of tasks,    *)
(* Session objects, attempts and writes.  Every snapshot a task or an      *)
(* object holds was once the row, so its version is at most the row's and  *)
(* equal versions mean equal contents (Snapshots); a save that wins        *)
(* therefore extends the row itself.  A write's entry is in the row        *)
(* exactly from the save that won to the row's end (WriteEntries), which   *)
(* is what an answer says.                                                 *)

\* r was the row at some time.
Past(r) ==
    /\ r.version <= row.version
    /\ r.version = row.version => r = row

Snapshots == row # Gone =>
    /\ \A o \in Object : Past(record[o])
    /\ \A t \in Task : fresh[t] # Gone => Past(fresh[t])

\* The task's current write has begun and has not been answered.
Active(t) == pc[t] \in {"save", "get", "adopt"}

\* Where the entries of unanswered and future writes are.
WriteEntries ==
    /\ \A t \in Task : Active(t) => written[t] > 0
    /\ \A w \in Write : w[2] > written[w[1]] \/ (w[2] = written[w[1]] /\ Active(w[1]))
           => outcome[w] = "none"
    /\ row # Gone => \A w \in Write : w[1] \in Updater =>
           /\ w[2] > written[w[1]] => w \notin row.values
           /\ w[2] = written[w[1]] /\ Active(w[1]) => (w \in row.values <=> saved[w[1]])

\* Where a task's locals stand before its next save.
Locals == \A t \in Task :
    /\ pc[t] = "ready" => attempt[t] = 0 /\ ~saved[t]
    /\ pc[t] = "save" => attempt[t] < SaveAttempts /\ ~saved[t]

IInv == TypeOK /\ Locals /\ Snapshots /\ WriteEntries /\ AnswersAreTrue

LEMMA OpenedIsRecord == Opened \in Record /\ Opened # Gone
BY SessionWritesConstants DEF Opened, Record

\* This(t) names a write, one of its task's own.
LEMMA ThisIsWrite ==
    ASSUME TypeOK, NEW t \in Task, written[t] > 0
    PROVE  This(t) \in Write /\ This(t)[1] = t /\ This(t)[2] = written[t]
BY SessionWritesConstants DEF TypeOK, This, Write

LEMMA InitIInv == Init => IInv
<1> SUFFICES ASSUME Init PROVE IInv
    OBVIOUS
<1>1. TypeOK
    BY OpenedIsRecord, SessionWritesConstants DEF Init, TypeOK
<1>2. Snapshots
    BY OpenedIsRecord, SessionWritesConstants DEF Init, Snapshots, Past, Record
<1>3. WriteEntries
    BY OpenedIsRecord DEF Init, WriteEntries, Active, Write, Opened
<1>4. AnswersAreTrue
    BY DEF Init, AnswersAreTrue
<1>5. Locals
    BY DEF Init, Locals
<1>6. QED
    BY <1>1, <1>2, <1>3, <1>4, <1>5 DEF IInv

-----------------------------------------------------------------------------
(* Saves. *)

\* A save that wins extends the row: it adds the task's entry or sets the
\* level, keeps the rest, and moves one version on.
LEMMA WinningSave ==
    ASSUME IInv, NEW t \in Task, Save(t), SaveWins(t)
    PROVE  /\ row # Gone /\ row \in Record
           /\ row' \in Record
           /\ row' # Gone
           /\ row'.version = row.version + 1
           /\ row'.values = IF t \in Updater THEN row.values \cup {This(t)} ELSE row.values
           /\ row'.level = IF t \in Updater THEN row.level ELSE This(t)
<1>1. row # Gone /\ row \in Record /\ record[Holds[t]] = row
    BY SessionWritesConstants DEF IInv, TypeOK, SaveWins, Snapshots, Past
<1>2. This(t) \in Write
    BY ThisIsWrite DEF IInv, Save, WriteEntries, Active
<1>3. row' = Changed(t, row)
    BY <1>1 DEF Save
<1>4. row' \in Record
    BY <1>1, <1>2, <1>3 DEF Changed, Record
<1>5. QED
    BY <1>1, <1>3, <1>4, SessionWritesConstants DEF Record, Changed

LEMMA SaveKeepsType ==
    ASSUME IInv, NEW t \in Task, Save(t)
    PROVE  TypeOK' /\ Locals'
<1>1. row' \in Record \cup {Gone}
    BY WinningSave DEF IInv, TypeOK, Save
<1>2. attempt' \in [Task -> 0..SaveAttempts]
    BY SessionWritesConstants DEF IInv, TypeOK, Save, Locals
<1>3. SaveWins(t) \in BOOLEAN
    BY DEF SaveWins
<1>4. saved' \in [Task -> BOOLEAN]
    BY <1>3 DEF IInv, TypeOK, Save
<1>5. pc' \in [Task -> {"ready", "save", "get", "adopt", "cancelled"}]
    BY DEF IInv, TypeOK, Save
<1>6. TypeOK'
    BY <1>1, <1>2, <1>4, <1>5 DEF IInv, TypeOK, Save
<1>7. \A u \in Task \ {t} : pc'[u] = pc[u] /\ attempt'[u] = attempt[u] /\ saved'[u] = saved[u]
    BY DEF IInv, TypeOK, Save
<1>8. pc'[t] = "get"
    BY DEF IInv, TypeOK, Save
<1>9. Locals'
    BY <1>7, <1>8 DEF IInv, Locals
<1>10. QED
    BY <1>6, <1>9

LEMMA SaveKeepsSnapshots ==
    ASSUME IInv, NEW t \in Task, Save(t)
    PROVE  Snapshots'
<1> SUFFICES ASSUME row' # Gone
             PROVE  /\ \A o \in Object : Past(record[o])'
                    /\ \A u \in Task : fresh'[u] # Gone => Past(fresh[u])'
    BY DEF Snapshots
<1>1. CASE ~SaveWins(t)
    BY <1>1 DEF Save, IInv, Snapshots, Past
<1>2. CASE SaveWins(t)
    <2>1. row # Gone /\ row \in Record /\ row'.version = row.version + 1
        BY <1>2, WinningSave
    <2>2. ASSUME NEW r \in Record, Past(r)
          PROVE  r.version <= row'.version /\ r.version # row'.version
        BY <2>1, <2>2 DEF Past, Record
    <2>3. QED
        BY <2>1, <2>2 DEF Save, IInv, TypeOK, Snapshots, Past
<1>3. QED
    BY <1>1, <1>2

LEMMA SaveKeepsEntries ==
    ASSUME IInv, NEW t \in Task, Save(t)
    PROVE  WriteEntries' /\ AnswersAreTrue'
<1>1. pc[t] = "save" /\ written[t] > 0 /\ ~saved[t] /\ written' = written /\ outcome' = outcome
    BY DEF Save, IInv, WriteEntries, Active, Locals
<1>2. This(t) \in Write /\ This(t)[1] = t /\ This(t)[2] = written[t]
    BY <1>1, ThisIsWrite DEF IInv
<1>3. \A u \in Task : Active(u)' <=> Active(u)
    BY <1>1 DEF Save, Active, IInv, TypeOK
<1>4. \A w \in Write : w[1] \in Task /\ w[2] \in Nat /\ w = <<w[1], w[2]>>
    BY SessionWritesConstants DEF Write
<1>5. /\ \A u \in Task : Active(u)' => written'[u] > 0
      /\ \A w \in Write : w[2] > written'[w[1]] \/ (w[2] = written'[w[1]] /\ Active(w[1])')
             => outcome'[w] = "none"
    BY <1>1, <1>3, <1>4 DEF IInv, WriteEntries
<1>6. saved' = [saved EXCEPT ![t] = SaveWins(t)]
    BY DEF Save
<1>7. CASE ~SaveWins(t)
    <2>1. row' = row /\ \A u \in Task : saved'[u] <=> saved[u]
        BY <1>1, <1>6, <1>7 DEF Save, IInv, TypeOK
    <2>2. QED
        BY <1>1, <1>3, <1>4, <1>5, <2>1 DEF IInv, WriteEntries, AnswersAreTrue
<1>8. CASE SaveWins(t)
    <2>1. /\ row # Gone
          /\ row'.values = IF t \in Updater THEN row.values \cup {This(t)} ELSE row.values
        BY <1>8, WinningSave
    <2>2. saved'[t] /\ \A u \in Task \ {t} : saved'[u] <=> saved[u]
        BY <1>6, <1>8 DEF IInv, TypeOK
    <2>3. ASSUME NEW w \in Write, w[1] \in Updater
          PROVE  /\ w[2] > written[w[1]] => w \notin row'.values
                 /\ w[2] = written[w[1]] /\ Active(w[1]) => (w \in row'.values <=> saved'[w[1]])
                 /\ outcome[w] = "acked" => w \in row'.values
                 /\ outcome[w] = "lost" => w \notin row'.values
        <3>1. w = This(t) <=> w[1] = t /\ w[2] = written[t]
            BY <1>4 DEF This
        <3>2. /\ w[2] > written[w[1]] => w \notin row.values
              /\ w[2] = written[w[1]] /\ Active(w[1]) => (w \in row.values <=> saved[w[1]])
              /\ outcome[w] = "acked" => w \in row.values
              /\ outcome[w] = "lost" => w \notin row.values
            BY <2>1, <2>3 DEF IInv, WriteEntries, AnswersAreTrue
        <3>3. outcome[This(t)] = "none"
            BY <1>1, <1>2 DEF IInv, WriteEntries, Active
        <3>4. written[t] \in Nat
            BY DEF IInv, TypeOK
        <3>5. CASE w = This(t)
            BY <3>1, <3>2, <3>3, <3>4, <3>5, <2>1, <2>2, <2>3
        <3>6. CASE w # This(t)
            BY <3>1, <3>2, <3>6, <2>1, <2>2, <1>4
        <3>7. QED
            BY <3>5, <3>6
    <2>4. QED
        BY <1>1, <1>3, <1>4, <1>5, <2>3 DEF WriteEntries, AnswersAreTrue
<1>9. QED
    BY <1>7, <1>8

-----------------------------------------------------------------------------
(* The other steps. *)

\* Snapshots survive a step that leaves the row and only copies it, or a
\* snapshot of it, into fresh and record.
LEMMA CopyKeepsSnapshots ==
    ASSUME IInv, row' = row,
           \A o \in Object : record'[o] = record[o] \/ \E t \in Task : fresh[t] # Gone /\ record'[o] = fresh[t],
           \A t \in Task : fresh'[t] \in {fresh[t], row, Gone}
    PROVE  Snapshots'
<1> SUFFICES ASSUME row # Gone
             PROVE  /\ \A o \in Object : Past(record[o])'
                    /\ \A u \in Task : fresh'[u] # Gone => Past(fresh[u])'
    BY DEF Snapshots
<1>1. /\ \A o \in Object : Past(record[o])
      /\ \A u \in Task : fresh[u] # Gone => Past(fresh[u])
    BY DEF IInv, Snapshots
<1>2. Past(row)
    BY DEF IInv, TypeOK, Record, Past
<1>3. ASSUME NEW o \in Object
      PROVE  Past(record[o])'
    BY <1>1 DEF Past
<1>4. ASSUME NEW u \in Task, fresh'[u] # Gone
      PROVE  Past(fresh[u])'
    BY <1>1, <1>2, <1>4 DEF Past
<1>5. QED
    BY <1>3, <1>4

LEMMA BeginStep ==
    ASSUME IInv, NEW t \in Task, Begin(t)
    PROVE  IInv'
<1>1. TypeOK' /\ Locals'
    <2>1. record[Holds[t]].version \in Nat
        BY SessionWritesConstants DEF IInv, TypeOK, Record
    <2>2. written[t] + 1 \in 0..MaxWrites
        BY SessionWritesConstants DEF IInv, TypeOK, Begin
    <2>3. TypeOK'
        BY <2>1, <2>2 DEF IInv, TypeOK, Begin
    <2>4. Locals'
        BY SessionWritesConstants DEF IInv, TypeOK, Locals, Begin
    <2>5. QED
        BY <2>3, <2>4
<1>2. Snapshots'
    BY CopyKeepsSnapshots DEF Begin
<1>3. WriteEntries' /\ AnswersAreTrue'
    <2>1. written' = [written EXCEPT ![t] = written[t] + 1] /\ pc' = [pc EXCEPT ![t] = "save"]
        BY DEF Begin
    <2>2. ~saved[t] /\ written[t] \in Nat
        BY DEF Begin, IInv, TypeOK, Locals
    <2>3. \A w \in Write : w[1] \in Task /\ w[2] \in Nat
        BY SessionWritesConstants DEF Write
    <2>4. \A u \in Task \ {t} : written'[u] = written[u] /\ (Active(u)' <=> Active(u))
        BY <2>1 DEF Active, IInv, TypeOK
    <2>5. written'[t] = written[t] + 1 /\ Active(t)'
        BY <2>1 DEF Active, IInv, TypeOK
    <2>6. QED
        BY <2>2, <2>3, <2>4, <2>5 DEF Begin, IInv, WriteEntries, AnswersAreTrue
<1>4. QED
    BY <1>1, <1>2, <1>3 DEF IInv

LEMMA GetStep ==
    ASSUME IInv, NEW t \in Task, Get(t)
    PROVE  IInv'
<1>1. TypeOK' /\ Locals'
    BY DEF IInv, TypeOK, Locals, Get
<1>2. Snapshots'
    BY CopyKeepsSnapshots DEF Get, IInv, TypeOK
<1>3. \A u \in Task : Active(u)' <=> Active(u)
    BY DEF Get, Active, IInv, TypeOK
<1>4. WriteEntries' /\ AnswersAreTrue'
    BY <1>3, SessionWritesConstants DEF Get, IInv, WriteEntries, AnswersAreTrue, Write
<1>5. QED
    BY <1>1, <1>2, <1>4 DEF IInv

\* A task leaves its write: answered as `how`, or cancelled without an answer.
LEMMA LeaveKeepsEntries ==
    ASSUME IInv, NEW t \in Task, Active(t), NEW to \in {"ready", "cancelled"}, Leave(t, to),
           row' = row, written' = written,
           \/ outcome' = outcome
           \/ outcome' = [outcome EXCEPT ![This(t)] = "expired"]
           \/ saved[t] /\ outcome' = [outcome EXCEPT ![This(t)] = "acked"]
           \/ ~saved[t] /\ outcome' = [outcome EXCEPT ![This(t)] = "lost"]
    PROVE  WriteEntries' /\ AnswersAreTrue'
<1>1. This(t) \in Write /\ This(t)[1] = t /\ This(t)[2] = written[t] /\ written[t] \in Nat
    BY ThisIsWrite DEF IInv, WriteEntries, TypeOK
<1>2. ~Active(t)' /\ \A u \in Task \ {t} : (Active(u)' <=> Active(u)) /\ saved'[u] = saved[u]
    BY DEF Leave, Active, IInv, TypeOK
<1>3. \A w \in Write : w[1] \in Task /\ w[2] \in Nat /\ w = <<w[1], w[2]>>
    BY SessionWritesConstants DEF Write
<1>4. \A w \in Write : w # This(t) => outcome'[w] = outcome[w]
    BY DEF IInv, TypeOK
<1>5. \A w \in Write : w = This(t) <=> w[1] = t /\ w[2] = written[t]
    BY <1>3 DEF This
<1>6. /\ \A u \in Task : Active(u)' => written'[u] > 0
      /\ \A w \in Write : w[2] > written'[w[1]] \/ (w[2] = written'[w[1]] /\ Active(w[1])')
             => outcome'[w] = "none"
    BY <1>1, <1>2, <1>3, <1>4, <1>5 DEF IInv, WriteEntries
<1>7. row' # Gone => \A w \in Write : w[1] \in Updater =>
          /\ w[2] > written'[w[1]] => w \notin row'.values
          /\ w[2] = written'[w[1]] /\ Active(w[1])' => (w \in row'.values <=> saved'[w[1]])
    BY <1>2, <1>3 DEF IInv, WriteEntries
<1>8. AnswersAreTrue'
    <2>1. row # Gone /\ t \in Updater => (This(t) \in row.values <=> saved[t])
        BY <1>1 DEF IInv, WriteEntries
    <2>2. outcome'[This(t)] = "acked" => outcome[This(t)] = "acked" \/ saved[t]
        BY <1>1 DEF IInv, TypeOK
    <2>3. outcome'[This(t)] = "lost" => outcome[This(t)] = "lost" \/ ~saved[t]
        BY <1>1 DEF IInv, TypeOK
    <2>4. QED
        BY <1>1, <1>4, <2>1, <2>2, <2>3 DEF IInv, AnswersAreTrue
<1>9. QED
    BY <1>6, <1>7, <1>8 DEF WriteEntries

LEMMA LeaveKeepsType ==
    ASSUME IInv, NEW t \in Task, NEW to \in {"ready", "cancelled"}, Leave(t, to),
           row' = row, written' = written, record' \in [Object -> Record],
           outcome' \in [Write -> {"none", "acked", "lost", "expired"}]
    PROVE  TypeOK' /\ Locals'
BY SessionWritesConstants DEF IInv, TypeOK, Locals, Leave

LEMMA ExpiredStep ==
    ASSUME IInv, NEW t \in Task, Expired(t)
    PROVE  IInv'
<1>1. Active(t) /\ Leave(t, "ready") /\ outcome' = [outcome EXCEPT ![This(t)] = "expired"]
      /\ UNCHANGED <<row, record, written>>
    BY DEF Expired, Answer, Active
<1>2. TypeOK' /\ Locals'
    BY <1>1, LeaveKeepsType DEF IInv, TypeOK
<1>3. Snapshots'
    BY <1>1, CopyKeepsSnapshots DEF Leave, IInv, TypeOK
<1>4. WriteEntries' /\ AnswersAreTrue'
    BY <1>1, LeaveKeepsEntries
<1>5. QED
    BY <1>2, <1>3, <1>4 DEF IInv

LEMMA CancelStep ==
    ASSUME IInv, NEW t \in Task, Cancel(t)
    PROVE  IInv'
<1>1. Active(t) /\ Leave(t, "cancelled") /\ UNCHANGED <<row, record, written, outcome>>
    BY DEF Cancel, Active
<1>2. TypeOK' /\ Locals'
    BY <1>1, LeaveKeepsType DEF IInv, TypeOK
<1>3. Snapshots'
    BY <1>1, CopyKeepsSnapshots DEF Leave, IInv, TypeOK
<1>4. WriteEntries' /\ AnswersAreTrue'
    BY <1>1, LeaveKeepsEntries
<1>5. QED
    BY <1>2, <1>3, <1>4 DEF IInv

LEMMA AdoptStep ==
    ASSUME IInv, NEW t \in Task, Adopt(t)
    PROVE  IInv'
<1>1. /\ pc[t] = "adopt" /\ fresh[t] # Gone /\ fresh[t] \in Record /\ Active(t)
      /\ record' = [record EXCEPT ![Holds[t]] = fresh[t]]
      /\ row' = row /\ written' = written
    BY DEF Adopt, AdoptAs, Retry, IInv, TypeOK, Active
<1>2. record' \in [Object -> Record]
    BY <1>1 DEF IInv, TypeOK
<1>3. \A o \in Object : record'[o] = record[o] \/ record'[o] = fresh[t]
    BY <1>1 DEF IInv, TypeOK
<1>4. CASE Leave(t, "ready") /\ \/ saved[t] /\ outcome' = [outcome EXCEPT ![This(t)] = "acked"]
                                \/ ~saved[t] /\ outcome' = [outcome EXCEPT ![This(t)] = "lost"]
    <2>1. TypeOK' /\ Locals'
        BY <1>1, <1>2, <1>4, LeaveKeepsType DEF IInv, TypeOK
    <2>2. Snapshots'
        BY <1>1, <1>3, <1>4, CopyKeepsSnapshots DEF Leave, IInv, TypeOK
    <2>3. WriteEntries' /\ AnswersAreTrue'
        BY <1>1, <1>4, LeaveKeepsEntries
    <2>4. QED
        BY <2>1, <2>2, <2>3 DEF IInv
<1>5. CASE /\ ~saved[t] /\ attempt[t] < SaveAttempts
           /\ pc' = [pc EXCEPT ![t] = "save"]
           /\ fresh' = [fresh EXCEPT ![t] = Gone]
           /\ UNCHANGED <<saved, attempt, outcome, begun>>
    <2>1. TypeOK' /\ Locals'
        BY <1>1, <1>2, <1>5 DEF IInv, TypeOK, Locals
    <2>2. Snapshots'
        BY <1>1, <1>3, <1>5, CopyKeepsSnapshots DEF IInv, TypeOK
    <2>3. \A u \in Task : Active(u)' <=> Active(u)
        BY <1>1, <1>5 DEF Active, IInv, TypeOK
    <2>4. WriteEntries' /\ AnswersAreTrue'
        BY <1>1, <1>5, <2>3, SessionWritesConstants DEF IInv, WriteEntries, AnswersAreTrue, Write
    <2>5. QED
        BY <2>1, <2>2, <2>4 DEF IInv
<1>6. QED
    BY <1>4, <1>5 DEF Adopt, AdoptAs, Retry, Answer

LEMMA VanishStep ==
    ASSUME IInv, Vanish
    PROVE  IInv'
<1>1. TypeOK' /\ Locals' /\ Snapshots' /\ AnswersAreTrue'
    BY DEF Vanish, IInv, TypeOK, Locals, Snapshots, AnswersAreTrue
<1>2. WriteEntries'
    BY SessionWritesConstants DEF Vanish, IInv, WriteEntries, Active, Write
<1>3. QED
    BY <1>1, <1>2 DEF IInv

LEMMA NextIInv == IInv /\ [Next]_vars => IInv'
<1> SUFFICES ASSUME IInv, [Next]_vars PROVE IInv'
    OBVIOUS
<1>1. ASSUME NEW t \in Task, Begin(t) PROVE IInv'
    BY <1>1, BeginStep
<1>2. ASSUME NEW t \in Task, Save(t) PROVE IInv'
    BY <1>2, SaveKeepsType, SaveKeepsSnapshots, SaveKeepsEntries DEF IInv
<1>3. ASSUME NEW t \in Task, Get(t) PROVE IInv'
    BY <1>3, GetStep
<1>4. ASSUME NEW t \in Task, Expired(t) PROVE IInv'
    BY <1>4, ExpiredStep
<1>5. ASSUME NEW t \in Task, Adopt(t) PROVE IInv'
    BY <1>5, AdoptStep
<1>6. ASSUME NEW t \in Task, Cancel(t) PROVE IInv'
    BY <1>6, CancelStep
<1>7. CASE Vanish
    BY <1>7, VanishStep
<1>8. CASE UNCHANGED vars
    BY <1>8 DEF vars, IInv, TypeOK, Locals, Snapshots, Past, WriteEntries, Active, AnswersAreTrue
<1>9. QED
    BY <1>1, <1>2, <1>3, <1>4, <1>5, <1>6, <1>7, <1>8 DEF Next, Step

-----------------------------------------------------------------------------
(* The theorems. *)

\* Every variable of update_slot and write_value keeps its type, the retry
\* count included: no write makes more than SAVE_ATTEMPTS saves.
THEOREM TypeCorrect == Spec => []TypeOK
<1>1. IInv => TypeOK
    BY DEF IInv
<1>2. QED
    BY <1>1, InitIInv, NextIInv, PTL DEF Spec

\* update() answers truly: what it acknowledged is in the row for as long as
\* the session lives, what it reported as lost is not.
THEOREM UpdatesAnswerTruly == Spec => []AnswersAreTrue
<1>1. IInv => AnswersAreTrue
    BY DEF IInv
<1>2. QED
    BY <1>1, InitIInv, NextIInv, PTL DEF Spec

\* A retry of update_slot never applies a change that an earlier attempt of it
\* had already put in the row.
THEOREM UpdatesApplyOnce == Spec => []AppliedOnce
<1>1. IInv => AppliedOnce
    <2> SUFFICES ASSUME IInv, row # Gone, NEW t \in Updater, pc[t] = "save"
                 PROVE  This(t) \notin row.values
        BY DEF AppliedOnce
    <2>1. t \in Task /\ Active(t) /\ ~saved[t] /\ written[t] > 0
        BY DEF Task, Active, IInv, Locals, WriteEntries
    <2>2. This(t) \in Write /\ This(t)[1] = t /\ This(t)[2] = written[t]
        BY <2>1, ThisIsWrite DEF IInv
    <2>3. QED
        BY <2>1, <2>2 DEF IInv, WriteEntries
<1>2. QED
    BY <1>1, InitIInv, NextIInv, PTL DEF Spec

LEMMA SavesExtend == IInv /\ [Next]_vars =>
    (row # Gone /\ row' # Gone =>
        /\ row.values \subseteq row'.values
        /\ row'.level # row.level => \E t \in Leveller : pc[t] = "save" /\ row'.level = This(t))
<1> SUFFICES ASSUME IInv, [Next]_vars, row # Gone, row' # Gone, row' # row
             PROVE  /\ row.values \subseteq row'.values
                    /\ row'.level # row.level =>
                           \E t \in Leveller : pc[t] = "save" /\ row'.level = This(t)
    OBVIOUS
<1>1. PICK t \in Task : Save(t)
    BY DEF Next, vars, Step, Begin, Get, Expired, Adopt, AdoptAs, Retry, Cancel, Vanish
<1>2. SaveWins(t)
    BY <1>1 DEF Save
<1>3. /\ row'.values = IF t \in Updater THEN row.values \cup {This(t)} ELSE row.values
      /\ row'.level = IF t \in Updater THEN row.level ELSE This(t)
    BY <1>1, <1>2, WinningSave
<1>4. QED
    BY <1>1, <1>3 DEF Save, Task

\* No save takes back what another worker's save put in the row.
THEOREM SavesNeverRevert == Spec => NothingReverted
BY InitIInv, NextIInv, SavesExtend, PTL DEF Spec, NothingReverted

-----------------------------------------------------------------------------
(* Losing every attempt takes as many rivals' writes, for a task that      *)
(* shares its Session object with no other.                                *)

\* Each failed attempt of the current write was one version of the row that
\* another write produced after the write began.
RivalsOf(t) ==
    /\ pc[t] = "save" => record[Holds[t]].version >= begun[t] + attempt[t]
    /\ pc[t] = "get" /\ ~saved[t] =>
           /\ attempt[t] > 0
           /\ record[Holds[t]].version + 1 >= begun[t] + attempt[t]
           /\ row # Gone => row.version > record[Holds[t]].version
    /\ pc[t] = "adopt" /\ ~saved[t] /\ fresh[t] # Gone =>
           fresh[t].version >= begun[t] + attempt[t]

Rivals == \A t \in Task : Alone(t) => RivalsOf(t)

LEMMA RivalsStep == IInv /\ Rivals /\ [Next]_vars => Rivals'
<1> SUFFICES ASSUME IInv, Rivals, [Next]_vars PROVE Rivals'
    OBVIOUS
<1> USE SessionWritesConstants
<1>1. /\ \A o \in Object : record[o] \in Record /\ record[o].version \in Nat
      /\ \A t \in Task : fresh[t] # Gone => fresh[t] \in Record /\ fresh[t].version \in Nat
      /\ row # Gone => row \in Record /\ row.version \in Nat
      /\ \A t \in Task : Holds[t] \in Object /\ begun[t] \in Nat /\ attempt[t] \in Nat
    BY DEF IInv, TypeOK, Record
<1>2. ASSUME NEW t \in Task, Begin(t) PROVE Rivals'
    BY <1>1, <1>2 DEF Rivals, RivalsOf, Begin, IInv, TypeOK, Locals
<1>3. ASSUME NEW t \in Task, Save(t) PROVE Rivals'
    <2>1. ASSUME NEW u \in Task, u # t
          PROVE  /\ pc'[u] = pc[u] /\ saved'[u] = saved[u] /\ attempt'[u] = attempt[u]
                 /\ record' = record /\ begun' = begun /\ fresh' = fresh
        BY <1>3, <2>1 DEF Save, IInv, TypeOK
    <2>2. row' # Gone => row # Gone /\ row'.version >= row.version
        <3>1. CASE SaveWins(t)
            <4>1. row # Gone /\ row'.version = row.version + 1
                BY <3>1, <1>3, WinningSave
            <4>2. QED
                BY <4>1, <1>1
        <3>2. CASE ~SaveWins(t)
            BY <3>2, <1>1, <1>3 DEF Save
        <3>3. QED
            BY <3>1, <3>2
    <2>3. row' # Gone => row'.version \in Nat
        BY <1>1, <1>3, SaveKeepsType DEF TypeOK, Record
    <2>4. pc[t] = "save" /\ pc'[t] = "get" /\ attempt'[t] = attempt[t] + 1
        BY <1>3 DEF Save, IInv, TypeOK
    <2>5. ~saved'[t] /\ row' # Gone => row'.version > record[Holds[t]].version
        <3>1. ~saved'[t] => ~SaveWins(t)
            BY <1>3 DEF Save, IInv, TypeOK
        <3>2. QED
            BY <3>1, <1>1, <1>3 DEF Save, SaveWins, IInv, Snapshots, Past
    <2>6. record' = record /\ begun' = begun /\ fresh' = fresh
        BY <1>3 DEF Save
    <2>7. ASSUME NEW u \in Task, u # t, Alone(u)
          PROVE  RivalsOf(u)'
        BY <1>1, <2>1, <2>2, <2>3, <2>7 DEF Rivals, RivalsOf
    <2>8. Alone(t) => record[Holds[t]].version >= begun[t] + attempt[t]
        BY <2>4 DEF Rivals, RivalsOf
    <2>9. Alone(t) => RivalsOf(t)'
        BY <1>1, <2>4, <2>5, <2>6, <2>8 DEF RivalsOf
    <2>10. QED
        BY <2>7, <2>9 DEF Rivals
<1>4. ASSUME NEW t \in Task, Get(t) PROVE Rivals'
    BY <1>1, <1>4 DEF Rivals, RivalsOf, Get, IInv, TypeOK
<1>5. ASSUME NEW t \in Task, Expired(t) PROVE Rivals'
    BY <1>1, <1>5 DEF Rivals, RivalsOf, Expired, Answer, Leave, IInv, TypeOK
<1>6. ASSUME NEW t \in Task, Cancel(t) PROVE Rivals'
    BY <1>1, <1>6 DEF Rivals, RivalsOf, Cancel, Leave, IInv, TypeOK
<1>7. ASSUME NEW t \in Task, Adopt(t) PROVE Rivals'
    <2>1. ASSUME NEW u \in Task, u # t, Alone(u)
          PROVE  /\ pc'[u] = pc[u] /\ saved'[u] = saved[u] /\ attempt'[u] = attempt[u]
                 /\ begun'[u] = begun[u] /\ fresh'[u] = fresh[u]
                 /\ record'[Holds[u]] = record[Holds[u]]
        BY <1>1, <1>7, <2>1 DEF Adopt, AdoptAs, Retry, Answer, Leave, IInv, TypeOK, Alone
    <2>2. pc'[t] = "save" => /\ record'[Holds[t]] = fresh[t] /\ ~saved[t] /\ fresh[t] # Gone
                             /\ pc[t] = "adopt" /\ begun'[t] = begun[t] /\ attempt'[t] = attempt[t]
        BY <1>1, <1>7 DEF Adopt, AdoptAs, Retry, Answer, Leave, IInv, TypeOK
    <2>3. pc'[t] \in {"save", "ready"} /\ row' = row
        BY <1>7 DEF Adopt, AdoptAs, Retry, Answer, Leave, IInv, TypeOK
    <2>4. Alone(t) /\ pc'[t] = "save" => record'[Holds[t]].version >= begun'[t] + attempt'[t]
        BY <2>2 DEF Rivals, RivalsOf
    <2>5. ASSUME NEW u \in Task, u # t, Alone(u)
          PROVE  RivalsOf(u)'
        BY <2>1, <2>3, <2>5 DEF Rivals, RivalsOf
    <2>6. Alone(t) => RivalsOf(t)'
        BY <2>3, <2>4 DEF RivalsOf
    <2>7. QED
        BY <2>5, <2>6 DEF Rivals
<1>8. CASE Vanish
    BY <1>8 DEF Rivals, RivalsOf, Vanish
<1>9. CASE UNCHANGED vars
    BY <1>9 DEF vars, Rivals, RivalsOf
<1>10. QED
    BY <1>2, <1>3, <1>4, <1>5, <1>6, <1>7, <1>8, <1>9 DEF Next, Step

LEMMA LossStep == IInv /\ Rivals /\ [Next]_vars =>
    \A t \in Task :
        Alone(t) /\ written[t] > 0 /\ outcome'[This(t)] = "lost" /\ outcome[This(t)] # "lost"
        => fresh[t].version >= begun[t] + SaveAttempts
<1> SUFFICES ASSUME IInv, Rivals, [Next]_vars, NEW t \in Task, Alone(t), written[t] > 0,
                    outcome'[This(t)] = "lost", outcome[This(t)] # "lost"
             PROVE  fresh[t].version >= begun[t] + SaveAttempts
    OBVIOUS
<1>1. This(t) \in Write
    BY ThisIsWrite DEF IInv
<1>2. PICK u \in Task : Expired(u) \/ Adopt(u)
    BY DEF Next, vars, Step, Begin, Save, Get, Cancel, Vanish
<1>3. CASE u = t /\ Adopt(t) /\ ~saved[t] /\ attempt[t] = SaveAttempts
    BY <1>3 DEF Adopt, AdoptAs, Retry, Rivals, RivalsOf
<1>4. This(u) = This(t) => u = t
    BY DEF This
<1>5. \/ outcome' = outcome
      \/ \E how \in {"expired", "acked"} : outcome' = [outcome EXCEPT ![This(u)] = how]
      \/ Adopt(u) /\ ~saved[u] /\ attempt[u] = SaveAttempts /\ outcome' = [outcome EXCEPT ![This(u)] = "lost"]
    <2>1. attempt[u] < SaveAttempts \/ attempt[u] = SaveAttempts
        BY SessionWritesConstants DEF IInv, TypeOK
    <2>2. QED
        BY <1>2, <2>1 DEF Expired, Adopt, AdoptAs, Retry, Answer
<1>6. QED
    BY <1>1, <1>3, <1>4, <1>5 DEF IInv, TypeOK

\* "kept losing writes to another worker" is raised only after SAVE_ATTEMPTS
\* other writes landed, for a task that does not share its Session object.
THEOREM LossesTakeRivals == Spec => LossesAreReal
<1>1. Init => Rivals
    BY DEF Init, Rivals, RivalsOf
<1>2. IInv /\ Rivals /\ [Next]_vars => Rivals'
    BY RivalsStep
<1>3. QED
    BY <1>1, <1>2, InitIInv, NextIInv, LossStep, PTL DEF Spec, LossesAreReal
=============================================================================
