---------------------------- MODULE HttpSession -----------------------------
(***************************************************************************)
(* A legacy revision over Streamable HTTP: the client of client/http.py    *)
(* and the endpoint of server/http.py, which share nothing but the id in   *)
(* Mcp-Session-Id.  Several tasks of one program use one Client at a time. *)
(* The endpoint answers 404 to an id it no longer holds, before it runs    *)
(* anything; the client then shakes hands again and repeats the request    *)
(* once.  A repeat may itself lose its session, so what a task still has   *)
(* to do is a stack, todo[t], whose head is the exchange in progress.      *)
(* Abstracted: bodies, TTLs (a session is lost at any moment, MaxLosses    *)
(* times), the owner of a session (the caller is who it was), and the 401  *)
(* of an OAuth client, which http_request retries below an exchange.       *)
(***************************************************************************)
EXTENDS Naturals, Sequences, SequencesExt

CONSTANTS
    Caller,      \* the tasks that use the Client
    Level,       \* log severities
    MaxCalls,    \* bound: calls, of all tasks
    MaxLosses,   \* bound: sessions lost
    MaxBreaks,   \* bound: exchanges cut by the network
    None

VARIABLES
    session_id,  \* Client.session_id
    log_level,   \* Client.log_level
    todo,        \* todo[t]: the exchanges t still has to make, innermost first
    outcome,     \* outcome[t]: how t's last call ended
    sessions,    \* sessions[s]: Lost, or the log level in the record
    calls, losses, breaks,
    served,      \* served[t]: times a handler ran for t's call
    disturbed    \* history: the network cut an exchange, or the application
                 \* changed the level while another task used the Client

client == <<session_id, log_level, outcome, todo>>
bounds == <<calls, losses, breaks>>
vars == <<client, sessions, bounds, served, disturbed>>

Lost == "lost"
Sid == DOMAIN sessions
Knows(s) == s \in Sid /\ sessions[s] # Lost

(***************************************************************************)
(* An exchange: the operation; the level it carries; whether it is the     *)
(* repeat; the id in its header; where it is (unsent, on its way, past     *)
(* load_session, answered); the status of the answer and the id it mints.  *)
(***************************************************************************)
Exchange(op, level) ==
    [op |-> op, level |-> level, again |-> FALSE, header |-> None,
     at |-> "unsent", status |-> None, minted |-> None]

Sent(x, header) == [x EXCEPT !.at = "sent", !.header = header]
Answered(x, status) == [x EXCEPT !.at = "answered", !.status = status]

Idle(t) == todo[t] = <<>>
At(t, where) == ~Idle(t) /\ Head(todo[t]).at = where
Put(t, x) == todo' = [todo EXCEPT ![t] = <<x>> \o Tail(@)]

Init ==
    /\ log_level \in Level \cup {None}
    /\ session_id = 1
    /\ sessions = <<log_level>>
    /\ todo = [t \in Caller |-> <<>>]
    /\ outcome = [t \in Caller |-> None]
    /\ calls = 0 /\ losses = 0 /\ breaks = 0
    /\ served = [t \in Caller |-> 0]
    /\ disturbed = FALSE

(***************************************************************************)
(* The application makes a call, or sets the log level.                    *)
(***************************************************************************)
Crowded(t) == \E u \in Caller \ {t} : ~Idle(u)
SomeoneSets(t) == \E u \in Caller \ {t} : ~Idle(u) /\ Last(todo[u]).op = "set"

Start(t) ==
    /\ Idle(t)
    /\ calls < MaxCalls
    /\ \/ /\ todo' = [todo EXCEPT ![t] = <<Exchange("call", None)>>]
          /\ disturbed' = (disturbed \/ SomeoneSets(t))
       \/ /\ \E l \in Level : todo' = [todo EXCEPT ![t] = <<Exchange("set", l)>>]
          /\ disturbed' = (disturbed \/ Crowded(t))
    /\ calls' = calls + 1
    /\ served' = [served EXCEPT ![t] = 0]
    /\ outcome' = [outcome EXCEPT ![t] = None]
    /\ UNCHANGED <<session_id, log_level, sessions, losses, breaks>>

(***************************************************************************)
(* headers() names the session the Client holds as the request goes out.   *)
(* The last step of initialize reads log_level only when it comes to it.   *)
(***************************************************************************)
Send(t) ==
    /\ At(t, "unsent")
    /\ LET x == Head(todo[t]) IN
       /\ x.op = "restore" => log_level # None
       /\ Put(t, Sent([x EXCEPT !.level = IF x.op = "restore" THEN log_level ELSE @], session_id))
    /\ UNCHANGED <<session_id, log_level, outcome, sessions, bounds, served, disturbed>>

SkipRestore(t) ==
    /\ At(t, "unsent")
    /\ Head(todo[t]).op = "restore"
    /\ log_level = None
    /\ todo' = [todo EXCEPT ![t] = Tail(@)]
    /\ UNCHANGED <<session_id, log_level, outcome, sessions, bounds, served, disturbed>>

(***************************************************************************)
(* The endpoint.  load_session decides first; the handler runs later, and  *)
(* the record may be gone by then.                                         *)
(***************************************************************************)
load_session(t) ==
    /\ At(t, "sent")
    /\ LET x == Head(todo[t]) IN
       Put(t, IF x.header = None \/ Knows(x.header)
              THEN [x EXCEPT !.at = "loaded"]
              ELSE Answered(x, "gone"))
    /\ UNCHANGED <<session_id, log_level, outcome, sessions, bounds, served, disturbed>>

\* A handshake without a session mints one.
open_session(t) ==
    /\ Head(todo[t]).op = "initialize"
    /\ Head(todo[t]).header = None
    /\ sessions' = Append(sessions, None)
    /\ Put(t, [Answered(Head(todo[t]), "ok") EXCEPT !.minted = Len(sessions')])

\* logging/setLevel writes the record, and is refused without one.
set_log_level(t) ==
    LET x == Head(todo[t]) IN
    /\ x.op \in {"set", "restore"}
    /\ sessions' = IF Knows(x.header) THEN [sessions EXCEPT ![x.header] = x.level] ELSE sessions
    /\ Put(t, Answered(x, IF Knows(x.header) THEN "ok" ELSE "refused"))

\* (Mutant) The session is looked at again once the handler has run.
ServeThenCheck(t) ==
    LET x == Head(todo[t]) IN
    /\ x.op \in {"call", "initialized"}
    /\ Put(t, Answered(x, IF x.header = None \/ Knows(x.header) THEN "ok" ELSE "gone"))
    /\ UNCHANGED sessions

\* Anything else is served with or without a session.
Serve(t) ==
    /\ \/ Head(todo[t]).op \in {"call", "initialized"}
       \/ Head(todo[t]).op = "initialize" /\ Head(todo[t]).header # None
    /\ Put(t, Answered(Head(todo[t]), "ok"))
    /\ UNCHANGED sessions

Run(t) ==
    /\ At(t, "loaded")
    /\ open_session(t) \/ set_log_level(t) \/ Serve(t)
    /\ served' = IF Len(todo[t]) = 1 THEN [served EXCEPT ![t] = @ + 1] ELSE served
    /\ UNCHANGED <<session_id, log_level, outcome, bounds, disturbed>>

(***************************************************************************)
(* Back in the client.  lost_session asks for the id the Client holds now, *)
(* which may not be the one the request named.                             *)
(***************************************************************************)
\* (Mutant) Only calls are watched for a lost session.
lost_sessionOfCalls(x) == x.status = "gone" /\ session_id # None /\ x.op = "call"

lost_session(x) == x.status = "gone" /\ session_id # None

\* (Mutant) The handshake forgets the log level.
HandshakeOnly ==
    <<Sent(Exchange("initialize", None), None), Exchange("initialized", None)>>

\* No other task runs between reopen's assignment and the first request of
\* initialize, so that request never names a session.
Handshake ==
    <<Sent(Exchange("initialize", None), None), Exchange("initialized", None), Exchange("restore", None)>>

reopen(t) ==
    /\ At(t, "answered")
    /\ LET x == Head(todo[t]) IN
       /\ ~x.again
       /\ lost_session(x)
       /\ session_id' = None
       /\ todo' = [todo EXCEPT ![t] =
              Handshake \o <<[Exchange(x.op, x.level) EXCEPT !.again = TRUE]>> \o Tail(@)]
    /\ UNCHANGED <<log_level, outcome, sessions, bounds, served, disturbed>>

\* A notification's answer is not looked at; any other error is raised
\* through everything the task was doing.
Fails(x) == x.op # "initialized" /\ x.status # "ok"

Receive(t) ==
    /\ At(t, "answered")
    /\ LET x == Head(todo[t]) IN
       /\ x.again \/ ~lost_session(x)
       /\ session_id' = IF x.minted = None THEN session_id ELSE x.minted
       /\ log_level' = IF x.op \in {"set", "restore"} /\ ~Fails(x) THEN x.level ELSE log_level
       /\ todo' = [todo EXCEPT ![t] = IF Fails(x) THEN <<>> ELSE Tail(@)]
       /\ outcome' = IF todo'[t] # <<>> THEN outcome
                     ELSE [outcome EXCEPT ![t] =
                             IF x.status = "gone" /\ ~x.again THEN "unrepaired" ELSE x.status]
    /\ UNCHANGED <<sessions, bounds, served, disturbed>>

(***************************************************************************)
(* The session ends at the server: it expired or its process restarted.    *)
(* The network loses a request, or an answer.                              *)
(***************************************************************************)
Lose(s) ==
    /\ Knows(s)
    /\ losses < MaxLosses
    /\ losses' = losses + 1
    /\ sessions' = [sessions EXCEPT ![s] = Lost]
    /\ UNCHANGED <<client, calls, breaks, served, disturbed>>

Break(t) ==
    /\ At(t, "sent") \/ At(t, "answered")
    /\ breaks < MaxBreaks
    /\ breaks' = breaks + 1
    /\ disturbed' = TRUE
    /\ todo' = [todo EXCEPT ![t] = <<>>]
    /\ outcome' = [outcome EXCEPT ![t] = "broken"]
    /\ UNCHANGED <<session_id, log_level, sessions, calls, losses, served>>

Task(t) == Send(t) \/ SkipRestore(t) \/ load_session(t) \/ Run(t) \/ reopen(t) \/ Receive(t)

Next ==
    \/ \E t \in Caller : Start(t) \/ Task(t) \/ Break(t)
    \/ \E s \in Sid : Lose(s)

Spec == Init /\ [][Next]_vars

\* Tasks are scheduled, requests travel and the endpoint answers.
FairSpec == Spec /\ \A t \in Caller : WF_vars(Task(t))

(***************************************************************************)
(* Properties                                                              *)
(***************************************************************************)
SidOrNone == Sid \cup {None}

TypeOK ==
    /\ sessions \in Seq(Level \cup {None, Lost})
    /\ session_id \in SidOrNone
    /\ log_level \in Level \cup {None}
    /\ \A t \in Caller : \A i \in DOMAIN todo[t] :
          /\ todo[t][i].header \in SidOrNone
          /\ todo[t][i].minted \in SidOrNone
          /\ todo[t][i].op \in {"set", "restore"} /\ todo[t][i].at # "unsent"
                => todo[t][i].level \in Level
    /\ \A t \in Caller : outcome[t] \in {None, "ok", "refused", "gone", "unrepaired", "broken"}
    /\ calls \in 0 .. MaxCalls

\* A 404 is answered before anything runs, so a call that is repeated on a
\* fresh session was never served on the old one: its handler runs once.
ServedOnce == \A t \in Caller : served[t] <= 1

\* However many tasks lose the session at once and shake hands again, when
\* all are done the Client names a session, and a session the endpoint still
\* holds has the log level the Client restores.
SettledClientHasItsSession ==
    (\A t \in Caller : Idle(t)) /\ ~disturbed =>
        /\ session_id # None
        /\ Knows(session_id) => sessions[session_id] = log_level

\* Only while another task uses the Client can a 404 reach the application
\* without a repeat.
LonersAreRepaired ==
    [][\A t \in Caller :
         outcome'[t] = "unrepaired" /\ outcome[t] # "unrepaired" => Crowded(t) \/ disturbed]_vars

\* Each lost session costs a task a bounded number of exchanges: calls end.
EveryCallEnds == \A t \in Caller : ~Idle(t) ~> Idle(t)

\* docs/guide/sessions.md: a request naming a session the store no longer
\* holds "is answered with 404 ... Client handles that by calling initialize
\* again and repeating the request once".
LostRequestsAreRepeated == \A t \in Caller : outcome[t] # "unrepaired"
=============================================================================
