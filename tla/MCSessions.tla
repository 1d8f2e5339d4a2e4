----------------------------- MODULE MCSessions -----------------------------
(* What a session carries over from one request to the next, at both ends,  *)
(* in one run; `part` is the one that takes the steps.  SessionWrites: u1   *)
(* and l1 are tasks of one handler and share its Session object, u2 runs on *)
(* another worker and can lose both its attempts to them.  HttpSession: two *)
(* tasks share a Client whose session is lost twice while the network fails *)
(* once.  NotificationStreams: two changes, and a connection that breaks    *)
(* before and after a resumption.                                           *)
EXTENDS SessionWrites, TLC

CONSTANTS u1, u2, l1, a, b, Caller, Level, MaxCalls, MaxLosses, MaxBreaks, None,
    Uri, MaxEvents, Message, MaxCuts

VARIABLES part,
    session_id, log_level, todo, ended, sessions, calls, losses, breaks, served, disturbed,
    kind, log, session, subscribed, n_pc, cursor, accepted, batch, wire, got, last, outbox,
    o_cursor, posts, cuts, due

C == INSTANCE HttpSession WITH outcome <- ended
N == INSTANCE NotificationStreams WITH pc <- n_pc

\* A level is neither the absence of one nor what marks a session as lost, no
\* session is numbered None, and no call ends so.
ASSUME SessionsConstants ==
    /\ None \notin Nat /\ None \notin Level /\ C!Lost \notin Level \cup {None}
    /\ None # "unrepaired"
    /\ MaxCalls \in Nat

client == <<session_id, log_level, todo, ended, sessions, calls, losses, breaks, served, disturbed>>
stream == <<kind, log, session, subscribed, n_pc, cursor, accepted, batch, wire, got, last, outbox,
            o_cursor, posts, cuts, due>>
SharedHolds == (u1 :> a) @@ (u2 :> b) @@ (l1 :> a)

MCInit ==
    /\ part \in {"writes", "client", "stream"}
    /\ Init /\ C!Init /\ N!Init
    /\ part # "client" => log_level = None
    /\ part # "stream" => kind = "listen"
MCNext ==
    /\ UNCHANGED part
    /\ \/ part = "writes" /\ Next /\ UNCHANGED <<client, stream>>
       \/ part = "client" /\ C!Next /\ UNCHANGED <<vars, stream>>
       \/ part = "stream" /\ N!Next /\ UNCHANGED <<vars, client>>

\* No action that is treated fairly is enabled in a part that rests.
MCSpec ==
    /\ MCInit /\ [][MCNext]_<<part, vars, client, stream>>
    /\ \A t \in Task : WF_vars(Step(t))
    /\ \A t \in Caller : WF_client(C!Task(t))
    /\ N!Fairness

(* What the other parts promise. *)
ServedOnce == C!ServedOnce
SettledClientHasItsSession == C!SettledClientHasItsSession
InOrderOnce == N!InOrderOnce
NothingMissed == N!NothingMissed
StreamsDeliver == N!StreamsDeliver

\* Each lost session costs a task a bounded number of exchanges, so calls end,
\* and only while another task uses the Client does one end unrepaired.
CallsEndRepaired == C!LonersAreRepaired /\ C!EveryCallEnds
=============================================================================
