--------------------------- MODULE OAuthCallback ---------------------------
(***************************************************************************)
(* `OAuthCallback` of client/callback.py: the web page of an application   *)
(* that a user returns to after a login.  begin cancels what is under way  *)
(* and awaits OAuth.begin before it sets `attempt` and `outcome`; handle   *)
(* takes the attempt and awaits OAuth.complete; a task of the application  *)
(* waits for the outcome.  OAuth itself (see OAuthClient) is the one login *)
(* it holds, `pending`.                                                    *)
(*                                                                         *)
(* Logins are numbered; 0 is none.  The outcome of login l is named l.     *)
(***************************************************************************)
EXTENDS Naturals

CONSTANTS
    Begins,         \* tasks of the application that begin a login and wait for it
    Handler,        \* callback requests at a time
    MaxLogins       \* bound

VARIABLES
    attempt,    \* self.attempt
    outcome,    \* self.outcome
    result,     \* [login -> what its future holds: "pending", "ok", "error"; "none" before]
    pending,    \* auth.pending
    begun,      \* logins begun by OAuth.begin
    beginning,  \* [Begins -> "idle", "auth" or "waiting"]
    handling,   \* [Handler -> [login, exchanged], login 0 when idle]
    since,      \* history: [Begins -> the last login begun when its begin cancelled]
    overtaken   \* history: logins replaced by a begin that cancelled before they began

vars == <<attempt, outcome, result, pending, begun, beginning, handling, since, overtaken>>
history == <<since, overtaken>>
app == <<begun, beginning, history>>

LoginOr0 == 0..MaxLogins
NotHandling == [login |-> 0, exchanged |-> FALSE]

Init ==
    /\ attempt = 0 /\ outcome = 0 /\ pending = 0 /\ begun = 0
    /\ result = [l \in 1..MaxLogins |-> "none"]
    /\ beginning = [b \in Begins |-> "idle"]
    /\ handling = [h \in Handler |-> NotHandling]
    /\ since = [b \in Begins |-> 0]
    /\ overtaken = {}

Pending(l) == l # 0 /\ result[l] = "pending"

\* (Mutant) Nobody is told.
CancelSilently == result

\* Future.set_result unless it is done: the outcome after cancel().
Cancelled ==
    IF Pending(outcome) THEN [result EXCEPT ![outcome] = "error"] ELSE result

\* cancel(): withdraw the login from OAuth, tell whoever waits.
Cancel ==
    /\ attempt' = 0
    /\ pending' = IF pending = attempt THEN 0 ELSE pending
    /\ result' = Cancelled
    /\ UNCHANGED outcome

cancel == Cancel /\ UNCHANGED <<app, handling>>

\* begin, first part: cancel, then call OAuth.begin.  Another begin may be
\* awaiting the same call.
begin(b) ==
    /\ beginning[b] = "idle"
    /\ Cancel
    /\ beginning' = [beginning EXCEPT ![b] = "auth"]
    /\ since' = [since EXCEPT ![b] = begun]
    /\ UNCHANGED <<begun, handling, overtaken>>

\* begin, the rest: OAuth.begin has replaced a login it held by a new one, and
\* in the same step self.attempt and a new future are set; or it raised.
Begun(b) ==
    /\ beginning[b] = "auth"
    /\ IF begun < MaxLogins
       THEN LET l == begun + 1 IN
            /\ begun' = l /\ pending' = l
            /\ attempt' = l /\ outcome' = l
            /\ result' = [result EXCEPT ![l] = "pending"]
            /\ beginning' = [beginning EXCEPT ![b] = "waiting"]
            /\ overtaken' = overtaken \cup
                   IF Pending(outcome) /\ since[b] < outcome THEN {outcome} ELSE {}
       ELSE /\ beginning' = [beginning EXCEPT ![b] = "idle"]
            /\ UNCHANGED <<begun, pending, attempt, outcome, result, overtaken>>
    /\ UNCHANGED <<handling, since>>

\* wait() returns or raises; it may also be cancelled (the future is shielded).
wait(b) ==
    /\ beginning[b] = "waiting"
    /\ beginning' = [beginning EXCEPT ![b] = "idle"]
    /\ UNCHANGED <<attempt, outcome, result, pending, begun, handling, history>>

\* handle: the state parameter names login l; one that is not current is refused.
handle(h, l) ==
    /\ handling[h] = NotHandling
    /\ attempt = l /\ l # 0 /\ result[outcome] = "pending"
    /\ attempt' = 0
    /\ handling' = [handling EXCEPT ![h].login = l]
    /\ UNCHANGED <<outcome, result, pending, app>>

\* OAuth.complete takes the login, or finds it gone.
Complete(h) ==
    /\ handling[h].login # 0 /\ ~handling[h].exchanged
    /\ pending = handling[h].login
    /\ pending' = 0
    /\ handling' = [handling EXCEPT ![h].exchanged = TRUE]
    /\ UNCHANGED <<attempt, outcome, result, app>>

\* complete returned, raised or was cancelled; a future that is done stays so.
Handled(h, ok) ==
    LET l == handling[h].login IN
    /\ l # 0 /\ (ok => handling[h].exchanged)
    /\ result' = IF result[l] = "pending" THEN [result EXCEPT ![l] = IF ok THEN "ok" ELSE "error"]
                 ELSE result
    /\ handling' = [handling EXCEPT ![h] = NotHandling]
    /\ UNCHANGED <<attempt, outcome, pending, app>>

Next ==
    \/ cancel
    \/ \E b \in Begins : begin(b) \/ Begun(b) \/ wait(b)
    \/ \E h \in Handler :
        \/ \E l \in 1..MaxLogins : handle(h, l)
        \/ Complete(h) \/ \E ok \in BOOLEAN : Handled(h, ok)

Spec == Init /\ [][Next]_vars

-----------------------------------------------------------------------------
(* Properties *)

\* The page still accepts the callback of login l, or is handling it.
WillBeTold(l) == attempt = l \/ \E h \in Handler : handling[h].login = l

\* wait() raises or returns: an outcome that nobody has set belongs to a login
\* the page still accepts or is handling, which will set it.  The one exception
\* is a login that was replaced by a begin whose cancel came before that login
\* was there to be cancelled, since two begins may overlap.
NobodyWaitsForNothing ==
    \A l \in 1..MaxLogins : result[l] = "pending" => WillBeTold(l) \/ l \in overtaken

\* As documented: wait() is to "wait for token acquisition and persistence, or
\* raise their error", and a new attempt replaces the previous one.  The code
\* leaves the waiter of an overtaken login for ever.
EveryWaiterIsTold == \A l \in 1..MaxLogins : result[l] = "pending" => WillBeTold(l)
=============================================================================
