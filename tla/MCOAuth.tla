------------------------------ MODULE MCOAuth ------------------------------
(* One run over the three parts of OAuth that keep state of their own: the  *)
(* authorization server, the client's account context, and the callback     *)
(* route of an application.  `part` is the one that takes the steps.        *)
EXTENDS OAuthServer, TLC

CONSTANTS Task, MaxGrants, MaxLogins, MaxCrashes, Begins, Handler

VARIABLES part, lock, record, disk, loaded, save_failed, server, pending, lapsed, local, granted,
    begun, refused, sends, codes, withdrawn, crashes, attempt, outcome, result, waiting, begins,
    beginning, handling, since, overtaken

C == INSTANCE OAuthClient
R == INSTANCE OAuthCallback WITH pending <- waiting, begun <- begins

\* A task is not None, and a record is not.
ASSUME ClientConstants ==
    /\ MaxGrants \in Nat /\ MaxLogins \in Nat /\ MaxCrashes \in Nat
    /\ None \notin Task \cup C!Tokens

MCExpiry == {3, 4}
Tasks == Permutations(Task) \cup Permutations(Handler)

client == <<lock, record, disk, loaded, save_failed, server, pending, lapsed, local, granted, begun,
            refused, sends, codes, withdrawn, crashes>>
callback == <<attempt, outcome, result, waiting, begins, beginning, handling, since,
              overtaken>>

Parts == {"server", "client", "callback"}

MCInit == part \in Parts /\ Init /\ C!Init /\ R!Init /\ (sealed \/ part = "server")
MCNext ==
    /\ UNCHANGED part
    /\ \/ part = "server" /\ Next /\ UNCHANGED <<client, callback>>
       \/ part = "client" /\ C!Next /\ UNCHANGED <<vars, callback>>
       \/ part = "callback" /\ R!Next /\ UNCHANGED <<vars, client>>
MCSpec == MCInit /\ [][MCNext]_<<part, vars, client, callback>>

(* What each part promises, under the names of its module. *)
RefreshSentOnce == C!RefreshSentOnce
OnlyItsOwnRefusal == C!OnlyItsOwnRefusal

\* A ticket, state or code at the server, and a login at the client, is taken
\* by one of those who race for it.  (In Init none is taken.)
NothingIsTakenTwice == [][SpentOnce']_vars /\ C!LoginsAreTakenOnce
NobodyWaitsForNothing == R!NobodyWaitsForNothing
=============================================================================
