---------------------------- MODULE OAuthClient ----------------------------
(***************************************************************************)
(* `OAuth` of client/oauth.py with `Client.http_request` of client/http.py *)
(* on top: tasks of one process share one account context.  begin,         *)
(* complete, token and invalidate run under one asyncio.Lock; each await   *)
(* inside is a step, where the task may fail or be cancelled, and at every *)
(* moment the process may crash and start again from what the application  *)
(* saved.  The token endpoint and the MCP server are external: they grant, *)
(* refuse or do not answer.                                                *)
(*                                                                         *)
(* Access tokens are numbered in the order they are granted, logins in the *)
(* order they are begun; 0 is none.  A refresh token has the number of the *)
(* grant it came with.  `save` may fail or be cancelled whether or not the *)
(* record reached the disk.                                                *)
(*                                                                         *)
(* Abstractions: discovery is one step that succeeds or raises; a record   *)
(* is its registration (there or not) and its tokens; URLs, scopes, PKCE   *)
(* and the checks of a malformed response are outcomes "raise".            *)
(***************************************************************************)
EXTENDS Naturals, FiniteSets

CONSTANTS
    Task,
    MaxGrants, MaxLogins,   \* bounds
    MaxCrashes,             \* bound on crashes
    None

VARIABLES
    lock,           \* the task inside `async with self.lock`, or None
    record,         \* self.record, None before registration
    disk,           \* what load() would return
    loaded, save_failed,
    server,         \* self.server holds the metadata
    pending,        \* the login in self.pending, 0 when empty
    lapsed,         \* access tokens whose expires_at (less the skew) has passed
    local,          \* [Task -> [pc, op, token, refresh, second, login]]
    granted, begun, \* the last grant, the last login
    refused,        \* history: access tokens the MCP server answered 401
    sends,          \* history: [grant -> times its refresh token was sent, outcome open]
    codes,          \* history: [login -> times its code was sent]
    withdrawn,      \* history: logins cancelled or replaced while they were pending
    crashes

vars == <<lock, record, disk, loaded, save_failed, server, pending, lapsed, local, granted, begun,
          refused, sends, codes, withdrawn, crashes>>
store == <<record, disk, loaded, save_failed>>
history == <<refused, sends, codes, withdrawn, crashes>>

Idle == [pc |-> "idle", op |-> "none", token |-> 0, refresh |-> 0, second |-> FALSE, login |-> 0]
Empty == [access |-> 0, refresh |-> 0]

Init ==
    /\ lock = None
    /\ record = None /\ disk = None
    /\ loaded = FALSE /\ save_failed = FALSE /\ server = FALSE
    /\ pending = 0
    /\ lapsed = {}
    /\ local = [t \in Task |-> Idle]
    /\ granted = 0 /\ begun = 0
    /\ refused = {}
    /\ sends = [g \in 1..MaxGrants |-> 0]
    /\ codes = [l \in 1..MaxLogins |-> 0]
    /\ withdrawn = {}
    /\ crashes = 0

At(t, pc) == local[t].pc = pc
GoTo(t, pc) == local' = [local EXCEPT ![t].pc = pc]
\* Leave the lock and the call, with an answer or an error.
Leave(t) == local' = [local EXCEPT ![t] = Idle] /\ lock' = None

-----------------------------------------------------------------------------
(* Calls, the lock, discovery *)

Start(t, op, login) ==
    /\ local[t] = Idle
    /\ local' = [local EXCEPT ![t] = [Idle EXCEPT !.op = op, !.pc = "lock", !.login = login]]
    /\ UNCHANGED <<lock, store, server, pending, lapsed, granted, begun, history>>

Enter(t) ==
    /\ At(t, "lock") /\ lock = None
    /\ lock' = t
    /\ GoTo(t, CASE local[t].op = "complete" -> "complete" [] local[t].op = "invalidate" -> "invalidate"
                 [] OTHER -> "discover")
    /\ UNCHANGED <<store, server, pending, lapsed, granted, begun, history>>

\* discover and restore: metadata is fetched once, credentials are loaded once.
discover(t) ==
    /\ At(t, "discover")
    /\ server' = TRUE /\ loaded' = TRUE
    /\ record' = IF loaded THEN record ELSE disk
    /\ GoTo(t, local[t].op)
    /\ UNCHANGED <<lock, disk, save_failed, pending, lapsed, granted, begun, history>>

-----------------------------------------------------------------------------
(* write: memory first, then the application's save *)

\* t keeps the refresh token it is about to send.
write(t, r, next, refresh) ==
    /\ record' = r
    /\ save_failed' = TRUE
    /\ local' = [local EXCEPT ![t].pc = next, ![t].refresh = refresh]
    /\ UNCHANGED <<lock, disk, loaded, server, pending, lapsed>>

Saves == {"save_registration", "save_reservation", "save_tokens", "save_empty"}

\* Where a call goes on once its record is saved; "idle" is the end of it.
AfterSave(t) ==
    CASE At(t, "save_registration") -> "pend"
      [] At(t, "save_reservation") -> "refresh"
      [] At(t, "save_tokens") /\ local[t].op = "token" -> "send"
      [] OTHER -> "idle"

\* A refresh may bring a token without lifetime: saved, and of no use.
Saved(t, dead) ==
    /\ local[t].pc \in Saves
    /\ disk' = record
    /\ save_failed' = FALSE
    /\ dead => AfterSave(t) = "send"
    /\ lapsed' = IF dead THEN lapsed \cup {record.access} ELSE lapsed
    /\ CASE dead \/ AfterSave(t) = "idle" -> Leave(t)
         [] ~dead /\ AfterSave(t) = "send" ->
              lock' = None /\ local' = [local EXCEPT ![t].pc = "send", ![t].token = record.access]
         [] OTHER -> GoTo(t, AfterSave(t)) /\ UNCHANGED lock
    /\ UNCHANGED <<record, loaded, server, pending, granted, begun, history>>

-----------------------------------------------------------------------------
(* token *)

\* (Mutant) Any token that was refused is refreshed, a fresh one too.
UsableUnlessRejected(t) == record.access \notin lapsed /\ local[t].token = 0

Usable(t) == record.access \notin lapsed /\ record.access # local[t].token

\* (Mutant) The refresh token stays in the record while it is sent.
Unreserved == record

\* The record while a refresh is under way: no tokens, so nobody sends it again.
Reserved == Empty

token(t) ==
    /\ At(t, "token")
    /\ IF save_failed \/ record = None \/ record = Empty
       THEN Leave(t) /\ UNCHANGED <<store, server, pending, lapsed>>
       ELSE IF Usable(t)
       THEN /\ local' = [local EXCEPT ![t].pc = "send", ![t].token = record.access]
            /\ lock' = None
            /\ UNCHANGED <<store, server, pending, lapsed>>
       ELSE IF record.refresh = 0
       THEN write(t, Empty, "save_empty", 0)
       ELSE write(t, Reserved, "save_reservation", record.refresh)
    /\ UNCHANGED <<granted, begun, history>>

\* exchange: the refresh token leaves the process.
Refresh(t) ==
    /\ At(t, "refresh")
    /\ sends' = [sends EXCEPT ![local[t].refresh] = @ + 1]
    /\ GoTo(t, "answer")
    /\ UNCHANGED <<lock, store, server, pending, lapsed, granted, begun, refused, codes, withdrawn,
                   crashes>>

\* A token response: a new access token with a refresh token of its own, with
\* none, or (for a refresh) without one, which leaves the old one in force.
Granted(t, rotated) ==
    LET g == granted + 1
        refresh == IF rotated THEN g ELSE local[t].refresh
    IN  /\ At(t, "answer") /\ granted < MaxGrants
        /\ granted' = g
        /\ sends' = IF rotated \/ local[t].refresh = 0 THEN sends
                    ELSE [sends EXCEPT ![local[t].refresh] = 0]
        /\ write(t, [access |-> g, refresh |-> refresh], "save_tokens", 0)
        /\ UNCHANGED <<begun, refused, codes, withdrawn, crashes>>

-----------------------------------------------------------------------------
(* begin, complete, cancel, invalidate *)

\* register: with a record only what an earlier save missed is saved again.
register(t) ==
    /\ At(t, "begin")
    /\ IF record = None \/ save_failed
       THEN write(t, IF record = None THEN Empty ELSE record, "save_registration", 0)
       ELSE GoTo(t, "pend") /\ UNCHANGED <<lock, store, server, pending, lapsed>>
    /\ UNCHANGED <<granted, begun, history>>

\* begin: the new login replaces the one that was pending.
begin(t) ==
    /\ At(t, "pend") /\ begun < MaxLogins
    /\ begun' = begun + 1
    /\ pending' = begun + 1
    /\ withdrawn' = withdrawn \cup ({pending} \ {0})
    /\ Leave(t)
    /\ UNCHANGED <<store, server, lapsed, granted, refused, sends, codes, crashes>>

\* pending.pop, before anything of the callback is looked at.
PopPending(t) == pending' = 0

\* complete: take the login; its deadline, state, issuer and error are outcomes.
complete(t, valid) ==
    /\ At(t, "complete")
    /\ IF pending = local[t].login /\ pending # 0
       THEN /\ PopPending(t)
            /\ IF valid
               THEN /\ codes' = [codes EXCEPT ![local[t].login] = @ + 1]
                    /\ GoTo(t, "answer") /\ UNCHANGED lock
               ELSE Leave(t) /\ UNCHANGED codes
       ELSE Leave(t) /\ UNCHANGED <<pending, codes>>
    /\ UNCHANGED <<store, server, lapsed, granted, begun, refused, sends, withdrawn, crashes>>

\* cancel takes no lock.
cancel(l) ==
    /\ pending = l /\ l # 0
    /\ pending' = 0
    /\ withdrawn' = withdrawn \cup {l}
    /\ UNCHANGED <<lock, store, server, lapsed, local, granted, begun, refused, sends, codes, crashes>>

invalidate(t) ==
    /\ At(t, "invalidate")
    /\ IF record # None /\ record.access = local[t].token
       THEN write(t, Empty, "save_empty", 0)
       ELSE Leave(t) /\ UNCHANGED <<store, server, pending, lapsed>>
    /\ UNCHANGED <<granted, begun, history>>

-----------------------------------------------------------------------------
(* Client.http_request *)

\* The MCP server takes the request, denies the scope, or refuses the token:
\* once the request is repeated with another token, twice gives the token up.
Send(t, answer) ==
    /\ At(t, "send")
    /\ IF answer # 401
       THEN local' = [local EXCEPT ![t] = Idle] /\ UNCHANGED refused
       ELSE /\ refused' = refused \cup {local[t].token}
            /\ local' = [local EXCEPT ![t] =
                    [@ EXCEPT !.pc = "lock", !.second = TRUE,
                              !.op = IF local[t].second THEN "invalidate" ELSE "token"]]
    /\ UNCHANGED <<lock, store, server, pending, lapsed, granted, begun, sends, codes, withdrawn, crashes>>

-----------------------------------------------------------------------------
(* Time, failures, crashes *)

Lapse ==
    /\ record # None /\ record # Empty
    /\ record.access \notin lapsed
    /\ lapsed' = lapsed \cup {record.access}
    /\ UNCHANGED <<lock, store, server, pending, local, granted, begun, history>>

\* An await raises or is cancelled: a request fails, an answer is malformed
\* or lost, a save fails with the record on disk or not.
Raise(t) ==
    /\ local[t].pc \in {"lock", "discover", "token", "refresh", "answer", "send", "pend"} \cup Saves
    /\ local' = [local EXCEPT ![t] = Idle]
    /\ lock' = IF lock = t THEN None ELSE lock
    /\ disk' \in IF local[t].pc \in Saves THEN {disk, record} ELSE {disk}
    /\ UNCHANGED <<record, loaded, save_failed, server, pending, lapsed, granted, begun, history>>

\* The process dies and starts again from the disk.
Crash ==
    /\ crashes < MaxCrashes
    /\ crashes' = crashes + 1
    /\ disk' \in {disk} \cup {record : t \in {u \in Task : local[u].pc \in Saves}}
    /\ lock' = None /\ record' = None /\ loaded' = FALSE /\ save_failed' = FALSE
    /\ server' = FALSE /\ pending' = 0
    /\ local' = [t \in Task |-> Idle]
    /\ UNCHANGED <<lapsed, granted, begun, refused, sends, codes, withdrawn>>

-----------------------------------------------------------------------------
Continue(t) ==
    \/ Enter(t) \/ discover(t) \/ token(t) \/ Refresh(t)
    \/ \E b \in BOOLEAN : Saved(t, b) \/ Granted(t, b) \/ complete(t, b)
    \/ register(t) \/ begin(t) \/ invalidate(t)
    \/ \E answer \in {200, 401, 403} : Send(t, answer)
    \/ Raise(t)

Next ==
    \/ \E t \in Task :
        \/ Start(t, "token", 0) \/ Start(t, "begin", 0)
        \/ \E l \in 1..begun : Start(t, "complete", l)
        \/ Continue(t)
    \/ \E l \in 1..begun : cancel(l)
    \/ Lapse \/ Crash

Spec == Init /\ [][Next]_vars

-----------------------------------------------------------------------------
(* Properties *)

Tokens == [access : 0..MaxGrants, refresh : 0..MaxGrants]
Pcs ==
    {"idle", "lock", "discover", "token", "begin", "complete", "invalidate", "refresh", "answer", "pend",
     "send"} \cup Saves
Local ==
    [pc : Pcs, op : {"none", "token", "begin", "complete", "invalidate"}, token : 0..MaxGrants,
     refresh : 0..MaxGrants, second : BOOLEAN, login : 0..MaxLogins]

TypeOK ==
    /\ lock \in Task \cup {None}
    /\ record \in Tokens \cup {None} /\ disk \in Tokens \cup {None}
    /\ loaded \in BOOLEAN /\ save_failed \in BOOLEAN /\ server \in BOOLEAN
    /\ local \in [Task -> Local]
    /\ granted \in 0..MaxGrants /\ begun \in 0..MaxLogins /\ pending \in 0..begun
    /\ lapsed \subseteq 0..MaxGrants /\ refused \subseteq 0..MaxGrants
    /\ sends \in [1..MaxGrants -> Nat] /\ codes \in [1..MaxLogins -> Nat]
    /\ withdrawn \subseteq 1..MaxLogins
    /\ crashes \in Nat

\* "Never retry it on the next request": a refresh token that may have been
\* consumed (a timeout, a cancellation, a lost answer, a failed save, a crash
\* at any moment) is not sent again; only an answer that keeps it in force
\* allows that.
RefreshSentOnce == \A g \in 1..MaxGrants : sends[g] <= 1

\* Tokens are given up for their own sake: the record loses an access token
\* only after that very token lapsed or was refused, never because of an older
\* one that a slower task was still using; or a login replaces it.
Held == IF record = None THEN 0 ELSE record.access

OnlyItsOwnRefusal ==
    [][Held # 0 /\ Held' # Held /\ loaded' =>
        \/ Held \in lapsed \cup refused
        \/ \E t \in Task : local[t].op = "complete" /\ At(t, "answer") /\ Held' = granted']_vars

\* A login's code is sent once at most, and never once the login was
\* cancelled, replaced by another or lost with the process.
LoginsAreTakenOnce ==
    [][\A l \in 1..MaxLogins : codes'[l] # codes[l] => codes'[l] = 1 /\ l \notin withdrawn]_vars
=============================================================================
