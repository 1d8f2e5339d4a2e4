---------------------------- MODULE OAuthServer ----------------------------
(***************************************************************************)
(* `OAuthServer` of oauth/server.py with the token objects of              *)
(* oauth/tokens.py.  A login goes from /authorize over an optional consent *)
(* page, the provider's sign-in and /callback to a code that /token turns  *)
(* into an access token.  Each stage is a row of a session store shared by *)
(* the workers: its key carries a fresh identifier that only the next      *)
(* request of the login knows, and `take` spends it: compare-and-set to    *)
(* {"used": True}, then delete.                                            *)
(*                                                                         *)
(* Every await is a step boundary, so requests of several workers          *)
(* interleave, and a request may die at any of them (Die: the client       *)
(* hangs up or the worker crashes; all state is in the store).  The same   *)
(* ticket, state or code may be presented any number of times, by any      *)
(* browser and any client.                                                 *)
(*                                                                         *)
(* An identifier is named by its login and its stage (SpentOnce is what    *)
(* makes the name unique).  Time counts in halves of a second, so that the *)
(* rounding of lifetimes to whole seconds shows.                           *)
(***************************************************************************)
EXTENDS Integers, FiniteSets

CONSTANTS
    Login,          \* logins that may be begun
    Client,         \* registered clients
    Careful,        \* the clients with require_consent
    Browser, Verifier, Scope,
    Request,        \* requests being handled at a time, over all workers
    FlowTtl,        \* FLOW_TTL
    AccessTtl,      \* access_token_ttl
    Expiry,         \* the expiries an account may have, besides none
    Horizon,        \* bound on the clock
    None

Second == 2
Stage == {"consent", "upstream", "code"}
Flow == [client : Client, browser : Browser, challenge : Verifier, scope : SUBSET Scope]
Account == [scopes : SUBSET Scope, expires : Expiry \cup {None}]
Token == [client : Client, scopes : SUBSET Scope, expires : Nat, until : Nat]

ASSUME OAuthServerConstants ==
    /\ Careful \subseteq Client
    /\ FlowTtl \in Nat \ {0} /\ AccessTtl \in Nat \ {0}
    /\ Expiry \subseteq Nat
    /\ Horizon \in Nat
    /\ None \notin Client \cup Expiry \cup Flow \cup Account \cup Token

VARIABLES
    now,
    sealed,     \* EncryptedTokens (TRUE) or OpaqueTokens
    flow,       \* [Login -> what /authorize was asked, None before]
    rows,       \* [Login -> [Stage -> row or None]]
    token,      \* [Login -> the token issued or None]
    told,       \* [Login -> the end of the lifetime in the /token answer, 0 before]
    req,        \* [Request -> the request in progress or None]
    decision,   \* history: [Login -> what the user chose on the consent page]
    account,    \* history: [Login -> the account the provider confirmed]
    spent,      \* history: [Login -> [Stage -> how often it was taken]]
    revoked     \* history: logins whose token was revoked

vars == <<now, sealed, flow, rows, token, told, req, decision, account, spent, revoked>>
history == <<decision, account, spent, revoked>>

Principal == [scopes : SUBSET Scope, expires : Nat]
Row == [used : BOOLEAN, until : Nat, principal : Principal \cup {None}]
Pc == {"take", "delete", "upstream", "exchange", "issue", "answer"}
Handling == [login : Login, stage : Stage, pc : Pc, allow : BOOLEAN, principal : Principal \cup {None}]

Init ==
    /\ now = 0
    /\ sealed \in BOOLEAN
    /\ flow = [f \in Login |-> None]
    /\ rows = [f \in Login |-> [s \in Stage |-> None]]
    /\ token = [f \in Login |-> None]
    /\ told = [f \in Login |-> 0]
    /\ req = [r \in Request |-> None]
    /\ decision = [f \in Login |-> None]
    /\ account = [f \in Login |-> None]
    /\ spent = [f \in Login |-> [s \in Stage |-> 0]]
    /\ revoked = {}

-----------------------------------------------------------------------------
(* Rows: put, read, take *)

Alive(f, s) == rows[f][s] # None /\ rows[f][s].until > now
Readable(f, s) == Alive(f, s) /\ ~rows[f][s].used

put(f, s, principal) ==
    rows' = [rows EXCEPT ![f][s] = [used |-> FALSE, until |-> now + FlowTtl, principal |-> principal]]

\* r has read the row of f's stage s and passed the checks of its handler.
Admitted(r, f, s, allow) ==
    /\ req' = [req EXCEPT ![r] = [login |-> f, stage |-> s, pc |-> "take", allow |-> allow,
                                  principal |-> rows[f][s].principal]]
    /\ UNCHANGED <<now, sealed, flow, rows, token, told, history>>

At(r, pc) == req[r] # None /\ req[r].pc = pc
GoTo(r, pc) == req' = [req EXCEPT ![r].pc = pc]
Done(r) == req' = [req EXCEPT ![r] = None]

\* (Mutant) The row as it was read decides.
TakenUnchecked(f, s) == Alive(f, s)

\* save with the version that was read: an unused row has had no other.
Takeable(f, s) == Readable(f, s)

Take(r) ==
    LET f == req[r].login
        s == req[r].stage
    IN  /\ At(r, "take")
        /\ IF Takeable(f, s)
           THEN /\ rows' = [rows EXCEPT ![f][s] = [@ EXCEPT !.used = TRUE, !.until = now + FlowTtl]]
                /\ spent' = [spent EXCEPT ![f][s] = @ + 1]
                /\ decision' = IF s = "consent" /\ decision[f] = None
                               THEN [decision EXCEPT ![f] = IF req[r].allow THEN "allow" ELSE "deny"]
                               ELSE decision
                /\ GoTo(r, "delete")
           ELSE Done(r) /\ UNCHANGED <<rows, spent, decision>>
        /\ UNCHANGED <<now, sealed, flow, token, told, account, revoked>>

\* (Mutant) The decision is read after the ticket was spent, and not looked at.
AfterAnyConsent(r) == "upstream"

\* Where each handler goes on; a denied consent and a refused sign-in end here.
AfterConsent(r) == IF req[r].allow THEN "upstream" ELSE "end"
Onward(r) ==
    CASE req[r].stage = "consent" -> AfterConsent(r)
      [] req[r].stage = "upstream" -> IF req[r].allow THEN "exchange" ELSE "end"
      [] req[r].stage = "code" -> "issue"

Delete(r) ==
    /\ At(r, "delete")
    /\ rows' = [rows EXCEPT ![req[r].login][req[r].stage] = None]
    /\ IF Onward(r) = "end" THEN Done(r) ELSE GoTo(r, Onward(r))
    /\ UNCHANGED <<now, sealed, flow, token, told, history>>

-----------------------------------------------------------------------------
(* /authorize and the consent page *)

FirstStage(c) == IF c \in Careful THEN "consent" ELSE "upstream"

\* Requests that fail a check of handle_authorize (client, callback URL,
\* resource, PKCE method, a scope the server does not have) leave no row.
handle_authorize(f, c, b, v, scope) ==
    /\ flow[f] = None
    /\ flow' = [flow EXCEPT ![f] = [client |-> c, browser |-> b, challenge |-> v, scope |-> scope]]
    /\ put(f, FirstStage(c), None)
    /\ UNCHANGED <<now, sealed, token, told, req, history>>

bound_browser(f, b) == flow[f].browser = b

handle_consent(r, f, b, allow) ==
    /\ req[r] = None /\ flow[f] # None
    /\ Readable(f, "consent") /\ bound_browser(f, b)
    /\ Admitted(r, f, "consent", allow)

start_upstream(r) ==
    /\ At(r, "upstream")
    /\ put(req[r].login, "upstream", None)
    /\ Done(r)
    /\ UNCHANGED <<now, sealed, flow, token, told, history>>

-----------------------------------------------------------------------------
(* /callback: the provider sends the browser back with its code, or without *)

handle_callback(r, f, b, signed_in) ==
    /\ req[r] = None /\ flow[f] # None
    /\ Readable(f, "upstream") /\ bound_browser(f, b)
    /\ Admitted(r, f, "upstream", signed_in)

PrincipalExpiry(expires) ==
    IF expires # None /\ expires < now + AccessTtl THEN expires ELSE now + AccessTtl

\* Principal.expired, and `wanted - principal.scopes`.
AccountMay(f, scopes, expires) ==
    /\ expires = None \/ expires >= now
    /\ flow[f].scope \subseteq scopes

\* provider.exchange, provider.profile and the identity mapper answer with
\* an account; then the code is stored with the principal it will become.
\* expires is the account's own expiry, None when it has none.
SignIn(r, scopes, expires) ==
    LET f == req[r].login
        principal == [scopes |-> flow[f].scope, expires |-> PrincipalExpiry(expires)]
    IN  /\ At(r, "exchange")
        /\ IF AccountMay(f, scopes, expires)
           THEN /\ put(f, "code", principal)
                /\ account' = [account EXCEPT ![f] = [scopes |-> scopes, expires |-> expires]]
           ELSE UNCHANGED <<rows, account>>
        /\ Done(r)
        /\ UNCHANGED <<now, sealed, flow, token, told, decision, spent, revoked>>

\* provider_json or the identity lookup fails: the login is over.
UpstreamFails(r) ==
    /\ At(r, "exchange")
    /\ Done(r)
    /\ UNCHANGED <<now, sealed, flow, rows, token, told, history>>

-----------------------------------------------------------------------------
(* /token and the token object *)

\* (Mutant) Rounded up.
LifetimeRoundedUp(expires) == (expires - now + 1) \div Second

\* int(expires_at - time.time()): whole seconds, rounded towards zero.
Lifetime(expires) == IF expires > now THEN (expires - now) \div Second ELSE 0

handle_token(r, f, c, v) ==
    /\ req[r] = None /\ flow[f] # None
    /\ Readable(f, "code")
    /\ c = flow[f].client
    /\ v = flow[f].challenge
    /\ Lifetime(rows[f]["code"].principal.expires) > 0
    /\ Admitted(r, f, "code", TRUE)

\* The store takes whole seconds: max(1, ceil(...)).
StoredFor(expires) == Second * ((expires - now + 1) \div Second)

\* OpaqueTokens.issue creates a row, EncryptedTokens.issue a sealed text; both
\* refuse a principal that has expired.
issue(r) ==
    LET f == req[r].login
        p == req[r].principal
    IN  /\ At(r, "issue")
        /\ IF p.expires > now
           THEN /\ token' = [token EXCEPT ![f] = [client |-> flow[f].client, scopes |-> p.scopes,
                                expires |-> p.expires, until |-> now + StoredFor(p.expires)]]
                /\ GoTo(r, "answer")
           ELSE Done(r) /\ UNCHANGED token
        /\ UNCHANGED <<now, sealed, flow, rows, told, history>>

\* The second look at the clock: the token is stored, and not handed out.
Answer(r) ==
    LET f == req[r].login
        ttl == Lifetime(req[r].principal.expires)
    IN  /\ At(r, "answer")
        /\ told' = IF ttl > 0 THEN [told EXCEPT ![f] = now + Second * ttl] ELSE told
        /\ Done(r)
        /\ UNCHANGED <<now, sealed, flow, rows, token, history>>

\* A sealed text carries its expiry; a row has the store's as well.
EncryptedValid(t) == t.expires > now
OpaqueValid(t) == t.until > now /\ t.expires >= now

verify(f) == token[f] # None /\ IF sealed THEN EncryptedValid(token[f]) ELSE OpaqueValid(token[f])

\* EncryptedTokens has no revoke.
revoke(f) ==
    /\ ~sealed /\ token[f] # None
    /\ token' = [token EXCEPT ![f] = None]
    /\ revoked' = revoked \cup {f}
    /\ UNCHANGED <<now, sealed, flow, rows, told, req, decision, account, spent>>

-----------------------------------------------------------------------------
Die(r) ==
    /\ req[r] # None
    /\ Done(r)
    /\ UNCHANGED <<now, sealed, flow, rows, token, told, history>>

Tick ==
    /\ now < Horizon
    /\ now' = now + 1
    /\ UNCHANGED <<sealed, flow, rows, token, told, req, history>>

Arrive(r) == \E f \in Login :
    \/ \E b \in Browser, yes \in BOOLEAN : handle_consent(r, f, b, yes) \/ handle_callback(r, f, b, yes)
    \/ \E c \in Client, v \in Verifier : handle_token(r, f, c, v)

Continue(r) ==
    \/ Take(r) \/ Delete(r) \/ start_upstream(r) \/ UpstreamFails(r) \/ issue(r) \/ Answer(r)
    \/ \E scopes \in SUBSET Scope, expires \in Expiry \cup {None} : SignIn(r, scopes, expires)

Next ==
    \/ Tick
    \/ \E f \in Login : revoke(f) \/
          \E c \in Client, b \in Browser, v \in Verifier, scope \in SUBSET Scope :
              handle_authorize(f, c, b, v, scope)
    \/ \E r \in Request : Arrive(r) \/ Continue(r) \/ Die(r)

Spec == Init /\ [][Next]_vars

-----------------------------------------------------------------------------
(* Properties *)

TypeOK ==
    /\ now \in Nat /\ sealed \in BOOLEAN
    /\ flow \in [Login -> Flow \cup {None}]
    /\ rows \in [Login -> [Stage -> Row \cup {None}]]
    /\ token \in [Login -> Token \cup {None}]
    /\ told \in [Login -> Nat]
    /\ req \in [Request -> Handling \cup {None}]
    /\ decision \in [Login -> {"allow", "deny", None}]
    /\ account \in [Login -> Account \cup {None}]
    /\ spent \in [Login -> [Stage -> Nat]]
    /\ revoked \subseteq Login

\* However often and by however many workers a ticket, a state or a code is
\* presented, and wherever those requests die, one of them spends it.
SpentOnce == \A f \in Login, s \in Stage : spent[f][s] <= 1

\* A token comes only from a login that went all the way: consent was given
\* where its client requires it and never denied, the account the provider
\* confirmed holds every scope of the token, and the token has the login's
\* client and no scope it did not ask for.
TokensFollowTheLogin ==
    \A f \in Login : token[f] # None =>
        /\ flow[f].client \in Careful => decision[f] = "allow"
        /\ account[f] # None /\ token[f].scopes \subseteq account[f].scopes \cap flow[f].scope
        /\ token[f].client = flow[f].client

\* The lifetime in the /token answer is kept on both sides: the token works
\* for every whole second the client was told, unless it is revoked, and it
\* never works once the account behind it has expired.
TokenLifeIsAsTold ==
    \A f \in Login :
        /\ told[f] > now /\ f \notin revoked => verify(f)
        /\ verify(f) /\ account[f].expires # None => account[f].expires >= now
=============================================================================
