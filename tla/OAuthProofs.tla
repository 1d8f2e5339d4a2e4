---------------------------- MODULE OAuthProofs ----------------------------
(***************************************************************************)
(* Theorems about the three parts of OAuth, for any number of logins,      *)
(* requests, tasks and handlers: first each part on its own, then the      *)
(* specification that MCOAuth composes of them.                            *)
(*                                                                         *)
(* The server's argument: a stage of a login is opened once, by the one    *)
(* request that took the stage before it and that no longer holds it, so   *)
(* every row is put once; and with compare-and-set an opened stage is      *)
(* taken once.                                                             *)
(***************************************************************************)
EXTENDS MCOAuth, TLAPS

(* The authorization server *)

\* Something was put under the identifier of f's stage s.
Opened(f, s) == rows[f][s] # None \/ spent[f][s] > 0

\* r has taken the row of f's stage s and is not done with it.
Holds(r, f, s) ==
    req[r] # None /\ req[r].login = f /\ req[r].stage = s /\ req[r].pc # "take"

\* The stage was taken, and who took it is done.
Over(f, s) == spent[f][s] = 1 /\ \A r \in Request : ~Holds(r, f, s)

\* Before /authorize there is nothing of a login.
NothingBeforeAuthorize == \A f \in Login : flow[f] = None => \A s \in Stage : ~Opened(f, s)

\* A row that was taken and is still there says so: the state that `take`
\* compares.
TakenRowsAreUsed ==
    \A f \in Login, s \in Stage :
        /\ spent[f][s] <= 1
        /\ spent[f][s] > 0 /\ rows[f][s] # None => rows[f][s].used

\* One request goes on with a stage that was taken.
OneHolder ==
    \A r \in Request, f \in Login, s \in Stage : Holds(r, f, s) =>
        spent[f][s] = 1 /\ \A q \in Request : Holds(q, f, s) => q = r

\* A stage is opened when the one before it is over.
StagesInTurn ==
    \A f \in Login :
        /\ Opened(f, "consent") => flow[f].client \in Careful
        /\ Opened(f, "upstream") /\ flow[f].client \in Careful =>
              Over(f, "consent") /\ decision[f] = "allow"
        /\ Opened(f, "code") => Over(f, "upstream")

\* A request is about an opened stage, and where its handler has got to.
RequestsInTurn ==
    \A r \in Request : req[r] # None =>
        /\ Opened(req[r].login, req[r].stage)
        /\ req[r].pc = "upstream" => req[r].stage = "consent" /\ req[r].allow
        /\ req[r].pc = "exchange" => req[r].stage = "upstream"
        /\ req[r].pc \in {"issue", "answer"} => req[r].stage = "code"

\* The decision is what the request said that took the ticket.
DecisionsAreTaken ==
    /\ \A f \in Login : spent[f]["consent"] = 0 => decision[f] = None
    /\ \A r \in Request, f \in Login : Holds(r, f, "consent") =>
          decision[f] = IF req[r].allow THEN "allow" ELSE "deny"

\* p may act for f: no more scopes than asked for and confirmed, no longer
\* than the account.
ActsWithin(f, p) ==
    /\ account[f] # None
    /\ p.scopes \subseteq account[f].scopes \cap flow[f].scope
    /\ account[f].expires # None => p.expires <= account[f].expires

PrincipalsAreGranted ==
    /\ \A f \in Login : rows[f]["code"] # None =>
          rows[f]["code"].principal \in Principal /\ ActsWithin(f, rows[f]["code"].principal)
    /\ \A r \in Request : req[r] # None /\ req[r].stage = "code" =>
          req[r].principal \in Principal /\ ActsWithin(req[r].login, req[r].principal)

TokensAreGranted ==
    \A f \in Login : token[f] # None =>
        /\ ActsWithin(f, token[f])
        /\ token[f].client = flow[f].client
        /\ token[f].until >= token[f].expires

\* A code is turned into a token once, by who took it.
IssuedOnce ==
    \A f \in Login : token[f] # None \/ told[f] > 0 \/ f \in revoked =>
        /\ spent[f]["code"] = 1
        /\ \A r \in Request : Holds(r, f, "code") => req[r].pc = "answer"

\* The lifetime that was or will be told is the token's.
ToldIsTheToken ==
    \A f \in Login :
        /\ told[f] > 0 => f \in revoked \/ (token[f] # None /\ told[f] <= token[f].expires)
        /\ \A r \in Request : Holds(r, f, "code") /\ req[r].pc = "answer" =>
              f \in revoked \/ (token[f] # None /\ token[f].expires = req[r].principal.expires)

IInv ==
    /\ TypeOK
    /\ NothingBeforeAuthorize
    /\ TakenRowsAreUsed
    /\ OneHolder
    /\ StagesInTurn
    /\ RequestsInTurn
    /\ DecisionsAreTaken
    /\ PrincipalsAreGranted
    /\ TokensAreGranted
    /\ IssuedOnce
    /\ ToldIsTheToken

LEMMA InitIInv == Init => IInv
<1> SUFFICES ASSUME Init PROVE IInv
    OBVIOUS
<1> USE OAuthServerConstants DEF Init, Opened, Holds, Over
<1>1. TypeOK
    BY DEF TypeOK
<1>2. NothingBeforeAuthorize /\ TakenRowsAreUsed /\ OneHolder /\ StagesInTurn
    BY DEF NothingBeforeAuthorize, TakenRowsAreUsed, OneHolder, StagesInTurn, Stage
<1>3. RequestsInTurn /\ DecisionsAreTaken /\ PrincipalsAreGranted
    BY DEF RequestsInTurn, DecisionsAreTaken, PrincipalsAreGranted, Stage
<1>4. TokensAreGranted /\ IssuedOnce /\ ToldIsTheToken
    BY DEF TokensAreGranted, IssuedOnce, ToldIsTheToken
<1> QED
    BY <1>1, <1>2, <1>3, <1>4 DEF IInv

\* What a step of r on a stage it holds, or that ends r, does to the rest:
\* nobody else is affected.
LEMMA HoldersOnlyLeave ==
    ASSUME TypeOK, NEW r \in Request, Done(r)
    PROVE  /\ \A q \in Request : q # r => req'[q] = req[q]
           /\ req'[r] = None
           /\ req' \in [Request -> Handling \cup {None}]
           /\ \A q \in Request, f \in Login, s \in Stage : Holds(q, f, s)' => Holds(q, f, s) /\ req'[q] = req[q]
BY DEF TypeOK, Done, Holds

\* What a step of r to its next await leaves as it is.
LEMMA GoingOn ==
    ASSUME TypeOK, NEW r \in Request, req[r] # None, NEW pc \in Pc, GoTo(r, pc)
    PROVE  /\ req' \in [Request -> Handling \cup {None}]
           /\ req'[r] \in Handling /\ req'[r].pc = pc
           /\ req'[r].login = req[r].login /\ req'[r].stage = req[r].stage
           /\ req'[r].allow = req[r].allow /\ req'[r].principal = req[r].principal
           /\ \A q \in Request : q # r => req'[q] = req[q]
<1>1. req[r] \in Handling
    BY DEF TypeOK
<1> QED
    BY <1>1 DEF TypeOK, GoTo, Handling

\* A step that only ends a request.
LEMMA EndIInv ==
    ASSUME IInv, NEW r \in Request, Done(r),
           UNCHANGED <<now, sealed, flow, rows, token, told, history>>
    PROVE  IInv'
<1> USE OAuthServerConstants, HoldersOnlyLeave DEF IInv, history, Opened, ActsWithin
<1>0. Stage = {"consent", "upstream", "code"}
    BY DEF Stage
<1>1. TypeOK'
    BY DEF TypeOK
<1>2. NothingBeforeAuthorize' /\ TakenRowsAreUsed'
    BY DEF NothingBeforeAuthorize, TakenRowsAreUsed
<1>3. OneHolder'
    BY DEF OneHolder
<1>4. StagesInTurn'
    BY <1>0 DEF StagesInTurn, Over
<1>5. RequestsInTurn' /\ DecisionsAreTaken'
    BY <1>0 DEF RequestsInTurn, DecisionsAreTaken
<1>6. PrincipalsAreGranted' /\ TokensAreGranted'
    BY DEF PrincipalsAreGranted, TokensAreGranted
<1>7. IssuedOnce' /\ ToldIsTheToken'
    BY <1>0 DEF IssuedOnce, ToldIsTheToken
<1> QED
    BY <1>1, <1>2, <1>3, <1>4, <1>5, <1>6, <1>7

\* A step that admits a request for a stage whose row is readable.
LEMMA AdmittedIInv ==
    ASSUME IInv, NEW r \in Request, NEW f \in Login, NEW s \in Stage, NEW allow \in BOOLEAN,
           req[r] = None, Readable(f, s), Admitted(r, f, s, allow)
    PROVE  IInv'
<1> USE OAuthServerConstants DEF IInv, Admitted, history, Opened, ActsWithin
<1> DEFINE new == [login |-> f, stage |-> s, pc |-> "take", allow |-> allow,
                   principal |-> rows[f][s].principal]
<1>1. /\ rows[f][s] # None /\ rows[f][s] \in Row
      /\ new \in Handling
    BY DEF Readable, Alive, TypeOK, Row, Handling, Pc
<1>2. /\ req' = [req EXCEPT ![r] = new]
      /\ req' \in [Request -> Handling \cup {None}]
      /\ req'[r] = new /\ \A q \in Request : q # r => req'[q] = req[q]
    BY <1>1 DEF TypeOK
<1>3. new.login = f /\ new.stage = s /\ new.pc = "take" /\ new.principal = rows[f][s].principal
    OBVIOUS
<1> HIDE DEF new
<1>4. \A q \in Request, g \in Login, t \in Stage : Holds(q, g, t)' => Holds(q, g, t) /\ req'[q] = req[q]
    BY <1>2, <1>3 DEF Holds
<1>5. TypeOK'
    BY <1>2 DEF TypeOK
<1>6. NothingBeforeAuthorize' /\ TakenRowsAreUsed'
    BY DEF NothingBeforeAuthorize, TakenRowsAreUsed
<1>7. OneHolder'
    BY <1>4 DEF OneHolder
<1>8. StagesInTurn'
    BY <1>4 DEF StagesInTurn, Over, Stage
<1>9. RequestsInTurn' /\ DecisionsAreTaken'
    BY <1>1, <1>2, <1>3, <1>4 DEF RequestsInTurn, DecisionsAreTaken, Stage
<1>10. PrincipalsAreGranted' /\ TokensAreGranted'
    BY <1>1, <1>2, <1>3, SMTT(60) DEF PrincipalsAreGranted, TokensAreGranted
<1>11. IssuedOnce' /\ ToldIsTheToken'
    BY <1>4 DEF IssuedOnce, ToldIsTheToken, Stage
<1> QED
    BY <1>5, <1>6, <1>7, <1>8, <1>9, <1>10, <1>11

\* What `take` leaves of a row.
LEMMA UsedRow ==
    ASSUME NEW row \in Row, NEW until \in Nat
    PROVE  /\ [row EXCEPT !.used = TRUE, !.until = until] \in Row
           /\ [row EXCEPT !.used = TRUE, !.until = until].used
           /\ [row EXCEPT !.used = TRUE, !.until = until].principal = row.principal
BY DEF Row

\* Who takes a stage is the first, and holds it alone.
LEMMA TakeIInv ==
    ASSUME IInv, NEW r \in Request, Take(r)
    PROVE  IInv'
<1> USE OAuthServerConstants DEF IInv, history
<1> DEFINE f == req[r].login
           s == req[r].stage
<1>0. req[r] # None /\ req[r] \in Handling /\ f \in Login /\ s \in Stage /\ req[r].pc = "take"
    BY DEF Take, At, TypeOK, Handling
<1>1. CASE ~Takeable(f, s)
    BY <1>1, EndIInv DEF Take
<1>2. CASE Takeable(f, s)
    <2>1. /\ rows[f][s] # None /\ rows[f][s] \in Row /\ ~rows[f][s].used
          /\ spent[f][s] = 0
        BY <1>0, <1>2 DEF Takeable, Readable, Alive, TypeOK, TakenRowsAreUsed
    <2> DEFINE taken == [rows[f][s] EXCEPT !.used = TRUE, !.until = now + FlowTtl]
    <2>2. taken \in Row /\ taken.used /\ taken.principal = rows[f][s].principal
        <3>1. now + FlowTtl \in Nat
            BY DEF TypeOK
        <3> HIDE DEF f, s
        <3> QED
            BY <2>1, <3>1, UsedRow
    <2>3. /\ rows' = [rows EXCEPT ![f][s] = taken]
          /\ spent' = [spent EXCEPT ![f][s] = spent[f][s] + 1]
          /\ decision' = IF s = "consent" /\ decision[f] = None
                         THEN [decision EXCEPT ![f] = IF req[r].allow THEN "allow" ELSE "deny"]
                         ELSE decision
          /\ req' = [req EXCEPT ![r] = [req[r] EXCEPT !.pc = "delete"]]
          /\ UNCHANGED <<now, sealed, flow, token, told, account, revoked>>
        BY <1>2, <2>2 DEF Take, GoTo
    <2>4. /\ req'[r] \in Handling /\ req' \in [Request -> Handling \cup {None}]
          /\ req'[r].login = f /\ req'[r].stage = s /\ req'[r].pc = "delete"
          /\ req'[r].allow = req[r].allow /\ req'[r].principal = req[r].principal
          /\ \A q \in Request : q # r => req'[q] = req[q]
        BY <1>0, <2>3 DEF TypeOK, Handling, Pc
    <2> HIDE DEF f, s, taken
    <2>5. \A g \in Login, t \in Stage :
            /\ rows'[g][t] = IF g = f /\ t = s THEN taken ELSE rows[g][t]
            /\ spent'[g][t] = IF g = f /\ t = s THEN 1 ELSE spent[g][t]
        BY <1>0, <2>1, <2>3 DEF TypeOK
    <2>6. /\ \A q \in Request, g \in Login, t \in Stage :
               Holds(q, g, t)' => (Holds(q, g, t) /\ req'[q] = req[q]) \/ (q = r /\ g = f /\ t = s)
          /\ \A q \in Request : ~Holds(q, f, s)
        BY <1>0, <2>1, <2>4 DEF Holds, OneHolder
    <2>7. TypeOK'
        BY <1>0, <2>1, <2>2, <2>3, <2>4 DEF TypeOK
    <2>8. NothingBeforeAuthorize' /\ TakenRowsAreUsed'
        BY <1>0, <2>1, <2>2, <2>3, <2>5 DEF NothingBeforeAuthorize, TakenRowsAreUsed, Opened
    <2>9. OneHolder'
        BY <1>0, <2>5, <2>6 DEF OneHolder
    <2>10. StagesInTurn'
        BY <1>0, <2>1, <2>2, <2>3, <2>5, <2>6 DEF StagesInTurn, Over, Stage, Opened
    <2>11. RequestsInTurn' /\ DecisionsAreTaken'
        <3>1. Opened(f, s) /\ \A g \in Login, t \in Stage : Opened(g, t) => Opened(g, t)'
            BY <1>0, <2>1, <2>2, <2>5 DEF Opened
        <3>2. \A q \in Request : req[q] # None => req[q].login \in Login /\ req[q].stage \in Stage
            BY DEF TypeOK, Handling
        <3>3. RequestsInTurn'
            BY <1>0, <2>4, <3>1, <3>2 DEF RequestsInTurn
        <3>4. DecisionsAreTaken'
            <4>1. CASE s = "consent"
                <5>1. decision[f] = None /\ \A g \in Login : decision'[g] =
                        IF g = f THEN (IF req[r].allow THEN "allow" ELSE "deny") ELSE decision[g]
                    BY <1>0, <2>1, <2>3, <4>1 DEF TypeOK, DecisionsAreTaken
                <5> QED
                    BY <1>0, <2>4, <2>5, <2>6, <4>1, <5>1 DEF DecisionsAreTaken, Stage
            <4>2. CASE s # "consent"
                BY <1>0, <2>3, <2>5, <2>6, <4>2 DEF DecisionsAreTaken, Stage
            <4> QED
                BY <4>1, <4>2
        <3> QED
            BY <3>3, <3>4
    <2>12. PrincipalsAreGranted' /\ TokensAreGranted'
        BY <1>0, <2>1, <2>2, <2>3, <2>4, <2>5, <2>6, SMTT(60) DEF PrincipalsAreGranted, TokensAreGranted, ActsWithin
    <2>13. IssuedOnce' /\ ToldIsTheToken'
        BY <1>0, <2>1, <2>2, <2>3, <2>4, <2>5, <2>6 DEF IssuedOnce, ToldIsTheToken, Stage
    <2> QED
        BY <2>7, <2>8, <2>9, <2>10, <2>11, <2>12, <2>13
<1> QED
    BY <1>1, <1>2

\* The row goes, and its stage stays opened: it was taken.
LEMMA DeleteIInv ==
    ASSUME IInv, NEW r \in Request, Delete(r)
    PROVE  IInv'
<1> USE OAuthServerConstants DEF IInv, history
<1> DEFINE f == req[r].login
           s == req[r].stage
<1>0. /\ req[r] # None /\ req[r] \in Handling /\ f \in Login /\ s \in Stage /\ req[r].pc = "delete"
      /\ Holds(r, f, s) /\ spent[f][s] = 1
    BY DEF Delete, At, TypeOK, Handling, Holds, OneHolder
<1>1. /\ rows' = [rows EXCEPT ![f][s] = None]
      /\ Done(r) \/ (Onward(r) # "end" /\ GoTo(r, Onward(r)))
      /\ UNCHANGED <<now, sealed, flow, token, told, decision, account, spent, revoked>>
    BY DEF Delete
<1>2. Onward(r) # "end" =>
        /\ Onward(r) \in Pc
        /\ Onward(r) = "upstream" => s = "consent" /\ req[r].allow
        /\ Onward(r) = "exchange" => s = "upstream"
        /\ Onward(r) \in {"issue", "answer"} => s = "code"
        /\ Onward(r) # "answer"
    BY <1>0 DEF Onward, AfterConsent, Stage, Pc
<1>3. /\ req' \in [Request -> Handling \cup {None}]
      /\ req'[r] # None => /\ req'[r].login = f /\ req'[r].stage = s
                           /\ Onward(r) # "end" /\ req'[r].pc = Onward(r)
                           /\ req'[r].allow = req[r].allow /\ req'[r].principal = req[r].principal
      /\ \A q \in Request : q # r => req'[q] = req[q]
    <2>1. CASE Done(r)
        BY <2>1, HoldersOnlyLeave
    <2>2. CASE Onward(r) # "end" /\ GoTo(r, Onward(r))
        BY <1>0, <1>2, <2>2, GoingOn
    <2> QED
        BY <1>1, <2>1, <2>2
<1> HIDE DEF f, s
<1>4. /\ \A g \in Login, t \in Stage : rows'[g][t] = IF g = f /\ t = s THEN None ELSE rows[g][t]
      /\ \A g \in Login, t \in Stage : Opened(g, t) <=> Opened(g, t)'
    BY <1>0, <1>1 DEF TypeOK, Opened
<1>5. \A q \in Request, g \in Login, t \in Stage : Holds(q, g, t)' =>
        /\ Holds(q, g, t)
        /\ req'[q].allow = req[q].allow /\ req'[q].principal = req[q].principal
        /\ \/ q = r /\ g = f /\ t = s /\ req'[q].pc = Onward(r)
           \/ q # r /\ req'[q].pc = req[q].pc
    BY <1>0, <1>3 DEF Holds
<1>6. TypeOK'
    BY <1>0, <1>1, <1>3 DEF TypeOK
<1>7. NothingBeforeAuthorize' /\ TakenRowsAreUsed'
    BY <1>1, <1>4 DEF NothingBeforeAuthorize, TakenRowsAreUsed
<1>8. OneHolder'
    BY <1>1, <1>5 DEF OneHolder
<1>9. StagesInTurn'
    BY <1>1, <1>4, <1>5 DEF StagesInTurn, Over, Stage
<1>10. RequestsInTurn'
    <2>1. Opened(f, s)
        BY <1>0 DEF Opened
    <2>2. \A q \in Request : req[q] # None => req[q].login \in Login /\ req[q].stage \in Stage
        BY DEF TypeOK, Handling
    <2> QED
        BY <1>0, <1>2, <1>3, <1>4, <2>1, <2>2 DEF RequestsInTurn
<1>11. DecisionsAreTaken'
    BY <1>1, <1>5 DEF DecisionsAreTaken, Stage
<1>12. PrincipalsAreGranted' /\ TokensAreGranted'
    <2>1. s = req[r].stage /\ f = req[r].login
        BY DEF s, f
    <2>2. UNCHANGED <<account, flow, token>>
        BY <1>1
    <2>3. \A g \in Login : rows'[g]["code"] # None => rows'[g]["code"] = rows[g]["code"]
        BY <1>4 DEF Stage
    <2>4. \A q \in Request : req'[q] # None /\ req'[q].stage = "code" =>
                /\ req[q] # None /\ req[q].stage = "code"
                /\ req'[q].login = req[q].login /\ req'[q].principal = req[q].principal
        BY <1>0, <1>3, <2>1
    <2>5. PrincipalsAreGranted'
        <3>1. /\ \A g \in Login : rows[g]["code"] # None =>
                        rows[g]["code"].principal \in Principal /\ ActsWithin(g, rows[g]["code"].principal)
              /\ \A q \in Request : req[q] # None /\ req[q].stage = "code" =>
                        req[q].principal \in Principal /\ ActsWithin(req[q].login, req[q].principal)
            BY DEF PrincipalsAreGranted
        <3>2. \A g \in Login : rows'[g]["code"] # None =>
                    rows'[g]["code"].principal \in Principal /\ ActsWithin(g, rows'[g]["code"].principal)
            BY ONLY <2>3, <3>1
        <3>3. \A q \in Request : req'[q] # None /\ req'[q].stage = "code" =>
                    req'[q].principal \in Principal /\ ActsWithin(req'[q].login, req'[q].principal)
            BY ONLY <2>4, <3>1
        <3> QED
            BY ONLY <2>2, <3>2, <3>3 DEF PrincipalsAreGranted, ActsWithin
    <2>6. TokensAreGranted'
        BY <2>2 DEF TokensAreGranted, ActsWithin
    <2> QED
        BY <2>5, <2>6
<1>13. IssuedOnce' /\ ToldIsTheToken'
    BY <1>0, <1>1, <1>2, <1>5 DEF IssuedOnce, ToldIsTheToken, Stage, Holds
<1> QED
    BY <1>6, <1>7, <1>8, <1>9, <1>10, <1>11, <1>12, <1>13

\* A stage is opened by putting its row.
LEMMA PutOpens ==
    ASSUME TypeOK, NEW f \in Login, NEW s \in Stage, NEW principal \in Principal \cup {None},
           put(f, s, principal), UNCHANGED spent
    PROVE  /\ rows' \in [Login -> [Stage -> Row \cup {None}]]
           /\ ~rows'[f][s].used /\ rows'[f][s].principal = principal
           /\ \A g \in Login, t \in Stage : g # f \/ t # s => rows'[g][t] = rows[g][t]
           /\ \A g \in Login, t \in Stage : g # f \/ t # s => (Opened(g, t) <=> Opened(g, t)')
           /\ \A g \in Login, t \in Stage : ~Opened(f, s) /\ Opened(g, t) => Opened(g, t)'
<1> DEFINE row == [used |-> FALSE, until |-> now + FlowTtl, principal |-> principal]
<1>1. row \in Row /\ ~row.used /\ row.principal = principal
    BY OAuthServerConstants DEF Row, TypeOK
<1>2. rows' = [rows EXCEPT ![f][s] = row]
    BY DEF put
<1> HIDE DEF row
<1>3. /\ rows' \in [Login -> [Stage -> Row \cup {None}]]
      /\ rows'[f][s] = row
      /\ \A g \in Login, t \in Stage : g # f \/ t # s => rows'[g][t] = rows[g][t]
    BY <1>1, <1>2 DEF TypeOK
<1> QED
    BY <1>1, <1>3 DEF Opened

LEMMA AuthorizeIInv ==
    ASSUME IInv, NEW f \in Login, NEW c \in Client, NEW b \in Browser, NEW v \in Verifier,
           NEW scope \in SUBSET Scope, handle_authorize(f, c, b, v, scope)
    PROVE  IInv'
<1> USE OAuthServerConstants DEF IInv, history
<1> DEFINE s == FirstStage(c)
           asked == [client |-> c, browser |-> b, challenge |-> v, scope |-> scope]
<1>0. /\ s \in Stage /\ s # "code" /\ (s = "consent") = (c \in Careful)
      /\ flow[f] = None /\ asked \in Flow /\ asked.client = c
      /\ \A t \in Stage : ~Opened(f, t)
    BY DEF FirstStage, Stage, handle_authorize, Flow, NothingBeforeAuthorize
<1>1. /\ flow' = [flow EXCEPT ![f] = asked]
      /\ put(f, s, None)
      /\ UNCHANGED <<now, sealed, token, told, req, decision, account, spent, revoked>>
    BY DEF handle_authorize
<1> HIDE DEF s, asked
<1>2. /\ rows' \in [Login -> [Stage -> Row \cup {None}]]
      /\ ~rows'[f][s].used
      /\ \A g \in Login, t \in Stage : g # f \/ t # s => rows'[g][t] = rows[g][t]
      /\ \A g \in Login, t \in Stage : g # f \/ t # s => (Opened(g, t) <=> Opened(g, t)')
      /\ \A g \in Login, t \in Stage : Opened(g, t) => Opened(g, t)'
    BY <1>0, <1>1, PutOpens
<1>3. /\ flow' \in [Login -> Flow \cup {None}]
      /\ flow'[f] = asked /\ flow'[f] # None
      /\ \A g \in Login : g # f => flow'[g] = flow[g]
    BY <1>0, <1>1 DEF TypeOK
<1>4. /\ \A t \in Stage : spent[f][t] = 0 /\ rows[f][t] = None
      /\ \A r \in Request, t \in Stage : ~Holds(r, f, t)
      /\ \A r \in Request : req[r] # None => /\ req[r].login \in Login /\ req[r].stage \in Stage
                                              /\ req[r].login # f
    <2>1. \A t \in Stage : spent[f][t] = 0 /\ rows[f][t] = None
        BY <1>0 DEF Opened, TypeOK
    <2>2. \A r \in Request : req[r] # None => req[r].login \in Login /\ req[r].stage \in Stage
        BY DEF TypeOK, Handling
    <2> QED
        BY <1>0, <2>1, <2>2 DEF RequestsInTurn, Holds
<1>5. \A r \in Request, g \in Login, t \in Stage : Holds(r, g, t)' <=> Holds(r, g, t)
    BY <1>1 DEF Holds
<1>6. TypeOK'
    BY <1>1, <1>2, <1>3 DEF TypeOK
<1>7. NothingBeforeAuthorize' /\ TakenRowsAreUsed'
    BY <1>0, <1>1, <1>2, <1>3, <1>4 DEF NothingBeforeAuthorize, TakenRowsAreUsed
<1>8. OneHolder'
    BY <1>1, <1>5 DEF OneHolder
<1>9. StagesInTurn'
    BY <1>0, <1>1, <1>2, <1>3, <1>4, <1>5 DEF StagesInTurn, Over, Stage
<1>10. RequestsInTurn'
    BY <1>1, <1>2, <1>4 DEF RequestsInTurn
<1>11. DecisionsAreTaken'
    BY <1>1, <1>5 DEF DecisionsAreTaken, Stage
<1>12. PrincipalsAreGranted' /\ TokensAreGranted'
    <2>1. token[f] = None
        BY <1>4 DEF IssuedOnce, Stage
    <2> QED
        BY <1>0, <1>1, <1>2, <1>3, <1>4, <2>1 DEF PrincipalsAreGranted, TokensAreGranted, ActsWithin, Stage
<1>13. IssuedOnce' /\ ToldIsTheToken'
    BY <1>1, <1>5 DEF IssuedOnce, ToldIsTheToken, Stage
<1> QED
    BY <1>6, <1>7, <1>8, <1>9, <1>10, <1>11, <1>12, <1>13

\* The consent was given, and who took its ticket goes on to the provider.
LEMMA StartUpstreamIInv ==
    ASSUME IInv, NEW r \in Request, start_upstream(r)
    PROVE  IInv'
<1> USE OAuthServerConstants DEF IInv, history
<1>a. PICK f \in Login : f = req[r].login
    BY DEF start_upstream, At, TypeOK, Handling
<1>0. /\ req[r] # None /\ req[r].pc = "upstream" /\ req[r].stage = "consent"
      /\ req[r].allow /\ Holds(r, f, "consent")
    BY <1>a DEF start_upstream, At, Holds, RequestsInTurn
<1>1. /\ put(f, "upstream", None) /\ Done(r)
      /\ UNCHANGED <<now, sealed, flow, token, told, decision, account, spent, revoked>>
    BY <1>a DEF start_upstream
<1>2. /\ flow[f] # None /\ flow[f].client \in Careful /\ decision[f] = "allow"
      /\ ~Opened(f, "upstream") /\ ~Opened(f, "code")
      /\ spent[f]["consent"] = 1 /\ spent[f]["upstream"] = 0
    <2>1. flow[f].client \in Careful /\ decision[f] = "allow" /\ spent[f]["consent"] = 1
        BY <1>0 DEF StagesInTurn, Opened, OneHolder, DecisionsAreTaken, Stage
    <2>2. ~Opened(f, "upstream")
        BY <1>0, <2>1 DEF StagesInTurn, Over
    <2>3. spent[f]["upstream"] = 0
        BY <1>0, <2>2 DEF Opened, TypeOK, Stage
    <2> QED
        BY <1>0, <2>1, <2>2, <2>3 DEF StagesInTurn, Over, Opened, NothingBeforeAuthorize, Stage
<1>3. /\ rows' \in [Login -> [Stage -> Row \cup {None}]]
      /\ \A g \in Login, t \in Stage : g # f \/ t # "upstream" => rows'[g][t] = rows[g][t]
      /\ \A g \in Login, t \in Stage : g # f \/ t # "upstream" => (Opened(g, t) <=> Opened(g, t)')
      /\ \A g \in Login, t \in Stage : Opened(g, t) => Opened(g, t)'
    BY <1>0, <1>1, <1>2, PutOpens DEF Stage
<1>4. /\ \A q \in Request, g \in Login, t \in Stage : Holds(q, g, t)' => Holds(q, g, t) /\ req'[q] = req[q]
      /\ \A q \in Request : ~Holds(q, f, "consent")'
    <2>1. \A q \in Request, g \in Login, t \in Stage : Holds(q, g, t)' => Holds(q, g, t) /\ req'[q] = req[q]
        BY <1>1, HoldersOnlyLeave
    <2>2. \A q \in Request : Holds(q, f, "consent") => q = r
        BY <1>0 DEF OneHolder, Stage
    <2>3. ~Holds(r, f, "consent")'
        BY <1>1, HoldersOnlyLeave DEF Holds
    <2> QED
        BY <1>0, <2>1, <2>2, <2>3 DEF Stage
<1>5. TypeOK'
    BY <1>1, <1>3, HoldersOnlyLeave DEF TypeOK
<1>6. NothingBeforeAuthorize' /\ TakenRowsAreUsed'
    BY <1>0, <1>1, <1>2, <1>3 DEF NothingBeforeAuthorize, TakenRowsAreUsed
<1>7. OneHolder'
    BY <1>1, <1>4 DEF OneHolder
<1>8. StagesInTurn'
    <2>1. Over(f, "consent")' /\ \A g \in Login, t \in Stage : Over(g, t) => Over(g, t)'
        BY <1>1, <1>2, <1>4 DEF Over
    <2>2. \A g \in Login, t \in Stage : Opened(g, t)' => Opened(g, t) \/ (g = f /\ t = "upstream")
        BY <1>3
    <2> QED
        BY <1>1, <1>2, <2>1, <2>2 DEF StagesInTurn, Stage
<1>9. RequestsInTurn'
    <2>1. \A q \in Request : req[q] # None => req[q].login \in Login /\ req[q].stage \in Stage
        BY DEF TypeOK, Handling
    <2> QED
        BY <1>1, <1>3, <2>1, HoldersOnlyLeave DEF RequestsInTurn
<1>10. DecisionsAreTaken'
    BY <1>1, <1>4 DEF DecisionsAreTaken, Stage
<1>11. PrincipalsAreGranted' /\ TokensAreGranted'
    BY <1>0, <1>1, <1>3, HoldersOnlyLeave DEF PrincipalsAreGranted, TokensAreGranted, ActsWithin, Stage
<1>12. IssuedOnce' /\ ToldIsTheToken'
    BY <1>1, <1>4 DEF IssuedOnce, ToldIsTheToken, Stage
<1> QED
    BY <1>5, <1>6, <1>7, <1>8, <1>9, <1>10, <1>11, <1>12

\* The provider confirmed an account: the code is stored with the principal
\* it will become.
LEMMA SignInIInv ==
    ASSUME IInv, NEW r \in Request, NEW scopes \in SUBSET Scope, NEW expires \in Expiry \cup {None},
           SignIn(r, scopes, expires)
    PROVE  IInv'
<1> USE OAuthServerConstants DEF IInv, history
<1>a. PICK f \in Login : f = req[r].login
    BY DEF SignIn, At, TypeOK, Handling
<1> DEFINE principal == [scopes |-> flow[f].scope, expires |-> PrincipalExpiry(expires)]
           confirmed == [scopes |-> scopes, expires |-> expires]
<1>0. req[r] # None /\ req[r].pc = "exchange" /\ req[r].stage = "upstream" /\ Holds(r, f, "upstream")
    BY <1>a DEF SignIn, At, Holds, RequestsInTurn
<1>1. CASE ~AccountMay(f, scopes, expires)
    BY <1>1, <1>a, EndIInv DEF SignIn
<1>2. CASE AccountMay(f, scopes, expires)
    <2>1. /\ put(f, "code", principal) /\ Done(r)
          /\ account' = [account EXCEPT ![f] = confirmed]
          /\ UNCHANGED <<now, sealed, flow, token, told, decision, spent, revoked>>
        BY <1>2, <1>a DEF SignIn
    <2>2. /\ ~Opened(f, "code") /\ spent[f]["code"] = 0
          /\ flow[f] \in Flow
          /\ spent[f]["upstream"] = 1
          /\ token[f] = None /\ ~(told[f] > 0) /\ f \notin revoked
        <3>1. ~Opened(f, "code") /\ spent[f]["upstream"] = 1
            BY <1>0 DEF StagesInTurn, Over, OneHolder, Stage
        <3>2. spent[f]["code"] = 0
            BY <3>1 DEF Opened, TypeOK, Stage
        <3>3. flow[f] # None
            BY <3>1 DEF NothingBeforeAuthorize, Opened, Stage
        <3> QED
            BY <3>1, <3>2, <3>3 DEF TypeOK, IssuedOnce
    <2>3. /\ principal \in Principal /\ confirmed \in Account /\ confirmed # None
          /\ principal.scopes \subseteq confirmed.scopes \cap flow[f].scope
          /\ confirmed.expires # None => principal.expires <= confirmed.expires
        <3>1. /\ PrincipalExpiry(expires) \in Nat
              /\ expires # None => PrincipalExpiry(expires) <= expires
            BY DEF PrincipalExpiry, TypeOK
        <3>2. flow[f].scope \subseteq scopes /\ flow[f].scope \subseteq Scope
            BY <1>2, <2>2 DEF AccountMay, Flow
        <3> QED
            BY <3>1, <3>2 DEF Principal, Account
    <2> HIDE DEF principal, confirmed
    <2>4. PICK p \in Principal : p = principal
        BY <2>3
    <2>5. /\ rows' \in [Login -> [Stage -> Row \cup {None}]]
          /\ ~rows'[f]["code"].used /\ rows'[f]["code"].principal = p
          /\ \A g \in Login, t \in Stage : g # f \/ t # "code" => rows'[g][t] = rows[g][t]
          /\ \A g \in Login, t \in Stage : g # f \/ t # "code" => (Opened(g, t) <=> Opened(g, t)')
          /\ \A g \in Login, t \in Stage : Opened(g, t) => Opened(g, t)'
        <3>1. put(f, "code", p) /\ UNCHANGED spent
            BY <2>1, <2>4
        <3> QED
            BY <2>2, <3>1, PutOpens DEF Stage
    <2>6. /\ \A q \in Request, g \in Login, t \in Stage : Holds(q, g, t)' => Holds(q, g, t) /\ req'[q] = req[q]
          /\ \A q \in Request : ~Holds(q, f, "upstream")'
        <3>1. \A q \in Request, g \in Login, t \in Stage : Holds(q, g, t)' => Holds(q, g, t) /\ req'[q] = req[q]
            BY <2>1, HoldersOnlyLeave
        <3>2. \A q \in Request : Holds(q, f, "upstream") => q = r
            BY <1>0 DEF OneHolder, Stage
        <3>3. ~Holds(r, f, "upstream")'
            BY <2>1, HoldersOnlyLeave DEF Holds
        <3> QED
            BY <3>1, <3>2, <3>3 DEF Stage
    <2>7. /\ account' \in [Login -> Account \cup {None}]
          /\ ActsWithin(f, p)'
          /\ \A g \in Login : g # f => account'[g] = account[g]
        BY <2>1, <2>3, <2>4 DEF TypeOK, ActsWithin
    <2>8. \A q \in Request : req[q] # None => req[q].login \in Login /\ req[q].stage \in Stage
        BY DEF TypeOK, Handling
    <2>9. TypeOK'
        BY <2>1, <2>5, <2>7, HoldersOnlyLeave DEF TypeOK
    <2>10. NothingBeforeAuthorize' /\ TakenRowsAreUsed'
        BY <2>1, <2>2, <2>5 DEF NothingBeforeAuthorize, TakenRowsAreUsed, Flow
    <2>11. OneHolder'
        BY <2>1, <2>6 DEF OneHolder
    <2>12. StagesInTurn'
        <3>1. Over(f, "upstream")' /\ \A g \in Login, t \in Stage : Over(g, t) => Over(g, t)'
            BY <2>1, <2>2, <2>6 DEF Over
        <3>2. \A g \in Login, t \in Stage : Opened(g, t)' => Opened(g, t) \/ (g = f /\ t = "code")
            BY <2>5
        <3> QED
            BY <2>1, <3>1, <3>2 DEF StagesInTurn, Stage
    <2>13. RequestsInTurn'
        BY <2>1, <2>5, <2>8, HoldersOnlyLeave DEF RequestsInTurn
    <2>14. DecisionsAreTaken'
        BY <2>1, <2>6 DEF DecisionsAreTaken, Stage
    <2>15. PrincipalsAreGranted' /\ TokensAreGranted'
        <3>1. \A q \in Request : req[q] # None /\ req[q].stage = "code" => req[q].login # f
            BY <2>2 DEF RequestsInTurn
        <3>2. \A q \in Request : req'[q] # None => req'[q] = req[q]
            BY <2>1, HoldersOnlyLeave
        <3>3. \A g \in Login : \A x : g # f /\ ActsWithin(g, x) => ActsWithin(g, x)'
            BY <2>1, <2>7 DEF ActsWithin
        <3>4. PrincipalsAreGranted'
            BY <2>5, <2>7, <2>8, <3>1, <3>2, <3>3 DEF PrincipalsAreGranted, Stage
        <3>5. TokensAreGranted'
            BY <2>1, <2>2, <3>3 DEF TokensAreGranted, ActsWithin
        <3> QED
            BY <3>4, <3>5
    <2>16. IssuedOnce' /\ ToldIsTheToken'
        BY <2>1, <2>6 DEF IssuedOnce, ToldIsTheToken, Stage
    <2> QED
        BY <2>9, <2>10, <2>11, <2>12, <2>13, <2>14, <2>15, <2>16
<1> QED
    BY <1>1, <1>2

\* The token gets the lifetime of the principal, in the store a little more.
LEMMA IssueIInv ==
    ASSUME IInv, NEW r \in Request, issue(r)
    PROVE  IInv'
<1> USE OAuthServerConstants DEF IInv, history
<1>a. PICK f \in Login : f = req[r].login
    BY DEF issue, At, TypeOK, Handling
<1> DEFINE p == req[r].principal
           new == [client |-> flow[f].client, scopes |-> p.scopes, expires |-> p.expires,
                   until |-> now + StoredFor(p.expires)]
<1>0. /\ req[r] # None /\ req[r].pc = "issue" /\ req[r].stage = "code"
      /\ Holds(r, f, "code") /\ spent[f]["code"] = 1
      /\ p \in Principal /\ ActsWithin(f, p)
    BY <1>a DEF issue, At, Holds, RequestsInTurn, PrincipalsAreGranted, OneHolder, Stage
<1>1. CASE ~(p.expires > now)
    BY <1>1, <1>a, EndIInv DEF issue
<1>2. CASE p.expires > now
    <2>1. /\ token' = [token EXCEPT ![f] = new] /\ GoTo(r, "answer")
          /\ UNCHANGED <<now, sealed, flow, rows, told, decision, account, spent, revoked>>
        BY <1>2, <1>a DEF issue
    <2>2. /\ new \in Token /\ new.client = flow[f].client
          /\ new.scopes = p.scopes /\ new.expires = p.expires /\ new.until >= new.expires
        <3>1. flow[f] \in Flow
            BY <1>0 DEF NothingBeforeAuthorize, Opened, TypeOK, Stage
        <3>2. /\ now \in Nat /\ p.expires \in Nat /\ p.scopes \in SUBSET Scope
            BY <1>0 DEF TypeOK, Principal
        <3>3. /\ now + StoredFor(p.expires) \in Nat
              /\ now + StoredFor(p.expires) >= p.expires
            BY <1>2, <3>2 DEF StoredFor, Second
        <3> QED
            BY <3>1, <3>2, <3>3 DEF Token, Flow
    <2> HIDE DEF new
    <2>3. /\ token' \in [Login -> Token \cup {None}] /\ token'[f] = new
          /\ \A g \in Login : g # f => token'[g] = token[g]
        BY <2>1, <2>2 DEF TypeOK
    <2>4. /\ req' \in [Request -> Handling \cup {None}]
          /\ req'[r].pc = "answer" /\ req'[r].login = f /\ req'[r].stage = "code"
          /\ req'[r].allow = req[r].allow /\ req'[r].principal = p
          /\ \A q \in Request : q # r => req'[q] = req[q]
        BY <1>0, <1>a, <2>1, GoingOn DEF Pc
    <2>5. \A q \in Request, g \in Login, t \in Stage : Holds(q, g, t)' =>
            /\ Holds(q, g, t) /\ req'[q].allow = req[q].allow /\ req'[q].principal = req[q].principal
            /\ (q = r /\ g = f /\ t = "code") \/ (q # r /\ req'[q] = req[q])
        BY <1>0, <1>a, <2>4 DEF Holds
    <2>6. \A q \in Request : req[q] # None => req[q].login \in Login /\ req[q].stage \in Stage
        BY DEF TypeOK, Handling
    <2>7. TypeOK'
        BY <2>1, <2>3, <2>4 DEF TypeOK
    <2>8. NothingBeforeAuthorize' /\ TakenRowsAreUsed'
        BY <2>1 DEF NothingBeforeAuthorize, TakenRowsAreUsed, Opened
    <2>9. OneHolder'
        BY <2>1, <2>5 DEF OneHolder
    <2>10. StagesInTurn'
        BY <2>1, <2>5 DEF StagesInTurn, Over, Stage, Opened
    <2>11. RequestsInTurn'
        BY <1>0, <1>a, <2>1, <2>4, <2>6 DEF RequestsInTurn, Opened
    <2>12. DecisionsAreTaken'
        BY <2>1, <2>5 DEF DecisionsAreTaken, Stage
    <2>13. PrincipalsAreGranted'
        BY <1>0, <1>a, <2>1, <2>4, <2>6 DEF PrincipalsAreGranted, ActsWithin
    <2>14. TokensAreGranted'
        BY <1>0, <2>1, <2>2, <2>3 DEF TokensAreGranted, ActsWithin
    <2>15. IssuedOnce'
        <3>1. \A q \in Request : Holds(q, f, "code") => q = r
            BY <1>0 DEF OneHolder, Stage
        <3> QED
            BY <1>0, <2>1, <2>3, <2>4, <2>5, <3>1 DEF IssuedOnce, Stage
    <2>16. ToldIsTheToken'
        <3>1. ~(told[f] > 0) /\ f \notin revoked
            BY <1>0 DEF IssuedOnce
        <3>2. \A q \in Request : Holds(q, f, "code") => q = r
            BY <1>0 DEF OneHolder, Stage
        <3>3. new # None
            BY <2>2 DEF Token
        <3> QED
            BY <1>0, <2>1, <2>2, <2>3, <2>4, <2>5, <3>1, <3>2, <3>3 DEF ToldIsTheToken, Stage
    <2> QED
        BY <2>7, <2>8, <2>9, <2>10, <2>11, <2>12, <2>13, <2>14, <2>15, <2>16
<1> QED
    BY <1>1, <1>2

\* What is told is rounded down.
LEMMA AnswerIInv ==
    ASSUME IInv, NEW r \in Request, Answer(r)
    PROVE  IInv'
<1> USE OAuthServerConstants DEF IInv, history
<1>a. PICK f \in Login : f = req[r].login
    BY DEF Answer, At, TypeOK, Handling
<1> DEFINE p == req[r].principal
           ttl == Lifetime(p.expires)
<1>0. /\ req[r] # None /\ req[r].pc = "answer" /\ Holds(r, f, "code")
      /\ p \in Principal
      /\ f \in revoked \/ (token[f] # None /\ token[f].expires = p.expires)
    BY <1>a DEF Answer, At, Holds, RequestsInTurn, PrincipalsAreGranted, ToldIsTheToken
<1>1. /\ Done(r)
      /\ told' = IF ttl > 0 THEN [told EXCEPT ![f] = now + Second * ttl] ELSE told
      /\ UNCHANGED <<now, sealed, flow, rows, token, decision, account, spent, revoked>>
    BY <1>a DEF Answer
<1>2. ttl > 0 => now + Second * ttl \in Nat /\ now + Second * ttl <= p.expires
    <2>1. now \in Nat /\ p.expires \in Nat
        BY <1>0 DEF TypeOK, Principal
    <2> QED
        BY <2>1 DEF Lifetime, Second
<1> HIDE DEF ttl
<1>3. /\ told' \in [Login -> Nat]
      /\ told'[f] = told[f] \/ told'[f] <= p.expires
      /\ \A g \in Login : g # f => told'[g] = told[g]
    BY <1>1, <1>2 DEF TypeOK
<1>4. \A q \in Request : req[q] # None => req[q].login \in Login /\ req[q].stage \in Stage
    BY DEF TypeOK, Handling
<1>5. TypeOK'
    BY <1>1, <1>3, HoldersOnlyLeave DEF TypeOK
<1>6. NothingBeforeAuthorize' /\ TakenRowsAreUsed'
    BY <1>1 DEF NothingBeforeAuthorize, TakenRowsAreUsed, Opened
<1>7. OneHolder' /\ DecisionsAreTaken'
    BY <1>1, HoldersOnlyLeave DEF OneHolder, DecisionsAreTaken, Stage
<1>8. StagesInTurn'
    BY <1>1, HoldersOnlyLeave DEF StagesInTurn, Over, Stage, Opened
<1>9. RequestsInTurn' /\ PrincipalsAreGranted' /\ TokensAreGranted'
    BY <1>1, <1>4, HoldersOnlyLeave DEF RequestsInTurn, Opened, PrincipalsAreGranted, TokensAreGranted, ActsWithin
<1>10. IssuedOnce'
    <2>1. /\ spent[f]["code"] = 1
          /\ \A q \in Request : Holds(q, f, "code") => q = r
        BY <1>0 DEF OneHolder, Stage
    <2> QED
        BY <1>0, <1>1, <1>3, <2>1, HoldersOnlyLeave DEF IssuedOnce, Stage
<1>11. ToldIsTheToken'
    BY <1>0, <1>1, <1>3, HoldersOnlyLeave DEF ToldIsTheToken, Stage
<1> QED
    BY <1>5, <1>6, <1>7, <1>8, <1>9, <1>10, <1>11

LEMMA StepIInv == IInv /\ [Next]_vars => IInv'
<1> SUFFICES ASSUME IInv, [Next]_vars PROVE IInv'
    OBVIOUS
<1> USE OAuthServerConstants
<1>1. CASE UNCHANGED vars
    BY <1>1 DEF IInv, vars, TypeOK, NothingBeforeAuthorize, TakenRowsAreUsed, OneHolder, StagesInTurn,
        RequestsInTurn, DecisionsAreTaken, PrincipalsAreGranted, TokensAreGranted, IssuedOnce,
        ToldIsTheToken, Opened, Holds, Over, ActsWithin
<1>2. CASE Tick
    BY <1>2 DEF Tick, IInv, history, TypeOK, NothingBeforeAuthorize, TakenRowsAreUsed, OneHolder,
        StagesInTurn, RequestsInTurn, DecisionsAreTaken, PrincipalsAreGranted, TokensAreGranted,
        IssuedOnce, ToldIsTheToken, Opened, Holds, Over, ActsWithin
<1>3. ASSUME NEW f \in Login, revoke(f) PROVE IInv'
    <2> USE <1>3 DEF revoke, IInv
    <2>1. /\ token' = [token EXCEPT ![f] = None] /\ revoked' = revoked \cup {f} /\ token[f] # None
          /\ UNCHANGED <<now, sealed, flow, rows, told, req, decision, account, spent>>
        OBVIOUS
    <2>2. TypeOK'
        BY <2>1 DEF TypeOK
    <2>3. NothingBeforeAuthorize' /\ TakenRowsAreUsed' /\ OneHolder' /\ StagesInTurn'
        BY <2>1 DEF NothingBeforeAuthorize, TakenRowsAreUsed, OneHolder, StagesInTurn, Opened, Holds, Over
    <2>4. RequestsInTurn' /\ DecisionsAreTaken' /\ PrincipalsAreGranted'
        BY <2>1 DEF RequestsInTurn, DecisionsAreTaken, PrincipalsAreGranted, Opened, Holds, ActsWithin
    <2>5. TokensAreGranted' /\ IssuedOnce' /\ ToldIsTheToken'
        BY <2>1 DEF TypeOK, TokensAreGranted, IssuedOnce, ToldIsTheToken, Holds, ActsWithin
    <2> QED
        BY <2>2, <2>3, <2>4, <2>5
<1>4. ASSUME NEW f \in Login, NEW c \in Client, NEW b \in Browser, NEW v \in Verifier,
             NEW scope \in SUBSET Scope, handle_authorize(f, c, b, v, scope)
      PROVE  IInv'
    BY <1>4, AuthorizeIInv
<1>5. ASSUME NEW r \in Request, Arrive(r) PROVE IInv'
    <2>1. ASSUME NEW f \in Login, NEW b \in Browser, NEW yes \in BOOLEAN,
                 handle_consent(r, f, b, yes) \/ handle_callback(r, f, b, yes)
          PROVE  IInv'
        BY <2>1, AdmittedIInv DEF handle_consent, handle_callback, Stage
    <2>2. ASSUME NEW f \in Login, NEW c \in Client, NEW v \in Verifier, handle_token(r, f, c, v)
          PROVE  IInv'
        BY <2>2, AdmittedIInv DEF handle_token, Stage
    <2> QED
        BY <1>5, <2>1, <2>2 DEF Arrive
<1>6. ASSUME NEW r \in Request, Continue(r) PROVE IInv'
    <2>1. CASE Take(r)
        BY <2>1, TakeIInv
    <2>2. CASE Delete(r)
        BY <2>2, DeleteIInv
    <2>3. CASE start_upstream(r)
        BY <2>3, StartUpstreamIInv
    <2>4. CASE UpstreamFails(r)
        BY <2>4, EndIInv DEF UpstreamFails
    <2>5. CASE issue(r)
        BY <2>5, IssueIInv
    <2>6. CASE Answer(r)
        BY <2>6, AnswerIInv
    <2>7. ASSUME NEW scopes \in SUBSET Scope, NEW expires \in Expiry \cup {None},
                 SignIn(r, scopes, expires)
          PROVE  IInv'
        BY <2>7, SignInIInv
    <2> QED
        BY <1>6, <2>1, <2>2, <2>3, <2>4, <2>5, <2>6, <2>7 DEF Continue
<1>7. ASSUME NEW r \in Request, Die(r) PROVE IInv'
    BY <1>7, EndIInv DEF Die
<1> QED
    BY <1>1, <1>2, <1>3, <1>4, <1>5, <1>6, <1>7 DEF Next

LEMMA IInvHoldsTheRest ==
    ASSUME IInv
    PROVE  SpentOnce /\ TokensFollowTheLogin /\ TokenLifeIsAsTold
<1> USE OAuthServerConstants DEF IInv
<1>1. SpentOnce
    BY DEF SpentOnce, TakenRowsAreUsed
<1>2. TokensFollowTheLogin
    <2> SUFFICES ASSUME NEW f \in Login, token[f] # None
                 PROVE  /\ flow[f].client \in Careful => decision[f] = "allow"
                        /\ account[f] # None
                        /\ token[f].scopes \subseteq account[f].scopes \cap flow[f].scope
                        /\ token[f].client = flow[f].client
        BY DEF TokensFollowTheLogin
    <2>1. Opened(f, "code")
        BY DEF IssuedOnce, Opened
    <2>2. Opened(f, "upstream")
        BY <2>1 DEF StagesInTurn, Over, Opened
    <2> QED
        BY <2>2 DEF StagesInTurn, TokensAreGranted, ActsWithin
<1>3. TokenLifeIsAsTold
    <2> SUFFICES ASSUME NEW f \in Login
                 PROVE  /\ told[f] > now /\ f \notin revoked => verify(f)
                        /\ verify(f) /\ account[f].expires # None => account[f].expires >= now
        BY DEF TokenLifeIsAsTold
    <2>0. /\ now \in Nat /\ told[f] \in Nat
          /\ token[f] # None => token[f].expires \in Nat /\ token[f].until \in Nat
          /\ account[f] # None => account[f].expires \in Nat \cup {None}
        BY DEF TypeOK, Token, Account
    <2>1. told[f] > now /\ f \notin revoked => verify(f)
        BY <2>0 DEF ToldIsTheToken, TokensAreGranted, verify, EncryptedValid, OpaqueValid
    <2>2. verify(f) => token[f] # None /\ token[f].expires >= now
        BY <2>0 DEF verify, EncryptedValid, OpaqueValid
    <2> QED
        BY <2>0, <2>1, <2>2 DEF TokensAreGranted, ActsWithin
<1> QED
    BY <1>1, <1>2, <1>3

\* Every variable of the server is what the code keeps in it, whatever the
\* requests and wherever they die.
THEOREM ServerTypeCorrect == Spec => []TypeOK
<1>1. IInv => TypeOK
    BY DEF IInv
<1> QED
    BY InitIInv, StepIInv, <1>1, PTL DEF Spec

\* `take` gives a ticket, a state or a code to one request, for any number of
\* requests that present it and with any of them dying half way.
THEOREM ServerSpendsOnce == Spec => []SpentOnce
<1>1. IInv => SpentOnce
    BY IInvHoldsTheRest
<1> QED
    BY InitIInv, StepIInv, <1>1, PTL DEF Spec

\* A token of handle_token has behind it the consent that its client requires,
\* the account that the provider confirmed, and the login's client and scopes.
THEOREM ServerTokensFollowTheLogin == Spec => []TokensFollowTheLogin
<1>1. IInv => TokensFollowTheLogin
    BY IInvHoldsTheRest
<1> QED
    BY InitIInv, StepIInv, <1>1, PTL DEF Spec

\* `expires_in` is kept by verify, and no token outlives the account: for every
\* access_token_ttl, every expiry of an account, and both kinds of token.
THEOREM ServerTokenLifeIsAsTold == Spec => []TokenLifeIsAsTold
<1>1. IInv => TokenLifeIsAsTold
    BY IInvHoldsTheRest
<1> QED
    BY InitIInv, StepIInv, <1>1, PTL DEF Spec

-----------------------------------------------------------------------------
(* The client.  Who holds the lock is the only one to write the record; it *)
(* takes the tokens out of the record, in memory and on disk, before the   *)
(* refresh token leaves the process.                                       *)

LockedPcs ==
    {"discover", "token", "begin", "complete", "invalidate", "refresh", "answer", "pend"} \cup C!Saves

\* Refreshing: the refresh token is out of the record and not yet answered.
Refreshing(t) == local[t].pc \in {"save_reservation", "refresh", "answer"} /\ local[t].refresh # 0

LockIsHeld == \A t \in Task : local[t].pc \in LockedPcs <=> lock = t

\* What a call's locals say at each of its steps.
CallsAreOnTheirWay ==
    \A t \in Task :
        /\ local[t].pc # "idle" => local[t].op # "none"
        /\ local[t].pc = "discover" => local[t].op \in {"token", "begin"}
        /\ local[t].pc = "complete" => local[t].op = "complete"
        /\ local[t].pc \in {"token", "save_reservation", "refresh"} => local[t].op = "token"
        /\ local[t].pc \in {"save_reservation", "refresh"} => Refreshing(t)
        /\ local[t].pc = "answer" => local[t].op = "complete" \/ (local[t].op = "token" /\ Refreshing(t))
        /\ local[t].refresh # 0 => Refreshing(t)
        /\ local[t].pc \in C!Saves => record # None
        /\ local[t].pc \in {"lock", "discover", "token", "invalidate"} /\ local[t].token # 0 =>
              local[t].token \in refused

\* Before `restore` there is no record and no login, and nobody got past it.
NothingBeforeRestore ==
    ~loaded =>
        /\ record = None /\ pending = 0
        /\ \A t \in Task : local[t].pc \in LockedPcs => local[t].pc \in {"discover", "complete", "invalidate"}

\* A refresh token has the number of the grant that brought it.
RefreshesAreGranted ==
    /\ record # None => record.refresh <= granted
    /\ disk # None => disk.refresh <= granted
    /\ \A t \in Task : local[t].refresh <= granted

\* While a refresh token is out, the record has no tokens; and none on disk
\* from before it is sent.
ReservationsHold ==
    \A t \in Task : Refreshing(t) =>
        /\ record = C!Empty
        /\ local[t].pc # "save_reservation" => disk = C!Empty

\* A refresh token that can still be sent has not been, or was answered.
AvailableAreUnsent ==
    /\ record # None /\ record.refresh # 0 => sends[record.refresh] = 0
    /\ disk # None /\ disk.refresh # 0 => sends[disk.refresh] = 0
    /\ \A t \in Task : local[t].pc \in {"save_reservation", "refresh"} => sends[local[t].refresh] = 0
    /\ \A g \in 1..MaxGrants : g > granted => sends[g] = 0

\* A login that can be completed is the last one, whose code was not sent.
PendingIsUntaken ==
    /\ pending # 0 => codes[pending] = 0 /\ pending \notin withdrawn
    /\ \A l \in 1..MaxLogins : l > begun => codes[l] = 0
    /\ withdrawn \subseteq 1..begun

ClientIInv ==
    /\ C!TypeOK
    /\ LockIsHeld
    /\ CallsAreOnTheirWay
    /\ NothingBeforeRestore
    /\ ReservationsHold
    /\ RefreshesAreGranted
    /\ AvailableAreUnsent
    /\ C!RefreshSentOnce
    /\ PendingIsUntaken

LEMMA ClientInit == C!Init => ClientIInv
<1> SUFFICES ASSUME C!Init PROVE ClientIInv
    OBVIOUS
<1> USE ClientConstants DEF C!Init
<1>0. C!Idle \in C!Local
    BY DEF C!Idle, C!Local, C!Pcs
<1>1. C!TypeOK
    <2>1. local \in [Task -> C!Local]
        BY <1>0
    <2>2. sends \in [1..MaxGrants -> Nat] /\ codes \in [1..MaxLogins -> Nat]
        OBVIOUS
    <2>3. pending \in 0..begun /\ begun \in 0..MaxLogins /\ granted \in 0..MaxGrants /\ crashes \in Nat
        OBVIOUS
    <2> QED
        BY <2>1, <2>2, <2>3 DEF C!TypeOK
<1>2. LockIsHeld /\ CallsAreOnTheirWay /\ NothingBeforeRestore /\ ReservationsHold /\ RefreshesAreGranted
    BY DEF LockIsHeld, LockedPcs, C!Saves, CallsAreOnTheirWay, NothingBeforeRestore, ReservationsHold, RefreshesAreGranted,
        Refreshing, C!Idle
<1>3. AvailableAreUnsent /\ C!RefreshSentOnce /\ PendingIsUntaken
    BY DEF C!Idle, AvailableAreUnsent, C!RefreshSentOnce, PendingIsUntaken
<1> QED
    BY <1>1, <1>2, <1>3 DEF ClientIInv

\* A task goes on, and keeps what its call carries.
LEMMA ClientGoesOn ==
    ASSUME C!TypeOK, NEW t \in Task, NEW pc \in C!Pcs, C!GoTo(t, pc)
    PROVE  /\ local' \in [Task -> C!Local]
           /\ local'[t].pc = pc /\ local'[t].op = local[t].op /\ local'[t].token = local[t].token
           /\ local'[t].refresh = local[t].refresh /\ local'[t].login = local[t].login
           /\ \A u \in Task : u # t => local'[u] = local[u]
<1>1. local \in [Task -> C!Local] /\ local[t] \in C!Local
    BY DEF C!TypeOK
<1> QED
    BY <1>1 DEF C!GoTo, C!Local

\* A task returns or raises.
LEMMA ClientReturns ==
    ASSUME C!TypeOK, NEW t \in Task, local' = [local EXCEPT ![t] = C!Idle]
    PROVE  /\ local' \in [Task -> C!Local]
           /\ local'[t].pc = "idle" /\ local'[t].refresh = 0
           /\ \A u \in Task : u # t => local'[u] = local[u]
<1>1. C!Idle \in C!Local /\ C!Idle.pc = "idle" /\ C!Idle.refresh = 0
    BY ClientConstants DEF C!Idle, C!Local, C!Pcs
<1> HIDE DEF C!Idle
<1> QED
    BY <1>1 DEF C!TypeOK

\* `write`: the new record is in memory, and the save is under way.
LEMMA ClientWrites ==
    ASSUME C!TypeOK, NEW t \in Task, NEW r \in C!Tokens, NEW pc \in C!Pcs, NEW refresh \in 0..MaxGrants,
           C!write(t, r, pc, refresh)
    PROVE  /\ local' \in [Task -> C!Local]
           /\ local'[t].pc = pc /\ local'[t].refresh = refresh
           /\ local'[t].op = local[t].op /\ local'[t].token = local[t].token
           /\ \A u \in Task : u # t => local'[u] = local[u]
           /\ record' = r /\ save_failed' = TRUE
           /\ UNCHANGED <<lock, disk, loaded, server, pending, lapsed>>
<1>1. local \in [Task -> C!Local] /\ local[t] \in C!Local
    BY DEF C!TypeOK
<1> QED
    BY <1>1 DEF C!write, C!Local

\* While one task is inside the lock, no other one refreshes.
LEMMA OneInside ==
    ASSUME LockIsHeld, NEW t \in Task, local[t].pc \in LockedPcs
    PROVE  \A u \in Task : u # t => local[u].pc \notin LockedPcs /\ ~Refreshing(u)
BY DEF LockIsHeld, LockedPcs, C!Saves, Refreshing

LEMMA EmptyHasNoTokens ==
    C!Empty \in C!Tokens /\ C!Empty # None /\ C!Empty.access = 0 /\ C!Empty.refresh = 0
BY ClientConstants DEF C!Empty, C!Tokens

\* A call ends: it returns or raises, with a save done or not.
LEMMA ClientEnds ==
    ASSUME ClientIInv, NEW t \in Task, local' = [local EXCEPT ![t] = C!Idle],
           lock' = IF lock = t THEN None ELSE lock,
           disk' = disk \/ (disk' = record /\ local[t].pc \in C!Saves),
           pending' = pending \/ pending' = 0,
           UNCHANGED <<record, loaded, save_failed, server, lapsed, granted, begun, refused, sends, codes,
                       withdrawn, crashes>>
    PROVE  ClientIInv'
<1> USE ClientConstants, EmptyHasNoTokens DEF ClientIInv
<1>1. /\ local' \in [Task -> C!Local]
      /\ local'[t].pc = "idle" /\ local'[t].refresh = 0
      /\ \A u \in Task : u # t => local'[u] = local[u]
    BY ClientReturns
<1>2. "idle" \notin LockedPcs /\ "idle" \notin C!Saves /\ C!Saves \subseteq LockedPcs
    BY DEF LockedPcs, C!Saves
<1>3. disk' # disk => \A u \in Task : u # t => ~Refreshing(u)
    BY <1>2, OneInside
<1>4. C!TypeOK'
    BY <1>1 DEF C!TypeOK
<1>5. LockIsHeld' /\ CallsAreOnTheirWay'
    BY <1>1, <1>2 DEF LockIsHeld, CallsAreOnTheirWay, Refreshing
<1>6. NothingBeforeRestore' /\ RefreshesAreGranted'
    BY <1>1, <1>2 DEF NothingBeforeRestore, RefreshesAreGranted, C!TypeOK
<1>7. ReservationsHold'
    BY <1>1, <1>3 DEF ReservationsHold, Refreshing
<1>8. AvailableAreUnsent' /\ C!RefreshSentOnce' /\ PendingIsUntaken'
    BY <1>1 DEF AvailableAreUnsent, C!RefreshSentOnce, PendingIsUntaken
<1> QED
    BY <1>4, <1>5, <1>6, <1>7, <1>8

LEMMA ClientStep == ClientIInv /\ [C!Next]_(C!vars) => ClientIInv'
<1> SUFFICES ASSUME ClientIInv, [C!Next]_(C!vars) PROVE ClientIInv'
    OBVIOUS
<1> USE ClientConstants, EmptyHasNoTokens DEF ClientIInv, C!store, C!history
<1>p. /\ C!Saves \subseteq C!Pcs /\ LockedPcs \subseteq C!Pcs
      /\ {"idle", "lock", "send"} \subseteq C!Pcs \ LockedPcs
      /\ {"discover", "token", "begin", "complete", "invalidate", "refresh", "answer", "pend"} \subseteq LockedPcs
      /\ C!Saves = {"save_registration", "save_reservation", "save_tokens", "save_empty"}
      /\ C!Saves \subseteq LockedPcs
    BY DEF C!Saves, C!Pcs, LockedPcs
<1>1. CASE UNCHANGED C!vars
    BY <1>1 DEF C!vars, C!TypeOK, LockIsHeld, CallsAreOnTheirWay, NothingBeforeRestore, ReservationsHold, RefreshesAreGranted,
        AvailableAreUnsent, C!RefreshSentOnce, PendingIsUntaken, Refreshing
<1>2. ASSUME NEW t \in Task, NEW op \in {"token", "begin", "complete"}, NEW login \in 0..begun,
             C!Start(t, op, login)
      PROVE  ClientIInv'
    <2>1. /\ local' \in [Task -> C!Local] /\ local[t].pc = "idle"
          /\ local'[t].pc = "lock" /\ local'[t].op = op /\ local'[t].token = 0 /\ local'[t].refresh = 0
          /\ \A u \in Task : u # t => local'[u] = local[u]
          /\ UNCHANGED <<lock, record, disk, loaded, save_failed, server, pending, lapsed, granted, begun,
                         refused, sends, codes, withdrawn, crashes>>
        <3> DEFINE new == [C!Idle EXCEPT !.op = op, !.pc = "lock", !.login = login]
        <3>1. new \in C!Local /\ new.pc = "lock" /\ new.op = op /\ new.token = 0 /\ new.refresh = 0
            <4>1. login \in 0..MaxLogins
                BY DEF C!TypeOK
            <4>2. /\ C!Idle \in C!Local /\ C!Idle.token = 0 /\ C!Idle.refresh = 0
                BY DEF C!Idle, C!Local, C!Pcs
            <4> HIDE DEF C!Idle
            <4> QED
                BY <1>p, <4>1, <4>2 DEF C!Local
        <3>2. local' = [local EXCEPT ![t] = new]
            BY <1>2 DEF C!Start
        <3>3. local[t].pc = "idle"
            BY <1>2 DEF C!Start, C!Idle
        <3> HIDE DEF new
        <3> QED
            BY <1>2, <3>1, <3>2, <3>3, ZenonT(60) DEF C!Start, C!TypeOK
    <2>2. C!TypeOK'
        BY <2>1 DEF C!TypeOK
    <2>3. LockIsHeld' /\ CallsAreOnTheirWay'
        BY <1>p, <2>1 DEF LockIsHeld, CallsAreOnTheirWay, Refreshing
    <2>4. NothingBeforeRestore' /\ ReservationsHold' /\ RefreshesAreGranted'
        BY <1>p, <2>1 DEF NothingBeforeRestore, ReservationsHold, RefreshesAreGranted, Refreshing, C!TypeOK
    <2>5. AvailableAreUnsent' /\ C!RefreshSentOnce' /\ PendingIsUntaken'
        BY <2>1 DEF AvailableAreUnsent, C!RefreshSentOnce, PendingIsUntaken
    <2> QED
        BY <2>2, <2>3, <2>4, <2>5
<1>3. ASSUME NEW t \in Task, C!Enter(t) PROVE ClientIInv'
    <2> DEFINE pc == CASE local[t].op = "complete" -> "complete" [] local[t].op = "invalidate" -> "invalidate"
                       [] OTHER -> "discover"
    <2>0. /\ pc \in {"complete", "invalidate", "discover"}
          /\ pc = "complete" => local[t].op = "complete"
          /\ pc = "discover" => local[t].op # "complete" /\ local[t].op # "invalidate"
          /\ local[t].op \in {"none", "token", "begin", "complete", "invalidate"}
        BY DEF C!TypeOK, C!Local
    <2>1. /\ local[t].pc = "lock" /\ lock = None /\ lock' = t
          /\ C!GoTo(t, pc)
          /\ UNCHANGED <<record, disk, loaded, save_failed, server, pending, lapsed, granted, begun,
                         refused, sends, codes, withdrawn, crashes>>
        BY <1>3 DEF C!Enter, C!At
    <2> HIDE DEF pc
    <2>2. /\ local' \in [Task -> C!Local]
          /\ local'[t].pc = pc /\ local'[t].op = local[t].op /\ local'[t].token = local[t].token
          /\ local'[t].refresh = local[t].refresh
          /\ \A u \in Task : u # t => local'[u] = local[u]
        BY <1>p, <2>0, <2>1, ClientGoesOn
    <2>3. C!TypeOK'
        BY <2>1, <2>2 DEF C!TypeOK
    <2>4. LockIsHeld' /\ CallsAreOnTheirWay'
        BY <1>p, <2>0, <2>1, <2>2 DEF LockIsHeld, CallsAreOnTheirWay, Refreshing
    <2>5. NothingBeforeRestore' /\ ReservationsHold' /\ RefreshesAreGranted'
        BY <2>0, <2>1, <2>2 DEF NothingBeforeRestore, ReservationsHold, RefreshesAreGranted, Refreshing
    <2>6. AvailableAreUnsent' /\ C!RefreshSentOnce' /\ PendingIsUntaken'
        BY <2>0, <2>1, <2>2 DEF AvailableAreUnsent, C!RefreshSentOnce, PendingIsUntaken
    <2> QED
        BY <2>3, <2>4, <2>5, <2>6
<1>4. ASSUME NEW t \in Task, C!discover(t) PROVE ClientIInv'
    <2>1. /\ local[t].pc = "discover" /\ C!GoTo(t, local[t].op)
          /\ loaded' = TRUE /\ server' = TRUE
          /\ record' = IF loaded THEN record ELSE disk
          /\ local[t].op \in {"token", "begin"}
          /\ UNCHANGED <<lock, disk, save_failed, pending, lapsed, granted, begun,
                         refused, sends, codes, withdrawn, crashes>>
        BY <1>4 DEF C!discover, C!At, CallsAreOnTheirWay
    <2>2. /\ local' \in [Task -> C!Local]
          /\ local'[t].pc = local[t].op /\ local'[t].op = local[t].op /\ local'[t].token = local[t].token
          /\ local'[t].refresh = local[t].refresh
          /\ \A u \in Task : u # t => local'[u] = local[u]
        BY <1>p, <2>1, ClientGoesOn
    <2>3. \A u \in Task : u # t => local[u].pc \notin LockedPcs /\ ~Refreshing(u)
        BY <1>p, <2>1, OneInside
    <2>4. C!TypeOK'
        BY <2>1, <2>2 DEF C!TypeOK
    <2>5. LockIsHeld' /\ CallsAreOnTheirWay'
        BY <1>p, <2>1, <2>2 DEF LockIsHeld, CallsAreOnTheirWay, Refreshing
    <2>6. NothingBeforeRestore' /\ ReservationsHold' /\ RefreshesAreGranted'
        BY <2>1, <2>2, <2>3 DEF NothingBeforeRestore, ReservationsHold, RefreshesAreGranted, Refreshing
    <2>7. AvailableAreUnsent' /\ C!RefreshSentOnce' /\ PendingIsUntaken'
        BY <2>1, <2>2 DEF AvailableAreUnsent, C!RefreshSentOnce, PendingIsUntaken
    <2> QED
        BY <2>4, <2>5, <2>6, <2>7
<1>5. ASSUME NEW t \in Task, NEW dead \in BOOLEAN, C!Saved(t, dead) PROVE ClientIInv'
    <2> DEFINE next == C!AfterSave(t)
    <2>0. /\ local[t].pc \in C!Saves /\ local[t].pc \in LockedPcs /\ lock = t
          /\ record # None /\ record \in C!Tokens
          /\ dead => next = "send"
        BY <1>5, <1>p DEF C!Saved, LockIsHeld, CallsAreOnTheirWay, C!TypeOK
    <2>1. /\ next \in {"pend", "refresh", "send", "idle"}
          /\ next = "refresh" <=> local[t].pc = "save_reservation"
          /\ next = "refresh" \/ local[t].refresh = 0
        BY <2>0, <1>p DEF C!AfterSave, C!At, CallsAreOnTheirWay, Refreshing
    <2>2. /\ disk' = record
          /\ lapsed' = lapsed \/ lapsed' = lapsed \cup {record.access}
          /\ save_failed' = FALSE
          /\ UNCHANGED <<record, loaded, server, pending, granted, begun, refused, sends, codes, withdrawn,
                         crashes>>
        BY <1>5 DEF C!Saved
    <2>3. /\ local' \in [Task -> C!Local]
          /\ \A u \in Task : u # t => local'[u] = local[u]
          /\ \/ local'[t].pc = "idle" /\ local'[t].refresh = 0 /\ lock' = None
             \/ /\ local'[t].pc = "send" /\ local'[t].refresh = 0 /\ lock' = None
                /\ local'[t].op = local[t].op
             \/ /\ local'[t].pc = next /\ next \in {"pend", "refresh"} /\ lock' = t
                /\ local'[t].op = local[t].op /\ local'[t].refresh = local[t].refresh
        <3>1. CASE dead \/ next = "idle"
            BY <1>5, <3>1, <2>0, ClientReturns DEF C!Saved, C!Leave
        <3>2. CASE ~dead /\ next = "send"
            <4>1. /\ local \in [Task -> C!Local] /\ local[t] \in C!Local
                  /\ record.access \in 0..MaxGrants
                BY <2>0 DEF C!TypeOK, C!Tokens
            <4>2. local' = [local EXCEPT ![t].pc = "send", ![t].token = record.access] /\ lock' = None
                BY <1>5, <3>2 DEF C!Saved
            <4> QED
                BY <1>p, <2>1, <3>2, <4>1, <4>2 DEF C!Local
        <3>3. CASE ~dead /\ next \in {"pend", "refresh"}
            <4>1. C!GoTo(t, next) /\ lock' = t
                BY <1>5, <2>0, <3>3 DEF C!Saved
            <4> HIDE DEF next
            <4> QED
                BY <1>p, <3>3, <4>1, ClientGoesOn
        <3> QED
            BY <2>1, <3>1, <3>2, <3>3
    <2>4. \A u \in Task : u # t => local[u].pc \notin LockedPcs /\ ~Refreshing(u)
        BY <2>0, OneInside
    <2> HIDE DEF next
    <2>5. C!TypeOK'
        BY <2>0, <2>2, <2>3 DEF C!TypeOK, C!Tokens
    <2>6. LockIsHeld'
        BY <1>p, <2>0, <2>3 DEF LockIsHeld
    <2>7. CallsAreOnTheirWay'
        BY <1>p, <2>0, <2>1, <2>2, <2>3 DEF CallsAreOnTheirWay, Refreshing
    <2>8. NothingBeforeRestore' /\ ReservationsHold' /\ RefreshesAreGranted'
        BY <1>p, <2>0, <2>1, <2>2, <2>3, <2>4 DEF NothingBeforeRestore, ReservationsHold, RefreshesAreGranted, Refreshing
    <2>9. AvailableAreUnsent' /\ C!RefreshSentOnce' /\ PendingIsUntaken'
        BY <2>0, <2>1, <2>2, <2>3 DEF AvailableAreUnsent, C!RefreshSentOnce, PendingIsUntaken
    <2> QED
        BY <2>5, <2>6, <2>7, <2>8, <2>9
<1>6. ASSUME NEW t \in Task, C!token(t) PROVE ClientIInv'
    <2>0. /\ local[t].pc = "token" /\ local[t].op = "token" /\ local[t].refresh = 0
          /\ local[t].pc \in LockedPcs /\ lock = t
          /\ UNCHANGED <<granted, begun, refused, sends, codes, withdrawn, crashes>>
        BY <1>6, <1>p DEF C!token, C!At, LockIsHeld, CallsAreOnTheirWay, Refreshing
    <2>4. \A u \in Task : u # t => local[u].pc \notin LockedPcs /\ ~Refreshing(u)
        BY <2>0, OneInside
    <2>1. CASE C!Leave(t) /\ UNCHANGED <<record, disk, loaded, save_failed, server, pending, lapsed>>
        <3>1. /\ local' \in [Task -> C!Local]
              /\ local'[t].pc = "idle" /\ local'[t].refresh = 0 /\ lock' = None
              /\ \A u \in Task : u # t => local'[u] = local[u]
            BY <2>1, ClientReturns DEF C!Leave
        <3> USE <2>0, <2>1, <2>4, <3>1, <1>p
        <3>2. C!TypeOK'
            BY DEF C!TypeOK
        <3>3. LockIsHeld' /\ CallsAreOnTheirWay'
            BY DEF LockIsHeld, CallsAreOnTheirWay, Refreshing
        <3>4. NothingBeforeRestore' /\ ReservationsHold' /\ RefreshesAreGranted'
            BY DEF NothingBeforeRestore, ReservationsHold, RefreshesAreGranted, Refreshing
        <3>5. AvailableAreUnsent' /\ C!RefreshSentOnce' /\ PendingIsUntaken'
            BY DEF AvailableAreUnsent, C!RefreshSentOnce, PendingIsUntaken
        <3> QED
            BY <3>2, <3>3, <3>4, <3>5
    <2>2. CASE /\ record # None
               /\ local' = [local EXCEPT ![t].pc = "send", ![t].token = record.access]
               /\ lock' = None
               /\ UNCHANGED <<record, disk, loaded, save_failed, server, pending, lapsed>>
        <3>1. /\ local' \in [Task -> C!Local]
              /\ local'[t].pc = "send" /\ local'[t].op = "token" /\ local'[t].refresh = 0
              /\ \A u \in Task : u # t => local'[u] = local[u]
            <4>1. /\ local \in [Task -> C!Local] /\ local[t] \in C!Local
                  /\ record.access \in 0..MaxGrants
                BY <2>2 DEF C!TypeOK, C!Tokens
            <4> QED
                BY <1>p, <2>0, <2>2, <4>1 DEF C!Local
        <3> USE <2>0, <2>2, <2>4, <3>1, <1>p
        <3>2. C!TypeOK'
            BY DEF C!TypeOK
        <3>3. LockIsHeld' /\ CallsAreOnTheirWay'
            BY DEF LockIsHeld, CallsAreOnTheirWay, Refreshing
        <3>4. NothingBeforeRestore' /\ ReservationsHold' /\ RefreshesAreGranted'
            BY DEF NothingBeforeRestore, ReservationsHold, RefreshesAreGranted, Refreshing
        <3>5. AvailableAreUnsent' /\ C!RefreshSentOnce' /\ PendingIsUntaken'
            BY DEF AvailableAreUnsent, C!RefreshSentOnce, PendingIsUntaken
        <3> QED
            BY <3>2, <3>3, <3>4, <3>5
    <2>3. ASSUME record \in C!Tokens, NEW pc \in C!Saves, NEW refresh \in {0, record.refresh},
                 C!write(t, C!Empty, pc, refresh),
                 pc = "save_reservation" <=> refresh # 0
          PROVE  ClientIInv'
        <3>0. refresh \in 0..MaxGrants
            BY <2>3 DEF C!Tokens
        <3>1. /\ local' \in [Task -> C!Local]
              /\ local'[t].pc = pc /\ local'[t].refresh = refresh /\ local'[t].op = "token"
              /\ \A u \in Task : u # t => local'[u] = local[u]
              /\ record' = C!Empty /\ save_failed' = TRUE
              /\ UNCHANGED <<lock, disk, loaded, server, pending, lapsed>>
            BY <1>p, <2>0, <2>3, <3>0, ClientWrites
        <3>2. loaded
            BY <2>3, ClientConstants DEF NothingBeforeRestore
        <3>3. C!TypeOK'
            BY <2>0, <3>1 DEF C!TypeOK
        <3>4. LockIsHeld' /\ CallsAreOnTheirWay'
            BY <1>p, <2>0, <2>3, <2>4, <3>1 DEF LockIsHeld, CallsAreOnTheirWay, Refreshing
        <3>5. NothingBeforeRestore' /\ ReservationsHold' /\ RefreshesAreGranted'
            BY <1>p, <2>0, <2>3, <2>4, <3>1, <3>2 DEF NothingBeforeRestore, ReservationsHold, RefreshesAreGranted, Refreshing
        <3>6. AvailableAreUnsent' /\ C!RefreshSentOnce' /\ PendingIsUntaken'
            BY <1>p, <2>0, <2>3, <2>4, <3>1 DEF AvailableAreUnsent, C!RefreshSentOnce, PendingIsUntaken
        <3> QED
            BY <3>3, <3>4, <3>5, <3>6
    <2> QED
        BY <1>6, <1>p, <2>1, <2>2, <2>3 DEF C!token, C!Reserved, C!TypeOK
<1>7. ASSUME NEW t \in Task, C!Refresh(t) PROVE ClientIInv'
    <2> DEFINE g == local[t].refresh
    <2>0. /\ local[t].pc = "refresh" /\ local[t].op = "token" /\ Refreshing(t)
          /\ g \in 1..MaxGrants /\ sends[g] = 0 /\ g <= granted
          /\ record = C!Empty /\ disk = C!Empty
          /\ local[t].pc \in LockedPcs /\ lock = t
        <3>1. local[t].pc = "refresh" /\ local[t].op = "token" /\ Refreshing(t) /\ lock = t
            BY <1>7, <1>p DEF C!Refresh, C!At, LockIsHeld, CallsAreOnTheirWay
        <3>2. g \in 1..MaxGrants
            BY <3>1 DEF Refreshing, C!TypeOK, C!Local
        <3> QED
            BY <1>p, <3>1, <3>2 DEF ReservationsHold, AvailableAreUnsent, RefreshesAreGranted
    <2>1. /\ sends' = [sends EXCEPT ![g] = 1] /\ C!GoTo(t, "answer")
          /\ UNCHANGED <<lock, record, disk, loaded, save_failed, server, pending, lapsed, granted, begun,
                         refused, codes, withdrawn, crashes>>
        BY <1>7, <2>0 DEF C!Refresh
    <2>2. /\ local' \in [Task -> C!Local]
          /\ local'[t].pc = "answer" /\ local'[t].op = "token" /\ local'[t].refresh = g
          /\ \A u \in Task : u # t => local'[u] = local[u]
        BY <1>p, <2>0, <2>1, ClientGoesOn
    <2>3. \A u \in Task : u # t => local[u].pc \notin LockedPcs /\ ~Refreshing(u)
        BY <2>0, OneInside
    <2>a. \A h \in 1..MaxGrants : sends'[h] = IF h = g THEN 1 ELSE sends[h]
        BY <2>0, <2>1 DEF C!TypeOK
    <2> USE <2>0, <2>1, <2>2, <2>3, <1>p
    <2> HIDE DEF g
    <2>4. C!TypeOK'
        BY DEF C!TypeOK
    <2>5. LockIsHeld' /\ CallsAreOnTheirWay'
        BY DEF LockIsHeld, CallsAreOnTheirWay, Refreshing
    <2>6. NothingBeforeRestore' /\ ReservationsHold' /\ RefreshesAreGranted'
        BY DEF NothingBeforeRestore, ReservationsHold, Refreshing, RefreshesAreGranted
    <2>7. AvailableAreUnsent'
        <3>1. \A u \in Task : local'[u].pc \notin {"save_reservation", "refresh"}
            OBVIOUS
        <3>2. \A h \in 1..MaxGrants : h > granted => sends'[h] = 0
            BY <2>a DEF AvailableAreUnsent, C!TypeOK
        <3> QED
            BY <3>1, <3>2 DEF AvailableAreUnsent
    <2>8. C!RefreshSentOnce' /\ PendingIsUntaken'
        BY DEF C!TypeOK, C!RefreshSentOnce, PendingIsUntaken
    <2> QED
        BY <2>4, <2>5, <2>6, <2>7, <2>8
<1>8. ASSUME NEW t \in Task, NEW rotated \in BOOLEAN, C!Granted(t, rotated) PROVE ClientIInv'
    <2> DEFINE g == granted + 1
               refresh == IF rotated THEN g ELSE local[t].refresh
               new == [access |-> g, refresh |-> refresh]
    <2>0. /\ local[t].pc = "answer" /\ local[t].pc \in LockedPcs /\ lock = t
          /\ local[t].refresh \in 0..granted
          /\ g \in 1..MaxGrants
          /\ sends[g] = 0
        <3>1. /\ local[t].pc = "answer" /\ lock = t
              /\ granted < MaxGrants /\ granted \in 0..MaxGrants
            BY <1>8, <1>p DEF C!Granted, C!At, LockIsHeld, C!TypeOK
        <3>2. local[t].refresh \in 0..granted
            BY DEF C!TypeOK, C!Local, RefreshesAreGranted
        <3> QED
            BY <1>p, <3>1, <3>2 DEF AvailableAreUnsent
    <2>1. /\ granted' = g
          /\ sends' = IF rotated \/ local[t].refresh = 0 THEN sends
                      ELSE [sends EXCEPT ![local[t].refresh] = 0]
          /\ C!write(t, new, "save_tokens", 0)
          /\ UNCHANGED <<begun, refused, codes, withdrawn, crashes>>
        BY <1>8 DEF C!Granted
    <2>2. PICK r \in C!Tokens : r = new
        <3>1. g \in 0..MaxGrants /\ refresh \in 0..MaxGrants
            BY <2>0 DEF C!TypeOK
        <3> QED
            BY <3>1 DEF C!Tokens
    <2>3. r # None /\ r.refresh = refresh /\ r.access = g
        BY <2>2, ClientConstants
    <2> HIDE DEF new
    <2>4. /\ local' \in [Task -> C!Local]
          /\ local'[t].pc = "save_tokens" /\ local'[t].refresh = 0 /\ local'[t].op = local[t].op
          /\ \A u \in Task : u # t => local'[u] = local[u]
          /\ record' = r /\ save_failed' = TRUE
          /\ UNCHANGED <<lock, disk, loaded, server, pending, lapsed>>
        <3>1. "save_tokens" \in C!Pcs /\ 0 \in 0..MaxGrants
            BY <1>p
        <3> QED
            BY <2>1, <2>2, <3>1, ClientWrites, ZenonT(60)
    <2>5. \A u \in Task : u # t => local[u].pc \notin LockedPcs /\ ~Refreshing(u)
        BY <2>0, OneInside
    <2>6. /\ sends' \in [1..MaxGrants -> Nat]
          /\ \A h \in 1..MaxGrants : sends'[h] = sends[h] \/ sends'[h] = 0
          /\ r.refresh \in 0..MaxGrants /\ r.refresh <= granted' /\ granted' = granted + 1
          /\ r.refresh # 0 => sends'[r.refresh] = 0
          /\ granted \in Nat /\ granted' \in 0..MaxGrants
        BY <2>0, <2>1, <2>3 DEF C!TypeOK
    <2> HIDE DEF refresh, g
    <2> USE <2>0, <2>1, <2>3, <2>4, <2>5, <2>6, <1>p
    <2>7. C!TypeOK'
        BY DEF C!TypeOK
    <2>8. LockIsHeld' /\ CallsAreOnTheirWay'
        <3>1. LockIsHeld'
            BY DEF LockIsHeld
        <3>2. CallsAreOnTheirWay'
            BY DEF CallsAreOnTheirWay, Refreshing
        <3> QED
            BY <3>1, <3>2
    <2>9. NothingBeforeRestore' /\ ReservationsHold'
        <3>1. loaded
            BY DEF NothingBeforeRestore
        <3> QED
            BY <3>1 DEF NothingBeforeRestore, ReservationsHold, Refreshing
    <2>10. RefreshesAreGranted'
        <3>1. \A u \in Task : local[u].refresh \in Nat
            BY DEF C!TypeOK, C!Local
        <3>2. disk # None => disk.refresh \in Nat
            BY DEF C!TypeOK, C!Tokens
        <3> QED
            BY <3>1, <3>2 DEF RefreshesAreGranted
    <2>11. AvailableAreUnsent'
        <3>1. \A u \in Task : local'[u].pc \notin {"save_reservation", "refresh"}
            OBVIOUS
        <3>2. disk # None => disk.refresh \in 0..MaxGrants
            BY DEF C!TypeOK, C!Tokens
        <3> QED
            BY <3>1, <3>2 DEF AvailableAreUnsent
    <2>12. C!RefreshSentOnce' /\ PendingIsUntaken'
        BY DEF C!RefreshSentOnce, PendingIsUntaken
    <2> QED
        BY <2>7, <2>8, <2>9, <2>10, <2>11, <2>12
<1>9. ASSUME NEW t \in Task, C!register(t) PROVE ClientIInv'
    <2>0. /\ local[t].pc = "begin" /\ lock = t /\ local[t].refresh = 0
          /\ UNCHANGED <<granted, begun, refused, sends, codes, withdrawn, crashes>>
        BY <1>9, <1>p DEF C!register, C!At, LockIsHeld, CallsAreOnTheirWay, Refreshing
    <2>1. \A u \in Task : u # t => local[u].pc \notin LockedPcs /\ ~Refreshing(u)
        BY <1>p, <2>0, OneInside
    <2>2. PICK pc \in {"pend", "save_registration"} :
            /\ local' \in [Task -> C!Local]
            /\ local'[t].pc = pc /\ local'[t].refresh = 0 /\ local'[t].op = local[t].op
            /\ \A u \in Task : u # t => local'[u] = local[u]
            /\ record' = record \/ (record = None /\ record' = C!Empty)
            /\ pc = "save_registration" => record' # None
            /\ save_failed' \in BOOLEAN
            /\ UNCHANGED <<lock, disk, loaded, server, pending, lapsed>>
        <3>1. CASE record = None \/ save_failed
            <4>1. PICK r \in C!Tokens : r = IF record = None THEN C!Empty ELSE record
                BY DEF C!TypeOK
            <4>2. C!write(t, r, "save_registration", 0)
                BY <1>9, <3>1, <4>1 DEF C!register
            <4>3. "save_registration" \in C!Pcs /\ 0 \in 0..MaxGrants
                BY <1>p
            <4>4. /\ local' \in [Task -> C!Local]
                  /\ local'[t].pc = "save_registration" /\ local'[t].refresh = 0 /\ local'[t].op = local[t].op
                  /\ \A u \in Task : u # t => local'[u] = local[u]
                  /\ record' = r /\ save_failed' = TRUE
                  /\ UNCHANGED <<lock, disk, loaded, server, pending, lapsed>>
                BY <4>2, <4>3, ClientWrites, ZenonT(60)
            <4> QED
                BY <4>1, <4>4
        <3>2. CASE ~(record = None \/ save_failed)
            BY <1>9, <1>p, <2>0, <3>2, ClientGoesOn DEF C!register, C!TypeOK
        <3> QED
            BY <3>1, <3>2
    <2> USE <1>p, <2>0, <2>1, <2>2
    <2>3. C!TypeOK'
        BY DEF C!TypeOK
    <2>4. LockIsHeld' /\ CallsAreOnTheirWay'
        BY DEF LockIsHeld, CallsAreOnTheirWay, Refreshing
    <2>5. NothingBeforeRestore' /\ ReservationsHold'
        BY DEF NothingBeforeRestore, ReservationsHold, Refreshing
    <2>6. RefreshesAreGranted' /\ AvailableAreUnsent' /\ C!RefreshSentOnce' /\ PendingIsUntaken'
        BY DEF RefreshesAreGranted, AvailableAreUnsent, C!RefreshSentOnce, PendingIsUntaken, C!TypeOK
    <2> QED
        BY <2>3, <2>4, <2>5, <2>6
<1>10. ASSUME NEW t \in Task, C!begin(t) PROVE ClientIInv'
    <2>0. /\ local[t].pc = "pend" /\ lock = t /\ begun < MaxLogins
          /\ begun' = begun + 1 /\ pending' = begun + 1
          /\ withdrawn' = withdrawn \cup ({pending} \ {0})
          /\ local' = [local EXCEPT ![t] = C!Idle] /\ lock' = None
          /\ UNCHANGED <<record, disk, loaded, save_failed, server, lapsed, granted, refused, sends, codes,
                         crashes>>
        BY <1>10, <1>p DEF C!begin, C!At, C!Leave, LockIsHeld
    <2>1. loaded /\ begun \in 0..MaxLogins /\ pending \in 0..begun
        BY <1>p, <2>0 DEF NothingBeforeRestore, C!TypeOK
    <2>2. /\ local' \in [Task -> C!Local]
          /\ local'[t].pc = "idle" /\ local'[t].refresh = 0
          /\ \A u \in Task : u # t => local'[u] = local[u]
        BY <2>0, ClientReturns
    <2> USE <1>p, <2>0, <2>1, <2>2
    <2>3. C!TypeOK'
        BY DEF C!TypeOK
    <2>4. LockIsHeld' /\ CallsAreOnTheirWay'
        BY DEF LockIsHeld, CallsAreOnTheirWay, Refreshing
    <2>5. NothingBeforeRestore' /\ ReservationsHold'
        BY DEF NothingBeforeRestore, ReservationsHold, Refreshing
    <2>6. RefreshesAreGranted' /\ AvailableAreUnsent' /\ C!RefreshSentOnce'
        BY DEF RefreshesAreGranted, AvailableAreUnsent, C!RefreshSentOnce, C!TypeOK
    <2>7. PendingIsUntaken'
        BY DEF PendingIsUntaken
    <2> QED
        BY <2>3, <2>4, <2>5, <2>6, <2>7
<1>11. ASSUME NEW t \in Task, NEW valid \in BOOLEAN, C!complete(t, valid) PROVE ClientIInv'
    <2>0. /\ local[t].pc = "complete" /\ lock = t /\ local[t].op = "complete" /\ local[t].refresh = 0
          /\ UNCHANGED <<record, disk, loaded, save_failed, server, lapsed, granted, begun, refused, sends,
                         withdrawn, crashes>>
        BY <1>11, <1>p DEF C!complete, C!At, C!store, LockIsHeld, CallsAreOnTheirWay, Refreshing
    <2>1. CASE C!Leave(t) /\ UNCHANGED codes /\ (pending' = pending \/ pending' = 0)
        BY <2>0, <2>1, ClientEnds DEF C!Leave
    <2>2. CASE /\ pending # 0 /\ pending' = 0 /\ local[t].login = pending
               /\ codes' = [codes EXCEPT ![pending] = codes[pending] + 1]
               /\ C!GoTo(t, "answer") /\ UNCHANGED lock
        <3>1. /\ local' \in [Task -> C!Local]
              /\ local'[t].pc = "answer" /\ local'[t].op = "complete" /\ local'[t].refresh = 0
              /\ \A u \in Task : u # t => local'[u] = local[u]
            BY <1>p, <2>0, <2>2, ClientGoesOn
        <3>2. /\ loaded /\ pending \in 1..MaxLogins /\ pending <= begun /\ begun \in Nat
              /\ codes' \in [1..MaxLogins -> Nat]
              /\ \A l \in 1..MaxLogins : l # pending => codes'[l] = codes[l]
            BY <2>0, <2>2 DEF NothingBeforeRestore, C!TypeOK
        <3> USE <1>p, <2>0, <2>2, <3>1, <3>2
        <3>3. C!TypeOK'
            BY DEF C!TypeOK
        <3>4. LockIsHeld' /\ CallsAreOnTheirWay'
            BY DEF LockIsHeld, CallsAreOnTheirWay, Refreshing
        <3>5. NothingBeforeRestore' /\ ReservationsHold' /\ RefreshesAreGranted'
            BY DEF NothingBeforeRestore, ReservationsHold, Refreshing, RefreshesAreGranted, C!TypeOK
        <3>6. AvailableAreUnsent' /\ C!RefreshSentOnce' /\ PendingIsUntaken'
            BY DEF AvailableAreUnsent, C!RefreshSentOnce, PendingIsUntaken
        <3> QED
            BY <3>3, <3>4, <3>5, <3>6
    <2> QED
        BY <1>11, <2>1, <2>2 DEF C!complete, C!PopPending
<1>12. ASSUME NEW l \in 1..begun, C!cancel(l) PROVE ClientIInv'
    <2>0. /\ pending = l /\ pending' = 0 /\ withdrawn' = withdrawn \cup {l}
          /\ UNCHANGED <<lock, record, disk, loaded, save_failed, server, lapsed, local, granted, begun,
                         refused, sends, codes, crashes>>
        BY <1>12 DEF C!cancel
    <2>1. C!TypeOK'
        BY <2>0 DEF C!TypeOK
    <2>2. LockIsHeld' /\ CallsAreOnTheirWay' /\ NothingBeforeRestore' /\ ReservationsHold'
        BY <2>0 DEF LockIsHeld, CallsAreOnTheirWay, Refreshing, NothingBeforeRestore, ReservationsHold
    <2>3. RefreshesAreGranted' /\ AvailableAreUnsent' /\ C!RefreshSentOnce' /\ PendingIsUntaken'
        BY <2>0 DEF RefreshesAreGranted, AvailableAreUnsent, C!RefreshSentOnce, PendingIsUntaken
    <2> QED
        BY <2>1, <2>2, <2>3
<1>13. ASSUME NEW t \in Task, C!invalidate(t) PROVE ClientIInv'
    <2>0. /\ local[t].pc = "invalidate" /\ lock = t /\ local[t].refresh = 0
          /\ UNCHANGED <<granted, begun, refused, sends, codes, withdrawn, crashes>>
        BY <1>13, <1>p DEF C!invalidate, C!At, LockIsHeld, CallsAreOnTheirWay, Refreshing
    <2>1. CASE C!Leave(t) /\ UNCHANGED <<record, disk, loaded, save_failed, server, pending, lapsed>>
        BY <2>0, <2>1, ClientEnds DEF C!Leave
    <2>2. CASE record # None /\ C!write(t, C!Empty, "save_empty", 0)
        <3>1. \A u \in Task : u # t => local[u].pc \notin LockedPcs /\ ~Refreshing(u)
            BY <1>p, <2>0, OneInside
        <3>2. /\ local' \in [Task -> C!Local]
              /\ local'[t].pc = "save_empty" /\ local'[t].refresh = 0 /\ local'[t].op = local[t].op
              /\ \A u \in Task : u # t => local'[u] = local[u]
              /\ record' = C!Empty /\ save_failed' = TRUE
              /\ UNCHANGED <<lock, disk, loaded, server, pending, lapsed>>
            <4>1. "save_empty" \in C!Pcs /\ 0 \in 0..MaxGrants
                BY <1>p
            <4> QED
                BY <2>2, <4>1, ClientWrites, ZenonT(60)
        <3>3. loaded
            BY <2>2 DEF NothingBeforeRestore
        <3> USE <1>p, <2>0, <2>2, <3>1, <3>2, <3>3
        <3>4. C!TypeOK'
            BY DEF C!TypeOK
        <3>5. LockIsHeld' /\ CallsAreOnTheirWay'
            BY DEF LockIsHeld, CallsAreOnTheirWay, Refreshing
        <3>6. NothingBeforeRestore' /\ ReservationsHold' /\ RefreshesAreGranted'
            BY DEF NothingBeforeRestore, ReservationsHold, Refreshing, RefreshesAreGranted, C!TypeOK
        <3>7. AvailableAreUnsent' /\ C!RefreshSentOnce' /\ PendingIsUntaken'
            BY DEF AvailableAreUnsent, C!RefreshSentOnce, PendingIsUntaken
        <3> QED
            BY <3>4, <3>5, <3>6, <3>7
    <2> QED
        BY <1>13, <2>1, <2>2 DEF C!invalidate
<1>14. ASSUME NEW t \in Task, NEW answer \in {200, 401, 403}, C!Send(t, answer) PROVE ClientIInv'
    <2>0. /\ local[t].pc = "send" /\ local[t].pc \notin LockedPcs /\ lock # t /\ local[t].refresh = 0
          /\ UNCHANGED <<lock, record, disk, loaded, save_failed, server, pending, lapsed, granted, begun,
                         sends, codes, withdrawn, crashes>>
        BY <1>14, <1>p DEF C!Send, C!At, LockIsHeld, CallsAreOnTheirWay, Refreshing
    <2>1. CASE answer # 401
        BY <1>14, <2>0, <2>1, ClientEnds DEF C!Send
    <2>2. CASE answer = 401
        <3>1. PICK op \in {"invalidate", "token"} :
                /\ refused' = refused \cup {local[t].token}
                /\ local' = [local EXCEPT ![t] = [local[t] EXCEPT !.pc = "lock", !.second = TRUE, !.op = op]]
            BY <1>14, <2>2 DEF C!Send
        <3>2. /\ local' \in [Task -> C!Local]
              /\ local'[t].pc = "lock" /\ local'[t].refresh = 0 /\ local'[t].op \in {"invalidate", "token"}
              /\ local'[t].token = local[t].token /\ local[t].token \in 0..MaxGrants
              /\ \A u \in Task : u # t => local'[u] = local[u]
            <4> DEFINE new == [local[t] EXCEPT !.pc = "lock", !.second = TRUE, !.op = op]
            <4>1. local \in [Task -> C!Local] /\ local[t] \in C!Local
                BY DEF C!TypeOK
            <4>2. /\ new \in C!Local /\ new.pc = "lock" /\ new.refresh = local[t].refresh /\ new.op = op
                  /\ new.token = local[t].token /\ local[t].token \in 0..MaxGrants
                BY <1>p, <4>1 DEF C!Local
            <4>3. local' = [local EXCEPT ![t] = new]
                BY <3>1
            <4> HIDE DEF new
            <4> QED
                BY <2>0, <4>1, <4>2, <4>3
        <3>3. C!TypeOK'
            BY <2>0, <3>1, <3>2 DEF C!TypeOK
        <3>4. LockIsHeld'
            BY <1>p, <2>0, <3>2 DEF LockIsHeld
        <3>5. CallsAreOnTheirWay'
            BY <1>p, <2>0, <3>1, <3>2 DEF CallsAreOnTheirWay, Refreshing
        <3>6. NothingBeforeRestore' /\ ReservationsHold' /\ RefreshesAreGranted'
            <4>1. NothingBeforeRestore'
                BY <1>p, <2>0, <3>2 DEF NothingBeforeRestore
            <4>2. ReservationsHold'
                BY <2>0, <3>2 DEF ReservationsHold, Refreshing
            <4>3. RefreshesAreGranted'
                BY <2>0, <3>2 DEF RefreshesAreGranted, C!TypeOK
            <4> QED
                BY <4>1, <4>2, <4>3
        <3>7. AvailableAreUnsent' /\ C!RefreshSentOnce' /\ PendingIsUntaken'
            BY <2>0, <3>2 DEF AvailableAreUnsent, C!RefreshSentOnce, PendingIsUntaken
        <3> QED
            BY <3>3, <3>4, <3>5, <3>6, <3>7
    <2> QED
        BY <2>1, <2>2
<1>15. CASE C!Lapse
    <2>0. /\ record \in C!Tokens /\ lapsed' = lapsed \cup {record.access}
          /\ UNCHANGED <<lock, record, disk, loaded, save_failed, server, pending, local, granted, begun,
                         refused, sends, codes, withdrawn, crashes>>
        BY <1>15 DEF C!Lapse, C!TypeOK
    <2>1. C!TypeOK'
        BY <2>0 DEF C!TypeOK, C!Tokens
    <2>2. LockIsHeld' /\ CallsAreOnTheirWay' /\ NothingBeforeRestore' /\ ReservationsHold'
        BY <2>0 DEF LockIsHeld, CallsAreOnTheirWay, Refreshing, NothingBeforeRestore, ReservationsHold
    <2>3. RefreshesAreGranted' /\ AvailableAreUnsent' /\ C!RefreshSentOnce' /\ PendingIsUntaken'
        BY <2>0 DEF RefreshesAreGranted, AvailableAreUnsent, C!RefreshSentOnce, PendingIsUntaken
    <2> QED
        BY <2>1, <2>2, <2>3
<1>16. ASSUME NEW t \in Task, C!Raise(t) PROVE ClientIInv'
    BY <1>16, ClientEnds DEF C!Raise
<1>17. CASE C!Crash
    <2>1. /\ crashes' = crashes + 1
          /\ disk' = disk \/ disk' = record
          /\ lock' = None /\ record' = None /\ loaded' = FALSE /\ save_failed' = FALSE
          /\ server' = FALSE /\ pending' = 0
          /\ local' = [t \in Task |-> C!Idle]
          /\ UNCHANGED <<lapsed, granted, begun, refused, sends, codes, withdrawn>>
        BY <1>17 DEF C!Crash
    <2>2. /\ local' \in [Task -> C!Local]
          /\ \A t \in Task : local'[t].pc = "idle" /\ local'[t].refresh = 0
        <3>1. C!Idle \in C!Local /\ C!Idle.pc = "idle" /\ C!Idle.refresh = 0
            BY DEF C!Idle, C!Local, C!Pcs
        <3> HIDE DEF C!Idle
        <3> QED
            BY <2>1, <3>1
    <2>3. C!TypeOK'
        <3>1. pending' \in 0..begun' /\ crashes' \in Nat /\ disk' \in C!Tokens \cup {None}
            BY <2>1 DEF C!TypeOK
        <3> QED
            BY <2>1, <2>2, <3>1 DEF C!TypeOK
    <2>4. LockIsHeld' /\ CallsAreOnTheirWay'
        BY <1>p, <2>1, <2>2 DEF LockIsHeld, CallsAreOnTheirWay, Refreshing
    <2>5. NothingBeforeRestore' /\ ReservationsHold' /\ RefreshesAreGranted'
        BY <1>p, <2>1, <2>2 DEF NothingBeforeRestore, ReservationsHold, Refreshing, RefreshesAreGranted,
            C!TypeOK
    <2>6. AvailableAreUnsent' /\ C!RefreshSentOnce' /\ PendingIsUntaken'
        BY <2>1, <2>2 DEF AvailableAreUnsent, C!RefreshSentOnce, PendingIsUntaken
    <2> QED
        BY <2>3, <2>4, <2>5, <2>6
<1>18. ASSUME NEW t \in Task, C!Continue(t) PROVE ClientIInv'
    <2>1. CASE C!Enter(t) \/ C!discover(t) \/ C!token(t) \/ C!Refresh(t)
        BY <2>1, <1>3, <1>4, <1>6, <1>7
    <2>2. ASSUME NEW b \in BOOLEAN, C!Saved(t, b) \/ C!Granted(t, b) \/ C!complete(t, b)
          PROVE  ClientIInv'
        BY <2>2, <1>5, <1>8, <1>11
    <2>3. CASE C!register(t) \/ C!begin(t) \/ C!invalidate(t) \/ C!Raise(t)
        BY <2>3, <1>9, <1>10, <1>13, <1>16
    <2>4. ASSUME NEW answer \in {200, 401, 403}, C!Send(t, answer) PROVE ClientIInv'
        BY <2>4, <1>14
    <2> QED
        BY <1>18, <2>1, <2>2, <2>3, <2>4 DEF C!Continue
<1>19. ASSUME NEW t \in Task, NEW l \in 1..begun, C!Start(t, "complete", l) PROVE ClientIInv'
    <2>1. l \in 0..begun
        BY DEF C!TypeOK
    <2> QED
        BY <1>19, <1>2, <2>1
<1>20. ASSUME NEW t \in Task, C!Start(t, "token", 0) \/ C!Start(t, "begin", 0) PROVE ClientIInv'
    BY <1>20, <1>2, SMTT(60) DEF C!TypeOK
<1>21. CASE C!Next
    <2>1. CASE C!Lapse \/ C!Crash
        BY <2>1, <1>15, <1>17
    <2>2. CASE \E l \in 1..begun : C!cancel(l)
        BY <2>2, <1>12
    <2>3. ASSUME NEW t \in Task,
                 \/ C!Start(t, "token", 0) \/ C!Start(t, "begin", 0)
                 \/ \E l \in 1..begun : C!Start(t, "complete", l)
                 \/ C!Continue(t)
          PROVE  ClientIInv'
        BY <2>3, <1>18, <1>19, <1>20
    <2> QED
        BY <1>21, <2>1, <2>2, <2>3 DEF C!Next
<1> QED
    BY <1>1, <1>21 DEF C!vars

\* Which steps take an access token out of the record, and what they know.
LEMMA ClientGivesUp ==
    ASSUME ClientIInv, C!Next, C!Held # 0, C!Held' # C!Held, loaded'
    PROVE  \/ C!Held \in lapsed \cup refused
           \/ \E t \in Task : local[t].op = "complete" /\ C!At(t, "answer") /\ C!Held' = granted'
<1> USE ClientConstants, EmptyHasNoTokens DEF ClientIInv, C!store, C!history
<1> DEFINE Known == \/ C!Held \in lapsed \cup refused
                    \/ \E t \in Task : local[t].op = "complete" /\ C!At(t, "answer") /\ C!Held' = granted'
<1>0. record \in C!Tokens /\ C!Held = record.access /\ loaded /\ record # C!Empty
    BY DEF C!Held, C!TypeOK, NothingBeforeRestore
<1>1. record' # record
    BY DEF C!Held
<1>2. ASSUME NEW t \in Task, C!discover(t) PROVE FALSE
    BY <1>0, <1>1, <1>2 DEF C!discover
<1>3. ASSUME NEW t \in Task, C!token(t) PROVE Known
    <2>1. ~C!Usable(t) /\ local[t].pc = "token"
        BY <1>0, <1>1, <1>3 DEF C!token, C!At
    <2> QED
        BY <1>0, <2>1 DEF C!Usable, CallsAreOnTheirWay
<1>4. ASSUME NEW t \in Task, NEW rotated \in BOOLEAN, C!Granted(t, rotated) PROVE Known
    <2>1. /\ local[t].pc = "answer"
          /\ granted \in 0..MaxGrants /\ granted < MaxGrants /\ granted' = granted + 1
          /\ record' = [access |-> granted + 1, refresh |-> IF rotated THEN granted + 1 ELSE local[t].refresh]
        BY <1>4 DEF C!Granted, C!write, C!At, C!TypeOK
    <2>2. local[t].op = "complete"
        BY <1>0, <2>1 DEF CallsAreOnTheirWay, ReservationsHold
    <2>3. local[t].refresh \in 0..MaxGrants
        BY DEF C!TypeOK, C!Local
    <2>4. record' # None /\ record'.access = granted'
        BY <2>1, <2>3 DEF C!Tokens
    <2> QED
        BY <2>1, <2>2, <2>4 DEF C!Held, C!At
<1>5. ASSUME NEW t \in Task, C!register(t) PROVE FALSE
    BY <1>0, <1>1, <1>5 DEF C!register, C!write
<1>6. ASSUME NEW t \in Task, C!invalidate(t) PROVE Known
    <2>1. record.access = local[t].token /\ local[t].pc = "invalidate"
        BY <1>0, <1>1, <1>6 DEF C!invalidate, C!At
    <2> QED
        BY <1>0, <2>1 DEF CallsAreOnTheirWay
<1>7. ASSUME C!Crash PROVE FALSE
    BY <1>7 DEF C!Crash
<1>8. ASSUME NEW t \in Task, C!Continue(t) PROVE Known
    <2>1. CASE C!Enter(t) \/ C!Refresh(t) \/ C!begin(t) \/ C!Raise(t)
        BY <1>1, <2>1 DEF C!Enter, C!Refresh, C!begin, C!Raise
    <2>2. ASSUME NEW b \in BOOLEAN, C!Saved(t, b) \/ C!Granted(t, b) \/ C!complete(t, b) PROVE Known
        BY <1>1, <1>4, <2>2 DEF C!Saved, C!complete
    <2>3. ASSUME NEW answer \in {200, 401, 403}, C!Send(t, answer) PROVE Known
        BY <1>1, <2>3 DEF C!Send
    <2>4. CASE C!discover(t) \/ C!token(t) \/ C!register(t) \/ C!invalidate(t)
        BY <1>2, <1>3, <1>5, <1>6, <2>4
    <2> QED
        BY <1>8, <2>1, <2>2, <2>3, <2>4 DEF C!Continue
<1>9. ASSUME NEW t \in Task, NEW op, NEW l, C!Start(t, op, l) PROVE FALSE
    BY <1>1, <1>9 DEF C!Start
<1>10. ASSUME NEW l \in 1..begun, C!cancel(l) PROVE FALSE
    BY <1>1, <1>10 DEF C!cancel
<1>11. ASSUME C!Lapse PROVE FALSE
    BY <1>1, <1>11 DEF C!Lapse
<1> QED
    BY <1>7, <1>8, <1>9, <1>10, <1>11 DEF C!Next

\* Only complete sends a code, the pending login's.
LEMMA ClientSendsTheCode ==
    ASSUME ClientIInv, C!Next, NEW l \in 1..MaxLogins, codes'[l] # codes[l]
    PROVE  codes'[l] = 1 /\ l \notin withdrawn
<1> USE DEF ClientIInv, C!store, C!history
<1>1. ASSUME NEW t \in Task, NEW valid \in BOOLEAN, C!complete(t, valid)
      PROVE  codes'[l] = 1 /\ l \notin withdrawn
    <2>1. /\ pending # 0 /\ pending = local[t].login
          /\ codes' = [codes EXCEPT ![pending] = codes[pending] + 1]
        BY <1>1 DEF C!complete
    <2> QED
        BY <2>1 DEF C!TypeOK, PendingIsUntaken
<1>2. ASSUME NEW t \in Task, C!Continue(t) PROVE codes'[l] = 1 /\ l \notin withdrawn
    <2>1. CASE \/ C!Enter(t) \/ C!Refresh(t) \/ C!begin(t) \/ C!Raise(t) \/ C!discover(t) \/ C!token(t)
               \/ C!register(t) \/ C!invalidate(t)
        BY <2>1 DEF C!Enter, C!Refresh, C!begin, C!Raise, C!discover, C!token, C!register, C!invalidate
    <2>2. ASSUME NEW b \in BOOLEAN, C!Saved(t, b) \/ C!Granted(t, b) PROVE FALSE
        BY <2>2 DEF C!Saved, C!Granted
    <2>3. ASSUME NEW answer \in {200, 401, 403}, C!Send(t, answer) PROVE FALSE
        BY <2>3 DEF C!Send
    <2> QED
        BY <1>1, <1>2, <2>1, <2>2, <2>3 DEF C!Continue
<1>3. ASSUME NEW t \in Task, NEW op, NEW login, C!Start(t, op, login) PROVE FALSE
    BY <1>3 DEF C!Start
<1>4. ASSUME NEW login \in 1..begun, C!cancel(login) PROVE FALSE
    BY <1>4 DEF C!cancel
<1>5. ASSUME C!Lapse \/ C!Crash PROVE FALSE
    BY <1>5 DEF C!Lapse, C!Crash
<1> QED
    BY <1>2, <1>3, <1>4, <1>5 DEF C!Next

LEMMA ClientSteps ==
    ASSUME ClientIInv, [C!Next]_(C!vars)
    PROVE  /\ C!Held # 0 /\ C!Held' # C!Held /\ loaded' =>
                \/ C!Held \in lapsed \cup refused
                \/ \E t \in Task : local[t].op = "complete" /\ C!At(t, "answer") /\ C!Held' = granted'
           /\ \A l \in 1..MaxLogins : codes'[l] # codes[l] => codes'[l] = 1 /\ l \notin withdrawn
<1>1. CASE UNCHANGED C!vars
    BY <1>1 DEF C!vars, C!Held
<1>2. CASE C!Next
    BY <1>2, ClientGivesUp, ClientSendsTheCode
<1> QED
    BY <1>1, <1>2

\* The lock, the record in memory and on disk, and every task's call.
THEOREM ClientTypeCorrect == C!Spec => []C!TypeOK
<1>1. ClientIInv => C!TypeOK
    BY DEF ClientIInv
<1> QED
    BY ClientInit, ClientStep, <1>1, PTL DEF C!Spec

\* "Never retry it on the next request": `token` takes the refresh token out
\* of the record before it sends it, and no failure brings it back.
THEOREM ClientSendsRefreshOnce == C!Spec => []C!RefreshSentOnce
<1>1. ClientIInv => C!RefreshSentOnce
    BY DEF ClientIInv
<1> QED
    BY ClientInit, ClientStep, <1>1, PTL DEF C!Spec

\* `token` and `invalidate` compare the token that failed with the one in the
\* record: what a slower task knows takes no fresh token away.
THEOREM ClientKeepsFreshTokens == C!Spec => C!OnlyItsOwnRefusal
    BY ClientInit, ClientStep, ClientSteps, PTL DEF C!Spec, C!OnlyItsOwnRefusal

\* `complete` takes the pending login out before it looks at the callback, and
\* cancel, begin and a restart take it out too.
THEOREM ClientTakesLoginsOnce == C!Spec => C!LoginsAreTakenOnce
    BY ClientInit, ClientStep, ClientSteps, PTL DEF C!Spec, C!LoginsAreTakenOnce

-----------------------------------------------------------------------------
(* The callback route *)

\* The page's attempt is the login of the last future; an earlier future still
\* open was overtaken; and if the last one is open, it began after the cancel of
\* every begin under way.
OutcomeIsTheLast ==
    /\ attempt \in 0..MaxLogins /\ outcome \in 0..MaxLogins /\ begins \in 0..MaxLogins
    /\ result \in [1..MaxLogins -> {"none", "pending", "ok", "error"}]
    /\ beginning \in [Begins -> {"idle", "auth", "waiting"}]
    /\ handling \in [Handler -> [login : 0..MaxLogins, exchanged : BOOLEAN]]
    /\ since \in [Begins -> Nat] /\ outcome = begins
    /\ \A b \in Begins : since[b] <= begins
    /\ \A l \in 1..MaxLogins : result[l] = "pending" => l = outcome \/ l \in overtaken
    /\ \A b \in Begins : beginning[b] = "auth" /\ R!Pending(outcome) => since[b] < outcome
    /\ attempt # 0 => attempt = outcome

CallbackIInv == OutcomeIsTheLast /\ R!NobodyWaitsForNothing

LEMMA CallbackInit == R!Init => CallbackIInv
    BY ClientConstants
    DEF R!Init, CallbackIInv, OutcomeIsTheLast, R!NobodyWaitsForNothing, R!NotHandling, R!Pending

\* cancel() leaves open only what was overtaken.
LEMMA CancelTells ==
    ASSUME OutcomeIsTheLast, R!Cancel
    PROVE  /\ result' \in [1..MaxLogins -> {"none", "pending", "ok", "error"}]
           /\ \A l \in 1..MaxLogins : result'[l] = "pending" => l \in overtaken
           /\ ~R!Pending(outcome)'
           /\ attempt' = 0 /\ outcome' = outcome
    BY ClientConstants DEF OutcomeIsTheLast, R!Cancel, R!Cancelled, R!Pending

LEMMA CallbackStep == CallbackIInv /\ [R!Next]_(R!vars) => CallbackIInv'
<1> SUFFICES ASSUME CallbackIInv, [R!Next]_(R!vars) PROVE CallbackIInv'
    OBVIOUS
<1> USE ClientConstants DEF CallbackIInv, R!app, R!history
<1>1. CASE R!cancel
    <2>1. /\ \A l \in 1..MaxLogins : result'[l] = "pending" => l \in overtaken
          /\ ~R!Pending(outcome)' /\ attempt' = 0 /\ outcome' = outcome
          /\ result' \in [1..MaxLogins -> {"none", "pending", "ok", "error"}]
          /\ UNCHANGED <<begins, beginning, handling, since, overtaken>>
        BY <1>1, CancelTells DEF R!cancel
    <2> QED
        BY <2>1 DEF OutcomeIsTheLast, R!NobodyWaitsForNothing
<1>2. ASSUME NEW b \in Begins, R!begin(b) PROVE CallbackIInv'
    <2>1. /\ \A l \in 1..MaxLogins : result'[l] = "pending" => l \in overtaken
          /\ ~R!Pending(outcome)' /\ attempt' = 0 /\ outcome' = outcome
          /\ result' \in [1..MaxLogins -> {"none", "pending", "ok", "error"}]
        BY <1>2, CancelTells DEF R!begin
    <2>2. /\ UNCHANGED <<begins, handling, overtaken>>
          /\ beginning' = [beginning EXCEPT ![b] = "auth"]
          /\ since' = [since EXCEPT ![b] = begins]
        BY <1>2 DEF R!begin
    <2>3. /\ since' \in [Begins -> Nat] /\ \A c \in Begins : since'[c] <= begins
          /\ beginning' \in [Begins -> {"idle", "auth", "waiting"}]
        BY <2>2 DEF OutcomeIsTheLast
    <2> QED
        BY <2>1, <2>2, <2>3 DEF OutcomeIsTheLast, R!NobodyWaitsForNothing
<1>3. ASSUME NEW b \in Begins, R!Begun(b) PROVE CallbackIInv'
    <2>1. CASE begins < MaxLogins
        <3> DEFINE l == begins + 1
        <3>1. /\ begins' = l /\ attempt' = l /\ outcome' = l /\ l \in 1..MaxLogins
              /\ result' = [result EXCEPT ![l] = "pending"]
              /\ beginning' = [beginning EXCEPT ![b] = "waiting"]
              /\ overtaken' = overtaken \cup
                     (IF R!Pending(outcome) /\ since[b] < outcome THEN {outcome} ELSE {})
              /\ UNCHANGED <<handling, since>> /\ beginning[b] = "auth"
            BY <1>3, <2>1 DEF R!Begun, OutcomeIsTheLast
        <3> HIDE DEF l
        <3>2. /\ result' \in [1..MaxLogins -> {"none", "pending", "ok", "error"}]
              /\ \A k \in 1..MaxLogins : result'[k] = "pending" => k = l \/ result[k] = "pending"
            BY <3>1 DEF OutcomeIsTheLast
        <3>3. R!Pending(outcome) => outcome \in overtaken'
            BY <3>1 DEF OutcomeIsTheLast
        <3>4. \A k \in 1..MaxLogins : result'[k] = "pending" => k = l \/ k \in overtaken'
            BY <3>1, <3>2, <3>3 DEF OutcomeIsTheLast, R!Pending
        <3>5. \A c \in Begins : since'[c] <= begins /\ since'[c] < l
            BY <3>1 DEF OutcomeIsTheLast, l
        <3>6. beginning' \in [Begins -> {"idle", "auth", "waiting"}]
            BY <3>1 DEF OutcomeIsTheLast
        <3>7. \A c \in Begins : since'[c] <= l
            BY <3>1, <3>5 DEF OutcomeIsTheLast
        <3>8. R!NobodyWaitsForNothing'
            BY <3>1, <3>4 DEF R!NobodyWaitsForNothing, R!WillBeTold
        <3> QED
            BY <3>1, <3>2, <3>4, <3>5, <3>6, <3>7, <3>8 DEF OutcomeIsTheLast
    <2>2. CASE ~(begins < MaxLogins)
        <3>1. /\ UNCHANGED <<begins, attempt, outcome, result, overtaken, handling, since>>
              /\ beginning' = [beginning EXCEPT ![b] = "idle"]
            BY <1>3, <2>2 DEF R!Begun
        <3> QED
            BY <3>1 DEF OutcomeIsTheLast, R!NobodyWaitsForNothing, R!WillBeTold, R!Pending
    <2> QED
        BY <2>1, <2>2
<1>4. ASSUME NEW b \in Begins, R!wait(b) PROVE CallbackIInv'
    BY <1>4 DEF R!wait, OutcomeIsTheLast, R!Pending, R!NobodyWaitsForNothing, R!WillBeTold
<1>5. ASSUME NEW h \in Handler, NEW l \in 1..MaxLogins, R!handle(h, l) PROVE CallbackIInv'
    <2>1. /\ attempt = l /\ attempt' = 0 /\ handling' = [handling EXCEPT ![h].login = l]
          /\ handling[h].login = 0
          /\ UNCHANGED <<outcome, result, begins, beginning, since, overtaken>>
        BY <1>5 DEF R!handle, R!NotHandling
    <2>2. handling'[h].login = l /\ \A g \in Handler : g # h => handling'[g] = handling[g]
        BY <2>1 DEF OutcomeIsTheLast, R!Pending
    <2>3. OutcomeIsTheLast'
        BY <2>1 DEF OutcomeIsTheLast, R!Pending
    <2> QED
        BY <2>1, <2>2, <2>3 DEF R!NobodyWaitsForNothing, R!WillBeTold
<1>6. ASSUME NEW h \in Handler, R!Complete(h) PROVE CallbackIInv'
    <2>1. /\ handling' = [handling EXCEPT ![h].exchanged = TRUE]
          /\ UNCHANGED <<attempt, outcome, result, begins, beginning, since, overtaken>>
        BY <1>6 DEF R!Complete
    <2>2. \A g \in Handler : handling'[g].login = handling[g].login
        BY <2>1 DEF OutcomeIsTheLast, R!Pending
    <2>3. OutcomeIsTheLast'
        BY <2>1 DEF OutcomeIsTheLast, R!Pending
    <2> QED
        BY <2>1, <2>2, <2>3 DEF R!NobodyWaitsForNothing, R!WillBeTold
<1>7. ASSUME NEW h \in Handler, NEW ok \in BOOLEAN, R!Handled(h, ok) PROVE CallbackIInv'
    <2>1. PICK l \in 1..MaxLogins : l = handling[h].login
        BY <1>7 DEF R!Handled, OutcomeIsTheLast
    <2>2. /\ result' = IF result[l] = "pending"
                       THEN [result EXCEPT ![l] = IF ok THEN "ok" ELSE "error"] ELSE result
          /\ handling' = [handling EXCEPT ![h] = R!NotHandling]
          /\ UNCHANGED <<attempt, outcome, begins, beginning, since, overtaken>>
        BY <1>7, <2>1 DEF R!Handled
    <2>3. /\ \A k \in 1..MaxLogins : result'[k] = "pending" => result[k] = "pending" /\ k # l
          /\ \A g \in Handler : g # h => handling'[g] = handling[g]
        BY <2>1, <2>2 DEF OutcomeIsTheLast, R!Pending
    <2>4. OutcomeIsTheLast'
        BY <2>1, <2>2, <2>3 DEF OutcomeIsTheLast, R!NotHandling, R!Pending
    <2> QED
        BY <2>1, <2>2, <2>3, <2>4 DEF R!NobodyWaitsForNothing, R!WillBeTold
<1>8. CASE UNCHANGED R!vars
    BY <1>8 DEF R!vars, OutcomeIsTheLast, R!Pending, R!NobodyWaitsForNothing, R!WillBeTold
<1> QED
    BY <1>1, <1>2, <1>3, <1>4, <1>5, <1>6, <1>7, <1>8 DEF R!Next

-----------------------------------------------------------------------------
(* The three together *)

\* Each step of MCNext is a step of one part, and a stutter of the others.
LEMMA PartsStep ==
    [MCNext]_<<part, vars, client, callback>> =>
        [Next]_vars /\ [C!Next]_(C!vars) /\ [R!Next]_(R!vars)
    BY DEF MCNext, client, callback, C!vars, R!vars, C!store, C!history, R!app

\* The server and the client in the composition.
THEOREM TokensFollow == MCSpec => []TokensFollowTheLogin
<1>1. IInv => TokensFollowTheLogin
    BY IInvHoldsTheRest
<1> QED
    BY InitIInv, StepIInv, PartsStep, <1>1, PTL DEF MCSpec, MCInit

\* In the composition: a token that was not revoked works for as long as /token
\* told, and none outlives its account.
THEOREM LifeIsAsTold == MCSpec => []TokenLifeIsAsTold
<1>1. IInv => TokenLifeIsAsTold
    BY IInvHoldsTheRest
<1> QED
    BY InitIInv, StepIInv, PartsStep, <1>1, PTL DEF MCSpec, MCInit

\* In the composition: no refresh token is sent a second time, after a lost answer
\* or a restart either.
THEOREM RefreshOnce == MCSpec => []RefreshSentOnce
<1>1. ClientIInv => RefreshSentOnce
    BY DEF ClientIInv, RefreshSentOnce
<1> QED
    BY ClientInit, ClientStep, PartsStep, <1>1, PTL DEF MCSpec, MCInit

\* In the composition: an access token is given up for its own refusal only.
THEOREM FreshTokensStay == MCSpec => OnlyItsOwnRefusal
    BY ClientInit, ClientStep, ClientSteps, PartsStep, PTL
    DEF MCSpec, MCInit, OnlyItsOwnRefusal, C!OnlyItsOwnRefusal

\* A ticket, a state and a code at the server, and a login at the client, are
\* taken once.
THEOREM TakenOnce == MCSpec => NothingIsTakenTwice
<1>1. IInv => SpentOnce
    BY IInvHoldsTheRest
<1>2. MCSpec => [][SpentOnce']_vars
    BY InitIInv, StepIInv, PartsStep, <1>1, PTL DEF MCSpec, MCInit
<1>3. MCSpec => C!LoginsAreTakenOnce
    BY ClientInit, ClientStep, ClientSteps, PartsStep, PTL DEF MCSpec, MCInit, C!LoginsAreTakenOnce
<1> QED
    BY <1>2, <1>3 DEF NothingIsTakenTwice

\* However many begins overlap, whoever waits for the outcome of a login will be
\* told it by the page or by the callback that took the attempt, unless the login
\* was overtaken by a begin that had cancelled before it.
THEOREM NobodyWaits == MCSpec => []NobodyWaitsForNothing
<1>1. CallbackIInv => NobodyWaitsForNothing
    BY DEF CallbackIInv, NobodyWaitsForNothing
<1> QED
    BY CallbackInit, CallbackStep, PartsStep, <1>1, PTL DEF MCSpec, MCInit
=============================================================================
