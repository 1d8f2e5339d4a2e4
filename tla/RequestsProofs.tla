--------------------------- MODULE RequestsProofs ---------------------------
(***************************************************************************)
(* Theorems about MCSpec, for any arguments and any number of requests: in *)
(* whose session a request is served, what it is answered with, that       *)
(* the endpoint reads a request the way its client meant it; and for any   *)
(* registrations what a client that follows the pages of a listing gets,   *)
(* and that what is listed is served.                                      *)
(***************************************************************************)
EXTENDS MCRequests, Sequences, OrderedProofs, SequenceTheorems, FiniteSetTheorems, TLAPS
-----------------------------------------------------------------------------
(* Every request: whose session it is served in. *)

Fields == {"principal", "record", "adapter", "items", "status", "replies", "minted"}
Elements(s) == {s[n] : n \in DOMAIN s}
Admitted == {"verified", "loaded", "selected", "decoded", "running"}
Stages == {"idle", "received", "answered", "over"} \cup Admitted

OwnCredential(c) == \E x \in Q!Issuers : c = Q!Credential("bearer", x, "alice")

RequestShape ==
    /\ conf \in Q!Confs
    /\ client.revision \in Q!Revision /\ OwnCredential(client.credential)
    /\ client.on_ask \in BOOLEAN
    /\ sessions \in Seq(Elements(sessions))
    /\ DOMAIN h = Fields
    /\ q_stage \in Stages
    /\ q_stage \notin {"running", "answered"} => ran = <<>> /\ h.minted = None
    /\ q_stage \in {"idle", "received", "over"} => h = Q!Fresh

\* A session is bound to whoever opened it, and found by nobody else.
Bound ==
    /\ \A s \in DOMAIN sessions :
        /\ sessions[s].space = Q!Space(sessions[s].owner)
        /\ sessions[s].owner = None <=> conf.policies = <<>>
    /\ q_stage \in Admitted => (h.principal = None <=> conf.policies = <<>>)
    /\ q_stage = "verified" => h.record = None
    /\ h.record # None => h.record.owner = h.principal
    /\ q_stage \in Admitted /\ conf.policies # <<>> => h.principal = Q!identity(q.credential)
    /\ h.record # None /\ conf.policies # <<>> => h.record.owner = Q!identity(q.credential)

-----------------------------------------------------------------------------
(* Every request: what it is owed. *)

Behind == Len(q.body.items) - Len(h.items)

\* What a decoded item is to its message.
Answers(item, i) ==
    /\ item.respond = ~Q!Notification(i) /\ item.id = Q!usable_id(i)
    /\ item.fault \in {None, "malformed", "unknown_method", "invalid_params"}

\* Whether message n of request r is owed an answer, and how many are up to it.
Due(r, n) == ~Q!Notification(r.body.items[n])
DueUpTo(r, n) == Cardinality({m \in 1..n : Due(r, m)})

\* The replies to the first k messages.
Counted(k) ==
    /\ Len(h.replies) = DueUpTo(q, k)
    /\ \A n \in 1..k : Due(q, n) => h.replies[DueUpTo(q, n)] = Q!usable_id(q.body.items[n])

Owing ==
    /\ q_stage \notin {"idle", "over"} => q.body.items \in Seq(Elements(q.body.items))
    /\ q_stage \in {"received", "verified", "loaded", "selected", "decoded"} =>
        h.replies = <<>> /\ h.status = None
    /\ q_stage \in {"decoded", "running"} =>
        /\ h.items \in Seq(Elements(h.items)) /\ Len(h.items) <= Len(q.body.items)
        /\ \A n \in DOMAIN h.items : Answers(h.items[n], q.body.items[Behind + n])
        /\ h.status \in {None, 200, 400, 403, 404}
        /\ h.replies \in Seq(Elements(h.replies))
        /\ Counted(Behind)
    /\ q_stage = "decoded" => Len(h.items) = Len(q.body.items)
    /\ q_stage = "answered" /\ ran # <<>> =>
        /\ h.replies \in Seq(Elements(h.replies))
        /\ Counted(Len(q.body.items))
        /\ h.status = 202 <=> h.replies = <<>>

-----------------------------------------------------------------------------
(* A request differs from one the client composes in one place at most. *)

Own(i) == Q!client_decorate_params(client, i)

Framed(r, i) ==
    /\ r.session = session_id /\ r.pin = None /\ r.credential = client.credential
    /\ r.origin = None /\ r.json = TRUE /\ r.accept = {"json", "sse"}
    /\ r.header = Q!client_headers(client, i).header
    /\ r.mcp_method = Q!client_headers(client, i).mcp_method
    /\ r.mcp_name = Q!client_headers(client, i).mcp_name
    /\ r.mcp_param = Q!client_headers(client, i).mcp_param

Composed(r) ==
    \E i \in Q!Wanted(client) :
        \/ Framed(r, i) /\ r.body = Q!Object(Own(i))
        \/ /\ ~r.intact
           /\ \/ r.body = Q!Object(Own(i))
              \/ Framed(r, i) /\ r.body \in Q!Bodies(client, Own(i))

\* What an endpoint that reads a legacy client's request as a modern one made
\* of it answers to nothing but a malformed message.
ReadAsModern ==
    /\ q_stage \notin {"idle", "over"} => Composed(q)
    /\ client.revision < 5 =>
        /\ q_stage = "selected" /\ h.adapter = 5 /\ Q!Preamble(q, "meta") # None =>
              q.pin # None \/ Q!Preamble(q, "meta") = 5
        /\ q_stage \in {"decoded", "running"} /\ h.adapter = 5 =>
              \A n \in DOMAIN h.items : ~h.items[n].respond \/ h.items[n].fault = "malformed"
        /\ q_stage \in {"decoded", "running"} => h.status # 404
        /\ q_stage = "answered" /\ h.status = 404 => q.session # None /\ h.record = None

-----------------------------------------------------------------------------
(* A request as the client composed it. *)

Alice == Q!identity(client.credential)
Self == IF conf.policies = <<>> THEN None ELSE Alice

OwnRecord ==
    [space |-> Q!Space(Self), owner |-> Self, version |-> client.revision, caps |-> Q!capabilities(client)]

Intact(r, i) == r.intact /\ Framed(r, i) /\ r.body = Q!Object(Own(i))

Reads(v, i) ==
    /\ v \in conf.adapters
    /\ Q!has_handshake(v) <=> Q!has_handshake(client.revision)
    /\ session_id # None => v = client.revision

OwnItem(item, i) ==
    /\ item.operation = Q!operation_for(client.revision, i.method)
    /\ item.name = i.name /\ item.arg = i.arg /\ item.version = i.version /\ item.fault = None
    /\ item.caps = Q!capabilities(client)
    /\ item.respond <=> i.id # "absent"

Opened(s) == client.revision < 5 /\ s \in DOMAIN sessions /\ sessions[s] = OwnRecord

Understood(i) ==
    /\ q_stage \in Admitted => h.principal = Self
    /\ q_stage \in Admitted \ {"verified"} =>
        h.record = IF session_id = None THEN None ELSE sessions[session_id]
    /\ q_stage \in {"selected", "decoded", "running", "answered"} => Reads(h.adapter, i)
    /\ q_stage \in {"decoded", "running"} /\ h.items # <<>> =>
        /\ Len(h.items) = 1 /\ OwnItem(h.items[1], i)
        /\ ran = <<>> /\ h.replies = <<>> /\ h.minted = None
    /\ q_stage = "decoded" => h.items # <<>>
    /\ q_stage = "running" /\ h.items = <<>> =>
        /\ ran = <<Q!Meant(client, i)>>
        /\ h.replies # <<>> => h.status = 200
        /\ h.minted # None => Opened(h.minted)
    /\ q_stage = "answered" =>
        /\ ran = <<Q!Meant(client, i)>> /\ h.status \in {200, 202}
        /\ h.minted # None => Opened(h.minted)

OwnIInv ==
    Q!Served =>
        /\ q_stage # "over" /\ session_id # None => Opened(session_id)
        /\ q_stage \notin {"idle", "over"} /\ q.intact =>
              \E i \in Q!Wanted(client) : Intact(q, i) /\ Understood(i)

RequestIInv == RequestShape /\ Bound /\ Owing /\ ReadAsModern /\ OwnIInv

-----------------------------------------------------------------------------
(* What the steps do. *)

LEMMA Configured ==
    ASSUME conf \in Q!Confs
    PROVE  /\ conf.adapters \in {Q!Revision, {1, 2}, {4}, {5}}
           /\ conf.policies \in {<<>>, <<"bearer">>, <<"basic", "bearer">>}
           /\ conf.namespaced \/ (conf.bind /\ conf.policies # <<>>)
           /\ conf.namespaced \in BOOLEAN /\ conf.bind \in BOOLEAN
<1> DEFINE Conf(adapters, policies, namespaced, bind) ==
            [adapters |-> adapters, policies |-> policies, namespaced |-> namespaced, bind |-> bind]
<1>1. \/ \E s \in {Q!Revision, {1, 2}, {4}, {5}} : conf = Conf(s, <<>>, TRUE, TRUE)
      \/ \E p \in {<<"bearer">>, <<"basic", "bearer">>} : conf = Conf(Q!Revision, p, FALSE, TRUE)
      \/ conf = Conf(Q!Revision, <<"bearer">>, TRUE, FALSE)
    BY DEF Q!Confs
<1>2. CASE \E s \in {Q!Revision, {1, 2}, {4}, {5}} : conf = Conf(s, <<>>, TRUE, TRUE)
    BY <1>2
<1>3. CASE \E p \in {<<"bearer">>, <<"basic", "bearer">>} : conf = Conf(Q!Revision, p, FALSE, TRUE)
    <2>1. PICK p \in {<<"bearer">>, <<"basic", "bearer">>} : conf = Conf(Q!Revision, p, FALSE, TRUE)
        BY <1>3
    <2>2. p # <<>>
        OBVIOUS
    <2>3. QED
        BY <2>1, <2>2
<1>4. CASE conf = Conf(Q!Revision, <<"bearer">>, TRUE, FALSE)
    BY <1>4
<1>5. QED
    BY <1>1, <1>2, <1>3, <1>4

\* Who is let in has a name exactly where names are asked for.
LEMMA VerifiedNames ==
    ASSUME conf \in Q!Confs, NEW c, conf.policies = <<>> \/ Q!Accepting(c) # {}
    PROVE  /\ Q!verified(c) = None <=> conf.policies = <<>>
           /\ conf.policies # <<>> => Q!verified(c) = Q!identity(c)
<1>1. CASE conf.policies = <<>>
    BY <1>1 DEF Q!verified
<1>2. CASE conf.policies # <<>>
    <2> DEFINE First(n) == /\ conf.policies[n] \in Q!Accepting(c)
                           /\ \A m \in 1 .. n - 1 : conf.policies[m] \notin Q!Accepting(c)
    <2>1. conf.policies \in {<<"bearer">>, <<"basic", "bearer">>}
        BY <1>2, Configured
    <2>2. \E n \in DOMAIN conf.policies : conf.policies[n] \in Q!Accepting(c)
        BY <1>2 DEF Q!Accepting, Q!ToSet
    <2>3. \E n \in DOMAIN conf.policies : First(n)
        <3>1. CASE 1 \in DOMAIN conf.policies /\ conf.policies[1] \in Q!Accepting(c)
            BY <3>1
        <3>2. CASE conf.policies[1] \notin Q!Accepting(c)
            <4>1. DOMAIN conf.policies = {1, 2} /\ conf.policies[2] \in Q!Accepting(c)
                BY <2>1, <2>2, <3>2
            <4>2. \A m \in 1 .. 2 - 1 : m = 1
                OBVIOUS
            <4>3. QED
                BY <3>2, <4>1, <4>2
        <3>3. QED
            BY <2>1, <3>1, <3>2
    <2>4. PICK n \in DOMAIN conf.policies : First(n) /\ n = CHOOSE m \in DOMAIN conf.policies : First(m)
        BY <2>3
    <2>5. Q!verified(c) = Q!authenticate(conf.policies[n], c)
        BY <1>2, <2>4 DEF Q!verified
    <2>6. Q!check(conf.policies[n], c) = 200
        BY <2>4 DEF Q!Accepting
    <2>7. Q!authenticate(conf.policies[n], c) # None
        BY <2>6 DEF Q!check
    <2>8. Q!authenticate(conf.policies[n], c) = Q!identity(c)
        BY <2>7 DEF Q!authenticate
    <2>9. QED
        BY <1>2, <2>5, <2>7, <2>8
<1>3. QED
    BY <1>1, <1>2

LEMMA AnswerStep ==
    ASSUME DOMAIN h = Fields, NEW status, NEW replies, Q!Answer(status, replies)
    PROVE  /\ DOMAIN h' = Fields /\ q_stage' = "answered"
           /\ h'.status = status /\ h'.replies = replies
           /\ h'.principal = h.principal /\ h'.record = h.record /\ h'.adapter = h.adapter
           /\ h'.items = h.items /\ h'.minted = h.minted
    BY DEF Q!Answer, Fields

LEMMA AdmitStep ==
    ASSUME DOMAIN h = Fields, conf \in Q!Confs, Q!Admit
    PROVE  /\ q_stage = "received" /\ DOMAIN h' = Fields
           /\ h'.record = h.record /\ h'.adapter = h.adapter /\ h'.items = h.items
           /\ h'.minted = h.minted
           /\ UNCHANGED <<conf, client, session_id, sessions, q, ran, sent>>
           /\ \/ /\ q_stage' = "answered" /\ h'.principal = h.principal
                 /\ h'.status \in {403, 415, 401}
                 /\ ~(Q!check_origin(q) /\ q.json /\ (conf.policies = <<>> \/ Q!Accepting(q.credential) # {}))
              \/ /\ q_stage' = "verified" /\ h'.principal = Q!verified(q.credential)
                 /\ h'.status = h.status /\ h'.replies = h.replies
                 /\ conf.policies = <<>> \/ Q!Accepting(q.credential) # {}
<1>1. /\ q_stage = "received"
      /\ UNCHANGED <<conf, client, session_id, sessions, q, ran, sent>>
    BY DEF Q!Admit, Q!config
<1>2. CASE ~Q!check_origin(q) /\ Q!render_failure(Q!fallback, "origin_rejected")
    <2>1. Q!Answer(Q!http_status(Q!fallback, "origin_rejected"), <<None>>)
        BY <1>2 DEF Q!render_failure
    <2>2. Q!http_status(Q!fallback, "origin_rejected") = 403
        BY DEF Q!http_status, Q!BaseStatus
    <2>3. QED
        BY <1>1, <1>2, <2>1, <2>2, AnswerStep
<1>3. CASE Q!check_origin(q) /\ ~q.json /\ Q!Answer(415, <<>>)
    BY <1>1, <1>3, AnswerStep
<1>4. CASE conf.policies # <<>> /\ Q!Accepting(q.credential) = {} /\ Q!Answer(Q!Refusal(q.credential), <<>>)
    <2>1. Q!Refusal(q.credential) \in {401, 403}
        BY DEF Q!Refusal
    <2>2. QED
        BY <1>1, <1>4, <2>1, AnswerStep
<1>5. CASE /\ conf.policies = <<>> \/ Q!Accepting(q.credential) # {}
           /\ h' = [h EXCEPT !.principal = Q!verified(q.credential)]
           /\ q_stage' = "verified"
    BY <1>1, <1>5 DEF Fields
<1>6. QED
    BY <1>2, <1>3, <1>4, <1>5 DEF Q!Admit

LEMMA LoadStep ==
    ASSUME DOMAIN h = Fields, Q!Load
    PROVE  /\ q_stage = "verified" /\ DOMAIN h' = Fields
           /\ h'.principal = h.principal /\ h'.adapter = h.adapter /\ h'.items = h.items
           /\ h'.minted = h.minted
           /\ UNCHANGED <<conf, client, session_id, sessions, q, ran, sent>>
           /\ \/ /\ q_stage' = "answered" /\ h'.record = h.record /\ h'.status = 202
                 /\ Q!Preamble(q, "method") = "reply"
              \/ /\ q_stage' = "answered" /\ h'.record = h.record /\ h'.status = 404
                 /\ Q!Preamble(q, "method") # "reply"
                 /\ q.session # None /\ ~Q!Found(q.session)
              \/ /\ q_stage' = "loaded" /\ h'.status = h.status /\ h'.replies = h.replies
                 /\ \/ q.session = None /\ h'.record = h.record
                    \/ q.session # None /\ Q!Found(q.session) /\ h'.record = sessions[q.session]
<1>1. /\ q_stage = "verified"
      /\ UNCHANGED <<conf, client, session_id, sessions, q, ran, sent>>
    BY DEF Q!Load, Q!config
<1>2. CASE Q!relay_reply
    BY <1>1, <1>2, AnswerStep DEF Q!relay_reply
<1>3. CASE Q!load_session
    <2>1. CASE q.session # None /\ ~Q!Found(q.session) /\ Q!render_failure(Q!fallback, "session_not_found")
        <3>1. Q!Answer(Q!http_status(Q!fallback, "session_not_found"), <<None>>)
            BY <2>1 DEF Q!render_failure
        <3>2. Q!http_status(Q!fallback, "session_not_found") = 404
            BY DEF Q!http_status, Q!BaseStatus
        <3>3. Q!Preamble(q, "method") # "reply"
            BY <1>3 DEF Q!load_session
        <3>4. QED
            BY <1>1, <2>1, <3>1, <3>2, <3>3, AnswerStep
    <2>2. CASE q.session = None /\ q_stage' = "loaded" /\ h' = h
        BY <1>1, <2>2
    <2>3. CASE /\ q.session # None /\ Q!Found(q.session)
               /\ h' = [h EXCEPT !.record = sessions[q.session]]
               /\ q_stage' = "loaded"
        BY <1>1, <2>3 DEF Fields
    <2>4. QED
        BY <1>3, <2>1, <2>2, <2>3 DEF Q!load_session
<1>4. QED
    BY <1>2, <1>3 DEF Q!Load

LEMMA SelectStep ==
    ASSUME DOMAIN h = Fields, Q!Select
    PROVE  /\ q_stage = "loaded" /\ DOMAIN h' = Fields
           /\ h'.principal = h.principal /\ h'.record = h.record /\ h'.items = h.items
           /\ h'.minted = h.minted
           /\ UNCHANGED <<conf, client, session_id, sessions, q, ran, sent>>
           /\ \/ /\ q_stage' = "answered" /\ h'.adapter = h.adapter
                 /\ h'.status \in {200, 400} /\ Q!select.refusal # None
              \/ /\ q_stage' = "selected" /\ h'.adapter = Q!select.revision
                 /\ h'.status = h.status /\ h'.replies = h.replies
                 /\ Q!select.refusal = None
<1>1. /\ q_stage = "loaded"
      /\ UNCHANGED <<conf, client, session_id, sessions, q, ran, sent>>
    BY DEF Q!Select, Q!config
<1>2. CASE Q!select.refusal # None /\ Q!render_failure(Q!fallback, Q!select.refusal)
    <2>1. Q!Answer(Q!http_status(Q!fallback, Q!select.refusal), <<None>>)
        BY <1>2 DEF Q!render_failure
    <2>2. Q!select.refusal \in {None, "malformed", "header_mismatch", "unsupported_version"}
        <3>1. \A v : /\ Q!Chosen(v).refusal = None
                     /\ Q!resolve_version(v).refusal \in {None, "unsupported_version"}
                     /\ Q!by_version(v).refusal = None
            BY DEF Q!Chosen, Q!Refused, Q!resolve_version, Q!by_version
        <3>2. Q!Remembered.refusal \in {None, "unsupported_version"}
            BY <3>1 DEF Q!Remembered
        <3>3. Q!Refused("malformed").refusal = "malformed" /\ Q!Refused("header_mismatch").refusal = "header_mismatch"
            BY DEF Q!Refused
        <3>4. QED
            BY <3>1, <3>2, <3>3 DEF Q!select
    <2>3. Q!http_status(Q!fallback, Q!select.refusal) \in {200, 400}
        BY <1>2, <2>2 DEF Q!http_status, Q!BaseStatus
    <2>4. QED
        BY <1>1, <1>2, <2>1, <2>3, AnswerStep
<1>3. CASE /\ Q!select.refusal = None
           /\ h' = [h EXCEPT !.adapter = Q!select.revision]
           /\ q_stage' = "selected"
    BY <1>1, <1>3 DEF Fields
<1>4. QED
    BY <1>2, <1>3 DEF Q!Select

LEMMA DecodeStep ==
    ASSUME DOMAIN h = Fields, Q!Decode
    PROVE  /\ q_stage = "selected" /\ DOMAIN h' = Fields
           /\ h'.principal = h.principal /\ h'.record = h.record /\ h'.adapter = h.adapter
           /\ h'.minted = h.minted
           /\ UNCHANGED <<conf, client, session_id, sessions, q, ran, sent>>
           /\ \/ /\ q_stage' = "answered" /\ h'.status \in {200, 400} /\ Q!Refusing # None
              \/ /\ q_stage' = "decoded" /\ h'.status = h.status /\ h'.replies = h.replies
                 /\ Q!Refusing = None
                 /\ h'.items = [n \in DOMAIN q.body.items |-> Q!decode_item(h.adapter, q.body.items[n])]
<1>1. /\ q_stage = "selected"
      /\ UNCHANGED <<conf, client, session_id, sessions, q, ran, sent>>
    BY DEF Q!Decode, Q!config
<1>2. CASE Q!Refusing # None /\ Q!render_failure(h.adapter, Q!Refusing)
    <2>1. Q!Answer(Q!http_status(h.adapter, Q!Refusing), <<None>>)
        BY <1>2 DEF Q!render_failure
    <2>2. Q!Refusing \in {None, "parse", "malformed", "header_mismatch"}
        BY DEF Q!Refusing, Q!decode_refusal, Q!check_http
    <2>3. Q!http_status(h.adapter, Q!Refusing) \in {200, 400}
        BY <1>2, <2>2 DEF Q!http_status, Q!BaseStatus
    <2>4. QED
        BY <1>1, <1>2, <2>1, <2>3, AnswerStep
<1>3. CASE /\ Q!Refusing = None
           /\ h' = [h EXCEPT !.items =
                        [n \in DOMAIN q.body.items |-> Q!decode_item(h.adapter, q.body.items[n])]]
           /\ q_stage' = "decoded"
    BY <1>1, <1>3 DEF Fields
<1>4. QED
    BY <1>2, <1>3 DEF Q!Decode

LEMMA AcceptStep ==
    ASSUME DOMAIN h = Fields, Q!accepts
    PROVE  /\ q_stage = "decoded" /\ DOMAIN h' = Fields
           /\ h'.principal = h.principal /\ h'.record = h.record /\ h'.adapter = h.adapter
           /\ h'.minted = h.minted /\ h'.items = h.items
           /\ UNCHANGED <<conf, client, session_id, sessions, q, ran, sent>>
           /\ \/ q_stage' = "answered" /\ h'.status = 406 /\ Q!media_type \notin q.accept
              \/ q_stage' = "running" /\ h'.status = h.status /\ h'.replies = h.replies
    BY AnswerStep DEF Q!accepts, Q!config

LEMMA RunStep ==
    ASSUME DOMAIN h = Fields, Q!run, NEW told, told = Head(h.items)
    PROVE  /\ q_stage = "running" /\ q_stage' = "running" /\ h.items # <<>> /\ DOMAIN h' = Fields
           /\ h'.principal = h.principal /\ h'.record = h.record /\ h'.adapter = h.adapter
           /\ h'.items = Tail(h.items)
           /\ h'.replies = (IF told.respond THEN Append(h.replies, told.id) ELSE h.replies)
           /\ UNCHANGED <<conf, client, session_id, q, sent>>
           /\ \E failure :
                /\ h'.status = (IF h.replies = <<>> /\ told.respond
                                THEN IF failure = None THEN 200 ELSE Q!http_status(h.adapter, failure)
                                ELSE h.status)
                /\ \/ /\ told.fault # None /\ failure = told.fault
                      /\ h'.minted = h.minted /\ UNCHANGED <<sessions, ran>>
                   \/ /\ told.fault = None /\ failure = Q!dispatch(told)
                      /\ ran' = Append(ran, [operation |-> told.operation, name |-> told.name,
                                             arg |-> told.arg, caps |-> told.caps, failure |-> failure])
                      /\ \/ /\ Q!open_session(told)
                            /\ sessions' = Append(sessions, Q!handshake_data(told))
                            /\ h'.minted = Len(sessions')
                         \/ ~Q!open_session(told) /\ sessions' = sessions /\ h'.minted = h.minted
<1>1. /\ q_stage = "running" /\ q_stage' = "running" /\ h.items # <<>>
      /\ UNCHANGED <<conf, client, session_id, q, sent>>
    BY DEF Q!run, Q!config
<1>2. ASSUME NEW failure
      PROVE  /\ DOMAIN Q!encode(told, failure) = Fields
             /\ Q!encode(told, failure).principal = h.principal
             /\ Q!encode(told, failure).record = h.record
             /\ Q!encode(told, failure).adapter = h.adapter
             /\ Q!encode(told, failure).items = Tail(h.items)
             /\ Q!encode(told, failure).minted = h.minted
             /\ Q!encode(told, failure).replies =
                    (IF told.respond THEN Append(h.replies, told.id) ELSE h.replies)
             /\ Q!encode(told, failure).status =
                    (IF h.replies = <<>> /\ told.respond
                     THEN IF failure = None THEN 200 ELSE Q!http_status(h.adapter, failure)
                     ELSE h.status)
    BY DEF Q!encode, Fields
<1>3. CASE /\ told.fault # None /\ h' = Q!encode(told, told.fault) /\ UNCHANGED <<sessions, ran>>
    BY <1>1, <1>2, <1>3
<1>4. CASE /\ told.fault = None
           /\ ran' = Append(ran, [operation |-> told.operation, name |-> told.name, arg |-> told.arg,
                                  caps |-> told.caps, failure |-> Q!dispatch(told)])
           /\ sessions' = (IF Q!open_session(told) THEN Append(sessions, Q!handshake_data(told)) ELSE sessions)
           /\ h' = [Q!encode(told, Q!dispatch(told)) EXCEPT
                        !.minted = IF Q!open_session(told) THEN Len(sessions') ELSE @]
    <2> DEFINE done == Q!encode(told, Q!dispatch(told))
    <2>1. /\ DOMAIN h' = Fields /\ h'.principal = done.principal /\ h'.record = done.record
          /\ h'.adapter = done.adapter /\ h'.items = done.items /\ h'.replies = done.replies
          /\ h'.status = done.status
          /\ h'.minted = (IF Q!open_session(told) THEN Len(sessions') ELSE done.minted)
        <3>1. DOMAIN done = Fields
            BY <1>2
        <3>2. h' = [done EXCEPT !.minted = IF Q!open_session(told) THEN Len(sessions') ELSE done.minted]
            BY <1>4
        <3> HIDE DEF done
        <3>3. QED
            BY <3>1, <3>2 DEF Fields
    <2>2. QED
        BY <1>1, <1>2, <1>4, <2>1, ZenonT(60)
<1>5. QED
    BY <1>3, <1>4 DEF Q!run

LEMMA FinishStep ==
    ASSUME DOMAIN h = Fields, Q!finish
    PROVE  /\ q_stage = "running" /\ h.items = <<>> /\ q_stage' = "answered" /\ DOMAIN h' = Fields
           /\ h'.principal = h.principal /\ h'.record = h.record /\ h'.adapter = h.adapter
           /\ h'.items = h.items /\ h'.replies = h.replies
           /\ h'.status = (IF h.replies = <<>> THEN 202 ELSE IF q.body.shape = "array" THEN 200 ELSE h.status)
           /\ h'.minted \in {None, h.minted}
           /\ UNCHANGED <<conf, client, session_id, sessions, q, ran, sent>>
    BY DEF Q!finish, Q!config, Fields

-----------------------------------------------------------------------------
(* Every request keeps its shape, and a session its owner. *)

LEMMA SeqOfElements == ASSUME NEW S, NEW s \in Seq(S) PROVE s \in Seq(Elements(s))
<1>1. PICK n \in Nat : n = Len(s)
    BY LenProperties
<1>2. s \in [1..n -> S] /\ DOMAIN s = 1..n
    BY <1>1, LenProperties
<1>3. \A i \in 1..n : s[i] \in Elements(s)
    BY <1>2 DEF Elements
<1>4. s \in [1..n -> Elements(s)]
    BY <1>2, <1>3
<1>5. QED
    BY <1>4, SeqDef

LEMMA LongerElements ==
    ASSUME NEW s, s \in Seq(Elements(s)), NEW e, NEW t, t = Append(s, e)
    PROVE  /\ t \in Seq(Elements(t))
           /\ Len(s) \in Nat /\ Len(t) = Len(s) + 1
           /\ DOMAIN s = 1..Len(s) /\ DOMAIN t = 1..Len(t)
           /\ t[Len(s) + 1] = e /\ \A n \in 1..Len(s) : t[n] = s[n]
<1>1. /\ Len(s) \in Nat /\ Len(t) = Len(s) + 1
      /\ DOMAIN s = 1..Len(s) /\ DOMAIN t = 1..Len(t)
      /\ t[Len(s) + 1] = e /\ \A n \in 1..Len(s) : t[n] = s[n]
    <2>1. s \in Seq(Elements(s) \cup {e}) /\ t \in Seq(Elements(s) \cup {e})
        BY DEF Elements
    <2>2. QED
        BY <2>1
<1>2. t \in Seq(Elements(t))
    <2>1. t \in Seq(Elements(s) \cup {e})
        BY DEF Elements
    <2>2. QED
        BY <2>1, SeqOfElements
<1>3. QED
    BY <1>1, <1>2

LEMMA ShorterElements ==
    ASSUME NEW s, s \in Seq(Elements(s)), s # <<>>, NEW t, t = Tail(s)
    PROVE  /\ t \in Seq(Elements(t))
           /\ Len(s) \in Nat /\ Len(s) > 0 /\ Len(t) = Len(s) - 1 /\ Len(t) \in Nat
           /\ DOMAIN s = 1..Len(s) /\ DOMAIN t = 1..Len(t)
           /\ Head(s) = s[1] /\ \A n \in 1..Len(t) : t[n] = s[n + 1]
<1>1. /\ Len(s) \in Nat /\ Len(s) > 0 /\ Len(t) = Len(s) - 1 /\ Len(t) \in Nat
      /\ DOMAIN s = 1..Len(s) /\ DOMAIN t = 1..Len(t)
      /\ Head(s) = s[1] /\ \A n \in 1..Len(t) : t[n] = s[n + 1]
    BY EmptySeq
<1>2. t \in Seq(Elements(s))
    BY EmptySeq
<1>4. t \in Seq(Elements(t))
    BY <1>2, SeqOfElements
<1>5. QED
    BY <1>1, <1>4

LEMMA RequestInit == Q!Init => RequestShape /\ Bound
<1> SUFFICES ASSUME Q!Init PROVE RequestShape /\ Bound
    OBVIOUS
<1>1. /\ conf \in Q!Confs /\ sessions = <<>> /\ h = Q!Fresh /\ ran = <<>> /\ q_stage = "idle"
      /\ client.revision \in Q!Revision /\ OwnCredential(client.credential)
      /\ client.on_ask \in BOOLEAN
    BY DEF Q!Init, OwnCredential
<1>2. DOMAIN h = Fields /\ h.record = None /\ h.minted = None
    BY <1>1 DEF Q!Fresh, Fields
<1>3. sessions \in Seq(Elements(sessions))
    BY <1>1
<1>4. RequestShape
    BY <1>1, <1>2, <1>3 DEF RequestShape, Stages
<1>5. Bound
    BY <1>1, <1>2 DEF Bound, Admitted
<1>6. QED
    BY <1>4, <1>5

LEMMA ShapeAndBoundKeep ==
    ASSUME RequestShape, Bound, [Q!Next]_(Q!vars)
    PROVE  RequestShape' /\ Bound'
<1>1. /\ conf \in Q!Confs /\ DOMAIN h = Fields /\ sessions \in Seq(Elements(sessions))
      /\ client.revision \in Q!Revision /\ OwnCredential(client.credential)
      /\ client.on_ask \in BOOLEAN
      /\ q_stage \notin {"running", "answered"} => ran = <<>> /\ h.minted = None
      /\ q_stage \in {"idle", "received", "over"} => h = Q!Fresh
    BY DEF RequestShape
<1>2. /\ \A s \in DOMAIN sessions : /\ sessions[s].space = Q!Space(sessions[s].owner)
                                    /\ sessions[s].owner = None <=> conf.policies = <<>>
      /\ q_stage \in Admitted => (h.principal = None <=> conf.policies = <<>>)
      /\ q_stage = "verified" => h.record = None
      /\ h.record # None => h.record.owner = h.principal
      /\ q_stage \in Admitted /\ conf.policies # <<>> => h.principal = Q!identity(q.credential)
      /\ h.record # None /\ conf.policies # <<>> => h.record.owner = Q!identity(q.credential)
    BY DEF Bound
<1>4. CASE Q!exchange
    <2>1. /\ q_stage = "idle" /\ q_stage' = "received"
          /\ UNCHANGED <<conf, client, session_id, sessions, h, ran>> /\ h.record = None
        BY <1>1, <1>4 DEF Q!exchange, Q!config, Q!Fresh
    <2>2. RequestShape'
        BY <1>1, <2>1 DEF RequestShape, Stages
    <2>3. Bound'
        BY <1>2, <2>1 DEF Bound, Q!Space, Admitted
    <2>4. QED
        BY <2>2, <2>3
<1>5. CASE Q!Admit
    <2>1. /\ UNCHANGED <<conf, client, sessions, ran, q>> /\ DOMAIN h' = Fields /\ ran = <<>>
          /\ h'.minted = None
          /\ q_stage = "received" /\ q_stage' \in {"answered", "verified"}
          /\ h'.record = h.record /\ h.record = None
          /\ q_stage' = "verified" =>
                /\ h'.principal = Q!verified(q.credential)
                /\ conf.policies = <<>> \/ Q!Accepting(q.credential) # {}
        <3>1. q_stage = "received" /\ h = Q!Fresh
            BY <1>1, <1>5 DEF Q!Admit
        <3>2. QED
            BY <1>1, <1>5, <3>1, AdmitStep DEF Q!Fresh
    <2>2. RequestShape'
        BY <1>1, <2>1 DEF RequestShape, Stages, Admitted
    <2>3. Bound'
        BY <1>1, <1>2, <2>1, VerifiedNames DEF Bound, Q!Space, Admitted
    <2>4. QED
        BY <2>2, <2>3
<1>6. CASE Q!Load
    <2>1. /\ UNCHANGED <<conf, client, sessions, ran, q>> /\ DOMAIN h' = Fields
          /\ h'.minted = h.minted
          /\ q_stage = "verified" /\ q_stage' \in {"answered", "loaded"}
          /\ h'.principal = h.principal /\ h.record = None
          /\ \/ h'.record = h.record
             \/ Q!Found(q.session) /\ h'.record = sessions[q.session]
        BY <1>1, <1>2, <1>6, LoadStep
    <2>2. RequestShape'
        BY <1>1, <2>1 DEF RequestShape, Stages, Admitted
    <2>3. Q!Found(q.session) => sessions[q.session].owner = h.principal
        <3>1. SUFFICES ASSUME Q!Found(q.session) PROVE sessions[q.session].owner = h.principal
            OBVIOUS
        <3>2. /\ q.session \in DOMAIN sessions
              /\ Q!Space(sessions[q.session].owner) = Q!Space(h.principal)
              /\ Q!owns(sessions[q.session], h.principal)
              /\ sessions[q.session].owner = None <=> conf.policies = <<>>
              /\ h.principal = None <=> conf.policies = <<>>
            BY <1>2, <2>1, <3>1 DEF Q!Found, Admitted
        <3>3. CASE conf.namespaced
            BY <3>2, <3>3 DEF Q!Space
        <3>4. CASE conf.bind /\ conf.policies # <<>>
            BY <3>2, <3>4 DEF Q!owns
        <3>5. QED
            BY <1>1, <3>3, <3>4, Configured
    <2>4. Bound'
        BY <1>2, <2>1, <2>3 DEF Bound, Q!Space, Admitted
    <2>5. QED
        BY <2>2, <2>4
<1>7. CASE Q!Select \/ Q!Decode \/ Q!accepts
    <2>1. /\ UNCHANGED <<conf, client, sessions, ran, q>> /\ DOMAIN h' = Fields /\ ran = <<>>
          /\ h'.minted = None
          /\ q_stage \in Admitted /\ q_stage' \in {"answered", "selected", "decoded", "running"}
          /\ h'.principal = h.principal /\ h'.record = h.record
        BY <1>1, <1>7, SelectStep, DecodeStep, AcceptStep DEF Admitted
    <2>2. RequestShape'
        BY <1>1, <2>1 DEF RequestShape, Stages, Admitted
    <2>3. Bound'
        BY <1>2, <2>1 DEF Bound, Q!Space, Admitted
    <2>4. QED
        BY <2>2, <2>3
<1>8. CASE Q!run
    <2> DEFINE told == Head(h.items)
    <2>1. /\ UNCHANGED <<conf, client, q>> /\ DOMAIN h' = Fields /\ q_stage = "running" /\ q_stage' = "running"
          /\ h'.principal = h.principal /\ h'.record = h.record
          /\ sessions' \in {sessions, Append(sessions, Q!handshake_data(told))}
        BY <1>1, <1>8, RunStep
    <2>2. PICK record : /\ record.space = Q!Space(h.principal) /\ record.owner = h.principal
                        /\ sessions' \in {sessions, Append(sessions, record)}
        BY <2>1 DEF Q!handshake_data
    <2>3. sessions' \in Seq(Elements(sessions'))
        BY <1>1, <2>2, LongerElements
    <2>4. \A s \in DOMAIN sessions' : (s \in DOMAIN sessions /\ sessions'[s] = sessions[s]) \/ sessions'[s] = record
        BY <1>1, <2>2, LongerElements
    <2>5. RequestShape'
        BY <1>1, <2>1, <2>3 DEF RequestShape, Stages, Admitted
    <2>6. Bound'
        BY <1>2, <2>1, <2>2, <2>4 DEF Bound, Q!Space, Admitted
    <2>7. QED
        BY <2>5, <2>6
<1>9. CASE Q!finish
    <2>1. /\ UNCHANGED <<conf, client, sessions, ran, q>> /\ DOMAIN h' = Fields
          /\ q_stage' = "answered" /\ h'.principal = h.principal /\ h'.record = h.record
        BY <1>1, <1>9, FinishStep
    <2>2. RequestShape'
        BY <1>1, <2>1 DEF RequestShape, Stages
    <2>3. Bound'
        BY <1>2, <2>1 DEF Bound, Q!Space, Admitted
    <2>4. QED
        BY <2>2, <2>3
<1>10. CASE Q!adopt
    <2>1. /\ UNCHANGED <<conf, client, sessions>> /\ h' = Q!Fresh /\ ran' = <<>>
          /\ q_stage' \in {"idle", "over"}
        BY <1>10 DEF Q!adopt, Q!config
    <2>2. DOMAIN h' = Fields /\ h'.record = None /\ h'.minted = None
        BY <2>1 DEF Q!Fresh, Fields
    <2>3. RequestShape'
        BY <1>1, <2>1, <2>2 DEF RequestShape, Stages, Q!Fresh
    <2>4. Bound'
        BY <1>2, <2>1, <2>2 DEF Bound, Q!Space, Admitted
    <2>5. QED
        BY <2>3, <2>4
<1>11. CASE UNCHANGED Q!vars
    <2>1. UNCHANGED <<conf, client, session_id, sessions, h, ran, q, q_stage>>
        BY <1>11 DEF Q!vars, Q!config
    <2>2. QED
        BY <1>1, <1>2, <2>1 DEF RequestShape, Bound, Q!Space, Q!Fresh
<1>12. QED
    BY <1>4, <1>5, <1>6, <1>7, <1>8, <1>9, <1>10, <1>11 DEF Q!Next

-----------------------------------------------------------------------------
(* Every request gets what it is owed. *)

LEMMA NoneIsNoWord ==
    /\ None \notin {"parse", "malformed", "origin_rejected", "session_not_found", "unsupported_version",
                   "header_mismatch", "unknown_method", "invalid_params", "unknown_target"}
    /\ None \notin {"describe", "handshake_complete", "list_tools", "call_tool", "set_log_level",
                   "listen", "extension"}
    /\ None \notin {"initialize", "notifications_initialized", "tools_list", "tools_call",
                   "logging_setLevel", "server_discover", "subscriptions_listen", "vendor_act",
                   "unknown", "reply"}
    /\ None # "plain" /\ None # "streaming"
    BY RequestsConstants DEF Q!ToolNames

LEMMA NoneIsNobody ==
    ASSUME OwnCredential(client.credential)
    PROVE  /\ None # "alice" /\ Alice # None
           /\ client.revision \in Q!Revision /\ client.on_ask \in BOOLEAN => OwnRecord # None
<1> DEFINE Principals == [issuer : Q!Issuers, subject : {"alice", "bob"}]
<1>0. Alice \in Principals
    BY DEF Alice, OwnCredential, Q!Credential, Q!identity
<1>1. None # "alice" /\ Alice # None
    BY <1>0, RequestsConstants
<1>2. ASSUME client.revision \in Q!Revision, client.on_ask \in BOOLEAN PROVE OwnRecord # None
    <2>1. Self \in Principals \cup {None}
        BY <1>0 DEF Self
    <2>2. Q!Space(Self) \in Principals \cup {None}
        BY <2>1 DEF Q!Space
    <2>3. Q!capabilities(client) \in BOOLEAN
        BY DEF Q!capabilities
    <2>4. OwnRecord \in [space : Principals \cup {None}, owner : Principals \cup {None},
                         version : Q!Revision, caps : BOOLEAN]
        BY <1>2, <2>1, <2>2, <2>3 DEF OwnRecord
    <2>5. QED
        BY <2>4, RequestsConstants
<1>3. QED
    BY <1>1, <1>2

LEMMA NoneIsNoNumber == None # TRUE /\ None # FALSE /\ \A number \in Nat : number # None
    BY RequestsConstants

\* One more message counts if an answer to it is owed.
LEMMA DueGrows ==
    ASSUME NEW r, NEW k \in Nat
    PROVE  /\ DueUpTo(r, k) \in Nat
           /\ DueUpTo(r, k + 1) = (IF Due(r, k + 1) THEN DueUpTo(r, k) + 1 ELSE DueUpTo(r, k))
<1> DEFINE M == {m \in 1..k : Due(r, m)}
           B == {m \in 1..(k + 1) : Due(r, m)}
<1>1. IsFiniteSet(M)
    <2>1. IsFiniteSet(1..k)
        BY FS_Interval
    <2>2. QED
        BY <2>1, FS_Subset
<1>2. Cardinality(M) \in Nat
    BY <1>1, FS_CardinalityType
<1>3. CASE Due(r, k + 1)
    <2>1. B = M \cup {k + 1} /\ k + 1 \notin M
        BY <1>3
    <2>2. Cardinality(B) = Cardinality(M) + 1
        BY <1>1, <2>1, FS_AddElement
    <2>3. QED
        BY <1>2, <1>3, <2>2 DEF DueUpTo
<1>4. CASE ~Due(r, k + 1)
    <2>1. B = M
        BY <1>4
    <2>2. QED
        BY <1>2, <1>4, <2>1 DEF DueUpTo
<1>5. QED
    BY <1>3, <1>4

LEMMA DueOfNone == ASSUME NEW r PROVE DueUpTo(r, 0) = 0
<1>1. {m \in 1..0 : Due(r, m)} = {}
    OBVIOUS
<1>2. QED
    BY <1>1, FS_EmptySet DEF DueUpTo

LEMMA DueIsWithin ==
    ASSUME NEW r, NEW k \in Nat, NEW n \in 1..k, Due(r, n)
    PROVE  DueUpTo(r, k) \in Nat /\ DueUpTo(r, n) \in 1..DueUpTo(r, k)
<1> DEFINE M == {m \in 1..n : Due(r, m)}
           B == {m \in 1..k : Due(r, m)}
<1>1. IsFiniteSet(B)
    <2>1. IsFiniteSet(1..k)
        BY FS_Interval
    <2>2. QED
        BY <2>1, FS_Subset
<1>2. M \subseteq B /\ n \in M
    OBVIOUS
<1>3. /\ IsFiniteSet(M) /\ Cardinality(M) \in Nat /\ Cardinality(B) \in Nat
      /\ Cardinality(M) <= Cardinality(B)
    BY <1>1, <1>2, FS_Subset, FS_CardinalityType
<1>4. Cardinality(M) # 0
    BY <1>2, <1>3, FS_EmptySet
<1>5. QED
    BY <1>3, <1>4 DEF DueUpTo

LEMMA RankIsDue == /\ \A n : Q!Rank(n) = DueUpTo(q, n)
                   /\ \A n : Q!Owed(n) <=> Due(q, n)
    BY DEF Q!Rank, Q!Owed, DueUpTo, Due, Q!Cardinality, Cardinality

LEMMA DecodedAnswers == ASSUME NEW v, NEW i PROVE Answers(Q!decode_item(v, i), i)
<1>1. Q!Fault(v, i) \in {None, "malformed", "unknown_method", "invalid_params"}
    BY DEF Q!Fault
<1>2. CASE Q!Fault(v, i) = None
    <2>1. i # None /\ Q!Incoming(i)
        <3>1. "malformed" # None
            BY NoneIsNoWord
        <3>2. i = None \/ ~Q!Incoming(i) => Q!Fault(v, i) = "malformed"
            BY DEF Q!Fault
        <3>3. QED
            BY <1>2, <3>1, <3>2
    <2>2. (i.id # "absent") = ~Q!Notification(i)
        BY <2>1 DEF Q!Incoming, Q!Notification
    <2>3. Q!decode_item(v, i) = Q!build_call(v, i)
        BY <1>2 DEF Q!decode_item
    <2>4. QED
        BY <1>1, <2>2, <2>3 DEF Answers, Q!build_call
<1>3. CASE Q!Fault(v, i) # None
    <2>1. Q!decode_item(v, i) = Q!DecodeFailure(v, i)
        BY <1>3 DEF Q!decode_item
    <2>2. Q!must_respond(i) = ~Q!Notification(i)
        BY DEF Q!must_respond, Q!Notification
    <2>3. QED
        BY <1>1, <2>1, <2>2 DEF Answers, Q!DecodeFailure
<1>4. QED
    BY <1>2, <1>3

LEMMA OwingInit == Q!Init => Owing
    BY DEF Q!Init, Owing

RequestFields ==
    {"body", "session", "pin", "credential", "origin", "json", "accept", "header", "mcp_method", "mcp_name",
     "mcp_param", "intact"}

LEMMA OwnRequest ==
    ASSUME NEW i, NEW own, own = Q!Request(client, i)
    PROVE  /\ DOMAIN own = RequestFields /\ own.intact = TRUE
           /\ Framed(own, i) /\ own.body = Q!Object(Own(i))
    BY DEF Q!Request, Framed, Own, RequestFields

\* One place of it may be another.
LEMMA OtherRequest ==
    ASSUME NEW i, NEW own, own = Q!Request(client, i), NEW r \in Q!Others(client, own)
    PROVE  /\ DOMAIN r = RequestFields
           /\ \/ r.body = Q!Object(Own(i))
              \/ Framed(r, i) /\ r.body \in Q!Bodies(client, Own(i))
<1>1. /\ DOMAIN own = RequestFields /\ Framed(own, i) /\ own.body = Q!Object(Own(i))
    BY OwnRequest
<1>2. own.body.items[1] = Own(i)
    BY <1>1 DEF Q!Object
<1>3. CASE \E b \in Q!Bodies(client, Own(i)) : r = [own EXCEPT !.body = b]
    <2>1. PICK b \in Q!Bodies(client, Own(i)) : r = [own EXCEPT !.body = b]
        BY <1>3
    <2>2. DOMAIN r = RequestFields /\ r.body = b
        BY <1>1, <2>1 DEF RequestFields
    <2>3. Framed(r, i)
        BY <1>1, <2>1 DEF RequestFields, Framed
    <2>4. QED
        BY <2>2, <2>3
<1>4. CASE \/ \E x : r = [own EXCEPT !.header = x]
           \/ \E x : r = [own EXCEPT !.pin = x]
           \/ \E x : r = [own EXCEPT !.mcp_method = x]
           \/ \E x : r = [own EXCEPT !.mcp_name = x]
           \/ \E x : r = [own EXCEPT !.mcp_param = x]
           \/ \E x : r = [own EXCEPT !.session = x]
           \/ \E x : r = [own EXCEPT !.credential = x]
           \/ \E x : r = [own EXCEPT !.origin = x]
           \/ \E x : r = [own EXCEPT !.accept = x]
           \/ \E x : r = [own EXCEPT !.json = x]
    BY <1>1, <1>4 DEF RequestFields
<1>5. QED
    BY <1>2, <1>3, <1>4 DEF Q!Others

LEMMA ComposedRequest ==
    ASSUME Q!exchange
    PROVE  \E i \in Q!Wanted(client) :
              \/ Framed(q', i) /\ q'.body = Q!Object(Own(i))
              \/ /\ q'.intact = FALSE
                 /\ \/ q'.body = Q!Object(Own(i))
                    \/ Framed(q', i) /\ q'.body \in Q!Bodies(client, Own(i))
<1>1. PICK i \in Q!Wanted(client) :
        LET own == Q!Request(client, i) IN
        q' \in {own} \cup {[r EXCEPT !.intact = FALSE] : r \in Q!Others(client, own) \ {own}}
    BY DEF Q!exchange
<1>2. PICK own : own = Q!Request(client, i)
    OBVIOUS
<1>3. q' = own \/ \E r \in Q!Others(client, own) : q' = [r EXCEPT !.intact = FALSE]
    BY <1>1, <1>2
<1>4. CASE q' = own
    BY <1>2, <1>4, OwnRequest
<1>5. CASE \E r \in Q!Others(client, own) : q' = [r EXCEPT !.intact = FALSE]
    <2>1. PICK r \in Q!Others(client, own) : q' = [r EXCEPT !.intact = FALSE]
        BY <1>5
    <2>2. /\ DOMAIN r = RequestFields
          /\ \/ r.body = Q!Object(Own(i))
             \/ Framed(r, i) /\ r.body \in Q!Bodies(client, Own(i))
        BY <1>2, <2>1, OtherRequest
    <2>3. q'.intact = FALSE /\ q'.body = r.body /\ (Framed(r, i) => Framed(q', i))
        BY <2>1, <2>2 DEF RequestFields, Framed
    <2>4. QED
        BY <2>2, <2>3
<1>6. QED
    BY <1>3, <1>4, <1>5

LEMMA ComposedBodies ==
    ASSUME Q!exchange
    PROVE  q'.body.items \in Seq(Elements(q'.body.items))
<1>1. PICK i \in Q!Wanted(client) : q'.body = Q!Object(Own(i)) \/ q'.body \in Q!Bodies(client, Own(i))
    BY ComposedRequest
<1>2. \A x : Q!Object(x).items = <<x>>
    BY DEF Q!Object
<1>3. \A s : Q!Array(s).items = s
    BY DEF Q!Array
<1>4. Q!Broken.items = <<>>
    BY DEF Q!Broken
<1>5. ASSUME NEW i1, NEW b \in Q!Bodies(client, i1)
      PROVE  \/ b = Q!Broken \/ b = Q!Array(<<>>)
             \/ \E x : b = Q!Object(x)
             \/ \E x : b = Q!Array(<<x>>)
             \/ \E x, y : b = Q!Array(<<x, y>>)
    BY <1>5 DEF Q!Bodies
<1>6. \/ q'.body.items = <<>>
      \/ \E x : q'.body.items = <<x>>
      \/ \E x, y : q'.body.items = <<x, y>>
    <2>1. CASE q'.body = Q!Object(Own(i))
        BY <1>2, <2>1
    <2>2. CASE q'.body \in Q!Bodies(client, Own(i))
        <3>1. PICK b : b = q'.body
            OBVIOUS
        <3>2. \/ b = Q!Broken \/ b = Q!Array(<<>>)
              \/ \E x : b = Q!Object(x)
              \/ \E x : b = Q!Array(<<x>>)
              \/ \E x, y : b = Q!Array(<<x, y>>)
            BY <1>5, <2>2, <3>1
        <3>3. \/ b.items = <<>>
              \/ \E x : b.items = <<x>>
              \/ \E x, y : b.items = <<x, y>>
            <4>1. CASE b = Q!Broken \/ b = Q!Array(<<>>)
                BY <1>3, <1>4, <4>1
            <4>2. CASE \E x : b = Q!Object(x)
                BY <1>2, <4>2
            <4>3. CASE \E x : b = Q!Array(<<x>>)
                BY <1>3, <4>3
            <4>4. CASE \E x, y : b = Q!Array(<<x, y>>)
                <5>1. PICK x, y : b = Q!Array(<<x, y>>)
                    BY <4>4
                <5>2. b.items = <<x, y>>
                    BY <1>3, <5>1
                <5>3. QED
                    BY <5>2
            <4>5. QED
                BY <3>2, <4>1, <4>2, <4>3, <4>4
        <3>4. QED
            BY <3>1, <3>3
    <2>3. QED
        BY <1>1, <2>1, <2>2
<1>7. \E S : q'.body.items \in Seq(S)
    <2>1. CASE q'.body.items = <<>>
        <3>1. <<>> \in Seq({})
            OBVIOUS
        <3>2. QED
            BY <2>1, <3>1
    <2>2. CASE \E x : q'.body.items = <<x>>
        <3>1. \A x : <<x>> \in Seq({x})
            OBVIOUS
        <3>2. QED
            BY <2>2, <3>1
    <2>3. CASE \E x, y : q'.body.items = <<x, y>>
        <3>1. PICK x, y : q'.body.items = <<x, y>>
            BY <2>3
        <3>2. <<x, y>> \in Seq({x, y})
            OBVIOUS
        <3>3. QED
            BY <3>1, <3>2
    <2>4. QED
        BY <1>6, <2>1, <2>2, <2>3
<1>8. QED
    BY <1>7, SeqOfElements

LEMMA StatusOfFailure == ASSUME NEW v, NEW kind PROVE Q!http_status(v, kind) \in {200, 400, 403, 404}
    BY DEF Q!http_status, Q!BaseStatus

LEMMA OwingKeeps ==
    ASSUME RequestShape, Owing, [Q!Next]_(Q!vars)
    PROVE  Owing'
<1>1. DOMAIN h = Fields /\ conf \in Q!Confs
      /\ (q_stage \notin {"running", "answered"} => ran = <<>>)
      /\ (q_stage \in {"idle", "received", "over"} => h = Q!Fresh)
    BY DEF RequestShape
<1>2. CASE Q!exchange
    <2>1. q_stage' = "received" /\ h' = Q!Fresh
        BY <1>1, <1>2 DEF Q!exchange
    <2>2. h'.replies = <<>> /\ h'.status = None
        BY <2>1 DEF Q!Fresh
    <2>3. QED
        BY <1>2, <2>1, <2>2, ComposedBodies DEF Owing
<1>3. CASE Q!Admit \/ Q!Load \/ Q!Select
    <2>1. q_stage \in {"received", "verified", "loaded"} /\ q' = q /\ ran' = ran /\ ran = <<>>
          /\ \/ q_stage' = "answered"
             \/ q_stage' \in {"verified", "loaded", "selected"} /\ h'.replies = h.replies /\ h'.status = h.status
        BY <1>1, <1>3, AdmitStep, LoadStep, SelectStep
    <2>2. QED
        BY <2>1 DEF Owing
<1>4. CASE Q!Decode
    <2>1. /\ q_stage = "selected" /\ q' = q /\ ran' = ran /\ ran = <<>>
          /\ \/ q_stage' = "answered"
             \/ /\ q_stage' = "decoded" /\ h'.status = h.status /\ h'.replies = h.replies
                /\ h'.items = [n \in DOMAIN q.body.items |-> Q!decode_item(h.adapter, q.body.items[n])]
        BY <1>1, <1>4, DecodeStep
    <2>2. q.body.items \in Seq(Elements(q.body.items)) /\ h.replies = <<>> /\ h.status = None
        BY <2>1 DEF Owing
    <2>3. CASE q_stage' = "answered"
        BY <2>1, <2>2, <2>3 DEF Owing
    <2>4. CASE q_stage' = "decoded"
        <3>1. PICK k \in Nat : k = Len(q.body.items) /\ DOMAIN q.body.items = 1..k
            BY <2>2, LenProperties
        <3>2. PICK items : items = [n \in 1..k |-> Q!decode_item(h.adapter, q.body.items[n])]
            OBVIOUS
        <3>3. items \in Seq(Elements(items)) /\ Len(items) = k /\ DOMAIN items = 1..k
            <4>1. items \in [1..k -> Elements(items)]
                BY <3>2 DEF Elements
            <4>2. items \in Seq(Elements(items))
                BY <4>1, SeqDef
            <4>3. DOMAIN items = 1..k
                BY <3>2
            <4>4. QED
                BY <4>2, <4>3, LenProperties
        <3>4. \A n \in 1..k : Answers(items[n], q.body.items[n])
            BY <3>2, DecodedAnswers
        <3>5. h'.items = items /\ q' = q /\ h'.replies = <<>> /\ h'.status = None
            BY <2>1, <2>2, <2>4, <3>1, <3>2, NoneIsNoNumber
        <3>6. Behind' = 0
            BY <3>1, <3>3, <3>5 DEF Behind
        <3>7. Counted(Behind)'
            <4>1. Len(h'.replies) = DueUpTo(q', 0)
                BY <3>5, DueOfNone
            <4>2. 1..0 = {}
                OBVIOUS
            <4>3. QED
                BY <3>6, <4>1, <4>2 DEF Counted
        <3>8. \A n \in DOMAIN h'.items : Answers(h'.items[n], q'.body.items[Behind' + n])
            BY <3>3, <3>4, <3>5, <3>6
        <3>9. /\ h'.items \in Seq(Elements(h'.items)) /\ Len(h'.items) = Len(q'.body.items)
              /\ Len(h'.items) <= Len(q'.body.items)
              /\ h'.replies \in Seq(Elements(h'.replies)) /\ q'.body.items \in Seq(Elements(q'.body.items))
            BY <2>2, <3>1, <3>3, <3>5
        <3>10. QED
            BY <2>4, <3>5, <3>7, <3>8, <3>9 DEF Owing
    <2>5. QED
        BY <2>1, <2>3, <2>4
<1>5. CASE Q!accepts
    <2>1. /\ q_stage = "decoded" /\ q' = q /\ ran' = ran /\ ran = <<>>
          /\ \/ q_stage' = "answered"
             \/ q_stage' = "running" /\ h'.items = h.items /\ h'.status = h.status /\ h'.replies = h.replies
        BY <1>1, <1>5, AcceptStep
    <2>2. CASE q_stage' = "answered"
        BY <2>1, <2>2 DEF Owing
    <2>3. CASE q_stage' = "running"
        BY <2>1, <2>3, ZenonT(60) DEF Owing, Behind, Counted
    <2>4. QED
        BY <2>1, <2>2, <2>3
<1>6. CASE Q!run
    <2>1. PICK told : told = Head(h.items)
        OBVIOUS
    <2>2. /\ q_stage = "running" /\ q_stage' = "running" /\ h.items # <<>> /\ q' = q
          /\ h'.items = Tail(h.items)
          /\ h'.replies = (IF told.respond THEN Append(h.replies, told.id) ELSE h.replies)
          /\ \E failure : h'.status = (IF h.replies = <<>> /\ told.respond
                                       THEN IF failure = None THEN 200 ELSE Q!http_status(h.adapter, failure)
                                       ELSE h.status)
        BY <1>1, <1>6, <2>1, RunStep
    <2>3. /\ h.items \in Seq(Elements(h.items)) /\ Len(h.items) <= Len(q.body.items)
          /\ \A n \in DOMAIN h.items : Answers(h.items[n], q.body.items[Behind + n])
          /\ h.status \in {None, 200, 400, 403, 404}
          /\ h.replies \in Seq(Elements(h.replies))
          /\ Counted(Behind)
          /\ q.body.items \in Seq(Elements(q.body.items))
        BY <2>2 DEF Owing
    <2>4. h'.status \in {None, 200, 400, 403, 404}
        BY <2>2, <2>3, StatusOfFailure
    <2>5. PICK left \in Nat :
            /\ left = Len(h.items) /\ left > 0
            /\ DOMAIN h.items = 1..left /\ Len(h'.items) = left - 1 /\ DOMAIN h'.items = 1..(left - 1)
            /\ h'.items \in Seq(Elements(h'.items))
            /\ told = h.items[1] /\ \A n \in 1..(left - 1) : h'.items[n] = h.items[n + 1]
        <3>1. h.items \in Seq(Elements(h.items)) /\ h.items # <<>> /\ h'.items = Tail(h.items)
            BY <2>2, <2>3
        <3>2. /\ h'.items \in Seq(Elements(h'.items))
              /\ Len(h.items) \in Nat /\ Len(h.items) > 0 /\ Len(h'.items) = Len(h.items) - 1
              /\ DOMAIN h.items = 1..Len(h.items) /\ DOMAIN h'.items = 1..Len(h'.items)
              /\ Head(h.items) = h.items[1] /\ \A n \in 1..Len(h'.items) : h'.items[n] = h.items[n + 1]
            BY <3>1, ShorterElements
        <3>3. QED
            BY <2>1, <3>2
    <2>6. PICK size \in Nat : size = Len(q.body.items) /\ left <= size
        <3>1. Len(q.body.items) \in Nat
            BY <2>3, LenProperties
        <3>2. QED
            BY <2>3, <2>5, <3>1
    <2>17. PICK k \in Nat : k = size - left
        <3>1. \A m, n \in Nat : n <= m => m - n \in Nat
            OBVIOUS
        <3>2. QED
            BY <2>5, <2>6, <3>1
    <2>7. Behind = k /\ Behind' = k + 1
        <3>1. Behind = size - left
            BY <2>5, <2>6 DEF Behind
        <3>2. Behind' = size - (left - 1)
            BY <2>2, <2>5, <2>6 DEF Behind
        <3>3. QED
            BY <2>17, <3>1, <3>2
    <2>8. told.respond = Due(q, k + 1) /\ told.id = Q!usable_id(q.body.items[k + 1])
        <3>1. 1 \in DOMAIN h.items
            BY <2>5
        <3>2. Answers(h.items[1], q.body.items[Behind + 1])
            BY <2>3, <3>1
        <3>3. QED
            BY <2>5, <2>7, <3>2 DEF Answers, Due
    <2>9. \A n \in DOMAIN h'.items : Answers(h'.items[n], q'.body.items[Behind' + n])
        <3>1. SUFFICES ASSUME NEW n \in 1..(left - 1)
                       PROVE  Answers(h'.items[n], q.body.items[k + 1 + n])
            BY <2>2, <2>5, <2>7
        <3>2. n + 1 \in 1..left /\ k + (n + 1) = k + 1 + n
            BY <2>5
        <3>3. Answers(h.items[n + 1], q.body.items[Behind + (n + 1)])
            <4>1. n + 1 \in DOMAIN h.items
                BY <2>5, <3>2
            <4>2. QED
                BY <2>3, <4>1
        <3>4. QED
            BY <2>5, <2>7, <3>2, <3>3
    <2>10. /\ Len(h.replies) = DueUpTo(q, k)
           /\ \A n \in 1..k : Due(q, n) => h.replies[DueUpTo(q, n)] = Q!usable_id(q.body.items[n])
        BY <2>3, <2>7 DEF Counted
    <2>11. /\ DueUpTo(q, k) \in Nat
           /\ DueUpTo(q, k + 1) = (IF Due(q, k + 1) THEN DueUpTo(q, k) + 1 ELSE DueUpTo(q, k))
        BY DueGrows
    <2>12. \A n \in 1..(k + 1) : n \in 1..k \/ n = k + 1
        OBVIOUS
    <2>13. /\ Len(h'.replies) = DueUpTo(q, k + 1)
           /\ \A n \in 1..(k + 1) : Due(q, n) => h'.replies[DueUpTo(q, n)] = Q!usable_id(q.body.items[n])
           /\ h'.replies \in Seq(Elements(h'.replies))
        <3>1. CASE ~Due(q, k + 1)
            BY <2>2, <2>3, <2>8, <2>10, <2>11, <2>12, <3>1
        <3>2. CASE Due(q, k + 1)
            <4>1. PICK more : h'.replies = more /\ more = Append(h.replies, told.id)
                BY <2>2, <2>8, <3>2
            <4>7. PICK old, id : old = h.replies /\ id = told.id
                OBVIOUS
            <4>8. old \in Seq(Elements(old)) /\ more = Append(old, id)
                BY <2>3, <4>1, <4>7
            <4>9. /\ more \in Seq(Elements(more)) /\ Len(more) = Len(old) + 1
                  /\ more[Len(old) + 1] = id /\ \A n \in 1..Len(old) : more[n] = old[n]
                <5>1. more \in Seq(Elements(more))
                    BY <4>8, LongerElements
                <5>2. Len(more) = Len(old) + 1
                    BY <4>8, LongerElements
                <5>3. more[Len(old) + 1] = id
                    BY <4>8, LongerElements
                <5>4. \A n \in 1..Len(old) : more[n] = old[n]
                    BY <4>8, LongerElements
                <5>5. QED
                    BY <5>1, <5>2, <5>3, <5>4
            <4>2. /\ more \in Seq(Elements(more)) /\ Len(more) = Len(h.replies) + 1
                  /\ more[Len(h.replies) + 1] = told.id
                  /\ \A n \in 1..Len(h.replies) : more[n] = h.replies[n]
                BY <4>7, <4>9
            <4>3. ASSUME NEW n \in 1..k, Due(q, n)
                  PROVE  more[DueUpTo(q, n)] = Q!usable_id(q.body.items[n])
                <5>1. DueUpTo(q, n) \in 1..Len(h.replies)
                    BY <2>10, <4>3, DueIsWithin
                <5>2. QED
                    BY <2>10, <4>2, <4>3, <5>1
            <4>4. DueUpTo(q, k + 1) = Len(h.replies) + 1
                BY <2>10, <2>11, <3>2
            <4>5. more[DueUpTo(q, k + 1)] = Q!usable_id(q.body.items[k + 1])
                BY <2>8, <4>2, <4>4
            <4>6. QED
                BY <2>12, <4>1, <4>2, <4>3, <4>4, <4>5
        <3>3. QED
            BY <3>1, <3>2
    <2>14. Counted(Behind)'
        BY <2>2, <2>7, <2>13 DEF Counted
    <2>15. Len(h'.items) <= Len(q'.body.items)
        BY <2>2, <2>5, <2>6
    <2>16. QED
        BY <2>2, <2>3, <2>4, <2>5, <2>9, <2>13, <2>14, <2>15 DEF Owing
<1>7. CASE Q!finish
    <2>1. /\ q_stage = "running" /\ h.items = <<>> /\ q_stage' = "answered" /\ q' = q
          /\ h'.replies = h.replies
          /\ h'.status = (IF h.replies = <<>> THEN 202 ELSE IF q.body.shape = "array" THEN 200 ELSE h.status)
        BY <1>1, <1>7, FinishStep
    <2>2. /\ h.status \in {None, 200, 400, 403, 404}
          /\ h.replies \in Seq(Elements(h.replies))
          /\ Counted(Behind) /\ q.body.items \in Seq(Elements(q.body.items))
        BY <2>1 DEF Owing
    <2>3. Behind = Len(q.body.items)
        <3>1. Len(q.body.items) \in Nat
            BY <2>2, LenProperties
        <3>2. QED
            BY <2>1, <3>1 DEF Behind
    <2>4. Counted(Len(q.body.items))'
        BY <2>1, <2>2, <2>3 DEF Counted
    <2>5. h'.status = 202 <=> h'.replies = <<>>
        BY <2>1, <2>2, NoneIsNoNumber
    <2>6. QED
        BY <2>1, <2>2, <2>4, <2>5 DEF Owing
<1>8. CASE Q!adopt
    <2>1. q_stage' \in {"idle", "over"}
        BY <1>8 DEF Q!adopt
    <2>2. QED
        BY <2>1 DEF Owing
<1>9. CASE UNCHANGED Q!vars
    <2>1. UNCHANGED <<q, h, ran, q_stage>>
        BY <1>9 DEF Q!vars, Q!config
    <2>2. Behind' = Behind /\ \A k : Counted(k)' = Counted(k)
        BY <2>1 DEF Behind, Counted
    <2>3. QED
        BY <2>1, <2>2 DEF Owing
<1>10. QED
    BY <1>2, <1>3, <1>4, <1>5, <1>6, <1>7, <1>8, <1>9 DEF Q!Next

LEMMA OwingAnswers ==
    ASSUME Owing
    PROVE  Q!Done /\ ran # <<>> =>
             /\ Len(h.replies) = Q!Rank(Len(q.body.items))
             /\ \A n \in DOMAIN q.body.items : Q!Owed(n) => h.replies[Q!Rank(n)] = Q!usable_id(q.body.items[n])
             /\ h.status = 202 <=> \A n \in DOMAIN q.body.items : ~Q!Owed(n)
<1> SUFFICES ASSUME q_stage = "answered", ran # <<>>
             PROVE  /\ Len(h.replies) = Q!Rank(Len(q.body.items))
                    /\ \A n \in DOMAIN q.body.items :
                            Q!Owed(n) => h.replies[Q!Rank(n)] = Q!usable_id(q.body.items[n])
                    /\ h.status = 202 <=> \A n \in DOMAIN q.body.items : ~Q!Owed(n)
    BY DEF Q!Done
<1>1. /\ Counted(Len(q.body.items)) /\ h.replies \in Seq(Elements(h.replies))
      /\ h.status = 202 <=> h.replies = <<>>
      /\ q.body.items \in Seq(Elements(q.body.items))
    BY DEF Owing
<1>2. PICK k \in Nat : k = Len(q.body.items) /\ DOMAIN q.body.items = 1..k
    BY <1>1, LenProperties
<1>3. /\ Len(h.replies) = DueUpTo(q, k)
      /\ \A n \in 1..k : Due(q, n) => h.replies[DueUpTo(q, n)] = Q!usable_id(q.body.items[n])
    BY <1>1, <1>2 DEF Counted
<1>4. h.replies = <<>> <=> \A n \in 1..k : ~Due(q, n)
    <2>1. h.replies = <<>> <=> DueUpTo(q, k) = 0
        BY <1>1, <1>3, EmptySeq
    <2>2. ASSUME NEW n \in 1..k, Due(q, n) PROVE DueUpTo(q, k) # 0
        BY <2>2, DueIsWithin
    <2>3. ASSUME \A n \in 1..k : ~Due(q, n) PROVE DueUpTo(q, k) = 0
        <3>1. {m \in 1..k : Due(q, m)} = {}
            BY <2>3
        <3>2. QED
            BY <3>1, FS_EmptySet DEF DueUpTo
    <2>4. QED
        BY <2>1, <2>2, <2>3
<1>5. QED
    BY <1>1, <1>2, <1>3, <1>4, RankIsDue

-----------------------------------------------------------------------------
(* A legacy client's request, read as a modern one. *)

LEMMA Shapes ==
    /\ \A x : Q!Object(x).shape = "object" /\ Q!Object(x).items = <<x>>
    /\ \A s : Q!Array(s).shape = "array" /\ Q!Array(s).items = s
    /\ Q!Broken.shape = "broken" /\ Q!Broken.items = <<>>
    BY DEF Q!Object, Q!Array, Q!Broken

LEMMA BodyShapes ==
    ASSUME NEW c, NEW i, NEW b \in Q!Bodies(c, i)
    PROVE  b.shape \in {"broken", "array"} \/ \E x : b = Q!Object(x)
<1>1. \/ b = Q!Broken \/ \E x : b = Q!Object(x) \/ \E s : b = Q!Array(s)
    BY DEF Q!Bodies
<1>2. QED
    BY <1>1, Shapes

\* A legacy client has nothing to say in _meta.
LEMMA LegacyWanted ==
    ASSUME client.revision < 5, client.revision \in Q!Revision, NEW i \in Q!Wanted(client)
    PROVE  Own(i) = i /\ i.meta = None
<1>1. client.revision # 5
    BY DEF Q!Revision
<1>2. Own(i) = i
    BY <1>1 DEF Own, Q!client_decorate_params
<1>3. \A method, id : Q!Message(method, id).meta = None
    BY DEF Q!Message
<1>4. \A name, arg : Q!ToolCall(name, arg).meta = None
    BY DEF Q!Message, Q!ToolCall
<1>5. \A j : Q!client_handshake_params(client, Q!Message("initialize", "1")).meta = None
    BY DEF Q!Message, Q!client_handshake_params
<1>6. i.meta = None
    BY <1>1, <1>3, <1>4, <1>5 DEF Q!Wanted
<1>7. QED
    BY <1>2, <1>6

LEMMA SelectedMeta ==
    ASSUME Q!select.refusal = None, Q!Preamble(q, "meta") # None
    PROVE  q.pin # None \/ Q!select.revision = Q!Preamble(q, "meta")
<1>1. q.body.shape # "broken"
    BY DEF Q!Preamble
<1>2. ASSUME q.pin = None PROVE Q!select.revision = Q!Preamble(q, "meta")
    <2>1. PICK meta : meta = Q!Preamble(q, "meta")
        OBVIOUS
    <2>2. /\ Q!Refused("malformed").refusal = "malformed"
          /\ Q!Refused("header_mismatch").refusal = "header_mismatch"
          /\ Q!Refused("unsupported_version").refusal = "unsupported_version"
        BY DEF Q!Refused
    <2>3. Q!select = Q!resolve_version(meta)
        BY <1>1, <1>2, <2>1, <2>2, NoneIsNoWord DEF Q!select
    <2>4. QED
        BY <2>1, <2>2, <2>3, NoneIsNoWord DEF Q!resolve_version, Q!Chosen
<1>3. QED
    BY <1>2

\* What a modern revision makes of a legacy client's request.
LEMMA DecodedAsModern ==
    ASSUME client.revision < 5, client.revision \in Q!Revision, Composed(q), h.adapter = 5,
           Q!Preamble(q, "meta") # None => q.pin # None \/ Q!Preamble(q, "meta") = 5,
           Q!Refusing = None
    PROVE  \E j : /\ q.body.items = <<j>>
                  /\ ~Q!decode_item(5, j).respond \/ Q!decode_item(5, j).fault = "malformed"
<1>1. Q!decode_refusal(5) = None /\ Q!check_http(5) = None
    BY DEF Q!Refusing
<1>2. q.body.shape \notin {"broken", "array"}
    BY <1>1, NoneIsNoWord DEF Q!decode_refusal, Q!allows_batch
<1>3. Q!Preamble(q, "meta") # None
    BY <1>1, NoneIsNoWord DEF Q!check_http
<1>4. PICK i \in Q!Wanted(client) : \/ q.body = Q!Object(i)
                                    \/ Framed(q, i) /\ q.body \in Q!Bodies(client, i)
    BY LegacyWanted DEF Composed
<1>5. q.body # Q!Object(i)
    <2>1. Q!Preamble(q, "meta") # None => q.body.items[1].meta # None
        BY DEF Q!Preamble
    <2>2. Q!Object(i).items[1] = i
        BY Shapes
    <2>3. QED
        BY <1>3, <2>1, <2>2, LegacyWanted
<1>6. PICK j : q.body = Q!Object(j)
    BY <1>2, <1>4, <1>5, BodyShapes
<1>7. q.body.shape = "object" /\ q.body.items = <<j>> /\ j # None /\ q.body.items[1] = j
    BY <1>3, <1>6, Shapes DEF Q!Preamble
<1>8. Q!Preamble(q, "meta") = j.meta /\ Q!Preamble(q, "id") = j.id
    BY <1>7 DEF Q!Preamble
<1>9. q.pin = None /\ q.header = (IF client.revision > 2 THEN client.revision ELSE None)
    BY <1>4, <1>5 DEF Framed, Q!client_headers
<1>10. j.meta = 5
    BY <1>3, <1>8, <1>9
<1>11. q.header # 5
    BY <1>9, NoneIsNoNumber DEF Q!Revision
<1>12. j.id = "absent"
    <2>1. ~Q!headers_agree(j)
        BY <1>10, <1>11 DEF Q!headers_agree
    <2>2. QED
        BY <1>1, <1>3, <1>7, <1>8, <2>1, NoneIsNoWord DEF Q!check_http
<1>13. CASE Q!Fault(5, j) = None
    BY <1>7, <1>12, <1>13 DEF Q!decode_item, Q!build_call
<1>14. CASE Q!Fault(5, j) # None
    <2>1. /\ Q!decode_item(5, j).respond = Q!must_respond(j)
          /\ Q!decode_item(5, j).fault = Q!Fault(5, j)
        BY <1>14 DEF Q!decode_item, Q!DecodeFailure
    <2>2. Q!must_respond(j) => ~Q!Incoming(j)
        BY <1>7, <1>12 DEF Q!must_respond, Q!Incoming
    <2>3. ~Q!Incoming(j) => Q!Fault(5, j) = "malformed"
        BY DEF Q!Fault
    <2>4. QED
        BY <1>7, <2>1, <2>2, <2>3
<1>15. QED
    BY <1>13, <1>14

LEMMA NoLostSession ==
    ASSUME NEW v, NEW kind, kind # "session_not_found",
           v = 5 => kind = "malformed"
    PROVE  Q!http_status(v, kind) # 404
    BY DEF Q!http_status, Q!BaseStatus

LEMMA ReadAsModernKeeps ==
    ASSUME RequestShape, Bound, Owing, ReadAsModern, [Q!Next]_(Q!vars)
    PROVE  ReadAsModern'
<1>1. /\ DOMAIN h = Fields /\ conf \in Q!Confs /\ client.revision \in Q!Revision
      /\ q_stage \in {"idle", "received", "over"} => h = Q!Fresh
    BY DEF RequestShape
<1>2. CASE Q!exchange
    <2>1. /\ q_stage' = "received" /\ UNCHANGED <<client, session_id>>
        BY <1>2 DEF Q!exchange, Q!config
    <2>2. Composed(q)'
        <3>1. Q!Wanted(client)' = Q!Wanted(client)
            BY <2>1 DEF Q!Wanted, Q!client_handshake_params, Q!capabilities
        <3>2. \A i : Framed(q, i)' <=> Framed(q', i)
            BY <2>1 DEF Framed, Q!client_headers
        <3>3. \A i : Own(i)' = Own(i)
            BY <2>1 DEF Own, Q!client_decorate_params, Q!capabilities
        <3>4. QED
            BY <1>2, <2>1, <3>1, <3>2, <3>3, ComposedRequest DEF Composed
    <2>3. QED
        BY <2>1, <2>2 DEF ReadAsModern
<1>3. ASSUME q_stage \notin {"idle", "over"}, UNCHANGED <<client, session_id, q>>
      PROVE  Composed(q) /\ Composed(q)'
    BY <1>3 DEF ReadAsModern, Composed, Framed, Own, Q!Wanted
<1>4. CASE Q!Admit
    <2>1. /\ q_stage = "received" /\ UNCHANGED <<client, session_id, q>>
          /\ \/ q_stage' = "answered" /\ h'.status \in {403, 415, 401}
             \/ q_stage' = "verified"
        BY <1>1, <1>4, AdmitStep
    <2>2. QED
        BY <1>3, <2>1 DEF ReadAsModern
<1>5. CASE Q!Load
    <2>1. /\ q_stage = "verified" /\ UNCHANGED <<client, session_id, q>>
          /\ \/ q_stage' = "answered" /\ h'.status = 202
             \/ q_stage' = "answered" /\ h'.record = h.record /\ q.session # None
             \/ q_stage' = "loaded"
        BY <1>1, <1>5, LoadStep
    <2>2. h.record = None
        BY <2>1 DEF Bound
    <2>3. QED
        BY <1>3, <2>1, <2>2 DEF ReadAsModern
<1>6. CASE Q!Select
    <2>1. /\ q_stage = "loaded" /\ UNCHANGED <<client, session_id, q>>
          /\ \/ q_stage' = "answered" /\ h'.status \in {200, 400}
             \/ /\ q_stage' = "selected" /\ h'.adapter = Q!select.revision /\ Q!select.refusal = None
        BY <1>1, <1>6, SelectStep
    <2>2. CASE q_stage' = "answered"
        BY <1>3, <2>1, <2>2 DEF ReadAsModern
    <2>3. CASE q_stage' = "selected"
        <3>1. Q!Preamble(q, "meta")' = Q!Preamble(q, "meta")
            BY <2>1 DEF Q!Preamble
        <3>2. Q!Preamble(q, "meta") # None => q.pin # None \/ h'.adapter = Q!Preamble(q, "meta")
            BY <2>1, <2>3, SelectedMeta
        <3>3. QED
            BY <1>3, <2>1, <2>3, <3>1, <3>2 DEF ReadAsModern
    <2>4. QED
        BY <2>1, <2>2, <2>3
<1>7. CASE Q!Decode
    <2>1. /\ q_stage = "selected" /\ UNCHANGED <<client, session_id, q>> /\ h'.adapter = h.adapter
          /\ \/ q_stage' = "answered" /\ h'.status \in {200, 400}
             \/ /\ q_stage' = "decoded" /\ h'.status = h.status /\ Q!Refusing = None
                /\ h'.items = [n \in DOMAIN q.body.items |-> Q!decode_item(h.adapter, q.body.items[n])]
        BY <1>1, <1>7, DecodeStep
    <2>2. CASE q_stage' = "answered"
        BY <1>3, <2>1, <2>2 DEF ReadAsModern
    <2>3. CASE q_stage' = "decoded"
        <3>1. h.status = None
            BY <2>1 DEF Owing
        <3>2. h'.status # 404
            BY <2>1, <2>3, <3>1, NoneIsNoNumber
        <3>3. ASSUME client.revision < 5, h.adapter = 5
              PROVE  \A n \in DOMAIN h'.items : ~h'.items[n].respond \/ h'.items[n].fault = "malformed"
            <4>1. Q!Preamble(q, "meta") # None => q.pin # None \/ Q!Preamble(q, "meta") = 5
                BY <2>1, <3>3 DEF ReadAsModern
            <4>2. PICK j : /\ q.body.items = <<j>>
                           /\ ~Q!decode_item(5, j).respond \/ Q!decode_item(5, j).fault = "malformed"
                BY <1>1, <1>3, <2>1, <2>3, <3>3, <4>1, DecodedAsModern
            <4>3. DOMAIN h'.items = {1} /\ h'.items[1] = Q!decode_item(5, j)
                BY <2>1, <2>3, <3>3, <4>2
            <4>4. QED
                BY <4>2, <4>3
        <3>4. QED
            BY <1>3, <2>1, <2>3, <3>2, <3>3 DEF ReadAsModern
    <2>4. QED
        BY <2>1, <2>2, <2>3
<1>8. CASE Q!accepts
    <2>1. /\ q_stage = "decoded" /\ UNCHANGED <<client, session_id, q>> /\ h'.adapter = h.adapter
          /\ h'.items = h.items
          /\ \/ q_stage' = "answered" /\ h'.status = 406
             \/ q_stage' = "running" /\ h'.status = h.status
        BY <1>1, <1>8, AcceptStep
    <2>2. QED
        BY <1>3, <2>1 DEF ReadAsModern
<1>9. CASE Q!run
    <2>1. PICK told : told = Head(h.items)
        OBVIOUS
    <2>2. /\ q_stage = "running" /\ q_stage' = "running" /\ h.items # <<>>
          /\ UNCHANGED <<client, session_id, q>> /\ h'.adapter = h.adapter /\ h'.items = Tail(h.items)
          /\ \E failure :
                /\ h'.status = (IF h.replies = <<>> /\ told.respond
                                THEN IF failure = None THEN 200 ELSE Q!http_status(h.adapter, failure)
                                ELSE h.status)
                /\ \/ told.fault # None /\ failure = told.fault
                   \/ told.fault = None /\ failure = Q!dispatch(told)
        BY <1>1, <1>9, <2>1, RunStep
    <2>3. /\ h.items \in Seq(Elements(h.items))
          /\ \A n \in DOMAIN h.items : Answers(h.items[n], q.body.items[Behind + n])
        BY <2>2 DEF Owing
    <2>4. /\ Len(h.items) \in Nat /\ Len(h.items) > 0
          /\ DOMAIN h.items = 1..Len(h.items) /\ DOMAIN h'.items = 1..Len(h'.items)
          /\ Len(h'.items) = Len(h.items) - 1
          /\ told = h.items[1] /\ \A n \in 1..Len(h'.items) : h'.items[n] = h.items[n + 1]
        <3>1. h'.items = Tail(h.items)
            BY <2>2
        <3>2. QED
            BY <2>1, <2>2, <2>3, <3>1, ShorterElements
    <2>5. 1 \in DOMAIN h.items /\ \A n \in DOMAIN h'.items : n + 1 \in DOMAIN h.items
        BY <2>4
    <2>6. told.fault \in {None, "malformed", "unknown_method", "invalid_params"}
        BY <2>3, <2>4, <2>5 DEF Answers
    <2>7. ASSUME client.revision < 5
          PROVE  /\ h.adapter = 5 =>
                        \A n \in DOMAIN h'.items : ~h'.items[n].respond \/ h'.items[n].fault = "malformed"
                 /\ h'.status # 404
        <3>1. /\ h.adapter = 5 =>
                    \A n \in DOMAIN h.items : ~h.items[n].respond \/ h.items[n].fault = "malformed"
              /\ h.status # 404
            BY <2>2, <2>7 DEF ReadAsModern
        <3>2. h.adapter = 5 =>
                \A n \in DOMAIN h'.items : ~h'.items[n].respond \/ h'.items[n].fault = "malformed"
            BY <2>4, <2>5, <3>1
        <3>3. h.adapter = 5 => ~told.respond \/ told.fault = "malformed"
            BY <2>4, <2>5, <3>1
        <3>4. Q!dispatch(told) \in {None, "invalid_params", "unknown_target"}
            BY DEF Q!dispatch
        <3>5. PICK failure :
                /\ h'.status = (IF h.replies = <<>> /\ told.respond
                                THEN IF failure = None THEN 200 ELSE Q!http_status(h.adapter, failure)
                                ELSE h.status)
                /\ \/ told.fault # None /\ failure = told.fault
                   \/ told.fault = None /\ failure = Q!dispatch(told)
            BY <2>2
        <3>6. failure # "session_not_found"
            BY <2>6, <3>4, <3>5, NoneIsNoWord
        <3>7. CASE h.replies = <<>> /\ told.respond /\ failure # None
            <4>1. h.adapter = 5 => failure = "malformed"
                BY <3>3, <3>5, <3>7, NoneIsNoWord
            <4>2. Q!http_status(h.adapter, failure) # 404
                BY <3>6, <4>1, NoLostSession
            <4>3. QED
                BY <3>2, <3>5, <3>7, <4>2
        <3>8. QED
            BY <3>1, <3>2, <3>5, <3>7
    <2>8. QED
        BY <1>3, <2>2, <2>7 DEF ReadAsModern
<1>10. CASE Q!finish
    <2>1. /\ q_stage = "running" /\ q_stage' = "answered" /\ UNCHANGED <<client, session_id, q>>
          /\ h'.status \in {202, 200, h.status}
        BY <1>1, <1>10, FinishStep
    <2>2. QED
        BY <1>3, <2>1 DEF ReadAsModern
<1>11. CASE Q!adopt
    <2>1. q_stage' \in {"idle", "over"}
        BY <1>11 DEF Q!adopt
    <2>2. QED
        BY <2>1 DEF ReadAsModern
<1>12. CASE UNCHANGED Q!vars
    <2>1. UNCHANGED <<client, session_id, q, h, q_stage>>
        BY <1>12 DEF Q!vars, Q!config
    <2>2. Q!Preamble(q, "meta")' = Q!Preamble(q, "meta")
        BY <2>1 DEF Q!Preamble
    <2>3. QED
        BY <1>3, <2>1, <2>2 DEF ReadAsModern
<1>20. QED
    BY <1>2, <1>4, <1>5, <1>6, <1>7, <1>8, <1>9, <1>10, <1>11, <1>12 DEF Q!Next

-----------------------------------------------------------------------------
(* A request as the client composed it, step by step. *)

Said(method, id, name, arg, meta, caps, version) ==
    [method |-> method, id |-> id, params |-> "valid", name |-> name, arg |-> arg,
     meta |-> meta, caps |-> caps, version |-> version]

LEMMA SaidCall ==
    ASSUME NEW m, m = Said("tools_call", "1", None, None, None, None, None), NEW name, NEW arg
    PROVE  [m EXCEPT !.name = name, !.arg = arg] = Said("tools_call", "1", name, arg, None, None, None)
<1> DEFINE Names == {"method", "id", "params", "name", "arg", "meta", "caps", "version"}
           told == Said("tools_call", "1", name, arg, None, None, None)
<1>1. PICK r : r = [m EXCEPT !.name = name, !.arg = arg]
    OBVIOUS
<1>2. DOMAIN m = Names
    BY DEF Said
<1>3. r = [x \in Names |-> IF x = "name" THEN name ELSE IF x = "arg" THEN arg ELSE m[x]]
    BY <1>1, <1>2
<1>4. \A x \in Names : r[x] = told[x]
    BY <1>3 DEF Said
<1>5. r = [x \in Names |-> told[x]]
    BY <1>3, <1>4
<1>6. QED
    BY <1>1, <1>5 DEF Said

LEMMA SaidHandshake ==
    Q!client_handshake_params(client, Q!Message("initialize", "1")) =
        Said("initialize", "1", None, None, None, Q!capabilities(client), client.revision)
<1> DEFINE Names == {"method", "id", "params", "name", "arg", "meta", "caps", "version"}
<1>1. PICK caps, version, m, r :
        /\ caps = Q!capabilities(client) /\ version = client.revision
        /\ m = Said("initialize", "1", None, None, None, None, None)
        /\ r = [m EXCEPT !.version = version, !.caps = caps]
    OBVIOUS
<1>2. DOMAIN m = Names
    BY <1>1 DEF Said
<1>3. r = [x \in Names |-> IF x = "version" THEN version ELSE IF x = "caps" THEN caps ELSE m[x]]
    BY <1>1, <1>2
<1>4. PICK handshake : handshake = Said("initialize", "1", None, None, None, caps, version)
    OBVIOUS
<1>5. \A x \in Names : r[x] = handshake[x]
    BY <1>1, <1>3, <1>4 DEF Said
<1>6. r = [x \in Names |-> handshake[x]]
    BY <1>3, <1>5
<1>7. r = handshake
    BY <1>4, <1>6 DEF Said
<1>8. Q!Message("initialize", "1") = m
    BY <1>1 DEF Q!Message, Said
<1>9. QED
    BY <1>1, <1>4, <1>7, <1>8 DEF Q!client_handshake_params

LEMMA WantedModern ==
    ASSUME client.revision = 5, NEW i \in Q!Wanted(client)
    PROVE  \E method, name, arg :
              /\ i = Said(method, "1", name, arg, None, None, None)
              /\ Own(i) = Said(method, "1", name, arg, 5, TRUE, None)
              /\ \/ /\ method \in {"server_discover", "tools_list", "subscriptions_listen", "vendor_act"}
                    /\ name = None /\ arg = None
                 \/ method = "tools_call" /\ name = "streaming" /\ arg = None
                 \/ method = "tools_call" /\ name = "plain" /\ arg \in Arg \cup {None}
<1>1. \A method : Q!Message(method, "1") = Said(method, "1", None, None, None, None, None)
    BY DEF Q!Message, Said
<1>2. \A name, arg : Q!ToolCall(name, arg) = Said("tools_call", "1", name, arg, None, None, None)
    BY <1>1, SaidCall DEF Q!ToolCall
<1>3. ASSUME NEW j, NEW method, NEW name, NEW arg, j = Said(method, "1", name, arg, None, None, None)
      PROVE  Own(j) = Said(method, "1", name, arg, 5, TRUE, None)
    BY <1>3 DEF Own, Q!client_decorate_params, Q!capabilities, Said
<1>4. \/ \E method \in {"server_discover", "tools_list", "subscriptions_listen", "vendor_act"} :
            i = Said(method, "1", None, None, None, None, None)
      \/ i = Said("tools_call", "1", "streaming", None, None, None, None)
      \/ \E a \in Arg \cup {None} : i = Said("tools_call", "1", "plain", a, None, None, None)
    BY <1>1, <1>2 DEF Q!Wanted
<1>5. QED
    BY <1>3, <1>4

LEMMA WantedLegacy ==
    ASSUME client.revision \in 1..4, client.on_ask \in BOOLEAN, NEW i \in Q!Wanted(client)
    PROVE  /\ Own(i) = i
           /\ \/ /\ session_id = None
                 /\ i = Said("initialize", "1", None, None, None, Q!capabilities(client), client.revision)
              \/ /\ session_id # None
                 /\ \E method, id, name, arg :
                      /\ i = Said(method, id, name, arg, None, None, None)
                      /\ \/ /\ method = "notifications_initialized" /\ id = "absent"
                            /\ name = None /\ arg = None
                         \/ /\ method \in {"tools_list", "logging_setLevel"} /\ id = "1"
                            /\ name = None /\ arg = None
                         \/ method = "tools_call" /\ id = "1" /\ name = "plain" /\ arg = "plain"
                         \/ method = "tools_call" /\ id = "1" /\ name = "streaming" /\ arg = None
<1>1. Own(i) = i
    BY DEF Own, Q!client_decorate_params
<1>2. \A method, id : Q!Message(method, id) = Said(method, id, None, None, None, None, None)
    BY DEF Q!Message, Said
<1>3. \A name, arg : Q!ToolCall(name, arg) = Said("tools_call", "1", name, arg, None, None, None)
    <2>1. Q!Message("tools_call", "1") = Said("tools_call", "1", None, None, None, None, None)
        BY <1>2
    <2>2. QED
        BY <2>1, SaidCall DEF Q!ToolCall
<1>4. Q!client_handshake_params(client, Q!Message("initialize", "1")) =
        Said("initialize", "1", None, None, None, Q!capabilities(client), client.revision)
    BY SaidHandshake
<1>5. CASE session_id = None
    BY <1>1, <1>4, <1>5 DEF Q!Wanted
<1>6. CASE session_id # None
    <2>1. \/ i = Said("notifications_initialized", "absent", None, None, None, None, None)
          \/ i = Said("tools_list", "1", None, None, None, None, None)
          \/ i = Said("logging_setLevel", "1", None, None, None, None, None)
          \/ i = Said("tools_call", "1", "plain", "plain", None, None, None)
          \/ i = Said("tools_call", "1", "streaming", None, None, None, None)
        BY <1>2, <1>3, <1>6 DEF Q!Wanted
    <2>2. QED
        BY <1>1, <1>6, <2>1
<1>7. QED
    BY <1>5, <1>6

LEMMA SaidIsNotNone ==
    /\ \A method \in {"server_discover", "tools_list", "subscriptions_listen", "vendor_act", "tools_call"},
          name \in {"plain", "streaming", None}, arg \in Arg \cup {None} :
          /\ Said(method, "1", name, arg, 5, TRUE, None) # None
          /\ Said(method, "1", name, arg, None, None, None) # None
    /\ \A method \in {"notifications_initialized", "tools_list", "logging_setLevel", "tools_call"},
          id \in {"1", "absent"}, name \in {"plain", "streaming", None}, arg \in {"plain", None} :
          Said(method, id, name, arg, None, None, None) # None
    /\ \A caps \in BOOLEAN, version \in 1..4 :
          Said("initialize", "1", None, None, None, caps, version) # None
<1>1. ASSUME NEW method \in {"initialize", "notifications_initialized", "tools_list", "tools_call",
                             "logging_setLevel", "server_discover", "subscriptions_listen", "vendor_act"},
             NEW id \in {"1", "absent"}, NEW name \in {"plain", "streaming", None},
             NEW arg \in Arg \cup {"plain", None}, NEW meta, meta = 5 \/ meta = None,
             NEW caps, caps = TRUE \/ caps = FALSE \/ caps = None,
             NEW version, version \in 1..4 \/ version = None
      PROVE  Said(method, id, name, arg, meta, caps, version) # None
    <2> DEFINE Methods == {"initialize", "notifications_initialized", "tools_list", "tools_call",
                           "logging_setLevel", "server_discover", "subscriptions_listen", "vendor_act",
                           "unknown", "reply"}
               Names == Q!ToolNames \cup {"missing", None}
               Records == [method : Methods \cup {None}, id : {"1", "2", "absent", "null", "bad"},
                           params : {"valid", "wrong", "scalar"}, name : Names, arg : Arg \cup Names,
                           meta : 0 .. 6 \cup {None}, caps : BOOLEAN \cup {None},
                           version : Q!Revision \cup {None}]
    <2>1. None \notin Records
        BY RequestsConstants
    <2>2. /\ method \in Methods \cup {None} /\ name \in Names /\ arg \in Arg \cup Names
          /\ id \in {"1", "2", "absent", "null", "bad"}
        BY <1>1 DEF Q!ToolNames
    <2>3. meta \in 0 .. 6 \cup {None} /\ version \in Q!Revision \cup {None}
        BY <1>1 DEF Q!Revision
    <2>5. caps \in BOOLEAN \cup {None}
        BY <1>1
    <2> HIDE DEF Methods, Names
    <2>6. Said(method, id, name, arg, meta, caps, version) \in Records
        BY <2>2, <2>3, <2>5 DEF Said
    <2>4. QED
        BY <2>1, <2>6
<1>3. \A method \in {"server_discover", "tools_list", "subscriptions_listen", "vendor_act", "tools_call"},
         name \in {"plain", "streaming", None}, arg \in Arg \cup {None} :
         /\ Said(method, "1", name, arg, 5, TRUE, None) # None
         /\ Said(method, "1", name, arg, None, None, None) # None
    <2>1. ASSUME NEW method \in {"server_discover", "tools_list", "subscriptions_listen", "vendor_act",
                                 "tools_call"},
                 NEW name \in {"plain", "streaming", None}, NEW arg \in Arg \cup {None}
          PROVE  /\ Said(method, "1", name, arg, 5, TRUE, None) # None
                 /\ Said(method, "1", name, arg, None, None, None) # None
        <3>1. arg \in Arg \cup {"plain", None}
            OBVIOUS
        <3>2. Said(method, "1", name, arg, 5, TRUE, None) # None
            BY <1>1, <3>1, ZenonT(60)
        <3>3. Said(method, "1", name, arg, None, None, None) # None
            BY <1>1, <3>1, ZenonT(60)
        <3>4. QED
            BY <3>2, <3>3
    <2>2. QED
        BY <2>1
<1>4. \A method \in {"notifications_initialized", "tools_list", "logging_setLevel", "tools_call"},
         id \in {"1", "absent"}, name \in {"plain", "streaming", None}, arg \in {"plain", None} :
         Said(method, id, name, arg, None, None, None) # None
    <2>1. ASSUME NEW method \in {"notifications_initialized", "tools_list", "logging_setLevel", "tools_call"},
                 NEW id \in {"1", "absent"}, NEW name \in {"plain", "streaming", None},
                 NEW arg \in {"plain", None}
          PROVE  Said(method, id, name, arg, None, None, None) # None
        <3>1. arg \in Arg \cup {"plain", None}
            OBVIOUS
        <3>2. QED
            BY <1>1, <3>1, ZenonT(60)
    <2>2. QED
        BY <2>1
<1>5. \A caps \in BOOLEAN, version \in 1..4 :
         Said("initialize", "1", None, None, None, caps, version) # None
    BY <1>1
<1>6. QED
    BY <1>3, <1>4, <1>5

LEMMA Operations ==
    /\ \A v \in 1..4 :
        /\ Q!operation_for(v, "initialize") = "describe"
        /\ Q!operation_for(v, "notifications_initialized") = "handshake_complete"
        /\ Q!operation_for(v, "tools_list") = "list_tools"
        /\ Q!operation_for(v, "tools_call") = "call_tool"
        /\ Q!operation_for(v, "logging_setLevel") = "set_log_level"
    /\ Q!operation_for(5, "server_discover") = "describe"
    /\ Q!operation_for(5, "tools_list") = "list_tools"
    /\ Q!operation_for(5, "tools_call") = "call_tool"
    /\ Q!operation_for(5, "subscriptions_listen") = "listen"
    /\ Q!operation_for(5, "vendor_act") = "extension"
    BY DEF Q!operation_for, Q!Methods, Q!has_handshake, Q!LegacyMethods, Q!ModernMethods

\* The client of a revision says nothing that this revision does not know.
LEMMA WantedMessages ==
    ASSUME client.revision \in Q!Revision, client.on_ask \in BOOLEAN, NEW i \in Q!Wanted(client)
    PROVE  /\ Own(i) # None /\ i # None
           /\ Own(i).method = i.method /\ Own(i).id = i.id /\ Own(i).params = "valid"
           /\ Own(i).name = i.name /\ Own(i).arg = i.arg /\ Own(i).version = i.version
           /\ i.method # None /\ i.method # "reply" /\ i.id \in {"1", "absent"}
           /\ Own(i).meta = (IF client.revision = 5 THEN 5 ELSE None)
           /\ Q!operation_for(client.revision, i.method) # None
           /\ Q!operation_for(client.revision, i.method) \in {"listen", "extension"} => i.id = "1"
           /\ client.revision = 5 \/ i.method = "initialize" => Own(i).caps = Q!capabilities(client)
           /\ Q!operation_for(client.revision, i.method) = "describe" /\ client.revision < 5 =>
                i.method = "initialize" /\ i.version = client.revision
           /\ client.revision < 5 => (i.method = "initialize" <=> session_id = None)
           /\ Q!operation_for(client.revision, i.method) = "describe" <=>
                i.method \in {"initialize", "server_discover"}
           /\ Q!operation_for(client.revision, i.method) = "set_log_level" => client.revision < 5 /\ session_id # None
           /\ i.method = "tools_call" => i.name \in Q!ToolNames
           /\ Q!operation_for(client.revision, i.method) = "call_tool" => i.method = "tools_call"
           /\ client.revision = 5 => i.arg \in Arg \cup {None}
<1>1. CASE client.revision = 5
    <2>1. PICK method, name, arg :
              /\ i = Said(method, "1", name, arg, None, None, None)
              /\ Own(i) = Said(method, "1", name, arg, 5, TRUE, None)
              /\ \/ /\ method \in {"server_discover", "tools_list", "subscriptions_listen", "vendor_act"}
                    /\ name = None /\ arg = None
                 \/ method = "tools_call" /\ name = "streaming" /\ arg = None
                 \/ method = "tools_call" /\ name = "plain" /\ arg \in Arg \cup {None}
        BY <1>1, WantedModern
    <2>2. Own(i) # None
        BY <2>1, SaidIsNotNone
    <2>3. /\ i.method = method /\ i.id = "1" /\ i.name = name /\ i.arg = arg /\ i.version = None
          /\ Own(i).method = method /\ Own(i).id = "1" /\ Own(i).params = "valid" /\ Own(i).name = name
          /\ Own(i).arg = arg /\ Own(i).version = None /\ Own(i).meta = 5 /\ Own(i).caps = TRUE
        BY <2>1 DEF Said
    <2>4. Q!capabilities(client) = TRUE
        BY <1>1 DEF Q!capabilities
    <2>5. method # None
        BY <2>1, NoneIsNoWord
    <2>6. arg \in Arg \cup {None}
        BY <2>1
    <2>7. /\ Q!operation_for(5, method) # None
          /\ Q!operation_for(5, method) = "describe" <=> method = "server_discover"
          /\ Q!operation_for(5, method) # "set_log_level"
          /\ Q!operation_for(5, method) = "call_tool" => method = "tools_call"
        BY <2>1, Operations, NoneIsNoWord
    <2>8. method = "tools_call" => name \in Q!ToolNames
        BY <2>1 DEF Q!ToolNames
    <2>9. method # "reply" /\ method # "initialize" /\ i # None
        BY <2>1, SaidIsNotNone
    <2>10. ~(client.revision < 5) /\ Q!operation_for(client.revision, i.method) = Q!operation_for(5, method)
        BY <1>1, <2>3
    <2>11. QED
        BY <1>1, <2>2, <2>3, <2>4, <2>5, <2>6, <2>7, <2>8, <2>9, <2>10
<1>2. CASE client.revision \in 1..4
    <2> DEFINE Facts(method, id, name, caps, version) ==
            /\ method # None /\ method # "reply" /\ id \in {"1", "absent"}
            /\ Q!operation_for(client.revision, method) # None
            /\ Q!operation_for(client.revision, method) \notin {"listen", "extension"}
            /\ Q!operation_for(client.revision, method) = "describe" <=> method = "initialize"
            /\ method # "server_discover"
            /\ method = "initialize" => caps = Q!capabilities(client) /\ version = client.revision
            /\ method = "initialize" <=> session_id = None
            /\ Q!operation_for(client.revision, method) = "set_log_level" => session_id # None
            /\ method = "tools_call" => name \in Q!ToolNames
            /\ Q!operation_for(client.revision, method) = "call_tool" => method = "tools_call"
    <2>1. PICK method, id, name, arg, caps, version :
              /\ i = Said(method, id, name, arg, None, caps, version) /\ i # None
              /\ Facts(method, id, name, caps, version)
        <3>1. CASE session_id = None
            <4>1. i = Said("initialize", "1", None, None, None, Q!capabilities(client), client.revision)
                BY <1>2, <3>1, WantedLegacy
            <4>2. Q!capabilities(client) \in BOOLEAN
                BY DEF Q!capabilities
            <4>3. Said("initialize", "1", None, None, None, Q!capabilities(client), client.revision) # None
                BY <1>2, <4>2, SaidIsNotNone
            <4>4. i # None
                BY <4>1, <4>3
            <4>5. Facts("initialize", "1", None, Q!capabilities(client), client.revision)
                BY <1>2, <3>1, Operations, NoneIsNoWord
            <4>6. QED
                BY <4>1, <4>4, <4>5
        <3>2. CASE session_id # None
            <4>1. PICK method, id, name, arg :
                      /\ i = Said(method, id, name, arg, None, None, None)
                      /\ \/ /\ method = "notifications_initialized" /\ id = "absent"
                            /\ name = None /\ arg = None
                         \/ /\ method \in {"tools_list", "logging_setLevel"} /\ id = "1"
                            /\ name = None /\ arg = None
                         \/ method = "tools_call" /\ id = "1" /\ name = "plain" /\ arg = "plain"
                         \/ method = "tools_call" /\ id = "1" /\ name = "streaming" /\ arg = None
                BY <1>2, <3>2, WantedLegacy
            <4>2. i # None
                BY <4>1, SaidIsNotNone
            <4>3. /\ method # None /\ method \notin {"reply", "server_discover", "initialize"}
                  /\ id \in {"1", "absent"}
                BY <4>1, NoneIsNoWord
            <4>4. /\ Q!operation_for(client.revision, method) # None
                  /\ Q!operation_for(client.revision, method) \notin {"listen", "extension", "describe"}
                  /\ Q!operation_for(client.revision, method) = "call_tool" => method = "tools_call"
                BY <1>2, <4>1, Operations, NoneIsNoWord
            <4>5. method = "tools_call" => name \in Q!ToolNames
                BY <4>1 DEF Q!ToolNames
            <4>6. Facts(method, id, name, None, None)
                BY <3>2, <4>3, <4>4, <4>5
            <4>7. QED
                BY <4>1, <4>2, <4>6
        <3>3. QED
            BY <3>1, <3>2
    <2>2. Own(i) = i
        BY <1>2, WantedLegacy
    <2>3. /\ i.method = method /\ i.id = id /\ i.params = "valid" /\ i.name = name /\ i.arg = arg
          /\ i.meta = None /\ i.caps = caps /\ i.version = version
        BY <2>1 DEF Said
    <2>4. client.revision # 5 /\ client.revision < 5
        BY <1>2
    <2>5. Facts(method, id, name, caps, version) /\ i # None
        BY <2>1
    <2>6. QED
        BY <2>2, <2>3, <2>4, <2>5
<1>3. QED
    BY <1>1, <1>2 DEF Q!Revision

LEMMA OwnExchange ==
    ASSUME Q!exchange, q'.intact
    PROVE  \E i \in Q!Wanted(client) : Intact(q', i)
<1>1. PICK i \in Q!Wanted(client) :
        LET own == Q!Request(client, i) IN
        q' \in {own} \cup {[r EXCEPT !.intact = FALSE] : r \in Q!Others(client, own) \ {own}}
    BY DEF Q!exchange
<1>2. PICK own : own = Q!Request(client, i)
    OBVIOUS
<1>3. q' = own \/ \E r \in Q!Others(client, own) : q' = [r EXCEPT !.intact = FALSE]
    BY <1>1, <1>2
<1>4. ASSUME NEW r \in Q!Others(client, own), q' = [r EXCEPT !.intact = FALSE]
      PROVE  FALSE
    <2>1. DOMAIN r = RequestFields
        BY <1>2, OtherRequest
    <2>2. q'.intact = FALSE
        BY <1>4, <2>1 DEF RequestFields
    <2>3. QED
        BY <2>2
<1>5. q' = own
    BY <1>3, <1>4
<1>6. QED
    BY <1>2, <1>5, OwnRequest DEF Intact

LEMMA OwnAdmitted ==
    ASSUME conf \in Q!Confs, OwnCredential(client.credential), NEW i, Framed(q, i)
    PROVE  /\ Q!check_origin(q) /\ q.json
           /\ conf.policies = <<>> \/ Q!Accepting(q.credential) # {}
           /\ Q!verified(q.credential) = Self
<1>1. PICK c : c = q.credential
    OBVIOUS
<1>2. /\ c.scheme = "bearer" /\ c.who = "alice" /\ c.alive = TRUE /\ c.scoped = TRUE
      /\ c = client.credential
    BY <1>1 DEF Framed, OwnCredential, Q!Credential
<1>3. Alice # None /\ "alice" # None
    BY NoneIsNobody
<1>4. Q!authenticate("bearer", c) = Alice
    BY <1>2, <1>3 DEF Q!authenticate, Q!Authorization, Alice
<1>5. Q!authenticate("basic", c) = None
    BY <1>2 DEF Q!authenticate, Q!BasicAuth
<1>6. Q!check("bearer", c) = 200 /\ Q!check("basic", c) = 401
    BY <1>2, <1>3, <1>4, <1>5 DEF Q!check
<1>7. Q!check_origin(q) /\ q.json
    BY DEF Framed, Q!check_origin
<1>8. CASE conf.policies = <<>>
    BY <1>7, <1>8 DEF Q!verified, Self
<1>9. CASE conf.policies # <<>>
    <2>1. conf.policies \in {<<"bearer">>, <<"basic", "bearer">>}
        BY <1>9, Configured
    <2>2. \E n \in DOMAIN conf.policies : conf.policies[n] = "bearer"
        <3>1. CASE conf.policies = <<"bearer">>
            <4>1. 1 \in DOMAIN conf.policies /\ conf.policies[1] = "bearer"
                BY <3>1
            <4>2. QED
                BY <4>1
        <3>2. CASE conf.policies = <<"basic", "bearer">>
            <4>1. 2 \in DOMAIN conf.policies /\ conf.policies[2] = "bearer"
                BY <3>2
            <4>2. QED
                BY <4>1
        <3>3. QED
            BY <2>1, <3>1, <3>2
    <2>3. "bearer" \in Q!Accepting(c)
        BY <1>6, <2>2 DEF Q!Accepting, Q!ToSet
    <2>4. \A p \in Q!Accepting(c) : p = "bearer"
        <3>1. \A n \in DOMAIN conf.policies : conf.policies[n] \in {"basic", "bearer"}
            BY <2>1
        <3>2. QED
            BY <1>6, <3>1 DEF Q!Accepting, Q!ToSet
    <2> DEFINE First(n) == /\ conf.policies[n] \in Q!Accepting(c)
                           /\ \A m \in 1 .. n - 1 : conf.policies[m] \notin Q!Accepting(c)
    <2>5. \E n \in DOMAIN conf.policies : First(n)
        <3>1. CASE conf.policies = <<"bearer">>
            <4>1. 1 \in DOMAIN conf.policies /\ conf.policies[1] = "bearer" /\ 1 .. 1 - 1 = {}
                BY <3>1
            <4>2. QED
                BY <2>3, <4>1
        <3>2. CASE conf.policies = <<"basic", "bearer">>
            <4>1. 2 \in DOMAIN conf.policies /\ conf.policies[2] = "bearer" /\ conf.policies[1] = "basic"
                BY <3>2
            <4>2. \A m \in 1 .. 2 - 1 : m = 1
                OBVIOUS
            <4>3. QED
                BY <2>3, <2>4, <4>1, <4>2
        <3>3. QED
            BY <2>1, <3>1, <3>2
    <2>6. PICK n \in DOMAIN conf.policies : First(n) /\ n = CHOOSE m \in DOMAIN conf.policies : First(m)
        BY <2>5
    <2>7. Q!verified(c) = Q!authenticate(conf.policies[n], c)
        BY <1>9, <2>6 DEF Q!verified
    <2>8. conf.policies[n] = "bearer"
        BY <2>4, <2>6
    <2>9. QED
        BY <1>1, <1>4, <1>7, <1>9, <2>3, <2>7, <2>8 DEF Self, Alice, Q!identity
<1>10. QED
    BY <1>8, <1>9

LEMMA OwnBody ==
    ASSUME NEW i, q.body = Q!Object(Own(i)), Own(i) # None
    PROVE  /\ q.body.shape = "object" /\ q.body.items = <<Own(i)>> /\ q.body.items[1] = Own(i)
           /\ \A field : Q!Preamble(q, field) = Own(i)[field]
<1>1. q.body.shape = "object" /\ q.body.items = <<Own(i)>>
    BY Shapes
<1>2. q.body.items[1] = Own(i)
    BY <1>1
<1>3. QED
    BY <1>1, <1>2 DEF Q!Preamble

LEMMA OwnSelected ==
    ASSUME conf \in Q!Confs, client.revision \in Q!Revision, client.on_ask \in BOOLEAN, Q!Served,
           OwnCredential(client.credential),
           NEW i \in Q!Wanted(client), Framed(q, i), q.body = Q!Object(Own(i)),
           session_id # None => client.revision < 5 /\ h.record = OwnRecord
    PROVE  Q!select.refusal = None /\ Reads(Q!select.revision, i)
<1>1. /\ q.body.shape # "broken" /\ Q!Preamble(q, "meta") = Own(i).meta
      /\ Q!Preamble(q, "method") = i.method
    BY OwnBody, WantedMessages
<1>2. q.pin = None /\ q.header = (IF client.revision > 2 THEN client.revision ELSE None)
    BY DEF Framed, Q!client_headers
<1>3. \A v \in conf.adapters : /\ Q!resolve_version(v).refusal = None /\ Q!resolve_version(v).revision = v
                               /\ Q!by_version(v).refusal = None /\ Q!by_version(v).revision = v
    BY DEF Q!resolve_version, Q!by_version, Q!Chosen
<1>4. client.revision \in conf.adapters
    BY DEF Q!Served
<1>5. CASE client.revision = 5
    <2>1. Q!Preamble(q, "meta") = 5 /\ q.header = 5 /\ session_id = None
        BY <1>1, <1>2, <1>5, WantedMessages
    <2>2. Q!select = Q!resolve_version(5)
        BY <1>1, <1>2, <2>1, NoneIsNoNumber DEF Q!select, Q!NotText
    <2>3. QED
        BY <1>3, <1>4, <1>5, <2>1, <2>2 DEF Reads
<1>6. CASE client.revision < 5
    <2>1. client.revision # 5 /\ Q!Preamble(q, "meta") = None
        BY <1>1, <1>6, WantedMessages
    <2>2. None # Q!NotText
        BY NoneIsNoNumber DEF Q!NotText
    <2>3. CASE client.revision > 2
        <3>1. q.header = client.revision /\ q.header # None
            BY <1>2, <2>3, NoneIsNoNumber DEF Q!Revision
        <3>2. Q!select = Q!resolve_version(client.revision)
            BY <1>1, <1>2, <2>1, <2>2, <3>1 DEF Q!select
        <3>3. QED
            BY <1>3, <1>4, <3>2 DEF Reads
    <2>4. CASE ~(client.revision > 2) /\ session_id = None
        <3>1. q.header = None /\ i.method = "initialize"
            BY <1>2, <1>6, <2>4, WantedMessages
        <3>2. Q!select = Q!by_version(4)
            BY <1>1, <1>2, <2>1, <2>2, <3>1 DEF Q!select, Q!STABLE_REVISION
        <3>3. client.revision \in {1, 2}
            BY <2>4 DEF Q!Revision
        <3>4. conf.adapters \in {Q!Revision, {1, 2}}
            BY <1>4, <3>3, Configured
        <3>5. CASE conf.adapters = Q!Revision
            <4>1. 4 \in conf.adapters
                BY <3>5 DEF Q!Revision
            <4>2. QED
                BY <1>3, <2>4, <3>2, <3>3, <4>1 DEF Reads, Q!has_handshake
        <3>6. CASE conf.adapters = {1, 2}
            <4>1. Q!fallback \in {1, 2}
                <5>1. 2 \in conf.adapters /\ \A w \in conf.adapters : w <= 2
                    BY <3>6
                <5>2. QED
                    BY <3>6, <5>1 DEF Q!fallback, Q!Newest
            <4>2. Q!by_version(4).refusal = None /\ Q!by_version(4).revision = Q!fallback
                BY <3>6 DEF Q!by_version, Q!Chosen
            <4>3. QED
                BY <2>4, <3>2, <3>3, <3>6, <4>1, <4>2 DEF Reads, Q!has_handshake
        <3>7. QED
            BY <3>4, <3>5, <3>6
    <2>5. CASE ~(client.revision > 2) /\ session_id # None
        <3>1. q.header = None /\ i.method # "initialize"
            BY <1>2, <1>6, <2>5, WantedMessages
        <3>2. h.record = OwnRecord /\ OwnRecord.version = client.revision
            BY <2>5 DEF OwnRecord
        <3>3. OwnRecord # None /\ client.revision # None
            <4>1. OwnRecord # None
                BY NoneIsNobody
            <4>2. client.revision # None
                BY NoneIsNoNumber DEF Q!Revision
            <4>3. QED
                BY <4>1, <4>2
        <3>4. Q!stored_version = client.revision
            BY <3>2, <3>3 DEF Q!stored_version
        <3>5. Q!Remembered = Q!resolve_version(client.revision)
            BY <3>3, <3>4 DEF Q!Remembered
        <3>6. Q!select = Q!Remembered
            BY <1>1, <1>2, <2>1, <2>2, <3>1 DEF Q!select
        <3>7. QED
            BY <1>3, <1>4, <3>5, <3>6 DEF Reads
    <2>6. QED
        BY <2>3, <2>4, <2>5
<1>7. QED
    BY <1>5, <1>6 DEF Q!Revision

LEMMA OwnHeaders ==
    ASSUME client.revision = 5, client.on_ask \in BOOLEAN, NEW i \in Q!Wanted(client), Framed(q, i)
    PROVE  Q!headers_agree(Own(i))
<1>1. /\ Own(i).meta = 5 /\ Own(i).method = i.method /\ Own(i).name = i.name /\ Own(i).arg = i.arg
      /\ i.method = "tools_call" => i.name \in {"plain", "streaming"}
      /\ i.arg \in Arg \cup {None}
    BY WantedMessages DEF Q!Revision, Q!ToolNames
<1>2. /\ q.header = 5 /\ q.mcp_method = i.method
      /\ q.mcp_name = (IF i.name # None THEN Q!encode_header(i.name) ELSE None)
      /\ q.mcp_param = (IF i.arg # None THEN Q!encode_header(i.arg) ELSE None)
    BY DEF Framed, Q!client_headers
<1>3. ASSUME NEW x \in Arg \cup {"plain", "streaming"}
      PROVE  /\ Q!encode_header(x) \notin {None, Q!Garbled}
             /\ Q!decode_header(Q!encode_header(x)) = x
    <2>1. x # "sentinel"
        BY RequestsConstants
    <2>2. CASE x = "accented"
        <3>1. Q!encode_header(x) = <<"base64", x>>
            BY <2>2 DEF Q!encode_header
        <3>2. <<"base64", x>> # None
            BY RequestsConstants DEF Q!ToolNames
        <3>3. <<"base64", x>> # Q!Garbled
            BY <2>2 DEF Q!Garbled
        <3>4. <<"base64", x>> # <<"text", "sentinel">> /\ <<"base64", x>>[2] = x
            OBVIOUS
        <3>5. QED
            BY <3>1, <3>2, <3>3, <3>4 DEF Q!decode_header
    <2>3. CASE x # "accented"
        <3>1. Q!encode_header(x) = <<"text", x>>
            BY <2>3 DEF Q!encode_header
        <3>2. <<"text", x>> # None
            BY RequestsConstants DEF Q!ToolNames
        <3>3. <<"text", x>> # Q!Garbled
            BY DEF Q!Garbled
        <3>4. <<"text", x>> # <<"text", "sentinel">> /\ <<"text", x>>[2] = x
            BY <2>1
        <3>5. QED
            BY <3>1, <3>2, <3>3, <3>4 DEF Q!decode_header
    <2>4. QED
        BY <2>2, <2>3
<1>4. ASSUME i.method = "tools_call"
      PROVE  q.mcp_name \notin {None, Q!Garbled} /\ Q!decode_header(q.mcp_name) = i.name
    <2>1. i.name # None
        BY <1>1, <1>4, NoneIsNoWord
    <2>2. QED
        BY <1>1, <1>2, <1>3, <1>4, <2>1
<1>5. Q!param_agrees(Own(i))
    BY <1>1, <1>2, <1>3 DEF Q!param_agrees
<1>6. QED
    BY <1>1, <1>2, <1>4, <1>5 DEF Q!headers_agree, Q!Named

LEMMA OwnDecoded ==
    ASSUME client.revision \in Q!Revision, client.on_ask \in BOOLEAN,
           OwnCredential(client.credential),
           NEW i \in Q!Wanted(client), Framed(q, i), q.body = Q!Object(Own(i)),
           h.adapter \in Q!Revision,
           Q!has_handshake(h.adapter) <=> Q!has_handshake(client.revision),
           h.record = (IF session_id = None THEN None ELSE OwnRecord),
           session_id # None => client.revision < 5
    PROVE  Q!Refusing = None /\ OwnItem(Q!decode_item(h.adapter, Own(i)), i)
<1>1. PICK v : v = h.adapter
    OBVIOUS
<1>2. v = 5 <=> client.revision = 5
    BY <1>1 DEF Q!has_handshake, Q!Revision
<1>3. /\ q.body.shape = "object" /\ q.body.items[1] = Own(i)
      /\ Q!Preamble(q, "meta") = Own(i).meta
    BY OwnBody, WantedMessages
<1>4. Q!Refusing = None
    <2>1. Q!decode_refusal(v) = None
        BY <1>3 DEF Q!decode_refusal
    <2>2. CASE v # 5
        BY <1>1, <2>1, <2>2 DEF Q!Refusing, Q!check_http
    <2>3. CASE v = 5
        <3>1. client.revision = 5 /\ Q!Preamble(q, "meta") = 5 /\ q.header = 5
            BY <1>2, <1>3, <2>3, WantedMessages DEF Framed, Q!client_headers
        <3>2. Q!headers_agree(q.body.items[1])
            BY <1>3, <3>1, OwnHeaders
        <3>3. Q!check_http(v) = None
            BY <2>3, <3>1, <3>2, NoneIsNoNumber DEF Q!check_http
        <3>4. QED
            BY <1>1, <2>1, <3>3 DEF Q!Refusing
    <2>4. QED
        BY <2>2, <2>3
<1>5. Q!operation_for(v, i.method) = Q!operation_for(client.revision, i.method)
    BY <1>1, <1>2 DEF Q!operation_for, Q!Methods
<1>6. Q!Fault(v, Own(i)) = None
    <2>1. Q!Incoming(Own(i))
        BY WantedMessages DEF Q!Incoming
    <2>2. Q!check_params(v, Own(i))
        <3>1. ASSUME v = 5 PROVE Own(i).meta = 5 /\ Own(i).caps # None
            BY <1>2, <3>1, WantedMessages, NoneIsNoNumber DEF Q!capabilities
        <3>2. QED
            BY <3>1 DEF Q!check_params
    <2>3. PICK operation : operation = Q!operation_for(v, Own(i).method)
        OBVIOUS
    <2>4. /\ operation # None /\ (operation \in {"listen", "extension"} => Own(i).id = "1")
          /\ Own(i) # None /\ Own(i).params = "valid"
        BY <1>5, <2>3, WantedMessages
    <2>5. QED
        BY <2>1, <2>2, <2>3, <2>4 DEF Q!Fault
<1>7. Q!decode_item(v, Own(i)) = Q!build_call(v, Own(i))
    BY <1>6 DEF Q!decode_item
<1>8. PICK item : item = Q!build_call(v, Own(i))
    OBVIOUS
<1>9. /\ item.operation = Q!operation_for(client.revision, i.method)
      /\ item.name = i.name /\ item.arg = i.arg /\ item.version = i.version /\ item.fault = None
      /\ item.respond <=> i.id # "absent"
      /\ item.caps = (Q!client_info_for(v, Own(i)) \/ Q!remembered)
    BY <1>5, <1>8, WantedMessages DEF Q!build_call
<1>13. Q!capabilities(client) = TRUE \/ Q!capabilities(client) = FALSE
    BY DEF Q!capabilities
<1>10. (Q!client_info_for(v, Own(i)) \/ Q!remembered) = Q!capabilities(client)
    <2>1. CASE client.revision = 5
        <3>1. Own(i).caps = TRUE /\ Q!capabilities(client) = TRUE
            BY <2>1, WantedMessages DEF Q!capabilities
        <3>2. Q!client_info_for(v, Own(i)) = TRUE
            BY <1>2, <2>1, <3>1 DEF Q!client_info_for
        <3>3. QED
            BY <3>1, <3>2
    <2>2. CASE client.revision < 5 /\ session_id = None
        <3>1. i.method = "initialize" /\ Own(i).caps = Q!capabilities(client)
            BY <2>2, WantedMessages
        <3>2. Q!operation_for(v, Own(i).method) = "describe"
            BY <1>5, <3>1, WantedMessages
        <3>3. Q!client_info_for(v, Own(i)) = (Own(i).caps = TRUE)
            BY <3>2 DEF Q!client_info_for
        <3>4. Q!remembered = FALSE
            BY <2>2 DEF Q!remembered
        <3>5. QED
            BY <1>13, <3>1, <3>3, <3>4
    <2>3. CASE client.revision < 5 /\ session_id # None
        <3>1. i.method # "initialize" /\ i.method # "server_discover"
            <4>1. Q!operation_for(client.revision, i.method) = "describe" => i.method = "initialize"
                BY <2>3, WantedMessages
            <4>2. QED
                BY <2>3, <4>1, WantedMessages
        <3>2. Q!operation_for(v, Own(i).method) # "describe"
            BY <1>5, <3>1, WantedMessages
        <3>3. Q!client_info_for(v, Own(i)) = FALSE
            BY <1>2, <2>3, <3>2 DEF Q!client_info_for
        <3>4. h.record # None /\ h.record.caps = Q!capabilities(client)
            BY <2>3, NoneIsNobody DEF OwnRecord
        <3>5. Q!remembered = Q!capabilities(client)
            BY <1>13, <3>4 DEF Q!remembered
        <3>6. QED
            BY <1>13, <3>3, <3>5
    <2>4. QED
        BY <2>1, <2>2, <2>3 DEF Q!Revision
<1>11. item.caps = Q!capabilities(client)
    BY <1>9, <1>10
<1>12. QED
    BY <1>1, <1>4, <1>7, <1>8, <1>9, <1>11 DEF OwnItem

LEMMA OpenedStays ==
    ASSUME UNCHANGED <<conf, client>>, sessions \in Seq(Elements(sessions)),
           NEW record, sessions' \in {sessions, Append(sessions, record)}, NEW s, Opened(s)
    PROVE  Opened(s)'
<1>1. OwnRecord' = OwnRecord
    BY DEF OwnRecord, Self, Alice, Q!identity, Q!Space, Q!capabilities
<1>2. s \in DOMAIN sessions' /\ sessions'[s] = sessions[s]
    <2>1. CASE sessions' = sessions
        BY <2>1 DEF Opened
    <2>2. CASE sessions' = Append(sessions, record)
        <3>1. /\ Len(sessions) \in Nat /\ Len(sessions') = Len(sessions) + 1
              /\ DOMAIN sessions = 1..Len(sessions) /\ DOMAIN sessions' = 1..Len(sessions')
              /\ \A n \in 1..Len(sessions) : sessions'[n] = sessions[n]
            BY <2>2, LongerElements
        <3>2. QED
            BY <3>1 DEF Opened
    <2>3. QED
        BY <2>1, <2>2
<1>3. QED
    BY <1>1, <1>2 DEF Opened

LEMMA OwnAdmit ==
    ASSUME RequestShape, Bound, NEW i, Intact(q, i), Q!Admit
    PROVE  Understood(i)'
<1>1. /\ DOMAIN h = Fields /\ conf \in Q!Confs /\ OwnCredential(client.credential)
    BY DEF RequestShape
<1>2. /\ Q!check_origin(q) /\ q.json /\ (conf.policies = <<>> \/ Q!Accepting(q.credential) # {})
      /\ Q!verified(q.credential) = Self
    BY <1>1, OwnAdmitted DEF Intact
<1>3. q_stage' = "verified" /\ h'.principal = Self /\ UNCHANGED <<conf, client>>
    BY <1>1, <1>2, AdmitStep
<1>4. Self' = Self
    BY <1>3 DEF Self, Alice, Q!identity
<1>5. QED
    BY <1>3, <1>4 DEF Understood

LEMMA OwnLoad ==
    ASSUME RequestShape, Bound, NEW i \in Q!Wanted(client), Intact(q, i), Understood(i),
           session_id # None => Opened(session_id), Q!Load
    PROVE  Understood(i)'
<1>1. /\ DOMAIN h = Fields /\ client.revision \in Q!Revision /\ client.on_ask \in BOOLEAN
    BY DEF RequestShape
<1>2. PICK sid : sid = session_id /\ q.session = sid /\ q.body = Q!Object(Own(i))
    BY DEF Intact, Framed
<1>3. Q!Preamble(q, "method") # "reply"
    BY <1>1, <1>2, OwnBody, WantedMessages
<1>4. q_stage = "verified" /\ UNCHANGED <<conf, client, session_id, sessions>> /\ h'.principal = h.principal
    BY <1>1, LoadStep
<1>5. h.principal = Self /\ h.record = None
    BY <1>4 DEF Understood, Bound, Admitted
<1>6. sid # None => Q!Found(sid)
    <2>1. SUFFICES ASSUME sid # None PROVE Q!Found(sid)
        OBVIOUS
    <2>2. sid \in DOMAIN sessions /\ sessions[sid] = OwnRecord
        BY <1>2, <2>1 DEF Opened
    <2>3. OwnRecord.space = Q!Space(Self) /\ OwnRecord.owner = Self
        BY DEF OwnRecord
    <2>4. QED
        BY <1>5, <2>2, <2>3 DEF Q!Found, Q!owns
<1>7. q_stage' = "loaded" /\ h'.record = (IF sid = None THEN None ELSE sessions[sid])
    BY <1>1, <1>2, <1>3, <1>5, <1>6, LoadStep
<1>8. Self' = Self
    BY <1>4 DEF Self, Alice, Q!identity
<1>9. QED
    BY <1>2, <1>4, <1>5, <1>7, <1>8 DEF Understood, Admitted

LEMMA OwnSelect ==
    ASSUME RequestShape, NEW i \in Q!Wanted(client), Intact(q, i), Understood(i), Q!Served,
           session_id # None => Opened(session_id), Q!Select
    PROVE  Understood(i)'
<1>1. /\ DOMAIN h = Fields /\ client.revision \in Q!Revision /\ client.on_ask \in BOOLEAN
      /\ OwnCredential(client.credential)
      /\ conf \in Q!Confs
    BY DEF RequestShape
<1>2. /\ q_stage = "loaded" /\ UNCHANGED <<conf, client, session_id, sessions>>
      /\ h'.principal = h.principal /\ h'.record = h.record
    BY <1>1, SelectStep
<1>3. h.principal = Self /\ h.record = (IF session_id = None THEN None ELSE sessions[session_id])
    BY <1>2 DEF Understood, Admitted
<1>4. session_id # None => client.revision < 5 /\ h.record = OwnRecord
    BY <1>3 DEF Opened
<1>5. Q!select.refusal = None /\ Reads(Q!select.revision, i)
    BY <1>1, <1>4, OwnSelected DEF Intact
<1>6. q_stage' = "selected" /\ h'.adapter = Q!select.revision
    BY <1>1, <1>5, SelectStep
<1>7. PICK v : v = Q!select.revision
    OBVIOUS
<1>8. Reads(h.adapter, i)'
    BY <1>2, <1>5, <1>6, <1>7 DEF Reads, Q!has_handshake
<1>9. Self' = Self
    BY <1>2 DEF Self, Alice, Q!identity
<1>10. QED
    BY <1>2, <1>3, <1>6, <1>8, <1>9 DEF Understood, Admitted

LEMMA OwnDecode ==
    ASSUME RequestShape, Owing, NEW i \in Q!Wanted(client), Intact(q, i), Understood(i),
           session_id # None => Opened(session_id), Q!Decode
    PROVE  Understood(i)'
<1>1. /\ DOMAIN h = Fields /\ client.revision \in Q!Revision /\ client.on_ask \in BOOLEAN
      /\ OwnCredential(client.credential)
      /\ conf \in Q!Confs
    BY DEF RequestShape
<1>2. /\ q_stage = "selected" /\ UNCHANGED <<conf, client, session_id, sessions, ran, q>>
      /\ h'.principal = h.principal /\ h'.record = h.record /\ h'.adapter = h.adapter
      /\ h'.minted = h.minted
    BY <1>1, DecodeStep
<1>3. /\ h.principal = Self /\ h.record = (IF session_id = None THEN None ELSE sessions[session_id])
      /\ Reads(h.adapter, i)
    BY <1>2 DEF Understood, Admitted
<1>4. /\ h.record = (IF session_id = None THEN None ELSE OwnRecord)
      /\ session_id # None => client.revision < 5
    BY <1>3 DEF Opened
<1>5. h.adapter \in Q!Revision
    BY <1>1, <1>3, Configured DEF Reads, Q!Revision
<1>6. q.body.items = <<Own(i)>> /\ q.body = Q!Object(Own(i)) /\ Framed(q, i)
    BY <1>1, OwnBody, WantedMessages DEF Intact
<1>7. Q!Refusing = None /\ OwnItem(Q!decode_item(h.adapter, Own(i)), i)
    BY <1>1, <1>3, <1>4, <1>5, <1>6, OwnDecoded DEF Reads
<1>8. /\ q_stage' = "decoded" /\ h'.replies = h.replies
      /\ h'.items = [n \in DOMAIN q.body.items |-> Q!decode_item(h.adapter, q.body.items[n])]
    BY <1>1, <1>7, DecodeStep
<1>9. h'.items = <<Q!decode_item(h.adapter, Own(i))>>
    BY <1>6, <1>8
<1>10. Len(h'.items) = 1 /\ h'.items # <<>> /\ h'.items[1] = Q!decode_item(h.adapter, Own(i))
    BY <1>9
<1>11. OwnItem(h.items[1], i)'
    BY <1>2, <1>7, <1>10 DEF OwnItem, Q!operation_for, Q!Methods, Q!has_handshake, Q!capabilities
<1>12. ran' = <<>> /\ h'.replies = <<>> /\ h'.minted = None
    BY <1>2, <1>8 DEF Owing, RequestShape
<1>13. Reads(h.adapter, i)'
    BY <1>2, <1>3 DEF Reads, Q!has_handshake
<1>14. Self' = Self
    BY <1>2 DEF Self, Alice, Q!identity
<1>15. QED
    BY <1>2, <1>3, <1>8, <1>10, <1>11, <1>12, <1>13, <1>14 DEF Understood, Admitted

LEMMA OwnAccept ==
    ASSUME RequestShape, Owing, NEW i, Intact(q, i), Understood(i), Q!accepts
    PROVE  Understood(i)'
<1>1. DOMAIN h = Fields
    BY DEF RequestShape
<1>2. /\ q_stage = "decoded" /\ UNCHANGED <<conf, client, session_id, sessions, ran, q>>
      /\ h'.principal = h.principal /\ h'.record = h.record /\ h'.adapter = h.adapter
      /\ h'.minted = h.minted /\ h'.items = h.items
    BY <1>1, AcceptStep
<1>3. Q!media_type \in q.accept
    BY DEF Q!media_type, Intact, Framed
<1>4. q_stage' = "running" /\ h'.status = h.status /\ h'.replies = h.replies
    BY <1>1, <1>3, AcceptStep
<1>5. /\ h.principal = Self /\ h.record = (IF session_id = None THEN None ELSE sessions[session_id])
      /\ Reads(h.adapter, i)
      /\ h.items # <<>> /\ Len(h.items) = 1 /\ OwnItem(h.items[1], i)
      /\ ran = <<>> /\ h.replies = <<>> /\ h.minted = None
    BY <1>2 DEF Understood, Admitted
<1>6. OwnItem(h.items[1], i)'
    BY <1>2, <1>5 DEF OwnItem, Q!operation_for, Q!Methods, Q!has_handshake, Q!capabilities
<1>7. Reads(h.adapter, i)'
    BY <1>2, <1>5 DEF Reads, Q!has_handshake
<1>8. Self' = Self
    BY <1>2 DEF Self, Alice, Q!identity
<1>9. QED
    BY <1>2, <1>4, <1>5, <1>6, <1>7, <1>8 DEF Understood, Admitted

LEMMA OwnRun ==
    ASSUME RequestShape, Owing, NEW i \in Q!Wanted(client), Intact(q, i), Understood(i),
           session_id # None => Opened(session_id), Q!run
    PROVE  /\ Understood(i)'
           /\ \E record : sessions' \in {sessions, Append(sessions, record)}
<1>1. /\ DOMAIN h = Fields /\ client.revision \in Q!Revision /\ client.on_ask \in BOOLEAN
      /\ OwnCredential(client.credential)
      /\ sessions \in Seq(Elements(sessions))
    BY DEF RequestShape
<1>2. PICK told : told = Head(h.items)
    OBVIOUS
<1>3. /\ q_stage = "running" /\ q_stage' = "running" /\ h.items # <<>>
      /\ h'.principal = h.principal /\ h'.record = h.record /\ h'.adapter = h.adapter
      /\ h'.items = Tail(h.items)
      /\ h'.replies = (IF told.respond THEN Append(h.replies, told.id) ELSE h.replies)
      /\ UNCHANGED <<conf, client, session_id, q>>
      /\ \E failure :
            /\ h'.status = (IF h.replies = <<>> /\ told.respond
                            THEN IF failure = None THEN 200 ELSE Q!http_status(h.adapter, failure)
                            ELSE h.status)
            /\ told.fault = None =>
                /\ failure = Q!dispatch(told)
                /\ ran' = Append(ran, [operation |-> told.operation, name |-> told.name,
                                       arg |-> told.arg, caps |-> told.caps, failure |-> failure])
                /\ \/ /\ Q!open_session(told)
                      /\ sessions' = Append(sessions, Q!handshake_data(told))
                      /\ h'.minted = Len(sessions')
                   \/ ~Q!open_session(told) /\ sessions' = sessions /\ h'.minted = h.minted
    BY <1>1, <1>2, RunStep, ZenonT(60)
<1>4. /\ h.principal = Self /\ h.record = (IF session_id = None THEN None ELSE sessions[session_id])
      /\ Reads(h.adapter, i)
      /\ Len(h.items) = 1 /\ OwnItem(h.items[1], i)
      /\ ran = <<>> /\ h.replies = <<>> /\ h.minted = None
    BY <1>3 DEF Understood, Admitted
<1>5. told = h.items[1] /\ h'.items = <<>>
    <2>1. h.items \in Seq(Elements(h.items)) /\ h.items # <<>>
        BY <1>3 DEF Owing
    <2>2. PICK s, t : s = h.items /\ t = h'.items /\ t = Tail(s)
        BY <1>3
    <2>3. s \in Seq(Elements(s)) /\ s # <<>> /\ Len(s) = 1
        BY <1>4, <2>1, <2>2
    <2>4. t \in Seq(Elements(t)) /\ Len(t) = Len(s) - 1
        BY <2>2, <2>3, ShorterElements
    <2>5. Head(s) = s[1]
        BY <2>2, <2>3, ShorterElements
    <2>6. t = <<>>
        BY <2>3, <2>4, EmptySeq
    <2>7. QED
        BY <1>2, <2>2, <2>5, <2>6
<1>6. /\ told.operation = Q!operation_for(client.revision, i.method)
      /\ told.name = i.name /\ told.arg = i.arg /\ told.version = i.version /\ told.fault = None
      /\ told.caps = Q!capabilities(client)
    BY <1>4, <1>5 DEF OwnItem
<1>7. Q!dispatch(told) = None
    <2>1. told.operation = "set_log_level" => h.record # None
        <3>1. SUFFICES ASSUME told.operation = "set_log_level" PROVE h.record # None
            OBVIOUS
        <3>2. session_id # None
            BY <1>1, <1>6, <3>1, WantedMessages, ZenonT(60)
        <3>3. h.record = OwnRecord
            BY <1>4, <3>2 DEF Opened
        <3>4. QED
            BY <1>1, <3>3, NoneIsNobody
    <2>2. told.operation = "call_tool" => told.name \in Q!ToolNames
        <3>1. Q!operation_for(client.revision, i.method) = "call_tool" => i.method = "tools_call"
            BY <1>1, WantedMessages
        <3>2. i.method = "tools_call" => i.name \in Q!ToolNames
            BY <1>1, WantedMessages
        <3>3. QED
            BY <1>6, <3>1, <3>2
    <2>3. QED
        BY <2>1, <2>2 DEF Q!dispatch
<1>8. /\ h'.status = (IF told.respond THEN 200 ELSE h.status)
      /\ ran' = Append(ran, [operation |-> told.operation, name |-> told.name,
                             arg |-> told.arg, caps |-> told.caps, failure |-> None])
      /\ \/ /\ Q!open_session(told)
            /\ sessions' = Append(sessions, Q!handshake_data(told))
            /\ h'.minted = Len(sessions')
         \/ ~Q!open_session(told) /\ sessions' = sessions /\ h'.minted = None
    BY <1>3, <1>4, <1>6, <1>7
<1>9. ran' = <<Q!Meant(client, i)>>
    <2>1. \A x : Append(<<>>, x) = <<x>>
        OBVIOUS
    <2>2. QED
        BY <1>4, <1>6, <1>8, <2>1 DEF Q!Meant
<1>10. h'.replies # <<>> => h'.status = 200
    BY <1>3, <1>4, <1>8
<1>11. PICK record : sessions' \in {sessions, Append(sessions, record)}
    BY <1>8
<1>12. OwnRecord' = OwnRecord /\ Self' = Self
    BY <1>3 DEF OwnRecord, Self, Alice, Q!identity, Q!Space, Q!capabilities
<1>13. h'.minted # None => Opened(h.minted)'
    <2>1. SUFFICES ASSUME Q!open_session(told), sessions' = Append(sessions, Q!handshake_data(told)),
                          h'.minted = Len(sessions')
                   PROVE  Opened(h.minted)'
        BY <1>8
    <2>2. told.operation = "describe" /\ client.revision < 5
        BY <1>1, <1>4, <2>1 DEF Q!open_session, Reads, Q!has_handshake
    <2>3. told.version = client.revision /\ client.revision \in 1..4
        <3>1. Q!operation_for(client.revision, i.method) = "describe" /\ client.revision < 5 =>
                i.version = client.revision
            BY <1>1, WantedMessages
        <3>2. i.version = client.revision
            BY <1>6, <2>2, <3>1
        <3>3. client.revision \in 1..4
            BY <1>1, <2>2 DEF Q!Revision
        <3>4. QED
            BY <1>6, <3>2, <3>3
    <2>4. Q!handshake_data(told) = OwnRecord
        BY <1>4, <1>6, <2>3 DEF Q!handshake_data, Q!negotiated, OwnRecord
    <2>5. /\ Len(sessions) \in Nat /\ Len(sessions') = Len(sessions) + 1
          /\ DOMAIN sessions' = 1..Len(sessions')
          /\ sessions'[Len(sessions) + 1] = OwnRecord
        BY <1>1, <2>1, <2>4, LongerElements
    <2>6. h'.minted \in DOMAIN sessions' /\ sessions'[h'.minted] = OwnRecord
        BY <2>1, <2>5
    <2>7. QED
        BY <1>3, <1>12, <2>2, <2>6 DEF Opened
<1>14. h'.record = (IF session_id' = None THEN None ELSE sessions'[session_id'])
    <2>1. CASE session_id = None
        BY <1>3, <1>4, <2>1
    <2>2. CASE session_id # None
        <3>1. PICK sid : sid = session_id
            OBVIOUS
        <3>2. Opened(sid)
            BY <2>2, <3>1
        <3>3. Opened(sid)'
            <4>1. UNCHANGED <<conf, client>>
                BY <1>3
            <4>2. QED
                BY <1>1, <1>11, <3>2, <4>1, OpenedStays
        <3>4. sessions'[sid] = OwnRecord /\ h.record = OwnRecord
            BY <1>4, <1>12, <2>2, <3>1, <3>2, <3>3 DEF Opened
        <3>5. QED
            BY <1>3, <2>2, <3>1, <3>4
    <2>3. QED
        BY <2>1, <2>2
<1>15. Reads(h.adapter, i)'
    BY <1>3, <1>4 DEF Reads, Q!has_handshake
<1>16. Q!Meant(client, i)' = Q!Meant(client, i)
    BY <1>3 DEF Q!Meant, Q!operation_for, Q!capabilities, Q!Methods, Q!has_handshake
<1>17. Understood(i)'
    BY <1>3, <1>4, <1>5, <1>9, <1>10, <1>12, <1>13, <1>14, <1>15, <1>16 DEF Understood, Admitted
<1>18. QED
    BY <1>11, <1>17

LEMMA OwnFinish ==
    ASSUME RequestShape, NEW i \in Q!Wanted(client), Intact(q, i), Understood(i), Q!finish
    PROVE  Understood(i)'
<1>1. DOMAIN h = Fields
    BY DEF RequestShape
<1>2. /\ q_stage = "running" /\ h.items = <<>> /\ q_stage' = "answered"
      /\ h'.adapter = h.adapter
      /\ h'.status = (IF h.replies = <<>> THEN 202 ELSE IF q.body.shape = "array" THEN 200 ELSE h.status)
      /\ h'.minted \in {None, h.minted}
      /\ UNCHANGED <<conf, client, session_id, sessions, ran>>
    BY <1>1, FinishStep
<1>3. /\ Reads(h.adapter, i) /\ ran = <<Q!Meant(client, i)>> /\ (h.replies # <<>> => h.status = 200)
      /\ h.minted # None => Opened(h.minted)
    BY <1>2 DEF Understood, Admitted
<1>4. h'.status \in {200, 202}
    BY <1>2, <1>3
<1>5. h'.minted # None => Opened(h.minted)'
    BY <1>2, <1>3 DEF Opened, OwnRecord, Self, Alice, Q!identity, Q!Space, Q!capabilities
<1>6. Reads(h.adapter, i)'
    BY <1>2, <1>3 DEF Reads, Q!has_handshake
<1>7. Q!Meant(client, i)' = Q!Meant(client, i)
    BY <1>2 DEF Q!Meant, Q!operation_for, Q!capabilities, Q!Methods, Q!has_handshake
<1>8. QED
    BY <1>2, <1>3, <1>4, <1>5, <1>6, <1>7 DEF Understood, Admitted

LEMMA OwnKeeps ==
    ASSUME RequestShape, Bound, Owing, OwnIInv, [Q!Next]_(Q!vars)
    PROVE  OwnIInv'
<1>1. /\ DOMAIN h = Fields /\ sessions \in Seq(Elements(sessions)) /\ conf \in Q!Confs
    BY DEF RequestShape
<1>2. UNCHANGED <<conf, client>>
    <2>1. ASSUME UNCHANGED Q!config PROVE UNCHANGED <<conf, client>>
        BY <2>1 DEF Q!config
    <2>2. QED
        BY <2>1 DEF Q!Next, Q!vars, Q!exchange, Q!Admit, Q!Load, Q!Select, Q!Decode, Q!accepts,
                    Q!run, Q!finish, Q!adopt
<1>3. SUFFICES ASSUME Q!Served
               PROVE  /\ q_stage' # "over" /\ session_id' # None => Opened(session_id)'
                      /\ q_stage' \notin {"idle", "over"} /\ q'.intact =>
                            \E i \in Q!Wanted(client)' : Intact(q, i)' /\ Understood(i)'
    BY <1>2 DEF OwnIInv, Q!Served
<1>4. /\ q_stage # "over" /\ session_id # None => Opened(session_id)
      /\ q_stage \notin {"idle", "over"} /\ q.intact =>
            \E i \in Q!Wanted(client) : Intact(q, i) /\ Understood(i)
    BY <1>3 DEF OwnIInv
<1>5. OwnRecord' = OwnRecord
    BY <1>2 DEF OwnRecord, Self, Alice, Q!identity, Q!Space, Q!capabilities
<1>6. ASSUME UNCHANGED session_id
      PROVE  /\ Q!Wanted(client)' = Q!Wanted(client)
             /\ \A i : Intact(q, i)' <=> Intact(q', i)
    BY <1>2, <1>6 DEF Q!Wanted, Q!client_handshake_params, Q!capabilities, Intact, Framed, Q!client_headers,
                      Own, Q!client_decorate_params
\* The session of the client is there after a step as it was before.
<1>7. ASSUME UNCHANGED session_id, q_stage # "over",
             \E record : sessions' \in {sessions, Append(sessions, record)}, session_id' # None
      PROVE  Opened(session_id)'
    <2>1. PICK sid : sid = session_id
        OBVIOUS
    <2>2. Opened(sid)
        BY <1>4, <1>7, <2>1
    <2>4. Opened(sid)'
        <3>1. PICK record : sessions' \in {sessions, Append(sessions, record)}
            BY <1>7
        <3>2. QED
            BY <1>1, <1>2, <2>2, <3>1, OpenedStays
    <2>3. QED
        BY <1>7, <2>1, <2>4 DEF Opened
<1>8. ASSUME UNCHANGED <<session_id, q>>, q_stage \notin {"idle", "over"},
             \E record : sessions' \in {sessions, Append(sessions, record)},
             \A i \in Q!Wanted(client) : Intact(q, i) /\ Understood(i) => Understood(i)'
      PROVE  /\ q_stage' # "over" /\ session_id' # None => Opened(session_id)'
             /\ q_stage' \notin {"idle", "over"} /\ q'.intact =>
                   \E i \in Q!Wanted(client)' : Intact(q, i)' /\ Understood(i)'
    <2>1. ASSUME q.intact PROVE \E i \in Q!Wanted(client)' : Intact(q, i)' /\ Understood(i)'
        <3>1. PICK i \in Q!Wanted(client) : Intact(q, i) /\ Understood(i)
            BY <1>4, <1>8, <2>1
        <3>2. Understood(i)'
            BY <1>8, <3>1
        <3>3. i \in Q!Wanted(client)' /\ Intact(q, i)'
            BY <1>6, <1>8, <3>1
        <3>4. QED
            BY <3>2, <3>3
    <2>2. QED
        BY <1>7, <1>8, <2>1
<1>9. CASE Q!exchange
    <2>1. UNCHANGED <<session_id, sessions>> /\ q_stage = "idle" /\ q_stage' = "received"
        BY <1>9 DEF Q!exchange
    <2>2. ASSUME q'.intact PROVE \E i \in Q!Wanted(client)' : Intact(q, i)' /\ Understood(i)'
        <3>1. PICK i \in Q!Wanted(client) : Intact(q', i)
            BY <1>9, <2>2, OwnExchange
        <3>2. Understood(i)'
            BY <2>1 DEF Understood, Admitted
        <3>3. QED
            BY <1>6, <2>1, <3>1, <3>2
    <2>3. QED
        BY <1>7, <2>1, <2>2
<1>10. CASE Q!Admit \/ Q!Load \/ Q!Select \/ Q!Decode \/ Q!accepts \/ Q!finish
    <2>1. UNCHANGED <<session_id, q, sessions>> /\ q_stage \notin {"idle", "over"}
        BY <1>1, <1>10, AdmitStep, LoadStep, SelectStep, DecodeStep, AcceptStep, FinishStep
    <2>2. session_id # None => Opened(session_id)
        BY <1>4, <2>1
    <2>3. ASSUME NEW i \in Q!Wanted(client), Intact(q, i), Understood(i) PROVE Understood(i)'
        BY <1>3, <1>10, <2>2, <2>3, OwnAdmit, OwnLoad, OwnSelect, OwnDecode, OwnAccept, OwnFinish
    <2>4. QED
        BY <1>8, <2>1, <2>3
<1>11. CASE Q!run
    <2>1. UNCHANGED <<session_id, q>> /\ q_stage \notin {"idle", "over"}
        BY <1>1, <1>11 DEF Q!run
    <2>2. session_id # None => Opened(session_id)
        BY <1>4, <2>1
    <2>3. \E record : sessions' \in {sessions, Append(sessions, record)}
        BY <1>11 DEF Q!run
    <2>4. ASSUME NEW i \in Q!Wanted(client), Intact(q, i), Understood(i) PROVE Understood(i)'
        BY <1>11, <2>2, <2>4, OwnRun
    <2>5. QED
        BY <1>8, <2>1, <2>3, <2>4
<1>12. CASE Q!adopt
    <2>1. /\ q_stage = "answered" /\ UNCHANGED sessions
          /\ session_id' = (IF q.intact /\ h.minted # None THEN h.minted ELSE session_id)
          /\ q_stage' = (IF q.intact THEN "idle" ELSE "over")
        BY <1>12 DEF Q!adopt
    <2>2. ASSUME q_stage' # "over", session_id' # None PROVE Opened(session_id)'
        <3>1. q.intact
            BY <2>1, <2>2
        <3>2. h.minted # None => Opened(h.minted)
            BY <1>4, <2>1, <3>1 DEF Understood
        <3>3. Opened(session_id')
            BY <1>4, <2>1, <2>2, <3>1, <3>2
        <3>4. QED
            BY <1>2, <1>5, <2>1, <3>3 DEF Opened
    <2>3. QED
        BY <2>1, <2>2
<1>13. CASE UNCHANGED Q!vars
    <2>1. UNCHANGED <<session_id, sessions, q, h, ran, q_stage>>
        BY <1>13 DEF Q!vars
    <2>2. ASSUME NEW i, Understood(i) PROVE Understood(i)'
        BY <1>2, <2>1, <2>2 DEF Understood, Opened, OwnRecord, Self, Alice, Q!identity, Q!Space, Q!capabilities, Reads, OwnItem,
                                Q!has_handshake, Q!operation_for, Q!Methods, Q!Meant
    <2>3. CASE q_stage = "idle" \/ q_stage = "over"
        BY <1>7, <2>1, <2>3
    <2>4. CASE q_stage \notin {"idle", "over"}
        BY <1>8, <2>1, <2>2, <2>4
    <2>5. QED
        BY <2>3, <2>4
<1>14. QED
    BY <1>9, <1>10, <1>11, <1>12, <1>13 DEF Q!Next

-----------------------------------------------------------------------------
(* The composition. *)

LEMMA OwnInit == Q!Init => OwnIInv /\ ReadAsModern
    BY DEF Q!Init, OwnIInv, ReadAsModern

LEMMA RequestIInvHolds == Q!Spec => []RequestIInv
<1>1. Q!Init => RequestIInv
    BY RequestInit, OwingInit, OwnInit DEF RequestIInv
<1>2. RequestIInv /\ [Q!Next]_(Q!vars) => RequestIInv'
    <2>1. SUFFICES ASSUME RequestIInv, [Q!Next]_(Q!vars) PROVE RequestIInv'
        OBVIOUS
    <2>2. RequestShape /\ Bound /\ Owing /\ ReadAsModern /\ OwnIInv
        BY <2>1 DEF RequestIInv
    <2>3. RequestShape' /\ Bound'
        BY <2>1, <2>2, ShapeAndBoundKeep
    <2>4. Owing'
        BY <2>1, <2>2, OwingKeeps
    <2>5. ReadAsModern'
        BY <2>1, <2>2, ReadAsModernKeeps
    <2>6. OwnIInv'
        BY <2>1, <2>2, OwnKeeps
    <2>7. QED
        BY <2>3, <2>4, <2>5, <2>6 DEF RequestIInv
<1>3. QED
    BY <1>1, <1>2, PTL DEF Q!Spec

LEMMA RequestIsServed == MCSpec => Q!Spec
<1>1. MCInit => Q!Init
    BY DEF MCInit
<1>2. [MCNext]_<<part, vars, request, asking, registry>> => [Q!Next]_(Q!vars)
    <2>1. ASSUME UNCHANGED request PROVE UNCHANGED Q!vars
        BY <2>1 DEF request, Q!vars, Q!config
    <2>2. QED
        BY <2>1 DEF MCNext
<1>3. QED
    BY <1>1, <1>2, PTL DEF MCSpec, Q!Spec

\* No handler runs in a session for a credential of another identity than the one
\* that opened it, in any of the configurations: load_session finds a record in the
\* space of its owner only, or compares the owner with who sent the request.
THEOREM RequestsOfOwners == MCSpec => []SessionsServeTheirOwner
<1>1. RequestIInv => SessionsServeTheirOwner
    <2>1. ASSUME RequestIInv, h.record # None, conf.policies # <<>>
          PROVE  h.record.owner = Q!identity(q.credential)
        BY <2>1 DEF RequestIInv, Bound
    <2>2. QED
        BY <2>1 DEF SessionsServeTheirOwner, Q!SessionsServeTheirOwner
<1>2. QED
    BY <1>1, RequestIInvHolds, RequestIsServed, PTL

\* Of a request whose messages were run, each message that is not a
\* notification is answered once, under its own id and in order; 202 says that
\* there was nothing to answer, and a legacy client is told 404 of a session
\* that is not there and of nothing else.
THEOREM RequestsAreAnswered == MCSpec => []EachIsAnsweredAsOwed
<1>1. RequestIInv => EachIsAnsweredAsOwed
    <2>1. SUFFICES ASSUME RequestIInv PROVE EachIsAnsweredAsOwed
        OBVIOUS
    <2>2. Owing /\ ReadAsModern
        BY <2>1 DEF RequestIInv
    <2>3. Q!Done /\ client.revision < 5 /\ h.status = 404 => q.session # None /\ h.record = None
        BY <2>2 DEF ReadAsModern, Q!Done
    <2>4. QED
        BY <2>2, <2>3, OwingAnswers DEF EachIsAnsweredAsOwed, Q!EachIsAnsweredAsOwed
<1>2. QED
    BY <1>1, RequestIInvHolds, RequestIsServed, PTL

\* A request that arrives as the client composed it is served, as the operation
\* and with the arguments and the capabilities the client meant, and in the
\* revision of its session: headers, _meta and session record agree whichever of
\* them the endpoint goes by.
THEOREM RequestsAreUnderstood == MCSpec => []OwnRequestsAreUnderstood
<1>1. RequestIInv => OwnRequestsAreUnderstood
    <2>1. SUFFICES ASSUME RequestIInv, q_stage = "answered", q.intact, Q!Served
                   PROVE  /\ h.status \in {200, 202}
                          /\ ran = <<Q!Meant(client, q.body.items[1])>>
                          /\ q.session # None => h.adapter = client.revision
        BY DEF OwnRequestsAreUnderstood, Q!OwnRequestsAreUnderstood, Q!Done
    <2>2. /\ RequestShape /\ OwnIInv
        BY <2>1 DEF RequestIInv
    <2>3. client.revision \in Q!Revision /\ client.on_ask \in BOOLEAN
        BY <2>2 DEF RequestShape
    <2>4. PICK i \in Q!Wanted(client) : Intact(q, i) /\ Understood(i)
        BY <2>1, <2>2 DEF OwnIInv
    <2>5. /\ Reads(h.adapter, i) /\ ran = <<Q!Meant(client, i)>> /\ h.status \in {200, 202}
        BY <2>1, <2>4 DEF Understood
    <2>6. q.body.items[1] = Own(i)
        BY <2>3, <2>4, OwnBody, WantedMessages DEF Intact
    <2>7. Q!Meant(client, Own(i)) = Q!Meant(client, i)
        BY <2>3, WantedMessages DEF Q!Meant
    <2>8. q.session = session_id
        BY <2>4 DEF Intact, Framed
    <2>9. QED
        BY <2>5, <2>6, <2>7, <2>8 DEF Reads
<1>2. QED
    BY <1>1, RequestIInvHolds, RequestIsServed, PTL

-----------------------------------------------------------------------------
(* Listings.  What a revision lists is a finite set of numbers that only   *)
(* grows, and a client that has got as far as a cursor has got all of it   *)
(* that was there when it began, up to the cursor.                         *)

Addressed(spec) == spec.addr \in Nat /\ spec.legacy \in Nat \cup {None}

Templates(s) == s \in Seq(Elements(s)) /\ \A n \in DOMAIN s : Addressed(s[n])

RegistryShape ==
    /\ IsFiniteSet(tools) /\ \A spec \in tools : spec.name \in Nat
    /\ IsFiniteSet(prompts) /\ prompts \subseteq Nat
    /\ IsFiniteSet(fixed) /\ \A spec \in fixed : Addressed(spec)
    /\ Templates(templated)
    /\ page_size \in (Nat \ {0}) \cup {None}

Ascends(s) == \A n, k \in DOMAIN s : n < k => s[n] < s[k]

\* What l has got of those listed.
Got(l, listed) ==
    /\ DOMAIN l = DOMAIN L!NoListing
    /\ l.stage \in {"open", "end"}
    /\ l.got \in Seq(Nat) /\ Ascends(l.got)
    /\ l.wanted \subseteq listed
    /\ l.stage = "open" /\ l.cursor = None => l.got = <<>>
    /\ l.stage = "open" /\ l.cursor # None =>
        /\ l.cursor \in listed
        /\ \A n \in DOMAIN l.got : l.got[n] <= l.cursor
        /\ \A x \in l.wanted : x <= l.cursor => x \in Elements(l.got)
    /\ l.stage = "end" => l.wanted \subseteq Elements(l.got)

Following ==
    listing # L!NoListing =>
        listing.operation \in L!Operations /\ Got(listing, L!entries(listing.v, listing.operation))

PagesIInv == RegistryShape /\ Following

LEMMA OrderOfEntries ==
    \A M : L!InOrder(M) = InOrder(M) /\ L!Cardinality(M) = Cardinality(M)
<1>1. ASSUME NEW M PROVE L!Cardinality(M) = Cardinality(M)
    BY DEF L!Cardinality, Cardinality
<1>2. ASSUME NEW M, NEW i PROVE L!Rank(M, i) = Rank(M, i)
    BY <1>1 DEF L!Rank, Rank
<1>3. ASSUME NEW M, NEW n PROVE L!Nth(M, n) = Nth(M, n)
    BY <1>2 DEF L!Nth, Nth
<1>4. ASSUME NEW M PROVE L!InOrder(M) = InOrder(M)
    BY <1>1, <1>3 DEF L!InOrder, InOrder
<1> QED
    BY <1>1, <1>4

\* The values of a function on a finite set.
LEMMA FiniteValues ==
    ASSUME NEW f, IsFiniteSet(DOMAIN f), f = [x \in DOMAIN f |-> f[x]]
    PROVE  IsFiniteSet({f[x] : x \in DOMAIN f})
<1> DEFINE values == {f[x] : x \in DOMAIN f}
<1>1. f \in Surjection(DOMAIN f, values)
    BY DEF Surjection
<1> QED
    BY <1>1, FS_Surjection

LEMMA ElementsAreFinite ==
    ASSUME NEW s, s \in Seq(Elements(s))
    PROVE  IsFiniteSet(Elements(s)) /\ L!ToSet(s) = Elements(s)
<1>1. DOMAIN s = 1..Len(s) /\ Len(s) \in Nat /\ s = [n \in DOMAIN s |-> s[n]]
    BY LenProperties
<1>2. IsFiniteSet(DOMAIN s)
    <2>1. \A n \in Nat : IsFiniteSet(1..n)
        BY FS_Interval
    <2> QED
        BY <1>1, <2>1
<1> QED
    BY <1>1, <1>2, FiniteValues DEF Elements, L!ToSet

LEMMA EntriesAreNumbers ==
    ASSUME RegistryShape, NEW v, NEW operation \in L!Operations
    PROVE  IsFiniteSet(L!entries(v, operation)) /\ L!entries(v, operation) \in SUBSET Nat
<1>1. ASSUME NEW specs, IsFiniteSet(specs), \A spec \in specs : Addressed(spec)
      PROVE  LET listed == {L!describe_resource(v, spec) : spec \in specs} \ {None} IN
             IsFiniteSet(listed) /\ listed \in SUBSET Nat
    <2> DEFINE f == [spec \in specs |-> L!describe_resource(v, spec)]
    <2>1. IsFiniteSet({f[spec] : spec \in DOMAIN f})
        BY <1>1, FiniteValues
    <2>2. {f[spec] : spec \in DOMAIN f} = {L!describe_resource(v, spec) : spec \in specs}
        OBVIOUS
    <2>3. \A spec \in specs : L!describe_resource(v, spec) \in Nat \cup {None}
        BY <1>1 DEF L!describe_resource, Addressed
    <2> QED
        BY <2>1, <2>2, <2>3, FS_Subset
<1>2. LET listed == {L!describe_tool(v, spec) : spec \in tools} \ {None} IN
      IsFiniteSet(listed) /\ listed \in SUBSET Nat
    <2> DEFINE f == [spec \in tools |-> L!describe_tool(v, spec)]
    <2>1. IsFiniteSet({f[spec] : spec \in DOMAIN f})
        BY FiniteValues DEF RegistryShape
    <2>2. {f[spec] : spec \in DOMAIN f} = {L!describe_tool(v, spec) : spec \in tools}
        OBVIOUS
    <2>3. \A spec \in tools : L!describe_tool(v, spec) \in Nat \cup {None}
        BY DEF L!describe_tool, RegistryShape
    <2> QED
        BY <2>1, <2>2, <2>3, FS_Subset
<1>3. IsFiniteSet(L!ToSet(templated)) /\ \A spec \in L!ToSet(templated) : Addressed(spec)
    <2>1. IsFiniteSet(Elements(templated)) /\ L!ToSet(templated) = Elements(templated)
        BY ElementsAreFinite DEF RegistryShape, Templates
    <2>2. \A spec \in Elements(templated) : Addressed(spec)
        BY DEF RegistryShape, Templates, Elements
    <2> QED
        BY <2>1, <2>2
<1>4. IsFiniteSet(fixed) /\ \A spec \in fixed : Addressed(spec)
    BY DEF RegistryShape
<1>5. CASE operation = "list_tools"
    BY <1>2, <1>5 DEF L!entries
<1>6. CASE operation = "list_resources"
    BY <1>1, <1>4, <1>6 DEF L!entries
<1>7. CASE operation = "list_resource_templates"
    BY <1>1, <1>3, <1>7 DEF L!entries
<1>8. CASE operation = "list_prompts"
    BY <1>8 DEF L!entries, RegistryShape
<1>9. CASE operation = "skills/list"
    BY <1>9, ListingsConstants DEF L!entries
<1> QED
    BY <1>5, <1>6, <1>7, <1>8, <1>9 DEF L!Operations

\* A set of specs in some order.
LEMMA SequenceOfSet ==
    ASSUME NEW S, IsFiniteSet(S)
    PROVE  L!SetToSeq(S) \in Seq(S)
<1>1. PICK n \in Nat : ExistsBijection(1..n, S)
    BY FS_NatBijection
<1>2. n = Cardinality(S)
    BY <1>1, FS_CountingElements
<1>3. \E f \in [1..Cardinality(S) -> S] : \A a, b \in DOMAIN f : f[a] = f[b] => a = b
    BY <1>1, <1>2 DEF ExistsBijection, Bijection, Injection, IsInjective
<1>4. L!SetToSeq(S) \in [1..Cardinality(S) -> S]
    BY <1>3, OrderOfEntries DEF L!SetToSeq, L!IsInjective
<1> QED
    BY <1>2, <1>4

LEMMA OfItsElements ==
    ASSUME NEW M, NEW s \in Seq(M)
    PROVE  s \in Seq(Elements(s)) /\ \A n \in DOMAIN s : s[n] \in M /\ s[n] \in Elements(s)
<1>1. s = [n \in 1..Len(s) |-> s[n]] /\ Len(s) \in Nat /\ DOMAIN s = 1..Len(s)
      /\ \A n \in 1..Len(s) : s[n] \in M
    BY LenProperties, ElementOfSeq
<1>2. \A n \in 1..Len(s) : s[n] \in Elements(s)
    BY <1>1 DEF Elements
<1>3. PICK E : E = Elements(s)
    OBVIOUS
<1>4. s \in Seq(E)
    BY <1>1, <1>2, <1>3
<1> QED
    BY <1>1, <1>2, <1>3, <1>4

\* The templates in t are those of s and the ones put around it.
Surrounded(s, before, after, t) ==
    Templates(t) /\ Elements(t) = Elements(before) \cup Elements(s) \cup Elements(after)

LEMMA TemplatesAround ==
    ASSUME NEW s, Templates(s), NEW before, Templates(before), NEW after, Templates(after),
           NEW t, t = before \o s \o after
    PROVE  Surrounded(s, before, after, t)
<1> DEFINE M == Elements(before) \cup Elements(s) \cup Elements(after)
<1>1. before \in Seq(M) /\ s \in Seq(M) /\ after \in Seq(M)
    BY SeqMonotonic DEF Templates
<1>2. \A x \in M : Addressed(x)
    BY DEF Templates, Elements
<1>3. PICK m : m = M
    OBVIOUS
<1>4. /\ t \in Seq(m) /\ Len(t) = Len(before) + Len(s) + Len(after)
      /\ \A n \in 1..Len(before) : t[n] = before[n]
      /\ \A n \in 1..Len(s) : t[Len(before) + n] = s[n]
      /\ \A n \in 1..Len(after) : t[Len(before) + Len(s) + n] = after[n]
    BY <1>1, <1>3
<1>5. /\ DOMAIN t = 1..Len(t) /\ DOMAIN s = 1..Len(s)
      /\ DOMAIN before = 1..Len(before) /\ DOMAIN after = 1..Len(after)
      /\ Len(before) \in Nat /\ Len(after) \in Nat /\ Len(s) \in Nat
    BY <1>1, <1>4, LenProperties
<1>6. \A n \in DOMAIN t : t[n] \in M
    BY <1>3, <1>4, <1>5, ElementOfSeq
<1>7. t \in Seq(Elements(t))
    BY <1>4, OfItsElements
<1>8. M \subseteq Elements(t)
    <2> SUFFICES ASSUME NEW x \in M PROVE \E n \in DOMAIN t : t[n] = x
        BY DEF Elements
    <2>1. CASE x \in Elements(before)
        <3>1. PICK n \in DOMAIN before : before[n] = x
            BY <2>1 DEF Elements
        <3>2. n \in DOMAIN t /\ t[n] = x
            BY <1>4, <1>5, <3>1
        <3> QED
            BY <3>2
    <2>2. CASE x \in Elements(s)
        <3>1. PICK n \in DOMAIN s : s[n] = x
            BY <2>2 DEF Elements
        <3>2. Len(before) + n \in DOMAIN t /\ t[Len(before) + n] = x
            BY <1>4, <1>5, <3>1
        <3> QED
            BY <3>2
    <2>3. CASE x \in Elements(after)
        <3>1. PICK n \in DOMAIN after : after[n] = x
            BY <2>3 DEF Elements
        <3>2. Len(before) + Len(s) + n \in DOMAIN t /\ t[Len(before) + Len(s) + n] = x
            BY <1>4, <1>5, <3>1
        <3> QED
            BY <3>2
    <2> QED
        BY <2>1, <2>2, <2>3
<1>9. Elements(t) \subseteq M
    BY <1>6 DEF Elements
<1>10. Templates(t)
    BY <1>2, <1>6, <1>7 DEF Templates
<1> QED
    BY <1>8, <1>9, <1>10 DEF Surrounded

\* What is registered is added to what was there, templates behind or around it.
Grown ==
    /\ RegistryShape'
    /\ tools \subseteq tools' /\ prompts \subseteq prompts' /\ fixed \subseteq fixed'
    /\ Elements(templated) \subseteq Elements(templated')

LEMMA NoTemplates == Templates(<<>>) /\ Elements(<<>>) = {}
    BY DEF Templates, Elements

LEMMA SpecsInSequence ==
    ASSUME NEW S, IsFiniteSet(S), \A spec \in S : Addressed(spec), NEW s, s = L!SetToSeq(S)
    PROVE  Templates(s) /\ Elements(s) = S
<1>1. s \in Seq(S)
    BY SequenceOfSet
<1>2. s \in Seq(Elements(s)) /\ \A n \in DOMAIN s : s[n] \in S
    BY <1>1, OfItsElements
<1>3. Elements(s) \in SUBSET S
    BY <1>2 DEF Elements
<1>4. Elements(s) = S
    <2>1. PICK n \in Nat : ExistsBijection(1..n, S)
        BY FS_NatBijection
    <2>2. n = Cardinality(S)
        BY <2>1, FS_CountingElements
    <2>3. \E f \in [1..Cardinality(S) -> S] : \A a, b \in DOMAIN f : f[a] = f[b] => a = b
        BY <2>1, <2>2 DEF ExistsBijection, Bijection, Injection, IsInjective
    <2>4. s \in [1..n -> S] /\ \A a, b \in DOMAIN s : s[a] = s[b] => a = b
        BY <2>2, <2>3, OrderOfEntries DEF L!SetToSeq, L!IsInjective
    <2>5. s \in Injection(1..n, S)
        BY <2>4 DEF Injection, IsInjective
    <2>6. IsFiniteSet(1..n) /\ Cardinality(1..n) = n
        BY FS_Interval
    <2>7. s \in Surjection(1..n, S)
        BY <2>2, <2>5, <2>6, FS_Injection
    <2> QED
        BY <2>4, <2>7 DEF Surjection, Elements
<1> QED
    BY <1>1, <1>2, <1>4 DEF Templates

LEMMA AddTool ==
    ASSUME RegistryShape, page_size' = page_size, NEW spec \in Tools, L!tool(spec)
    PROVE  Grown
<1>1. spec.name \in Nat
    BY ListingsConstants
<1>2. tools' = tools \cup {spec} /\ IsFiniteSet(tools')
    BY FS_AddElement DEF L!tool, RegistryShape
<1> QED
    BY <1>1, <1>2 DEF L!tool, RegistryShape, Grown

LEMMA AddPrompt ==
    ASSUME RegistryShape, page_size' = page_size, NEW name \in Prompts, L!prompt(name)
    PROVE  Grown
<1>1. name \in Nat
    BY ListingsConstants
<1>2. prompts' = prompts \cup {name} /\ IsFiniteSet(prompts')
    BY FS_AddElement DEF L!prompt, RegistryShape
<1> QED
    BY <1>1, <1>2 DEF L!prompt, RegistryShape, Grown

\* Where the specs of a registration go: those that are no template to the
\* resources, methods before the templates and the rest behind them.
Around(specs) ==
    /\ fixed' = fixed \cup {spec \in specs : ~L!HasTemplate(spec)}
    /\ \E before, after :
        /\ Templates(before) /\ Elements(before) = {spec \in specs : L!HasTemplate(spec) /\ spec.legacy_only}
        /\ Templates(after) /\ Elements(after) = {spec \in specs : L!HasTemplate(spec) /\ ~spec.legacy_only}
        /\ templated' = before \o templated \o after

LEMMA ResourceAround ==
    ASSUME RegistryShape, NEW uri \in Resources, L!resource(uri)
    PROVE  Around({L!ResourceSpec(uri, None, FALSE)})
<1>1. PICK x : x = L!ResourceSpec(uri, None, FALSE)
    OBVIOUS
<1>2. Addressed(x) /\ x.addr = uri /\ x.legacy_only = FALSE
    BY <1>1, ListingsConstants DEF Addressed, L!ResourceSpec
<1>3. PICK s, t : s = templated /\ t = templated'
    OBVIOUS
<1>4. Templates(<<x>>) /\ Elements(<<x>>) = {x}
    <2>1. PICK list : list = <<x>>
        OBVIOUS
    <2>2. list \in Seq({x}) /\ DOMAIN list = {1} /\ list[1] = x
        BY <2>1
    <2>3. list \in Seq(Elements(list)) /\ Elements(list) = {x}
        BY <2>2, OfItsElements DEF Elements
    <2>4. Templates(list)
        BY <1>2, <2>2, <2>3 DEF Templates
    <2> QED
        BY <2>1, <2>3, <2>4
<1>5. s \in Seq(Elements(s))
    BY <1>3 DEF RegistryShape, Templates
<1>6. CASE uri \notin DOMAIN Matches
    <2>1. fixed' = fixed \cup {x} /\ t = s /\ ~L!HasTemplate(x)
        BY <1>1, <1>2, <1>3, <1>6 DEF L!resource, L!HasTemplate
    <2>2. t = <<>> \o s \o <<>>
        BY <1>5, <2>1
    <2>3. {y \in {x} : ~L!HasTemplate(y)} = {x} /\ {y \in {x} : L!HasTemplate(y) /\ y.legacy_only} = {}
          /\ {y \in {x} : L!HasTemplate(y) /\ ~y.legacy_only} = {}
        BY <2>1
    <2>4. Around({x})
        BY <1>3, <2>1, <2>2, <2>3, NoTemplates DEF Around
    <2> QED
        BY <1>1, <2>4
<1>7. CASE uri \in DOMAIN Matches
    <2>1. fixed' = fixed /\ t = Append(s, x) /\ L!HasTemplate(x)
        BY <1>1, <1>2, <1>3, <1>7 DEF L!resource, L!HasTemplate
    <2>2. t = <<>> \o s \o <<x>>
        <3>1. s \in Seq(Elements(s) \cup {x})
            BY <1>5, SeqMonotonic
        <3> QED
            BY <2>1, <3>1
    <2>3. {y \in {x} : ~L!HasTemplate(y)} = {} /\ {y \in {x} : L!HasTemplate(y) /\ y.legacy_only} = {}
          /\ {y \in {x} : L!HasTemplate(y) /\ ~y.legacy_only} = {x}
        BY <1>2, <2>1
    <2>4. Around({x})
        BY <1>3, <1>4, <2>1, <2>2, <2>3, NoTemplates DEF Around
    <2> QED
        BY <1>1, <2>4
<1> QED
    BY <1>6, <1>7

LEMMA BundledSpecs ==
    ASSUME NEW e \in Extensions
    PROVE  IsFiniteSet(L!bundled(e)) /\ \A spec \in L!bundled(e) : Addressed(spec)
<1>1. IsFiniteSet(e.methods) /\ IsFiniteSet(e.resources)
    BY ListingsConstants
<1>2. \A spec \in L!bundled(e) : Addressed(spec)
    BY ListingsConstants DEF L!bundled, L!method_resources, L!manifest_resource, L!ResourceSpec, Addressed
<1> DEFINE bare == {m \in e.methods : ~m.required}
           f == [m \in e.methods |-> L!ResourceSpec(m.template, None, TRUE)]
           g == [m \in bare |-> L!ResourceSpec(m.uri, None, TRUE)]
<1>3. IsFiniteSet({f[m] : m \in DOMAIN f})
    BY <1>1, FiniteValues
<1>4. IsFiniteSet(bare)
    BY <1>1, FS_Subset
<1>5. IsFiniteSet({g[m] : m \in DOMAIN g})
    BY <1>4, FiniteValues
<1>6. L!method_resources(e) = {f[m] : m \in DOMAIN f} \cup {g[m] : m \in DOMAIN g}
    BY DEF L!method_resources
<1>7. IsFiniteSet(L!method_resources(e))
    <2>1. PICK some, rest : some = {f[m] : m \in DOMAIN f} /\ rest = {g[m] : m \in DOMAIN g}
        OBVIOUS
    <2>2. L!method_resources(e) = some \cup rest
        BY <1>6, <2>1
    <2>3. IsFiniteSet(some) /\ IsFiniteSet(rest)
        BY <1>3, <1>5, <2>1
    <2>4. IsFiniteSet(some \cup rest)
        BY <2>3, FS_Union
    <2> QED
        BY <2>2, <2>4
<1>8. IsFiniteSet(e.resources \cup L!method_resources(e))
    BY <1>1, <1>7, FS_Union
<1>9. IsFiniteSet(L!bundled(e))
    BY <1>8, FS_AddElement DEF L!bundled
<1> QED
    BY <1>2, <1>9

LEMMA ExtensionAround ==
    ASSUME NEW e \in Extensions, L!extension(e)
    PROVE  Around(L!bundled(e))
<1>1. PICK two : two = {spec \in L!bundled(e) : L!HasTemplate(spec) /\ spec.legacy_only}
    OBVIOUS
<1>2. PICK three : three = {spec \in L!bundled(e) : L!HasTemplate(spec) /\ ~spec.legacy_only}
    OBVIOUS
<1>3. PICK before, after : before = L!SetToSeq(two) /\ after = L!SetToSeq(three)
    OBVIOUS
<1>4. two \in SUBSET L!bundled(e) /\ three \in SUBSET L!bundled(e)
    BY <1>1, <1>2
<1>5. /\ IsFiniteSet(two) /\ IsFiniteSet(three)
      /\ \A spec \in two : Addressed(spec)
      /\ \A spec \in three : Addressed(spec)
    BY <1>4, BundledSpecs, FS_Subset
<1>6. Templates(before) /\ Elements(before) = two
    BY <1>3, <1>5, SpecsInSequence
<1>7. Templates(after) /\ Elements(after) = three
    BY <1>3, <1>5, SpecsInSequence
<1>8. /\ fixed' = fixed \cup {spec \in L!bundled(e) : ~L!HasTemplate(spec)}
      /\ templated' = before \o templated \o after
    BY <1>1, <1>2, <1>3 DEF L!extension
<1> QED
    BY <1>1, <1>2, <1>6, <1>7, <1>8 DEF Around

LEMMA AroundGrows ==
    ASSUME RegistryShape, page_size' = page_size, tools' = tools, prompts' = prompts,
           NEW specs, IsFiniteSet(specs), \A spec \in specs : Addressed(spec), Around(specs)
    PROVE  Grown
<1>1. PICK before, after : /\ Templates(before) /\ Templates(after)
                           /\ templated' = before \o templated \o after
    BY DEF Around
<1>2. PICK s, t : s = templated /\ t = templated'
    OBVIOUS
<1>3. Templates(s) /\ Templates(before) /\ Templates(after) /\ t = before \o s \o after
    BY <1>1, <1>2 DEF RegistryShape
<1>4. Templates(t) /\ Elements(s) \subseteq Elements(t)
    <2>1. Surrounded(s, before, after, t)
        BY <1>3, TemplatesAround
    <2> QED
        BY <2>1 DEF Surrounded
<1>5. PICK one : one = {spec \in specs : ~L!HasTemplate(spec)}
    OBVIOUS
<1>6. IsFiniteSet(one) /\ \A spec \in one : Addressed(spec)
    BY <1>5, FS_Subset
<1>7. fixed' = fixed \cup one
    BY <1>5 DEF Around
<1>8. IsFiniteSet(fixed') /\ \A spec \in fixed' : Addressed(spec)
    BY <1>6, <1>7, FS_Union DEF RegistryShape
<1> QED
    BY <1>2, <1>4, <1>7, <1>8 DEF RegistryShape, Grown

LEMMA AddResource ==
    ASSUME RegistryShape, page_size' = page_size, NEW uri \in Resources, L!resource(uri)
    PROVE  Grown
<1>1. PICK spec : spec = L!ResourceSpec(uri, None, FALSE)
    OBVIOUS
<1>2. Addressed(spec) /\ IsFiniteSet({spec})
    BY <1>1, ListingsConstants, FS_Singleton DEF Addressed, L!ResourceSpec
<1>3. Around({spec})
    BY <1>1, ResourceAround
<1>4. tools' = tools /\ prompts' = prompts
    BY DEF L!resource
<1> QED
    BY <1>2, <1>3, <1>4, AroundGrows

LEMMA AddExtension ==
    ASSUME RegistryShape, page_size' = page_size, NEW e \in Extensions, L!extension(e)
    PROVE  Grown
<1>1. tools' = tools /\ prompts' = prompts
    BY DEF L!extension
<1> QED
    BY <1>1, BundledSpecs, ExtensionAround, AroundGrows

LEMMA EntriesStay ==
    ASSUME RegistryShape, L!Register
    PROVE  /\ Grown
           /\ \A v : \A operation \in L!Operations : L!entries(v, operation) \subseteq L!entries(v, operation)'
<1>1. page_size' = page_size
    BY DEF L!Register
<1>2. Grown
    BY <1>1, AddTool, AddPrompt, AddResource, AddExtension DEF L!Register
<1>3. L!ToSet(templated) = Elements(templated) /\ L!ToSet(templated)' = Elements(templated')
    BY DEF L!ToSet, Elements
<1>4. ASSUME NEW v, NEW operation \in L!Operations, NEW x \in L!entries(v, operation)
      PROVE  x \in L!entries(v, operation)'
    <2>1. CASE operation = "list_tools"
        BY <1>2, <1>4, <2>1 DEF L!entries, Grown, L!describe_tool
    <2>2. CASE operation = "list_resources"
        BY <1>2, <1>4, <2>2 DEF L!entries, Grown, L!describe_resource
    <2>3. CASE operation = "list_resource_templates"
        BY <1>2, <1>3, <1>4, <2>3 DEF L!entries, Grown, L!describe_resource
    <2>4. CASE operation = "list_prompts"
        BY <1>2, <1>4, <2>4 DEF L!entries, Grown
    <2>5. CASE operation = "skills/list"
        BY <1>4, <2>5 DEF L!entries
    <2> QED
        BY <2>1, <2>2, <2>3, <2>4, <2>5 DEF L!Operations
<1> QED
    BY <1>2, <1>4

\* A page is what comes next, in order, and its cursor the last of it.
LEMMA PageIs ==
    ASSUME RegistryShape, NEW listed \in SUBSET Nat, IsFiniteSet(listed), NEW cursor \in Nat \cup {None},
           NEW page, page = L!paged(listed, cursor)
    PROVE  /\ page.shown \in Seq(Nat) /\ Ascends(page.shown)
           /\ cursor # None => \A n \in DOMAIN page.shown : cursor < page.shown[n]
           /\ page.next_cursor = None =>
                \A x \in listed : cursor = None \/ x > cursor => x \in Elements(page.shown)
           /\ page.next_cursor # None =>
                /\ page.next_cursor \in listed
                /\ cursor # None => cursor < page.next_cursor
                /\ \A n \in DOMAIN page.shown : page.shown[n] <= page.next_cursor
                /\ \A x \in listed : (cursor = None \/ x > cursor) /\ x <= page.next_cursor =>
                      x \in Elements(page.shown)
<1>0. None \notin Nat
    BY RequestsConstants
<1> DEFINE M == {x \in listed : L!After(x, cursor)}
<1>1. M \in SUBSET Nat /\ IsFiniteSet(M) /\ M \subseteq listed
    BY FS_Subset
<1>2. \A x \in listed : x \in M <=> cursor = None \/ x > cursor
    BY DEF L!After
<1>3. PICK rest, size : rest = InOrder(M) /\ size = Cardinality(M)
    OBVIOUS
<1>4. /\ page.shown = IF page_size = None \/ Len(rest) <= page_size THEN rest ELSE SubSeq(rest, 1, page_size)
      /\ page.next_cursor = IF page_size = None \/ Len(rest) <= page_size THEN None ELSE rest[page_size]
    BY <1>3, OrderOfEntries DEF L!paged
<1> HIDE DEF M
<1>5. /\ size \in Nat /\ rest \in Seq(M) /\ Len(rest) = size
      /\ \A x \in M : Rank(M, x) \in 1..size /\ rest[Rank(M, x)] = x
    BY <1>1, <1>3, ListedInOrder, RankIsOwn
<1>6. \A n, k \in 1..size : n < k => rest[n] < rest[k]
    BY <1>1, <1>3, OrderAscends
<1>7. DOMAIN rest = 1..size /\ \A n \in 1..size : rest[n] \in M /\ rest[n] \in Nat
    BY <1>1, <1>5, LenProperties, ElementOfSeq
<1>8. rest \in Seq(Nat)
    BY <1>1, <1>5, SeqMonotonic
<1>9. CASE page_size = None \/ Len(rest) <= page_size
    <2>1. page.shown = rest /\ page.next_cursor = None
        BY <1>4, <1>9
    <2>2. \A x \in M : x \in Elements(rest)
        BY <1>5, <1>7 DEF Elements
    <2>3. cursor # None => \A n \in DOMAIN rest : cursor < rest[n]
        BY <1>1, <1>2, <1>7
    <2> QED
        BY <1>2, <1>6, <1>7, <1>8, <2>1, <2>2, <2>3 DEF Ascends
<1>10. CASE ~(page_size = None \/ Len(rest) <= page_size)
    <2>1. page_size \in 1..size
        BY <1>5, <1>10 DEF RegistryShape
    <2>2. page.shown = SubSeq(rest, 1, page_size) /\ page.next_cursor = rest[page_size]
        BY <1>4, <1>10
    <2>3. PICK last, shown : last \in 1..size /\ last = page_size /\ shown = SubSeq(rest, 1, last)
        BY <2>1
    <2>4. shown \in Seq(Nat) /\ DOMAIN shown = 1..last /\ \A n \in 1..last : shown[n] = rest[n]
        BY <1>5, <1>7, <1>8, <2>3
    <2>5. \A n \in 1..last : n \in 1..size /\ n \in Nat /\ (n = last \/ n < last)
        BY <1>5, <2>3
    <2>6. \A n \in 1..last : shown[n] <= rest[last]
        BY <1>6, <1>7, <2>3, <2>4, <2>5
    <2>7. cursor # None => \A n \in 1..last : cursor < shown[n]
        BY <1>1, <1>2, <1>7, <2>4, <2>5
    <2>8. rest[last] \in M /\ (cursor # None => cursor < rest[last]) /\ rest[last] \in Nat
        BY <1>1, <1>2, <1>7, <2>3
    <2>9. ASSUME NEW x \in M, x <= rest[last] PROVE x \in Elements(shown)
        <3>1. PICK k \in 1..size : rest[k] = x
            BY <1>5
        <3>2. k <= last
            BY <1>5, <1>6, <1>7, <2>3, <2>9, <3>1
        <3>3. k \in DOMAIN shown /\ shown[k] = x
            BY <2>4, <3>1, <3>2
        <3> QED
            BY <3>3 DEF Elements
    <2>10. Ascends(shown)
        BY <1>6, <2>4, <2>5 DEF Ascends
    <2>11. page.shown = shown /\ page.next_cursor = rest[last]
        BY <2>2, <2>3
    <2> QED
        BY <1>0, <1>1, <1>2, <2>4, <2>6, <2>7, <2>8, <2>9, <2>10, <2>11
<1> QED
    BY <1>9, <1>10

LEMMA PagesInit == L!Init => PagesIInv
<1> SUFFICES ASSUME L!Init PROVE PagesIInv
    OBVIOUS
<1>1. IsFiniteSet({})
    BY FS_EmptySet
<1>2. page_size \in (Nat \ {0}) \cup {None}
    BY ListingsConstants DEF L!Init
<1> QED
    BY <1>1, <1>2, NoTemplates DEF L!Init, PagesIInv, RegistryShape, Following

LEMMA PagesRegister == ASSUME PagesIInv, L!Register PROVE PagesIInv'
<1>1. RegistryShape /\ Following /\ listing' = listing
    BY DEF PagesIInv, L!Register
<1>2. RegistryShape'
    BY <1>1, EntriesStay DEF Grown
<1>3. ASSUME listing # L!NoListing PROVE Following'
    <2>1. PICK v, operation : v = listing.v /\ operation = listing.operation
        OBVIOUS
    <2>2. operation \in L!Operations /\ Got(listing, L!entries(v, operation))
        BY <1>1, <1>3, <2>1 DEF Following
    <2>3. L!entries(v, operation) \subseteq L!entries(v, operation)'
        BY <1>1, <2>2, EntriesStay
    <2>4. Got(listing, L!entries(v, operation)')
        BY <2>2, <2>3 DEF Got
    <2>5. listing'.v = v /\ listing'.operation = operation
        BY <1>1, <2>1
    <2>6. Got(listing', L!entries(v, operation)')
        BY <1>1, <2>4
    <2> QED
        BY <2>2, <2>5, <2>6 DEF Following
<1>4. listing = L!NoListing => Following'
    BY <1>1 DEF Following, L!NoListing
<1> QED
    BY <1>2, <1>3, <1>4 DEF PagesIInv

LEMMA PagesBegin ==
    ASSUME PagesIInv, NEW v \in L!Revision, NEW operation \in L!Operations, L!pages(v, operation)
    PROVE  PagesIInv'
<1>1. RegistryShape'
    BY DEF PagesIInv, RegistryShape, L!pages, L!registered
<1>2. L!entries(v, operation)' = L!entries(v, operation)
    BY DEF L!pages, L!registered, L!entries, L!describe_tool, L!describe_resource
<1>3. /\ DOMAIN listing' = DOMAIN L!NoListing
      /\ listing'.v = v /\ listing'.operation = operation /\ listing'.stage = "open"
      /\ listing'.got = <<>> /\ listing'.cursor = None /\ listing'.wanted = L!entries(v, operation)
    BY DEF L!pages, L!NoListing
<1>4. Following'
    <2>1. Got(listing', L!entries(v, operation))
        BY <1>3 DEF Got, Ascends
    <2>2. Got(listing', L!entries(v, operation)')
        BY <1>2, <2>1
    <2> QED
        BY <1>3, <2>2 DEF Following
<1> QED
    BY <1>1, <1>4 DEF PagesIInv

LEMMA PagesPage == ASSUME PagesIInv, L!Page PROVE PagesIInv'
<1>1. RegistryShape /\ listing.stage = "open"
    BY DEF PagesIInv, L!Page
<1>2. RegistryShape'
    BY <1>1 DEF RegistryShape, L!Page, L!registered
<1>3. listing # L!NoListing
    BY <1>1 DEF L!NoListing
<1>4. PICK l, v, operation, listed :
        l = listing /\ v = listing.v /\ operation = listing.operation /\ listed = L!entries(v, operation)
    OBVIOUS
<1>5. operation \in L!Operations /\ Got(l, listed)
    BY <1>3, <1>4 DEF PagesIInv, Following
<1>6. IsFiniteSet(listed) /\ listed \in SUBSET Nat
    BY <1>1, <1>4, <1>5, EntriesAreNumbers
<1>7. L!entries(v, operation)' = listed
    BY <1>4 DEF L!Page, L!registered, L!entries, L!describe_tool, L!describe_resource
<1>8. l.cursor \in Nat \cup {None} /\ (l.cursor # None => l.cursor \in listed)
    BY <1>1, <1>4, <1>5, <1>6 DEF Got
<1>9. PICK page : page = L!paged(listed, l.cursor)
    OBVIOUS
<1>10. listing' = [l EXCEPT !.got = l.got \o page.shown, !.cursor = page.next_cursor,
                           !.stage = IF page.next_cursor = None THEN "end" ELSE "open"]
    BY <1>4, <1>8, <1>9 DEF L!Page
<1>11. PICK got, shown, next : got = l.got /\ shown = page.shown /\ next = page.next_cursor
    OBVIOUS
<1>12. /\ shown \in Seq(Nat) /\ Ascends(shown)
       /\ l.cursor # None => \A n \in DOMAIN shown : l.cursor < shown[n]
       /\ next = None => \A x \in listed : l.cursor = None \/ x > l.cursor => x \in Elements(shown)
       /\ next # None =>
            /\ next \in listed
            /\ l.cursor # None => l.cursor < next
            /\ \A n \in DOMAIN shown : shown[n] <= next
            /\ \A x \in listed : (l.cursor = None \/ x > l.cursor) /\ x <= next => x \in Elements(shown)
    BY <1>1, <1>6, <1>8, <1>9, <1>11, PageIs
<1>13. /\ got \in Seq(Nat) /\ Ascends(got) /\ l.wanted \subseteq listed
       /\ l.cursor = None => got = <<>>
       /\ l.cursor # None => \A n \in DOMAIN got : got[n] <= l.cursor
       /\ l.cursor # None => \A x \in l.wanted : x <= l.cursor => x \in Elements(got)
    BY <1>1, <1>4, <1>5, <1>11 DEF Got
<1>14. PICK more : more = got \o shown
    OBVIOUS
<1>15. /\ more \in Seq(Nat) /\ DOMAIN more = 1..Len(more) /\ Len(more) = Len(got) + Len(shown)
       /\ DOMAIN got = 1..Len(got) /\ DOMAIN shown = 1..Len(shown) /\ Len(got) \in Nat /\ Len(shown) \in Nat
       /\ \A n \in 1..Len(got) : more[n] = got[n]
       /\ \A n \in 1..Len(shown) : more[Len(got) + n] = shown[n]
    BY <1>12, <1>13, <1>14
<1>16. \A n \in DOMAIN more : n \in DOMAIN got \/ (n - Len(got) \in DOMAIN shown /\ n = Len(got) + (n - Len(got)))
    BY <1>15
<1>17. Elements(got) \cup Elements(shown) \subseteq Elements(more)
    <2>1. ASSUME NEW n \in DOMAIN got PROVE got[n] \in Elements(more)
        <3>1. n \in DOMAIN more /\ more[n] = got[n]
            BY <1>15
        <3> QED
            BY <3>1 DEF Elements
    <2>2. ASSUME NEW n \in DOMAIN shown PROVE shown[n] \in Elements(more)
        <3>1. Len(got) + n \in DOMAIN more /\ more[Len(got) + n] = shown[n]
            BY <1>15
        <3> QED
            BY <3>1 DEF Elements
    <2> QED
        BY <2>1, <2>2 DEF Elements
<1>18. \A n \in DOMAIN got : \A k \in DOMAIN shown : got[n] < shown[k]
    <2>1. \A n \in DOMAIN got : got[n] \in Nat
        BY <1>13, <1>15, ElementOfSeq
    <2>2. \A n \in DOMAIN shown : shown[n] \in Nat
        BY <1>12, <1>15, ElementOfSeq
    <2>3. l.cursor = None => DOMAIN got = {}
        BY <1>13
    <2> QED
        BY <1>8, <1>12, <1>13, <2>1, <2>2, <2>3
<1>19. Ascends(more)
    <2> SUFFICES ASSUME NEW n \in DOMAIN more, NEW k \in DOMAIN more, n < k PROVE more[n] < more[k]
        BY DEF Ascends
    <2>1. CASE k \in DOMAIN got
        <3>1. n \in DOMAIN got
            BY <1>15, <2>1
        <3> QED
            BY <1>13, <1>15, <2>1, <3>1 DEF Ascends
    <2>2. CASE k \notin DOMAIN got /\ n \in DOMAIN got
        BY <1>15, <1>16, <1>18, <2>2
    <2>3. CASE k \notin DOMAIN got /\ n \notin DOMAIN got
        <3>1. PICK i, j : i = n - Len(got) /\ j = k - Len(got)
            OBVIOUS
        <3>2. i \in DOMAIN shown /\ j \in DOMAIN shown /\ i < j /\ more[n] = shown[i] /\ more[k] = shown[j]
            BY <1>15, <1>16, <2>3, <3>1
        <3> QED
            BY <1>12, <3>2 DEF Ascends
    <2> QED
        BY <2>1, <2>2, <2>3
<1>20. /\ DOMAIN listing' = DOMAIN L!NoListing
       /\ listing'.got = more /\ listing'.cursor = next /\ listing'.wanted = l.wanted
       /\ listing'.v = v /\ listing'.operation = operation
       /\ listing'.stage = IF next = None THEN "end" ELSE "open"
    <2>1. DOMAIN l = DOMAIN L!NoListing
        BY <1>5 DEF Got
    <2> QED
        BY <1>4, <1>10, <1>11, <1>14, <2>1 DEF L!NoListing
<1>21. \A x \in l.wanted : next = None \/ x <= next => x \in Elements(more)
    <2> SUFFICES ASSUME NEW x \in l.wanted, next = None \/ x <= next PROVE x \in Elements(more)
        OBVIOUS
    <2>1. x \in listed /\ x \in Nat
        BY <1>6, <1>13
    <2>2. CASE l.cursor # None /\ x <= l.cursor
        BY <1>13, <1>17, <2>2
    <2>3. CASE l.cursor = None \/ x > l.cursor
        BY <1>12, <1>17, <2>1, <2>3
    <2> QED
        BY <1>8, <2>1, <2>2, <2>3
<1>22. next # None => \A n \in DOMAIN more : more[n] <= next
    <2> SUFFICES ASSUME next # None, NEW n \in DOMAIN more PROVE more[n] <= next
        OBVIOUS
    <2>1. CASE n \in DOMAIN got
        <3>1. l.cursor # None
            BY <1>13, <2>1
        <3>2. got[n] <= l.cursor /\ l.cursor < next /\ got[n] \in Nat /\ l.cursor \in Nat /\ next \in Nat
            BY <1>6, <1>8, <1>12, <1>13, <1>15, <2>1, <3>1, ElementOfSeq
        <3> QED
            BY <1>15, <2>1, <3>2
    <2>2. CASE n \notin DOMAIN got
        BY <1>12, <1>15, <1>16, <2>2
    <2> QED
        BY <2>1, <2>2
<1>23. Got(listing', listed)
    BY <1>12, <1>13, <1>15, <1>19, <1>20, <1>21, <1>22 DEF Got
<1>24. Following'
    BY <1>5, <1>7, <1>20, <1>23 DEF Following
<1> QED
    BY <1>2, <1>24 DEF PagesIInv

LEMMA PagesRest == ASSUME PagesIInv, UNCHANGED L!vars PROVE PagesIInv'
<1>1. L!entries(listing.v, listing.operation)' = L!entries(listing.v, listing.operation)
    BY DEF L!vars, L!registered, L!entries, L!describe_tool, L!describe_resource
<1> QED
    BY <1>1 DEF PagesIInv, RegistryShape, Following, L!vars, L!registered

LEMMA PagesStep == PagesIInv /\ [L!Next]_(L!vars) => PagesIInv'
    BY PagesRegister, PagesBegin, PagesPage, PagesRest DEF L!Next

\* A client that follows the cursors while more is registered gets in order,
\* once, all that was listed when it began, and is never refused a cursor.
THEOREM PagesComplete == MCSpec => []PagesAreComplete
<1>1. MCInit => L!Init
    BY DEF MCInit
<1>2. [MCNext]_<<part, vars, request, asking, registry>> => [L!Next]_(L!vars)
    BY DEF MCNext, registry, L!vars, L!registered
<1>3. PagesIInv => PagesAreComplete
    <2> SUFFICES ASSUME PagesIInv PROVE L!PagesAreComplete
        BY DEF PagesAreComplete
    <2>1. PICK l : l = listing
        OBVIOUS
    <2>2. CASE listing = L!NoListing
        <3>1. listing.stage = "none" /\ listing.got = <<>>
            BY <2>2 DEF L!NoListing
        <3> QED
            BY <3>1 DEF L!PagesAreComplete
    <2>3. CASE listing # L!NoListing
        <3>1. /\ l.stage \in {"open", "end"} /\ l.got \in Seq(Nat) /\ Ascends(l.got)
              /\ l.stage = "end" => l.wanted \subseteq Elements(l.got)
            BY <2>1, <2>3 DEF PagesIInv, Following, Got
        <3>2. DOMAIN l.got = 1..Len(l.got) /\ Len(l.got) \in Nat
            BY <3>1, LenProperties
        <3>3. \A n \in 2..Len(l.got) : l.got[n - 1] < l.got[n]
            <4> SUFFICES ASSUME NEW n \in 2..Len(l.got), NEW k, k = n - 1 PROVE l.got[k] < l.got[n]
                OBVIOUS
            <4>1. k \in DOMAIN l.got /\ n \in DOMAIN l.got /\ k < n
                BY <3>2
            <4> QED
                BY <3>1, <4>1 DEF Ascends
        <3> QED
            BY <2>1, <3>1, <3>3 DEF L!PagesAreComplete, L!ToSet, Elements
    <2> QED
        BY <2>2, <2>3
<1> QED
    BY <1>1, <1>2, <1>3, PagesInit, PagesStep, PTL DEF MCSpec

(* What is registered keeps its addresses apart, methods come before the   *)
(* other templates, and every method of an extension has its route.        *)

Kept == fixed \cup Elements(templated)

ApartIn(specs) == \A one, other \in specs : one # other => L!Addresses(one) \cap L!Addresses(other) = {}

MethodsFirst(s) == \A n, k \in DOMAIN s : n < k /\ s[k].legacy_only => s[n].legacy_only

Apart ==
    /\ Kept \subseteq L!Specs /\ ApartIn(Kept)
    /\ \A spec \in fixed : ~L!HasTemplate(spec)
    /\ \A spec \in Elements(templated) : L!HasTemplate(spec)
    /\ MethodsFirst(templated)

Routed ==
    /\ extensions \subseteq Extensions
    /\ \A e \in extensions : \A m \in e.methods :
        /\ L!ResourceSpec(m.template, None, TRUE) \in Elements(templated)
        /\ \A other \in extensions : other # e => m.name \notin {x.name : x \in other.methods}
    /\ \A e, other \in extensions : e # other => e.name # other.name

ServedIInv == RegistryShape /\ Apart /\ Routed

LEMMA SpecsShape ==
    ASSUME NEW spec \in L!Specs
    PROVE  /\ spec # None /\ Addressed(spec)
           /\ spec.addr # None /\ spec.addr \in L!Addresses(spec)
           /\ spec.legacy # None => spec.legacy \in L!Addresses(spec)
           /\ \A address \in L!Addresses(spec) :
                /\ address \in {spec.addr, spec.legacy} /\ address # None
                /\ address \in DOMAIN Matches <=> L!HasTemplate(spec)
           /\ spec.legacy_only \in BOOLEAN /\ (spec.legacy_only => spec.legacy = None)
<1>1. spec # None
    BY ListingsConstants
<1>2. None \notin Nat
    BY RequestsConstants
<1>3. CASE spec \in {L!ResourceSpec(uri, None, FALSE) : uri \in Resources}
    <2>1. PICK uri \in Resources : spec = L!ResourceSpec(uri, None, FALSE)
        BY <1>3
    <2>2. uri \in Nat
        BY ListingsConstants
    <2> QED
        BY <1>1, <1>2, <2>1, <2>2 DEF L!ResourceSpec, Addressed, L!Addresses, L!HasTemplate
<1>4. ASSUME NEW e \in Extensions, spec \in L!bundled(e)
      PROVE  /\ Addressed(spec)
             /\ spec.legacy \in {None} \/ (spec.addr \in DOMAIN Matches <=> spec.legacy \in DOMAIN Matches)
             /\ spec.legacy_only \in BOOLEAN /\ (spec.legacy_only => spec.legacy = None)
    <2>1. Addressed(spec)
        BY <1>4, BundledSpecs
    <2>2. CASE spec \in e.resources
        <3>1. /\ spec.legacy_only = FALSE
              /\ spec.addr \in DOMAIN Matches <=> spec.legacy \in DOMAIN Matches
            BY <2>2, ListingsConstants
        <3> QED
            BY <2>1, <3>1
    <2>3. CASE spec \in L!method_resources(e) \cup {L!manifest_resource(e)}
        <3>1. PICK address : spec = L!ResourceSpec(address, None, TRUE)
            BY <2>3 DEF L!method_resources, L!manifest_resource
        <3>2. spec.legacy = None /\ spec.legacy_only = TRUE
            BY <3>1 DEF L!ResourceSpec
        <3> QED
            BY <2>1, <3>2
    <2> QED
        BY <1>4, <2>2, <2>3 DEF L!bundled
<1>5. ASSUME NEW e \in Extensions, spec \in L!bundled(e)
      PROVE  /\ spec.addr # None /\ spec.addr \in L!Addresses(spec)
             /\ spec.legacy # None => spec.legacy \in L!Addresses(spec)
             /\ \A address \in L!Addresses(spec) :
                  /\ address \in {spec.addr, spec.legacy} /\ address # None
                  /\ address \in DOMAIN Matches <=> L!HasTemplate(spec)
    BY <1>2, <1>4, <1>5 DEF Addressed, L!Addresses, L!HasTemplate
<1> QED
    BY <1>1, <1>3, <1>4, <1>5 DEF L!Specs

LEMMA ServedInit == L!Init => ServedIInv
<1> SUFFICES ASSUME L!Init PROVE ServedIInv
    OBVIOUS
<1>1. RegistryShape
    BY PagesInit DEF PagesIInv
<1>2. fixed = {} /\ templated = <<>> /\ extensions = {}
    BY DEF L!Init
<1>3. Apart
    BY <1>2, NoTemplates DEF Apart, Kept, ApartIn, MethodsFirst
<1> QED
    BY <1>1, <1>2, <1>3 DEF ServedIInv, Routed

\* What a registration puts around the templates keeps the methods first.
LEMMA AroundKeepsOrder ==
    ASSUME NEW s, Templates(s), MethodsFirst(s), NEW before, Templates(before), NEW after, Templates(after),
           \A spec \in Elements(before) : spec.legacy_only,
           \A spec \in Elements(after) : ~spec.legacy_only,
           NEW t, t = before \o s \o after
    PROVE  MethodsFirst(t)
<1> DEFINE M == Elements(before) \cup Elements(s) \cup Elements(after)
<1>1. PICK m : m = M
    OBVIOUS
<1>2. before \in Seq(m) /\ s \in Seq(m) /\ after \in Seq(m)
    BY <1>1, SeqMonotonic DEF Templates
<1>3. /\ t \in Seq(m) /\ Len(t) = Len(before) + Len(s) + Len(after)
      /\ \A n \in 1..Len(before) : t[n] = before[n]
      /\ \A n \in 1..Len(s) : t[Len(before) + n] = s[n]
      /\ \A n \in 1..Len(after) : t[Len(before) + Len(s) + n] = after[n]
    BY <1>2
<1>4. /\ DOMAIN t = 1..Len(t) /\ DOMAIN s = 1..Len(s)
      /\ DOMAIN before = 1..Len(before) /\ DOMAIN after = 1..Len(after)
      /\ Len(before) \in Nat /\ Len(after) \in Nat /\ Len(s) \in Nat
    BY <1>2, <1>3, LenProperties
<1>5. ASSUME NEW n \in DOMAIN t, NEW k \in DOMAIN t, n < k, t[k].legacy_only PROVE t[n].legacy_only
    <2>1. n \in Nat /\ k \in Nat /\ 1 <= n /\ k <= Len(before) + Len(s) + Len(after)
        BY <1>3, <1>4
    <2>2. CASE n <= Len(before)
        <3>1. n \in DOMAIN before /\ t[n] = before[n]
            BY <1>3, <1>4, <2>1, <2>2
        <3> QED
            BY <3>1 DEF Elements
    <2>3. CASE n > Len(before) /\ k <= Len(before) + Len(s)
        <3>1. PICK i, j : i = n - Len(before) /\ j = k - Len(before)
            OBVIOUS
        <3>2. i \in 1..Len(s) /\ j \in 1..Len(s) /\ i < j /\ n = Len(before) + i /\ k = Len(before) + j
            BY <1>4, <1>5, <2>1, <2>3, <3>1
        <3>3. t[n] = s[i] /\ t[k] = s[j]
            BY <1>3, <3>2
        <3> QED
            BY <1>4, <1>5, <3>2, <3>3 DEF MethodsFirst
    <2>4. CASE k > Len(before) + Len(s)
        <3>1. PICK j : j = k - Len(before) - Len(s)
            OBVIOUS
        <3>2. j \in 1..Len(after) /\ k = Len(before) + Len(s) + j
            BY <1>4, <2>1, <2>4, <3>1
        <3>3. t[k] = after[j] /\ j \in DOMAIN after
            BY <1>3, <1>4, <3>2
        <3>4. after[j] \in Elements(after)
            BY <3>3 DEF Elements
        <3> QED
            BY <1>5, <3>3, <3>4
    <2> QED
        BY <1>4, <2>1, <2>2, <2>3, <2>4
<1> QED
    BY <1>5 DEF MethodsFirst

\* A registration whose addresses nobody has keeps all of them apart.
LEMMA AroundStaysApart ==
    ASSUME RegistryShape, Apart, NEW specs \in SUBSET L!Specs, Around(specs), ApartIn(specs),
           \A spec \in specs : \A one \in Kept : L!Addresses(spec) \cap L!Addresses(one) = {}
    PROVE  Apart' /\ specs \subseteq Kept' /\ Elements(templated) \subseteq Elements(templated')
           /\ \A spec \in specs : L!HasTemplate(spec) => spec \in Elements(templated')
<1>1. PICK before, after :
        /\ Templates(before) /\ Elements(before) = {spec \in specs : L!HasTemplate(spec) /\ spec.legacy_only}
        /\ Templates(after) /\ Elements(after) = {spec \in specs : L!HasTemplate(spec) /\ ~spec.legacy_only}
        /\ templated' = before \o templated \o after
    BY DEF Around
<1>2. PICK s, t : s = templated /\ t = templated'
    OBVIOUS
<1>3. Templates(s) /\ Templates(before) /\ Templates(after) /\ t = before \o s \o after
    BY <1>1, <1>2 DEF RegistryShape
<1>4. Surrounded(s, before, after, t)
    BY <1>3, TemplatesAround
<1>5. MethodsFirst(t)
    <2>1. MethodsFirst(s)
        BY <1>2 DEF Apart
    <2>2. \A spec \in Elements(before) : spec.legacy_only
        BY <1>1
    <2>3. \A spec \in Elements(after) : ~spec.legacy_only
        BY <1>1
    <2> QED
        BY <1>3, <2>1, <2>2, <2>3, AroundKeepsOrder
<1>6. PICK routes : routes = {spec \in specs : L!HasTemplate(spec)}
    OBVIOUS
<1>7. Elements(t) = Elements(s) \cup routes
    <2>1. Elements(t) = Elements(before) \cup Elements(s) \cup Elements(after)
        BY <1>4 DEF Surrounded
    <2>2. Elements(before) \cup Elements(after) = routes
        BY <1>1, <1>6
    <2> QED
        BY <2>1, <2>2
<1>8. PICK bare : bare = {spec \in specs : ~L!HasTemplate(spec)}
    OBVIOUS
<1>9. fixed' = fixed \cup bare
    BY <1>8 DEF Around
<1>10. Kept' = Kept \cup specs
    <2>1. routes \cup bare = specs
        BY <1>6, <1>8
    <2> QED
        BY <1>2, <1>7, <1>9, <2>1 DEF Kept
<1>11. ApartIn(Kept \cup specs)
    <2>1. ApartIn(Kept)
        BY DEF Apart
    <2>2. ASSUME NEW one \in Kept \cup specs, NEW other \in Kept \cup specs, one # other
          PROVE  L!Addresses(one) \cap L!Addresses(other) = {}
        <3>1. CASE one \in Kept /\ other \in Kept
            BY <2>1, <2>2, <3>1 DEF ApartIn
        <3>2. CASE one \in specs /\ other \in specs
            BY <2>2, <3>2 DEF ApartIn
        <3>3. CASE one \in specs /\ other \in Kept
            BY <3>3
        <3>4. CASE one \in Kept /\ other \in specs
            <4>1. L!Addresses(other) \cap L!Addresses(one) = {}
                BY <3>4
            <4> QED
                BY <4>1
        <3> QED
            BY <3>1, <3>2, <3>3, <3>4
    <2> QED
        BY <2>2 DEF ApartIn
<1>12. Kept' \subseteq L!Specs
    BY <1>10 DEF Apart
<1>13. \A spec \in fixed' : ~L!HasTemplate(spec)
    BY <1>8, <1>9 DEF Apart
<1>14. \A spec \in Elements(t) : L!HasTemplate(spec)
    BY <1>2, <1>6, <1>7 DEF Apart
<1>15. Apart'
    <2>1. MethodsFirst(templated)' /\ \A spec \in Elements(templated)' : L!HasTemplate(spec)
        BY <1>2, <1>5, <1>14 DEF MethodsFirst, Elements
    <2>2. ApartIn(Kept)'
        BY <1>10, <1>11 DEF ApartIn
    <2>3. L!Specs' = L!Specs /\ \A spec : L!HasTemplate(spec)' = L!HasTemplate(spec)
        BY DEF L!Specs, L!HasTemplate, L!bundled, L!method_resources, L!manifest_resource
    <2> QED
        BY <1>12, <1>13, <2>1, <2>2, <2>3 DEF Apart
<1> QED
    BY <1>2, <1>6, <1>7, <1>10, <1>15

LEMMA ResourceStaysApart ==
    ASSUME ServedIInv, NEW uri \in Resources, L!resource(uri)
    PROVE  Apart' /\ Routed'
<1>1. RegistryShape /\ Apart /\ Routed
    BY DEF ServedIInv
<1>2. PICK x : x = L!ResourceSpec(uri, None, FALSE)
    OBVIOUS
<1>3. {x} \in SUBSET L!Specs
    BY <1>2 DEF L!Specs
<1>4. Around({x})
    BY <1>1, <1>2, ResourceAround
<1>5. x.addr = uri /\ x.legacy = None /\ L!Addresses(x) \subseteq {uri}
    BY <1>2 DEF L!ResourceSpec, L!Addresses
<1>6. ASSUME NEW one \in Kept PROVE uri \notin L!Addresses(one)
    <2>1. one \in L!Specs
        BY <1>1 DEF Apart
    <2>2. \A address \in L!Addresses(one) :
                /\ address \in {one.addr, one.legacy} /\ address # None
                /\ address \in DOMAIN Matches <=> L!HasTemplate(one)
        BY <2>1, SpecsShape
    <2>3. CASE uri \notin DOMAIN Matches
        <3>1. uri \notin L!FixedAddresses \cup L!AliasAddresses
            BY <2>3 DEF L!resource
        <3>2. CASE one \in fixed
            BY <2>2, <3>1, <3>2 DEF L!FixedAddresses, L!AliasAddresses, L!resource_aliases
        <3>3. CASE one \in Elements(templated)
            BY <1>1, <2>2, <2>3, <3>3 DEF Apart
        <3> QED
            BY <3>2, <3>3 DEF Kept
    <2>4. CASE uri \in DOMAIN Matches
        <3>1. uri \notin L!TemplateAddresses
            BY <2>4 DEF L!resource
        <3>2. CASE one \in fixed
            BY <1>1, <2>2, <2>4, <3>2 DEF Apart
        <3>3. CASE one \in Elements(templated)
            <4>1. PICK n \in DOMAIN templated : one = templated[n]
                BY <3>3 DEF Elements
            <4> QED
                BY <2>2, <3>1, <4>1 DEF L!TemplateAddresses
        <3> QED
            BY <3>2, <3>3 DEF Kept
    <2> QED
        BY <2>3, <2>4
<1>7. \A spec \in {x} : \A one \in Kept : L!Addresses(spec) \cap L!Addresses(one) = {}
    BY <1>5, <1>6
<1>8. ApartIn({x})
    BY DEF ApartIn
<1>9. Apart' /\ Elements(templated) \subseteq Elements(templated')
    BY <1>1, <1>3, <1>4, <1>7, <1>8, AroundStaysApart
<1>10. extensions' = extensions
    BY DEF L!resource
<1>11. Routed'
    <2>1. \A e \in extensions : \A m \in e.methods :
            L!ResourceSpec(m.template, None, TRUE) \in Elements(templated)'
        BY <1>1, <1>9 DEF Routed, Elements
    <2> QED
        BY <1>1, <1>10, <2>1 DEF Routed, L!ResourceSpec
<1> QED
    BY <1>9, <1>11

LEMMA ExtensionStaysApart ==
    ASSUME ServedIInv, NEW e \in Extensions, L!extension(e)
    PROVE  Apart' /\ Routed'
<1>1. RegistryShape /\ Apart /\ Routed
    BY DEF ServedIInv
<1>2. L!bundled(e) \in SUBSET L!Specs
    BY DEF L!Specs
<1>3. Around(L!bundled(e))
    BY ExtensionAround
<1>4. L!Unclaimed(e)
    BY DEF L!extension
<1>5. ApartIn(L!bundled(e))
    BY <1>4 DEF L!Unclaimed, ApartIn
<1>6. ASSUME NEW spec \in L!bundled(e), NEW one \in Kept
      PROVE  L!Addresses(spec) \cap L!Addresses(one) = {}
    <2>1. L!Addresses(spec) \cap (L!FixedAddresses \cup L!AliasAddresses \cup L!TemplateAddresses) = {}
        BY <1>4 DEF L!Unclaimed
    <2>2. one \in L!Specs
        BY <1>1 DEF Apart
    <2>3. \A address \in L!Addresses(one) : address \in {one.addr, one.legacy} /\ address # None
        BY <2>2, SpecsShape
    <2>4. L!Addresses(one) \subseteq L!FixedAddresses \cup L!AliasAddresses \cup L!TemplateAddresses
        <3>1. CASE one \in fixed
            BY <2>3, <3>1 DEF L!FixedAddresses, L!AliasAddresses, L!resource_aliases
        <3>2. CASE one \in Elements(templated)
            <4>1. PICK n \in DOMAIN templated : one = templated[n]
                BY <3>2 DEF Elements
            <4> QED
                BY <2>3, <4>1 DEF L!TemplateAddresses
        <3> QED
            BY <3>1, <3>2 DEF Kept
    <2> QED
        BY <2>1, <2>4
<1>7. /\ Apart' /\ Elements(templated) \subseteq Elements(templated')
      /\ \A spec \in L!bundled(e) : L!HasTemplate(spec) => spec \in Elements(templated')
    BY <1>1, <1>2, <1>3, <1>5, <1>6, AroundStaysApart
<1>8. /\ extensions' = extensions \cup {e}
      /\ \A other \in extensions : other.name # e.name
      /\ \A m \in e.methods : \A other \in extensions : m.name \notin {x.name : x \in other.methods}
    BY DEF L!extension
<1>9. ASSUME NEW m \in e.methods PROVE L!ResourceSpec(m.template, None, TRUE) \in Elements(templated')
    <2>1. L!ResourceSpec(m.template, None, TRUE) \in L!bundled(e)
        BY DEF L!bundled, L!method_resources
    <2>2. m.template \in DOMAIN Matches
        BY ListingsConstants
    <2>3. L!HasTemplate(L!ResourceSpec(m.template, None, TRUE))
        BY <2>2 DEF L!HasTemplate, L!ResourceSpec
    <2> QED
        BY <1>7, <2>1, <2>3
<1>10. \A x \in extensions \cup {e} : \A m \in x.methods : L!ResourceSpec(m.template, None, TRUE) \in Elements(templated')
    BY <1>1, <1>7, <1>9 DEF Routed
<1>11. \A x, other \in extensions \cup {e} : x # other =>
            x.name # other.name /\ \A m \in x.methods : m.name \notin {y.name : y \in other.methods}
    <2>1. ASSUME NEW x \in extensions, NEW m \in x.methods PROVE m.name \notin {y.name : y \in e.methods}
        BY <1>8
    <2>2. \A x, other \in extensions : x # other =>
            x.name # other.name /\ \A m \in x.methods : m.name \notin {y.name : y \in other.methods}
        BY <1>1 DEF Routed
    <2> QED
        BY <1>8, <2>1, <2>2
<1>12. extensions' \subseteq Extensions
    BY <1>1, <1>8 DEF Routed
<1>13. Routed'
    <2>1. \A x \in extensions' : \A m \in x.methods : L!ResourceSpec(m.template, None, TRUE) \in Elements(templated)'
        BY <1>8, <1>10 DEF Elements
    <2> QED
        BY <1>8, <1>11, <1>12, <2>1 DEF Routed, L!ResourceSpec
<1> QED
    BY <1>7, <1>13

LEMMA ServedStep == ServedIInv /\ [L!Next]_(L!vars) => ServedIInv'
<1> SUFFICES ASSUME ServedIInv, [L!Next]_(L!vars) PROVE ServedIInv'
    OBVIOUS
<1>1. RegistryShape /\ Apart /\ Routed
    BY DEF ServedIInv
<1>2. ASSUME UNCHANGED L!registered, page_size' = page_size PROVE ServedIInv'
    <2>1. RegistryShape'
        BY <1>1, <1>2 DEF RegistryShape, L!registered
    <2>2. Apart'
        BY <1>1, <1>2 DEF Apart, Kept, L!registered
    <2>3. Routed'
        BY <1>1, <1>2 DEF Routed, L!registered
    <2> QED
        BY <2>1, <2>2, <2>3 DEF ServedIInv
<1>3. CASE L!Register
    <2>1. RegistryShape'
        BY <1>1, <1>3, EntriesStay DEF Grown
    <2>2. ASSUME fixed' = fixed, templated' = templated, extensions' = extensions PROVE Apart' /\ Routed'
        <3>1. Apart'
            BY <1>1, <2>2 DEF Apart, Kept
        <3>2. Routed'
            BY <1>1, <2>2 DEF Routed
        <3> QED
            BY <3>1, <3>2
    <2>3. ASSUME NEW spec \in Tools, L!tool(spec) PROVE Apart' /\ Routed'
        BY <2>2, <2>3 DEF L!tool
    <2>4. ASSUME NEW name \in Prompts, L!prompt(name) PROVE Apart' /\ Routed'
        BY <2>2, <2>4 DEF L!prompt
    <2>5. Apart' /\ Routed'
        BY <1>3, <2>3, <2>4, ResourceStaysApart, ExtensionStaysApart DEF L!Register
    <2> QED
        BY <2>1, <2>5 DEF ServedIInv
<1>4. CASE L!Page
    BY <1>2, <1>4 DEF L!Page
<1>5. CASE \E v \in L!Revision, operation \in L!Operations : L!pages(v, operation)
    BY <1>2, <1>5 DEF L!pages
<1>6. CASE UNCHANGED L!vars
    BY <1>2, <1>6 DEF L!vars
<1> QED
    BY <1>3, <1>4, <1>5, <1>6 DEF L!Next

(* What is read. *)

LEMMA FitsAreTaken ==
    ASSUME NEW spec \in L!Specs, L!HasTemplate(spec), NEW uri
    PROVE  L!Fits(spec, uri) <=> uri \in L!Takes(spec)
<1>1. /\ spec.addr \in L!Addresses(spec)
      /\ spec.legacy # None => spec.legacy \in L!Addresses(spec)
      /\ \A address \in L!Addresses(spec) : address \in {spec.addr, spec.legacy} /\ address # None
    BY SpecsShape
<1> QED
    BY <1>1 DEF L!Fits, L!Takes

\* A resource is found under both of its addresses.
LEMMA FixedIsMatched ==
    ASSUME ServedIInv, NEW spec \in fixed, NEW uri \in L!Addresses(spec)
    PROVE  L!match_resource(uri) = spec
<1>1. Apart
    BY DEF ServedIInv
<1>2. \A one \in fixed : one \in L!Specs /\ one \in Kept
    BY <1>1 DEF Apart, Kept
<1>3. \A one \in fixed :
        /\ one.addr \in L!Addresses(one) /\ (one.legacy # None => one.legacy \in L!Addresses(one))
        /\ \A address \in L!Addresses(one) : address \in {one.addr, one.legacy} /\ address # None
    BY <1>2, SpecsShape
<1> DEFINE holders == {one \in fixed : one.addr = uri} \cup {one \in L!resource_aliases : one.legacy = uri}
<1>4. holders = {spec}
    <2>1. spec \in holders
        BY <1>3 DEF L!resource_aliases
    <2>2. ASSUME NEW one \in holders PROVE one = spec
        <3>1. one \in fixed /\ uri \in L!Addresses(one)
            BY <1>3 DEF L!resource_aliases
        <3> QED
            BY <1>1, <1>2, <3>1 DEF Apart, ApartIn
    <2> QED
        BY <2>1, <2>2
<1>5. holders # {} /\ (CHOOSE one \in holders : TRUE) = spec
    BY <1>4
<1> QED
    BY <1>5 DEF L!match_resource

\* Nothing fixed has that address: what is found is the first template that fits.
Free(uri) == \A spec \in fixed : uri \notin L!Addresses(spec)

LEMMA TemplateIsMatched ==
    ASSUME ServedIInv, NEW uri, Free(uri), NEW n \in DOMAIN templated, uri \in L!Takes(templated[n])
    PROVE  \E k \in DOMAIN templated :
               k <= n /\ uri \in L!Takes(templated[k]) /\ L!match_resource(uri) = templated[k]
<1>1. Apart /\ RegistryShape
    BY DEF ServedIInv
<1>2. PICK s : s = templated
    OBVIOUS
<1>3. s \in Seq(Elements(s)) /\ DOMAIN s = 1..Len(s) /\ Len(s) \in Nat
    BY <1>1, <1>2, LenProperties DEF RegistryShape, Templates
<1>4. \A k \in DOMAIN s : s[k] \in Elements(s) /\ s[k] \in L!Specs /\ L!HasTemplate(s[k])
    BY <1>1, <1>2 DEF Apart, Kept, Elements
<1>5. PICK fitting : fitting = {k \in DOMAIN s : L!Fits(s[k], uri)}
    OBVIOUS
<1>6. fitting = {k \in DOMAIN s : uri \in L!Takes(s[k])}
    BY <1>4, <1>5, FitsAreTaken
<1>7. n \in fitting /\ fitting \in SUBSET Nat
    BY <1>2, <1>3, <1>6
<1>8. PICK least \in fitting : \A other \in fitting : least <= other
    BY <1>7, SmallestMember
<1>9. \A x, y \in fitting : x <= y /\ y <= x => x = y
    BY <1>7
<1>10. (CHOOSE k \in fitting : \A other \in fitting : k <= other) = least
    BY <1>8, <1>9
<1>11. \A spec \in fixed : spec.addr # uri /\ (spec.legacy # None => spec.legacy # uri)
    <2>1. \A spec \in fixed : spec \in L!Specs
        BY <1>1 DEF Apart, Kept
    <2>2. \A spec \in fixed :
            spec.addr \in L!Addresses(spec) /\ (spec.legacy # None => spec.legacy \in L!Addresses(spec))
        BY <2>1, SpecsShape
    <2> QED
        BY <2>2 DEF Free
<1>12. {spec \in fixed : spec.addr = uri} \cup {spec \in L!resource_aliases : spec.legacy = uri} = {}
    BY <1>11 DEF L!resource_aliases
<1>13. fitting # {} /\ fitting = {k \in DOMAIN templated : L!Fits(templated[k], uri)}
    BY <1>2, <1>5, <1>7
<1>14. L!match_resource(uri) = templated[CHOOSE k \in fitting : \A other \in fitting : k <= other]
    BY <1>12, <1>13 DEF L!match_resource
<1> QED
    BY <1>2, <1>6, <1>7, <1>8, <1>10, <1>14

LEMMA MatchedIsKept ==
    ASSUME ServedIInv, NEW uri, L!match_resource(uri) # None
    PROVE  \/ L!match_resource(uri) \in fixed /\ uri \in L!Addresses(L!match_resource(uri))
           \/ L!match_resource(uri) \in Elements(templated) /\ uri \in L!Takes(L!match_resource(uri))
<1>1. CASE \E spec \in fixed : uri \in L!Addresses(spec)
    BY <1>1, FixedIsMatched
<1>2. CASE Free(uri)
    <2>1. CASE \E n \in DOMAIN templated : uri \in L!Takes(templated[n])
        BY <1>2, <2>1, TemplateIsMatched DEF Elements
    <2>2. CASE \A n \in DOMAIN templated : uri \notin L!Takes(templated[n])
        <3>1. Apart
            BY DEF ServedIInv
        <3>2. \A n \in DOMAIN templated : templated[n] \in L!Specs /\ L!HasTemplate(templated[n])
            BY <3>1 DEF Apart, Kept, Elements
        <3>3. {n \in DOMAIN templated : L!Fits(templated[n], uri)} = {}
            BY <2>2, <3>2, FitsAreTaken
        <3>4. \A spec \in fixed : spec.addr # uri /\ (spec.legacy # None => spec.legacy # uri)
            <4>1. \A spec \in fixed : spec \in L!Specs
                BY <3>1 DEF Apart, Kept
            <4>2. \A spec \in fixed :
                    spec.addr \in L!Addresses(spec) /\ (spec.legacy # None => spec.legacy \in L!Addresses(spec))
                BY <4>1, SpecsShape
            <4> QED
                BY <1>2, <4>2 DEF Free
        <3>5. {spec \in fixed : spec.addr = uri} \cup {spec \in L!resource_aliases : spec.legacy = uri} = {}
            BY <3>4 DEF L!resource_aliases
        <3> QED
            BY <3>3, <3>5 DEF L!match_resource
    <2> QED
        BY <2>1, <2>2
<1> QED
    BY <1>1, <1>2 DEF Free

LEMMA FixedIsRead ==
    ASSUME ServedIInv, NEW v, NEW spec \in fixed, L!describe_resource(v, spec) # None
    PROVE  /\ L!read_resource(v, L!describe_resource(v, spec)) = spec
           /\ spec # None
<1>1. spec \in L!Specs /\ ~L!HasTemplate(spec)
    BY DEF ServedIInv, Apart, Kept
<1>2. PICK uri : uri = L!describe_resource(v, spec)
    OBVIOUS
<1>3. /\ spec # None /\ spec.addr \in L!Addresses(spec)
      /\ spec.legacy # None => spec.legacy \in L!Addresses(spec)
    BY <1>1, SpecsShape
<1>4. uri \in L!Addresses(spec)
    BY <1>2, <1>3 DEF L!describe_resource
<1>5. L!match_resource(uri) = spec
    BY <1>4, FixedIsMatched
<1> QED
    BY <1>1, <1>2, <1>3, <1>5 DEF L!read_resource

\* On every revision a listed resource is read by its own handler, what is
\* listed is announced, and a method called by its name reaches its extension.
OwnHandlers ==
    \A v \in L!Revision :
        /\ \A spec \in fixed :
              L!describe_resource(v, spec) # None => L!read_resource(v, L!describe_resource(v, spec)) = spec
        /\ L!entries(v, "list_resources") \cup L!entries(v, "list_resource_templates") # {}
              => "resources" \in L!capabilities(v)
        /\ L!supports_extensions(v) =>
              \A e \in extensions : \A m \in e.methods : L!call_extension(v, m.name) = {e.name}

LEMMA ServedReachesOwn == ServedIInv => OwnHandlers
<1> SUFFICES ASSUME ServedIInv, NEW v \in L!Revision
    PROVE  /\ \A spec \in fixed :
              L!describe_resource(v, spec) # None => L!read_resource(v, L!describe_resource(v, spec)) = spec
           /\ L!entries(v, "list_resources") \cup L!entries(v, "list_resource_templates") # {}
                 => "resources" \in L!capabilities(v)
           /\ L!supports_extensions(v) =>
                 \A e \in extensions : \A m \in e.methods : L!call_extension(v, m.name) = {e.name}
    BY DEF OwnHandlers
<1>1. \A spec \in fixed :
        L!describe_resource(v, spec) # None => L!read_resource(v, L!describe_resource(v, spec)) = spec
    BY FixedIsRead
<1>2. ASSUME L!entries(v, "list_resources") \cup L!entries(v, "list_resource_templates") # {}
      PROVE  "resources" \in L!capabilities(v)
    <2>1. \E spec \in fixed \cup L!ToSet(templated) : L!describe_resource(v, spec) # None
        BY <1>2 DEF L!entries
    <2> QED
        BY <2>1 DEF L!capabilities
<1>3. ASSUME L!supports_extensions(v), NEW e \in extensions, NEW m \in e.methods
      PROVE  L!call_extension(v, m.name) = {e.name}
    <2>1. Routed
        BY DEF ServedIInv
    <2>2. {x \in extensions : m.name \in {y.name : y \in x.methods}} = {e}
        BY <2>1 DEF Routed
    <2>3. PICK found : found = {x \in extensions : m.name \in {y.name : y \in x.methods}}
        OBVIOUS
    <2>4. L!call_extension(v, m.name) = {x.name : x \in found}
        BY <1>3, <2>3 DEF L!call_extension
    <2> QED
        BY <2>2, <2>3, <2>4
<1> QED
    BY <1>1, <1>2, <1>3

LEMMA RegistryIsServed == MCSpec => []ServedIInv
<1>1. MCInit => L!Init
    BY DEF MCInit
<1>2. [MCNext]_<<part, vars, request, asking, registry>> => [L!Next]_(L!vars)
    BY DEF MCNext, registry, L!vars, L!registered
<1> QED
    BY <1>1, <1>2, ServedInit, ServedStep, PTL DEF MCSpec

\* Whatever an application and its extensions register, their resources answer
\* for themselves and a method of an extension reaches that extension.
THEOREM RegisteredIsReached == MCSpec => []OwnHandlers
    BY RegistryIsServed, ServedReachesOwn, PTL

(* Templates that an application and its extensions keep apart. *)

LEMMA KeptAreBeside ==
    ASSUME ServedIInv, NEW spec \in Kept, NEW other \in Kept, other # spec
    PROVE  other \in L!Beside(spec)
<1>1. Kept \subseteq L!Specs /\ ApartIn(Kept)
    BY DEF ServedIInv, Apart
<1> QED
    BY <1>1 DEF ApartIn, L!Beside

LEMMA RivalsAreRoutes ==
    ASSUME L!TemplatesApart, ServedIInv,
           NEW spec \in Elements(templated), NEW other \in Kept, other # spec,
           NEW uri, uri \in L!Takes(spec), uri \in L!Takes(other)
    PROVE  L!Precedes(spec, other) \/ L!Precedes(other, spec)
<1>1. spec \in Kept /\ spec \in L!Specs /\ L!HasTemplate(spec)
    BY DEF ServedIInv, Apart, Kept
<1>2. other \in L!Beside(spec)
    BY <1>1, KeptAreBeside
<1>3. L!Takes(spec) \cap L!Takes(other) # {}
    OBVIOUS
<1> QED
    BY <1>1, <1>2, <1>3 DEF L!TemplatesApart

LEMMA TemplatesAreFree ==
    ASSUME L!TemplatesApart, ServedIInv, NEW spec \in Elements(templated), NEW uri \in L!Takes(spec)
    PROVE  Free(uri)
<1> SUFFICES ASSUME NEW other \in fixed, uri \in L!Addresses(other) PROVE FALSE
    BY DEF Free
<1>1. Apart
    BY DEF ServedIInv
<1>2. ~L!HasTemplate(other) /\ L!HasTemplate(spec) /\ other \in Kept
    BY <1>1 DEF Apart, Kept
<1>3. uri \in L!Takes(other)
    BY <1>2 DEF L!Takes
<1>4. L!Precedes(spec, other) \/ L!Precedes(other, spec)
    BY <1>2, <1>3, RivalsAreRoutes
<1> QED
    BY <1>2, <1>4 DEF L!Precedes

\* The template that is found for a URI is that one, or a method's route.
LEMMA RouteOrItself ==
    ASSUME L!TemplatesApart, ServedIInv, NEW spec \in Elements(templated), NEW uri \in L!Takes(spec)
    PROVE  /\ L!match_resource(uri) \in Elements(templated) /\ uri \in L!Takes(L!match_resource(uri))
           /\ L!match_resource(uri) # spec => L!Precedes(L!match_resource(uri), spec)
<1>1. Free(uri)
    BY TemplatesAreFree
<1>2. PICK s : s = templated
    OBVIOUS
<1>3. PICK n \in DOMAIN s : spec = s[n]
    BY <1>2 DEF Elements
<1>4. PICK k \in DOMAIN s : k <= n /\ uri \in L!Takes(s[k]) /\ L!match_resource(uri) = s[k]
    BY <1>1, <1>2, <1>3, TemplateIsMatched
<1>5. s[k] \in Elements(templated)
    BY <1>2 DEF Elements
<1>6. ASSUME s[k] # spec PROVE L!Precedes(s[k], spec)
    <2>1. L!Precedes(spec, s[k]) \/ L!Precedes(s[k], spec)
        BY <1>4, <1>5, <1>6, RivalsAreRoutes DEF Kept
    <2>2. ~L!Precedes(spec, s[k])
        <3>1. k < n
            <4>1. k \in Nat /\ n \in Nat
                <5>1. s \in Seq(Elements(s))
                    BY <1>2 DEF ServedIInv, RegistryShape, Templates
                <5>2. DOMAIN s = 1..Len(s) /\ Len(s) \in Nat
                    BY <5>1, LenProperties
                <5> QED
                    BY <5>2
            <4>2. k # n
                BY <1>3, <1>6
            <4> QED
                BY <1>4, <4>1, <4>2
        <3>2. MethodsFirst(s)
            BY <1>2 DEF ServedIInv, Apart
        <3>3. s[n].legacy_only => s[k].legacy_only
            BY <3>1, <3>2 DEF MethodsFirst
        <3> QED
            BY <1>3, <3>3 DEF L!Precedes
    <2> QED
        BY <2>1, <2>2
<1> QED
    BY <1>4, <1>5, <1>6

\* Where a template is shown it is read, by its own handler or by a method's.
LEMMA ShownTemplateIsRead ==
    ASSUME L!TemplatesApart, ServedIInv, NEW v \in L!Revision, NEW spec \in Elements(templated),
           L!describe_resource(v, spec) # None, NEW uri \in Matches[L!describe_resource(v, spec)]
    PROVE  /\ uri \in L!Takes(spec) /\ L!read_resource(v, uri) # None
           /\ L!match_resource(uri) = spec => L!read_resource(v, uri) = spec
<1>1. spec \in L!Specs /\ L!HasTemplate(spec)
    BY DEF ServedIInv, Apart, Kept
<1>2. /\ spec # None /\ spec.addr \in L!Addresses(spec)
      /\ spec.legacy # None => spec.legacy \in L!Addresses(spec)
    BY <1>1, SpecsShape
<1>3. PICK shown : shown = L!describe_resource(v, spec)
    OBVIOUS
<1>4. shown \in L!Addresses(spec) /\ uri \in Matches[shown]
    BY <1>2, <1>3 DEF L!describe_resource
<1>5. uri \in L!Takes(spec)
    BY <1>1, <1>4 DEF L!Takes
<1>6. ASSUME L!match_resource(uri) = spec PROVE L!read_resource(v, uri) = spec
    BY <1>1, <1>2, <1>3, <1>4, <1>6 DEF L!read_resource
<1>7. ASSUME NEW route, route = L!match_resource(uri), route # spec PROVE L!read_resource(v, uri) # None
    <2>1. route \in Elements(templated) /\ L!Precedes(route, spec)
        BY <1>5, <1>7, RouteOrItself
    <2>2. route \in L!Specs
        BY <2>1 DEF ServedIInv, Apart, Kept
    <2>3. /\ route # None /\ route.addr # None /\ route.legacy_only /\ route.legacy = None /\ L!HasTemplate(route)
        BY <2>1, <2>2, SpecsShape DEF L!Precedes
    <2>4. uri \notin Matches[spec.addr]
        <3>1. uri \in L!Takes(route)
            BY <1>5, <1>7, RouteOrItself
        <3> QED
            BY <2>1, <3>1 DEF L!Precedes
    <2>5. ~L!supports_extensions(v)
        BY <1>3, <1>4, <2>4 DEF L!describe_resource
    <2>6. L!describe_resource(v, route) = route.addr
        BY <2>3, <2>5 DEF L!describe_resource
    <2>7. L!read_resource(v, uri) = route
        BY <1>7, <2>3, <2>6 DEF L!read_resource
    <2> QED
        BY <2>3, <2>7
<1> QED
    BY <1>2, <1>5, <1>6, <1>7

LEMMA ReadIsListed ==
    ASSUME L!TemplatesApart, ServedIInv, NEW v \in L!Revision, NEW uri
    PROVE  L!read_resource(v, uri) # None <=>
               uri \in L!entries(v, "list_resources")
                   \cup UNION {Matches[t] : t \in L!entries(v, "list_resource_templates")}
<1>1. L!ToSet(templated) = Elements(templated)
    BY DEF L!ToSet, Elements
<1>2. ASSUME L!read_resource(v, uri) # None
      PROVE  uri \in L!entries(v, "list_resources")
                   \cup UNION {Matches[t] : t \in L!entries(v, "list_resource_templates")}
    <2>1. PICK spec : spec = L!match_resource(uri)
        OBVIOUS
    <2>2. PICK shown : shown = L!describe_resource(v, spec)
        OBVIOUS
    <2>3. /\ spec # None /\ shown # None /\ (~L!HasTemplate(spec) => shown = uri)
          /\ L!HasTemplate(spec) /\ spec.legacy # None => uri \in Matches[shown]
        BY <1>2, <2>1, <2>2 DEF L!read_resource
    <2>4. CASE spec \in fixed
        <3>1. shown = uri
            BY <2>3, <2>4 DEF ServedIInv, Apart
        <3> QED
            BY <2>2, <2>3, <2>4, <3>1 DEF L!entries
    <2>5. CASE spec \in Elements(templated) /\ uri \in L!Takes(spec)
        <3>1. spec \in L!Specs /\ L!HasTemplate(spec)
            BY <2>5 DEF ServedIInv, Apart, Kept
        <3>2. uri \in Matches[shown]
            <4>1. CASE spec.legacy = None
                <5>1. shown = spec.addr
                    BY <2>2, <2>3, <4>1 DEF L!describe_resource
                <5>2. \A address \in L!Addresses(spec) : address = spec.addr
                    BY <3>1, <4>1, SpecsShape
                <5> QED
                    BY <2>5, <3>1, <5>1, <5>2 DEF L!Takes
            <4> QED
                BY <2>3, <3>1, <4>1
        <3>3. shown \in L!entries(v, "list_resource_templates")
            BY <1>1, <2>2, <2>3, <2>5 DEF L!entries
        <3> QED
            BY <3>2, <3>3
    <2>6. \/ spec \in fixed
          \/ spec \in Elements(templated) /\ uri \in L!Takes(spec)
        BY <2>1, <2>3, MatchedIsKept
    <2> QED
        BY <2>4, <2>5, <2>6
<1>3. ASSUME uri \in L!entries(v, "list_resources") PROVE L!read_resource(v, uri) # None
    <2>1. PICK spec \in fixed : uri = L!describe_resource(v, spec) /\ uri # None
        BY <1>3 DEF L!entries
    <2> QED
        BY <2>1, FixedIsRead
<1>4. ASSUME NEW t \in L!entries(v, "list_resource_templates"), uri \in Matches[t]
      PROVE  L!read_resource(v, uri) # None
    <2>1. PICK spec \in Elements(templated) : t = L!describe_resource(v, spec) /\ t # None
        BY <1>1, <1>4 DEF L!entries
    <2>2. uri \in Matches[L!describe_resource(v, spec)]
        BY <1>4, <2>1
    <2> QED
        BY <2>1, <2>2, ShownTemplateIsRead
<1> QED
    BY <1>2, <1>3, <1>4

\* No shown template is hidden: one of its URIs is read by its own handler.
LEMMA ShownTemplateHasItsOwn ==
    ASSUME L!TemplatesApart, ServedIInv, NEW v \in L!Revision, NEW spec \in Elements(templated),
           L!describe_resource(v, spec) # None
    PROVE  \E uri \in Matches[L!describe_resource(v, spec)] : L!read_resource(v, uri) = spec
<1>1. spec \in Kept /\ spec \in L!Specs /\ L!HasTemplate(spec)
    BY DEF ServedIInv, Apart, Kept
<1>2. PICK shown : shown = L!describe_resource(v, spec)
    OBVIOUS
<1>3. shown \in L!Addresses(spec)
    <2>1. /\ spec.addr \in L!Addresses(spec)
          /\ spec.legacy # None => spec.legacy \in L!Addresses(spec)
        BY <1>1, SpecsShape
    <2> QED
        BY <1>2, <2>1 DEF L!describe_resource
<1>4. PICK uri \in Matches[shown] : \A other \in L!Beside(spec) : uri \notin L!Takes(other)
    BY <1>1, <1>3 DEF L!TemplatesApart
<1>5. uri \in L!Takes(spec) /\ (L!match_resource(uri) = spec => L!read_resource(v, uri) = spec)
    BY <1>2, <1>4, ShownTemplateIsRead
<1>6. L!match_resource(uri) = spec
    <2>1. PICK found : found = L!match_resource(uri)
        OBVIOUS
    <2>2. found \in Kept /\ uri \in L!Takes(found)
        BY <1>5, <2>1, RouteOrItself DEF Kept
    <2> QED
        BY <1>1, <1>4, <2>1, <2>2, KeptAreBeside
<1> QED
    BY <1>2, <1>4, <1>5, <1>6

\* On a revision without extensions the route of a method reaches the method.
LEMMA RoutesReachMethods ==
    ASSUME L!TemplatesApart, ServedIInv, NEW v \in L!Revision, ~L!supports_extensions(v),
           NEW e \in extensions, NEW m \in e.methods, NEW uri \in Matches[m.template]
    PROVE  L!read_resource(v, uri) = L!ResourceSpec(m.template, None, TRUE)
<1>1. PICK spec : spec = L!ResourceSpec(m.template, None, TRUE)
    OBVIOUS
<1>2. spec \in Elements(templated)
    BY <1>1 DEF ServedIInv, Routed
<1>3. spec \in L!Specs
    BY <1>2 DEF ServedIInv, Apart, Kept
<1>4. spec.addr = m.template /\ spec.legacy_only = TRUE /\ spec.legacy = None
    BY <1>1 DEF L!ResourceSpec
<1>5. spec.addr # None
    BY <1>3, SpecsShape
<1>6. L!describe_resource(v, spec) = m.template /\ m.template # None
    BY <1>4, <1>5 DEF L!describe_resource
<1>7. uri \in L!Takes(spec) /\ (L!match_resource(uri) = spec => L!read_resource(v, uri) = spec)
    BY <1>2, <1>6, ShownTemplateIsRead
<1>8. L!match_resource(uri) = spec
    BY <1>2, <1>4, <1>7, RouteOrItself DEF L!Precedes
<1> QED
    BY <1>1, <1>7, <1>8

\* Of an application and its extensions whose templates are apart, every
\* revision reads what it lists and nothing else: each listed resource and, for
\* a URI of its own, each listed template by its own handler, each method in the
\* revision's way; and it announces what it lists.
THEOREM ListingsAreServed == ASSUME L!TemplatesApart PROVE MCSpec => []ListedIsServed
<1>1. ServedIInv => ListedIsServed
    <2> SUFFICES ASSUME ServedIInv, NEW v \in L!Revision
        PROVE  LET resources == L!entries(v, "list_resources")
                   templates == L!entries(v, "list_resource_templates")
               IN
               /\ \A spec \in fixed :
                     L!describe_resource(v, spec) # None => L!read_resource(v, L!describe_resource(v, spec)) = spec
               /\ \A uri \in L!URIs :
                     L!read_resource(v, uri) # None <=> uri \in resources \cup UNION {Matches[t] : t \in templates}
               /\ \A spec \in L!ToSet(templated) :
                     LET template == L!describe_resource(v, spec) IN
                     template # None => \E uri \in Matches[template] : L!read_resource(v, uri) = spec
               /\ resources \cup templates # {} => "resources" \in L!capabilities(v)
               /\ \A e \in extensions : \A m \in e.methods :
                     IF L!supports_extensions(v) THEN L!call_extension(v, m.name) = {e.name}
                     ELSE \A uri \in Matches[m.template] :
                             L!read_resource(v, uri) = L!ResourceSpec(m.template, None, TRUE)
        BY DEF ListedIsServed, L!ListedIsServed
    <2>1. OwnHandlers
        BY ServedReachesOwn
    <2>2. \A uri \in L!URIs : L!read_resource(v, uri) # None <=>
               uri \in L!entries(v, "list_resources")
                   \cup UNION {Matches[t] : t \in L!entries(v, "list_resource_templates")}
        BY ReadIsListed
    <2>3. L!ToSet(templated) = Elements(templated)
        BY DEF L!ToSet, Elements
    <2>4. \A spec \in L!ToSet(templated) : L!describe_resource(v, spec) # None =>
              \E uri \in Matches[L!describe_resource(v, spec)] : L!read_resource(v, uri) = spec
        BY <2>3, ShownTemplateHasItsOwn
    <2>5. \A e \in extensions : \A m \in e.methods : ~L!supports_extensions(v) =>
              \A uri \in Matches[m.template] : L!read_resource(v, uri) = L!ResourceSpec(m.template, None, TRUE)
        BY RoutesReachMethods
    <2> QED
        BY <2>1, <2>2, <2>4, <2>5 DEF OwnHandlers
<1> QED
    BY <1>1, RegistryIsServed, PTL

=============================================================================
