------------------------------ MODULE Requests -------------------------------
(***************************************************************************)
(* One POST after another at the endpoint, from the client that composes   *)
(* it to the reply: Endpoint.handle with the authentication policies, the  *)
(* choice of a revision, the decoding and checks of that revision, and the *)
(* session a handshake left behind.  Every revision composes and reads a   *)
(* request in its own way, and what one end leaves out (a header, _meta,   *)
(* the capabilities) the other must have kept.  A request is composed by   *)
(* the library's own client, and may then differ from it in one place: the *)
(* client is another one, or something on the way changed it.              *)
(* Abstracted: texts (names and one mirrored tool argument stand for all   *)
(* arguments), the log level, what streams carry, and time: sessions and   *)
(* tokens are alive or not as the request arrives.                         *)
(***************************************************************************)
EXTENDS Naturals, Sequences, FiniteSets, SequencesExt, TLC

CONSTANTS
    Arg,          \* values of the mirrored argument of the tool "plain"
    MaxRequests,  \* bound: requests
    None

VARIABLES
    conf,        \* the endpoint: revisions served, policies, how sessions are bound
    me,          \* the client: its revision, whether it has on_ask, its account
    session_id,  \* Client.session_id
    sessions,    \* the session store: sessions[s] is the record of s
    q,           \* the request at the endpoint
    h,           \* what handle knows of it
    ran,         \* what the dispatcher ran for it
    stage, sent

vars == <<conf, me, session_id, sessions, q, h, ran, stage, sent>>
config == <<conf, me>>

(***************************************************************************)
(* The revisions, oldest first: 1 is 2024-11-05, 2 is 2025-03-26, 3 is     *)
(* 2025-06-18, 4 is 2025-11-25, 5 is 2026-07-28.  0 is one nobody knows    *)
(* and 6 is not even a text.                                               *)
(***************************************************************************)
Revision == 1 .. 5
has_handshake(v) == v < 5
allows_batch(v) == v = 2
can_push_ask(v) == v \in {3, 4}
ASSUMED_VERSION == 2
STABLE_REVISION == 4
NotText == 6

Newest(served) == CHOOSE v \in served : \A w \in served : w <= v
fallback == Newest(conf.adapters)

\* A method is spelt with an underscore for its slash.
LegacyMethods ==
    [initialize |-> "describe", notifications_initialized |-> "handshake_complete",
     tools_list |-> "list_tools", tools_call |-> "call_tool", logging_setLevel |-> "set_log_level"]
ModernMethods ==
    [server_discover |-> "describe", tools_list |-> "list_tools", tools_call |-> "call_tool",
     subscriptions_listen |-> "listen"]
Methods(v) == IF has_handshake(v) THEN LegacyMethods ELSE ModernMethods

operation_for(v, method) ==
    IF method \in DOMAIN Methods(v) THEN Methods(v)[method]
    ELSE IF v = 5 /\ method = "vendor_act" THEN "extension"
    ELSE None

BaseStatus(kind) ==
    CASE kind \in {"parse", "malformed", "unsupported_version"} -> 400
      [] kind = "origin_rejected" -> 403
      [] kind = "session_not_found" -> 404
      [] OTHER -> 200
http_status(v, kind) ==
    IF v # 5 THEN BaseStatus(kind)
    ELSE CASE kind \in {"unknown_method", "unknown_target"} -> 404
           [] kind = "header_mismatch" -> 400
           [] OTHER -> BaseStatus(kind)

(***************************************************************************)
(* Mirrored values.  What is not plain text travels encoded; a text that   *)
(* reads like an encoded one ("sentinel") goes out as it is.               *)
(***************************************************************************)
encode_header(x) == <<IF x = "accented" THEN "base64" ELSE "text", x>>
decode_header(x) == IF x = <<"text", "sentinel">> THEN "decoded" ELSE x[2]
Garbled == <<"base64", "garbled">>

Mirrored == {"plain"}
ToolNames == {"plain", "streaming"}

(***************************************************************************)
(* One message of a body; None in its place is not an object.              *)
(***************************************************************************)
Message(method, id) ==
    [method |-> method, id |-> id, params |-> "valid", name |-> None, arg |-> None,
     meta |-> None, caps |-> None, version |-> None]
ToolCall(name, arg) == [Message("tools_call", "1") EXCEPT !.name = name, !.arg = arg]

Object(i) == [shape |-> "object", items |-> <<i>>]
Array(items) == [shape |-> "array", items |-> items]
Broken == [shape |-> "broken", items |-> <<>>]

capabilities(c) == c.on_ask \/ c.revision = 5

client_handshake_params(c, i) == [i EXCEPT !.version = c.revision, !.caps = capabilities(c)]
client_decorate_params(c, i) ==
    IF c.revision = 5 THEN [i EXCEPT !.meta = 5, !.caps = capabilities(c)] ELSE i

client_headers(c, i) ==
    [header |-> IF c.revision > 2 THEN c.revision ELSE None,
     mcp_method |-> IF c.revision = 5 THEN i.method ELSE None,
     mcp_name |-> IF c.revision = 5 /\ i.name # None THEN encode_header(i.name) ELSE None,
     mcp_param |-> IF c.revision = 5 /\ i.arg # None THEN encode_header(i.arg) ELSE None]

\* What the client has to say: a handshake first, then anything.
Wanted(c) ==
    IF c.revision = 5
    THEN {Message("server_discover", "1"), Message("tools_list", "1"), Message("subscriptions_listen", "1"),
          Message("vendor_act", "1"), ToolCall("streaming", None)}
         \cup {ToolCall("plain", a) : a \in Arg \cup {None}}
    ELSE IF session_id = None
    THEN {client_handshake_params(c, Message("initialize", "1"))}
    ELSE {Message("notifications_initialized", "absent"), Message("tools_list", "1"),
          Message("logging_setLevel", "1"), ToolCall("plain", "plain"), ToolCall("streaming", None)}

\* A password of an account, or a token; a token may name who issued it.
Credential(scheme, issuer, who) ==
    [scheme |-> scheme, issuer |-> issuer, who |-> who, alive |-> TRUE, scoped |-> TRUE]
NoCredential == [Credential(None, "", None) EXCEPT !.alive = FALSE]
Issuers == {"", "as"}

\* Client.exchange: the envelope and its headers.
Request(c, i) ==
    LET headers == client_headers(c, i) IN
    [body |-> Object(client_decorate_params(c, i)), session |-> session_id, pin |-> None,
     credential |-> c.credential, origin |-> None, json |-> TRUE, accept |-> {"json", "sse"},
     header |-> headers.header, mcp_method |-> headers.mcp_method, mcp_name |-> headers.mcp_name,
     mcp_param |-> headers.mcp_param, intact |-> TRUE]

(***************************************************************************)
(* A request that differs from the client's own in one place.              *)
(***************************************************************************)
Bodies(c, i) ==
    {Broken, Object(None), Array(<<>>), Array(<<i>>)}
    \cup {Array(<<j, [i EXCEPT !.id = "2"]>>) :
            j \in {None, [i EXCEPT !.id = "absent"], [i EXCEPT !.method = "unknown"], [i EXCEPT !.params = "scalar"]}}
    \cup {Object(j) : j \in
            {[i EXCEPT !.id = x] : x \in {"absent", "null", "bad"}}
            \cup {[i EXCEPT !.method = x] : x \in {None, "unknown", "initialize", "tools_call"}}
            \cup {[i EXCEPT !.params = x] : x \in {"wrong", "scalar"}}
            \cup {[i EXCEPT !.meta = x] : x \in {None, 0, 4, 5, NotText}}
            \cup {[i EXCEPT !.name = "missing"], [i EXCEPT !.caps = None],
                  [i EXCEPT !.id = "absent", !.method = "unknown"], [Message(None, "1") EXCEPT !.method = "reply"]}}

Others(c, r) ==
    LET i == r.body.items[1] IN
    {[r EXCEPT !.body = b] : b \in Bodies(c, i)}
    \cup {[r EXCEPT !.header = v] : v \in {None, 0, 4, 5}}
    \cup {[r EXCEPT !.pin = v] : v \in {0, 1, 4, 5}}
    \cup {[r EXCEPT !.mcp_method = m] : m \in {None, "tools_list"}}
    \cup {[r EXCEPT !.mcp_name = n] : n \in {None, Garbled, encode_header("streaming")}}
    \cup {[r EXCEPT !.mcp_param = a] : a \in {None, Garbled, encode_header("other")}}
    \cup {[r EXCEPT !.session = s] : s \in {None, 0} \cup DOMAIN sessions}
    \cup {[r EXCEPT !.credential = d] : d \in
            {NoCredential, Credential("basic", "", "bob"), Credential("basic", "", "alice"),
             Credential("bearer", "", None), [c.credential EXCEPT !.who = "bob"],
             [c.credential EXCEPT !.alive = FALSE], [c.credential EXCEPT !.scoped = FALSE]}
            \cup {[c.credential EXCEPT !.issuer = x] : x \in Issuers}}
    \cup {[r EXCEPT !.origin = o] : o \in {"own", "listed", "foreign"}}
    \cup {[r EXCEPT !.accept = a] : a \in {{"json"}, {"sse"}}}
    \cup {[r EXCEPT !.json = FALSE]}

(***************************************************************************)
(* Sending.                                                                *)
(***************************************************************************)
Fresh == [principal |-> None, record |-> None, adapter |-> None, items |-> <<>>,
          status |-> None, replies |-> <<>>, minted |-> None]

Confs ==
    LET Conf(adapters, policies, namespaced, bind) ==
            [adapters |-> adapters, policies |-> policies, namespaced |-> namespaced, bind |-> bind]
    IN {Conf(s, <<>>, TRUE, TRUE) : s \in {Revision, {1, 2}, {4}, {5}}}
       \cup {Conf(Revision, p, FALSE, TRUE) : p \in {<<"bearer">>, <<"basic", "bearer">>}}
       \cup {Conf(Revision, <<"bearer">>, TRUE, FALSE)}

Init ==
    /\ conf \in Confs
    /\ me \in [revision : Revision, on_ask : BOOLEAN, 
                  credential : {Credential("bearer", x, "alice") : x \in Issuers}]
    /\ session_id = None
    /\ sessions = <<>>
    /\ q = None /\ h = Fresh /\ ran = <<>>
    /\ stage = "idle" /\ sent = 0

exchange ==
    /\ stage = "idle"
    /\ sent < MaxRequests
    /\ sent' = sent + 1
    /\ \E i \in Wanted(me) :
          LET own == Request(me, i) IN
          q' \in {own} \cup {[r EXCEPT !.intact = FALSE] : r \in Others(me, own) \ {own}}
    /\ stage' = "received"
    /\ UNCHANGED <<config, session_id, sessions, h, ran>>

(***************************************************************************)
(* The endpoint.  Each step either answers or goes on.                     *)
(***************************************************************************)
Answer(status, replies) ==
    /\ h' = [h EXCEPT !.status = status, !.replies = replies]
    /\ stage' = "answered"

render_failure(v, kind) == Answer(http_status(v, kind), <<None>>)

check_origin(r) == r.origin \in {None, "own", "listed"}

\* Whoever the policies let in is known by an issuer, "" where there is none, and
\* a subject.  An account has no issuer: it is the same identity as the subject of
\* a token without one.
identity(c) == [issuer |-> c.issuer, subject |-> c.who]

\* A policy reads its own scheme only.  Tokens expire, accounts do not.
BasicAuth(c) == c.scheme = "basic" /\ c.who # None
Authorization(c) == c.scheme = "bearer" /\ c.who # None /\ c.alive
authenticate(policy, c) ==
    IF IF policy = "basic" THEN BasicAuth(c) ELSE Authorization(c) THEN identity(c) ELSE None
check(policy, c) ==
    IF authenticate(policy, c) = None THEN 401 ELSE IF ~c.scoped THEN 403 ELSE 200

Accepting(c) == {p \in ToSet(conf.policies) : check(p, c) = 200}
Refusal(c) == IF \E p \in ToSet(conf.policies) : check(p, c) = 403 THEN 403 ELSE 401

\* The first policy that accepts the caller names it.
verified(c) ==
    IF conf.policies = <<>> THEN None
    ELSE LET first == CHOOSE n \in DOMAIN conf.policies :
                /\ conf.policies[n] \in Accepting(c)
                /\ \A m \in 1 .. n - 1 : conf.policies[m] \notin Accepting(c)
         IN  authenticate(conf.policies[first], c)

Admit ==
    /\ stage = "received"
    /\ \/ ~check_origin(q) /\ render_failure(fallback, "origin_rejected")
       \/ check_origin(q) /\ ~q.json /\ Answer(415, <<>>)
       \/ /\ check_origin(q) /\ q.json
          /\ conf.policies # <<>> /\ Accepting(q.credential) = {}
          /\ Answer(Refusal(q.credential), <<>>)
       \/ /\ check_origin(q) /\ q.json
          /\ conf.policies = <<>> \/ Accepting(q.credential) # {}
          /\ h' = [h EXCEPT !.principal = verified(q.credential)]
          /\ stage' = "verified"
    /\ UNCHANGED <<config, session_id, sessions, q, ran, sent>>

(***************************************************************************)
(* The session.  An answer to a pushed question is relayed before it.      *)
(***************************************************************************)
Preamble(r, field) ==
    IF r.body.shape = "object" /\ r.body.items[1] # None THEN r.body.items[1][field] ELSE None

Space(principal) == IF conf.namespaced THEN principal ELSE None

\* (Mutant) A record is anybody's.
ownsAny(record, principal) == TRUE

owns(record, principal) ==
    conf.policies = <<>> \/ ~conf.bind \/ record.owner = None \/ record.owner = principal

Found(s) ==
    /\ s \in DOMAIN sessions
    /\ sessions[s].space = Space(h.principal)
    /\ owns(sessions[s], h.principal)

relay_reply ==
    /\ Preamble(q, "method") = "reply"
    /\ Answer(202, <<>>)

load_session ==
    /\ Preamble(q, "method") # "reply"
    /\ \/ /\ q.session = None
          /\ stage' = "loaded" /\ h' = h
       \/ /\ q.session # None /\ ~Found(q.session)
          /\ render_failure(fallback, "session_not_found")
       \/ /\ q.session # None /\ Found(q.session)
          /\ h' = [h EXCEPT !.record = sessions[q.session]]
          /\ stage' = "loaded"

Load ==
    /\ stage = "verified"
    /\ relay_reply \/ load_session
    /\ UNCHANGED <<config, session_id, sessions, q, ran, sent>>

(***************************************************************************)
(* The revision of the request.                                            *)
(***************************************************************************)
Chosen(v) == [revision |-> v, refusal |-> None]
Refused(kind) == [revision |-> fallback, refusal |-> kind]

resolve_version(v) == IF v \in conf.adapters THEN Chosen(v) ELSE Refused("unsupported_version")
by_version(v) == Chosen(IF v \in conf.adapters THEN v ELSE fallback)

stored_version == IF h.record = None THEN None ELSE h.record.version

\* (Mutant) The session is not asked.
Unstated == by_version(ASSUMED_VERSION)

\* Nothing in the request states a revision.
Remembered ==
    IF stored_version # None THEN resolve_version(stored_version) ELSE by_version(ASSUMED_VERSION)

select ==
    LET meta == Preamble(q, "meta") IN
    IF q.body.shape = "broken" THEN Chosen(fallback)
    ELSE IF meta = NotText THEN Refused("malformed")
    ELSE IF q.pin # None THEN resolve_version(q.pin)
    ELSE IF meta # None /\ q.header \notin {None, meta} THEN Refused("header_mismatch")
    ELSE IF meta # None THEN resolve_version(meta)
    ELSE IF q.header # None THEN resolve_version(q.header)
    ELSE IF Preamble(q, "method") = "initialize" THEN by_version(STABLE_REVISION)
    ELSE Remembered

Select ==
    /\ stage = "loaded"
    /\ \/ select.refusal # None /\ render_failure(fallback, select.refusal)
       \/ /\ select.refusal = None
          /\ h' = [h EXCEPT !.adapter = select.revision]
          /\ stage' = "selected"
    /\ UNCHANGED <<config, session_id, sessions, q, ran, sent>>

(***************************************************************************)
(* Decoding.  A fault in one message of a batch is that message's own.     *)
(***************************************************************************)
Named == {"tools_call"}
Incoming(i) == i.method # None /\ i.id \notin {"null", "bad"} /\ i.params # "scalar"

check_params(v, i) == v = 5 => i.meta = 5 /\ i.caps # None

Fault(v, i) ==
    LET operation == operation_for(v, i.method) IN
    IF i = None \/ ~Incoming(i) THEN "malformed"
    ELSE IF operation = None THEN "unknown_method"
    ELSE IF operation = "listen" /\ i.id = "absent" THEN "malformed"
    ELSE IF i.params = "wrong" THEN "invalid_params"
    ELSE IF ~check_params(v, i) THEN "malformed"
    ELSE IF operation = "extension" /\ i.id = "absent" THEN "malformed"
    ELSE None

\* (Mutant) Whatever fails to decode is answered.
AnswerFaults(i) == TRUE

must_respond(i) ==
    i = None \/ i.id # "absent" \/ i.method = None \/ i.params = "scalar"
usable_id(i) == IF i = None \/ i.id \in {"absent", "null", "bad"} THEN None ELSE i.id

client_info_for(v, i) ==
    IF v = 5 \/ operation_for(v, i.method) = "describe" THEN i.caps = TRUE ELSE FALSE

remembered == h.record # None /\ h.record.caps

build_call(v, i) ==
    [operation |-> operation_for(v, i.method), id |-> usable_id(i), fault |-> None,
     name |-> i.name, arg |-> i.arg, version |-> i.version,
     caps |-> client_info_for(v, i) \/ remembered, respond |-> i.id # "absent"]

DecodeFailure(v, i) == [operation |-> None, id |-> usable_id(i), fault |-> Fault(v, i), respond |-> must_respond(i)]

decode_item(v, i) == IF Fault(v, i) = None THEN build_call(v, i) ELSE DecodeFailure(v, i)

decode_refusal(v) ==
    IF q.body.shape = "broken" THEN "parse"
    ELSE IF q.body.shape = "array" /\ (~allows_batch(v) \/ q.body.items = <<>>) THEN "malformed"
    ELSE None

param_agrees(i) ==
    IF i.arg = None THEN q.mcp_param = None
    ELSE q.mcp_param \notin {None, Garbled} /\ decode_header(q.mcp_param) = i.arg

headers_agree(i) ==
    /\ q.header = i.meta
    /\ q.mcp_method = i.method
    /\ i.method \in Named =>
          /\ q.mcp_name \notin {None, Garbled}
          /\ decode_header(q.mcp_name) = i.name
          /\ i.name \in Mirrored => param_agrees(i)

\* A notification without a version header is let through as it is.
check_http(v) ==
    IF v # 5 THEN None
    ELSE IF Preamble(q, "meta") = None THEN "malformed"
    ELSE IF q.header = None
    THEN IF Preamble(q, "id") = "absent" THEN None ELSE "header_mismatch"
    ELSE IF headers_agree(q.body.items[1]) THEN None ELSE "header_mismatch"

Refusing == IF decode_refusal(h.adapter) # None THEN decode_refusal(h.adapter) ELSE check_http(h.adapter)

Decode ==
    /\ stage = "selected"
    /\ \/ Refusing # None /\ render_failure(h.adapter, Refusing)
       \/ /\ Refusing = None
          /\ h' = [h EXCEPT !.items = [n \in DOMAIN q.body.items |-> decode_item(h.adapter, q.body.items[n])]]
          /\ stage' = "decoded"
    /\ UNCHANGED <<config, session_id, sessions, q, ran, sent>>

(***************************************************************************)
(* Dispatching.                                                            *)
(***************************************************************************)
stream_reason ==
    /\ Len(h.items) = 1
    /\ LET call == h.items[1] IN
       /\ call.fault = None /\ call.respond
       /\ \/ call.operation = "listen"
          \/ call.operation = "call_tool" /\ call.name = "streaming"
          \/ call.operation = "call_tool" /\ can_push_ask(h.adapter) /\ call.caps

will_reply == \E n \in DOMAIN h.items : h.items[n].respond
media_type == IF stream_reason THEN "sse" ELSE "json"

accepts ==
    /\ stage = "decoded"
    /\ \/ (stream_reason \/ will_reply) /\ media_type \notin q.accept /\ Answer(406, <<>>)
       \/ /\ (stream_reason \/ will_reply) => media_type \in q.accept
          /\ stage' = "running" /\ h' = h
    /\ UNCHANGED <<config, session_id, sessions, q, ran, sent>>

dispatch(call) ==
    IF call.operation = "set_log_level" /\ h.record = None THEN "invalid_params"
    ELSE IF call.operation = "call_tool" /\ call.name \notin ToolNames THEN "unknown_target"
    ELSE None

\* A legacy handshake opens a session, unless the request came with one.
negotiated(call) == IF call.version \in 1 .. 4 THEN call.version ELSE h.adapter
open_session(call) == call.operation = "describe" /\ h.record = None /\ has_handshake(h.adapter)
handshake_data(call) ==
    [space |-> Space(h.principal), owner |-> h.principal, version |-> negotiated(call), caps |-> call.caps]

encode(call, failure) ==
    LET replies == IF call.respond THEN Append(h.replies, call.id) ELSE h.replies
        first == h.replies = <<>> /\ call.respond
    IN [h EXCEPT !.items = Tail(@), !.replies = replies,
                 !.status = IF first THEN IF failure = None THEN 200 ELSE http_status(h.adapter, failure) ELSE @]

run ==
    /\ stage = "running" /\ h.items # <<>>
    /\ LET call == Head(h.items) IN
       \/ /\ call.fault # None
          /\ h' = encode(call, call.fault)
          /\ UNCHANGED <<sessions, ran>>
       \/ /\ call.fault = None
          /\ ran' = Append(ran, [operation |-> call.operation, name |-> call.name, arg |-> call.arg,
                                 caps |-> call.caps, failure |-> dispatch(call)])
          /\ sessions' = IF open_session(call) THEN Append(sessions, handshake_data(call)) ELSE sessions
          /\ h' = [encode(call, dispatch(call)) EXCEPT !.minted = IF open_session(call) THEN Len(sessions') ELSE @]
    /\ UNCHANGED <<config, session_id, q, stage, sent>>

\* The session of a handshake inside a batch is not told to anybody.
finish ==
    /\ stage = "running" /\ h.items = <<>>
    /\ h' = [h EXCEPT !.status = IF h.replies = <<>> THEN 202 ELSE IF q.body.shape = "array" THEN 200 ELSE @,
                      !.minted = IF q.body.shape = "array" \/ h.replies = <<>> THEN None ELSE @]
    /\ stage' = "answered"
    /\ UNCHANGED <<config, session_id, sessions, q, ran, sent>>

\* Back in the client.  After a request that was not its own, the run ends.
adopt ==
    /\ stage = "answered"
    /\ session_id' = IF q.intact /\ h.minted # None THEN h.minted ELSE session_id
    /\ stage' = IF q.intact THEN "idle" ELSE "over"
    /\ q' = None /\ h' = Fresh /\ ran' = <<>>
    /\ UNCHANGED <<config, sessions, sent>>

Next == exchange \/ Admit \/ Load \/ Select \/ Decode \/ accepts \/ run \/ finish \/ adopt

Spec == Init /\ [][Next]_vars

(***************************************************************************)
(* Properties                                                              *)
(***************************************************************************)
Served == me.revision \in conf.adapters
Done == stage = "answered"

\* What the client meant when it composed its own request.
Meant(c, i) ==
    [operation |-> operation_for(c.revision, i.method), name |-> i.name, arg |-> i.arg,
     caps |-> capabilities(c), failure |-> None]

\* The request a client of any revision composes is read by the revision it
\* was written in, is refused nowhere, and reaches the handler with the
\* target, the argument and the capabilities the client has, although every
\* revision puts them elsewhere: in headers, in _meta, in the session.
OwnRequestsAreUnderstood ==
    Done /\ q.intact /\ Served =>
        /\ h.status \in {200, 202}
        /\ ran = <<Meant(me, q.body.items[1])>>
        /\ q.session # None => h.adapter = me.revision

\* JSON-RPC: a message is answered unless it is a notification, with its id
\* where it has one, in order; HTTP says 202 where there is nothing to say.
\* And 404 tells a legacy client that its session is gone, never that a
\* method or a tool is.
Notification(i) == i # None /\ i.id = "absent" /\ i.method # None /\ i.params # "scalar"
Owed(n) == ~Notification(q.body.items[n])
Rank(n) == Cardinality({m \in 1 .. n : Owed(m)})
EachIsAnsweredAsOwed ==
    /\ Done /\ ran # <<>> =>
          /\ Len(h.replies) = Rank(Len(q.body.items))
          /\ \A n \in DOMAIN q.body.items : Owed(n) => h.replies[Rank(n)] = usable_id(q.body.items[n])
          /\ h.status = 202 <=> \A n \in DOMAIN q.body.items : ~Owed(n)
    /\ Done /\ me.revision < 5 /\ h.status = 404 =>
          q.session # None /\ h.record = None

\* A copied session id opens nothing for another subject, nor for the same
\* subject of another issuer, by whatever policy the caller is let in: the
\* credential that came with the request has the identity that opened the
\* session.  (By that identity an account and a token without an issuer are one.)
SessionsServeTheirOwner ==
    ran # <<>> /\ h.record # None /\ conf.policies # <<>> =>
        h.record.owner = identity(q.credential)
=============================================================================
