----------------------------- MODULE MCRequests ----------------------------
(* A request at the endpoint and what its handler does, in one run; `part`  *)
(* is the one that takes the steps.  Requests: three requests one after     *)
(* another.  Asking: handlers that ask in every way.  RequestState: two     *)
(* requests in flight, two calls to mix up, two states after each other and *)
(* one more to leave behind.  Listings: an application and three extensions *)
(* that claim what it or another one has registered.                        *)
EXTENDS RequestState, Sequences, TLC

CONSTANTS Arg, MaxRequests, Handlers, ASK_ROUNDS, PUSH_ASK_ROUNDS,
    Matches, Tools, Prompts, Resources, Extensions, Providers, ProtocolMethods, SkillEntries, PageSizes

VARIABLES part,
    conf, client, session_id, sessions, q, h, ran, q_stage, sent,
    me, handler, answers, state, rounds, ex, asked, stage, reply,
    tools, prompts, fixed, templated, extensions, page_size, listing

Q == INSTANCE Requests WITH me <- client, stage <- q_stage
A == INSTANCE Asking
L == INSTANCE Listings

request == <<conf, client, session_id, sessions, q, h, ran, q_stage, sent>>
asking == <<me, handler, answers, state, rounds, ex, asked, stage, reply>>
registry == <<tools, prompts, fixed, templated, extensions, page_size, listing>>

\* None is none of the values it is compared with, and the mirrored argument of
\* a tool does not read like an encoded one.
ASSUME RequestsConstants ==
    LET Kinds == {"parse", "malformed", "origin_rejected", "session_not_found", "unsupported_version",
                  "header_mismatch", "unknown_method", "invalid_params", "unknown_target"}
        Operations == {"describe", "handshake_complete", "list_tools", "call_tool", "set_log_level",
                       "listen", "extension"}
        Methods == {"initialize", "notifications_initialized", "tools_list", "tools_call",
                    "logging_setLevel", "server_discover", "subscriptions_listen", "vendor_act",
                    "unknown", "reply"}
        Accounts == {"alice", "bob"}
        Principals == [issuer : Q!Issuers, subject : Accounts]
        Names == Q!ToolNames \cup {"missing", None}
    IN
    /\ "sentinel" \notin Arg
    /\ None \notin Kinds \cup Operations \cup Methods \cup Q!ToolNames \cup Accounts
    /\ None \notin Nat /\ None \notin BOOLEAN
    /\ None \notin {"text", "base64"} \X (Arg \cup Q!ToolNames)
    /\ None \notin Principals
    /\ None \notin [space : Principals \cup {None}, owner : Principals \cup {None},
                    version : Q!Revision, caps : BOOLEAN]
    /\ None \notin [method : Methods \cup {None}, id : {"1", "2", "absent", "null", "bad"},
                    params : {"valid", "wrong", "scalar"}, name : Names, arg : Arg \cup Names,
                    meta : 0 .. 6 \cup {None}, caps : BOOLEAN \cup {None}, version : Q!Revision \cup {None}]

\* A handler is a sequence of steps: one question asked, some needed, or none.
ASSUME AskingConstants ==
    /\ ASK_ROUNDS \in Nat /\ PUSH_ASK_ROUNDS \in Nat
    /\ None \notin {"result", "still asking", "cannot ask", "input_required"}
    /\ \A one \in Handlers :
        /\ one.steps \in Seq({one.steps[n] : n \in DOMAIN one.steps})
        /\ \A n \in DOMAIN one.steps :
            LET s == one.steps[n] IN
            /\ s.keys \in Seq({s.keys[i] : i \in DOMAIN s.keys}) /\ s.default \in BOOLEAN
            /\ IF s.does = "ask" THEN Len(s.keys) = 1
               ELSE IF s.does = "need" THEN s.keys # <<>> /\ ~s.default
               ELSE s.keys = <<>>

\* The instance is one of those whose handlers ask plainly.
ASSUME InstanceAsksPlainly == \A one \in Handlers : A!AsksPlainly(one)

\* Addresses are numbers, and a page holds something.  What an extension has is
\* a template under both of its addresses or under neither, methods are routed
\* as a template (and as a resource), and a manifest is a resource.
ASSUME ListingsConstants ==
    /\ PageSizes \ {None} \subseteq Nat \ {0}
    /\ Prompts \cup Resources \cup SkillEntries \subseteq Nat /\ IsFiniteSet(SkillEntries)
    /\ \A spec \in Tools : spec.name \in Nat
    /\ \A e \in Extensions :
        /\ e.manifest \in Nat
        /\ e.manifest \notin DOMAIN Matches
        /\ IsFiniteSet(e.methods)
        /\ \A m \in e.methods :
            m.uri \in Nat \ DOMAIN Matches /\ m.template \in Nat \cap DOMAIN Matches
        /\ IsFiniteSet(e.resources)
        /\ \A spec \in e.resources :
            /\ spec.addr \in Nat /\ spec.legacy \in Nat /\ ~spec.legacy_only
            /\ spec.addr \in DOMAIN Matches <=> spec.legacy \in DOMAIN Matches
    /\ None \notin L!Specs

\* The instance is one of those whose templates are apart.
ASSUME InstanceIsApart == L!TemplatesApart

\* Values of the constants say nothing of an instance that takes them.
Asks(key, default) == [does |-> "ask", keys |-> <<key>>, default |-> default]
Need(keys) == [does |-> "need", keys |-> keys, default |-> FALSE]
Just(what) == [does |-> what, keys |-> <<>>, default |-> FALSE]
Handler(operation, streaming, uses, steps) ==
    [operation |-> operation, streaming |-> streaming, uses |-> uses, steps |-> steps]
Tool(steps) == Handler("call_tool", FALSE, \E n \in DOMAIN steps : steps[n].does = "ask", steps)
MCHandlers ==
    {Tool(steps) : steps \in
        {<<Asks("a", FALSE)>>, <<Asks("a", TRUE), Asks("b", FALSE)>>, <<Need(<<"a", "b">>)>>,
         <<Need(<<"a">>), Need(<<"b">>)>>, <<Asks("a", FALSE), Asks("b", TRUE), Asks("c", FALSE)>>,
         <<Asks("a", FALSE), Just("fail")>>,
         <<Need(<<"a">>), Need(<<"b">>), Need(<<"c">>)>>, <<Just("log")>>}}
    \cup {Handler("call_tool", TRUE, FALSE, <<Just("log"), Asks("a", FALSE)>>),
          Handler("get_prompt", FALSE, FALSE, <<Asks("a", TRUE)>>),
          Handler("get_prompt", FALSE, FALSE, <<Just("fail")>>)}

MCMatches == 2 :> {11, 12} @@ 4 :> {13} @@ 22 :> {32} @@ 24 :> {33, 34} @@ 26 :> {34, 35} @@ 29 :> {36}
MCTools ==
    {[name |-> 1, min_revision |-> 0, plain |-> FALSE, needs |-> {}],
     [name |-> 2, min_revision |-> 4, plain |-> TRUE, needs |-> {"clock"}],
     [name |-> 2, min_revision |-> 0, plain |-> TRUE, needs |-> {"vault"}]}
Method(name, uri, template, required) == [name |-> name, uri |-> uri, template |-> template, required |-> required]
Registered(addr, legacy) == [addr |-> addr, legacy |-> legacy, legacy_only |-> FALSE]
Files == {Registered(3, 23), Registered(4, 24)}
MCExtensions ==
    {[name |-> "files", methods |-> {Method("get", 25, 26, TRUE)}, resources |-> Files, manifest |-> 27],
     [name |-> "other", methods |-> {Method("list", 28, 29, FALSE)}, resources |-> {Registered(1, 21)},
      manifest |-> 30],
     [name |-> "other", methods |-> {Method("get", 28, 29, FALSE)}, resources |-> {}, manifest |-> 30],
     [name |-> "third", methods |-> {}, resources |-> {Registered(2, 22)}, manifest |-> 31]}

Symmetries == Permutations(Run) \cup Permutations(Call)

\* What a part that rests is: it takes no step, so any one of its states will do.
Resting(values) == CHOOSE x \in values : TRUE

MCInit ==
    /\ part \in {"request", "asking", "state", "registry"}
    /\ Init /\ Q!Init /\ A!Init /\ L!Init
    /\ part # "request" => conf = Resting(Q!Confs) /\ client.revision = 1 /\ client.on_ask
    /\ part # "asking" => me = Resting(A!Clients) /\ handler = Resting(Handlers)
    /\ part # "registry" => page_size = None
MCNext ==
    /\ UNCHANGED part
    /\ \/ part = "request" /\ Q!Next /\ UNCHANGED <<vars, asking, registry>>
       \/ part = "asking" /\ A!Next /\ UNCHANGED <<vars, request, registry>>
       \/ part = "state" /\ Next /\ UNCHANGED <<request, asking, registry>>
       \/ part = "registry" /\ L!Next /\ UNCHANGED <<vars, request, asking>>
MCSpec == MCInit /\ [][MCNext]_<<part, vars, request, asking, registry>>

(* What the parts promise. *)
OwnRequestsAreUnderstood == Q!OwnRequestsAreUnderstood
EachIsAnsweredAsOwed == Q!EachIsAnsweredAsOwed
SessionsServeTheirOwner == Q!SessionsServeTheirOwner
EveryQuestionIsSettled == A!EveryQuestionIsSettled
ListedIsServed == L!ListedIsServed
PagesAreComplete == L!PagesAreComplete
=============================================================================
