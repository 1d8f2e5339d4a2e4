# Formal models of aiohttp-tiny-mcp

This directory holds TLA+ models of the parts of `aiohttp_tiny_mcp` where several
tasks, workers or machines meet, and of the decisions that several protocol
revisions must take alike: the stores that keep sessions, the hubs that carry events
between workers, notification streams, the questions a handler puts to a client, the
queue and the bytes of a streamed response, the pipes of a stdio server, the client
that repairs a lost session, both ends of OAuth, a request on its way through the
endpoint, and what is listed and served. Each model is checked by TLC on a small
instance, and most of what the checks ask is proved with TLAPS for every value of the
constants; section 4 says what is and what is not.

All paths below are relative to `src/aiohttp_tiny_mcp/` unless they start with
`docs/`.

## 1. The system

`aiohttp-tiny-mcp` serves and calls the Model Context Protocol. A server is a set
of identical workers (processes or machines) behind a load balancer. Workers
share nothing but a storage backend, which is a **session store** (rows under
compare-and-set, with a TTL) and a **hub** (short logs of events by topic).
Everything that outlives one request is in one of these two. A client is one
object that several asyncio tasks may use at once.

### Components

| Component | State it keeps | Operations | Where it gets hard |
|---|---|---|---|
| Session store contract (`storage/sessions.py`) | records: data, version, expiry | create, get, touch, save, delete | a record that lapsed is absent although it is still in memory or in a table; versions start again with a new record |
| Memory store (`storage/sessions.py`) | a dict and the time of the next purge | the same | the purge is skipped until it is due; the due time must never be late |
| SQLite, PostgreSQL, Redis stores (`storage/*.py`) | a row per session, a time of the last sweep | the same, and a sweep | lapsed rows wait for a sweep; in PostgreSQL `now()` is older than the statement; several workers sweep |
| Session values (`storage/sessions.py`, `Session`) | the snapshot of one handler | get, set, update, set_log_level, remember_version, close | read, save and re-read are three awaits; tasks of one handler share the snapshot |
| Request state (`server/request_state.py`, `server/dispatcher.py`) | payloads under `state/<id>` | open, read, drop | read, run and drop with awaits in between; requests are repeated, cut off, and forged |
| Hub (`storage/hub.py`, `storage/*.py`) | events by topic; a cursor per subscription | publish, poll, position, delete, sweep | ids are drawn before commits; events go by age or with their topic |
| Exchange (`server/exchange.py`) | per request: questions that wait, cancellation | ask, push_ask, emit, relay_reply | an answer comes to any worker, early, twice, late or never; handlers are cancelled |
| SSE response (`transport/sse.py`) | a bounded queue and a writer task | push, close, heartbeat | a full queue, a dead client, an end mark among waiting putters |
| Streamable HTTP endpoint (`server/http.py`) | nothing of its own | POST, GET, DELETE | sessions lost between two requests; a GET stream beside POSTs |
| Streamable HTTP client (`client/http.py`, `client/base.py`) | session id, capabilities, log level | initialize, request, notify, set_log_level | tasks share it while it shakes hands again |
| Notification streams (`server/subscriptions.py`, `server/http.py`, `server/sse.py`) | subscriptions in the session, cursors | subscribe, listen, relay | changes while a stream opens or its subscriptions change |
| HTTP+SSE endpoint of 2024-11-05 (`server/sse.py`) | a topic per stream | GET, POST | replies through the hub to a stream that may be gone |
| Stdio server and client (`server/stdio.py`, `client/stdio.py`) | requests in progress | dispatch, cancel, EOF | cancellation beside answers |
| OAuth client (`client/oauth*.py`, `client/callback.py`) | credentials on disk, a login in progress | authorize, refresh, discard | one refresh at a time, a crash in the middle |
| OAuth server (`oauth/*.py`) | one-time rows: consents, upstream states, codes, tokens | authorize, callback, token, refresh, revoke | every row may be spent once, by one of many workers |
| Authentication (`auth/`) | none | identify a caller | a session belongs to who opened it |
| Protocol revisions (`protocol/*.py`) | the session remembers which one it is | choose, decode, check, encode | what one end leaves out the other must know |
| Registry, extensions, listings (`server/registry.py`, `extensions/`) | what is registered | register, list a page, match a URI | one URI claimed under two addresses; entries registered between two pages |
| Resource metadata, loopback client, console, test helpers, examples | none that changes while serving | conversions and declarations | |

### How they interact

    client task ── HTTP ──> endpoint ── load_session ──> session store
        ^                     │
        │                     ├─> Dispatcher.run ── restore / protect / drop ──> session store
        │                     │        └─ handler ── Session.set, update ──────> session store
        │                     │             └─ ask ── push_ask ── subscribe, poll ──┐
        └── SSEResponse <── emit ───────────┘                                       │
             (queue, writer)                                                        v
        any worker: POST of an answer ── relay_reply ── publish ─────────────────> hub

Only the store and the hub are shared between workers. Inside one worker tasks
interleave at each `await`: this is the grain of every model here, so a Python
function is one action for each stretch between two awaits (and one action when
it has none).

## 2. Modules

| Module | Models | Kind |
|---|---|---|
| `SessionStore` | the `SessionStore` protocol | abstract specification |
| `MemorySessionStore` | `MemorySessionStore` and its lazy purge | implements `SessionStore` |
| `SqliteSessionStore` | `SqliteSessionStore` and the sweeper | implements `SessionStore` |
| `RedisSessionStore` | `RedisSessionStore`, a command or script per step | implements `SessionStore` |
| `PostgresSessionStore` | `PostgresSessionStore` and `sweep_if_due`, several workers | safety of its own |
| `TopicLog` | the `Hub` protocol and `Subscription` | abstract specification |
| `PostgresHub` | `PostgresHub` | implements `TopicLog` |
| `HubBackends` | `MemoryHub`, `SqliteHub`, `RedisHub` | implements `TopicLog` |
| `Ordered` | what `ORDER BY id`, `sorted` and a scan of a list return | operators, used by the hubs and by `Listings` |
| `SessionWrites` | `Session.write_value`, `Session.update_slot` | component over one row |
| `HttpSession` | `HttpClient`, `Client` and the endpoint's `load_session`, handshake and 404 | client and endpoint composed |
| `NotificationStreams` | `listen`, the GET stream, the stream of 2024-11-05 | streams over a topic and a session |
| `PushAsk` | `Exchange.push_ask`, `relay_reply`, `answer_of`, and the client | asker, hub and client composed |
| `SseQueue` | `SSEResponse` and the `asyncio.Queue` it is built on | component |
| `SseFrames` | `SSEEvent`, `read_frames`, `read_sse` | writer and reader of one stream |
| `StdioChannel` | `serve_stdio` and `StdioClient` | server and client over two pipes |
| `OAuthServer` | `OAuthServer`, opaque and encrypted tokens | rows shared by workers |
| `OAuthClient` | `OAuth` and the repeat after a 401 | tasks, a lock, a disk |
| `OAuthCallback` | `OAuthCallback` | callbacks over one login |
| `Requests` | a POST from the client to the handler and back, on five revisions | client and endpoint composed |
| `Asking` | `Dispatcher` and `Exchange` around a handler that asks, `call_tool` of the client | client and server composed |
| `RequestState` | `RequestStates` as `Dispatcher.run` drives it | component over one table |
| `Listings` | `Registry`, `Extension`, what a revision shows, reads, pages | component |
| `MCStorage`, `MCSessions`, `MCCallStream`, `MCOAuth`, `MCRequests` | several of the above in one instance | for TLC |
| `MCAsking` | handlers for the violations of section 6 | for TLC |
| `OrderedProofs` | lemmas about `Ordered`, about counting, and about definitions by recursion on a number | theorems |
| `StorageProofs` | the stores and the hubs, alone and in `MCStorage` | theorems |
| `SessionsProofs` | session values, client and streams, alone and in `MCSessions` | theorems |
| `CallStreamProofs`, `FramesProofs` | questions, the SSE queue and the stdio pipes; the bytes of a stream, alone and in `MCCallStream` | theorems |
| `OAuthProofs` | server, client and callback, alone and in `MCOAuth` | theorems |
| `RequestsProofs`, `AskingProofs` | requests, listings and pages; request state and questions, in `MCRequests` | theorems |

An `MC` module of several parts is their sum: `part`, chosen in the initial state, says
which one takes all the steps, and the others rest in an initial state. Nothing is
shared between the parts; a property of one part speaks of its own variables and holds
of a part that rests.

Every definition marked `(Mutant)` in a comment is a plausible bug of the
definition below it. No specification uses it; it is there so that each property
can be shown to fail when the code would be wrong.

### 2.1 Session stores

`SessionStore` says what a caller may rely on: at one instant `clock` a record is
in `live` or it is not, and each operation answers by that. A record whose expiry
is not strictly ahead of the clock is not in `live`. `Tick` advances the clock and
drops what lapses. The answer of the last call is part of the state (`answer`), so
an implementation must not only end in the right state but also answer rightly.

`MemorySessionStore` has the dict (`sessions`), `next_cleanup` and the answer. Each
method is one step, because none awaits; but it reads the clock twice, once in
`purge` and once for the record itself, and the model lets time pass between the
two readings. The refinement maps `live` to the records of the dict whose expiry
is ahead of the clock. `SqliteSessionStore` is a statement per step, with the
expiry in its `WHERE` clause, and a sweeper that runs at any time. In
`RedisSessionStore` a lapsed key is gone at the instant of any command, and `HSET` and
`EXPIRE` are one script.

`PostgresSessionStore` is different: a call opens a transaction, and then its
statement judges expiry by the time the transaction *began*. Waiting for a pooled
connection's statement or for a row lock lies between the two. `tx[w]` keeps that
time. With it the contract of `SessionStore` does not hold literally (section 6),
so the module states what does hold: `OneSweepPerInterval`, and `LiveSessionSurvives`: a
live row is changed by nothing but its delete and its own `touch` and `save`, and these
leave it alive unless their statement ran as late as the TTL they give (`InTime`).

### 2.2 Session values

`SessionWrites` runs tasks that write through `Session` objects (`Holds` says which
task uses which object) to one stored row. `update_slot` and `write_value` are the
steps *begin*, *save* (compare-and-set on the version of the object's snapshot),
*get* (read the row back) and *adopt* (make it the snapshot, and return, retry or
raise). Two tasks of one handler that share an object may adopt answers in the
wrong order; a task may be cancelled at any await; the session may vanish at any
time (`Vanish`: it lapsed, or another request closed it).

### 2.3 Request state

`RequestState` has the rows (`states`), the history of what was stored under each
id (`opened`), the ids an answer carried to a client (`known`), and per request its
place in `Dispatcher.run`: *restore*, *handler*, *protect*, *drop*. `Ask` leads to
`Protect`, which writes the next row, and `Drop` ends the run. `Protect` may
fail, `Cancel` may hit at any await, `Expire` may hit any row, and `Receive` names
any known id with any call. `finished` counts how many round trips ended with each
id. The client may or may not get the answer (`known` grows or does not).

### 2.4 Hub

In `TopicLog` a topic is a sequence, `kept` the indices still retained, and a reader
a place in it. `PostgresHub` is a publish in three steps (advisory lock, insert with
an id from the sequence, commit), a poll that reads committed rows after the
cursor, position, delete and the sweep. Its `Log` instance maps each topic's
published ids, in order, to the log.

`HubBackends` has the three hubs whose publish is one step. `publish` draws the next
id in the manner of the `backend` (the counter of `MemoryHub`, AUTOINCREMENT, the clock
of Redis, which may stand still) and trims to `Keep` where the hub does; `sweep`, `Lapse`
and `delete` take events away. A reader that resumes names an id, which may be gone, and
`Subscription` keeps what it polled in `pending`. All three implement `TopicLog` under
one mapping. Ids are bounded by `Id`, to which a publish keeps.

`Ordered` puts a finite set of ids in order by counting: the rank of an id is how many
are not greater. That is what `ORDER BY id` returns, and a form that can be reasoned
about: a later id leaves the ranks of the earlier ones as they are.

### 2.5 Questions on a stream

`PushAsk` is the asker (`subscribe`, `emit`, `loop`, `poll`, `leave`), a client that
posts up to `MaxReplies` answers of any kind, which travel out of order and may be
lost, `relay_reply` on any worker, a deadline, and interrupts. `answer_of` turns the
kinds of answers into what the handler sees.

### 2.6 SSE responses

`SseQueue` models `asyncio.Queue` itself as far as its waiting putters go: a getter
wakes the one that waits longest, a woken one looks again when it runs, and one
that is cancelled after it was woken passes its turn on. `push`, `close`, and the
writer's `_deliver` (take the first event or time out, drain the rest, write, and in
the end empty the queue for those who wait) are on top of it. The client may go
away at any write.

### 2.7 Client and endpoint

In `HttpSession` every task has a stack of exchanges, `todo[t]`. An exchange is one
HTTP request: unsent, sent with the session id the client held at that moment,
judged by the endpoint (404, or run), answered, received. A 404 that the client
takes for a lost session pushes a handshake (initialize, initialized, restore the
log level) above the exchange to repeat. These exchanges can lose their session
too, hence a stack. `Lose` drops any session, `Break` cuts an exchange.

### 2.8 Notification streams

`NotificationStreams` is one stream of one `kind`. `Subscribe` takes the cursor, `Tell`
acknowledges or sends the headers, `resumed` starts after a `Last-Event-ID`; then
`Poll`, `Reread` (of the session and its subscriptions) and `Write` alternate as the
awaits of the three loops do. `Publish`, `subscribe`, `unsubscribe`, `Cut` and `Lapse`
come between any two of them. The stream of 2024-11-05 has a second topic, `outbox`, for
replies to posted messages (`receive`, `serve`, `relay`), and its `Finally` and
`DeleteSession` end topic and session. `due` is history: the changes this client has been
promised, that is, published while it was subscribed and its stream had said so.

### 2.9 Bytes of a stream

In `SseFrames`, `Write` puts an event on the wire as lines, each ended by LF, CR or CRLF;
`Chunk` brings any prefix of what is there, and `StopAsyncIteration` is its end. `Read` is
what `read_frames` does with either: `Held` is the CR that it keeps back until it has seen
what follows, `Unified` makes one LF of every ending, and the byte order mark goes once
enough has come to tell it. `Yield` cuts one frame at the first blank line (`Cuts`) and is
one round of `read_sse`, which adds up its lines (`Decoded`).

### 2.10 Stdio

`StdioChannel` has two pipes. A request whose handler may ask runs as a task in
`active`, any other in the loop (`inline`), which reads nothing meanwhile. `execute` is
the end of either: it `Replies`, or an exception leaves `dispatcher.run`, `encode` or the
write. That of a task is logged and nothing is sent (`Raises`); that of the loop ends the
loop (`BreaksLoop`), which cancels the tasks and leaves EOF for the client (`ReadEof`).
`raised` remembers the calls the code never answers. The client waits for one call; `GiveUp` is a task cancelled while it waits, `Tell` a frame from a
client that reuses or cancels ids, `Close` the end of the input.

### 2.11 OAuth

In `OAuthServer` a login is a row per stage (consent, upstream, code). A request
*arrives* with any ticket, state or code that was ever handed out, *takes* its row
(compare-and-set), *deletes* it, and goes on, or dies at any of these points.
Time counts in halves of a second because lifetimes are rounded to whole ones.

`OAuthClient` is the account context under its lock: `Start` and `Enter`, then the awaits
of `begin`, `complete`, `token` and `invalidate`; `Saved` may fail with the record on disk or
not; `Crash` starts the process again from the disk. `Send` is the MCP server's answer,
and a 401 leads to `invalidate` and one repeat, as in `Client.http_request`.
`OAuthCallback` is the web page on top of it. Its `begin` is two steps, for it awaits
`OAuth.begin` between its cancel (`begin`) and the new attempt (`Begun`), and any number of
tasks may be between the two. `overtaken` is history: the logins replaced by a `begin` that
had cancelled before they were there.

### 2.12 A request

`Requests` sends up to three requests, one after the other. Each is composed as the
client's revision does, and `q.intact` says whether it arrives so or with one thing
changed (another header, another id, a batch, another account or issuer). The steps are those of
`Endpoint.handle`: Origin and method, authentication, `choose`, decoding, checks of the
revision, session, dispatch, reply. `ran` is what the dispatcher was given. A session
may lapse before any request. A caller is known by an issuer, which may be missing, and a
subject (`identity`), whatever policy let it in; `SessionsServeTheirOwner` compares a
session's owner with the identity of the credential that came with the request.

`Asking` runs one call by the three mechanics of asking. A handler is a sequence of
steps: ask, raise `NeedInput`, log, fail. `call_tool` and `on_ask` are the client's rounds,
`push_ask` the question on the stream, `resolve_need_input` and `ask_on_the_stream` the
server's choice. `ex.dep` is a dependency that an async generator provides.

`RequestState` (2.3) is where the state between two rounds is kept.

In `Listings`, `Register` is any registration with its refusals; `entries` is what a
revision shows, `read_resource` and `call_extension` what it serves, `pages` and `Page` a
client that follows cursors while more is registered. A page is cut from the entries in
order (`InOrder` of `Ordered`). Names and URIs are numbers in the order of their text, and `Matches` says which URIs a template fits.

## 3. Runs

| Run | Parts | Asks |
|---|---|---|
| `storage` | `MemorySessionStore`, `SqliteSessionStore`, `RedisSessionStore`, `PostgresSessionStore`, `PostgresHub`, `HubBackends` | the three stores implement `SessionStore` (`ImplementsContract`, `RowsImplementContract`), a lookup leaves nothing expired in memory (`ExpiredArePurged`), PostgreSQL workers sweep once per interval and end no live session with a statement that judged by an old clock (`OneSweepPerInterval`, `LiveSessionSurvives`), all hubs implement `TopicLog` (`HubsImplementTopicLog`, `NothingAppearsBehindACursor`) |
| `sessions` | `SessionWrites`, `HttpSession`, `NotificationStreams` | no update is lost, doubled, reverted or given up for nothing (`AnswersAreTrue`, `AppliedOnce`, `NothingReverted`, `LossesAreReal`); a call runs once and leaves the client with its session (`ServedOnce`, `SettledClientHasItsSession`, `CallsEndRepaired`); changes arrive once, in order, and none is missed (`InOrderOnce`, `NothingMissed`); writes and streams get to their end (`EveryWriteEnds`, `StreamsDeliver`) |
| `call_stream` | `PushAsk`, `SseQueue`, `SseFrames`, `StdioChannel` | the first answer counts and none is passed over, a topic ends with its question (`NoAnswerIsPassedOver`, `FirstAnswerCounts`, `TopicEndsWithItsAsk`); what is written is complete and in order (`WireIsComplete`) and read alike however it is cut (`ChunksDoNotMatter`); no question, push or close waits for ever, nor a stdio call whose own task did not raise (`NobodyWaitsForever`) |
| `oauth` | `OAuthServer`, `OAuthClient`, `OAuthCallback` | tickets, states, codes and logins are taken once (`NothingIsTakenTwice`), a token follows its login and lives as told (`TokensFollowTheLogin`, `TokenLifeIsAsTold`), a refresh token is sent once (`RefreshSentOnce`), a token is given up for its own refusal only (`OnlyItsOwnRefusal`), and nobody is left waiting for a login that ended, unless an overlapping `begin` replaced it (`NobodyWaitsForNothing`) |
| `requests` | `Requests`, `Asking`, `RequestState`, `Listings` | a client's request is understood on every revision (`OwnRequestsAreUnderstood`), messages are answered as JSON-RPC owes it (`EachIsAnsweredAsOwed`), sessions serve their owner (`SessionsServeTheirOwner`), questions are asked once and end alike on every revision (`EveryQuestionIsSettled`), state stays with its call and its row goes only when that of the next round is there (`StateStaysWithItsCall`, `CutShortIsRepeatable`, `FinishedStateIsGone`, `SuccessorComesFirst`), what is listed is served (`ListedIsServed`) and pages are complete (`PagesAreComplete`) |
| `request_state_replay` | `RequestState` | violates `NoReplay` |
| `push_ask_error` | `PushAsk` | violates `AcceptedOnlyForAccept` |
| `http_session_race` | `HttpSession` | violates `LostRequestsAreRepeated` |
| `stdio_echo` | `StdioChannel` | violates `RepliesCarryNoReply` |
| `released_dependency` | `Asking` | violates `NothingReleasedIsUsed` |
| `ask_unanswered` | `Asking` | violates `EveryRequestIsAnswered` |
| `callback_overlap` | `OAuthCallback` | violates `EveryWaiterIsTold` |

The last seven are the subject of section 6.

### Bounds, and why they are enough

- *Stores.* The contract never relates two keys, except that a call on one key of
  the memory store purges the other: hence two keys there and one elsewhere. A TTL
  of 1 lapses and one of 2 outlives it or is renewed. The clock goes to 3 in memory and
  to 5 in the others, where versions go to 2: far enough for a record to be created,
  saved, lost and created again under a version that an older caller still remembers.
  In PostgreSQL two workers have TTLs 1 and 3 and a sweep every 2, so that the clock
  passes two sweep intervals while a transaction is open.
- *Hubs.* Two publishers, on one topic or on two, can draw ids in one order and try to
  commit in the other; four ids leave room for a gap, a swept row and a row after.
  In the other hubs three publishes are one more than `Keep`, of two topics one is
  never deleted, and the Redis clock takes two values, so two ids can share one.
- *Session values.* With two attempts and two rivals a write can be made to lose
  every attempt; two tasks share an object and one does not. A second write per task
  adds states and no new order of saves: the theorems cover any number.
- *Client.* Two tasks lose one session at the same time, or one task loses two
  sessions in a row, once inside the handshake that repairs the first, and one exchange
  breaks.
- *Notification streams.* Two changes, one list and one resource, two broken
  connections: a break before and after a resumption, and a resumption that finds one
  event sent and one not. Streams do not affect each other.
- *Questions on a stream.* They share nothing but the hub, where each has its own topic.
  Three answers of seven kinds are a first, a second that differs, and one that comes
  after the end.
- *SSE.* Two pushers of three events and the close can all wait at once for three slots,
  and the six events fill the queue twice. More waiting tasks than slots are left out of
  the liveness property only, because the code fails there (section 6). Two events of six shapes, three line endings and
  the mark are cut everywhere.
- *Stdio.* A call after one that was given up, failed or broke the loop; a third would
  meet what the second does.
- *OAuth server.* One login, presented by two requests of two browsers and two clients, of
  which one needs consent, with two verifiers. Logins share nothing. The clock goes from
  before to after every expiry: `FlowTtl` is 4, `AccessTtl` 5, accounts expire at 3 or 4,
  the horizon is 7.
- *OAuth client.* Two tasks, two grants, two logins and one crash: a refresh beside a task
  that still uses the old token, a login replaced by another.
- *OAuth callback.* Two tasks that begin, at once or in turn, and two callback requests.
- *Requests.* The first request opens a session, the second uses it, the third comes
  after it was closed or lapsed. Two subjects, an issuer or none, a password or a token:
  enough for one identity under two policies and for one name under two identities. All five revisions, several sets of served revisions and
  of policies are in `Confs`.
- *Asking.* Eleven handlers ask one to three questions in every way, or log, or fail, with
  two rounds allowed to either end, so that each limit is met and passed.
- *Request state.* Two requests with one id are enough to interleave restore and
  drop; the third id holds a state left behind by a request that was cut off.
- *Listings.* Four extensions claim what the application or another one has registered,
  under either address; pages of one, of two and of any length.

`CHECK_DEADLOCK FALSE` is set wherever the system may really stop: every task has done
its bounded work, the question is answered, the stream closed, the ids used up, the
clock at its horizon.

### Fairness

Safety is checked without fairness. The liveness properties need it:

- `EveryWriteEnds`: weak fairness of each task's step. The event loop resumes a task
  whose await was answered, and a store answers or raises.
- `CallsEndRepaired`: weak fairness of each task's exchanges: a request arrives and its
  answer comes back, or the exchange is cut. Sessions may be lost only `MaxLosses`
  times; a server that loses the session between every two requests would keep the
  client busy for ever, in the code as in the model.
- `StreamsDeliver`: weak fairness of the stream's handler, of the relay of replies and of
  the client's reading. Nothing is assumed of those who publish, subscribe or break the
  connection.
- `NobodyWaitsForever`, for questions: weak fairness of the asker's steps and of the
  deadline. Nothing is assumed of the client or of the network: that is the point.
- for the SSE queue: weak fairness of the writer and of a woken putter, and of a write
  ending in success *or* in a lost connection. A client that never reads and never
  goes away is one whose connection aiohttp will lose.
- for stdio: weak fairness of the server's loop, of handlers that wait for nothing, whose
  runs end by a reply or an exception, and of the client's reading while it waits.

## 4. Proofs

Every safety property that a passing run checks is also a theorem, for all
values of the constants that satisfy the named assumptions: any number of tasks,
workers, topics, readers and keys, any bounds, any clock. The assumptions are
`MemoryConstants`, `StorageConstants`, `SessionWritesConstants`, `SessionsConstants`,
`PushAskConstants`, `QueueConstants`, `StdioConstants`, `FramesConstants`, `ClientConstants`,
`OAuthServerConstants`, `RequestStateConstants`, `RequestsConstants`, `AskingConstants` and
`ListingsConstants`. They say that bounds are numbers, that the tasks of one stream are
finitely many, that a TTL, `Keep` and a page are not zero (as the code's defaults and its
checks have it), that texts have a line and an event's name and id are one (`one_line`), and
that a value which stands for "nothing" is not one of the values it stands beside. TLC evaluates all of them.

Three theorems have a hypothesis beyond these, because what they say is true only then
(section 6): `ListingsAreServed` has
`TemplatesApart`: apart from a method's route beside the template that an extension has for
older clients (`Precedes`), no template takes a URI of another template or of a resource, and
each of its addresses fits a URI of its own; and the two about questions have `AsksPlainly`, a handler that either calls `ask()` or raises
`NeedInput` and asks no key twice. `InstanceIsApart` and `InstanceAsksPlainly` of
`MCRequests` have TLC evaluate the last two on the instance.

Each proof has the same shape. A property is seldom inductive, so there is an invariant
that is, with a lemma for the initial state, one for each action, and one for the step.
What follows names these invariants, because they are why the code is right.

**Memory store** (`StorageProofs`). `TypeCorrect`, `PurgeIsNeverLate` (`CleanupNeverLate` is
invariant), `LookupPurges` (`ExpiredArePurged`) and `MemoryStoreImplementsContract`
(`ImplementsContract`). The invariant is `TypeOK /\ CleanupNeverLate`: the next purge is
never after the expiry of any record in the dict. One lemma per kind of step shows that
it stores, leaves or purges in a way that keeps this, and the refinement has one lemma
per operation, each split by whether the record is absent, lapsed between the two
readings of the clock, or alive. `MemoryPurges` and `MemoryMeetsTheContract` say the same
of the composition.

**SQLite and Redis sessions** (`StorageProofs`). `RowsMeetTheContract`: every statement,
script and sweep is a step of `SessionStore` or a stutter. Types are enough of an
invariant here, since each statement judges expiry by itself; for Redis also that a key
with a value has an expiry.

**PostgreSQL sessions** (`StorageProofs`). `SweepsApart` (`OneSweepPerInterval`) and
`LiveSessionsStay` (`LiveSessionSurvives`). The invariant says that a transaction's `now()`
is past (`NowIsPast`), that a save has room for its version (`SavesHaveRoom`), and that who
purges holds the sweep lock and looked under it (`SweeperHasTheLock`). A statement with an
old clock sees a live row as alive, so `create` and the purge leave it; what `touch` and
`save` write is `now() + ttl`, which is ahead of the clock if they were in time (`PgLiveRow`).

**PostgreSQL hub** (`StorageProofs`). `HubCommitsInOrder`, `NothingIsMissedByACursor`
(`NothingAppearsBehindACursor`) and `PostgresHubIsALog`, the refinement of `TopicLog`. The
invariant: who has inserted holds its topic's lock (`LocksAreHeld`), so its id is greater
than every id of the topic that is visible (`IdsAreFresh`), and a cursor was published
(`CursorsArePublished`). The refinement also needs that an id belongs to one topic
(`IdsAreOwn`) and that readers have what they got in order (`GotIsAnOrder`). The log maps
the k-th id to index k, and `OrderedProofs` has the lemmas on that: how a rank grows
when an id is added, that `InOrder` is a sequence of exactly the members and ascends.

**Memory, SQLite and Redis hubs** (`StorageProofs`). `OtherHubsAreLogs`. Rows ascend
(`RowsAscend`), across topics too where the backend shares one counter (`SharedAscend`), and
`ReadersAreBehind`: the next id of a topic is greater than all that its readers have
polled. The last one is what a trim, a sweep, a lapsed stream and a deleted topic could
break, because each of them can make a counter look at fewer rows than it numbered.
`HubsAreLogs` (`HubsImplementTopicLog`) joins the two.

**Session values** (`SessionsProofs`). `TypeCorrect`, `UpdatesAnswerTruly`
(`AnswersAreTrue`), `UpdatesApplyOnce` (`AppliedOnce`), `SavesNeverRevert`
(`NothingReverted`) and `LossesTakeRivals` (`LossesAreReal`). `AnswersAreTrue` alone is not
inductive: it does not say why a save that wins keeps what others wrote. `Snapshots`
does: each snapshot anybody holds was once the row, so equal versions mean equal
contents, and a save that wins extends the row itself. `WriteEntries` says where the entry
of each unanswered write is: in the row exactly when its save won. For `LossesTakeRivals`
a second invariant, `Rivals`, counts the versions that others must have written since a
task began.

**Client and endpoint** (`SessionsProofs`). `CallsAreServedOnce` (`ServedOnce`),
`ClientsSettle` (`SettledClientHasItsSession`) and `LonersRepair`, the safety half of
`CallsEndRepaired`: a 404 is repaired unless another task has taken the id away. A call's
handler runs once because what was served is no longer waiting at the bottom of any
stack (`ServedIsOver`), and ids the endpoint hands out are new (`MintedIsFresh`). The
session is the right one in the end because, while whoever sets the log level is alone
on the client (`SetterIsAlone`; section 6 has the other case), somebody is opening a
session whenever there is none (`SomeoneOpens`), and the session named has the level asked
for or a task is about to send it (`UpToDate`, `LevelIsKept`).

**Notification streams** (`SessionsProofs`). `NotificationsComeInOrder` (`InOrderOnce`) and
`NoNotificationIsMissed` (`NothingMissed`). What was got, was written, and is yet to be
polled are three stretches of the log that follow one another (`Ascending`), over a cut
too, because the last event received is where the next stream starts (`Resumable`); what
is due is in one of them or ahead of the cursor (`Promised`, `Ahead`). Replies on a
2024-11-05 stream have a topic and an argument of their own (`Letters`).

**Questions** (`CallStreamProofs`). `NothingIsPassedOver` (`NoAnswerIsPassedOver`),
`FirstCounts` (`FirstAnswerCounts`) and `TopicsEnd` (`TopicEndsWithItsAsk`). No answer exists
before the question went out (`NothingBeforeTheQuestion`), which is after the cursor was
taken; no two events have one number (`EventsAreNumbered`), and while the asker waits, the
first answer is the one with the smallest (`FirstIsEarliest`, `FirstIsAnAnswer`).

**SSE queue** (`CallStreamProofs`). `NothingIsLostOnTheWire` (`WireIsComplete`). What was
written, the writer's batch and the queue, joined, hold each task's events once and in
order (`OnceInOrder`); each task knows how far it got (`PushersKnow`), who waits for a slot
has an event to put (`WaitersHaveAnEvent`), and what a close owes the client is ahead of
its sentinel (`OwedIsAhead`).
`NoTurnIsLost` (`TurnsAreKept` of `SseQueue`) is what `NobodyIsStuck` rests on: while a task waits
for a slot, as many items are queued or tasks woken as there are slots (`SlotsAreTaken`),
although a woken task may be overtaken or cancelled; with as many slots as tasks nobody
waits once the writer is done (`LeftOver`); and a close that joins the writer has its
sentinel ahead (`EndIsAhead`).

**Stdio** (`CallStreamProofs`). `NoCallIsLost` (`CallsAreOnTheirWay` of `StdioChannel`), what
`EveryCallEnds` rests on: the call a client waits for has its request, its question, the
answer to that or its reply in a pipe, or a run that can go on and is not stopped, or EOF
ahead because the loop broke; what remains is an exception of its own task, for which the code
sends nothing. And the loop waits for no handler that waits for something, nor beside a task
(`LoopGoesOn`). It holds because a call that is waited for is the newest (`NothingIsOlder`)
and was not given up (`NobodyCancels`).

**Bytes of a stream** (`FramesProofs`). `ChunksAreOne` (`ChunksDoNotMatter`), for any events,
endings and cuts. The invariant (`FramesHold`) speaks of the *text ahead*: what the buffer
will be once all that is held back or on the wire has been read, as if it came at once.
It is the events that the reader has not been told of, one after the other: `Reading`
says at which position the lines of each stand, that every line has an LF after it and every
event one more, and that there is nothing else but LFs; and that the last id and the events
told are those of the events before. That no step changes the text ahead, except by what it
writes or cuts off, rests on three lemmas. `UnifiedJoins`: endings may be unified piece by
piece, unless a piece ends with CR and the next begins with LF. `ReadTogether`: `read_frames`
never reads such a pair apart, since it holds the CR back; an event that begins with an LF
has no lines, so the writer cannot do it with anything that counts (`WrittenIsBlock`).
`MarkIsRemoved`: the mark is removed as soon as it could be told from anything else, and
nothing else is. `FirstCut` says that the first blank line is an empty event's or the end
of the first event with lines, and `FrameIsDecoded`, by induction over its lines, that
`read_sse` makes of these lines the event that was written. The definitions by recursion on
the length of a sequence unfold by `StepsDefine` of `OrderedProofs`, and `SequenceInduction`
there is the induction.

**OAuth server** (`OAuthProofs`). `ServerSpendsOnce`, `TokensFollow`
(`TokensFollowTheLogin`) and `LifeIsAsTold` (`TokenLifeIsAsTold`). A row that was taken is
`used` until it is gone, and its stage is never stored again (`TakenRowsAreUsed`,
`StagesInTurn`), so one request at most holds it (`OneHolder`); what this request knows of
the login is what the login granted (`DecisionsAreTaken`, `PrincipalsAreGranted`,
`TokensAreGranted`), one token is issued (`IssuedOnce`) and its answer speaks of that token
(`ToldIsTheToken`). `TakenOnce` (`NothingIsTakenTwice`) joins server and client.

**OAuth client** (`OAuthProofs`). `RefreshOnce` (`RefreshSentOnce`) and `FreshTokensStay`
(`OnlyItsOwnRefusal`). Exactly the task between taking the lock and leaving it has it (`LockIsHeld`);
while a refresh token is out, memory offers none, and from before it is sent the disk
neither (`ReservationsHold`); and one that either still offers was never sent
(`AvailableAreUnsent`). Nothing is in memory before the disk was read
(`NothingBeforeRestore`), which is the case of a restart.
`NobodyWaits` (`NobodyWaitsForNothing`), for any number of tasks that begin, cancel and
handle callbacks in any order: a future that is pending is the one of the open attempt or of
the callback that took it, or it belongs to a login that was replaced by a `begin` whose
cancel came before that login was there. An attempt that goes, goes with its outcome set or
into the hands of a callback; only the second half of a `begin` replaces one as it is.

**Request state** (`AskingProofs`). `TypeCorrect`, `StateStays`
(`StateStaysWithItsCall`), `CutShort` (`CutShortIsRepeatable`), `FinishedGone`
(`FinishedStateIsGone`) and `SuccessorFirst` (`SuccessorComesFirst`). The invariant says of
every id what was stored under it and that its row stays until its TTL or the end of a
round trip (`RowsAreKept`, `RowsAreAsOpened`, `FinishedRowsAreGone`), and of every request
what it came from and what it left (`SuccessorsAreOpened`, `RunsAreTyped`).
`SuccessorFirst` is about every step that takes a row away, whoever takes it: but for the
TTL that is the last step of a run that came from it, and a run that asked again has by then
stored the row its answer names, which is another one, since the two belong to different
rounds.

**Requests** (`RequestsProofs`). `RequestsOfOwners` (`SessionsServeTheirOwner`): a session
that was found was opened by the identity the request's credential has, whichever policy
took it (`Bound`); who is let in has that name exactly where there are policies
(`VerifiedNames`). `RequestsAreAnswered`
(`EachIsAnsweredAsOwed`): at each step the answers are those owed for the messages gone
through (`Owing`). `RequestsAreUnderstood` (`OwnRequestsAreUnderstood`): what an unchanged
request carries at each step, revision by revision, is what its client composed
(`OwnIInv`); and a request of an older revision that the endpoint reads as one of
2026-07-28 is answered by nothing but faults, none of which its client can take for a
lost session (`ReadAsModern`).

**Pages** (`RequestsProofs`). `PagesComplete` (`PagesAreComplete`). The entries a revision lists
are a finite set that only grows (`RegistryShape`), so the cursor, which is the last entry
shown, stays listed and is never refused; and what a client has got is all that was there
when it began, up to its cursor (`Following`).

**Listings** (`RequestsProofs`). `RegisteredIsReached` (`OwnHandlers`): a resource that is found
under a URI of its own is found by its own handler, and a method reaches the extension that
declared it. `ListingsAreServed` (`ListedIsServed`): on every revision what is listed is read
and what is read is listed, under `TemplatesApart`. The invariant (`ServedIInv`) relates the
registry's lists to each other: no address is claimed twice, by an application or an
extension, under its canonical URI or the legacy one that an extension's resource has
besides, and the templates of methods come before the others (`Apart`); every method of a
registered extension has its route, and no two extensions share a method or a name (`Routed`).

**Questions settled** (`AskingProofs`). `PlainQuestionsAreSettled` and `QuestionsAreSettled`
(`EveryQuestionIsSettled`), for any handlers that ask plainly, any user, any limits on rounds
and all revisions. The invariant (`AskInvariants`) says of the run in progress how far it
got in its steps and which questions lie behind (`RoundsAsk`, `EndsSettled`); of the client that
the answers it holds are those of questions put before (`Recalls`), each put once (`AskedOnce`);
and that what travels between them, in the arguments, in the state or on the stream, are these
answers and no others (`ToldSoFar`, `StateIsLast`). A handler that
is started again thereby finds the answers of all its earlier rounds and stops at the first
question that has none.

### What stays with TLC

- *Liveness*: `EveryWriteEnds`, `CallsEndRepaired`, `StreamsDeliver`, `NobodyWaitsForever`.
  Fairness is defined by `ENABLED`, for which the prover has no rule. What can be said
  without it is proved: no wakeup, call, answer or change is lost that somebody waits for
  (`NoTurnIsLost`, `NoCallIsLost`, `NothingIsPassedOver`, `NoNotificationIsMissed`), a save is lost
  to a rival's only (`LossesTakeRivals`), and no login waits for nothing but one that an
  overlapping `begin` replaced (`NobodyWaits`).
- The seven violations of section 6 are counterexamples and need no proof.

## 5. What is left out

- *Payloads.* A record carries a model value, a payload the number of the round that
  left it, an event nothing but its id.
- *Conversions without a decision in them*: JSON, the shapes of results in the five
  revisions, the rewriting of JSON schemas for older ones, URLs, compression. Headers,
  `_meta`, base64 sentinels and capabilities are modelled as far as one end must find
  what the other wrote.
- *Connections.* Pools, DDL, WAL and busy retries, reconnection.
- *Namespaces*, which prefix every key: the models live inside one, and `Requests` has
  two only to say that the sessions of one are not found from the other.
- *Cryptography.* The signature and the claims of a JWT, PKCE's hash and the sealing of
  encrypted tokens are each one outcome of a credential.
- *Metadata documents and routes*, which are constructed once.
- *The loopback client*, which calls the dispatcher in its own task: nothing is
  concurrent, and what it calls is modelled.
- *Loading*: signatures read for tools, skill files, settings.
- *Console, testing helpers, examples*: a static page, fixtures, and applications of the
  library.

Each of these is one line of the inventory with nothing that changes while a server
runs, or I/O whose failure the models have as one outcome.

## 6. What the models say that the documentation does not

Seven runs end in a violation. Each checks a sentence of the documentation or of a
comment in the code.

1. **A state id can finish two round trips** (`request_state_replay`).
   `docs/guide/sessions.md:175-176` says of the state that it "is dropped as soon as the
   round trip ends, so it cannot be replayed". `Dispatcher.run`
   (`server/dispatcher.py:117`) reads it before the handler and drops it after. Two
   requests that carry one id at the same time both read it and both run. What does
   hold is proved: one that *starts* after a round trip ended is refused
   (`FinishedGone`).
2. **A JSON-RPC error counts as an acceptance** (`push_ask_error`). `relay_reply`
   (`server/exchange.py:51`) publishes `body["error"]` as it would a result, and
   `answer_of` takes an object without an `action` for content without a verdict, that
   is for an acceptance. `docs/guide/asking.md:183` says "`accepted` is true only for
   `accept`".
3. **A lost request is sometimes not repeated** (`http_session_race`).
   `HttpClient.lost_session` (`client/http.py:141`) asks whether the *client* holds an id
   now, not whether the *request* named one. While one task shakes hands, the id is
   `None`, and a 404 for another task's request reaches the application as an
   error. `docs/guide/sessions.md:258-262` promises a repeat. `CallsEndRepaired` shows
   that this needs a second task on the same client.
4. **A late reply over stdio is answered, and its answer too** (`stdio_echo`).
   `client/base.py:106` says that answering the server "carries no reply of its own". A
   reply to a call that was given up is taken for a question and answered
   "unsupported" under the call's own id; the server cannot decode that and answers it
   with an error, and so on while the client waits for its next call.
5. **A handler that starts over gets a released dependency** (`released_dependency`).
   `Exchange.scope` closes what an async generator provided when the handler is left,
   by `NeedInput` too, but `Exchange.resolve` (`server/exchange.py:102`) remembers it for
   the exchange, and `ask_on_the_stream` runs the handler again with it.
   `docs/guide/dependencies.md:120` offers such providers for transactions and locks.
6. **A prompt that fails after its question leaves no reply** (`ask_unanswered`).
   `Dispatcher.run` runs it again from inside an `except` clause
   (`server/dispatcher.py:109`, `:153`), so the clauses below that turn a failure into an
   error do not see this one. `docs/guide/exchange.md:89-90` says that exceptions "are
   handled by the dispatcher". Over stdio the client of such a call waits for ever: the
   exception is logged and nothing is sent (`server/stdio.py:87`; `Raises` in
   `StdioChannel`, which `NobodyWaitsForever` excepts).
7. **Two overlapping begins leave a waiter for ever** (`callback_overlap`).
   `OAuthCallback.begin` cancels what is there, awaits `OAuth.begin`, and then sets `attempt`
   and `outcome` (`client/callback.py:44-46`). When two requests begin at once, both may have
   cancelled before the first has its new outcome; the second overwrites it, and whoever
   waits for it is never told. `client/callback.py:50` says of `wait` "Wait for token
   acquisition and persistence, or raise their error", and
   `docs/guide/client-oauth.md:146-148` that "Starting a new attempt replaces the previous
   one", with a `POST /connect` (117-121) that nothing keeps from overlapping.
   `NobodyWaitsForNothing` shows that this is the only way to be left waiting.

Observations that no run reports.

Sessions and storage:

- **PostgreSQL can bring back a session that has just lapsed.** A `touch` or `save`
  (`storage/postgres.py:304`) whose transaction began before the TTL lapsed and whose
  statement runs after it finds the row alive by its `now()` and renews it.
  `docs/deployment/stores.md:393-394` says that neither may. Therefore
  `PostgresSessionStore` is not checked against `SessionStore`; `LiveSessionSurvives`
  says what it does promise.
- **PostgreSQL can end a live session by renewing it.** What a `touch` or `save` writes is
  `now()` of its transaction plus the TTL (`storage/postgres.py:298`, `:311`). If its
  statement has to wait for the row as long as that TTL, the expiry it writes has already
  passed, even where the row, renewed by another worker meanwhile, was alive. This is the
  exception (`InTime`) in `LiveSessionSurvives`.
- **A Redis topic may stay for ever** when the process dies between `XADD` and `EXPIRE`
  (`storage/redis.py:171`). `expiring` in `HubBackends` has this state; the next publish
  on the topic repairs it.
- **Answers do not renew a session.** `docs/guide/sessions.md:256` says that each request
  with the header does; an answer to a pushed question is relayed before
  `load_session` (`server/http.py:320`).
- **An answer after its question makes a topic nobody reads** (`server/exchange.py:52`),
  and so does one after its 2024-11-05 stream (`server/sse.py:132`); the hub's retention
  takes it away.
- **`initialize` that fails half-way** leaves `session_id` unset (`client/http.py:147`),
  and the calls after it run without a session. `Break` in `HttpSession` has this.
- **A log level set during another task's handshake** may end up on the client and not
  on its session, or the other way round (`client/base.py:203`).
  `SettledClientHasItsSession` leaves this case out.

Streams:

- **An SSE stream with more waiting tasks than slots may never close.** When the
  writer stops it empties the queue once (`transport/sse.py:222`), which wakes as many
  putters as there were items; they fill the queue again, nobody reads it, and a
  putter (or the `close` at line 247) that waits behind them waits for ever.
  `NobodyWaitsForever` is checked for no more tasks than slots, which the default of 1024
  slots makes the normal case.
- **A push waits for the network once the queue is full** (`transport/sse.py:200`),
  where `docs/deployment/transports.md:52-53` reads as if it never did.
- **A GET stream opened without `Last-Event-ID` subscribes after its headers went out**
  (`server/http.py:460`): a change between the two is not announced to it. `due` counts
  a change from the subscription on.
- **A 2024-11-05 stream whose opening fails after `open_session`** leaves the session to
  its TTL: the `try` begins later (`server/sse.py:113-126`).
- **A chunk that holds nothing but line ends at the start of a stream** leaves `start`
  set in `read_frames`, so a byte order mark after it would still be removed.

Asking:

- **A handler that asks by `ask()` and then raises `NeedInput`** is started over on
  revisions 2025-06-18 and 2025-11-25 without the answers `ask()` had: the user is asked
  the first question twice. `EveryQuestionIsSettled` is checked and proved for handlers that do
  not mix the two (`AsksPlainly`).
- **State is lost when a later round asks by `ask()`**: that round names no state
  (`server/exchange.py`, `ask`), so the handler that resumes finds none.
- **Logging without a stream fails the tool**: `Exchange.log` (`server/exchange.py:258`) goes
  to `emit`, which asserts a stream; its docstring says "Without a stream, emit nothing".
  `log` of `Asking` has this.
- **The library's client does not answer prompts that ask** by the result: `get_prompt`
  has no rounds, while `docs/guide/prompts.md:117` offers asking in prompts.

Requests:

- **A header value that looks like a base64 sentinel is decoded** although it was sent
  plain (`protocol/v2026_07_28.py:78-104`); `Requests` sends no such text.
- **A client that has not listed the tools sends no `Mcp-Param` headers**, because
  it does not know which parameters are mirrored.
- **Notifications of 2026-07-28 without the version header** skip the header checks.
- **A batch that contains `initialize`** opens a session whose id no header tells.
- **A server that serves revisions 2026-07-28 and 2025-03-26 but not the stable one**
  refuses the handshake of a client that states no revision.
- **One identity may be known by two policies**: a Basic account and a bearer subject
  without an issuer have the same name (`auth/__init__.py:41-47`), and the one may use the
  other's session. `docs/guide/auth.md:216-219` says so, and `SessionsServeTheirOwner` is
  about identities, not about policies.

Listings:

- **A legacy client may subscribe to a template URI it cannot read**: `subscribe` takes the
  canonical URI, `read_resource` only the legacy one, and updates under the canonical URI
  never reach it.
- **An application template that overlaps an extension's** shadows it where both fit, and the
  first of two templates of an application the second. Registration refuses equal addresses
  only; `TemplatesApart` is what it would have to check for `ListedIsServed` to hold always.
- **An extension with a later `min_revision` than the client's** is refused as a method
  (`server/dispatcher.py:204`), while the resource routes of its methods serve every older
  client.

## 7. Plan

Written: everything the inventory lists except what section 5 leaves out, and the proofs
of section 4.

Next:

1. **Composition**: `SessionWrites` and `RequestState` over `SessionStore` in place of
   their own row; `PushAsk` and `NotificationStreams` over `TopicLog` in place of
   their own topic.
