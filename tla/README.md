# Verification of cockpit-backend

cockpit-backend is a proxy in front of the Codex upstream. Clients speak the
OpenAI protocols to it (HTTP, server-sent events, websocket); it holds a set of
*credentials*, picks one for every request, translates the request, calls the
upstream, and learns from the answer which credentials are usable for which
models. Credentials and configuration live in a Nacos document, are watched, and
can be changed through a management API and a login flow.

This directory holds TLA+ modules of the parts where order and concurrency decide
whether the proxy is right, TLC configurations that check them on small
instances, and proofs for TLAPS. `PROJECT.json` lists the components, the runs,
the mutants (a plausible bug for every property, which TLC must find), the source
lines of every definition, one disagreement with the repository's own statements
(section 8 has the others), the hazards and the theorems.

    tlc -workers 2 -config MCCodexWsSession_turns.cfg MCCodexWsSession   # a run
    tlapm ModelsProofs.tla                                               # the proofs

## 1. The system

| Component | Code | State | Operations | What is hard |
|---|---|---|---|---|
| model registry | `internal/registry/model_registry*.go` | reference counts per model and provider, clients over quota, suspended clients, a cached listing | register, reconcile, unregister, quota and suspension marks, listings | duplicates in a client's list, provider changes, a cache filled without holding one lock throughout, windows that end by time alone |
| model catalog updater | `internal/registry/model_updater.go` | the last catalog, pending changed providers | fetch, compare, notify | a callback that is set late, changes that merge |
| credential state | `sdk/cockpit/auth/conductor_result*.go`, `selector.go` | per credential and model: cooldown, quota, backoff level, error; an aggregate | MarkResult, cleanup, expiry | results arrive in the order in which requests end; a suffix in the model name |
| scheduler | `sdk/cockpit/auth/scheduler*.go` | shards per provider and model, buckets per priority, cursors | upsert, remove, rebuild, pick, promote | indices patched step by step must stay what a rebuild gives; fairness over providers |
| credential manager | `sdk/cockpit/auth/conductor*.go`, `sdk/cockpit/service_*.go` | the credentials, who is refreshing which, executors | Register, Update, Remove, MarkResult, refresh loop, catalog callback | three locks that are never held together, clones made before a call and stored after it |
| request execution | `conductor_execute*.go`, `sdk/api/handlers/*.go`, `.../openai/*.go` | the loop of rounds, three goroutines and two channels per stream | execute, count, stream, peek, forward, convert | retry before the first byte and never after, errors and ends racing in two channels, disconnects at any time |
| upstream websocket sessions | `internal/runtime/executor/codex_websocket*.go` | per session a lock, one connection, the active channel, one reader per connection | Execute, ExecuteStream, readUpstreamLoop, close | readers of lost connections, retries, refused handshakes, a lock held across goroutines |
| websocket relay | `internal/wsrelay` | sessions by provider, pending requests, bounded channels | connect, dispatch, clean up, NonStream, Stream, Stop | sessions that replace each other, four callers of one clean-up, full channels |
| responses websocket endpoint | `openai_responses_websocket.go`, `openai_responses_ws_*.go` | last request, last output, pinned credential | turns | what the next turn starts from after an error; whether an increment reaches the one who knows what it adds to |
| store | `internal/nacos` | one document of all credentials, one of the configuration | list, save, delete, watch | read, modify, publish without a version; digests that hide changes |
| watcher | `internal/watcher` | the last set of credentials, pending updates | reload, diff, dispatch | diffs made under a lock and dispatched after it; batches lost at a stop |
| service | `sdk/cockpit` | the life cycle, the update queue | start, stop, apply an update | order of callbacks and queue |
| management API | `internal/api/handlers/management` | none of its own | create, patch, delete credentials; configuration | two steps, store and manager, either of which another may see first |
| logins | `.../management/auth_files_oauth.go`, `oauth_*.go` | sessions by state, the listener on the provider's port | create, redirect, call back, poll, expire | callbacks that are late or come twice; one port for all logins |
| HTTP executor | `internal/runtime/executor/codex_executor.go` | the state of one stream's translation | Execute, ExecuteStream, compact | what an incomplete body means |
| thinking | `internal/thinking` | none | suffix, body, validation, application | words, numbers and levels converted into each other |
| translators | `internal/translator` | the stream's state | requests, streams, whole responses | calls told in several ways, names cut and restored |
| access, configuration, OAuth cryptography, logging | ... | hardly any | one call, one assignment | |

How they interact: the watcher sends updates to the service, which registers,
updates or removes credentials with the manager and their models with the
registry; every such change is handed on to the scheduler. A request asks the
manager, the manager asks the scheduler for a credential (and rebuilds it once
from its own map if there is none), calls the executor and reports the result
back, which changes the credential's state, the registry's marks and the
scheduler. A stream is passed from the executor through a goroutine of the
manager and one of the handler to the one that writes the response. The websocket
executor keeps one upstream connection per downstream websocket.

What makes each part correct, and which module says so: counts are exact and
listings are not stale (ModelRegistry); backoff is bounded, the aggregate says
what the models say (AuthAvailability); the best usable credential is picked
whenever there is one, and a round serves all (AuthScheduler); the last order
about a credential stands and its refresh token is spent once (AuthConductor);
the calls made for one request are bounded, none is made after the first byte,
errors are told and everything ends (RequestExecution); requests of a session
take turns and end (CodexWsSession); the latest relay session stays reachable and
every relayed request ends (WsRelay); the updates of a credential reach the
manager in order and to the last (UpdateDispatch implements UpdateFeed); the
manager ends up with what the Nacos document says (AuthSync); a stream adds up to
the whole response, tools keep their names, effort is honoured or refused
(CodexExecutor); the upstream gets the whole transcript of a conversation, or an
increment to a response it knows (ResponsesWebsocket); a login learns what became
of it and gives its port back (OAuthLogin).

## 2. Plan and modules

| # | Module | Composes | State |
|---|---|---|---|
| 1 | `ModelRegistry`, `ModelsProofs` | | checked, all its properties proved |
| 2 | `AuthState`, `AuthAvailability` | AuthState is a library of operators | checked, both safety properties proved (in `AuthSchedulerProofs`) |
| 3 | `AuthScheduler`, `AuthSchedulerProofs` | AuthState, manager, scheduler, registry offers, clock | checked, all its properties proved |
| 4 | `AuthConductor`, `AuthConductorProofs` | service, manager, scheduler, registry, refresh, at lock granularity | checked, both properties proved |
| 5 | `RequestExecution`, `RequestExecutionProofs` | manager loop, stream goroutines, handler, client | checked, all its safety proved |
| 6 | `WsRelay`, `WebsocketProofs` | manager, sessions, callers | checked, the table proved |
| 7 | `CodexWsSession`, `CodexWsSessionProofs` | requests, readers, peer, session owner | checked, turns proved |
| 8 | `WatcherReload`, `UpdateDispatch`, `UpdateFeed`, `WatcherProofs` | the watcher's reloads (shared with 9), dispatcher, queue and consumer; UpdateFeed is what they implement | checked, all its safety proved, the refinement's included |
| 9 | `AuthSync`, `WatcherProofs` | WatcherReload, an instance of UpdateFeed, store, management writes, refreshes, results, start | checked, both properties proved |
| 10 | `Thinking`, `ChatTranslation`, `ResponsesTranslation` | libraries of operators, each extends the one before but for Thinking | checked through 11 |
| 11 | `CodexExecutor`, `ModelsProofs` | 10 and one request from handler to upstream and back | checked, the effort and the names of tools proved |
| 12 | `ResponsesWebsocket`, `WebsocketProofs` | the endpoint's loop, the credentials it chooses from, the upstream's knowledge of responses | checked, all its safety proved |
| 13 | `OAuthLogin`, `OAuthLoginProofs` | creations, listeners, browsers, callbacks, sessions | checked, both safety properties proved |

Left for the plan: the model catalog updater (one goroutine that merges the names of
changed providers until a callback is set), and as abstract specification "a stream
of payloads that ends once, with or without an error" for RequestExecution.
Theorems left: four properties of CodexExecutor, of which section 6 says what they would take.

Conventions. Names follow the source. A step is one critical section of a mutex,
one channel operation or one call to the outside, except where the header of a
module says that a whole operation is one step. Definitions marked *Faulty
variant* belong to the mutants; the specification does not use them. Properties
under "what the repository says, and the code does not do" are violated by the
model: one of them has a run that expects the violation, section 8 says how to
see the others. Time is counted in ticks; constants named `Max...` and
commented *Bound* only keep the state space finite.

## 3. The modules

### ModelRegistry
`models`, `clientModels`, `clientProviders` and `cache` are the maps of the same
names, `reader` the goroutines in GetAvailableModels, `now` the clock. A
registration with count 0 is an absent entry. RegisterClient is one step, with
the reconciliation of the old and new list, duplicates counted; GetAvailableModels
is three (look, build under the read lock, store under the write lock).
Invalidation happens in the step that changes the state, as in the code.

The run `registry` has two clients, two providers, lists with duplicates and a
reader of the listing against all mutations and the end of windows:

* `CountExact`, `ProvidersExact`: the counts are the references held, those per provider
  too, and the metadata of a provider is there exactly as long. All registration paths
  have to agree on this, the reconciling one included.
* `ReadIsFresh`: a listing that is returned was right at some instant of the
  call, whether it came from the cache or not.

### AuthState and AuthAvailability
AuthState has the operators MarkResult consists of: the cooldown for each class of
status, the quota backoff, expiry, and isAuthBlockedForModel. AuthAvailability
runs one credential and two model names through results in any order, clock ticks
and changes of the cooldown setting. The run `scheduler` has an instance of it next
to AuthScheduler, two machines of which one moves, and checks `BackoffBounded` (the
shift cannot overflow) and `AggregateExact` (the aggregate, computed when a result arrives, is right at every
later instant, and shows an error exactly while some model does). The cooldowns are small but keep their order
(1 minute < 30 minutes = backoff maximum < 12 hours), which is all the code
compares. A result without a model never occurs in `src/`, so those branches of
MarkResult are left out.

### AuthScheduler
Manager operations whole, several credentials. `sched` is the scheduler: metas,
the provider each credential is at home in, shards (built when first asked for)
with their entries, sorted buckets and cursors. The manager's map, the registry's
offers and the clock change under it.

The run `scheduler` has two credentials that move between two providers and two
priorities, both strategies, and checks

* `PicksRight`: a pick is usable, there is one whenever a usable credential
  exists, and it is of the best priority; evaluated for every request in every
  state, not for a sample of calls;
* `Coherent`: a patched shard is the one a rebuild gives, and the scheduler has
  every credential where, and with the states and the priority, the manager has it;
* `RoundServesAll` (all three with the prefix MC in the run): from any cursor positions, as many
  picks as the request has providers times the credentials serve every usable credential
  of the best priority. The round must not be disturbed: a rebuild
  resets the cursors to zero, so a credential can be passed over for as long as
  rebuilds go on, which the code does not rule out and no comment denies.

pickSingle and the websocket preference are used by tests only.

### AuthConductor
One credential, every goroutine taken apart at its locks: the service loop
(updates and removals in order), requests that report results, the refresh loop
with its checkers, the rebuild after a failed pick, the catalog callback. Objects
are kept in a `heap`, because Register and Update store one clone of what they are given
both in the manager and in the scheduler, while the other paths give the scheduler a
clone of its own. `checks` are runs of checkRefreshes, each with the one instant at
which it read the clock: the look at the snapshot, the claim by markRefreshPending and
the next refresh that the claim writes all go by it, however late they come. A call that
fails reads the clock again (`CallFails`) before it takes the lock (`RefreshFails`).

* `conductor`: `LastOrderStands`: when all is quiet, manager, registry and
  scheduler agree with the last order, unless a goroutine that had already taken
  its view overlapped with it (recorded in `raced`). The exceptions are exactly
  those of section 8. `RefreshesApart`: two refreshes at once only after the
  pending time, counted from the instant of the older one's check, or after the credential
  was replaced under it, or after a failure so late that it brought the next refresh
  forward. Without the last excuse TLC finds the overlap.

### RequestExecution
One request from the handler to its last goroutine. `req` is the manager's loop,
`wrap` the goroutine of wrapStreamResult, `fwd` the one of
ExecuteStreamWithAuthManager, `conv` the completions converter, `client` the
handler. Unbuffered channels are rendezvous of two program counters; `errs` is
the one slot of errChan. Which usable credential is picked is left open.

* `request`: `CallsBounded` ((1 + retries) x credentials x (1 + restarts)),
  `VerdictMatchesEnd` (MarkResult learns what happened), `NoCallAfterPayload`,
  `LateErrorsTold` (a stream that breaks after its first chunk does not look
  complete), `DisconnectStopsAll` and `RequestEnds` (section 5).

### CodexWsSession
One execution session. `object` is a session object (lock holder, connection,
credential it was dialled for, active channel), `link` a connection and what its
peer still owes, `reader` its readUpstreamLoop with the channel it has looked up,
`chan` a request's read channel, `call` the request. The session is closed by its
owner at any time; the id may then stand for a new object. The offer of an error,
the clearing and the closing of the channel are one step, as are taking a
connection out and closing it: nobody can act on what lies between.

* `session_turns`: `ActiveHoldsLock` (the active channel belongs to the holder of reqMu)
  and `ConnectionsKept` (an open connection is the session's: no late reader makes
  the session forget its successor). Both are proved. `CancelledEnd`: requests of
  clients that give up end, so the lock comes round, unless a refused handshake has
  lost it.
* `session_lock` (violation): a refused handshake keeps the lock for ever.

### WsRelay
Sessions of one provider that replace each other, and requests over them. A
clean-up is a Range over the pending map with a step per entry, then the reset,
then the callback; dispatch loads, sends and settles in three steps; a request
stores, loads, writes and waits.

The run `relay` checks `LatestReachable` (the late clean-up of a replaced session
does not take its successor out of the table) and `RequestsEnd` (a caller returns
even if the final message is dropped, the session goes, or it is cancelled).

### WatcherReload, UpdateDispatch and UpdateFeed
WatcherReload has the variables and steps UpdateDispatch and AuthSync share:
`stored` and `current` are `storeAuths` and `currentAuths`, `reload` a reload in
each goroutine that makes them (the store's listener, the configuration's, Start):
begun, compared under clientsMutex, handed over under dispatchMu. `stage` is how
far Stop has come. Two histories serve the properties: `stale` (credentials whose
last update was handed over before an older one) and `unknown` (credentials the
manager has and no comparison ever saw). A credential is a content or Absent.

UpdateDispatch adds `pending` (the merged map), `loop` (dispatchLoop and the rest
of its batch), `queue` (the channel) and `consuming`. UpdateFeed says what that is
for: per credential a sequence of contents that have been handed over and not
applied, where a new one waits behind the others or replaces the last, and which
is applied to its end while the service runs.

* `dispatch`: `ImplementsFeed`: UpdateDispatch implements UpdateFeed, fairness
  included; the contents due to a credential are those in the queue, in the
  batch and in the map, in this order. `SettlesOnCurrent`: after everything is
  delivered the manager holds what the last comparison saw, `stale` and `unknown`
  credentials excepted. `StopEnds`: after Stop the loop and the consumer end.

### AuthSync
`doc` is the document in Nacos, `heard` what Nacos last told the listener,
`lastEntries` what the store compares notifications with, `mu` the holder of s.mu,
`writer` the goroutines that write: `put` (create, patch) and `delete` store first
and change the manager after, `refresh` the other way round, `result` (MarkResult)
writes with the manager's lock held. A store operation is read, publish and
record, each a step; a failure may lose the publication or only its answer. How updates get from the watcher to the manager is the
instance of UpdateFeed, which UpdateDispatch implements, so the dispatcher's
interleavings are covered without its state. `phase` is the start of the service.

* `sync`: `ManagerFollowsStore`: when Nacos has nothing more to tell and nothing
  is under way, the manager holds what the document says of a credential, unless
  one of the operators in `Causes` applied to it: these name every way in which
  manager and document part for good, and the run shows that there is no other.
  `OwnWritesKept`: a write changes its own entry of the document only, except of a
  credential that somebody outside changed in between.

The constraint `Together` ends a history of the run where a credential parts; the
theorems have no such bound, and say the same of every other credential however long
the history goes on. The causes:

| Cause | How |
|---|---|
| `Swallowed` | A change from outside that the listener has not been told of is in the document an own write reads; Record takes it for known, the later notification is ignored. Every MarkResult writes, so the window is often open. |
| `Undone` | A change from outside between a write's read and its publication is overwritten: the document has no version. |
| `MissedAtStart` | A change between List and Watch of Watcher.Start: Watch records it as known and passes it to nobody. |
| `Reverted` | Own writes never reach `storeAuths`. A reload forced by a change of the retry settings hands out what the watcher last heard: a patched credential goes back, a deleted one returns, until the next notification. |
| `Unsaved` | A refreshed token is in the manager, its publication fails, the error is dropped. |
| `Crossed` | Two writes, or a write and an update, of one credential at once. One case is plain: a result between the deletion from the store and the disabling in the manager publishes the deleted credential again. |
| `Untold` | After own writes, a change from outside, or a publication whose answer was lost, brings back the document that Nacos last told of: there is no notification. It parts the credentials of which the store remembers something else. |

Besides, `unknown` credentials (created through the API, or loaded and gone
before the first comparison) are not removed from the manager when they are
removed from the document, because no comparison has them; and `stale` ones were
handed over in the wrong order by two reloads.

### Thinking, ChatTranslation, ResponsesTranslation and CodexExecutor
The first three are operators named after the functions they model. A model name is
a sequence of tokens with "(" and ")" among them, a text a sequence of tokens, a
tool's name a sequence of segments whose number stands for its length; JSON fields
the code copies without looking are left out. CodexExecutor runs one request
through them: `Execute` is everything from the handler to the body that goes
upstream, then Codex tells items event by event (`upstream`), each event is translated
at once (`param`, `view`), and the body ends where it should or earlier. Codex is
external: reasonings, messages and calls come in any order, the first two with no part,
one or several, one item after the other, and a delta comes after the item it belongs to
was announced. `back` translates the same chunks once more, into
the events of a response: the pair of formats is registered, and a program that embeds
the SDK reaches it.

The run `codec` asks every request of three families (effort, at every endpoint;
tools with names that are long or alike; transcripts in the Responses format at the
chat endpoint):

* `EffortHonoured`: for a model of levels, a level that is asked for, by a suffix or in the
  body, goes upstream exactly or is refused because the model has it not; a number of
  tokens, in the suffix, is never refused, asks for the level whose budget it is, and a
  larger number never for less; "none" and zero are the least the model does, automatic
  is "medium". The levels rise by the budgets of `levelToBudgetMap`, not by their place in
  the catalog, which the assumption on the catalog says is the same;
* `ShortNamesRestored`: the names Codex is told of the tools are short, distinct, and become
  the client's again, that of the chosen tool too;
* `ToolNamesRestored`: the calls of the history have those names too, and every call that
  comes back, streamed or whole, is of a tool the client declared;
* `StreamMatchesWhole`: the chunks of a completed stream add up to everything Codex told,
  with a blank line after each part of a reasoning, whichever way it tells its calls; and
  to the answer that a client who waits would get, as long as the messages have one part
  between them, and the reasonings (the disagreement below);
* `EndpointsAgree`: a transcript in the Responses format means the same to Codex at
  both endpoints;
* `ResponsesWellFormed`: items are added, told and done in this order, one of a kind at a
  time, and the response that ends has all that was told, for one call and no message after it.

What a reader may stumble over, in the order of the code: the suffix (and "auto")
stays in the model that goes upstream from the responses endpoints
(`internal/thinking/types.go:84` calls ModelName "the model name with the suffix
removed"); an effort nobody asked for is "medium" for chat clients; automatic becomes
"medium" whether the model has it or not, which every model of the catalog does; a
suffix that is not understood passes the body's effort on unvalidated; a compaction
ignores the suffix; an object as tool_choice becomes its text on the way from
Responses to Chat; a stream that is cut before it completes ends without an error
(a request that waits gets 408), and `response.failed` is passed over; the finish
reason is tool_calls in a stream and stop in a whole; two calls in one chat choice become
one item of a response, and text after a call more of the message that the call has ended.
The properties say which of these they leave aside.

Stream and whole disagree where there are several parts or items: the stream tells every
summary part and every text part of every item
(`internal/translator/codex/openai/chat-completions/codex_openai_response.go:111-122`), with
a blank line after each summary part, and the whole has the first `summary_text` of the last
reasoning that has one and the first `output_text` of the last message that has one (lines
303-324, with a `break` after the first). So a client that waits for two summary parts gets
one of them. No statement of the repository says which is meant, so it is no finding;
StreamMatchesWhole says of the stream what it has in any case, and of the whole that it is
the same where there is one part. Without that condition (`Len(told) <= 1`,
`Len(thought) <= 1`) TLC finds it violated.

### ResponsesWebsocket
`conv` is the loop in ResponsesWebsocket with `lastRequest`, `lastResponseOutput`
and `pinnedAuthID`, `turn` the request it made of a message and what its goroutines
left, `client` what was said and told, `responses` which credential made a response
and over what. What the endpoint may choose from, `auths`, changes meanwhile. The
rounds and the restart are RequestExecution's, here only with the choices they leave.
A context that is done is left out: the connection is hijacked and nothing cancels it.

* `conversation`: `TranscriptKept` (proved): what goes upstream is everything said and
  told since the last increment, that one included, in order and once. That an
  increment leaves out what was before it is the code's choice: a message that cannot
  be an increment, after one that was, is merged with the increment's input alone.
  `IncrementsReachTheirResponse`: as long as no credential changes, an increment to a
  response made over a websocket goes to the credential that made it.
  `EveryMessageAnswered`: a message gets one answer, with the exception that an error
  may follow a complete response.

What the second property leaves aside, and the code does: an increment is allowed if
any available credential could take it, before one is chosen, so that after a change of
credentials, or after a turn over HTTP, an id goes to an upstream that does not know it;
the pin stays on the last credential with websockets that was tried, also if another
one answered; a pinned credential that is removed is never released. And of the third:
`response.done` reaches the client but is followed by "stream closed before
response.completed", and the select may take the end of the data before the error
that explains it, so that the client reads 408 instead of the upstream's status. A
first input that is a text makes every later message that is not an increment fail.

### OAuthLogin
`create` is each call of CreateOAuthSession, `listener` and `registered` its
callbackForwarder and the entry of callbackForwarders, `stops` the goroutines that
are about to stop it, `session` the store of sessions, `callback` the calls of
GetOAuthCallback. What the provider, the browser and the page do is external: a
redirect may come for any path, a callback late, twice or never.

* `login`: `VerdictTrue`: a login shown as complete, or whose page said so, has a
  credential in the store and in the manager, and one shown as failed has a callback
  that failed. `ListenerAccounted`: whoever listens on the port is registered,
  about to be, or being stopped, so that the next login finds it. The exception is named
  in `orphans`: a listener that a request closes before it is registered overwrites the
  entry of a newer one. `PortFreed`: every listener is closed in the end.

One port serves all logins: the first request of any browser, for whatever path, closes
the listener of every other login, and a login created while a stop is under way (entry
gone, port still open) fails.

## 4. Bounds

Every run has the smallest instance in which its hazard can happen: two of
whatever must interfere, channels so short that they fill, counters that stop at
the first value at which "some", "one more" and "none" differ, a clock that runs
just past the longest interval.

| Run | Instance | Why it is enough |
|---|---|---|
| `registry` | 2 clients, 1 model, 2 providers, 2 metadata values, lists with up to 2 copies, windows of 2 ticks, clock to 3, 1 reader | models are counted independently of each other; one duplicate, one other client and one change of provider reach every branch of the reconciliation. The clients, providers and metadata are symmetric (all properties are invariants or step properties). A second reader only reads the same cache |
| `scheduler` | 2 credentials at codex priority 0, codex priority 1 or openai priority 1, one model, 429 with a retry-after of 1, clock to 2, both strategies; next to it 1 credential, 2 model names, retry-after 0 or 4, backoff 1 to 3, clock to 4 | two buckets in one shard, two providers in one pick, every move between them, an entry that blocks and one that expires; the aggregate is over models, two of them make minimum, maximum, all and some differ, and the intervals keep the order of the code's, which is all it compares |
| `conductor` | 2 refreshers, 2 checkers, the rebuild and the catalog callback, 2 orders, 1 result, 2 stores, clock to 3, under the constraint `Bounds`: either at one instant, at most one of each kind of goroutine and three kinds at once (a check that is to claim: the service only), or refreshes, checks and time against one order | one of each goroutine that can carry an old view over an order, and two orders, are what "last" needs; the pending time (2) elapses once with a refresh still running |
| `request` | 2 credentials, one of them without retries, 1 restart, waits of 1 tick, 2 payloads, all three kinds, converter and validation on | a second round, a second credential, a restart after each; a first payload and one after it |
| `relay` | 2 sessions of one provider, 1 request, a channel of 1 slot, 1 chunk | a session and its successor; the final message is the one that does not fit |
| `session_turns` | 2 requests, 2 connections, 1 object, both refusals, a channel of 1 slot, 1 delta on the first connection; of two requests (connections) that differ by name only the first to get the lock (to be dialled) has the first name | a request and the next one that waits for its lock, a lost connection and its successor, readers of both, a channel that is full. The invariants are also proved for every instance |
| `dispatch` | 1 credential with one content, a channel of 2, 3 reloaders | a queue that is full, a batch that waits and a map that has an update, of the same credential: the feed's promise is per credential, and the channel is shared only by its room. Present and absent are two contents |
| `sync` | 2 credentials, 2 writers, 3 changes in all: from outside, by a write, or a reload of the configuration | every pair of changes on one or two credentials, with one more before, between or after them: two writes and a change from outside, a write undone by a reload, two notifications with a write between. The contents of writes and changes are always new, so no agreement is by chance |
| `codec` | 6 models, 13 words for effort, 6 tool names in pairs, transcripts of 3 out of 6 items, responses of one item, to who streams of two in any order, to a chat that streams of a reasoning, a message and a call in any order: reasonings and messages with no part, with one told in 2 pieces or with two, calls told in 2 pieces, at once or late | each model has another capability; every threshold has a number on it and one above; names fit, are cut, and collide when cut; every pair of items next to each other, every way of telling a call before and after another, an item with no part after one with two. Answers are played for the names that collide only (`Answered`) |
| `conversation` | 2 credentials, one that loses its websockets or is removed, one that cools down, 3 messages, 1 change, 1 restart, 1 round | a response, an increment to it, a message after the increment; a pinned credential that fails with another to turn to |
| `login` | 2 logins of one account, 2 callbacks, 1 stop at a time of a listener (2 give the same result in 5 minutes) | a listener and its successor, a callback that comes twice or two at once |

The bounds of the runs that expect a violation are those of the traces they give.
CHECK_DEADLOCK is FALSE where every process may have finished.

## 5. Fairness

Weak fairness only, and only of goroutines that can run: the scheduler of the
runtime runs them. In RequestExecution the specification owes nothing to the
upstream or the clock, except that net/http ends a body whose context is done:
that is enough for `DisconnectStopsAll`. `RequestEnds` says so in its own
antecedent, `Answering`: an upstream that answers and a clock that advances (the
waits between rounds are timers). In WsRelay the other side owes nothing. In
CodexWsSession the peer sends something or the connection breaks, because
readUpstreamLoop sets a read deadline of five minutes before every read;
`session_turns` uses `ImpatientSpec`, which adds that every client disconnects in
the end. In UpdateDispatch the goroutines of the
watcher and the service go on, and Shutdown goes on once it has begun; nothing
makes Nacos send or anybody stop. AuthSync has no liveness property: its delivery
is UpdateFeed's, and `Quiet` says when it is over. In OAuthLogin the timer of a
listener fires and the goroutines that stop it run; nothing is assumed of browsers,
pages or callbacks. CodexExecutor and ResponsesWebsocket have no liveness
property: whether their goroutines end is RequestExecution's subject. A process that panics takes no more steps, and the liveness properties
that could hold vacuously there say so.

## 6. Proofs

### ModelsProofs
ModelRegistry: for any finite set of clients, any models, providers, list length and windows:
`TypeCorrect`, `CountsExact`, `ProvidersAlwaysExact` and
`ReadsAlwaysFresh`, all that the run checks. The inductive invariant is

    IInv == TypeOK /\ Counts /\ ProviderInfoTracked /\ CacheBuilt

`Counts` says that a count is the cardinality
of a set of slots, one column per client, as high as the number of times the
client lists the model. CountExact itself sums over clients and cannot be
inducted over one registration at a time without a fact about sums; as the
cardinality of a set it changes by one column, and `ColumnChange` says by how much.
Each registry operation is shown to *rebind* one client's references from one
provider and number to another (`Rebound`, one lemma for adding, removing,
dropping, refreshing and reconciling), and `RebindCounted` turns rebinding into
`Counted'`. `CacheBuilt` is for the action property ReadIsFresh: a valid entry of the
cache is what a build over the present registrations gives at some past instant, with
the expiry of that instant. It holds only because each operation that changes what a
listing is made of empties the cache in the same step. A reader that is answered from
the cache while the entry has not expired is then shown what a build at its own instant
gives, and one that builds is shown its own instant; in between, the lock may let another
reader store an entry of an older clock, which `CacheBuilt` allows. The assumptions are
those of ModelRegistry: finitely many clients, a positive bound on duplicates and a
positive window.

CodexExecutor: for any requests, catalog, numbers and answers of the upstream,
`EffortAlwaysHonoured` (EffortHonoured). The state is the smaller part: `FromRequest`
says that what is sent is what was prepared of the request, or that nothing is and the
client has the error; it is inductive because nobody goes on after an error. The rest is
about operators, in the order of the code. `ParsedWord` and `NotAuto` take names apart:
a suffix is what follows the last parenthesis, and "auto" with a suffix is the first
model with that suffix. `BodyEffort`: whichever endpoint, the translated body says what the
client's did, or "medium". `WordConfig` and `Configs`: what a word is turned into.
`ValidLevel`, `ValidNone`, `ValidAuto`, `ValidBudget`: what validation leaves of it.
A number goes through two tables, the thresholds and the closest level: `LevelClamped`
finds a closest level of the model, the lower one of two, and `ClosestRises` says that
of two places the higher one's is not lower, which is what makes more never less.
`PreparedBy`, `EffortOf`: the applier writes it. The assumptions: `CatalogAssumption`,
that a model which reasons in levels alone has them in the order of their budgets,
"medium" among them and "max" not, and may neither be zero nor dynamic, as all models of
`internal/registry/models/models.json` are (a model with "max" would break the claim: no
number reaches "max", whose budget is 128000, because the thresholds end with "xhigh");
`NumberAssumption`, that a text which is a number is no level and no special word;
`RequestAssumption`, that a request has a model's name and, in the Responses format, a
place for the effort; `ExecutorAssumption`, that the model "auto" stands for is known and is
not called "auto".

`ShortNamesAlwaysRestored` (ShortNamesRestored), from `FromRequest` too: `EffortOnly` and
`ThinkingKeepsTools` say that applying the effort leaves the tools of the translated body
alone, `SentTools` what they are. The map of short names is a fold over the names, written in
ChatTranslation as a recursive function; `GivenExist` and `KeptExist` prove that the two such
functions exist, and `ClosedSet` is the induction over their prefixes. `Fitting` is its
invariant: after k names at most k short ones are used, every name so far has one of them,
no two the same, none too long, and an empty one only if it was empty. That
`makeUnique` always finds an unused name (`Unused`) is a pigeonhole: the suffixes give as many
different names as there are suffixes (`Suffixed`: the code cuts the name before it
adds the suffix), and fewer are used. An injective map has the inverse that
buildReverseMapFromOriginalOpenAI computes again from the same tools (`NamesRestored`). The
assumptions: `NameAssumption`, that the limit has room for "mcp" and a segment, and that the
suffixes "_1", "_2", ... differ; `ToolsAssumption`, that a chat has tools and a choice and
not more functions among the tools than there are suffixes, of which the code never runs
out. A length is counted in segments: that a suffix of several digits takes several
characters from the name is not modelled.

### AuthSchedulerProofs
For any finite sets of credentials and models, any providers, orders of providers, finitely many
priorities, any reports and cooldowns: `SchedulerAlwaysRight`, which is
`Spec => [](Coherent /\ PicksRight /\ RoundServesAll)`. The run moves two machines, so the same is stated
for it as `SchedulerAlwaysCoherent` (MCCoherent), `PicksAlwaysRight` (MCPicksRight) and
`RoundsAlwaysServeAll` (MCRoundServesAll), with
`BackoffAlwaysBounded` and `AggregateAlwaysExact` for the machine of AuthAvailability.

The inductive invariant of the scheduler is

    SchedulerInv == Managed(auths) /\ levels bounded /\ SchedOK(sched, now)
                    /\ AtHome(sched) /\ Tracks(sched, auths) /\ types

and the proof goes from the inside out. An *entry* `Matches` its credential: it is there when the credential supports the model, it is
ready only if the model is not cooling down, and one that waits does so for a time the states give,
which may have passed: that is what time does to a shard nobody looks at.
`ShardOK`: every entry of a built shard matches, the heap of those that wait and the
sorted list of each priority are what the entries give. `SchedOK` has this
of every provider and base model, `AtHome` that a credential is known to the one
provider it is scheduled at, `Tracks` that its states and priority there are the manager's.
Each call of the scheduler (upsert, remove, rebuild, ensure, pick) keeps these (one lemma
each), and each call of the manager is made of those. PicksRight then compares what a
pick finds in the shards (`PickedWell`: it is among those it may pick, it is there if
one must be seen, none of a better priority is passed over) with what the manager's
data allow. That a bucket
has all that is ready is a fact about lists: a finite set of numbers can be listed in its order, which is what
InOrder does (`Listed`, `InOrderOf`). Coherent alone is not inductive: it compares
what is built now with a rebuild at the same instant and says nothing of a shard that
expired entries make different later.

RoundServesAll is an induction over the picks of one round, with the shards and cursors
each pick leaves to the next. The first pick settles the shards of the request's providers
(`Steady`: built, with nothing whose time has come). In steady
shards a pick is a `Turn`: it serves the credential under the cursor of the first bucket
that has any, in the order of providers from the list's cursor, and moves those two
cursors and nothing else. For a credential of the best priority, take how far the cursor of
its bucket is from it, and how far the list's cursor is from its provider: `Distance` is
the first times the length of the list plus the second. A turn that does not serve the
credential makes it smaller, since either the list's cursor moves past another provider
and nearer, or its own bucket's cursor comes nearer and the list's wraps around
(`Nearer`, `Lexicographic`, `TurnNearer`). It starts below providers times credentials (`DistanceOf`), which
is why that many picks are enough, and why fewer need not be. That the recursively defined round exists is
proved with it (`RunsExist`).

AggregateExact needs `Summed`, which remembers what the aggregate was computed
from: if it says unavailable, its time is the least of the models' times, all of them
unavailable; if not, some model was free and has been since, as time only ends
cooldowns. Nothing in AggregateExact itself says that the time is the least one.
Pow2 is a recursive function; that it exists and has numbers as values is proved from
its finite parts with `LeastNumber` and `ClosedSet`, which do for a set what an
induction theorem does for a predicate. Assumptions: `NamesAssumption` (a base model is its
own base), `CooldownAssumption` (the order of the code's intervals), `SchedulerAssumption`
and, for the machine beside it, `AvailabilityAssumption`.

### AuthConductorProofs
For any finite sets of requests, refreshes and checkers, any number of orders, stored
objects and results: `LastOrderAlwaysStands` (LastOrderStands) and
`RefreshesAlwaysApart` (RefreshesApart). Both use `Types`, which says what TypeOK leaves out of
the objects that steps refer to.

RefreshesApart speaks of two refreshes and says nothing of what keeps the second
from starting. `PutOff` does: as long as a refresh may be spending the token and was not
overtaken, by a replacement or by a late failure, the stored object's next refresh is at least
the pending time after the instant of its check. markRefreshPending writes it in the critical
section that decides, by the same instant, that the refresh is due; `CheckType` and `OneCheck`
say that a check's instant and a failure's are of the past.

LastOrderStands speaks of the end only. `OrderInv` says what each part has of the last
order while the service carries it out, in four conjuncts that depend on less and less having overlapped:
`Follows` (the service does what it was ordered), `ByManager` (unless a refresh overlapped, the
stored object is the order's from the moment of its storing, and every refresh that read it since
holds a copy of it), `ByRegistry` (unless a refresh or a catalog callback did: the models offered), `ByScheduler`
(unless anything did: what is scheduled, and what requests and rebuilds are about to tell
it). The conjuncts are the table of who may undo what: a result that overlaps an order
can only undo the scheduler, a catalog callback the registry and the scheduler, a refresh all
three. Assumption: `ConductorAssumption`, of the types of the constants.

### CodexWsSessionProofs
For any finite sets of requests, connections and session objects, any credentials,
kinds and refusals, and any length of the channel: `TypeCorrect`, `TurnsKept` (ActiveHoldsLock) and
`ConnectionsNeverLost` (ConnectionsKept). The inductive invariant is

    IInv == Types /\ Located /\ Holders /\ ActiveHoldsLock /\ ConnectionsKept

`Types` gives every component its set; `Located` says what the position of a
request or a reader implies (a request past the dial has a connection, a reader
that has looked a channel up holds a request's, its connection belongs to an
object) and bounds the channels. `Holders` is
the strengthening that matters: a request between its Lock and its Unlock *is* the
holder of its object's reqMu. Without it ActiveHoldsLock is not inductive, because
setActive does not look at reqMu; it is right only because every path to it runs
under the lock. ConnectionsKept needs no
strengthening but `Located`: an invalidation compares the connection it is about
with the session's before it takes it out, which is how a late reader is kept from
taking its successor out. There is one lemma per action and, in it, one step per conjunct
the action can disturb. The only assumption is `SessionAssumption` of the
module: the finite sets above, a channel of at least one slot, and None outside
all of them.


### RequestExecutionProofs
For any finite set of credentials and any settings (rounds per credential, the cap of
a round, restarts of a stream, headers, the endpoint): `CallsBounded`,
`VerdictMatchesEnd`, `LateErrorsTold` and `NoCallAfterPayload`, all the safety
properties of the run. The inductive invariant is

    Inv == TypeInv /\ Flow /\ Late /\ Reported /\ Counted

`Flow` says which goroutine may be where: the handler peeks or forwards only after
the manager returned a stream, the stream is restarted only from "retrying", which
excludes `sentPayload`, and bytes at the client imply `sentPayload`.
NoCallAfterPayload follows: only Pick makes a call, and Pick needs a manager that the
stream goroutine waits for. `Late` is about two channels: as long as the client has not
been told, the error of a failed stream is still in errChan, and the converter closes its
output only when the forwarding goroutine is over. `Reported` counts what MarkResult
was told of the call that is in progress, by where its result is: nothing while it
is called or read, once when it ended. VerdictMatchesEnd alone says it only of the
end and is not inductive. `Counted` gives every call a place: those of the restarts,
at most `PerStart` each, those of the rounds, and those of this round, which are the
credentials tried. That the product bounds the sum is arithmetic in which each
product is a step of its own. `Extremes` (finitely many numbers have a least and a
greatest) is derived from the well-foundedness of the subset ordering, which the
library proves, since an induction theorem cannot be instantiated. The only
assumption is `SettingsAssumption`.

### WebsocketProofs
The proofs about the two websocket endpoints, the relay's sessions (WsRelay) and the
conversations (ResponsesWebsocket), which share no state; the definitions of WsRelay
have names of their own (RelaySpec, ReadMessage, ...) for that reason.

*The relay.* For any finite sets of sessions and requests and channels of any length:
`LatestAlwaysReachable` (LatestReachable). The invariant is the property with
`TypeInv`, which also says that a call under way has a session and that a
message being dispatched has a request: without the two, an update of "the session
of the call" would be an update of nothing. What matters is that `SessionClosed`
compares before it deletes, for whichever of the four goroutines gets there; the
proof has a lemma for the steps of a session, of a clean-up, of dispatch and of the
callers, and the last two leave the table alone. Assumption: `RelayAssumption`.

*Conversations.* For any credentials that change in any way, any models and instructions, any number of
messages: `TranscriptAlwaysKept` (TranscriptKept), `EveryMessageAlwaysAnswered` and
`IncrementsAlwaysReach`. For the first the inductive invariant adds to the types an
`Account` of what the loop carries from one message to the next: while it reads, what
client and model said since the last increment is `lastRequest`'s input followed by
`lastResponseOutput`; in a turn, the input of the turn's request followed by the
output so far, which is empty until the turn has completed. TranscriptKept speaks
only of the moment of sending. `NormalizedAccounts` shows that each way to normalise a
message (first, increment, merged, rejected) keeps the account, by the associativity of
concatenation.

`Answering` is the second: in a turn the client has its answer exactly when the turn is
complete, and a stream that completed has sent something, so that it is never
started again. The third, `Pinning`, is about *fresh* responses, made over a
websocket since the credentials last changed: the credential that made them is the pinned
one (`Owned`); a turn that finds one works under that pin (`Held`); and as long as
nothing changes in a turn, what it knows of its own credential is right (`Routed`),
so that the next response it makes is owned again. A change leaves no response fresh, the
one in the making included. Assumption: `ConversationAssumption`, which says that
no credential is called "none", which is the absence of one.

### WatcherProofs
The way of a credential from the document to the manager: the reloads of the watcher
(WatcherReload), which both proofs need, the dispatcher, and the composition with
the store and its writers.

*The dispatcher.* For any finite set of credentials, any contents and any length of the channel:
`AlwaysSettlesOnCurrent` (SettlesOnCurrent) and `ImplementsFeedSafely`, the safety part
of ImplementsFeed. The inductive invariant is

    DispatchInv == ReloadsOK /\ DeliveryOK /\ Unseen /\ (stage = "running" => Following)

SettlesOnCurrent speaks of the moment when nothing is on its way; before it, what the
manager holds may be anything. What stays right is `Final(i)`, the last of the updates
that wait for a credential in the channel, the batch and the map, or what the manager
holds if there is none: every step of the delivery leaves it alone, and a hand-over makes
it the update that is handed over. `Follows` relates it to the watcher: the newest
update of a credential that a reload still carries, not overtaken, is what the last comparison saw, and if all that
are carried were overtaken, and the credential is not stale, Final is. "The newest"
needs the order of the reloads that wait: `Ordered` (a reload that was compared earlier
than one that is earlier, is earlier) and `OvertakenWith` (who overtakes a reload
has overtaken those before it that carry the same credential). `Unseen` is about
removals: a credential no comparison ever had is not in the last set.

For the refinement, `Waiting(i)` is what is due: a hand-over is Hand, the
consumer's step Apply, the end of the loop and of the dispatcher in Stop are Forget (one
update of each credential at most, which the lemma `Dropped` takes from the middle), all other steps change
nothing the feed sees. A send moves an update from the batch to the channel: that what waits stays the same
is associativity, and what a channel holds of one credential is a recursive function whose
existence and behaviour at both ends (`SentAppend`, `SentTail`) are proved from its finite
parts. That every update is applied in the end is liveness and stays with the run.
Assumptions: `ReloadAssumption`, `DispatchAssumption`.

*Store, watcher and writers.* For any finite sets of credentials and writers and any
number of changes: `OwnWritesAlwaysKept` and `ManagerAlwaysFollowsStore`, which is
`SyncSpec => []ManagerFollowsStore` as the run checks it. The inductive invariant is

    SyncInv == Always /\ InStep        InStep == \A i \in Ids \ parted : Told(i) /\ Kept(i)

`Always` holds whatever has parted: the types, with every content one that has been
(`Aged`: what a change makes, `Fresh`, is therefore new); at most one writer holds a
document, and is the holder of s.mu (`Placed`); what its place obliges a writer to (`Duty`: who has a
refreshed token is a refresh, a deletion writes nothing); and what it holds of a credential
that has not parted is what the document says (`Held`). OwnWritesKept follows from
`Held` alone.

`InStep` is about each credential that has not parted. What ManagerFollowsStore says holds
only when nothing is under way; the invariant says, of each thing that may be under way,
what it will lead to. `Told`: if the store remembers another content than the document's, and no
writer is about to record it, then Nacos has told the listener of another document, so that it
will be told again. `Loading`: what was stored and not compared belongs to a reload that
is about to compare. `FollowsNew`: the newest update that waits with a reload is what the
last comparison saw. `GoneUnseen` and `Heard`: the last update due (`LastDue`, the manager's
own content if there is none) is what the watcher knows, of a credential it knows and of one
it does not. `Own`: what the process wrote and the watcher does not know of is in
the manager, and nothing of the watcher's is under way to it. `Writing`: a write that nothing else is
under way with (`Alone`) writes what is new, or what the manager already has, and leaves it
in the document and in what the store remembers.

A step either does not touch a credential (`Beside`: then nothing of this changes) or is a
step of it that is not among the causes, and there the causes do their work: without
`Crossed` a write is alone, without `Reverted` a reload that finds a difference finds what the
store remembers, without `Swallowed` a record changes nothing of another credential, and so on.
Each cause is used where it bites, and the proof uses no other restriction. That
`parted` is kept per credential is what makes the theorem speak of all histories:
one credential that has been lost does not excuse the others. `Untold` was made
to name the credentials for this reason; a document that comes back as a whole used to be
judged as one.
Assumptions: `ReloadAssumption`, `SyncAssumption`.

### OAuthLoginProofs
For any number of logins, accounts, redirects and callbacks: `ListenerAlwaysAccounted`
(ListenerAccounted) and `VerdictAlwaysTrue` (VerdictTrue), each with an invariant of its
own. The first adds that at most one login has the port, and that who is
about to register has had it: only the one that has the port can overwrite the
entry. The second adds what a callback has *earned* by its place: the tokens are stored
before they are applied, and both before the session is completed or a page says
success; nothing in the code takes a credential away from a login it was completed
with. Assumption: `LoginAssumption`.

### Model-checked only
The liveness half of `ImplementsFeed` (UpdateDispatch) and the other liveness
properties: liveness under fairness is out of the prover's reach, and so is anything with
ENABLED. ToolNamesRestored (calls in the history and calls that come back), StreamMatchesWhole, EndpointsAgree and ResponsesWellFormed of
CodexExecutor: they are about what the translators make of a whole conversation or stream,
which folds compute (FoldLeft, FlattenSeq, SelectSeq). The library's induction theorems take an operator as an argument, which no installed prover can
instantiate, so each fold would need an induction of its own from a well-founded order, as
Pow2, Round and NamesGiven have theirs, and a form that the prover can unfold, which it
does for a recursive function and not for these operators. The violations are traces, which TLC gives.

## 7. Not modelled

Of messages, headers and bodies what no property tells apart: letter case and white
space, error texts, fields that are copied, the count of tokens, file and image
contents. Pairs of formats nobody can choose in `src/`. The model catalog updater (one
goroutine; its callback is AuthConductor's). The login of the command line, which is
a client of these logins on another machine: one goroutine that creates a session at the
backend, listens on the same port of its own machine, hands the first callback with the
right state on, and waits for it or for its time to be over. The HTTP
server, which is routes and middleware. The credentials a configuration
file lists, which never change in these models, and the contents of a credential
beyond "which write it comes from". That the Nacos client calls a listener for one
change after the other, with the newest document, is taken from how the code uses
it. The configuration's own document, which SaveConfig publishes whole, is only
the signal of a reload. Network, TLS, proxies, OAuth
cryptography, the browser, logging. Configuration getters and setters, which are
one assignment and a save. Results without a model, pickSingle and the legacy
selectors, which no code in `src/` outside tests reaches. In AuthConductor:
executors, hooks and Load, which runs before anything else. A relay session that
is being upgraded while Stop runs may be registered after it; no property is about
this, because nothing says what Stop promises about it.

## 8. Disagreements

Modules end with statements of the repository (a comment, a test, a
document) that the code does not keep. The most serious one has a run of its own
with the expected violation, `session_lock`: a lock that is never given back. The
others are below. To see one, put its name as the INVARIANT (or PROPERTY)
of the module's cfg with the constants below; the traces are short. Paths are
under `src/`.

| Module, property | Where | What happens, and what the repository says | Constants |
|---|---|---|---|
| ModelRegistry `ListsEveryAvailableModel` | `internal/registry/model_registry_queries.go:76` | A client that is over quota and suspended for another reason is subtracted twice, so a model another client can serve is not listed. Line 9: "returns all models that have at least one available client". | as `registry` |
| ModelRegistry `CountsAvailableClients` | `model_registry_queries.go:277` | GetModelCount subtracts a client twice that a 429 put in both sets. Line 253: "returns the number of available clients for a specific model". | as `registry` |
| AuthScheduler `CooledDownNotPicked` | `sdk/cockpit/auth/scheduler_selection.go:61` | A 429 for `m(high)` is stored under that name (`conductor_execute.go:319`) and looked up under `m`: the credential is picked for `m(high)` again while another is ready. `scheduler_test.go:444` says one in cooldown is passed over. | as `scheduler`, but `Names` two, with one `Base`, `Orders` `{<<"codex">>}`, `Placements` priority 0 at codex |
| AuthScheduler `ExpiredArePromoted` | `scheduler_shards.go:140` | An entry waits for the end of the quota window even if NextRetryAfter comes first (a long Retry-After, then a 500 of a request in flight). Line 131: "reevaluates blocked auths whose retry time has elapsed". | as `scheduler`, but the last two the same, `Reports` quota with retry-after 3 or transient with 0, `MaxNow` 4 |
| AuthConductor `SnapshotImmutable` | `conductor.go:268` | Register and Update give the scheduler the object they stored, which MarkResult then writes under another lock. `scheduler.go:42`: "immutable scheduling fields derived from an auth snapshot". | as `conductor` |
| AuthConductor `DeletedStaysDeleted` | `conductor_refresh.go:374` | Update stores the clone a refresh took before its call although the credential was removed meanwhile. `sdk/cockpit/service_runtime_test.go:93`: "expected deleted auth to be removed from core manager". | as `conductor` |
| AuthConductor `DeletedStaysUnscheduled` | `conductor_result.go:205` | MarkResult upserts its snapshot after it released the lock; a removal in between is undone in the scheduler. `scheduler.go:134`: "deletes one auth from every scheduler shard that references it". | as `conductor` |
| AuthConductor `UpdateKeepsResults` | `conductor.go:283` | The clone a refresh made before its call replaces results reported meanwhile. `conductor_update_test.go:50`: "expected ModelStates to be preserved". | as `conductor`, `MaxMarks = 2` |
| RequestExecution `EarlyErrorsTold` | `sdk/api/handlers/openai/openai_handlers.go:217` | The peek loop selects between errChan and dataChan; when both are ready it may take the closed dataChan and answer 200 to a stream that failed. Line 197: "Peek at the first chunk to determine success or failure before setting headers". | as `request` |
| RequestExecution `EveryChunkForwarded` | `sdk/api/handlers/openai/openai_completions_handlers.go:156` | The converter holds a chunk while the upstream goroutine goes on; ForwardStream may select the error first and the chunk is lost. Line 71: "converts each response chunk back to completions format before sending to client". | as `request` |
| RequestExecution `CredentialsCapped` | `conductor_execute.go:286` | The cap counts the credentials of one round. `internal/config/config.go:17`: "the maximum number of credentials to try for a failed request". | as `request`, `MaxRetryCredentials = 1` |
| RequestExecution `RetryDoesNotPanic` | `sdk/api/handlers/execution.go:217` | If the first attempt passed no header on, the restart writes into a nil map. `handlers_stream_bootstrap_test.go:300`: "expected upstream header from retry attempt". | as `request`, `Passed = {TRUE, FALSE}` |
| RequestExecution `HeadersOfServingCall` | `execution.go:216` | If the restart passes no header on, the client gets those of the attempt that failed. Same test line. | the same |
| WsRelay `ResponsesComplete` | `internal/wsrelay/http.go:58` | A message that does not fit is dropped, the final one included; NonStream takes the closed channel for the end of the body and returns a success. Line 22: "the response relayed back from websocket clients". | as `relay` |
| WsRelay `CloseDoesNotPanic` | `internal/wsrelay/session.go:149` | A request stored between cleanup's Range and its reset loads nil and panics; dispatch and Range may send on a channel another goroutine has closed. `manager.go:95`: "Stop gracefully closes all active websocket sessions". | as `relay` |
| CodexWsSession `RetryOutlivesOld` | `internal/runtime/executor/codex_websocket_connection.go:68` | The reader of the connection whose send failed finds the channel of the retry and closes it. `codex_websockets_execute.go:110`: "Retry once with a fresh websocket connection". | as `session_turns` |
| CodexWsSession `SentIsSettled` | the same line | A request that sends between the reader's last look and the invalidation is told nothing and waits for its client to leave. Same statement. | as `session_turns`, `SPECIFICATION FairSpec` |
| CodexWsSession `OwnEvents` | `codex_websocket_connection.go:22` | A request that ended early leaves the rest of its response to the next one on that connection. `openai_responses_websocket.go:42`: "streams response events back". | as `session_turns` |
| CodexWsSession `SessionReleased` | `codex_websocket_connection.go:49` | A dial in flight when the session closes installs its connection in an object nobody will close. `openai_responses_websocket.go:65`: "upstream execution session closed". | as `session_turns` |
| CodexWsSession `RetryDoesNotCrash` | `codex_websocket_connection.go:79` | Two readers close one channel, or one sends after the other closed it, outside any recover. `codex_websockets_stream.go:101`: "Retry once with a new websocket connection". | as `session_turns` |
| OAuthLogin `CompleteStands` | `internal/api/handlers/management/oauth_sessions.go:143` | Of two callbacks of one login the second may fail after the first has completed it: SetError does not look at the status, and the page shows a failure although the credential is active. `oauth_callback.go:75` refuses what is not pending: "oauth flow is not pending". | as `login` |
| OAuthLogin `TokensAgree` | `oauth_callback.go:104` | Two logins of one account save and then activate: the store may end with the tokens of one, the manager with the other's. Line 113: "Failed to activate authentication tokens". | as `login` |
