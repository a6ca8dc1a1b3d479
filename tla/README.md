# A TLA+ model of Antic-PT

Antic-PT answers an HTTP request at once from what it last saw and puts the answer
right afterwards: a *speculative* (or, for a write, *provisional*) response carries a
Reconcile ID, and a *signal* for that ID, sent over one server-sent-event stream per
client, confirms, patches, fills, replaces or aborts it. This directory models the Go
proxy (`src/spec-link`) that implements the protocol (configuration, routing, vault, read
path, write path and signal hub), the JavaScript resolver (`src/packages/resolver`) on the
other end, the two together, and the TypeScript edge proxy (`src/packages/edge-proxy`), a
second implementation. TLC checks the models on small instances, TLAPS proves the safety
part of most of them for every value of the constants.

    tlc -config MCReadTrack.cfg MCReadTrack          # one run
    tlapm ReadTrackProofs.tla                        # the proofs of one module

`PROJECT.json` lists the runs, the mutants that show each property can fail, the source
lines of each definition, the hazards the properties are aimed at, and the findings.

## 1. Inventory

| Component | State it keeps | Operations | Interacts with |
|---|---|---|---|
| Configuration (`config/config.go`) and process start (`main.go`) | the configuration, read once | `Load`, choice of the vault driver, seeding, routes | everything below |
| Field classification, reconciliation decisions (`fields/classifier.go`, parts of `proxy/handler.go`) | none | `matchEndpoint`, `ClassOf`, `VolatilityOf`, `DeferredFields`, `InvariantFields`, violation, structure, diff, threshold | called by the read path |
| Read path (`proxy/handler.go`) | none of its own; one goroutine per request, then one Formal Track goroutine per speculative response | `HandleSpec`, `serveConfirmed`, `runFormalTrack`, `HandlePassthrough` | reads and writes the vault, captures and releases snapshots, publishes to the hub, calls the upstream |
| State-Vault (`vault/vault.go`, `vault/redis.go`) | newest document, version and time per key, in memory or in two Redis keys | `Get`, `Set`, `Seed`, `Delete` | shared by all requests and, with Redis, by all proxies |
| Snapshot store (`vault/snapshot.go`) | one document per Reconcile ID | `Capture`, `Get`, `Release` | the read path |
| Write path (`proxy/write_handler.go`) | the write-lock registry | `HandleWrite`, `runCommitTrack` | calls the upstream, publishes to the hub |
| Signal hub (`proxy/signals.go`) | per client id: `active`, a channel of 64, a buffer | `Publish`, `ServeSignals` | publishers are both tracks, readers are the client's streams |
| Client resolver and signal channel (`packages/resolver`) | status, pending FILL, two timers, one subscription; per page one EventSource and a map from ID to handler | `fetch`, `mutate`, `handleSignal`, time-outs, `onerror` | HTTP and SSE to a proxy |
| Edge proxy and adapters (`packages/edge-proxy`) | a vault entry per path; per client id a Redis list; per isolate an interval per client id and a place in the list per stream | `handleSpeculation`, `handleProvisionalWrite`, `handleSignalStream`, `publish`, `subscribe`, `poll`, `unsubscribe` | the upstream, Redis, the client's streams |
| React Query and SWR bindings (`packages/react-query`, `packages/swr`) | a resolver and a cache entry per hook | mount, unmount, events | drive a resolver |
| Demos (`src/demo`) | | | demonstrations, an earlier version of the proxy among them |

What is hard in each, and what makes it correct:

- **Configuration and classification.** Two layers fill in defaults (`Load` and the
  classifier), each also for values the other may have left out; the vault key is made
  from a cleaned path and the endpoint found by the path as it came. Correct: what the
  file says of a field, or its endpoint, or the default, in this order, is what is
  withheld and announced; a document is served only for the resource and query it was
  fetched for, although resource, id and query are joined to one string.
- **Read path.** Formal Tracks of several requests for one resource rewrite the vault
  while others still have to compare against what *they* served. Every early return
  must have published something; checks must come in the right order; a PATCH that has a
  FILL to follow must be followed by it. Correct: a client that applies the signals of a
  track that did not abort holds the document that track fetched; no vault value of a
  deferred field ever reaches a client; no signal revises an INVARIANT; each speculative
  response gets exactly one closing sequence of signals.
- **State-Vault.** With Redis an operation is a series of commands between which other
  proxies' commands run, keys expire and connections break: version and document are
  written, read and given their time to live by different commands, and the age is
  estimated from what is left of it. Correct: no version is given out twice, a version
  never understates its document, the age is right to the precision of the server's answer.
- **Write path.** The registry is looked at twice, before the upstream call and after it,
  and only the second look takes the lock; `TryLock` has a nil result only one of two
  write modes checks for; `Release` does not ask who holds the lock. Correct, as long as no
  Commit Track has panicked: one unresolved exclusive write per resource, a lock for exactly
  as long as its Commit Track runs, each provisional write resolved by exactly one signal.
- **Signal hub.** Going active, taking over the buffer, replaying, streaming and going
  inactive are different critical sections, and several streams of a client may run them
  at once. Correct: no signal is duplicated or vanishes without being given up
  on purpose; a connected client gets what is pending, in order; buffering only happens
  while nobody is connected.
- **Resolver.** Timers race signals, a refetch may overlap a fetch, a signal may arrive
  before the subscription, a FILL before its PATCH. Correct: no
  subscription and no timer of a speculation outlives it, a confirmed view has all that was
  sent for it, every speculation ends.
- **Page and proxy together.** Between a track that publishes and a page that waits lie a
  channel, a buffer, a connection that comes and goes and an event queue. Correct: what
  the resolver relies on holds of them, and while the connection holds no speculation
  needs its time-out.
- **Edge proxy.** `publish` is two commands, a poll is a timer's callback that awaits in
  the middle, and subscriptions are keyed by client id only. Correct: a write whose task ends
  is answered, a stream is given the list once and in order, an interval ends with its stream.

## 2. Modules

| Module | What it is |
|---|---|
| `SignalContract` | The abstract promise for every Reconcile ID: opened once, then exactly one of CONFIRM, REPLACE, PATCH, FILL, PATCH·FILL, ABORT, then nothing. |
| `Reconciliation` | The pure part: documents, classes, the speculative payload, the Formal Track's decisions, signals and what a client makes of one. |
| `ReadTrack` | `HandleSpec`, `serveConfirmed` and `runFormalTrack` of any number of requests over one vault and snapshot store. |
| `WriteTrack` | `HandleWrite`, `WriteLockRegistry` and `runCommitTrack` of any number of writes. |
| `SignalHub` | `Publish` and `ServeSignals` for one client id. |
| `Resolver` | `fetch`, `mutate`, `handleSignal`, timers and channel handlers of one `AnticipationResolver`. |
| `StateVault` | The calls of both vault drivers for one resource, with Redis one action per command. |
| `Endpoints` | From the configuration file to the answer: `Load`, driver, routes, matching, vault key, the branches of `HandleSpec` and `HandlePassthrough`. |
| `AnticSystem` | `Resolver` and `SignalHub` with the EventSource between them; shown to implement `Resolver` over its abstract channel. |
| `EdgeProxy` | The edge proxy with its Redis pub/sub, for one client id and one path. |
| `MCReadTrack`, `MCWriteTrack`, `MCSignalHub`, `MCStateVault`, `MCEndpoints`, `MCAnticSystem`, `MCEdgeProxy` | Instances for TLC; `Resolver` needs none. |
| `ReadTrackProofs`, `WriteTrackProofs`, `SignalHubProofs`, `ResolverProofs`, `StateVaultProofs`, `EndpointsProofs`, `AnticSystemProofs`, `EdgeProxyProofs` | Lemmas and theorems. |

`ReadTrack` extends `Reconciliation`. `ReadTrack` and `WriteTrack` each instantiate
`SignalContract` under a refinement mapping and are shown to implement it: TLC checks
`Contract!Spec`, fairness included, and TLAPS proves the initial states and steps, and what
follows for the signals of both tracks.
`Resolver` takes the other side of the same contract: a proxy may answer a request with
any sequence of signals the contract allows, and announces deferred fields exactly when a
FILL is due, which `ReadTrack!FillIsAnnounced` says it does. `AnticSystem` instantiates
`SignalHub` and `Resolver` for its steps, and `Resolver` once more, with the signals that
are still under way in place of the channel's content, for what it is shown to implement;
`AnticSystemProofs` instantiates the proofs about both in the same way.

### How state and actions correspond to the code

**Documents.** A JSON object is a function from top-level fields to opaque values. All
the code looks at is equality (`reflect.DeepEqual`) and the dynamic type (`%T`), the
latter given by the constant `TypeOf`. A missing key reads as `nil`, as in Go (`At`).
`ThresholdNum/ThresholdDen` is `replace_threshold`, compared without rounding.

**`ReadTrack`.** `pc` is the position of a request's handler or, once the speculative
body is sent, of its Formal Track; one action lies between two accesses to shared state
(vault, snapshot store, hub) or to the upstream, so that every interleaving the mutexes
allow is explored. In particular the `ABORT` of a violation and the vault update after it
are two steps, as are the upstream's answer and `vault.Set`. One `vault.Get` decides a
request, therefore hot test, capture and payload are one step: they all use the entry
that was read. `stale` is the set of entries past
`max_staleness_ms`; `Age` lets time pass. The upstream's documents change between any two
steps (`UpstreamChange`), and a call to it may fail at any time. `view` is a history
variable: the body with the published signals applied in order, which is what a client
that follows the protocol shows. A Reconcile ID is fresh for every request, so the request
stands for it.

**`WriteTrack`.** `locks` is the registry, `lock[w]` whether `TryLock` gave the write a
lock or nil, `executed` what the upstream has carried out (on a failed call: either). The
350 ms sleep of the Commit Track is the gap between `AcceptProvisional` and
`RecordReplay`. `PanicOnNilLock` is `lock.replayOnce.Do` on a nil lock: the deferred
`Release` runs as the goroutine unwinds, and the process ends in a step of its own
(`EndOfProcess`), before which every other goroutine may go on. After it nothing does:
`alive` guards every action. `Intact` tells a resource whose entry no such `Release` has
deleted; that one frees a lock that is not the track's own, and what the code does next is
under findings.

**`SignalHub`.** `active`, `ch` and `buffer` are the fields of `clientConn`; `pc`,
`replay` belong to each call of `ServeSignals`; `up` says whether the other end of the
connection is there, which the handler notices only in its `select`, and there a message
may be chosen although the context is done. `gone` is where dropped, pruned and unwritable
messages go; `overlapped` remembers that the newest stream met an older one. Client ids
share nothing but the map that finds their `clientConn`, so one
client id is the whole hub. Heartbeats carry nothing and are left out.

**`Resolver`.** JavaScript runs one task at a time: a step is the code between two
awaits, or one callback. A call of `fetch` or `mutate` is two steps, sending
(`fetch`, `mutate`) and handling what came back (`ReplyFailed`, `ReplyConfirmed`,
`ReplySpeculative`); the two awaits of a response, for its head and its body, are one,
since nothing is written between them. What exists (`handlers`, `maxTimers`,
`fillTimers`: a call's subscription in the channel, its running timers) is kept apart from
what the resolver remembers (`unsubscribeSignal`, `maxWindowTimer`,
`fillBufferTimer`), because the code can lose the second and not the first. `view` is a
history variable, the call whose data the application shows and the signals emitted since;
`disturbed` records what the channel did. Responses come in any order and at any time, as
do timers: no duration is modelled, so a 50 ms timer may fire before a signal that was on
its way, and such a call counts as disturbed. Left out: a speculative response
without a Reconcile ID, other resolvers on the same channel (they share only the map from
IDs to handlers), `staleness`, volatility and what else the metadata says, and calls that
an event handler makes from inside the resolver, which are modelled as calls right after.

**`StateVault`.** Both drivers share the module: `driver` is chosen at the start. A memory
operation is one step, the body under the mutex. A Redis operation is one step per
command, `pc` the command sent next; `Following` is the order of the commands, pipelines
taken apart because a Redis pipeline is not a transaction. `Break` ends a call after a
failed command, with what was carried out before it; a failed TTL is no error of the
code's, it makes the driver guess (`GuessAge`). `now` counts in fractions of a second.
`Remaining` rounds to whole ones as the server does, and `WholeSeconds` is what the client
library sends with EXPIRE: `default_ttl_ms` without its fraction of a second, which SET
keeps. A document is named by the `Set`
that brings it; `took` remembers its number, `counter.life` how often the version key has
been created, `disturbed` which Sets did not run through at one time. `lag` is how much
older the document found is than the driver says.

**`Endpoints`.** `file` is the configuration as it was written, `config` what `Load` makes
of it, and `answer` the last answer: how its request is treated (`treatment`: the fields
withheld, those whose change is a violation, the volatility announced, the limits) and, as
history, the age and origin of the entry it was made from. Paths and queries are sequences of
tokens, among them `Slash`, `Colon` and `Question`, and `Key` joins them as the code joins its
strings, so that two resources may end up with one key. `Clean` is `path.Clean` for what
`ServeMux` lets through, `resourcePath` and `Key` are `parsePath` and `buildVaultKey`, with
the id after the last slash. `Route` is what `ServeMux` does with the patterns `main`
registers; a prefix of `/spec-write` registers one of them twice, for which `HandleFunc` panics
(`Start` fails). Assumed of the data: prefixes and endpoint paths begin with a slash, and no
path holds a percent-encoded `/` or `?`. The vault is abstract here (an age and an origin per
key), since `ReadTrack` and `StateVault` have the rest.

**`AnticSystem`.** A reply puts the signals of its track into `outbox`, from which
`PublishNext` takes them into the hub; `log` names each message's request and event,
`dispatched` how many of the received ones the page has handled, and `down` says that
`onerror` is due: the EventSource opens its next connection after it. `Lost` messages
disturb their request (`NoteLosses`), as `Resolver` has it.

**`EdgeProxy`.** `pc` is where a request's background task is, `list` the Redis list of the
client id, `timed` whether it has a time to live. `Push` and `SetExpiry` are the two
commands of `publish`; `PublishFails` is either of them throwing, the first perhaps after
it was carried out. `ReadStored` may end the task where it has stored the document: comparing
with a null answer throws. `intervals` are the timers that run, `handle` the one that
`pollingIntervals` remembers; a poll is `PollStart`, `PollAnswer` or `PollFails`, and
`PollReceive`. Streams whose polls overlapped (`PollOverlaps`) or whose list expired
(`ExpireList`) are in `disturbed` and not followed on: what happens to them is under
findings. A task may also stay where it is for ever.

**Left out everywhere:** headers that no property is about, CORS, logging, JSON encoding
(but for `omitempty`, which `PatchNeverNull` is about).

## 3. Runs

| Run | Question | Instance |
|---|---|---|
| `read` | Do clients end up with the right document, never holding a deferred value, a revised INVARIANT or a null from a PATCH, when tracks race? Does the read path keep `SignalContract`, liveness included, and does every answer reach the vault? | 2 requests for one resource, 7 documents with and without deferred fields, one upstream change, 137 233 states |
| `write` | Do exclusive writes exclude each other, release their locks and keep `SignalContract`, whatever an independent write does among them, until one panics? | 4 writes, 3 of them to one resource, one of those independent, 12 810 states |
| `write_conflict` (violation) | Is a write that was answered 409 not carried out? | 4 exclusive writes |
| `write_independent` (violation) | Is every independent write resolved? | 4 writes, 2 of them independent |
| `hub` | Is every signal in exactly one place, whatever streams overlap? Does a client with one stream at a time get what is pending, and in order? | 3 streams, a channel of 2, 3 signals, 146 146 states |
| `hub_inactive` (violation) | Does a client get what is pending with overlapping streams, too? | 2 streams |
| `resolver_single` | Does a resolver show what the proxy sent, leave nothing behind and always come to an end, over a channel that loses, reorders and delivers early? | 3 calls that do not overlap, 631 373 states |
| `resolver_overlap` (violation) | Is a confirm only emitted for the signal of what is shown, if calls overlap? | 2 calls |
| `vault` | What do versions and ages mean with either driver, when commands interleave, keys expire and connections break? | 3 calls of any operation, a TTL of 5 ticks, 3 ticks a second, 8 ticks, 278 835 states |
| `system` | Are hub and EventSource the channel `Resolver` assumes? Do signals, not time-outs, end a speculation while the connection holds? | 1 request and its refetch, 2 connections, a channel of 1, 53 379 states |
| `endpoints` | Whose document is a request served? Is it withheld, announced and compared as the file says? | 5 files, 17 requests, 36 497 states |
| `edge` | Is a write whose task ends answered, is a stream given the list once and in order, does an interval end with its stream? | 1 read, 1 write, 2 streams that may overlap, one `publish` that fails, 218 644 states |

**Why the bounds are enough.** *`read`:* one resource, since keys share nothing in either
vault and contention on one key is the point. Two requests make one track overwrite the
vault between another's answer and its diff. The documents are chosen so that every kind of
signal is published and every branch taken: one of two SPECULATIVE fields changed (below the
threshold of 2/3), both changed, nothing but deferred fields to send, a field cleared or
gone (a type or structure changed), the INVARIANT cleared or gone. `MaxChanges = 1` lets the
upstream differ between the answers of two requests; the initial documents are arbitrary, so
the vault and the upstream differ after one change. *`write`:* three writes to one resource
give a holder, a loser of the race at the second look and one rejected at the first.
*`hub`:* a channel of 2 with 3 signals fills up; in the code it holds 64, and nothing
depends on the number; the third stream meets what the overlap of two left behind.
*`resolver_single`:* three calls let what one leaves behind (a timer, a handler,
`deferredFields`) meet the next, and a refetch that itself times out; a call beyond the
bound is sent and never answered. *`vault`:* three calls are two `Set`s around each other's
commands and a `Get` or `Delete` among them; the clock runs long enough for the keys of one
`Set` to expire under another; three ticks in a second tell rounding up from rounding down,
and a TTL of five of them loses two to `EXPIRE`. *`system`:* one request has up to two
signals, a channel of 1 fills up, and the second connection replays a buffer before what the
first left in the channel. A larger instance (2 requests, one connection, 1.12 million
states) found nothing either, and is left out for its time. *`endpoints`:* files with none,
one and several overlapping endpoints in either order, under four prefixes; two GETs share a
key by a trailing slash, two by a colon in an id, others differ in the query only. Ages of
0, 3000 and 6000 ms lie on both sides of the limits of 2500 and 5000; two keys suffice for
one entry to be taken for another's. *`edge`:* one read and one write publish into the same
list; with two streams one ends under the other; one failing `publish` call is what the
catch blocks are written for, and `EdgeProxyProofs` has the safety part for any number.

Type invariants are checked for the modules the proofs start from. `EdgeProxyProofs` has its
types in its inductive invariant.

`CHECK_DEADLOCK FALSE` is in every configuration: requests, streams, signals and time
are finite, and the system rests when they are used up.

**Fairness.** `ReadTrack` and `WriteTrack`: weak fairness of each started handler or
goroutine. The Go scheduler runs every runnable goroutine, upstream calls carry a
time-out (the failure actions are part of the handler, so a call ends one way or the
other), mutexes are held for a few instructions, and the Commit Track sleeps for a fixed
time. Requests, changes of the upstream and the age of an entry are not forced.
`SignalHub`: weak fairness of each stream's loop; clients, publishers and time are not
forced. `Resolver`: weak fairness of its timers and of nothing else, as a browser
guarantees; replies and signals are not forced. `AnticSystem`: weak fairness of a track's
next signal (which `KeepsContract` says it publishes), of the hub's loops, of the page's
event queue and of the 50 ms timer; the max-window timer is not forced, so
`SignalsEndSpeculation` does not rest on it. `EdgeProxy`: none of the background tasks. Their
fetches have no time-out (`proxy.ts:151`, `200`), and no task is passed to `waitUntil`, of
which the comment at `proxy.ts:51` speaks, so a runtime may drop it once the response is sent;
`FinishedWriteIsAnswered` is a statement about tasks that end. The timers and callbacks of
polls are weakly fair while a stream is open, and a poll being answered is strongly fair: not
every one of them fails. That a `select` with both a message and
`ctx.Done()` ready takes either is part of the model, so nothing relies on its choice.
`StateVault` and `Endpoints` state no fairness: nothing in them has to happen.

## 4. Findings

With a run that shows them:

- **`write_independent` (bug).** Two overlapping independent writes crash the proxy:
  `TryLock` returns nil for the second, only exclusive writes check for it
  (`write_handler.go:214`), and the Commit Track dereferences it. `ANTIC-PT-SPEC.md:848`
  promises that each resolves independently. The deferred `Release` of the panicking track
  (`write_handler.go:251`) deletes whatever entry the resource has, and other goroutines run
  until the process ends: an exclusive write may then take the lock and be answered 202 while
  the one that held it is unresolved (`ANTIC-PT-SPEC.md:868-869` has it rejected). `write` shows
  what holds on every resource where that has not happened.
- **`write_conflict`.** `ANTIC-PT-SPEC.md:873-874` takes the lock before forwarding; the
  code forwards first. The loser of the race is told 409 for a write that was carried out.
- **`hub_inactive`.** The end of an old stream marks the client inactive under a newer one;
  signals are then buffered for a connected client, against the comment at `signals.go:66`.
- **`resolver_overlap` (bug).** `fetch` cleans up before it awaits its response and not after,
  so of two calls under way at once both subscribe and start a timer, and only the later
  pair is remembered. The CONFIRM of the earlier one then confirms and ends what the later
  one shows (`ANTIC-PT-SPEC.md:574` forbids a confirm before its signal); its timer
  would abandon it. The usage example of `ANTIC-PT-SPEC.md:521` leads there: it calls
  `refetch()` in the abort handler, and `resolver.ts:558` has its own refetch due 100 ms later.

Without a run, met while modelling:

- *Hub.* Signals a closed stream left in the channel are delivered after newer ones from
  the buffer (`signals.go:135` before `159`), against the emission order of
  `ANTIC-PT-SPEC.md:629`, and even if they have expired in the meantime. This is why
  `OrderedInFirstStream` ends where a stream does.
- *Writes.* The 409 of the second look (`write_handler.go:214-219`) does not name the write in
  flight, which `ANTIC-PT-SPEC.md:842` says every conflict response does. The client is told a
  window of 10 s (`write_handler.go:227`), but the CONFIRM is kept for 3 s (`:102`, `:270`).
- *Reads.* A hot request without a client id captures a snapshot (`handler.go:108`) and is
  then answered by `serveConfirmed`; nothing ever releases the snapshot, against
  `snapshot.go:19`. After a retryable ABORT the resolver fetches again in 100 ms;
  `ANTIC-PT-SPEC.md:393` has it wait for the max-window. Of two Formal Tracks the slower one
  stores its document last (`handler.go:311`), although it may be the older of the two at the
  upstream; the next request is served it.
- *Resolver.* The timer of that refetch (`resolver.ts:558`) is kept nowhere, so `cleanup`, which
  is to "clean up all timers and subscriptions" (`:571`), does not cancel it: it fetches
  again even if the application has long called `fetch` for itself. `NothingLeftBehind` says
  how far the comment is true without an overlap; with one, it leads to `resolver_overlap`.
- *Redis vault.* The older of two documents may end up under the newer version: the comment
  at `redis.go:109` says atomically, the INCR and the SET are two commands. The version key
  may expire or be missing when a Set is disturbed halfway, and the version is then 0 or
  starts again (`redis.go:23` calls it monotonic). Undisturbed, too, the version key expires
  before its document if `default_ttl_ms` is above 1000 and no multiple of it: of 1500 the EXPIRE of
  `redis.go:128` sends 1 s and the SET of `:126` all of it, and for half a second the
  document has version 0 or a counter that starts again. The age is taken to be 0 when the
  key was overwritten, deleted or expired before the TTL command, when that fails, and in
  the last half second of every entry: an old document is then served as fresh
  (`ANTIC-PT-SPEC.md:465`). It is too small as well when another Set comes between reading
  the document and asking for the time it has left (`redis.go:96`). `AgeIsTrue` leaves these
  cases out. The 0 that "disables TTL" (`redis.go:31`) cannot be configured, since
  `config.go:118` makes it 30 000.
- *Configuration.* For the same reason a `replace_threshold`, `max_staleness_ms` or
  `default_ttl_ms` of 0 means the default. A misspelt class means SPECULATIVE, a misspelt
  driver memory, without a message. A prefix of `/spec-write` makes `main` panic. A path
  with a trailing slash shares the vault entry of the path without it but not its endpoint,
  so what one endpoint withholds may be served under the other's rules, or the defaults'. A
  `:` in an id makes two resources share an entry (`/a/b:c` and `/a:b/c`), and one is served
  the other's document; so may a percent-encoded `?`, which the model leaves out. Otherwise
  none is, as `EntryIsOwn` shows: it compares resources up to the trailing slash, for ids
  without a colon. The `client_id` parameter, sent in the query, makes every client have its
  own entry.
- *Edge proxy.* The comment at `proxy.ts:51` says the runtime's `waitUntil` is used; it
  never is, and the fetches of the background tasks have no time-out (`:151`, `:200`). A
  write answered 202 may therefore get neither CONFIRM nor ABORT, and a read nothing. A
  revalidation that fails publishes nothing (`proxy.ts:174`), one whose answer is null has
  stored it by then. A PATCH is followed by a REPLACE for the same ID, which is not a
  sequence of `SignalContract`. For a successful write with a body that is not JSON
  `response.text()` throws after `json()` has read the body, and the write is aborted
  (`proxy.ts:214`). A CONFIRM whose EXPIRE fails is followed by an ABORT. `unsubscribe` by
  client id clears the interval of the newer of two streams and leaves the older one's
  running (`proxy.ts:131`, `redis.ts:70`); `IntervalPerStream` holds without overlap only. A
  list that expires under an open stream leaves `lastIndex` beyond the end of the next one;
  two polls under way at once deliver messages twice and skip others; a new stream replays
  the last minute.

## 5. Theorems

The proofs assume only the named assumptions of the modules: `Field` is finite, `Null` is
the only value of its type (`%T` prints `<nil>` for nothing else), `Target` is a function
on the requests, `NoDoc`, `NoWrite` and `None` are not documents, writes, calls or requests,
bounds and times are naturals, a second has at least one tick, and the hub's channel holds at
least one message. `PathAssumption` is what Go's `ServeMux` does before a handler runs (it
redirects a path with an empty part that is not its last), and that a path holds no `?`, which
is what percent-encoding is left out for. `FileAssumption` is what `SpecLinkConfig`,
`EndpointConfig` and `FieldConfig` have room for, whatever the file says, with paths that begin
with a slash. The tokens `Slash`, `Colon`, `Question` and `Param` are different.

- **`ReadTrackProofs`.** `TypeCorrect`, `ReconciliationCorrect`, `DeferredSafe`,
  `InvariantSafe`, `PatchesHaveValues`, `FillsAnnounced`, `ImplementsContract`. The inductive
  invariant `IInv` says of each request which variables its location allows to hold what
  (`Shape`) and what its published signals have made of the body so far (`Progress`): after
  the PATCH, for example, the view is the payload with the changed speculative fields
  replaced. `ReconciledToFresh` alone is not inductive, since it says nothing before the last
  signal. That other requests cannot disturb a request's progress is what the snapshot is
  for: `Progress` mentions `snapshots[q]` and `fresh[q]`, never the vault.
  `DeferredNeverSpeculated` and `InvariantNeverRevised` follow from an invariant about
  what each field of the view may be (`FieldInv`: withheld or from `fresh`, kept from the
  body), `PatchNeverNull` from one about published signals.
  Lemmas about documents carry these: Merge of the payload with PATCH and FILL data is the
  fresh document when no structure changed and no INVARIANT is violated, and a null in a
  PATCH would be a change of type. From `ImplementsContract` follow, through the contract's own
  invariant, `SignalsAllowed` and `ClosedForGood`: what has been published for a request is
  always one of the allowed sequences, and a closed one is not added to.
- **`WriteTrackProofs`.** `TypeCorrect`, `LocksCorrect`, `ExclusionCorrect`,
  `ImplementsContract`, `ClosedForGood`, for any mix of modes. `LockedByCommitTrack` gives that
  two Commit Tracks with a lock are never for the same resource, and so that `Release` frees
  its own lock. `IInv` adds what each location says about answer and signals (`Stage`). A
  resource that is intact after a step was so before it (`IntactBefore`), so the panicking
  track's `Release` concerns no resource that a property still speaks of; `EndCrashes` has the
  end of the process map to the contract's crash.
- **`SignalHubProofs`.** `TypeCorrect`, `OnePlace`, `BuffersOnlyWhileAway`,
  `FirstStreamOrdered`, for any number of streams and signals and any capacity. The queues
  of the hub (delivered, each stream's replay, channel, buffer) are one function `Queues`;
  `HubInv` says that every message that is not gone is at exactly one position of it and
  none that is (`Placed`: inside, covered, once), the form of `ExactlyOnePlace` in which
  moving a message from one end of a queue to another is easy to follow; that a stream that
  is not replaying holds nothing and an active client has nothing buffered (`Idle`); that of
  streams that do not overlap at most one is open and marks the client active (`OpenInv`;
  `hub_inactive` shows what an overlap does to that); and that while there has been one
  stream only, the queues in this order are sorted (`Sorted`). That `pruneExpired` keeps
  order, keeps what is not expired and duplicates nothing is proved by induction with a set
  in place of a predicate, from the well-foundedness of the naturals.
- **`ResolverProofs`.** `TypeCorrect`, for any calls; `NothingLeft`, `SignalsMatched`,
  `SettledStays`, `ConfirmedComplete` for calls that do not overlap (`~Overlap`), any number
  of them, and a channel that does what it likes. `IInv` adds that only one thing is under
  way (`OneAtATime`: a request, a due refetch or a speculation, so that the refetch timer,
  which no handle remembers, is alone when it runs) and that what is remembered belongs to
  what is shown (`HandlesOfView`); `OneAtATime` is what `resolver_overlap` breaks.
  `SettledStays` needs that a reply is for a call that is not shown yet (`FreshCalls`): a
  settled resolver then has no handler and no timer left that could change the view. For
  `ConfirmedComplete`, of a call the channel has not disturbed, what was emitted, what is
  held back and what is under way make up what was sent (`Progress`), and `deferredFields`
  is this response's and not an earlier one's (`KnowsDeferred`).
- **`StateVaultProofs`.** `TypeCorrect`, `DistinctVersions`, `VersionsCover`: a number is
  larger than all that were taken in the same life of the counter (`NumbersBelowCounter`),
  a document is stored after its number was taken (`NumberBeforeDocument`), a Get has no
  version before its document (`VersionLast`), and the memory driver changes both in one step
  (`MemoryTogether`); `Covered` is the property for Gets under way. `VersionOutlives`,
  `AgeTrue`: between a Set's commands only a disturbance can take the counter away
  (`CounterHolds`), after them it expires no earlier than the document but for the fraction of a
  second that EXPIRE cuts off (`CounterLasts`, with `Seconds` about that fraction), no time
  to live reaches beyond one given now (`ExpiresInTime`), so that another call's EXPIRE
  does no harm; what a Get has seen is no newer than what is stored (`SeenBefore`), and the
  rounding of the server's answer is a lemma about division (`Rounding`).
- **`EdgeProxyProofs`.** `Answers`, `WritesAnswered`, `StreamHasList`, `Intervals`, for any
  number of requests, streams and failures. What a request has published follows from where
  its task is (`LogOfRead`, `LogOfWrite`); a poll starts at `lastIndex` and its answer is
  the list from there, however long the list is by the time it is received (`Followed`);
  without an overlap the interval remembered is the one there is (`OneInterval`).
- **`EndpointsProofs`.** `EntriesAreOwn`, `AnswersFollowTheFile`, for
  any configuration files, requests and fields. `EndInv`: the configuration in force is what
  `Load` made of the file, every vault entry came from an accepted request with its key
  (`Came`), and a speculative answer was decided from such an entry (`Decided`). What remains
  is about the operators. A key determines its request (`KeyDetermines`): the query is
  what follows the first question mark (`QueryIsApart`), the id what follows the last colon
  before it, as long as an id has none (`JoinTellsPaths`), and the cleaned path is the two put
  together again. The endpoint the classifier picks from the loaded configuration is the one
  the file has for the path, or none (`WrittenIs`); a setting that is written survives
  `Load` and the classifier, and one left out falls back to the endpoint's and then to the
  default, in whichever of the two layers (`TreatedAsWritten`).
- **`AnticSystemProofs`.** `PageImplementsResolver`, for any capacity, any number of calls and
  streams, overlapping requests included; `HeldBackForAReason` and `PageConfirmsAll` for
  requests that do not overlap. The invariant is the hub's, joined with: the log has one entry
  for each message, none for a call that was not made, and the page has dispatched no more than
  it received (`JoinInv`). What is outstanding for a call is then the names of its messages
  that are under way, in their order, and what its track has not published (`Owed`). Each step
  of hub, network and track either leaves that as it is or takes one signal out of it
  (`NoneLost`, `OneLost`, `NothingTaken`, `OneTaken`), so it is a stutter or the channel's
  `Lose`; dispatching a message is the resolver's delivery of it, and each step of the page
  is the same step of `Client`. `PageConfirmsAll` carries `ConfirmedComplete` over: the
  resolver's invariants hold with `Outstanding` as its channel (`PageInv`). For
  `HeldBackForAReason` the hub's `Sorted` shows that on one stream the page is given the oldest
  message under way first (`OldestFirst`); a FILL that comes while the PATCH is neither shown
  nor lost contradicts that.

**Model-checked only.** Liveness, which the prover does not handle: the fairness part of
`KeepsContract`, `AnswerReachesVault`, `LocksAreReleased`, `DeliveredToLoneStream`,
`SpeculationEnds`, `SignalsEndSpeculation`, `StreamCatchesUp`. Every
invariant the passing runs check is a theorem. Those about what a resolver shows and holds
back are for `~Overlap`, the case their runs check; `resolver_overlap` shows what becomes of a
confirmation without it.
`ConfirmedIsComplete` is weaker than it may sound: it excludes calls one of whose signals was
lost, came before the response, or was more than 50 ms behind a FILL. For those the resolver
still ends (`SpeculationEnds`), by its timer.

## 6. Plan

1. *Done:* `Reconciliation`, `SignalContract`, `ReadTrack`, `WriteTrack`, `SignalHub`,
   `Resolver`, with instances and proofs.
2. *Done:* `StateVault` with both drivers, `Endpoints`, `EdgeProxy` and `AnticSystem`, the
   proofs about the vault and the edge proxy, and those about the resolver's settled and
   confirmed views.
3. *Next:* the composition of the edge proxy with the resolver, which shares the protocol but
   not `SignalContract` (a PATCH and a REPLACE for one ID).
4. *Done:* the proofs about the hub, the endpoints and the page over the hub, for which
   `pruneExpired` and `Clean` became definitions the prover can reason about.
5. The vault of `ReadTrack` replaced by the Redis driver's, whose `Set` may fail: then
   `AnswerReachesVault` holds only for answers whose commands arrive.

## 7. Not modelled

- The React Query and SWR bindings: hooks that copy a resolver's events into a cache
  library's state. What could go wrong there depends on when React runs effects and on
  that library, neither of which is in the repository.
- The demos, an earlier version of the same proxy among them.
- Several resolvers on one page (they share the EventSource and the map from IDs to
  handlers), and a speculative response without a Reconcile ID.
- The text of headers and logs, CORS, heartbeats, the contents of a JSON patch, flags.

`PROJECT.json` has the reasons per component.
