# A verification development of AEGIS BOT SHIELD

AEGIS BOT SHIELD detects bots.  A browser SDK sends telemetry and solves
proof-of-work challenges; server middleware (Node, Python, an edge worker)
scores every request and answers *allow*, *challenge* or *block*.  This directory holds TLA+
models of the parts of the system that keep state, the TLC configurations that
check them on small instances, and proofs, checked by TLAPS, of the properties
that matter most.  Paths below are relative to `packages/` unless they start
with `deploy/` or `README.md`.

## 1. Inventory

| component | state | operations | interacts with | what makes it correct |
|---|---|---|---|---|
| bounded map `core/src/utils/bounded.ts` | two generations of entries | get, set, delete, clear, iteration; eviction callback | every per-client table | bound respected, recently used keys kept, deleted keys stay deleted |
| sliding-window limiter | bounded map of timestamp lists, cleanup timer | isAllowed, getCurrentCount, reset, cleanup, destroy | engine | never more than the limit within a window, never refused below it, exact resetMs |
| token-bucket limiter | bounded map of [tokens, lastRefill], cleanup timer | isAllowed, consume, getStatus, reset, resetAll, cleanup, destroy | engine | as if refilled continuously; exact retryAfterMs |
| session manager | bounded map of sessions, unbounded map of request times, counters, timer | processRequest, addVerdict, cleanup, destroy | engine; cookie through the node server | tables agree, no leak, no double count, idle sessions end, velocity check exact |
| shared store | claims, hit windows, values | claimOnce, hit, get, set, cleanup | challenges, signatures, rate limits, session records | both implementations answer as the interface promises |
| proof-of-work challenge | claims in the store, or a NonceCache per process | issue, verify | store; node server's challenge endpoint | at most one scrypt per challenge |
| request signing | nonces in the store or per process | signRequest, verify, verifyAsync | store | a request is accepted once |
| node server core `server-node/src/AegisNode.ts` | engine, session records, shared limits, cookie and token in the browser | handleTelemetry, handleChallenge, evaluate | engine, store, browser | session continuity, telemetry evidence behind every allow on token-required paths |
| detection engine | running flag, modules, event handlers | init, analyze, recordResponse, shutdown | all modules | fails open, answers every request once, releases its state |
| adaptive rate limiter | traffic history, attack mode, cost multiplier | check, analysis timer | the two limiters | an attack mode ends once traffic is calm |
| risk scoring `core/src/engine/RiskScorer.ts` | none | calculate; decide, classifyThreats | signals of all analyzers | more evidence never lowers score or verdict |
| header, TLS, HTTP/2, honeypot, input, client-report analyzers | none (TLS: addresses per fingerprint) | analyze | risk scoring | signals as the rules say; a shared fingerprint is reported only when it is shared |
| QUIC fingerprints `core/src/modules/fingerprint/quic.ts` | CRYPTO frames of unfinished handshakes | push, fingerprint | engine | found as soon as it is whole, in any order; one client, one fingerprint |
| bot behaviour analyzer | bounded map of request histories | observe, recordResponse | engine, adapters | statuses belong to their requests; runs of sequential pages counted exactly |
| IP analysis | request rates, subnet rotations, flows, a cache of locations | analyze, record..., cleanup, lookup | engine, outside resolvers | what is reported of an address happened within its time span; no location served beyond its lifetime |
| threat database, feeds | entries, lazy CIDR index, file; downloads, on-disk copies | add, remove, check, replaceSource, prune, sync | engine | index in step with entries, failed syncs keep the old list |
| Tor exit list | nodes in use, shared download, copy on disk | refresh, timer, restart | engine | the list never goes back to an older one |
| web framework adapters | none | Express, Fastify and plain middlewares | engine, application | one answer per request, no denied request reaches the application, unless callbacks throw |
| live feed and stats | pending batch, drop counter, clients | event, flush, upgrade, heartbeat, close | node server, dashboard | every event delivered or counted as dropped |
| dashboard's live data `dashboard/src/api.ts` | socket, timers, events shown, requests in flight | connect, retry, poll, close | live feed, REST interface | never left without a socket, a retry or a poll |
| browser client | token, in-flight submission, in-flight challenge | submit, getToken, passChallenge, reset, stop | node server | one submission at a time, the newest token wins, no lock-out |
| collectors, study recorder, replay | lists of times and lengths; recorded batches | keyboard, pointer, scroll and touch events; export, replay | browser client, study server | a replay gives the features that were collected live, where both heard of the same events |
| edge worker | per-isolate windows | decide, forward | node server | never refuses a token that the origin would accept |
| Python server | store and session tracker with locks; sessions in a store | as the node server, through Django, Flask or FastAPI | store | as the node server: promises of the store, no session in use dropped, every request recorded |
| ML engine; Python analyzers and feeds; headless, anti-detect and device checks of the SDK; dashboard pages; study site, bots, load tests | none that later requests depend on, or the same as above | pure functions, UI, offline jobs | - | unit-tested tables and statistics |

What is hard here, and what the properties are aimed at (PROJECT.json lists
each hazard at its line):

* eviction that happens inside a *read*, in a structure with two generations;
* timers that sweep tables between two requests of one client;
* boundaries of time comparisons (`<`, `<=`, floored seconds, fractions);
* records that are read, changed over several awaits and written back whole;
* several instances that share only part of their state, with clocks that differ;
* a store that fails before, after or instead of an operation; engines that
  fail open, forget sessions or restart;
* downloads, datagrams, batches and answers that arrive late, twice or in
  another order;
* threads that read the clock before they wait for a lock;
* modules and callbacks that throw in the middle of a request.

## 2. Modules

| module | models | composed from |
|---|---|---|
| `PartialFunctions` | JavaScript Maps and objects as partial functions, arrays that keep the newest entries | |
| `BoundedMap` | the two-generation map as operators on `[current, previous]`, one per method | `PartialFunctions` |
| `BoundedMapSpec` | the map as a state machine, with the history its promise needs | `BoundedMap`; refines `LossyMap` |
| `LossyMap` | abstract: a map that answers every call correctly but may forget other keys while one is used | |
| `SlidingWindow` | `SlidingWindowLimiter` | `BoundedMap` |
| `TokenBucket` | `TokenBucketLimiter` | `BoundedMap`; refines `EagerBucket` |
| `EagerBucket` | abstract: levels that rise at every tick | |
| `AdaptiveLimiter` | `AdaptiveRateLimiter`: traffic history, attack mode, cost of a request | |
| `SessionManager` | `SessionManager` | `BoundedMap` |
| `Store` | what the operations of a store do to its data at a time | `PartialFunctions` |
| `StoreSpec` | the memory and the Redis store side by side, against the complete log of operations | `Store` |
| `PowChallenge` | `MemoryHardChallenger` on several instances, with calls to the store in flight | `Store` |
| `SignedRequests` | `AntiTamper`, with either nonce store | `Store` |
| `NodeSessions` | `AegisNode` on several instances, one browser, one shared store | `PartialFunctions` |
| `LocalRecords` | the session records of an `AegisNode` without a store: objects on a heap | `PartialFunctions` |
| `SharedLimits` | `checkSharedLimits()`: parallel hits of overlapping requests, some of which fail | `Store` |
| `BotBehavior` | `BotBehaviorAnalyzer` as operators on a session's history | |
| `VisitPatterns` | a session that visits pages, against what the patterns mean | `BotBehavior` |
| `RequestFlow` | a request through an adapter, the engine and the application and back | `BotBehavior` |
| `RiskScoring` | the signals of the stateless analyzers, `RiskScorer`, the verdict and the threats | |
| `AddressTrackers` | rates, rotations, flows, addresses behind a fingerprint | `BoundedMap` |
| `ThreatIntel` | the threat database, one operator per method; such a database with its file, or with `ThreatFeedSync`, its downloads in flight and its copies | `PartialFunctions` |
| `ExternalLists` | `TorExitNodeChecker`, `GeoIPResolver` | `PartialFunctions` |
| `QuicHandshake` | reassembly of Initial packets, fingerprints of hellos | |
| `LiveFeed` | the WebSocket feed and the counters behind it | |
| `Dashboard` | `useLiveStats()` on that feed | `LiveFeed` |
| `BrowserClient` | `AegisClient`, `TokenManager` and `RequestInterceptor` in one page, and what the node server answers them | |
| `Collectors` | the SDK's behaviour collectors as operators, one per event handler | `PartialFunctions` |
| `Recording` | a page with its collectors and the study's recorder, which hear of different events, the batches, the export and `replayFeatures()` | `Collectors` |
| `EdgeWorker` | the worker's decision on a token, then the origin's; the worker's own rate limit | |
| `PythonStore` | the Python `MemoryStore`, with threads | |
| `PythonSessions` | the Python `SessionTracker` in memory, with threads | `PartialFunctions` |
| `PythonRequests` | the Python middlewares with a shared store | `PartialFunctions` |
| `MC...` | instances for TLC: symmetry, the values of structured constants | |
| `DataPathsProofs` | theorems about the bounded map, the stores, the live feed and the dashboard | `BoundedMapSpec`, `StoreSpec`, `Dashboard` |
| `ClientTablesProofs` | theorems about the limiters, the sessions and the trackers | `MCClientTables`, `AddressTrackers` |
| `PowChallengeProofs` | theorems about challenges | `PowChallenge` |
| `IntelligenceProofs` | theorems about the threat database, the outside lists and signed requests | `ThreatIntel`, `ExternalLists`, `SignedRequests` |
| `ServerProofs` | theorems about the node server's session records, the request flow, local records, the Python middlewares and the edge worker | `NodeSessions`, `RequestFlow`, `LocalRecords`, `PythonRequests`, `EdgeWorker` |
| `ServerTablesProofs` | theorems about the tables in which a server counts calls | `MCServer` |
| `BrowserClientProofs` | theorems about the browser client | `BrowserClient` |
| `ScoringProofs` | theorems about scores, patterns in visits and handshakes | `RiskScoring`, `VisitPatterns`, `QuicHandshake` |

`MCDataPaths`, `MCClientTables`, `MCIntelligence` and `MCServer` each hold
several components that do not share state but answer the same kind of
question.  The initial state picks one (variable `part` or `used`), the others
stay idle; their next-state relations and properties are those of the
components' modules, guarded by the choice.  A component that theorems speak
of is taken with EXTENDS, so its names are distinct from the others' and the run
checks the very definitions the theorems state; the rest are instances.

Conventions.  An action is a whole synchronous stretch of code: JavaScript runs
a handler without interruption up to the next `await`, so `SlidingWindow`,
`TokenBucket` and `SessionManager` have one action per method, while
`PowChallenge`, `NodeSessions`, `LocalRecords`, `ThreatIntel`, `ExternalLists`,
`Dashboard` and `BrowserClient` have one per
stretch between awaits (`Verify`/`Claim`; `Analyze`/`GetRecord`/`AnswerRequest`;
`SyncAll`/`Arrive`; `Send`/`SubmissionArrives`).  In the Python modules a
thread's step is the reading of the clock, or what it does while it holds the lock.  Variables marked *history* are
not in the code; they record what a property has to compare with and no action
reads them.  (In `NodeSessions`, `issued` stands for the uniqueness of random
UUIDs, as in `SessionManager`, and so does `drawn` in `PythonRequests`.)  Operators marked *Mutant* are faulty versions of the definition
that follows them; they are not used by the specification and document which
mistake each property would reveal.

How the state corresponds:

* `BoundedMap`: `m.current`, `m.previous` are the two Maps.  `AfterGet` is
  separate from `ValueOf`, since a read changes the map; `DroppedBy...` is the
  set of keys for which `onEvict` runs.  An entry fetched from the map and
  changed in place is `Mutate`.
* `SlidingWindow.windows`, `TokenBucket.buckets`, `SessionManager.sessions` are
  the bounded maps; `requestTimes` is the Map beside it.  `armed` and
  `cleanupDue` stand for the interval timers.  `granted`, `comeback` and `recent`
  (histories) are when requests were allowed, what was promised and when a
  session's requests were made.  Tokens are counted in units of
  which a tick refills `Refill`.
* `StoreSpec.memory` and `.redis` hold `once`, `windows`, `values`; Redis
  expiry is by `windowExpires` and the claims' and values' own times.
* `PowChallenge.calls` and `SignedRequests.waiting` are the calls waiting for the
  store; in `PowChallenge` each has the time to live it computed from its own
  clock (`Skew`).
* `NodeSessions.reqs[r]` is a request with what its handler holds in local
  variables (`sid`, `record`); `engine[i]` the sessions of an instance's engine;
  `records` the JSON values in the store.
* `ThreatIntel.db` holds `entries` (`exact`), `cidrEntries` (`ranges`),
  `patternEntries` (`patterns`) and `cidrIndex` (`index`, a set of entries:
  what matters is which ranges it was built from); `fetching` are the downloads
  that `sync()` awaits, `asked` the ages of `lastSync`, `copies` the cache
  directory.  Feeds and users list identifiers; `Serve` is the publisher's
  answer, so a download can carry a list that is outdated when it arrives.
* `BrowserClient.inFlight` and `challengeInFlight` are the two shared promises,
  with the answer once the server has given it.  A request that is `waiting`
  or `challenged` awaits them; `sent` carries the verdict the server will
  return, `hooked` says that the wrapped `fetch` looks at it, `retried` that
  this was its second attempt.  A token's `left` is its lifetime on the
  server's clock (negative once it is over), `until` on the client's, `late` by
  how much its answer's delay exceeded the skew.  A request's score is a free choice
  (`middling`); blocked requests end as allowed ones do.
* `LiveFeed.pending`, `dropped`, `clients`, `alive` are the feed's variables;
  `outbox` is what is under way to the page of `Dashboard`, whose `socket`,
  `retrying`, `polling` and `fetches` are its socket, timers and requests.
* `Recording`: `keyboard`, `mouse`, `scroll`, `touch` are the collectors'
  fields, `buffer`, `held` and `lastScroll` the recorder's, `stored` the rows
  of `raw_batches`.  `page` and `finger` are what the browser knows: the layout,
  and whether it has taken a touch for a pan.  `grain` is the unit to which
  `r1()` rounds: 1 if times and positions are multiples of a tenth already, 2 if
  half of them are not.  `irregular` (history) has the devices of which an input
  reached the recorder and the collectors differently.  Elements begin at 0, the
  pointer moves along one axis, one finger touches; pressure, radius and second
  fingers are left out, and no handler of the page stops an event.
* Lists that `save()` cuts (`MaxTimes` and `MaxRisk` in `NodeSessions`, `KeptTimes`
  and `KeptRisk` in `LocalRecords`; 500 and 100 in the code) and `record_request()`
  cuts (`MaxListed` in `PythonSessions` and `PythonRequests`, 500) are sequences
  of requests, the newest last.
* `AdaptiveLimiter.multiplier` is in tenths.  The comparison of the floats
  (`=== 1.0` after steps of 0.2) comes out as binary fractions make it: after
  the last step the multiplier is a hair above one, and one more relaxation
  ends the attack.
* `RequestFlow.flow[r]` is a request with its place in the adapter's code, the
  verdict, the callbacks made and the answers given (`late` if something threw
  after the first); `histories` the analyzer's, `known` the engine's sessions.
* `LocalRecords.heap` holds the record objects; `local` the map from sessions to
  places on the heap; a request keeps the place it was given, and `Finish` cuts
  the lists of the object there in place.
* `SharedLimits.windows` are the store's windows of one address; `asked`,
  `exceeded` and `failed` of a request what it knows of its parallel hits, which
  can fail before the store counts them (`HitFails`) or after (`HitLost`).
* `RiskScoring` computes in hundredths of a point; requests are records of the facts
  that the rules test.
* `AddressTrackers.log` (history) lists the requests; properties compare
  what is reported with it.
* `ExternalLists.nodes` is the list in use, `inUse` which published one it came
  from (0 for the built-in one); `places` is the cache of locations.
* `QuicHandshake`: a byte is its position in the ClientHello, a packet its kind and
  the frames it carries.  A *broken* packet cannot be decrypted, and its datagram
  leaves nothing; a *garbled* one can, but its frames cannot be parsed: it is
  counted, the frames of the packets before it are kept, and what has been
  collected is put together only with the next datagram that has no error (`heard`).
* `PythonStore.table` is the one of the three `OrderedDict`s a behaviour uses,
  `calls` the threads that have read the clock and wait for the lock;
  `PythonSessions.sessions` the objects, `order` the `OrderedDict`.
* `PythonRequests.visits[r]` is a request with the copy of the session it works
  on; `stored` the sessions in the store; `jar` and `badge` what the browser holds.
  An analysis that fails ends as `failOpen` says, in *allow* or *challenge*.
* `EdgeWorker.clock` is the edge's, `Lag` ticks ahead of the origin's; `edge`
  and `origin` are the two decisions on one request.

## 3. What is checked

| run | bounds | shows |
|---|---|---|
| `DataPaths` | map: 5 keys, 2 values, maxSize 4; store: 1 key, window 2, cap 3, time to 5; feed: 2 viewers of whom 1 is admitted, batches of 1, 3 events; dashboard: 1 request in flight; recording: 4 inputs, batches of 3, 2 batches, grains of 1 and 2, pages of two heights in two viewports, two points, boxes with and without an area | `SizeBounded`, `RecentKept`, refinement of `LossyMap`; both stores answer as promised; no event is lost silently; a dashboard is never stranded; a complete recording replays to the live features |
| `ClientTables` | 3 keys, maxSize 2; window: limit 2, length 3, time to 8; bucket: capacity 4, refill 2, cost 3, maxAge 2, time to 5; sessions: age 1, interval 2, time to 6; traffic: 12 intervals of 3 possible rates | the limit holds in every window, and the wait that is promised is exact, for both limiters; refinement of `EagerBucket`; request times in step with sessions; idle sessions end; attacks end |
| `Intelligence` | challenges: 2 instances one tick apart that share a store, one on its own, 2 calls, slack at its minimum; signatures: skew 1 s of 3 ticks, four clock offsets; feeds: 1 with 3 lists, 2 downloads in flight, 3 operations; exit list: 3 versions, 2 downloads; places: 2 look-ups; trackers: 3 addresses, 4 requests; QUIC: 5 bytes, 3 datagrams of 2 packets; scores: requests that differ from an ordinary one in two facts; visits: 5 of a history of 4 | at most one scrypt per challenge; the one way in which a signed request can be accepted twice; look-ups find exactly what is listed, and the published lists arrive; the exit list only advances; nothing stale is served or reported; handshakes are read in any order; evidence never helps; runs of pages are counted exactly |
| `Server` | sessions: 2 instances, 3 requests, 1 fault; flow: 3 adapters, 3 requests, 1 error; records: 2 sessions, 3 requests; lists of two times and one score; limits: 2 windows of 2 and 1 hits, 3 requests, 1 failure; Python: store of 2 keys for 3, 2 threads, 4 operations; tracker of 2 sessions of age 2 for 2 browsers, 4 requests; 3 requests with a store, 1 overlap or fault; edge: a token of 1 s of 2 ticks, clocks half a second apart; isolate: 2 addresses for 3, 2 calls per window, 6 calls | nothing is lost without overlap or fault; evidence behind every allow on a token-required path, in Node and in Python; one answer per request, but for what throws after it; statuses belong; the limits hold; the Python store, tracker and middlewares keep their promises; the edge agrees with the origin |
| `BrowserClient` | 2 fetches, one of them to a token-required path, lifetimes of 3 ticks, answers up to 2 ticks late with a skew of 1, 1 operation | a cached token is accepted; nobody waits in vain; a stopped client stays stopped; the page is let through again and again |
| `NonceReuse` | 1 nonce, a signer ahead by the whole skew, calls that take no time | **violated**: finding 1 |
| `NodeReplicas` | 2 instances, sequential browser, no fault | **violated**: finding 2 |
| `NodeLostUpdate` | 1 instance, overlapping requests | **violated**: finding 3 |
| `ThreatOverlap` | 1 feed; it and the user list the same address | **violated**: finding 4 |
| `BrowserLockout` | 1 fetch to a token-required path | **violated**: finding 5 |
| `IPv6Ranges` | requests that differ from an ordinary one in two facts | **violated**: finding 6 |
| `RecordedFeatures` | 2 inputs, one key, two scroll positions | **violated**: finding 7 |

The passing runs also check the type invariants of their components
(`DataTypeOK`, `TablesTypeOK`, `PartsTypeOK`, `ServerTypeOK`, `TypeOK`).

By property:

* `DataPaths`: `SizeBounded`, `RecentKept`, `ImplementsLossyMap` (map), `PromiseKept`
  (both stores), `ViewersInformed` (feed), `NeverStranded` (dashboard),
  `ReplayMatches` (recording).
* `ClientTables`: `WindowPromises` (window: `WindowRespected`, its limit, and
  `ResetIsExact`, the wait that a refused client is told), `RetryAfterIsExact` and
  `ImplementsEagerBucket` (bucket), `RequestTimesExact` and `StaleNotResumed` (sessions),
  `AttackEnds` (adaptive limiter).
* `Intelligence`: `AtMostOnce` (challenges), `RepeatOnlyInLastSecond`
  (signatures), `ListedExactly` and `FeedsCatchUp` (feeds), `TorListAdvances`
  and `ServedFresh` (outside lists), `ReportsJustified` (trackers),
  `HandshakesRead` (QUIC), `EvidenceRaises` (scores), `RunIsLongest` (visits).
* `Server`: `UndisturbedComplete` and `EvidenceBehindAllow` (sessions),
  `AnsweredOnce` and `StatusesBelong` (flow), `StoredObject` (records),
  `TablesExact` (shared and isolate limits, Python store and tracker), `VisitsKept`
  (Python middlewares), `EdgeAgrees` (edge).
* `BrowserClient`: `CachedTokenAccepted`, `NobodyForgotten`, `StaysStopped`, `LetThrough`.
* Violated (`ThreatOverlap` and `IPv6Ranges` are the parts `feeds` and `scores` of
  `MCIntelligence` with other constants, `RecordedFeatures` is `Recording` by itself), in the order of the findings: `NonceUsedOnce`, `SessionContinues`,
  `TelemetryKept`, `ManualKept`, `FreshTelemetryWhenNeeded`,
  `RangesLeaveIPv6Alone`, `ReplayMatchesLive`.

Why the bounds are enough.  In the bounded map a key matters only relative to
the two generations, so a few keys more than there is room for
reach every way of dropping, promoting and re-inserting one; the proofs remove
the bound.  The limiters and the session manager use two generations of one
key each, the smallest map that evicts, and clocks that run past one expiry
and one cleanup after it (for sessions: past the last moment at which
`StaleNotResumed` lets one be resumed).  Keys of the store do not interact, so one suffices;
its clock passes two windows.  The clocks of the challenge and signature runs pass the last moment at which any
claim or nonce could matter, and the slack is set to the least value the
assumption allows.  Three requests let one be in flight across two others, which every hazard of the record needs
(read - write - stale write); a fault budget of one covers each fault alone,
and combinations of two faults are not checked.  Every list that code cuts is
shorter than the number of requests.  An attack on the adaptive limiter can be as
large as the largest rate against the smallest; its history is longer than an
attack needs to end, as `AdaptiveAssumption` demands.

In the feeds, entries live for one tick or for ever, the timer fires faster than the
minimal interval, and that is longer than a download may take, as in the
defaults (15 s against 15 min); three operations (calls by users, publications,
starts, shutdowns, restarts) are enough to shut down an engine and initialise
it again while a list changes.  The exit list has an older, a newer and an unusable version,
and room for two downloads, which would overtake each other if they were not shared; five bytes of a ClientHello can
come split, overlapping and repeated in three datagrams.  One event more than
a batch holds and one viewer more than the feed admits reach the drops and the
refusal.  Four recorded inputs, with the two rows of the layout, fill two batches, so one can be late, lost or
out of order; a part of that run whose device has become irregular goes no further.  There are more keys, sessions and addresses than any Python or edge
table holds, and threads wait for a lock across one tick, which is less than a
session's age, so that one is resumed at its last moment or found expired.  The three Python
requests suffice to earn a token by telemetry or by work and to use it.
`BrowserClient` has times instead of clocks, so its
behaviours are endless; its tokens live long enough to be used, renewed and to
expire, answers are slower than the skew or not, and one operation (stop, reset, a lost record) can fall anywhere.

### Liveness and fairness

`FeedsCatchUp` (`ThreatIntel`, in `Intelligence`): if from some point on the engine is not shut down, the
database ends up with the published lists.  Assumed: time passes, the interval
timer fires, and a feed that is asked again and again answers sometimes (strong
fairness of `ServeSome` and `ArriveSome`).  The code retries for ever, at the
minimal interval, and time-outs end every download, which justifies asking
again and again.  In the other parts of that run the feeds are idle and up to date.

`LetThrough` (`BrowserClient`): if from some point on the client is not stopped,
every fetch that the page repeats is let through again and again; a fetch to a
token-required path only if the client does not give up submitting telemetry,
which finding 5 shows it may.  Assumed: the page goes on (`Send`, `Receive`),
device detection ends (`Started`), and of the submissions and solutions that a
request waits for not all fail (strong fairness per request).  Nothing is
assumed about the server's verdict: a request that carries no solved challenge
may be challenged every time.  The run's answers take less than a token's life;
with slower ones every token would arrive expired, and nothing in the client
ends such a call (`AegisClient.ts:136`, `:186-198`).

`AttackEnds` and `NeverStranded` are the safety halves of two further promises:
that attack mode is over after a bounded number of calm intervals, and that a
dashboard always has something under way that will bring data.

The other properties say what no step may do.  Deadlock is checked in
`ClientTables` and `BrowserClient`, which never stop; the other runs contain parts
with a bounded number of requests, events or operations, and end.

### Findings

1. `AntiTamper` keeps a nonce for twice the skew, but the timestamp window is
   almost a second longer because it compares floored seconds
   (`AntiTamper.ts:57`, `:77`, `:85`).  `RepeatOnlyInLastSecond` shows that this is the only
   way to be accepted twice; a slow call to the store widens it by its delay.
2. Session records are shared, the engine's sessions are not: behind two
   replicas a browser's session is replaced and its token scored as copied
   (`AegisNode.ts:541`), although `deploy/README.md:45` says that replicas
   behave like one.
3. A lost update of a record can erase the telemetry score, not only a request
   time (`AegisNode.ts:141`, `README.md:582`).
4. The addresses of all sources share one map: a feed that lists an address
   replaces the entry added for it by hand, and takes it along when it drops the
   address (`ThreatDatabase.ts:231`), although `replaceSource()` is said to
   replace "every entry from one feed source".
5. A token from a solved challenge keeps telemetry from being submitted
   (`AegisClient.ts:158`), and every further challenge renews it: if there was no
   telemetry on record, token-required paths stay challenged for ever.
   `LetThrough` shows that nothing else locks a page out.
6. The range checks read an IPv6 address up to its first letter or colon, so
   the test that is to leave IPv6 alone never holds and such an address is found
   in IPv4 ranges (`IPAnalyzer.ts:226` against `:217`).
7. The study's recorder takes one scroll event per frame, the live collector
   every one, so replayed scroll features can differ
   (`study/aegis_study/static/recorder.js:149` against `js-sdk/src/replay.ts:14`).  `ReplayMatches` states
   when the features of a device do agree: nothing was lost, the client was not
   stopped, and none of the inputs that its comment lists occurred, each of which the
   recorder and the collectors see differently; counts agree even when `r1()` rounds
   times and positions, everything else only if it does not.

Met while reading or modelling, not checked by a run:

* when the engine fails open it returns no session, so the client's valid token
  is scored as another session's and the request is challenged (`AegisNode.ts:541`, `:614`);
* overlapping first requests of a browser each open a session, on one instance
  already; `NodeReplicas` is sequential and shows it for two instances only;
* a request that waits for the IP analysis while the engine shuts down creates a
  session in the cleared map (`DetectionEngine.ts:198`); `SessionManager` is modelled
  without the engine, so no run shows it;
* the edge worker's own limit denies requests (`rate_limited`) that the origin
  would accept; `EdgeAgrees` speaks of the decisions on tokens;
* `onDeny()`, and the handler of a plain server, may throw after they have
  answered: the `catch` blocks of the adapters then call `next()`, and the request is
  answered again (`express.ts:60-63`, `generic.ts:46-48`).  No document
  promises otherwise, so `AnsweredOnce` names the case;
* pages whose numbers *fall* by a constant step are reported as a sequence, too: the
  comment of `longestSequentialRun()` says "increasing" (`BotBehaviorAnalyzer.ts:76`
  against `:88`), the thesis notes "changes by a constant step"
  (`docs/thesis/THESIS_NOTES.md:226`).  The code and `RunIsLongest` follow the latter;
* a subnet rotation counts visits from changing addresses, not "distinct IPs"
  (`ResidentialProxyDetector.ts:27`): two addresses that take turns suffice;
* the Python middlewares, too, fail open by default (`middleware.py:283-286`): a
  request to a token-required path whose analysis fails is let through without any
  evidence, which `VisitsKept` excepts by name;
* with a store, denied requests count towards the limits too, in the process they do
  not (`AegisNode.ts:289`);
* a TLS fingerprint shared "in a short time" (`TLSFingerprinter.ts:184`) is one
  shared without a pause of five minutes, however long that takes;
* a poll that answers late can put older events above newer ones
  (`dashboard/src/api.ts`), and a Tor list of nothing but ranges empties the
  list in use, while an empty answer keeps it;
* `ResidentialProxyDetector` drops a flow an hour after its first request,
  active or not;
* in Python, too, a lost update costs more than "a request time"
  (`sessions.py:8`): an allowed request writes its copy back only after the
  application has answered, and erases a telemetry score saved meanwhile;
* a Python session that a request has resumed but not yet recorded can be
  dropped by an overlapping one, and its times with it;
* "stored once per request" (`middleware.py:227`) does not hold for Flask, where
  the `after_request` hook stores a denied request a second time;
* with a store, `handle_challenge()` of the Python server answers with the cookie
  and the token of a session it does not save, so a browser that begins with a
  challenge gets a token for a session the next request cannot load;
* the isolate limiter evicts the address inserted first, however busy.

Assumptions that the code makes silently are stated as assumptions of the
models: `Span <= StaleAfter` in `StoreSpec` (`MemoryStore.cleanup` forgets a
window an hour after its last hit, `Store.ts:82-83`, so a limit that counts over
more than an hour would start anew), and with the wait for the lock in
`PythonStore`; `Capacity <= Refill * MaxAge` in
`TokenBucket` (a stale bucket that is deleted would have been full); the
slack in `PowAssumption` (section 4);
`HistorySize > 11` in `AdaptiveLimiter` (an attack that is forgotten before it
ends is compared with itself); and `Lag < Second` in `EdgeWorker`: the edge floors
the time, so it agrees with an origin whose clock is less than a second behind.  In `BrowserClient`
the five seconds by which the client renews a token early cover the floored `exp`
and an answer that takes no longer (`TokenManager.ts:12`); slower ones are not
assumed away, and `CachedTokenAccepted` says what they cost.

## 4. What is proved

Every theorem holds for all values of the constants that the named assumptions
of its module allow; the bounds of the runs (clocks, numbers of calls,
events and operations) are constants too, so no bound is left but the finiteness
that the assumptions name.

**Bounded map** (`DataPathsProofs`), for every finite set of keys, every set of
values and every `MaxSize >= 2`.  `RecentKept`, the promise of the class comment, is not
inductive: nothing in it says why a key that leaves the previous generation was
old.  The invariant `IInv` adds `Disjoint` and `PreviousIsOlder`: each
generation has at most `GenerationSize` keys, and a key in the previous one has
seen at least as many insertions as the current one holds keys.  When the
generations rotate the current one is full, so every key that is dropped has seen
`GenerationSize` insertions, and the one that causes the rotation makes it more.
`InsertIInv` is that step; `SetIInv`, `GetIInv`, `DeleteIInv`, `ClearIInv`
reduce the operations to it.  `SizeBound` follows with the cardinality lemmas,
and `Refinement` shows that each step, seen through the union of the
generations, is a step of `LossyMap`.

**Stores** (`DataPathsProofs`).  `PromiseAlways`: both stores give every operation the
answer computed from the log of all operations.  `StoresInv` compares what each
table holds of a key with that log (`ClaimsKept`, `ValueKept`, `WindowKept`).  A
window holds the newest of all hits of its key, and the last one it does not hold has
left the span, unless the window is full; then a further hit finds at least
`MaxHits` in the span and the answer saturates.  `HitFacts` is this step: the
`while` loop drops what has left the span (`InWindowFacts`), and the
number of hits in the span is found by counting an interval of positions (`CountFacts`).
That the cleanup takes nothing that is owed uses `Span <= StaleAfter`.

**Limiters, sessions and trackers** (`ClientTablesProofs`).  Four of the components keep their
clients in bounded maps, so the module begins with what a caller relies on:
`AfterSetFacts`, `AfterGetFacts`, `MutateFacts`, `AfterDeleteAllFacts` say which
keys are there after an operation and that no value changes on the way, and
`InsertIsSmall` and its kin that no generation outgrows half of `MaxSize`.

* *Token bucket.*  `Refinement`: the level that a bucket, or its absence, stands for is a function of
  the clock (`Level`), and each action changes the levels as `EagerBucket` does.
  The invariant `BucketsOK` types the buckets; deleting a stale one is a stutter because it
  would have been full, which is where `Capacity <= Refill * MaxAge` is used
  (`StaleIsFull`).  `RetryAfter`: `PromiseInv` says that the wait told is the
  *least* time that refills what is missing (`Exact`), a fact that survives each tick
  (`ExactTick`) and every operation on another key.
* *Sliding window.*  `WindowAlways`, both halves of `WindowPromises`.  `WindowInv`
  says that what the history remembers of a key is computed from its timestamps
  (`GrantsOf`), which are ordered and at most `MaxRequests`, and that a key
  that was told to come back is full until then or was swept after it
  (`ComebackOK`).  `PrunedFacts` is the core: dropping the timestamps before the
  first live one drops exactly those that left the window.  It needs that a set
  of indices has a least element, which comes from the well-foundedness of `<`.
* *Sessions.*  `VelocityAlways`: `TimesInv` says that the request times of each
  session held show its history (`Shown`) although the oldest are dropped;
  `NewestShown` is the step, and needs that at least `Burst` are kept.  An id
  that was not drawn has no history, so a new session starts with none.
  `StaleAlways`: `IdleInv` adds that the timer is not overdue and that
  whatever the last cleanup left was used within `MaxSessionAge` before it.
* *Adaptive limiter.*  `AttackAlways`: while an attack is on, the history still remembers
  the last interval that had requests (`StillRemembered`), so the mean is positive
  and an interval without any is below it and relaxes the limits.  `AttackInv` counts
  these intervals against the multiplier.  That a sum of natural numbers is one, and
  positive once one of them is, takes an induction (`SumsUpTo`, `TotalFacts`), done
  by the least position at which the claim would fail.
* *Address trackers.*  `ReportsAlways`, the three parts of `ReportsJustified`.  Each
  tracker's table is compared with the log of what it has looked at, and `TrackersInv`
  says what an entry still knows of it.  Rates: the count is no larger than the number of
  the address's requests since the entry began (`Rated`), whatever was evicted, cleaned up or started
  again; that some minute of that time was then busy is a pigeonhole argument over
  minutes (`SomeMinuteBusy`), which is where the averaging over up to an hour and the factor of two come
  from.  Rotations: the list of a subnet is one-to-one with entries of the log, and
  lacks none that is young (`Traces`); `YoungerFacts` proves of the filter that it keeps
  exactly the young ones, at every length.  Fingerprints: while the sweep runs, an address is
  remembered only if its use is connected with the latest one by uses that are not too far
  apart (`Chained`), because the sweep has removed what was silent for longer (`PrintsInv`).
* *Types.*  `TablesWellFormed`, the type invariant of the run, for all of the run's parts
  but for any sizes and times: levels, windows and multipliers stay within their
  limits, no map holds more than `MaxSize` keys, and no session was active in the future.

**Challenges** (`PowChallengeProofs`), for any numbers of instances, challenges and
calls, any skews and delays within `PowAssumption`, and all times to live.
`AtMostOnce` needs three facts: a claim outlives the last valid moment of its
challenge on every clock (`ClaimsOutlive`), a call in flight computed a time to
live that is long enough whenever the store executes it (`PendingInTime`), and a `NonceCache`
forgets an id only after its last valid moment (`NoncesOutlive`).  The
arithmetic (floored seconds, skew, delay) is in `Floor`, `NotPast`,
`AcceptedInTime`, `StillClaimed` and `NonceLasts`.  `PowAssumption` is what the
60 seconds of slack in `MemoryHardChallenge.ts:106` silently assume: that they
exceed the spread of the clocks, the delay of a call to the store and one
second.

**Intelligence** (`IntelligenceProofs`).

* *Threat database and feeds.*  `ListedAlways`: a look-up finds exactly what the
  sources have listed and nobody removed.  The lemmas about the database say which
  entries each method leaves (`BulkAddFacts`, `RemoveFacts`, `PruneFacts`,
  `ReplaceSourceFacts`, `AgedFacts`).  `ThreatInv` is the conjunction of `DbInv`
  (the index is missing or up to date, and what has not expired is what is
  listed), `FileInv` (the same of the file and what was listed when it was
  written, so that a restart restores it) and `ListsInv` (downloads and copies hold lists that
  the publisher served).  The theorem assumes `OneSourcePerAddress`, that no
  address is on the lists of two sources; finding 4 is the counterexample
  without it.
* *Outside lists.*  `TorListAlways`: refreshes share one download, and the list it will
  bring is not older than the one in use (`TorInv`); `MaxDownloads` may be
  anything.  `FreshAlways`: a location in the cache has an age, and a look-up
  under way has been so for no longer than its timeout (`GeoInv`).
* *Signed requests.*  `RepeatAlways`: a request is accepted in one place at most twice, at
  least `Kept` apart and the second time in the last second of its window.
  `SignedInv` says of each nonce and place what was accepted (nothing, once, or twice
  in that way) and that the nonce is still held unless it was kept its full time
  (`HistoryOK`), and of each call that waits for the store that its timestamp
  was accepted when it began (`WaitOK`).  A third acceptance would need a
  window two keeping times long; that it is shorter uses
  `SignedDelay <= (2 * MaxSkewSeconds - 1) * SignedSecond`, i.e. that a call to the store
  takes less than about ten minutes with the default skew.

**Node server** (`ServerProofs`), for any instances, sessions, requests and
number of faults.  `EvidenceBehindAllow` speaks of a request's verdict only; the
invariant `IInv` adds what the verdict is computed from: a token that speaks for
telemetry (`Backed`), a record in the store that remembers telemetry
(`RecordsBacked`) and the copy of a record a request still holds (`CopyBacked`)
all belong to sessions whose telemetry was scored.  `scored` only grows, so what a step leaves
alone stays backed (`SessionUntouched`); the lemmas, one per action, show that each
token and record a step makes is backed too, also when the store lost the record
or the read failed, because a new record remembers no telemetry.
`UndisturbedComplete` is about what was saved, up to the times and scores that `save()`
has cut off, but a request that has read the record is going to write its copy
back, so `CompleteInv` also says that at most one request holds a copy
(`OneReader`), and that the copy is all that is stored, with the request added
(`CopyCurrent`).  That what is left after cutting, adding and cutting again are
the newest entries of the whole history is
`NewestAppended`.

**A server's requests** (`ServerProofs`).

* *Request flow.*  `AnsweredOnceAlways`: `OnceInv` counts the answers by the place of the request in the
  adapter's code and by what threw after one.  `StatusesBelongAlways`: `StatusInv` adds that the history of a session
  has each request and each status once, and that in a session whose requests never
  overlapped the request that is to report its status is the latest entry
  (`InOrder`), which is the one the analyzer writes it to.
* *Local records.*  `StoredObjectAlways`: `StoredInv` says that no object is
  shared by two sessions (`Owned`) and that a request holds the stored object
  unless that was lost or replaced (`HoldsStored`), so what it changes in place
  is what the next request finds; and that the lists are ends of what was
  recorded, longer than `save()` leaves them only by requests that have not finished
  (`AllListsKept`).
* *Python middlewares.*  `VisitsKeptAlways`: whatever stands for telemetry (a token, a
  stored session, a copy) belongs to a session whose telemetry was scored
  (`EarnedInv`; a request that failed open is excepted), and a request that is going to write its copy back holds all that is
  stored, with itself added, and is the only such request of its session (`KeptInv`),
  as long as nothing overlapped or failed.  Lists are in the order of the requests
  (`ListsInTurn`), so what a full one lacks is older than all it has (`AddedToList`).
* *Edge worker.*  `EdgeAgreesAlways`: `EdgeInv` remembers why the edge challenged or blocked
  (`ChallengedFor`, `BlockedFor`).  What is out for the edge is
  out for the origin at the same moment (`EdgeOutOriginOut`, from
  `Lag < Second`) and stays so (`OutStaysOut`); the rest of the reasons do not
  change.

**A server's tables** (`ServerTablesProofs`).  `TablesExactAlways` is one theorem about
four tables, for any caps, spans, lifetimes and numbers of requests, keys and
threads that `SharedTablesAssumption` and `IsolateAssumption` allow.  What each invariant has to
explain is that a table which forgets still answers as the complete history would.

* *Shared limits.*  `LimitsInv` gives each limit an order in which its hits were counted
  (`HitsInOrder`); the window in the store is what is left of those times (`LeftOf`), and a hit
  was over the limit exactly if the hit `Most` places before it was still in its span (`Over`).
  `WindowHit` shows that for one hit.  Hence the requests let through
  in a span lie within `Most` places of each other (`LetThroughAtMost`), and a request denied has `Most`
  others before it in its span (`MoreThanMost`), whatever the number of
  requests, which need not be finite.
* *Isolate.*  `CallersInv`: the times kept for an address count like all its calls up to
  `max` + 1 (`Covers`), and an address is missing only if it never called or `maxKeys`
  others came later, because the table is in the order of the latest call (`InOrder`, `CrowdedKey`).
* *Python store.*  `StoreInv` has a part for each kind of table: a claim won is
  recorded or over (`OnceInv`), a window counts like the log up to its cap
  although threads write their times out of order by up to the wait for the lock
  (`WindowsInv`, `NearlySorted`), the value set last is recorded or has expired
  (`ValuesInv`).  What `_make_room` drops is owed nothing: it has expired, or `MaxKeys` others came
  later.
* *Tracker.*  `TrackerInv` consists of the sessions on the heap with their places in the table
  (`HeapInv`) and of what each thread holds (`ServedInv`); a session that `_evict` drops
  is idle (`ExpiredIsIdle`) or crowded out (`NoneWronged`), and its list is the newest end of
  what was recorded in it.

**Dashboard** (`DataPathsProofs`).  `NeverStrandedAlways`: the flags and the page's socket
are consistent after every step (`PageFlags`), inductive as it stands.
`ViewersInformedAlways`: `FeedInv` bounds, for every viewer that does not stall, the
number of events that it has not seen and that are not pending by what it was told as
dropped and what it will be told (`Informed`), and says that there are listeners
as long as there are clients, without which a total could change unnoticed.

**Browser client** (`BrowserClientProofs`), for any set of requests and all
lifetimes and delays that `ClientAssumption` allows.  `NobodyForgotten` is
inductive with the type invariant; the lemmas `GetTokenMoves`, `ResumeMoves` and
`ChallengeMoves` say where each operation may move a request.
`CachedTokenAccepted` needs `TimeInv`: an answer under way has lost at most one
tick more than its age (`Timely`), and a token that the cache still returns has
at most a tick less left on the server's clock than on the client's, and what the
answer's delay exceeded the skew by (`Lasting`); the first gives the second when the
answer arrives, because the client has taken the skew off.  `StaysStopped` follows from the actions alone.  Also assumed is that
`None`, `Sent` and answers differ (`NoneAssumption`).

**Conclusions about a client** (`ScoringProofs`).  These components compute with
lists and sets of any length, so the proofs need what a recursive definition
returns for every input.  The modules write recursion as functions over `0..n` (or
over the subsets of a finite set), and such a function is shown to exist by induction on `n`
(`StepwiseExists`) and to be the only one (`StepwiseUnique`); from then on the
equations of the definition can be used at every position, and a claim about all
positions is proved by the least one at which it would fail (`LeastOf`).

* *Scores.*  `EvidenceRaisesAlways`: a request whose signals include another's has a score, a
  verdict and threats that are no lower, for any finite sets of requests and facts
  (`RiskAssumption`).  Sums over a finite set of signals are well defined (`SumUpto`,
  `SumOfFacts`); what is left of innocence in the noisy-or product only falls
  when a factor is added (`PartOfWhole`, `FusedGrows`), boosts keep the order
  (`BoostedGrows`), and so do the thresholds (`VerdictGrows`) and the threats
  (`ThreatsGrow`).  `RiskInv` says that every signal any rule gives has a number
  (`Measured`), rule by rule.
* *Visits.*  `RunIsLongestAlways`: the single pass of the analyzer finds the longest run of
  pages whose numbers rise or fall by a constant step, although it throws away all but the current and
  the longest one.  The invariant of the scan says where the current run begins and that
  no run that ended before is longer than the longest (`CurrentStep`,
  `LongestStep`); `VisitInv` connects it with the history that is kept and with what was
  reported.
* *Handshakes.*  `HandshakesReadAlways`, both halves of `HandshakesRead`.  The ClientHello is
  returned exactly when the frames kept by the last datagram without an error cover it
  (`FramesInv`, `WholeWhenCovered`): after each frame of the sorted
  list, all bytes before the end of the stream have come, and each frame lies before that
  end or beyond a gap (`IsEnd`, `EndStep`).  The second needs that the list is sorted;
  `SortedFacts` proves it for the insertion that stands for `sort()`, and that it neither
  adds nor loses an entry.  That a client has the same fingerprint again follows because two
  sorted lists of the same distinct numbers are equal (`IncreasingUnique`, `SameSorted`), whatever
  was filtered out of them (`FilteredFacts`); `HelloInv` says that two hellos of
  a client differ in GREASE values and order only (`AlikeHellos`).  `QuicAssumption` says that the
  numbers that the rules name are not GREASE.

Only model-checked:

* the liveness properties `FeedsCatchUp` and `LetThrough`, which the proof
  system cannot handle;
* `ReplayMatches`: it compares a fold of the collectors' handlers with one of the
  recorded events, and what those compute for every input takes an induction over data
  of the kind that `ScoringProofs` does for its own;
* the type invariants `DataTypeOK`, `PartsTypeOK` and
  `ServerTypeOK`, which speak of a run's choice of a part.  Those of the bounded map, the challenges and
  the browser client are proved under the name `TypeOK`; the inductive
  invariants above contain what the others' proofs need of theirs.

## 5. Not modelled

The ML engine, the headless, anti-detect and device checks of the SDK, the
dashboard's pages, the study's site and tables, bots, load tests and deployment
keep no state that later steps depend on, are numerical, or are a user
interface.  The Python analyzers and feeds repeat the tables and heuristics of
the TypeScript ones.  The patterns over strings (user agents, injection
payloads, OpenAPI, GraphQL, metrics) are parsing; the models take their results as facts.
The heuristics over latency, providers and MTU in the residential proxy
detector compare one request with constants.

Left out of the modelled
components: counters that are only displayed, log messages, parsing and
signatures (the requests in the models are genuine), `destroy()` of the nonce
caches; of the threat database hit counts, duplicates of ranges and patterns,
and the parsing of lists; of the browser client requests that are never retried
(XMLHttpRequest, streamed bodies), beacons, and `submit()` and
`passChallenge()` called by the page itself; of the Python middlewares the
lifetime of tokens, metrics, readiness and the mode 'monitor'.

## 6. Plan

1. XMLHttpRequests and direct submissions in `BrowserClient`, composed with `NodeSessions`.
2. The Python feeds next to `ThreatIntel`; faults of two kinds at once in `NodeSessions`.
3. Theorems: `ReplayMatches`; the type invariants of the parts.
