# Secure CAPTCHA: verification

TLA+ models of the Secure CAPTCHA plugin, the TLC runs that check them on small
instances, and TLAPS proofs of what matters most for every value of the constants.
Paths are relative to the repository's root (`src/` of it is left out: `server.ts` is
`src/server.ts`); the lines each definition models are in `PROJECT.json`, under `map`.

## 1. The system

The program is a TypeScript library and an HTTP server for Node 20. A process has
one thread: code between two `await`s is never interrupted, and anything may happen
at an `await`, between two timer callbacks, and between processes. That is the
granularity of every model here.

| Component | State | Operations | Hard behaviour | What makes it correct | Modelled |
|---|---|---|---|---|---|
| **CaptchaService** (`core/captcha-service.ts`) | Map of session objects | generate, multi-layer generate, validate, clear | validations overlap at the await; clear while calls hold a session; layers fail halfway | guesses bounded, solved only by a right answer, log complete | yes |
| **CaptchaServer** (`server.ts`) | workers, each with a CaptchaService, rate limiter, metrics | request chain, routes, fork, refork, signals | crash between the two requests of a challenge, hang-ups, limiter windows | admitted requests answered, workers replaced, issuer knows its sessions | partly |
| **SessionManager** (`services/session-manager.ts`) | encrypted records in Redis, one key per process | create, get, update, delete, isMaxAttemptsReached, cleanup | read-modify-write over the network, several processes, restarts | attempts counted, expiry fixed, keys collected | partly |
| **WebhookService** (`webhooks/*.ts`) | hooks, records, queue, retry timers | register, update, delete, trigger, process, retry | timers against the loop, exceptions halfway | each delivery in one place, no lost wakeup, POSTs bounded | yes |
| **JWTService** (`security/jwt.ts`) | tokens, families, blacklist, rate windows | issue, verify, refresh, revoke, cleanup | refresh that throws halfway; blacklist shorter than a token's life | refused once, refused for ever | yes |
| **OAuth2Service** (`security/oauth2.ts`) | clients, codes, tokens, cache | authorize, exchange, refresh, revoke, introspect | code used twice; stale cache | one chain of tokens per code | partly |
| **APIKeyService** (`security/api-key.ts`) | keys, user lists, rate windows, grace timers | create, validate, rotate, revoke | grace timer against suspension and reactivation | limits hold, revocation reaches rotations | yes |
| **CacheService** (`services/cache-service.ts`) | memory, Redis | get, set, delete, invalidate, warm | promotion over a newer write | memory current or explained | yes |
| **DatabaseOptimizer** (`services/database-optimizer.ts`) | query cache, slow log | query, queryWithCache, invalidate | result cached after an await; slow statements explained | caches bounded, nothing run twice unless slow | partly |
| **PerformanceProfiler, ObjectPool** (`services/performance-profiler.ts`) | samples, snapshots, timers; idle stack, set in use | record, snapshot, updateConfig; acquire, release, clear | release after clear, destroy and updateConfig | one owner per object; quiet after destroy | partly |
| **AuditLogger** (`security/audit-logger.ts`) | hash chain, alerts | log, verify, retention | retention cuts the chain | edits of the chain show, as far as the hash covers them | partly |
| **GDPRComplianceService** (`security/gdpr-compliance.ts`) | consents, data, requests | consent, store, erase, retention | operations during an erasure, rectification after it | erased is gone but for a rectification, erasures complete | yes |
| **SOC2ComplianceService**, **ThreatIntelligenceService** | records, samples; indicators, cached reputations | record, report; add, assess | windows, stale reputation | reports follow records | partly |
| **Behavioural analysis** (`security/*-analyzer.ts`, `anomaly-detector.ts`, `bot-detection-ml.ts`) | sessions, caches, thresholds, a network | track, analyse, train, predict | results reused for later sessions; model replaced during a fit | scores right at their edges, results no older than the cache allows | partly |
| **Generators** (`core/*-generator.ts`) | none | draw a puzzle and its answer | boundaries of sizes and operators | the answer solves what is shown | partly |
| **GraphQL** (`graphql/*.ts`) | a CaptchaService, a pubsub, a rate limiter | authenticate, generate, validate, publish | scopes without authentication | scope enforced, events of a topic follow its answers | yes |
| **Framework plugins** (`plugins/{express,fastify,koa,nestjs}-captcha.ts`) | a CaptchaService each | generate, validate, protect | session spent and the request failed | a session admits one request | yes |
| **Browser widgets** (`plugins/{react,vue,angular,svelte}*`, `vanilla-js-sdk.ts`) | what the screen shows, timer | generate, answer, refresh, unmount | late answers, auto-refresh | verified is verified, loading ends | partly |
| CryptoService, SecurityConfigurationService, InputValidationService, Prometheus metrics and ELK logger | key, event log, limits, counters | | | inside the modules that use them | partly |
| SecurityLogger, logging and performance middleware, shop and CMS plugins, deployment | files, transports | | | see section 8 | no |

**Interaction.** `CaptchaServer` owns one `CaptchaService` per worker process; routes
await its promises. `CaptchaService` encrypts with `CryptoService` and logs into its event
array. `SessionManager` shares Redis with the `SessionManager`s of other processes; it, the
webhooks, the token services and the compliance services are exported and not wired into
`server.ts`: an application that embeds the library calls them. Widgets, plugins and GraphQL
construct services of their own. The hazards are listed in `PROJECT.json`, each at its line with the properties
that watch it.

## 2. Modules

| Module | Models |
|---|---|
| `CaptchaService`; `CaptchaContract` | the CAPTCHA engine; what a challenge promises (abstract, nothing in the code) |
| `CaptchaServer` | primary, workers, requests, rate limiter, metrics |
| `SessionManager` | sessions in Redis, several processes |
| `WebhookService` | hooks, queue, loop and timers, through their router |
| `JWTService`, `OAuth2Service`; `TokenContract` | the two token issuers; what both promise (abstract) |
| `APIKeyService` | keys, rotation, rate windows |
| `CacheService`, `DatabaseOptimizer`, `ObjectPool`, `PerformanceProfiler` | the data services |
| `AuditLogger`, `SOC2Compliance`, `ThreatIntelligence` | the services that keep records |
| `Subsequences` | what `filter` and deletions in a loop leave of an array or a Map, in its order |
| `GDPRCompliance` | consents, personal data, erasure |
| `CaptchaWidget`, `CaptchaPlugins`, `GraphQLApi` | what a visitor or an application meets |
| `Generators` | the four generators, as the set of challenges each can return |
| `MouseTrail`, `KeystrokeScores`, `AnomalyDetector`, `DeviceFingerprint`, `BehaviorAnalysis`, `BotModel` | behavioural analysis |
| `MCTokens`, `MCDataServices` | the three issuers of credentials; the four data services: the components of a group, one at a time |
| `MCRecords`, `MCVisitors` | the four services that keep records; widgets, plugins and GraphQL, likewise |
| `MCAnalyzers` | the generators and the six analyzers, likewise, with the properties of what they compute and keep |
| `MCServices`, `MCAnalyses` | the runs over these groups (section 3): tokens and data services; records, visitors and analyzers |
| `MCCaptchaServer`, `MCSessionManager`, `MCWebhookService` | values for the instances of TLC |
| `CaptchaServiceProofs`, `CaptchaServerProofs`, `SessionManagerProofs`, `WebhookServiceProofs` | theorems about one component |
| `AccessProofs`, `DataServicesProofs`, `AnalyzersProofs` | theorems about `MCTokens` and `MCVisitors`, about `MCDataServices` and `MCRecords`, about `MCAnalyzers` |
| `SeriesProofs` | lemmas about `Subsequences`, least elements, sums and slopes over a set of indices, and folds, which `DataServicesProofs` and `AnalyzersProofs` cite |

Operators introduced by the words "Mistake" or "A mistake" (`AdmitOneMore`, `WakeAlways`,
`DoomedEarly`, ...) are not part of a specification. Each is a definition with one
plausible bug in it, and substituting it for the real one makes a property fail: that
is how we know the property has teeth. The pairs are under `mutants` in `PROJECT.json`.

### CaptchaService

`sessions` are the session objects, `stored` the keys of the Map (an in-flight
validation keeps its object after `clearSessions`), `securityEvents` the capped array
of `CryptoService` and `statsEvents` its untrimmed twin. A validation is `Ask`, then one of
the four rejections or `Admit`, which counts the attempt and suspends at the `await` of the
decryption; then `DecideRight`, `DecideWrong` or `DecideMalformed`, and `Answer`, since an async function returns
through one more microtask. A generation is `GenerateStart`, one `CreateSession` and
`LayerDone` per layer, or `GenerateFail`. The comparison is the outcome `right`,
`wrong` or `malformed` (`toLowerCase` of a number throws, which the code catches and reports as an error, with the attempt spent).

One challenge can answer `valid:true` twice: the status is checked before the await and
set after it. `SuccessesOverlap`, proved, says exactly when. In the code the await resolves in
microtasks, so the two calls must reach the service in the same turn of the event loop (`Promise.all` by a library
caller); two HTTP requests are served one after the other. The model lets any suspended call
be overtaken and is thus an over-approximation, which is sound for everything that passes.

### CaptchaServer

`proc[w]` is the process in worker slot `w`: `birth` counts its predecessors, `sessions`
abstracts its CaptchaService to the ids it knows, `hits`/`resetTime` are its rate limiter's entry
for the one client modelled, `requests`/`limitHits` its metrics. A request arrives, meets the limiter
(`LimiterPasses`, `LimiterHandler`, or `Bypass` outside `/api/`), waits for its body, takes a route
and finishes when the response is out. A client can hang up, a worker can exit with code 0 or 1, the primary
reforks it, and `Shutdown` ends everything. The limiter decides in the turn in which the request
arrives, so that `Arrives` and its decision are one step.

With several workers a session issued by one is unknown to the others, and is lost when its worker exits:
`IssuerKnows` is as much as holds. `Shutdown` cuts off the requests being served, and an unknown session is
answered with status 200 (`API_DOCUMENTATION.md` lists 404); the model shows these steps as the code has them.

### SessionManager

Redis is `redis`: per key the data, the key it was encrypted with and a deadline. Each API call
runs from one Redis command to the next; `copy` is the data it holds meanwhile. A command is answered, refused, or
executed with its answer lost (ioredis rejects after three retries). Every manager has a cleanup job with its own
`now`. `Restart` loses a process's calls and gives it a new random key. `OnlyOverlapsErr` is as much as holds of
the counter and of deletions: `updateSession` and the reset write the key unconditionally after their awaits, lose
updates made meanwhile and recreate a session deleted meanwhile.

### WebhookService

`queue` is `deliveryQueue`, `inflight` the delivery whose `fetch` the loop awaits, `resting` a loop
suspended for the microtask after a delivery, `timers` the pending `setTimeout`s. `ProcessQueue` and
`ProcessDelivery` are operators over the state in the middle of a step, because one turn of the code chains them:
a trigger queues a batch and starts the loop, which runs to its first await. `Edits` names the fields a request body
gives; a secret that is no string makes `signPayload` throw in a promise nobody handles, which ends a Node
process, and an overwritten `id` makes `createDelivery` throw halfway through a batch.

### Tokens and keys

A token of `JWTService` or `OAuth2Service` is its number; what the code signs or hashes is a predicate, and
the Maps that remember it are sequences indexed by it. `TokenContract` is the promise of both: a token is accepted from its issue until it is refused, and never
again. Each implements it under the mapping "accepted if the verification says so now", although the JWT blacklist forgets its
entries and OAuth has a cache in front of its store. A refresh that fails at its rate limit has revoked the old token and issued none:
`OneLivePerFamily` holds, the family is dead. `APIKeyService` gives a rotated key a grace timer; `GraceCovered` says that
an active rotated key has a timer to end it or was made active again.

### Data services

`CacheService` has one Redis connection (`pipe`) that serves its commands in order; its commands may fail and its keys expire in Redis, but no other process writes them
(section 7). A reply promotes the value to memory over whatever was set since. `latest` is the value last set, `raced` names the keys a command overtook,
and `lost` those whose older value outlived, in Redis, a write that failed or the DEL of names that no key has.
`DatabaseOptimizer` sends a statement, awaits it, sends the EXPLAIN of a slow one, and caches the result after that; the database is a
counter of effects per query. In `ObjectPool` holders keep their objects through `clear` and `destroy`. `PerformanceProfiler`
is its samples, the percentiles and the growth computed from them, and its two timers.

### Records

`AuditLogger` keeps the hash of an event as the tuple of what `calculateHash` covers (number, details, type with outcome, time, link), so that two hashes are equal when what they cover is;
the severity, by which events are counted for alerts, is not in it, nor the metadata. The hash has no key, and the properties do not claim that a rehashed suffix shows.
`SOC2Compliance` has the sample window (several samples may bear one time), the latest metric of a name and the status of a report; `ThreatIntelligence`
the indicators, the cached reputations and the verdict. `GDPRCompliance` runs an erasure from one await of the audit log to the next:
one per consent it withdraws, with anything else in between. A record is raw, anonymized, deleted, or "corrected": anonymized, with raw data merged in by a rectification,
which takes the first record of the type and does not look at `metadata.anonymized`.

### What a visitor meets

The five widgets are one module: they keep the same record of a challenge and differ in when the screen follows the state, which
buttons are disabled while a call is out, who clears the auto-refresh timer, and what unmounting does. The vanilla one
writes "Loading..." when it is made and starts with or without a call out (`autoGenerate`). `CaptchaPlugins` is
the four servers' generate, validate and protect, and the handler behind protect; a request without its fields may be one without a body, which throws in Express and Fastify.
`GraphQLApi` is the limiter in front of the endpoint, who may run an operation, the two mutations and the events they publish, each on a topic of its own. Those who receive them are
listeners of the application on the exported `pubsub`, each on one topic: the subscriptions of the schema call `asyncIterator`, which graphql-subscriptions 3 (`package.json:76`) no longer
has (`SubscribeField`).

`Generators` defines the set of challenges each generator can return, by the code's own way of building them, with the answer that is stored: the
state is the challenge drawn. Fractions stand for the numbers of the math generator. Its first pass is a loop over an array that shrinks; `PassStep` is one turn of it, and there are
no more turns than operators, so that the loop is a fold. `MouseTrail`, `KeystrokeScores` and `AnomalyDetector`
define what the analyzers compute (in integers, multiplied out) and compare it with what the figure is named for; `BehaviorAnalysis` is the
sessions and cached results, `BotModel` the life of the network and of the features, `DeviceFingerprint` the risk of a device and the cache in front.

## 3. Runs

| Run | Shows | Instance |
|---|---|---|
| `captcha_sessions` | attempts, verdicts, status and log of `CaptchaService` agree | 1 session, 4 calls, 2 attempts, log of 2, timeout 0, clock 0..1: calls overlap in threes, the session expires and runs out, the log overflows |
| `captcha_layers` | generations are accounted for; `CaptchaContract` is implemented | 2 sessions, 3 calls, up to 2 layers, 1 attempt, timeout 1, clock 0..2 |
| `webhook` | one place per delivery, no lost wakeup, POSTs bounded and in order, finished is final; every delivery settles | 2 hooks, 2 deliveries, 2 attempts, 1 manual retry, edits of status, id and secret |
| `sessions` | counter and `verified` earned; errors need overlaps; the sweep takes only what it cannot read; expiry fixed; keys collected | 1 manager, 1 session, 3 calls, 1 failed command, 1 restart, 2 ticks around the expiry |
| `server` | limiter windows, issuers, metrics; requests answered, workers replaced | 2 workers, limit 2, window 2, one exit per slot, under one of two loads: 3 requests of mixed kinds over 2 ticks, or 5 that only read at one worker over 3 ticks |
| `services` | tokens, keys, pool, caches, profiler | seven components, each on its own bounds (`MCServices.cfg`) |
| `visitors` | widgets, plugins, GraphQL, generators, analyses, audit log, SOC 2, threat intelligence, erasure | fourteen components (`MCAnalyses.cfg`) |
| `session_sweep` | finding: cleanup deletes another process's live sessions | 2 managers, 2 calls |
| `session_ttl` | finding: a key without time to live | 3 calls, one `isMaxAttemptsReached` on a new session |
| `session_check` | finding: an attempt is lost and the check says no after the maximum | 4 calls |
| `server_limited` | finding: a limited request never gets its 429 | 1 worker, 2 requests |
| `puzzle_key` | finding: a puzzle whose key does not continue it | two pattern sizes |

**Several components in one run.** The components of `MCServices` and `MCAnalyses` share no state. A variable (`issuer` in `MCTokens`, `part` in `MCDataServices`
and `MCAnalyses`, `keeper` in `MCRecords`, `front` in `MCVisitors`, and `group` in `MCServices`), chosen in
the initial state, picks the component that runs; the others keep one initial state each, so the state spaces add up instead of multiplying. The properties of these runs are
conjunctions of named ones, each stated and explained in its component's module: `TokenChainsSound` is `OneLivePerFamily` and `BlacklistCounted`
of JWT and four properties of OAuth, `CachesSound` six properties of the two caches, and so on; the conjunctions and what they amount to are spelled out in the MC modules.
The groups are modules of their own because the theorems are about them: `TokensSpec`, `DataSpec`, `RecordsSpec`, `VisitorsSpec` and `AnalyzersSpec`, of which a behaviour of the run is one, with the rest at rest.
`AnalysesRight` says in one temporal formula what is true of the figures in every state (`FiguresRight`) and of what is kept from one to the next (`AnalysesFresh`).

**Bounds.** They are chosen so that the case a property is about happens, and the mutants confirm that it does. Two deliveries and two attempts suffice for
overtaking by a retry; a third call on a session lets two overlap and one come later; a log of 2 overflows and still has an order; windows and lifetimes of one or two ticks put
every step before, at and after each boundary; `MaxGenerations` 2 lets a family be refreshed and then die; 3 holders and 2 idle objects fill the pool and leave one over; three audit events
with a retention of one day cut a prefix and leave a chain, and may be exchanged and forged; an API token that lives four ticks outlives the two of its blacklist entry; a `LeakWindow` of 3 leaves snapshots of the
profiler outside the last ones that are fitted (100 in the code). In the `sessions` instance a second is one tick, so
the rounding down of the remaining time to live is not exercised, and the clock runs one tick beyond the expiry of any session. In the burst of `server` one request starts a window, a second comes at its last tick and two more
open the next window: three of them lie within one window's length, the most that `BurstBounded` allows, and a fifth is limited. Crashes and hang-ups belong to the other load: the bound is about one process,
and what crosses crashes needs few requests. The records of `visitors` expire (`RetentionLife` 0) and its consents do not (`ConsentLife` 1, clock up to 2), and it anonymizes and never deletes: the theorem about
erasure covers the expiry of consents and deletion. `FewKept` keeps consents and data to three together, and metrics, samples and incidents to four, in `visitors` only. One listener listens to one topic at a time, stops, and starts on the other; the limiter's window of two is used up by the third operation.

The deadlock check is off in all runs: calls, requests, deliveries and clocks are bounded, so every behaviour
of an instance ends; what must not get stuck is stated as a liveness property.

## 4. Fairness

Weak fairness only, and only on what the event loop or a timer runs by itself: continuations of started
calls, `fetch` (its AbortSignal bounds it), `setTimeout`/`setInterval` callbacks, the primary's `exit`
handler, and time where a deadline must pass. Nothing obliges a client to call, a crash to
happen, or a request to arrive. In `SessionManager` every started call and every cleanup continues because
ioredis settles each command, with an answer or a rejection. In `visitors` the calls of a widget return (a local service answers, and the vanilla
client aborts its fetch) and a subject request continues from its audit log. `captcha_sessions`, `captcha_layers` and `services` state no liveness and assume no fairness.

## 5. Proofs

`tlapm` checks these for every number of calls, sessions, hooks, workers, attempts, events and so on, and for every limit and lifetime. Every invariant and every action property that a
passing run checks is a theorem; what is left to TLC is named at the end of this section.

* **CaptchaService** (`CaptchaServiceProofs`): `TypeCorrect`, `AttemptsBounded`, `ValidatedJustified`, `ReplayNeedsOverlap`, `SessionLifecycle`, `GenerationsAccounted`.
  One inductive invariant, `IndInv`: the type invariant; `Shape`, which ties `pc` to `result` and `target` (only an
  admitted call is deciding, an idle one has no target); the two invariants themselves; and `OverlapInv`, needed because
  `SuccessesOverlap` speaks of two finished calls only: a call that is still deciding is already a peer of whichever call was admitted
  after it, and once a session is validated nobody is admitted any more. Generations add that the sessions made so far are as many as the layers done.
* **The security log** (the same module): `AuditTrailKept`. The capped array is compared with the full one element by element, and the events of a
  session are counted against what its calls were told: each step that appends an event changes exactly one of the counts on either side.
* **Refinement** (the same module): `Refinement`; every step of `CaptchaService` is a step of `CaptchaContract` or a stutter.
  `Admit` maps to `Grant` (the attempt counter, by `AttemptsAccounted`, is the number of grants), the verdicts to
  `GradeRight`/`GradeWrong`, expiry and exhaustion to `Close`.
* **WebhookService** (`WebhookServiceProofs`): `WebhookTypes`, `WebhookResidence`, `WebhookSingleLoop`, `WebhookNoLostWakeup`,
  `WebhookPostsBounded`. Since `ProcessQueue` works on states in the middle of a step, the invariant (`Good`, `Placed`) is a predicate of
  queue, records, timers and counters, and the lemmas say that the operators preserve it whatever values they are applied to; each action then has one lemma.
  `Good` strengthens `PostsBounded` to `sent[d]` against the attempts of the record, without which a retry could not be shown to stay in its budget.
* **Order of the POSTs** (the same module): `WebhookFinality` and `WebhookFirstAttempts`, on top of that invariant. First attempts need that
  untried deliveries stand in the queue in the order of their numbers, with everything retried between them, and that every untried one stands before those to come.
* **SessionManager** (`SessionManagerProofs`): `SessionTypes`, `CountedAtMost`, `VerifiedOnSuccess`, `DeadlineFixed`, `SweepsForeignOnly`, `SerialCallsRight`.
  A stored session says nothing about the next write, which stores a copy that
  some call has held across awaits; so the invariant claims of every copy that may yet be written (`HeldSound`) what it claims of the
  stored data (`StoredSound`), and that all versions of a session have one expiry (`SameDeadline`). `Origins` says that ids are
  drawn once, without which an old copy could be written over a new session.
  For `SweepNeedsForeignKey`, `SweepInv` follows a lone manager's sweep: every version of the session it is about to delete, stored or held, had expired when the sweep began.
  For `OnlyOverlapsErr`, `SerialOf` says of a session that is not disturbed that one call at a time runs on it, that none which may write is left after its deletion, and that
  counter and held copy agree with the updates that returned.
* **CaptchaServer** (`CaptchaServerProofs`): `IssuerAlwaysKnows`, `AccountsKept`, `BurstsAlwaysBounded`. The invariant follows the connection of every request: which
  process holds it, and that this process runs in its slot for as long as an answer can come (`Connected`). Issuing says that a session is in the Map of
  the process that issued it, and `Counted` that counters are numbers of requests. The bound on bursts needs a window for every hit (`Windows`): the windows of a process do not overlap,
  each starts with a hit and holds at most the limit, so that a stretch of one window meets at most two of them and misses the hit that starts the first.
* **JWT and OAuth** (`AccessProofs`): `TokenChains`, and the refinements of `TokenContract`, `TokensKeepContract`. Of the refresh tokens of a family only the latest is stored
  (`LatestStored`), and what was revoked has left its Map (`RevokedGone`); without the second a refresh that fails halfway could come back. For OAuth, `LatestRefresh` says that a refresh token
  that is not revoked ends the chain of its code, and `ScopesFollow` that a later generation has no more scopes than an earlier one. Two descriptions of a step carry both refinements
  (`JwtMove`, `OAuthMove`: what a step may issue and on what); from them no token that is refused is accepted again, for the blacklist forgets a token only when it is out of its Map, the cache has none that the store lacks, and time only ends tokens.
* **API keys** (the same module): `KeysAreSound`. A fixed window does not remember its predecessor, so `Fair` carries what the code forgot: the acceptances in the stretch of one
  window's length before the current one are within the limit as well, whence at most twice the limit in any stretch. `KeysKnown` ties keys to the user that `revokeAllUserKeys` walks through.
* **Widgets** (the same module): `WidgetAlwaysSound`. That what a widget shows as verified was verified needs that a widget with a service of its own has at most one validation out, for the session of its state (`OneValidation`);
  the vanilla widget's answers overlap, and its counter and the answers out together are within the limit and their number (`AttemptsCounted`).
* **Plugins and GraphQL** (the same module): `GatesAlwaysHold`. A session is spent by the one request that found it valid, wherever that request has got to since (`Spent`), and a session being
  generated is nobody else's (`Reserved`). What ran was admitted, and what a listener on a topic received is the end of what the mutation of that topic answered (`StreamFollowsAnswers`, inductive with the bounds of where it began to listen, `Listenings`).
* **ObjectPool** (`DataServicesProofs`): `PoolAlwaysSound`, and `DataKeepsPool` for the composition. The parts are proved together: that an idle object is not held needs that objects are numbered, and that
  an object in use has a holder needs that it has only one.
* **Caches** (the same module): `CachesAlwaysSound`. `Aged` says that an entry is as it was set, or was promoted before its time was over, which bounds the age of an answer. For `MemoryCurrent`,
  `Flowing` follows the commands on their way to Redis: whatever older value of a key is there or will get there is written over before a read of the key is served, unless a command overtook one.
  The query cache needs that a call's statement has changed the database once, twice if it was slow (`CallRight`).
* **Profiler** (the same module): `ProfilerAlwaysRight`. A percentile is compared with the number of samples no greater, by counting the same samples in their order of arrival and sorted; the timers need only that `destroy` stops them for good.
* **Leaks** (the same module): `LeaksAlwaysFound`. The growth of a resource is the slope of a least squares line over the last snapshots. The slope is a mean of the steps from one snapshot to the next, each with
  a weight that is not negative (`Covariance` in `SeriesProofs`, by induction over the points; `SlopeOfSteps`): so memory whose every step is above the threshold is reported, and memory whose every step is at most the threshold is not.
* **Audit log** (the same module): `RecordsAlwaysSound`. Events are in the order of their numbers and times, each names the hash of the one before, and the service remembers that of the last (`Linked`, `Ends`); a log that was not cut begins with no hash
  (`Begun`). What is left of it after retention is a suffix (`SeriesProofs`: a filter by age of an ordered sequence). In a log that verifies, an event before the newest that is removed, or whose type or details change, rehashed or not, and two events that change places, show:
each hash is that of its event and covers the hash before, so that the links would have to agree where the hashed tuples differ.
* **SOC 2, threat intelligence** (the same theorem): the samples are those within the window of the newest (`SamplesKept`); a cached reputation is no worse than the indicators and, unless one came later, as bad (`ThreatInv`).
* **Erasure** (the same module): `ErasureAlwaysSound`. The erasure has a list of consents left over its awaits, taken before them; `Ended` says that every consent from before it that is in force is still on the list,
  whatever is recorded, withdrawn or expired meanwhile, and that holds because a consent that ended never returns, proved of every step first. That what was erased is raw again only where it can be rectified needs that a record's place, subject and type stay and that a granted rectification and the absence of an earlier record last
(`RecordsKept`, `RequestsKept`, `Corrections`).
* **What an analysis keeps** (`AnalyzersProofs`): `AnalysesAlwaysFresh`. A result is no older than the cache allows because it bears a time that has come (`BehaviorInv`); the metrics of a fit are those of the
  model in place because that is the latest one built (`BotInv`). A registered device is recognised once the cached result has gone: `FingerprintInv` says that a cached "unique" of a known device was cached before the registration.
* **Figures** (the same module): `FiguresAlwaysRight`, and with the above `AnalysesAlwaysRight`. `FiguresInv` gives the types of trail, keystrokes and devices, and that the bounds of a learned threshold hold the value learned last. The rest is arithmetic about
  what an analyzer computes from any input: no z-score of five values reaches the threshold, since the square of one deviation is at most four fifths of the sum of all; the quartiles of four equal values among five are equal;
  a line's slope comes out of the forecast exactly, as the distances from the middle add up to nothing; a score of keystrokes is at most 0.58 because each of its parts is bounded.
* **Generators** (the same module): `ComputedAlwaysRight`. An expression of up to three operators loses one of them at every turn of the first pass, which ends with a product or quotient only behind a sum or difference (`PassInv`);
  what is then shown, numbers printed to two decimals, has the value by precedence that the second evaluation stores (`AnswerOfShown`), and two decimals of it, cut or rounded, are less than a hundredth away. The keys of the puzzles follow by cases.
* **Hold times and pauses** (the same theorem): both are made in one pass over events. `Paired` says of a prefix of the keystrokes that the hold times so far are those of its releases and that a key is down, since its last event, exactly after an odd number of them;
  `Counted`, of a prefix of the trail, that the pauses and their time so far, with the one still open, are the runs of still movements and their time. The second needs that times never decrease, which `MouseInv` adds.

The proofs assume what the modules' named `ASSUME`s state: the sets of calls, managers, workers, requests and sessions are finite where they are counted, the limits are positive or natural numbers,
and "none" names no session and no worker.

The assumptions about the values of `MCTokens`, `MCDataServices`, `MCRecords`, `MCVisitors` and `MCAnalyzers` say that lifetimes and limits are numbers and flags are Booleans, that the Maps of a cache have room for an entry, that a widget may have a call out,
and that a name is not taken; that the operands of a math problem are positive, as the generator draws them, that the metrics of a session are the five of a category, and that there are finitely many key codes. TLC evaluates each of them.

**Induction.** The library's induction theorems cannot be used with the installed provers. Where a proof needs induction it is by a least counterexample: a non-empty set of natural numbers has a least element, which
follows from the well-foundedness of `<` as a fact about sets (`SeriesProofs`). Sums and folds of the community modules are recursive functions over sets of indices, defined by CHOOSE; that one exists is proved over the size of the sets
in the same way (`SumFacts`, `FoldExists`), and then a sum or a fold is the one before it with one more step. `SelectSeq` and `SortSeq` are not reached so, and the models say what `filter` leaves with `Subsequences`, and what `sort` makes as any
ordered rearrangement or, where one value of it is read, as an order statistic. The models whose results are proved declare no RECURSIVE operator, next to which the prover has no arithmetic.

**What the proofs changed in the models.** `MemoryCurrent` used to excuse a memory behind the last write by an older value that Redis has now, and was not inductive: after a DEL that failed, a read promotes what Redis kept,
and that copy lives on when the entry of Redis expires. The run had passed because a promoted entry never outlived its source within the bounds; with a time to live of 4, `MinTtl` 2 and a clock up to 5 TLC finds it in 12 states.
The model now remembers the keys of which Redis kept an older value (`lost`), and the property, so stated, is proved for all values.

`PausesRight` and `HoldsPaired` used to compare with a second loop, which a proof had nothing to hold on to and a shared mistake would have passed. They now say what the numbers are: a pause is a maximal run of still movements and lasts as long as they do, and the
hold times, in order, are those from each release to the last event of its key before it. The growth in `PerformanceProfiler` left out that only the last snapshots are fitted; `LeakWindow` is that bound.

**Only model-checked.** Liveness (`DeliveriesSettle`, `KeysCollected`, `RequestsAnswered`, `WorkersReplaced`, `LoadingEnds`, `ErasureCompletes`) needs
`ENABLED`, which is out of the prover's reach.

## 6. What the checks found

Five disagreements between the code and what the repository says of it, each with a run that exhibits it (`findings` in
`PROJECT.json`): the rate limiter's handler never answers (`server.ts:126`); the cleanup job sweeps the live sessions of other processes (`services/session-manager.ts:414`);
`isMaxAttemptsReached` drops the time to live (`:299`); overlapping updates lose attempts (`:216`); and the key of a pattern or colour puzzle does not always continue what is
shown (`core/image-captcha-generator.ts:266`).

### What the code does not keep

These promises are stated as definitions in the modules and are in no run; TLC violates each of them, some in the initial state and none later than in the eighth state, when it is made an invariant or a property of the component's run.

| Definition | Says | What the code does |
|---|---|---|
| `JWTService!RevokedRefused` | "Revoke token" (`security/jwt.ts:782`): what was revoked is not accepted again | the blacklist entry ends `refreshTokenLifetime` after the revocation (`:841`); an API token lives a year |
| `APIKeyService!UsageRecent` | "Keep only last 1000 usage records per key" (`security/api-key.ts:1019`) | `getUsageHistory` may sort the stored array newest first (`:801`), and the trimming drops from the front (`:1021`) |
| `CacheService!InvalidateReachesRedis` | "Invalidate cache by pattern using SCAN" (`services/cache-service.ts:331`) | SCAN returns names with the client's `keyPrefix` (`:126`), and the DEL (`:348`) prefixes them once more |
| `DatabaseOptimizer!StatementRunsOnce` | "Execute a query with optimization tracking" (`services/database-optimizer.ts:185`) | a slow statement is explained with ANALYZE (`:274`), which executes it again |
| `DatabaseOptimizer!InvalidateForgets` | "Invalidate specific cache entries" (`:576`) | the pattern is looked for in SHA-256 keys (`:581`) |
| `PerformanceProfiler!ReportsWhenAsked` | "ms between automatic reports" (`services/performance-profiler.ts:119`) | an interval that was 0 once is never started again (`:891`) |
| `AuditLogger!SeverityCovered` | "hash for tamper-proof integrity" (`security/audit-logger.ts:717`) | the hash (`:720`) covers neither the severity, by which events are counted (`:846`), nor the metadata |
| `AuditLogger!ChainVerifies` | "Verify audit log integrity" (`security/audit-logger.ts:516`) | retention deletes the start of the chain, and details are encrypted after they were hashed |
| `GDPRCompliance!ErasureLasts` | "Anonymize the data instead of deletion" (`security/gdpr-compliance.ts:494`): no raw data is left in what an erasure found | a rectification merges the corrected data into an anonymized record, which goes on being marked as one (`:569`) |
| `SOC2Compliance!UptimeIsPercentage` | `uptimePercentage` (`security/soc2-compliance.ts:863`) | a period of n minutes, both ends included, holds n + 1 samples, one a minute |
| `BehaviorAnalysis!ResultsCurrent` | the result of `endSession` is of the session | results are cached under the id alone (`security/mouse-movement-analyzer.ts:377`), and an id can be used again |
| `BotModel!PredictionsCurrent` | a prediction is made from the session | features are cached under the id for good (`security/bot-detection-ml.ts:214`) |
| `GraphQLApi!KeyAdmitted` | "JWT/API Key authentication" (`graphql/middleware.ts:6`) | an APIKeyService made for the request knows no key (`:95` and on) |
| `GraphQLApi!SubscriptionsServed` | "Subscribe to CAPTCHA generation events" (`graphql/schema.ts:399`) | every subscription calls `asyncIterator` (`:400`, `:405`, `:410`, `:415`), which the pubsub of graphql-subscriptions 3 does not have |
| `CaptchaWidget!VerdictIsForSession` | "Whether CAPTCHA has been validated" (`plugins/vanilla-js-sdk.ts:110`) | the verdict on a session that was refreshed is shown for its successor (`:451`) |
| `CaptchaWidget!LoadingIsLive` | "Whether CAPTCHA is loading" (`plugins/angular-captcha.component.ts:106`) | the component copies the service's state only when a handler ends (`:604`); the vanilla widget writes "Loading..." when it is made (`plugins/vanilla-js-sdk.ts:581`), and with `autoGenerate: false` (`:388`) nothing is being loaded |

The passing properties mark the exact edge of more: `SuccessesOverlap` (replay), `IssuerKnows` (sessions across workers), `OnlyOverlapsErr` (lost updates, deletions
undone), `MemoryCurrent` (stale memory after a race), `RepeatedOnlyWhenSlow`, `ChainBrokenOnlyByPurge`, `TamperingShows`, `ErasedIsGone` (what a rectification may undo).

## 7. Plan

Done: the core, the services beside it, and what a visitor meets, with a proof of every safety property of the runs. Left, in this order:

1. `CacheService` with two processes that both keep a memory, and an abstract register with a time to live.
2. `SessionManager` with seconds of several ticks, and with two sweeps of one job at once.
3. `SecurityLogger`'s rotation of files, as a sequence of renames with a crash in between.

## 8. Not modelled

`SecurityLogger` (formatting and file output), the logging and performance middleware (observers that write to loggers and to the profiler), the shop and CMS plugins
(Shopify, WordPress, Drupal: thin clients in other languages) and the manifests and dashboards of the deployment.
Of modelled components: what the neural network computes and the drawing of images; regular expressions (threat patterns and input validation are predicates);
`analyzeJoins`, `detectMissingIndexes` and `optimizeQuery` of the optimizer (rewriting of SQL text); search filters, exports and statistics that only read; network profiles; client updates of OAuth; evidence and
change records of SOC 2, which are only stored. Maps that only grow (webhook records, sessions of `CaptchaService`, `statsEvents`) have no bound that the code or its
documentation promises, so there is nothing to violate; nothing of them survives a restart, and nothing says it should.
