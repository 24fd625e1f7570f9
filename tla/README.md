# Stremiarr handoff: a verification project

Stremiarr is a self-hosted streaming stack. Its own logic is the Go service
*handoff* (`src/handoff/src`, called *the code* below and cited by file name);
everything else in the repository is deployment or presentation. This directory
holds TLA+ modules of the parts of handoff in which goroutines, timers,
restarts and failures meet, the TLC runs that check them, and TLAPS proofs.

## 1. Inventory

### Components that are modelled

| Component | State | Operations | Hard behaviour | Correct when |
|---|---|---|---|---|
| **Stream health** (`validation.go`, `playback.go`, gate in `proxy.go`, clean in `api.go`, maintenance in `db.go`) | table `stream_urls` (is_valid, fail_count, last_validated); queue `validateCh`; two workers | discover, enqueue, probe and report, strike, catch an error video, gate, clean, prune | verdicts are written long after the row was read; deletes and re-inserts race with them; three statements of a clean request without a transaction; NULL dates; full queue; crash loses the queue and keeps the rows | a link marked dead is not offered and comes back only by a probe; one play request does not kill a link by strikes |
| **Revalidation sweep** (`validation.go`) | the order of rows by last_validated, the running query | tick, read 50 oldest, feed without blocking | limit and dropped items against fairness; hosts that answer 405 are never dated | every due link of the table is rechecked, in its order |
| **Key pool** (`debrid.go`, `/api/keys` in `api.go`) | `rd.Keys`, `TokenIdx`, `LockedOutUntil`, `debridProviders`, `keys.json`, `RD_API_KEY` | pick, report a limit, lockout ends, add, delete, load at boot | the counter outlives changes of the list; look-up and creation of the provider are separate; the file leaves out the environment's keys | free keys are preferred and none is passed over; a restart has the keys that were in use; a late report does not reach a key that was deleted and added again |
| **Stream-list cache** (`handlers.go`, `proxy.go`, `cache.go`) | table `stream_cache` or Redis; `swrInFlight` | hit and refresh in the background, miss and fetch, store, bust, clear, expire | refreshes race with each other, with fetches and with busts | one refresh per key, every claimed key is given back, busted lists stay away |
| **Prefetcher** (`prefetch.go`, `/api/prefetch` in `api.go`) | `prefetchStatus`, `prefetchCancel`, `prefetchHistory`, `prefetch_history.json` | start, stop, walk the library, back off, mark, save | starting is check-then-act; cancellation while waiting; forced wipe while another job works; restarts, also between truncation and writing of the file | each working job can be stopped, cancelled jobs end, what is recorded as done is forgotten only by force or by a death while the file is written |
| **Real-Debrid client** (`rdDo`, `Unrestrict`, `rdAddMagnet`, availability in `debrid.go`; the tries of `playback.go`) | attempts and tries of each call, the key it was given; at Real-Debrid, torrents | send, repeat, give up, report a limit, select files | a POST whose answer is lost is sent again; keys rotate, are locked out and are deleted between two requests of a call | retries end; a magnet is added twice only after a lost answer; files are selected with the key that owns the torrent |
| **Source fan-out** (`fetchAndCacheStreams` in `proxy.go`, `fetchHashesForItem` in `prefetch.go`) | a goroutine per source, a semaphore of four, a channel, a collector | acquire, fetch, send, release, receive, finish | any order and any failures; a collector that stops listening | a list waits for every source; the round ends; no goroutine is left behind |
| **WebSocket hub** (`ws.go`) | clients, the gauge, the snapshot of a broadcast | connect, greet, read, remove, broadcast | two ways to remove a client; two writers on one connection, of which one may panic | dead clients leave; the gauge counts them |
| **Rate limiter** (`rate_limit.go`) | two limiters per address, lastSeen | admit or refuse, cleanup | buckets are forgotten with what is left in them | clients are limited as if no bucket were ever forgotten |
| **Saved settings** (`api_addons.go`, `alias.go`, `/api/mappings` and `/api/stremio/auth` in `api.go`, `prefetch.go:79-105`) | a value in memory, a file that may be whole, torn, empty or absent, `sourcesMu` | change, serialise, open, write, remove, load | three different protocols of change and write; crash between truncation and write | what is in use survives a restart when requests do not overlap, for the sources also when they do |
| **Bandwidth accounting** (`bandwidth.go`) | records, the batch taken out, the table | track, take, write | fetches go on while a batch is written; INSERTs fail | bytes are counted once and do not stay in memory |
| **Migrations** (`db.go:107-168`) | schema, recorded versions, the running start | execute, record | death between the two, unrecorded versions, swallowed errors | a started program has its whole schema |

How they interact: `playHandler` and the gate read the rows that the workers
write; every fetch of the cache and the prefetcher inserts links and offers them
to `validateCh` (action `Discover`); the prefetcher busts lists of the cache
(action `Bust`); playback, validation and the prefetcher call Real-Debrid through
RdClient, which is composed with the key pool and takes its steps
(`Keys!Pick`, `Keys!ReportLimited`, `Keys!Answer`). Otherwise the modules meet
only in actions which each of them takes at any time. The last six of the table
share nothing with each other.

### Not modelled

- *Catalog cache* (`cache.go:127-194`): a `sync.Map` of which every operation is
  one step on one entry. Losing an entry costs a request. Its two hazards (the
  key leaves out the method; a reader deletes what another has just stored) are
  listed.
- *Sessions* (`rbac.go`): each operation is one critical section on one entry and
  checks the expiry itself. A property would restate that check.
- *Subtitles and predictive pre-caching* (`subtitles.go`, `predictive.go`) cannot be
  reached: `routeHandler` hands only paths under `catalog/` and `meta/` to
  `proxyRequest`, which trims a leading `series/` or `movie/` of the whole path
  (`handlers.go:151`, `proxy.go:451-462`); the identifier it finds never starts with `tt`, so
  neither starts anything.
- *The other debrid providers*, routing, manifest and catalog handlers: one HTTP call
  or a dispatch, without state.
- *DMM's token and proof of work*, of which only the scrape as one source of a
  round of hashes is in SourceFanOut: the token is refetched before it
  expires, and the proof of work is computation.
- *Opening the database and creating the first tables*, *shutdown*: the server is
  cut off as by a crash, since `main` returns without waiting for `Shutdown`.
- OAuth, webhooks, Home Assistant, Radarr/Sonarr notification, transcoding and
  hardware detection, metrics, anomaly logging: stateless calls or pure I/O.
- The UI, the React frontend, compose, Helm, Caddy, rclone, zurg and the scripts:
  presentation and configuration.
- The placeholders `anime`, `dsl`, `failover`, `graphql`, `hls`, `store`,
  `metadata` and the mobile, Kodi and Jellyfin shells.

What is left of the code is parsing of answers, scoring and ordering of streams,
templates and JSON: data that no interleaving touches.

`PROJECT.json` lists under "hazards" what is hard to test, at its line, with
the properties that would catch it going wrong, or why there is none yet.

## 2. Modules

### StreamHealth
One row per link: `stored`, `valid`, `fail`, and the age class of
`last_validated` that the code's comparisons distinguish (NULL, within two
hours, older, older than thirty days). Each SQL statement is one step and may
fail (`Exec`), since the code logs the error and goes on; queries succeed.
`fail` saturates at `FailCap`, at least the limit of three it is compared with.
A worker takes a link (`Take`) and writes the verdict in a later step
(`Report`); which verdict is left open, because it depends on the network. A
play request walks through `playHandler`: admitted by the check of its row,
redirects (may strike), HEAD of the final URL (may strike and end), then an
error video (two statements: condemn, strike), a failed unlock, a proxied stream
or a redirect of the player. The clean request is three steps. `Prune` is the
hourly maintenance, `Age` the passing of time, `Crash` a restart that keeps the
table. The sweep's choice among due rows is left open here; RevalidationSweep
has its order.

### RevalidationSweep
Keeps what StreamHealth leaves open and only that: the order of rows. `undated`
are rows with NULL, `dated` the others, oldest first, of which the first `due`
are older than two hours. NULL sorts first in SQLite and last in Postgres
(`NullsFirst`). The runs use SQLite's order. `Waiting` is the ORDER BY of the query,
`OldestFirst` its LIMIT. Either verdict makes a row the
newest; a 405 answer (`Opaque`) changes nothing. The links are those in the table: nobody
adds or plays any. In the code a link found meanwhile is inserted with NULL (proxy.go:231,
prefetch.go:580) and, in SQLite, is read before all that wait, so `WaitersAreNotOvertaken`
speaks of the links that are there.

### RdKeyPool
A pool is one `RealDebridProvider`; the list `pools` has more than one only
when two requests both find none. `RD_API_KEY` is taken to list no key twice. `Steps` is how often the loop of
`getActiveToken` increments `TokenIdx`, also in the fall-back when every key is
locked out. `TokenIdx` is kept modulo `Period`, a multiple of every possible
length, which leaves each index `TokenIdx % len(Keys)` as it is. A lockout ends
when its five minutes are over, at any time in the model. Files are written in one
step and the write succeeds. Keys are long enough for their displayed forms to
be distinct. A restart may come with another `RD_API_KEY`.

### StreamCache and SingleFlight
The lists are versions of what the sources offer; a fetch reads the version in
one step and stores it in another, or stores a list without streams when every
source failed. With Redis a read may time out, which is a miss. Cache writes may
fail. `SingleFlight` is the promise of a table of work in progress; StreamCache
implements it under the mapping that gives each key the refresher working on
it (`Flight`).

### PrefetchJob
A POST takes three critical sections (`PostCheck`, `PostArm`, `PostLaunch`), a
job one step per critical section or wait. Items are positions in the library;
hashes are counted; `Hash` covers the answers to one hash, among them the 429
that leads to `Backoff`. `savePrefetchHistory` is two steps, like `os.WriteFile`: `OpenFile` empties the
file, `WriteFile` writes the history. The code holds `prefetchHistoryMu` over both, so whoever
looks an item up, marks one, loads or saves waits meanwhile (`HistoryLocked`), but a restart does
not: it finds an empty file, which loads as an empty history (prefetch.go:57-66). A file that is torn within
the one write is the same to `json.Unmarshal`. Writes that are not interrupted
succeed. Of the status only `Running` is kept, its counters are for
display. Job identities are reused
when a job is over and no longer the target of `prefetchCancel`.

### RdClient
The calls as goroutines over RdKeyPool. `Unlockers` are play requests (three tries, each
begun by looking whether all keys are locked out) and validation workers (one);
`Submitters` add magnets or ask for availability. A sent request is answered
(`Succeed`), refused, limited (`Busy`) or not answered (`NetworkError`), in which case it may have
reached Real-Debrid (`NoAnswer`); `rdDo` repeats it with the key of the first
attempt. Only `Unrestrict` has its key locked. `torrents` is Real-Debrid's side: the torrents each key
owns for the magnet being submitted. Back-offs are not timed, and of the cache of unrestricted links only that
a link may be found there is kept; the pick comes before, so it moves the round
robin all the same.

### WsHub
One step per critical section of `hub.mu`. The greeting is written outside it, so
a broadcast may meet it on one connection (`Contested`), which gorilla/websocket
does not allow: what either write, or the goroutine of the connection, comes to
is left open. A panic of the broadcast ends the process and is `HubRestart`.

### RateLimiter and TokenBucket
A limiter of `golang.org/x/time/rate` is a bucket of whole tokens filled once per
unit of time. The code keeps a table and forgets addresses (`Cleanup`); the
specification TokenBucket has a bucket for each address and class for ever, and
RateLimiter implements it, an address that is not in the table being full.

### SavedState
One protocol, chosen in the initial state by `store`, of the three: sources are
changed and written under a lock, mappings are changed, then copied, then
written without one, the Stremio key is changed under a lock and written without.
`os.WriteFile` is two steps, truncation and writing; two at a time may leave a torn file, and a
file that is removed between the two is written in vain.

### SourceFanOut
Both collectors over the same goroutines: that of stream lists, with the
semaphore, and that of the prefetcher, which stops listening at a hundred
hashes. What a source gives is something or nothing. Rounds share nothing and
follow one another in the model.

### Bandwidth and Migrations
Bytes are units of one source. `Migrations` executes and records version after version
from the highest recorded; `Needs` says which migrations a migration builds on, so that a
missing one makes it fail. `failed` are versions that failed though nothing
stood in their way; the code takes every error for "already applied".

### Services
These six share no variable: a step of one neither changes nor enables nor
disables a step of another, so their product has exactly the behaviours of each,
interleaved. Services therefore lets a behaviour be about one of them, `focus`,
with the rest at their initial state, where none of their fair actions is
enabled. It loses nothing that a property of one of them can see.

MCStreamHealth adds the symmetry of links, requests, workers and clean requests
(used with safety properties only), MCRdKeyPool and MCRdClient
the displayed forms of the keys, MCServices rates, defaults and the dependencies of the five migrations.
Operators that stand directly before an action and resemble it
(`OverwrittenOnConflict`, `RefreshUnchecked`, `SelectWithNextKey`, `TakeFullBatch`, ...) are mutants:
plausible mistakes that PROJECT.json substitutes for the definition after them,
to show that each property can fail. No specification uses them.

## 3. Runs

| Run | Checks | Result |
|---|---|---|
| `health_one_link` | TypeOK, GateNeverPassesInvalid, OneRequestCannotKill, OnlyProbeRevives | hold |
| `health_gate_strikes` | GateHidesStruckLinks | violated: the gate's scan fails on NULL, so a never-validated link with three strikes is offered (proxy.go:339) |
| `sweep_around_opaque` | TypeOK, RoomySweepsRecheck, WaitersAreNotOvertaken | hold |
| `sweep_starves` | DueLinksAreRechecked | violated: as many 405 links as the limit fill every sweep (validation.go:34) |
| `keys_rotate` | TypeOK, RestartKeepsKeys, LockedKeysAreLastResort, EveryFreeKeyComesCloser, AddedKeysAreFree | hold |
| `cache_refresh` | TypeOK, OneRefreshPerKey, InFlightHasRefresher, FlightSpec | hold |
| `cache_bust_redis` | BustedListsStayAway | violated: the bust is SQL, the lists are in Redis (prefetch.go:623) |
| `prefetch_race` | TypeOK, EveryJobIsStoppable, DoneItemsStayDone, CancelledJobsEnd, JobsCountDown, RunningEnds | hold |
| `prefetch_two_jobs` | RunningTracksJobs | violated: the end of a cancelled job clears Running of the next (api.go:559) |
| `rd_calls` | TypeOK, DuplicatesNeedLostAnswers, FilesSelectedByOwner, EveryCallEnds, CallsCountDown | hold |
| `services` | TypeOK; GaugeNeverOvercounts, DeadClientsLeave; BucketSpec; SourcesSurviveRestart, LoneRequestsAreSaved; ListIsComplete, NobodyWaitsInVain, RoundEnds, FetchersEnd; BytesCountOnce, BytesAreFlushed; StartedSchemaIsComplete | hold |
| `hub_gauge` | GaugeCountsClients | violated: a client counted off by the broadcast is counted off again by its own goroutine, after its greeting (ws.go:123-126) or its read failed (ws.go:107) |

What three of the properties do not say:

- `OneRequestCannotKill` counts strikes. An error video condemns the link in one request,
  by a statement of its own (playback.go:170), which the property leaves out.
- `WaitersAreNotOvertaken` is about the links in the table, without user traffic.
- `DoneItemsStayDone` allows items to be forgotten when a forced job begins, when the process dies
  before an item was saved, and when it dies between `OpenFile` and `WriteFile`. The last
  loses the whole history, though CHANGELOG.md:20 promises that it persists across restarts; TLC shows
  the loss when that case is taken out of the property. What the property excludes is every other
  way: the save of one job undoing that of another, a wipe that comes when nobody asked for
  one, a load that replaces instead of merging. A wipe, on the other hand, may be undone: a job that
  loads the file between the wipe in memory and its save brings the items back.

Bounds, and why they are enough:

- `health_one_link`: no statement reads two rows and no property relates two
  links; they share only the queue. One link with two workers, two play
  requests, a clean request, maintenance and crashes has every race on a row;
  `QueueCap = 2` lets the queue hold a duplicate and be full.
- `sweep_*`: three links of which one is opaque, limit two, queue three: the
  limit cuts the query, and the queue is neither always roomy nor always full.
  `sweep_starves` scales the limit of fifty down to one. One crash shows what a
  restart loses.
- `keys_rotate`: three keys give lengths one to three, so a change of length
  moves the index in every way; two administrators race for the creation of the pool, and
  delete and add the key that the call was given before it reports.
- `cache_refresh`: two keys, two refreshes and a request; the sources of one key
  change once. `cache_bust_redis` needs one of each.
- `prefetch_race`: two overlapping starts of jobs over up to two items with at most
  one hash each, stops and restarts at any time. With one item a save could hardly lose
  another one. A third overlapping start would wait for a job identity.
- `rd_calls`: an unlocker, which alone gets keys locked, a submitter and a key
  request share two keys, so that the key of a call can be locked out, deleted
  and passed over in the middle of it; two retries instead of
  five have a first, a middle and a last attempt. `Ceiling`, one more than the
  attempts, is where counting of torrents stops, beyond what a property allows.
- `services`: three connections (one removed, one contested, one still counted); two
  addresses and both classes, forgotten after three units, in which the slower
  bucket just fills, as the code's ten minutes fill both with room to spare; three requests over
  two names, since a torn file needs two writers and a third to repair it; three
  sources for a semaphore of two; five units of traffic; all five migrations.
- `hub_gauge`: two connections; the gauge is followed down to -3.

Fairness:

- RevalidationSweep: the timer keeps ticking, the feeding loop goes on, and each
  worker is a goroutine whose probe is bounded by HTTP timeouts: weak fairness of
  `SweepQuery`, `SweepFeed` and each worker. Ageing and crashes are not fair.
- StreamCache: a refresh runs under a ten-second timeout (`handlers.go`), so
  its steps are taken. Nothing is assumed of requests, busts and sources.
- PrefetchJob: a POST that armed a job launches it, and a job's calls and waits
  are bounded. Jobs share the mutex of the history, and the fairness of a job is strong: under weak
  fairness another job could take it at every turn, for ever, but Go's `sync.Mutex` hands over to a
  waiter after a millisecond. Nobody has to start, stop or restart anything.
- RdClient: `httpClient` has a timeout, back-offs and pauses end, so each call goes
  on. Keys need not be added, nor lockouts end.
- WsHub: the ticker of the broadcast goes on, and goroutines of connections are
  scheduled when they have something to do. Peers do as they like.
- SourceFanOut: fetches have deadlines, goroutines are scheduled. `Acquire` needs only weak
  fairness, because places given back are not taken by others for ever: a round has finitely many.
- Bandwidth: the ticker of the flush goes on. Nothing has to be tracked.
- StreamHealth, RdKeyPool, RateLimiter, SavedState and Migrations state no liveness
  and no fairness.

`RoomySweepsRecheck` assumes that from some moment on the queue has room for what
a sweep reads. The code does not ensure it (1000 places, shared with discovery), but
that is the ordinary situation, and the property says what the order of the query
then guarantees.

## 4. Proofs

The theorems hold for any sets of links, keys, requests, workers and jobs and any
bounds that satisfy the module's named assumption.

**StreamHealthProofs**: `TypeCorrect` (TypeOK), `GateSafe`
(GateNeverPassesInvalid), `StrikesBounded` (OneRequestCannotKill), `RevivalSafe`
(OnlyProbeRevives).
All rest on one inductive invariant, `IInv`. `GateNeverPassesInvalid` is not
inductive: the gate does not run on undated rows, so what has to be maintained
is that an invalid stored row is dated, through every statement (lemma
`StatementsKeepDates`). `OneRequestCannotKill` needs the strikes a request can
have at each of its positions: none while it follows redirects, at most one
until its last strike. `OnlyProbeRevives` then follows by going through the
statements again (`StatementsDoNotRevive`): only `Report` writes a valid row
over a stored invalid one.

**StreamCacheProofs**: `TypeCorrect` (TypeOK), `RefreshesExclude`
(OneRefreshPerKey), `NoKeyStuck` (InFlightHasRefresher), and
`RefreshesImplementFlight`: StreamCache starts and steps as SingleFlight does.
Neither safety property is inductive alone: exclusion needs that a key being
refreshed is in `swrInFlight` (`Claimed`). The lemma `TableSteps` reduces every
step to one of four effects on the table (claim, give back, forget, leave), and
both the invariant and the refinement go through these four.

**PrefetchJobProofs**: `TypeCorrect` (TypeOK), `JobsStoppable`
(EveryJobIsStoppable), `HistoryKept` (DoneItemsStayDone), `RunningIsCleared`
(Running is set only while a job has yet to clear it, which no run checks), `JobsEndInTime` (JobsCountDown). The invariant adds where a
job is in the library, that a request about to launch a job is the only one and the job
waits for it (otherwise launching could send a running job back to its
beginning), and that, while nobody has the file open, an item of the history that is not in the file is
one that a job has just marked and is about to save (`OnlyUnsavedAtRisk`).
For the count of the steps that are left, `JobMoves` lists from where to where a step takes a
job (`Advances`), and `AdvanceCounts` is arithmetic alone: each of these moves lowers the
count, the product of items and steps per item being handled one item at a time (`Todo`).

**RevalidationSweepProofs**: `SweepTypes` (TypeOK) and `SweepIsFair` (WaitersAreNotOvertaken).
TypeOK is not inductive by itself: that a row is either dated or undated and has one place in
the order needs the sequences to be injective and disjoint (`Rows`), and that queue, query and
workers hold only links of the table (`Channels`). What `RemoveFirst` of the community modules does to such a
sequence, and what appending a verdict at the end does to who is before whom, are lemmas of
their own.

**RdKeyPoolProofs**: `TypeCorrect` (TypeOK), `RestartsKeepKeys` (RestartKeepsKeys),
`LockedPickedLast` (LockedKeysAreLastResort), `FreeKeysComeCloser`
(EveryFreeKeyComesCloser), `AddedKeysStartFree` (AddedKeysAreFree), for any finite set of keys. The invariant adds to
`RestartKeepsKeys` what happens when there is no pool, or more than one, and that no
file or pool holds a key twice. `AddedKeysAreFree` needs that only keys of a pool are locked out
in it (`LockedArePooled`), through late reports and deletions. `Without`, the loop that filters keys, is a recursive function; what
it computes is proved by taking the smallest prefix on which it would go wrong
(`LoopRuns`, `WithoutKeeps`). The round robin rests on facts about remainders: from any
counter each place of a list is reached in as many steps as it has places
(`EveryPlaceReached`), and a pick by n steps brings what was n + i steps away to
i (`MovedCounter`), also where the counter wraps at `Period`.

**RdClientProofs**: `TypeCorrect` (TypeOK), `OwnerSelects` (FilesSelectedByOwner), `FewDuplicates` (DuplicatesNeedLostAnswers),
`CallsEndInTime` (CallsCountDown). The calls are written with the steps of RdKeyPool (lemma `StepUsesKeys`), and
what is known of the keys is then taken from RdKeyPoolProofs by instantiation. A key
that owns a torrent may be locked out or deleted; the argument is that `holding`
changes only by the call itself. `FewDuplicates` adds an account of the torrents
(`CopiesInv`): while the magnet is being sent only the key of the call owns any,
at most as many as answers were lost, and no more are lost than attempts were made; afterwards
there may be one more. Since one key owns them all, their sum is what it owns (`SumAtOne`),
proved from the definition of the fold by the smallest set on which it would fail, in place of
an induction. `CallsEndInTime` needs that a call under way has a try left (`TryInv`); the
next try is worth exactly the steps it has (`LeftInThisTry`), each other step is one within a try.

**ServicesProofs**: `TypeCorrect` (TypeOK of all six), and for each service by itself
`LimiterTypes` and `LimiterImplementsBuckets` (BucketSpec), `BytesKept` (BytesCountOnce),
`SchemaComplete` (StartedSchemaIsComplete), `ListsComplete` (ListIsComplete),
`RoundsFlow` (NobodyWaitsInVain), `GaugeBounded`
(GaugeNeverOvercounts), `SettingsSurvive` (SourcesSurviveRestart), `LoneRequestsSurvive`
(LoneRequestsAreSaved). BucketSpec is proved whole, refinement and all. Their invariants say, in turn:

- a bucket is full or holds at least what flowed in since the last request (`AtLeast`), so
  that after `IdleLimit`, by the assumption on rates and bursts, forgetting it is a stutter;
- which bytes are where, and at which version the start stands when some migrations are
  missing;
- that a result is with its goroutine, in the channel or received, and that while
  somebody listens no goroutine has ended without one. The channel has room for the
  goroutine that sends since its own result is not in it yet;
- that a removal takes at most one from the clients and one from the gauge;
- what each request that is under way will write to its file.

NaturalFacts holds what several of these need about numbers.

**Why calls, jobs and rounds end.** That something ends is liveness, which the prover does
not reach: EveryCallEnds, CancelledJobsEnd, RunningEnds, RoundEnds and FetchersEnd are
checked by TLC on the small instances. What carries them is safety, and is proved for
every instance: `StepsLeft` and `JobStepsLeft` bound the steps that a call or a job has left, every
step of its own lowers the bound and nothing else raises it; Running is never set
without a job to clear it; no goroutine of a round waits to send, and none that the
collector waits for is missing. What is left to TLC is that one of these steps is always
enabled, and so is taken under the fairness stated.

Only model-checked, then: the liveness properties (those named, RoomySweepsRecheck,
DeadClientsLeave, BytesAreFlushed) and the fairness part of FlightSpec. Fairness
and ENABLED are out of the prover's reach. Every invariant and every action property that a
passing run checks is also a theorem, and so are the steps of both refinements (SingleFlight,
TokenBucket). No module uses RECURSIVE.

## 5. Findings

- A link that was never validated is offered with three strikes: the gate's scan of NULL fails
  (`health_gate_strikes`).
- Links that answer 405 fill every sweep (`sweep_starves`).
- With Redis, a bust leaves the lists where they are (`cache_bust_redis`).
- Two overlapping starts of the prefetcher: `Running` is cleared while one works
  (`prefetch_two_jobs`).
- The gauge of websocket clients falls below their number, for good (`hub_gauge`).

A death while the prefetch history or the file of sources is being written loses what was in
it; the modules have both losses, and the properties name the moment (section 3, and SavedState).

## 6. What could follow

The composition of the prefetcher and the cache. Sessions and the catalog cache would join Services if their
operations came to span more than one critical section.
