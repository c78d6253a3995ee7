# StockPulse: a TLA+ model of its back end

StockPulse (`src/backend`, FastAPI on asyncio, with Redis and PostgreSQL) collects
market data from rate-limited providers, stores it and serves it over HTTP and
WebSockets; `src/frontend` is its browser client and `src/ipv6-rotator` a small
CONNECT proxy. This directory models its concurrent core in TLA+, checks the
models with TLC on small instances, and proves the safety properties of those runs
with TLAPS for every instance.

    tlc -config ProviderQueue.cfg MCProviderQueue     # one of the runs below
    tlapm ProviderQueueProofs.tla                     # one of the proof modules

`PROJECT.json` lists components, runs, mutants, the source lines of every
definition, findings, hazards and theorems.

## 1. Inventory

Paths are under `src/backend/app/` unless they start elsewhere.

| Component | State | Operations | Hard behaviours | What makes it correct |
|---|---|---|---|---|
| **Provider queues** `core/provider_queue.py` | priority queue, semaphore, token bucket, futures, counter of urgent calls | `submit`, `update_rate`, `start`, `stop`, the processor task, dispatched calls | a processor suspended with an item in hand; slots handed over asynchronously; cancellation at any await; rate changes | no slot lost or over-used, bounded bursts, priority with bounded overtaking, every caller answered |
| **Leader election** `core/scheduler.py`, `api/admin/scheduler.py` | a Redis lease; per process `_is_leader`, `_scheduler` with its jobs, a supervisor task | acquire, renew, step down, `request_relinquish`, `trigger_job`, stop | lost answers, expiry, interleaved supervisor, heartbeat and admin request | one scheduler, leases deleted by owners only, re-election |
| **Daily bar collection** `services/collection_service.py`, `collection_run_service.py`, `bar_persistence_service.py`, start-up part of `main.py` | a Redis lock and checkpoint per market, audit records, bars | `collect_market`, `rebuild_market`, `force_unlock`, start-up clean-up | crash at any await, resume, expired locks, cancelled `finally` blocks | exclusion, no gap in any history, no symbol skipped, records that are closed |
| Administrator task registry `api/admin/collection.py` | tasks per worker and market, queued flags | trigger, rebuild, cancel, unlock | callbacks of old tasks | whatever the registry forgets, the locks keep jobs apart |
| ML, fundamentals and profile jobs `services/ml_collection_service.py`, `fundamentals_collection_service.py`, `profile_collection_service.py`, `stock_profile_service.py` | locks, progress, breaker, streaks | `_run_job` and its jobs | late owners, counters shared by concurrent calls | as collection; the breaker opens and stays open |
| WebSocket clients `ws/manager.py`, `endpoints.py`, `redis_fanout.py` | sessions, subscriptions, metadata | connect, subscribe, broadcast, clean up | operations around a disconnect | no subscription without a session, limits |
| Upstream collectors `ws/upstream/*` | shards, symbols per shard, connections | subscribe, unsubscribe, reconnect, re-shard | failure in mid-subscription, reconnect | every symbol on one shard; what a connection or a key takes |
| History cache `services/history_cache_service.py` | one file per symbol and tier, a lock in Redis | get, fetch, wait, write | one temporary name for all writers, locks that run out | whole files, one fetch at a time |
| Quote, currency and index caches `services/realtime_cache_service.py`, `currency_service.py`, `hsi_service.py`, `index_constituents_service.py` | values with a time to live | get, refresh | stale fallbacks | fresh values replace fallbacks in the end |
| Symbol lists `services/stock_list*.py`, `symbol_resolver.py` | tables, versions, Redis cache | build, save, invalidate, resolve | check-then-save, invalidation racing a read | after a build nobody is served an older list |
| API key pool `core/api_keys.py` | windows, cooldowns, position per provider | pick, mark limited, reload | windows, pool changes | limits kept, no usable key ignored |
| Executors `core/executor.py`, `core/yf_process_pool.py` | pools, counts of hung threads | submit, watchdog, restart | restart under calls | every call ends |
| Provider routing `services/stock_router.py` | the router of a process | build, reset, fallback, fan-out, search | keys that change under it, providers that fail in different ways | every provider has its chance; the routes are those of the keys |
| Provider adapters `providers/*` | answers kept in Redis | ask a source, map its answer | which failures are None and which an answer | field mapping; failures are not answers |
| Tokens `core/auth.py`, `api/auth.py` | used refresh-token ids | log in, refresh, log out | two refreshes of one token | each token used once, and no tab locked out by itself |
| Upserts of the collection services | tables | write a batch | failures between two commits, repeated batches | the rows a batch should leave, however often it was tried |
| HTTP API `api/public/*`, other `api/admin/*` | none | handlers over the services | none of their own | - |
| Infrastructure `core/database.py`, `redis.py`, ... and schema | connection pools, tables | - | I/O | - |
| Frontend transport `src/frontend/src/api/*`, `hooks/useRealtimeQuotes.ts` | refresh promise, pending subscriptions, handlers | reconnect, refresh | several tabs, resubscription | subscriptions as the user left them |
| Frontend pages | React state | rendering | - | - |
| IPv6 rotator `src/ipv6-rotator/src/main.rs` | the pool of addresses, two copies of a connection | generate, connect, tunnel | early data, failing addresses, half-closed tunnels | streams whole and in order, IPv4 as the last resort |

How they interact. Request handlers and jobs reach providers through
`stock_router` or directly, and either way through a provider queue, whose calls run on
the executors with keys of the pool. The scheduler of the elected leader starts
collection jobs at their cron times, administrators start them by HTTP on any
worker; both only meet in the Redis locks. Jobs poll the queue's counter of urgent
calls and yield. Collectors publish ticks on Redis channels, every worker's fan-out
loop dispatches them to its sessions. `main.py` starts the process pool, clears
stale locks and records, and starts scheduler, queues and subscriber.

`src/docker/supervisord.conf` runs uvicorn with one worker. The scheduler and the
locks are written for several (`core/scheduler.py` says so in its header), so the
models of Redis-coordinated parts take any number of workers; what only bites with
more than one process is named below.

## 2. What is modelled

A worker is one asyncio process. An action is what it does between two suspensions;
a Redis or SQL command is an action of its own where another task
can act between it and the code around it. The mutants in the modules are
wrong variants of a definition placed just before it; no specification uses them.

### ProviderQueue

One `ProviderQueue`. `queue`, `seq`, `fut` are the priority queue and its items'
futures, `permits` the semaphore's value, `running` the dispatched calls, `hp` the
counter `_high_priority_pending`, `cap` and `credit` the token bucket. `pc` says where
`_process_loop` is suspended (`get`, `sem`, `bucket`) with which item (`held`), and
`granted` that its semaphore waiter was woken and owns a slot it has not seen yet.

- `Submit`, `Abandon`: `submit()`, and the cancellation of the task that awaits it.
- `TakeDone`, `TakeAndWait`, `TakeWithSlot`, `SlotGranted`, `TokenFound`: the turns of
  `_process_loop`; `Finish`: `_execute_item` with any outcome; `Release`: the semaphore.
- `Stop`: the cancellation at each suspension, then `_drain_remaining()`. What the
  handler does to the semaphore depends on where it strikes (`SlotsOnCancel`).
- `Accrue`, `UpdateRate`: time as whole tokens; `update_rate()` changes the capacity only.

`burst` and `overtaken` are histories. The running application starts and stops each
queue once; the class supports more cycles and the model takes `MaxStops` of them.

### LeaderElection

The lease `key`, per worker the globals `_is_leader` and `_scheduler` (`leader`,
`sched`), the supervisor's suspension (`sup`), a suspended `request_relinquish()`
(`rq`), and `orphan`: a scheduler that still runs although `_scheduler` was
overwritten, which APScheduler allows. A failed command is lost before or after it
executed; the client retries or gives up. `Gone` is the id of a process that ended. One
collecting job stands for all, since every wrapper begins with the same `_is_leader`
guard; the heartbeat is the other job. `paused` are the jobs of a scheduler without a next
run time, which is what `trigger_job()` makes of any job it is given, the heartbeat too.
A scheduler whose heartbeat is paused neither renews the lease nor steps down. A second
concurrent `/restart` on the same worker is left out.

### CollectionRun

One market on one day. Runs (`collect` or `rebuild`) compete for `lock`; `audit` is
each run's record, `known` whether the run has its id, `ckpt` the day's checkpoint, `bars` what the database has of each
symbol: `hist` (the bars up to some earlier day) and `recent` (those since). `latest`,
`todo`, `batch`, `got` are a run's local variables and `pc` the await it is at, named
after what comes next. `Crash` kills a worker's runs wherever they are; `Startup` is
the clean-up in the lifespan of `main.py`: records older than two hours that say
running become failed (such a run has outlived its one-hour lock), then every lock goes. Abstractions:

- the yfinance path fetches a window of 20 batches and then stores batch by batch; the
  model fetches and stores batch by batch. A crash inside a window leaves the rest of
  it neither stored nor checkpointed, as if it had not been fetched;
- the CN path has the same order of fetch, upsert and checkpoint, with smaller batches;
- a command whose failure is swallowed and that did execute is the same as success;
- the "no symbols" exits are left out: `symbol_resolver` falls back to a static list;
- a run cancelled inside `create_run()` leaves its lock to the time to live, because the
  `try` with the `finally` begins later (`Cancel`), and its record at running if the
  insert was committed and the `refresh()` after it was what it waited for; one whose
  `refresh()` fails goes on without knowing its record (`known`) and never closes it. A
  cancellation inside the `finally` skips its rest (`CancelClosing`);
- progress and counter keys, the queued flag, retention of old records and midnight are
  left out.

`tried` (symbols requested today since the last delete), `torn` (bars deleted but the
checkpoint not yet cleared), `faulty` (a command failed) and `breaches` (how live runs lost
their locks) are histories that the properties condition on.

### JobRunner and ProfileStreak

`JobRunner` is the frame that every other collection job has (`_run_job()` of the two
services and the jobs written out like it): lock, record, batches gathered together,
breaker, closing, `finally`. A kind of job is a record of what differs; a `task` has
its local variables and the await it is at; `registry` is the administrator's
dictionary, per worker, with the done callback that removes whatever entry it finds.
Units of work are counted, not named. `faulty` says that a command failed or a task was
cut short, `lost` that a task's lock went while it worked.

`ProfileStreak` counts the concurrent downloads of profiles by where they are: waiting
for the semaphore, asking, or asleep after a 429, by attempt.

### Upstream

One provider's registry, orchestrators and shards. A shard's `conn` is `down`, `open`,
`stale` (the socket is closed and `_connected` still true) or `off`; `server` is what the
other side was told and `hello` that it has not been told anything yet. A call that has
the orchestrator's lock suspends in each send, and everything else may happen there:
connections drop, keys are loaded and the shards rebuilt. `ShardCap` is where an
orchestrator stops filling a shard, `ConnLimit` what Yahoo takes on a connection. The
symbols' names stand for their sorted order.

### QuoteStream and TickFeed

The way of a tick: `channel` is Redis' pub/sub, `event`, `targets` and `dead` the
broadcast under way, `conns` and `subs` the manager's dictionaries, `loop` the endpoint of
each connection, `toServer` and `toBrowser` the socket, `sid`, `link`, `pending` the
browser's socket object and `page`, `held`, `dirty` the React effect that subscribes for
the page. The manager awaits nothing under its lock, so its operations are single
steps; sends are awaited one by one. `TickFeed` is the abstract specification: ticks
arrive in the order of their publication and none twice; they may be lost.

### HistoryCache and SymbolLists

`HistoryCache`: one symbol and tier; files are inodes with contents, `path` and `tmp` the
directory's entries, so that a rename under an open writer is what it is in the
file system. `layer` 2 keeps the file, layer 3 asks without keeping it. `overlap`,
`stale` and `saved` are histories.

`SymbolLists`: a list is the number of changes of its source it has seen. Readers ask the
cache, then the source, then store; builders save chunks, set the version, invalidate.
The constituents of indices and the exchange rates are the same with a remote source
that changes by itself.

### ApiKeys, StockRouter and ProviderCalls

`ApiKeys`: the row in the table, what each process has loaded of it, the signal, the
clock, and per process and key the window and the rest. `StockRouter` extends it: a
process has a router or none; a request has the providers still to be asked and the
calls under way. Every adapter method is a row of `ProviderCalls`: markets it
serves, whether it takes a key, which outcomes it stores, answers, or tries again; the
mapping of fields is left out. `CallCancelled` is the cancellation of a recycled pool,
which neither adapters nor router catch.

### Executors, RefreshTokens, UpsertTables

`Executors`: a job's thread is held until its function returns, whoever waits; the
watchdog's probe is a job like others. `RefreshTokens`: `store` is the tabs' local
storage, `posts` the exchanges under way (one per tab: `refreshPromise`), `claims` the
denylist; `lost` are tokens whose exchange went with its page. `UpsertTables`: one of
the 21 upserts, described by how it handles a conflict, its unit of commit, and
records without a key, with an unreadable date, or without a part of the key that may be
NULL (`Partial`; `Adding` for the two tables that have such a part), writes one batch again
and again:
record by record in the open transaction `tx`, which the last record of a unit commits
and a failure undoes.

### Rotator

`PoolAddress` is the arithmetic of addresses, on `Width` bits; `sources` is the proxy's pool.
One connection stands for all, since they share only the pool: `conn` is its handler,
`unread`, `buf` and `got` are the chunks of either stream in the proxy's socket, in the
buffer of `io::copy`, and written. What TCP does with written data when a socket is
dropped is left out.

## 3. What the runs show

| Run | Instance | Distinct states | Result |
|---|---|---|---|
| `provider_queue` | 1 urgent and 2 background calls, 1 slot, capacities 1 and 2, 2 stops | 166 438 | all hold |
| `provider_queue_stop` | the same, 1 stop | - | `StopCancelsPending` is violated |
| `leader` | 2 workers, 1 late expiry, 2 faults, 1 crash or shutdown, 1 restart request, any triggers | 107 168 | all hold |
| `leader_wedge` | 2 workers, 1 restart request, nothing fails | - | `RoleIsPickedUp` is violated |
| `leader_paused` | 2 workers, nothing fails | - | `LostLeaderStops` is violated |
| `collection` | 2 runs on 2 workers, 2 symbols (one with history), batches of 1, 1 mishap | 642 194 | all hold |
| `collection_checkpoint` | the same, no mishap | - | `DroppedOnSuccess` is violated |
| `market_data` | by part: 1 orchestrator of either kind, 3 symbols, shards of 2, 3 calls, 2 collectors, 2 mishaps; 3 pages over 3 symbols, 2 connections, 2 ticks, 1 failure of Redis; 3 requests on 2 processes, 2 faults, 1 expiry; 2 readers and 2 builders of each kind of list, 3 changes, 1 failure | 1 531 922 | all hold |
| `upstream_overfill` | yfinance, shards of 8 where a connection takes 10, requests of 5, 2 and 5 symbols | - | `WithinConnection` is violated |
| `jobs` | 2 tasks of 4 kinds on 2 workers, 4 units, breaker at 2, 1 mishap; or 4 collections of 25 items with a streak of 10 | 2 438 708 | all hold |
| `requests` | by part: 2 keys, limit 2, 1 change of the row; every operation and market with 5 or 6 providers; 3 jobs on 2 threads, 2 replaced pools; 2 tabs with 3 calls and 2 tokens; batches of up to 3 records in chunks of 2, 2 tries; a target with 2 IPv6 addresses and 1 of IPv4, 2 chunks each way | 717 297 | all hold |
| `routes` | 1 process, 1 key, 1 change of the row | - | `RoutesFollowKeys` is violated |

**provider_queue.** `InFlightBound` and `NoSlotLost` bound the slots from both sides:
the only drift is one extra slot per `stop()`, from a handler that releases a slot it
may not own. `StrandedBound`: at most one caller per `stop()` is left without anything
that would resolve its future. `HpCounts`: the counter that jobs yield to never misses an
urgent call. `BoundedOvertaking`: priority inversion is at most one call deep.
`BurstBound`: no sequence of rate changes releases more than the largest capacity
between two tokens. `Resolved`: without a `stop()` every caller gets an answer.

**leader.** `OneScheduler`: crashes, shutdowns, failed builds, lost answers never give two
schedulers that run their heartbeats; an expired lease (the heartbeat is fail-open) or a
restart request does, and then `StepsDown` says the loser goes. One whose heartbeat was
paused is outside both: it stays, as `leader_paused` shows. `SchedulerKnown`: schedulers and roles agree,
except through a restart request. `OthersKeepOut`: the lease of a live leader that renews it is never deleted by others.
`Reelected`: somebody leads again and again, unless the worker is wedged as below.

**collection.** `Exclusive`; `NoGap`: an upsert that stopped in the middle never leaves
recent bars without older ones, which the next run would not fetch; `CompletedCoversAll`: a
run recorded as completed left no symbol unrequested, through any chain of interrupted
runs; `AuditClosed`: a run that got beyond `create_run()` leaves its record closed, unless a
command failed or its `finally` was cut short. A run cancelled inside `create_run()`, between
the commit and the `refresh()` (`collection_run_service.py:38-39`), does leave a record at
running, until a start-up two hours later, and the property does not cover it;
`OthersKeepLock`; `LockFreed`. Exclusion, gaps and coverage are conditioned on no live
run having lost its lock. Of the three ways that happens, expiry and `force_unlock()`
exist in every deployment, a start-up beside a live run only with several processes.

**market_data.** `SymbolsArePlaced`: however calls, drops, stops and key changes interleave,
every symbol an orchestrator counts as subscribed is with exactly one shard, or every key of
finnhub is full; a key never has more than its cap. What a shard of yfinance may come to
is `upstream_overfill`. `InSync`: what was asked for while a connection was stale or
down reaches the server once it is up. `SessionsAreForgotten`: a subscription that is
handled around the clean-up of its session leaves nothing behind when the endpoint ends.
`PageIsFollowed`: through reconnects and changes of page the server ends up sending the
page's symbols. `InOrder`: the whole of `QuoteStream` implements `TickFeed`, by
a refinement that maps its two variables to themselves. `TornOnlyByOverlap`: crashes and
failed writes never tear the file, only two fetches that write at a time, which takes a lock
that ran out or a fetch without one; `FetchedOnce`: under the lock the file is written at
most once to begin with and once for each time it expires, however many requests miss together (fetches without
bars, of layer 3, or of requests that waited in vain write no file and are not counted);
`InvalidationHolds`: after a build that no request overlapped, nobody is served an older
list; `StaleListsGo`: an older list stored late goes in the end.

**jobs.** `JobsAreExclusive`, although the registry forgets running tasks;
`JobsAreRecorded`: unless a command failed or it was cut short, a job leaves no record open
and a completed one counts what was stored; `OthersKeepProgress`: while no lock was lost,
nobody takes away the progress of a job at work; `BreakerHolds`: the count of failures passes its limit by less than
one batch; `GivesUp`: after the abort only attempts of requests that already had a permit
are sent.

**requests.** `KeyBudget`: a key's calls in any stretch as long as a window stay below two
windows' worth, through rotation, rests and reloads; two windows can meet, because one
starts at its first call. `EveryProviderHadItsChance`: a request
that ends with nothing, and every fan-out, heard of each provider that serves its
market, unless the call was cancelled with its pool. `HungPoolIsReplaced`.
`NeverRefusedItsOwn`: a tab is refused a refresh token only because another tab, a log-out
or a page that is gone spent it. `RetryConverges`: a try that writes its whole batch
leaves the rows one try on the first table would have left, whatever tries failed
before. It fails for an upsert that keeps what it finds, and is about rows that can
conflict: a row with NULL in its key (`transaction_type` of `insider_transactions`, `symbol`
of `cn_alternative_data`) conflicts with nothing, and every try adds it again. `StreamsAreWhole`: either stream comes
out of the proxy as it went in, without what follows the head being swallowed, and the
copy that ends a tunnel has delivered all of its stream. `RotatedFirst`: IPv4, which shows
the host's own address, only after every IPv6 address failed.

**Disagreements between code and documentation** (each is the violated run's counterexample):

1. `stop()` promises to cancel all pending futures (`core/provider_queue.py:216` and
   `tests/unit/test_provider_queue.py:107`); the item the processor holds at the
   semaphore or the bucket is dropped with its future pending.
2. `request_relinquish()` says the supervisor re-acquires on the next tick
   (`core/scheduler.py:380`); if it does so before the assignment at line 392, the worker
   renews the lease without taking itself for the leader, and no job runs on
   any worker until the lease lapses or the process restarts.
3. `trigger_job()` says it runs the job immediately (`api/admin/scheduler.py:75-76`), but
   `modify(next_run_time=None)` pauses it. The page leaves the heartbeat out of its list, the
   endpoint does not: a leader whose heartbeat was triggered loses its lease after 90 seconds,
   another worker leads, and the first scheduler is never torn down, which
   `core/scheduler.py:49-51` promises.
4. `_checkpoint_clear()` says it runs after success (`services/collection_service.py:653`);
   the `finally` block also calls it after a failure or a cancellation.
5. `update_provider()` resets the router "so it picks up newly enabled/disabled providers"
   (`api/admin/providers.py:141`), but the keys are read later, when the signal arrives: a
   request in between builds the router from the old keys, and it stays. Other
   processes' routers are not reset at all.
6. "Yahoo WS limits each connection to ~100 symbol subscriptions", hence 80 per shard "for
   safety margin" (`ws/upstream/yfinance_orchestrator.py:3-5`); the least loaded shard is
   chosen from counts that do not change while the symbols of a request are dealt out, so a
   shard with room for one takes all of them: 79 and a session's 50 are 129.

One more needs no run. `build_and_save_stock_list()` says it writes "via TRUNCATE + INSERT in
a transaction" (`services/stock_list_persistence.py:43`), and `_save_to_db()` of the same file
"Never truncates". The code does what the second says: it upserts in chunks, each a
transaction of its own. `SaveStockList` is that, so after a failure in the middle readers see
the first chunks with new rows and the rest with old ones, a delisted symbol stays, and
`RetryConverges` shows that the next build that gets through ends with the same rows as one that
never failed.

**Bounds.** Two background calls and an urgent one are enough for a held item, a queued one
and a running one, with one slot; two stops for a stop after a restart. Two workers give every pairwise race of the
election, and each bound on mishaps admits one of its kind at every point, two for faults so that
a failed build can meet a failed release. Two runs and two symbols give a resumed run, an
overlapping pair and a rebuild that follows a collection; one mishap can be at any
step, cancellations are unbounded, and each worker may start before, between or during
runs of the other, again after a crash. For safety the
bounds of the passing runs do not matter in the end: the proofs below hold for all of
them. They do for the liveness properties, which only TLC checks.

The streaming parts need three symbols and shards of two so that a request overfills a shard, two
collectors so that one is replaced, and two connections of the browser so that the older
one is still being cleaned up. `upstream_overfill` has a tenth of the code's numbers (80, 100, 50). Four units in batches of two reach a breaker of two in
the middle of a batch; 25 items are two batches of the collections of 20 and three of
those of 10, with the code's own semaphores and streak of 10. Three requests give a holder, a waiter
and one without the lock. Two keys are enough to rotate past one that rests, and two
ticks per window for windows that meet at a border; the routing part takes every
operation in every market with every outcome of every provider, one request at a time, since
requests share nothing but keys. Three jobs fill two threads with one queued. Two tabs,
one with two calls, give the shared exchange, the late 401 and the other tab. Three
records in chunks of two give two chunks and repeated keys, and two tries a failure
in the middle and its repetition. Two IPv6 addresses let one
fail before the other, and two chunks leave one in a buffer when the other copy ends. In the runs of several parts only one part
moves in a behaviour, the others rest in one initial state, so that each part is checked
alone and their state spaces add up.
`CHECK_DEADLOCK FALSE` where a finite supply (calls, runs) ends.

**Fairness.** ProviderQueue: the event loop runs ready tasks, time passes, `wait_for`
bounds each dispatched call, and `start_queues()` starts the processor. Nothing forces
`submit`, cancellation, rate changes or stops. LeaderElection: supervisors,
heartbeats that are not paused, and suspended requests run, unrenewed keys expire; nothing
forces administrators, crashes or late heartbeats. CollectionRun: a started run goes on, since its awaits have timeouts, and
Redis expires keys; nobody has to start a run or a worker. SymbolLists: Redis lets a key expire and a request ends by its timeouts; nobody has to ask or build. Executors: idle threads take what waits,
the watchdog's loop goes on, its five seconds and every caller's time limit run out;
a function of a job need not return, the probe's does. All of it is weak fairness: each
such action stays enabled until it is taken or no longer matters.

## 4. What is proved

All by TLAPS, for every value of the constants that satisfies the named assumption of
the module (`QueueAssumption`, `WorkersAssumption`, `CollectionAssumption`,
`JobAssumption`, `StreakAssumption`, `StreamAssumption`, `UpstreamAssumption`,
`HistoryAssumption`, `ListAssumption`, `KeysAssumption`, `EnvAssumption`,
`TokensAssumption`, `UpsertAssumption`, `RotatorAssumption`), from the specification
without fairness. The assumptions are the types of the constants and what makes them
meaningful: a queue has a slot, a window a length, a key is not one of the marks for a
missing one.

| Module | Theorems |
|---|---|
| `ProviderQueueProofs` | `TypeCorrect`, `BurstBounded`, `NoSlotIsLost`, `InFlightBounded`, `HpIsCounted`, `StrandedBounded`, `OvertakingBounded` |
| `LeaderElectionProofs` | `TypeCorrect`, `SchedulersAreKnown`, `AtMostOneScheduler`, `LeasesAreKept` |
| `CollectionRunProofs` | `TypeCorrect`, `RunsAreExclusive`, `RecordsAreClosed`, `HistoryIsWhole`, `CompletedMeansAll`, `OwnersKeepLock` |
| `JobsProofs` | `JobsInvariant`, `JobsAreExclusiveHolds`, `JobsAreRecordedHolds`, `BreakerHoldsAlways`, `OthersKeepProgressHolds`; `StreakInvariant`, `GivesUpHolds` |
| `UpstreamProofs` | `UpInvariant`, `InSyncHolds`, `SymbolsArePlacedHolds` |
| `QuoteStreamProofs` | `SessionsInvariant`, `SessionsAreForgottenHolds`, `OrderInvariant`, `InOrderHolds` (the refinement of `TickFeed`), `PageIsFollowedHolds` |
| `CachesProofs` | `HistoryInvariant`, `TornOnlyByOverlapHolds`, `FetchedOnceHolds`; `InvalidationHoldsAlways` |
| `RequestsProofs` | `TokensInvariant`, `NeverRefusedItsOwnHolds`; `RoutedAlways`, `RotatedFirstHolds`, `StreamsAreWholeHolds`; `OwedAlways`, `EveryProviderHadItsChanceHolds`; `KeyBudgetAlone`, `KeyBudgetHolds`; `RetryConvergesHolds` |

Together they cover every safety property, invariant or action property, of every
passing run, and the types of `ProviderQueue` and `LeaderElection`, which no run
checks. The invariants that make them inductive:

- **ProviderQueue.** The number of slots that are free, granted, held or used stays between
  `MaxConcurrent` and `MaxConcurrent + stops`; `held` is a call exactly at `sem` and
  `bucket`, and is neither queued nor running. The exact counts need the sets of
  waiting, held and running calls to be disjoint, hence that a call is submitted once. Overtaking
  needs that the held item is at least as urgent as every queued call that was overtaken.
- **LeaderElection.** Without expiries and restarts, a scheduler that runs its heartbeat or a
  supervisor about to build one implies owning the key (`OwnerInv`), and there is one key; this rests on a
  scheduler existing only while the supervisor waits as leader (`KnownInv`). For the
  lease, a supervisor about to send a release leads with no scheduler (`ReleasingInv`).
- **CollectionRun.** `HeldInv`: without breaches, a live run owns the lock, which gives
  exclusion, and with it every other invariant can reason about one run alone.
  `AuditInv`: a run has no record before `create_run()`, and beyond it, while nothing
  failed, knows the record and closes it. `DataInv`: the
  dates a run read still describe the bars, so an upsert extends a history and does not
  jump over it, and the checkpoint plus what is still to do covers all symbols while
  the checkpoint contains only symbols that were requested or are stored up to today.
- **JobRunner.** Of every task on its own, `Sound` (what it has counted fits the units it has
  done and the await it is at, and failures in a row and calls in flight stay below the
  limit and a batch) and `Honest` (its record is open only where it will be closed); `Held`
  relates the tasks: whoever works and has not lost its lock has its name in it.
- **ProfileStreak.** Two sums that never grow. `Streaking`: once the streak is at its limit,
  every 429 that adds to it ends an item, so the streak and the permits in use together
  stay where they were. `Spending`: after the abort no item starts, so what was sent since
  and what the items with a permit may still send stay below what they had left then.
- **QuoteStream.** `Registered`: the dictionaries have entries only for sessions whose endpoint
  runs, and none for one that was not accepted yet; `Limited`. For the order, one chain: what the
  page has seen is older than what is on the socket, that than the broadcast, that than the
  channel (`PageOrder`, `WireOrder`, `FanoutOrder`), and a broadcast aims only at
  connections that existed when it began.
  For the page, `Alive` (the session of an open connection is registered and no broadcast
  that began before it counts it as dead) and `OnItsWay`: once its effect ran, the
  subscription of the page is the last message to the server, so that whatever was
  subscribed before, and in whatever order, is handled before it.
- **Upstream.** `UpInv`. Each shard by itself is `Synced`: whatever a connection was sent is
  the shard's, all of it once it has said hello. A call brings the
  symbols of one request (`CallOk`), and what it gives a shard is new to the collector, so
  that shards stay disjoint and finnhub's keys within their cap (`Placed`). The chunks that rebuilt shards
  start with are places in the sorted order of the symbols: disjoint, within the cap, and all
  of the symbols unless each chunk is full.
- **HistoryCache.** `Quiet`: until two fetches write at a time there is one writer, the
  temporary file has what it has written so far, and the cache file is whole. `Locked`:
  until something fails, the lock is held by whoever works under it, and who missed under
  it still finds nothing fresh in the file.
- **SymbolLists.** `SlInv`: since a build that ended with no request under way, and until
  something is saved or fails, the cached list and every list a reader holds and is
  about to store are the source's.
- **ApiKeys.** `Paced`: of the calls with a key, those before the current window are no later
  than its start, and those a whole limit earlier no later than a window before it. That
  the process counts its own calls is enough, so the bound survives every reload. It is
  proved for `ApiKeys` alone and again for `StockRouter`, whose calls draw on it.
- **StockRouter.** `Owed`: a provider that is due has answered, is excused, is being asked or is
  still to be asked, until something is answered that ends a fallback.
- **UpsertTables.** `Kept` and `Told`, each of the table and of the open transaction: a row no
  record speaks of is as it was found, or new without a value, after any number of tries;
  and the records written so far have had their last word.
- **Rotator.** `Routed`: every source address is of the prefix, and of a target's addresses
  still to be tried none of IPv6 comes after one of IPv4.
  `Streams`: of each direction, what came out, what is in the buffer and what is unread
  are together what went in.
- **RefreshTokens.** `Numbered` (tokens are numbered as they are issued), `OneExchange` per
  tab, `AnswersAreNew` (an answer under way brings a token that is not stored, claimed or
  sent yet), `SpentIsGone` (a token a tab spent is no longer stored, or its exchange is not
  over) and `SentIsUnspent` (a tab does not send a token it spent). Tokens whose exchange went
  with its page are excepted.

Only model-checked are the liveness properties `Resolved`, `StepsDown`, `Reelected`,
`LockFreed`, `StaleListsGo` and `HungPoolIsReplaced`: they rest on fairness, whose
`ENABLED` is out of this prover's reach. The recursive and inductive facts the proofs need
(cardinalities, places in an order) come from the library's theorems about finite
sets or are avoided by indexing instead of folding.

## 5. Not modelled

- **Executors**: the process pool of yfinance. Its callers wait for a result or for their own
  time limit, and it restarts by hand or after a number of calls.
- **Provider adapters**: the mapping of fields, and the fallbacks between the endpoints of one
  source. They are sequential, and unit tests reach them.
- **Query services** (`ml_db_service.py`, `fundamentals_db_service.py`, `daily_bar_service.py`)
  and the other request handlers: one query each, no state.
- **Upstream**: unsubscription, which nothing calls, and the massive collector, which has one
  shard and one connection, as a shard of the finnhub orchestrator has.
- **History cache**: `append_bars()` and `clear()`, which nothing calls; its locks of one process
  and their eviction go with them.
- **WebSocket clients**: the key check at the upgrade, the channels of collection progress and
  collector status, collect commands.
- **Administrator task registry**: the queued flags, which only the page reads.
- **Tokens**: hashing, signing, consumers' keys, the management of users.
- **Infrastructure, schema, pages**: connection pools, settings, logging, tables, rendering.
- **IPv6 rotator**: `setup.sh`, and what TCP does with data written to a socket that is dropped with
  unread data. Reading the script showed that it waits for `ipv6-rotator --setup`, which
  goes on to listen, and that the proxy it tells to start draws a pool of its own; a
  prefix of length 128 with an even address gives an address outside of it.

Worth adding: a lock service that `LeaderElection` and `CollectionRun` implement while no
lease lapses; a bounded priority queue that `ProviderQueue` implements until it is
stopped; the process pool of yfinance.
