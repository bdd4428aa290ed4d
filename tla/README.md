# Verification of transaction-aggregator

TLA+ models of the bank-transaction aggregator in this repository, the TLC
instances that check them, and TLAPS proofs about them. Paths are relative to
the repository root (`src/` in `PROJECT.json`).

Run everything from this directory: `tlc -config Core.cfg MCSyncWorker.tla`
checks one instance, `tlapm SyncWorkerProofs.tla` one proof module.

## 1. The system

One owner links credit-card banks through Plaid. A FastAPI backend on SQLite
keeps a cache of the transactions; background tasks in the same process keep the
cache in step with the provider; a React frontend searches the cache and lets the
owner ask for a refresh of all banks.

| Component | State it keeps | Operations | Talks to |
|---|---|---|---|
| Sync requests (`sync_service.enqueue_sync`, `enqueue_stale_connections`) | `BankConnection.sync_requested_generation`, one active `SyncJob` per connection | enqueue or coalesce; the sweep | called by the API, the webhook, the scheduler, linking and refresh runs; wakes the worker |
| Sync worker (`sync_worker.py`) | the job's lease (owner, token, expiry), attempts, `run_after`; locals of `run_once` | claim, heartbeat, refresh phase, sync phase, record failure, recover expired, three loops | job queue, refresh service, sync service, gateway |
| Sync pass (`sync_service.SyncService`) | cached `Transaction` rows, `sync_cursor`, `sync_completed_generation`, `SyncRun` audit rows | collect pages, apply, record | gateway, worker's transaction |
| Refresh runs (`transaction_refresh_service.py`) | `TransactionRefresh` (the run), `TransactionRefreshTarget` per connection, idempotency keys | create or coalesce, reserve, prepare, record outcome, recover, complete, fail, derive, clean up | API, worker |
| Connection lifecycle (`connection_service.py`) | `BankConnection`, `CardAccount`, tombstones of removed Items | link token, exchange, update mode, cards, disconnect and purge | gateway, job queue |
| Provider gateway (`plaid_gateway.py`, `plaid_client.py`, `demo_gateway.py`) | none (the demo keeps a script) | the provider's calls; the class of an error | Plaid |
| Connection health (`connection_health.py`) | none | classifies a connection row | API, banks page |
| Search (`search_service.py`, `transaction_summary.py`) | none | keyset pages by card and over all cards, summaries | the cache; the dashboard |
| Limits (`limitation_service.py`) and saved aggregates (`aggregate_service.py`) | rules and aggregates with their cards | create, patch, delete; alerts and totals derived from the cache | API, dashboard |
| Authentication (`auth.py`, `middleware.py`) | sessions, login attempts | login, logout, throttling, CSRF | API |
| Key rotation (`key_rotation.py`, `crypto.py`) | key version of each ciphertext | re-encrypt | command line |
| Frontend refresh control (`useTransactionRefresh.ts`) | the run shown, idempotency key, polling clock, what has been noticed | start, poll, recover, notice the end | refresh runs; clears the dashboard's lists |
| Frontend caches (`DashboardPage.tsx`, `searchCache.ts`, `allTransactionsCache.ts`) | query results, pages after the first, snapshots in session storage | submit, change view, load more, hydrate, persist | search |

What is hard here:

* **Interleaving in the database.** API handlers, the worker, its heartbeat, the
  recovery loop and the sweep write the same rows. pysqlite begins a transaction
  at the first INSERT, UPDATE or DELETE, so whatever was SELECTed before it may be
  stale when it is used. Only a write whose WHERE clause carries the condition is
  atomic with it.
* **Requests that meet a job.** A request never adds a second job: it advances
  the connection's generation and the job's target. Whether it gets a pass is
  decided by the comparison at the end of the pass under way.
* **A side effect that must not be repeated.** `/transactions/refresh` is rate
  limited and billed; a crash or timeout around it leaves its outcome unknown.
* **Recovery.** Leases expire under crashed workers (and under stalled live
  ones); the recovery decides from the target row what had been attempted.
* **Calls whose answer is late, lost or repeated.** A POST with an idempotency key,
  polls, recoveries and continuations are under way while the page changes; nothing
  cancels some of them. Webhooks are lost and repeated.
* **A provider that does not roll back.** Linking and disconnecting call it in the
  middle of a transaction that may fail afterwards.
* **The same thing computed twice.** An alert is found with one query for all rules
  and remembered rules; a total has four queries and a sum in the browser.
* **A parent derived from its children.** A run's state is computed from its
  targets, each ended by another transaction.

Correctness, by component: the queue loses no request and completes none it did
not cover; one worker at a time owns a connection; at most one refresh is sent per
target and per window; a run's state is that of its targets, and final is final;
every run ends and every request is served; the cache equals what the provider
delivered; slots stay counted and tokens readable; what is wrong with a bank is
shown, and ceases to be; a repeated press checks the banks once and its end is
noticed once; lists show each row once, in order, and of their own query; alerts
are what each rule alone calls for. `PROJECT.json` lists each hazard at its line
with the properties that would catch it.

## 2. Modules

| Module | What it is | Code |
|---|---|---|
| `RefreshTargets` | rows of a run and its targets; each write as an operator from row to row; `DerivedRun` | `transaction_refresh_service.py`, part of `models.py`, error classes of `plaid_gateway.py` |
| `SyncJobs` | rows of the job queue and the writes on them | `enqueue_sync`, `_claim_next_job`, `_record_failure`, `recover_expired`, end of `run_once` |
| `SyncWorker` | the state machine: requests, workers, refresh phase, sync phase, leases, recovery, crashes, time | `sync_worker.py`, `sync_service.py`, `transaction_refresh_service.py`, link and disconnect of `connection_service.py` |
| `SyncContract` | what the queue promises a connection, without jobs, leases or workers | abstract |
| `SyncProperties` | invariants, action properties, liveness, the inductive invariants, the refinement mapping | |
| `MCSyncWorker` | instances for TLC | |
| `SyncWorkerProofs` | the inductive invariant of the queue and its consequences | |
| `RefreshTargetProofs` | the inductive invariants of targets and runs (`RowInv`, `HandInv`, `OwedInv`) and their consequences | |
| `SyncContractProofs` | the queue implements `SyncContract` | |
| `CacheSync` | one connection's rows: the bank's data, the page loop, the apply transaction, the cache and its cursor, with its properties | `SyncService` in `sync_service.py`, link and purge of `connection_service.py` |
| `MCCacheSync` | instances for TLC | |
| `CacheSyncProofs` | the cache is a past state of the bank's data; the counts of a pass are exact | |
| `RefreshControl` | the refresh button: the hook of one page, the registry of runs and keys, the calls between them, other tabs | `useTransactionRefresh.ts`, `create_or_coalesce`, `get_owned`, `active_for_owner`, `cleanup_expired` |
| `ConnectionLifecycle` | the owner's banks: Link, exchange, disconnect, webhooks, the sweep, what passes write about health, key rotation | `connection_service.py`, `webhooks.py`, `enqueue_stale_connections`, `connection_health.py`, `key_rotation.py` |
| `TransactionPages` | keyset pages, the dashboard's two lists and their snapshots | `search_service.py`, `DashboardPage.tsx`, `searchCache.ts`, `allTransactionsCache.ts` |
| `Definitions` | limits, alerts, saved aggregates, totals, text normalization | `limitation_service.py`, `aggregate_service.py`, `transaction_summary.py`, parts of `search_service.py` |
| `MC...`, `...Proofs` | the instances and the proofs of each | |

### State and actions of `SyncWorker`

`conn`, `job`, `target`, `run` are tables; `worker[w]` holds the local variables
of `run_once` in process `w` with `pc` naming the step that comes next;
`recovery` holds what `recover_expired` has read and not yet written. `calls` and
`window` are history, read by no action: provider calls per target, and since
`last_refresh_at` was last old enough.

One action is one transaction, or the part of one before its first write:

* `reserve_target_for_job`, `prepare_reserved_target` and
  `record_dispatch_outcome` SELECT under the fence and then write by primary key;
  each is a `...Read` and a `...Write` action with anything in between. Two
  SELECTs of the same read phase are taken together.
* The apply transaction begins with the fencing UPDATE, so it, the reads after it
  and the target, run and job it writes are one action, `SyncApply`. The claim,
  `_finish_without_sync` and `_record_failure` are one each for the same reason.
* `derive_run` is always preceded by a flush of the target it follows, so it reads
  the rows its transaction has just written.
* `recover_expired` reads expired jobs and their targets (`RecoverRead`), then
  writes the targets and requeues *whichever jobs are expired by then*
  (`RecoverWrite`): the code reads the clock again.
* The unique partial indexes on runs and targets are `UniqueRows`. A write that
  breaks one rolls back: `WriteConflict` for the worker, a failed request for
  `CreateRun`, no change for the recovery.

Time is abstract. A lease has `LeaseTicks` ticks; the last one passes only when no
live worker holds the job, because the heartbeat renews at a third of the lease,
unless `"lease_stall"` is in `Faults` (the heartbeat ends at its first database
error; it also waits while a synchronous call blocks the event loop). `due` is
`run_after <= now`. `cooling` is the fifteen-minute window since
`last_refresh_at`; it does not end between the commit that dispatches and the call.

Abstracted: the rows a pass brings (whether it changed anything decides `updated`
or `no_changes` and whether the cursor moves); the order in which due jobs are
claimed; attempts above the retry limit; the retry class `unsupported` of a sync,
which the worker treats as permanent; the branch for a credential that cannot be
decrypted, which an active connection does not reach; rows of finished jobs, which
no operation of the queue reads. Provider codes stand for their class: a code both
lists of owner-action codes have (`ITEM_LOGIN_REQUIRED`), one only the gateway's
has (`INVALID_CREDENTIALS`), any other failure (`RATE_LIMIT`).

### `CacheSync` beside `SyncWorker`

`SyncWorker` has the lease, the generations and the fence of a pass and only says
that a pass may bring changes; `CacheSync` has the rows and only says who holds
the lease. They meet in `Appliable`, which has the same three conditions in both.

The bank is external and modelled as the code relies on it: `feed[n]` is its data
after `n` changes and a cursor is such an `n`. An attempt from cursor `n` is given,
in pages of any size, each row that differs between `n` and the newest position
(added, modified or removed by comparison), perhaps with rows that do not differ
(a redelivered row, a removal of what is not there). When the data changes the
next page of the attempt is refused and the loop restarts from its first cursor.
A page with more to come brings at least one row. The pages of an attempt are kept
merged, the later row replacing the earlier as applying them in order does; the
contents of a row are a version number. An attempt counts its requests, restarts
included, up to `MAX_PAGES_PER_ATTEMPT`.

Cards are written once, at the link: `SelectAccount`, the owner's choice in update
mode, changes what the bank delivers and calls nothing here.

### `RefreshControl`

`run` and `request` are the two tables of the registry, where a run is only active or
final: `SyncWorker` says how it gets there, `RunEnds` that it does. `page` has the
hook's state and refs: the run shown, the age of `pollingStartedAtRef` and of the
`startedAt` an effect captured, `foregroundTimedOut`, the polling effect (off, its
timer, its fetch), the runs noticed (and, as history, `stranded`: a recovery's fetch
was lost with no timer set, and no effect has run since). `Repolled` is the polling
effect cleaned up and run again, `Noticed` the terminal effect; `Rendered` is `setRun` with both.

A POST, the fetch that recovers and the active-run query take two steps, the answer
being read before it arrives; each may be lost on the way there or back (`Losses`).
A poll takes one: an answer that comes after any other change of its run is
cancelled by the effect's cleanup. Rows expire by days, the page's clock runs in
ticks; a call does not take a day. `Remount` keeps the query cache and loses
everything else, the key included.

### `ConnectionLifecycle`

One row per Item of the provider. A request of the owner is one action, since
resolving its session writes `last_seen_at` and holds SQLite's write lock from then
on; the provider call inside it is not rolled back with it, and each action has the
outcomes where only one of the two happened. The sweep and the rotation read before
they write and have two actions. `pass[i]` is what the provider answered to a pass
that has not been applied yet, so a webhook, a disconnect or the owner's sign-in
comes in between. Error codes are named for the sets the classifier tests
(`RECONNECT_CODES` "login", `CONSENT_CODES` "consent", `DEGRADED_CODES` "degraded").
`Health` is `classify_connection_health` without `consent_expiration_at`. The Trial
limit is enforced only in the production environment; the model is that
environment. The rotation runs in a process of its own and knows nothing of the
application; its write stands for the new settings too, which the application has
from its next start on (`appKey` the running key, `envKey` the configured one).
History: `lost`, the Items whose exchange failed after they were created; `late`, those
whose token the application stored or cleared between a rotation's read and the
restart with the new key.

### `TransactionPages`

The service answers from one state of the cache (`Page`, `CardAfter`, `AllAfter`: the
keyset after a cursor). `search` and `all` are the browser's query cache, `previous`
the placeholder of `keepPreviousData`, `flights` first pages under way, `cardLoads`
and `tableLoads` continuations under way, `pageState` and `aggregatePage` the pages
loaded after the first, `store` session storage. The query library is external and
modelled as the page relies on it: one fetch of a query at a time, dropped when it
is invalidated over existing data; a mutation that its observer still follows gets
the callbacks of each render, one that a later mutation replaced keeps its last.
`Rendered` is the render and its persisting effects after every change. `reading` is
history, read by no guard: the state of the cache a page was read from, and for
pages loaded one after the other the state they were all read from, or `None` once
one of them does not continue the one before in the same state.

### `Definitions`

A request is one action; a refused one changes nothing and is not an action. Text is
a short sequence of characters, with case folding and Unicode normalization one
character to one. The trigram index contains a phrase exactly when the text does,
but only from three characters on. `wanted` is history: what the owner has asked for
field by field, against which the alerts of the merged rows are checked.

## 3. Checks

`Core` to `UnlistedAnswer` are instances of `MCSyncWorker`, whose bounds are: `MaxGen`
requests per connection, `MaxMishaps` crashes and stalled leases, `Retries` transient
retries (three in the code), `LeaseTicks`, the number of connections, runs, workers and tokens. Tokens
are reused once no row or frame has them: a uuid is fresh against what exists.

| Run | Instance | Shows |
|---|---|---|
| `Core` | 1 bank, 2 runs, 1 worker, 4 requests, 1 crash, local errors at any step, every answer, every sync error | the inductive invariant of targets and runs; at most one dispatch per window and per target; a job that ends without a pass left its target final, or left to a pass by an answer the service does not list; final targets and runs never change |
| `Stalled` | 1 bank, 2 runs, 2 workers, 2-tick leases, one stall or crash, expiry during recovery | the inductive invariant; generations agree; exclusive ownership; refinement of `SyncContract` |
| `Progress` | 1 bank, 2 runs, 1 worker, 3 requests, 1 crash, answers that need no owner, every sync error; fairness | interrupted refreshes are always found by recovery; every active target and owed generation has a job; runs finish; requests are served |
| `Fleet` | 2 banks, 1 run, permanent errors, 1 crash | a run over several banks is active exactly while one of its targets is, and then says how it went |
| `UnlistedAnswer` | 1 bank, 1 run, 1 worker, every answer and error, no crash | finding, below |
| `Cache` | 2 rows (one of a card, one not), 2 versions, 3 changes, 2 workers, 3 requests per attempt, one provider error, crash or lost lease; fairness | the cache of an active connection is what the bank had at its cursor, a removed one keeps nothing, the counts are those of what changed, the cursor never goes back, and the cache catches up again and again; the inductive invariant of its proofs |
| `Refresh` | 2 runs, 2 keys, 1 day of retention, 1 tick of foreground, 1 uncancelled fetch, any call lost once or 1 remount; fairness | a key names one run, a lost answer never starts a second check, each end is noticed once, and a shown run is seen to end or said to continue in the background, unless what was lost is the only fetch of a recovery while no timer was set |
| `LostRecovery` | 1 run, 1 key, one recovery's fetch lost; fairness | finding, below |
| `Lifecycle` | 3 Items (one of a wrong bank), 2 slots, 2 Link sessions, 2 key versions, 1 event at a bank or rotation, 1 mishap; fairness | slots counted, one connection per bank; the restarted application reads every token but those stored or purged between the rotation's read and its write; trouble comes to be shown and ceases to be |
| `Paging` | 2 cards with ties and an undated row, 2 queries, 1 row per card page, 2 per table page, 2 new lists, 1 continuation, 1 change of the cache | no continuation crosses a new list; the table shows no row twice; both lists show the rows due in order, none left out, when their pages continue each other in one reading |
| `Defined` | 2 rules, 1 aggregate, 3 cards of 2 banks, 6 rows, 3 requests, 1 change of the cache, 2 days | accepted requests leave valid rows, alerts are exact, totals agree, selections are of cards there are |
| `LatePage` | the instance of `Paging` with a second continuation while one is under way | finding, below |

Why these bounds are enough: a lost request needs a pass, a request during it and
one after it (3 generations); redelivery after a window needs a second run (2
runs); a stale write needs two owners, one of them past its lease (2 workers, 1
stall); a failure that exhausts its retries needs one retry (the counter is only
compared with the limit); a parent that is derived early needs two children. The
supported deployment has one worker (`docs/features/refresh-transactions/PRD.md`,
RT-QUEUE-007), so the properties of targets and runs are checked with one; what the
fence alone must give is checked with two.

In `Cache`, a page that must be thrown away needs a row delivered, changed back and another row still to come (3
changes, 2 rows); a late apply needs two attempts (2 workers, 1 lost lease); a
modified row needs 2 versions; the page limit needs a restart that uses it up (3
requests).

In `Refresh`, a second run needs a second key, a run that expires before its key's
answer needs one day, a late answer one uncancelled fetch. In `Lifecycle`, the limit
is passed only if two sessions are open below it (2 slots, 3 Items); a wrong bank
needs an Item of another. A rotation that misses a token needs one it reads and
another bank linked before it writes, here after the first is disconnected; key
versions are only compared with each other and with the configured one. A rotation
changes nothing of a bank but the version of its key, so it and an event at a bank
count towards one bound.

In `Paging`, a skipped or repeated row needs two rows of one day across a page boundary, an undated one and a continuation of a
continuation. In `Defined`, a wrong memo needs two rows that differ in one field
(currency), the shared phrase two words with a common prefix of three characters and
one without, and a patch that leaves something behind a rule made, patched and
patched again (3 requests).

Deadlock is not checked: an instance stops when its bounds are used up and its
work is done.

**Symmetry** is used in the safety runs of `MCSyncWorker` (banks, runs, workers
and tokens are interchangeable; no property distinguishes them) and not in the liveness runs.

**Fairness** (`Progress`): weak fairness of each worker's next step, of the
recovery's two steps, of a lease running down and of a backoff elapsing. The code
justifies it: `run_forever`, `run_lease_recovery` and the heartbeat loop until
shutdown and swallow exceptions; a provider call has a timeout; the rest is the
clock. Nothing is assumed of requests, crashes or `last_refresh_at` ageing. Each
worker's step is one fair action: a worker is always at one place, so no choice
between steps is being made fair. In `Cache` some worker begins an attempt
whenever the lease is free: the scheduler queues a stale connection every hour
whatever became of its last job. In `Refresh`: timers fire, calls return or
fail, the page's clock runs, and each run ends (`RunsFinish` of `SyncWorker`);
nothing is assumed of the owner, the network or the days. In `Lifecycle`: the
application is started again, the sweep and each pass go on, an hour passes, a
rotation that was begun ends, and the operator restarts the application once the
configured key is not the running one's, as `docs/operations.md` asks; nothing is
assumed of the owner, the banks or the delivery of webhooks, so what is shown comes to be right through the sweep alone.

### What holds only under conditions

The models reach the following states, but for the page limit; where a run reports
one, it is named.

* **Owner-action answers.** `ActiveTargetHasJob` and `OwedWorkHasJob` fail with them:
  `_finish_without_sync` ends the job, with a target in "syncing" if the code is not one
  of those `record_dispatch_outcome` lists (`UnlistedAnswer`), and without asking whether
  a newer request was coalesced into it meanwhile. `_record_failure` does not ask
  either: a request that arrives during a pass that fails for good gets none
  (RT-QUEUE-002 asks for another pass). `Core` has all answers; `Progress`, whose
  properties are about jobs that remain, has none of these, and `OwedWorkHasJob` leaves
  a job that failed for good out.
* **Stalled leases.** Target rows are written by primary key after a fenced SELECT; a
  lease lost in between is not noticed (RT-QUEUE-004). `NeverRedispatched`,
  `RunReflectsTargets`, `FinalStays` and `RefreshingIsLeased` then fail, with two
  workers `OneDispatchPerWindow` too.
* **A local error after the dispatch** leaves the attempt "dispatching" in a requeued
  job (RT-PROV-004), and so does a lease that expires between the two clock
  readings of `recover_expired`; `RefreshingIsLeased` fails.
* **A disconnect during the preparation** (between its read and its write) is not
  noticed and the provider is called (RT-QUEUE-006).
* **A card selected after the link** never becomes a card; its rows are dropped and
  the cursor moves past them (FR-SYNC-002, FR-CONN-012 of `docs/PRD.md`).
* **Refresh control.** `ShownRunSettles` lets a page be stranded by the loss of a
  recovery's only fetch (`LostRecovery`). An answer about an
  older run may replace a newer one (RT-UX-002); the older run's end is then shown.
  A key that has expired but is not cleaned up yet is refused with a conflict until
  it is. `cleanup_expired` deletes a run with every key mapped to it, so one coalesced
  onto an older run goes with that run, before its own seven days are over
  (RT-SCALE-003).
* **Key rotation.** The rotation reads the rows before its first write, and neither it
  nor `docs/operations.md` (lines 215 to 234, which restart the application afterwards)
  asks for the application to be stopped before. A bank linked between the read and the
  write keeps the old key, though the command's docstring says "Re-encrypt every stored
  token" (`key_rotation.py`, line 29); so does one linked before the restart. After it
  such a token cannot be read: the bank is neither synchronized, repaired nor
  disconnected, and the next rotation fails on it. A bank disconnected in between gets
  its token back. `Lifecycle` reaches all of this; `late` is the history of these Items,
  which `TokensUsable`, `BrokenLinkShown` and `RepairShown` except. Until the restart
  the application reads no token that was rewritten.
* **An exchange that fails after the provider created the Item** leaves a slot no row
  counts (`lost`; FR-CONN-011).
* **The notice of an expiring consent** is cleared by the next successful pass, which
  the same webhook requests (`docs/PRD.md`, line 293).
* **The page limit.** `CatchesUp` is about changes that fit into the requests of an
  attempt. A backlog that does not is thrown away at every attempt and never
  synchronized; no bound of `Cache` has one.
* **Paging.** `NoLatePage` holds while one card is loaded at a time (`LatePage`). A
  dated cursor of a card leaves out its rows without a date, which the table's does
  not. While a placeholder is shown, "Load more" continues from the old query's
  cursor, and the old query's result is stored as the new query's snapshot
  (`DashboardPage.tsx`, line 167; RT-CACHE-003). A first page fetched again under loaded continuations, or a pass between
  two pages, may leave a gap: that a list is the first rows due, in order, is promised
  for pages that continue each other in one reading, and only that the table shows no
  row twice for any others. Storing a hydrated snapshot renews its age.
* **Definitions.** A patch to all cards without a list of cards is refused for a limit
  that has a selection and clears that of an aggregate. A patch that does not mention
  scope or cards accepts a rule whose selection a disconnect has emptied.

## 4. Findings

Each is a run that TLC finds violated; `PROJECT.json` has the quoted requirement.

* **UnlistedAnswer**: `record_dispatch_outcome` finishes the target for five of the
  gateway's ten owner-action codes. With another one the worker ends the job without a
  pass and the target stays "syncing", its run active.
* **LostRecovery**: the page becomes online past the foreground limit and the one fetch
  of the recovery fails. No timer is left and `timedOut` was set back, so the run is
  shown as active, not as continuing in the background, until the page is focused,
  hidden or offline again.
* **LatePage**: "Load more" on a second card leaves the first card's request with the
  page's old callbacks; its late answer is appended to another list.

## 5. Proofs

Each theorem holds for any values of the constants that satisfy the assumptions of
its module: any sets of connections, runs, workers, rows or keys, any bounds, and
every fault that its hypothesis does not exclude. What it states follows from `Spec`.

| Theorem | States | Hypothesis |
|---|---|---|
| *The queue* (`SyncWorkerProofs`, `SyncContractProofs`) | | |
| `Invariant` | `[]IndInv` | |
| `TypeCorrect` | `[]TypeOK` | |
| `GenerationsCorrect` | `[]GenerationsAgree` | |
| `ClaimsExclusive` | `[]ExclusiveClaim` | |
| `QueueKeepsContract` | `KeepsContract` (refinement of `SyncContract`) | |
| *Targets and runs* (`RefreshTargetProofs`) | | |
| `RowsInvariant` | `[]RowInv` | `LeasesKept` |
| `SentOnce` | `[]NeverRedispatched` | `LeasesKept` |
| `SentOncePerWindow` | `[]OneDispatchPerWindow` | `LeasesKept` |
| `RunsFollowTargets` | `[]RunReflectsTargets` | `LeasesKept` |
| `RunsTellTheTruth` | `[]RunOutcomeHonest` | `LeasesKept` |
| `FinalRowsStay` | `FinalStays` | `LeasesKept` |
| `NoSyncLeavesDecided` | `[]NoSyncMeansDecided` | `LeasesKept` |
| `HandsInvariant` | `[]HandInv` | `Faults = {}` |
| `TargetsLeased` | `[]RefreshingIsLeased` | `Faults = {}` |
| `IndexesHold` | no `WriteConflict` step | `Faults = {}` |
| `OwedInvariant` | `[]OwedInv` | `Faults = {}`, no owner-action answer |
| `TargetsHaveJobs` | `[]ActiveTargetHasJob` | `Faults = {}`, no owner-action answer |
| `WorkHasJobs` | `[]OwedWorkHasJob` | `Faults = {}`, no owner-action answer |
| *The cache* (`CacheSyncProofs`) | | |
| `CacheInvariant` | `[]CacheInv` | |
| `CacheIsAPastState` | `[](CacheMatchesCursor /\ NothingAfterRemoval)` | |
| `CursorAdvances` | `CursorNeverBack` | |
| `CountsTellTheTruth` | `[]CountsAddUp` | |
| *The refresh control* (`RefreshControlProofs`) | | |
| `TypeCorrect` | `[]TypeOK` | |
| `KeysNameOneRun` | `[]KeyNamesOneRun` | |
| `LostAnswerKeepsKey` | `[]UnansweredKeyHeld` | |
| `EndsNoticedOnce` | `[]EndNoticedOnce` | |
| *The lifecycle* (`ConnectionLifecycleProofs`) | | |
| `TypeCorrect` | `[]TypeOK` | |
| `SlotsAlwaysCounted` | `[]SlotsCounted` | |
| `BankConnectedOnce` | `[]OneConnectionPerBank` | |
| `TokensStayUsable` | `[]TokensUsable` | |
| *The dashboard's lists* (`TransactionPagesProofs`) | | |
| `PagesHaveTheirTypes` | `[]TypeOK` | |
| `TableStaysInOrder` | `[]TableInOrder` | |
| `CardsStayInOrder` | `[]CardsInOrder` | `~Overlap` |
| `NoPageCrossesLists` | `[]NoLatePage` | `~Overlap` |
| *The definitions* (`DefinitionsProofs`) | | |
| `DefinitionsHaveTheirTypes` | `[]TypeOK` | |
| `AlertsStayExact` | `[]AlertsExact` | |
| `TotalsStayAgreed` | `[]TotalsAgree` | |
| `ScopesStayKept` | `[]ScopeKept` | |

Every safety property that a passing run checks is the statement of one of them.

The hypotheses are those under which the code keeps what the theorem says; section 3
has what happens outside them. `LeasesKept`: no lease expires under a worker that
still runs its job. Crashes, local errors at any step and a lease that expires
between the two clock readings of the recovery remain, and so does any number of
workers. `Faults = {}` leaves crashes, restarts and every error of the provider.
`Core` satisfies the first, `Fleet` and `Progress` all three. `~Overlap`: a second
"Load more" is not pressed while one is under way.

Assumptions are those named in the modules: `NoToken` is no token, `None` is no
connection, run, row or card; limits are natural numbers; the configured faults,
answers and errors are among those the model has; the rows of a cache, the Items and
the cards are finitely many; folding a character's case twice is folding it once and
makes no spaces (`TextAssumption`); the requests of `Definitions` have the types of
the request models. TLC evaluates them in every run.

`GenerationsAgree` is not inductive alone. A worker that holds its job must cover
a generation not yet done; that survives another worker's completion only if two
workers cannot hold the same job, which needs tokens to differ between frames
(`TokensDiffer`) and a claim to draw a fresh one; frames must fit their step
(`FramesFit`: a step that writes a target has a run, one that records an answer has
an answer); and linking must find no request made before (`AbsentIsBlank`).
`IndInv` is their conjunction with `TypeOK`, and is itself an invariant of
`Stalled`. The step is proved by kind of action: those that ask (link, request,
run), disconnect, claim, the two that can complete or end a job, and those that
leave generations alone; one lemma carries the generations through each kind.
The refinement maps the pass of a connection to the generation of the worker that
holds its job; `ClaimsExclusive` makes that well defined.

For targets and runs there are three invariants, each on top of the one before.
`RowInv` relates the step a worker is at to the row it works on. `LeaseHeld`: a
worker past its claim holds its job. `RowInHand`: from its first read to its last
write the target is as the step expects it, which is what writing by primary key
relies on. `DispatchDue`: the preparation found the window over, and it still is.
`RowSound` counts the calls a row's state allows, `WindowSound` those since the
window was last open, `RunSound` has the run as `derive_run` would have it, and
`RecoveryMatches` says that what the recovery has read is still so when it writes.
Without `LeasesKept` none of it is inductive: the recovery requeues a reservation
that a worker still prepares, and both dispatch it.

`HandInv` adds what a crash must not lose: a target in "refreshing" belongs to a
running job and is either in the hands of that job's worker (`NoneLeftBehind`) or,
once the recovery has begun, among what it has read (`RecoveryComplete`); and the
unique indexes hold, so no write is rolled back. A local error after the dispatch and
a lease that expires during recovery each leave a target that neither has, hence
`Faults = {}`. `OwedInv` adds that a job ends without a pass only for a connection that
is gone and whose targets have ended (`EndsUnlinked`); an answer that needs the owner
ends it otherwise (section 3).

For the cache, `CacheMatchesCursor` needs `AttemptsFit`: what an attempt was sent is
the bank's data at the position its pages lead to, what it was not sent is the same
at both ends once its last page has come, and both ends are positions the bank has
passed, whose data no longer changes. `AppliedMatches` is the heart of the proof:
rows that were sent take the cache to the new position and the others were there
already. The same invariant gives that the cursor never goes back. For the counts, `SentFits`
says what the pages of an attempt may hold: a row sent because it differs does
differ between the two positions, and is "modified" exactly when it is there at both.

For the registry and the page, the invariants say what the rows must be to make the
properties inductive. `KeysMapped`: a key that was answered with a run that still
exists is mapped to it, and no two runs are active. `KeyHeld`: the key in
`idempotencyKeyRef` is this page's, and a request that was refused left no mapping
behind, so giving its key up forgets nothing. `EndsHandled`: a shown final run is in
the noticed set and was reset once, whatever answer shows it.

For the lifecycle, `ItemsCounted` says that every Item created is counted or `lost`
and that the count respects the limit, since only an exchange creates either and it
checks the count in the same transaction; `KeysAgree` that active connections, and
only they, have a token, of the version the configuration names, apart from the `late`
ones: a rotation's write leaves exactly those out which it has not read, and exactly
those it has read and which are gone come back, so both join `late` in the same step,
and so does what an application with the old key links before its restart.

For the lists, `LoadsFollowed` says that without overlap every continuation of a card
is followed by its observer, and that one of the table that is not was asked for
before the list its callbacks saw. The order rests on `TableInv` and `CardsInv`: a
page, wherever it is kept (query cache, placeholder, flight, snapshot), is the first
rows of what its reading has after its cursor; a continuation under way that may
still be appended continues what is shown now, and there is at most one, so that a
stale one is of an earlier generation of the list. Appending joins two such pieces:
the lemmas on `Sorted` show that the rows after a cursor follow those up to it without
a gap. A card's cursor has a dated and an undated part, and the order
is that of its dated rows.

For the definitions, `SelectionsKept` adds that cards are those of active banks, and
`WishesKept` that every limit is what the owner asked for field by field without the
cards that are gone, and that no bank once unlinked is active again. The lemmas on
text show that normalizing twice is normalizing once; that a text that contains a
phrase contains each prefix of it, so the one query for all limits, by the prefix
their phrases share, misses no row of any of them; that two rows with the same memo
key match the same limits; and that the index finds what the text contains. Totals
are sums over sets of rows: that the recursive functions behind them exist, are
unique and add up over disjoint sets is shown with the least-number principle on the
naturals and on cardinalities, written out as a first-order argument each time.

Only model-checked: liveness (`RunsFinish`, `RequestsServed`, `CatchesUp`,
`ShownRunSettles`, `BrokenLinkShown`, `RepairShown`), whose proofs need ENABLED and
fairness, which the provers do not handle.

## 6. Not modelled, and what is left

Not modelled: authentication and sessions (hashes, cookies, throttling by the
clock), cryptography, wire formats and request parsing, the demo provider's script,
rendering and form state, the search history, logging, migrations, generated code.
`PROJECT.json` lists each component with its status.

Left to prove: the theorems with a hypothesis are stated for the whole model at once.
What remains true of a target when some lease stalls (that its row and its run keep
agreeing after the next transaction of its run), and of one connection whose own
worker never stalls while another's does, is neither checked nor proved. The hazards
of `PROJECT.json` without a property have a note there that says why.
