# Verification of flexibilling

Flexibilling is a usage-billing library for async Python backends. It prices
usage records with ordered rules, deducts the price from a customer's balances,
keeps a ledger of every movement, and mirrors the balances in a cache that
gates requests. This directory holds TLA+ models of it, TLC configurations that
check them on small instances, and theorems that TLAPS checks for all instances.
Every definition follows the code; `PROJECT.json` maps each one to its lines.
File names below are relative to `src/src/flexibilling/`.

## The system

| Component | State | Operations |
|---|---|---|
| rating engine, `engine/rating.py` | none | `calculate_cost`, `matches_filter` |
| waterfall engine, `engine/waterfall.py` | none; one flag in its loop | `evaluate` |
| billing service, `service.py` | none of its own; database and cache | `charge`, `refund`, `fund_customer`, `refresh_customer_balance_cache`, `process_record` |
| SQLAlchemy repository, `adapters/sqlalchemy/` | `customer_balances`, `balance_transactions`, `usage_records`, rules, products | locked balance updates, ledger inserts, queue fetch, status updates, lookups |
| worker, `worker.py` | `_running`; the batch | `run_once`, `run`, `stop` |
| caches, `cache.py`, `adapters/redis.py` | per customer: amounts with `can_transact`, monthly stats, feed | set, update, delete, read, increment |
| checks, `engine/gatekeeper.py`, `checks.py`, `decorators.py` (`requires`) | none | a sequence of cache reads, with a warm-up from the database |
| request wrappers, `decorators.py`, `context.py` | a context variable per task | `consumes`, `session`, `report` |
| in-memory repository, `adapters/memory.py` | dictionaries of balances and ledger rows, the list of usage records | as the SQLAlchemy repository, without transactions; `get_usage_records` with filter, order and paging |
| snapshot, `snapshot.py` | none | two reads of the cache |
| middleware, `integrations/fastapi.py` | the context variable | `dispatch` |
| metrics, ports, exceptions, response helpers | counters | glue |

**How they interact.** A host calls `charge` and `refund` directly or through
`consumes`; they run in a transaction of their own, or in the caller's. A payment
webhook calls `fund_customer` inside the host's transaction. `session` enqueues a
usage record as `pending`. Workers fetch records with `FOR UPDATE SKIP LOCKED`,
let `process_record` evaluate the waterfall, deduct, write the ledger row, refund
an earlier record if the rule says so, mark the record and update the cache, and
commit the whole batch in one transaction. Checks read the cache only.
Over the in-memory repository the same service and worker run in one event loop,
where nothing commits or rolls back and only cache calls and `sleep` suspend.

**What is hard.** Every `await` is a point where other tasks run: between the
check of a payment reference and its grants, between reading balances and
deducting, between a commit and the cache update, between the `HGETALL` and the
`HSET` of one update. Transactions lock several balance rows in no fixed order and
deadlock. In one event loop nothing but suspensions orders tasks, and without transactions
nothing takes back half an operation. A cache call may raise when the database work is done. Tasks are
cancelled and processes die anywhere. `PROJECT.json` lists these hazards by line, with
the properties that would catch them going wrong and, in a note, what of a hazard none of
them forbids.

**What makes each part correct.** The waterfall picks the first rule in priority
order that can pay, and raises the right error when none can. The ledger explains
every balance and no balance is overdrawn. A payment is granted once and as a
whole. A record is charged exactly if it is settled as processed, once. A refund
gives back a charge of the same customer. The cache shows committed amounts and
catches up with them. A check lets nobody through without money. `consumes`
charges what ran and gives back what raised, and a session's context ends with it.
The worker settles what it can, leaves the loop to others, and ends when it is stopped.
A snapshot and a page of records describe a state that was there.

## Modules

| Module | Models | State and actions against the code |
|---|---|---|
| `Models`, `Ledger` | `models.py`, the two balance tables | an account is a (customer, asset) key with its row and its ledger rows in order; `Sound` says the ledger explains the amount, and `Spend` adds up what its usage rows have taken |
| `Rating`, `Waterfall` | rating and waterfall engines | cost, filters, and `Evaluate`: which rule decides, without a loop |
| `WaterfallLoop` | the `for` loop of `evaluate` | one step per rule; `visited`, `saw_positive_cost`, `result` |
| `Store` | repository and database | `committed`, the lock `owner`'s `working` version; one operator per repository call, `Commit`, `Rollback`, deadlock detection |
| `Queue` | the `ORDER BY` and `LIMIT` of both queue fetches | `Oldest` says which of the pending records a batch holds, and in which order |
| `CacheView` | the in-memory cache | `view` and `spent`; one atomic operator per call, as each call holds the cache's lock |
| `BalanceService` | `charge`, `refund`, `fund_customer`, `refresh_customer_balance_cache` | `pc[s]` is the await of session `s`; one action per await, error path and host event |
| `UsageWorker` | `process_record` and `run_once` | `pc[w]`, the `batch`, record locks (`holder`), uncommitted statuses (`mark`) |
| `RedisView` | the Redis hash and the checks | each Redis command is a step; the task's copy of the hash is `read` |
| `Requests` | the middleware, `consumes` and `session` | `pc[r]` per request, the context variable, what the request left in the database |
| `MemoryStore` | the in-memory repositories | `accounts` with their rows and entries, the list `records`; one operator per method, each atomic |
| `LocalBackend` | `run`, `run_once`, `process_record`, the service's calls, snapshots and paging over that repository | `pc[Worker]` and `pc[h]` name the cache call, sleep or read a task is suspended in; what lies between two suspensions is one step |
| `LedgerBook` | abstract | a book in which postings appear atomically, extend history and stay sound; `BalanceService` and `UsageWorker` implement it with `book <- committed`, `LocalBackend` with `book <- accounts` |
| `Settlement` | abstract | a record is settled once, together with its charge; `UsageWorker` implements it |
| `WaterfallProofs`, `BalanceServiceProofs`, `PaymentProofs`, `UsageWorkerProofs`, `RedisViewProofs`, `RequestsProofs`, `LocalBackendProofs` | | theorems about the module of that name; `PaymentProofs` is about the payments of `BalanceService` |
| `StoreLemmas` | | what the proofs need to know of `Ledger` and `Queue`: histories and closing balances, the order of a batch, totals of a ledger's rows |
| `MC*` | | instances for TLC |

`BalanceService` and `UsageWorker` are each composed of `Store` and `CacheView`;
`UsageWorker` also uses `Waterfall` and `Queue`; `LocalBackend` is composed of
`MemoryStore`, `CacheView`, `Waterfall` and `Queue`. Definitions named as mutants are variants of
an action with a plausible bug; no specification uses them, and every property is
known to fail for one of them.

### Abstractions

* Amounts are integers in an asset's smallest unit. The code computes in exact
  `Decimal`; the rounding of `Numeric(14, 4)` columns is left out.
* The database is READ COMMITTED with row locks, as PostgreSQL. A locking `SELECT`
  and the `UPDATE` after it are one step, since no other session can come between;
  the `INSERT` for a missing row is a step of its own, because nothing is locked
  before it. A locking `SELECT` is assumed to return the current row, not a stale
  instance of SQLAlchemy's identity map.
* A session in a cycle of lock waits may be ended by the database. In `UsageWorker`
  the victim's batch is rolled back as a whole: every later statement of the dead
  transaction raises and is counted as retried.
* `created_at` orders the queue as the ids do. It is the start of the inserting
  transaction, so for the lookup of a refund's original it is ambiguous, and the
  lookup may return any match.
* `TransactionType.expiration` is declared in `models.py` and written by nothing.
* The activity feed, metrics, descriptions and error texts are left out. A failure
  of `push_feed_event` is a `CacheFailure` that comes too late to change anything.
* In `RedisView` movements are transactions of their own whose commit is one step,
  and there is one customer, since keys of customers are independent. In `Requests`
  the database half of a charge or refund is one step; `BalanceService` has the
  steps inside it.
* `LocalBackend` keeps cache calls atomic, as the in-memory cache does under its lock,
  but lets them suspend before they take effect, so that it covers every cache behind
  the port whose calls are atomic. The repository's lock is never held across a
  suspension and is left out. The `async with` of the in-memory unit of work commits
  and rolls back nothing. A failing `charge` of the host raises before it writes, and
  is no step. The month of the counters does not change within a behaviour.
* Starlette's middleware runs the request in a copy of its own context. `Requests`
  keeps one context variable per request, in which anything left behind would show.
* What a session does with an error is the host's: in a caller's transaction
  `InsufficientFundsError` may be caught and the transaction kept, any other error
  rolls it back.

## Runs

| Run | Instance | What it shows |
|---|---|---|
| `waterfall` | lists of up to 3 of 9 rules, 40 records, 4 balance sheets | the loop returns `Evaluate`'s verdict, its invariant holds, more money never makes a paid record fail, and filters find exactly the value a path names |
| `service_safety` | 2 sessions, 1 customer, 2 assets (one without a row), 3 calls, own and caller transactions, cache failures, crashes; 1 webhook handler | the ledger explains balances; a payment is whole and granted once; the committed state is a `LedgerBook`; every call ends |
| `service_own` | 2 sessions, own transactions, refreshes, failures, crashes | the cache shows committed amounts; counted spend was taken |
| `funding_race` (violation) | 2 webhook handlers | two deliveries of one payment are both granted |
| `worker_safety` | 2 workers, batch size 2, 2 charges and 2 refunds of one job, whose first rule costs nothing, cache failures after the mark | no double charge; refunds are backed; `Settlement` and `LedgerBook` are implemented; every record is settled |
| `worker_view` | 2 workers; a record that raises for ever, 2 charges, a free record; 1 crash | the cache and the spend agree with the ledger between transactions; the other records are settled |
| `refund_charged_twice` (violation) | 1 worker, cache failures anywhere | a cache failure inside a refund makes the record be charged again |
| `refund_view` (violation) | 1 worker | a refund on the paying asset leaves a stale amount in the cache |
| `redis_view` | 2 tasks, 4 calls, 2 assets, failing commands, evictions | `can_transact` promises only money the hash shows; the hash shows committed amounts; it is current unless writers overlapped or were lost; undisturbed checks serve only the funded |
| `partial_view` (violation) | 1 task, 2 calls | an update of an evicted hash hides the other assets from `has_balance` |
| `requests` | 2 requests, 2 customers, failures and cancellation anywhere | charges and refunds add up for the right customer; outcomes are paid for, and only billable sessions are recorded; contexts are restored, the middleware's too |
| `local_backend` | the worker with batch size 2, 3 records of which the first stays in the queue, 2 host tasks with 2 calls, a payment whose third product raises, cache failures in the balance updates | a payment is granted once without a lock; a record is charged once if it is processed and otherwise not; refunds give back a charge of their reference; `LedgerBook` is implemented without transactions; undisturbed snapshots are exact; paging misses nothing; the worker gives the loop back and ends after `stop` |

The violations are disagreements between the code and its documents; `findings` in
`PROJECT.json` quotes the line each contradicts.

**Bounds.** `MaxCalls`, `MaxOps` and `MaxCrashes` limit a behaviour's calls and
crashes, `BatchSize` is the worker's, and `SpentCap` saturates a statistic above
anything an instance reaches. Two sessions are enough for every race of the code,
because each is about one row, key or reference; two assets are enough for a
deadlock, a fallback rule and a partial hash; the third call lets a race meet an
earlier movement. Four records and batches of two make two workers overlap, wait
and deadlock. In `local_backend` the first record raises in each cycle, or has no id,
so that full batches and partial ones both occur, and the worker must not spin; the
host calls that matter together are two deliveries of a payment, and a movement or
refresh beside a snapshot or a listing, so that two are enough. `Arrivals`
and `HostCalls` say which records and calls an instance has, and `CacheFailsAt` where
cache calls may raise. Symmetry is not used, since most runs check temporal properties.

**Fairness.** A task that can run does run: weak fairness of each session's or
worker's steps, as asyncio's loop and the polling of `run` give it. A host ends the
transactions it opened (`CommitCaller`), which a context manager does. The database
hands a released row lock to a waiting session even if others keep asking: strong
fairness of a worker's acquisition of an account, as lock queues give it. Without it
TLC finds two workers that are deadlock victims in turn for ever. In
`LocalBackend` only the worker's steps are weakly fair, because asyncio resumes a
task whose sleep or cache call is over. Nothing is assumed
of hosts making calls, of failures, or of crashes.

**Conditions of the properties.** `ViewIsCommitted` and `SpendIsBacked` are about
calls in transactions of their own; with a caller's transaction the cache is written
before the commit and keeps the amount if the caller rolls back. `ViewIsCurrent` and
`SpendIsComplete` need batches that do not roll back and cache calls that succeed.
In `BalanceService` `FundedOnce` holds with one webhook handler at a time. `ChargedAtMostOnce` holds if
the cache does not fail between the deduction and the mark; if it fails after the mark, the
record stays processed although the worker counts it as retried. `RecordsAreSettled`
needs fewer records that raise in every cycle than a batch holds; with a full batch of
them newer records are never fetched. `StopEndsRun` has the same condition, since the
pause after a full batch is skipped, and a `stop` before `run` has begun is lost. In
`LocalBackend` `FundedOnce` holds for concurrent deliveries too, since nothing suspends
between the look-up of a reference and the first grant. A record without an id is
charged in every cycle and stays pending, which `ChargedIfProcessed` and
`RefundsGiveBackACharge` except by name. `SnapshotIsExact` is about snapshots that are
`clear`, which begin with every update of the views delivered in order (`blurred` is
false), and that no movement crosses.
A request cancelled in its operation keeps its charge, since `CancelledError` is no
`Exception`; `BalancesAddUp` counts it as outstanding.
`ViewIsCurrentWhenSerial` and `ServedOnlyWithFunds` use history variables: `tainted`
is raised by overlapping or lost writers and falls with a refresh that ran alone,
and `solo` marks a call that nothing overlapped.

## Theorems

* `LoopIsCorrect`, `LoopKeepsInvariant`, `RicherStillPays` (`WaterfallProofs`): for
  every list of rules, record and balance sheet the loop keeps `LoopInvariant`,
  satisfies `LoopComputesEvaluate`, and pays whatever it would pay with less money. The
  invariant says that the dismissed rules are an initial segment of the sorted order
  and none of them decides; the sorted order being total, the rule the loop stops at
  is the one `Evaluate` chooses. For more money, the rule that paid is still decisive,
  so a first decisive rule exists: of the decisive rules it is the one with the fewest
  rules before it, and every nonempty set of naturals has a least member. It comes no
  later than the rule that paid, and no rule before that one raises. The assumptions are
  that rule lists have a length and integer priorities, and that rules ask for whole
  amounts of assets that the balance sheets have (`RulesCanBePaid`). How costs are
  computed and filters match is left open in the proof.
* `ServiceIsTyped`, `ServiceLedgerExplainsBalance`, `ServicePostsToBook`
  (`BalanceServiceProofs`): type correctness, the ledger invariant, and refinement of
  `LedgerBook`, for any sessions, accounts, payments and bounds. The ledger invariant
  is not inductive by itself, since it says nothing of uncommitted work. `IInv` adds
  what the locals hold at each await, and for the owner of an account that its
  working version extends the committed history and is either sound or, exactly
  between the balance statement and the ledger statement, off by the one movement in
  progress (`Midway`). A commit is only possible between movements, so it publishes
  sound accounts; a rollback restores committed ones. Refinement follows because only
  commits change `committed`. The assumptions are those that the modules name:
  positive amounts, typed products, natural opening balances with a row or zero, and
  `None` being no session or id.
* `ServiceViewIsCommitted` (`BalanceServiceProofs`), if every call runs in a transaction
  of its own (`OwnCallsOnly`). `ViewInv` says that the amount a session carries to the
  cache is a committed balance from its commit on, and stays one, since history is only
  extended. In a caller's transaction it need not be.
* `ServiceSpendIsBacked` (`BalanceServiceProofs`), under the same hypothesis. A charge is
  counted after its commit, several commits may wait to be counted, and a crash or a
  failing cache loses a count. So `BackedInv` says that every session that still has a
  charge to count has a committed usage row of its own, of that amount, and that what is
  counted is at most the total of some set of the other rows. A commit appends the row that
  its session then owes (`FreshInv`), and a count moves a row into that set.
* `ServiceFundsOnce`, `ServicePaysWhole` (`PaymentProofs`), if one session at most
  handles payments (`OneFunder`); with two, `funding_race` finds a payment granted twice.
  Neither property is inductive, since a payment in progress is neither ungranted nor
  whole. `PaymentsInv` counts: what the handler sees granted of its reference, the grant
  in progress, and the products still to do add up to what was bought (`HalfGranted`), and
  of every other reference it sees nothing or everything. Other sessions write no rows
  with a reference (`ForeignInv`), so they neither change the count nor commit a part of
  a payment; an error rolls the part back. A payment has finitely many products
  (`PaymentsAreTyped`).
* `WorkerIsTyped`, `WorkerPostsToBook`, `WorkerChargesOnce`, `WorkerBacksRefunds`,
  `WorkerSettlesRecords` (`UsageWorkerProofs`): for any workers, records, rules and batch
  size. `LedgerInv` is the argument of `BalanceService` for batches of many movements.
  `QueueInv` says that a record in a batch is pending and locked by that worker alone.
  Neither prevents a second charge, which is about rows of an earlier transaction, so
  `LinesInv` joins them: an uncommitted row belongs to a record that the owner of the
  account holds; the rows of a held record are in its holder's view of the ledger exactly
  from the statement that writes them on; and the rows of a record that nobody holds are
  committed exactly if it is processed. The last three theorems have the hypothesis that
  no cache call fails inside a refund (`"refund_view" \notin CacheFailsAt`): the charge
  stays in the batch then while the record stays pending, which `refund_charged_twice`
  shows. Every other cache failure, and every crash and deadlock, is covered. The
  assumptions are that records are rated (`RecordsAreRated`), ids are numbers, batches
  are not empty, and `None` is no status.
* `WorkerShowsCommitted` (`UsageWorkerProofs`): `ViewIsCurrent` of every behaviour in
  which no cache call fails, no batch is a deadlock victim (`NoVictim`), and no refund
  goes to the account that its own record has just paid from (`RefundsElsewhere`). Workers
  update the cache before they commit, and `ViewInv` says why nobody sees it: the account
  is locked until the commit, and what the worker is about to write to the cache is its
  working version. Each condition is needed: a batch that is rolled back leaves its amounts in
  the cache, and `refund_view` shows what a refund on the same account does.
* `WorkerCountsSpend` (`UsageWorkerProofs`): `SpendIsComplete` of every behaviour in which
  no cache call fails and no batch is a deadlock victim. `SpendInv` says that what is
  counted, with what the owner of the account is about to count, is the total of the rows
  the owner sees; nobody else counts for that account, because its row is locked from the
  deduction to the commit. A refund does not take from the count, as in the code. The
  bound of the model on the counters must not be reached (`Uncapped`).
* `ViewIsTyped`, `FlagIsAlwaysFunded`, `ViewAlwaysShowsCommitted`,
  `ViewStaysCurrentWhenSerial`, `ChecksServeOnlyWithFunds` (`RedisViewProofs`): all
  invariants of `RedisView`, for any tasks, assets, movements and number of calls.
  `LocalsInv` gives each await the call it belongs to. `HistoryInv` says that whatever a
  task holds was committed once. For the current view, `SerialInv` says what the only
  writer of an untainted hash holds at each await: after `HGETALL` its copy is the hash
  or the key was evicted, and before the write of a refresh its rows are the balances.
  `SoloInv` says the same of a refresh that ran alone on a tainted hash, which is why
  that refresh may clear the taint, and `ServedInv` what a lone check has concluded so
  far. The assumptions are natural opening balances, integer movements, and `None`
  being neither a number nor a Boolean.
* `TypeCorrect`, `BalancesAlwaysAddUp`, `AlwaysSettledByOutcome`,
  `ContextAlwaysRestored` (`RequestsProofs`): the invariants of `Requests`, for any
  customers and any finite set of requests. `Progress` says what has been charged, given
  back and recorded at each await. A balance is then related to the set `Outstanding`,
  which a charge extends by one request, a refund reduces by one, and no other action
  changes. The assumptions are natural opening balances, finitely many requests, and
  `None` being no ending.
* `BackendIsTyped`, `BackendPostsToBook`, `BackendBacksRefunds`, `BackendFundsOnce`,
  `BackendPagesMissNothing`, `BackendChargesProcessed`, `BackendSnapshotsAreExact`
  (`LocalBackendProofs`): for any
  records that arrive and any calls of any hosts. Nothing here is locked or rolled back,
  so every invariant has to hold at every suspension. `LoopInv` says what the locals hold
  at each of them and that a batch is made of different pending records. `LedgerInv` says
  that the accounts are sound, with no exception for a movement in progress, because
  a balance and its row are written without a suspension between them. `RefundsInv` finds
  for each refund row the charge it gives back, in a book that only grows.
  `PaymentsInv` counts grants and products still to do, as above; here it holds for
  any number of deliveries, because a delivery that is under way has its reference in the ledger
  and so turns the others away. `ListingInv` says that what lies before the offset of a
  listing has been seen: records keep their place, since they are only appended and their
  status only changes. `ChargesInv` says that a record with an id has one charge exactly
  if it is processed, or is about to be marked when its refund is shown;
  `BackendChargesProcessed` therefore needs the hypothesis that no cache call fails inside
  a refund, as for `UsageWorker`. For snapshots, `OrderInv` says that while no update of
  the views is lost or overtaken (`blurred` is false) the only task inside a cache call
  holds the whole difference between the views and the ledger, be it a balance, a refund's
  balance or an amount to count, and that the rows of a refresh under way are the
  balances. So the views are exact when no movement is under way (`Still`), which is when
  a clear snapshot begins, and `SnapshotInv` says that they stay so until the next
  movement. Every movement takes a new row id, so that a snapshot was crossed by none if
  `next_id` is what it was. This theorem has the hypothesis that the counters do not reach
  the model's bound (`Uncapped`), and none about failures. The assumptions are those the
  modules name: rated records whose ids are their positions, positive amounts and page
  sizes, and failures at cache calls only.

Only model-checked:

* liveness, which is out of the prover's reach together with `ENABLED`: `CallsEnd`,
  `RecordsAreSettled`, `StopEndsRun`;
* `FilterFindsWhatItNames`, which compares with a recursive definition over nested data.

The total of a ledger is a recursive function, `Total`, rather than a fold of the community
modules, whose results cannot be proved by induction here. `StoreLemmas` shows that the
function exists and that an appended row adds its number, by induction over the set of
positions for which this holds, which the well-foundedness of the naturals gives. The
counters stay below `SpentCap` in every state of `worker_view` and `local_backend`, so
`Uncapped` excludes nothing there.

## Not modelled

* The SQL usage queries and both `get_usage_summary`: they read and aggregate, and no
  decision depends on them. Of the in-memory listing `to_date` is left out, which only
  filters as `from_date` does.
* The active flags of rules and products, which the repositories filter by and nothing
  changes at run time.
* The activity feed, the counters other than spend, the Redis pipelines that keep them,
  and `NullBillingCache`, whose calls do nothing.
* The rounding of `Numeric(14, 4)` columns. It is the database's, and how a finer
  `Decimal` is rounded depends on the dialect.
* A stale instance of SQLAlchemy's identity map under `SELECT FOR UPDATE`.
* Metrics, ports, exception classes, and the FastAPI response helpers.

## Plan

1. Done: waterfall, balance service with its store, usage worker, Redis view and
   checks, request wrappers with the middleware, and the in-memory backend with the
   polling loop, snapshots and paging; the theorems above.
2. Model further: the starvation of a queue behind a full batch of raising records, and
   a composition of requests, service and workers over one store, in which sessions
   create the records that workers settle.
3. Prove further: nothing that a run checks and the provers can reach is left. With the
   composition of item 2, that a record a session creates is charged to its customer.
