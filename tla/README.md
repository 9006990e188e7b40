# BinanceBot: TLA+ models, model checking and proofs

BinanceBot is a grid trading bot: for each trading pair one *strategy engine*
keeps a window of limit orders on Binance, raises a position when the price
falls through a level and lowers it one level higher. One process runs several
strategies against one account, with a web console, an SQLite database and a
risk limit on the position of all strategies together. It is asynchronous Rust on
tokio: every `.await` is a point at which another task runs.

These modules model the control of that program — who may change what, in which
order, behind which lock, and what is left after a failure — and abstract its
data to what the properties tell apart. Paths below are relative to the Rust
crate (`src/`) unless they begin with `README.md` or `LESSONS.md`.

1. The system · 2. Modules · 3. Runs · 4. Bounds and fairness · 5. Proofs ·
6. Findings · 7. Assumptions and limits · 8. Not modelled · 9. Running

## 1. The system

### Parts, their state and their operations

| Part | State | Operations | Hard because |
|---|---|---|---|
| **Trading status** (`server/state.rs` 1288–1503, `strategy/grid.rs` 4237–4509, `lifecycle.rs`, `runtime.rs`, `db.rs`) | `status`, `mode`, `pause_epoch`, `safety_pause_epoch`, pending pauses, resume eligibility, `shutting_down`; saved status and execution guard per mode | pause, silent pause, resume, silent resume, rebalance, mode switch, global check, shutdown, commit, start | every change runs in its own task and outlives its caller; three locks in different combinations; deadlines and crashes between two writes |
| **Global risk gate** (`server/state.rs` 24–371, 1515–1601) | `enabled`, `blocked`, `triggered`, failure and recovery generations, published fills, `submission_barrier` | check, submit, publish a fill, reconcile, withdraw, drop, switch the protection, queue a cancellation | all engines share it; a check reads the strategies one by one; a request may be dropped with its outcome unknown |
| **Order lifecycle** (`strategy/grid.rs`, `strategy/reconciliation.rs`, `db.rs`) | `active_orders` in memory, `managed_orders` and trades in the database, `last_orders_sync`, `last_account_sync`, the synced position | place, cancel one, cancel all, apply a fill, sync orders, sync account, initialize | the exchange acts on its own; answers are lost or late; the process may die between intent, request and record |
| **Close-remainder plan** (`strategy/remainder.rs`) | the active plan with its phase, saved; pair intents of older versions | allocate, cancel the sources, submit the target, settle, recover, cancel | target and sources must never stand together, whatever is lost, and the plan survives crashes |
| **Order evidence** (`strategy/reconciliation.rs`) | saved answers, identities seen, disagreements | record, compare, query, look up, adopt, clear | answers contradict each other, over several syncs and lives |
| **Grid window** (`strategy/grid.rs` 3347–3830, `strategy/precision.rs`) | the orders of one grid, last fill | suspend, trim, prune, place, match on paper | separate rules that must not undo each other's orders for ever |
| **Market prices** (`strategy/grid.rs` 2300–2600, `exchange/market_cache.rs`) | two prices with their stamps, two requests, a price waiting for the other | stream, request, complete, fail, match | answers are late, overtaken or shared between pairs |
| **Exchange caches** (`exchange/*_cache.rs`, `cache_entries.rs`) | per account: a generation and the current entry; per entry: snapshot, time of a failure, lock | shared, forced and critical reads, invalidate, expire | a load that began before an invalidation must not answer after it; nobody may wait long |
| **Rate limiting** (`exchange/rate_limit.rs`) | counters of weights and orders, what others used, published limits, waits | reserve, observe an answer | late answers in any order; reserves for cancellations and closing orders |
| **Fill pages** (`exchange/client.rs` 700–1000, `strategy/grid.rs` 2892–3025) | cursors, waiters, generations, the round | ask for pages, give way, clear | eight slots for any number of orders |
| **Runtime membership** (`runtime.rs`, `main.rs`) | running strategies, global configuration, published states | start, add, remove, rebuild, update, edit, early and final shutdown | races with a signal, partial failure over several engines |
| **Paper ledger** (`db/paper.rs`) | rows per pair, one wallet per asset in memory | fill, value, view, change the mode, replace, migrate | fills, stale valuations and mode changes meet in one sum |
| **Trade history** (`db.rs`, `db/hourly.rs`, `server/state.rs`, `server/snapshot.rs`) | trades, hourly sums, saved totals, revisions, clear frontiers; totals and charts in memory | record, verify, clear, change the scope, collect, publish | the history is cleared while something that was read before is on its way back |
| **Control channel** (`server/routes.rs`, `db/authentication.rs`, `auth.rs`) | sessions, login attempts, sockets, requests on their way | log in, connect, send a frame, prepare, dispatch, retire | a request waits while its session ends, its pair is removed, or somebody pauses |
| **Account pages** (`server/routes.rs` 1900–1960) | one sampler for all clients | subscribe, leave, stop | the last client leaves while another joins |
| REST client, market stream, process lock, configuration, Telegram, currency rates, backtest, web console | — | — | I/O, formatting, sequential arithmetic or user interface (section 8) |

### How they interact

```
 web console / Telegram ──HTTP──> routes.rs ──(control channel)──> engine of the pair
                                     │  persist_safety_pause           │  place, cancel, sync
                                     v                                 v
 lifecycle.rs (signals) ──> AppState of the pair  <──status──   active_orders ──> database
 runtime.rs (membership) ──>     │                                     │
 risk monitor (timer) ──────> GlobalPositionLimit <──fills, checks─────┘──requests──> Binance
```

* **Shared state.** Handlers, the risk monitor, the shutdown coordinator and the
  engine all change one `AppState`, each from tasks of its own. All engines share
  `GlobalPositionLimit`, the caches and the budget of requests.
* **Messages.** Handlers reach an engine through its control channel. The engine
  takes one message at a time and prefers it to prices and timers (`select!` is
  biased). The command loop of `runtime.rs` takes one addition or removal at a time.
* **Calls.** A global check pauses strategies while it holds its own lock; a
  resume asks for a global check; a fill makes the engine close the gate, sync,
  and ask for a check.

### What makes each part correct

* *Trading status*: a pause wins over every resume that was asked for earlier,
  also over the engine restoring Running after a cancellation; nothing trades
  after a crash unless a clean shutdown said so; locks never block one another.
* *Global risk gate*: no order is sent while any strategy has a fill the total does
  not count, or behind a reconciliation; a tripped gate stops everybody.
* *Order lifecycle*: no order is forgotten, booked twice, or released while it may
  still be executed; the limit counts every order the engine is unsure of.
* *Remainder plan*: closing orders never add up to more than the position.
* *Order evidence*: contradicting answers never settle an order, true ones never block.
* *Grid window*: the grid becomes the nearest levels that can be had, and stays so.
* *Market prices*: a price that passes for fresh was the market's lately; each is
  fresh again and again.
* *Caches*: no read is answered with what was known before the last invalidation or
  before an answer of a critical refresh; critical refreshes always end.
* *Rate limiting*: the budget is never exceeded, and what is urgent finds room.
* *Fill pages*: every trade is verified in the end.
* *Membership*: one engine per symbol; what is not configured has nothing on the
  exchange; a signal ends the process.
* *Paper ledger*: the wallet is the sum of what was committed.
* *Trade history*: tables, saved totals and memory are one history; what is shown is
  of one moment.
* *Control channel*: requests and pauses keep their order; what has ended is silent.

The list of hazards, each at the line where it bites and with the properties that
cover it, is in `PROJECT.json`. Two more are known and covered by no property
(section 7): the grace period of an unknown order, and the price of a mode switch.

## 2. Modules

The plan was ordered by what would cost the most when wrong; all of it is built.

| # | Module | What it is | Checked in | Proofs |
|---|---|---|---|---|
| 1 | `TradingStatus` | one strategy's status, its engine, the handlers and the coordinator | `process`, `status_risk`, `status_override` | `TradingStatus_proofs` |
| 2 | `GlobalRiskGate` | the gate and its engines | `shared`, `loops` | `GlobalRiskGate_proofs`, `SumTheorems` |
| 3 | `OrderLifecycle` | engine, exchange and database of one pair's opening orders | `ends`, `trading`, `orders_unrestored` | `OrderLifecycle_proofs`, `SumTheorems` |
| 4 | `FreshReads`, `ExchangeCache` | what a cache promises, and the cache that implements it | `answers`, `ends` | `ExchangeCache_proofs` |
| 5 | `RuntimeMembership` | which strategies run | `process`, `runtime_ends`, `runtime_stuck` | — |
| 6 | `RemainderPlan` | closing orders and the durable plan | `trading` | `RemainderPlan_proofs`, `SumTheorems` |
| 7 | `PaperWallet` | rows, wallet and valuations | `trading` | — |
| 8 | `TradeHistory` | tables, totals, snapshots | `trading` | — |
| 9 | `OrderEvidence` | answers about one client order id | `trading`, `evidence_lookup` | — |
| 10 | `MarketPrices` | two prices of one pair | `shared`, `loops` | — |
| 11 | `RateLimit` | one endpoint and one account | `shared` | — |
| 12 | `FillPages` | cursors of one pair | `shared`, `loops` | — |
| 13 | `GridWindow` | rounds of one grid | `loops` | — |
| 14 | `ControlSockets` | sessions and control requests of one pair | `answers` | — |
| 15 | `AccountHub` | the shared sampler | `answers` | — |

`MCProcess`, `MCTrading`, `MCShared`, `MCLoops`, `MCEnds` and `MCAnswers` compose
several of them as *scenes* of one run (section 3); the other MC modules only name
values.

### `TradingStatus`

One strategy. The environment sends *inputs* (`pause`, `resume`, `rebalance`,
`config`, `limit`, `risk`, `shutdown`, `deadline`, `crash`).

| Model | Code |
|---|---|
| `app` | the status fields of `AppState` |
| `held` | `GlobalPositionLimit.lock`, `safety_pause_admission`, `status_update_lock` |
| `job[slot]` | a spawned status task: pause, silent pause, resume, stop pause, commit, save, check; its `pc` is the await it stands at |
| `engine`, `queue`, `asked` | the engine's command loop, its control channel, a resume between the handler's epoch read and its dispatch |
| `life` | the shutdown coordinator of `lifecycle.rs` |
| `db` | configured mode, saved status and execution guard per mode |
| `risk` | the answer of the last global check and the outstanding cancellation |
| `seen` | history for the properties only: stop orders so far, and at which of them the current run was granted |

A step of a task is the code between two awaits. A caller that is aborted loses
its interest in the task, not the task: this is why `Deadline` leaves the tasks
running. What the cancellation cycle does on the exchange is one nondeterministic
result here; its orders are in `OrderLifecycle`.

### `GlobalRiskGate`

Any number of strategies; the module's engines do only what the gate sees. A check
(`check`) is a program of its own that reads the strategies in any order, one per
step, and then acts on them one by one. `gate.readers` and `gate.writer` are the two
sides of `submission_barrier`; `gate.failed` and `gate.recovered` are the failure
and recovery generations. `Submit` is the test and the permit of
`try_exchange_submission` up to the request, `PostResting`, `PostUncertain` and
`PostAborted` are the three ways it ends. `CommitConfig` is the switch of the
protection in `runtime.rs`. Prices, ages and margins are abstracted to whole units
and a *ready* flag. `real` (the exchange) and `owes` (fills not accounted for)
exist for the environment and the properties.

### `OrderLifecycle`

One live strategy's opening orders. An order is its id, which is used once.

| Model | Code |
|---|---|
| `ex` | Binance: the state of each order and its executed units (external) |
| `active` | `active_orders`: the units each order still reserves |
| `managed` | `managed_orders`: the same, saved |
| `ledger` | trades recorded, trades cleared from the history, and what was booked per order |
| `pos`, `ready` | the synced position; `last_orders_sync` and `last_account_sync` set and not blocked |
| `engine` | place (`intent`, `sent`, `query`, `partial`, `adopt`), cancel one (`confirm`, `fill`, `commit`, `remove`), orders sync (`list`, `restore`, `refresh`, `save`, `lookup`, `settle`), account sync (`account`), cancel all (`load`, `cancelList`, `cancelEach`, `clear`), start (`bootAccount`) |

Prices are abstracted to the level of the window, amounts to units.

### `FreshReads` and `ExchangeCache`

`FreshReads` is what the account and position caches promise, with no cache in it: a
call begins, the account changes, somebody invalidates, the call is answered with a
version of the account, or fails. An answer is never older than the last
invalidation; a read through the cache is never older than an answer a critical
refresh gave; a forced read and a critical refresh are not older than their own
call. It does not ask that a critical refresh follows *another* critical answer: two
that overlap leave each other alone on purpose (`cache_entries.rs:42`).

`ExchangeCache` is the code, for one key of the map (keys share only the lock of the
map, which is held for single steps):

| Model | Code |
|---|---|
| `cache` | the generation and the `Arc` in the map |
| `entry` | every entry somebody still refers to: snapshot, cooldown, holder of its lock |
| `call` | one call per engine; `pc` is the await it stands at: `look`, `wait`, `held`, `load`, `loaded`, `last`, `single`, `singled` of a read, `detach`, `ask`, `asked` of a critical refresh |
| `Retire`, `Expire`, `Change` | invalidation after a fill, `MAX_AGE` and `FAILURE_COOLDOWN`, the account at Binance |
| `Abort` | an engine that is aborted drops its call and the lock |
| `invalid`, `seen`, `answer` | history, for the refinement only |

A response is the version of the account it was computed from: any from the sending
of the request to its answer. Times are abstracted: a snapshot may expire at any
moment and is then as good as none. An `Arc` is a number that is reused when nothing
refers to it any more, so *the same entry* means what `Arc::ptr_eq` means.
`Reads` maps the detailed state to the abstract one: it forgets entries, locks and
program counters and keeps, of each call, its kind and what it may not be older than.

### `RuntimeMembership`

A *member* is one life of a strategy (a `PairTask` with its `AppState`); a removal that
fails replaces it by a new member for the same symbol. Four programs change the
members, and their `pc` is the await they stand at: `main` (`main.rs`: start-up, the
`select!` with the signal, early stop, drain, final shutdown), `cmd` (the loop
`TradingRuntime::run`, one addition or removal at a time, with its rollback),
`glob` (an update of the global configuration, with the submission locks it holds,
saving, installing and rolling back) and `stop[m]` (the shutdown of one member by
whoever owns it). `edit` is an update of one pair. `saved` is the database, `book` what
a symbol has on the exchange (nothing, orders, a position), `published` is
`RuntimeHandle.states` with its fair lock, `tradeLock` the commit lock of a member.

### `RemainderPlan`

One direction of one pair: the position is what can be closed, every order closes it.
`ex` and `pos` are the exchange; `managed`, `plan`, `intents` and `booked` are durable;
`active`, `known` and `fresh` are the engine's memory. `job` is what the engine is in
the middle of: cancelling the sources, reading the position, adopting or sending the
target, settling what one lookup has seen (`Settle`, with the continuation in
`job.next`), a sync, or the drain of a stored intent. `Allocate` and `Decide` are the
two places that compute a quantity; `Place` is an ordinary closing order beside
them. Cancel-all (`CancelPlan`, `CancelOrder`) is what follows a pause.

### `PaperWallet`

`row` and `legacy` are the database, `ledger` the process-local `PaperLedger` (loaded on
first use; a fill commits to it, a reader or a replaced state publishes a valuation),
`mem` and `past` the accounts in the memory of the current and the replaced
`AppState`, `task` the spawned commit of a simulated fill, which outlives its engine.
A holding is a wallet delta, a size and the time of its valuation.

### `TradeHistory`

Trades of every pair and mode with their hourly sums, saved totals, the durable
revision and the clear frontier; a transaction in one of several stages; the totals
and recent trades of the current scope in memory, and the change of scope around
them; the task that verifies profits; the charts cached under a key, the readers that
collect a snapshot in at most three attempts, and the publisher behind its lock; the
profit of the day and its version.

A recording whose engine is interrupted or aborted frees the commit lock at once, but
the insert it waited for is a blocking task that nobody cancels (`run_blocking`,
`db.rs:243`). `late` holds such inserts with the absolute total each will write;
`LateStored` runs one whenever the connection is free: under the lock of somebody else,
before or after the reload, or after a clearing. `doubt` and `spoiled` are history
variables: why the memory of a pair, or the saved total of a scope, may differ from the
rows at that moment.

### `OrderEvidence`

One client order id and two identities of the exchange. A sync (`job`) restores,
lists, decides what to ask, queries, looks up, adopts, and either clears the saved
answers or ends blocked; rows are batches in the order they were given. The exchange
moves between any two steps and its listings lag; with `Honest` FALSE it gives a
bounded number of wrong answers.

### `MarketPrices`, `RateLimit`, `FillPages`, `GridWindow`

* `MarketPrices`: a price is two ages, that of its stamp and the largest it may
  really have; a tick makes everything older. Requests are tasks of their own; the
  engine's reaction to a price is a step of its own, so that a pause or time may come
  between.
* `RateLimit`: `Counter` with its own events and the observations of others; a request
  is reserved, flies, and is answered late or never with the counts of the exchange.
* `FillPages`: `round` is `reconcile_unverified_trades`, `call` the calls of
  `get_user_trades` it makes, `cache`, `waiters` and `gen` the client's memory.
* `GridWindow`: one round of `maintain_grid_window` is a sequence of steps (`step`);
  prices, executions, controls and failures come between them. Levels are multiples
  of an interval, the window is computed as in `precision.rs`.

### `ControlSockets` and `AccountHub`

`row` and `cached` are the sessions and what is remembered of them; `out[s]` is the
sending task of a socket (`taken`: a frame was taken and its token is checked;
`sending`: it waits for the client); `req[r]` is a request on its way (`new`, `pausing`
under the control lock, `queued`, `waiting` for room, `reserved`, `locked` for the last
check, `vetted`, `cleared`, `sent`). Who stands at `pausing` or from `locked` on has
read access to the control lock, which the removal (`Retire`) takes for itself.
`live` and `after` are history. `AccountHub` has one channel per start of the sampler
and the lock that subscribing and stopping take.

## 3. Runs

A *scene* is one component with its bounds. A behaviour of a composed run is one scene,
chosen by its initial state; the variables of the others stay `Off` (or at their
initial state, for the component the MC module EXTENDS). A run asks one kind of
question of several components that do not share state, and each property says for
which scene it speaks.

Every property of a passing run has a *mutant* in `PROJECT.json`: a plausible bug in
one mapped definition under which the run finds the property violated.

| Run | Scenes and bounds | Question and result |
|---|---|---|
| `process` | restarts (3 inputs or failures over 2 lives), controls (4 in one life); two pairs, two configurations, a pair joining: 2 requests or failures and a signal | Who may run? Only who was granted after the last stop order (`OnlyGrantedRuns`); a start believes only what was not revoked (`RestartIsGranted`, `AbandonedModePaused`, `ArmedWhileRunning`), nothing follows the cleared guard (`ClearedIsFinal`). One engine per symbol and nothing left behind (`PairsHold`), no order under an unsaved configuration (`DurableOrders`). |
| `status_risk` | 2 inputs of any kind, 1 fault; fair | Is the lock order safe? No resume under risk (`NoResumeUnderRisk`); every pause is installed and every shutdown ends (`ControlsEnd`). |
| `shared` | the gate (2 strategies, limit 2, 2 units, one change of the switch); pages of three orders' fills; prices of one pair; weights; orders of one rate limit | What strategies share: nothing is sent behind the barrier (`NoPostDuringReconciliation`), over the limit (`NoSubmissionOverLimit`) or after the gate tripped (`TrippedMeansStopped`); cursors keep to their slots (`SlotsHold`); prices are what they pass for (`PricesHold`); grants fit what was heard (`GrantsFit`) and leave room (`CriticalRoom`). |
| `loops` | the gate (1 strategy, 2 failures); pages; prices; a grid of four kinds of pairs whose market moves twice; fair | What is repeated until it succeeds: cancellations (`CancelIsRetried`), verifications (`Verified`), prices (`FreshAgain`), rounds of the grid (`GridSettles`); with failures the gate stays closed (`UnreconciledFillCloses`). |
| `ends` | one order of 2 units, 2 faults, 1 crash, 2 inputs; two callers of a cache; fair | Never forgotten (`NothingForgotten`), booked once (`BookedOnce`), released only when settled (`ReleasedWhenSettled`) and released in the end (`Settles`); calls of a cache end (`CallsEnd`). |
| `answers` | two callers, 2 versions, 1 invalidation; 4 logins; a socket with two requests, and with one and a failure; three clients of the account pages | What is answered from memory: the cache implements `FreshReads` (`ReadsAreFresh`); requests keep their order and pauses come first, who joins is served by one task (`ConsoleHolds`); ended sessions and removed pairs are silent (`EndedIsSilent`). |
| `trading` | two orders over two levels; remainders: two open, one beside a paired order that may have been accepted, or two such; five of the history (two pairs; two clearings; snapshots; an interruption while snapshots are collected; the profit of the day); the wallet of two pairs; an exchange that lags, and one that lies | Exposure and levels (`OrdersWithinLimits`), closing orders (`ClosingHolds`), tables and memory (`HistoryAgrees`), what is shown (`ShownIsCurrent`), the wallet (`WalletHolds`), evidence (`EvidenceHolds`). |
| `runtime_ends` | two pairs, one request or failure, a signal; fair | A signal ends every engine and the process and answers every command (`SignalEndsAll`). |
| `status_override`, `orders_unrestored`, `runtime_stuck`, `evidence_lookup` | | The findings of section 6. |

## 4. Bounds and fairness

### Why the bounds are enough, and where they are not

* *Trading status*: a lost pause needs a pause, something that restores Running and one
  more control: three inputs. `MaxEvents` bounds inputs and failures together: the
  scene of the restarts has three over two lives, that of the controls four in one.
  The proofs cover any number.
* *Gate*: the limit of 2 is reachable by two strategies with one unit each or by one
  with two. Two strategies are one on either side of the barrier; the proofs cover
  any number. In `loops` the limit is 1, so that every unit is over it; with two
  strategies the liveness graph is too large, and one still races with its own
  cancellation and the timer.
* *Orders*: two units make an order that is partly executed, limit 3 allows one
  order and one unit but not two orders. The scene of two orders has one fault: with
  two the failed reads of finding 2 break its properties too. `ReleasedWhenSettled` is
  checked for one order for the same reason; its core is a theorem for any number.
* *Remainders*: two sources are the least that can be merged, and each may be a paired
  order with a stored intent instead; position 3 holds two sources and a full order; one crash, one pause and one failed call are each the
  difference between a step and its repetition. The proofs cover any number.
* *Membership*: two requests meet in every combination of addition, removal, update
  and edit; a third member is the replacement of a removal that failed.
* *Caches*: an answer is either old or new, so two versions tell a stale answer from
  a fresh one; liveness does not depend on the version and has one. `MaxEntry` is one
  entry for each caller, the current one and a new one: there is always one to take
  (`EnoughEntries`). The proofs cover any number of each.
* *Control channel*: an order between requests needs two; a failure beside one request
  is a scene of its own.
* *Prices, pages, limits, grid*: ages, pages and weights are small numbers in the
  proportions of the code's constants; each scene says at its INSTANCE which.
* Symmetry is declared only in runs without liveness, over values that nothing tells
  apart. Where scenes share a name, it is a remainder in one, an order, a pair or an
  identity in another, and interchangeable in each.

`CHECK_DEADLOCK FALSE` stands where the process, an engine or a pair may end, or where
the bounds use up what may happen.

### Fairness

* `TradingStatus`: strong fairness for the steps of a task, because tokio's mutexes
  queue their waiters in order; weak fairness for the engine, the coordinator and the
  dispatch of a message. Inputs, faults, limits and the monitor's timer are not fair.
* `GlobalRiskGate`: weak fairness for checks, the timer and the engines; strong for
  what waits in a queue for a lock, and for starting a queued cancellation, which the
  biased `select!` takes before anything else.
* `OrderLifecycle`: weak fairness for the engine going on (`EngineGoesOn`: every await
  of its current work ends) and for the time that passes; strong for a tick and for a
  cancellation asked for, because pausing and resuming disable both again and again.
  A request in flight is accepted or refused in the end. `Settles` presumes prices do
  not fill the channel without a pause, since a price goes before a due timer.
* `ExchangeCache`: weak fairness for the next step of each call, since every await in it
  ends: requests have a timeout, the wait for an entry is `ENTRY_WAIT`, and the map is
  locked for single steps. Aborts, invalidations and new calls are not fair.
* `RuntimeMembership`: weak fairness for engines, shutdowns, commits, edits and `main`;
  strong for the command loop and the update, which wait for locks that others take.
* `FillPages`, `MarketPrices`, `GridWindow`: weak fairness for the engine's own steps,
  for a retry that becomes ready and for an exchange that lists what it has; strong
  for the periodic sync and for the answer of a request, which time and pushed prices
  disable again and again.
* In a composed run one formula constrains an action of *every* scene, as in
  `WF(GateStep(CheckStep) \/ FillStep(Fills!RoundGoesOn) \/ …)`. This is the same as one
  formula per scene, because a behaviour enables the actions of its own scene only.
* The number of faults is bounded in every run: a property of the form "in the end" says
  that the system recovers when the failures stop.

## 5. Proofs

TLAPS proves what follows for *every* value of the constants: any number of
strategies, orders, callers, inputs, failures and crashes, where the runs have a few
of each. Every invariant below was checked by TLC on a small instance before it was
proved. Each theorem is `Spec => []…` of the module it is about, by the usual three
facts: the initial states satisfy the invariant, every action keeps it (one case per
action), and it implies the property.

Most properties are not inductive: they say what may not be seen at one moment, and
hold only because of what every task in the middle of its work still knows or owns.
The tables name what had to be added, and why.

`SumTheorems` holds what the other modules need about sums over finite sets:
a sum changes with one of its terms, is monotone, and a sum of naturals is zero only
if every term is. The library's induction theorems cannot be instantiated, so each fact is
proved from a smallest set that violates it.

### `GlobalRiskGate_proofs`

From `GateAssumption`: the strategies are a finite set, the timer and the configuration
are not strategies, and the limit is positive.

| Theorem | Property | Inductive invariant, and why |
|---|---|---|
| `TypeCorrect` | `TypeOK` | More than types: `Holders` says a permit belongs to a request, the writer and a published fill to a reconciliation, and a check for an engine has that engine waiting. Without these nobody could tell who may take a step. |
| `FillCloses` | `UnreconciledFillCloses` | `FillInv`: once a fill is no longer published, the recovery generation is behind the failure generation, its strategy is not ready, and a check that runs for this generation and has read the strategy knows it is incomplete. The last part is what stops a check that began earlier from opening the gate. |
| `BarrierExcludes` | `NoPostDuringReconciliation` | `PermitInv`: a request holds its strategy's submission lock and, with the protection on, a permit; the switch waits for every submission lock, so turning it on finds no request without a permit. |
| `TrippedStops` | `TrippedMeansStopped` | `StopInv`: while tripped the gate is on and blocked, and a strategy still running is one the check has yet to pause. The property speaks of the time after the check; the invariant must describe the time during it. |
| `StaysWithinLimit` | `NoSubmissionOverLimit` | `SumInv`: what a check has added up so far is at least what the strategies it has read were told to have (`Counted`), every open gate stands on such a sum (`Told`), and turning the protection on begins closed (`Switching`). Needed because a check reads the strategies one by one while they go on changing. |

### `TradingStatus_proofs`

From `BoundsAssumption` (the bounds are numbers). One invariant, `IInv`, carries all the
theorems; its parts are

* `TaskInv`: types; which slot runs which program at which await; who holds which of the
  three locks (`LockInv`); what an engine, the coordinator and a queued message may still
  expect (`LifeInv`, `PendInv`), and that nothing of it survives the end of a process;
* `GrantInv`: every permission to run that is on its way — a resume between epoch and
  dispatch, an eligibility, a cancellation cycle that will restore Running — is as new as the
  last stop order, or is certain to be refused by the epochs and pending pauses it meets;
* `StoppedInv`, `CommitInv`: what a stopping or committing task has fixed already;
* `DbInv`: the saved status and guard say no more than what was granted, also between the
  two writes of one change.

| Theorem | Property | Rests on |
|---|---|---|
| `TypeCorrect` | `TypeOK` | `TaskInv` |
| `GrantedRuns` | `OnlyGrantedRuns` | `GrantInv`. Outside the window of finding 1, which the property names, no interleaving of any length lets a strategy run on a grant older than the last stop order. |
| `RestartGranted` | `RestartIsGranted` | `DbInv`: wherever the process dies |
| `Abandoned` | `AbandonedModePaused` | `DbInv` |
| `Guarded` | `ArmedWhileRunning` | `DbInv`, `LockInv` |
| `ClearedFinal` | `ClearedIsFinal` (action) | `CommitInv`: every task left over is refused |
| `SafeResume` | `NoResumeUnderRisk` (action) | `LockInv`: the lock under which the check ran is still held |

### `OrderLifecycle_proofs`

From `OrderAssumption` (a finite set of orders of one positive size, and bounds that are
numbers).

| Theorem | Property | Inductive invariant, and why |
|---|---|---|
| `TypeCorrect` | `TypeOK` | `ExInv`: what an order has executed fits its state on the exchange |
| `Recoverable` | `NothingForgotten` | `EngineInv`: whatever an engine is in the middle of, its order has its record until the trade is committed; an answer it carries is one the exchange gave and can only be behind in executed units |
| `BookedOnceCorrect` | `BookedOnce` | `LedgerInv`: what is booked plus what the answer in hand would book is what was executed |
| `ReleasesSettled` | `ReleaseSettled` (action) | `CancelInv`: an order that a cancellation drops was seen ended after its cancellation. The core of `ReleasedWhenSettled` for any number of orders. |

### `ExchangeCache_proofs`

From `EnoughEntries` and `CacheAssumption` (among them that the u64 generation does not
wrap around).

| Theorem | Property | Inductive invariant, and why |
|---|---|---|
| `TypeCorrect` | `TypeOK` | `Locks`: a lock is held by exactly the call that stands under it, or a call could unlock an entry somebody else loads |
| `StaleNever` | `FreshInv` | `NothingStale` speaks of the current entry *and* of every call that refers to it, because what such a call has loaded will be in the entry next; calls on replaced entries may hold anything. `Phases` ties generations to invalidations and a request to the version it was sent at. |
| `Refines` | `ReadsAreFresh` | Every step is a step of `FreshReads` or leaves its variables alone; an answer is one it allows because the last comparison (`IsCurrent`, or the generation for a critical refresh) puts the call under `NothingStale`. |

### `RemainderPlan_proofs`

From `PlanAssumption`: finitely many orders, paired orders apart from the others,
positive quantities, and bounds that are numbers. `Invariance` states the whole
invariant; what it adds to the two properties is what makes a new order fit and an old
one findable:

| Part | What it says | Why it is needed |
|---|---|---|
| `JobInv` | which workflow goes on after the settlement in hand, and on what it stands: a plan in the right phase, fresh memory, or an order that is saved or booked by now | a plan is dropped, and an intent deleted, one step after the settlement that makes it safe |
| `ExInv` | an answer that is being settled is the present state of its order, or the order was executed further since | the exchange moves between the answer and its use |
| `CoverInv` | every order reserves at least what is left of it, and exactly that while nothing of it is executed; a sync that is under way has established this for the orders off its list | a reservation may be too large after an execution and is too small never; *exactly* is what lets a later answer replace it without touching the balance |
| `SlackInv` | what memory believes is free is free on the exchange | `Place` and `Send` compute with memory. It does not hold between an answer that shows an execution and the position read after it: there the settlement reads the position first (`PositionAfter`) |
| `PlanInv` | a target that is about to be sent is not on the exchange and fits | between `Decide` and `Send` |

| Theorem | Property | Rests on |
|---|---|---|
| `TypeCorrect` | `TypeOK` | a target that is sent fits (`PlanInv`) |
| `ClosingCorrect` | `ClosingHolds` | all of it: `SlackInv` when an order is accepted, `JobInv` when a record is dropped |

### Only model-checked

* Every liveness property (`ControlsEnd`, `CancelIsRetried`, `Verified`, `FreshAgain`,
  `GridSettles`, `Settles`, `CallsEnd`, `SignalEndsAll`) and whatever uses ENABLED: out of
  the proof system's reach.
* `OrdersWithinLimits` and `ReleasedWhenSettled`: they hold only within bounds on the
  failures (finding 2), so no theorem for every value of the constants exists.
* The modules without proofs in the table of section 2.

## 6. Findings

Each is a run that expects a violation; its counterexample is the behaviour described.

1. **A pause can be undone** (`status_override`, `strategy/grid.rs:4242`). The
   cancellation cycle reads `pause_epoch` and then `status` without a lock. Between the
   admission of an external pause, which moves the epoch, and its installation it sees
   Running with the new epoch, takes the pause for its own and restores Running at the
   end. The test `external_pause_is_not_overridden_by_internal_resume`
   (`strategy/grid.rs:6629`) states the contrary. `GrantedRuns` proves that this is the
   only window.
2. **A sync reports success without the saved orders** (`orders_unrestored`,
   `strategy/grid.rs:4296`). When both `initialize` and the cancellation after it fail to
   read `managed_orders`, a resume does not read them again, and an order sync restores
   only what the exchange lists. New orders are then sent beside an order without a
   reservation. `README.md:16` says a restart restores them first.
3. **A signal can hang the process** (`runtime_stuck`, `runtime.rs:135`). A command that
   waits for the write lock of the published states is polled only by `main`; when the
   signal wins the `select!`, `main` waits for the read lock of the same fair lock behind
   that writer, which nobody polls any more. Readers hold the lock for microseconds, so
   the window is small; `README.md:121` says the shutdown finishes the command. The run
   `runtime_ends` shows that without readers at that moment every signal ends the process.
4. **Contradicting answers can be cleared** (`evidence_lookup`,
   `strategy/reconciliation.rs:1258`). A query that says CANCELED with nothing executed and
   a lookup of the same sync that says FILLED are both saved, never compared, and deleted by
   the adoption. `README.md:273` says contradicting terminal states keep the evidence and
   block.

## 7. Assumptions and limits

What a reader should know before relying on a property.

*Hazards no property covers* (also in `PROJECT.json` where they have a line):

* A periodic sync writes a position over the limit before any check has seen it
  (`grid.rs:3042`): `NoSubmissionOverLimit` counts such a position from the check of that
  sync on, because the code does not close the gate before it.
* An unknown order is given up after 30 s (`grid.rs:25`), while `recv_window` may be
  configured up to 60 s (`routes.rs:930`): the model presumes that a request in flight is
  decided before its grace period ends.
* The price of a mode switch is fetched before `cancel_all_orders` and taken as that of the
  installation (`grid.rs:1930`); `README.md:131` speaks of 15 s.
* A reload that fails after a change of the mode is only logged (`state.rs:1023`):
  `HistoryAgrees` and `ShownIsCurrent` exempt the time until the next one that works.
* The insert an interrupted recording leaves behind may run after the reload that is to
  find it (`grid.rs:1744`) or after a clearing. Nothing in the code keeps the two apart,
  and the comment there speaks only of an insert that was committed before. The saved
  total of the scope is then the one computed before the interruption, and the memory
  misses the fill until the next reload or clearing: the code promises no more, so
  `HistoryAgrees` states what holds all the same. Rows, hourly sums and frontier are
  right, each fill is in them once, the verified profit in memory is exact, and nothing
  is shown that the history does not hold. `total_trades`, and with it the completed
  cycles and volume saved beside it, may stay wrong until the scope is cleared.

*Trading status, gate, orders*

* In `OrderLifecycle` a blocking insert that an aborted recording leaves behind is done
  or not done atomically; `TradeHistory` has it as a step of its own. A spawned commit
  of a paper fill has reached its lock before an abort is followed by the drain.
* `OrderLifecycle` presumes of the caches what `FreshReads` promises of critical reads.
* Two or more orders of which one was not restored (finding 2) can violate
  `ReleasedWhenSettled`; `OneOrderPerLevel` and `ExposureWithinLimit` hold for one failure.

*Remainders and wallet*

* A lookup after a call has ended is decisive: no request is accepted later.
* `WalletAgrees` exempts a pair that is entering paper mode.

*History, evidence, prices, pages, grid, console*

* A read that fails while an `AppState` is created behaves like a failed refresh and is not
  modelled.
* `OrderEvidence` leaves out a wrong side or symbol, a listing that says FILLED without a
  quantity, a failing load of the managed orders, and provisional orders.
* `CallsEnd` has two callers that behave alike, so one stands for both.
* `FillPages` leaves out the limits of 1024 waiters and symbols and of a million fills, a
  changed expected quantity, the retry delay, the remembered order ids and refusals of a
  stale revision.
* `GridWindow` leaves out submission locks, remainder plans, database errors and unknown
  answers, which other modules have.
* `ControlSockets`: a password is configured, the verification of a login and the creation
  of its session are one step, and epochs and replies are in `TradingStatus`.

## 8. Not modelled

| Part | Why |
|---|---|
| REST client (`exchange/client.rs`) | building, signing and parsing of requests; its fill pages and its reservations are modelled |
| Market stream | a socket that reconnects; its prices are inputs of `MarketPrices` |
| Process lock | one lock of the operating system |
| Configuration | validation of fields and serialisation |
| Telegram, currency rates | nothing depends on their outcome |
| Backtest | sequential arithmetic |
| Web console, statistics pages | user interface, and sums over SQL tables |

## 9. Running

```
tlc -workers 2 -config process.cfg MCProcess.tla
tlc -workers 2 -config trading.cfg MCTrading.tla
tlapm TradingStatus_proofs.tla
```

`PROJECT.json` names the module and the configuration of each run. The runs take from
seconds to two and a half minutes, the proofs of one module up to several minutes.
