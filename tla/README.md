# Models of the trading platform

TLA+ models of the backend of this repository (`src/backend/app`): a crypto
spot-trading platform built from FastAPI, PostgreSQL (READ COMMITTED, one
session per request or background cycle, `core/database.py:26-33`), Redis and
Binance. TLC checks the models on small instances; TLAPS proves the results
listed under *Theorems* for every value of the constants.

Paths below are relative to `src/backend/app/` unless they begin with a
document's name.

## 1. Inventory

| part | state it keeps | operations | who it meets | what is hard |
|---|---|---|---|---|
| trading pipeline (`pipeline/orchestrator.py`) | order rows; position rows through the position manager | `execute`: status check, portfolio lock, rules, sizing, balance, guard, order, submission, fill, position, OCO, ledger | portfolio row lock, Redis status, exchange, event store | one transaction split in two by a commit; an exception handler that turns failures into results |
| portfolio ledger (`services/portfolio_service.py`) | `portfolios` row | `get_or_create`, `record_fill`, `record_close`, `reset_daily_pnl` | pipeline, approval executor, position monitor, close endpoint, daily reset | a check on a row read earlier, an UPDATE on the row as it is now |
| Binance executor (`pipeline/execution/binance_executor.py`, `core/retry.py`) | none (the exchange has it) | `submit`, `reconcile_order`, `place_oco_order`, `cancel` | exchange | time-outs that may have executed, retries, client order ids, errors that nobody catches |
| runtime reconciler (`tasks/runtime_reconciler.py`) | last report; writes orders and status | one cycle every 30 s: stuck orders, positions, unknown fills, balance drift; alerts, halt | orders, exchange, status | races with the run that owns an order |
| startup reconciler (`tasks/startup_reconciler.py`, `main.py`) | writes orders, circuit-breaker key, status | clean Redis, recover breaker, orphaned orders; then `RUNNING` | orders, exchange, Redis | crash windows |
| approvals (`services/approval_service.py`, `tasks/approval_executor.py`, `api/v1/orders.py`) | order rows | approve, reject, expire; poll, execute, commit | orders, positions, portfolio, exchange | validate-then-write without a lock; one transaction for up to five orders |
| closing (`tasks/position_monitor.py`, `api/v1/positions.py`, `pipeline/position_manager`) | position and trade rows, Redis price and dedup keys | monitor cycle, manual close | ledger, trade tracker, status | two closers of one position |
| status and circuit breaker (`api/v1/system.py`, `core/health.py`, `pipeline/risk_manager/circuit_breaker.py`, `risk_manager.py`) | Redis `system:status`, `circuit_breaker`; `system_state` row | halt, resume, activate, reset, recover | everything that checks the status | three writers of one key; what a restart keeps |
| risk rules (`pipeline/risk_manager/rules`), capital manager, execution guard | none | pure decisions on a snapshot | pipeline | boundaries, roundings, snapshots that other runs have made stale |
| strategies and signals (`pipeline/strategy`, `pipeline/signal_engine`, `tasks/signal_scanner.py`, `tasks/ml_shadow_scanner.py`) | runner's failure counts; signals | `run_all`, voting, momentum, the scanners' cycles | event store, WebSocket | failures counted under one identifier; a generator that raises is left out |
| event store (`repositories/event_repo.py`, `core/events.py`) | `event_store` rows | append | pipeline, executor, monitor | sequence numbers under concurrency |
| rate limiter (`core/rate_limit.py`) | Redis counters and expiries | `check` | the executor's calls, HTTP requests | INCR and EXPIRE are two calls |
| WebSocket manager (`api/websocket/ws_manager.py`) and the dashboard's service (`websocket.service.ts`) | connection sets, listener task; sockets, timers | connect, disconnect, broadcast; reconnect | browsers, Redis | a set changed while it is iterated; a listener that takes time to close; two ends that notice a loss at different times |
| price stream (`exchange/binance_ws.py`) | stream task | reconnect with backoff | Binance, Redis | nobody starts it |
| daily reset (`tasks/daily_reset.py`) | none | resets the daily PnL, expires approvals | ledger, approvals | runs at every start of the process |
| paper engine, trade tracker | trade rows | simulated fill; trade record | pipeline, closing | arithmetic only |
| machine learning (`ml/`), analytics, notifications, frontend, scripts, migrations | files, reports, pages | training, serving, reports | signals | data processing |

What the pipeline must never do: send an order no row stands for; record a
trade the exchange did not make, or lose one it made; let a position be opened
or closed without its money; leave an order in a transient status for ever.

## 2. Plan

1. `PortfolioLedger`, `OrderStates`: the shared vocabulary. (done, proved)
2. `TradeLifecycle` (abstract) and `PipelineExecution` (detailed): the life of a
   trade through pipeline, exchange, reconcilers and crashes. (done, proved)
3. `ApprovalFlow`: manual approval and its executor; implements `TradeLifecycle`.
   (done, proved)
4. `PositionBook` (abstract) and `PositionClose`: the closers of a position and
   the ledger. (done, proved)
5. `SystemStatus`: halt, resume, circuit breaker, restart. (done, proved)
6. `TradeIntents`, `RiskRules` and `TradingDay`: the numeric decisions, and what
   they guarantee when runs overlap and days pass. (done, proved)
7. `OrderDelivery`: limiter, attempts and query, the inside of one step of
   `PipelineExecution`. (done, proved)
8. `SignalVotes` and `SignalScan`: generators, composite, runner and the two
   scanners. (done, proved)
9. `LiveFeed`: events on their way to the dashboards. (done, proved)

What is left: the event store's sequence numbers, whose writers are serialised in
every modelled path; and the numeric processing under `ml/`, which has no
states to explore.

## 3. Modules and the code

`PROJECT.json` maps every definition to its lines; this section gives the
overview. In all modules a step is what one transaction commits, or one call
that reaches the exchange or Redis. Reads that no other actor can tell apart
from the following write are part of that write. Amounts, prices and quantities
are scaled integers, as in the `NUMERIC(20,8)` columns. Definitions marked
*Mutant* are plausible wrong versions of the definition that follows them; no
specification uses them, they are substituted to show that a property depends
on the code it is about.

The portfolio row is the system's mutex: the pipeline and the approval
executor's cycle lock it with `SELECT ... FOR UPDATE` before they read it, a
close and the daily reset lock it when they write it. What a transaction does
between that lock and its commit is one step where nobody else can see into it,
and several where it talks to the exchange, to Redis, or commits in between.

### PortfolioLedger, OrderStates

`services/portfolio_service.py` and the CHECK constraints of migrations 003,
004 and 006 as operators from a row to a row: `RecordFill`, `RecordClose` (with
the drawdown rounded to `NUMERIC(8,4)`), `ResetDailyPnl`, `SatisfiesChecks`.
`OrderStates` holds the two transition tables of `domain/state_machine.py`.

### TradeLifecycle

The promise: an order is durable before it can execute, executes at most once,
and is settled as recorded if it was executed and void otherwise; an order of which a
part was executed before the rest expired may end either way, because the code's
query does not report it. Several orders may be settled by one commit.

### PipelineExecution

`TradingPipeline.execute` in LIVE mode without manual approval, with everything
that touches the same orders.

| variable | in the code |
|---|---|
| `orders`, `positions`, `portfolio` | the committed rows; an order `ABSENT` has no row |
| `exchange`, `expired`, `sent`, `oco` | what Binance has executed for a client order id, the orders whose rest expired after that, a `create_order` still on its way, the quantity of the stop/take-profit pair |
| `status` | Redis `system:status` |
| `pc`, `seen` | where a run stands; the `available_balance` its session's identity map holds since the first lock |
| `verdict`, `phase`, `connected` | the runtime reconciler's cycle; whether the reconcilers' executor has its client |
| `up`, `restarts` | the process |

| action | code |
|---|---|
| `CheckStatus`, `RejectIntent`, `AcceptIntent` | `orchestrator.execute` steps 1–8, up to the commit that makes the order SUBMITTING |
| `SubmitReturns`, `SubmitFails` | `BinanceExecutor.submit` with the query that follows a failure |
| `PlaceOco`, `PositionRowRefused` | steps 9–10b: flush of order and position, `place_oco_order`, which may also fail, or have placed the pair and lost the response (run `"unprotected"`) |
| `Book`, `RecordFillRefused`, `PortfolioRowRefused` | step 11 and the commit of the caller: success; `record_fill` raises and its exception becomes a result; the database refuses the UPDATE |
| `ExchangeFills`, `RequestExpires` | Binance, as `submit` and `reconcile_order` see it |
| `ReconSelect`, `ReconQuery`, `ReconFlush`, `ReconCommit` | `runtime_reconciler`: selection by age, one query per order, halt on a critical issue, commit |
| `Restart` | `startup_reconciler` and `lifespan` (`main.py`) |
| `OperatorHalt`, `OperatorResume`, `Crash` | `/system/halt`, `/system/resume`, the loss of the process |

- **The commit belongs to the caller.** `execute` flushes; whoever owns the
  session commits when `execute` returns, which it also does after an internal
  exception. That is the discipline of `get_db`. No module of `app/` wires the
  pipeline in (its callers are tests), so the model takes the caller to follow it.
- **One execution per client order id** is an assumption, the executor's own
  (`binance_executor.py:74`). Binance refuses a used id only while the order that
  used it is open, and a market order is closed at once: `OrderDelivery` models
  the retries without the assumption.
- **`Reported`** is what `reconcile_order` gives back as a fill: executed and not
  `expired` (`binance_executor.py:165-172`). `SubmitReturns` needs only an execution,
  because the response of `create_order` is taken whatever its status;
  `SubmitFails` may come whatever the exchange did, because exceptions outside
  the tuple of line 90 leave `submit` without a query. An order that expires
  without having bought anything gives a fill of nothing, whose position breaks
  a CHECK: for the row that is `SubmitFails` too.
- **A request in flight** lives until its receive window closes, also after
  `submit` gave up and after a crash.
- **`SubmitMayOutlast`**: four attempts of 10 s, backoff of 1 + 2 + 4 s, a query
  and an OCO of 10 s each and a notification exceed the 60 s after which the
  reconciler takes the order for stuck, counted from the start of the
  transaction that created it. When it is FALSE the run is over by that age.
- **`QueryMayFail`** covers `reconcile_order`'s `None` for a failed query, an
  unreadable answer, and an executor that cannot connect at startup
  (`main.py:36-46`). `live_executor` is assigned before it connects, so that the
  runtime reconciler is launched all the same (line 63), and every query of it
  fails, which it takes for an order that is not there: with `~connected` the only
  verdict is `"cancel"`.
- Checks 2 to 4 of the runtime reconciler write nothing, and in this deployment
  nothing they find is critical.
- Left out: events, notifications, manual approval (its own module), PAPER mode
  (its engine has a subset of the LIVE outcomes). The numeric rules and the
  guard may refuse at any time; only the two checks that the properties need,
  the number of positions and the balance, are exact.

### ApprovalFlow

`approval_service.py`, the daily task's expiry, and `approval_executor.py` in
LIVE mode. `deciding` and `expiring` hold the requests that have validated a
row and not yet written it (`Read`/`Write`, `ReadStale`/`Expire`). The
executor's cycle is `Poll`, `LockPortfolio`, then per order `Refuse` or `Send`
followed by `SubmitReturns`, `SubmitFails` or `PositionRowRefused`, then
`CommitCycle`: `outcome` is what its transaction has decided so far,
`SessionPortfolio` the row that transaction sees. `CreatePending` is the
pipeline's branch for manual approval. The executor is, like the
pipeline, started by no module of `app/`.

| constant | which trouble it switches |
|---|---|
| `SerialDecisions` | FALSE: requests about one order overlap |
| `QueryMayFail` | `get_order` fails |
| `LateExecution` | a request executes after its `submit` gave up |
| `ErrorsEscape` | an exception that `submit` does not catch (`binance_executor.py:90`), or the limiter's 429 or a Redis error when an order is sent again, makes the handler write REJECTED without a query |
| `MayBuyNothing` | a market order expires before it bought anything: `submit` returns a fill of nothing, whose position breaks a CHECK |

`expired` and `Reported` are as in `PipelineExecution`; so is the assumption of one
execution per client order id. A second approval that overlaps the first writes
SUBMITTED over a row that the executor has filled in between
(`approval_service.py:44-46`); the row keeps its exchange id, so that the poll
(`approval_executor.py:86`) never takes it again. `ApprovedSettles` speaks of what
the poll selects (`Waiting`).

### PositionBook, PositionClose

`PositionBook` is the promise: a position leaves the book once, in the step
that returns its value and its PnL. `PositionClose` has any number of position
monitors (`BeginCycle` is `FOR UPDATE SKIP LOCKED`; `SkipStale`, `LeaveOpen`,
`CloseTriggered` are the loop's body; `CommitCycle`, `LoseCycle`), the Redis key
(`keys`, `KeyExpires`) and the endpoint `POST /positions/{id}/close`
(`ReadForClose`, `ManualClose`). `closing` is what a cycle has flushed, `ledger` the
portfolio's row as that cycle sees it: from its first close to its commit it holds
the row's lock, so that one such row is enough. Positions are of one symbol with one entry; the
endpoint's exit price is any price, and its reason any, as the API accepts: STOP_LOSS
makes the row STOPPED_OUT (`position_manager.py:97-102`). `ManualClose` is one
step because autoflush sends its UPDATE, which waits for the row, before the
ledger and the event number are read. The monitor and the daily task are started
by `scripts/start_paper_trading.py:122,131`. A LIVE close changes the
database only: nothing is sold on the exchange and the OCO is not cancelled.

### SystemStatus

The Redis keys `system:status` and `circuit_breaker:active`, the breaker's
event, the pipeline's checks up to admission (`CheckStatus`, `Lock`,
`CheckBreaker`, `HaltSystem`/`CommitTrip`, `Reject`, `Admit`), the operator's
halt and resume (a read, then a write), automatic halts, and the application's
life: `Crash`, `Shutdown`, `CleanStatus`, `RecoverBreaker`, `ReconcileFails`,
`Start`. `LoseRedis` stands for a Redis that comes back without its latest
keys: it has a volume, but only periodic snapshots. `tripped` is a history
variable: whether the breaker was activated since the last restart of
application or Redis (`"now"`), before it (`"earlier"`) or `"never"`.
`PersistTrip` says whether `activate` is given the session, which its signature
allows; FALSE is what `RiskManager` does and what the run checks, and the theorems
hold for both.

### TradeIntents, RiskRules, TradingDay

`RiskRules` has the decisions that touch no state, as functions of an intent, of
the rows read under the lock and of the market snapshot: the five rules in the
order of `create_default` (`Validate`), `CapitalManager.calculate_size`
(`Sizeable`, `Quantity`), the balance check and the execution guard. Decimals
are exact in the code, so ratios are cross-multiplied; the one rounding is half
to even. `TradingDay` evaluates them in PAPER mode on the snapshots that
overlapping runs, closes and resets produce.

| action | code |
|---|---|
| `Submit`, `Refuse` | `execute` up to the commit of SUBMITTING, which gives the portfolio up; any other answer, which may trip the breaker |
| `Fill`, `LoseFill` | the paper engine's price with its slippage, position, ledger, commit; the same when the database refuses a row |
| `Close` | `close_position` with `record_close` |
| `NewDay`, `Reset`, `ResetFails`, `RestartTask` | midnight; `DailyResetTask`'s look at the date, its death by an exception, its start by `start_paper_trading.py` |
| `RestartApplication` | the start that deletes the breaker's key and ends the runs that waited |

- **`Overlap`** is how many runs the callers have at work at once; nothing in the
  code limits it.
- **`dayPnl`, `turned`, `restartsToday`** are history: the real profit since the task
  last began a calendar day. The row's `daily_pnl` is something else: every
  start of the task sets it to zero.
- `WorstRisk` is what one position of the instance can lose down to its stop;
  losses beyond a stop are not among the instance's exits.

### OrderDelivery

One step of `PipelineExecution` call by call.

| action | code |
|---|---|
| `Increment`, `Expire` | the limiter's INCR and EXPIRE; `Decide` is the rest of `check` and the first attempt |
| `RedisFails` | either call raises, before or after Redis has done it; `submit` raises |
| `Retry`, `TimeOut`, `AfterFailure` | `retry_async` |
| `Escape` | an attempt ends in an exception that neither `retry_async` nor `submit` catches (`binance_executor.py:87,90`): no retry, no query |
| `Ask` | the query after the attempts failed; its own failure is taken for "does not exist" |
| `Execute`, `Refuse` | the exchange, which handles a request whether or not anybody still waits for it |
| `Tick`, `Crash` | the key's expiry; the loss of the process between any two calls |

Nothing here keeps the exchange from executing two requests with one client order
id: `booked` holds every execution with the attempt it came from, and the query
may find any of them. `abandoned`, `excused` and `cut` are history: the requests given
up with no answer; the orders that nobody asked for, that were asked for in
vain, or that executed after the answer; a fault between INCR and EXPIRE. The
API's requests are counted by the same code under a key per client.

### SignalVotes, SignalScan

`SignalVotes` computes what RSI (Wilder's averages as numerators over a common
unit, a recursive function of the candle), crossover, model and composite answer for a series of closing prices and a
prediction, with the code's limits and roundings. `SignalScan` has the scanner's
cycle (`BeginCycle`, `Fetch`, `FetchFails`, `EndScan`), `StrategyRunner`'s
concurrent evaluation with its failure count (`Evaluate`, `EvaluateFails`) and the
shadow scanner's hourly cycle (`ShadowBegins`, `ShadowScan`, `ShadowFails`). The
script gives every strategy the identifier of the one active configuration, so
that they share a count (`IdOf`). `SignalIdAtAppend` is what `_save_signal`
passes to the event store: the id of a row that has not been inserted.

### LiveFeed

Browsers open sockets (`Reconnect`), lose them (`Break`, `Close`) and set timers
(`TimersAfterLoss`: one, or two after an unclean close); the API accepts
(`Accept`), notices losses (`NoticeLoss`), stops and starts. Its Redis task
(`Listen`, `Take`) broadcasts member by member (`Send`, `Finish`). A failing
connection (`ListenerFails`), or the `RuntimeError` of a set that is iterated while
its size changes (`SizeChanged`), makes it leave its loop (`LeaveLoop`); its
`finally` then awaits Redis twice (`ws_manager.py:112-114`), and only after that is the
task done (`EndListener`). A browser that connects meanwhile starts no other task;
one that connects afterwards does. `SubscribeFails` is a failure before the
`try`, which ends the task at once.

- One channel stands for the set all dashboards subscribe to.
- The service sends no token; `routes.py:27-35` lets a socket in only in debug mode
  without an API key, which the model takes for granted.
- A set whose size is the same again but whose table was rebuilt in between may
  skip or repeat a member; that is left out.

## 4. Runs and bounds

Every run ends with the whole state space explored or, for the one expected
violation, with the counterexample that documents the disagreement.

| run | configuration | what it shows |
|---|---|---|
| `pipeline_faulty` | two intents; fills at the entry, beyond the balance and on the take profit; expired rests, lost responses of the OCO; one crash; halt and resume; failing queries, an executor without its client, late runs | `TypeOK`, `WriteAhead`, `RecordsTruthful`, `OcoBacked`, `LedgerSound`, `AllocationBacked` hold whatever fails |
| `pipeline_reliable` | two intents, two sizes (so partial fills), one crash, operator's halt; queries answer, runs end in time | `FillNeverForgotten`, `PositionsFunded`, `LegalTransitions`, `ImplementsLifecycle`; liveness `StuckResolved`, `UnbookedFillHalts` |
| `approval_faulty` | two orders, one batch, two approvers and a rejecter that overlap, one crash, fills above the entry, in part, expired, or of nothing, failing queries, escaped exceptions | `ApprovedFirst`, `RecordsTruthful`, `LedgerSound`; liveness `ApprovedSettles` |
| `approval_reliable` | two orders, serial decisions, no late execution, no escaped exception, no crash | `PositionsFunded`, `ImplementsLifecycle` |
| `close_shared` | two positions, a monitor, requests, one lost cycle | `TradedIffClosed`, `LedgerExplained` |
| `close_monitors` | two positions, two monitors, no requests | `ClosedOnce`, `ImplementsBook`; liveness `TriggeredCloses`, `StaleHalts` |
| `status_serving` | three runs, operator, three faults of four kinds | `BreakerAgrees`, `TrippedBlocks`; liveness `RunsEnd` |
| `trading_days` | four trades of which two overlap, a limit of one position, one midnight, one start of the daily task | `PositionsBounded`, `DayLossBounded`, `DrawdownLatches`, `OrdersInBounds` |
| `order_delivery` | two orders, two attempts each, a limit of one request in a window of two ticks, three kinds of execution, two faults among crashes and Redis errors | `RepeatsUnanswered`, `AnswersTruthful`, `LimiterReopens` |
| `signal_scan` | two symbols, models for none, one or both; six price series, nine predictions | `OffersSound`, `SharedCountNeverTrips`; liveness `ScannerGoesOn` |
| `signals_lost` | the same | violates `OffersSaved` |
| `live_feed` | two browsers, two sockets each, two events, one fault, one restart | `SilenceExplained`, `ShownOnce`; liveness `BrowsersReturn` |

Three properties say how far a limit of the code is from what its name suggests:

- `PositionsBounded`: the limit on positions looks at committed positions, so that
  open positions and orders under way exceed it by up to the overlap less one.
- `DayLossBounded`: the daily limit looks at losses that are realised when an order
  is asked for. What a day can really lose, down to the stops, is the limit and one
  stop for each position that may be open, and that again for every start of
  the daily task, which sets the counted loss to zero.
- `SharedCountNeverTrips`: with two models or more the strategies of other symbols
  answer `None`, which counts as a success of the shared identifier, and no
  strategy is ever switched off.

Why the bounds are enough:

- **Two orders.** They interact through three things: the portfolio row, the
  reconciler's batch and the executor's batch. Two exhaust the balance (41
  pays two entries of 20, not one of 20 and one of 24), share a batch, and
  make each of them the first or the second at the lock.
- **Prices** are few and exaggerated so that every ending of a run happens: 10
  is the entry, 9 below it, 12 exceeds the balance when two orders fill, 13
  is the take profit, at which the position's row breaks a CHECK. With them
  `Book`, `RecordFillRefused`, `PortfolioRowRefused` and
  `PositionRowRefused` all occur. In `pipeline_reliable` fills above the entry
  other than 13 are left out on purpose: `PositionsFunded` does not hold with
  them (section 7).
- **`approval_faulty`** has one fill price, 12, with a balance of 45: both entries of 20
  pass the check, and the second fill of 24 does not fit, so that a batch pays
  one order and leaves the other unfunded. The one position CHECK that it breaks is
  that of a quantity of nothing; those of the prices are the pipeline's run's, and
  the proofs cover both. Two approvers are what it takes to approve an order that is
  already filled.
- **One crash** may come between any two steps; the code keeps no count of
  restarts, so a second one finds nothing that the first did not. `status_serving`
  has three faults because an application restart and a loss of Redis matter in
  combination, and a trip can be followed by both.
- **`StaleLimit` 3** stands for the code's 5: more than the two positions of a
  cycle, so that the count has to survive from one cycle to the next.
- **Three runs** in `SystemStatus`: one trips, one is admitted, one waits.
- **`trading_days`**: with a limit of one position, two overlapping runs are enough to
  pass it, and two more find the limit exceeded, a loss on record or the breaker
  tripped. The balance, the stop (40 of an entry of 200) and the limits are chosen
  so that the sizing is cut once by the risk and once by the exposure, two losses
  pass the daily limit and come near the drawdown's, and a third trips the
  breaker. The markets are a calm one, one that drifts past the guard's limit and one
  with crossed quotes.
- **`order_delivery`**: the limiter of one request is used up by the first order; the
  code's three retries are cut to one: an attempt followed by another, and one that
  is the last, are then both there, and the invariant that is proved
  has no number of retries in it. Two faults are two crashes, or a Redis error and
  a crash. An order is filled in part, or expires with or without having bought
  something.
- **`signal_scan`**: the series fall, rise, stand still, turn down to up and up to
  down, and are too short; the predictions are on either side of each limit. The
  periods are 2 and 3 instead of 14, 9 and 21: with them five prices are enough for a
  crossover and for an RSI beyond its limits. `MaxFailures` is the code's three.
- **`live_feed`**: two sockets per browser are a lost one that the API still serves and
  its successor; two events are one under way and one that waits.
- **Symmetry** is used in runs that check invariants and action properties only;
  runs with liveness or refinement have none.

`CHECK_DEADLOCK FALSE` is set where the system really may stop: all intents are
finished, every position is closed, all runs are over, or the bounds on crashes and
events are reached.

## 5. Fairness

- *Pipeline runs, reconciler, executor, monitors* (WF): every await is bounded by a
  client timeout and a bounded number of retries, and their loops catch what a
  cycle raises and go on.
- *Expiry* (WF): a cycle of the daily task that has read the stale orders writes
  them. Its loop catches nothing, so an exception ends the task for good; that
  is listed as a hazard, and no property assumes that a further cycle begins.
- *Exchange requests* (WF on `ExchangeStep`): a request executes or dies with its
  receive window; nothing obliges the exchange to execute it.
- *Restart* (WF): `docker-compose.yml:61` has `restart: unless-stopped`.
- *Keys* (WF): `closing:<id>` has a TTL.
- *Runs of `SystemStatus`* (SF): PostgreSQL grants a row lock to its waiters, so a
  run that waits while others take the lock again and again gets its turn.
- *Scanners* (WF on `ScanStep` and on `ShadowStep`, one task each): every await has
  a timeout, and the loops catch what a symbol raises.
- *Dashboards and API* (WF on `Reconnect`, `Close`, `Accept`, `NoticeLoss`,
  `Broadcast`, `Start`): timers fire, both ends notice a lost connection in the
  end, the event loop accepts what waits, a send ends because the server closes
  a socket that does not answer its pings, and the container is restarted.
- *No fairness* for people, prices and faults: nobody must approve, halt,
  resume or crash, no price must move, and no event must be published or heard. `RunsEnd` therefore holds whatever
  the operator does, and `ApprovedSettles` speaks of orders already approved.

`UnbookedFillHalts` excuses a restart because the startup reconciler records a
fill without halting, and its run has no operator's resume: a resume is allowed
to end a halt. `ApprovedSettles` excuses a queue with an order that no cycle
can commit (section 7). `TriggeredCloses` is stated for a price that persists:
a trigger that comes and goes between two cycles is not seen, by design.

## 6. Proofs

Every theorem holds for every value of the constants that satisfies the named
assumptions of its module (finite sets, natural numbers, a valid intent). A
further assumption is the theorem's own hypothesis, named where it is declared
and in the table.

| hypothesis | what it says | who needs it |
|---|---|---|
| `NoSlippage` | no fill (in the pipeline: none that a position's row accepts) costs more than the entry the balance check looked at | `PositionsFundedHolds` (pipeline, approvals) |
| `Reliable` (pipeline) | queries answer, the executor connects, no run outlasts the reconciler's threshold | `FillNeverForgottenHolds`, `LegalTransitionsHolds`, `Refinement` |
| `Reliable` (approvals) | one decision on an order at a time, queries answer, no exception escapes, no request outlives `submit`, fills at no more than the entry and inside stop and take profit | `Refinement`, `RefinementUncrashed` |
| `[][SentNotRefused]_vars` | no cycle refuses an order that an earlier one, cut short, has sent | `Refinement` (approvals) |
| `MaxRestarts = 0 /\ ~MayBuyNothing` | nothing cuts a cycle short: neither a crash nor a fill of nothing | `RefinementUncrashed` |
| `Requests = {}` | nobody uses the close endpoint | `ClosedOnceHolds`, `Refinement` (closing) |
| `ExitsAtStops`, `[]RisksBounded` | exits honour the stops; `WorstRisk` is a bound of what a held position risks | `DayLossBoundedHolds` |
| `MaxFailures >= 3` | the limit of consecutive failures; the code's is 3 | `SharedCountHolds` |

Section 7 describes what happens without each of them, with two exceptions: that a
market may gap through a stop, which no code can exclude, and `MaxFailures`, which
is a constant of the code. Each holds in the run that checks its property
(`RisksBounded` in every reachable state of `trading_days`; `SentNotRefused` in
`approval_reliable`, which has no crash). `Refinement` of the approvals has behaviours with
crashes that no run has: with a crash TLC finds that its hypothesis is needed. An
order is sent and filled, the process dies before its commit, and the next cycle
refuses the order.

`TypeCorrect` is proved for the pipeline, the approvals, the closing of positions, the
status and the trading day: every reachable state satisfies the module's type
invariant.

**PortfolioLedger_proofs.** `RecordFillSound`, `RecordCloseSound`, `RoundTrip`:
the UPDATE statements keep available + allocated = total, and opening and
closing a position changes the row by exactly the PnL, for all integers.
`DrawdownNeverFalls`: `record_close` compares exact ratios but stores a rounded
one; a rounded quotient that exceeds the record never rounds below it.

The module also has what every ledger proof needs of `Total`, the sum of amounts
over a set of keys (`SumType`, `SumInsert`, `SumChange`, `SumBounded`,
`SumPlus` and others): a sum of integers is an integer, adding a
key adds its amount, changing one amount changes the sum by the difference,
amounts up to a bound add up to at most the bound times their number, and the
sum of the sums is the sum. `Total` is a fold of the community modules, a
recursive function over the subsets of the keys. No induction theorem can be
instantiated here, so these lemmas argue by the least counterexample: among the
finite sets without the property one has the smallest cardinality, and taking a
key from it leaves one that has the property. `SumScale`, `SumPositive`, `LeastExists`
and `GreatestExists` serve the weighted average of the signals in the same way.

**PipelineExecution_proofs.**
- `TypeCorrect`: one step per action; the lemmas about `FilledRow`, `Reconciled` and
  the ledger operators are stated apart.
- `WriteAheadHolds`, `RecordsTruthfulHolds`, `OcoBackedHolds`,
  `LedgerSoundHolds`, `AllocationBackedHolds`: under no assumption about failures.
  None of them is inductive alone. The argument ties a run's control state to the
  stores: a run past admission has its row; one that holds a fill has an
  execution; an execution never changes (`sent` is spent by it); and only a run
  that has placed its OCO still owes a position. The ledger needs one more
  observation: the debit is applied to the row as it is, and the database's CHECK,
  not the stale Python check, keeps `available` non-negative. What is allocated is
  at most what the positions cost, because a run's one step adds the same amount
  to both, or to the positions alone.
- `PositionsFundedHolds`, assuming `NoSlippage`: then the two are equal. The invariant
  (`FundedInv`) carries the balance check from admission to booking: the balance the
  session remembers covers the whole request at the entry, and the execution is a
  part of that request at no higher price, so `record_fill` cannot refuse it.
- `FillNeverForgottenHolds`, `LegalTransitionsHolds`, `Refinement`, assuming
  `Reliable`. The invariant adds that whatever the reconcilers look at is at rest:
  its run is done and no request is in flight, so the answer "not executed" stays
  true until the commit, and the row a verdict is written to is still in the status
  it was read in. An order that has expired is never answered with a fill, so
  that the exception in `FillNeverForgotten` is the only one. `Refinement` maps each
  step to `Intend`, `Execute`, `Settle` or a stutter; a reconciler's commit settles the set of orders it has verdicts for.

**ApprovalFlow_proofs.**
- `ApprovedFirstHolds`, `RecordsTruthfulHolds`, `LedgerSoundHolds`, whatever overlaps
  and fails. The first needs that what is SUBMITTED or in the executor's batch was
  approved, although the row may by then say something else; the second that the
  cycle has decided nothing (`outcome`) about an execution that does not exist; the
  third (`MoneyInv`) that what the cycle has debited so far is covered by the
  committed row, and that neither an order in the batch nor one it has decided on has
  a position yet, so that its commit adds each cost once.
- `PositionsFundedHolds`, assuming `NoSlippage`: the balance that the order on its way was
  checked against has not changed, since the cycle holds the portfolio's row.
- `Refinement`, assuming `Reliable` and `SentNotRefused`: the approvals implement
  `TradeLifecycle`, crashes included. The invariant (`Settling`) says of the batch
  that it has no order twice, that its rows are still SUBMITTED because the
  decider that could change them is the only one; and of each order that what the
  exchange may have done for it is in its row, or the row is still SUBMITTED, so that
  the next cycle polls it again and asks under the same client order id. A cycle's
  commit is one `Settle` of all the orders it decided on; a crash is a stutter,
  because it takes back only what was not committed.
- `RefinementUncrashed`: if nothing cuts a cycle short `SentNotRefused` need not be assumed. The
  invariant's clause for that case says that an order on the exchange is in its row,
  in the cycle's decisions, or about to be asked for, so that a cycle cannot meet
  one that it would refuse.

**PositionClose_proofs.**
- `TradedIffClosedHolds` for any monitors and requests; `ClosedOnceHolds` for any
  monitors without requests. The invariant says that the batches of two cycles are
  disjoint and hold open positions only: that is what `FOR UPDATE SKIP LOCKED`
  gives, and what a request that read without a lock breaks.
- `LedgerExplainedHolds`, without hypothesis: also positions closed twice are explained
  by their trades. The invariant (`LedgerInv`) is about `ledger`: it is the
  committed row with the closes of the one cycle that has flushed any, and the
  committed row itself when none has.
- `Refinement`: without requests the monitors implement `PositionBook`. A commit
  takes the flushed positions out in one step and returns their value with the sum
  of their profits; every other step leaves the book as it is.

**SystemStatus_proofs.** `BreakerAgreesHolds` and `TrippedBlocksHolds` for any
number of runs and every combination of faults. The invariant says that the row
lock is exclusive, that an evaluating run which has read the breaker clear sees
it still clear, and that the key is not set for nothing: no other run can trip
the breaker while one holds the lock. Both are about the time since the last
restart: that a trip is forgotten by one is section 7.

**TradingDay_proofs.**
- `HeldPositionsBounded`: by counting. A run is admitted when fewer positions than
  the limit are held and fewer runs than the overlap are under way; no other step
  makes the sum of the two grow.
- `SizingInBounds`: arithmetic of half-even rounding, then the least of the three
  quantities, for all amounts and limits.
- `OrdersInBoundsHolds`, `DrawdownLatchesHolds`: from the former, from
  `DrawdownNeverFalls` and from a type invariant, in which the exposure of a symbol
  is an integer because it is a sum of integers.
- `DayLossBoundedHolds`: the invariant (`DayInv`) splits the day's real profit into what the
  row still counts and what starts of the daily task took out of it. Each start takes
  out at most one allowance; the held positions and the orders under way carry at
  most one stop for each place that `HeldPositionsBounded` allows; and an order is
  admitted only while the counted loss is inside the limit, so that a close moves
  risk into loss and never adds to the sum.

**OrderDelivery_proofs.** `RepeatsUnansweredHolds`, `AnswersTruthfulHolds`,
`LimiterReopensHolds`, for any number of orders, retries and faults. Nothing is
assumed of the client order id.
- `RepeatsUnanswered`: the invariant (`Forgotten`) is about the requests that were sent
  and not refused, executed or not. Of a call that may still send one, all of them were
  given up but the one it waits for; of any call, all but the last. It is needed
  because a request may be executed long after its attempt was given up. A next
  attempt begins only after a refusal or a time-out, and an execution that is answered
  ends `submit`. And nothing is known of an order that the limiter has not let in.
- `AnswersTruthful`: an answer of a fill has an execution behind it, and a failure with
  executions was asked for before them, in vain or not at all (`excused`), or the
  query found one that expired.

**BackgroundTasks_proofs**, the signals.
- `RsiInRange`: the averages are a recursive function, of which it must first be shown
  that it exists (`AveragesExist`) and then that it stays in a set closed under a step
  of Wilder's smoothing (`AveragesWithin`), both by the least candle for which it
  is not so. With the averages natural numbers over a positive unit, the index
  lies between 0 and 100.
- `NoFallSells`: the same lemma with a smaller set, that of averages without loss.
- `CompositeSound`, for any number of generators and weights: a weighted average lies
  between the least and the greatest of the confidences (`AverageBetween`), and
  half-even rounding to the same precision does not leave that interval
  (`HalfEvenBetween`). The levels are the first leading vote's, and each generator's
  are on the right sides of the price (`VoteLevelled`).
- `OffersSoundHolds`: each generator's votes are well formed for every price series and
  prediction (`RsiWellFormed`, `SmaWellFormed`, `MlWellFormed`), hence so is what
  the scanners make of them.
- `SharedCountHolds`, assuming `MaxFailures >= 3`: in one `run_all` only the strategy of
  the scanned symbol can fail, once. The invariant (`CountInv`) is about its place
  among the others, which clear the count: if it fails last, the count leaves the scan
  at one, if it fails first in the next it reaches two, and the next success clears it.
  A limit of two would be reached.

**BackgroundTasks_proofs**, the live feed. `SilenceExplainedHolds`: a broadcast
remembers how many members it began with, and as long as nobody came or left the
set is that large; a task that is done was replaced by whoever connected since. `ShownOnceHolds`: while nobody came or left during a broadcast,
a browser that was shown the event has no socket left that is yet to be served.
That needs two more: a browser listens to one socket at a time, and events are
taken in order, so that nobody has seen one that is still queued.

**Model-checked only.** All liveness (`StuckResolved`, `UnbookedFillHalts`,
`ApprovedSettles`, `TriggeredCloses`, `StaleHalts`, `RunsEnd`, `ScannerGoesOn`,
`BrowsersReturn`): fairness and ENABLED are out of the prover's reach. Every safety
property of a passing run is stated by a theorem.

## 7. Where the code and its documents disagree

Shown by a run that TLC ends with a counterexample:

1. No signal is saved (`signals_lost`): `_save_signal` appends the event before the
   signal's INSERT has given it an id (`signal_scanner.py:129`; its docstring,
   line 28, says "Save generated signals to DB"). The shadow scanner does the same.

Visible in the models, without a run of their own:

*Orders and money*

- `record_fill`'s exception does not undo the position (`orchestrator.py:421`;
  `TUTORIAL.md:250`): `PositionsFunded` fails with the constants of
  `pipeline_faulty`.
- A query that fails cancels an order that was executed
  (`runtime_reconciler.py:164`, `binance_executor.py:112`): `FillNeverForgotten`
  fails with `QueryMayFail`.
- Overlapping decisions leave a terminal status (`approval_service.py:44`;
  `state_machine.py:42`): `ImplementsLifecycle` of the approvals needs
  `SerialDecisions`.
- A request closes a position a second time (`positions.py:60`;
  `TUTORIAL.md:741`): `ClosedOnce` fails with requests.
- The limit on open positions is checked before the commit that gives the lock
  up, so that runs may pass it together (`orchestrator.py:314`; `TUTORIAL.md:932`
  says otherwise): `PositionsBounded` is what holds instead.
- An order that expired after a part of it was executed counts as not filled
  (`binance_executor.py:166`): the reconcilers make it CANCELLED and the approval
  executor REJECTED, with coins bought, no position and no halt, also when every
  query answers. `FillNeverForgotten`, `UnbookedFillHalts`, `AnswersTruthful` and
  `TradeLifecycle` make an exception of it.
- Exceptions outside the tuple of `binance_executor.py:87` and line 90 (the server
  closes the connection, a payload that breaks off, a response that is no JSON) leave
  `submit` with neither a retry nor the query, although the order may have been
  executed: `AnswersTruthful` excuses them, and the approval executor writes
  REJECTED (`approval_executor.py:228`; `ErrorsEscape`).
- `newClientOrderId` does not protect a retry (`binance_executor.py:74` says
  "for idempotency"): Binance refuses a used id only while its order is open, and a
  market order is closed at once. An attempt that was executed and not answered is
  followed by one that buys again: `RepeatsUnanswered` is what holds instead.
- An OCO order whose response is lost is live while the position's `oco_order_id` is
  NULL (`binance_executor.py:223-233`): `RecordsTruthful` says only that an OCO that is
  named exists.
- With `SubmitMayOutlast` a run and the reconciler overwrite each other's
  terminal status (`orchestrator.py:325`); `LegalTransitions` and
  `ImplementsLifecycle` are therefore checked without it.
- The approval executor writes REJECTED over SUBMITTED
  (`approval_executor.py:127`), a transition `ORDER_TRANSITIONS` does not have.
- An order whose position row breaks a CHECK undoes its batch and is polled again for
  ever, with the orders behind it (`approval_executor.py:228`,
  `PositionRowRefused`). A market order that expired before it bought anything is
  enough: `submit` returns a fill of nothing (`binance_executor.py:250-252`).
- A second approval that overlaps the first writes SUBMITTED over an order that has been
  filled (`approval_service.py:44-46`); its exchange id keeps the poll from it
  (`approval_executor.py:86`), and it stays SUBMITTED.
- In a batch, a fill that `record_fill` refuses becomes REJECTED and keeps its
  position (`approval_executor.py:228`, outcome `"unfunded"`).
- After a crash between request and commit, the next cycle may refuse an order
  that was bought: its balance, market data or guard check comes before the
  exchange is asked (`approval_executor.py:164`; `TUTORIAL.md:621`).
- The limiter's 429 is raised after the commit of SUBMITTING and is not caught by
  `submit`; its window is fixed, not sliding (`rate_limit.py:3`), and one check
  covers every retry and the query. A Redis error at EXPIRE, or a crash before it,
  leaves the counter without an expiry (`rate_limit.py:30-32`; `cut`): once it is past
  its limit every submission is refused for ever.
- When connecting fails at the start, the runtime reconciler runs with an executor
  whose every query fails (`main.py:41,63`), and cancels whatever is stuck.
- A LIVE close sells nothing and leaves the OCO on the exchange (`positions.py:70`).

*Halts*

- A trip does not outlive a restart: the breaker is clear after one
  (`risk_manager.py:57`; `circuit_breaker.py:16-17` says "survives restarts").
- The executor reads the kill switch once per cycle (`approval_executor.py:75`),
  and the pipeline before it waits for the lock (`orchestrator.py:131`): a halt
  does not stop what has passed it.
- A start sets RUNNING whatever the status was (`main.py:58`; `TUTORIAL.md:770`).
- No endpoint resets the breaker (`system.py:74`; `DEPLOYMENT.md:135`):
  `CircuitBreaker.reset` has no caller, and is no action of the models.
- The drawdown rule never lets trading resume: nothing lowers the record it looks at
  (`max_drawdown.py:27`; `DrawdownLatches`).
- With Redis down the health monitor raises before it can halt (`health.py:89`; the
  docstring at line 29 says that it halts).
- Nobody writes `price:*` in this deployment (`BinanceWebSocket` and
  `SystemHealthMonitor` have no caller), so that the position monitor halts
  trading after five cycles with an open position.

*Signals*

- A prediction rejected for its missing features has the probability 0 and is
  read as a SELL with confidence 0.9 (`predictor.py:127,182`; line 4 says the
  predictor rejects it).
- In a market that stands still RSI is 100, a SELL (`rsi.py:105`; `NoFallSells`).
- `momentum.py:17` says "Only generates BUY", `ml_composite.py:3` "All three must
  agree": both sides are generated, and a silent generator does not object.
- Failures of all strategies are counted together and cleared by a `None` for another
  symbol (`runner.py:95`; `TUTORIAL.md:501`). With two models or more the count never
  reaches its limit; with one model nothing of that is claimed.
- The shadow scanner asks of every vote the levels of a BUY, so that it refuses
  every SELL (`ml_shadow_scanner.py:105`).

*Dashboards*

- Events of `prices:*` and `system:health` reach nobody: they are no valid channels
  (`binance_ws.py:170`, `health.py:142`).
- The service sends its subscriptions as JSON strings, which the endpoint's
  `startswith("subscribe:")` does not recognise.
- A browser that connects or leaves during a broadcast silences every dashboard until
  somebody connects after the listener's task is done (`ws_manager.py:72`); one that
  connects while it still closes is silent with the others
  (`ws_manager.py:54,112-114`; `SilenceExplained` says for whom).

## 8. Not modelled

`PROJECT.json` lists every component with its status. Left out:

- *Without a caller in the application*, and so no action: `BaseExecutor.cancel`,
  `CircuitBreaker.reset`, `SystemHealthMonitor`'s loop and `resume`,
  `BinanceWebSocket`, the market-data limiter, `StrategyRunner.reactivate`.
- *The event store's sequence numbers*: max + 1 under a unique index. In every
  modelled path one transaction at a time appends to an aggregate, or the append
  fails earlier (`signals_lost`).
- *Numeric processing without shared state*: features, labels, training,
  backtests, analytics and comparison reports. A model's probability is a free
  choice in `SignalVotes`.
- *Notifications and logging*: their failures are swallowed where they are called.
- *Configuration, security, schemas, read endpoints*: no state of their own.
- *Pages and one-off scripts*: clients of the API. Of the migrations the CHECK
  constraints are modelled, of the frontend its WebSocket service, of the scripts
  what `start_paper_trading.py` starts.

## 9. Running

`tlc -config PipelineFaulty.cfg MCPipelineExecution` checks one run; the module of
each is in `PROJECT.json`. `tlapm PipelineExecution_proofs.tla` checks the
proofs of a module. The largest run, `pipeline_faulty`, has about 790 000
states; none takes much more than a minute and a half.
