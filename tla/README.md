# QuantBridge: a TLA+ verification project

QuantBridge takes a trading strategy (Pine Script or Python), backtests it in
Celery workers, and trades it on an exchange through orders, a private
websocket stream and a set of recovery jobs that beat starts. All of the
program's own state machines are in `src/apps/api/src` (Python, FastAPI,
SQLAlchemy, Celery); `src/apps/web` is the user interface.

This directory holds TLA+ models of those state machines, the TLC
configurations that check them, and proofs that TLAPS checks. File names below
are relative to `src/apps/api/src` unless they start with `docs/`.

## 1. Inventory

One row per component: the state it keeps, its operations, what is hard, and
what makes it correct. `PROJECT.json` lists the same components with their
modules, and the hazards with their lines.

| Component | State | Operations | Hard behaviour | What makes it correct |
|---|---|---|---|---|
| **Order ledger** `trading/repositories/order_repository.py`, `tasks/trading.py`, `tasks/orphan_scanner.py`, `tasks/conditional_entry_janitor.py`, `trading/services/websocket_order_event_service.py`, `websocket_reconciliation_service.py` | `orders` rows (state, exchange id), the gauge `qb_active_orders`, the exchange's own record, Celery messages | save, claim, send, attach id, poll, cancel, stream event, reconcile, scan, sweep | at-least-once delivery, seven actors that may record one end, answers lost, crash between commit and call | one `create_order` per order; ledger and exchange never contradict each other; one winner runs the side effects; ends are final; nothing stays pending |
| **Order admission** `trading/services/order_service.py`, `common/redlock.py` | idempotency key, advisory lock, Redis lock | execute: gates, lock, look up, INSERT | gates read before the lock, two requests with one key, Redis down | at most one order per key; a replay answers with the first order; every insert passed the gate |
| **Kill switch** `trading/kill_switch.py` | kill switch events | ensure_not_gated, trip, resolve | trips while an order is between gate and INSERT; two trips at once | while an event is active nothing new passes the gate |
| **Live signals and outbox** `tasks/live_signal.py`, `trading/repositories/live_signal_*` | session rows, claimed bar, report, Redis lock, outbox events | claim a bar, evaluate, defer a resync, count strikes, write events, dispatch, retry, mark | a lock that expires under a slow worker, a claim another worker overtakes, duplicate delivery, failure after the order was created | no bar is lost; an ended session is silent; an event leads to at most one order and its status says so |
| **Live session registry** `trading/services/live_session_service.py`, `account_exclusivity.py` | sessions, advisory locks of user quota and of position | register, deactivate, admit an entry, re-check before sending | checks before awaits, two registrations at once, rows of several users for one exchange account | the quota holds; a code session trades its position alone |
| **Accounts** `auth/service.py` | users, their sessions and orders | deactivate_account | requests and workers in flight | nothing starts or is sent for a user who left |
| **Conditional entries** `trading/services/conditional_entry_planner.py`, `tasks/conditional_entry_recovery.py`, `tasks/live_signal.py`, `tasks/conditional_entry_janitor.py` | resting stop entries, market conversions | the tick (rows, open orders, position, price; cancel, place), recovery, sweep, janitor | five reads that are never of one moment, an entry that fills while it is replaced | no entry is taken twice; a stopped session leaves nothing resting |
| **Code strategy risk** `trading/services/code_risk_*.py`, `native_sl_observation_service.py`, `code_order_observation_service.py` | risk ledger row with a revision, command outbox with leases, exits | intent, fills by stream and REST, reconcile, drain of commands, native stop | old reads judged against a newer ledger, commands retried, exits reported twice and late | the next entry waits for a clear exchange; a close ends flat or locks the account |
| **Closed P&L** `tasks/trading.py`, `trading/providers.py`, `exchange_exit_repository.py`, `code_pnl_evidence_service.py` | amount, evidence and conflict of an order; table of exits; retries | refresh after a fill, sweep, backfill, resync, observe a native child | rows that settle late or are shown anew, overlapping sweeps, incomplete reads | a code order's amount rests on one row and nothing else; every amount ends as what the exchange lists |
| **Private stream** `tasks/websocket_task.py`, `tasks/_ws_lease.py`, `tasks/_ws_circuit_breaker.py`, `trading/websocket/bybit_private_stream.py` | lease per account, circuit breaker, supervisor | acquire, heartbeat, lose, reconnect, reconcile | the lease expires under a slow holder, a supervisor that ends alone | one holder acts on a lease it owns; one stream remains |
| **Backtest job** `backtest/service.py`, `backtest/repository.py`, `tasks/backtest.py` | `backtests` rows, trades, the task id, the worker's cached row object | submit (Pine, code), cancel, delete, run, reclaim, push | publish before commit, revoke against a running worker, guards on a stale object, reclaim of a live job | one execution; trades exactly with `completed`; an accepted cancel sticks; a started job ends |
| **Optimizer job**, **stress test job** `optimizer/`, `stress_test/` | their rows | submit, run, reclaim | publish before commit, reclaim against a slow worker | a begun run ends, once |
| **Pine engine** `strategy/pine_v2` | open trades, brackets, resting orders, queued intents | entry, close, exit, cancel, fills, liquidation, seed; signals and targets of a live replay | reservations of partial exits, ids that are used again, fills the exchange made on its own | brackets fit their trades; the exchange follows what a replay publishes |
| **Entry completeness** `trading/entry_completeness.py` | none: a report over order rows | count attempts, episodes under two rules, channels of loss, the most that rested | rows that end between two reports, partial fills kept by a cancelled row, failures that never reached the exchange | the layers agree; what is settled stays |
| **Trailing stop** `tasks/trading.py` | the retries of `place_trailing_stop`, `filled_at` of the order | send after the fill, look, set, retry, give up | the position is closed or is another one by the time of the call, a fetch that misses it, a crash before the acknowledgement | no other entry gets the stop, and the own one never goes without it in silence |
| **Realtime fan-out** `realtime/manager.py` | connections, subscriptions | connect, subscribe, publish, drop | a connection drops while it is sent to | nobody gets another user's events |
| **Rate limit** `common/rate_limit.py` | counters in Redis | hit | Redis down | the limit holds |
| **Webhook secrets** `trading/services/webhook_secret_service.py` | secrets with a grace period | rotate, verify | rotation while a call is in flight | the old secret works in the grace period only |
| **Waitlist** `waitlist/service.py` | entries | approve, invite | approved twice | one invitation |
| **Migration lock** `scripts/run_alembic_with_lock.py` | advisory lock | migrate | two deployments | one migration at a time |
| **Backtest engine** `backtest/engine`, `strategy/code_runtime` | the plan of stop, half target and trailing stop; the ledger that books it; arrays of a run | open, replay a candle, book, queue | two orders of the prices in a candle, a shortcut that walks neither, three copies of what is left | the shortcut gives what the paths give; executions are prices that were traded; the copies agree |
| Sandbox, market data, narrative, notifications, health, worker loop, web front end | | | pure I/O, external services or user interface | not planned |

### How the components meet

`register` admits a session under the locks of quota and position; beat then
evaluates it every minute. The evaluation of a bar claims it, replays the
strategy in the Pine engine, stores the signals of the bar as outbox events and
reconciles the resting entries with what the engine published; the dispatch task
hands an event to `OrderService.execute`, as does a webhook from the API
process. `execute` asks the kill switch, inserts the order row and publishes an
execute message. From there the order ledger takes over: a worker claims the
row, calls the exchange, stores the exchange id and starts the watchdog; the
private stream (held by whoever has the account's lease), the reconciliation
after a reconnect, the scanner, the janitor and the cancel task all write the
same row through conditional UPDATEs. The end of an order decrements a gauge and
enqueues the follow-up jobs: the trailing stop and the refresh of its amount,
which feeds the kill switch's evaluators. A code session trades through a risk
ledger and a command outbox of its own instead of outbox and planner. Backtests
and the jobs made of them share with this only the Celery configuration (late
acknowledgement, redelivery) and beat.

## 2. Plan

| # | Module | Models | Status |
|---|---|---|---|
| 1 | `OrderLifecycle`, `OrderLedger` | the order ledger, abstract and detailed | done |
| 2 | `BacktestLifecycle`, `BacktestJob` | the backtest job, abstract and detailed | done |
| 3 | `OrderAdmission` | `OrderService.execute` and the kill switch | done |
| 4 | `SignalOutbox` (extends 3) | outbox and dispatch task of live signals | done |
| 5 | `SessionRegistry` | registration, exclusivity of a position, quota, withdrawal of an owner | done |
| 6 | `BarEvaluation` | evaluation of a bar: Redis lock, claim, deferral, strikes | done |
| 7 | `ConditionalEntries` | planner, recovery, sweep and janitor of resting entries | done |
| 8 | `StreamLease` | lease per account, circuit breaker, supervisor | done |
| 9 | `CodeRisk` | risk ledger and command outbox of code sessions | done |
| 10 | `ResearchJob` | optimizer and stress test jobs | done |
| 11 | `PineBroker` | the broker of the Pine engine and what a live replay publishes | done |
| 12 | `ClosedPnl` | the amount of an order: refresh, sweep, evidence | done |
| 13 | `TrailingStop` | the task that sets the trailing stop of an entry | done |
| 14 | `SwingRisk` | plan, replay and ledger of a code backtest | done |
| 15 | `EntryCompleteness` | the report of what a session lost of its entries | done |
| 16 | small ones: webhook secrets, realtime fan-out, waitlist, rate limit | | open |

Abstract specifications: one per row whose life several actors move (order,
backtest). Each detailed module states its refinement as a property
(`LifecycleSpec`).

Theorems: done are the safety and action properties of all passing runs, and both
refinements (section 5). Next: those of the modules still to come.

Safety, refinement and liveness of a component share a run wherever the state
space allows it, and components that share no variable are checked side by side
in one run (see `MCServices`). Each disagreement with a document has its own.

## 3. Modules

Every module cuts a handler where the code awaits something that another
process can overtake, and nowhere else: a conditional UPDATE with its commit is
one step, a read followed by an UPDATE is two. A handler in progress is a record
(`hand[a]`, `call[p]`, `task[w]`, `request[r]`, `tick`, `drain[d]`, `sweep[s]`);
its `pc`, `at` or `step` names the last thing it did.

Above some definitions stands a second one of a similar name that no action
uses (`ClaimableTwice` above `Claimable`). It is the mistake that the mutant of
`PROJECT.json` swaps in to show that a property notices it.

### OrderLedger

| State | Code |
|---|---|
| `state`, `hasId` | `orders.state`, `orders.exchange_order_id IS NOT NULL` |
| `conditional` | rows with `trigger_price`; chosen at the start, so both kinds are covered |
| `exchange` | what the exchange would answer: absent, open, or how it ended |
| `queue` | Celery messages `execute_order`, `fetch_order_status`, `cancel_order` |
| `hand` | the task, stream handler or request an actor is in; `saw` is the id the janitor read, `answer` what the exchange said |
| `request` | the tail of `OrderService._execute_inner`: saved, counted, dispatched |
| `events` | order events on the private stream |
| `gauge`, `drift` | `qb_active_orders`, and the updates crashes have cost it |
| `creates`, `effects`, `misreported` | history |

Actions follow the functions: `Pick`, `PassChecks`, `RefuseBeforeClaim`,
`ClaimOrder`, `RefuseAfterClaim`, `CreateAccepted`, `CreateRefused`,
`RecordReceipt`, `StartWatchdog` are `_execute_with_session`; `FetchAnswered`,
`RecordFetch`, `RetryOrGiveUp` the watchdog; `CancelAtExchange`,
`RecordCancel` the cancel task; `ScanPending`, `ScanSubmitted` the scanner;
`StartJanitor`, `ProbeByClientId`, `RecordProbe` the janitor; `HandleEvent` the
stream; `StartReconcile`, `FetchSnapshot`, `RecordSnapshot` the reconciliation.
The conditional UPDATEs are operators of their own (`TransitionToFilled`, ...);
whoever wins one goes to `won` and owes the side effects (`RunEffects`).

Partial fills and quantities are left out: `filled_quantity` changes no state
and no guard here. A receipt of the exchange that neither says filled nor
rejected counts as submitted, as in `_map_ccxt_status`.

`AllowStall` says whether a worker may hold a claimed order for longer than the
30 minutes after which the janitor may look at it. Without it the guarantees are
stronger (`LiveIsTracked`); with it the janitor can reject a row whose
`create_order` is still under way, and what remains true is checked by `books`.

### BacktestJob and ResearchJob

| State | Code |
|---|---|
| `status`, `started`, `taskId`, `trades` | the `backtests` row and its trades |
| `request` | how far `submit` came: published (Pine) or committed (code), dispatched, done |
| `cancel` | a cancel request between `revoke` and its UPDATE |
| `queue`, `revoked` | broker messages, the workers' list of revoked tasks |
| `hand` | a worker's job; `seen` is the status in the row object of its session |

`Reread` is the heart: `get_by_id` inside the task returns the object the
session already holds (`expire_on_commit=False`, no `populate_existing`), so
guards #2 and #3 see the status the worker itself wrote last, not what a cancel
committed. Only a deleted row is noticed.

`LifecycleSpec` promises that an accepted cancel ends in cancelled and in nothing
else. This is what the code, the docstring of `reclaim_stale` and its tests say;
`docs/domain/state-machines.md` says otherwise (see "Read, but not made a finding").

`ResearchJob` has the two jobs that start from a completed backtest
(`rowStatus`, `submitted`, `broker`, `holding[w]`). Both publish before they
commit, know no cancel, and write only by conditional UPDATEs. The age for
`ReclaimResearch` is left out except for its consequence: the hard limit of an
optimization (660 s) ends its worker long before the reclaim looks (1800 s), so
only a stress test may be reclaimed under a worker that still computes.

### OrderAdmission and SignalOutbox

`OrderAdmission` is `OrderService.execute` for calls with an idempotency key. A
call without one takes no lock and looks nothing up, so it never meets another;
the flatten of `close_service.py:201` is such a call, and skips the gates of
leverage, size and notional besides (`order_service.py:275`).
`call[p]` walks `begun`, `gate`, `evaluate`, `lock`, `locked`, `inserted`,
`committed` to an outcome. The advisory lock is a variable because it lives from
`pg_advisory_xact_lock` to commit or rollback. The Redis lock around it is not
modelled: a caller that fails to get it runs all the same, so it excludes
nothing, and nothing may rest on it. The gates are modelled by their outcome
(pass, final refusal, error), the evaluators by their answer (any, at any time).
One strategy and one account: every unresolved event gates every call.

`SignalOutbox` extends it with the callers of the dispatch task: `Emit` and
`Enqueue` (evaluation and beat), `Deliver` (with the status guard),
`RecordSuccess`, `RecordRefusal`, `RetryOrGiveUp`, `Crash`. All checks of the
dispatch task before `execute` that mark the event failed are the `rejected`
outcome of `Check`: both end in the same conditional UPDATE.

### SessionRegistry

| State | Code |
|---|---|
| `ownersUp` | `users.is_active` |
| `sessions` | rows of `live_signal_sessions`; `unfinished` says whether the risk row of a code session is |
| `entries` | orders that are not reduce-only: pending, submitted, and sent or not |
| `quotaLock[u]`, `symbolLock` | `pg_advisory_xact_lock` of `live_session_quota:<user>` and `code-position:<scope>:<symbol>` |
| `request[r]` | an API request or a worker's task: `register`, an entry, a preparation of a code entry, a send |

A request keeps its locks from where it takes them to its commit. The owners'
account rows stand for one exchange account (`exchange_uid`), which is the scope
of the second lock. `Withdraw` is `deactivate_account`: it takes neither lock.

### BarEvaluation

| State | Code |
|---|---|
| `active`, `offReason`, `lastEvaluated` | columns of the session row |
| `report` | the strikes, deferrals and gaps that the state row carries from bar to bar |
| `signalEvents` | bars that have a row in `live_signal_events` |
| `evalLock`, `rowLock` | the Redis lock with its TTL; the row lock of an uncommitted claim |
| `task[w]` | the evaluation and what it has read |
| `passedOver`, `verdict`, `overlapped` | history: bars passed over on purpose, what each bar was judged, a lock lost under its holder |

`Claim` is the conditional UPDATE that is the authority when the lock failed; it
waits for `rowLock`, and claim, events, report and every deactivation commit
together in `CommitBar`. `DeferResync` writes a report without a claim. `CatchUp`
is the five minutes up to which missed bars are caught up, in bars: 0 for sessions
of 15 minutes or an hour, for which every bar after the first is a resync.
`SecondStrike` leaves out two branches for reports and intervals that no session
has any more: a strike stored without its bar time, which counts whatever its age,
and an interval of unknown length, for which the age is not asked.

### ConditionalEntries

One trade id of one session. `tick` walks through
`_reconcile_conditional_entries`: the rows, the open orders, a probe of the
unknown ones, position and price, then its cancels and the one placement its bar
allows (`stops[b]`, or `markets[b]` when the level is breached already). In
between workers send (`WorkerStep`), the exchange triggers (`TriggerStop`), the
stream writes back (`StreamEnd`), the sweep of a stopped session and the janitor
collect (`SweepStop`, `JanitorStop`), and a stop refused as breached goes to
the recovery task (`CheckRecovery`, `PlaceRecovery`). `midair` remembers that a
tick or a recovery ran while a conversion was neither in a row nor in the
position.

### StreamLease

`leaseKey` is the Redis lease (or the lease of a dead holder, `Ghost`),
`streamStep[w]` the task of a worker, `supervisorUp[w]` its websocket
supervisor, `leaseLost[w]` the event its heartbeat sets, `blocked` and
`failures` the circuit breaker. A TTL is an action of its own (`LeaseExpires`,
`BlockExpires`, `FailuresExpire`): a holder with a late heartbeat does not know.
`RecordAuthFailure` and `RecordNetworkFailure` are the helpers of the breaker with
the Redis failures they pass over: the block may be set with the count left, the
count may pass the threshold without a block, and nothing may be recorded.

### CodeRisk

| State | Code |
|---|---|
| `riskLedger` | the `LiveRiskState` row: generation, position, plan, blocked, unsettled, exits |
| `riskOrders` | the orders of the generation, our row and the exchange's state of each |
| `riskCommands` | `code_risk_commands` by key, with their leases |
| `drain[d]` | a drain and what it fetched before its next write |

The handlers of `CodeRiskService` are operators on the ledger record
(`EntryFill`, `ExitFill`, `Reduced`, `Settle`, ...). A handler that loses the
compare and swap on the revision changes nothing and is called again, so a
handler is one step; a drain is cut at each call to the exchange, and between the
commit of a child's row (`SaveChild`) and its sending (`SubmitChild`). `MarkPrice`
is `mark_price`: the price that moves the stop, upon which a new token of the
protection is wanted though nothing was filled. A drain in flight lives through the
preparation of the next entry with what it has fetched (`Survivor`); a command of
the old generation that it still carries out touches nothing of the new one.

### ClosedPnl

`priced` is the order row with its amount, evidence and conflict; `listing` what
the exchange shows of it now, `exitRows` what the sweep has stored; `refresh`
and `sweep[s]` the two tasks. `Marked`, `Backfilled`, `Resynced` and
`Witnessed` are the UPDATEs of `order_repository.py`, `CodeApplied` the service
that combines them. Two sweeps may overlap: beat does not wait for the last one.
The age of rows is one flag, `windowOpen`: the seven days of a read.

### PineBroker

`open`, `exits`, `orders` and `intents` are `open_trades`, `pending_exits`,
`pending_orders` and the queued market orders of `StrategyState`; `stage` is
where the bar loop is. A call of the script is an action (`EntryCall`,
`ExitCall`, ...), as is each fill. `due` is what the signals of the bar add up
to, `shown` what the last evaluation published of its resting entries, `venue`
the position of an exchange that executes exactly that. Prices are left out:
which orders trigger is open, only the loop's order of phases is kept.

### SwingRisk

| State | Code |
|---|---|
| `swing` | the ledger of `run_code_backtest`: side and quantity of the episode, and the `RiskState` of its plan |
| `queued` | `pending`, the answer of the code at the last close |
| `minuteNo` | where `_execute_bar` is in the minutes of a bar |

`Minute` is one call of the bar's loop: what was queued executes at the open,
then `replay_candle` runs and the ledger books its events one by one.
`Replay` keeps the structure of the code: the candle that touches nothing, the
candle that only draws the stop, and otherwise `BothPaths` (high first, low
first; the poorer one is booked). Prices are integers on a scale on which the
ratios of the policy (1.1, 1.5, 2, one half) are exact.

### TrailingStop

| State | Code |
|---|---|
| `tick`, `netPosition` | the time and the position at the exchange; `of` says whose it is, which the code cannot see |
| `intent` | the distance of the order: valid, refused by the exchange, or not supported by the provider |
| `trailFilledAt` | `filled_at`: the clock of the worker that recorded the fill |
| `trailTask` | the Celery message with its retries and delay; `saw` and `stamped` are the answer of `fetch_position` |

`TrailLook` and `TrailSet` are the two calls of the task to the exchange;
between them, and at any other time, the position may close and another open. A
position of another entry is told from the own one by its side and by the time
it was opened, compared with `trailFilledAt` and the tolerance of the code.

### EntryCompleteness

`tried` are the rows of one trade id that `list_entry_attempts` returns, and they
go on living while reports are made. A report is not an action: `Layer`, `C1`,
`C3` and `Peak` are functions of the rows, as `build_report` is. Loops over rows are
folds with the state of the code's loop: `Cut` keeps the episodes that are done and
the one under way, `Events` is the sorted list of what opens and closes, and
`Concurrent` counts along it. The code also
defers a row that ended before the window and one without `terminal_at`; the model
has neither. The texts of
refusals are abstracted to what `classify_rejection_origin` and the table of codes
tell apart.

### Compositions: MCServices, MCBooks, MCJobs, MCRisk

These four check components side by side. A behaviour picks one of them at the
start (its focus) and leaves the others in their initial state; they share no
variable, so the states of such a run are those of each component's own
specification, one after the other, never their product. Fairness and liveness
are stated for the component in focus: `ServicesSettle`, `TracesSettle` and `JobsEnd` are the
conjunctions of what each must bring about. Nothing is shown about an interplay of
these components; where components do interact the model has both in one module
(`SignalOutbox` on `OrderAdmission`, the stream and the exchange inside
`OrderLedger`, the entries and sessions of `SessionRegistry`).

## 4. Runs

| Run | Instance | Shows |
|---|---|---|
| `ledger_race` | 1 order of either kind, 2 workers, stream, API, 2 watchdog attempts, 2 faults | `TypeOK`, `ExchangeAgrees` (`FilledAtExchange` and `LiveIsTracked`), `EndCountedOnce`, refinement of `OrderLifecycle` |
| `ledger_live` | 1 worker, 1 attempt, 1 fault, the owner leaving, fairness | `LedgerSettles`: `PendingLeaves` and `KnownEndIsRecorded` |
| `books`: ledger | 1 order, 2 workers, 1 attempt, 1 fault, the owner leaving, stalled workers | `BooksTypeOK`, `AtMostOneCreate`, `CancelledIsNotLive`, `TerminalIsFinal` |
| `books`: engine | 2 trade ids, 2 exit ids, quantities -1 and 2, pyramiding 1, 2 bars of 2 calls, all fill modes, replay from bar 1 | `BracketsFit`, `VenueFollows` |
| `books`: code | 10 prices, entries at 100, reference extremes 80, 120 and 160, 2 units, 2 minutes per bar, 2 entries | `ReplayRight` (`ShortcutExact` and `ReplayFair`), `CopiesAgree` |
| `books`: entries | 2 orders of any kind, a window of 2 instants and its end, every end of an order | `LayersAgree`, `SettledStays` |
| `jobs`: backtest | a Pine and a code job, 2 workers, 1 fault, fairness | `JobsTypeOK`, `PushAtMostOnce`, refinement of `BacktestLifecycle`, `JobsEnd` |
| `jobs`: research | an optimization and a stress test, 2 workers, 2 faults, fairness | `JobsEnd` |
| `outbox` | 1 event, 2 workers, 1 API client with 2 payloads on a key of its own, 1 retry, 1 fault, fairness | `TypeOK`, `OneOrderPerKey`, `InsertedWasGated`, `AnswerFits`, `DispatchedHasOrder`, `EventEndIsFinal`, `PendingSettles` |
| `services`: stream | 2 workers, threshold 3, 2 queued deliveries, 4 faults | `ServicesTypeOK`, `ReleasedByHolder`, `ServicesSettle` |
| `services`: bar | 2 workers, 4 bars, catch-up of 1 (and 0, by hand), 1 deferral, strikes within 2 bars, 2 faults | `NoBarLost`, `OffIsSilent`, `DirectionNeedsTwo`, `ServicesSettle` |
| `services`: registry | 2 owners of one exchange account, 2 strategies, 2 sessions, 2 entries, 2 requests, quota 1 | `AdmissionHolds`: `QuotaHolds` and `CodeAlone` |
| `services`: entries | 2 ticks, levels 1 and 2, 1 fault | `DoubledOnlyMidair`, `ServicesSettle` |
| `risk`: position | 1 drain, an entry of 2 units, 1 generation and the start of the next, a price moves the stop until 2 tokens are out, 1 fault | `TracedTypeOK`, `EntryOnlyWhenFlat`, `CloseEndsFlatOrLocked` |
| `risk`: amount | 2 rows of the exchange, one of which fits, 2 sweeps, 1 retry, 1 fault | `PnlProven`, `TracesSettle` |
| `risk`: trail | 3 retries, 2 of them for a position that is not seen, tolerance, clock skew and base delay of 1 tick, a lag of 4 ticks, 6 instants, 2 faults | `TrailFits`, `TracesSettle` |
| `ledger_refusal`, `backtest_queued`, `stream_auth`, `risk_flat`, `owner_gone` | findings | see below |

**Why the bounds are enough.** No handler of the ledger reads or writes a second
order row, and the exchange keeps no state across orders, so one order shows all
races on an order; the gauge is a sum over rows. Two workers are what the races
need: every one of them is between one handler that has read and another that
writes, and stream, API process, exchange and beat come on top. Two watchdog
attempts cover the retry and the giving up; one fault and one retry cover a
fault during a recovery, two faults a fault during the recovery from the first.

- *Jobs*: one job of each kind covers both orders of publish and commit, and the
  workers are shared between them.
- *Outbox*: the conflict needs a key with two payloads, the race on a key two
  workers.
- *Stream*: the block needs three failures in a row; with four faults it is
  reached and a lease is lost besides. A third delivery would be refused at the
  lease like the second.
- *Bars*: a gap longer than the catch-up, its deferral, its resync and the bar
  after it need four; a first strike two bars old and one older both fit. With
  `CatchUp = 0` every bar is such a resync; the theorems cover it, and the run
  passes with it too when the value is changed in `MCServices.cfg`.
- *Registry*: exclusivity is between two sessions or a session and an entry,
  the quota of one is reached by two registrations.
- *Entries*: an older and a newer order of the same trade id need two ticks.
  Two levels above the price make one breached and the other not.
- *Position*: a half can be taken of two units; the second generation is cut at
  its preparation, which is what `EntryOnlyWhenFlat` speaks of (that a drain lives
  through it matters to later generations, which the theorem covers). Two tokens
  are one protection that is being applied and one that replaces it. One drain races
  with stream, exchange and intents, and a command it left in its death is run
  by the next (`LeaseEnds`); two drains at the same time are not in the run,
  their state space does not fit it.
- *Amount*: two rows are what a conflict, a split and a revised row need; an
  account whose pages never end would be an unbounded fault and is bounded by
  one.
- *Trail*: a skew and a tolerance of one tick put a position opened after the
  fill on either side of the comparison; a lag of four is what two looks with
  growing delay outlast at most; all is due at the last instant, so the bound on
  time shortens delays and never cuts off a retry.
- *Code*: the ten prices lie below, at and above each threshold of a long and a
  short plan of either risk (stop, entry, half target, activation, the stop drawn
  behind a run), and every candle over them is tried against every plan reached.
  Two entries are a position and the opposite one that replaces it.
- *Report*: two orders are what an episode needs to be cut, joined or opened
  again, and two instants before the end of the window what the events of one
  moment and of two need.
- *Engine*: two ids give opposite and equal entries under one id and another;
  with the quantities 1 and 2 an exit takes a part or all. What is placed in one
  bar triggers in the next at the earliest, so two bars are the shortest life;
  the second bar of a replay follows its epoch.

`MaxFaults` and its like bound crashes, lost messages, lost answers, lost locks
and provider failures; refusals, cancels, redelivery, losses of stream events
and the exchange's own moves are not bounded; only a price moves the stop of a code
session no more once `MaxTokens` tokens are out. `MaxAttempts`, `MaxRetries`,
`MaxRefreshTries`, `CatchUp`, `MaxDefers` and `SessionCap` are constants of the
code taken smaller, as is `StrikeMaxBars`; `FailureThreshold` has its value.

Deadlock is not checked: a system whose orders, jobs, sessions and events have
all ended stops, and is meant to.

**Fairness** and what justifies it. A Celery worker that took a task runs it to
the end (WF on the worker's steps; where a worker's own process dies the
`Crash` action says so). A message in the broker is taken in the end: the list
is first in, first out, and other messages may be taken first but not for ever
(SF on delivery, because a worker may be busy whenever one looks). Beat starts
its jobs again and again (WF or SF on scanner, janitor, reclaim, outbox beat,
stream reconcile, evaluation, sweep, the five second recovery of code sessions),
per `beat_schedule` in `tasks/celery_app.py`. Redis expires the key of a holder
that is gone and the block of an account. The stream's and the API's handler in
progress goes on. A market order at the exchange is filled or ended (used only
by `CloseEndsFlatOrLocked`). The executor of an optimization or a stress test
ends, by its time limit if by nothing else. For the trailing stop time passes and
a task that is due is taken (one condition, as the instants are bounded). Nothing is assumed of users, of
event delivery, of reconnects, of other moves of the exchange, of the process
that saved the order, of API clients, of the refresh of an amount or of what the
exchange lists. So `KnownEndIsRecorded` holds with the stream silent, and the
closed P&L settles with the refresh lost. Crashes, lost messages and provider
failures are in no fairness condition, or the condition says that the fault counter
is unchanged, so that a fault is not the step a process owes. Two modules have
faults among the steps they owe: a lost answer, a failed poll, cancel or probe in
`OrderLedger`, a broker that refuses the dispatch in `OrderAdmission`. There the
fault does count as the step, which assumes less of the code, and the bound on
faults ends it.

### What holds only under a condition

- `LiveIsTracked` and the refinement hold while the owner stays and no worker
  stalls for 30 minutes. `ledger_refusal` shows the first condition is needed.
- `LiveIsTracked` excuses orders the exchange misreported (an error for an order
  it took; absent for an order it has). The code has no recovery for them
  beyond alerts.
- `KnownEndIsRecorded` speaks of rows whose exchange id is known. A plain
  submitted row without one (crash between claim and attach) only raises an
  alert: the scanner leaves it to an operator on purpose.
- `PushAtMostOnce` is an upper bound. A reclaimed job and a job whose worker
  dies between commit and push end without a push.
- `DoubledOnlyMidair` excepts a market conversion in flight: it is in no row the
  next tick reads, and the check for recent conversions holds no lock, so an
  entry can be doubled beside it.
- `DirectionNeedsTwo` is exact as long as no evaluation outlived its lock.
  Otherwise an old report may be read late or written back by a deferral; an
  earlier wrong bar within the limit there still is.
- `CloseEndsFlatOrLocked` allows the end that `risk_flat` shows: a position left
  under a ledger that is flat, with the account locked for an operator.
- `VenueFollows` is about fills at the close of the bar and leaves out bars in
  which two resting entries fill, a seed, and strategies that the engine refuses
  as unfit for live trading. See "Read" below for `next_bar_open`.
- `TrailFits` names the windows the code leaves: another position that was opened
  within the tolerance of the recorded fill (or a fill recorded late), a position
  without a time, and a position that changed between look and call. The other
  half, that the own position is not passed over, assumes that clocks differ by no
  more than the tolerance, that the looks outlast the lag of a fetch, and one-way
  mode.
- `PnlSettled` asks of a code order only while its rows are within the seven
  days of a read; afterwards an amount may stay an estimate.

### Findings

- **RefusedUnsent** (`tasks/trading.py:367`). The refusal for an owner who left is
  meant to come before anything was sent; with two deliveries of the message the
  second refuses a row the first has sent, because `transition_to_rejected` also
  accepts `submitted`.
- **QueuedIsEnqueued** (`backtest/service.py:292`). A Pine backtest is published
  before its row is committed; a worker that is faster drops the message and the
  row stays queued.
- **RefusalIsTold** (`trading/websocket/bybit_private_stream.py:306`). A reconnect
  that is refused ends the supervisor without an exception; the callback looks
  for one and does not wake the task, which keeps the lease without a stream,
  and beat passes over an account that has a lease.
- **CloseEndsFlat** (`trading/services/code_risk_venue.py:87`). The position is
  fetched, then the ledger is read again. A fill booked in between is answered
  with "flat": the ledger is set to zero while the exchange holds the position,
  and asks for no reduction any more.
- **WithdrawnIsSilent** (`trading/services/live_session_service.py:214`). A
  registration that was under way when its owner withdrew inserts an active
  session afterwards.

### Read, but not made a finding

- `docs/domain/state-machines.md` gives a cancelling backtest a second way out, to
  failed: when `finalize_cancelled` finds no row (lines 21, 33, 35 and 47), and in
  the stale reclaim, which is to handle it like a running one (line 77; line 76:
  FAILED with `stale_reclaimed`). The code has neither. All callers
  ignore the row count (`backtest/service.py:434` and the five after it), and
  `reclaim_stale` (`backtest/repository.py:467`) writes cancelled, as its
  docstring says and `tests/backtest/test_repository.py:178` asserts. Code,
  docstring and test agree, so `LifecycleSpec` states what they say; it does not
  hold of the program that the document describes.
- `fail(where_status=QUEUED)` before the claim returns on zero rows without
  `finalize_cancelled`, although `docs/domain/state-machines.md` asks for it; the
  stale reclaim ends such a row (`JobsEnd`).
- A crash after the commit of a fill loses its hooks: nothing repeats them,
  though `tasks/trading.py:1238` says they run exactly once.
- Guard #2 of a backtest reads the session's own row object and starts the engine
  of a cancelled job; the conditional `complete()` throws the result away.
- The status guard of the dispatch task does not stop a second delivery while the
  first is in flight: one may mark the event failed while the other creates its
  order.
- The kill switch is asked before the transaction: an order may be inserted after
  it tripped. Two calls that find the first breach together record two events;
  both must be resolved before the gate opens.
- With `fill_timing = next_bar_open` a queued market entry executes in the engine
  at the open, while its signal is sent at the end of the bar. A resting entry
  of the opposite side that fills in that bar closes it, and because the exchange
  is taken to have done so with the same order (`strategy_state.py:1295`) the
  close is withheld: engine and exchange differ by that trade. `VenueFollows`
  with the condition on `nextOpen` dropped has this counterexample.
- The sum of an order of the old kind counts a row twice that the exchange shows
  anew with other contents (a limit the code documents). The model keeps this:
  `PnlSettled` compares with the table.
- `loss_rate` is called a floor as long as an episode is open
  (`entry_completeness.py:847`), because it may be found lost later. It may also
  be found won or abandoned: one lost and one open episode are 100 %, and 50 %
  after the fill.
- `settled_loss_rate` is called reproducible (`entry_completeness.py:863`). A row
  that is open at the first report and filled at the second cuts its episode in
  two, of which the later may be settled: the settled episodes only grow
  (`SettledStays`), but their rate moves.
- `bars_breakout_probe` promises no verdict over a gap, and without `interval`
  takes the smallest distance of two bars for their length: bars that are missing
  evenly (two bars with one missing between them) count as covered
  (`entry_completeness.py:1536`).
- `register` of `realtime/manager.py` awaits the close of the oldest connection
  between making room and adding the new one: two registrations at once pass the
  limit by one.
- Two rotations of a webhook secret at once each revoke what they read and insert
  a secret: two stay active, as nothing in the database forbids it.

## 5. Proofs

Eight modules hold them. The module of a component extends the composition that a
run checks, proves the component's own specification first and then the same of
the composition (`ServicesAreSafe`, `TracedIsSafe`, `JobsTypes`, `BooksAreRight`),
so a theorem is about the very specification of the run, for every value of its
constants.

Every proof rests on the named assumption of its module alone (and
`ExchangeAgreed` and `LedgerImplements` on two conditions more, see below). They
say that actors, keys and markers of different kinds are different values, that
bounds are naturals, and where a count or a sum is taken that its domain is
finite (`Slots`, `TradeIds`, `ExitIds`, `Raws`). `EntriesAssumption` asks for a
highest level, `TrailAssumption` for what the code's own constants fulfil: delays
that double, fewer looks for a flat position than retries, and looks that outlast
the lag; `SwingAssumption` for prices on a scale on which the ratios of the policy
are whole.

| Module | Theorems | of |
|---|---|---|
| `OrderLedgerProofs` | `TypeCorrect`, `CreatedOnce`, `EndIsFinal`, `CountedOnce`, `FillsAreReal`, `CancelIsSafe`, `ExchangeAgreed`, `LedgerImplements` | any number of orders and workers |
| `SignalOutboxProofs` | `OutboxTypes`, `OneOrder`, `GateIsPassed`, `AnswersFit`, `DispatchedIsReal`, `EventEndStays` | any processes, keys, payloads and events |
| `ServicesProofs` | stream: `StreamTypes`, `LeaseIsOwn`; bar: `BarTypes`, `BarsAreKept`, `OffStaysSilent`, `TwoStrikes`; registry: `RegistryTypes`, `QuotaIsHeld`, `CodeIsAlone`, `AdmissionIsKept`; entries: `EntriesTypes`, `OneEntryAtMost`; all: `ServicesTypes`, `ServicesAreSafe` | any workers, bars, owners, sessions, levels |
| `JobProofs` | `BacktestTypes`, `PushedOnce`, `BacktestImplements`; `ResearchTypes`, `ResearchedOnce`, `ResearchEndsOnce`; `JobsTypes` | any jobs and workers |
| `RiskProofs` | position: `EntryIsPreparedFlat`, `RiskTypes`; amount: `AmountIsProven`, `PnlTypes`; trail: `TrailTypes`, `TrailIsRight`; all: `TracedIsSafe`, `TracedTypes` | any drains, commands, quantities, sweeps, delays |
| `SwingRiskProofs` | `SwingTypes`, `CopiesAlwaysAgree`, `ReplayIsRight` | any prices, sizes and minutes |
| `SumProofs` | lemmas only | any finite domain or sequence |
| `BooksProofs` | engine: `BrokerTypes`, `BracketsAlwaysFit`, `VenueIsFollowed`; report: `SettledIsKept`, `LayersAlwaysAgree`; all: `BooksTypes`, `BooksAreRight` | any ids, quantities, pyramiding, number of rows |

The modules share one layout: the inductive invariant as a conjunction of
named parts; lemmas that sort the actions by what they do to those parts ("leaves
the rows alone", "wins the row of `o`", "rewrites the book", ...), so that the
many handlers are looked at once; one lemma per part and kind of step; the
theorems at the end.

### The order ledger

`AtMostOneCreate` is not inductive: `creates[o]` may grow from any state in which
some worker is at `claimed`. `CreateInv` strengthens it with what the code relies
on: an order still `none` or `pending` was never sent (`EarlyUnsent`); a worker at
`claimed` has not sent its order, which is past `pending` (`ClaimedUnsent`), and
is the only worker at `claimed` for it (`OneClaimant`); an order nobody asked for
has no row (`Unsaved`). The claim is the one step into `claimed`, it needs
`pending`, and no step returns a row to `pending`, so a second claim is
impossible whatever the scanner and the broker deliver again. `EndIsFinal` follows
from it: every UPDATE is conditional on a state that is not an end, attaching the
id on `submitted`, and the INSERT meets no row.

`EndCountedOnce` is about cardinalities; `EndInv` says the same of single
handlers. At most one of them has won the row of an order (`OneWinner`), the row
has ended (`WonIsEnded`), its side effects have not run before (`RanOnce`). A step
then either leaves all of this still, or is a save, a count, a win, a run of the
effects or a crash, each of which changes the cardinalities by one.

`TruthInv` is the argument about messages: what an event, an answer or a row says
of an end at the exchange was true when it was said, and the exchange's ends are
final. A row cancelled without the exchange was never sent and nobody holds its
claim. `FillsAreReal` and `CancelIsSafe` follow for all constants. `LiveIsTracked`
needs `TrackInv`: a handler about to reject a row has heard that the exchange does
not have the order, or was misled, and nobody holds the row's claim. That
is where `~OwnerMayLeave` and `~AllowStall` come in. The run
`ledger_refusal` refutes the property for an owner who leaves; with stalled
workers the janitor may reject a row whose `create_order` is under way. The
refinement (`LedgerImplements`) is proved under the same conditions, action by
action, from all four invariants.

### Admission and outbox

The inductive invariant `IInv` says of each call what the code takes for
granted at its pc: past the lock it holds the lock of its key (`Holds`); at the
INSERT its key has no order (`Fresh`); past the gate it was let through or found
the order (`Passed`); when it answers with an order, the order is there and its
payload fits (`Fits`); a worker's call is about an event (`Delivered`). The
argument has two halves. `OthersKeep`: a step of one process changes only locks
it holds or takes free and only orders whose lock it holds, so no other call
loses what it relies on. Then one lemma per action shows it for the process that
moves. `GateIsPassed` needs both `Passed` and `Fresh`: a call that skipped the
gate found an order, orders stay, and at the INSERT there is none.

### Stream, bar, registry, entries

- `ReleasedByHolder`: a lease is held by a task between acquire and release
  (`LeaseAtWork`); the token does the rest.
- `BarInv` for `NoBarLost` and `DirectionNeedsTwo`: the row lock is held exactly by
  the claim that is not committed, whose bar is newer than the row (`ClaimHolds`);
  what a task read is never newer than the row (`ReadsOld`); a mark in a report,
  read or stored, is the judgement of its bar (`MarksTrue`); and as long as no
  evaluation outlived its lock there is one at a time, which read what the row
  still says (`OneAtATime`). `OffIsSilent` follows from the conditional claim.
- `RegistryInv`: what a request counted or found in an admission is still true
  while it holds the lock it took before (`Counted`, `Admitted`, `StillTrue`),
  because the tasks that could change it hold the same lock and all other steps
  only end sessions and entries (`Shrinks`). `Withdraw`, which takes no lock, is
  one of those.
- `DoubledOnlyMidair` counts; `EntriesInv` says that of position, exposed stop,
  conversion and a recovery about to place there is at most one (`OneAtMost`), and
  of the tick that whatever is exposed is among what it has still to look at or to
  cancel, as is a fill that its older position misses (`TickSees`). Both hold
  unless `midair`; the types of the rows hold always.

### Jobs

`JobInv`: no worker holds a row that is not committed (`Uncommitted`), one worker
at most claims a job and runs it at most once, because no step returns a row to
`queued` (`OneRunner`); trades are there exactly with `completed` (`TradesFit`);
the one that ended the row pushes (`OnePusher`). The refinement follows. The
worker's stale `seen` appears in none of these parts: nothing rests on it, only on
the conditional UPDATEs. `ResearchInv` is the same argument without cancel.

### Code risk, amount, trailing stop

`EntryOnlyWhenFlat` needs to know that a confirmed ledger speaks of a venue that is
clear and stays so (`ConfirmedIsClear`), through every fill, cancel, command and
restart. Its strengthening `RiskInv`: one command runs at a time and a drain in the
middle of one holds it (`Leased`), an entry that ended in the ledger is not created
any more (`EntryOver`), a take-profit is made for a position that was there
(`ProtectsPosition`).

That the quantities stay in their ranges (`RiskTypes`) is no matter of shapes: it
says that no exit, however late, partial or repeated, drives the ledger's position
or the exchange's below zero. `RiskTyped` adds to `RiskInv` what an
order fills and what the ledger knows of it: only an order that has ended at the
exchange was filled, and the children together close no more than the entry opened
(`OrdersFit`, a sum over as many children as there are); the ledger's position is
within what the entry has filled and its exits are orders of its generation
(`Measured`); a drain sends only those (`SendsOwn`). `SumUpdated` follows the sum
through a fill and `SumExtended` through a new child.

`PnlProven` is an action property of a case analysis over the
writers of the row; it needs only that raws are raws (`PnlShapes`) and that a set
that is known to have one element is that element (`OneIsAll`). Its types need more:
evidence and what was observed are at most one raw, and a sweep works with raws the
exchange has shown (`PnlTyped`). `TrailInv`: a task
that goes on to set the stop was due and found a position no newer than the
recorded fill and the tolerance (`LookedIsOwn`), and its delays add up so that the
last look for a position comes after the lag (`DelaysFit`).

### Code backtest

`SwingRiskProofs` first orders prices as the side of a position sees them, then
follows a segment, a path of three segments and both paths. A plan keeps that what
trails was half taken and that what does not has its first stop (`PlanFits`). From
this: a walk is `Fair`; a candle that touches no threshold leaves a walk as it is
and one that only draws the stop draws it to where both walks do, which is
`ShortcutExact`. `CopiesAgree` is then an invariant of the ledger that books the
events (`LedgerFits`).

### Pine broker

What brackets reserve and what positions add up to are sums over functions, which
the community modules compute by a fold in an order that CHOOSE picks. `SumProofs`
makes them usable: the sum of a function over a finite domain is what any order
adds up to (`SumIsTally`), and changing one value changes the sum by the
difference (`SumUpdated`). The library's induction over finite sets cannot be used
here; the lemmas take a smallest set that would refute them instead, which exists
because strict inclusion of finite sets is well founded. A `FoldLeft` stays in the
set in which its steps stay (`StepsStay`) by the largest length that does.

`BracketsFit` is then preserved by each fill, entry, exit and cancel. For
`VenueFollows` the invariant must say what holds between two fills of a bar: a
resting entry that fills moves the exchange by what was published at the end of
the bar before, so until the first fill of a bar nothing else may have touched the
trades (`ShownIsMeant`, `NothingDueYet`, `QueueIsForOpens`), and before the epoch bar
nothing may have been published (`NotYetFollowed`).

### The report of the entries

The invariant of the orders is small (`TryInv`): rows are of the shapes in which an
order can end, and created before they end. The rest is about functions of the
rows, by induction over them. `GrowsToAll` is that induction without an operator as
parameter: a set of sequences that has the empty one and is closed under `Append`
has them all. `FoldGrows` says of a fold that its value for a sequence with one
more element is one step from its value before; it is used once for each fold of
the report (`KindGrows`, `ReachedGrows`, `CutGrows`, `CountGrows`, `EventsGrow`).

- `SettledStays`: once the window is over a step changes one row, which was open.
  `CutFades` compares the loops of two reports row by row: they have the same run
  in hand as long as no row of it is open, so each episode in which all rows have
  ended is in both. An open row closes nothing under either rule
  (`OpenStaysOpen`): that is why a late fill cuts only the run it is in.
- `LayersAgree`: the run in hand has no fill, and under the second rule no lost
  rejection, since both close (`CutRight`); the loop over the rows that reached the
  exchange has the same run in hand without the local failures, and the same
  number of each outcome (`CutReached`), so a difference can only come from a last
  run of nothing but local failures. For the peak, what rests at `m` is what opens
  by `m` less what closes before `m`; along the sorted events the greatest of these
  numbers is the peak so far (`PeakRight`). With closings sorted first, an order
  that closes at the instant at which another opens is gone before the other counts,
  and the peak misses that both rest there.

### What stays with TLC

- Liveness under fairness, and `ENABLED` (out of the prover's reach):
  `LedgerSettles`, `JobsEnd`, `PendingSettles`, `ServicesSettle`, `TracesSettle`.
- The five findings, which are counterexamples.

## 6. Not modelled

- Within the modelled parts: in `tasks/trading.py` the attribution of exits that
  match no order; hedge mode, the rounding of the distance and orders or accounts
  deleted before the task runs in `TrailingStop`; fees, funding, sizing, the
  policies and signal tapes of the research tools, and `queue_close` and
  `replace_plan` (which nothing calls) in `SwingRisk`; share tokens and the
  idempotent replay of `submit` in `backtest/service.py`; in
  `tasks/live_signal.py` the seeding of a replay from the ledger (only its effect
  on the broker, `SeedFromLedger`) and the sizing of signals; brackets, size caps
  and the short side of conditional entries; channel C4, the daily tallies and the
  checks between counters in `entry_completeness.py`; partial fills before the end of an
  order; parsing and subscription of the private stream; other sessions of the
  account and prices in `CodeRisk` (of `mark_price` only that it asks for the
  protection anew); prices in `PineBroker`; `account_service.py`.
- The row 16 of the plan: webhook secrets, realtime fan-out, waitlist, rate
  limit, and the migration lock. Each is one row or one counter
  with few actors.
- The interpreter of Pine and the rest of the backtest engine are deterministic
  computations over prices without concurrency. The sandboxes, market data,
  narrative, notifications, the scripts and the web front end are input and
  output.
