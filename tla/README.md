# Reversal-System: a TLA+ development

This directory holds TLA+ modules, TLC configurations and machine-checked
proofs about the live trading bot in `src/`: a Python asyncio program that
follows synthetic indices on Deriv over a websocket, decides on every closed
one-minute candle whether a reversal setup has been confirmed, buys a binary
contract, waits for its settlement and keeps a journal from which it recovers
after a restart.

`PROJECT.json` is the index: components, runs, the source lines every
definition stands for (`map`), the hazards and the properties aimed at them,
findings, theorems, and for every property a mutant of the code it catches.

## 1. The system

One process (`main.py live`, started again by Railway when it ends) runs one
asyncio loop:

| task | code | what it does |
|---|---|---|
| pump | `deriv/client.py:_recv_pump` | reads the websocket, resolves request futures, fills tick and contract queues |
| supervisor | `_supervise_pump` | reconnects when the pump has ended |
| symbol task, one per symbol | `execution/live.py:handle_symbol` | ticks -> candles -> decision -> buy |
| settlement task, one per open contract | `_settle_and_release`, `executor.monitor_settlement` | waits for the contract, books the result, frees the symbol |
| watchdog | `watchdog` | subscribes silent symbols again |
| balance loop | `refresh_balance` | re-reads the account balance |
| reconcile loop | `reconcile_loop` | judges rejected signals afterwards, in a worker thread |

They share `LiveTrader.risk`, `LiveTrader.open_symbols`, the client with its
lock, and the database (SQLite or PostgreSQL). Everything between two awaits of
a task is atomic with respect to the others; everything across an await is not,
and that is where the hard behaviour lives.

### Components, state, operations, and what makes them correct

**Live trader and executor** (`execution/live.py`, `execution/executor.py`).
State: `open_symbols`, settlement tasks, the buy in flight. Operations: guard
and mark a symbol, price, ask `can_trade`, buy, look a timed-out buy up in the
portfolio, journal it, settle, release, restore after a start. Calls the
connection, the risk manager and the journal. Correct when no symbol ever has
two trades, every contract bought is known and booked with Deriv's own result,
once, and a restart finds everything again. Hard: a buy answer that never comes
although Deriv filled the order; a crash between the fill and the journal row.

**Risk manager** (`risk/manager.py`). State: balance, peak, daily profit, losing
streak, counts, the stop latch, the day. Synchronous methods, called by every
symbol and settlement task. Correct when no limit is passed and a restart
restores what was there. Hard: checked before an await and counted after it;
the day is rolled lazily; the database's rebuilt state is computed differently.

**Trade journal** (`data/database.py`, `data/postgres.py`: `trades`,
`system_events`). Opening and settling rows, `open_trades`, `risk_state_since`,
the operator's reset. Correct when settling is idempotent and rows agree with
Deriv.

**Deriv connection** (`deriv/client.py`). State: `_ws`, `_pump_task`,
`_authorized`, `_connect_lock`, `_pending`, subscriptions. Operations:
`_send`, `ensure_connected`, `_reconnect`, the pump, the supervisor. Correct when
there is never a second open socket, nothing is streamed unauthorized, every
request ends and the feed always comes back. Hard: three kinds of task reconnect,
under a lock, through a request path that may itself want to reconnect.

**Contract settlement** (`subscribe_contract`, `wait_for_settlement`,
`monitor_settlement`). State: a bounded queue per contract, the last update
seen. Correct when a sold contract is booked, once, whatever becomes of the
stream, also with two processes alive during a deployment.

**Tick feed, candles, outcomes** (`data/validation.py`, `data/candles.py`,
`strategy/expiry.py:OutcomeTracker`, `seed_candles`). State: tick queue,
validator, candle builder, followed setups, the `candles` table. Correct when
bars and outcomes are those of the accepted ticks. Hard: the queue overflows
while the task trades; ticks are repeated after a resubscription; a restart
seeds bars that are already stored.

**Signal pipeline** (`strategy/pipeline.py`, `reversal/confirmation.py`,
`strategy/decision_engine.py`, `SetupDeduper`, `signals`,
`rejected_signals`). State: the pending setup, deduper, two tables. Correct when
trades confirm a fresh setup of their own, setups are traded once, refusals are
recorded once.

**Reconciliation, backtest, labels** (`reconcile_rejected_signals`,
`backtest/simulator.py`, `models/dataset.py`). Correct when the three agree on
what "won" means and the backtest's running numbers are right. Hard: the
reconciliation runs in a thread, on the connection the bot commits on.

**Expiry calibration** (`ExpiryCalibrator`, `flush_outcomes`,
`refresh_calibration`, `setup_outcomes`, `main.py --calibrate-expiry`). State:
the buffer of measured outcomes, the table, the counts. Correct when no
estimate claims more evidence than the table holds and nothing measured is
silently lost. Hard: the counts are replaced by a worker thread under the task
that reads them; the buffer is emptied before its rows are stored; a second
process writes the same keys.

**From settings to an order** (`config/loader.py`, `DerivClient._resolve_account_id`,
`models/level2.py:load_for_live`, `risk/staking.py`, `strategy/edge_engine.py`,
`decision_engine.apply_economics_and_risk`, the first half of `execute_trade`).
State: the account, the model, the offered horizons, the last payout, the
martingale ladder, the quotes of the trade at hand. Correct when what is sent
as a buy request is within every limit the settings state, on the account they
ask for. Hard: several settings that must agree meet in different files; the
stake is computed before the price is known; proposals age while the next is
awaited.

**Not modelled** (see section 7): features, regime and scores, schema, Pine
script; the numerics of the models and of the calibration.

## 2. Plan

Order of modules, most important behaviour first; the ones marked * exist.

1. `RiskManager`*, `TradeJournal`* - components without tasks of their own, as
   operators on their state.
2. `ContractLedger`* - the abstract book of contracts; `TradeLifecycle`* -
   composes 1 with symbol tasks, settlement tasks, process and Deriv, and
   implements the ledger; `TradeLifecycleProofs`*.
3. `DerivConnection`* - sockets, lock, requests; `DerivConnectionProofs`*.
4. `SettlementPromise`*, `SettlementWatch`* - refines the one step `Settle(c)`
   that `TradeLifecycle` takes for granted; `SettlementWatchProofs`*.
5. `SymbolFeed`*, `SignalPipeline`*, `Counterfactuals`* - the way from a tick to
   a trade, and what is learned from what was not traded;
   `SymbolFeedProofs`*, `SignalPipelineProofs`*, `CounterfactualsProofs`*.
6. `Staking`*, with the ladder's life in `TradeLifecycle`; `ExpiryEvidence`* -
   what the tracker's outcomes become; `ExpiryEvidenceProofs`*; `TradeTicket`* -
   settings, account, model, horizons, stake, quotes and verdict, up to the buy
   request where `TradeLifecycle` takes over; `TradeTicketProofs`*.
7. Left: PostgreSQL's two-transaction `record_signal` and the restart of the
   pipeline (`warm()`) in `SignalPipeline`; `connect()`, `close()` and the rate
   limiter in `DerivConnection`; `walk_forward` in `Counterfactuals`; the
   blocks of `fit_level2`'s walk-forward validation.
8. Proofs: every invariant a passing run checks is proved (section 5); of its
   properties only the liveness ones are left to TLC.

No module uses a RECURSIVE operator, so all of them stay open to proofs.

## 3. Modules and their correspondence to the code

### RiskManager, TradeJournal

No variables. Each method of the manager is an operator from a record to a
record (`CanTrade`, `RegisterOpen`, `RegisterResult`, `Restore`...), each
statement of the journal an operator on `[Contracts -> Row]`. Money is in whole
units. A row keeps its status, symbol, outcome and the local days it was opened
and settled on. `LosingStreak` and `DailyPnl` are what `risk_state_since` reads
back from the settlements in their order, `reset_mark` is the position of the
last `--reset-risk`.

### Staking

`StakingEngine`'s four methods as operators: `LadderAfter` is
`register_result`, `StakeFor` is `stake_for` with its caps and the Kelly and
martingale branches. Money in cents, probabilities and payouts in hundredths,
so that rounding to a cent is rounding.

### TradeLifecycle

| variable | code |
|---|---|
| `mode` | process: down, in `run()` before the loop, running |
| `pc[s]` | the await `on_candle_closed`/`execute_trade` of symbol s is in |
| `order`, `filled` | the buy request in flight and Deriv's answer to it |
| `ignored`, `tries` | `known_contract_ids` and the attempt count of `reconcile_ambiguous_buy` |
| `open_symbols`, `risk` | `LiveTrader` |
| `ladder` | `LiveTrader.staking`: losses in a row, updated by `Settle`, rebuilt by `RestoreState` |
| `monitors` | contracts with a `_settle_and_release` task |
| `balance_reply` | a balance answer that has arrived and is not yet applied |
| `journal`, `settle_order`, `reset_mark` | database; survives a crash |
| `broker`, `late`, `cash` | Deriv: contracts, orders nobody waits for any more, balance |
| `day`, `spent` | wall clock; use of the bounds |

Actions of a symbol: `StartTrade`, `PricingFails`, `RefuseTrade`, `SendBuy`,
`BuyAnswered`, `BuyRejected`, `BuyAmbiguous`, `PortfolioFound`,
`PortfolioEmpty`, `PortfolioFails`; of a contract: `Settle`, `SettleFails`; of
the process: `ReadBalance`, `RefreshBalance`, `Crash`, `Boot`, `RestoreState`,
`OperatorReset`; of Deriv: `FillOrder`, `RejectOrder`, `FillLateOrder`,
`DropLateOrder`, `Sell`; of the clock: `CooldownElapses`, `Midnight`. One action
is everything a task does between two awaits, the journal call and the counters
included. Proposals, economics, Level 2 and the choice of expiry appear as the
nondeterministic outcome of pricing; `TradeTicket` opens that step up.

`ContractLedger` is the abstraction: one variable, `Enter(c, s)` and `Book(c)`.
The refinement mapping is the journal without its days; crash,
retries, reconciliation and restart are stuttering steps.

### DerivConnection

Sockets are numbered; `sock[k]` is its state, `reading` the sockets with a
pump, `holder`/`waiting` the asyncio lock and its FIFO queue, `todo` what the
holder still has to send again, `pc`, `item`, `reply`, `via` the request a task
awaits and the socket it went out on, `watched` the pump the supervisor awaits.
`SendOrReconnect` is `_send` with `ensure_connected`; it is used for
resubscriptions under the lock too, as in the code. `auth_mode` is given once:
in `legacy` mode a new socket starts unauthorized and `Authorize` is the first
message of the restore, in `otp` mode the URL authorizes. `PumpEnds` fails every
pending future, those of a newer socket included, as the code's finally block
does. The watchdog asks again for any symbol it finds silent, whether Deriv has
dropped the stream or only sends nothing. The first socket and its subscriptions
are in place at the start.

### SettlementWatch, SettlementPromise

One contract, followed by several processes: each has its queue (`queue`,
`listed`), its stream at Deriv, its await (`pc`), the answer it waits for and
the last update it holds (`poc`). `settled` is the journal row shared by all,
`counted` the register_result calls of each. The promise is that nothing is booked
before it is sold, bookings are final, and they come.

### SymbolFeed

A tick is its epoch. `queue` and `busy` are the tick queue and a
`handle_symbol` that is inside `on_candle_closed`; `builder`, `closed`,
`fresh` the CandleBuilder and how many of its bars came from ticks; `pending`,
`outcomes` the OutcomeTracker; `stored` the candles table; `accepted` the history
the properties compare with. `SeedCandles` stores the seeded bars under the end
of the bar, `TickClosesBar` a live bar under its last tick, as the code does.
`pending` and `outcomes` are sets where the code has lists: the tracker treats
each setup by itself, so their order decides nothing, and `at`, the tick of the
emission, keeps two emissions for the same setup and expiry apart.

### SignalPipeline

Of a bar only what the control flow reads is kept: which directions reach the
threshold, the regime's gate, whether a trigger confirms, how early its last
tick came. `pending` is `_pending_setup`; `signals`, `rejected` the two tables;
`last`, `samples` the deduper and the setups it let through. `bucket` is the clock
bucket of the newest bar: the builder makes no bar for a bucket without ticks
(`candles.py:75-83`), so a setup ages in bars while the deduper measures seconds.
`sole` and `confirmations` are history: which direction qualified alone on each
bar, and on which bars a pending setup was confirmed, traded or vetoed.

### Counterfactuals

`candles`, `rejected` are tables, `batch` and `uncommitted` the worker's pass
and its open transaction, committed by its own commit or by anyone else's on the
same connection. `ended` counts the bars whose last tick is in the past; a symbol's
task that is behind closes and judges a bar when later ones are over already. A
signal carries the wall clock of its evaluation (`current`, the newest bar then
over), and `EntryBar` is the last candle up to that moment among those stored
when the row is judged. `RunBacktest` and `Label` are pure and evaluated on every
reachable history. `Backtest` is the loop as a recursive function of the bar, one
`Counted` per settled trade; `IsTheEquityCurve` says the same without a loop.

### ExpiryEvidence

| variable | code |
|---|---|
| `buffer` | `LiveTrader._outcomes`, filled by the tracker's sink |
| `table`, `open_rows` | `setup_outcomes`: committed rows, rows of an open transaction |
| `counts`, `refreshing` | `ExpiryCalibrator.counts`, the worker thread in `refresh_calibration` |
| `reader`, `todo`, `asked`, `half`, `estimates` | a call of `estimates()`: whose, the horizons left, the link of `_sample`'s chain, the half of a sum already read |
| `emitted`, `lost`, `clock` | history and time |

`CandleCloses` is the flush at the end of a bar and, for a signal that may
trade, the start of `estimates()`; while it runs no other task of the loop does,
but `LoadCounts` of the worker thread may come between any two of its reads.
`Replay` is a row of `--calibrate-expiry`, written by another process.
`FlushFails` is the insert that raises half way, after the buffer was emptied.
`InsertedAll` is what the row by row inserts of one flush come to: of the rows
with one key the first is kept, unless the key is there already. `Total` adds
the counts of a pool as the number of setups they stand for.

### TradeTicket

`LoadSettings`, `Connect`, `LoadModel`, `DiscoverSymbols` are the start of a
process, each with the checks that end it; `Exit` ends it at any point. A trade
is `OpenTicket` (stake, Level 2's prediction, estimates), one `ProposalPriced` or
`ProposalFails` per proposal awaited, the last of which also chooses the quote,
judges it and asks the risk manager, and `TradeEnds`. `settings` ranges over
every combination of the switches; accounts, artifact, offered horizons,
estimates, payouts, slow answers and the risk manager's verdict are
inputs. `Taken` is what the search for an account returns, `UntimedContracts` are
the contracts whose length the loader does not know: those in ticks and those in any
unit it has not heard of. A staking method it does not know stakes nothing.
`EconomicallySound` is both assessments of the edge engine.

## 4. The runs

Passing runs, with what they ask:

| run | bounds | shows |
|---|---|---|
| `lifecycle` | 2 symbols, 2 contracts, won/lost, 1 crash, 1 lost answer, 2 trades per day, fair | journal, Deriv, tasks and counters stay together (`SymbolExclusive`, `TasksFollowJournal`, `JournalIsTruthful`, `RestartSafeCounters`); the overshoot and the orphans are bounded (`TradeCountOvershoot`, `OrphansOnlyFromLostAnswers`); the ledger is implemented (`ImplementsLedger`); every trade is booked and every symbol freed |
| `lifecycle_stress` | 1 symbol, 2 contracts, won/lost/refund, 2 days, 2 crashes, 2 journal faults, and one lost answer, balance refresh, reset, cooldown each | what survives everything at once: `DailyLossIsLatched`, `TradesNeverOvercounted`, `LadderIsTheJournals` |
| `connection` | both authorization modes, 2 symbols, 3 sockets, 1 fault, supervisor, watchdog and a trader, fair | `OneOpenSocket`, `StreamsAreAuthorized`, `FeedRecovers`, `EveryRequestEnds` |
| `settlement` | 2 processes, queue of 2, 3 updates, 2 faults, fair | `SoldUpdateIsKept`, `CountedOnce`, `ImplementsFairPromise` |
| `symbol_feed` | bars of 3 s, ticks 1-2 s apart, queue of 2, clock to 9, 1 restart, repeat, outlier | `BarsAreTheTicks`, `OutcomesAreReal`, `EverySetupIsMeasuredOnce` |
| `signal_pipeline` | window of 2, 5 bars, up to one empty clock bucket between two, every combination of inputs | `TradesFollowSetups` (with `PendingIsYoung`), `RejectedOnce`, `SamplesApart` |
| `expiry_evidence` | 2 symbols, 1 horizon, 2 setups per estimate, 2 live outcomes, 1 replayed, 1 fault or crash, fair | `EstimatesAreBacked`, `EvidenceArrives` |
| `trade_ticket` | every switch, 4 staking engines, 4 spellings of the contract, 3 horizons of which 2 are priced, 3 payouts, 2 chances, 2 balances, up to 2 losses | `OrdersAreSound` |
| `counterfactuals` | 2 symbols, 4 bars, a task up to 2 bars behind, batch of 3, horizon of 1 bar, 1 crash, fair | `VerdictsAreFinal`, `BacktestIsTheEquityCurve`, `EveryRowIsJudged` |

Each of them checks its module's `TypeOK` too, `lifecycle_stress` excepted.

Runs whose violation is the point, each against a sentence of the repository
(quoted in the findings):

| run | sentence refuted |
|---|---|
| `drawdown_latch_lost` | a limit hit before a restart is still hit after it (`risk/manager.py:140-141`) |
| `reconnect_deadlock` | pump death is never a silent permanent outage (`deriv/client.py:26`) |
| `duplicate_bars` | seeding again is a no-op instead of a duplicate row (`data/database.py:249-253`) |

### Why the bounds are enough

Two symbols and two contracts are the least with which one symbol's trade can
meet another's, or its own previous one: a second contract for the same symbol,
an orphan that reconciliation must leave alone, two buys behind one limit. The
crash and the lost answer can fall at any point. Limits of one and two are
reached within these histories. Two days put every event on either side of
midnight. The stress run affords two days, two crashes and refunds by having
one symbol: its properties are about counters that every settlement of the
process goes through, whatever the symbol, and two contracts are enough for a
settlement before and after each event; one journal fault leaves a symbol free with
its row open, a second one does so to the next contract. It has no temporal properties; the
fair run uses no symmetry, which is unsound for liveness.

Three sockets allow a reconnect that fails and is repeated, and a socket that
dies during the restore. `MaxSockets` also ends the faults: the last
socket never dies, which is what "after the last fault" means in
`FeedRecovers`. Two ways exist in the code to lose the feed for good, and the
property names them instead of leaving out the instances in which they
occur: a reconnect that waits for its own lock (`WaitsForItself`, run
`reconnect_deadlock`) and a legacy authorization that fails
(`LeftUnauthorized`). `FeedRecovers` says there is no third.

Two samples make an estimate, so a sum of a symbol's own halves, a pooled sum
and a sum over two generations of counts all occur with three rows; with one
fault, a row can be lost by the insert, by a crash in the buffer or by a crash
in an open transaction. In `trade_ticket` two of three offered expiries are
priced, so one is passed over; the payouts lie below the floor, between the
floor and break-even, and above; one chance clears break-even and one does not;
the engines include a base stake above the maximum (refused at start), a Kelly
stake at its cap (with the larger balance), a ladder with a step below and one above
its limit, and a method the code does not know.

A queue of two updates overflows within three; two faults can hit the
subscription and the forget request of one monitor, or one of each. Bars of
three seconds with ticks one or two apart give bars of one to three ticks with
ragged ends and whole-bar gaps after dropped ticks. A window of two bars, four
evaluated ones and an empty bucket anywhere between them let a setup form, be
sampled, confirm or expire and form again, with the clock ahead of the bars; one empty
bucket and a last tick that is early already outlast the deduper's window in one bar. Four
bars over two symbols leave rows at the end of each history, which is what a batch can
fill up with: at most `DurationBars + MaxBehind - 1` for every symbol whose feed has
ended, and a batch holds one more (`BatchAssumption`; in the code 5000 rows against
a few per symbol).

### Fairness

`TradeLifecycle`: a task that can run is run (asyncio), a request is answered or
runs into its own timeout, Deriv ends each contract, a process that is down is
started again (Railway). Signals, crashes, timeouts and resets are never forced.
`DerivConnection`: weak fairness of tasks, of answers on an open socket, of the
end of a closing socket (`close_timeout`), of timeouts only where the socket is
gone. Strong fairness for `WatchdogAsks`: the watchdog looks every few
seconds and is busy with a request in between, so the action is enabled again and
again and not continuously; it is asked for the symbols without a stream only, which
is where the property needs it. `SettlementWatch`: answers, deadlines, the poll
timer and Deriv's sale are fair; no stream update is ever forced. That a poll comes
to its end, and with it the booking, presumes that requests do, which is
`EveryRequestEnds`; the same holds for the answers `TradeLifecycle` waits for. A task
caught in `reconnect_deadlock` breaks both.
`Counterfactuals`: `reconcile_loop` comes round and a pass goes on.
`ExpiryEvidence`: `estimates()` runs to its end and the worker thread is
scheduled (weak); the timer's task and the next candle get their turn in a loop
that is busy in between (strong). The next candle presumes a live feed, so
`EvidenceArrives` is as good as `FeedRecovers`.

Deadlock checking is off throughout: every model has bounds on its environment
and stops when they are used up, and a bot that gets no signal rests. Blocking
that matters is asked for by the liveness properties.

## 5. What is proved

Eight modules hold proofs. Each is about every value of the constants of the
module it extends: all sets of symbols and contracts, all limits, any number of
days, crashes, lost answers, sockets, faults, processes, bars and updates.

| module | theorem | statement | assumes |
|---|---|---|---|
| `TradeLifecycleProofs` | `TypeCorrect` | `Spec => []TypeOK` | |
| | `OneTradePerSymbol` | `Spec => []SymbolExclusive` | `MaxDbFaults = 0` |
| | `TradesAreTracked` | `Spec => []TasksFollowJournal` | `MaxDbFaults = 0` |
| | `BotImplementsLedger` | `Spec => ImplementsLedger` | `MaxDbFaults = 0` |
| | `JournalAgreesWithDeriv` | `Spec => []JournalIsTruthful` | |
| | `OrphansAreBounded` | `Spec => []OrphansOnlyFromLostAnswers` | |
| | `LossIsLatched` | `Spec => []DailyLossIsLatched` | |
| | `LadderIsBacked` | `Spec => []LadderIsTheJournals` | |
| | `NoTradeIsOvercounted` | `Spec => []TradesNeverOvercounted` | |
| | `LimitIsNearlyKept` | `Spec => []TradeCountOvershoot` | a symbol exists; `MaxDay = 1` or `MaxCrashes = 0` |
| | `RestartKeepsCounters` | `Spec => []RestartSafeCounters` | `MaxDay = 1`, `MaxResets = 0`, no refunds |
| `DerivConnectionProofs` | `ConnectionTyped` | `Spec => []TypeOK` | |
| | `NeverTwoSockets` | `Spec => []OneOpenSocket` | |
| | `NothingStreamsUnauthorized` | `Spec => []StreamsAreAuthorized` | |
| `SettlementWatchProofs` | `TypeCorrect` | `Spec => []TypeOK` | |
| | `SoldUpdateStays` | `Spec => []SoldUpdateIsKept` | |
| | `ContractCountedOnce` | `Spec => []CountedOnce` | |
| | `ImplementsPromise` | `Spec => Promise!Spec` | |
| `SymbolFeedProofs` | `TypeCorrect` | `Spec => []TypeOK` | |
| | `BarsAreRight` | `Spec => []BarsAreTheTicks` | |
| | `OutcomesAreRight` | `Spec => []OutcomesAreReal` | |
| | `SetupsAreMeasuredOnce` | `Spec => []EverySetupIsMeasuredOnce` | |
| `SignalPipelineProofs` | `TypeCorrect` | `Spec => []TypeOK` | |
| | `TradesFollow` | `Spec => []TradesFollowSetups` | |
| | `RejectionsRecordedOnce` | `Spec => []RejectedOnce` | |
| | `SamplesStayApart` | `Spec => []SamplesApart` | |
| `TradeTicketProofs` | `EveryOrderIsSound` | `Spec => []OrdersAreSound` | |
| | `TypeCorrect` | `Spec => []TypeOK` | |
| `CounterfactualsProofs` | `TypeCorrect` | `Spec => []TypeOK` | |
| | `VerdictsHold` | `Spec => []VerdictsAreFinal` | |
| | `BacktestIsRight` | `Spec => []BacktestIsTheEquityCurve` | |
| `ExpiryEvidenceProofs` | `TypeCorrect` | `Spec => []TypeOK` | |
| | `EstimatesRestOnTheTable` | `Spec => []EstimatesAreBacked` | |

Apart from the last column, what is assumed of the constants is what their
modules state: finite sets where cardinalities are taken, natural limits,
markers outside the sets they mark.

The assumptions in the last column are needed, not conveniences; each names a
way in which the code really leaves the property.

- *No failing statement* (`MaxDbFaults = 0`). When the statement of a settlement
  fails the code frees the symbol with its row still open (`SettleFails`), the
  symbol may trade again, and `SymbolExclusive`, `TasksFollowJournal` and the
  ledger are false.
- *One day, or no restart* (`LimitIsNearlyKept`). A trade entered after midnight
  while the manager is still on the old day is forgotten when the day is rolled,
  but a restart counts it, so it can find more trades than the running manager
  ever let through.
- *No refund, reset or midnight* (`RestartKeepsCounters`). The findings about the
  rebuilt streak, the operator's reset and a result after midnight say what
  happens otherwise. The run `lifecycle` lies within these assumptions.

### The argument for trades

None of the properties is inductive alone. That a symbol has one open trade
holds because a symbol task starts only when `open_symbols` lacks its symbol, so
one must know that `open_symbols` covers the journal's open rows
(`TasksFollowJournal`), in every mode, since `RestoreState` rebuilds one from the
other. That `BuyAnswered` does not enter a row that is there already needs that
the contract of an answer in flight is in no row and belongs to the symbol
(`AnswersMatchDeriv`), which `PortfolioFound` of the same symbol could
break if a symbol could be in two awaits. And a row's symbol is Deriv's
(`JournalIsTruthful`), which gives that a contract Deriv still has to sell is not
settled. So, while no statement fails, the invariant is their conjunction with typing:

    TradeInv == TypeInv /\ TasksFollowJournal /\ AnswersMatchDeriv
                        /\ SymbolExclusive /\ JournalIsTruthful

`TypeInv` strengthens `TypeOK` by three facts typing itself leans on: a filled
order names a contract (`AnswerHasContract`), a booting process holds a balance
(`BootHasBalance`), a row that exists has a symbol (`RowHasSymbol`). Each proof
has one step per action; actions that touch none of the variables of a conjunct
are dispatched together. Refinement then needs only that each step maps to
`Enter`, `Book` or a stutter, with `TradeInv` before the step.

TLC checks the conjuncts in `lifecycle`, except for `AnswersMatchDeriv` and the
three facts of `TypeInv`, which live in the proofs.

Without an assumption on failures only a part of this is left, and it is enough
for what the journal says: `TruthInv` is typing, `AnswersMatchDeriv`,
`JournalIsTruthful` and `BookedInOrder` (the contracts in `settle_order` are
settled rows). Without the other conjuncts a search for a lost buy may find a
contract that has a row already, one whose settlement failed for instance: the
journal's `UNIQUE (contract_id)` then raises, nothing is counted and the process
ends, so `RecordOpen` asks for a contract without a row and what it enters is
Deriv's (`EntryIsReal`). On it rest:

- *Orphans.* `LostInv` counts two kinds of things together: contracts in no row
  and in no answer, and orders still on their way to Deriv that nobody waits
  for. Their number never exceeds the lost answers plus the symbols times the
  crashes. `FillLateOrder` turns one of the second kind into one of the first; a
  crash loses at most one of either per symbol (`ImageIsSmaller`). For crashes the
  bound is a loose one: it allows an orphan for every symbol at every crash, also
  for those that had no order under way.
- *The loss latch.* `LossInv` is the property together with the case of a limit of
  zero, where the bot is stopped before it ever trades.
- *The ladder.* `StreakGrows` says how the streak of a journal with one more
  settlement follows from the streak before; the ladder is counted from
  the mark of some reset, not always the last, since a reset while the bot is up
  moves the mark and not the ladder. `LadderIsTheJournals` says no more than "of
  some reset": which one it was is in neither the journal nor the ladder.
- *Counts per day.* An entered row is new (`RowIsNew`), which is what the UNIQUE
  constraint gives however many statements fail. `CountedInv` adds that the
  manager's day is never ahead of the clock. `OvershootInv` bounds what a
  restart would count, strictly below the bound, so that the manager it starts
  is within it too.
- *Restart.* `SafeInv` states the equality for the queries of day 1 without mark;
  `EntryQueries` and `SettleQueries` say what each query gives after one more row,
  `ResultCounts` what `register_result` makes of it, and `SoldAsReported` that what
  Deriv sold is one of `Results`.

### The argument for the connection

`OneOpenSocket` is not inductive: a task that has decided to open a socket must
still find none when it does. It holds the reconnect lock from its second look
at the socket to the opening, so what is needed is mutual exclusion (`LockInv`:
only the holder opens or restores, and who queues awaits the lock) and what the
holder found (`SocketInv`: every socket but the newest is dying or dead, and the
newest one too while a task is opening). `ConnInv` is their conjunction with
`TypeOK`.

`StreamsAreAuthorized` leans on who subscribes and when. The watchdog subscribes
only where the client is connected and never queues for the lock; callers
subscribe nothing; a restore that has passed its authorize message has had it
answered (`SubscriberInv`). So a subscription awaited on the newest socket was
sent there after authorization (`AskedAuthorized`), and the answers to those on
older sockets are lost with them.

### The argument for the ticket

What a buy request satisfies is settled in several steps with awaits between
them, so the invariant keeps, per step, what a later one relies on: a trade in
progress belongs to a serving process and has its stake within the limit
(`Progress`), every proposal and quote of a trade on calibrated expiries names a
horizon on offer (`FromOptions`), a prediction comes from a promoted artifact of
this configuration (`ModelIsPromoted`), nothing is left of an ended trade
(`AtRest`). `StakeIsCapped` assumes nothing of what an engine computes; its one
uncapped branch, a martingale that is not enabled, is where the loader's
comparison of base and limit is needed (`BaseIsAllowed`). That a best quote
exists at all is `RowHasLargest`, by the least length of a row without a largest
number: an induction over sets, which needs no operator parameter.
`BreaksEvenGrows` carries break-even from the lesser of two chances to both.
`TypeCorrect` is where the engines' arithmetic is needed: the divisor of a Kelly
stake is positive where it is used, and the martingale ladder is a number at each of
its steps (`LadderIsANumber`, by the same two inductions as for the backtest).

### The argument for settlement

A full queue drops its oldest update, which may be the sold one, and a first
update that arrives with the answer to the subscription is not queued at all
when the queue is full. `ToldHasIt` says that who subscribes or waits and has
been told has a sold update in its queue. It leans on `SaidIsTrue` (nothing says
"sold" before Deriv has sold): what follows a sold update is sold too, so what a
full queue drops is replaced by its like. `OneBooking` says more than `CountedOnce`: the
counters are all zero before the booking and one for a single process after it.
The refinement is then a case split over the actions: only `Sell` and the two
bookings move what the promise sees.

### The argument for the feed

Validator, builder and tracker each keep their own last tick; `AtNewest` says
that once a tick has been accepted they are the same one, and `InOrder` that the
accepted ticks increase. That is all the restart, the seeding and the queue
contribute: a tick is accepted only when it is newer than the last
one, so lost and repeated ticks do not show.

*Bars.* `BarsInv` puts for the i-th bar two facts in the place of the property's
CHOOSE: its bucket has rank i among the buckets of the accepted ticks, and the
ticks of its bucket are a gapless run from its open to its close (`Spans`). A
tick of the same bucket lengthens the last run (`BarGrows`), a tick of a later
one starts a run and adds one bucket above all others (`BarCloses`,
`RankOfMore`). The buckets rest on `BucketIs`, which gives division by the
timeframe the bounds SMT needs.

*Outcomes.* `Follows` says what the tracker keeps of a setup by the accepted
ticks alone: the tick c that closed its bar, the entry at c + 1, the count, the
expiries over so far (`DoneAfter`). `Measures` says the same of an outcome: the
tick its expiry ends at. `TrackerInv` joins them: what has been emitted for a
setup is what it has marked done, and a setup no longer followed has emitted
all. A newer tick does not change what older ones mean (`MeasuresKept`), and the
expiries due on it are those `DoneAfter` gains (`DoneGrows`).

### The argument for the pipeline

All three properties are about a table that grows by a row per bar, while
`ExecutionRefuses` rewrites its newest row later. `ExecutesTheNewest` says that
what is executed is that row and that it still reads as a trade. For
`TradesFollowSetups` the history of one bar more leaves the older bars' setups as
they were, and a pending setup is only kept on bars that are evaluated
(`SetupsAreEvaluated`) and formed after the last confirmation, whether that one became
a trade or was vetoed. `RejectedInv` replaces the cardinality by "no row" and "one
row", which one more row changes for its own signal only. `SamplesInv` ties the
deduper's epoch to the newest sample of a direction (`Remembers`); `EpochOf` and
`BucketsApart` are the arithmetic from epochs to clock buckets, at any timeframe and
with any number of empty buckets.

### The argument for the counterfactuals

`VerdictsAreFinal` asks that a verdict, once given, is the one the whole history
gives the moment of the signal. The entry candle is looked up in a table that may not
have it yet; but a settlement that is in the table means that every candle over at
that moment is too, since candles are stored in order (`SettledMeansStored`). So
where a verdict is given the entry is the right one (`Settles`), and neither close
changes when the table grows (`BarFacts`). It says nothing of the signal's own bar:
that the two differ for a task that is behind is a finding. That a batch
is within its limit is a statement about the rows with the lowest numbers: a
row is selected when fewer than `BatchSize` eligible rows come before it, so the
selected ones have distinct ranks below the limit (`RankGrows`, `RankIsReached`,
`SelectionIsTheOldest`).

`BacktestIsTheEquityCurve` is an induction over the bars of a history. The
library's induction theorems take an operator, so both halves go by a least
counterexample (`LeastNumber`): that the recursive function exists at all
(`LoopExists`, hence `BacktestSteps`), and that its result behind bar k has the
numbers of the curve up to k (`CurveInv`). `CurveInv` adds to the property what the
loop carries along: the height so far (`IsPeak`) and the losses that end with
the bar (`IsStreak`). A deeper fall ends with the new bar and starts from the height
so far (`FallMoves`), a longer run ends with it (`MostMoves`); a bar without a
trade changes nothing (`LevelCurve`, `StreakIsNoMore`).

### The argument for the evidence

The counts the estimator reads may be replaced between two of its reads, and
the two halves of a "qualified" sum may come from different dicts. So no read
may be compared with the table of its own moment: the table only grows as far as
an estimator that is at work can tell, because a crash, which alone takes rows away,
ends the estimator too. `Backed` is therefore stated for counts, half sums and
estimates alike, as: no more wins, and no more losses, than there are rows. It
survives more rows (`BackedByMore`) and the sum of disjoint samples
(`BackedTogether`). For a pool, `PooledIsBacked` compares the tokens that `Total`
counts with the rows of all symbols, by an injection that numbers the rows of
each population (`Numbered`, `TokensAreFewer`). `StoreInv` says that a key is
stored once, whoever inserts it (`InsertedAllKeeps`, `FlushKeeps`), so rows are
as many as keys; `ReaderInv` carries the half sum from its read to the next.

### What stays with TLC

- Liveness under fairness: `EveryTradeIsBooked`, `EverySymbolIsFreed`,
  `FeedRecovers`, `EveryRequestEnds`, `EveryRowIsJudged`, `EvidenceArrives`, and the
  fairness half of `ImplementsFairPromise`. Fairness is a statement about ENABLED,
  which the prover does not handle. They are checked on the instances of
  section 4 only, and the fairness they use is justified there.
- The properties the violation runs refute, of course: for those the code is the
  counterexample.
- That two contracts or three sockets are enough to show a fault is an argument
  about the runs, not needed by the theorems, which hold for any number. The
  other way round the runs guard the theorems: each proved invariant is broken
  on its run by at least one mutated definition, so none holds by the shape of
  the model alone.

Induction over data is done by hand where it is needed: the library's induction
theorems take an operator as a parameter, so the proofs take the least
counterexample in a set of naturals instead (`LeastNumber`).

## 6. Findings

`PROJECT.json` lists them with the quoted lines. Three are shown by runs:

1. A drawdown stop does not survive a restart (`drawdown_latch_lost`).
2. A reconnect waits for its own lock when the new socket dies between two
   resubscriptions, and the bot is silent for good (`reconnect_deadlock`).
3. A bar stored live and seeded again has two rows, which shifts everything that
   counts rows (`duplicate_bars`).

The others were met while modelling.

Trades and risk: concurrent buys pass `max_concurrent_trades` and
`max_trades_per_day` (`TradeCountOvershoot` bounds by how much); contracts
orphaned by a late fill or a crash before the journal row; the daily loss
latched again after `--reset-risk`; a result after midnight wiped with
yesterday's total; refunds that lengthen the streak only in the rebuilt state; a
result counted twice with a fresh balance; a symbol freed when the settlement
could not be stored.

Connection and data: a legacy authorization that fails and is never repeated;
trade signals dropped before execution that stay trades in the table; a first live
tick older than the seed ending the process; labels of a training block that reach
into the test block; a setup that still awaits its confirmation sampled again on the
next closed bar when buckets without a tick lie between; a signal that is evaluated
late judged from a later candle than its own, so that its verdict is not its
training label.

Settings: a real account taken outside live mode, when the token or
`DERIV_ACCOUNT_ID` names one or no other is listed; a trading mode of any
spelling accepted; a contract in days or in a misspelt unit passed as one in
ticks; the default contract compared with a horizon as spelled, so that Level 2
may have no say; `expiry.require_edge` switching off Level 2's bound as well.

These shape the properties. `RestartSafeCounters` is checked over one day,
without refunds and resets, since the findings say what happens otherwise;
`TradesNeverOvercounted` is what holds across midnight; `SamplesApart` states
the window that does hold, on the clock and one bucket short; `VerdictsAreFinal` is
what holds of a late verdict; `OrdersAreSound` says what the settings do guarantee,
the exceptions of the findings spelled out in it.

## 7. Not modelled

- **Features, regime, scores**: floating-point computations without state or
  control; their results are inputs (`qualified`, `gate`, `trigger`).
- **The numerics of Level 1, Level 2 and the calibration**: fitting, calibration
  curves, the statistics of a promotion, the Monte Carlo lower bound. What
  they decide is modelled: which artifact may be traded on, which sample an
  estimate rests on, how mean and bound enter stake and verdict. Their values
  are inputs; in particular nothing here says that a lower bound is one.
- **Schema, Pine script**: DDL, another platform.
- **Command line**: commands that report or fetch. Those that touch live state
  are modelled (`OperatorReset`, `Replay`, the reconciliation pass), as is the
  start of `live`.
- Inside modelled parts: `connect()`'s opening of the first socket and `close()`,
  the rate limiter (it only delays), `walk_forward`, `warm()`, `session_pnl` and
  the log's snapshot, journal statements that fail when a trade is opened (the
  exception leaves the task and ends the process, which is `Crash`), reading
  and converting single settings, the table
  `predictions` (written, only ever read by reports).
- `TradeLifecycle` counts money in units of its own and a fixed stake; amounts
  are `TradeTicket`'s, which in turn takes the balance and the number of losses
  as inputs.
- PostgreSQL: `record_signal` uses two transactions there; `SignalPipeline`
  follows SQLite's single commit.

## 8. Running it

    tlc -config lifecycle.cfg MCTradeLifecycle
    tlapm TradeLifecycleProofs.tla
    tlapm DerivConnectionProofs.tla
    tlapm SettlementWatchProofs.tla
    tlapm SymbolFeedProofs.tla
    tlapm SignalPipelineProofs.tla
    tlapm CounterfactualsProofs.tla
    tlapm TradeTicketProofs.tla
    tlapm ExpiryEvidenceProofs.tla

Each `.cfg` belongs to the MC module of its component (`PROJECT.json`, `runs`).
The longest passing run takes about three minutes with two workers.
