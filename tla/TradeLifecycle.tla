--------------------------- MODULE TradeLifecycle ----------------------------
(***************************************************************************)
(* One contract from signal to settlement: execution/live.py (LiveTrader)  *)
(* and execution/executor.py around the risk manager, the trade journal    *)
(* and Deriv.  The bot is one asyncio process: everything between two      *)
(* awaits is one action here, and the actions of its tasks interleave.     *)
(* Deriv is external: it fills or refuses an order whenever it gets to it, *)
(* also after the bot has stopped waiting or has died.                     *)
(***************************************************************************)
EXTENDS RiskManager, TradeJournal, Staking

CONSTANTS
  StartBalance,      \* account balance when the history starts
  PortfolioAttempts, \* attempts of reconcile_ambiguous_buy (3 in the code)
  ResearchMode,      \* settings.mode = "research"
  \* bounds on the environment, not in the code:
  Results,           \* the outcomes Deriv reports, a subset of Outcomes
  MaxDay,            \* local days 1..MaxDay
  MaxCrashes,        \* process deaths
  MaxTimeouts,       \* buys whose answer never reaches the bot
  MaxRefreshes,      \* balance refreshes
  MaxDbFaults,       \* journal statements that raise and do not end the process
  MaxResets          \* operator runs of main.py --reset-risk

ASSUME LifecycleAssumption ==
  /\ StartBalance \in Nat /\ PortfolioAttempts \in Nat \ {0}
  /\ ResearchMode \in BOOLEAN /\ Results \subseteq Outcomes /\ MaxDay \in Nat \ {0}
  /\ {MaxCrashes, MaxTimeouts, MaxRefreshes, MaxDbFaults, MaxResets} \subseteq Nat

VARIABLES
  mode,           \* the process: "down", "booting" (run() before the loop), "up"
  pc,             \* handle_symbol of each symbol, by the await it is in
  order,          \* the buy request each symbol task is waiting for
  filled,         \* the contract Deriv bought for that request
  ignored,        \* contracts reconcile_ambiguous_buy may not take
  tries,          \* its failed portfolio calls
  open_symbols,   \* LiveTrader.open_symbols
  monitors,       \* contracts with a _settle_and_release task
  risk,           \* LiveTrader.risk
  ladder,         \* LiveTrader.staking: losses in a row
  balance_reply,  \* a balance answer not yet applied, or <<>>
  journal, settle_order, reset_mark,   \* the database
  broker,         \* Deriv's contracts
  late,           \* orders at Deriv nobody waits for any more, per symbol
  cash,           \* Deriv's account balance
  day,            \* wall clock
  spent           \* how much of each bound is used up

taskVars == <<pc, order, filled, ignored, tries>>
dbVars == <<journal, settle_order, reset_mark>>
derivVars == <<broker, late, cash>>
clockVars == <<day, spent>>
vars == <<mode, taskVars, open_symbols, monitors, risk, ladder, balance_reply, dbVars,
          derivVars, clockVars>>

Order == {"none", "sent", "refused", "filled"}
Deal == [status: {"none", "live", "sold"}, symbol: Symbols \cup {NoSymbol},
         outcome: Outcomes]
Spent == [crashes: Nat, timeouts: Nat, refreshes: Nat, faults: Nat, resets: Nat]

TypeOK ==
  /\ mode \in {"down", "booting", "up"}
  /\ pc \in [Symbols -> {"idle", "pricing", "buying", "reconciling"}]
  /\ order \in [Symbols -> Order]
  /\ filled \in [Symbols -> Contracts \cup {NoContract}]
  /\ ignored \in [Symbols -> SUBSET Contracts]
  /\ tries \in [Symbols -> Nat]
  /\ open_symbols \subseteq Symbols
  /\ monitors \subseteq Contracts
  /\ risk \in RiskState /\ ladder \in Nat
  /\ balance_reply \in Seq(Int) /\ Len(balance_reply) <= 1
  /\ journal \in [Contracts -> Row]
  /\ settle_order \in Seq(Contracts)
  /\ reset_mark \in 0..Len(settle_order)
  /\ broker \in [Contracts -> Deal]
  /\ late \in [Symbols -> Nat]
  /\ cash \in Int
  /\ day \in 1..MaxDay
  /\ spent \in Spent

Init ==
  /\ mode = "down"
  /\ pc = [s \in Symbols |-> "idle"]
  /\ order = [s \in Symbols |-> "none"]
  /\ filled = [s \in Symbols |-> NoContract]
  /\ ignored = [s \in Symbols |-> {}]
  /\ tries = [s \in Symbols |-> 0]
  /\ open_symbols = {}
  /\ monitors = {}
  /\ risk = NewRiskManager(StartBalance, 1) /\ ladder = 0
  /\ balance_reply = <<>>
  /\ journal = [c \in Contracts |-> EmptyRow]
  /\ settle_order = <<>>
  /\ reset_mark = 0
  /\ broker = [c \in Contracts |-> [status |-> "none", symbol |-> NoSymbol,
                                    outcome |-> "refund"]]
  /\ late = [s \in Symbols |-> 0]
  /\ cash = StartBalance
  /\ day = 1
  /\ spent = [crashes |-> 0, timeouts |-> 0, refreshes |-> 0, faults |-> 0, resets |-> 0]

-----------------------------------------------------------------------------
(* The symbol task: on_candle_closed and execute_trade.                    *)

MutantFreed(s) == open_symbols

(* open_symbols.discard                                                    *)
Freed(s) == open_symbols \ {s}

(* The task of s is back in its tick loop; the symbol may trade again.     *)
Release(s) ==
  /\ pc' = [pc EXCEPT ![s] = "idle"]
  /\ order' = [order EXCEPT ![s] = "none"]
  /\ filled' = [filled EXCEPT ![s] = NoContract]
  /\ ignored' = [ignored EXCEPT ![s] = {}]
  /\ tries' = [tries EXCEPT ![s] = 0]
  /\ open_symbols' = Freed(s)
  /\ UNCHANGED <<mode, monitors, ladder, balance_reply, dbVars, broker, cash, clockVars>>

MutantStartTrade(s) ==
  /\ mode = "up" /\ pc[s] = "idle"
  /\ pc' = [pc EXCEPT ![s] = "pricing"]
  /\ open_symbols' = open_symbols \cup {s}
  /\ UNCHANGED <<mode, order, filled, ignored, tries, monitors, ladder, risk, balance_reply,
                 dbVars, derivVars, clockVars>>

(* A closed candle gave a trade signal and the guard let it through; the   *)
(* symbol is marked before the first await.                                *)
StartTrade(s) ==
  /\ mode = "up" /\ pc[s] = "idle" /\ s \notin open_symbols
  /\ pc' = [pc EXCEPT ![s] = "pricing"]
  /\ open_symbols' = open_symbols \cup {s}
  /\ UNCHANGED <<mode, order, filled, ignored, tries, monitors, ladder, risk, balance_reply,
                 dbVars, derivVars, clockVars>>

(* No proposal could be obtained: can_trade is not called.                 *)
PricingFails(s) ==
  /\ mode = "up" /\ pc[s] = "pricing"
  /\ Release(s)
  /\ UNCHANGED <<risk, late>>

(* can_trade has been asked (so the day is rolled) and the proposal is     *)
(* stale, its economics are poor, a limit blocks, or the mode is research. *)
RefuseTrade(s) ==
  /\ mode = "up" /\ pc[s] = "pricing"
  /\ risk' = RollDay(risk, day)
  /\ Release(s)
  /\ UNCHANGED late

Orphans(s) ==
  {c \in Contracts : broker[c].status = "live" /\ broker[c].symbol = s
                     /\ journal[c].status = "none"}

(* All checks passed, buy() is awaited.  The time of the call is kept: an  *)
(* earlier contract of this symbol is ignored unless it was bought within  *)
(* the last 5 seconds as the same type.                                    *)
SendBuy(s) ==
  /\ mode = "up" /\ pc[s] = "pricing"
  /\ risk' = RollDay(risk, day)
  /\ CanTrade(risk', Stake)
  /\ ~ ResearchMode
  /\ pc' = [pc EXCEPT ![s] = "buying"]
  /\ order' = [order EXCEPT ![s] = "sent"]
  /\ \E old \in SUBSET Orphans(s) : ignored' = [ignored EXCEPT ![s] = old]
  /\ UNCHANGED <<mode, filled, tries, open_symbols, monitors, ladder, balance_reply, dbVars,
                 derivVars, clockVars>>

(* The tail of execute_trade and of on_candle_closed once a contract id is *)
(* known: journal row, risk counters, settlement task.  The INSERT of a    *)
(* contract_id that has a row raises before anything is counted; nothing   *)
(* catches it in the symbol's task, so it ends the process: Crash.         *)
RecordOpen(s, c) ==
  /\ journal[c].status = "none"
  /\ journal' = RecordTradeOpen(journal, c, s, day)
  /\ risk' = RegisterOpen(risk)
  /\ monitors' = monitors \cup {c}
  /\ pc' = [pc EXCEPT ![s] = "idle"]
  /\ order' = [order EXCEPT ![s] = "none"]
  /\ filled' = [filled EXCEPT ![s] = NoContract]
  /\ ignored' = [ignored EXCEPT ![s] = {}]
  /\ tries' = [tries EXCEPT ![s] = 0]
  /\ UNCHANGED <<mode, open_symbols, ladder, balance_reply, settle_order, reset_mark,
                 derivVars, clockVars>>

BuyAnswered(s) ==
  /\ mode = "up" /\ pc[s] = "buying" /\ order[s] = "filled"
  /\ RecordOpen(s, filled[s])

MutantBuyRejected(s) ==
  /\ mode = "up" /\ pc[s] = "buying" /\ order[s] \in {"refused", "filled"}
  /\ Release(s)
  /\ UNCHANGED <<risk, late>>

BuyRejected(s) ==
  /\ mode = "up" /\ pc[s] = "buying" /\ order[s] = "refused"
  /\ Release(s)
  /\ UNCHANGED <<risk, late>>

(* BuyAmbiguousError: the request timed out or the socket died.  The order *)
(* may still be on its way.  known_contract_ids is read at once; a read    *)
(* that raises leaves the set empty.                                       *)
BuyAmbiguous(s) ==
  /\ mode = "up" /\ pc[s] = "buying" /\ order[s] # "none"
  /\ spent.timeouts < MaxTimeouts
  /\ pc' = [pc EXCEPT ![s] = "reconciling"]
  /\ late' = [late EXCEPT ![s] = IF order[s] = "sent" THEN @ + 1 ELSE @]
  /\ order' = [order EXCEPT ![s] = "none"]
  /\ filled' = [filled EXCEPT ![s] = NoContract]
  /\ \/ /\ ignored' = [ignored EXCEPT ![s] = @ \cup KnownContractIds(journal)]
        /\ spent' = [spent EXCEPT !.timeouts = @ + 1]
     \/ /\ spent.faults < MaxDbFaults
        /\ spent' = [spent EXCEPT !.timeouts = @ + 1, !.faults = @ + 1]
        /\ UNCHANGED ignored
  /\ UNCHANGED <<mode, tries, open_symbols, monitors, ladder, risk, balance_reply, dbVars,
                 broker, cash, day>>

MutantCandidates(s) == {c \in Contracts : broker[c].status = "live"} \ ignored[s]

(* A portfolio answer lists the contracts that are open at Deriv.          *)
Candidates(s) ==
  {c \in Contracts : broker[c].status = "live" /\ broker[c].symbol = s} \ ignored[s]

PortfolioFound(s) ==
  /\ mode = "up" /\ pc[s] = "reconciling"
  /\ \E c \in Candidates(s) : RecordOpen(s, c)

(* An answer without a match ends the search, and so does the last failed  *)
(* attempt.                                                                *)
PortfolioEmpty(s) ==
  /\ mode = "up" /\ pc[s] = "reconciling" /\ Candidates(s) = {}
  /\ Release(s)
  /\ UNCHANGED <<risk, late>>

PortfolioFails(s) ==
  /\ mode = "up" /\ pc[s] = "reconciling"
  /\ IF tries[s] + 1 < PortfolioAttempts
     THEN /\ tries' = [tries EXCEPT ![s] = @ + 1]
          /\ UNCHANGED <<mode, pc, order, filled, ignored, open_symbols, monitors, ladder,
                         balance_reply, dbVars, broker, cash, clockVars>>
     ELSE Release(s)
  /\ UNCHANGED <<risk, late>>

-----------------------------------------------------------------------------
(* The settlement task and the balance loop.                               *)

(* monitor_settlement has seen the contract sold: the row is settled, and  *)
(* the call that settled it moves the counters.                            *)
Settle(c) ==
  /\ mode = "up" /\ c \in monitors /\ broker[c].status = "sold"
  /\ journal' = RecordTradeResult(journal, c, broker[c].outcome, day)
  /\ IF journal[c].status = "open"
     THEN /\ settle_order' = Append(settle_order, c)
          /\ risk' = RegisterResult(risk, Profit(broker[c].outcome))
          /\ ladder' = LadderAfter(ladder, broker[c].outcome)
     ELSE UNCHANGED <<settle_order, risk, ladder>>
  /\ monitors' = monitors \ {c}
  /\ open_symbols' = Freed(journal[c].symbol)
  /\ UNCHANGED <<mode, taskVars, balance_reply, reset_mark, derivVars, clockVars>>

(* The statement raises: the task ends, its "finally" frees the symbol.    *)
SettleFails(c) ==
  /\ mode = "up" /\ c \in monitors /\ broker[c].status = "sold"
  /\ spent.faults < MaxDbFaults
  /\ spent' = [spent EXCEPT !.faults = @ + 1]
  /\ monitors' = monitors \ {c}
  /\ open_symbols' = Freed(journal[c].symbol)
  /\ UNCHANGED <<mode, taskVars, risk, ladder, balance_reply, dbVars, derivVars, day>>

(* refresh_balance: Deriv answers with the balance of that moment, the bot *)
(* applies the answer when the task is scheduled again.                    *)
ReadBalance ==
  /\ mode = "up" /\ balance_reply = <<>> /\ spent.refreshes < MaxRefreshes
  /\ balance_reply' = <<cash>>
  /\ spent' = [spent EXCEPT !.refreshes = @ + 1]
  /\ UNCHANGED <<mode, taskVars, open_symbols, monitors, ladder, risk, dbVars, derivVars, day>>

RefreshBalance ==
  /\ mode = "up" /\ balance_reply # <<>>
  /\ risk' = UpdateBalance(risk, balance_reply[1])
  /\ balance_reply' = <<>>
  /\ UNCHANGED <<mode, taskVars, open_symbols, monitors, ladder, dbVars, derivVars, clockVars>>

-----------------------------------------------------------------------------
(* The process: any exception that leaves a symbol task ends it, Railway   *)
(* starts it again.                                                        *)

Crash ==
  /\ mode # "down" /\ spent.crashes < MaxCrashes
  /\ mode' = "down"
  /\ pc' = [s \in Symbols |-> "idle"]
  /\ late' = [s \in Symbols |-> IF order[s] = "sent" THEN late[s] + 1 ELSE late[s]]
  /\ order' = [s \in Symbols |-> "none"]
  /\ filled' = [s \in Symbols |-> NoContract]
  /\ ignored' = [s \in Symbols |-> {}]
  /\ tries' = [s \in Symbols |-> 0]
  /\ open_symbols' = {} /\ monitors' = {} /\ balance_reply' = <<>>
  /\ spent' = [spent EXCEPT !.crashes = @ + 1]
  /\ UNCHANGED <<risk, ladder, dbVars, broker, cash, day>>

(* run() asks for the balance first.                                       *)
Boot ==
  /\ mode = "down"
  /\ mode' = "booting"
  /\ balance_reply' = <<cash>>
  /\ UNCHANGED <<taskVars, open_symbols, monitors, ladder, risk, dbVars, derivVars, clockVars>>

MutantReattached == {}

(* The contracts that get a settlement task and keep their symbol blocked. *)
Reattached == OpenTrades(journal)

RestoreState ==
  /\ mode = "booting"
  /\ mode' = "up"
  /\ risk' = Restore(NewRiskManager(balance_reply[1], day),
                     RiskStateSince(journal, settle_order, reset_mark, day),
                     Cardinality(OpenTrades(journal)), day)
  /\ ladder' = LosingStreak(journal, settle_order, reset_mark)
  /\ open_symbols' = {journal[c].symbol : c \in Reattached}
  /\ monitors' = Reattached
  /\ balance_reply' = <<>>
  /\ UNCHANGED <<taskVars, dbVars, derivVars, day, spent>>

OperatorReset ==
  /\ spent.resets < MaxResets
  /\ spent' = [spent EXCEPT !.resets = @ + 1]
  /\ reset_mark' = Len(settle_order)
  /\ UNCHANGED <<mode, taskVars, open_symbols, monitors, ladder, risk, balance_reply, journal,
                 settle_order, derivVars, day>>

-----------------------------------------------------------------------------
(* Deriv and the clock.                                                    *)

Buy(c, s) ==
  /\ broker[c].status = "none"
  /\ broker' = [broker EXCEPT ![c].status = "live", ![c].symbol = s]
  /\ cash' = cash - Stake

FillOrder(s, c) ==
  /\ order[s] = "sent" /\ Buy(c, s)
  /\ order' = [order EXCEPT ![s] = "filled"]
  /\ filled' = [filled EXCEPT ![s] = c]
  /\ UNCHANGED <<mode, pc, ignored, tries, open_symbols, monitors, ladder, risk, balance_reply,
                 dbVars, late, clockVars>>

RejectOrder(s) ==
  /\ order[s] = "sent"
  /\ order' = [order EXCEPT ![s] = "refused"]
  /\ UNCHANGED <<mode, pc, filled, ignored, tries, open_symbols, monitors, ladder, risk,
                 balance_reply, dbVars, derivVars, clockVars>>

FillLateOrder(s, c) ==
  /\ late[s] > 0 /\ Buy(c, s)
  /\ late' = [late EXCEPT ![s] = @ - 1]
  /\ UNCHANGED <<mode, taskVars, open_symbols, monitors, ladder, risk, balance_reply, dbVars,
                 clockVars>>

DropLateOrder(s) ==
  /\ late[s] > 0
  /\ late' = [late EXCEPT ![s] = @ - 1]
  /\ UNCHANGED <<mode, taskVars, open_symbols, monitors, ladder, risk, balance_reply, dbVars,
                 broker, cash, clockVars>>

Sell(c, outcome) ==
  /\ broker[c].status = "live"
  /\ broker' = [broker EXCEPT ![c].status = "sold", ![c].outcome = outcome]
  /\ cash' = cash + Stake + Profit(outcome)
  /\ UNCHANGED <<mode, taskVars, open_symbols, monitors, ladder, risk, balance_reply, dbVars,
                 late, clockVars>>

CooldownElapses ==
  /\ mode = "up" /\ risk.cooling
  /\ risk' = [risk EXCEPT !.cooling = FALSE]
  /\ UNCHANGED <<mode, taskVars, open_symbols, monitors, ladder, balance_reply, dbVars,
                 derivVars, clockVars>>

Midnight ==
  /\ day < MaxDay
  /\ day' = day + 1
  /\ UNCHANGED <<mode, taskVars, open_symbols, monitors, ladder, risk, balance_reply, dbVars,
                 derivVars, spent>>

SymbolTask(s) ==
  \/ StartTrade(s) \/ PricingFails(s) \/ RefuseTrade(s) \/ SendBuy(s)
  \/ BuyAnswered(s) \/ BuyRejected(s) \/ BuyAmbiguous(s)
  \/ PortfolioFound(s) \/ PortfolioEmpty(s) \/ PortfolioFails(s)

Deriv ==
  \/ \E s \in Symbols :
       \/ RejectOrder(s) \/ DropLateOrder(s)
       \/ \E c \in Contracts : FillOrder(s, c) \/ FillLateOrder(s, c)
  \/ \E c \in Contracts, o \in Results : Sell(c, o)

Next ==
  \/ \E s \in Symbols : SymbolTask(s)
  \/ \E c \in Contracts : Settle(c) \/ SettleFails(c)
  \/ ReadBalance \/ RefreshBalance
  \/ Crash \/ Boot \/ RestoreState \/ OperatorReset
  \/ Deriv \/ CooldownElapses \/ Midnight

Spec == Init /\ [][Next]_vars

-----------------------------------------------------------------------------
(* Fairness: an asyncio task that can run is run, a request is answered or *)
(* runs into its timeout, Deriv ends every contract and reports it, and    *)
(* Railway restarts the process.  Crashes, timeouts and new signals are    *)
(* never forced.                                                           *)

TaskFairness(s) ==
  /\ WF_vars(PricingFails(s) \/ RefuseTrade(s) \/ SendBuy(s))
  /\ WF_vars(BuyAnswered(s) \/ BuyRejected(s))
  /\ WF_vars(PortfolioFound(s) \/ PortfolioEmpty(s) \/ PortfolioFails(s))
  /\ WF_vars(RejectOrder(s) \/ \E c \in Contracts : FillOrder(s, c))

ContractFairness(c) ==
  /\ WF_vars(Settle(c))
  /\ WF_vars(\E o \in Results : Sell(c, o))

FairSpec ==
  /\ Spec
  /\ \A s \in Symbols : TaskFairness(s)
  /\ \A c \in Contracts : ContractFairness(c)
  /\ WF_vars(Boot) /\ WF_vars(RestoreState)

-----------------------------------------------------------------------------
(* Safety                                                                  *)

(* At any time, across crashes and restarts, the journal holds at most one *)
(* unsettled trade per symbol.                                             *)
SymbolExclusive ==
  \A c1, c2 \in OpenTrades(journal) :
    journal[c1].symbol = journal[c2].symbol => c1 = c2

(* The memory of a running bot is exactly what the journal and its tasks   *)
(* say: a settlement task per open row, a blocked symbol per open row and  *)
(* per trade in progress, and never both for one symbol.  live.py: an      *)
(* unsettled trade keeps its symbol blocked, also after a restart.         *)
TasksFollowJournal ==
  IF mode = "up"
  THEN /\ monitors = OpenTrades(journal)
       /\ open_symbols = {s \in Symbols : pc[s] # "idle"}
                           \cup {journal[c].symbol : c \in OpenTrades(journal)}
       /\ \A c \in OpenTrades(journal) : pc[journal[c].symbol] = "idle"
  ELSE /\ open_symbols = {} /\ monitors = {}
       /\ \A s \in Symbols : pc[s] = "idle"

(* A buy answer on its way to a task names a contract of that symbol that  *)
(* no other task has taken from a portfolio answer meanwhile.              *)
AnswersMatchDeriv ==
  \A s \in Symbols :
    /\ order[s] # "none" => pc[s] = "buying"
    /\ order[s] = "filled" =>
         /\ broker[filled[s]].status # "none" /\ broker[filled[s]].symbol = s
         /\ journal[filled[s]].status = "none"

(* Nothing is booked until Deriv says the contract is sold, and then with  *)
(* its own result; a row always names a contract that exists, under the    *)
(* symbol it was bought for, whoever found it (buy answer or portfolio).   *)
JournalIsTruthful ==
  \A c \in KnownContractIds(journal) :
    /\ broker[c].status # "none" /\ broker[c].symbol = journal[c].symbol
    /\ journal[c].status = "settled" =>
         broker[c].status = "sold" /\ broker[c].outcome = journal[c].outcome

(* A restart at this moment would rebuild exactly the counters the running *)
(* manager would use for its next check: total, count, streak, open trades.*)
RestartSafeCounters ==
  mode = "up" =>
    LET r == RollDay(risk, day)
        s == RiskStateSince(journal, settle_order, reset_mark, day)
    IN  /\ r.daily_pnl = s.daily_pnl
        /\ r.trades_today = s.trades_today
        /\ r.consecutive_losses = s.consecutive_losses
        /\ r.open_trades = Cardinality(OpenTrades(journal))

(* After midnight the manager may count fewer trades than a restart would, *)
(* because a trade opened before its day was rolled is forgotten; it never *)
(* counts more, so no trade of the day before blocks one of today.         *)
TradesNeverOvercounted ==
  mode = "up" =>
    RollDay(risk, day).trades_today <= Cardinality(OpenedSince(journal, day))

(* can_trade is asked before buy() and the trade counted after it, so the  *)
(* daily count can pass its limit, but only by the symbols that were       *)
(* between the two.                                                        *)
TradeCountOvershoot ==
  mode = "up" =>
    risk.trades_today
      + Cardinality({s \in Symbols : pc[s] \in {"buying", "reconciling"}})
      < MaxTradesPerDay + Cardinality(Symbols)

(* max_daily_loss: a total at the limit never leaves the manager unlatched,*)
(* whether it got there by a settlement or was found there by a restart.   *)
DailyLossIsLatched ==
  mode = "up" /\ risk.daily_pnl <= -MaxDailyLoss => risk.stop # "no"

(* The losses in a row a martingale stake is sized from are settlements of *)
(* the journal without a win among them, all since some operator reset:    *)
(* also after a crash, a refund, a booking that failed or one that Deriv   *)
(* reported late; and a limit on losing streaks never counts more.         *)
LadderIsTheJournals ==
  mode = "up" =>
    /\ \E mark \in 0..reset_mark : ladder = LosingStreak(journal, settle_order, mark)
    /\ risk.consecutive_losses <= ladder

Unhandled(c) ==
  /\ broker[c].status # "none" /\ journal[c].status = "none"
  /\ ~ \E s \in Symbols : /\ pc[s] \in {"buying", "reconciling"}
                          /\ broker[c].symbol = s

(* A contract the bot paid for and does not know of costs a lost answer: a *)
(* buy that timed out, or a crash of a task that was waiting for one.      *)
OrphansOnlyFromLostAnswers ==
  Cardinality({c \in Contracts : Unhandled(c)})
    <= spent.timeouts + spent.crashes * Cardinality(Symbols)

-----------------------------------------------------------------------------
(* Claims of the documentation that the code does not keep                 *)

Restarts == mode = "booting" /\ mode' = "up"

(* manager.py: a limit hit before a restart is still hit after it.         *)
LatchSurvivesRestart ==
  [][Restarts /\ risk.stop # "no" => risk'.stop # "no"]_vars

-----------------------------------------------------------------------------
(* Liveness                                                                *)

(* Every trade in the journal is settled in the end, whatever crashes came *)
(* between.                                                                *)
EveryTradeIsBooked ==
  \A c \in Contracts : journal[c].status = "open" ~> journal[c].status = "settled"

(* No symbol stays blocked for ever: not by a lost buy answer, a failing   *)
(* portfolio call, a crash or a settlement.                                *)
EverySymbolIsFreed ==
  \A s \in Symbols : s \in open_symbols ~> s \notin open_symbols

-----------------------------------------------------------------------------
(* What the trade journal promises                                         *)

Ledger == INSTANCE ContractLedger WITH
  ledger <- [c \in Contracts |-> [status |-> journal[c].status,
                                  symbol |-> journal[c].symbol,
                                  outcome |-> journal[c].outcome]]

(* The bot, its crashes and Deriv's late orders implement the ledger: one  *)
(* open contract per symbol, each booked once, and a booking is final.     *)
ImplementsLedger == Ledger!Spec

(* The same with the ledger's own fairness.                                *)
ImplementsFairLedger == Ledger!FairSpec
=============================================================================
