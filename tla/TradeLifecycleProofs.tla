------------------------- MODULE TradeLifecycleProofs ------------------------
(***************************************************************************)
(* Proofs about TradeLifecycle for every set of symbols and contracts and  *)
(* every value of the limits and bounds, in three parts:                   *)
(*   - types, one trade per symbol and the refinement of ContractLedger;   *)
(*   - what needs no assumption on the journal: the book, the answers and  *)
(*     Deriv agree, what the bot does not know of is bounded, and the      *)
(*     daily loss is latched;                                              *)
(*   - the counters of the risk manager and the staking engine against     *)
(*     what the journal holds, and what a restart rebuilds from it.        *)
(***************************************************************************)
EXTENDS TradeLifecycle, FiniteSetTheorems, TLAPS

(* The operators of the risk manager stay within the manager's states.     *)
LEMMA RollDayType ==
  ASSUME NEW r \in RiskState, NEW today \in Nat
  PROVE  RollDay(r, today) \in RiskState
<1>1. 0 \in Int /\ 0 \in Nat
  OBVIOUS
<1> QED
  BY <1>1, Zenon DEF RollDay, RiskState

LEMMA UpdateBalanceType ==
  ASSUME NEW r \in RiskState, NEW b \in Int
  PROVE  UpdateBalance(r, b) \in RiskState
<1>1. (IF b > r.peak THEN b ELSE r.peak) \in Int
  BY DEF RiskState
<1> QED
  BY <1>1, Zenon DEF UpdateBalance, RiskState

LEMMA RegisterOpenType ==
  ASSUME NEW r \in RiskState
  PROVE  RegisterOpen(r) \in RiskState
<1>1. r.open_trades + 1 \in Nat /\ r.trades_today + 1 \in Nat
  BY DEF RiskState
<1>2. (CooldownSeconds > 0) \in BOOLEAN
  BY LimitsAssumption
<1> QED
  BY <1>1, <1>2, Zenon DEF RegisterOpen, RiskState

LEMMA LatchLimitsType ==
  ASSUME NEW r \in RiskState
  PROVE  LatchLimits(r) \in RiskState
BY DEF LatchLimits, EmergencyStop, RiskState, Stops

LEMMA RegisterResultType ==
  ASSUME NEW r \in RiskState, NEW pnl \in Int
  PROVE  RegisterResult(r, pnl) \in RiskState
<1> DEFINE counted ==
      [r EXCEPT !.open_trades = IF @ > 0 THEN @ - 1 ELSE 0,
                !.daily_pnl = @ + pnl,
                !.consecutive_losses = IF pnl < 0 THEN @ + 1
                                       ELSE IF pnl > 0 THEN 0 ELSE @]
<1>1. counted \in RiskState
  <2>1. (IF r.open_trades > 0 THEN r.open_trades - 1 ELSE 0) \in Nat
    BY DEF RiskState
  <2>2. r.daily_pnl + pnl \in Int
    BY DEF RiskState
  <2>3. (IF pnl < 0 THEN r.consecutive_losses + 1
         ELSE IF pnl > 0 THEN 0 ELSE r.consecutive_losses) \in Nat
    BY DEF RiskState
  <2> QED
    BY <2>1, <2>2, <2>3, Zenon DEF RiskState
<1>2. r.balance + pnl \in Int
  BY DEF RiskState
<1>3. UpdateBalance(counted, r.balance + pnl) \in RiskState
  BY <1>1, <1>2, UpdateBalanceType
<1>4. LatchLimits(UpdateBalance(counted, r.balance + pnl)) \in RiskState
  BY <1>3, LatchLimitsType
<1> QED
  BY <1>4 DEF RegisterResult

LEMMA ProfitType ==
  ASSUME NEW o \in Outcomes
  PROVE  Profit(o) \in Int
BY JournalAssumption DEF Profit, Outcomes

(* What restore_state computes from the journal.                           *)
LEMMA SubsetOfContracts ==
  ASSUME NEW S, S \subseteq Contracts
  PROVE  IsFiniteSet(S) /\ Cardinality(S) \in Nat
BY JournalAssumption, FS_Subset, FS_CardinalityType

LEMMA RiskStateSinceType ==
  ASSUME NEW today \in Nat, settle_order \in Seq(Contracts),
         reset_mark \in 0..Len(settle_order)
  PROVE  LET s == RiskStateSince(journal, settle_order, reset_mark, today)
         IN  s.daily_pnl \in Int /\ s.trades_today \in Nat /\ s.consecutive_losses \in Nat
<1>1. \A o : Cardinality(SettledSince(journal, today, o)) \in Nat
  BY SubsetOfContracts DEF SettledSince
<1>2. DailyPnl(journal, today) \in Int
  BY <1>1, JournalAssumption DEF DailyPnl
<1>3. Cardinality(OpenedSince(journal, today)) \in Nat
  BY SubsetOfContracts DEF OpenedSince, KnownContractIds
<1>4. LosingStreak(journal, settle_order, reset_mark) \in Nat
  <2> DEFINE I == (reset_mark + 1)..Len(settle_order)
             R == {i \in I : \A j \in i..Len(settle_order) :
                               journal[settle_order[j]].outcome # "won"}
  <2>1. IsFiniteSet(I)
    BY FS_Interval
  <2>2. IsFiniteSet(R)
    BY <2>1, FS_Subset
  <2>3. Cardinality(R) \in Nat
    BY <2>2, FS_CardinalityType
  <2> QED
    BY <2>3 DEF LosingStreak
<1> QED
  BY <1>2, <1>3, <1>4 DEF RiskStateSince

LEMMA RestoreType ==
  ASSUME NEW r \in RiskState, NEW today \in Nat, NEW n \in Nat, NEW s,
         s.daily_pnl \in Int, s.trades_today \in Nat, s.consecutive_losses \in Nat
  PROVE  Restore(r, s, n, today) \in RiskState
<1>1. RollDay(r, today) \in RiskState
  BY RollDayType
<1> QED
  BY <1>1 DEF Restore, EmergencyStop, RiskState, Stops

-----------------------------------------------------------------------------
(* Type correctness, one lemma per group of actions.                       *)

LEMMA ProcessType ==
  ASSUME TypeOK, NEW s \in Symbols, Release(s), risk' \in RiskState,
         late' \in [Symbols -> Nat]
  PROVE  TypeOK'
BY DEF TypeOK, Release, Freed, dbVars, clockVars, Order

(* An answer that says "filled" comes with a contract: what BuyAnswered    *)
(* needs to know beyond the types.                                         *)
AnswerHasContract ==
  \A s \in Symbols : order[s] = "filled" => filled[s] \in Contracts

(* run() has the balance before it restores the state.                     *)
BootHasBalance == mode = "booting" => Len(balance_reply) = 1

(* A row that was entered has a configured symbol.                         *)
RowHasSymbol ==
  \A c \in KnownContractIds(journal) : journal[c].symbol \in Symbols

LEMMA SpentType ==
  ASSUME TypeOK
  PROVE  /\ [spent EXCEPT !.crashes = @ + 1] \in Spent
         /\ [spent EXCEPT !.timeouts = @ + 1] \in Spent
         /\ [spent EXCEPT !.refreshes = @ + 1] \in Spent
         /\ [spent EXCEPT !.faults = @ + 1] \in Spent
         /\ [spent EXCEPT !.resets = @ + 1] \in Spent
         /\ [spent EXCEPT !.timeouts = @ + 1, !.faults = @ + 1] \in Spent
<1>1. /\ spent.crashes + 1 \in Nat /\ spent.timeouts + 1 \in Nat
      /\ spent.refreshes + 1 \in Nat /\ spent.faults + 1 \in Nat
      /\ spent.resets + 1 \in Nat
  <2>1. spent \in Spent
    BY DEF TypeOK
  <2> QED
    BY <2>1 DEF Spent
<1> QED
  BY <1>1, Zenon DEF TypeOK, Spent

LEMMA RecordOpenType ==
  ASSUME TypeOK, NEW s \in Symbols, NEW c \in Contracts, RecordOpen(s, c)
  PROVE  TypeOK'
<1>1. risk' \in RiskState
  BY RegisterOpenType DEF TypeOK, RecordOpen
<1>2. day \in Nat
  BY LifecycleAssumption DEF TypeOK
<1>3. journal' \in [Contracts -> Row]
  BY <1>2 DEF TypeOK, RecordOpen, RecordTradeOpen, Row, Outcomes
<1> QED
  BY <1>1, <1>3 DEF TypeOK, RecordOpen, derivVars, clockVars, Order

LEMMA SymbolTaskType ==
  ASSUME TypeOK, AnswerHasContract, NEW s \in Symbols, SymbolTask(s)
  PROVE  TypeOK'
<1>0. day \in Nat
  BY LifecycleAssumption DEF TypeOK
<1>1. RollDay(risk, day) \in RiskState
  BY <1>0, RollDayType DEF TypeOK
<1>2. CASE StartTrade(s)
  BY <1>2 DEF StartTrade, TypeOK, dbVars, derivVars, clockVars
<1>3. CASE PricingFails(s)
  BY <1>3, ProcessType DEF PricingFails, TypeOK
<1>4. CASE RefuseTrade(s)
  BY <1>1, <1>4, ProcessType DEF RefuseTrade, TypeOK
<1>5. CASE SendBuy(s)
  <2>1. ignored' \in [Symbols -> SUBSET Contracts]
    BY <1>5 DEF SendBuy, TypeOK, Orphans
  <2> QED
    BY <1>1, <1>5, <2>1 DEF SendBuy, TypeOK, dbVars, derivVars, clockVars, Order
<1>6. CASE BuyAnswered(s)
  BY <1>6, RecordOpenType DEF BuyAnswered, AnswerHasContract
<1>7. CASE BuyRejected(s)
  BY <1>7, ProcessType DEF BuyRejected, TypeOK
<1>8. CASE BuyAmbiguous(s)
  <2>1. ignored' \in [Symbols -> SUBSET Contracts]
    <3>1. /\ ignored \in [Symbols -> SUBSET Contracts]
          /\ KnownContractIds(journal) \subseteq Contracts
      BY DEF TypeOK, KnownContractIds
    <3>2. \/ ignored' = [ignored EXCEPT ![s] = ignored[s] \cup KnownContractIds(journal)]
          \/ ignored' = ignored
      BY <1>8 DEF BuyAmbiguous
    <3> QED
      BY <3>1, <3>2
  <2>2. spent' \in Spent
    BY <1>8, SpentType DEF BuyAmbiguous
  <2>3. late' \in [Symbols -> Nat]
    BY <1>8 DEF BuyAmbiguous, TypeOK
  <2> QED
    BY <1>8, <2>1, <2>2, <2>3 DEF BuyAmbiguous, TypeOK, dbVars, Order
<1>9. CASE PortfolioFound(s)
  BY <1>9, RecordOpenType DEF PortfolioFound, Candidates
<1>10. CASE PortfolioEmpty(s)
  BY <1>10, ProcessType DEF PortfolioEmpty, TypeOK
<1>11. CASE PortfolioFails(s)
  <2>1. CASE tries[s] + 1 < PortfolioAttempts
    <3>1. tries' \in [Symbols -> Nat]
      <4>1. tries' = [tries EXCEPT ![s] = tries[s] + 1]
        BY <1>11, <2>1 DEF PortfolioFails
      <4> QED
        BY <4>1 DEF TypeOK
    <3> QED
      BY <1>11, <2>1, <3>1 DEF PortfolioFails, TypeOK, dbVars, clockVars
  <2>2. CASE ~ (tries[s] + 1 < PortfolioAttempts)
    BY <1>11, <2>2, ProcessType DEF PortfolioFails, TypeOK
  <2> QED
    BY <2>1, <2>2
<1> QED
  BY <1>2, <1>3, <1>4, <1>5, <1>6, <1>7, <1>8, <1>9, <1>10, <1>11 DEF SymbolTask

LEMMA SettlementType ==
  ASSUME TypeOK, NEW c \in Contracts, Settle(c) \/ SettleFails(c)
  PROVE  TypeOK'
<1>1. CASE Settle(c)
  <2>0. day \in Nat
    BY LifecycleAssumption DEF TypeOK
  <2>1. broker[c].outcome \in Outcomes
    BY DEF TypeOK, Deal
  <2>2. journal' \in [Contracts -> Row]
    <3>1. journal \in [Contracts -> Row] /\ journal[c] \in Row
      BY DEF TypeOK
    <3>2. [journal[c] EXCEPT !.status = "settled", !.outcome = broker[c].outcome,
                             !.settled = day] \in Row
      BY <2>0, <2>1, <3>1 DEF Row
    <3>3. \/ journal' = journal
          \/ journal' = [journal EXCEPT ![c] =
                 [journal[c] EXCEPT !.status = "settled", !.outcome = broker[c].outcome,
                                    !.settled = day]]
      BY <1>1 DEF Settle, RecordTradeResult
    <3> QED
      BY <3>1, <3>2, <3>3
  <2>3. risk' \in RiskState
    BY <1>1, <2>1, ProfitType, RegisterResultType DEF Settle, TypeOK
  <2>4. settle_order' \in Seq(Contracts) /\ reset_mark' \in 0..Len(settle_order')
    <3>1. CASE journal[c].status = "open"
      <4>1. settle_order' = Append(settle_order, c) /\ reset_mark' = reset_mark
        BY <1>1, <3>1 DEF Settle
      <4>2. settle_order \in Seq(Contracts) /\ reset_mark \in 0..Len(settle_order)
        BY DEF TypeOK
      <4> QED
        BY <4>1, <4>2
    <3>2. CASE journal[c].status # "open"
      BY <1>1, <3>2 DEF Settle, TypeOK
    <3> QED
      BY <3>1, <3>2
  <2>5. ladder' \in Nat
    BY <1>1 DEF Settle, LadderAfter, TypeOK
  <2> QED
    BY <1>1, <2>2, <2>3, <2>4, <2>5 DEF Settle, Freed, TypeOK, taskVars, derivVars, clockVars
<1>2. CASE SettleFails(c)
  <2>1. spent' \in Spent
    BY <1>2, SpentType DEF SettleFails
  <2> QED
    BY <1>2, <2>1 DEF SettleFails, Freed, TypeOK, taskVars, dbVars, derivVars
<1> QED
  BY <1>1, <1>2

LEMMA ProcessStepType ==
  ASSUME TypeOK, BootHasBalance, RowHasSymbol,
         ReadBalance \/ RefreshBalance \/ Crash \/ Boot \/ RestoreState \/ OperatorReset
  PROVE  TypeOK'
<1>0. day \in Nat
  BY LifecycleAssumption DEF TypeOK
<1>1. CASE ReadBalance
  BY <1>1, SpentType DEF ReadBalance, TypeOK, taskVars, dbVars, derivVars
<1>2. CASE RefreshBalance
  <2>1. risk' \in RiskState
    BY <1>2, UpdateBalanceType DEF RefreshBalance, TypeOK
  <2>2. balance_reply' \in Seq(Int) /\ Len(balance_reply') <= 1
    BY <1>2 DEF RefreshBalance
  <2> QED
    BY <1>2, <2>1, <2>2 DEF RefreshBalance, TypeOK, taskVars, dbVars, derivVars, clockVars
<1>3. CASE Crash
  <2>1. late' \in [Symbols -> Nat]
    BY <1>3 DEF Crash, TypeOK
  <2>2. balance_reply' \in Seq(Int) /\ Len(balance_reply') <= 1
    BY <1>3 DEF Crash
  <2> QED
    BY <1>3, <2>1, <2>2, SpentType DEF Crash, TypeOK, dbVars, Order
<1>4. CASE Boot
  <2>1. balance_reply' \in Seq(Int) /\ Len(balance_reply') <= 1
    BY <1>4 DEF Boot, TypeOK
  <2> QED
    BY <1>4, <2>1 DEF Boot, TypeOK, taskVars, dbVars, derivVars, clockVars
<1>5. CASE RestoreState
  <2>1. NewRiskManager(balance_reply[1], day) \in RiskState
    <3>1. balance_reply[1] \in Int
      <4>1. balance_reply \in Seq(Int) /\ Len(balance_reply) = 1
        BY <1>5 DEF RestoreState, TypeOK, BootHasBalance
      <4> QED
        BY <4>1
    <3>2. \A x \in Int : NewRiskManager(x, day) \in RiskState
      BY <1>0 DEF NewRiskManager, RiskState, Stops
    <3> QED
      BY <3>1, <3>2
  <2>2. risk' \in RiskState
    <3> DEFINE state == RiskStateSince(journal, settle_order, reset_mark, day)
               open == Cardinality(OpenTrades(journal))
    <3>1. /\ state.daily_pnl \in Int /\ state.trades_today \in Nat
          /\ state.consecutive_losses \in Nat
      BY <1>0, RiskStateSinceType DEF TypeOK
    <3>2. open \in Nat
      BY SubsetOfContracts DEF OpenTrades
    <3>3. Restore(NewRiskManager(balance_reply[1], day), state, open, day) \in RiskState
      BY <1>0, <2>1, <3>1, <3>2, RestoreType
    <3> QED
      BY <1>5, <3>3 DEF RestoreState
  <2>3. open_symbols' \subseteq Symbols
    BY <1>5 DEF RestoreState, Reattached, OpenTrades, KnownContractIds, RowHasSymbol
  <2>4. monitors' \subseteq Contracts /\ balance_reply' \in Seq(Int) /\ Len(balance_reply') <= 1
    BY <1>5 DEF RestoreState, Reattached, OpenTrades
  <2>5. ladder' \in Nat
    <3>1. RiskStateSince(journal, settle_order, reset_mark, day).consecutive_losses \in Nat
      BY <1>0, RiskStateSinceType DEF TypeOK
    <3> QED
      BY <1>5, <3>1 DEF RestoreState, RiskStateSince
  <2> QED
    BY <1>5, <2>2, <2>3, <2>4, <2>5 DEF RestoreState, TypeOK, taskVars, dbVars, derivVars
<1>6. CASE OperatorReset
  <2>1. reset_mark' \in 0..Len(settle_order')
    BY <1>6 DEF OperatorReset, TypeOK
  <2> QED
    BY <1>6, <2>1, SpentType DEF OperatorReset, TypeOK, taskVars, derivVars
<1> QED
  BY <1>1, <1>2, <1>3, <1>4, <1>5, <1>6

LEMMA EnvironmentType ==
  ASSUME TypeOK, Deriv \/ CooldownElapses \/ Midnight
  PROVE  TypeOK'
<1>1. ASSUME NEW s \in Symbols, RejectOrder(s) \/ DropLateOrder(s)
      PROVE  TypeOK'
  <2>1. CASE RejectOrder(s)
    BY <2>1 DEF RejectOrder, TypeOK, dbVars, derivVars, clockVars, Order
  <2>2. CASE DropLateOrder(s)
    <3>1. late[s] - 1 \in Nat
      BY <2>2 DEF DropLateOrder, TypeOK
    <3> QED
      BY <2>2, <3>1 DEF DropLateOrder, TypeOK, taskVars, dbVars, clockVars
  <2> QED
    BY <1>1, <2>1, <2>2
<1>2. ASSUME NEW s \in Symbols, NEW c \in Contracts, Buy(c, s)
      PROVE  broker' \in [Contracts -> Deal] /\ cash' \in Int
  <2>1. [broker[c] EXCEPT !.status = "live", !.symbol = s] \in Deal
    BY DEF TypeOK, Deal
  <2>2. broker' = [broker EXCEPT ![c] = [broker[c] EXCEPT !.status = "live", !.symbol = s]]
    BY <1>2 DEF Buy, TypeOK, Deal
  <2>3. cash' \in Int
    BY <1>2, JournalAssumption DEF Buy, TypeOK
  <2> QED
    BY <2>1, <2>2, <2>3 DEF TypeOK
<1>3. ASSUME NEW s \in Symbols, NEW c \in Contracts, FillOrder(s, c) \/ FillLateOrder(s, c)
      PROVE  TypeOK'
  <2>1. broker' \in [Contracts -> Deal] /\ cash' \in Int
    BY <1>2, <1>3 DEF FillOrder, FillLateOrder
  <2>2. CASE FillOrder(s, c)
    BY <2>1, <2>2 DEF FillOrder, TypeOK, dbVars, clockVars, Order
  <2>3. CASE FillLateOrder(s, c)
    <3>1. late[s] - 1 \in Nat
      BY <2>3 DEF FillLateOrder, TypeOK
    <3> QED
      BY <2>1, <2>3, <3>1 DEF FillLateOrder, TypeOK, taskVars, dbVars, clockVars
  <2> QED
    BY <1>3, <2>2, <2>3
<1>4. ASSUME NEW c \in Contracts, NEW o \in Results, Sell(c, o)
      PROVE  TypeOK'
  <2>1. o \in Outcomes
    BY LifecycleAssumption
  <2>2. broker' \in [Contracts -> Deal]
    <3>1. broker \in [Contracts -> Deal] /\ broker[c] \in Deal
      BY DEF TypeOK
    <3>2. [broker[c] EXCEPT !.status = "sold", !.outcome = o] \in Deal
      BY <2>1, <3>1 DEF Deal
    <3>3. broker' = [broker EXCEPT ![c] =
                       [broker[c] EXCEPT !.status = "sold", !.outcome = o]]
      BY <1>4 DEF Sell
    <3> QED
      BY <3>1, <3>2, <3>3
  <2>3. cash' \in Int
    BY <1>4, <2>1, ProfitType, JournalAssumption DEF Sell, TypeOK
  <2> QED
    BY <1>4, <2>2, <2>3 DEF Sell, TypeOK, taskVars, dbVars, clockVars
<1>5. CASE CooldownElapses
  <2>1. risk' \in RiskState
    BY <1>5, Zenon DEF CooldownElapses, TypeOK, RiskState
  <2> QED
    BY <1>5, <2>1 DEF CooldownElapses, TypeOK, taskVars, dbVars, derivVars, clockVars
<1>6. CASE Midnight
  <2>1. day' \in 1..MaxDay
    BY <1>6, LifecycleAssumption DEF Midnight, TypeOK
  <2> QED
    BY <1>6, <2>1 DEF Midnight, TypeOK, taskVars, dbVars, derivVars
<1> QED
  BY <1>1, <1>3, <1>4, <1>5, <1>6 DEF Deriv

(* What the type proof carries along.                                      *)
TypeInv == TypeOK /\ AnswerHasContract /\ BootHasBalance /\ RowHasSymbol

LEMMA InitTypeInv == Init => TypeInv
<1> SUFFICES ASSUME Init PROVE TypeInv
  OBVIOUS
<1>1. StartBalance \in Int /\ 1 \in 1..MaxDay
  BY LifecycleAssumption
<1>2. risk \in RiskState
  BY <1>1 DEF Init, NewRiskManager, RiskState, Stops
<1>3. journal \in [Contracts -> Row] /\ broker \in [Contracts -> Deal]
  BY DEF Init, EmptyRow, Row, Deal, Outcomes
<1>4. spent \in Spent
  BY DEF Init, Spent
<1>5. settle_order \in Seq(Contracts) /\ reset_mark \in 0..Len(settle_order)
  BY DEF Init
<1>6. balance_reply \in Seq(Int) /\ Len(balance_reply) <= 1
  BY DEF Init
<1>7. TypeOK
  BY <1>1, <1>2, <1>3, <1>4, <1>5, <1>6 DEF Init, TypeOK, Order
<1>8. AnswerHasContract /\ BootHasBalance /\ RowHasSymbol
  BY DEF Init, AnswerHasContract, BootHasBalance, RowHasSymbol, KnownContractIds, EmptyRow
<1> QED
  BY <1>7, <1>8 DEF TypeInv

LEMMA TypeStep ==
  ASSUME TypeInv, [Next]_vars
  PROVE  TypeOK'
<1>1. CASE \E s \in Symbols : SymbolTask(s)
  BY <1>1, SymbolTaskType DEF TypeInv
<1>2. CASE \E c \in Contracts : Settle(c) \/ SettleFails(c)
  BY <1>2, SettlementType DEF TypeInv
<1>3. CASE ReadBalance \/ RefreshBalance \/ Crash \/ Boot \/ RestoreState \/ OperatorReset
  BY <1>3, ProcessStepType DEF TypeInv
<1>4. CASE Deriv \/ CooldownElapses \/ Midnight
  BY <1>4, EnvironmentType DEF TypeInv
<1>5. CASE UNCHANGED vars
  BY <1>5 DEF TypeInv, TypeOK, vars, taskVars, dbVars, derivVars, clockVars
<1> QED
  BY <1>1, <1>2, <1>3, <1>4, <1>5 DEF Next

(* Which actions write the columns of the journal that identify a row.     *)
LEMMA RowsStep ==
  ASSUME TypeInv, [Next]_vars
  PROVE  \/ journal' = journal
         \/ \E s \in Symbols, c \in Contracts : mode = "up" /\ RecordOpen(s, c)
         \/ \E c \in Contracts : Settle(c)
<1>1. ASSUME NEW s \in Symbols, SymbolTask(s)
      PROVE  journal' = journal \/ \E c \in Contracts : mode = "up" /\ RecordOpen(s, c)
  <2>1. CASE BuyAnswered(s)
    BY <2>1 DEF BuyAnswered, TypeInv, AnswerHasContract
  <2>2. CASE PortfolioFound(s)
    BY <2>2 DEF PortfolioFound, Candidates
  <2>3. CASE PortfolioFails(s)
    BY <2>3 DEF PortfolioFails, Release, dbVars
  <2> QED
    BY <1>1, <2>1, <2>2, <2>3
       DEF SymbolTask, StartTrade, PricingFails, RefuseTrade, SendBuy, BuyRejected,
           BuyAmbiguous, PortfolioEmpty, Release, dbVars
<1>2. ASSUME NEW c \in Contracts, SettleFails(c) PROVE journal' = journal
  BY <1>2 DEF SettleFails, dbVars
<1>3. CASE ReadBalance \/ RefreshBalance \/ Crash \/ Boot \/ RestoreState \/ OperatorReset
  BY <1>3 DEF ReadBalance, RefreshBalance, Crash, Boot, RestoreState, OperatorReset, dbVars
<1>4. CASE Deriv \/ CooldownElapses \/ Midnight
  BY <1>4 DEF Deriv, RejectOrder, DropLateOrder, FillOrder, FillLateOrder, Sell,
              CooldownElapses, Midnight, dbVars
<1>5. CASE UNCHANGED vars
  BY <1>5 DEF vars, dbVars
<1> QED
  BY <1>1, <1>2, <1>3, <1>4, <1>5 DEF Next

LEMMA RowHasSymbolStep ==
  ASSUME TypeInv, [Next]_vars
  PROVE  RowHasSymbol'
<1>1. CASE journal' = journal
  BY <1>1 DEF TypeInv, RowHasSymbol, KnownContractIds
<1>2. ASSUME NEW s \in Symbols, NEW c \in Contracts, RecordOpen(s, c)
      PROVE  RowHasSymbol'
  BY <1>2 DEF TypeInv, TypeOK, RowHasSymbol, KnownContractIds, RecordOpen, RecordTradeOpen
<1>3. ASSUME NEW c \in Contracts, Settle(c)
      PROVE  RowHasSymbol'
  BY <1>3 DEF TypeInv, TypeOK, RowHasSymbol, KnownContractIds, Settle, RecordTradeResult, Row
<1> QED
  BY RowsStep, <1>1, <1>2, <1>3

LEMMA AnswerHasContractStep ==
  ASSUME TypeInv, [Next]_vars
  PROVE  AnswerHasContract'
<1>0. order \in [Symbols -> Order] /\ filled \in [Symbols -> Contracts \cup {NoContract}]
  BY DEF TypeInv, TypeOK
<1>1. ASSUME NEW s \in Symbols, SymbolTask(s)
      PROVE  AnswerHasContract'
  <2>1. CASE StartTrade(s) \/ SendBuy(s)
    BY <1>0, <2>1 DEF StartTrade, SendBuy, TypeInv, AnswerHasContract
  <2>2. CASE Release(s)
    BY <1>0, <2>2 DEF Release, TypeInv, AnswerHasContract
  <2>3. CASE \E c \in Contracts : RecordOpen(s, c)
    BY <1>0, <2>3 DEF RecordOpen, TypeInv, AnswerHasContract
  <2>4. CASE BuyAmbiguous(s)
    BY <1>0, <2>4 DEF BuyAmbiguous, TypeInv, AnswerHasContract
  <2>5. CASE PortfolioFails(s) /\ ~ Release(s)
    BY <2>5 DEF PortfolioFails, TypeInv, AnswerHasContract
  <2>6. CASE BuyAnswered(s)
    BY <2>3, <2>6 DEF BuyAnswered, TypeInv, AnswerHasContract
  <2>7. CASE PortfolioFound(s)
    BY <2>3, <2>7 DEF PortfolioFound, Candidates
  <2> QED
    BY <1>1, <2>1, <2>2, <2>4, <2>5, <2>6, <2>7
       DEF SymbolTask, PricingFails, RefuseTrade, BuyRejected, PortfolioEmpty
<1>2. CASE Deriv
  <2>1. ASSUME NEW s \in Symbols, NEW c \in Contracts, FillOrder(s, c)
        PROVE  AnswerHasContract'
    BY <1>0, <2>1 DEF FillOrder, TypeInv, AnswerHasContract
  <2>2. ASSUME NEW s \in Symbols, RejectOrder(s)
        PROVE  AnswerHasContract'
    BY <1>0, <2>2 DEF RejectOrder, TypeInv, AnswerHasContract
  <2>3. CASE UNCHANGED <<order, filled>>
    BY <2>3 DEF TypeInv, AnswerHasContract
  <2> QED
    BY <1>2, <2>1, <2>2, <2>3 DEF Deriv, DropLateOrder, FillLateOrder, Sell, taskVars
<1>3. CASE Crash
  BY <1>3 DEF Crash, AnswerHasContract
<1>4. CASE UNCHANGED <<order, filled>>
  BY <1>4 DEF TypeInv, AnswerHasContract
<1> QED
  BY <1>1, <1>2, <1>3, <1>4
     DEF Next, Settle, SettleFails, ReadBalance, RefreshBalance, Boot, RestoreState,
         OperatorReset, CooldownElapses, Midnight, vars, taskVars

LEMMA BootHasBalanceStep ==
  ASSUME TypeInv, [Next]_vars
  PROVE  BootHasBalance'
<1>1. CASE UNCHANGED <<mode, balance_reply>>
  BY <1>1 DEF TypeInv, BootHasBalance
<1>2. CASE ReadBalance \/ RefreshBalance \/ Crash \/ Boot \/ RestoreState \/ OperatorReset
  BY <1>2 DEF ReadBalance, RefreshBalance, Crash, Boot, RestoreState, OperatorReset,
              TypeInv, BootHasBalance
<1>3. ASSUME NEW s \in Symbols, SymbolTask(s)
      PROVE  UNCHANGED <<mode, balance_reply>>
  BY <1>3 DEF SymbolTask, StartTrade, PricingFails, RefuseTrade, SendBuy, BuyAnswered,
              BuyRejected, BuyAmbiguous, PortfolioFound, PortfolioEmpty, PortfolioFails,
              Release, RecordOpen
<1>4. CASE Deriv \/ CooldownElapses \/ Midnight \/ UNCHANGED vars
  BY <1>1, <1>4 DEF Deriv, RejectOrder, DropLateOrder, FillOrder, FillLateOrder, Sell,
                    CooldownElapses, Midnight, vars
<1>5. ASSUME NEW c \in Contracts, Settle(c) \/ SettleFails(c)
      PROVE  UNCHANGED <<mode, balance_reply>>
  BY <1>5 DEF Settle, SettleFails
<1> QED
  BY <1>1, <1>2, <1>3, <1>4, <1>5 DEF Next

(* The types hold in every reachable state, for any set of symbols and     *)
(* contracts and any limits: in particular a buy answer always names a     *)
(* contract and no counter of the risk manager goes below zero.            *)
THEOREM TypeCorrect == Spec => []TypeOK
<1>1. Init => TypeInv
  BY InitTypeInv
<1>2. TypeInv /\ [Next]_vars => TypeInv'
  BY TypeStep, AnswerHasContractStep, BootHasBalanceStep, RowHasSymbolStep DEF TypeInv
<1>3. TypeInv => TypeOK
  BY DEF TypeInv
<1> QED
  BY <1>1, <1>2, <1>3, PTL DEF Spec

-----------------------------------------------------------------------------
(* Safety without journal faults.  A settlement that cannot be stored      *)
(* frees a symbol whose row is still open (action SettleFails), so the     *)
(* bot's memory only follows its journal when no statement raises.         *)

TradeInv ==
  /\ TypeInv
  /\ TasksFollowJournal /\ AnswersMatchDeriv
  /\ SymbolExclusive /\ JournalIsTruthful

LEMMA InitTradeInv == Init => TradeInv
<1> SUFFICES ASSUME Init PROVE TradeInv
  OBVIOUS
<1>1. OpenTrades(journal) = {} /\ KnownContractIds(journal) = {}
  BY DEF Init, OpenTrades, KnownContractIds, EmptyRow
<1>2. TasksFollowJournal
  BY DEF Init, TasksFollowJournal
<1>3. AnswersMatchDeriv
  BY DEF Init, AnswersMatchDeriv
<1> QED
  BY <1>1, <1>2, <1>3, InitTypeInv DEF TradeInv, SymbolExclusive, JournalIsTruthful

(* The task that enters a row is the only one that could have: no other    *)
(* row of its symbol is open and the contract is not in the journal yet.   *)
LEMMA EntryIsNew ==
  ASSUME TradeInv, NEW s \in Symbols, NEW c \in Contracts, mode = "up",
         \/ BuyAnswered(s) /\ c = filled[s]
         \/ PortfolioFound(s) /\ c \in Candidates(s)
  PROVE  /\ journal[c].status = "none" /\ broker[c].status # "none" /\ broker[c].symbol = s
         /\ pc[s] # "idle" /\ \A d \in OpenTrades(journal) : journal[d].symbol # s
         /\ \A t \in Symbols : order[t] = "filled" /\ filled[t] = c => t = s
<1>1. pc[s] # "idle"
  BY DEF BuyAnswered, PortfolioFound
<1>2. \A d \in OpenTrades(journal) : journal[d].symbol # s
  BY <1>1 DEF TradeInv, TasksFollowJournal
<1>3. CASE BuyAnswered(s) /\ c = filled[s]
  BY <1>1, <1>2, <1>3 DEF BuyAnswered, TradeInv, AnswersMatchDeriv
<1>4. CASE PortfolioFound(s) /\ c \in Candidates(s)
  <2>1. broker[c].status = "live" /\ broker[c].symbol = s
    BY <1>4 DEF Candidates
  <2>2. journal[c].status = "none"
    <3>1. SUFFICES ASSUME journal[c].status # "none" PROVE FALSE
      OBVIOUS
    <3>2. journal[c].symbol = s /\ journal[c].status # "settled"
      BY <2>1, <3>1 DEF TradeInv, JournalIsTruthful, KnownContractIds
    <3>3. journal[c].status = "open"
      BY <3>1, <3>2 DEF TradeInv, TypeInv, TypeOK, Row
    <3> QED
      BY <1>2, <3>2, <3>3 DEF OpenTrades
  <2> QED
    BY <1>1, <1>2, <2>1, <2>2 DEF TradeInv, AnswersMatchDeriv
<1> QED
  BY <1>3, <1>4

(* Entering such a row preserves the invariant.                            *)
LEMMA EntryStep ==
  ASSUME TradeInv, TypeInv', NEW s \in Symbols, NEW c \in Contracts, mode = "up",
         RecordOpen(s, c),
         journal[c].status = "none", broker[c].status # "none", broker[c].symbol = s,
         pc[s] # "idle", \A d \in OpenTrades(journal) : journal[d].symbol # s,
         \A t \in Symbols : order[t] = "filled" /\ filled[t] = c => t = s
  PROVE  TradeInv'
<1>1. /\ journal'[c].status = "open" /\ journal'[c].symbol = s
      /\ \A d \in Contracts \ {c} : journal'[d] = journal[d]
  BY DEF RecordOpen, RecordTradeOpen, TradeInv, TypeInv, TypeOK
<1>2. OpenTrades(journal') = OpenTrades(journal) \cup {c}
  BY <1>1 DEF OpenTrades
<1>3. KnownContractIds(journal') = KnownContractIds(journal) \cup {c}
  BY <1>1 DEF KnownContractIds
<1>4. /\ pc'[s] = "idle" /\ \A t \in Symbols \ {s} : pc'[t] = pc[t]
      /\ mode' = "up" /\ open_symbols' = open_symbols /\ monitors' = monitors \cup {c}
      /\ broker' = broker
  BY DEF RecordOpen, derivVars, TradeInv, TypeInv, TypeOK
<1>5. c \notin OpenTrades(journal)
  BY DEF OpenTrades
<1>6. TasksFollowJournal'
  <2>1. {journal'[d].symbol : d \in OpenTrades(journal')}
          = {journal[d].symbol : d \in OpenTrades(journal)} \cup {s}
    BY <1>1, <1>2, <1>5 DEF OpenTrades
  <2>2. {t \in Symbols : pc'[t] # "idle"} = {t \in Symbols : pc[t] # "idle"} \ {s}
    BY <1>4
  <2>3. open_symbols = {t \in Symbols : pc[t] # "idle"}
                         \cup {journal[d].symbol : d \in OpenTrades(journal)}
    BY DEF TradeInv, TasksFollowJournal
  <2>4. open_symbols' = {t \in Symbols : pc'[t] # "idle"}
                          \cup {journal'[d].symbol : d \in OpenTrades(journal')}
    BY <1>4, <2>1, <2>2, <2>3
  <2>5. monitors' = OpenTrades(journal')
    BY <1>2, <1>4 DEF TradeInv, TasksFollowJournal
  <2>6. \A d \in OpenTrades(journal') : pc'[journal'[d].symbol] = "idle"
    BY <1>1, <1>2, <1>4 DEF TradeInv, TasksFollowJournal, OpenTrades,
                            TypeInv, RowHasSymbol, KnownContractIds
  <2> QED
    BY <1>4, <2>4, <2>5, <2>6 DEF TasksFollowJournal
<1>7. AnswersMatchDeriv'
  BY <1>1, <1>4 DEF AnswersMatchDeriv, TradeInv, RecordOpen, TypeInv, TypeOK, AnswerHasContract
<1>8. SymbolExclusive'
  BY <1>1, <1>2 DEF SymbolExclusive, TradeInv, OpenTrades
<1>9. JournalIsTruthful'
  BY <1>1, <1>3, <1>4 DEF JournalIsTruthful, TradeInv, KnownContractIds
<1> QED
  BY <1>6, <1>7, <1>8, <1>9 DEF TradeInv

LEMMA SymbolTaskStep ==
  ASSUME TradeInv, TypeInv', NEW s \in Symbols, SymbolTask(s)
  PROVE  TradeInv'
<1>0. mode = "up"
  BY DEF SymbolTask, StartTrade, PricingFails, RefuseTrade, SendBuy, BuyAnswered,
         BuyRejected, BuyAmbiguous, PortfolioFound, PortfolioEmpty, PortfolioFails
<1>1. CASE BuyAnswered(s)
  <2>1. filled[s] \in Contracts /\ RecordOpen(s, filled[s])
    BY <1>1 DEF BuyAnswered, TradeInv, TypeInv, AnswerHasContract
  <2> QED
    BY <1>0, <1>1, <2>1, EntryIsNew, EntryStep
<1>2. CASE PortfolioFound(s)
  <2>1. PICK c \in Candidates(s) : RecordOpen(s, c)
    BY <1>2 DEF PortfolioFound
  <2>2. c \in Contracts
    BY DEF Candidates
  <2> QED
    BY <1>0, <1>2, <2>1, <2>2, EntryIsNew, EntryStep
<1> DEFINE Busy == {t \in Symbols : pc[t] # "idle"}
           Traded == {journal[c].symbol : c \in OpenTrades(journal)}
<1>3. /\ open_symbols = Busy \cup Traded
      /\ \A c \in OpenTrades(journal) : pc[journal[c].symbol] = "idle"
      /\ monitors = OpenTrades(journal)
  BY <1>0 DEF TradeInv, TasksFollowJournal
<1>4. DOMAIN pc = Symbols
  BY DEF TradeInv, TypeInv, TypeOK
<1>5. \A c \in OpenTrades(journal) : journal[c].symbol \in Symbols
  BY DEF TradeInv, TypeInv, RowHasSymbol, OpenTrades, KnownContractIds
<1>6. CASE Release(s) /\ pc[s] # "idle"
  <2>1. /\ journal' = journal /\ broker' = broker /\ monitors' = monitors /\ mode' = mode
        /\ open_symbols' = open_symbols \ {s}
        /\ pc' = [pc EXCEPT ![s] = "idle"]
        /\ order' = [order EXCEPT ![s] = "none"]
        /\ filled' = [filled EXCEPT ![s] = NoContract]
    BY <1>6 DEF Release, Freed, dbVars
  <2>2. s \notin Traded
    BY <1>3, <1>6
  <2>3. Busy' = Busy \ {s} /\ Traded' = Traded
    BY <1>4, <2>1
  <2>4. open_symbols' = Busy' \cup Traded'
    BY <1>3, <2>1, <2>2, <2>3
  <2>5. TasksFollowJournal'
    <3>1. OpenTrades(journal)' = OpenTrades(journal)
      BY <2>1
    <3>2. \A c \in OpenTrades(journal) : pc'[journal[c].symbol] = "idle"
      BY <1>3, <1>4, <1>5, <2>1
    <3> QED
      BY <1>0, <1>3, <2>1, <2>4, <3>1, <3>2 DEF TasksFollowJournal
  <2>6. AnswersMatchDeriv'
    BY <2>1 DEF AnswersMatchDeriv, TradeInv, TypeInv, TypeOK
  <2> QED
    BY <2>1, <2>5, <2>6 DEF TradeInv, SymbolExclusive, JournalIsTruthful
<1>7. CASE StartTrade(s)
  <2>1. /\ journal' = journal /\ broker' = broker /\ monitors' = monitors /\ mode' = mode
        /\ s \notin open_symbols /\ open_symbols' = open_symbols \cup {s}
        /\ pc' = [pc EXCEPT ![s] = "pricing"] /\ order' = order /\ filled' = filled
        /\ pc[s] = "idle"
    BY <1>7 DEF StartTrade, dbVars, derivVars
  <2>2. \A c \in OpenTrades(journal) : journal[c].symbol # s
    BY <1>3, <2>1
  <2>3. \A t \in Symbols : pc'[t] = IF t = s THEN "pricing" ELSE pc[t]
    BY <1>4, <2>1
  <2>4. Busy' = Busy \cup {s}
    BY <2>3
  <2>5. OpenTrades(journal)' = OpenTrades(journal) /\ Traded' = Traded
    BY <2>1
  <2>6. \A c \in OpenTrades(journal) : pc'[journal[c].symbol] = "idle"
    BY <1>3, <1>5, <2>2, <2>3
  <2>7. TasksFollowJournal'
    BY <1>0, <1>3, <2>1, <2>4, <2>5, <2>6 DEF TasksFollowJournal
  <2>8. AnswersMatchDeriv'
    <3>1. AnswersMatchDeriv
      BY DEF TradeInv
    <3> QED
      BY <2>1, <2>3, <3>1 DEF AnswersMatchDeriv
  <2> QED
    BY <2>1, <2>7, <2>8 DEF TradeInv, SymbolExclusive, JournalIsTruthful
<1>8. CASE SendBuy(s) \/ BuyAmbiguous(s) \/ (PortfolioFails(s) /\ ~ Release(s))
  <2>1. /\ journal' = journal /\ broker' = broker /\ monitors' = monitors /\ mode' = mode
        /\ open_symbols' = open_symbols
    BY <1>8 DEF SendBuy, BuyAmbiguous, PortfolioFails, dbVars, derivVars
  <2>2. Busy' = Busy /\ Traded' = Traded
    <3>1. pc[s] # "idle" /\ \E l \in {"pricing", "buying", "reconciling"} :
                                pc' = [pc EXCEPT ![s] = l]
      BY <1>8 DEF SendBuy, BuyAmbiguous, PortfolioFails, TradeInv, TypeInv, TypeOK
    <3> QED
      BY <1>4, <2>1, <3>1
  <2>3. \A t \in Symbols : pc[t] = "idle" => pc'[t] = "idle"
    BY <2>2
  <2>4. TasksFollowJournal'
    BY <1>0, <1>3, <2>1, <2>2, <2>3
       DEF TasksFollowJournal, TradeInv, TypeInv, RowHasSymbol, OpenTrades, KnownContractIds
  <2>5. AnswersMatchDeriv'
    <3>1. CASE SendBuy(s)
      BY <2>1, <3>1 DEF SendBuy, AnswersMatchDeriv, TradeInv, TypeInv, TypeOK
    <3>2. CASE BuyAmbiguous(s)
      BY <2>1, <3>2 DEF BuyAmbiguous, AnswersMatchDeriv, TradeInv, TypeInv, TypeOK
    <3>3. CASE PortfolioFails(s) /\ ~ Release(s)
      BY <2>1, <3>3 DEF PortfolioFails, AnswersMatchDeriv, TradeInv
    <3> QED
      BY <1>8, <3>1, <3>2, <3>3
  <2> QED
    BY <2>1, <2>4, <2>5 DEF TradeInv, SymbolExclusive, JournalIsTruthful
<1> QED
  BY <1>1, <1>2, <1>6, <1>7, <1>8
     DEF SymbolTask, PricingFails, RefuseTrade, BuyRejected, PortfolioEmpty, PortfolioFails

(* Settling a contract frees exactly its own symbol.                       *)
LEMMA SettleStep ==
  ASSUME TradeInv, TypeInv', NEW c \in Contracts, Settle(c)
  PROVE  TradeInv'
<1> DEFINE Traded == {journal[d].symbol : d \in OpenTrades(journal)}
<1>1. /\ mode = "up" /\ monitors = OpenTrades(journal)
      /\ open_symbols = {t \in Symbols : pc[t] # "idle"} \cup Traded
      /\ \A d \in OpenTrades(journal) : pc[journal[d].symbol] = "idle"
  BY DEF Settle, TradeInv, TasksFollowJournal
<1>2. c \in OpenTrades(journal) /\ journal[c].status = "open"
  BY <1>1 DEF Settle, OpenTrades
<1>3. /\ journal'[c].status = "settled" /\ journal'[c].symbol = journal[c].symbol
      /\ journal'[c].outcome = broker[c].outcome
      /\ \A d \in Contracts \ {c} : journal'[d] = journal[d]
  BY <1>2 DEF Settle, RecordTradeResult, TradeInv, TypeInv, TypeOK, Row
<1>4. /\ mode' = mode /\ pc' = pc /\ order' = order /\ filled' = filled /\ broker' = broker
      /\ monitors' = monitors \ {c} /\ open_symbols' = open_symbols \ {journal[c].symbol}
      /\ broker[c].status = "sold"
  BY DEF Settle, Freed, taskVars, derivVars
<1>5. OpenTrades(journal') = OpenTrades(journal) \ {c}
  BY <1>3 DEF OpenTrades
<1>6. KnownContractIds(journal') = KnownContractIds(journal)
  BY <1>2, <1>3 DEF KnownContractIds
<1>7. Traded' = Traded \ {journal[c].symbol}
  BY <1>2, <1>3, <1>5 DEF OpenTrades, TradeInv, SymbolExclusive
<1>8. pc[journal[c].symbol] = "idle"
  BY <1>1, <1>2
<1>9. TasksFollowJournal'
  BY <1>1, <1>3, <1>4, <1>5, <1>7, <1>8 DEF TasksFollowJournal, OpenTrades
<1>10. AnswersMatchDeriv'
  BY <1>2, <1>3, <1>4 DEF AnswersMatchDeriv, TradeInv, TypeInv, AnswerHasContract
<1>11. SymbolExclusive'
  BY <1>3, <1>5 DEF SymbolExclusive, TradeInv, OpenTrades
<1>12. JournalIsTruthful'
  BY <1>2, <1>3, <1>4, <1>6 DEF JournalIsTruthful, TradeInv, KnownContractIds
<1> QED
  BY <1>9, <1>10, <1>11, <1>12 DEF TradeInv

(* Starts, stops and the balance loop.                                     *)
LEMMA ProcessStep ==
  ASSUME TradeInv, TypeInv',
         ReadBalance \/ RefreshBalance \/ Crash \/ Boot \/ RestoreState \/ OperatorReset
  PROVE  TradeInv'
<1>1. journal' = journal /\ broker' = broker
  BY DEF ReadBalance, RefreshBalance, Crash, Boot, RestoreState, OperatorReset, dbVars,
         derivVars
<1>2. SymbolExclusive' /\ JournalIsTruthful'
  BY <1>1 DEF TradeInv, SymbolExclusive, JournalIsTruthful
<1>3. CASE ReadBalance \/ RefreshBalance \/ OperatorReset
  BY <1>1, <1>2, <1>3 DEF ReadBalance, RefreshBalance, OperatorReset, taskVars,
                          TradeInv, TasksFollowJournal, AnswersMatchDeriv
<1>4. CASE Crash
  <2>1. TasksFollowJournal'
    BY <1>4 DEF Crash, TasksFollowJournal
  <2>2. AnswersMatchDeriv'
    BY <1>4 DEF Crash, AnswersMatchDeriv
  <2> QED
    BY <1>2, <2>1, <2>2 DEF TradeInv
<1>5. CASE Boot
  BY <1>1, <1>2, <1>5 DEF Boot, taskVars, TradeInv, TasksFollowJournal, AnswersMatchDeriv
<1>6. CASE RestoreState
  <2>1. /\ mode' = "up" /\ pc' = pc /\ order' = order /\ filled' = filled
        /\ monitors' = OpenTrades(journal)
        /\ open_symbols' = {journal[c].symbol : c \in OpenTrades(journal)}
    BY <1>6 DEF RestoreState, Reattached, taskVars
  <2>2. \A s \in Symbols : pc[s] = "idle"
    BY <1>6 DEF RestoreState, TradeInv, TasksFollowJournal
  <2>3. TasksFollowJournal'
    BY <1>1, <2>1, <2>2 DEF TasksFollowJournal, OpenTrades, KnownContractIds,
                            TradeInv, TypeInv, RowHasSymbol
  <2>4. AnswersMatchDeriv'
    BY <1>1, <2>1 DEF AnswersMatchDeriv, TradeInv
  <2> QED
    BY <1>2, <2>3, <2>4 DEF TradeInv
<1> QED
  BY <1>3, <1>4, <1>5, <1>6

(* Deriv only touches contracts nobody has entered, or sells live ones.    *)
LEMMA EnvironmentStep ==
  ASSUME TradeInv, TypeInv', Deriv \/ CooldownElapses \/ Midnight
  PROVE  TradeInv'
<1>1. /\ journal' = journal /\ mode' = mode /\ pc' = pc /\ monitors' = monitors
      /\ open_symbols' = open_symbols
  BY DEF Deriv, RejectOrder, DropLateOrder, FillOrder, FillLateOrder, Sell,
         CooldownElapses, Midnight, dbVars, taskVars
<1>2. TasksFollowJournal' /\ SymbolExclusive'
  BY <1>1 DEF TasksFollowJournal, SymbolExclusive, TradeInv
<1>3. ASSUME NEW c \in Contracts, NEW s \in Symbols, Buy(c, s)
      PROVE  /\ \A d \in Contracts \ {c} : broker'[d] = broker[d]
             /\ broker'[c].status = "live" /\ broker'[c].symbol = s
             /\ journal[c].status = "none"
             /\ JournalIsTruthful'
  <2>1. /\ \A d \in Contracts \ {c} : broker'[d] = broker[d]
        /\ broker'[c].status = "live" /\ broker'[c].symbol = s /\ broker[c].status = "none"
    BY <1>3 DEF Buy, TradeInv, TypeInv, TypeOK, Deal
  <2>2. c \notin KnownContractIds(journal)
    BY <2>1 DEF TradeInv, JournalIsTruthful
  <2>3. JournalIsTruthful'
    BY <1>1, <2>1, <2>2 DEF TradeInv, JournalIsTruthful, KnownContractIds
  <2> QED
    BY <2>1, <2>2, <2>3 DEF KnownContractIds
<1>4. ASSUME NEW c \in Contracts, NEW s \in Symbols, FillOrder(s, c)
      PROVE  TradeInv'
  <2>1. Buy(c, s) /\ order[s] = "sent" /\ order' = [order EXCEPT ![s] = "filled"]
        /\ filled' = [filled EXCEPT ![s] = c] /\ broker[c].status = "none"
    BY <1>4 DEF FillOrder, Buy, TradeInv
  <2>2. AnswersMatchDeriv'
    <3>1. order'[s] = "filled" /\ filled'[s] = c /\ pc[s] = "buying"
      BY <2>1 DEF AnswersMatchDeriv, TradeInv, TypeInv, TypeOK
    <3>2. \A t \in Symbols \ {s} : order'[t] = order[t] /\ filled'[t] = filled[t]
      BY <2>1 DEF TradeInv, TypeInv, TypeOK
    <3>3. \A t \in Symbols \ {s} : order[t] = "filled" => filled[t] \in Contracts \ {c}
      BY <2>1 DEF AnswersMatchDeriv, TradeInv, TypeInv, AnswerHasContract
    <3> QED
      BY <1>1, <1>3, <2>1, <3>1, <3>2, <3>3 DEF AnswersMatchDeriv, TradeInv
  <2> QED
    BY <1>2, <1>3, <2>1, <2>2 DEF TradeInv
<1>5. ASSUME NEW c \in Contracts, NEW s \in Symbols, FillLateOrder(s, c)
      PROVE  TradeInv'
  <2>1. Buy(c, s) /\ order' = order /\ filled' = filled /\ broker[c].status = "none"
    BY <1>5 DEF FillLateOrder, Buy, taskVars
  <2>2. AnswersMatchDeriv'
    BY <1>1, <1>3, <2>1 DEF AnswersMatchDeriv, TradeInv, TypeInv, AnswerHasContract
  <2> QED
    BY <1>2, <1>3, <2>1, <2>2 DEF TradeInv
<1>6. ASSUME NEW c \in Contracts, NEW o \in Results, Sell(c, o)
      PROVE  TradeInv'
  <2>1. /\ broker[c].status = "live" /\ order' = order /\ filled' = filled
        /\ \A d \in Contracts \ {c} : broker'[d] = broker[d]
        /\ broker'[c].status = "sold" /\ broker'[c].symbol = broker[c].symbol
    BY <1>6 DEF Sell, taskVars, TradeInv, TypeInv, TypeOK, Deal
  <2>2. AnswersMatchDeriv'
    BY <1>1, <2>1 DEF AnswersMatchDeriv, TradeInv, TypeInv, AnswerHasContract
  <2>3. JournalIsTruthful'
    <3>1. journal[c].status # "settled"
      BY <2>1 DEF JournalIsTruthful, TradeInv, KnownContractIds
    <3> QED
      BY <1>1, <2>1, <3>1 DEF JournalIsTruthful, TradeInv, KnownContractIds
  <2> QED
    BY <1>2, <2>2, <2>3 DEF TradeInv
<1>7. ASSUME NEW s \in Symbols, RejectOrder(s)
      PROVE  TradeInv'
  <2>1. order' = [order EXCEPT ![s] = "refused"] /\ order[s] = "sent" /\ filled' = filled
        /\ broker' = broker
    BY <1>7 DEF RejectOrder, derivVars
  <2> QED
    BY <1>1, <1>2, <2>1 DEF AnswersMatchDeriv, JournalIsTruthful, TradeInv, TypeInv, TypeOK
<1>8. CASE UNCHANGED <<order, filled, broker>>
  BY <1>1, <1>2, <1>8 DEF AnswersMatchDeriv, JournalIsTruthful, TradeInv
<1> QED
  BY <1>4, <1>5, <1>6, <1>7, <1>8
     DEF Deriv, DropLateOrder, CooldownElapses, Midnight, taskVars, derivVars

(* Only a settlement that cannot be stored breaks the invariant.           *)
LEMMA StoredStep ==
  ASSUME TradeInv, [Next]_vars, \A c \in Contracts : ~ SettleFails(c)
  PROVE  TradeInv'
<1>1. TypeInv'
  BY TypeStep, AnswerHasContractStep, BootHasBalanceStep, RowHasSymbolStep
     DEF TypeInv, TradeInv
<1>2. CASE \E s \in Symbols : SymbolTask(s)
  BY <1>1, <1>2, SymbolTaskStep
<1>3. CASE \E c \in Contracts : Settle(c)
  BY <1>1, <1>3, SettleStep
<1>4. CASE ReadBalance \/ RefreshBalance \/ Crash \/ Boot \/ RestoreState \/ OperatorReset
  BY <1>1, <1>4, ProcessStep
<1>5. CASE Deriv \/ CooldownElapses \/ Midnight
  BY <1>1, <1>5, EnvironmentStep
<1>6. CASE UNCHANGED vars
  BY <1>1, <1>6 DEF vars, taskVars, dbVars, derivVars, clockVars, TradeInv,
                    TasksFollowJournal, AnswersMatchDeriv, SymbolExclusive, JournalIsTruthful
<1> QED
  BY <1>2, <1>3, <1>4, <1>5, <1>6 DEF Next

LEMMA TradeInvStep ==
  ASSUME TradeInv, MaxDbFaults = 0, [Next]_vars
  PROVE  TradeInv'
<1>1. \A c \in Contracts : ~ SettleFails(c)
  BY DEF SettleFails, TradeInv, TypeInv, TypeOK, Spent
<1> QED
  BY <1>1, StoredStep

(* With a journal that takes every statement, whatever crashes, lost       *)
(* answers, late fills and day changes happen: one unsettled trade per     *)
(* symbol.                                                                 *)
THEOREM OneTradePerSymbol == MaxDbFaults = 0 /\ Spec => []SymbolExclusive
<1> SUFFICES ASSUME MaxDbFaults = 0 PROVE Spec => []SymbolExclusive
  OBVIOUS
<1>1. Init => TradeInv
  BY InitTradeInv
<1>2. TradeInv /\ [Next]_vars => TradeInv'
  BY TradeInvStep
<1>3. TradeInv => SymbolExclusive
  BY DEF TradeInv
<1> QED
  BY <1>1, <1>2, <1>3, PTL DEF Spec

(* Under the same assumption a running bot's settlement tasks and blocked  *)
(* symbols are those of its journal, so every unsettled trade is tracked.  *)
THEOREM TradesAreTracked == MaxDbFaults = 0 /\ Spec => []TasksFollowJournal
<1> SUFFICES ASSUME MaxDbFaults = 0 PROVE Spec => []TasksFollowJournal
  OBVIOUS
<1>1. Init => TradeInv
  BY InitTradeInv
<1>2. TradeInv /\ [Next]_vars => TradeInv'
  BY TradeInvStep
<1>3. TradeInv => TasksFollowJournal
  BY DEF TradeInv
<1> QED
  BY <1>1, <1>2, <1>3, PTL DEF Spec

-----------------------------------------------------------------------------
(* Refinement: every step of the bot, of Deriv or of the clock enters one  *)
(* contract, books one, or leaves the ledger alone.                        *)

Booked == [c \in Contracts |-> [status |-> journal[c].status,
                                symbol |-> journal[c].symbol,
                                outcome |-> journal[c].outcome]]

LEMMA LedgerInit == Init => Ledger!Init
BY DEF Init, EmptyRow, Ledger!Init

LEMMA LedgerStep ==
  ASSUME TradeInv, MaxDbFaults = 0, [Next]_vars
  PROVE  Ledger!Next \/ Booked' = Booked
<1>1. CASE journal' = journal
  BY <1>1 DEF Booked
<1>2. ASSUME NEW s \in Symbols, NEW c \in Contracts, RecordOpen(s, c),
             journal[c].status = "none",
             \A d \in OpenTrades(journal) : journal[d].symbol # s
      PROVE  Ledger!Next
  <2>1. journal' = [journal EXCEPT ![c] = [status |-> "open", symbol |-> s,
                                           outcome |-> "refund", opened |-> day,
                                           settled |-> 0]]
    BY <1>2 DEF RecordOpen, RecordTradeOpen
  <2>2. Booked' = [Booked EXCEPT ![c] = [status |-> "open", symbol |-> s,
                                         outcome |-> "refund"]]
    BY <2>1 DEF Booked, TradeInv, TypeInv, TypeOK
  <2>3. /\ Booked[c].status = "none"
        /\ \A d \in Contracts : Booked[d].status = "open" => Booked[d].symbol # s
    BY <1>2 DEF Booked, OpenTrades
  <2>4. Ledger!Enter(c, s)
    BY <2>2, <2>3 DEF Ledger!Enter, Booked
  <2> QED
    BY <2>4 DEF Ledger!Next
<1>3. ASSUME NEW c \in Contracts, Settle(c)
      PROVE  Ledger!Next
  <2>1. journal[c].status = "open" /\ broker[c].outcome \in Outcomes
    BY <1>3 DEF Settle, TradeInv, TasksFollowJournal, OpenTrades, TypeInv, TypeOK, Deal
  <2>2. journal' = [journal EXCEPT ![c] = [journal[c] EXCEPT
                      !.status = "settled", !.outcome = broker[c].outcome, !.settled = day]]
    BY <1>3, <2>1 DEF Settle, RecordTradeResult
  <2>3. Booked' = [Booked EXCEPT ![c] = [status |-> "settled", symbol |-> Booked[c].symbol,
                                         outcome |-> broker[c].outcome]]
    <3>1. journal \in [Contracts -> Row] /\ journal[c] \in Row
      BY DEF TradeInv, TypeInv, TypeOK
    <3>2. /\ journal'[c].status = "settled" /\ journal'[c].symbol = journal[c].symbol
          /\ journal'[c].outcome = broker[c].outcome
      BY <2>2, <3>1 DEF Row
    <3>3. \A d \in Contracts : d # c => journal'[d] = journal[d]
      BY <2>2, <3>1
    <3> QED
      BY <3>2, <3>3 DEF Booked
  <2>4. Booked[c].status = "open"
    BY <2>1 DEF Booked
  <2>5. Ledger!Book(c)
    BY <2>1, <2>3, <2>4 DEF Ledger!Book, Ledger!Outcome, Outcomes, Booked
  <2> QED
    BY <2>5 DEF Ledger!Next
<1>4. ASSUME NEW s \in Symbols, SymbolTask(s)
      PROVE  Ledger!Next \/ Booked' = Booked
  <2>1. CASE BuyAnswered(s)
    BY <1>2, <2>1, EntryIsNew DEF BuyAnswered, TradeInv, TypeInv, AnswerHasContract
  <2>2. CASE PortfolioFound(s)
    <3>1. PICK c \in Candidates(s) : RecordOpen(s, c)
      BY <2>2 DEF PortfolioFound
    <3>2. c \in Contracts /\ mode = "up"
      BY <2>2 DEF Candidates, PortfolioFound
    <3> QED
      BY <1>2, <2>2, <3>1, <3>2, EntryIsNew
  <2>3. CASE PortfolioFails(s)
    BY <1>1, <2>3 DEF PortfolioFails, Release, dbVars
  <2> QED
    BY <1>1, <1>4, <2>1, <2>2, <2>3
       DEF SymbolTask, StartTrade, PricingFails, RefuseTrade, SendBuy, BuyRejected,
           BuyAmbiguous, PortfolioEmpty, Release, dbVars
<1>5. ASSUME NEW c \in Contracts, SettleFails(c) PROVE journal' = journal
  BY <1>5 DEF SettleFails, dbVars
<1>6. CASE ReadBalance \/ RefreshBalance \/ Crash \/ Boot \/ RestoreState \/ OperatorReset
  BY <1>1, <1>6 DEF ReadBalance, RefreshBalance, Crash, Boot, RestoreState, OperatorReset,
                    dbVars
<1>7. CASE Deriv \/ CooldownElapses \/ Midnight
  BY <1>1, <1>7 DEF Deriv, RejectOrder, DropLateOrder, FillOrder, FillLateOrder, Sell,
                    CooldownElapses, Midnight, dbVars
<1>8. CASE UNCHANGED vars
  BY <1>1, <1>8 DEF vars, dbVars
<1> QED
  BY <1>1, <1>3, <1>4, <1>5, <1>6, <1>7, <1>8 DEF Next

(* The bot implements the ledger for every set of symbols and contracts:   *)
(* whatever crashes and whatever answer is lost, a contract is entered     *)
(* once, on a symbol without an open one, and booked once for good.        *)
THEOREM BotImplementsLedger == MaxDbFaults = 0 /\ Spec => ImplementsLedger
<1> SUFFICES ASSUME MaxDbFaults = 0 PROVE Spec => ImplementsLedger
  OBVIOUS
<1>1. Init => TradeInv /\ Ledger!Init
  BY InitTradeInv, LedgerInit
<1>2. TradeInv /\ [Next]_vars => TradeInv'
  BY TradeInvStep
<1>3. TradeInv /\ [Next]_vars => [Ledger!Next]_Booked
  BY LedgerStep
<1> QED
  BY <1>1, <1>2, <1>3, PTL DEF Spec, ImplementsLedger, Ledger!Spec, Booked

-----------------------------------------------------------------------------
(* What one step does to the book and to the counters                      *)

(* The tasks that have sent a buy and do not yet know what became of it.   *)
InFlight == {s \in Symbols : pc[s] \in {"buying", "reconciling"}}

CounterVars == <<mode, risk, ladder, journal, settle_order, day>>

(* A step the counters do not notice.                                      *)
QuietStep == UNCHANGED <<CounterVars, reset_mark>> /\ InFlight' \subseteq InFlight

(* can_trade rolls the day, and lets a buy go out or not.                  *)
CheckStep ==
  /\ mode = "up" /\ risk' = RollDay(risk, day)
  /\ UNCHANGED <<mode, ladder, dbVars, day>>
  /\ \/ InFlight' \subseteq InFlight
     \/ CanTrade(risk', Stake) /\ \E s \in Symbols : InFlight' = InFlight \cup {s}

(* A contract is found, by the buy answer or in the portfolio, and entered.*)
EntryStepOf(s, c) ==
  /\ mode = "up" /\ s \in InFlight /\ InFlight' = InFlight \ {s}
  /\ \/ BuyAnswered(s) /\ c = filled[s]
     \/ PortfolioFound(s) /\ c \in Candidates(s)
  /\ RecordOpen(s, c)

(* The balance or the cooldown changes, and nothing the journal knows.     *)
BalanceStep ==
  /\ mode = "up" /\ UNCHANGED <<mode, ladder, dbVars, day>> /\ InFlight' \subseteq InFlight
  /\ \/ \E b \in Int : risk' = UpdateBalance(risk, b)
     \/ risk' = [risk EXCEPT !.cooling = FALSE]

(* The process dies or begins to start.                                    *)
OutageStep ==
  /\ mode' # "up" /\ UNCHANGED <<risk, ladder, dbVars, day>>
  /\ \/ mode = "down" /\ InFlight' = InFlight
     \/ mode # "down" /\ InFlight' = {} /\ MaxCrashes # 0

MidnightStep ==
  day' = day + 1 /\ UNCHANGED <<mode, risk, ladder, dbVars, pc>>

LEMMA InFlightStays ==
  ASSUME TypeOK, NEW s \in Symbols
  PROVE  /\ pc' = [pc EXCEPT ![s] = "idle"] => InFlight' = InFlight \ {s}
         /\ pc' = [pc EXCEPT ![s] = "pricing"] => InFlight' = InFlight \ {s}
         /\ pc' = [pc EXCEPT ![s] = "buying"] => InFlight' = InFlight \cup {s}
         /\ pc' = [pc EXCEPT ![s] = "reconciling"] /\ s \in InFlight => InFlight' = InFlight
<1>1. ASSUME NEW l, pc' = [pc EXCEPT ![s] = l]
      PROVE  \A t \in Symbols : pc'[t] = IF t = s THEN l ELSE pc[t]
  BY <1>1 DEF TypeOK
<1> QED
  BY <1>1 DEF InFlight

LEMMA TaskCounterStep ==
  ASSUME TypeInv, NEW s \in Symbols, SymbolTask(s)
  PROVE  QuietStep \/ CheckStep \/ \E c \in Contracts : EntryStepOf(s, c)
<1>0. TypeOK
  BY DEF TypeInv
<1>1. ASSUME pc' = [pc EXCEPT ![s] = "idle"] PROVE InFlight' = InFlight \ {s}
  BY <1>0, <1>1, InFlightStays
<1>2. ASSUME Release(s) PROVE InFlight' = InFlight \ {s}
  BY <1>2, <1>1 DEF Release
<1>3. CASE StartTrade(s)
  <2>1. InFlight' = InFlight \ {s}
    BY <1>0, <1>3, InFlightStays DEF StartTrade
  <2>2. UNCHANGED <<mode, risk, ladder, journal, settle_order, day, reset_mark>>
    BY <1>3 DEF StartTrade, dbVars, clockVars
  <2> QED
    BY <2>1, <2>2 DEF QuietStep, CounterVars
<1>4. ASSUME Release(s), UNCHANGED risk PROVE QuietStep
  <2>1. UNCHANGED <<mode, risk, ladder, journal, settle_order, day, reset_mark>>
    BY <1>4 DEF Release, dbVars, clockVars
  <2>2. InFlight' \subseteq InFlight
    BY <1>2, <1>4
  <2> QED
    BY <2>1, <2>2 DEF QuietStep, CounterVars
<1>5. CASE PricingFails(s) \/ BuyRejected(s) \/ PortfolioEmpty(s)
  BY <1>5, <1>4 DEF PricingFails, BuyRejected, PortfolioEmpty
<1>6. CASE RefuseTrade(s)
  <2>1. Release(s) /\ mode = "up" /\ risk' = RollDay(risk, day)
    BY <1>6, Zenon DEF RefuseTrade
  <2>2. UNCHANGED <<mode, ladder, dbVars, day>>
    BY <2>1 DEF Release, clockVars
  <2>3. InFlight' \subseteq InFlight
    BY <1>2, <2>1
  <2> QED
    BY <2>1, <2>2, <2>3 DEF CheckStep
<1>7. CASE SendBuy(s)
  <2>1. InFlight' = InFlight \cup {s}
    BY <1>0, <1>7, InFlightStays DEF SendBuy
  <2> QED
    BY <1>7, <2>1 DEF SendBuy, CheckStep, dbVars, clockVars
<1>8. ASSUME NEW c \in Contracts, RecordOpen(s, c) PROVE InFlight' = InFlight \ {s}
  BY <1>8, <1>1 DEF RecordOpen
<1>9. CASE BuyAnswered(s)
  <2>1. filled[s] \in Contracts /\ RecordOpen(s, filled[s]) /\ mode = "up" /\ s \in InFlight
    BY <1>9 DEF BuyAnswered, TypeInv, AnswerHasContract, InFlight
  <2> QED
    BY <1>8, <1>9, <2>1 DEF EntryStepOf
<1>10. CASE PortfolioFound(s)
  <2>1. PICK c \in Candidates(s) : RecordOpen(s, c)
    BY <1>10 DEF PortfolioFound
  <2>2. c \in Contracts /\ mode = "up" /\ s \in InFlight
    BY <1>10 DEF PortfolioFound, Candidates, InFlight
  <2> QED
    BY <1>8, <1>10, <2>1, <2>2 DEF EntryStepOf
<1>11. CASE BuyAmbiguous(s)
  <2>1. s \in InFlight
    BY <1>11 DEF BuyAmbiguous, InFlight
  <2>2. InFlight' = InFlight
    BY <1>0, <1>11, <2>1, InFlightStays DEF BuyAmbiguous
  <2>3. UNCHANGED <<mode, risk, ladder, journal, settle_order, day, reset_mark>>
    BY <1>11 DEF BuyAmbiguous, dbVars
  <2> QED
    BY <2>2, <2>3 DEF QuietStep, CounterVars
<1>12. CASE PortfolioFails(s)
  <2>1. CASE Release(s)
    BY <1>12, <1>4, <2>1 DEF PortfolioFails
  <2>2. CASE ~ Release(s)
    <3>1. UNCHANGED <<mode, pc, ladder, dbVars, clockVars, risk>>
      BY <1>12, <2>2 DEF PortfolioFails
    <3>2. InFlight' = InFlight
      BY <3>1 DEF InFlight
    <3> QED
      BY <3>1, <3>2 DEF QuietStep, CounterVars, dbVars, clockVars
  <2> QED
    BY <2>1, <2>2
<1> QED
  BY <1>3, <1>5, <1>6, <1>7, <1>9, <1>10, <1>11, <1>12 DEF SymbolTask

(* Every step of the system is one of these, for the counters.             *)
LEMMA CounterStep ==
  ASSUME TypeInv, [Next]_vars
  PROVE  \/ QuietStep \/ CheckStep \/ BalanceStep \/ OutageStep \/ MidnightStep
         \/ \E s \in Symbols, c \in Contracts : EntryStepOf(s, c)
         \/ \E c \in Contracts : Settle(c)
         \/ RestoreState \/ OperatorReset
<1>0. ASSUME UNCHANGED pc PROVE InFlight' = InFlight
  BY <1>0 DEF InFlight
<1>1. ASSUME NEW s \in Symbols, SymbolTask(s)
      PROVE  QuietStep \/ CheckStep \/ \E c \in Contracts : EntryStepOf(s, c)
  BY <1>1, TaskCounterStep
<1>2. ASSUME NEW c \in Contracts, SettleFails(c) PROVE QuietStep
  BY <1>0, <1>2 DEF SettleFails, QuietStep, CounterVars, taskVars, dbVars
<1>3. CASE ReadBalance
  BY <1>0, <1>3 DEF ReadBalance, QuietStep, CounterVars, taskVars, dbVars
<1>4. CASE RefreshBalance
  <2>1. balance_reply[1] \in Int
    <3>1. balance_reply \in Seq(Int) /\ balance_reply # <<>>
      BY <1>4 DEF RefreshBalance, TypeInv, TypeOK
    <3> QED
      BY <3>1
  <2> QED
    BY <1>0, <1>4, <2>1 DEF RefreshBalance, BalanceStep, taskVars, dbVars, clockVars
<1>5. CASE Crash
  <2>1. InFlight' = {} /\ MaxCrashes # 0
    BY <1>5, LifecycleAssumption DEF Crash, InFlight, TypeInv, TypeOK, Spent
  <2> QED
    BY <1>5, <2>1 DEF Crash, OutageStep, dbVars
<1>6. CASE Boot
  BY <1>0, <1>6 DEF Boot, OutageStep, taskVars, dbVars, clockVars
<1>7. CASE Deriv
  BY <1>0, <1>7 DEF Deriv, RejectOrder, DropLateOrder, FillOrder, FillLateOrder, Sell,
                    QuietStep, CounterVars, taskVars, dbVars, clockVars
<1>8. CASE CooldownElapses
  BY <1>0, <1>8 DEF CooldownElapses, BalanceStep, taskVars, dbVars, clockVars
<1>9. CASE Midnight
  BY <1>9 DEF Midnight, MidnightStep, taskVars, dbVars
<1>10. CASE UNCHANGED vars
  BY <1>0, <1>10 DEF vars, QuietStep, CounterVars, taskVars, dbVars, clockVars
<1> QED
  BY <1>1, <1>2, <1>3, <1>4, <1>5, <1>6, <1>7, <1>8, <1>9, <1>10 DEF Next

LEMMA TypeInvariant == Spec => []TypeInv
<1>1. Init => TypeInv
  BY InitTypeInv
<1>2. TypeInv /\ [Next]_vars => TypeInv'
  BY TypeStep, AnswerHasContractStep, BootHasBalanceStep, RowHasSymbolStep DEF TypeInv
<1> QED
  BY <1>1, <1>2, PTL DEF Spec

-----------------------------------------------------------------------------
(* The journal and Deriv                                                   *)

BookedInOrder ==
  \A i \in 1..Len(settle_order) : journal[settle_order[i]].status = "settled"

TruthInv == TypeInv /\ AnswersMatchDeriv /\ JournalIsTruthful /\ BookedInOrder

(* A contract that is entered exists at Deriv under the symbol of the task,*)
(* is not booked yet, and is no other task's answer.                       *)
LEMMA EntryIsReal ==
  ASSUME TruthInv, NEW s \in Symbols, NEW c \in Contracts, EntryStepOf(s, c)
  PROVE  /\ broker[c].status # "none" /\ broker[c].symbol = s
         /\ journal[c].status # "settled"
         /\ \A t \in Symbols : order[t] = "filled" /\ filled[t] = c => t = s
<1>1. CASE BuyAnswered(s) /\ c = filled[s]
  BY <1>1 DEF BuyAnswered, TruthInv, AnswersMatchDeriv
<1>2. CASE PortfolioFound(s) /\ c \in Candidates(s)
  BY <1>2 DEF Candidates, TruthInv, JournalIsTruthful, KnownContractIds, AnswersMatchDeriv
<1> QED
  BY <1>1, <1>2 DEF EntryStepOf

LEMMA EntryTruth ==
  ASSUME TruthInv, NEW s \in Symbols, NEW c \in Contracts, EntryStepOf(s, c)
  PROVE  AnswersMatchDeriv' /\ JournalIsTruthful' /\ BookedInOrder'
<1>1. /\ journal'[c].status = "open" /\ journal'[c].symbol = s
      /\ \A d \in Contracts \ {c} : journal'[d] = journal[d]
  BY DEF EntryStepOf, RecordOpen, RecordTradeOpen, TruthInv, TypeInv, TypeOK
<1>2. /\ pc' = [pc EXCEPT ![s] = "idle"] /\ order' = [order EXCEPT ![s] = "none"]
      /\ filled' = [filled EXCEPT ![s] = NoContract]
      /\ broker' = broker /\ settle_order' = settle_order
  BY DEF EntryStepOf, RecordOpen, derivVars
<1>3. /\ order'[s] = "none"
      /\ \A t \in Symbols \ {s} : /\ pc'[t] = pc[t] /\ order'[t] = order[t]
                                  /\ filled'[t] = filled[t]
                                  /\ order[t] = "filled" => filled[t] \in Contracts \ {c}
  BY <1>2, EntryIsReal DEF TruthInv, TypeInv, TypeOK, AnswerHasContract
<1>4. AnswersMatchDeriv'
  BY <1>1, <1>2, <1>3 DEF AnswersMatchDeriv, TruthInv
<1>5. JournalIsTruthful'
  BY <1>1, <1>2, EntryIsReal DEF JournalIsTruthful, TruthInv, KnownContractIds
<1>6. BookedInOrder'
  <2>1. \A i \in 1..Len(settle_order) : settle_order[i] \in Contracts
    BY DEF TruthInv, TypeInv, TypeOK
  <2> QED
    BY <1>1, <1>2, <2>1, EntryIsReal DEF BookedInOrder, TruthInv
<1> QED
  BY <1>4, <1>5, <1>6

LEMMA AppendedAt ==
  ASSUME NEW S, NEW q \in Seq(S), NEW x \in S
  PROVE  \A i \in 1..Len(Append(q, x)) :
           IF i = Len(q) + 1 THEN Append(q, x)[i] = x
           ELSE i \in 1..Len(q) /\ Append(q, x)[i] = q[i]
<1>1. Len(Append(q, x)) = Len(q) + 1
  OBVIOUS
<1> QED
  BY <1>1

LEMMA SettleTruth ==
  ASSUME TruthInv, NEW c \in Contracts, Settle(c), journal[c].status = "open"
  PROVE  AnswersMatchDeriv' /\ JournalIsTruthful' /\ BookedInOrder'
<1>1. /\ journal'[c].status = "settled" /\ journal'[c].symbol = journal[c].symbol
      /\ journal'[c].outcome = broker[c].outcome
      /\ \A d \in Contracts \ {c} : journal'[d] = journal[d]
  BY DEF Settle, RecordTradeResult, TruthInv, TypeInv, TypeOK, Row
<1>2. /\ UNCHANGED <<pc, order, filled, broker>> /\ broker[c].status = "sold"
      /\ settle_order' = Append(settle_order, c)
  BY DEF Settle, taskVars, derivVars
<1>3. AnswersMatchDeriv'
  BY <1>1, <1>2 DEF AnswersMatchDeriv, TruthInv, TypeInv, AnswerHasContract
<1>4. JournalIsTruthful'
  BY <1>1, <1>2 DEF JournalIsTruthful, TruthInv, KnownContractIds
<1>5. BookedInOrder'
  <2>1. settle_order \in Seq(Contracts)
    BY DEF TruthInv, TypeInv, TypeOK
  <2>2. \A i \in 1..Len(settle_order') :
          IF i = Len(settle_order) + 1 THEN settle_order'[i] = c
          ELSE i \in 1..Len(settle_order) /\ settle_order'[i] = settle_order[i]
    BY <1>2, <2>1, AppendedAt
  <2>3. \A i \in 1..Len(settle_order) : settle_order[i] \in Contracts
    BY <2>1
  <2> QED
    BY <1>1, <2>2, <2>3 DEF BookedInOrder, TruthInv
<1> QED
  BY <1>3, <1>4, <1>5

(* A task that moves on keeps the contract of its answer or forgets it.    *)
LEMMA TaskTruth ==
  ASSUME TruthInv, NEW s \in Symbols, SymbolTask(s), journal' = journal
  PROVE  AnswersMatchDeriv'
<1>0. /\ pc \in [Symbols -> {"idle", "pricing", "buying", "reconciling"}]
      /\ order \in [Symbols -> Order] /\ DOMAIN filled = Symbols /\ AnswersMatchDeriv
  BY DEF TruthInv, TypeInv, TypeOK
<1>1. ASSUME pc'[s] = "buying" \/ order'[s] = "none", order'[s] # "filled",
              \A t \in Symbols \ {s} : /\ pc'[t] = pc[t] /\ order'[t] = order[t]
                                       /\ filled'[t] = filled[t],
              broker' = broker
       PROVE  AnswersMatchDeriv'
  BY <1>0, <1>1 DEF AnswersMatchDeriv
<1>2. ASSUME NEW l, pc' = [pc EXCEPT ![s] = l],
              order' = [order EXCEPT ![s] = "none"],
              filled' = [filled EXCEPT ![s] = NoContract], broker' = broker
       PROVE  AnswersMatchDeriv'
  BY <1>0, <1>1, <1>2
<1>3. CASE Release(s) /\ broker' = broker
  BY <1>3, <1>2 DEF Release
<1>4. CASE StartTrade(s)
  <2>1. pc' = [pc EXCEPT ![s] = "pricing"] /\ UNCHANGED <<order, filled, broker>>
        /\ order[s] = "none"
    BY <1>0, <1>4 DEF StartTrade, derivVars, AnswersMatchDeriv
  <2> QED
    BY <1>0, <1>1, <2>1
<1>5. CASE SendBuy(s)
  <2>1. /\ pc' = [pc EXCEPT ![s] = "buying"] /\ order' = [order EXCEPT ![s] = "sent"]
        /\ UNCHANGED <<filled, broker>>
    BY <1>5 DEF SendBuy, derivVars
  <2> QED
    BY <1>0, <1>1, <2>1
<1>6. CASE BuyAmbiguous(s)
  BY <1>6, <1>2 DEF BuyAmbiguous
<1>7. ASSUME NEW c \in Contracts, RecordOpen(s, c) PROVE AnswersMatchDeriv'
  BY <1>7, <1>2 DEF RecordOpen, derivVars
<1>8. CASE BuyAnswered(s)
  BY <1>7, <1>8 DEF BuyAnswered, TruthInv, TypeInv, AnswerHasContract
<1>9. CASE PortfolioFound(s)
  BY <1>7, <1>9 DEF PortfolioFound, Candidates
<1>10. CASE PortfolioFails(s) /\ ~ Release(s)
  BY <1>0, <1>10 DEF PortfolioFails, AnswersMatchDeriv
<1>11. Release(s) => broker' = broker
  BY DEF Release
<1> QED
  BY <1>3, <1>4, <1>5, <1>6, <1>8, <1>9, <1>10, <1>11
     DEF SymbolTask, PricingFails, RefuseTrade, BuyRejected, PortfolioEmpty, PortfolioFails

(* Deriv buys a contract nobody knows, and sells one that is not booked.   *)
LEMMA DerivTruth ==
  ASSUME TruthInv, Deriv
  PROVE  AnswersMatchDeriv' /\ JournalIsTruthful'
<1>0. /\ broker \in [Contracts -> Deal] /\ order \in [Symbols -> Order]
      /\ DOMAIN filled = Symbols /\ UNCHANGED <<pc, journal>>
  BY DEF TruthInv, TypeInv, TypeOK, Deriv, RejectOrder, DropLateOrder, FillOrder,
         FillLateOrder, Sell, taskVars, dbVars
<1>1. ASSUME NEW c \in Contracts, NEW s \in Symbols, Buy(c, s)
      PROVE  /\ \A d \in Contracts \ {c} : broker'[d] = broker[d]
             /\ broker'[c].status = "live" /\ broker'[c].symbol = s
             /\ journal[c].status = "none" /\ JournalIsTruthful'
             /\ \A t \in Symbols : order[t] = "filled" => filled[t] \in Contracts \ {c}
  <2>1. /\ \A d \in Contracts \ {c} : broker'[d] = broker[d]
        /\ broker'[c].status = "live" /\ broker'[c].symbol = s /\ broker[c].status = "none"
    BY <1>0, <1>1 DEF Buy, Deal
  <2>2. c \notin KnownContractIds(journal)
    BY <2>1 DEF TruthInv, JournalIsTruthful
  <2>3. JournalIsTruthful'
    BY <1>0, <2>1, <2>2 DEF TruthInv, JournalIsTruthful, KnownContractIds
  <2> QED
    BY <2>1, <2>2, <2>3 DEF KnownContractIds, TruthInv, TypeInv, AnswerHasContract,
                            AnswersMatchDeriv
<1>2. ASSUME NEW c \in Contracts, NEW s \in Symbols, FillOrder(s, c)
      PROVE  AnswersMatchDeriv' /\ JournalIsTruthful'
  <2>1. Buy(c, s) /\ order' = [order EXCEPT ![s] = "filled"]
        /\ filled' = [filled EXCEPT ![s] = c] /\ pc[s] = "buying"
    BY <1>2 DEF FillOrder, TruthInv, AnswersMatchDeriv
  <2> QED
    BY <1>0, <1>1, <2>1 DEF AnswersMatchDeriv, TruthInv
<1>3. ASSUME NEW c \in Contracts, NEW s \in Symbols, FillLateOrder(s, c)
      PROVE  AnswersMatchDeriv' /\ JournalIsTruthful'
  <2>1. Buy(c, s) /\ UNCHANGED <<order, filled>>
    BY <1>3 DEF FillLateOrder, taskVars
  <2> QED
    BY <1>0, <1>1, <2>1 DEF AnswersMatchDeriv, TruthInv
<1>4. ASSUME NEW c \in Contracts, NEW o \in Results, Sell(c, o)
      PROVE  AnswersMatchDeriv' /\ JournalIsTruthful'
  <2>1. /\ broker[c].status = "live" /\ UNCHANGED <<order, filled>>
        /\ \A d \in Contracts \ {c} : broker'[d] = broker[d]
        /\ broker'[c].status = "sold" /\ broker'[c].symbol = broker[c].symbol
    BY <1>0, <1>4 DEF Sell, taskVars, Deal
  <2>2. AnswersMatchDeriv'
    BY <1>0, <2>1 DEF AnswersMatchDeriv, TruthInv, TypeInv, AnswerHasContract
  <2>3. JournalIsTruthful'
    BY <1>0, <2>1 DEF JournalIsTruthful, TruthInv, KnownContractIds
  <2> QED
    BY <2>2, <2>3
<1>5. ASSUME NEW s \in Symbols, RejectOrder(s)
      PROVE  AnswersMatchDeriv' /\ JournalIsTruthful'
  BY <1>0, <1>5 DEF RejectOrder, derivVars, AnswersMatchDeriv, JournalIsTruthful, TruthInv
<1>6. ASSUME NEW s \in Symbols, DropLateOrder(s)
      PROVE  AnswersMatchDeriv' /\ JournalIsTruthful'
  BY <1>0, <1>6 DEF DropLateOrder, taskVars, AnswersMatchDeriv, JournalIsTruthful, TruthInv
<1> QED
  BY <1>2, <1>3, <1>4, <1>5, <1>6 DEF Deriv

LEMMA TruthStep ==
  ASSUME TruthInv, [Next]_vars
  PROVE  TruthInv'
<1>0. TypeInv'
  BY TypeStep, AnswerHasContractStep, BootHasBalanceStep, RowHasSymbolStep
     DEF TypeInv, TruthInv
<1>1. CASE UNCHANGED <<journal, settle_order, broker>> /\ AnswersMatchDeriv'
  BY <1>0, <1>1 DEF TruthInv, JournalIsTruthful, BookedInOrder
<1>2. CASE UNCHANGED <<journal, settle_order, broker, pc, order, filled>>
  BY <1>1, <1>2 DEF AnswersMatchDeriv, TruthInv
<1>3. ASSUME NEW s \in Symbols, SymbolTask(s) PROVE TruthInv'
  <2>1. ASSUME NEW c \in Contracts, EntryStepOf(s, c) PROVE TruthInv'
    BY <1>0, <2>1, EntryTruth DEF TruthInv
  <2>2. CASE QuietStep \/ CheckStep
    <3>1. UNCHANGED <<journal, settle_order>>
      BY <2>2 DEF QuietStep, CounterVars, CheckStep, dbVars
    <3>2. AnswersMatchDeriv'
      BY <1>3, <3>1, TaskTruth
    <3>3. broker' = broker
      BY <1>3 DEF SymbolTask, StartTrade, PricingFails, RefuseTrade, SendBuy, BuyAnswered,
                  BuyRejected, BuyAmbiguous, PortfolioFound, PortfolioEmpty, PortfolioFails,
                  Release, RecordOpen, derivVars
    <3> QED
      BY <1>1, <3>1, <3>2, <3>3
  <2> QED
    BY <1>3, <2>1, <2>2, TaskCounterStep DEF TruthInv
<1>4. ASSUME NEW c \in Contracts, Settle(c) PROVE TruthInv'
  <2>1. CASE journal[c].status = "open"
    BY <1>0, <1>4, <2>1, SettleTruth DEF TruthInv
  <2>2. CASE journal[c].status # "open"
    BY <1>2, <1>4, <2>2 DEF Settle, RecordTradeResult, taskVars, derivVars
  <2> QED
    BY <2>1, <2>2
<1>5. CASE Deriv
  <2>1. UNCHANGED <<journal, settle_order>>
    BY <1>5 DEF Deriv, RejectOrder, DropLateOrder, FillOrder, FillLateOrder, Sell, dbVars
  <2> QED
    BY <1>0, <1>5, <2>1, DerivTruth DEF TruthInv, BookedInOrder
<1>6. CASE Crash
  BY <1>1, <1>6 DEF Crash, AnswersMatchDeriv, dbVars
<1> QED
  BY <1>2, <1>3, <1>4, <1>5, <1>6
     DEF Next, SettleFails, ReadBalance, RefreshBalance, Boot, RestoreState, OperatorReset,
         CooldownElapses, Midnight, vars, taskVars, dbVars, derivVars

LEMMA TruthInvariant == Spec => []TruthInv
<1>1. ASSUME Init PROVE TruthInv
  BY <1>1, InitTypeInv DEF Init, TruthInv, AnswersMatchDeriv, JournalIsTruthful,
                           BookedInOrder, KnownContractIds, EmptyRow
<1>2. TruthInv /\ [Next]_vars => TruthInv'
  BY TruthStep
<1> QED
  BY <1>1, <1>2, PTL DEF Spec

(* Whatever the database refuses, a row names a contract that Deriv sold   *)
(* to the bot on that symbol, and a booked result is Deriv's own.          *)
THEOREM JournalAgreesWithDeriv == Spec => []JournalIsTruthful
<1>1. TruthInv => JournalIsTruthful
  BY DEF TruthInv
<1> QED
  BY <1>1, TruthInvariant, PTL

-----------------------------------------------------------------------------
(* Contracts the bot paid for and does not know of                         *)

Answered(c) == \E s \in Symbols : order[s] = "filled" /\ filled[s] = c

(* No row and no answer names them.                                        *)
Lost ==
  {c \in Contracts : broker[c].status # "none" /\ journal[c].status = "none" /\ ~ Answered(c)}

(* One element per order nobody waits for any more.                        *)
OnTheWay == {t \in Symbols \X Nat : 1 <= t[2] /\ t[2] <= late[t[1]]}

(* Each of them was paid for with a lost answer, and an order that is      *)
(* still on its way is one that may become a lost contract.                *)
LostInv ==
  /\ IsFiniteSet(OnTheWay)
  /\ Cardinality(Lost) + Cardinality(OnTheWay)
       <= spent.timeouts + spent.crashes * Cardinality(Symbols)

LostUnchanged == UNCHANGED <<late, spent.timeouts, spent.crashes>> /\ Lost' \subseteq Lost

LEMMA OneMore ==
  ASSUME NEW A, IsFiniteSet(A), NEW B, NEW x, B \subseteq A \cup {x}
  PROVE  /\ IsFiniteSet(B) /\ Cardinality(A) \in Nat /\ Cardinality(B) \in Nat
         /\ Cardinality(B) <= Cardinality(A) + 1
<1>1. /\ IsFiniteSet(A \cup {x})
      /\ Cardinality(A \cup {x}) = IF x \in A THEN Cardinality(A) ELSE Cardinality(A) + 1
  BY FS_AddElement
<1>2. Cardinality(A) \in Nat
  BY FS_CardinalityType
<1>3. /\ IsFiniteSet(A \cup {x}) /\ Cardinality(A) \in Nat
      /\ Cardinality(A \cup {x}) <= Cardinality(A) + 1
  BY <1>1, <1>2
<1> DEFINE C == A \cup {x}
<1>4. IsFiniteSet(C) /\ B \in SUBSET C
  BY <1>3
<1> HIDE DEF C
<1>5. IsFiniteSet(B) /\ Cardinality(B) <= Cardinality(C)
  BY <1>4, FS_Subset
<1>6. /\ IsFiniteSet(B) /\ Cardinality(B) <= Cardinality(A \cup {x})
      /\ Cardinality(B) \in Nat /\ Cardinality(A \cup {x}) \in Nat
  BY <1>4, <1>5, FS_CardinalityType DEF C
<1> QED
  BY <1>3, <1>6

LEMMA UnionIsSmaller ==
  ASSUME NEW A, IsFiniteSet(A), NEW X, IsFiniteSet(X), NEW B, B \subseteq A \cup X
  PROVE  /\ IsFiniteSet(B) /\ Cardinality(B) \in Nat
         /\ Cardinality(B) <= Cardinality(A) + Cardinality(X)
<1> DEFINE C == A \cup X
<1>1. IsFiniteSet(C) /\ B \in SUBSET C
  BY FS_Union
<1>2. Cardinality(C) = Cardinality(A) + Cardinality(X) - Cardinality(A \cap X)
  BY FS_Union
<1>3. IsFiniteSet(A \cap X)
  BY FS_Intersection
<1> HIDE DEF C
<1>4. IsFiniteSet(B) /\ Cardinality(B) <= Cardinality(C)
  BY <1>1, FS_Subset
<1> QED
  BY <1>1, <1>2, <1>3, <1>4, FS_CardinalityType

LEMMA PaidType ==
  ASSUME TypeOK
  PROVE  /\ spent.timeouts \in Nat /\ spent.crashes \in Nat /\ Cardinality(Symbols) \in Nat
         /\ spent.crashes * Cardinality(Symbols) \in Nat
<1>1. Cardinality(Symbols) \in Nat /\ spent.crashes \in Nat /\ spent.timeouts \in Nat
  BY JournalAssumption, FS_CardinalityType DEF TypeOK, Spent
<1> QED
  BY <1>1

LEMMA LostUnchangedKeeps ==
  ASSUME TypeOK, LostInv, LostUnchanged
  PROVE  LostInv'
<1>1. IsFiniteSet(Lost) /\ Lost' \in SUBSET Lost
  BY SubsetOfContracts DEF Lost, LostUnchanged
<1>2. IsFiniteSet(Lost') /\ Cardinality(Lost') <= Cardinality(Lost)
  BY <1>1, FS_Subset
<1>3. OnTheWay' = OnTheWay
  BY DEF OnTheWay, LostUnchanged
<1>4. Cardinality(Lost) \in Nat /\ Cardinality(Lost') \in Nat /\ Cardinality(OnTheWay) \in Nat
  BY <1>1, <1>2, FS_CardinalityType DEF LostInv
<1> QED
  BY <1>2, <1>3, <1>4, PaidType DEF LostInv, LostUnchanged

LEMMA OrderLeaves ==
  ASSUME TypeOK, NEW s \in Symbols, late[s] > 0, late' = [late EXCEPT ![s] = @ - 1],
         IsFiniteSet(OnTheWay)
  PROVE  /\ IsFiniteSet(OnTheWay') /\ Cardinality(OnTheWay') = Cardinality(OnTheWay) - 1
         /\ Cardinality(OnTheWay) \in Nat
<1>1. late \in [Symbols -> Nat]
  BY DEF TypeOK
<1>2. <<s, late[s]>> \in OnTheWay
  BY <1>1 DEF OnTheWay
<1>3. OnTheWay' = OnTheWay \ {<<s, late[s]>>}
  <2>1. ASSUME NEW t \in Symbols \X Nat
        PROVE  1 <= t[2] /\ t[2] <= late'[t[1]]
                 <=> 1 <= t[2] /\ t[2] <= late[t[1]] /\ t # <<s, late[s]>>
    <3>1. PICK u \in Symbols, n \in Nat : t = <<u, n>>
      BY <2>1
    <3>2. CASE u = s
      <4>1. late'[u] = late[s] - 1 /\ late[s] \in Nat /\ t[1] = s /\ t[2] = n
        BY <1>1, <3>1, <3>2
      <4>2. n <= late[s] - 1 <=> n <= late[s] /\ n # late[s]
        BY <4>1
      <4> QED
        BY <3>1, <3>2, <4>1, <4>2
    <3>3. CASE u # s
      BY <1>1, <3>1, <3>3
    <3> QED
      BY <3>2, <3>3
  <2> QED
    BY <2>1 DEF OnTheWay
<1> QED
  BY <1>2, <1>3, FS_RemoveElement, FS_CardinalityType

LEMMA OrderJoins ==
  ASSUME TypeOK, NEW s \in Symbols, late' = [late EXCEPT ![s] = @ + 1]
  PROVE  OnTheWay' \subseteq OnTheWay \cup {<<s, late[s] + 1>>}
<1>1. late \in [Symbols -> Nat]
  BY DEF TypeOK
<1>2. ASSUME NEW t \in OnTheWay' PROVE t \in OnTheWay \cup {<<s, late[s] + 1>>}
  <2>1. PICK u \in Symbols, n \in Nat : t = <<u, n>> /\ 1 <= n /\ n <= late'[u]
    BY <1>2 DEF OnTheWay
  <2>2. CASE n <= late[u]
    BY <2>1, <2>2 DEF OnTheWay
  <2>3. CASE ~ (n <= late[u])
    <3>1. u = s /\ n = late[s] + 1
      BY <1>1, <2>1, <2>3
    <3> QED
      BY <2>1, <3>1
  <2> QED
    BY <2>2, <2>3
<1> QED
  BY <1>2

(* What keeps a contract from being lost: a row, or the answer of a task.  *)
LEMMA NothingLost ==
  ASSUME \A c \in Contracts : broker'[c].status # "none" =>
           \/ broker[c].status # "none" \/ \E s \in Symbols : FillOrder(s, c),
         \A c \in Contracts : journal'[c].status = "none" => journal[c].status = "none",
         \A c \in Contracts : Answered(c) => Answered(c)' \/ journal'[c].status # "none",
         \A c \in Contracts, s \in Symbols : FillOrder(s, c) => Answered(c)'
  PROVE  Lost' \subseteq Lost
BY DEF Lost

LEMMA TaskLoses ==
  ASSUME TruthInv, NEW s \in Symbols, SymbolTask(s), ~ BuyAmbiguous(s)
  PROVE  LostUnchanged
<1>0. /\ pc \in [Symbols -> {"idle", "pricing", "buying", "reconciling"}]
      /\ DOMAIN order = Symbols /\ DOMAIN filled = Symbols /\ AnswersMatchDeriv
  BY DEF TruthInv, TypeInv, TypeOK
<1>1. /\ UNCHANGED <<late, spent, broker>>
  BY DEF SymbolTask, StartTrade, PricingFails, RefuseTrade, SendBuy, BuyAnswered,
         BuyRejected, PortfolioFound, PortfolioEmpty, PortfolioFails,
         Release, RecordOpen, derivVars, clockVars
<1>2. \A c \in Contracts : Answered(c) => Answered(c)' \/ journal'[c].status # "none"
  <2> SUFFICES ASSUME NEW c \in Contracts, NEW t \in Symbols,
                      order[t] = "filled", filled[t] = c, pc[t] = "buying",
                      journal'[c].status = "none"
               PROVE  order'[t] = "filled" /\ filled'[t] = c
    BY <1>0 DEF Answered, AnswersMatchDeriv
  <2>1. CASE t # s
    <3>1. \/ UNCHANGED <<order, filled>>
          \/ \E o \in {"none", "sent"} : order' = [order EXCEPT ![s] = o]
      BY DEF SymbolTask, StartTrade, PricingFails, RefuseTrade, SendBuy, BuyAnswered,
             BuyRejected, PortfolioFound, PortfolioEmpty, PortfolioFails, Release, RecordOpen
    <3>2. UNCHANGED filled \/ filled' = [filled EXCEPT ![s] = NoContract]
      BY DEF SymbolTask, StartTrade, PricingFails, RefuseTrade, SendBuy, BuyAnswered,
             BuyRejected, PortfolioFound, PortfolioEmpty, PortfolioFails, Release, RecordOpen
    <3> QED
      BY <1>0, <2>1, <3>1, <3>2
  <2>2. CASE t = s
    <3>1. BuyAnswered(s)
      BY <2>2 DEF SymbolTask, StartTrade, PricingFails, RefuseTrade, SendBuy,
                  BuyRejected, PortfolioFound, PortfolioEmpty, PortfolioFails
    <3>2. journal' = RecordTradeOpen(journal, c, s, day)
      BY <2>2, <3>1 DEF BuyAnswered, RecordOpen
    <3>3. journal'[c].status = "open"
      BY <3>2 DEF RecordTradeOpen, TruthInv, TypeInv, TypeOK
    <3> QED
      BY <3>3
  <2> QED
    BY <2>1, <2>2
<1>3. \A c \in Contracts : journal'[c].status = "none" => journal[c].status = "none"
  <2>1. journal' = journal \/ \E d \in Contracts : RecordOpen(s, d)
    <3>1. CASE \E d \in Contracts : EntryStepOf(s, d)
      BY <3>1 DEF EntryStepOf
    <3> QED
      BY <3>1, TaskCounterStep DEF TruthInv, QuietStep, CheckStep, CounterVars, dbVars
  <2>2. ASSUME NEW d \in Contracts, RecordOpen(s, d)
        PROVE  /\ journal'[d].status = "open"
               /\ \A c \in Contracts \ {d} : journal'[c] = journal[c]
    BY <2>2 DEF RecordOpen, RecordTradeOpen, TruthInv, TypeInv, TypeOK
  <2> QED
    BY <2>1, <2>2
<1>4. \A c \in Contracts, t \in Symbols : ~ FillOrder(t, c)
  <2>1. ASSUME NEW c \in Contracts, NEW t \in Symbols, Buy(c, t) PROVE broker' # broker
    <3>1. broker'[c].status = "live" /\ broker[c].status = "none"
      BY <2>1 DEF Buy, TruthInv, TypeInv, TypeOK, Deal
    <3> QED
      BY <3>1
  <2> QED
    BY <1>1, <2>1 DEF FillOrder
<1>5. Lost' \subseteq Lost
  BY <1>1, <1>2, <1>3, <1>4, NothingLost
<1> QED
  BY <1>1, <1>5 DEF LostUnchanged

(* A buy that times out loses its contract, or leaves an order behind.     *)
LEMMA AmbiguousLoses ==
  ASSUME TruthInv, LostInv, NEW s \in Symbols, BuyAmbiguous(s)
  PROVE  LostInv'
<1>0. /\ order \in [Symbols -> Order] /\ filled \in [Symbols -> Contracts \cup {NoContract}]
      /\ late \in [Symbols -> Nat] /\ spent \in Spent /\ TypeOK
  BY DEF TruthInv, TypeInv, TypeOK
<1>1. /\ order' = [order EXCEPT ![s] = "none"]
      /\ filled' = [filled EXCEPT ![s] = NoContract]
      /\ UNCHANGED <<broker, journal>>
      /\ late' = [late EXCEPT ![s] = IF order[s] = "sent" THEN late[s] + 1 ELSE late[s]]
  BY DEF BuyAmbiguous, dbVars
<1>2. spent'.timeouts = spent.timeouts + 1 /\ spent'.crashes = spent.crashes
  BY <1>0 DEF BuyAmbiguous, Spent
<1>3. ASSUME NEW c \in Contracts, Answered(c), ~ Answered(c)'
      PROVE  order[s] = "filled" /\ filled[s] = c
  BY <1>0, <1>1, <1>3 DEF Answered
<1>4. IsFiniteSet(Lost)
  BY SubsetOfContracts DEF Lost
<1>5. Cardinality(Lost') + Cardinality(OnTheWay') <= Cardinality(Lost) + Cardinality(OnTheWay) + 1
      /\ IsFiniteSet(OnTheWay') /\ Cardinality(Lost') \in Nat /\ Cardinality(OnTheWay') \in Nat
      /\ Cardinality(Lost) \in Nat /\ Cardinality(OnTheWay) \in Nat
  <2>1. CASE order[s] = "sent"
    <3>1. Lost' \subseteq Lost
      BY <1>1, <1>3, <2>1 DEF Lost
    <3>2. OnTheWay' \subseteq OnTheWay \cup {<<s, late[s] + 1>>}
      BY <1>0, <1>1, <2>1, OrderJoins
    <3>3. Cardinality(Lost') <= Cardinality(Lost)
      BY <1>4, <3>1, FS_Subset
    <3>4. Cardinality(Lost) \in Nat /\ Cardinality(Lost') \in Nat
      BY SubsetOfContracts DEF Lost
    <3>5. /\ IsFiniteSet(OnTheWay') /\ Cardinality(OnTheWay) \in Nat
          /\ Cardinality(OnTheWay') \in Nat
          /\ Cardinality(OnTheWay') <= Cardinality(OnTheWay) + 1
      BY <3>2, OneMore DEF LostInv
    <3> QED
      BY <3>3, <3>4, <3>5
  <2>2. CASE order[s] # "sent"
    <3>1. Lost' \subseteq Lost \cup {filled[s]}
      BY <1>1, <1>3, <2>2 DEF Lost
    <3>2. late' = late
      BY <1>0, <1>1, <2>2
    <3>3. OnTheWay' = OnTheWay
      BY <3>2 DEF OnTheWay
    <3>4. Cardinality(OnTheWay) \in Nat
      BY FS_CardinalityType DEF LostInv
    <3>5. /\ Cardinality(Lost) \in Nat /\ Cardinality(Lost') \in Nat
          /\ Cardinality(Lost') <= Cardinality(Lost) + 1
      BY <1>4, <3>1, OneMore
    <3> QED
      BY <3>3, <3>4, <3>5 DEF LostInv
  <2> QED
    BY <2>1, <2>2
<1>6. spent.timeouts \in Nat /\ spent.crashes * Cardinality(Symbols) \in Nat
  BY <1>0, PaidType
<1> QED
  BY <1>2, <1>5, <1>6 DEF LostInv

(* A crash loses at most one contract or order of each symbol.             *)
LEMMA ImageIsSmaller ==
  ASSUME NEW S, IsFiniteSet(S), NEW f, DOMAIN f = S
  PROVE  LET T == {f[x] : x \in S}
         IN  IsFiniteSet(T) /\ Cardinality(T) <= Cardinality(S)
<1> DEFINE T == {f[x] : x \in S}
           g == [x \in S |-> f[x]]
<1>1. g \in [S -> T] /\ \A y \in T : \E x \in S : g[x] = y
  OBVIOUS
<1> HIDE DEF T, g
<1>2. g \in Surjection(S, T)
  BY <1>1, Zenon DEF Surjection
<1> QED
  BY <1>2, FS_Surjection DEF T

LEMMA CrashLoses ==
  ASSUME TruthInv, LostInv, Crash
  PROVE  LostInv'
<1>0. /\ order \in [Symbols -> Order] /\ filled \in [Symbols -> Contracts \cup {NoContract}]
      /\ late \in [Symbols -> Nat] /\ spent \in Spent
  BY DEF TruthInv, TypeInv, TypeOK
<1> DEFINE sent == {s \in Symbols : order[s] = "sent"}
           got == {s \in Symbols : order[s] = "filled"}
           contract == [s \in got |-> filled[s]]
           token == [s \in sent |-> <<s, late[s] + 1>>]
           contracts == {contract[s] : s \in got}
           tokens == {token[s] : s \in sent}
<1>1. /\ order' = [s \in Symbols |-> "none"] /\ UNCHANGED <<broker, journal>>
      /\ late' = [s \in Symbols |-> IF order[s] = "sent" THEN late[s] + 1 ELSE late[s]]
  BY DEF Crash, dbVars
<1>2. spent'.timeouts = spent.timeouts /\ spent'.crashes = spent.crashes + 1
  BY <1>0 DEF Crash, Spent
<1>3. Lost' \subseteq Lost \cup contracts
  <2>1. ASSUME NEW c \in Contracts, Answered(c) PROVE c \in contracts
    BY <2>1 DEF Answered
  <2> QED
    BY <1>1, <2>1 DEF Lost
<1>4. OnTheWay' \subseteq OnTheWay \cup tokens
  <2>1. ASSUME NEW t \in OnTheWay', t \notin OnTheWay PROVE t \in tokens
    <3>1. PICK u \in Symbols, n \in Nat : t = <<u, n>> /\ 1 <= n /\ n <= late'[u]
      BY <2>1 DEF OnTheWay
    <3>2. ~ (n <= late[u])
      BY <2>1, <3>1 DEF OnTheWay
    <3>3. u \in sent /\ n = late[u] + 1
      BY <1>0, <1>1, <3>1, <3>2
    <3> QED
      BY <3>1, <3>3
  <2> QED
    BY <2>1
<1>5. /\ IsFiniteSet(sent) /\ IsFiniteSet(got)
      /\ Cardinality(sent) + Cardinality(got) <= Cardinality(Symbols)
      /\ Cardinality(sent) \in Nat /\ Cardinality(got) \in Nat /\ Cardinality(Symbols) \in Nat
  <2>1. IsFiniteSet(Symbols) /\ sent \in SUBSET Symbols /\ got \in SUBSET Symbols
        /\ sent \cup got \in SUBSET Symbols /\ sent \cap got = {}
    BY JournalAssumption
  <2> HIDE DEF sent, got
  <2>2. IsFiniteSet(sent) /\ IsFiniteSet(got) /\ IsFiniteSet(sent \cup got)
    BY <2>1, FS_Subset
  <2>3. Cardinality(sent \cup got) = Cardinality(sent) + Cardinality(got) - Cardinality({})
    BY <2>1, <2>2, FS_Union
  <2>4. Cardinality(sent \cup got) <= Cardinality(Symbols)
    BY <2>1, FS_Subset
  <2> QED
    BY <2>1, <2>2, <2>3, <2>4, FS_EmptySet, FS_CardinalityType
<1>6. IsFiniteSet(Lost) /\ IsFiniteSet(OnTheWay)
  BY SubsetOfContracts DEF Lost, LostInv
<1>7. DOMAIN contract = got /\ DOMAIN token = sent
  OBVIOUS
<1> HIDE DEF sent, got, contract, token
<1>8. IsFiniteSet(contracts) /\ Cardinality(contracts) <= Cardinality(got)
  BY <1>5, <1>7, ImageIsSmaller
<1>9. IsFiniteSet(tokens) /\ Cardinality(tokens) <= Cardinality(sent)
  BY <1>5, <1>7, ImageIsSmaller
<1>10. /\ IsFiniteSet(contracts) /\ Cardinality(contracts) <= Cardinality(got)
      /\ IsFiniteSet(tokens) /\ Cardinality(tokens) <= Cardinality(sent)
  BY <1>8, <1>9
<1> HIDE DEF contracts, tokens
<1>11. /\ IsFiniteSet(OnTheWay') /\ Cardinality(OnTheWay') \in Nat
       /\ Cardinality(OnTheWay') <= Cardinality(OnTheWay) + Cardinality(tokens)
  BY <1>4, <1>6, <1>10, UnionIsSmaller
<1>12. /\ Cardinality(Lost') <= Cardinality(Lost) + Cardinality(contracts)
       /\ Cardinality(Lost') \in Nat
  BY <1>3, <1>6, <1>10, UnionIsSmaller
<1>13. /\ IsFiniteSet(OnTheWay') /\ Cardinality(OnTheWay') \in Nat
      /\ Cardinality(OnTheWay') <= Cardinality(OnTheWay) + Cardinality(tokens)
      /\ Cardinality(Lost') <= Cardinality(Lost) + Cardinality(contracts)
      /\ Cardinality(Lost') \in Nat
  BY <1>11, <1>12
<1>14. Cardinality(Lost') + Cardinality(OnTheWay')
        <= Cardinality(Lost) + Cardinality(OnTheWay) + Cardinality(Symbols)
      /\ Cardinality(Lost) \in Nat /\ Cardinality(OnTheWay) \in Nat
  <2>1. /\ Cardinality(Lost) \in Nat /\ Cardinality(OnTheWay) \in Nat
        /\ Cardinality(tokens) \in Nat /\ Cardinality(contracts) \in Nat
    BY <1>6, <1>10, FS_CardinalityType
  <2> QED
    BY <1>5, <1>10, <1>13, <2>1
<1>15. /\ spent.timeouts \in Nat /\ spent.crashes \in Nat
       /\ spent.crashes * Cardinality(Symbols) \in Nat
  BY PaidType DEF TruthInv, TypeInv
<1>16. (spent.crashes + 1) * Cardinality(Symbols)
         = spent.crashes * Cardinality(Symbols) + Cardinality(Symbols)
  BY <1>5, <1>15
<1> QED
  BY <1>2, <1>5, <1>13, <1>14, <1>15, <1>16 DEF LostInv

(* Deriv fills orders: one on its way becomes a lost contract, one that is *)
(* still waited for becomes an answer.                                     *)
LEMMA DerivLoses ==
  ASSUME TruthInv, LostInv, Deriv
  PROVE  LostInv'
<1>0. /\ order \in [Symbols -> Order] /\ DOMAIN filled = Symbols /\ TypeOK
      /\ broker \in [Contracts -> Deal] /\ UNCHANGED <<journal, spent>>
  BY DEF TruthInv, TypeInv, TypeOK, Deriv, RejectOrder, DropLateOrder, FillOrder,
         FillLateOrder, Sell, dbVars, clockVars
<1>1. ASSUME LostUnchanged PROVE LostInv'
  BY <1>0, <1>1, LostUnchangedKeeps
<1>2. ASSUME UNCHANGED late, Lost' \subseteq Lost PROVE LostInv'
  BY <1>0, <1>1, <1>2 DEF LostUnchanged
<1>3. ASSUME NEW s \in Symbols, RejectOrder(s) PROVE LostInv'
  <2>1. \A c \in Contracts : Answered(c) => Answered(c)'
    BY <1>0, <1>3 DEF RejectOrder, Answered
  <2> QED
    BY <1>0, <1>2, <1>3, <2>1 DEF RejectOrder, Lost, derivVars
<1>4. ASSUME NEW s \in Symbols, NEW c \in Contracts, FillOrder(s, c) PROVE LostInv'
  <2>1. \A d \in Contracts : Answered(d) => Answered(d)'
    BY <1>0, <1>4 DEF FillOrder, Answered
  <2>2. Answered(c)'
    BY <1>0, <1>4 DEF FillOrder, Answered
  <2>3. \A d \in Contracts \ {c} : broker'[d] = broker[d]
    BY <1>0, <1>4 DEF FillOrder, Buy
  <2> QED
    BY <1>0, <1>2, <1>4, <2>1, <2>2, <2>3 DEF FillOrder, Lost
<1>5. ASSUME NEW c \in Contracts, NEW o \in Results, Sell(c, o) PROVE LostInv'
  <2>1. \A d \in Contracts : broker'[d].status # "none" => broker[d].status # "none"
    BY <1>0, <1>5 DEF Sell, Deal
  <2>2. \A d \in Contracts : Answered(d) => Answered(d)'
    BY <1>5 DEF Sell, taskVars, Answered
  <2> QED
    BY <1>0, <1>2, <1>5, <2>1, <2>2 DEF Sell, Lost
<1>6. ASSUME NEW s \in Symbols, DropLateOrder(s) \/ \E c \in Contracts : FillLateOrder(s, c)
      PROVE  LostInv'
  <2>1. late[s] > 0 /\ late' = [late EXCEPT ![s] = @ - 1] /\ UNCHANGED <<order, filled>>
    BY <1>6 DEF DropLateOrder, FillLateOrder, taskVars
  <2>2. /\ IsFiniteSet(OnTheWay') /\ Cardinality(OnTheWay') = Cardinality(OnTheWay) - 1
        /\ Cardinality(OnTheWay) \in Nat
    BY <1>0, <2>1, OrderLeaves DEF LostInv
  <2>3. \A d \in Contracts : Answered(d)' <=> Answered(d)
    BY <2>1 DEF Answered
  <2>4. PICK x : Lost' \subseteq Lost \cup {x}
    <3>1. CASE DropLateOrder(s)
      BY <1>0, <2>3, <3>1 DEF DropLateOrder, Lost
    <3>2. ASSUME NEW c \in Contracts, FillLateOrder(s, c) PROVE Lost' \subseteq Lost \cup {c}
      <4>1. \A d \in Contracts \ {c} : broker'[d] = broker[d]
        BY <1>0, <3>2 DEF FillLateOrder, Buy
      <4> QED
        BY <1>0, <2>3, <4>1 DEF Lost
    <3> QED
      BY <1>6, <3>1, <3>2
  <2>5. IsFiniteSet(Lost)
    BY SubsetOfContracts DEF Lost
  <2>6. Cardinality(Lost') <= Cardinality(Lost) + 1
        /\ Cardinality(Lost) \in Nat /\ Cardinality(Lost') \in Nat
    BY <2>4, <2>5, OneMore
  <2>7. spent.timeouts + spent.crashes * Cardinality(Symbols) \in Nat
    BY PaidType DEF TruthInv, TypeInv
  <2> QED
    BY <1>0, <2>2, <2>6, <2>7 DEF LostInv
<1> QED
  BY <1>3, <1>4, <1>5, <1>6 DEF Deriv

LEMMA LostStep ==
  ASSUME TruthInv, LostInv, [Next]_vars
  PROVE  LostInv'
<1>0. TypeOK /\ DOMAIN journal = Contracts
  BY DEF TruthInv, TypeInv, TypeOK
<1>1. ASSUME NEW s \in Symbols, SymbolTask(s) PROVE LostInv'
  BY <1>0, <1>1, TaskLoses, AmbiguousLoses, LostUnchangedKeeps
<1>2. ASSUME UNCHANGED <<order, filled, broker, late, spent.timeouts, spent.crashes>>,
             \A c \in Contracts : journal'[c].status = "none" => journal[c].status = "none"
      PROVE  LostInv'
  <2>1. Lost' \subseteq Lost
    BY <1>2 DEF Lost, Answered
  <2> QED
    BY <1>0, <1>2, <2>1, LostUnchangedKeeps DEF LostUnchanged
<1>3. ASSUME NEW c \in Contracts, Settle(c) PROVE LostInv'
  <2>1. \A d \in Contracts : journal'[d].status = "none" => journal[d].status = "none"
    <3>1. CASE journal[c].status = "open"
      <4>1. journal'[c].status = "settled" /\ \A d \in Contracts \ {c} : journal'[d] = journal[d]
        BY <1>3, <3>1 DEF Settle, RecordTradeResult, TruthInv, TypeInv, TypeOK, Row
      <4> QED
        BY <4>1
    <3>2. CASE journal[c].status # "open"
      BY <1>3, <3>2 DEF Settle, RecordTradeResult
    <3> QED
      BY <3>1, <3>2
  <2> QED
    BY <1>2, <1>3, <2>1 DEF Settle, taskVars, derivVars, clockVars
<1>4. \A f \in {"refreshes", "faults", "resets"} :
        spent' = [spent EXCEPT ![f] = @ + 1] => UNCHANGED <<spent.timeouts, spent.crashes>>
  BY <1>0 DEF TypeOK, Spent
<1>5. CASE \E c \in Contracts : SettleFails(c)
  BY <1>2, <1>4, <1>5 DEF SettleFails, taskVars, dbVars, derivVars
<1>6. CASE ReadBalance \/ OperatorReset
  BY <1>2, <1>4, <1>6 DEF ReadBalance, OperatorReset, taskVars, dbVars, derivVars
<1>7. CASE RefreshBalance \/ Boot \/ RestoreState \/ CooldownElapses \/ Midnight \/ UNCHANGED vars
  BY <1>2, <1>7 DEF RefreshBalance, Boot, RestoreState, CooldownElapses, Midnight, vars,
                    taskVars, dbVars, derivVars, clockVars
<1> QED
  BY <1>1, <1>3, <1>5, <1>6, <1>7, CrashLoses, DerivLoses DEF Next

(* A contract the bot paid for and does not know of costs a lost answer,   *)
(* for any number of symbols: each timed-out buy leaves at most one, each  *)
(* crash at most one per symbol, also when the order is filled long after. *)
THEOREM OrphansAreBounded == Spec => []OrphansOnlyFromLostAnswers
<1>1. ASSUME Init PROVE LostInv
  <2>1. Lost = {} /\ OnTheWay = {} /\ spent.timeouts = 0 /\ spent.crashes = 0
    BY <1>1 DEF Init, Lost, OnTheWay
  <2> QED
    BY <2>1, FS_EmptySet, FS_CardinalityType, JournalAssumption DEF LostInv
<1>2. TruthInv /\ LostInv /\ [Next]_vars => LostInv'
  BY LostStep
<1>3. ASSUME TruthInv, LostInv PROVE OrphansOnlyFromLostAnswers
  <2> DEFINE unhandled == {c \in Contracts : Unhandled(c)}
  <2>1. unhandled \in SUBSET Lost /\ IsFiniteSet(Lost)
    BY <1>3, SubsetOfContracts DEF Lost, Unhandled, Answered, TruthInv, AnswersMatchDeriv
  <2> HIDE DEF unhandled
  <2>2. IsFiniteSet(unhandled) /\ Cardinality(unhandled) <= Cardinality(Lost)
    BY <2>1, FS_Subset
  <2>3. /\ Cardinality(Lost) \in Nat /\ Cardinality(OnTheWay) \in Nat
        /\ Cardinality(unhandled) \in Nat
    BY <1>3, <2>1, <2>2, FS_CardinalityType DEF LostInv
  <2> QED
    BY <1>3, <2>2, <2>3, PaidType
       DEF LostInv, OrphansOnlyFromLostAnswers, TruthInv, TypeInv, unhandled
<1> QED
  BY <1>1, <1>2, <1>3, TruthInvariant, PTL DEF Spec

-----------------------------------------------------------------------------
(* The daily loss                                                          *)

(* With a limit of zero the bot never trades: it is stopped as soon as it  *)
(* is up, so the journal stays empty and the next start stops it again.    *)
NoLossNoTrade ==
  MaxDailyLoss = 0 =>
    /\ InFlight = {} /\ \A c \in Contracts : journal[c].status = "none"
    /\ mode = "up" => risk.stop # "no"

LossInv == DailyLossIsLatched /\ NoLossNoTrade

(* The methods of the manager that neither count a result nor restore.     *)
LEMMA StopIsKept ==
  ASSUME NEW r \in RiskState
  PROVE  /\ RegisterOpen(r).stop = r.stop /\ RegisterOpen(r).daily_pnl = r.daily_pnl
         /\ \A d \in Nat : /\ RollDay(r, d).stop = r.stop
                           /\ RollDay(r, d).daily_pnl \in {0, r.daily_pnl}
         /\ \A b \in Int : /\ UpdateBalance(r, b).stop = r.stop
                           /\ UpdateBalance(r, b).daily_pnl = r.daily_pnl
         /\ LET cooled == [r EXCEPT !.cooling = FALSE]
            IN  cooled.stop = r.stop /\ cooled.daily_pnl = r.daily_pnl
BY DEF RegisterOpen, RollDay, UpdateBalance, RiskState

LEMMA ResultIsLatched ==
  ASSUME NEW r \in RiskState, NEW pnl \in Int
  PROVE  LET after == RegisterResult(r, pnl)
         IN  /\ after.daily_pnl <= -MaxDailyLoss => after.stop # "no"
             /\ r.stop # "no" => after.stop # "no"
<1> DEFINE counted ==
      [r EXCEPT !.open_trades = IF @ > 0 THEN @ - 1 ELSE 0,
                !.daily_pnl = @ + pnl,
                !.consecutive_losses = IF pnl < 0 THEN @ + 1
                                       ELSE IF pnl > 0 THEN 0 ELSE @]
           updated == UpdateBalance(counted, r.balance + pnl)
<1>1. updated.stop = r.stop
  BY DEF UpdateBalance, RiskState
<1>2. RegisterResult(r, pnl) = LatchLimits(updated)
  BY DEF RegisterResult
<1>3. \A x : LET stopped == [updated EXCEPT !.stop = x]
              IN  stopped.stop = x /\ stopped.daily_pnl = updated.daily_pnl
  BY DEF UpdateBalance, RiskState
<1> HIDE DEF updated
<1> QED
  BY <1>1, <1>2, <1>3 DEF LatchLimits, EmergencyStop

LEMMA StepKeepsLossInv ==
  ASSUME TypeInv, LossInv, [Next]_vars
  PROVE  LossInv'
<1>0. risk \in RiskState /\ day \in Nat /\ 0 \in Int /\ MaxDailyLoss \in Nat
  BY LifecycleAssumption, LimitsAssumption DEF TypeInv, TypeOK
<1>1. ASSUME UNCHANGED <<mode, journal>>, InFlight' \subseteq InFlight,
             risk'.stop = risk.stop, risk'.daily_pnl \in {0, risk.daily_pnl}
      PROVE  LossInv'
  <2>1. CASE risk'.daily_pnl = risk.daily_pnl
    BY <1>1, <2>1 DEF LossInv, DailyLossIsLatched, NoLossNoTrade
  <2>2. CASE risk'.daily_pnl = 0
    <3>1. 0 <= -MaxDailyLoss => MaxDailyLoss = 0
      BY <1>0
    <3> QED
      BY <1>1, <2>2, <3>1 DEF LossInv, DailyLossIsLatched, NoLossNoTrade
  <2> QED
    BY <1>1, <2>1, <2>2
<1>2. CASE QuietStep \/ OperatorReset
  <2>1. UNCHANGED <<mode, journal, risk>> /\ InFlight' \subseteq InFlight
    BY <1>2 DEF QuietStep, CounterVars, OperatorReset, taskVars, InFlight
  <2> QED
    BY <1>1, <2>1
<1>3. CASE CheckStep
  <2>1. /\ mode = "up" /\ UNCHANGED <<mode, journal>> /\ risk'.stop = risk.stop
        /\ risk'.daily_pnl \in {0, risk.daily_pnl}
    BY <1>0, <1>3, StopIsKept DEF CheckStep, dbVars
  <2>2. CASE InFlight' \subseteq InFlight
    BY <1>1, <2>1, <2>2
  <2>3. CASE CanTrade(risk', Stake)
    <3>1. risk'.stop = "no" /\ ~ (risk'.daily_pnl <= -MaxDailyLoss)
      <4>1. risk' \in RiskState
        BY <1>0, <1>3, RollDayType DEF CheckStep
      <4> QED
        BY <1>0, <2>3, <4>1 DEF CanTrade, LossLimitsClear, RiskState
    <3> QED
      BY <2>1, <3>1 DEF LossInv, DailyLossIsLatched, NoLossNoTrade
  <2> QED
    BY <1>3, <2>2, <2>3 DEF CheckStep
<1>4. ASSUME NEW s \in Symbols, NEW c \in Contracts, EntryStepOf(s, c) PROVE LossInv'
  <2>1. MaxDailyLoss # 0
    BY <1>4 DEF EntryStepOf, LossInv, NoLossNoTrade
  <2>2. mode' = mode /\ risk' = RegisterOpen(risk)
    BY <1>4 DEF EntryStepOf, RecordOpen
  <2> QED
    BY <1>0, <2>1, <2>2, StopIsKept DEF LossInv, DailyLossIsLatched, NoLossNoTrade
<1>5. ASSUME NEW c \in Contracts, Settle(c) PROVE LossInv'
  <2>1. CASE journal[c].status = "open"
    <3>1. MaxDailyLoss # 0
      BY <2>1 DEF LossInv, NoLossNoTrade
    <3>2. risk' = RegisterResult(risk, Profit(broker[c].outcome))
          /\ Profit(broker[c].outcome) \in Int
      BY <1>5, <2>1, ProfitType DEF Settle, TypeInv, TypeOK, Deal
    <3> QED
      BY <1>0, <3>1, <3>2, ResultIsLatched DEF LossInv, DailyLossIsLatched, NoLossNoTrade
  <2>2. CASE journal[c].status # "open"
    <3>1. UNCHANGED <<mode, journal, risk, pc>>
      BY <1>5, <2>2 DEF Settle, RecordTradeResult, taskVars
    <3> QED
      BY <3>1 DEF LossInv, DailyLossIsLatched, NoLossNoTrade, InFlight
  <2> QED
    BY <2>1, <2>2
<1>6. CASE BalanceStep
  <2>1. risk'.stop = risk.stop /\ risk'.daily_pnl = risk.daily_pnl
    BY <1>0, <1>6, StopIsKept DEF BalanceStep
  <2> QED
    BY <1>1, <1>6, <2>1 DEF BalanceStep, dbVars
<1>7. CASE OutageStep
  BY <1>7 DEF OutageStep, dbVars, LossInv, DailyLossIsLatched, NoLossNoTrade
<1>8. CASE RestoreState
  <2> DEFINE state == RiskStateSince(journal, settle_order, reset_mark, day)
             open == Cardinality(OpenTrades(journal))
             rolled == RollDay(NewRiskManager(balance_reply[1], day), day)
             restored == [rolled EXCEPT
                            !.daily_pnl = state.daily_pnl,
                            !.trades_today = state.trades_today,
                            !.consecutive_losses = state.consecutive_losses,
                            !.open_trades = open]
  <2>1. /\ risk' = IF restored.daily_pnl <= -MaxDailyLoss
                   THEN EmergencyStop(restored, "daily_loss") ELSE restored
        /\ UNCHANGED <<journal, pc>>
    BY <1>8 DEF RestoreState, Restore, taskVars, dbVars
  <2>2. /\ restored.daily_pnl = state.daily_pnl
        /\ EmergencyStop(restored, "daily_loss").stop = "daily_loss"
        /\ EmergencyStop(restored, "daily_loss").daily_pnl = restored.daily_pnl
    BY DEF RollDay, NewRiskManager, EmergencyStop
  <2> HIDE DEF restored, state
  <2>3. risk'.daily_pnl <= -MaxDailyLoss => risk'.stop # "no"
    BY <2>1, <2>2
  <2>4. ASSUME MaxDailyLoss = 0, \A c \in Contracts : journal[c].status = "none"
        PROVE  restored.daily_pnl <= -MaxDailyLoss
    <3>1. \A o : SettledSince(journal, day, o) = {}
      BY <2>4 DEF SettledSince
    <3>2. state.daily_pnl = WinProfit * 0 - Stake * 0
      BY <3>1, FS_EmptySet DEF state, RiskStateSince, DailyPnl
    <3> QED
      BY <2>2, <2>4, <3>2, JournalAssumption
  <2>5. InFlight' = InFlight
    BY <2>1 DEF InFlight
  <2> QED
    BY <2>1, <2>2, <2>3, <2>4, <2>5 DEF LossInv, DailyLossIsLatched, NoLossNoTrade
<1>9. CASE MidnightStep
  BY <1>9 DEF MidnightStep, dbVars, LossInv, DailyLossIsLatched, NoLossNoTrade, InFlight
<1> QED
  BY <1>2, <1>3, <1>4, <1>5, <1>6, <1>7, <1>8, <1>9, CounterStep

(* max_daily_loss: a total at the limit never leaves a running manager     *)
(* unlatched, for any limit, however it got there: by a settlement, by a   *)
(* restart or by the day that was rolled between the two.                  *)
THEOREM LossIsLatched == Spec => []DailyLossIsLatched
<1>1. ASSUME Init PROVE LossInv
  BY <1>1 DEF Init, LossInv, DailyLossIsLatched, NoLossNoTrade, InFlight, EmptyRow
<1>2. TypeInv /\ LossInv /\ [Next]_vars => LossInv'
  BY StepKeepsLossInv
<1>3. LossInv => DailyLossIsLatched
  BY DEF LossInv
<1> QED
  BY <1>1, <1>2, <1>3, TypeInvariant, PTL DEF Spec

-----------------------------------------------------------------------------
(* The queries of the journal, and what one statement changes of them      *)

(* The streak looks at the results of the settled rows only.               *)
LEMMA StreakSame ==
  ASSUME NEW J, NEW K, NEW q \in Seq(Contracts), NEW mark \in 0..Len(q),
         \A i \in 1..Len(q) : K[q[i]].outcome = J[q[i]].outcome
  PROVE  LosingStreak(K, q, mark) = LosingStreak(J, q, mark)
<1>1. \A i \in (mark + 1)..Len(q) : \A j \in i..Len(q) : j \in 1..Len(q)
  OBVIOUS
<1>2. {i \in (mark + 1)..Len(q) : \A j \in i..Len(q) : K[q[j]].outcome # "won"}
        = {i \in (mark + 1)..Len(q) : \A j \in i..Len(q) : J[q[j]].outcome # "won"}
  BY <1>1
<1> QED
  BY <1>2 DEF LosingStreak

(* One more settlement: a win ends the streak, anything else extends it,   *)
(* which is what register_result of the staking engine counts.             *)
LEMMA StreakGrows ==
  ASSUME NEW J, NEW K, NEW q \in Seq(Contracts), NEW c \in Contracts, NEW mark \in 0..Len(q),
         \A i \in 1..Len(q) : K[q[i]].outcome = J[q[i]].outcome
  PROVE  LosingStreak(K, Append(q, c), mark)
           = LadderAfter(LosingStreak(J, q, mark), K[c].outcome)
<1> DEFINE n == Len(q)
           p == Append(q, c)
           R == {i \in (mark + 1)..n : \A j \in i..n : J[q[j]].outcome # "won"}
           S == {i \in (mark + 1)..(n + 1) : \A j \in i..(n + 1) : K[p[j]].outcome # "won"}
<1>1. /\ n \in Nat /\ Len(p) = n + 1 /\ p[n + 1] = c /\ mark \in 0..n
      /\ \A i \in 1..n : p[i] = q[i]
  OBVIOUS
<1>2. \A i \in (mark + 1)..n : \A j \in i..n : j \in 1..n
  BY <1>1
<1>3. /\ LosingStreak(J, q, mark) = Cardinality(R)
      /\ LosingStreak(K, p, mark) = Cardinality(S)
  BY <1>1 DEF LosingStreak
<1> HIDE DEF n, p
<1>4. CASE K[c].outcome = "won"
  <2>1. \A i \in (mark + 1)..(n + 1) : n + 1 \in i..(n + 1)
    BY <1>1
  <2>2. S = {}
    BY <1>1, <1>4, <2>1
  <2> QED
    BY <1>3, <1>4, <2>2, FS_EmptySet DEF LadderAfter, p
<1>5. CASE K[c].outcome # "won"
  <2>1. \A i \in (mark + 1)..n :
          (\A j \in i..(n + 1) : K[p[j]].outcome # "won")
            <=> (\A j \in i..n : J[q[j]].outcome # "won")
    <3> SUFFICES ASSUME NEW i \in (mark + 1)..n
                 PROVE  (\A j \in i..(n + 1) : K[p[j]].outcome # "won")
                          <=> (\A j \in i..n : J[q[j]].outcome # "won")
      OBVIOUS
    <3>1. \A j \in i..n : j \in i..(n + 1) /\ K[p[j]].outcome = J[q[j]].outcome
      BY <1>1, <1>2 DEF n
    <3>2. \A j \in i..(n + 1) : j \in i..n \/ j = n + 1
      BY <1>1
    <3> QED
      BY <1>1, <1>5, <3>1, <3>2
  <2>2. n + 1 \in S
    <3>1. \A j \in (n + 1)..(n + 1) : j = n + 1
      BY <1>1
    <3>2. n + 1 \in (mark + 1)..(n + 1)
      BY <1>1
    <3> QED
      BY <1>1, <1>5, <3>1, <3>2
  <2>3. (mark + 1)..(n + 1) = ((mark + 1)..n) \cup {n + 1}
    BY <1>1
  <2>4. S = R \cup {n + 1} /\ n + 1 \notin R
    <3>1. n + 1 \notin (mark + 1)..n
      BY <1>1
    <3>2. \A i \in (mark + 1)..n : i \in S <=> i \in R
      <4>1. \A i \in (mark + 1)..n : i \in (mark + 1)..(n + 1)
        BY <2>3
      <4> QED
        BY <2>1, <4>1
    <3>3. S \subseteq ((mark + 1)..n) \cup {n + 1} /\ R \subseteq (mark + 1)..n
      BY <2>3
    <3> HIDE DEF R, S
    <3> QED
      BY <2>2, <3>1, <3>2, <3>3
  <2>5. IsFiniteSet(R)
    <3>1. mark + 1 \in Int /\ n \in Int /\ R \in SUBSET ((mark + 1)..n)
      BY <1>1
    <3>2. IsFiniteSet((mark + 1)..n)
      BY <3>1, FS_Interval
    <3> HIDE DEF R
    <3> QED
      BY <3>1, <3>2, FS_Subset
  <2> HIDE DEF R, S
  <2>6. Cardinality(S) = Cardinality(R) + 1
    BY <2>4, <2>5, FS_AddElement
  <2> QED
    BY <1>3, <1>5, <2>6 DEF LadderAfter, p
<1> QED
  BY <1>4, <1>5

LEMMA StreakType ==
  ASSUME NEW J, NEW q \in Seq(Contracts), NEW mark \in 0..Len(q)
  PROVE  LosingStreak(J, q, mark) \in Nat
<1> DEFINE I == (mark + 1)..Len(q)
           R == {i \in I : \A j \in i..Len(q) : J[q[j]].outcome # "won"}
<1>1. IsFiniteSet(I)
  BY FS_Interval
<1>2. IsFiniteSet(R)
  BY <1>1, FS_Subset
<1>3. Cardinality(R) \in Nat
  BY <1>2, FS_CardinalityType
<1> QED
  BY <1>3 DEF LosingStreak

(* A row that is entered counts for its day, and for nothing that is booked.*)
LEMMA EntryQueries ==
  ASSUME NEW J \in [Contracts -> Row], NEW c \in Contracts, NEW s \in Symbols,
         NEW today \in Nat, NEW since \in Nat, J[c].status # "settled"
  PROVE  LET K == RecordTradeOpen(J, c, s, today)
         IN  /\ OpenedSince(K, since) \subseteq OpenedSince(J, since) \cup {c}
             /\ J[c].status = "none" /\ since <= today =>
                  Cardinality(OpenedSince(K, since)) = Cardinality(OpenedSince(J, since)) + 1
             /\ J[c].status = "none" =>
                  Cardinality(OpenTrades(K)) = Cardinality(OpenTrades(J)) + 1
             /\ DailyPnl(K, since) = DailyPnl(J, since)
<1> DEFINE K == RecordTradeOpen(J, c, s, today)
<1>1. /\ K[c].status = "open" /\ K[c].opened = today
      /\ \A d \in Contracts \ {c} : K[d] = J[d]
  BY DEF RecordTradeOpen
<1> HIDE DEF K
<1>2. OpenedSince(K, since) \subseteq OpenedSince(J, since) \cup {c}
  BY <1>1 DEF OpenedSince, KnownContractIds
<1>3. ASSUME J[c].status = "none", since <= today
      PROVE  Cardinality(OpenedSince(K, since)) = Cardinality(OpenedSince(J, since)) + 1
  <2>1. OpenedSince(K, since) = OpenedSince(J, since) \cup {c} /\ c \notin OpenedSince(J, since)
    BY <1>1, <1>3 DEF OpenedSince, KnownContractIds
  <2>2. IsFiniteSet(OpenedSince(J, since))
    BY SubsetOfContracts DEF OpenedSince, KnownContractIds
  <2> QED
    BY <2>1, <2>2, FS_AddElement
<1>4. ASSUME J[c].status = "none"
      PROVE  Cardinality(OpenTrades(K)) = Cardinality(OpenTrades(J)) + 1
  <2>1. OpenTrades(K) = OpenTrades(J) \cup {c} /\ c \notin OpenTrades(J)
    BY <1>1, <1>4 DEF OpenTrades
  <2>2. IsFiniteSet(OpenTrades(J))
    BY SubsetOfContracts DEF OpenTrades
  <2> QED
    BY <2>1, <2>2, FS_AddElement
<1>5. DailyPnl(K, since) = DailyPnl(J, since)
  <2>1. \A o : SettledSince(K, since, o) = SettledSince(J, since, o)
    BY <1>1 DEF SettledSince
  <2> QED
    BY <2>1 DEF DailyPnl
<1> QED
  BY <1>2, <1>3, <1>4, <1>5 DEF K

(* A row that is settled leaves the open ones and adds its profit.         *)
LEMMA SettleQueries ==
  ASSUME NEW J \in [Contracts -> Row], NEW c \in Contracts, NEW o \in Outcomes,
         NEW today \in Nat, NEW since \in Nat, J[c].status = "open"
  PROVE  LET K == RecordTradeResult(J, c, o, today)
         IN  /\ OpenedSince(K, since) = OpenedSince(J, since)
             /\ Cardinality(OpenTrades(J)) \in Nat \ {0}
             /\ Cardinality(OpenTrades(K)) = Cardinality(OpenTrades(J)) - 1
             /\ since <= today => DailyPnl(K, since) = DailyPnl(J, since) + Profit(o)
<1> DEFINE K == RecordTradeResult(J, c, o, today)
<1>1. /\ K[c].status = "settled" /\ K[c].settled = today /\ K[c].outcome = o
      /\ K[c].opened = J[c].opened /\ \A d \in Contracts \ {c} : K[d] = J[d]
  BY DEF RecordTradeResult, Row
<1> HIDE DEF K
<1>2. OpenedSince(K, since) = OpenedSince(J, since)
  BY <1>1 DEF OpenedSince, KnownContractIds
<1>3. /\ Cardinality(OpenTrades(J)) \in Nat \ {0}
      /\ Cardinality(OpenTrades(K)) = Cardinality(OpenTrades(J)) - 1
  <2>1. OpenTrades(K) = OpenTrades(J) \ {c} /\ c \in OpenTrades(J)
    BY <1>1 DEF OpenTrades
  <2>2. IsFiniteSet(OpenTrades(J)) /\ IsFiniteSet(OpenTrades(K))
        /\ Cardinality(OpenTrades(J)) \in Nat /\ Cardinality(OpenTrades(K)) \in Nat
    BY SubsetOfContracts DEF OpenTrades
  <2>3. Cardinality(OpenTrades(K)) = Cardinality(OpenTrades(J)) - 1
    BY <2>1, <2>2, FS_RemoveElement
  <2> QED
    BY <2>2, <2>3
<1>4. ASSUME since <= today PROVE DailyPnl(K, since) = DailyPnl(J, since) + Profit(o)
  <2>1. /\ SettledSince(K, since, o) = SettledSince(J, since, o) \cup {c}
        /\ c \notin SettledSince(J, since, o)
    BY <1>1, <1>4 DEF SettledSince
  <2>2. \A p : p # o => SettledSince(K, since, p) = SettledSince(J, since, p)
    BY <1>1 DEF SettledSince
  <2>3. \A p : /\ IsFiniteSet(SettledSince(J, since, p))
               /\ Cardinality(SettledSince(J, since, p)) \in Nat
    BY SubsetOfContracts DEF SettledSince
  <2>4. Cardinality(SettledSince(K, since, o)) = Cardinality(SettledSince(J, since, o)) + 1
    BY <2>1, <2>3, FS_AddElement
  <2> DEFINE won == Cardinality(SettledSince(J, since, "won"))
             lost == Cardinality(SettledSince(J, since, "lost"))
  <2>5. won \in Nat /\ lost \in Nat /\ WinProfit \in Nat /\ Stake \in Nat
    BY <2>3, JournalAssumption
  <2>6. DailyPnl(J, since) = WinProfit * won - Stake * lost
    BY DEF DailyPnl
  <2> HIDE DEF won, lost
  <2>7. CASE o = "won"
    <3>1. DailyPnl(K, since) = WinProfit * (won + 1) - Stake * lost
      BY <2>2, <2>4, <2>7 DEF DailyPnl, won, lost
    <3>2. WinProfit * (won + 1) = WinProfit * won + WinProfit
      BY <2>5
    <3>3. WinProfit * won \in Int /\ Stake * lost \in Int
      BY <2>5
    <3> QED
      BY <2>5, <2>6, <2>7, <3>1, <3>2, <3>3 DEF Profit
  <2>8. CASE o = "lost"
    <3>1. DailyPnl(K, since) = WinProfit * won - Stake * (lost + 1)
      BY <2>2, <2>4, <2>8 DEF DailyPnl, won, lost
    <3>2. Stake * (lost + 1) = Stake * lost + Stake
      BY <2>5
    <3>3. WinProfit * won \in Int /\ Stake * lost \in Int
      BY <2>5
    <3> QED
      BY <2>5, <2>6, <2>8, <3>1, <3>2, <3>3 DEF Profit
  <2>9. CASE o = "refund"
    <3>1. DailyPnl(K, since) = WinProfit * won - Stake * lost
      BY <2>2, <2>9 DEF DailyPnl, won, lost
    <3>2. WinProfit * won \in Int /\ Stake * lost \in Int
      BY <2>5
    <3> QED
      BY <2>6, <2>9, <3>1, <3>2 DEF Profit
  <2> QED
    BY <2>7, <2>8, <2>9 DEF Outcomes
<1> QED
  BY <1>2, <1>3, <1>4 DEF K

-----------------------------------------------------------------------------
(* The methods of the risk manager                                         *)

LEMMA ResultCounts ==
  ASSUME NEW r \in RiskState, NEW pnl \in Int
  PROVE  LET after == RegisterResult(r, pnl)
         IN  /\ after.daily_pnl = r.daily_pnl + pnl
             /\ after.day = r.day /\ after.trades_today = r.trades_today
             /\ after.open_trades = IF r.open_trades > 0 THEN r.open_trades - 1 ELSE 0
             /\ after.consecutive_losses =
                  IF pnl < 0 THEN r.consecutive_losses + 1
                  ELSE IF pnl > 0 THEN 0 ELSE r.consecutive_losses
<1> DEFINE counted ==
      [r EXCEPT !.open_trades = IF @ > 0 THEN @ - 1 ELSE 0,
                !.daily_pnl = @ + pnl,
                !.consecutive_losses = IF pnl < 0 THEN @ + 1
                                       ELSE IF pnl > 0 THEN 0 ELSE @]
           updated == UpdateBalance(counted, r.balance + pnl)
<1>1. /\ updated.daily_pnl = r.daily_pnl + pnl
      /\ updated.day = r.day /\ updated.trades_today = r.trades_today
      /\ updated.open_trades = IF r.open_trades > 0 THEN r.open_trades - 1 ELSE 0
      /\ updated.consecutive_losses =
           IF pnl < 0 THEN r.consecutive_losses + 1
           ELSE IF pnl > 0 THEN 0 ELSE r.consecutive_losses
  BY DEF UpdateBalance, RiskState
<1>2. RegisterResult(r, pnl) = LatchLimits(updated)
  BY DEF RegisterResult
<1>3. \A x : LET stopped == [updated EXCEPT !.stop = x]
             IN  /\ stopped.daily_pnl = updated.daily_pnl /\ stopped.day = updated.day
                 /\ stopped.trades_today = updated.trades_today
                 /\ stopped.open_trades = updated.open_trades
                 /\ stopped.consecutive_losses = updated.consecutive_losses
  BY DEF UpdateBalance, RiskState
<1> HIDE DEF updated
<1> QED
  BY <1>1, <1>2, <1>3 DEF LatchLimits, EmergencyStop

(* What counts nothing: rolling the day, a balance, the end of a cooldown. *)
LEMMA OtherCounts ==
  ASSUME NEW r \in RiskState
  PROVE  /\ \A d \in Nat :
              LET after == RollDay(r, d)
              IN  /\ after.day = d
                  /\ r.day = d => after = r
                  /\ r.day # d => after.trades_today = 0 /\ after.daily_pnl = 0
                  /\ after.consecutive_losses = r.consecutive_losses
                  /\ after.open_trades = r.open_trades
         /\ \A b \in Int :
              LET after == UpdateBalance(r, b)
              IN  /\ after.day = r.day /\ after.trades_today = r.trades_today
                  /\ after.daily_pnl = r.daily_pnl /\ after.open_trades = r.open_trades
                  /\ after.consecutive_losses = r.consecutive_losses
         /\ LET after == [r EXCEPT !.cooling = FALSE]
            IN  /\ after.day = r.day /\ after.trades_today = r.trades_today
                /\ after.daily_pnl = r.daily_pnl /\ after.open_trades = r.open_trades
                /\ after.consecutive_losses = r.consecutive_losses
         /\ LET after == RegisterOpen(r)
            IN  /\ after.day = r.day /\ after.trades_today = r.trades_today + 1
                /\ after.daily_pnl = r.daily_pnl /\ after.open_trades = r.open_trades + 1
                /\ after.consecutive_losses = r.consecutive_losses
BY DEF RollDay, UpdateBalance, RegisterOpen, RiskState

(* restore_state takes every counter from the journal.                     *)
LEMMA RestoreCounts ==
  ASSUME NEW b, NEW today, NEW n, NEW pnl, NEW trades, NEW losses
  PROVE  LET after == Restore(NewRiskManager(b, today),
                              [daily_pnl |-> pnl, trades_today |-> trades,
                               consecutive_losses |-> losses], n, today)
         IN  /\ after.daily_pnl = pnl /\ after.trades_today = trades
             /\ after.consecutive_losses = losses /\ after.open_trades = n
             /\ after.day = today
BY DEF Restore, NewRiskManager, RollDay, EmergencyStop

-----------------------------------------------------------------------------
(* The ladder                                                              *)

LEMMA LadderStep ==
  ASSUME TruthInv, LadderIsTheJournals, [Next]_vars
  PROVE  LadderIsTheJournals'
<1>0. /\ settle_order \in Seq(Contracts) /\ reset_mark \in 0..Len(settle_order)
      /\ risk \in RiskState /\ day \in Nat /\ ladder \in Nat /\ journal \in [Contracts -> Row]
      /\ \A i \in 1..Len(settle_order) : settle_order[i] \in Contracts
      /\ 0..reset_mark \subseteq 0..Len(settle_order)
  BY LifecycleAssumption DEF TruthInv, TypeInv, TypeOK
<1>1. ASSUME UNCHANGED <<mode, ladder, dbVars>>,
             risk'.consecutive_losses = risk.consecutive_losses
      PROVE  LadderIsTheJournals'
  BY <1>1 DEF LadderIsTheJournals, dbVars
<1>2. CASE QuietStep
  BY <1>1, <1>2 DEF QuietStep, CounterVars, dbVars
<1>3. CASE CheckStep \/ BalanceStep
  <2>1. UNCHANGED <<mode, ladder, dbVars>>
    BY <1>3 DEF CheckStep, BalanceStep
  <2>2. \/ risk' = RollDay(risk, day)
        \/ \E b \in Int : risk' = UpdateBalance(risk, b)
        \/ risk' = [risk EXCEPT !.cooling = FALSE]
    BY <1>3 DEF CheckStep, BalanceStep
  <2>3. CASE risk' = RollDay(risk, day)
    BY <1>0, <1>1, <2>1, <2>3, OtherCounts
  <2>4. ASSUME NEW b \in Int, risk' = UpdateBalance(risk, b) PROVE LadderIsTheJournals'
    BY <1>0, <1>1, <2>1, <2>4, OtherCounts
  <2>5. CASE risk' = [risk EXCEPT !.cooling = FALSE]
    BY <1>0, <1>1, <2>1, <2>5, OtherCounts
  <2> QED
    BY <2>2, <2>3, <2>4, <2>5
<1>4. CASE OutageStep
  BY <1>4 DEF OutageStep, LadderIsTheJournals
<1>5. CASE MidnightStep
  BY <1>1, <1>5 DEF MidnightStep
<1>6. ASSUME NEW s \in Symbols, NEW c \in Contracts, EntryStepOf(s, c)
      PROVE  LadderIsTheJournals'
  <2>1. /\ mode' = mode /\ mode = "up"
        /\ UNCHANGED <<ladder, settle_order, reset_mark>> /\ risk' = RegisterOpen(risk)
    BY <1>6 DEF EntryStepOf, RecordOpen
  <2>2. \A d \in Contracts \ {c} : journal'[d] = journal[d]
    BY <1>0, <1>6 DEF EntryStepOf, RecordOpen, RecordTradeOpen
  <2>3. \A i \in 1..Len(settle_order) : settle_order[i] # c
    BY <1>6, EntryIsReal DEF TruthInv, BookedInOrder
  <2>4. \A i \in 1..Len(settle_order) :
          journal'[settle_order[i]].outcome = journal[settle_order[i]].outcome
    BY <1>0, <2>2, <2>3
  <2>5. \A mark \in 0..Len(settle_order) :
          LosingStreak(journal', settle_order, mark) = LosingStreak(journal, settle_order, mark)
    BY <1>0, <2>4, StreakSame
  <2>6. risk'.consecutive_losses = risk.consecutive_losses
    BY <1>0, <2>1, OtherCounts
  <2> QED
    BY <1>0, <2>1, <2>5, <2>6 DEF LadderIsTheJournals
<1>7. ASSUME NEW c \in Contracts, Settle(c) PROVE LadderIsTheJournals'
  <2>1. CASE journal[c].status # "open"
    BY <1>1, <1>7, <2>1 DEF Settle, RecordTradeResult, dbVars
  <2>2. CASE journal[c].status = "open"
    <3>1. /\ mode' = mode /\ mode = "up" /\ reset_mark' = reset_mark
          /\ settle_order' = Append(settle_order, c)
          /\ risk' = RegisterResult(risk, Profit(broker[c].outcome))
          /\ ladder' = LadderAfter(ladder, broker[c].outcome)
      BY <1>7, <2>2 DEF Settle
    <3>2. /\ journal'[c].outcome = broker[c].outcome
          /\ \A d \in Contracts \ {c} : journal'[d] = journal[d]
      BY <1>0, <1>7, <2>2 DEF Settle, RecordTradeResult, Row
    <3>3. \A i \in 1..Len(settle_order) : settle_order[i] # c
      BY <2>2 DEF TruthInv, BookedInOrder
    <3>4. \A i \in 1..Len(settle_order) :
            journal'[settle_order[i]].outcome = journal[settle_order[i]].outcome
      BY <1>0, <3>2, <3>3
    <3>5. ASSUME NEW mark \in 0..Len(settle_order)
          PROVE  LosingStreak(journal', settle_order', mark)
                   = LadderAfter(LosingStreak(journal, settle_order, mark), broker[c].outcome)
      <4>1. LosingStreak(journal', Append(settle_order, c), mark)
              = LadderAfter(LosingStreak(journal, settle_order, mark), journal'[c].outcome)
        BY <1>0, <3>4, StreakGrows
      <4> QED
        BY <3>1, <3>2, <4>1
    <3>6. risk'.consecutive_losses <= ladder'
      <4>1. broker[c].outcome \in Outcomes
        BY DEF TruthInv, TypeInv, TypeOK, Deal
      <4>2. Profit(broker[c].outcome) \in Int
        BY <4>1, ProfitType
      <4>3. risk'.consecutive_losses =
              IF Profit(broker[c].outcome) < 0 THEN risk.consecutive_losses + 1
              ELSE IF Profit(broker[c].outcome) > 0 THEN 0 ELSE risk.consecutive_losses
        BY <1>0, <3>1, <4>2, ResultCounts
      <4>4. risk.consecutive_losses \in Nat /\ risk.consecutive_losses <= ladder
        BY <1>0, <3>1 DEF LadderIsTheJournals, RiskState
      <4>5. broker[c].outcome = "won" <=> Profit(broker[c].outcome) > 0
        <5>1. WinProfit > 0 /\ ~ (-Stake > 0) /\ ~ (0 > 0)
          BY JournalAssumption
        <5> QED
          BY <4>1, <5>1 DEF Profit, Outcomes
      <4> QED
        BY <1>0, <3>1, <4>2, <4>3, <4>4, <4>5 DEF LadderAfter
    <3> QED
      BY <1>0, <3>1, <3>5, <3>6 DEF LadderIsTheJournals
  <2> QED
    BY <2>1, <2>2
<1>8. CASE RestoreState
  <2>1. /\ UNCHANGED dbVars /\ ladder' = LosingStreak(journal, settle_order, reset_mark)
        /\ risk'.consecutive_losses = ladder'
    BY <1>8, RestoreCounts DEF RestoreState, RiskStateSince
  <2>2. ladder' \in Nat
    BY <1>0, <2>1, StreakType
  <2> QED
    BY <1>0, <2>1, <2>2 DEF LadderIsTheJournals, dbVars
<1>9. CASE OperatorReset
  <2>1. /\ UNCHANGED <<mode, ladder, risk, journal, settle_order>>
        /\ reset_mark' = Len(settle_order)
    BY <1>9 DEF OperatorReset
  <2>2. 0..reset_mark \subseteq 0..reset_mark'
    BY <1>0, <2>1
  <2> QED
    BY <2>1, <2>2 DEF LadderIsTheJournals
<1> QED
  BY <1>2, <1>3, <1>4, <1>5, <1>6, <1>7, <1>8, <1>9, CounterStep DEF TruthInv

(* The losses a martingale stake is sized from are the journal's: all of   *)
(* them settlements since some operator reset, none of them a win, through *)
(* every crash and every statement that raises; and the limit on losing    *)
(* streaks never counts more than the ladder.                              *)
THEOREM LadderIsBacked == Spec => []LadderIsTheJournals
<1>1. Init => LadderIsTheJournals
  BY DEF Init, LadderIsTheJournals
<1>2. TruthInv /\ LadderIsTheJournals /\ [Next]_vars => LadderIsTheJournals'
  BY LadderStep
<1> QED
  BY <1>1, <1>2, TruthInvariant, PTL DEF Spec

-----------------------------------------------------------------------------
(* contract_id is UNIQUE: a contract is entered once, whatever the search  *)
(* for a lost buy finds.                                                   *)

LEMMA RowIsNew ==
  ASSUME NEW s \in Symbols, NEW c \in Contracts, EntryStepOf(s, c)
  PROVE  journal[c].status = "none"
BY DEF EntryStepOf, RecordOpen

-----------------------------------------------------------------------------
(* The trades of a day                                                     *)

LEMMA RolledTrades ==
  ASSUME NEW r \in RiskState, NEW d \in Nat
  PROVE  RollDay(r, d).trades_today = IF r.day = d THEN r.trades_today ELSE 0
BY DEF RollDay, RiskState

OpenedToday == Cardinality(OpenedSince(journal, day))

(* The day of the manager never lies ahead of the clock, which is why a    *)
(* manager that has yet to roll its day counts nothing for the new one.    *)
CountedInv ==
  mode = "up" => risk.day <= day /\ RollDay(risk, day).trades_today <= OpenedToday

(* A check, a balance or the end of a cooldown leaves what the next check  *)
(* would see of the day.                                                   *)
LEMMA ManagerMoves ==
  ASSUME TypeOK, CheckStep \/ BalanceStep
  PROVE  /\ risk' \in RiskState
         /\ risk'.day \in {risk.day, day}
         /\ RollDay(risk', day).trades_today = RollDay(risk, day).trades_today
<1>0. risk \in RiskState /\ day \in Nat
  BY LifecycleAssumption DEF TypeOK
<1>1. CASE risk' = RollDay(risk, day)
  BY <1>0, <1>1, OtherCounts, RollDayType
<1>2. ASSUME risk' \in RiskState, risk'.day = risk.day,
             risk'.trades_today = risk.trades_today
      PROVE  /\ risk'.day \in {risk.day, day}
             /\ RollDay(risk', day).trades_today = RollDay(risk, day).trades_today
  BY <1>0, <1>2, RolledTrades
<1>3. ASSUME NEW b \in Int, risk' = UpdateBalance(risk, b)
      PROVE  /\ risk' \in RiskState /\ risk'.day = risk.day
             /\ risk'.trades_today = risk.trades_today
  BY <1>0, <1>3, OtherCounts, UpdateBalanceType
<1>4. ASSUME risk' = [risk EXCEPT !.cooling = FALSE]
      PROVE  /\ risk' \in RiskState /\ risk'.day = risk.day
             /\ risk'.trades_today = risk.trades_today
  <2>1. risk' \in RiskState
    BY <1>0, <1>4, Zenon DEF RiskState
  <2> QED
    BY <1>0, <1>4, <2>1, OtherCounts
<1> QED
  BY <1>1, <1>2, <1>3, <1>4 DEF CheckStep, BalanceStep

LEMMA CountedStep ==
  ASSUME TruthInv, CountedInv, [Next]_vars
  PROVE  CountedInv'
<1>0. /\ risk \in RiskState /\ day \in Nat /\ journal \in [Contracts -> Row]
      /\ TypeInv /\ TypeOK /\ OpenedToday \in Nat
  <2>1. OpenedToday \in Nat
    BY SubsetOfContracts DEF OpenedToday, OpenedSince, KnownContractIds
  <2> QED
    BY <2>1, LifecycleAssumption DEF TruthInv, TypeInv, TypeOK
<1>1. CASE QuietStep
  BY <1>1 DEF QuietStep, CounterVars, CountedInv, OpenedToday
<1>2. CASE CheckStep \/ BalanceStep
  <2>1. UNCHANGED <<mode, journal, day>> /\ mode = "up"
    BY <1>2 DEF CheckStep, BalanceStep, dbVars
  <2>2. risk'.day \in {risk.day, day}
        /\ RollDay(risk', day).trades_today = RollDay(risk, day).trades_today
    BY <1>0, <1>2, ManagerMoves
  <2> QED
    BY <1>0, <2>1, <2>2 DEF CountedInv, OpenedToday
<1>3. CASE OutageStep
  BY <1>3 DEF OutageStep, CountedInv
<1>4. CASE MidnightStep
  <2>1. day' = day + 1 /\ UNCHANGED <<mode, risk, journal>>
    BY <1>4 DEF MidnightStep, dbVars
  <2>2. OpenedToday' \in Nat
    BY SubsetOfContracts DEF OpenedToday, OpenedSince, KnownContractIds
  <2>3. ASSUME mode = "up" PROVE risk.day <= day + 1 /\ risk.day # day + 1
    BY <1>0, <2>3 DEF CountedInv, RiskState
  <2>4. risk.day # day + 1 => RollDay(risk, day + 1).trades_today = 0
    BY <1>0, RolledTrades
  <2> QED
    BY <2>1, <2>2, <2>3, <2>4 DEF CountedInv
<1>5. ASSUME NEW s \in Symbols, NEW c \in Contracts, EntryStepOf(s, c) PROVE CountedInv'
  <2>1. /\ UNCHANGED <<mode, day>> /\ mode = "up" /\ risk' = RegisterOpen(risk)
        /\ journal' = RecordTradeOpen(journal, c, s, day)
    BY <1>5 DEF EntryStepOf, RecordOpen, clockVars
  <2>2. OpenedToday' = OpenedToday + 1
    BY <1>0, <1>5, <2>1, RowIsNew, EntryQueries DEF OpenedToday
  <2>3. risk' \in RiskState /\ risk'.day = risk.day
        /\ risk'.trades_today = risk.trades_today + 1
    BY <1>0, <2>1, OtherCounts, RegisterOpenType
  <2>4. /\ RollDay(risk', day).trades_today
             = IF risk.day = day THEN risk.trades_today + 1 ELSE 0
        /\ RollDay(risk, day).trades_today = IF risk.day = day THEN risk.trades_today ELSE 0
    BY <1>0, <2>3, RolledTrades
  <2>5. risk.trades_today \in Nat
    BY <1>0 DEF RiskState
  <2> QED
    BY <1>0, <2>1, <2>2, <2>3, <2>4, <2>5 DEF CountedInv
<1>6. ASSUME NEW c \in Contracts, Settle(c) PROVE CountedInv'
  <2>1. CASE journal[c].status = "open"
    <3>1. /\ UNCHANGED <<mode, day>> /\ mode = "up"
          /\ risk' = RegisterResult(risk, Profit(broker[c].outcome))
          /\ journal' = RecordTradeResult(journal, c, broker[c].outcome, day)
      BY <1>6, <2>1 DEF Settle, clockVars
    <3>2. broker[c].outcome \in Outcomes /\ Profit(broker[c].outcome) \in Int
      BY <1>0, ProfitType DEF TypeOK, Deal
    <3>3. OpenedToday' = OpenedToday
      BY <1>0, <2>1, <3>1, <3>2, SettleQueries DEF OpenedToday
    <3>4. risk' \in RiskState /\ risk'.day = risk.day /\ risk'.trades_today = risk.trades_today
      BY <1>0, <3>1, <3>2, ResultCounts, RegisterResultType
    <3> QED
      BY <1>0, <3>1, <3>3, <3>4, RolledTrades DEF CountedInv
  <2>2. CASE journal[c].status # "open"
    BY <1>6, <2>2 DEF Settle, RecordTradeResult, clockVars, CountedInv, OpenedToday
  <2> QED
    BY <2>1, <2>2
<1>7. CASE RestoreState
  <2>1. risk'.trades_today = OpenedToday /\ risk'.day = day /\ UNCHANGED <<journal, day>>
    BY <1>7, RestoreCounts DEF RestoreState, RiskStateSince, OpenedToday, dbVars
  <2>2. OpenedToday' = OpenedToday /\ risk' \in RiskState
    <3>1. TypeOK'
      BY <1>0, TypeStep
    <3> QED
      BY <2>1, <3>1 DEF OpenedToday, TypeOK
  <2> QED
    BY <1>0, <2>1, <2>2, RolledTrades DEF CountedInv
<1>8. CASE OperatorReset
  BY <1>8 DEF OperatorReset, CountedInv, OpenedToday
<1> QED
  BY <1>0, <1>1, <1>2, <1>3, <1>4, <1>5, <1>6, <1>7, <1>8, CounterStep

(* The daily count never blocks a trade the journal does not justify: over *)
(* any number of days, restarts, symbols, lost answers and statements that *)
(* raise, the next check counts no more trades than were opened.           *)
THEOREM NoTradeIsOvercounted == Spec => []TradesNeverOvercounted
<1>1. Init => CountedInv
  BY DEF Init, CountedInv
<1>2. TruthInv /\ CountedInv /\ [Next]_vars => CountedInv'
  BY CountedStep
<1>3. CountedInv => TradesNeverOvercounted
  BY DEF CountedInv, TradesNeverOvercounted, OpenedToday
<1> QED
  BY <1>1, <1>2, <1>3, TruthInvariant, PTL DEF Spec

-----------------------------------------------------------------------------
(* The limit on trades per day                                             *)

CountBound == MaxTradesPerDay + Cardinality(Symbols)

(* What a restart would count stays below the bound as well: on one day it *)
(* is no more than the manager counts, and without a restart there is      *)
(* nothing to count before the first start.                                *)
OvershootInv ==
  /\ TradeCountOvershoot
  /\ mode # "up" => InFlight = {}
  /\ MaxDay = 1 =>
       /\ risk.day = 1
       /\ mode = "up" => OpenedToday <= risk.trades_today
       /\ mode # "up" => OpenedToday < CountBound
  /\ MaxCrashes = 0 /\ mode # "up" => \A c \in Contracts : journal[c].status = "none"

LEMMA InFlightSize ==
  ASSUME TRUE
  PROVE  /\ IsFiniteSet(InFlight) /\ Cardinality(InFlight) \in Nat
         /\ Cardinality(InFlight) <= Cardinality(Symbols) /\ Cardinality(Symbols) \in Nat
<1>1. IsFiniteSet(Symbols) /\ InFlight \in SUBSET Symbols
  BY JournalAssumption DEF InFlight
<1> QED
  BY <1>1, FS_Subset, FS_CardinalityType

LEMMA OvershootStep ==
  ASSUME TruthInv, OvershootInv, MaxDay = 1 \/ MaxCrashes = 0, Symbols # {}, [Next]_vars
  PROVE  OvershootInv'
<1>0. /\ risk \in RiskState /\ day \in 1..MaxDay /\ day \in Nat
      /\ journal \in [Contracts -> Row] /\ TypeInv /\ TypeOK
      /\ risk.trades_today \in Nat /\ MaxTradesPerDay \in Nat
  <2>1. TypeInv /\ TypeOK /\ MaxTradesPerDay \in Nat /\ MaxDay \in Nat
    BY LifecycleAssumption, LimitsAssumption DEF TruthInv, TypeInv
  <2>2. risk \in RiskState /\ day \in 1..MaxDay /\ journal \in [Contracts -> Row]
    BY <2>1 DEF TypeOK
  <2>3. day \in Nat
    BY <2>1, <2>2
  <2>4. risk.trades_today \in Nat
    BY <2>2 DEF RiskState
  <2> QED
    BY <2>1, <2>2, <2>3, <2>4
<1>1. TypeOK'
  BY <1>0, TypeStep
<1>2. OpenedToday \in Nat /\ OpenedToday' \in Nat
  BY SubsetOfContracts DEF OpenedToday, OpenedSince, KnownContractIds
<1>3. /\ Cardinality(Symbols) \in Nat \ {0}
      /\ Cardinality(InFlight) \in Nat /\ Cardinality(InFlight) <= Cardinality(Symbols)
      /\ Cardinality(InFlight') \in Nat /\ Cardinality(InFlight') <= Cardinality(Symbols)
  <2>1. /\ Cardinality(InFlight') \in Nat /\ Cardinality(InFlight') <= Cardinality(Symbols)
    <3>1. IsFiniteSet(Symbols) /\ InFlight' \in SUBSET Symbols
      BY JournalAssumption DEF InFlight
    <3> QED
      BY <3>1, FS_Subset, FS_CardinalityType
  <2>2. Cardinality(Symbols) # 0
    BY JournalAssumption, FS_EmptySet
  <2> QED
    BY <2>1, <2>2, InFlightSize
<1>4. TradeCountOvershoot
        <=> (mode = "up" => risk.trades_today + Cardinality(InFlight) < CountBound)
  BY DEF TradeCountOvershoot, InFlight, CountBound
<1>5. TradeCountOvershoot'
        <=> (mode' = "up" => risk'.trades_today + Cardinality(InFlight') < CountBound)
  BY DEF TradeCountOvershoot, InFlight, CountBound
<1>6. InFlight' \subseteq InFlight => Cardinality(InFlight') <= Cardinality(InFlight)
  BY InFlightSize, FS_Subset
<1>7. CountBound \in Nat /\ CountBound >= MaxTradesPerDay + 1
  BY <1>0, <1>3 DEF CountBound
<1>8. ASSUME UNCHANGED <<mode, day, journal>>, mode = "up", InFlight' \subseteq InFlight,
             risk'.day = risk.day, risk'.trades_today = risk.trades_today
      PROVE  OvershootInv'
  <2>1. TradeCountOvershoot'
    BY <1>0, <1>3, <1>4, <1>5, <1>6, <1>7, <1>8 DEF OvershootInv
  <2> QED
    BY <1>8, <2>1 DEF OvershootInv, OpenedToday
<1>9. CASE QuietStep
  <2>1. CASE mode = "up"
    BY <1>8, <1>9, <2>1 DEF QuietStep, CounterVars
  <2>2. CASE mode # "up"
    BY <1>5, <1>9, <2>2 DEF QuietStep, CounterVars, OvershootInv, OpenedToday
  <2> QED
    BY <2>1, <2>2
<1>10. CASE CheckStep
  <2>1. /\ UNCHANGED <<mode, day, journal>> /\ mode = "up" /\ risk' = RollDay(risk, day)
    BY <1>10 DEF CheckStep, dbVars
  <2>2. /\ risk.day = day => risk' = risk
        /\ risk'.day = day /\ risk'.trades_today \in {0, risk.trades_today}
    BY <1>0, <2>1, OtherCounts
  <2>3. MaxDay = 1 => day = 1
    BY <1>0
  <2>4. CASE InFlight' \subseteq InFlight
    <3>1. TradeCountOvershoot'
      BY <1>0, <1>3, <1>4, <1>5, <1>6, <1>7, <2>1, <2>2, <2>4 DEF OvershootInv
    <3> QED
      BY <2>1, <2>2, <2>3, <3>1 DEF OvershootInv, OpenedToday
  <2>5. CASE CanTrade(risk', Stake)
    <3>1. risk'.trades_today < MaxTradesPerDay
      BY <2>5 DEF CanTrade, CountLimitsClear
    <3>2. risk'.trades_today \in Nat
      BY <1>0, <2>2
    <3>3. TradeCountOvershoot'
      BY <1>0, <1>3, <1>5, <3>1, <3>2 DEF CountBound
    <3> QED
      BY <2>1, <2>2, <2>3, <3>3 DEF OvershootInv, OpenedToday
  <2> QED
    BY <1>10, <2>4, <2>5 DEF CheckStep
<1>11. CASE BalanceStep
  <2>1. UNCHANGED <<mode, day, journal>> /\ mode = "up" /\ InFlight' \subseteq InFlight
    BY <1>11 DEF BalanceStep, dbVars
  <2>2. ASSUME NEW b \in Int, risk' = UpdateBalance(risk, b)
        PROVE  risk'.day = risk.day /\ risk'.trades_today = risk.trades_today
    BY <1>0, <2>2, OtherCounts
  <2>3. risk' = [risk EXCEPT !.cooling = FALSE] =>
          risk'.day = risk.day /\ risk'.trades_today = risk.trades_today
    BY <1>0, OtherCounts
  <2> QED
    BY <1>8, <1>11, <2>1, <2>2, <2>3 DEF BalanceStep
<1>12. CASE OutageStep
  <2>1. /\ mode' # "up" /\ UNCHANGED <<risk, journal, day>>
        /\ mode = "down" \/ MaxCrashes # 0
    BY <1>12 DEF OutageStep, dbVars
  <2>2. InFlight' = {}
    BY <1>12 DEF OutageStep, OvershootInv
  <2>3. MaxDay = 1 => OpenedToday < CountBound
    BY <1>0, <1>2, <1>3, <1>4, <1>7 DEF OvershootInv
  <2> QED
    BY <1>5, <2>1, <2>2, <2>3 DEF OvershootInv, OpenedToday
<1>13. CASE MidnightStep
  <2>1. day' = day + 1 /\ UNCHANGED <<mode, risk, journal, pc>>
    BY <1>13 DEF MidnightStep, dbVars
  <2>2. MaxDay # 1
    BY <1>0, <1>1, <2>1 DEF TypeOK
  <2>3. InFlight' = InFlight
    BY <2>1 DEF InFlight
  <2> QED
    BY <1>4, <1>5, <2>1, <2>2, <2>3 DEF OvershootInv
<1>14. ASSUME NEW s \in Symbols, NEW c \in Contracts, EntryStepOf(s, c) PROVE OvershootInv'
  <2>1. /\ UNCHANGED <<mode, day>> /\ mode = "up" /\ risk' = RegisterOpen(risk)
        /\ journal' = RecordTradeOpen(journal, c, s, day)
        /\ s \in InFlight /\ InFlight' = InFlight \ {s}
    BY <1>14 DEF EntryStepOf, RecordOpen, clockVars
  <2>2. risk'.day = risk.day /\ risk'.trades_today = risk.trades_today + 1
    BY <1>0, <2>1, OtherCounts
  <2>3. Cardinality(InFlight') = Cardinality(InFlight) - 1
    BY <2>1, InFlightSize, FS_RemoveElement
  <2>4. TradeCountOvershoot'
    BY <1>0, <1>3, <1>4, <1>5, <1>7, <2>1, <2>2, <2>3 DEF OvershootInv
  <2>5. OpenedToday' <= OpenedToday + 1
    <3>1. OpenedSince(journal', day) \subseteq OpenedSince(journal, day) \cup {c}
      BY <1>0, <1>14, <2>1, EntryIsReal, EntryQueries
    <3>2. IsFiniteSet(OpenedSince(journal, day))
      BY SubsetOfContracts DEF OpenedSince, KnownContractIds
    <3> QED
      BY <2>1, <3>1, <3>2, OneMore DEF OpenedToday
  <2>6. MaxDay = 1 => OpenedToday' <= risk'.trades_today
    BY <1>0, <1>2, <2>1, <2>2, <2>5 DEF OvershootInv
  <2> QED
    BY <2>1, <2>2, <2>4, <2>6 DEF OvershootInv
<1>15. ASSUME NEW c \in Contracts, Settle(c) PROVE OvershootInv'
  <2>1. UNCHANGED <<mode, day, pc>> /\ mode = "up"
    BY <1>15 DEF Settle, taskVars, clockVars
  <2>2. InFlight' = InFlight
    BY <2>1 DEF InFlight
  <2>3. CASE journal[c].status = "open"
    <3>1. /\ risk' = RegisterResult(risk, Profit(broker[c].outcome))
          /\ journal' = RecordTradeResult(journal, c, broker[c].outcome, day)
      BY <1>15, <2>3 DEF Settle
    <3>2. broker[c].outcome \in Outcomes /\ Profit(broker[c].outcome) \in Int
      BY <1>0, ProfitType DEF TypeOK, Deal
    <3>3. OpenedToday' = OpenedToday
      BY <1>0, <2>1, <2>3, <3>1, <3>2, SettleQueries DEF OpenedToday
    <3>4. risk'.day = risk.day /\ risk'.trades_today = risk.trades_today
      BY <1>0, <3>1, <3>2, ResultCounts
    <3> QED
      BY <1>4, <1>5, <2>1, <2>2, <3>3, <3>4 DEF OvershootInv
  <2>4. CASE journal[c].status # "open"
    BY <1>8, <1>15, <2>1, <2>2, <2>4 DEF Settle, RecordTradeResult
  <2> QED
    BY <2>3, <2>4
<1>16. CASE RestoreState
  <2>1. /\ risk'.trades_today = OpenedToday /\ risk'.day = day
        /\ UNCHANGED <<journal, day, pc>> /\ mode # "up" /\ mode' = "up"
    BY <1>16, RestoreCounts DEF RestoreState, RiskStateSince, OpenedToday, taskVars, dbVars
  <2>2. InFlight' = {} /\ Cardinality(InFlight') = 0
    BY <2>1, FS_EmptySet DEF InFlight, OvershootInv
  <2>3. OpenedToday < CountBound
    <3>1. CASE MaxDay = 1
      BY <2>1, <3>1 DEF OvershootInv
    <3>2. CASE MaxCrashes = 0
      <4>1. OpenedSince(journal, day) = {}
        BY <2>1, <3>2 DEF OvershootInv, OpenedSince, KnownContractIds
      <4> QED
        BY <1>0, <1>7, <4>1, FS_EmptySet DEF OpenedToday
    <3> QED
      BY <3>1, <3>2
  <2>4. MaxDay = 1 => day = 1
    BY <1>0
  <2>5. OpenedToday' = OpenedToday
    BY <2>1 DEF OpenedToday
  <2> QED
    BY <1>2, <1>5, <2>1, <2>2, <2>3, <2>4, <2>5 DEF OvershootInv
<1>17. CASE OperatorReset
  <2>1. UNCHANGED <<mode, risk, journal, day, pc>>
    BY <1>17 DEF OperatorReset, taskVars
  <2>2. InFlight' = InFlight
    BY <2>1 DEF InFlight
  <2> QED
    BY <1>4, <1>5, <2>1, <2>2 DEF OvershootInv, OpenedToday
<1> QED
  BY <1>0, <1>9, <1>10, <1>11, <1>12, <1>13, <1>14, <1>15, <1>16, <1>17, CounterStep

(* The daily limit is passed by less than the number of symbols, counting  *)
(* the buys that are on their way: on any one day, through every restart   *)
(* and every lost answer or statement; and over any number of days as long *)
(* as the process is not restarted.                                        *)
THEOREM LimitIsNearlyKept ==
  Symbols # {} /\ (MaxDay = 1 \/ MaxCrashes = 0) /\ Spec => []TradeCountOvershoot
<1> SUFFICES ASSUME Symbols # {}, MaxDay = 1 \/ MaxCrashes = 0
             PROVE  Spec => []TradeCountOvershoot
  OBVIOUS
<1>1. ASSUME Init PROVE OvershootInv
  <2>1. /\ mode = "down" /\ InFlight = {} /\ risk.day = 1
        /\ \A c \in Contracts : journal[c].status = "none"
    BY <1>1 DEF Init, InFlight, NewRiskManager, EmptyRow
  <2>2. OpenedToday = 0
    <3>1. OpenedSince(journal, day) = {}
      BY <2>1 DEF OpenedSince, KnownContractIds
    <3> QED
      BY <3>1, FS_EmptySet DEF OpenedToday
  <2>3. 0 < CountBound
    BY JournalAssumption, LimitsAssumption, FS_EmptySet, FS_CardinalityType DEF CountBound
  <2> QED
    BY <2>1, <2>2, <2>3 DEF OvershootInv, TradeCountOvershoot
<1>2. TruthInv /\ OvershootInv /\ [Next]_vars => OvershootInv'
  BY OvershootStep
<1>3. OvershootInv => TradeCountOvershoot
  BY DEF OvershootInv
<1> QED
  BY <1>1, <1>2, <1>3, TruthInvariant, PTL DEF Spec

-----------------------------------------------------------------------------
(* What a restart rebuilds                                                 *)

SoldAsReported ==
  \A c \in Contracts : broker[c].status = "sold" => broker[c].outcome \in Results

(* On one day, while the operator resets nothing and no stake is refunded, *)
(* the counters in memory are the queries restore_state makes.             *)
SafeInv ==
  /\ SoldAsReported
  /\ risk.day = 1 /\ reset_mark = 0
  /\ mode = "up" =>
       /\ risk.daily_pnl = DailyPnl(journal, 1)
       /\ risk.trades_today = Cardinality(OpenedSince(journal, 1))
       /\ risk.consecutive_losses = LosingStreak(journal, settle_order, 0)
       /\ risk.open_trades = Cardinality(OpenTrades(journal))

LEMMA SoldStep ==
  ASSUME TypeOK, SoldAsReported, [Next]_vars
  PROVE  SoldAsReported'
<1>0. broker \in [Contracts -> Deal]
  BY DEF TypeOK
<1>1. ASSUME NEW c \in Contracts, NEW s \in Symbols, Buy(c, s) PROVE SoldAsReported'
  <2>1. /\ broker'[c].status = "live" /\ \A d \in Contracts \ {c} : broker'[d] = broker[d]
    BY <1>0, <1>1 DEF Buy, Deal
  <2> QED
    BY <2>1 DEF SoldAsReported
<1>2. ASSUME NEW c \in Contracts, NEW o \in Results, Sell(c, o) PROVE SoldAsReported'
  <2>1. /\ broker'[c].outcome = o /\ \A d \in Contracts \ {c} : broker'[d] = broker[d]
    BY <1>0, <1>2 DEF Sell, Deal
  <2> QED
    BY <2>1 DEF SoldAsReported
<1>3. CASE UNCHANGED broker
  BY <1>3 DEF SoldAsReported
<1>4. CASE Deriv
  BY <1>1, <1>2, <1>3, <1>4
     DEF Deriv, RejectOrder, DropLateOrder, FillOrder, FillLateOrder, derivVars
<1>5. ASSUME NEW s \in Symbols, SymbolTask(s) PROVE UNCHANGED broker
  BY <1>5 DEF SymbolTask, StartTrade, PricingFails, RefuseTrade, SendBuy, BuyAnswered,
              BuyRejected, BuyAmbiguous, PortfolioFound, PortfolioEmpty, PortfolioFails,
              Release, RecordOpen, derivVars
<1>6. ASSUME \/ \E c \in Contracts : Settle(c) \/ SettleFails(c)
             \/ ReadBalance \/ RefreshBalance \/ Crash \/ Boot \/ RestoreState
             \/ OperatorReset \/ CooldownElapses \/ Midnight \/ UNCHANGED vars
      PROVE  UNCHANGED broker
  BY <1>6 DEF Settle, SettleFails, ReadBalance, RefreshBalance, Crash, Boot, RestoreState,
              OperatorReset, CooldownElapses, Midnight, derivVars, vars
<1> QED
  BY <1>3, <1>4, <1>5, <1>6 DEF Next

LEMMA ResetsStep ==
  ASSUME TypeOK, MaxResets = 0
  PROVE  ~ OperatorReset
BY DEF OperatorReset, TypeOK, Spent

LEMMA SafeStep ==
  ASSUME TruthInv, SafeInv, MaxDay = 1, MaxResets = 0, "refund" \notin Results, [Next]_vars
  PROVE  SafeInv'
<1>0. TypeInv /\ TypeOK /\ TypeOK' /\ SoldAsReported'
  <2>1. TypeInv /\ TypeOK
    BY DEF TruthInv, TypeInv
  <2> QED
    BY <2>1, TypeStep, SoldStep DEF SafeInv
<1>1. /\ risk \in RiskState /\ day = 1 /\ day' = 1 /\ journal \in [Contracts -> Row]
      /\ settle_order \in Seq(Contracts) /\ 0 \in 0..Len(settle_order)
      /\ \A i \in 1..Len(settle_order) : settle_order[i] \in Contracts
  BY <1>0 DEF TypeOK
<1>2. ASSUME UNCHANGED <<mode, dbVars>>, risk'.day = risk.day,
             risk'.daily_pnl = risk.daily_pnl, risk'.trades_today = risk.trades_today,
             risk'.consecutive_losses = risk.consecutive_losses,
             risk'.open_trades = risk.open_trades
      PROVE  SafeInv'
  BY <1>0, <1>2 DEF SafeInv, dbVars
<1>3. CASE QuietStep
  BY <1>2, <1>3 DEF QuietStep, CounterVars, dbVars
<1>4. CASE CheckStep
  <2>1. UNCHANGED <<mode, dbVars>> /\ risk' = RollDay(risk, 1)
    BY <1>1, <1>4 DEF CheckStep
  <2>2. risk' = risk
    BY <1>1, <2>1, OtherCounts DEF SafeInv
  <2> QED
    BY <1>2, <2>1, <2>2
<1>5. CASE BalanceStep
  <2>1. UNCHANGED <<mode, dbVars>>
    BY <1>5 DEF BalanceStep
  <2>2. ASSUME NEW b \in Int, risk' = UpdateBalance(risk, b) PROVE SafeInv'
    BY <1>1, <1>2, <2>1, <2>2, OtherCounts
  <2>3. ASSUME risk' = [risk EXCEPT !.cooling = FALSE] PROVE SafeInv'
    BY <1>1, <1>2, <2>1, <2>3, OtherCounts
  <2> QED
    BY <1>5, <2>2, <2>3 DEF BalanceStep
<1>6. CASE OutageStep
  BY <1>0, <1>6 DEF OutageStep, SafeInv, dbVars
<1>7. CASE MidnightStep
  BY <1>1, <1>7 DEF MidnightStep
<1>8. ASSUME NEW s \in Symbols, NEW c \in Contracts, EntryStepOf(s, c) PROVE SafeInv'
  <2>1. /\ mode' = mode /\ mode = "up" /\ UNCHANGED <<settle_order, reset_mark>>
        /\ risk' = RegisterOpen(risk) /\ journal' = RecordTradeOpen(journal, c, s, 1)
    BY <1>1, <1>8 DEF EntryStepOf, RecordOpen
  <2>2. journal[c].status = "none"
    BY <1>8, RowIsNew
  <2>3. /\ Cardinality(OpenedSince(journal', 1)) = Cardinality(OpenedSince(journal, 1)) + 1
        /\ Cardinality(OpenTrades(journal')) = Cardinality(OpenTrades(journal)) + 1
        /\ DailyPnl(journal', 1) = DailyPnl(journal, 1)
    BY <1>1, <2>1, <2>2, EntryQueries
  <2>4. \A i \in 1..Len(settle_order) :
          journal'[settle_order[i]].outcome = journal[settle_order[i]].outcome
    <3>1. \A d \in Contracts \ {c} : journal'[d] = journal[d]
      BY <1>1, <2>1 DEF RecordTradeOpen
    <3>2. \A i \in 1..Len(settle_order) : settle_order[i] # c
      BY <2>2 DEF TruthInv, BookedInOrder
    <3> QED
      BY <1>1, <3>1, <3>2
  <2>5. LosingStreak(journal', settle_order, 0) = LosingStreak(journal, settle_order, 0)
    BY <1>1, <2>4, StreakSame
  <2>6. /\ risk'.day = risk.day /\ risk'.trades_today = risk.trades_today + 1
        /\ risk'.daily_pnl = risk.daily_pnl /\ risk'.open_trades = risk.open_trades + 1
        /\ risk'.consecutive_losses = risk.consecutive_losses
    BY <1>1, <2>1, OtherCounts
  <2> QED
    BY <1>0, <2>1, <2>3, <2>5, <2>6 DEF SafeInv
<1>9. ASSUME NEW c \in Contracts, Settle(c) PROVE SafeInv'
  <2> DEFINE o == broker[c].outcome
  <2>1. CASE journal[c].status # "open"
    BY <1>2, <1>9, <2>1 DEF Settle, RecordTradeResult, dbVars
  <2>2. CASE journal[c].status = "open"
    <3>1. /\ mode' = mode /\ mode = "up" /\ reset_mark' = reset_mark
          /\ settle_order' = Append(settle_order, c)
          /\ risk' = RegisterResult(risk, Profit(o))
          /\ journal' = RecordTradeResult(journal, c, o, 1)
      BY <1>1, <1>9, <2>2 DEF Settle
    <3>2. o \in {"won", "lost"}
      BY <1>9, LifecycleAssumption DEF Settle, SafeInv, SoldAsReported, Outcomes
    <3>3. o \in Outcomes /\ Profit(o) \in Int
      BY <3>2, ProfitType DEF Outcomes
    <3> HIDE DEF o
    <3>4. /\ OpenedSince(journal', 1) = OpenedSince(journal, 1)
          /\ Cardinality(OpenTrades(journal)) \in Nat \ {0}
          /\ Cardinality(OpenTrades(journal')) = Cardinality(OpenTrades(journal)) - 1
          /\ DailyPnl(journal', 1) = DailyPnl(journal, 1) + Profit(o)
      BY <1>1, <2>2, <3>1, <3>3, SettleQueries
    <3>5. /\ journal'[c].outcome = o
          /\ \A d \in Contracts \ {c} : journal'[d] = journal[d]
      BY <1>1, <2>2, <3>1 DEF RecordTradeResult, Row
    <3>6. \A i \in 1..Len(settle_order) :
            journal'[settle_order[i]].outcome = journal[settle_order[i]].outcome
      <4>1. \A i \in 1..Len(settle_order) : settle_order[i] # c
        BY <2>2 DEF TruthInv, BookedInOrder
      <4> QED
        BY <1>1, <3>5, <4>1
    <3>7. LosingStreak(journal', settle_order', 0)
            = LadderAfter(LosingStreak(journal, settle_order, 0), o)
      <4>1. LosingStreak(journal', Append(settle_order, c), 0)
              = LadderAfter(LosingStreak(journal, settle_order, 0), journal'[c].outcome)
        BY <1>1, <3>6, StreakGrows
      <4> QED
        BY <3>1, <3>5, <4>1
    <3>8. /\ risk'.daily_pnl = risk.daily_pnl + Profit(o)
          /\ risk'.day = risk.day /\ risk'.trades_today = risk.trades_today
          /\ risk'.open_trades = IF risk.open_trades > 0 THEN risk.open_trades - 1 ELSE 0
          /\ risk'.consecutive_losses =
               IF Profit(o) < 0 THEN risk.consecutive_losses + 1
               ELSE IF Profit(o) > 0 THEN 0 ELSE risk.consecutive_losses
      BY <1>1, <3>1, <3>3, ResultCounts
    <3>9. risk'.consecutive_losses = LadderAfter(risk.consecutive_losses, o)
      <4>1. CASE o = "won"
        <5>1. Profit(o) = WinProfit /\ WinProfit > 0 /\ ~ (WinProfit < 0)
          BY <4>1, JournalAssumption DEF Profit
        <5> QED
          BY <3>8, <4>1, <5>1 DEF LadderAfter
      <4>2. CASE o = "lost"
        <5>1. Profit(o) = -Stake /\ -Stake < 0
          BY <4>2, JournalAssumption DEF Profit
        <5> QED
          BY <3>8, <4>2, <5>1 DEF LadderAfter
      <4> QED
        BY <3>2, <4>1, <4>2
    <3>10. risk'.open_trades = Cardinality(OpenTrades(journal'))
      BY <3>1, <3>4, <3>8 DEF SafeInv
    <3> QED
      BY <1>0, <3>1, <3>4, <3>7, <3>8, <3>9, <3>10 DEF SafeInv
  <2> QED
    BY <2>1, <2>2
<1>10. CASE RestoreState
  <2>1. /\ UNCHANGED dbVars /\ risk'.day = 1
        /\ risk'.daily_pnl = DailyPnl(journal, 1)
        /\ risk'.trades_today = Cardinality(OpenedSince(journal, 1))
        /\ risk'.consecutive_losses = LosingStreak(journal, settle_order, reset_mark)
        /\ risk'.open_trades = Cardinality(OpenTrades(journal))
    BY <1>1, <1>10, RestoreCounts DEF RestoreState, RiskStateSince
  <2> QED
    BY <1>0, <2>1 DEF SafeInv, dbVars
<1> QED
  BY <1>0, <1>3, <1>4, <1>5, <1>6, <1>7, <1>8, <1>9, <1>10, CounterStep, ResetsStep

(* A restart changes no counter: at any moment of a day the manager counts *)
(* the profit, the trades, the losing streak and the open trades that      *)
(* restore_state would read back, through crashes, lost answers and        *)
(* statements that raise, as long as no stake is refunded (the manager     *)
(* then keeps its streak, the journal extends it) and no operator resets.  *)
THEOREM RestartKeepsCounters ==
  /\ MaxDay = 1 /\ MaxResets = 0 /\ "refund" \notin Results
  /\ Spec
  => []RestartSafeCounters
<1> SUFFICES ASSUME MaxDay = 1, MaxResets = 0, "refund" \notin Results
             PROVE  Spec => []RestartSafeCounters
  OBVIOUS
<1>1. Init => SafeInv
  BY DEF Init, SafeInv, SoldAsReported, NewRiskManager
<1>2. TruthInv /\ SafeInv /\ [Next]_vars => SafeInv'
  BY SafeStep
<1>3. ASSUME TruthInv, SafeInv PROVE RestartSafeCounters
  <2>1. risk \in RiskState /\ day = 1
    BY <1>3 DEF TruthInv, TypeInv, TypeOK
  <2>2. mode = "up" => RollDay(risk, day) = risk
    BY <1>3, <2>1, OtherCounts DEF SafeInv
  <2> QED
    BY <1>3, <2>1, <2>2 DEF SafeInv, RestartSafeCounters, RiskStateSince
<1> QED
  BY <1>1, <1>2, <1>3, TruthInvariant, PTL DEF Spec
=============================================================================
