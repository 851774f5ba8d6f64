--------------------------- MODULE Counterfactuals ----------------------------
(***************************************************************************)
(* What would have happened: three places judge a signal by the closes of  *)
(* the stored candles.  reconcile_rejected_signals (data/database.py) does *)
(* it row by row in a worker thread of the live bot, which goes on storing *)
(* candles and signals meanwhile; run_backtest (backtest/simulator.py) and *)
(* build_training_examples (models/dataset.py) do it over a whole history. *)
(* A candle is its close; the table has one row per bar here (SymbolFeed   *)
(* shows when it has two).                                                 *)
(***************************************************************************)
EXTENDS Integers, Sequences, FiniteSets, SequencesExt

CONSTANTS
  Symbols,
  DurationBars, \* contract.duration_bars_approx
  BatchSize,    \* rows of one pass (5000 in the code)
  WarmupBars,   \* bars the backtest passes over
  Stake,        \* of the backtest
  WinProfit,    \* stake * (payout_multiple - 1)
  \* bounds on the environment, not in the code:
  Kinds,        \* closed bars: [close, direction, decision]
  MaxBars,      \* bars of all symbols together
  MaxBehind,    \* bars of a symbol that are over and not closed by its task
  MaxCrashes

ASSUME HistoryAssumption ==
  /\ IsFiniteSet(Symbols)
  /\ {DurationBars, BatchSize, Stake, WinProfit, MaxBars, MaxBehind} \subseteq Nat \ {0}
  /\ WarmupBars \in Nat /\ MaxCrashes \in Nat

(* The rows of symbols whose feed has ended wait for candles that never    *)
(* come; a pass has room for more rows than those (see EveryRowIsJudged).  *)
ASSUME BatchAssumption ==
  BatchSize > (DurationBars + MaxBehind - 1) * (Cardinality(Symbols) - 1)

Directions == {"bullish", "bearish"}

(* Bars that were no trade signal, that were one and were refused by       *)
(* execution, and that were traded.                                        *)
Decisions == {"NO_TRADE", "refused", "TRADE"}

Bar == [close: Int, direction: Directions, decision: Decisions]

ASSUME KindsAssumption == Kinds \subseteq Bar

VARIABLES
  ended,       \* the bars of each symbol whose last tick is in the past
  candles,     \* those of them the bot has closed, stored and judged
  rejected,    \* rows of rejected_signals by timestamp
  batch,       \* ids the pass has selected and not looked at yet
  uncommitted, \* ids it has updated since the connection's last commit
  crashes

vars == <<ended, candles, rejected, batch, uncommitted, crashes>>

Verdicts == {"unknown", "won", "lost"}

TypeOK ==
  /\ ended \in [Symbols -> Nat]
  /\ candles \in [Symbols -> Seq(Bar)]
  /\ \A s \in Symbols : Len(candles[s]) <= ended[s]
  /\ rejected \in Seq([symbol: Symbols, bar: Nat, current: Nat, outcome: Verdicts])
  /\ \A r \in DOMAIN rejected :
       /\ rejected[r].bar \in DOMAIN candles[rejected[r].symbol]
       /\ rejected[r].bar <= rejected[r].current
       /\ rejected[r].current <= ended[rejected[r].symbol]
  /\ batch \in Seq(DOMAIN rejected) /\ Len(batch) <= BatchSize
  /\ uncommitted \subseteq DOMAIN rejected
  /\ crashes \in 0..MaxCrashes

Init ==
  /\ ended = [s \in Symbols |-> 0] /\ candles = [s \in Symbols |-> <<>>]
  /\ rejected = <<>> /\ batch = <<>> /\ uncommitted = {} /\ crashes = 0

-----------------------------------------------------------------------------
(* The live bot                                                            *)

(* A contract pays when the price has moved its way; a tie is lost in both *)
(* directions.                                                             *)
Verdict(direction, entry, exit) ==
  IF \/ direction = "bullish" /\ exit > entry
     \/ direction = "bearish" /\ exit < entry
  THEN "won" ELSE "lost"

Refusal(s, bar, current, decision) ==
  IF decision = "TRADE" THEN <<>>
  ELSE <<[symbol |-> s, bar |-> bar, current |-> current, outcome |-> "unknown"]>>

(* Time passes.  The symbol's task closes a bar when it comes to the first *)
(* later tick, however long that has been waiting for it.                  *)
BarEnds(s) ==
  /\ MapThenSumSet(LAMBDA t : ended[t], Symbols) < MaxBars
  /\ ended[s] < Len(candles[s]) + MaxBehind
  /\ ended' = [ended EXCEPT ![s] = @ + 1]
  /\ UNCHANGED <<candles, rejected, batch, uncommitted, crashes>>

(* on_candle_closed stores the candle and the signal, which is stamped     *)
(* with the wall clock: the bar that is current then may be a later one.   *)
(* Its commits are on the connection the worker thread uses, and take its  *)
(* updates with them.                                                      *)
BarCloses(s, bar) ==
  /\ Len(candles[s]) < ended[s]
  /\ candles' = [candles EXCEPT ![s] = Append(@, bar)]
  /\ rejected' = rejected \o Refusal(s, Len(candles[s]) + 1, ended[s], bar.decision)
  /\ uncommitted' = {}
  /\ UNCHANGED <<ended, batch, crashes>>

-----------------------------------------------------------------------------
(* reconcile_rejected_signals                                              *)

Unevaluated == {r \in DOMAIN rejected : rejected[r].outcome = "unknown"}

MutantSelected ==
  LET rows == SetToSortSeq(Unevaluated, >)
  IN  SubSeq(rows, 1, IF Len(rows) < BatchSize THEN Len(rows) ELSE BatchSize)

MutantSelectedAll == SetToSortSeq(Unevaluated, <)

(* ORDER BY ts LIMIT ?  (The i-th row has i rows up to it, itself included;*)
(* the provers cannot expand SetToSortSeq.)                                *)
Selected ==
  [i \in {i \in 1..Cardinality(Unevaluated) : i <= BatchSize} |->
     CHOOSE r \in Unevaluated : Cardinality({q \in Unevaluated : q <= r}) = i]

SelectBatch ==
  /\ batch = <<>> /\ Unevaluated # {}
  /\ batch' = Selected
  /\ UNCHANGED <<ended, candles, rejected, uncommitted, crashes>>

(* The last candle of the table that was over when the signal was stamped. *)
EntryBar(bars, current) == IF current < Len(bars) THEN current ELSE Len(bars)

MutantSettlementBar(entry) == entry + DurationBars - 1

(* The settlement is DurationBars - 1 rows after the first candle later    *)
(* than the entry.                                                         *)
SettlementBar(entry) == entry + 1 + (DurationBars - 1)

(* One row of the batch, with the candles stored by now; without a         *)
(* settlement candle it is left for a later pass.                          *)
JudgeRow ==
  /\ batch # <<>> /\ batch' = Tail(batch)
  /\ LET r == Head(batch)
         row == rejected[r]
         bars == candles[row.symbol]
         entry == EntryBar(bars, row.current)
         settlement == SettlementBar(entry)
     IN  IF settlement \in DOMAIN bars
         THEN /\ rejected' = [rejected EXCEPT ![r].outcome =
                                Verdict(bars[row.bar].direction, bars[entry].close,
                                        bars[settlement].close)]
              /\ uncommitted' = IF Tail(batch) = <<>> THEN {} ELSE uncommitted \cup {r}
         ELSE /\ uncommitted' = IF Tail(batch) = <<>> THEN {} ELSE uncommitted
              /\ UNCHANGED rejected
  /\ UNCHANGED <<ended, candles, crashes>>

(* The process ends: the pass and what it had not committed are gone.      *)
Crash ==
  /\ crashes < MaxCrashes /\ crashes' = crashes + 1
  /\ batch' = <<>> /\ uncommitted' = {}
  /\ rejected' = [r \in DOMAIN rejected |->
                    IF r \in uncommitted THEN [rejected[r] EXCEPT !.outcome = "unknown"]
                    ELSE rejected[r]]
  /\ UNCHANGED <<ended, candles>>

Next ==
  \/ \E s \in Symbols : BarEnds(s)
  \/ \E s \in Symbols, bar \in Kinds : BarCloses(s, bar)
  \/ SelectBatch \/ JudgeRow \/ Crash

Spec == Init /\ [][Next]_vars

(* reconcile_loop comes round again.                                       *)
FairSpec == Spec /\ WF_vars(SelectBatch) /\ WF_vars(JudgeRow)

-----------------------------------------------------------------------------
(* The offline tools over a stored history                                 *)

(* build_training_examples: None when the history ends before.             *)
Label(bars, i) ==
  IF i + DurationBars \in DOMAIN bars
  THEN Verdict(bars[i].direction, bars[i].close, bars[i + DurationBars].close)
  ELSE "unknown"

Fresh == [wins |-> 0, losses |-> 0, pnl |-> 0, peak |-> 0, max_dd |-> 0,
          streak |-> 0, max_streak |-> 0]

Greater(a, b) == IF a > b THEN a ELSE b

MutantCounted(result, outcome) ==
  LET won == outcome = "won"
      pnl == IF won THEN result.pnl + WinProfit ELSE result.pnl - Stake
      peak == Greater(result.peak, result.pnl)
  IN  [wins |-> result.wins + (IF won THEN 1 ELSE 0),
       losses |-> result.losses + (IF won THEN 0 ELSE 1),
       pnl |-> pnl, peak |-> peak,
       max_dd |-> Greater(result.max_dd, peak - result.pnl),
       streak |-> IF won THEN 0 ELSE result.streak + 1,
       max_streak |-> Greater(result.max_streak, result.streak)]

(* One settled trade of run_backtest's loop.                               *)
Counted(result, outcome) ==
  LET won == outcome = "won"
      pnl == IF won THEN result.pnl + WinProfit ELSE result.pnl - Stake
      peak == Greater(result.peak, pnl)
      streak == IF won THEN 0 ELSE result.streak + 1
  IN  [wins |-> result.wins + (IF won THEN 1 ELSE 0),
       losses |-> result.losses + (IF won THEN 0 ELSE 1),
       pnl |-> pnl, peak |-> peak, max_dd |-> Greater(result.max_dd, peak - pnl),
       streak |-> streak, max_streak |-> Greater(result.max_streak, streak)]

(* The trades run_backtest settles: behind the warm-up, with a horizon     *)
(* inside the history.                                                     *)
Settled(bars) ==
  {i \in DOMAIN bars : /\ i > WarmupBars /\ bars[i].decision # "NO_TRADE"
                       /\ i + DurationBars <= Len(bars)}

(* The numbers behind each bar.                                            *)
Backtest(bars) ==
  LET result[i \in 0..Len(bars)] ==
        IF i = 0 THEN Fresh
        ELSE IF i \in Settled(bars)
        THEN Counted(result[i - 1], Verdict(bars[i].direction, bars[i].close,
                                            bars[i + DurationBars].close))
        ELSE result[i - 1]
  IN  result

RunBacktest(bars) == Backtest(bars)[Len(bars)]

-----------------------------------------------------------------------------
(* A verdict of the reconciliation is the one the whole history gives the  *)
(* moment of the signal, although it looks for the entry candle in a table *)
(* that may not have it yet, judges row by row while candles come in and   *)
(* may be interrupted: later candles never speak against it.               *)
VerdictsAreFinal ==
  \A r \in DOMAIN rejected :
    rejected[r].outcome # "unknown" =>
      LET row == rejected[r]
          bars == candles[row.symbol]
      IN  /\ row.current + DurationBars \in DOMAIN bars
          /\ row.outcome = Verdict(bars[row.bar].direction, bars[row.current].close,
                                   bars[row.current + DurationBars].close)

(* The numbers of a backtest, kept in passing by its loop, are those of    *)
(* the equity curve of its trades: final profit, deepest fall from an      *)
(* earlier height (the start counts as one), most losses without a win     *)
(* between them.                                                           *)
TradesOf(bars, outcome, j, k) ==
  {i \in Settled(bars) : j <= i /\ i <= k /\ Label(bars, i) = outcome}

Equity(bars, k) ==
  WinProfit * Cardinality(TradesOf(bars, "won", 1, k))
    - Stake * Cardinality(TradesOf(bars, "lost", 1, k))

Fall(bars, j, k) == Equity(bars, j) - Equity(bars, k)

\* from where to where no trade is won; it may be nowhere
LosingRuns(bars, n) ==
  {run \in (1..n + 1) \X (0..n) : TradesOf(bars, "won", run[1], run[2]) = {}}

LossesIn(bars, run) == Cardinality(TradesOf(bars, "lost", run[1], run[2]))

IsTheEquityCurve(bars, n, result) ==
  /\ result.wins = Cardinality(TradesOf(bars, "won", 1, n))
  /\ result.losses = Cardinality(TradesOf(bars, "lost", 1, n))
  /\ result.pnl = Equity(bars, n)
  /\ \A j \in 0..n : \A k \in j..n : Fall(bars, j, k) <= result.max_dd
  /\ \E j \in 0..n : \E k \in j..n : Fall(bars, j, k) = result.max_dd
  /\ \A run \in LosingRuns(bars, n) : LossesIn(bars, run) <= result.max_streak
  /\ \E run \in LosingRuns(bars, n) : LossesIn(bars, run) = result.max_streak

BacktestIsTheEquityCurve ==
  \A s \in Symbols :
    IsTheEquityCurve(candles[s], Len(candles[s]), RunBacktest(candles[s]))

(* A rejected signal whose settlement candle is there is judged in the     *)
(* end: the rows that cannot be judged yet never crowd it out of a batch.  *)
EveryRowIsJudged ==
  \A s \in Symbols, i \in 1..MaxBars :
    (\E r \in DOMAIN rejected :
       /\ rejected[r].symbol = s /\ rejected[r].bar = i
       /\ rejected[r].current + DurationBars \in DOMAIN candles[s])
      ~> (\E r \in DOMAIN rejected : /\ rejected[r].symbol = s /\ rejected[r].bar = i
                                     /\ rejected[r].outcome # "unknown")
=============================================================================
