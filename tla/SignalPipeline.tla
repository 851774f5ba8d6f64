---------------------------- MODULE SignalPipeline ----------------------------
(***************************************************************************)
(* The closed bars of one symbol on their way to a trade: SymbolPipeline   *)
(* (strategy/pipeline.py), check_confirmation (reversal/confirmation.py),  *)
(* evaluate_signal (strategy/decision_engine.py), on_candle_closed         *)
(* (execution/live.py), the signals and rejected_signals tables            *)
(* (data/database.py) and the SetupDeduper (strategy/expiry.py).  Of a     *)
(* bar only this matters: which directions reach the threshold, whether    *)
(* its regime allows a trade, and whether it confirms the pending setup.   *)
(***************************************************************************)
EXTENDS Integers, Sequences, FiniteSets

CONSTANTS
  Window,    \* reversal.confirmation_window, in bars
  MinBars,   \* closed bars compute_evidence needs
  Timeframe, \* candles.timeframe_seconds
  \* bounds on the environment, not in the code:
  MaxBars,   \* bars of the run
  MaxEarly,  \* seconds the last tick of a bar may precede the end of the bar
  MaxGap     \* clock buckets without a tick between two bars

ASSUME PipelineAssumption ==
  /\ {Window, MinBars, MaxBars} \subseteq Nat \ {0}
  /\ {MaxEarly, MaxGap, Timeframe} \subseteq Nat /\ MaxEarly < Timeframe

Directions == {"bullish", "bearish"}
NoSetup == [direction |-> "none", bars_waited |-> 0]
Gates == {"clear", "REGIME_UNKNOWN", "HIGH_VOLATILITY"}
Reasons == {"MINIMUM_DATA", "CONFLICTING_SIGNALS", "NO_SETUP", "UNCONFIRMED", "EXECUTION",
            "TRADE"} \cup (Gates \ {"clear"})

VARIABLES
  pending,   \* SymbolPipeline._pending_setup
  signals,   \* rows of the signals table, one per bar
  rejected,  \* signal ids of the rows of rejected_signals
  executing, \* on_candle_closed is inside execute_trade
  open,      \* the symbol is in LiveTrader.open_symbols
  last,      \* SetupDeduper.last, an epoch per direction
  bucket,    \* CandleBuilder's clock bucket of the newest closed bar, 0 before the first
  samples,   \* setups the OutcomeTracker was given: [bar, bucket, direction, confirmed]
  sole,      \* history: the only direction that qualified, bar by bar
  confirmations \* history: the bars on which the pending setup was confirmed

vars == <<pending, signals, rejected, executing, open, last, bucket, samples, sole,
          confirmations>>

Bars == 1..MaxBars
Never == -1
Sample == [bar : Bars, bucket : Nat \ {0}, direction : Directions, confirmed : BOOLEAN]

TypeOK ==
  /\ pending \in [direction : Directions \cup {"none"}, bars_waited : 0..Window]
  /\ signals \in Seq([reason : Reasons, direction : Directions \cup {"none"}])
  /\ rejected \in Seq(Bars)
  /\ executing \in BOOLEAN /\ open \in BOOLEAN
  /\ last \in [Directions -> Int]
  /\ bucket \in Nat
  /\ samples \subseteq Sample
  /\ sole \in Seq(Directions \cup {"none"})
  /\ Len(sole) = Len(signals) /\ Len(signals) <= MaxBars
  /\ confirmations \subseteq 1..Len(signals)

Init ==
  /\ pending = NoSetup
  /\ signals = <<>> /\ rejected = <<>> /\ sole = <<>>
  /\ executing = FALSE /\ open = FALSE
  /\ last = [d \in Directions |-> Never]
  /\ bucket = 0 /\ samples = {} /\ confirmations = {}

-----------------------------------------------------------------------------
(* The pending setup                                                       *)

(* The direction that qualifies, if exactly one does.                      *)
Sole(qualified) ==
  IF \E d \in Directions : qualified = {d} THEN CHOOSE d \in Directions : qualified = {d}
  ELSE "none"

(* A pending setup is one bar older; without one, a direction that         *)
(* qualifies alone becomes the pending setup.                              *)
Tracked(setup, qualified) ==
  IF setup = NoSetup THEN [direction |-> Sole(qualified), bars_waited |-> 0]
  ELSE [setup EXCEPT !.bars_waited = @ + 1]

Expired(setup) == setup.bars_waited > Window

(* check_confirmation: never on the bar that formed the setup, never after *)
(* the window; "trigger" is any of its three triggers.                     *)
Confirms(setup, trigger) ==
  setup # NoSetup /\ setup.bars_waited > 0 /\ ~ Expired(setup) /\ trigger

MutantNeverDropped(setup, trigger) == IF Confirms(setup, trigger) THEN NoSetup ELSE setup

MutantKept(setup, trigger) == IF Expired(setup) THEN NoSetup ELSE setup

(* A confirmed setup is consumed, an expired one dropped.                  *)
Kept(setup, trigger) ==
  IF Confirms(setup, trigger) \/ Expired(setup) THEN NoSetup ELSE setup

-----------------------------------------------------------------------------
(* The decision                                                            *)

(* evaluate_signal: the first reason that applies.                         *)
Decide(qualified, gate, confirmed_direction) ==
  CASE gate # "clear" -> gate
    [] gate = "clear" /\ qualified = Directions -> "CONFLICTING_SIGNALS"
    [] gate = "clear" /\ qualified = {} -> "NO_SETUP"
    [] gate = "clear" /\ qualified \notin {{}, Directions} ->
         IF confirmed_direction = Sole(qualified) THEN "TRADE" ELSE "UNCONFIRMED"

MutantRecorded(id, row) == IF row.reason = "UNCONFIRMED" THEN <<>> ELSE <<id>>

(* What record_signal and update_signal_outcome add to rejected_signals    *)
(* for row "id".                                                           *)
Recorded(id, row) == IF row.reason = "TRADE" THEN <<>> ELSE <<id>>

MutantAccepts(direction, confirmed, epoch) ==
  confirmed \/ last[direction] = Never \/ epoch - last[direction] > Window

(* SetupDeduper.accept                                                     *)
Accepts(direction, confirmed, epoch) ==
  \/ confirmed
  \/ last[direction] = Never
  \/ epoch - last[direction] > Window * Timeframe

(* qualifying_direction and the deduper choose what the tracker follows.   *)
Follow(bar, row, clock, epoch) ==
  LET confirmed == row.reason = "TRADE"
  IN  IF row.reason \in {"TRADE", "UNCONFIRMED"}
           /\ Accepts(row.direction, confirmed, epoch)
      THEN /\ last' = [last EXCEPT ![row.direction] = epoch]
           /\ samples' = samples \cup
                {[bar |-> bar, bucket |-> clock, direction |-> row.direction,
                  confirmed |-> confirmed]}
      ELSE UNCHANGED <<last, samples>>

-----------------------------------------------------------------------------
(* on_candle_closed                                                        *)

NextBar == Len(signals) + 1

Closes == ~ executing /\ NextBar <= MaxBars

(* add_tick builds no bar for a bucket without ticks: the next bar is the  *)
(* next in the table, but "gap" buckets may lie between the two.           *)
ClockAdvances(gap) == bucket' = bucket + 1 + gap

(* Fewer bars than the features need: nothing is evaluated.                *)
BarTooEarly(gap) ==
  /\ Closes /\ NextBar < MinBars /\ ClockAdvances(gap)
  /\ LET row == [reason |-> "MINIMUM_DATA", direction |-> "none"]
     IN  /\ signals' = Append(signals, row)
         /\ rejected' = rejected \o Recorded(NextBar, row)
  /\ sole' = Append(sole, "none")
  /\ UNCHANGED <<pending, executing, open, last, samples, confirmations>>

(* The bar is evaluated and recorded; a trade signal is executed unless    *)
(* the symbol is open, the socket is down or there is no stake.            *)
BarCloses(qualified, gate, trigger, early, gap) ==
  LET setup == Tracked(pending, qualified)
      confirmed_direction == IF Confirms(setup, trigger) THEN setup.direction ELSE "none"
      row == [reason |-> Decide(qualified, gate, confirmed_direction),
              direction |-> Sole(qualified)]
  IN  /\ Closes /\ NextBar >= MinBars /\ ClockAdvances(gap)
      /\ pending' = Kept(setup, trigger)
      /\ confirmations' = confirmations \cup
                            {i \in {NextBar} : Confirms(setup, trigger)}
      /\ signals' = Append(signals, row)
      /\ rejected' = rejected \o Recorded(NextBar, row)
      /\ sole' = Append(sole, Sole(qualified))
      /\ Follow(NextBar, row, bucket', bucket' * Timeframe - early)
      /\ IF row.reason = "TRADE" /\ ~ open
         THEN \/ executing' = TRUE /\ open' = TRUE
              \/ UNCHANGED <<executing, open>>
         ELSE UNCHANGED <<executing, open>>

(* execute_trade bought: update_signal_outcome leaves the row a trade.     *)
ExecutionBuys ==
  /\ executing /\ executing' = FALSE
  /\ rejected' = rejected \o Recorded(Len(signals), signals[Len(signals)])
  /\ UNCHANGED <<pending, signals, open, last, bucket, samples, sole, confirmations>>

(* update_signal_outcome on the newest row.                                *)
Corrected(rows) == [rows EXCEPT ![Len(rows)].reason = "EXECUTION"]

(* Economics, risk, research mode or Deriv refused: the row is corrected,  *)
(* the rejected row written and the symbol freed.                          *)
ExecutionRefuses ==
  /\ executing /\ executing' = FALSE /\ open' = FALSE
  /\ signals' = Corrected(signals)
  /\ rejected' = rejected \o Recorded(Len(signals), signals'[Len(signals)])
  /\ UNCHANGED <<pending, last, bucket, samples, sole, confirmations>>

(* _settle_and_release                                                     *)
Settles ==
  /\ open /\ ~ executing /\ open' = FALSE
  /\ UNCHANGED <<pending, signals, rejected, executing, last, bucket, samples, sole,
                 confirmations>>

Next ==
  \/ \E gap \in 0..MaxGap : BarTooEarly(gap)
  \/ \E q \in SUBSET Directions, g \in Gates, t \in BOOLEAN, e \in 0..MaxEarly,
       gap \in 0..MaxGap : BarCloses(q, g, t, e, gap)
  \/ ExecutionBuys \/ ExecutionRefuses \/ Settles

Spec == Init /\ [][Next]_vars

-----------------------------------------------------------------------------
(* The bars whose decision was a trade, executed or not.                   *)
Signalled == {i \in DOMAIN signals : signals[i].reason \in {"TRADE", "EXECUTION"}}

(* A trade signal's direction qualified alone on this bar and on another   *)
(* one at most Window bars earlier and after the last confirmation, be it  *)
(* one that a gate vetoed.                                                 *)
ConfirmsItsOwnSetup(i) ==
  /\ sole[i] = signals[i].direction
  /\ \E k \in 1..Window :
       /\ i - k \in DOMAIN sole /\ sole[i - k] = sole[i]
       /\ \A j \in confirmations : j < i => j < i - k

(* The pending setup is as old as it claims, counted in closed bars: it    *)
(* formed on a bar where its direction qualified alone, at most Window     *)
(* bars ago, and nothing has been confirmed since.                         *)
PendingIsYoung ==
  pending # NoSetup =>
    LET formed == Len(signals) - pending.bars_waited
    IN  /\ pending.bars_waited <= Window
        /\ formed \in DOMAIN sole /\ sole[formed] = pending.direction
        /\ \A i \in confirmations : i < formed

(* Every trade signal confirms a setup of its own that is young in closed  *)
(* bars and was never confirmed before: no setup is traded twice, none     *)
(* outlives its window, none that was vetoed when it was confirmed is      *)
(* traded later, and the next signal will do so too.                       *)
TradesFollowSetups ==
  (\A i \in Signalled : ConfirmsItsOwnSetup(i)) /\ PendingIsYoung

(* Every refusal, by the signal or later by execution, has exactly one row *)
(* in rejected_signals, and nothing that still reads as a trade has one.   *)
RejectedOnce ==
  \A i \in DOMAIN signals :
    Cardinality({n \in DOMAIN rejected : rejected[n] = i})
      = IF signals[i].reason = "TRADE" THEN 0 ELSE 1

(* An unconfirmed setup is sampled Window timeframes of the clock after    *)
(* any other sample of its direction at the earliest.  (One less than the  *)
(* window's length suggests: a tick late in its minute slips past the      *)
(* deduper.  In closed bars the distance may be as small as one.)          *)
SamplesApart ==
  \A s, s2 \in samples :
    s.direction = s2.direction /\ s.bucket < s2.bucket /\ ~ s2.confirmed
      => s2.bucket - s.bucket >= Window
=============================================================================
