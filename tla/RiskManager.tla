----------------------------- MODULE RiskManager -----------------------------
(***************************************************************************)
(* risk/manager.py.  The manager keeps no task of its own: every method    *)
(* runs to completion between two awaits of its caller, so each one is an  *)
(* operator from a state of the manager to the next.  Money is counted in  *)
(* whole currency units; the stop reason is kept as the limit that fired.  *)
(***************************************************************************)
EXTENDS Integers

CONSTANTS
  MaxStake,             \* risk.max_stake
  MaxDailyLoss,         \* risk.max_daily_loss
  MaxDrawdown,          \* risk.max_drawdown
  MaxConsecutiveLosses, \* risk.max_consecutive_losses
  MaxTradesPerDay,      \* risk.max_trades_per_day
  MaxConcurrentTrades,  \* risk.max_concurrent_trades
  CooldownSeconds       \* risk.cooldown_seconds (only compared with 0)

ASSUME LimitsAssumption ==
  /\ MaxStake \in Nat /\ MaxDailyLoss \in Nat /\ MaxDrawdown \in Nat
  /\ MaxConsecutiveLosses \in Nat /\ MaxTradesPerDay \in Nat
  /\ MaxConcurrentTrades \in Nat /\ CooldownSeconds \in Nat

Stops == {"no", "daily_loss", "drawdown"}

RiskState ==
  [balance: Int, peak: Int, daily_pnl: Int, consecutive_losses: Nat,
   trades_today: Nat, open_trades: Nat, stop: Stops, day: Nat, cooling: BOOLEAN]

(* A manager as the dataclass builds it, on the day the process starts,    *)
(* with the balance restore_state assigns to it.                           *)
NewRiskManager(balance, today) ==
  [balance |-> balance, peak |-> balance, daily_pnl |-> 0, consecutive_losses |-> 0,
   trades_today |-> 0, open_trades |-> 0, stop |-> "no", day |-> today, cooling |-> FALSE]

MutantRollDay(r, today) ==
  IF today = r.day THEN r ELSE [r EXCEPT !.day = today, !.daily_pnl = 0]

RollDay(r, today) ==
  IF today = r.day THEN r
  ELSE [r EXCEPT !.day = today, !.daily_pnl = 0, !.trades_today = 0]

UpdateBalance(r, balance) ==
  [r EXCEPT !.balance = balance,
            !.peak = IF balance > r.peak THEN balance ELSE r.peak]

Drawdown(r) == IF r.peak > r.balance THEN r.peak - r.balance ELSE 0

StakeAllowed(r, stake) == 0 < stake /\ stake <= MaxStake /\ stake <= r.balance

LossLimitsClear(r) ==
  r.daily_pnl > -MaxDailyLoss /\ Drawdown(r) < MaxDrawdown

MutantCountLimitsClear(r) ==
  /\ r.consecutive_losses < MaxConsecutiveLosses
  /\ r.trades_today <= MaxTradesPerDay
  /\ r.open_trades < MaxConcurrentTrades

CountLimitsClear(r) ==
  /\ r.consecutive_losses < MaxConsecutiveLosses
  /\ r.trades_today < MaxTradesPerDay
  /\ r.open_trades < MaxConcurrentTrades

(* The checks of can_trade on a manager whose day has been rolled.         *)
CanTrade(r, stake) ==
  /\ r.stop = "no"
  /\ StakeAllowed(r, stake)
  /\ LossLimitsClear(r)
  /\ CountLimitsClear(r)
  /\ ~ r.cooling

MutantRegisterOpen(r) ==
  [r EXCEPT !.open_trades = @ + 1, !.cooling = CooldownSeconds > 0]

RegisterOpen(r) ==
  [r EXCEPT !.open_trades = @ + 1, !.trades_today = @ + 1,
            !.cooling = CooldownSeconds > 0]

EmergencyStop(r, reason) == [r EXCEPT !.stop = reason]

MutantLatchLimits(r) ==
  IF Drawdown(r) >= MaxDrawdown THEN EmergencyStop(r, "drawdown") ELSE r

(* The limits are looked at after the result has been added, the daily one *)
(* first; the day is not rolled here.                                      *)
LatchLimits(r) ==
  IF r.daily_pnl <= -MaxDailyLoss THEN EmergencyStop(r, "daily_loss")
  ELSE IF Drawdown(r) >= MaxDrawdown THEN EmergencyStop(r, "drawdown")
  ELSE r

RegisterResult(r, pnl) ==
  LatchLimits(
    UpdateBalance(
      [r EXCEPT !.open_trades = IF @ > 0 THEN @ - 1 ELSE 0,
                !.daily_pnl = @ + pnl,
                !.consecutive_losses = IF pnl < 0 THEN @ + 1
                                       ELSE IF pnl > 0 THEN 0 ELSE @],
      r.balance + pnl))

(* Only the daily limit is looked at again.                                *)
Restore(r, state, open_trades, today) ==
  LET restored == [RollDay(r, today) EXCEPT
                     !.daily_pnl = state.daily_pnl,
                     !.trades_today = state.trades_today,
                     !.consecutive_losses = state.consecutive_losses,
                     !.open_trades = open_trades]
  IN  IF restored.daily_pnl <= -MaxDailyLoss
      THEN EmergencyStop(restored, "daily_loss") ELSE restored
=============================================================================
