------------------------------- MODULE Staking -------------------------------
(***************************************************************************)
(* risk/staking.py.  The engine keeps one counter between trades, the      *)
(* losses in a row, and sizes a trade from it or from the balance.  Money  *)
(* is in cents, probabilities and payout multiples are in hundredths.      *)
(***************************************************************************)
EXTENDS Integers

MutantLadderAfter(losses, outcome) == IF outcome = "lost" THEN losses + 1 ELSE 0

(* register_result, given what monitor_settlement takes for "won": a sale  *)
(* at the stake is not.                                                    *)
LadderAfter(losses, outcome) == IF outcome = "won" THEN 0 ELSE losses + 1

\* "unknown" stands for any other word: nothing checks STAKING_METHOD
Engine ==
  [method: {"fixed", "percentage", "kelly", "martingale", "unknown"}, base: Nat, max: Nat,
   percentage: Nat, kelly_fraction: Nat, kelly_cap: Nat, martingale_enabled: BOOLEAN,
   factor: Nat, max_steps: Nat, min_losses: Nat]

NoBound == -1

Smaller(a, b) == IF b <= a THEN b ELSE a

NearestCent(n, d) == (2 * n + d) \div (2 * d)

MartingaleSteps(engine, losses) ==
  IF losses < engine.min_losses THEN 0
  ELSE Smaller(losses - engine.min_losses + 1, engine.max_steps)

(* The base stake times the factor to the power of the steps.              *)
Ladder(engine) ==
  LET stake[n \in 0..engine.max_steps] ==
        IF n = 0 THEN engine.base ELSE engine.factor * stake[n - 1]
  IN  stake

(* The capped fraction of full Kelly (p b - q) / b at the lower bound p;   *)
(* b is the payout without the stake.                                      *)
KellyStake(engine, balance, p_lower, payout) ==
  LET edge == p_lower * payout - 100 * 100
      b == payout - 100
  IN  IF p_lower = NoBound \/ b <= 0 \/ edge <= 0 THEN 0
      ELSE NearestCent(balance * Smaller(edge * engine.kelly_fraction,
                                         100 * b * engine.kelly_cap),
                       100 * 100 * b)

StakeFor(engine, losses, balance, p_lower, payout) ==
  LET m == engine.method
  IN  IF m = "martingale" /\ ~ engine.martingale_enabled THEN engine.base
      ELSE Smaller(engine.max,
             CASE m = "fixed" -> engine.base
               [] m = "percentage" -> NearestCent(balance * engine.percentage, 100)
               [] m = "kelly" -> KellyStake(engine, balance, p_lower, payout)
               [] m = "unknown" -> 0
               [] m = "martingale" -> Ladder(engine)[MartingaleSteps(engine, losses)])
=============================================================================
