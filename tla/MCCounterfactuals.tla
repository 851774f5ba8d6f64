-------------------------- MODULE MCCounterfactuals ---------------------------
(* TLC instance of Counterfactuals.  Trades and refused rows of one        *)
(* direction, rejected rows of the other, prices that rise, fall and stay.  *)
EXTENDS Counterfactuals

CONSTANTS R100, R75

Kind(close, direction, decision) ==
  [close |-> close, direction |-> direction, decision |-> decision]

MCKinds ==
  {Kind(1, "bullish", "TRADE"), Kind(2, "bullish", "refused"),
   Kind(1, "bearish", "NO_TRADE"), Kind(2, "bearish", "NO_TRADE")}
=============================================================================
