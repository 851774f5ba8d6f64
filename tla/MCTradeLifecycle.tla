-------------------------- MODULE MCTradeLifecycle ---------------------------
(* TLC instance of TradeLifecycle: the values the .cfg files choose from.  *)
EXTENDS TradeLifecycle, TLC

CONSTANTS R100, R75, c1, c2, c3

Symmetry == Permutations(Symbols) \cup Permutations(Contracts)

=============================================================================
