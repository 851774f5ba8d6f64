-------------------------- MODULE MCDerivConnection ---------------------------
(* TLC instance of DerivConnection: the values the .cfg files choose from. *)
EXTENDS DerivConnection, TLC

CONSTANTS R100, R75, watchdog, trader, supervisor
=============================================================================
