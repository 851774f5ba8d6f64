-------------------------- MODULE MCSettlementWatch ---------------------------
(* TLC instance of SettlementWatch: two overlapping processes.             *)
EXTENDS SettlementWatch, TLC

CONSTANTS old_process, new_process
=============================================================================
