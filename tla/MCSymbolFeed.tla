---------------------------- MODULE MCSymbolFeed ------------------------------
(* TLC instance of SymbolFeed.                                             *)
EXTENDS SymbolFeed
=============================================================================
