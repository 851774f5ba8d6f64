--------------------------- MODULE MCExpiryEvidence ---------------------------
(* TLC instance of ExpiryEvidence: the values the .cfg file chooses from.  *)
EXTENDS ExpiryEvidence, TLC

CONSTANTS R100, R75, ticks, minutes
=============================================================================
