-------------------------- MODULE SettlementPromise --------------------------
(***************************************************************************)
(* What a settlement task promises about one contract: nothing is booked   *)
(* before Deriv has sold it, a booking is final, and it comes in the end.  *)
(* Settle(c) of TradeLifecycle is this Book.                               *)
(***************************************************************************)
VARIABLES deal, booked

Init == deal = FALSE /\ booked = FALSE

Sell == ~ deal /\ deal' = TRUE /\ UNCHANGED booked

Book == deal /\ ~ booked /\ booked' = TRUE /\ UNCHANGED deal

Next == Sell \/ Book

Spec == Init /\ [][Next]_<<deal, booked>>

FairSpec == Spec /\ WF_<<deal, booked>>(Sell) /\ WF_<<deal, booked>>(Book)
=============================================================================
