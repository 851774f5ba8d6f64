---------------------------- MODULE MCTradeTicket ----------------------------
(* TLC instance of TradeTicket: the values the .cfg file chooses from.     *)
EXTENDS TradeTicket, TLC

CONSTANTS m5, s300, m3, t5

OneOf(method, base, enabled) ==
  [method |-> method, base |-> base, max |-> 500, percentage |-> 1,
   kelly_fraction |-> 25, kelly_cap |-> 5, martingale_enabled |-> enabled,
   factor |-> 2, max_steps |-> 3, min_losses |-> 2]

SomeEngines ==
  {OneOf("fixed", 600, FALSE), OneOf("kelly", 100, FALSE), OneOf("martingale", 100, TRUE),
   OneOf("unknown", 100, FALSE)}

SomeChances == {[mean |-> 60, lower |-> 54], [mean |-> 52, lower |-> 45]}
=============================================================================
