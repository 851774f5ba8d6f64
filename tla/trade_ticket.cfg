\* Three expiries of which two are priced, a default contract in four
\* spellings, four staking engines, two chances, three payouts.
SPECIFICATION Spec
CONSTANTS
  m5 = m5  s300 = s300  m3 = m3  t5 = t5
  Engines <- SomeEngines
  Contracts = {m5, s300, m3, t5}
  ResearchContracts = {m5, s300}  UntimedContracts = {t5}
  Horizons = {m5, t5, m3}
  Payouts = {170, 185, 195}  PayoutFloor = 180  MinEv = 0
  ProposalsToPrice = 2
  Chances <- SomeChances
  Balances = {900, 20000}  MaxLosses = 2
CHECK_DEADLOCK FALSE
INVARIANTS
  TypeOK
  OrdersAreSound
