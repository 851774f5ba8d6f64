\* Two symbols, two live outcomes, a replayed row, one database error or crash.
SPECIFICATION FairSpec
CONSTANTS
  R100 = R100  R75 = R75  ticks = ticks  minutes = minutes
  Symbols = {R100, R75}
  Horizons = {minutes}  MinuteHorizons = {minutes}
  MinSamples = 2  Lookback = 1  PoolSymbols = TRUE
  MaxEpoch = 2  MaxEmitted = 2  MaxReplayed = 1  MaxFaults = 1
CHECK_DEADLOCK FALSE
INVARIANTS
  TypeOK
  EstimatesAreBacked
PROPERTIES
  EvidenceArrives
