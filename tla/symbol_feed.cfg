\* Bars of three seconds, ticks at most two seconds apart, one restart.
SPECIFICATION Spec
CONSTANTS
  Bar = 3  QueueSize = 2  SeedBars = 3
  TickHorizons = {1, 2}  TimeHorizons = {3}
  MaxEpoch = 9  MaxTickGap = 2  MaxSetups = 2
  MaxRestarts = 1  MaxRepeats = 1  MaxOutliers = 1
CHECK_DEADLOCK FALSE
INVARIANTS
  TypeOK
  BarsAreTheTicks
  OutcomesAreReal
  EverySetupIsMeasuredOnce
