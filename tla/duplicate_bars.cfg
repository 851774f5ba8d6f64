\* A restart seeds a bar that was stored with its last tick's epoch.
SPECIFICATION Spec
CONSTANTS
  Bar = 3  QueueSize = 2  SeedBars = 3
  TickHorizons = {1}  TimeHorizons = {3}
  MaxEpoch = 8  MaxTickGap = 2  MaxSetups = 0
  MaxRestarts = 1  MaxRepeats = 0  MaxOutliers = 0
CHECK_DEADLOCK FALSE
INVARIANTS
  OneRowPerBar
