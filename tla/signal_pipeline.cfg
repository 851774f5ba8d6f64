\* Five bars, the first one without enough history, a window of two bars and at
\* most one clock bucket without a bar between two bars.
SPECIFICATION Spec
CONSTANTS
  Window = 2  MinBars = 2  Timeframe = 3
  MaxBars = 5  MaxEarly = 1  MaxGap = 1
CHECK_DEADLOCK FALSE
INVARIANTS
  TypeOK
  TradesFollowSetups
  RejectedOnce
  SamplesApart
