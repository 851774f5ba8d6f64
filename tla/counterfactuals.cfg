\* Two symbols, four bars, two prices: rises, falls and ties; a symbol's task
\* one bar late.
SPECIFICATION FairSpec
CONSTANTS
  R100 = R100  R75 = R75
  Symbols = {R100, R75}
  DurationBars = 1  BatchSize = 3  WarmupBars = 0
  Stake = 2  WinProfit = 1
  Kinds <- MCKinds   MaxBars = 4  MaxBehind = 2  MaxCrashes = 1
CHECK_DEADLOCK FALSE
INVARIANTS
  TypeOK
  VerdictsAreFinal
  BacktestIsTheEquityCurve
PROPERTIES
  EveryRowIsJudged
