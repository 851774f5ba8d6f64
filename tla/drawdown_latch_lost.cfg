\* A drawdown stop and a restart on the same day.
SPECIFICATION Spec
CONSTANTS
  R100 = R100  R75 = R75  c1 = c1  c2 = c2  c3 = c3
  NoSymbol = NoSymbol  NoContract = NoContract
  Symbols = {R100, R75}
  Contracts = {c1, c2, c3}
  Stake = 1  WinProfit = 1  StartBalance = 10
  MaxStake = 1  MaxDailyLoss = 2  MaxDrawdown = 2  MaxConsecutiveLosses = 5
  MaxTradesPerDay = 5  MaxConcurrentTrades = 2  CooldownSeconds = 0
  PortfolioAttempts = 3  ResearchMode = FALSE
  Results = {"won", "lost"}
  MaxDay = 1  MaxCrashes = 1  MaxTimeouts = 0
  MaxRefreshes = 0  MaxDbFaults = 0  MaxResets = 0
SYMMETRY Symmetry
CHECK_DEADLOCK FALSE
PROPERTIES
  LatchSurvivesRestart
