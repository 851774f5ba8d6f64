\* One symbol, two contracts, two days, two crashes, a lost answer, a balance refresh, two failing journal statements, a reset.
SPECIFICATION Spec
CONSTANTS
  R100 = R100  R75 = R75  c1 = c1  c2 = c2  c3 = c3
  NoSymbol = NoSymbol  NoContract = NoContract
  Symbols = {R100}
  Contracts = {c1, c2}
  Stake = 1  WinProfit = 1  StartBalance = 10
  MaxStake = 1  MaxDailyLoss = 2  MaxDrawdown = 2  MaxConsecutiveLosses = 3
  MaxTradesPerDay = 2  MaxConcurrentTrades = 2  CooldownSeconds = 1
  PortfolioAttempts = 1  ResearchMode = FALSE
  Results = {"won", "lost", "refund"}
  MaxDay = 2  MaxCrashes = 2  MaxTimeouts = 1
  MaxRefreshes = 1  MaxDbFaults = 2  MaxResets = 1
SYMMETRY Symmetry
CHECK_DEADLOCK FALSE
INVARIANTS
  DailyLossIsLatched
  TradesNeverOvercounted
  LadderIsTheJournals
