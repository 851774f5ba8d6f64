\* Two symbols, two contracts, a crash, a lost buy answer, one day; fair tasks.
SPECIFICATION FairSpec
CONSTANTS
  R100 = R100  R75 = R75  c1 = c1  c2 = c2  c3 = c3
  NoSymbol = NoSymbol  NoContract = NoContract
  Symbols = {R100, R75}
  Contracts = {c1, c2}
  Stake = 1  WinProfit = 1  StartBalance = 10
  MaxStake = 1  MaxDailyLoss = 2  MaxDrawdown = 2  MaxConsecutiveLosses = 2
  MaxTradesPerDay = 2  MaxConcurrentTrades = 2  CooldownSeconds = 0
  PortfolioAttempts = 2  ResearchMode = FALSE
  Results = {"won", "lost"}
  MaxDay = 1  MaxCrashes = 1  MaxTimeouts = 1
  MaxRefreshes = 0  MaxDbFaults = 0  MaxResets = 0
CHECK_DEADLOCK FALSE
INVARIANTS
  TypeOK
  SymbolExclusive
  TasksFollowJournal
  JournalIsTruthful
  RestartSafeCounters
  TradeCountOvershoot
  OrphansOnlyFromLostAnswers
PROPERTIES
  ImplementsLedger
  EveryTradeIsBooked
  EverySymbolIsFreed
