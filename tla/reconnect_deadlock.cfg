\* Two symbols: the new socket dies while they are subscribed again.
SPECIFICATION FairSpec
CONSTANTS
  R100 = R100  R75 = R75  watchdog = watchdog  trader = trader  supervisor = supervisor
  NoTask = NoTask  Authorize = Authorize  NoItem = NoItem
  Symbols = {R100, R75}
  Callers = {watchdog, trader}
  Watchdog = watchdog  Supervisor = supervisor
  AuthModes = {"otp"}
  MaxSockets = 3  MaxFaults = 0
CHECK_DEADLOCK FALSE
PROPERTIES
  FeedAlwaysRecovers
