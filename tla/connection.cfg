\* Two symbols, either authorization: sockets die, opens and requests fail, streams stop.
SPECIFICATION FairSpec
CONSTANTS
  R100 = R100  R75 = R75  watchdog = watchdog  trader = trader  supervisor = supervisor
  NoTask = NoTask  Authorize = Authorize  NoItem = NoItem
  Symbols = {R100, R75}
  Callers = {watchdog, trader}
  Watchdog = watchdog  Supervisor = supervisor
  AuthModes = {"otp", "legacy"}
  MaxSockets = 3  MaxFaults = 1
CHECK_DEADLOCK FALSE
INVARIANTS
  TypeOK
  OneOpenSocket
  StreamsAreAuthorized
PROPERTIES
  FeedRecovers
  EveryRequestEnds
