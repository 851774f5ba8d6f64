\* Two processes watch the same contract over queues of two updates.
SPECIFICATION FairSpec
CONSTANTS
  old_process = old_process  new_process = new_process
  Monitors = {old_process, new_process}
  QueueSize = 2  MaxUpdates = 3  MaxFaults = 2
CHECK_DEADLOCK FALSE
INVARIANTS
  TypeOK
  SoldUpdateIsKept
  CountedOnce
PROPERTIES
  ImplementsFairPromise
