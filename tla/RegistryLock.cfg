SPECIFICATION FairSpec
CONSTANTS
  t1 = t1
  t2 = t2
  t3 = t3
  Thread <- MCThread
  Process <- MCProcess
  LockFile = {f, g}
  None = None
  Bounds = {0, 5}
  FirstBackoff = 1
  MaxBackoff = 3
  HeartbeatInterval = 2
INVARIANTS
  WithinBound
  NoHoldAndWait
  FlagIsTrue
PROPERTIES
  AcquireReturns
  ImplementsMutex
