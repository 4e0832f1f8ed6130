SPECIFICATION FairSpec
CONSTANTS
  Coros = {c1, c2, c3}
  OneLoop = FALSE
  Loops <- MCLoops
  LoopOf <- MCLoopOf
  Aborts = {"token"}
  LockedTimeouts = TRUE
  MaxWaits = 1
CHECK_DEADLOCK FALSE
INVARIANTS HandOverValid WaitersReachable
PROPERTIES IsMonitor LockGranted WaitReturns NotifyOneWakesOne
