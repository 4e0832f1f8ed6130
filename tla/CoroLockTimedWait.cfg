SPECIFICATION FairSpec
CONSTANTS
  Coros = {c1, c2}
  OneLoop = FALSE
  Loops <- MCLoops
  LoopOf <- MCLoopOf
  Aborts = {"none"}
  LockedTimeouts = TRUE
  MaxWaits = 1
CHECK_DEADLOCK FALSE
PROPERTY TimedWaitReturns
