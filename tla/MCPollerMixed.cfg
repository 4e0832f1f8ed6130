SPECIFICATION Spec
CONSTANTS
  NoFd = nofd
  Fds = {f1, f2}
  HighFds = {f2}
  HupFds = {f1}
  IOWaits = {r1, r2}
  UserWaits = {u1}
  Sleeps = {}
  Aborts = {"token", "timeout"}
  Delays = {1}
  Closing = TRUE
  Dispatching = TRUE
  MaxPerWait = 1
  MaxTime = 1
SYMMETRY WaitSymmetry
INVARIANTS OneHome  InterruptTruthful  TimeoutsArmed
