SPECIFICATION FairSpec
CONSTANTS
  NoFd = nofd
  Fds = {f1}
  HighFds = {}
  HupFds = {}
  IOWaits = {r1}
  UserWaits = {u1}
  Sleeps = {s1}
  Aborts = {"none", "token", "timeout"}
  Delays = {0, 1}
  Closing = FALSE
  Dispatching = FALSE
  MaxPerWait = 4
  MaxTime = 1
PROPERTIES WokenResumes ExpiredResumes LoopEnds
