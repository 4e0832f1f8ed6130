SPECIFICATION FairSpec
CONSTANTS
  NoFd = nofd
  Fds = {f1}
  HighFds = {}
  HupFds = {}
  IOWaits = {r1}
  UserWaits = {}
  Sleeps = {}
  Aborts = {"token"}
  Delays = {1}
  Closing = FALSE
  Dispatching = FALSE
  MaxPerWait = 2
  MaxTime = 1
PROPERTY CancelledIOResumes
