SPECIFICATION FairSpec
CONSTANTS
  Frames = {m, a, b}
  Main = m
  Nobody = nobody
  Caller = caller
  Workers = {w1, w2}
INVARIANTS OneDestroyer ResumedOnce FutureReady
PROPERTIES ExecutedResumes PoolDrains
