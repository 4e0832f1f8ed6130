SPECIFICATION FairSpec
CONSTANTS
  Tasks = {1, 2}
  Loops = {p, c1, c2}
  Anyone = anyone
  Producers = {p}
  Consumers = {c1, c2}
  Leaving = {c1}
  Targets = {c1}
  Capacity = 1
INVARIANTS TaskKept CountedArePresent ConsumerWoken
PROPERTIES DispatchedRuns
