SPECIFICATION FairSpec
CONSTANTS
  Values = {"a", "b", "other"}
  Plans <- MCPlans
  Capacity = 1
  MaxAborts = 1
INVARIANTS
  StreamExact
  EndMeansAll
PROPERTIES
  ConnectionEnds
