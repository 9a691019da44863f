SPECIFICATION NSpec
CONSTANTS
  CallId = {a}
  MaxIter = 2
  Capacity = 1
  MaxCalls = 3
  MaxDeltas = 2
  Members <- MCMembers
  MaxTurns = 3
INVARIANTS
  ResultsMatchCalls
  NoOrphan
  GatherInOrder
PROPERTIES
  
  NodesEnd
CHECK_DEADLOCK FALSE
