CONSTANTS
  Responses <- MCResponses
  MaxErrorBody = 2
  EventLimit = 3
SPECIFICATION Spec
INVARIANT PayloadsWhole
PROPERTY RequestEnds
CHECK_DEADLOCK FALSE
