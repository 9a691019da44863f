SPECIFICATION FairSpec
CONSTANTS
  Conv = {c1, c2}
  Turns = 2
  N = 2
  Cap = 1
  MayCancel = TRUE
INVARIANT SlotConserved
PROPERTIES  TurnEnds
CHECK_DEADLOCK FALSE
