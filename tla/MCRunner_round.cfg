SPECIFICATION FairSpec
CONSTANTS
  Node = {"a", "b", "c", "d"}
  Edge = {1, 2, 3, 4}
  From <- RoundFrom
  To <- RoundTo
  Group <- RoundGroup
  Cond <- RoundCond
  Policy = "Off"
  MaxFirings = 3
  MaxRestarts = 0
  NoNode = NoNode
  None = None
  Partial = Partial
PROPERTIES
  NoReentry
  CancelEndsRun
