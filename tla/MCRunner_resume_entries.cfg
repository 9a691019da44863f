SPECIFICATION Spec
CONSTANTS
  Node = {"a", "b", "c"}
  Edge = {1, 2}
  From <- TwoEntryFrom
  To <- TwoEntryTo
  Group <- Zeros2
  Cond <- All2
  Policy = "AfterEachNode"
  MaxFirings = 2
  MaxRestarts = 1
  NoNode = NoNode
  None = None
  Partial = Partial
INVARIANT
  ReturnMeansDone
