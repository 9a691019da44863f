SPECIFICATION Spec
CONSTANTS
  Node = {"a", "b", "c", "d"}
  Edge = {1, 2, 3, 4}
  From <- DiamondFrom
  To <- DiamondTo
  Group <- Zeros4
  Cond <- All4
  Policy = "AfterEachNode"
  MaxFirings = 3
  MaxRestarts = 2
  NoNode = NoNode
  None = None
  Partial = Partial
INVARIANTS
  JoinWaitsForAll
  PartialStaysPrivate
  CheckpointIsCut
  ReturnMeansDone
PROPERTY
  CheckpointAfterFanOut
