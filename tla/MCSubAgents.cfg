CONSTANTS
  a = a
  b = b
  c = c
  Agent = {a, b, c}
  ToolName = {"echo", "missing", "delegate"}
  HostTool = {"echo", "delegate"}
  Confirm = {"echo"}
  Docs <- MCDocs
  Word = 16
  CurrentSchema = 1
  MaxAgents = 3
  MaxToolsPerAgent = 2
  MaxDelegateAgents = 3
  MaxDelegateDepth = 8
  Call = {1, 2}
  MaxIter = 2
  SubCap = 1
  TopCap = 1
  MaxToken = 2
  MaxNested = 1
SPECIFICATION Spec
INVARIANTS LoadDecides NoRecursion TokensInOrder
 
CHECK_DEADLOCK FALSE
