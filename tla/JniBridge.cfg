SPECIFICATION JSpec
CONSTANTS
  RunThread = run
  UserThread = user
  Thread = {run, user}
  Callback = {1, 2, 3}
  Waiter = {w}
  Worker = {k1, k2}
  NTool = 2
  Capacity = 2
  MaxToken = 4
  MaxCancel = 2
INVARIANTS ExactlyOnePlace  TokensWhole
PROPERTIES  StreamReturns
CHECK_DEADLOCK FALSE
