SPECIFICATION FairSpec
CONSTANTS
  CallId = {1, 2}
  Key = {k1, k2}
  NoId = NoId
  NoKey = NoKey
  MaxImages = 1
  MaxRetries = 2
  MaxSends = 3
  MaxFrames = 2
INVARIANTS RequestPaired ShownIsRecorded
PROPERTIES RejectedLeavesNoTrace SendEnds
CHECK_DEADLOCK FALSE
