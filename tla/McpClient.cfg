SPECIFICATION CSpec
CONSTANTS
  Caller = {c1, c2}
  Timed = {c2}
  MaxId = 3
  MaxChild = 2
  CanShutdown = TRUE
  Deaths = {"clean", "midline"}
  HttpCaller = {c1, c2, c3}
  HttpTimed = {c2}
  MaxSession = 2
  MaxCalls = 3
  Reader = {r1, r2}
  CanExpire = TRUE
INVARIANTS OkIsAnswered ReaderTracked
PROPERTIES HandshakeFailsForCause  HttpCallsEnd
CHECK_DEADLOCK FALSE
