SPECIFICATION Spec
CONSTANTS
  Ids = {i1, i2}
  Arrivals <- BootAndData
  Csms = TRUE
  Serve = TRUE
  MaxPeerRequests = 2
  EnforceBootGate = TRUE
  StatusActions <- StatusAnswers
  Permits = 1
  Capacity = 1
  UniqueIds = TRUE
  HandlerMayPanic = FALSE
  MaxRequests = 2
  MaxConnections = 1
INVARIANT GateFollowsBoot
CHECK_DEADLOCK FALSE
