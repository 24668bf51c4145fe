SPECIFICATION FairSpec
CONSTANTS
  Ids = {i1, i2}
  Arrivals <- StationArrivals
  Csms = FALSE
  Serve = TRUE
  MaxPeerRequests = 1
  EnforceBootGate = TRUE
  StatusActions <- BootAnswers
  Permits = 2
  Capacity = 1
  UniqueIds = TRUE
  HandlerMayPanic = TRUE
  MaxRequests = 3
  MaxConnections = 2
INVARIANTS PendingAreHandled AnswersComeHome WaitingBounded
PROPERTY CallsAnswered
CHECK_DEADLOCK FALSE
