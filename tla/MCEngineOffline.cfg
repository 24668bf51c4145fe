SPECIFICATION Spec
CONSTANTS
  None = None
  Requests <- OfflineCalls
  MaxTokens = 2
  MaxQueued = 2
  CallTimeout = 1
  RetryAttempts = 2
  RetryInterval = 1
  EnforceBootGate = FALSE
  AutoHeartbeat = FALSE
  BootIntervals = {0}
  BootRetryFallback = 1
  DrainTime = 1
  MaxDisconnects = 1
  MaxHalts = 1
  StoreMayFail = TRUE
INVARIANTS AccountedFor Durable Chronological RetryBudget
PROPERTY AnsweredByPeer
