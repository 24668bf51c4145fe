SPECIFICATION Spec
CONSTANTS
  None = None
  Requests <- BootOnly
  MaxTokens = 2
  MaxQueued = 2
  CallTimeout = 1
  RetryAttempts = 2
  RetryInterval = 1
  EnforceBootGate = TRUE
  AutoHeartbeat = FALSE
  BootIntervals = {0, 2}
  BootRetryFallback = 1
  DrainTime = 1
  MaxDisconnects = 1
  MaxHalts = 0
  StoreMayFail = FALSE
INVARIANT AcceptedIsNormalOperation
