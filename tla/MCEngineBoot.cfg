SPECIFICATION FairSpec
CONSTANTS
  None = None
  Requests <- BootCalls
  MaxTokens = 3
  MaxQueued = 2
  CallTimeout = 1
  RetryAttempts = 2
  RetryInterval = 1
  EnforceBootGate = TRUE
  AutoHeartbeat = TRUE
  BootIntervals = {0, 2}
  BootRetryFallback = 1
  DrainTime = 1
  MaxDisconnects = 1
  MaxHalts = 1
  StoreMayFail = FALSE
INVARIANT TimersArmed
PROPERTIES BootGate CallsResolve DrainEnds
