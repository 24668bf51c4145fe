SPECIFICATION Spec
CONSTANTS
  CompactRatio = 2
  CompactFloor = 3
  MaxMessages = 2
  MaxAttempts = 1
  MaxCrashes = 1
  MaxFailures = 1
  WriteFailures = {"Nothing"}
  SyncMayFail = TRUE
INVARIANT OneWriterOpens
