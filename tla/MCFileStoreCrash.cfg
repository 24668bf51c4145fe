SPECIFICATION Spec
CONSTANTS
  CompactRatio = 2
  CompactFloor = 3
  MaxMessages = 3
  MaxAttempts = 1
  MaxCrashes = 2
  MaxFailures = 1
  WriteFailures = {"Nothing"}
  SyncMayFail = TRUE
INVARIANTS AttemptsKept OldestFirst JournalBounded
PROPERTY ImplementsStore
