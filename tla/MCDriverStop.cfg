SPECIFICATION FairSpec
CONSTANTS
  None = None
  Calls = {tx, s1, s2}
  Sends = {s1, s2}
  Kept = {tx, s1}
  Retried = {tx}
  Capacity = 2
  MaxConns = 2
  Profiles = 2
  Attempts = 2
  PingInterval = 1
  PongTimeout = 2
  Reconnect = TRUE
PROPERTY ShutdownStops
CHECK_DEADLOCK FALSE
