SPECIFICATION FairSpec
CONSTANTS
  None = None
  Connections = {c1, c2}
  Requests <- TwoStations
  MaxConnections = 1
  MaxPending = 2
  Supersede = {TRUE}
PROPERTY SingleActiveConnection
CHECK_DEADLOCK FALSE
