SPECIFICATION FairSpec
CONSTANTS
  None = None
  Connections = {c1, c2, c3}
  Requests <- TwoStations
  MaxConnections = 1
  MaxPending = 2
  Supersede = {TRUE, FALSE}
INVARIANTS RouterExact OvershootBounded
PROPERTIES EveryoneIsServed OneSessionEach
CHECK_DEADLOCK FALSE
