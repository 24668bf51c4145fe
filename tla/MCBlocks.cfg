SPECIFICATION Spec
CONSTANTS
  Facts = {"ev_connected", "authorized"}
  TxStartPoints <- PowerPath
  TxStopPoints <- Stops
  Measurands <- Meters
  MaxEvents = 4
  MaxPruned = 1
  None = None
  Tokens = {"a", "b", "c"}
  Updates <- Lists
  Infos <- Verdicts
  Limit = 2
  Capacity = 2
  MaxClock = 4
  Never = Never
  Pool <- Installed
  Day = 3
  Voltage = 2
  Phases = 3
  Windows <- Asked
  MaxAnchors = 2
  MaxProfiles = 4
  Absent = Absent
  Interval = 1
  Timeout = 2
  Traffic <- Texts
  MaxFrames = 2
  Nothing = Nothing
  Offers <- Offered
  Responses <- Replies
  Bodies = {0, 3, 4}
  MaxMessage = 3
  MaxFrame = 2
  MaxControl = 1
  Threshold = 2
  MaxSent = 3
  MaxLink = 1
  NoParams = NoParams
  MaxMantissa = 127
  MAX_SCALE = 2
  MaxShift = 5
  Numbers <- Edges
  NoDecimal = NoDecimal
  SamplePool <- Shown
  MaxSamples = 3
  Kilo = 1
  Mega = 2
  NoReading = NoReading
  Declarations <- Own
  Catalogue <- Appendix
  Settings <- Wished
  PageSizes = {0, 1, 2}
  Unread = Unread
  Unset = Unset
  Actions = {"Boot", "Stop"}
  Payloads = {"p", "q"}
  Failure = Failure
  NoAction = NoAction
INVARIANTS
  NoStopMissed EnergyExact CountedOnce CompleteMeansAll
  NewestWins OnlyRepeatsOverfill NeverStaleAccept
  ScheduleExact
  OneAnswerEach LegsWatched
  DecodesExactly
  ArithmeticExact
  ReadingExact
  InventoryWhole
  SignaturesBind
CHECK_DEADLOCK FALSE
