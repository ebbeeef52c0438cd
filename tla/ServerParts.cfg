SPECIFICATION Spec
CONSTANTS
  Tokens = {"t1", "t2"}
  Requests <- MCRequests
  Handlers = {h1}
  Dispatchers = {d1}
  NoDevice = NoDevice
  MaxCalls = 2
  MaxPushes = 1
  MaxCrashes = 1
  JwtMaxAge = 4
  AppleMaxAge = 6
  AppleMinGap = 2
  NoToken = NoToken
  Steps <- MCSteps
  MaxWall = 10
  MaxSends = 3
  MaxSteps = 2
  Day = 6
  Horizon = 4
  Grace = 1
  Limit = 4
  Events <- MCEvents
  Calendars <- MCCalendars
  MaxTime = 12
  Zones <- MCZones
  FireHours = {0, 2, 3, 5}
  Agendas <- MCAgendas
  MaxClock = 32
  MaxFaults = 1
  Alerts <- MCAlerts
  Texts <- MCTexts
  GroupKeys = {"k", ""}
  ExternalURL = "x"
  MaxPosts = 3
  Setups <- MCSetups
INVARIANTS
  ServerTypeOK
  FileIsWhole
  SavedSurvivesRestart
  MissedOnlyInPause
  OneAgendaPerDay
  NoDayMissed
  AgendaIsComplete
  PagesAreLoud
  PushAsAsked
  AttachedInTime
PROPERTIES
  ChangesByRequestOrDeath
  DeadArePruned
  WithinAppleLimits
CHECK_DEADLOCK FALSE
