SPECIFICATION Spec
CONSTANTS
  MaxConns = 4
  MaxTasks = 2
  MaxMessages = 2
  MaxFailures = 2
  MaxActions = 1
  MaxLinkInputs = 3
  MinBackoff = 1
  MaxBackoff = 2
  Payloads <- MCPayloads
  MaxArrivals = 2
  MaxInputs = 2
  MaxDeaths = 1
  FullSwell = 2
  Torn = Torn
  Files <- MCFiles
  Samples <- MCSamples
  NoText = NoText
  BadPattern = BadPattern
  NoCalendar = NoCalendar
  NoService = NoService
  Port = 1
  DefaultPort = 2
  Blank = Blank
  Broken = Broken
  ClosedWindow = ClosedWindow
  MaxEdits = 3
  Notes = {"n1", "n2", "n3"}
  Folded <- MCFolded
  Extra <- MCExtra
  Icons = {"n1"}
  Widths <- MCWidths
  ContentX = 3
  IconSpace = 4
  CardSpan <- MCCardSpan
  ClearSpan <- MCClearSpan
  CloseSpan <- MCCloseSpan
  Header = 2
  Gap = 1
  Padding = 1
  ButtonH = 1
  ButtonGap = 1
  View = 8
  Frames = 2
  Spots <- MCSpots
  Wheel = 3
  MaxMoves = 3
INVARIANTS
  DaemonTypeOK
  RunningIsListed
  NoGapsWhileConnected
  StatusFollowsTask
  EachInOnePlace
  TrayTellsTheStore
  CardsAreOnScreen
  ConfigFollowsFile
  HandlesAreParallel
  ConfiguredCalendarRuns
  NoCardOverlaps
PROPERTIES
  UntouchedSaveIsHarmless
  ClickHitsTheCard
  LinkComesBack
  TimedCardsLeave
CHECK_DEADLOCK FALSE
