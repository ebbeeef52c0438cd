CONSTANTS
  o1 = o1
  Occurrences = {o1}
  FireAt <- OneFireAt
  Grace <- OneGrace
  Horizon = 3
  Retain = 3
  SnoozeFor = {2}
  Lag = 1
  MaxTime = 5
  MaxSnoozes = 1
  MaxCrashes = 0
  MaxErrors = 0
  MaxReloads = 1
  Never = Never
  NoOccurrence = NoOccurrence
SPECIFICATION Spec
CHECK_DEADLOCK FALSE
PROPERTY ShutdownDrainsCommands
