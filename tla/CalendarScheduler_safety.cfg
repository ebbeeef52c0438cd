CONSTANTS
  o1 = o1
  Occurrences = {o1}
  FireAt <- OneFireAt
  Grace <- OneGrace
  Horizon = 3
  Retain = 3
  SnoozeFor = {2}
  Lag = 1
  MaxTime = 5
  MaxSnoozes = 1
  MaxCrashes = 1
  MaxErrors = 1
  MaxReloads = 1
  Never = Never
  NoOccurrence = NoOccurrence
SPECIFICATION FairSpec
CHECK_DEADLOCK FALSE
INVARIANTS
  TypeOK
  DiskIsCurrent
  OncePerArming
PROPERTIES
  SnoozeSurvives
  OverdueIsSettled
