SPECIFICATION AppSpec
CONSTANTS
  Payloads <- MCPayloads
  MaxArrivals = 1
  MaxInputs = 2
  MaxDeaths = 0
  FullSwell = 1
  Torn = Torn
INVARIANT ResolvedIsDismissed
CHECK_DEADLOCK FALSE
