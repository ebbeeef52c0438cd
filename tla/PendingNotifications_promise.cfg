CONSTANTS
  Requests = {r1, r2}
  Clients = {c1}
  Pollers = {}
  Ids = {x, y, u}
  CallerIds = {x, y}
  HeaderSafeIds = {x, u}
  NoId = NoId
  NoRequest = NoRequest
  Nobody = Nobody
SPECIFICATION FairSpec
CHECK_DEADLOCK FALSE
PROPERTIES
  KeepsPromise
  EveryRequestEnds
