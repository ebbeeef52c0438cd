CONSTANTS
  Requests = {r1, r2}
  Clients = {c1, c2}
  Pollers = {}
  Ids = {x, u}
  CallerIds = {x}
  HeaderSafeIds = {x, u}
  NoId = NoId
  NoRequest = NoRequest
  Nobody = Nobody
SPECIFICATION Spec
CHECK_DEADLOCK FALSE
INVARIANT GoneMeansExpired
