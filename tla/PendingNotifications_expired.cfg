CONSTANTS
  Requests = {r1, r2}
  Clients = {c1, c2}
  Pollers = {}
  Ids = {u, v}
  CallerIds = {}
  HeaderSafeIds = {u, v}
  NoId = NoId
  NoRequest = NoRequest
  Nobody = Nobody
SPECIFICATION Spec
CHECK_DEADLOCK FALSE
INVARIANT ExpiredIsAnnounced
