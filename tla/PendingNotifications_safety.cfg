CONSTANTS
  Requests = {r1, r2}
  Clients = {c1, c2}
  Pollers = {p1}
  Ids = {x}
  CallerIds = {x}
  HeaderSafeIds = {x}
  NoId = NoId
  NoRequest = NoRequest
  Nobody = Nobody
SPECIFICATION Spec
SYMMETRY Symmetry
CHECK_DEADLOCK FALSE
INVARIANTS
  TypeOK
  MapHoldsLiveEntries
  VerdictsAgree
  AnnouncedOnce
  ResolvedIsAnnounced
