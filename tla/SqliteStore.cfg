\* Three requests, each sent twice at most, in every order and with every failure.
SPECIFICATION Spec
CONSTANTS
  r1 = r1
  r2 = r2
  r3 = r3
  e1 = e1
  e2 = e2
  e3 = e3
  s1 = s1
  s2 = s2
  d1 = d1
  d2 = d2
  d3 = d3
  c1 = c1
  c2 = c2
  u1 = u1
  u2 = u2
  NoRow = NoRow
  Nobody = Nobody
  Chars <- Characters
  FoldChar <- Folded
  Units <- Utf16
  NUL = 0
  Ellipsis = 9
  FragmentCharacters = 4
  MatchesPerSession = 2
  FragmentsPerMatch = 2
  MaxInSessionHits = 2
  Users = {u1, u2}
  Devices = {d1, d2, d3}
  DeviceKey <- DeviceKeys
  Sessions = {s1, s2}
  SessionKey <- SessionKeys
  EventIds = {e1, e2, e3}
  CaptureIds = {c1, c2}
  Pks <- Numbers
  MaxImages = 2
  MaxImageBytes = 2
  Requests = {r1, r2, r3}
  UserOf <- AllOwners
  Batch <- AllBatches
  Captures <- AllCaptures
  MaxBatchSize = 2
  MaxSends = 2
INVARIANTS
  SessionRowIsTrue
  IndexIsExact
PROPERTIES
  ImplementsEventStore
\* All requests are answered in the end, and the collectors stop.
CHECK_DEADLOCK FALSE
