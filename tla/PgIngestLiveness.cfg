\* Two transactions that wait for each other's devices and events.
SPECIFICATION FairSpec
CONSTANTS
  r1 = r1
  r2 = r2
  r3 = r3
  r4 = r4
  e1 = e1
  e2 = e2
  e3 = e3
  s1 = s1
  s3 = s3
  d1 = d1
  d2 = d2
  d3 = d3
  c1 = c1
  c2 = c2
  u1 = u1
  u2 = u2
  NoRow = NoRow
  Nobody = Nobody
  Requests = {r1, r2}
  EventIds = {e1, e2, e3}
  Sessions = {s1, s3}
  Devices = {d1, d2, d3}
  CaptureIds = {c1, c2}
  Pks <- Numbers
  Batch <- Batches
  Captures <- CaptureLists
  UserOf <- Owners
  MaxBatchSize = 2
  MaxSends = 2
PROPERTY EveryRequestAnswered
\* All requests are answered in the end, and the collectors stop.
CHECK_DEADLOCK FALSE
