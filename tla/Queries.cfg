\* Four events of two owners in every order, and one reader at a time.
SPECIFICATION Spec
CONSTANTS
  e1 = e1
  e2 = e2
  e3 = e3
  e4 = e4
  s1 = s1
  s2 = s2
  s3 = s3
  d1 = d1
  d2 = d2
  d3 = d3
  u1 = u1
  u2 = u2
  NoRow = NoRow
  Unknown = Unknown
  Chars <- Characters
  FoldChar <- Folded
  Units <- Utf16
  NUL = 0
  Ellipsis = 9
  FragmentCharacters = 4
  MatchesPerSession = 1
  FragmentsPerMatch = 2
  MaxInSessionHits = 2
  Users = {u1, u2}
  Devices = {d1, d2, d3}
  DeviceKey <- DeviceKeys
  Sessions = {s1, s2, s3}
  SessionKey <- SessionKeys
  EventIds = {e1, e2, e3, e4}
  CaptureIds = {}
  Pks <- Numbers
  MaxImages = 2
  MaxImageBytes = 2
  Zone <- Offsets
  DayLength = 4
  ScanLimit = 3
  TurnOf <- Turns
  Binary <- Bytes
  Collation <- Alphabet
  Submitted <- Events
  RawQueries <- Raws
  ListQueries <- Lists
  SummaryQueries <- Summaries
  ComparisonQueries <- Comparisons
  SearchQueries <- Searches
  Windows <- ShownWindows
INVARIANTS
  SearchIsScan
  InSessionSearchIsScan
  ShownOpens
  ProfilesAgree
  TotalsAgree
  WalkSeesEverything
  OptionsCoverChart
