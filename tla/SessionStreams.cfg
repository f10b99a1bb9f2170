SPECIFICATION Spec
CONSTANTS
  None = None
  Clients <- AllClients
INVARIANTS
  UniqueWordsFindTrueBases
  RepeatsAreToldApart
  ContinuationsAreFound
  TurnsAreTrue
  SegmentsFormForest
  TimelineShowsEverySegmentOnce
  StartersComeFirst
  ViewsAgree
\* A session ends when its bounds are reached and everything is stored.
CHECK_DEADLOCK FALSE
