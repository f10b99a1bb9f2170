SPECIFICATION Spec
CONSTANTS
  None = None
  Clients <- SilentClients
INVARIANTS BasesAreTrue
\* A session ends when its bounds are reached and everything is stored.
CHECK_DEADLOCK FALSE
