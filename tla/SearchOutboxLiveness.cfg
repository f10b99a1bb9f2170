\* Progress of two replicas; without symmetry, which liveness does not allow.
SPECIFICATION FairSpec
CONSTANTS
  NoWorker = NoWorker
  Events = {e1}
  Historical = {}
  Removable = {}
  Workers = {w1, w2}
  BatchSize = 1
  LeaseSeconds = 1
  MaxAttempts = 2
  MaxRetryDelay = 1
  MaxStops = 1
  MaxDbErrors = 1
PROPERTIES
  EverySettles
