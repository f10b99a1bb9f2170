\* Two replicas and batches of two of three historical events: both backfill, each
\* may insert less than a batch because the other was faster, and both claim; a
\* crash or a shutdown.
SPECIFICATION Spec
CONSTANTS
  NoWorker = NoWorker
  Events = {e1, e2, e3}
  Historical = {e1, e2, e3}
  Removable = {}
  Workers = {w1, w2}
  BatchSize = 2
  LeaseSeconds = 1
  MaxAttempts = 1
  MaxRetryDelay = 1
  MaxStops = 1
  MaxDbErrors = 0
SYMMETRY ReplicasAndEvents
INVARIANTS
  OneWorkerPerLease
  NoLeakedLease
  ProcessedIsApplied
  BackfillCompleteIsSound
CHECK_DEADLOCK TRUE
