\* Two replicas contend for one row, with every kind of fault: crashes,
\* shutdowns, failed statements, failed bulk requests, a deleted event.
SPECIFICATION Spec
CONSTANTS
  NoWorker = NoWorker
  Events = {e1}
  Historical = {e1}
  Removable = {e1}
  Workers = {w1, w2}
  BatchSize = 1
  LeaseSeconds = 1
  MaxAttempts = 3
  MaxRetryDelay = 2
  MaxStops = 2
  MaxDbErrors = 1
SYMMETRY Replicas
INVARIANTS
  TypeOK
  ProcessedIsApplied
  
  DeadLetterIsEarned
  AttemptsCountFailures
  SettledOneWay
PROPERTY ImplementsProjection
