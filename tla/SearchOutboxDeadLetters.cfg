\* The schema comment on dead letters, against a late success.
SPECIFICATION Spec
CONSTANTS
  NoWorker = NoWorker
  Events = {e1}
  Historical = {}
  Removable = {}
  Workers = {w1, w2}
  BatchSize = 1
  LeaseSeconds = 1
  MaxAttempts = 2
  MaxRetryDelay = 1
  MaxStops = 0
  MaxDbErrors = 0
PROPERTY DeadLettersAreTerminal
