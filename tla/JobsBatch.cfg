SPECIFICATION Spec
CONSTANTS
  EmailJobs = {e1}
  ExportJobs = {x1}
  NoJob = none
  Workers = {w1}
  Dispatchers = {d1, d2}
  MaxAttempts = 2
  LeaseSeconds = 2
  SoftLimit = 1
  HardLimit = 2
  RetryBase = 1
  RetryMax = 1
  BatchSize = 2
  MaxCrashes = 1
  MaxTimeouts = 0
  MaxErrors = 0
  MaxOutages = 1
  MaxCopies = 1
SYMMETRY Symmetric
INVARIANTS SucceededIsDone MessagesAccounted
