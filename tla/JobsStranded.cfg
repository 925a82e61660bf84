SPECIFICATION Spec
CONSTANTS
  EmailJobs = {e1}
  ExportJobs = {}
  NoJob = none
  Workers = {w1}
  Dispatchers = {d1}
  MaxAttempts = 3
  LeaseSeconds = 3
  SoftLimit = 1
  HardLimit = 2
  RetryBase = 1
  RetryMax = 2
  BatchSize = 1
  MaxCrashes = 0
  MaxTimeouts = 1
  MaxErrors = 0
  MaxOutages = 0
  MaxCopies = 0
INVARIANTS NotLost
