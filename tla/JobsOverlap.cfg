SPECIFICATION Spec
CONSTANTS
  EmailJobs = {e1}
  ExportJobs = {}
  NoJob = none
  Workers = {w1, w2}
  Dispatchers = {d1}
  MaxAttempts = 3
  LeaseSeconds = 1
  SoftLimit = 1
  HardLimit = 2
  RetryBase = 1
  RetryMax = 2
  BatchSize = 1
  MaxCrashes = 1
  MaxTimeouts = 1
  MaxErrors = 1
  MaxOutages = 0
  MaxCopies = 1
SYMMETRY Symmetric
INVARIANTS SingleDelivery SendsWithinAttempts
