SPECIFICATION Spec
CONSTANTS
  EmailJobs = {e1}
  ExportJobs = {}
  NoJob = none
  Workers = {w1, w2}
  Dispatchers = {d1}
  MaxAttempts = 3
  LeaseSeconds = 1
  SoftLimit = 1
  HardLimit = 2
  RetryBase = 1
  RetryMax = 2
  BatchSize = 1
  MaxCrashes = 1
  MaxTimeouts = 0
  MaxErrors = 0
  MaxOutages = 0
  MaxCopies = 1
PROPERTIES TerminalIsFinal
