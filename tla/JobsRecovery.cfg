SPECIFICATION FairSpec
CONSTANTS
  EmailJobs = {e1}
  ExportJobs = {}
  NoJob = none
  Workers = {w1, w2}
  Dispatchers = {d1}
  MaxAttempts = 3
  LeaseSeconds = 3
  SoftLimit = 1
  HardLimit = 2
  RetryBase = 1
  RetryMax = 2
  BatchSize = 1
  MaxCrashes = 2
  MaxTimeouts = 0
  MaxErrors = 0
  MaxOutages = 1
  MaxCopies = 0
INVARIANTS TypeOK LeaseExclusive NotLost
PROPERTIES DeliveryIsFinal ContractHolds EventuallySettled
