SPECIFICATION FairSpec
CONSTANTS
  Submissions = {s1, s2, s3}
  TicketKeys = {k1}
  JobKeys = {k2}
  Hashes = {h1, h2}
  Unbound = unbound
INVARIANTS TypeOK OneEffect AnswersAgree NoErrors
PROPERTIES ContractHolds SubmissionsEnd
CHECK_DEADLOCK FALSE
