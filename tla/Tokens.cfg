SPECIFICATION Spec
CONSTANTS
  Tokens = {t1, t2, t3, t4}
  Requests = {r1, r2, r3}
  Nothing = nothing
  MaxRequests = 6
SYMMETRY Symmetric
INVARIANTS TypeOK OneActivePerLogin ReplacedByOne
PROPERTIES RevokedIsFinal RevokesAllKnown
CHECK_DEADLOCK FALSE
