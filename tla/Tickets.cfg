SPECIFICATION FairSpec
CONSTANTS
  Members = {owner, m1}
  Owner = owner
  Agents = {m1}
  Tickets = {t1}
  Texts = {x, y}
  Requests = {r1, r2}
  Nobody = nobody
  Nothing = nothing
  MaxRequests = 4
  MaxChanges = 1
INVARIANTS TypeOK AuditComplete AssignedWhileTaken
PROPERTIES HandsOff ContractHolds RequestsEnd
CHECK_DEADLOCK FALSE
