SPECIFICATION Spec
CONSTANTS
  Members = {owner, m1}
  Owner = owner
  Agents = {m1}
  Tickets = {t1}
  Texts = {x}
  Requests = {r1, r2}
  Nobody = nobody
  Nothing = nothing
  MaxRequests = 3
  MaxChanges = 0
INVARIANT TimelineInOrder
CHECK_DEADLOCK FALSE
