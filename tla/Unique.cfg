SPECIFICATION Spec
CONSTANTS
  a = a
  b = b
  c = c
  A = A
  Records = {x1, x2, x3}
  Values = {a, b, c}
  Spellings = {a, b, c, A}
  Stored <- AsStored
  Requests = {r1, r2, r3}
  Absent = absent
SYMMETRY Symmetric
INVARIANTS TypeOK Unique CirclesExchange
PROPERTIES ContractHolds
