SPECIFICATION Spec
CONSTANTS
  Uploads = {u1, u2}
  Downloads = {d1, d2}
  Absent = absent
  NoUpload = noUpload
  MaxSize = 2
  MaxFaults = 3
INVARIANTS TypeOK AnswersTrue RowHasFile ServedWhole
CHECK_DEADLOCK FALSE
