CONSTANTS
  Players = {p1}
  Others = {q}
  Admins = {d1}
  MaxWaiting = 2
  MaxRows = 2
  MaxLost = 1
SPECIFICATION Spec
INVARIANTS TypeOK FlagInSync
PROPERTIES AdmitsOnlyApproved
CHECK_DEADLOCK FALSE
