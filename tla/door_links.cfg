CONSTANTS
  Players = {p1}
  Others = {q}
  Admins = {d1}
  MaxWaiting = 2
  MaxRows = 1
  MaxLost = 0
SPECIFICATION Spec
PROPERTY DoorAdmitsTheInvited
CHECK_DEADLOCK FALSE
