CONSTANTS
  u1 = u1
  u2 = u2
  s1 = s1
  s2 = s2
  Users = {u1}
  Sessions = {s1}
  UserOf <- OneChat
  Admins = {d1}
  Apps = {a1}
  Contacts = {c1}
  NoContact = NoContact
  NoApp = NoApp
  NoUser = NoUser
  PendingCap = 1
  MaxErasures = 1
  MaxEdits = 0
  MaxCrashes = 0
SPECIFICATION Spec
INVARIANTS OnlyMarkersStay
CHECK_DEADLOCK FALSE
