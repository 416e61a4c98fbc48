CONSTANTS
  u1 = u1
  u2 = u2
  s1 = s1
  s2 = s2
  Users = {u1}
  Sessions = {s1, s2}
  UserOf <- TwoChats
  Admins = {d1, d2}
  Apps = {a1, a2, a3}
  Contacts = {c1}
  NoContact = NoContact
  NoApp = NoApp
  NoUser = NoUser
  PendingCap = 1
  MaxErasures = 1
  MaxEdits = 0
  MaxCrashes = 1
SPECIFICATION Spec
SYMMETRY Interchangeable
PROPERTIES ImplementsLifecycle
INVARIANTS TypeOK OneActivePerUser NothingOutlivesErasure QueueOvershoot AuditMatchesStatus OneNoticeAfterCommit
CHECK_DEADLOCK FALSE
