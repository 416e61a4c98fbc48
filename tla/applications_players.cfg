CONSTANTS
  u1 = u1
  u2 = u2
  s1 = s1
  s2 = s2
  Users = {u1, u2}
  Sessions = {s1, s2}
  UserOf <- TwoPlayers
  Admins = {d1}
  Apps = {a1, a2}
  Contacts = {c1, c2}
  NoContact = NoContact
  NoApp = NoApp
  NoUser = NoUser
  PendingCap = 1
  MaxErasures = 1
  MaxEdits = 1
  MaxCrashes = 0
SPECIFICATION Spec
SYMMETRY InterchangeableData
PROPERTIES DecisionFinal ContactFixMeansTaken
INVARIANTS SnapshotInSync NoPlayerLogStays
CHECK_DEADLOCK FALSE
