CONSTANTS
  Tx = {t1, t2}
  Players = {p1, p2}
  Counters = {k1, k2}
  Contacts = {c1, c2}
  NoContact = NoContact
  MaxFilings = 2
  MaxErasures = 1
SPECIFICATION Spec
SYMMETRY Interchangeable
INVARIANTS TypeOK 
