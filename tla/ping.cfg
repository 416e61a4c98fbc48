CONSTANTS
  Apps = {x1, x2, x3}
  Admins = {a1, a2}
  Window = 2
  MaxTime = 3
  MaxCrashes = 1
SYMMETRY Symmetry
SPECIFICATION Spec
INVARIANTS PingsSpaced NoticedOrDebounced
CHECK_DEADLOCK FALSE
