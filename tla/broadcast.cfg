CONSTANTS
  Admins = {a1, a2}
  Players = {p1, p2}
  MaxTexts = 2
  MaxCrashes = 1
SPECIFICATION Spec
INVARIANTS TypeOK OncePerRecipient DroppedStaysUnsent
