CONSTANTS
  u1 = u1
  u2 = u2
  Users = {u1, u2}
  Cost = 2
  Burst = 3
  SpamStrikes = 2
  BanTime = 4
  IdleTime = 3
  CleanupEvery = 2
  MaxTime = 7
SPECIFICATION Spec
SYMMETRY Interchangeable
INVARIANTS TypeOK RateLimited
PROPERTIES BanServed BanEarned
