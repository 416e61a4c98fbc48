CONSTANTS
  p1 = p1
  p2 = p2
  p3 = p3
  h1 = h1
  h2 = h2
  Procs = {p1, p2, p3}
  Hosts = {h1, h2}
  HostOf <- Deployment
  VersionOf <- RollingUpdate
  Nobody = Nobody
  Dead = Dead
  MaxUpdates = 2
  MaxFaults = 2
  MaxLosses = 1
SPECIFICATION FairSpec
INVARIANTS TypeOK OnePoller HandledOnce SchemaNotBehind
PROPERTIES TakesOver
CHECK_DEADLOCK FALSE
