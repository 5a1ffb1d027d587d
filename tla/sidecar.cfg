SPECIFICATION PartSpec
CONSTANTS
  None = None
  Request = {r1, r2, r3, r4}
  Concurrency = {1, 2}
  MaxQueued = 3
  Operation = {o1, o2}
  MaxConnections = 1
  Source = {s1, s2}
  MaxStagingRows = 1
  MaxScans = 2
  Call = {c1}
  Client = {k1, k2}
  Attempts = 2
  MaxChanges = 3
  Zone = {z1, z2}
  Pid = {p1, p2}
  Delays = 1
  MaxStarts = 3
  Separate = TRUE
  Sheet <- DeliveredFirst
  Later <- DeliveredLater
  Declaration <- DeclaredOnce
  MaxAlterations = 1
  MaxFilings = 2
  Restored = FALSE
INVARIANTS NobodyWaitsForNothing EngineKeepsItsWord FilesLandWhole
PROPERTIES OverdueIsRefused EveryLeaseReturns OthersAreLeftAlone
CHECK_DEADLOCK FALSE
