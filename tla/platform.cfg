SPECIFICATION Spec
CONSTANTS
  Absent = Absent
  Grant = {g1}
  Alias = {a1}
  Legacy = {a1}
  GraceEnds = 2
  Ttl = 2
  ReleaseTime = 4
  SigningKeys = 2
  MaxSwitches = 1
  Query = {q1}
  MaxVersions = 2
  RegistryChanges = 1
  Published = 3
  MaxOpens = 2
  MaxPending = 2
  HighWater = 2
  Request = {r1, r2}
  Job = {j1, j2}
  Session = {s1}
  Credential = {c1, c2}
  SessionChanges = 3
INVARIANTS NoGap
PROPERTIES SharesLeaveOnce HealsByItself EveryChangeIsTold
CHECK_DEADLOCK FALSE
