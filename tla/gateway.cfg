SPECIFICATION Spec
CONSTANTS
  Absent = Absent
  Source = {s1, s2}
  Build = {b1, b2}
  QueryChanges = 2
  DecidedPool = {1}
  Decided = {1}
  Rule <- Rules
  Treatment = {"clear", "custody"}
  Suits <- Fit
  Handler = {1, 2}
  Key = {1}
  MaxVersion = 3
  Undecided = Undecided
  Agent = {a1}
  PoolCredential = {c1}
  Request = {r1, r2}
  MaxPoolKeys = 2
  KeyTime = 3
  Grace = 1
  ReceiptLife = 2
  IdleTime = 1
  Stale = 2
  Gone = 1
  RequestChanges = 2
  Process = {n1}
  Ceiling = 1
  MaxRevisions = 3
  Budget = 3
  AuthzTime = 2
  Runs = {1, 2}
  EvidenceTime = 2
  PageSize = 1
  ExportChanges = 2
  Migration = {1, 2, 3}
  Runner = {m1, m2}
  MaxRuns = 4
  Scope = {x1, x2}
  Branch = {y1, y2}
  Gateway = {w1, w2}
  MaxRefused = 1
  MaxCodes = 1
  MaxWork = 1
  MaxUpsets = 2
  Statements = 2
INVARIANTS QueriesAreRecorded  OnlyTheEntitledLearn NothingIsLost
PROPERTIES DecidedByAPersonStays StepsKeepFaith
CHECK_DEADLOCK FALSE
