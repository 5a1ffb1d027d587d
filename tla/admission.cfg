SPECIFICATION Spec
CONSTANTS
  None = None
  Worker = {w1, w2}
  Invitation = {i1, i2}
  Session = {s1, s2}
  NoRecord = NoRecord
  Absolute = 2
  IdleTime = {1}
  Horizon = 2
  MaxCalls = 4
  Attempt = {a1, a2}
  Token = {t1, t2}
  Invited = {i1}
  MaxVersion = 1
  Request = {r1, r2}
  Key = {k1}
  Body = {b1, b2}
  Claim = {m1, m2}
  Company = {c1, c2, c3}
  Person = {p1, p2}
  Ask = {q1, q2}
  Device = {e1, e2}
  Limit = 1
  Machine = {d1, d2}
  MaxChallenges = 2
  MaxResets = 1
SYMMETRY Symmetry
INVARIANTS EntryIsEarned AnsweredMeansGranted RowsAndGrantsAgree
PROPERTIES GoneStaysGone
CHECK_DEADLOCK FALSE
