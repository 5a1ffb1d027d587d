CONSTANTS
  Session = {s1}
  Worker = {w1, w2}
  NoRecord = NoRecord
  Absolute = 2
  Idle = {1}
  Horizon = 1
  MaxCalls = 3
SPECIFICATION Spec
INVARIANTS RevokedIsGone
CHECK_DEADLOCK FALSE
