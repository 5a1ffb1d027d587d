CONSTANTS
  None = None
  Driver = {d1, d2}
  Invocation = {i1, i2}
  Relation = {binding, membership}
  BoundPool = {binding}
  Batch <- OneDecision
  Dispatcher = {d1, d2}
  SessionsMayDrop = TRUE
  MaxEntries = 4
SPECIFICATION SpecAll
INVARIANTS NeitherIsLooser NothingMoreIsDisclosed CompiledNamesAreOwn DecisionsKeepTheirGround WrittenInOrder
PROPERTIES NothingChangesUntold
CHECK_DEADLOCK FALSE
