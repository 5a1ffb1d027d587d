CONSTANTS
  Request <- WithRestore
  NoKey = NoKey
  None = None
  Altered = Altered
  MaxVersion = 4
  EngineDies = TRUE
  MaxUpsets = 2
  MaxDamage = 1
  MaxKeys = 3
SPECIFICATION FairSpec
INVARIANTS CurrentIsExplained
PROPERTIES OnlyRecordedKeysReturn PendingSettles
CHECK_DEADLOCK FALSE
