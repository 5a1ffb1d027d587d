SPECIFICATION FairSpec
CONSTANTS
  Arrival = {a1, a2}
  Hash = {h1, h2}
  Sha <- OneRepeated
  Tuple = {claims}
  Unmatched = Unmatched
  MaxUpsets = 3
INVARIANTS LandedOnce RowsMatchRegister
PROPERTIES EveryDeliverySettles
CHECK_DEADLOCK FALSE
