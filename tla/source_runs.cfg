SPECIFICATION Spec
CONSTANTS
  Null = Null
  Sources = {s1}
  Engines = {e1}
  Gateways = {g1, g2}
  Unresolvable = {}
  LateBeats = TRUE
  MaxRequests = 3
  MaxUpsets = 2
CHECK_DEADLOCK FALSE
SYMMETRY Processes
INVARIANTS ContactedOnce
