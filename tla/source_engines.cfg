SPECIFICATION FairSpec
CONSTANTS
  Null = Null
  Sources = {s1}
  Engines = {e1, e2}
  Gateways = {g1}
  Unresolvable = {}
  LateBeats = FALSE
  MaxRequests = 2
  MaxUpsets = 2
CHECK_DEADLOCK FALSE
PROPERTIES QueuedRunsMove ReleasedMeansInstalled
