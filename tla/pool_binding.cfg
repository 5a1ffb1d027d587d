CONSTANTS
  Pool = {p}
  Source = {s1}
  Table = {t1, t2}
  SourceOf <- OneSource
  Relation <- Relations
  BoundPool <- Bindings
  Batch <- BindingBatches
  Dispatcher = {r1, r2}
  SessionsMayDrop = FALSE
  MaxEntries = 5
SPECIFICATION FairSpec
INVARIANTS SettledPairsAgree NoResurrection
PROPERTIES ImplementsDelivery ImplementsOutbox EveryRequestEnds
CHECK_DEADLOCK FALSE
