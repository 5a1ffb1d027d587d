CONSTANTS
  Pool = {p}
  Source = {s1}
  Table = {t1, t2}
  SourceOf <- OneSource
  Relation <- Relations
  BoundPool <- Bindings
  Batch <- BindingBatches
  Dispatcher = {r1}
  SessionsMayDrop = FALSE
  MaxEntries = 5
SPECIFICATION PoolSpec
PROPERTY RetryIsServed
CHECK_DEADLOCK FALSE
