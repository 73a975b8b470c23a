\* BoundedDump: windowed decodes against the eager rows, without and with ties
\* (-continue).
SPECIFICATION ScanSpec
CONSTANTS
  Sid = {1, 2}
  DeclOrder <- MCDeclOrder
  Traces <- MCTraces
  Queries <- MCQueries
  Visits <- MCVisits
  Seeking = {TRUE}
  Unbounded = Unbounded
  MaxTick = 2
  MaxLen = 2
  MaxLimit = 2
INVARIANTS
  SameRowsOnEveryBackend
  SameChangesWhenSeeking
CHECK_DEADLOCK FALSE
