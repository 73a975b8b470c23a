\* BoundedDump: full-history backend, same-tick changes of one signal.
SPECIFICATION ScanSpec
CONSTANTS
  Sid = {1, 2}
  DeclOrder <- MCDeclOrder
  Traces <- MCTraces
  Queries <- MCQueries
  Visits <- MCVisits
  Seeking = {FALSE}
  Unbounded = Unbounded
  MaxTick = 1
  MaxLen = 2
  MaxLimit = 2
INVARIANTS
  SameChangesAsEager
CHECK_DEADLOCK FALSE
