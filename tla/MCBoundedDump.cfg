\* BoundedDump: the streaming path of dump on every kind of backend.
SPECIFICATION ScanSpec
CONSTANTS
  Sid = {1, 2}
  DeclOrder <- MCDeclOrder
  Traces <- MCTraces
  Queries <- MCQueries
  Visits <- MCVisits
  Seeking = {TRUE, FALSE}
  Unbounded = Unbounded
  MaxTick = 2
  MaxLen = 3
  MaxLimit = 2
INVARIANTS
  StreamsAsEager
CHECK_DEADLOCK FALSE
