\* EventMerge: the heap replay behind dump.
SPECIFICATION FairSpec
CONSTANTS
  Sid <- MCSid
  DeclOrder <- MCDeclOrder
  Traces <- MCTraces
  Queries <- MCQueries
  Unbounded = Unbounded
  MaxTick = 2
  MaxLen = 2
  MaxLimit = 2
INVARIANTS
  IInv
  AnswerIsRight
PROPERTIES
  ImplementsDumpAnswer
  ReplayEnds
CHECK_DEADLOCK FALSE
