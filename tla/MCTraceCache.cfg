\* TraceCache: batch sessions of any length over one Wave.
SPECIFICATION FairSpec
CONSTANTS
  Sid <- MCSid
  Tick <- MCTick
  Threshold = 2
  Batch = 2
  Commands <- MCCommands
  Absent = Absent
INVARIANTS
  IInv
  CacheHoldsHistories
  AnswerIsComplete
  MemoryBounded
PROPERTIES
  EveryLineAnswered
