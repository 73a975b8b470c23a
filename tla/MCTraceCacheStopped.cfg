\* TraceCache: a line that reads the trace an earlier line's stopped decode
\* left cached (TLC finds IncompleteIsReported violated).
SPECIFICATION CacheSpec
CONSTANTS
  Sid <- MCSid
  Tick <- MCTick
  Threshold = 2
  Batch = 2
  Commands <- MCCommands
  Absent = Absent
INVARIANTS
  IncompleteIsReported
