\* PluginDecode: a glitch at the tick an FSDB window opens at.
SPECIFICATION Spec
CONSTANTS
  Sid = {1, 2}
  EventSid = {2}
  Value = {0, 1}
  Files <- MCMovingFiles
  Requests <- MCRequests
  Unbounded = Unbounded
  None = None
  MaxTick = 2
  MaxRecords = 3
  MaxEvents = 0
INVARIANTS
  NoChangeAtEdge
CHECK_DEADLOCK FALSE
