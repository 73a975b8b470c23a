\* FstWindow: the seed of a window and the full decode.
SPECIFICATION Spec
CONSTANTS
  Sid = {1, 2}
  EventSid = {2}
  Value = {0, 1}
  Unknown = Unknown
  Files <- MCFiles
  Requests <- MCRequests
  Unbounded = Unbounded
  None = None
  MaxChanges = 2
  LastTick = 6
INVARIANTS
  SeedIsLastChange
CHECK_DEADLOCK FALSE
