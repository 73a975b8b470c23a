\* FstWindow: the seeking decode against the full one.
SPECIFICATION Spec
CONSTANTS
  Sid = {1, 2}
  EventSid = {2}
  Value = {0, 1}
  Unknown = Unknown
  Files <- MCFiles
  Requests <- MCRequests
  Unbounded = Unbounded
  None = None
  MaxChanges = 2
  LastTick = 6
INVARIANTS
  IInv
  SameAsFullDecode
CHECK_DEADLOCK FALSE
