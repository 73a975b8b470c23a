\* PluginDecode: WLF scans and FSDB cursors, with every failure.
SPECIFICATION Spec
CONSTANTS
  Sid = {1, 2}
  EventSid = {2}
  Value = {0, 1}
  Files <- MCFiles
  Requests <- MCRequests
  Unbounded = Unbounded
  None = None
  MaxTick = 3
  MaxRecords = 3
  MaxEvents = 1
INVARIANTS
  IInv
  HandlesReturned
  SameAsFile
  PartialIsPrefix
CHECK_DEADLOCK FALSE
