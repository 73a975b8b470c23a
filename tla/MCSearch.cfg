\* Search: setup, interval, segment and event search; signal 2 an event.
SPECIFICATION Spec
CONSTANTS
  Sid = {1, 2}
  Value = {0, 1}
  EventSid = {2}
  LogicSid = {1}
  Undef = Undef
  None = None
  Found <- MCFound
  Accepts <- MCAccepts
  Masks = {"=b?"}
  Files <- MCFiles
  Lines <- MCLines
  MaxTick = 3
  MaxLimit = 1
INVARIANTS
  RowsAreRuns
  RowsAreFirings
CHECK_DEADLOCK FALSE
