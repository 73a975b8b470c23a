\* Statistics: two comments on how values read; TLC finds both violated
\* (-continue).
SPECIFICATION Spec
CONSTANTS
  Sid <- MCSid
  Width <- MCWidth
  Kind <- MCKind
  Recordings <- MCRecordings
  Commands <- MCCommands
  TickFs = 2000
  MaxTicks = 8
  NoTime <- MCNoTime
INVARIANTS
  ListedValuesDiffer
  OverlongReadsUnknown
CHECK_DEADLOCK FALSE
