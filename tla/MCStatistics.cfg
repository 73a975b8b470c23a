SPECIFICATION Spec
CONSTANTS
  Sid <- MCSid
  Width <- MCWidth
  Kind <- MCKind
  Recordings <- MCRecordings
  Commands <- MCCommands
  TickFs = 2000
  MaxTicks = 8
  NoTime <- MCNoTime
INVARIANTS
  SummaryAgrees
  PointsAgree
  ValuesReadAlike
CHECK_DEADLOCK FALSE
