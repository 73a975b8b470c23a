\* Sessions of any length over two designs.
CONSTANTS
  Elab <- MCElab
  Databases <- MCDatabases
  WorkLibs <- MCWorkLibs
  Unspeakable <- MCUnspeakable
  InDesign <- MCInDesign
  Settings <- MCSettings
  Recordings <- MCRecordings
  Texts <- MCTexts
  Dumps <- MCDumps
  Table <- MCTable
  Lower <- MCLower
  Full <- MCFull
  Values <- MCValues
  Commands <- MCCommands
SPECIFICATION Spec
INVARIANTS
  AnsweredFromMeantDesign
  DumpReadBack
  ValuesAreTheirs
PROPERTIES
  LicenceIsEarned
