\* Two lines a session.
CONSTANTS
  Atoms <- MCAtoms
  Argvs <- MCArgvs
  Lines <- MCLines
  RawLines <- MCRawLines
  MaxLines = 2
SPECIFICATION Spec
INVARIANTS
  PassesAgree
  NoFlagIgnored
  AnswersInStep
  WordsComeBack
  LineMirrorsSingle
\* A run ends.
CHECK_DEADLOCK FALSE
