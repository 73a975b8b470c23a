SPECIFICATION Spec
CONSTANTS
  Letter <- MCLetter
  Lower <- MCLower
  Rank <- MCRank
  Sep = "."
  Star = "*"
  AnyOne = "?"
  Files <- MCFiles
  Queries <- MCQueries
  Unbounded = 4
INVARIANTS
  IteratorsClosed
  TableIsComplete
  ListShowsTheSelection
  SummariesAgreeWithList
  NamesMeanOneSignal
CHECK_DEADLOCK FALSE
