CONSTANTS
  WrongType = WrongType
  BadRow = BadRow
  Absent = Absent
  Second = 100
  Tables <- MCTables
  Files <- MCFiles
  Roots <- MCRoots
  Cases <- MCCases
  Numerals <- MCNumerals
  Readable <- MCReadable
  PoissonCases <- MCPoissonCases
  MaxEvaluations = 2
  Threads <- MCThreads
  BlockDim = 2
  Partitions <- MCPartitions
SPECIFICATION Programs
INVARIANTS SystemOfMesh ConditionsOfScript ResultOfScript StationaryResult RanksMeet
