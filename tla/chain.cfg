CONSTANTS
  a1 = a1
  a2 = a2
  a3 = a3
  b2 = b2
  b3 = b3
  Genesis = Genesis
  Blocks = {a1, a2, a3, b2, b3}
  Parent <- MCParent
  Number <- MCNumber
  Path <- MCPath
  Archive = FALSE
  Tip = b3
  GapNumbers = {2}
  TriesInMemory = 2
  MaxCommitted = 2
  MaxFaults = 1
SPECIFICATION FairSpec
INVARIANTS
  DatabaseConsistent
  HeadHasState
  GapBlocksHaveSnapshots
PROPERTIES
  CommittedStays
  CatchesUp
CHECK_DEADLOCK FALSE
