CONSTANTS
  MaxLog = 4
  Faults = {"cut"}
  Pages = {p1, p2}
  Images = {i0, i1}
  Blank = i0
  NoPage = NoPage
  MaxTxn = 2
  MaxRuns = 3
SPECIFICATION RecoveryFairSpec
INVARIANTS
  RecoveryRestoresCommitted
PROPERTY RecoveryEnds
CHECK_DEADLOCK FALSE
