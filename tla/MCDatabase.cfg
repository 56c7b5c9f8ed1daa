CONSTANTS
  TableNames = {t}
  IndexNames = {i}
  CatalogRids = {1, 2}
  k1 = k1
  k2 = k2
  Keys <- MCKeys
  Inserts <- MCInserts
  Null = Null
  Lengths = {1, 2, 3}
  TooLong = 3
  Slots = {1, 2}
  MaxHeaps = 2
  MaxTrees = 2
  MaxStatements = 5
  MaxWriteBacks = 1
SPECIFICATION Spec
INVARIANTS CatalogReloads  IndexAddsNothing FlushedRowsSurvive
CHECK_DEADLOCK FALSE
