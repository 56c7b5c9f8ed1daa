CONSTANTS
  PageSize = 24
  Values = {v1}
  Lengths = {2, 6, 9}
  Files = {f1}
  MaxPages = 3
  FetchFaults = TRUE
SPECIFICATION HeapSpec
INVARIANTS RegionsDisjoint ScanShowsRows
 
