CONSTANTS
  MaxPages = 3
  Values = {v1}
  Blank = Blank
  Torn = Torn
  IOFaults = TRUE
  PoolSize = 2
  Clients = {c1, c2}
  Unreadable = Unreadable
SPECIFICATION Spec
SYMMETRY ClientSymmetry
INVARIANTS
  FrameAccounting
  PageTableCoherent
  PointersStayValid
  HeaderCoversData
  CleanPagesMatchFile
PROPERTY ImplementsPageStore
