CONSTANTS
  MaxTxn = 4
  Txns = {1, 2, 3, 4}
  kInvalidTxnId = 0
  Levels = {"ReadCommitted", "SnapshotIsolation"}
  WriterLevels = {"ReadCommitted"}
  Keys = {k1}
  MaxVersions = 2
  Rids = {1, 2}
SPECIFICATION Spec
INVARIANTS
  
  ReadCommittedSeesLive
  
CHECK_DEADLOCK FALSE
