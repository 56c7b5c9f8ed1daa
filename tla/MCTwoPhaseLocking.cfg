CONSTANTS
  Txns = {t1, t2, t3}
  kInvalidTxnId = NoTxn
  Rids = {r1, r2}
SPECIFICATION Spec
SYMMETRY Symmetry
INVARIANTS
  ExclusiveExcludes
  TablesAgree
  SerializableInEndOrder
CHECK_DEADLOCK FALSE
