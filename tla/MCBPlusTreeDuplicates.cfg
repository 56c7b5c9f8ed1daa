CONSTANTS
  Keys = {1, 2, 3, 4, 5}
  Rids = {r1,r2,r3}
  kLeafMaxKeys = 3
  kInternalMaxKeys = 3
  MaxNodes = 9

SPECIFICATION Spec
INVARIANTS SearchExact
