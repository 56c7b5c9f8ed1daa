CONSTANT Nodes = {n1, n2, n3}
SPECIFICATION DetectFairSpec
INVARIANTS
  DetectsExactlyDeadlocks
PROPERTY SearchEnds
CHECK_DEADLOCK FALSE
