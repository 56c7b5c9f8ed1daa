CONSTANTS
  MaxLog = 5
  Faults = {"cut", "stream", "power"}
SPECIFICATION WALSpec
INVARIANTS
  LogInOrder
  CompleteUntilMisread
