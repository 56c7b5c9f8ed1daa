CONSTANTS
  c1 = c1
  c2 = c2
  Clients <- MCClients
  Free = Free
  BufferSize = 1
  MaxRequests <- MCMaxRequests
SPECIFICATION ServerSpec
INVARIANTS NoStatementLost NothingAfterStop
  
CHECK_DEADLOCK FALSE
