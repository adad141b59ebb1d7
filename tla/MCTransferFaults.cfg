SPECIFICATION Spec
CONSTANTS
  Runs = 2
  Conn <- MCConn
  File <- MCConn
  Scenarios <- MCFaults
  MaxErrors = 1
  PageSize = 2
  SockBuf = 3
INVARIANTS StoredIsPrefix  
CHECK_DEADLOCK FALSE
