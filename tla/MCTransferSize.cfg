SPECIFICATION Spec
CONSTANTS
  Runs = 1
  Conn <- MCConn
  File <- MCConn
  Scenarios <- MCShort
  MaxErrors = 1
  PageSize = 2
  SockBuf = 3
INVARIANTS SizeIsTrue
CHECK_DEADLOCK FALSE
