SPECIFICATION FairSpec
CONSTANTS
  Runs = 2
  Conn <- MCConn
  File <- MCConn
  Scenarios <- MCUsual
  MaxErrors = 1
  PageSize = 2
  SockBuf = 3
INVARIANTS OrderlyInv RunsArePaired
PROPERTIES ImplementsCopy BothEnd
CHECK_DEADLOCK FALSE
