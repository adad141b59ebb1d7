SPECIFICATION FairSpec
CONSTANTS
  Job = {p1, p2, p3}
  Main = Main
  ReadyTimes = {0, 1}
  ExecTimes = {0, 2}
  ForkMayFail = TRUE
  ExecMayFail = TRUE
INVARIANTS NoEarlyEof NoMissedArrival ServedAreTrue
PROPERTIES NobodyHangs
CHECK_DEADLOCK FALSE
