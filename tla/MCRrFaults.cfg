SPECIFICATION FairSpec
CONSTANTS
  Job = {p1, p2, p3}
  Main = Main
  ReadyTimes = {0, 1}
  ExecTimes = {1, 3}
  ForkMayFail = TRUE
  ExecMayFail = TRUE
  Quantum = 2
INVARIANTS RingIsSound ServedAreTrue
PROPERTIES NobodyHangs
CHECK_DEADLOCK FALSE
