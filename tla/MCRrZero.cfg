SPECIFICATION FairSpec
CONSTANTS
  Job = {p1, p2}
  Main = Main
  ReadyTimes = {0, 1}
  ExecTimes = {0, 2}
  ForkMayFail = FALSE
  ExecMayFail = FALSE
  Quantum = 2
PROPERTIES AllDone
CHECK_DEADLOCK FALSE
