SPECIFICATION FairSpec
CONSTANTS
  Job = {p1, p2, p3}
  Main = Main
  ReadyTimes = {0, 1, 2, 4}
  ExecTimes = {1, 2, 3}
  ForkMayFail = TRUE
  ExecMayFail = FALSE
  Quantum = 2
INVARIANTS
  ClockIsTrue NoMissedArrival ResultsAreTrue IInv
PROPERTIES ImplementsRr AllDone
CHECK_DEADLOCK FALSE
