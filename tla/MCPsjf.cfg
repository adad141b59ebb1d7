SPECIFICATION FairSpec
CONSTANTS
  Job = {p1, p2, p3}
  Main = Main
  ReadyTimes = {0, 1, 2}
  ExecTimes = {0, 1, 3}
  ForkMayFail = TRUE
  ExecMayFail = FALSE
INVARIANTS
  ClockIsTrue NoMissedArrival QueueIsLive ResultsAreSound IInv
PROPERTIES ImplementsPsjf AllDone
CHECK_DEADLOCK FALSE
