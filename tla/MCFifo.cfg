SPECIFICATION FairSpec
CONSTANTS
  Job = {p1, p2, p3}
  Main = Main
  ReadyTimes = {0, 1, 3}
  ExecTimes = {0, 1, 2}
  ForkMayFail = TRUE
  ExecMayFail = FALSE
INVARIANTS
  BooksAreTrue WaitFindsCurrent ResultsAreTrue IInv
PROPERTIES ImplementsFifo AllDone
CHECK_DEADLOCK FALSE
