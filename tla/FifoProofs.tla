----------------------------- MODULE FifoProofs -----------------------------
(***************************************************************************)
(* The theorems about fifo.c.  They hold for every input file and every    *)
(* number of jobs, whether or not a fork() fails.  Those that assume       *)
(* ~ExecMayFail are about runs in which execl() finds ./child; the others  *)
(* hold whichever calls of either fail.                                    *)
(***************************************************************************)
EXTENDS FifoInv, BatchProofs

(* The flag test of FIFO() does not touch what the invariant is about.      *)
LEMMA StampInv == BooksInv /\ Stamp => BooksInv'
  <1> SUFFICES ASSUME BooksInv, Stamp PROVE BooksInv'
    OBVIOUS
  <1> USE NIsNat
  <1> DEFINE c == current
  <1>0. /\ pc = "stamp" /\ pc' = "write"
        /\ UNCHANGED <<arrive, need, state, prio, left, x, pipe, writers, readers, elapsed, began, ended>>
        /\ UNCHANGED <<scheduler, rem, end, clock, Index, nextforfork, time, printed>>
    BY DEF Stamp, At, dispatchVars, input, child, fds, history
  <1>1. c \in Job /\ Resting(c)
    BY <1>0, CurrentFacts DEF CurrentInv, Deciding
  <1>2. start' \in [Job -> Nat \cup {Never}] /\ flag' \in [Job -> {0, 1}]
    <2>1. /\ elapsed \in Nat /\ start \in [Job -> Nat \cup {Never}] /\ flag \in [Job -> {0, 1}]
      BY DEF BooksInv, TypeOK, DispatchTypeOK
    <2> QED  BY <1>1, <2>1 DEF Stamp
  <1>3. TypeOK'
    BY <1>0, <1>2 DEF BooksInv, TypeOK, DispatchTypeOK, MainState
  <1>4. ListingInv' /\ IndexInv'
    BY <1>0 DEF BooksInv, ListingInv, IndexInv, InLoop
  <1>5. SlotsInv'
    <2>1. Resting(c)'
      BY <1>0, <1>1 DEF Resting, Quiet, current
    <2>2. CurrentInv'
      BY <1>0, <2>1 DEF CurrentInv, Deciding, current
    <2> QED  BY <1>0, <2>2, OtherSlots DEF SlotsInv
  <1>6. ClockInv'
    BY <1>0 DEF BooksInv, ClockInv, Deciding, upcoming
  <1>7. FdInv' /\ ExitInv'
    BY <1>0 DEF BooksInv, FdInv, ExitInv, Alive
  <1> QED  BY <1>3, <1>4, <1>5, <1>6, <1>7 DEF BooksInv

(* The stamp is that of the current job.                                    *)
LEMMA StampTimes == BooksInv /\ TimesInv /\ Stamp => TimesInv'
  <1> SUFFICES ASSUME BooksInv, TimesInv, Stamp PROVE TimesInv'
    OBVIOUS
  <1> USE NIsNat
  <1>0. /\ pc = "stamp" /\ pc' = "write" /\ scheduler' = scheduler
        /\ UNCHANGED <<dispatchVars, rem, end, clock, Index, nextforfork, time, printed>>
    BY DEF Stamp, At
  <1>1. scheduler \in Listings /\ current \in Job /\ Index \in Slot /\ Index < nextforfork
    BY <1>0, CurrentFacts DEF BooksInv, ListingInv
  <1>2. \A i \in Slot : Index < i => flag[scheduler[i]] = 1
    BY <1>0 DEF TimesInv, SlotTimes
  <1>3. /\ flag[current] = 0 => left[current] < need[current]
        /\ flag[current] \in {0, 1}
    <2>1. flag[current] = 0 => left[current] # need[current]
      BY <1>0, <1>1 DEF TimesInv, InLoop, CurrentTimes
    <2>2. left[current] <= need[current] /\ left[current] \in Int /\ need[current] \in Nat
      BY <1>1 DEF TimesInv, JobTimes, BooksInv, TypeOK, DispatchTypeOK
    <2> QED  BY <1>1, <2>1, <2>2 DEF BooksInv, TypeOK
  <1>4. CASE flag[current] = 1
    <2>1. start' = [start EXCEPT ![current] = elapsed] /\ flag' = [flag EXCEPT ![current] = 0]
      BY <1>4 DEF Stamp
    <2> DEFINE first == TRUE
    <2>2. /\ first \in BOOLEAN /\ first => flag[scheduler[Index]] = 1
          /\ start' = IF first THEN [start EXCEPT ![scheduler[Index]] = elapsed] ELSE start
          /\ flag' = IF first THEN [flag EXCEPT ![scheduler[Index]] = 0] ELSE flag
      BY <1>4, <2>1 DEF current
    <2> QED  BY <1>0, <1>1, <1>2, <2>2, FlagTestTimes
  <1>5. CASE flag[current] = 0
    <2>1. start' = start /\ flag' = flag
      BY <1>5 DEF Stamp
    <2> DEFINE first == FALSE
    <2>2. /\ first \in BOOLEAN
          /\ ~first => flag[scheduler[Index]] = 0 /\ left[scheduler[Index]] < need[scheduler[Index]]
          /\ start' = IF first THEN [start EXCEPT ![scheduler[Index]] = elapsed] ELSE start
          /\ flag' = IF first THEN [flag EXCEPT ![scheduler[Index]] = 0] ELSE flag
      BY <1>3, <1>5, <2>1 DEF current
    <2> QED  BY <1>0, <1>1, <1>2, <2>2, FlagTestTimes
  <1> QED  BY <1>3, <1>4, <1>5

(* Only readFile() moves an entry of the DATA array.                        *)
LEMMA OrderKept ==
  ASSUME BooksInv, OrderInv, [Next]_vars
  PROVE  OrderInv'
  <1> USE NIsNat
  <1>1. CASE ReadFile
    <2>1. scheduler' \in QSort(scheduler, 0, N, arrive) /\ arrive' = arrive
      BY <1>1 DEF ReadFile, input
    <2>2. \A i, k \in Slot : 0 <= i /\ i <= k /\ k < N =>
            arrive[scheduler'[i]] <= arrive[scheduler'[k]]
      BY <2>1, QSortFacts DEF BooksInv, ListingInv
    <2> QED  BY <2>1, <2>2 DEF OrderInv, Slot
  <1>2. CASE ~ReadFile
    <2>1. UNCHANGED <<scheduler, arrive>>
      BY <1>2 DEF Next, MainStep, WaitLoop, ExecuteFork, ForkFails, Stamp, AssignWrite, AssignRaise,
                  AssignCharge, AssignWait, PrintResults, ChildStep, ChildProgram, Exec, ExecFails,
                  Scanf, ScanfEof, BurnUnit, Finish, Yield, vars, dispatchVars, mainVars, data, input
    <2>2. pc' # "read" => pc # "read"
      BY <1>2 DEF Next, MainStep, WaitLoop, ExecuteFork, ForkFails, Stamp, AssignWrite, AssignRaise,
                  AssignCharge, AssignWait, PrintResults, ChildStep, vars, mainVars, At
    <2> QED  BY <2>1, <2>2 DEF OrderInv
  <1> QED  BY <1>1, <1>2

(* Every step of fifo.c and of its children preserves the invariant.        *)
LEMMA NextInv ==
  ASSUME ~ExecMayFail, IInv, [Next]_vars
  PROVE  IInv'
  <1>0. BooksInv /\ TimesInv /\ OrderInv
    BY DEF IInv
  <1>1. CASE MainStep
    <2>1. BooksInv'
      BY <1>0, <1>1, ReadFileInv, WaitLoopInv, ExecuteForkInv, ForkFailsInv, StampInv, AssignWriteInv,
         AssignRaiseInv, AssignChargeInv, AssignWaitInv, PrintResultsInv DEF MainStep
    <2>2. TimesInv'
      BY <1>0, <1>1, ReadFileTimes, WaitLoopTimes, ExecuteForkTimes, ForkFailsTimes, StampTimes,
         AssignWriteTimes, AssignRaiseTimes, AssignChargeTimes, AssignWaitTimes, PrintResultsTimes
         DEF MainStep
    <2> QED  BY <1>0, <2>1, <2>2, OrderKept DEF IInv
  <1>2. CASE \E j \in Job : ChildStep(j)
    BY <1>0, <1>2, ChildStepInv, ChildStepTimes, OrderKept DEF IInv
  <1>3. CASE UNCHANGED vars
    BY <1>0, <1>3, StutterInv, StutterTimes, OrderKept DEF IInv
  <1> QED  BY <1>1, <1>2, <1>3 DEF Next

(* What the invariant is for.                                               *)
LEMMA FifoInvImplies ==
  IInv => /\ TypeOK /\ BooksAreTrue /\ NoMissedArrival
          /\ CurrentIsForked /\ WaitFindsCurrent /\ NoEarlyEof /\ ResultsAreTrue
  <1>1. BooksInv => TypeOK
    BY DEF BooksInv
  <1> QED  BY <1>1, InvImplies, TimesImply DEF IInv, BooksAreTrue

(* The invariant that ties main's books and stamps to the children holds    *)
(* throughout every run of fifo.c.                                          *)
THEOREM FifoInvariance ==
  ASSUME ~ExecMayFail
  PROVE  Spec => []IInv
  <1>1. Init => IInv
    BY InitInv, InitTimes DEF IInv, OrderInv, Init
  <1>2. IInv /\ [Next]_vars => IInv'
    BY NextInv
  <1> QED  BY <1>1, <1>2, PTL DEF Spec

(* The variables of fifo.c stay in their types: no remaining time, slice or *)
(* clock becomes negative and no index leaves the DATA array.               *)
THEOREM FifoTypeOK ==
  ASSUME ~ExecMayFail
  PROVE  Spec => []TypeOK
  BY FifoInvariance, FifoInvImplies, PTL

(* The clock FIFO() keeps without looking at its children is the real time, *)
(* and the execution_time it records for a job is what the child itself     *)
(* still counts, whenever it decides something.                             *)
THEOREM FifoBooks ==
  ASSUME ~ExecMayFail
  PROVE  Spec => []BooksAreTrue
  BY FifoInvariance, FifoInvImplies, PTL

(* assign() in fifo.c is applied to forked jobs only.                       *)
THEOREM FifoCurrent ==
  ASSUME ~ExecMayFail
  PROVE  Spec => []CurrentIsForked
  BY FifoInvariance, FifoInvImplies, PTL

(* wait(&temp) in fifo.c finds the current job and no other.                *)
THEOREM FifoWait ==
  ASSUME ~ExecMayFail
  PROVE  Spec => []WaitFindsCurrent
  BY FifoInvariance, FifoInvImplies, PTL

(* No child of fifo.c reads end-of-file while main is alive, whichever      *)
(* fork() or execl() fails.                                                 *)
THEOREM FifoEof == Spec => []NoEarlyEof
  <1>1. Init => EofInv
    BY DEF Init, DispatchInit, EofInv
  <1>2. EofInv /\ [Next]_vars => EofInv'
    BY EofStep DEF Next, MainStep, Stamp
  <1>3. EofInv => NoEarlyEof
    BY DEF EofInv, NoEarlyEof
  <1> QED  BY <1>1, <1>2, <1>3, PTL DEF Spec

(* The flag test of FIFO() when calls may fail.                             *)
LEMMA StampFault == FaultInv /\ Stamp => FaultInv'
  <1> SUFFICES ASSUME FaultInv, Stamp PROVE FaultInv'
    OBVIOUS
  <1> USE NIsNat
  <1>0. /\ pc = "stamp" /\ pc' = "write" /\ scheduler' = scheduler
        /\ UNCHANGED <<dispatchVars, rem, end, clock, Index, nextforfork, time, printed>>
    BY DEF Stamp, At
  <1>1. InLoop /\ Index < nextforfork
    BY <1>0 DEF FaultInv, IndexInv, InLoop
  <1>2. scheduler \in Listings /\ current \in Job /\ Index \in Slot /\ CurrentServed
    BY <1>0, <1>1, ServedFacts DEF FaultInv, ListingInv
  <1>3. \A i \in Slot : Index < i => flag[scheduler[i]] = 1
    BY <1>0 DEF FaultInv, PlacesInv
  <1>4. /\ flag[current] = 0 => ~(left[current] = need[current] /\ ~Failed(current))
        /\ flag[current] \in {0, 1}
    BY <1>0, <1>2 DEF CurrentServed, FaultInv, TypeOK
  <1>5. PICK first \in BOOLEAN : first <=> flag[current] = 1
    OBVIOUS
  <1>6. /\ start' = IF first THEN [start EXCEPT ![scheduler[Index]] = elapsed] ELSE start
        /\ flag' = IF first THEN [flag EXCEPT ![scheduler[Index]] = 0] ELSE flag
    BY <1>4, <1>5 DEF Stamp, current
  <1>7. /\ first => flag[scheduler[Index]] = 1
        /\ ~first => /\ flag[scheduler[Index]] = 0
                     /\ ~(left[scheduler[Index]] = need[scheduler[Index]] /\ ~Failed(scheduler[Index]))
    BY <1>4, <1>5 DEF current
  <1> QED  BY <1>0, <1>2, <1>3, <1>6, <1>7, FlagTestFault

(* Where fifo.c and its children are in runs in which any fork() and any    *)
(* execl() may fail: main's clock may run ahead, never behind.              *)
THEOREM FifoFaultInvariance == Spec => []FaultInv
  <1>1. FaultInv /\ [Next]_vars => FaultInv'
    BY ReadFileFault, WaitLoopFault, ExecuteForkFault, ForkFailsFault, StampFault, AssignWriteFault,
       AssignRaiseFault, AssignChargeFault, AssignWaitFault, PrintResultsFault, ChildStepFault,
       StutterFault DEF Next, MainStep
  <1> QED  BY <1>1, FaultInit, PTL DEF Spec

(* The equality test of executeFork() in fifo.c misses no ready time: when  *)
(* main decides, neither its clock nor the real time has passed that of a   *)
(* job still to fork, even after slices that no child could burn.           *)
THEOREM FifoArrivals == Spec => []NoMissedArrival
  BY FifoFaultInvariance, FaultImplies, PTL

(* When fifo.c prints, every child has been waited for, and every job that  *)
(* got the CPU has been run to its end and has true results, whichever      *)
(* fork() or execl() failed.                                                *)
THEOREM FifoServed == Spec => []ServedAreTrue
  BY FifoFaultInvariance, FaultImplies, PTL

(* The results fifo.c prints are true: time[0] is when the job got the CPU  *)
(* for the first time, time[1] when it exited.                              *)
THEOREM FifoResults ==
  ASSUME ~ExecMayFail
  PROVE  Spec => []ResultsAreTrue
  BY FifoInvariance, FifoInvImplies, PTL

-----------------------------------------------------------------------------
(* Every step is a unit of the ideal first-come-first-served CPU or no step *)
(* of it.                                                                   *)
LEMMA IdealStep == IInv /\ [Next]_vars => [Ideal!FifoNext]_(Ideal!vars)
  <1> SUFFICES ASSUME IInv, [Next]_vars PROVE [Ideal!FifoNext]_(Ideal!vars)
    OBVIOUS
  <1> USE NIsNat
  <1>0. BooksInv /\ TimesInv /\ OrderInv
    BY DEF IInv
  <1>1. UNCHANGED <<arrive, need, left, elapsed>> => UNCHANGED Ideal!vars
    BY DEF Ideal!vars
  <1>2. CASE MainStep
    <2>1. CASE WaitLoop
      <3>1. CASE elapsed' # elapsed
        BY <1>0, <2>1, <3>1, WaitLoopIdles DEF Ideal!FifoNext
      <3>2. CASE elapsed' = elapsed
        BY <1>1, <2>1, <3>2 DEF WaitLoop, input, child
      <3> QED  BY <3>1, <3>2
    <2>2. CASE ExecuteFork
      BY <1>0, <1>1, <2>2, ForkIsUnseen
    <2>3. CASE Stamp
      BY <1>1, <2>3 DEF Stamp, dispatchVars, input, child
    <2>4. CASE ~WaitLoop /\ ~ExecuteFork /\ ~Stamp
      BY <1>1, <1>2, <2>4, RestIsUnseen DEF MainStep
    <2> QED  BY <2>1, <2>2, <2>3, <2>4
  <1>3. ASSUME NEW j \in Job, ChildStep(j)
        PROVE  [Ideal!FifoNext]_(Ideal!vars)
    <2>1. CASE BurnUnit(j)
      <3>1. /\ j = current /\ pc \in {"raise", "charge"}
            /\ Ideal!Serve(j) /\ Ideal!NonPreemptive(j)
            /\ \A k \in Ideal!Pending :
                 \E i \in Slot : Index <= i /\ i < nextforfork /\ scheduler[i] = k
        BY <1>0, <1>3, <2>1, BurnUnitServes DEF ChildStep
      <3>2. Index \in Slot
        BY <1>0, <3>1, CurrentFacts
      <3>3. \A k \in Ideal!Pending : arrive[j] <= arrive[k]
        BY <1>0, <3>1, <3>2 DEF OrderInv, current
      <3> QED  BY <3>1, <3>3 DEF Ideal!FifoNext
    <2>2. CASE ~BurnUnit(j)
      BY <1>1, <1>3, <2>2, ChildIsUnseen
    <2> QED  BY <2>1, <2>2
  <1>4. CASE UNCHANGED vars
    BY <1>1, <1>4 DEF vars, dispatchVars, input, child
  <1> QED  BY <1>2, <1>3, <1>4 DEF Next

(* Unit by unit, fifo.c and its children behave as a CPU that serves the    *)
(* jobs one after the other in the order of their ready times, and idles    *)
(* only when no job that has arrived is unfinished.                         *)
THEOREM FifoIsIdeal ==
  ASSUME ~ExecMayFail
  PROVE  Spec => ImplementsFifo
  BY IdealInit, IdealStep, FifoInvariance, PTL DEF Spec, ImplementsFifo, Ideal!FifoSpec
=============================================================================
