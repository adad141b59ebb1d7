------------------------------ MODULE SjfProofs -----------------------------
(***************************************************************************)
(* The theorems about sjf.c.  As for fifo.c, those that assume             *)
(* ~ExecMayFail are about runs in which execl() finds ./child; the others  *)
(* hold whichever calls of fork() and execl() fail.                        *)
(***************************************************************************)
EXTENDS SjfInv, BatchProofs

(* The sort of the forked jobs from slot lo on moves no other job, and only *)
(* exchanges jobs that are waiting for a slice.                             *)
LEMMA SortFacts ==
  ASSUME BooksInv, pc = "stamp", NEW lo \in {Index, Index + 1},
         scheduler' \in QSort(scheduler, lo, nextforfork, rem)
  PROVE  /\ scheduler' \in Listings
         /\ \A i \in Slot : i < Index \/ nextforfork <= i => scheduler'[i] = scheduler[i]
         /\ \A i \in Slot : Index <= i /\ i < nextforfork => Resting(scheduler'[i])
  <1> USE NIsNat
  <1>0. /\ Index \in Slot /\ Index < nextforfork /\ nextforfork \in 0 .. N
        /\ lo \in Nat /\ Index <= lo /\ scheduler \in Listings
    BY CurrentFacts DEF Slot, BooksInv, ListingInv
  <1>1. PICK b : b = scheduler'
    OBVIOUS
  <1>a. b \in QSort(scheduler, lo, nextforfork, rem)
    BY <1>1
  <1>2. /\ b \in Listings
        /\ \A i \in Slot : i < lo \/ nextforfork <= i => b[i] = scheduler[i]
        /\ \A i \in Slot : lo <= i /\ i < nextforfork =>
             \E k \in Slot : lo <= k /\ k < nextforfork /\ b[i] = scheduler[k]
    BY <1>0, <1>a, QSortFacts
  <1>3. \A i \in Slot : i < Index => i < lo
    BY <1>0 DEF Slot
  <1>4. \A k \in Slot : Index <= k /\ k < nextforfork => Resting(scheduler[k])
    <2>1. Resting(scheduler[Index])
      BY CurrentFacts DEF CurrentInv, Deciding, current
    <2> QED  BY <1>0, <2>1, CurrentFacts DEF Slot
  <1>5. ASSUME NEW i \in Slot, Index <= i, i < nextforfork
        PROVE  Resting(b[i])
    <2>1. CASE i < lo
      BY <1>2, <1>4, <1>5, <2>1
    <2>2. CASE lo <= i
      <3>1. PICK k \in Slot : lo <= k /\ k < nextforfork /\ b[i] = scheduler[k]
        BY <1>2, <1>5, <2>2
      <3>2. Index <= k
        BY <1>0, <3>1 DEF Slot
      <3> QED  BY <1>4, <3>1, <3>2
    <2> QED  BY <1>0, <2>1, <2>2 DEF Slot
  <1> QED  BY <1>1, <1>2, <1>3, <1>5

(* The flag test and the sort of SJF().                                     *)
LEMMA SortAndStampInv == BooksInv /\ SortAndStamp => BooksInv'
  <1> SUFFICES ASSUME BooksInv, SortAndStamp PROVE BooksInv'
    OBVIOUS
  <1> USE NIsNat
  <1>0. /\ pc = "stamp" /\ pc' = "write"
        /\ UNCHANGED <<arrive, need, state, prio, left, x, pipe, writers, readers, elapsed, began, ended>>
        /\ UNCHANGED <<rem, end, clock, Index, nextforfork, time, printed>>
    BY DEF SortAndStamp, At, dispatchVars, input, child, fds, history
  <1>1. PICK lo \in {Index, Index + 1} : scheduler' \in QSort(scheduler, lo, nextforfork, rem)
    BY DEF SortAndStamp
  <1>2. /\ scheduler' \in Listings
        /\ \A i \in Slot : i < Index \/ nextforfork <= i => scheduler'[i] = scheduler[i]
        /\ \A i \in Slot : Index <= i /\ i < nextforfork => Resting(scheduler'[i])
    BY <1>0, <1>1, SortFacts
  <1>3. /\ Index \in Slot /\ Index < nextforfork /\ nextforfork \in 0 .. N
        /\ \A i \in Slot : i < Index => Finished(scheduler[i])
        /\ \A i \in Slot : nextforfork <= i => ToCome(scheduler[i])
    BY <1>0, CurrentFacts
  <1>4. scheduler' \in [Slot -> Job] /\ scheduler'[Index] \in Job
    BY <1>2, <1>3 DEF Listings
  <1>5. start' \in [Job -> Nat \cup {Never}] /\ flag' \in [Job -> {0, 1}]
    <2>1. elapsed \in Nat /\ start \in [Job -> Nat \cup {Never}] /\ flag \in [Job -> {0, 1}]
      BY DEF BooksInv, TypeOK, DispatchTypeOK
    <2>2. \/ UNCHANGED <<start, flag>>
          \/ /\ start' = [start EXCEPT ![scheduler'[Index]] = elapsed]
             /\ flag' = [flag EXCEPT ![scheduler'[Index]] = 0]
      BY DEF SortAndStamp
    <2> QED  BY <1>4, <2>1, <2>2
  <1>6. TypeOK'
    BY <1>0, <1>4, <1>5 DEF BooksInv, TypeOK, DispatchTypeOK, MainState
  <1>7. ListingInv'
    <2>1. \A i, k \in Slot : nextforfork <= i /\ i <= k => arrive[scheduler'[i]] <= arrive[scheduler'[k]]
      <3> SUFFICES ASSUME NEW i \in Slot, NEW k \in Slot, nextforfork <= i, i <= k
                   PROVE  arrive[scheduler'[i]] <= arrive[scheduler'[k]]
        OBVIOUS
      <3>1. nextforfork <= k
        BY <1>3 DEF Slot
      <3>2. scheduler'[i] = scheduler[i] /\ scheduler'[k] = scheduler[k]
        BY <1>2, <3>1
      <3>3. arrive[scheduler[i]] <= arrive[scheduler[k]]
        BY <1>0 DEF BooksInv, ListingInv
      <3> QED  BY <3>2, <3>3
    <2> QED  BY <1>0, <1>2, <2>1 DEF ListingInv
  <1>8. IndexInv'
    BY <1>0 DEF BooksInv, IndexInv, InLoop
  <1>9. SlotsInv'
    <2>1. \A i \in Slot : i < Index => Finished(scheduler[i])'
      BY <1>0, <1>2, <1>3 DEF Finished, Quiet, Slot
    <2>2. \A i \in Slot : Index <= i /\ i < nextforfork => Resting(scheduler[i])'
      BY <1>0, <1>2 DEF Resting, Quiet
    <2>3. \A i \in Slot : nextforfork <= i => ToCome(scheduler[i])'
      BY <1>0, <1>2, <1>3 DEF ToCome, Quiet, Slot
    <2>4. Resting(current)'
      BY <1>0, <1>3, <2>2 DEF current, Slot
    <2>5. CurrentInv'
      BY <1>0, <2>4 DEF CurrentInv
    <2>6. \A i \in Slot : Index < i /\ i < nextforfork => Resting(scheduler[i])'
      BY <1>3, <2>2 DEF Slot
    <2> QED  BY <1>0, <2>1, <2>3, <2>5, <2>6 DEF SlotsInv
  <1>10. ClockInv'
    <2>1. nextforfork < N => upcoming' = upcoming
      BY <1>0, <1>2, <1>3 DEF upcoming, Slot
    <2> QED  BY <1>0, <2>1 DEF BooksInv, ClockInv, Deciding
  <1>11. FdInv' /\ ExitInv'
    BY <1>0 DEF BooksInv, FdInv, ExitInv, Alive
  <1> QED  BY <1>6, <1>7, <1>8, <1>9, <1>10, <1>11 DEF BooksInv

(* Which jobs the flag test of SJF() leaves with their flags set.           *)
LEMMA SortedFlags ==
  ASSUME BooksInv, TimesInv, pc = "stamp",
         NEW lo \in {Index, Index + 1}, lo = Index => flag[current] = 1,
         scheduler' \in QSort(scheduler, lo, nextforfork, rem)
  PROVE  /\ \A i \in Slot : lo <= i => flag[scheduler'[i]] = 1
         /\ lo = Index + 1 => scheduler'[Index] = scheduler[Index]
  <1> USE NIsNat
  <1>0. /\ Index \in Slot /\ Index < nextforfork /\ nextforfork \in 0 .. N
        /\ lo \in Nat /\ Index <= lo /\ scheduler \in Listings
    BY CurrentFacts DEF Slot, BooksInv, ListingInv
  <1>1. /\ \A i \in Slot : i < lo \/ nextforfork <= i => scheduler'[i] = scheduler[i]
        /\ \A i \in Slot : lo <= i /\ i < nextforfork =>
             \E k \in Slot : lo <= k /\ k < nextforfork /\ scheduler'[i] = scheduler[k]
    <2>1. PICK b : b = scheduler'
      OBVIOUS
    <2>2. b \in QSort(scheduler, lo, nextforfork, rem)
      BY <2>1
    <2>3. /\ \A i \in Slot : i < lo \/ nextforfork <= i => b[i] = scheduler[i]
          /\ \A i \in Slot : lo <= i /\ i < nextforfork =>
               \E k \in Slot : lo <= k /\ k < nextforfork /\ b[i] = scheduler[k]
      BY <1>0, <2>2, QSortFacts
    <2> QED  BY <2>1, <2>3
  <1>2. ASSUME NEW k \in Slot, lo <= k PROVE flag[scheduler[k]] = 1
    <2>1. CASE k = Index
      <3>1. lo = Index
        BY <1>0, <1>2, <2>1 DEF Slot
      <3> QED  BY <2>1, <3>1 DEF current
    <2>2. CASE k # Index
      <3>1. Index < k
        BY <1>0, <1>2, <2>2 DEF Slot
      <3> QED  BY <3>1 DEF TimesInv, SlotTimes
    <2> QED  BY <2>1, <2>2
  <1>3. ASSUME NEW i \in Slot, lo <= i PROVE flag[scheduler'[i]] = 1
    <2>1. CASE i < nextforfork
      BY <1>1, <1>2, <1>3, <2>1
    <2>2. CASE nextforfork <= i
      BY <1>1, <1>2, <1>3, <2>2
    <2> QED  BY <1>0, <2>1, <2>2 DEF Slot
  <1>4. lo = Index + 1 => Index < lo
    BY <1>0 DEF Slot
  <1> QED  BY <1>0, <1>1, <1>3, <1>4

(* The stamp is that of the job the sort has put into slot Index.           *)
LEMMA SortAndStampTimes == BooksInv /\ TimesInv /\ SortAndStamp => TimesInv'
  <1> SUFFICES ASSUME BooksInv, TimesInv, SortAndStamp PROVE TimesInv'
    OBVIOUS
  <1> USE NIsNat
  <1>0. /\ pc = "stamp" /\ pc' = "write"
        /\ UNCHANGED <<dispatchVars, rem, end, clock, Index, nextforfork, time, printed>>
    BY DEF SortAndStamp, At
  <1>1. current \in Job /\ Index \in Slot /\ Index < nextforfork
    BY <1>0, CurrentFacts
  <1>2. /\ flag[current] = 0 => left[current] < need[current]
        /\ flag[current] \in {0, 1}
    <2>1. flag[current] = 0 => left[current] # need[current]
      BY <1>0, <1>1 DEF TimesInv, InLoop, CurrentTimes
    <2>2. left[current] <= need[current] /\ left[current] \in Int /\ need[current] \in Nat
      BY <1>1 DEF TimesInv, JobTimes, BooksInv, TypeOK, DispatchTypeOK
    <2> QED  BY <1>1, <2>1, <2>2 DEF BooksInv, TypeOK
  <1>3. \A i \in Slot : Index < i => Index + 1 <= i /\ Index <= i
    BY <1>1 DEF Slot
  <1>4. PICK b : b = scheduler'
    OBVIOUS
  <1>5. CASE flag[current] = 1
    <2>1. /\ b \in QSort(scheduler, Index, nextforfork, rem)
          /\ start' = [start EXCEPT ![b[Index]] = elapsed]
          /\ flag' = [flag EXCEPT ![b[Index]] = 0]
      BY <1>4, <1>5 DEF SortAndStamp
    <2>2. /\ b \in Listings /\ \A i \in Slot : i < Index => b[i] = scheduler[i]
      BY <1>0, <1>4, <2>1, SortFacts
    <2>3. \A i \in Slot : Index <= i => flag[b[i]] = 1
      BY <1>0, <1>4, <1>5, <2>1, SortedFlags
    <2>4. /\ \A i \in Slot : Index < i => flag[b[i]] = 1
          /\ flag[b[Index]] = 1
      BY <1>1, <1>3, <2>3 DEF Slot
    <2> DEFINE first == TRUE
    <2>5. /\ first \in BOOLEAN /\ first => flag[b[Index]] = 1
          /\ start' = IF first THEN [start EXCEPT ![b[Index]] = elapsed] ELSE start
          /\ flag' = IF first THEN [flag EXCEPT ![b[Index]] = 0] ELSE flag
      BY <2>1, <2>4
    <2> QED  BY <1>0, <1>4, <2>2, <2>4, <2>5, FlagTestTimes
  <1>6. CASE flag[current] = 0
    <2>1. /\ b \in QSort(scheduler, Index + 1, nextforfork, rem)
          /\ start' = start /\ flag' = flag
      BY <1>4, <1>6 DEF SortAndStamp
    <2>2. /\ b \in Listings /\ \A i \in Slot : i < Index => b[i] = scheduler[i]
      BY <1>0, <1>4, <2>1, SortFacts
    <2>a. Index + 1 # Index
      BY <1>1 DEF Slot
    <2>3. /\ \A i \in Slot : Index + 1 <= i => flag[b[i]] = 1
          /\ b[Index] = scheduler[Index]
      BY <1>0, <1>4, <2>1, <2>a, SortedFlags
    <2>4. \A i \in Slot : Index < i => flag[b[i]] = 1
      BY <1>3, <2>3
    <2> DEFINE first == FALSE
    <2>5. /\ first \in BOOLEAN
          /\ ~first => flag[b[Index]] = 0 /\ left[b[Index]] < need[b[Index]]
          /\ start' = IF first THEN [start EXCEPT ![b[Index]] = elapsed] ELSE start
          /\ flag' = IF first THEN [flag EXCEPT ![b[Index]] = 0] ELSE flag
      BY <1>2, <1>6, <2>1, <2>3 DEF current
    <2> QED  BY <1>0, <1>4, <2>2, <2>4, <2>5, FlagTestTimes
  <1> QED  BY <1>2, <1>5, <1>6

(* The job that is about to get its first slice is a shortest one.          *)
LEMMA SortAndStampShortest == BooksInv /\ TimesInv /\ SortAndStamp => ShortestInv'
  <1> SUFFICES ASSUME BooksInv, TimesInv, SortAndStamp PROVE ShortestInv'
    OBVIOUS
  <1> USE NIsNat
  <1>0. /\ pc = "stamp" /\ UNCHANGED <<need, left, rem, Index, nextforfork>>
    BY DEF SortAndStamp, At, dispatchVars, input, child
  <1>1. /\ current \in Job /\ Index \in Slot /\ Index < nextforfork /\ nextforfork \in 0 .. N
        /\ scheduler \in Listings /\ rem \in [Job -> Nat] /\ flag[current] \in {0, 1}
    BY <1>0, CurrentFacts DEF BooksInv, TypeOK, ListingInv
  <1>4. PICK b : b = scheduler'
    OBVIOUS
  <1>5. CASE flag[current] = 1
    <2>1. b \in QSort(scheduler, Index, nextforfork, rem)
      BY <1>4, <1>5 DEF SortAndStamp
    <2>2. /\ b \in Listings
          /\ \A i \in Slot : Index <= i /\ i < nextforfork => Resting(b[i])
      BY <1>0, <1>4, <2>1, SortFacts
    <2>3. \A i \in Slot : Index <= i => flag[b[i]] = 1
      BY <1>0, <1>4, <1>5, <2>1, SortedFlags
    <2>4. \A i, k \in Slot : Index <= i /\ i <= k /\ k < nextforfork => rem[b[i]] <= rem[b[k]]
      BY <1>1, <2>1, QSortFacts DEF Slot
    <2>5. ASSUME NEW i \in Slot, Index <= i, i < nextforfork
          PROVE  need[b[i]] = rem[b[i]]
      <3>1. b[i] \in Job
        BY <2>2 DEF Listings
      <3>2. need[b[i]] = left[b[i]]
        BY <2>3, <2>5, <3>1 DEF TimesInv, JobTimes
      <3>3. left[b[i]] = rem[b[i]]
        BY <2>2, <2>5 DEF Resting
      <3> QED  BY <3>2, <3>3
    <2>6. Index <= Index
      BY <1>1 DEF Slot
    <2>7. \A i \in Slot : Index <= i /\ i < nextforfork => need[b[Index]] <= need[b[i]]
      BY <1>1, <2>4, <2>5, <2>6
    <2> QED  BY <1>0, <1>4, <2>7 DEF ShortestInv, current
  <1>6. CASE flag[current] = 0
    <2>1. b \in QSort(scheduler, Index + 1, nextforfork, rem)
      BY <1>4, <1>6 DEF SortAndStamp
    <2>2. Index + 1 # Index
      BY <1>1 DEF Slot
    <2>3. b[Index] = current
      BY <1>0, <1>4, <2>1, <2>2, SortedFlags DEF current
    <2>4. left[current] # need[current]
      BY <1>0, <1>1, <1>6 DEF TimesInv, InLoop, CurrentTimes
    <2> QED  BY <1>0, <1>4, <2>3, <2>4 DEF ShortestInv, current
  <1> QED  BY <1>1, <1>5, <1>6

(* From the sort to the first unit nothing comes between: main forks no job *)
(* and moves no entry.                                                      *)
LEMMA ShortestKept ==
  ASSUME IInv, [Next]_vars
  PROVE  ShortestInv'
  <1> USE NIsNat
  <1>0. BooksInv /\ TimesInv /\ ShortestInv
    BY DEF IInv
  <1>1. CASE SortAndStamp
    BY <1>0, <1>1, SortAndStampShortest
  <1>2. CASE AssignWrite \/ AssignRaise \/ UNCHANGED vars
    <2>1. /\ UNCHANGED <<scheduler, Index, nextforfork, need, left>>
          /\ pc \in {"write", "raise"} \/ pc' = pc
      BY <1>2 DEF AssignWrite, AssignRaise, Send, Raise, At, vars, dispatchVars, mainVars, data,
                  input, child
    <2> QED  BY <1>0, <2>1 DEF ShortestInv, current
  <1>3. CASE ReadFile \/ WaitLoop \/ ExecuteFork \/ ForkFails \/ AssignCharge \/ AssignWait
             \/ PrintResults
    <2>1. pc' \notin {"write", "raise", "charge"}
      BY <1>3 DEF ReadFile, WaitLoop, ExecuteFork, ForkFails, AssignCharge, AssignWait,
                  PrintResults, Exit, At
    <2> QED  BY <2>1 DEF ShortestInv
  <1>4. ASSUME NEW j \in Job, ChildStep(j)
        PROVE  ShortestInv'
    <2>1. UNCHANGED <<pc, scheduler, Index, nextforfork>>
      BY <1>4 DEF ChildStep, mainVars, data
    <2>2. CASE BurnUnit(j)
      <3>1. j = current /\ left[j] \in Int /\ left' = [left EXCEPT ![j] = @ - 1] /\ need' = need
        BY <1>0, <2>2, RunningFacts DEF BurnUnit, input
      <3>2. left[j] <= need[j] /\ need[j] \in Nat /\ left'[j] = left[j] - 1
        BY <1>0, <3>1 DEF TimesInv, JobTimes, BooksInv, TypeOK, DispatchTypeOK
      <3>3. left'[j] # need[j]
        BY <3>1, <3>2
      <3> QED  BY <2>1, <3>1, <3>3 DEF ShortestInv, current
    <2>3. CASE ~BurnUnit(j)
      BY <1>0, <1>4, <2>1, <2>3, ChildIsUnseen DEF ShortestInv, current
    <2> QED  BY <2>2, <2>3
  <1> QED  BY <1>1, <1>2, <1>3, <1>4 DEF Next, MainStep

(* Every step of sjf.c and of its children preserves the invariant.         *)
LEMMA NextInv ==
  ASSUME ~ExecMayFail, IInv, [Next]_vars
  PROVE  IInv'
  <1>0. BooksInv /\ TimesInv /\ ShortestInv'
    BY ShortestKept DEF IInv
  <1>1. CASE MainStep
    <2>1. BooksInv'
      BY <1>0, <1>1, ReadFileInv, WaitLoopInv, ExecuteForkInv, ForkFailsInv, SortAndStampInv,
         AssignWriteInv, AssignRaiseInv, AssignChargeInv, AssignWaitInv, PrintResultsInv DEF MainStep
    <2>2. TimesInv'
      BY <1>0, <1>1, ReadFileTimes, WaitLoopTimes, ExecuteForkTimes, ForkFailsTimes,
         SortAndStampTimes, AssignWriteTimes, AssignRaiseTimes, AssignChargeTimes, AssignWaitTimes,
         PrintResultsTimes DEF MainStep
    <2> QED  BY <1>0, <2>1, <2>2 DEF IInv
  <1>2. CASE \E j \in Job : ChildStep(j)
    BY <1>0, <1>2, ChildStepInv, ChildStepTimes DEF IInv
  <1>3. CASE UNCHANGED vars
    BY <1>0, <1>3, StutterInv, StutterTimes DEF IInv
  <1> QED  BY <1>1, <1>2, <1>3 DEF Next

(* What the invariant is for.                                               *)
LEMMA SjfInvImplies ==
  IInv => /\ BooksAreTrue /\ NoMissedArrival
          /\ CurrentIsForked /\ WaitFindsCurrent /\ NoEarlyEof /\ ResultsAreTrue
  BY InvImplies, TimesImply DEF IInv, BooksAreTrue

(* The invariant that ties main's books and stamps to the children holds    *)
(* throughout every run of sjf.c, whatever order qsort() gives to ties.     *)
THEOREM SjfInvariance ==
  ASSUME ~ExecMayFail
  PROVE  Spec => []IInv
  <1>1. Init => IInv
    BY InitInv, InitTimes DEF IInv, ShortestInv, Init
  <1>2. IInv /\ [Next]_vars => IInv'
    BY NextInv
  <1> QED  BY <1>1, <1>2, PTL DEF Spec

(* wait(&temp) in sjf.c finds the current job and no other.                 *)
THEOREM SjfWait ==
  ASSUME ~ExecMayFail
  PROVE  Spec => []WaitFindsCurrent
  BY SjfInvariance, SjfInvImplies, PTL

(* main's clock is the real time, and its execution_time fields are what    *)
(* the children count, whenever sjf.c sorts by them or decides otherwise.   *)
THEOREM SjfBooks ==
  ASSUME ~ExecMayFail
  PROVE  Spec => []BooksAreTrue
  BY SjfInvariance, SjfInvImplies, PTL

(* No child of sjf.c reads end-of-file while main is alive, whichever       *)
(* fork() or execl() fails.                                                 *)
THEOREM SjfEof == Spec => []NoEarlyEof
  <1>1. Init => EofInv
    BY DEF Init, DispatchInit, EofInv
  <1>2. EofInv /\ [Next]_vars => EofInv'
    BY EofStep DEF Next, MainStep, SortAndStamp
  <1>3. EofInv => NoEarlyEof
    BY DEF EofInv, NoEarlyEof
  <1> QED  BY <1>1, <1>2, <1>3, PTL DEF Spec

(* The flag test and the sort of SJF() when calls may fail.                 *)
LEMMA SortAndStampFault == FaultInv /\ SortAndStamp => FaultInv'
  <1> SUFFICES ASSUME FaultInv, SortAndStamp PROVE FaultInv'
    OBVIOUS
  <1> USE NIsNat
  <1>0. /\ pc = "stamp" /\ pc' = "write"
        /\ UNCHANGED <<dispatchVars, rem, end, clock, Index, nextforfork, time, printed>>
    BY DEF SortAndStamp, At
  <1>1. InLoop /\ Index < nextforfork
    BY <1>0 DEF FaultInv, IndexInv, InLoop
  <1>2. /\ scheduler \in Listings /\ current \in Job /\ CurrentServed
        /\ Index \in Slot /\ nextforfork \in 0 .. N
    BY <1>0, <1>1, ServedFacts DEF FaultInv, ListingInv
  <1>3. /\ flag[current] = 0 => ~(left[current] = need[current] /\ ~Failed(current))
        /\ flag[current] \in {0, 1}
    BY <1>0, <1>2 DEF CurrentServed, FaultInv, TypeOK
  <1>4. PICK first \in BOOLEAN : first <=> flag[current] = 1
    OBVIOUS
  <1>5. PICK lo \in {Index, Index + 1} : lo = IF first THEN Index ELSE Index + 1
    OBVIOUS
  <1>6. PICK b : b = scheduler'
    OBVIOUS
  <1>7. /\ b \in QSort(scheduler, lo, nextforfork, rem)
        /\ start' = IF first THEN [start EXCEPT ![b[Index]] = elapsed] ELSE start
        /\ flag' = IF first THEN [flag EXCEPT ![b[Index]] = 0] ELSE flag
    BY <1>3, <1>4, <1>5, <1>6 DEF SortAndStamp
  <1>8. lo \in Nat /\ Index <= lo /\ (~first => Index < lo) /\ (first => lo = Index)
    BY <1>2, <1>5 DEF Slot
  <1>9. /\ b \in Listings
        /\ \A i \in Slot : i < lo \/ nextforfork <= i => b[i] = scheduler[i]
        /\ \A i \in Slot : lo <= i /\ i < nextforfork =>
             \E k \in Slot : lo <= k /\ k < nextforfork /\ b[i] = scheduler[k]
    BY <1>2, <1>7, <1>8, QSortFacts
  <1>10. \A i \in Slot : i < Index => i < lo
    BY <1>2, <1>8 DEF Slot
  <1>11. ASSUME NEW i \in Slot, Index <= i, i < nextforfork
         PROVE  \E k \in Slot : Index <= k /\ k < nextforfork /\ b[i] = scheduler[k]
    <2>1. CASE i < lo
      BY <1>9, <1>11, <2>1
    <2>2. CASE lo <= i
      <3>1. PICK k \in Slot : lo <= k /\ k < nextforfork /\ b[i] = scheduler[k]
        BY <1>9, <1>11, <2>2
      <3>2. Index <= k
        BY <1>2, <1>8, <3>1 DEF Slot
      <3> QED  BY <3>1, <3>2
    <2> QED  BY <1>8, <2>1, <2>2 DEF Slot
  <1>12. ASSUME NEW k \in Slot, lo <= k PROVE flag[scheduler[k]] = 1
    <2>1. CASE k = Index
      BY <1>2, <1>4, <1>8, <1>12, <2>1 DEF current, Slot
    <2>2. CASE k # Index
      <3>1. Index < k
        BY <1>2, <1>8, <1>12, <2>2 DEF Slot
      <3> QED  BY <1>0, <3>1 DEF FaultInv, PlacesInv
    <2> QED  BY <2>1, <2>2
  <1>13. ASSUME NEW i \in Slot, lo <= i PROVE flag[b[i]] = 1
    <2>1. CASE i < nextforfork
      BY <1>9, <1>12, <1>13, <2>1
    <2>2. CASE nextforfork <= i
      BY <1>9, <1>12, <1>13, <2>2
    <2> QED  BY <1>2, <2>1, <2>2 DEF Slot
  <1>14. /\ \A i \in Slot : Index < i => flag[b[i]] = 1
         /\ first => flag[b[Index]] = 1
    <2>1. \A i \in Slot : Index < i => lo <= i
      BY <1>2, <1>5 DEF Slot
    <2>2. Index <= Index
      BY <1>2 DEF Slot
    <2> QED  BY <1>2, <1>8, <1>13, <2>1, <2>2
  <1>15. ~first => /\ flag[b[Index]] = 0
                   /\ ~(left[b[Index]] = need[b[Index]] /\ ~Failed(b[Index]))
    BY <1>2, <1>3, <1>4, <1>8, <1>9 DEF current
  <1> QED  BY <1>0, <1>6, <1>7, <1>9, <1>10, <1>11, <1>14, <1>15, FlagTestFault

(* Where sjf.c and its children are in runs in which any fork() and any     *)
(* execl() may fail: main's clock may run ahead, never behind.              *)
THEOREM SjfFaultInvariance == Spec => []FaultInv
  <1>1. FaultInv /\ [Next]_vars => FaultInv'
    BY ReadFileFault, WaitLoopFault, ExecuteForkFault, ForkFailsFault, SortAndStampFault,
       AssignWriteFault, AssignRaiseFault, AssignChargeFault, AssignWaitFault, PrintResultsFault,
       ChildStepFault, StutterFault DEF Next, MainStep
  <1> QED  BY <1>1, FaultInit, PTL DEF Spec

(* The sorts of sjf.c do not make executeFork() miss a ready time, nor do   *)
(* slices that no child could burn: when main decides, neither its clock    *)
(* nor the real time has passed that of a job still to fork.                *)
THEOREM SjfArrivals == Spec => []NoMissedArrival
  BY SjfFaultInvariance, FaultImplies, PTL

(* When sjf.c prints, every child has been waited for, and every job that   *)
(* got the CPU has been run to its end and has true results, whichever      *)
(* fork() or execl() failed.                                                *)
THEOREM SjfServed == Spec => []ServedAreTrue
  BY SjfFaultInvariance, FaultImplies, PTL

(* The results sjf.c prints are true, although the flag it tests and the    *)
(* flag it clears may belong to different jobs.                             *)
THEOREM SjfResults ==
  ASSUME ~ExecMayFail
  PROVE  Spec => []ResultsAreTrue
  BY SjfInvariance, SjfInvImplies, PTL

-----------------------------------------------------------------------------
(* Every step is a unit of the ideal shortest-job-first CPU or no step of   *)
(* it.                                                                      *)
LEMMA IdealStep == IInv /\ [Next]_vars => [Ideal!SjfNext]_(Ideal!vars)
  <1> SUFFICES ASSUME IInv, [Next]_vars PROVE [Ideal!SjfNext]_(Ideal!vars)
    OBVIOUS
  <1> USE NIsNat
  <1>0. BooksInv /\ TimesInv /\ ShortestInv
    BY DEF IInv
  <1>1. UNCHANGED <<arrive, need, left, elapsed>> => UNCHANGED Ideal!vars
    BY DEF Ideal!vars
  <1>2. CASE MainStep
    <2>1. CASE WaitLoop
      <3>1. CASE elapsed' # elapsed
        BY <1>0, <2>1, <3>1, WaitLoopIdles DEF Ideal!SjfNext
      <3>2. CASE elapsed' = elapsed
        BY <1>1, <2>1, <3>2 DEF WaitLoop, input, child
      <3> QED  BY <3>1, <3>2
    <2>2. CASE ExecuteFork
      BY <1>0, <1>1, <2>2, ForkIsUnseen
    <2>3. CASE SortAndStamp
      BY <1>1, <2>3 DEF SortAndStamp, dispatchVars, input, child
    <2>4. CASE ~WaitLoop /\ ~ExecuteFork /\ ~SortAndStamp
      BY <1>1, <1>2, <2>4, RestIsUnseen DEF MainStep
    <2> QED  BY <2>1, <2>2, <2>3, <2>4
  <1>3. ASSUME NEW j \in Job, ChildStep(j)
        PROVE  [Ideal!SjfNext]_(Ideal!vars)
    <2>1. CASE BurnUnit(j)
      <3>1. /\ j = current /\ pc \in {"raise", "charge"}
            /\ Ideal!Serve(j) /\ Ideal!NonPreemptive(j)
            /\ \A k \in Ideal!Pending :
                 \E i \in Slot : Index <= i /\ i < nextforfork /\ scheduler[i] = k
            /\ got[j] = 0 => left[j] = need[j]
        BY <1>0, <1>3, <2>1, BurnUnitServes DEF ChildStep
      <3>2. got[j] = 0 => \A k \in Ideal!Pending : need[j] <= need[k]
        BY <1>0, <3>1 DEF ShortestInv
      <3> QED  BY <3>1, <3>2 DEF Ideal!SjfNext, got
    <2>2. CASE ~BurnUnit(j)
      BY <1>1, <1>3, <2>2, ChildIsUnseen
    <2> QED  BY <2>1, <2>2
  <1>4. CASE UNCHANGED vars
    BY <1>1, <1>4 DEF vars, dispatchVars, input, child
  <1> QED  BY <1>2, <1>3, <1>4 DEF Next

(* Unit by unit, sjf.c and its children behave as a CPU that starts a       *)
(* shortest of the jobs that have arrived, runs it to its end, and idles    *)
(* only when no job that has arrived is unfinished.                         *)
THEOREM SjfIsIdeal ==
  ASSUME ~ExecMayFail
  PROVE  Spec => ImplementsSjf
  BY IdealInit, IdealStep, SjfInvariance, PTL DEF Spec, ImplementsSjf, Ideal!SjfSpec
=============================================================================
