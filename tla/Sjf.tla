-------------------------------- MODULE Sjf ---------------------------------
(***************************************************************************)
(* sjf.c: fifo.c with the forked jobs sorted by execution_time before each *)
(* dispatch; the job that has been started is left where it is.            *)
(***************************************************************************)
EXTENDS Batch

\* Mutant of SortAndStamp: the started job is sorted with the others.
SortAlways ==
  /\ At("stamp")
  /\ scheduler' \in QSort(scheduler, Index, nextforfork, rem)
  /\ start' = IF flag[current] = 1
              THEN [start EXCEPT ![scheduler'[Index]] = elapsed] ELSE start
  /\ flag' = [flag EXCEPT ![scheduler'[Index]] = 0]
  /\ pc' = "write"
  /\ UNCHANGED <<dispatchVars, rem, end, clock, Index, nextforfork, time, printed>>

\* Mutant of SortAndStamp: the time is taken before the sort.
StampThenSort ==
  /\ At("stamp")
  /\ \/ /\ flag[current] = 1
        /\ scheduler' \in QSort(scheduler, Index, nextforfork, rem)
        /\ start' = [start EXCEPT ![current] = elapsed]
        /\ flag' = [flag EXCEPT ![scheduler'[Index]] = 0]
     \/ /\ flag[current] = 0
        /\ scheduler' \in QSort(scheduler, Index + 1, nextforfork, rem)
        /\ UNCHANGED <<start, flag>>
  /\ pc' = "write"
  /\ UNCHANGED <<dispatchVars, rem, end, clock, Index, nextforfork, time, printed>>

\* The flag test of SJF().  The flag is that of the job in slot Index before
\* the sort, the time stamp and the cleared flag those of the job after it.
SortAndStamp ==
  /\ At("stamp")
  /\ \/ /\ flag[current] = 1
        /\ scheduler' \in QSort(scheduler, Index, nextforfork, rem)
        /\ start' = [start EXCEPT ![scheduler'[Index]] = elapsed]
        /\ flag' = [flag EXCEPT ![scheduler'[Index]] = 0]
     \/ /\ flag[current] = 0
        /\ scheduler' \in QSort(scheduler, Index + 1, nextforfork, rem)
        /\ UNCHANGED <<start, flag>>
  /\ pc' = "write"
  /\ UNCHANGED <<dispatchVars, rem, end, clock, Index, nextforfork, time, printed>>

MainStep ==
  \/ ReadFile \/ WaitLoop \/ ExecuteFork \/ ForkFails \/ SortAndStamp
  \/ AssignWrite \/ AssignRaise \/ AssignCharge \/ AssignWait \/ PrintResults

Next == MainStep \/ \E j \in Job : ChildStep(j)

Spec == Init /\ [][Next]_vars

\* The kernel never leaves the CPU idle while a process is runnable.
FairSpec == Spec /\ WF_vars(Next)

(* The unit-by-unit behaviour is that of an ideal non-preemptive            *)
(* shortest-job-first CPU.                                                  *)
ImplementsSjf == Ideal!SjfSpec
=============================================================================
