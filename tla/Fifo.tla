-------------------------------- MODULE Fifo --------------------------------
(***************************************************************************)
(* fifo.c: the jobs are run in order of ready time, each to completion.    *)
(***************************************************************************)
EXTENDS Batch

\* Mutant of Stamp: the flag is not cleared.
StampAgain ==
  /\ At("stamp")
  /\ start' = [start EXCEPT ![current] = elapsed]
  /\ pc' = "write"
  /\ UNCHANGED <<dispatchVars, scheduler, flag, rem, end, clock, Index, nextforfork,
                 time, printed>>

\* The flag test of FIFO(): time[0] is taken at the first dispatch of a job.
Stamp ==
  /\ At("stamp")
  /\ \/ /\ flag[current] = 1
        /\ start' = [start EXCEPT ![current] = elapsed]
        /\ flag' = [flag EXCEPT ![current] = 0]
     \/ /\ flag[current] = 0
        /\ UNCHANGED <<start, flag>>
  /\ pc' = "write"
  /\ UNCHANGED <<dispatchVars, scheduler, rem, end, clock, Index, nextforfork,
                 time, printed>>

MainStep ==
  \/ ReadFile \/ WaitLoop \/ ExecuteFork \/ ForkFails \/ Stamp
  \/ AssignWrite \/ AssignRaise \/ AssignCharge \/ AssignWait \/ PrintResults

Next == MainStep \/ \E j \in Job : ChildStep(j)

Spec == Init /\ [][Next]_vars

\* The kernel never leaves the CPU idle while a process is runnable.
FairSpec == Spec /\ WF_vars(Next)

(* The unit-by-unit behaviour is that of an ideal first-come-first-served   *)
(* CPU: who is served when, and when the CPU idles.                         *)
ImplementsFifo == Ideal!FifoSpec
=============================================================================
