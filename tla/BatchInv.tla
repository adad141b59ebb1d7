------------------------------ MODULE BatchInv ------------------------------
(***************************************************************************)
(* The parts of the inductive invariants of fifo.c and sjf.c that the two  *)
(* share for runs in which execl() does not fail (fork() may), and         *)
(* FaultInv, for all runs.                                                 *)
(*                                                                         *)
(* The first say where every child is.  A job is finished (slots below     *)
(* Index), current, ready (slots up to nextforfork) or still to come; only *)
(* the current one can have a slice in flight, and then main's books, the  *)
(* child's own counter and the real time differ by exactly the units of    *)
(* that slice that are not burnt yet.                                      *)
(***************************************************************************)
EXTENDS Batch

InLoop == pc \in {"waitLoop", "executeFork", "stamp", "write", "raise", "charge", "wait"}

\* Nothing is under way for the child of j.
Quiet(j) == pipe[j] = << >> /\ x[j] = 0

\* A child that has been forked and waits to be given a slice.
Resting(j) == state[j] \in {"forked", "scan"} /\ Quiet(j) /\ left[j] = rem[j]

Finished(j) == state[j] = "reaped" /\ Quiet(j) /\ left[j] = 0 /\ rem[j] = 0

ToCome(j) == state[j] = "none" /\ Quiet(j) /\ left[j] = rem[j]

\* The slice has been written and not read.
Handed(j) ==
  /\ state[j] \in {"forked", "scan"}
  /\ pipe[j] = <<time>>
  /\ x[j] = 0
  /\ left[j] = rem[j]
  /\ clock = elapsed

\* The slice has been read: x units of it are to be burnt.
Taken(j) ==
  /\ state[j] \in {"run", "scan", "zombie"}
  /\ pipe[j] = << >>
  /\ left[j] = rem[j] - time + x[j]
  /\ clock + time - x[j] = elapsed
  /\ state[j] = "scan" => x[j] = 0 /\ left[j] > 0
  /\ state[j] = "zombie" => x[j] = 0 /\ left[j] = 0

CurrentInv ==
  /\ Deciding => Resting(current)
  /\ pc \in {"raise", "charge"} => time <= rem[current] /\ (Handed(current) \/ Taken(current))
  /\ pc = "charge" /\ (Handed(current) \/ state[current] = "run") => prio[current] = RunPrio
  /\ pc = "wait" => state[current] = "zombie" /\ Quiet(current)
                    /\ left[current] = 0 /\ rem[current] = 0

ListingInv ==
  /\ scheduler \in Listings
  /\ pc # "read" => \A i, k \in Slot :
       nextforfork <= i /\ i <= k => arrive[scheduler[i]] <= arrive[scheduler[k]]

IndexInv ==
  /\ Index <= nextforfork
  /\ InLoop => Index < N
  /\ pc = "read" => nextforfork = 0
  /\ pc = "print" => Index = N
  /\ pc \in {"stamp", "write", "raise", "charge", "wait"} => Index < nextforfork

SlotsInv ==
  pc # "exited" =>
    /\ \A i \in Slot : i < Index => Finished(scheduler[i])
    /\ \A i \in Slot : Index < i /\ i < nextforfork => Resting(scheduler[i])
    /\ \A i \in Slot : nextforfork <= i => ToCome(scheduler[i])
    /\ InLoop /\ Index < nextforfork => CurrentInv

ClockInv ==
  /\ pc = "read" => clock = 0
  /\ Deciding \/ pc \in {"read", "wait"} => clock = elapsed
  /\ nextforfork < N =>
       /\ Deciding \/ pc = "wait" => clock <= arrive[upcoming]
       /\ pc \in {"stamp", "write"} => clock < arrive[upcoming]
       /\ pc \in {"raise", "charge"} => clock + time <= arrive[upcoming]
       /\ pc = "executeFork" /\ Index = nextforfork => clock = arrive[upcoming]
       /\ pc = "exited" => elapsed <= arrive[upcoming]

FdInv ==
  pc \notin {"read", "exited"} =>
    \A j \in Job : /\ Main \in writers[j]
                   /\ state[j] = "none" => Main \in readers[j]
                   /\ Alive(j) => j \in readers[j]

\* After main has gone nobody burns units any more.
ExitInv ==
  pc = "exited" => \A j \in Job : pipe[j] = << >> /\ state[j] # "run"

(* main's books and the children agree: inductive by itself in the runs of  *)
(* fifo.c and sjf.c in which execl() does not fail.                         *)
BooksInv ==
  /\ TypeOK
  /\ ListingInv
  /\ IndexInv
  /\ SlotsInv
  /\ ClockInv
  /\ FdInv
  /\ ExitInv

-----------------------------------------------------------------------------
(* Time stamps.                                                            *)

\* The stamps of a job and the units it has been served.
JobTimes(j) ==
  /\ left[j] <= need[j] /\ rem[j] <= need[j]
  /\ left[j] < need[j] => start[j] # Never /\ began[j] = start[j]
  /\ left[j] = need[j] => began[j] = Never
  /\ flag[j] = 1 => left[j] = need[j]
  /\ state[j] # "none" => arrive[j] <= elapsed

\* Finished jobs have their time[1]; the flag of a job that has not been
\* current is set.
SlotTimes ==
  /\ pc # "exited" => \A i \in Slot : i < Index => end[scheduler[i]] = ended[scheduler[i]]
  /\ pc \notin {"read", "exited"} =>
       \A i \in Slot : Index < i \/ nextforfork <= i => flag[scheduler[i]] = 1

\* The current job was stamped now or has burnt a unit since its stamp.
CurrentTimes ==
  LET c == current
      untouched == left[c] = need[c]
  IN  /\ pc \in {"waitLoop", "executeFork", "stamp"} /\ flag[c] = 0 => ~untouched
      /\ pc \in {"write", "raise", "charge"} => flag[c] = 0 /\ (untouched => start[c] = elapsed)
      /\ pc \in {"raise", "charge"} => time > 0 \/ rem[c] = 0
      /\ pc \in {"raise", "charge", "wait"} /\ state[c] = "zombie" => ended[c] = elapsed

\* Results are printed once, when every job has been run to its end.
ReportTimes ==
  /\ pc # "exited" => printed = << >>
  /\ pc = "exited" /\ printed # << >> =>
       \A j \in Job : state[j] = "reaped" /\ left[j] = 0 /\ end[j] = ended[j]

(* The stamps main takes are the times at which its children began and      *)
(* ended: inductive together with BooksInv.                                 *)
TimesInv ==
  /\ \A j \in Job : JobTimes(j)
  /\ pc = "read" => \A j \in Job : left[j] = need[j]
  /\ SlotTimes
  /\ InLoop /\ Index < nextforfork => CurrentTimes
  /\ ReportTimes

(* While main is alive and has made its pipes it holds a write end of each, *)
(* whether or not the children have been started.                           *)
EofInv ==
  /\ pc = "read" => \A j \in Job : state[j] = "none"
  /\ pc \notin {"read", "exited"} => \A j \in Job : Main \in writers[j]

-----------------------------------------------------------------------------
(* What remains when execl() may fail.  A child that could not start keeps  *)
(* all its units and dies; main charges the slices it hands to it all the   *)
(* same, so that its clock runs ahead of the real time, but never past the  *)
(* next arrival.                                                            *)

\* execl() has failed, whether or not main has noticed.
Failed(j) ==
  state[j] \in {"zombie", "reaped"} /\ x[j] = 0 /\ left[j] = need[j] /\ began[j] = Never

\* The child has run to its end, whether or not it has been waited for.
Gone(j) == state[j] \in {"zombie", "reaped"} /\ Quiet(j) /\ left[j] = 0

\* The current slice has been handed to the child, and main's clock is not
\* behind: Handed or Taken, up to that.
Given(j) ==
  \/ /\ state[j] \in {"forked", "scan"} /\ pipe[j] = <<time>> /\ x[j] = 0
     /\ left[j] = rem[j] /\ elapsed <= clock
  \/ /\ state[j] \in {"run", "scan", "zombie"} /\ pipe[j] = << >>
     /\ left[j] = rem[j] - time + x[j] /\ elapsed + x[j] <= clock + time
     /\ state[j] = "scan" => x[j] = 0 /\ left[j] > 0
     /\ state[j] = "zombie" => x[j] = 0 /\ left[j] = 0

\* main never plans a slice past the next arrival or the end of the job.
PlanInv ==
  /\ pc \in {"raise", "charge"} =>
       time <= rem[current] /\ (time > 0 \/ rem[current] = 0)
  /\ pc = "wait" => rem[current] = 0
  /\ nextforfork < N =>
       /\ pc = "read" => clock = 0
       /\ Deciding \/ pc = "wait" => clock <= arrive[upcoming]
       /\ pc \in {"stamp", "write"} => clock < arrive[upcoming]
       /\ pc \in {"raise", "charge"} => clock + time <= arrive[upcoming]
       /\ pc = "executeFork" /\ Index = nextforfork => clock = arrive[upcoming]

\* Real time is not ahead of main's clock.
LeadInv ==
  /\ pc = "read" => elapsed = 0
  /\ Deciding \/ pc = "wait" => elapsed <= clock
  /\ pc \in {"raise", "charge"} => elapsed <= clock + time
  /\ pc = "exited" /\ nextforfork < N => elapsed <= arrive[upcoming]

\* The stamps of a job and the units it has been served.
JobServed(j) ==
  /\ left[j] <= need[j] /\ rem[j] <= need[j]
  /\ left[j] < need[j] => start[j] # Never /\ began[j] = start[j]
  /\ left[j] = need[j] => began[j] = Never
  /\ flag[j] = 1 => left[j] = need[j]
  /\ state[j] \in {"none", "forked"} => left[j] = need[j]

CurrentServed ==
  LET c == current
      untouched == left[c] = need[c] /\ ~Failed(c)
  IN  /\ Deciding => Resting(c) \/ Failed(c)
      /\ pc \in {"raise", "charge"} => Given(c) \/ Failed(c)
      /\ pc = "charge" /\ (state[c] = "run" \/ (Alive(c) /\ pipe[c] # << >>)) => prio[c] = RunPrio
      /\ pc = "wait" => (Gone(c) /\ state[c] = "zombie") \/ Failed(c)
      /\ pc \in {"waitLoop", "executeFork", "stamp"} /\ flag[c] = 0 => ~untouched
      /\ pc \in {"write", "raise", "charge"} => flag[c] = 0 /\ (untouched => start[c] = elapsed)
      /\ pc \in {"raise", "charge", "wait"} /\ state[c] = "zombie" /\ began[c] # Never =>
           ended[c] = elapsed

\* Where every child is while main is there.
PlacesInv ==
  pc # "exited" =>
    /\ \A i \in Slot : i < Index =>
         LET j == scheduler[i]
         IN  (Gone(j) \/ Failed(j)) /\ (began[j] # Never => end[j] = ended[j])
    /\ \A i \in Slot : Index < i /\ i < nextforfork =>
         Resting(scheduler[i]) \/ Failed(scheduler[i])
    /\ \A i \in Slot : nextforfork <= i => ToCome(scheduler[i])
    /\ \A i \in Slot : pc # "read" /\ (Index < i \/ nextforfork <= i) => flag[scheduler[i]] = 1
    /\ InLoop /\ Index < nextforfork => CurrentServed

\* Each wait() buries one child; after main has gone no units are burnt.
EndInv ==
  /\ pc # "exited" => /\ printed = << >>
                      /\ Cardinality({j \in Job : state[j] = "reaped"}) = Index
  /\ pc = "exited" => \A j \in Job : Alive(j) => pipe[j] = << >> /\ state[j] # "run"
  /\ printed # << >> =>
       \A j \in Job : /\ state[j] = "reaped"
                      /\ began[j] # Never => left[j] = 0 /\ end[j] = ended[j]

(* The invariant of the runs of fifo.c and sjf.c in which any fork() and    *)
(* any execl() may fail.                                                    *)
FaultInv ==
  /\ TypeOK /\ ListingInv /\ IndexInv /\ PlanInv /\ LeadInv
  /\ \A j \in Job : JobServed(j)
  /\ PlacesInv /\ EndInv /\ EofInv
=============================================================================
