-------------------------------- MODULE RrInv -------------------------------
(***************************************************************************)
(* The inductive invariants behind the safety properties of rr.c: IInv for *)
(* runs in which execl() does not fail (fork() may), FaultInv for all runs.*)
(*                                                                         *)
(* IInv says where every child is: on the ring, reaped, or still to come.  *)
(* A child on the ring rests, with the remaining time main has booked for  *)
(* it, unless it is the current one and main has handed it a slice.  And   *)
(* it says what the ring is: the nodes in a row, each linked both ways to  *)
(* its neighbours, the last to the first.                                  *)
(***************************************************************************)
EXTENDS Rr

\* main has chosen a slice and not booked it yet.
Slicing == pc \in {"write", "raise", "account", "wait"}

\* The slice has been written: run_job() writes none of length 0.
InFlight == pc \in {"raise", "account", "wait"} /\ t > 0

Quiet(j) == pipe[j] = << >> /\ x[j] = 0

Resting(j) == state[j] \in {"forked", "scan"} /\ Quiet(j) /\ left[j] = remain_time[j]

Finished(j) == state[j] = "reaped" /\ Quiet(j) /\ left[j] = 0

ToCome(j) == state[j] = "none" /\ Quiet(j) /\ left[j] = need[j] /\ remain_time[j] = need[j]

\* The slice has been written and not read.
Handed(j) ==
  /\ state[j] \in {"forked", "scan"}
  /\ pipe[j] = <<t>>
  /\ x[j] = 0
  /\ left[j] = remain_time[j]
  /\ cur_time = elapsed

\* The slice has been read: x units of it are to be burnt.
Taken(j) ==
  /\ state[j] \in {"run", "scan", "zombie"}
  /\ pipe[j] = << >>
  /\ x[j] <= t
  /\ left[j] = remain_time[j] - t + x[j]
  /\ cur_time + t - x[j] = elapsed
  /\ state[j] = "scan" => x[j] = 0 /\ left[j] > 0
  /\ state[j] = "zombie" => x[j] = 0 /\ left[j] = 0 /\ ended[j] = elapsed

\* The neighbours of place i of a ring of n places.
After(i, n) == IF i = n THEN 1 ELSE i + 1
Before(i, n) == IF i = 1 THEN n ELSE i - 1

\* r is the ring, from cur_job on.
IsRing(r) ==
  /\ r \in Seq(Job)
  /\ Len(r) = Cardinality(nodes)
  /\ \A i \in 1 .. Len(r) : r[i] \in nodes
  /\ \A n \in nodes : \E i \in 1 .. Len(r) : r[i] = n
  /\ \A i, k \in 1 .. Len(r) : r[i] = r[k] => i = k
  /\ IF Len(r) = 0 THEN cur_job = NULL ELSE cur_job = r[1]
  /\ \A i \in 1 .. Len(r) : /\ nxt[r[i]] = r[After(i, Len(r))]
                            /\ last[r[i]] = r[Before(i, Len(r))]

ListingInv ==
  /\ p_arr \in Listings
  /\ pc # "read" => \A i, k \in Slot : i <= k => arrive[p_arr[i]] <= arrive[p_arr[k]]

IndexInv ==
  /\ finish + Cardinality(nodes) = next
  /\ pc = "read" => next = 0
  /\ pc \notin {"read", "loop", "exited"} => finish < N
  /\ pc = "fork" => next < N
  /\ pc = "idle" => next < N /\ nodes = {}
  /\ nodes = {} => remain = Quantum

JobsInv ==
  pc # "exited" => \A i \in Slot :
    LET j == p_arr[i] IN
    /\ next <= i => ToCome(j) /\ j \notin nodes
    /\ i < next /\ j \notin nodes => Finished(j)
    /\ j \in nodes /\ (InFlight => j # cur_job) => Resting(j)

SliceInv ==
  Slicing =>
    /\ cur_job \in nodes
    /\ t <= remain_time[cur_job] /\ t <= remain
    /\ kind = "to_fork" => next < N /\ cur_time + t = arrive[upcoming]
                           /\ t < remain_time[cur_job] /\ t < remain
    /\ kind = "to_next" => t = remain /\ t < remain_time[cur_job]
    /\ kind = "to_die" => t = remain_time[cur_job]
    /\ pc \in {"write", "raise"} => t > 0
    /\ pc = "wait" => kind = "to_die"

CurrentInv ==
  /\ InFlight /\ pc # "wait" => Handed(cur_job) \/ Taken(cur_job)
  /\ InFlight /\ pc = "account" /\ (Handed(cur_job) \/ state[cur_job] = "run")
       => prio[cur_job] = RunPrio
  /\ InFlight /\ pc = "wait" => state[cur_job] = "zombie" /\ Taken(cur_job)

ClockInv ==
  /\ pc = "read" => cur_time = 0
  /\ pc \in {"read", "loop", "fork", "choose", "write"} => cur_time = elapsed
  /\ pc \in {"account", "wait"} /\ t = 0 => cur_time = elapsed
  /\ pc = "idle" => cur_time + t = elapsed
  /\ next < N =>
       /\ pc \in {"loop", "fork", "choose"} => cur_time <= arrive[upcoming]
       /\ Slicing \/ pc = "idle" => cur_time + t <= arrive[upcoming]
       /\ pc = "fork" => cur_time = arrive[upcoming]
       /\ pc = "exited" => elapsed <= arrive[upcoming]

FdInv ==
  pc \notin {"read", "exited"} =>
    /\ \A j \in Job : /\ state[j] # "none" => Main \in writers[j]
                      /\ Alive(j) => j \in readers[j]
    /\ pc = "fork" => Main \in writers[upcoming] /\ Main \in readers[upcoming]

\* The time stamps main takes and the times at which things happen.
StampInv ==
  /\ \A j \in Job :
       /\ remain_time[j] <= need[j] /\ left[j] <= need[j]
       /\ left[j] < need[j] => began[j] # Never /\ began[j] = ts[j][0]
       /\ left[j] = need[j] => began[j] = Never
  /\ InFlight /\ left[cur_job] = need[cur_job] => ts[cur_job][0] = elapsed
  /\ \A i \in 1 .. Len(printed) :
       LET j == printed[i]
       IN  state[j] = "reaped" /\ ts[j][0] = began[j] /\ ts[j][1] = ended[j]

\* After main has gone nobody burns units any more.
ExitInv == pc = "exited" => \A j \in Job : pipe[j] = << >> /\ state[j] # "run"

(* The inductive invariant of the runs of rr.c in which execl() does not    *)
(* fail.                                                                    *)
IInv ==
  /\ TypeOK
  /\ IsRing(Ring)
  /\ ListingInv
  /\ IndexInv
  /\ JobsInv
  /\ SliceInv
  /\ CurrentInv
  /\ ClockInv
  /\ FdInv
  /\ StampInv
  /\ ExitInv
-----------------------------------------------------------------------------
(* What remains when execl() may fail.  main's own books do not look at the *)
(* children at all.                                                         *)

\* main never plans a slice past the next arrival.
PlanInv ==
  /\ pc = "read" => cur_time = 0
  /\ next < N =>
       /\ pc \in {"loop", "fork", "choose"} => cur_time <= arrive[upcoming]
       /\ Slicing \/ pc = "idle" => cur_time + t <= arrive[upcoming]
       /\ pc = "fork" => cur_time = arrive[upcoming]

\* The jobs still to come have no node and are not charged; no job on the
\* ring is charged all it needs before its last slice.
NodesInv ==
  /\ \A i \in Slot : next <= i =>
       p_arr[i] \notin nodes /\ remain_time[p_arr[i]] = need[p_arr[i]]
  /\ \A j \in nodes : remain_time[j] > 0 \/ need[j] = 0

(* main's list and its books, whatever becomes of the children: inductive   *)
(* by itself.                                                               *)
MainInv ==
  /\ TypeOK
  /\ IsRing(Ring)
  /\ ListingInv
  /\ IndexInv
  /\ SliceInv
  /\ PlanInv
  /\ NodesInv

-----------------------------------------------------------------------------
(* A child that could not start keeps all its units and dies; main charges  *)
(* the slices it hands to it all the same, so that its clock runs ahead of  *)
(* the real time, but never past the next arrival.                          *)

\* execl() has failed, whether or not main has noticed.
Failed(j) ==
  state[j] \in {"zombie", "reaped"} /\ x[j] = 0 /\ left[j] = need[j] /\ began[j] = Never

\* The child has run to its end, whether or not it has been waited for.
Gone(j) == state[j] \in {"zombie", "reaped"} /\ Quiet(j) /\ left[j] = 0

\* A job of no units, taken off the ring although its child still waits.
Passed(j) == Resting(j) /\ left[j] = 0 /\ need[j] = 0

\* The current slice has been handed to the child, and main's clock is not
\* behind: Handed or Taken, up to that.
Given(j) ==
  \/ /\ state[j] \in {"forked", "scan"} /\ pipe[j] = <<t>> /\ x[j] = 0
     /\ left[j] = remain_time[j] /\ elapsed <= cur_time
  \/ /\ state[j] \in {"run", "scan", "zombie"} /\ pipe[j] = << >> /\ x[j] <= t
     /\ left[j] = remain_time[j] - t + x[j] /\ elapsed + x[j] <= cur_time + t
     /\ state[j] = "scan" => x[j] = 0 /\ left[j] > 0
     /\ state[j] = "zombie" => x[j] = 0 /\ left[j] = 0

\* Real time is not ahead of main's clock.
LeadInv ==
  /\ pc = "read" => elapsed = 0
  /\ pc \in {"loop", "fork", "choose", "write"} => elapsed <= cur_time
  /\ pc \in {"idle", "raise", "account", "wait"} => elapsed <= cur_time + t
  /\ pc = "exited" /\ next < N => elapsed <= arrive[upcoming]

\* The stamps of a job and the units it has been served.
JobServed(j) ==
  /\ left[j] <= need[j] /\ remain_time[j] <= need[j]
  /\ left[j] < need[j] => began[j] # Never /\ began[j] = ts[j][0]
  /\ left[j] = need[j] => began[j] = Never
  /\ state[j] \in {"none", "forked"} => left[j] = need[j]

\* The slice in flight.
CurrentServed ==
  LET c == cur_job
  IN  /\ pc \in {"raise", "account"} => Given(c) \/ Failed(c)
      /\ pc = "account" /\ (state[c] = "run" \/ (Alive(c) /\ pipe[c] # << >>)) => prio[c] = RunPrio
      /\ pc = "wait" => (Gone(c) /\ state[c] = "zombie") \/ Failed(c)
      /\ left[c] = need[c] /\ ~Failed(c) => ts[c][0] = elapsed
      /\ state[c] = "zombie" /\ began[c] # Never => ended[c] = elapsed

\* Where every child is while main is there.
PlacesInv ==
  pc # "exited" =>
    /\ \A i \in Slot : next <= i => ToCome(p_arr[i])
    /\ \A i \in Slot : LET j == p_arr[i] IN i < next /\ j \notin nodes =>
         /\ Gone(j) \/ Failed(j) \/ Passed(j)
         /\ began[j] # Never => ts[j][1] = ended[j]
    /\ \A j \in nodes : (InFlight => j # cur_job) => Resting(j) \/ Failed(j)
    /\ InFlight => CurrentServed

\* Each wait() buries one child and prints one job; after main has gone no
\* units are burnt.
EndInv ==
  /\ Len(printed) = finish
  /\ Cardinality({j \in Job : state[j] = "reaped"}) = finish
  /\ pc = "exited" => \A j \in Job : Alive(j) => pipe[j] = << >> /\ state[j] # "run"
  /\ \A i \in 1 .. Len(printed) :
       LET j == printed[i]
       IN  /\ j \notin nodes /\ state[j] # "none"
           /\ began[j] # Never => ~Alive(j) /\ left[j] = 0 /\ ts[j][1] = ended[j]

\* While main is alive it holds a write end of every pipe it has made.
EofInv ==
  /\ pc = "read" => \A j \in Job : state[j] = "none"
  /\ pc \notin {"read", "exited"} => \A j \in Job : state[j] # "none" => Main \in writers[j]
  /\ pc = "fork" => Main \in writers[upcoming]

\* The children and their results.
ChildrenInv == LeadInv /\ (\A j \in Job : JobServed(j)) /\ PlacesInv /\ EndInv

(* The invariant of the runs of rr.c in which any fork() and any execl()    *)
(* may fail.                                                                *)
FaultInv == MainInv /\ EofInv /\ ChildrenInv
=============================================================================
