------------------------------- MODULE PsjfInv -------------------------------
(***************************************************************************)
(* The inductive invariant behind the safety properties of psjf.c.         *)
(*                                                                         *)
(* It says where every child is: finished (slots below QHead), queued, or  *)
(* still to come.  A queued child rests, with the remaining time main has  *)
(* booked for it, unless it is the one at the head, which main has handed  *)
(* a slice.  Then main's books, the child's own counter and the real time  *)
(* differ by exactly the units of that slice that are not burnt yet.       *)
(***************************************************************************)
EXTENDS Psjf

\* The slot of the first job that is not forked.
Coming == QHead + ElementCount

InFlight == pc \in {"raise", "charge", "wait"}

Quiet(j) == pipe[j] = << >> /\ x[j] = 0

Resting(j) == state[j] \in {"forked", "scan"} /\ Quiet(j) /\ left[j] = ExecTime[j]

Finished(j) == state[j] = "reaped" /\ Quiet(j) /\ left[j] = 0 /\ ExecTime[j] = 0

ToCome(j) == state[j] = "none" /\ Quiet(j) /\ left[j] = need[j] /\ ExecTime[j] = need[j]

\* The slice has been written and not read.
Handed(j) ==
  /\ state[j] \in {"forked", "scan"}
  /\ pipe[j] = <<ThisExecTime>>
  /\ x[j] = 0
  /\ left[j] = ExecTime[j]
  /\ TimeCounter = elapsed

\* The slice has been read: x units of it are to be burnt.
Taken(j) ==
  /\ state[j] \in {"run", "scan", "zombie"}
  /\ pipe[j] = << >>
  /\ x[j] <= ThisExecTime
  /\ left[j] = ExecTime[j] - ThisExecTime + x[j]
  /\ TimeCounter + ThisExecTime - x[j] = elapsed
  /\ state[j] = "scan" => x[j] = 0 /\ left[j] > 0
  /\ state[j] = "zombie" => x[j] = 0 /\ left[j] = 0 /\ ended[j] = elapsed

ListingInv ==
  /\ Data \in Listings
  /\ pc # "read" => \A i, k \in Slot :
       Coming <= i /\ i <= k => arrive[Data[i]] <= arrive[Data[k]]

IndexInv ==
  /\ QHead = FinishedCount
  /\ Coming + UnReadyCount = N
  /\ pc = "read" => Coming = 0
  /\ pc = "idle" => UnReadyCount > 0 /\ ElementCount = 0
  /\ pc \in {"select", "write", "raise", "charge", "wait"} => ElementCount > 0

SlotsInv ==
  pc # "exited" =>
    /\ \A i \in Slot : i < QHead => Finished(Data[i])
    /\ \A i \in Slot : QHead <= i /\ i < Coming /\ (InFlight => i # QHead) => Resting(Data[i])
    /\ \A i \in Slot : Coming <= i => ToCome(Data[i])

RunningInv ==
  /\ pc \in {"write", "raise", "charge", "wait"} => Running = Data[QHead]
  /\ pc \in {"write", "raise", "charge"} =>
       /\ ThisExecTime <= ExecTime[Running]
       /\ toTheEnd <=> ThisExecTime = ExecTime[Running]
       /\ \A i \in Slot : QHead <= i /\ i < Coming => ExecTime[Running] <= ExecTime[Data[i]]
  /\ pc \in {"raise", "charge"} => Handed(Running) \/ Taken(Running)
  /\ pc = "charge" /\ (Handed(Running) \/ state[Running] = "run") => prio[Running] = RunPrio
  /\ pc = "wait" => /\ state[Running] = "zombie" /\ Quiet(Running)
                    /\ left[Running] = 0 /\ ExecTime[Running] = 0
                    /\ ended[Running] = elapsed

ClockInv ==
  /\ pc = "read" => TimeCounter = 0
  /\ pc \in {"read", "loop", "select", "write", "wait"} => TimeCounter = elapsed
  /\ pc = "idle" => TimeCounter + ThisExecTime = elapsed
  /\ UnReadyCount > 0 =>
       /\ pc \in {"loop", "select", "wait"} => TimeCounter <= arrive[NextDataIn]
       /\ pc \in {"idle", "write", "raise", "charge"} =>
            TimeCounter + ThisExecTime <= arrive[NextDataIn]
       /\ pc = "exited" => elapsed <= arrive[NextDataIn]

FdInv == pc \notin {"read", "exited"} => \A j \in Job : Main \in writers[j]

\* The time stamps main takes and the times at which things happen.
StampInv ==
  /\ \A j \in Job :
       /\ state[j] # "none" => arrive[j] <= elapsed
       /\ j \in Recorded => arrive[j] <= Time[j][0] /\ Time[j][0] <= elapsed
       /\ began[j] # Never => j \in Recorded /\ Time[j][0] <= began[j]
       /\ began[j] = Never => left[j] = need[j]
  /\ InFlight => Running \in Recorded
  /\ \A i \in 1 .. Len(printed) :
       LET j == printed[i]
       IN  state[j] = "reaped" /\ left[j] = 0 /\ Time[j][1] = ended[j]

\* After main has gone nobody burns units any more.
ExitInv ==
  pc = "exited" =>
    /\ QueueIsLive
    /\ \A j \in Job : pipe[j] = << >> /\ state[j] # "run"

(* The inductive invariant of the runs of psjf.c.                           *)
IInv ==
  /\ TypeOK
  /\ ListingInv
  /\ IndexInv
  /\ SlotsInv
  /\ RunningInv
  /\ ClockInv
  /\ FdInv
  /\ StampInv
  /\ ExitInv
=============================================================================
