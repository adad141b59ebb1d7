-------------------------------- MODULE Psjf --------------------------------
(***************************************************************************)
(* psjf.c: preemptive shortest job first.  Data[Head ..] is a queue of     *)
(* ElementCount forked jobs, sorted by remaining time before every         *)
(* dispatch, followed by the UnReadyCount jobs still to come in order of   *)
(* ready time.  One job is forked per iteration of the loop.               *)
(*                                                                         *)
(* execl() is taken to succeed: when it fails the child falls through into *)
(* the scheduler's own loop, a second scheduler this module leaves out.    *)
(***************************************************************************)
EXTENDS Dispatch

VARIABLES
  pc,          \* where main is
  Data, QHead, ElementCount,    \* the ready_queue
  UnReadyCount, FinishedCount, TimeCounter,
  ExecTime,    \* the field of each job
  Recorded,    \* jobs whose Recorded field is 1
  Time,        \* the field of each job: <<first dispatch, exit>>
  Running,     \* the local of the same name
  ThisExecTime,
  toTheEnd,    \* whether the slice is the rest of the job
  printed      \* jobs whose result has been printed, in that order

queue == <<Data, QHead, ElementCount, UnReadyCount, FinishedCount>>
record == <<ExecTime, Recorded, Time, printed>>
slice == <<Running, ThisExecTime, toTheEnd>>
mainVars == <<pc, queue, TimeCounter, record, slice>>
vars == <<dispatchVars, mainVars>>

MainState == {"read", "loop", "idle", "select", "write", "raise", "charge",
              "wait", "exited"}

TypeOK ==
  /\ DispatchTypeOK
  /\ pc \in MainState
  /\ Data \in [Slot -> Job]
  /\ QHead \in 0 .. N
  /\ ElementCount \in 0 .. N
  /\ UnReadyCount \in 0 .. N
  /\ FinishedCount \in 0 .. N
  /\ TimeCounter \in Nat
  /\ ExecTime \in [Job -> Nat]
  /\ Recorded \subseteq Job
  /\ Time \in [Job -> [0 .. 1 -> Nat \cup {Never}]]
  /\ Running \in Job \cup {Main}
  /\ ThisExecTime \in Nat
  /\ toTheEnd \in BOOLEAN
  /\ printed \in Seq(Job)

Init ==
  /\ DispatchInit
  /\ pc = "read"
  /\ Data \in Listings
  /\ QHead = 0
  /\ ElementCount = 0
  /\ UnReadyCount = N
  /\ FinishedCount = 0
  /\ TimeCounter = 0
  /\ ExecTime = need
  /\ Recorded = {}
  /\ Time = [j \in Job |-> [i \in 0 .. 1 |-> Never]]
  /\ Running = Main              \* not set yet
  /\ ThisExecTime = 0
  /\ toTheEnd = FALSE
  /\ printed = << >>

NextDataIn == Data[QHead + ElementCount]
Queued == {Data[i] : i \in QHead .. QHead + ElementCount - 1}

MainReady ==
  /\ pc # "exited"
  /\ pc = "wait" => state[Running] = "zombie"

At(label) == pc = label /\ MainMayRun

Exit ==
  /\ pc' = "exited"
  /\ DropFds(Main)

-----------------------------------------------------------------------------
\* The input, a pipe for each job, and qsort() by ReadyTime.
ReadInput ==
  /\ At("read")
  /\ OpenPipes(Job)
  /\ Data' \in QSort(Data, 0, N, arrive)
  /\ pc' = "loop"
  /\ UNCHANGED <<input, child, elapsed, history, QHead, ElementCount,
                 UnReadyCount, FinishedCount, TimeCounter, record, slice>>

\* The top of the while loop with a job whose ready time is now.
Due == FinishedCount < N /\ UnReadyCount > 0 /\ arrive[NextDataIn] = TimeCounter

Fork ==
  /\ At("loop")
  /\ Due
  /\ Spawn(NextDataIn, ExecTime[NextDataIn], FALSE)
  /\ UnReadyCount' = UnReadyCount - 1
  /\ ElementCount' = ElementCount + 1
  /\ pc' = "select"
  /\ UNCHANGED <<input, elapsed, history, Data, QHead, FinishedCount,
                 TimeCounter, record, slice>>

ForkFails ==
  /\ ForkMayFail
  /\ At("loop")
  /\ Due
  /\ Exit
  /\ UNCHANGED <<input, child, elapsed, history, queue, TimeCounter, record, slice>>

\* No job is due: wait for one if the queue is empty, else go on.
NotDue ==
  /\ At("loop")
  /\ FinishedCount < N
  /\ ~Due
  /\ pc' = IF UnReadyCount > 0 /\ ElementCount = 0 THEN "idle" ELSE "select"
  /\ ThisExecTime' = 0
  /\ UNCHANGED <<dispatchVars, queue, TimeCounter, record, Running, toTheEnd>>

\* WaitForNextProcess(WaitTime): ThisExecTime counts the units waited; the
\* counter catches up when the wait is over.
Idle ==
  /\ At("idle")
  /\ IF ThisExecTime < arrive[NextDataIn] - TimeCounter
     THEN /\ ThisExecTime' = ThisExecTime + 1
          /\ elapsed' = elapsed + 1
          /\ UNCHANGED <<pc, TimeCounter>>
     ELSE /\ TimeCounter' = TimeCounter + ThisExecTime
          /\ pc' = "loop"
          /\ UNCHANGED <<ThisExecTime, elapsed>>
  /\ UNCHANGED <<input, child, fds, history, queue, record, Running, toTheEnd>>

\* Mutants of Cut: every slice ends at the next arrival; no slice does.
CutAlways(all) == UnReadyCount > 0
CutNever(all) == FALSE

\* Whether a slice of length all is cut short by the next arrival.
Cut(all) == UnReadyCount > 0 /\ arrive[NextDataIn] < TimeCounter + all

\* Mutants of Sorted: nothing is sorted; the finished jobs are sorted too.
SortedNot == {Data}
SortedFromStart == QSort(Data, 0, QHead + ElementCount, ExecTime)

\* qsort() of the queue by ExecTime.
Sorted == QSort(Data, QHead, QHead + ElementCount, ExecTime)

\* The sort, and the choice of the job and of the length of its slice.
Select ==
  /\ At("select")
  /\ Data' \in Sorted
  /\ Running' = Data'[QHead]
  /\ LET all == ExecTime[Running'] IN
     /\ toTheEnd' = ~Cut(all)
     /\ ThisExecTime' = IF Cut(all) THEN arrive[NextDataIn] - TimeCounter ELSE all
  /\ pc' = "write"
  /\ UNCHANGED <<dispatchVars, QHead, ElementCount, UnReadyCount, FinishedCount,
                 TimeCounter, record>>

\* Mutant of SendWrite: the time is taken at every dispatch.
SendWriteStamps ==
  /\ At("write")
  /\ Time' = [Time EXCEPT ![Running][0] = elapsed]
  /\ Recorded' = Recorded \cup {Running}
  /\ Send(Running, ThisExecTime)
  /\ pc' = "raise"
  /\ UNCHANGED <<input, fds, elapsed, history, queue, TimeCounter, ExecTime,
                 printed, slice>>

\* SendToChild(): the time stamp and the write(); main never closes its read
\* ends, so the write always has a reader.
SendWrite ==
  /\ At("write")
  /\ Time' = IF Running \in Recorded THEN Time
             ELSE [Time EXCEPT ![Running][0] = elapsed]
  /\ Recorded' = Recorded \cup {Running}
  /\ Send(Running, ThisExecTime)
  /\ pc' = "raise"
  /\ UNCHANGED <<input, fds, elapsed, history, queue, TimeCounter, ExecTime,
                 printed, slice>>

\* SendToChild(): ChangePriority(Pid, 99).
SendRaise ==
  /\ At("raise")
  /\ Raise(Running)
  /\ pc' = "charge"
  /\ UNCHANGED <<input, fds, elapsed, history, queue, TimeCounter, record, slice>>

\* SendToChild(): the slice is booked as run.
SendCharge ==
  /\ At("charge")
  /\ ExecTime' = [ExecTime EXCEPT ![Running] = @ - ThisExecTime]
  /\ TimeCounter' = TimeCounter + ThisExecTime
  /\ pc' = IF toTheEnd THEN "wait" ELSE "loop"
  /\ UNCHANGED <<dispatchVars, queue, Recorded, Time, printed, slice>>

\* waitpid() of the job that has run to its end; its result is printed.
WaitPid ==
  /\ At("wait")
  /\ state[Running] = "zombie"
  /\ Reap(Running)
  /\ Time' = [Time EXCEPT ![Running][1] = elapsed]
  /\ printed' = Append(printed, Running)
  /\ QHead' = QHead + 1
  /\ ElementCount' = ElementCount - 1
  /\ FinishedCount' = FinishedCount + 1
  /\ pc' = "loop"
  /\ UNCHANGED <<input, fds, elapsed, history, Data, UnReadyCount, TimeCounter,
                 ExecTime, Recorded, slice>>

Return ==
  /\ At("loop")
  /\ FinishedCount = N
  /\ Exit
  /\ UNCHANGED <<input, child, elapsed, history, queue, TimeCounter, record, slice>>

MainStep ==
  \/ ReadInput \/ Fork \/ ForkFails \/ NotDue \/ Idle \/ Select \/ SendWrite
  \/ SendRaise \/ SendCharge \/ WaitPid \/ Return

\* The pipes are not marked FD_CLOEXEC.
ChildStep(j) ==
  /\ ChildMayRun(j, MainReady)
  /\ Exec(j, FALSE) \/ ChildProgram(j)
  /\ UNCHANGED mainVars

Next == MainStep \/ \E j \in Job : ChildStep(j)

Spec == Init /\ [][Next]_vars

\* The kernel never leaves the CPU idle while a process is runnable.
FairSpec == Spec /\ WF_vars(Next)

-----------------------------------------------------------------------------
(* TimeCounter, which main advances without looking at the child, is the   *)
(* real time whenever main is at the top of its loop or picks a job.        *)
ClockIsTrue == pc \in {"loop", "select", "write"} => TimeCounter = elapsed

(* ReadyTime - TimeCounter is unsigned and its test for zero is exact: real *)
(* time never runs past the ready time of a job that is not forked yet.     *)
NoMissedArrival == UnReadyCount > 0 => elapsed <= arrive[NextDataIn]

(* The array is split as the index arithmetic assumes: finished jobs, then  *)
(* the queue of exactly the live children, then the jobs not forked.        *)
QueueIsLive ==
  /\ QHead = FinishedCount
  /\ QHead + ElementCount + UnReadyCount = N
  /\ \A i \in Slot :
       LET s == state[Data[i]] IN
       /\ i < QHead => s = "reaped"
       /\ i >= QHead + ElementCount => s = "none"
       /\ i \in QHead .. QHead + ElementCount - 1 => s \notin {"none", "reaped"}

(* waitpid() never finds its child alive: main books a slice only when the  *)
(* child, at priority 99, has burnt all of it and exited.                   *)
WaitNeverBlocks == At("wait") => state[Running] = "zombie" /\ Zombies = {Running}

(* The printed results: Time[1] is when the job exited, and Time[0] is not  *)
(* later than its first unit.  (It may be earlier: a job forked together    *)
(* with a shorter one is sent an empty slice and stamped.)                  *)
ResultsAreSound ==
  \A i \in 1 .. Len(printed) :
    LET j == printed[i] IN
    /\ Time[j][1] = ended[j]
    /\ need[j] > 0 => arrive[j] <= Time[j][0] /\ Time[j][0] <= began[j]

(* The unit-by-unit behaviour is that of an ideal preemptive                *)
(* shortest-remaining-time-first CPU.                                       *)
Ideal == INSTANCE IdealCpu WITH now <- elapsed, got <- [j \in Job |-> need[j] - left[j]]
ImplementsPsjf == Ideal!PsjfSpec

(* main ends, and unless it gave up over a failing fork(), with jobs still  *)
(* to come, every job has been run to the end, reaped and printed.          *)
AllDone ==
  <>(/\ pc = "exited"
     /\ \/ UnReadyCount > 0
        \/ /\ Len(printed) = N
           /\ \A j \in Job : state[j] = "reaped" /\ left[j] = 0)
=============================================================================
