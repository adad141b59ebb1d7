-------------------------------- MODULE Batch -------------------------------
(***************************************************************************)
(* The part fifo.c and sjf.c have in common, function by function: main    *)
(* runs the jobs of a sorted array one after the other, each to completion *)
(* but in slices that end where the next job has to be forked.             *)
(***************************************************************************)
EXTENDS Dispatch

VARIABLES
  pc,          \* where main is
  scheduler,   \* the DATA array, as the job in each slot
  rem,         \* its execution_time field
  flag,        \* its flag field
  clock, Index, nextforfork,
  time,        \* the local variable of assign()
  start, end,  \* time[0], time[1] as gettime() filled them in
  printed      \* jobs whose result has been printed

data == <<scheduler, rem, flag, start, end>>
mainVars == <<pc, data, clock, Index, nextforfork, time, printed>>
vars == <<dispatchVars, mainVars>>

MainState == {"read", "waitLoop", "executeFork", "stamp", "write", "raise",
              "charge", "wait", "print", "exited"}

TypeOK ==
  /\ DispatchTypeOK
  /\ pc \in MainState
  /\ scheduler \in [Slot -> Job]
  /\ rem \in [Job -> Nat]
  /\ flag \in [Job -> {0, 1}]
  /\ clock \in Nat
  /\ Index \in 0 .. N
  /\ nextforfork \in 0 .. N
  /\ time \in Nat
  /\ start \in [Job -> Nat \cup {Never}]
  /\ end \in [Job -> Nat \cup {Never}]
  /\ printed \in Seq(Job)

Init ==
  /\ DispatchInit
  /\ pc = "read"
  /\ scheduler \in Listings
  /\ rem = need
  /\ flag = [j \in Job |-> 0]
  /\ clock = 0
  /\ Index = 0
  /\ nextforfork = 0
  /\ time = 0
  /\ start = [j \in Job |-> Never]
  /\ end = [j \in Job |-> Never]
  /\ printed = << >>

current == scheduler[Index]
upcoming == scheduler[nextforfork]

MainReady ==
  /\ pc # "exited"
  /\ pc = "wait" => Zombies # {}

At(label) == pc = label /\ MainMayRun

\* main is gone; its ends of the pipes are closed.
Exit ==
  /\ pc' = "exited"
  /\ DropFds(Main)

-----------------------------------------------------------------------------
\* Mutant of ReadFile: the array is not sorted.
ReadFileUnsorted ==
  /\ At("read")
  /\ OpenPipes(Job)
  /\ flag' = [j \in Job |-> 1]
  /\ pc' = IF N > 0 THEN "waitLoop" ELSE "print"
  /\ UNCHANGED <<input, child, elapsed, history, scheduler, rem, start, end, clock,
                 Index, nextforfork, time, printed>>

\* readFile(), then qsort() by ready_time.
ReadFile ==
  /\ At("read")
  /\ OpenPipes(Job)
  /\ flag' = [j \in Job |-> 1]
  /\ scheduler' \in QSort(scheduler, 0, N, arrive)
  /\ pc' = IF N > 0 THEN "waitLoop" ELSE "print"
  /\ UNCHANGED <<input, child, elapsed, history, rem, start, end, clock, Index,
                 nextforfork, time, printed>>

\* waitLoop(): main itself burns units while no job is there to run.
Waiting ==
  /\ nextforfork < N
  /\ Index = nextforfork
  /\ clock < arrive[upcoming]

WaitLoop ==
  /\ At("waitLoop")
  /\ \/ /\ Waiting
        /\ elapsed' = elapsed + 1
        /\ clock' = clock + 1
        /\ pc' = pc
     \/ /\ ~Waiting
        /\ pc' = "executeFork"
        /\ UNCHANGED <<elapsed, clock>>
  /\ UNCHANGED <<input, child, fds, history, data, Index, nextforfork, time, printed>>

\* executeFork(): every job whose ready time has come.
Due == nextforfork < N /\ clock = arrive[upcoming]

ExecuteFork ==
  /\ At("executeFork")
  /\ \/ /\ Due
        /\ Spawn(upcoming, rem[upcoming], TRUE)
        /\ nextforfork' = nextforfork + 1
        /\ pc' = pc
     \/ /\ ~Due
        /\ pc' = "stamp"
        /\ UNCHANGED <<child, fds, nextforfork>>
  /\ UNCHANGED <<input, elapsed, history, data, clock, Index, time, printed>>

ForkFails ==
  /\ ForkMayFail
  /\ At("executeFork")
  /\ Due
  /\ Exit
  /\ UNCHANGED <<input, child, elapsed, history, data, clock, Index,
                 nextforfork, time, printed>>

\* Mutant of decideTime: only the remaining time.
decideTimeRest == rem[current]

\* The length of the next slice: up to the next arrival or the job's end.
decideTime ==
  LET time1 == arrive[upcoming] - clock
      time2 == rem[current]
  IN  IF nextforfork = N THEN time2
      ELSE IF time1 < time2 THEN time1 ELSE time2

\* assign(): decideTime() and write().  Without a reader the write kills main.
AssignWrite ==
  /\ At("write")
  /\ \/ /\ readers[current] # {}
        /\ time' = decideTime
        /\ Send(current, decideTime)
        /\ pc' = "raise"
        /\ UNCHANGED fds
     \/ /\ readers[current] = {}
        /\ Exit
        /\ UNCHANGED <<time, child>>
  /\ UNCHANGED <<input, elapsed, history, data, clock, Index, nextforfork, printed>>

\* assign(): sched_setscheduler(pid, 99), which fails for a pid already reaped.
AssignRaise ==
  /\ At("raise")
  /\ \/ /\ state[current] # "reaped"
        /\ Raise(current)
        /\ pc' = "charge"
        /\ UNCHANGED fds
     \/ /\ state[current] = "reaped"
        /\ Exit
        /\ UNCHANGED child
  /\ UNCHANGED <<input, elapsed, history, data, clock, Index, nextforfork, time, printed>>

\* Mutant of AssignCharge: wait() is called one unit too early.
AssignChargeEarly ==
  /\ At("charge")
  /\ clock' = clock + time
  /\ rem' = [rem EXCEPT ![current] = @ - time]
  /\ pc' = IF rem[current] - time <= 1 THEN "wait" ELSE "waitLoop"
  /\ UNCHANGED <<dispatchVars, scheduler, flag, start, end, Index, nextforfork,
                 time, printed>>

\* assign(): main takes the slice as run as soon as it has the CPU again.
AssignCharge ==
  /\ At("charge")
  /\ clock' = clock + time
  /\ rem' = [rem EXCEPT ![current] = @ - time]
  /\ pc' = IF rem[current] - time = 0 THEN "wait" ELSE "waitLoop"
  /\ UNCHANGED <<dispatchVars, scheduler, flag, start, end, Index, nextforfork,
                 time, printed>>

\* assign(): wait(&temp) takes any exited child.
AssignWait ==
  /\ At("wait")
  /\ \E j \in Zombies : Reap(j)
  /\ end' = [end EXCEPT ![current] = elapsed]
  /\ Index' = Index + 1
  /\ pc' = IF Index + 1 < N THEN "waitLoop" ELSE "print"
  /\ UNCHANGED <<input, fds, elapsed, history, scheduler, rem, flag, start, clock,
                 nextforfork, time, printed>>

\* The print loop, and the return from FIFO() and main().
PrintResults ==
  /\ At("print")
  /\ printed' = [i \in 1 .. N |-> scheduler[i - 1]]
  /\ Exit
  /\ UNCHANGED <<input, child, elapsed, history, data, clock, Index, nextforfork, time>>

\* A child of the job; the pipes are marked FD_CLOEXEC.
ChildStep(j) ==
  /\ ChildMayRun(j, MainReady)
  /\ Exec(j, TRUE) \/ ExecFails(j) \/ ChildProgram(j)
  /\ UNCHANGED mainVars

-----------------------------------------------------------------------------
\* Points of the loop at which main decides what happens next.
Deciding == pc \in {"waitLoop", "executeFork", "stamp", "write"}

(* main's clock, which it advances by the length of a slice without looking *)
(* at the child, is the real time whenever main decides something.          *)
ClockIsTrue == Deciding => clock = elapsed

(* main's record of the remaining execution time of each live child is what *)
(* the child itself still counts, whenever main decides something.          *)
BudgetsAgree == Deciding => \A j \in Job : Alive(j) => rem[j] = left[j]

(* What assign() books for a slice it never sees is what has happened.      *)
BooksAreTrue == ClockIsTrue /\ BudgetsAgree

(* Neither main's clock, which executeFork() tests for equality, nor the   *)
(* real time runs past the ready time of a job that has not been forked.    *)
(* The two differ when main charges slices to a child that could not start. *)
NoMissedArrival ==
  nextforfork < N => /\ Deciding => clock <= arrive[upcoming]
                     /\ elapsed <= arrive[upcoming]

(* assign() is only ever applied to a job that has been forked.             *)
CurrentIsForked ==
  pc \in {"stamp", "write", "raise", "charge", "wait"} => Index < nextforfork

(* wait(&temp) accepts any child: the only one it can find is the one whose *)
(* time[1] is about to be taken, and it never blocks.                       *)
WaitFindsCurrent == At("wait") => Zombies = {current}

(* A child never reads end-of-file while main is alive.                     *)
NoEarlyEof ==
  pc # "exited" => \A j \in Job : state[j] = "scan" /\ pipe[j] = << >> => writers[j] # {}

(* The results printed are true: time[0] is when the job got the CPU and    *)
(* time[1] when it exited.                                                  *)
ResultsAreTrue ==
  \A i \in 1 .. Len(printed) :
    LET j == printed[i] IN
    /\ need[j] > 0 => start[j] = began[j]
    /\ end[j] = ended[j]

(* Whichever fork() or execl() fails: when main prints, every child has     *)
(* been waited for, and those that got the CPU at all have been run to the  *)
(* end, with true results.                                                  *)
ServedAreTrue ==
  \A i \in 1 .. Len(printed) :
    LET j == printed[i] IN
    /\ state[j] = "reaped"
    /\ began[j] # Never => left[j] = 0 /\ start[j] = began[j] /\ end[j] = ended[j]

(* The unit-by-unit behaviour the policy modules refer to.                  *)
Ideal == INSTANCE IdealCpu WITH now <- elapsed, got <- [j \in Job |-> need[j] - left[j]]

(* main ends, and unless it gave up over a failing fork(), with jobs still  *)
(* to come, every job has been run to the end, reaped and printed.          *)
AllDone ==
  <>(/\ pc = "exited"
     /\ \/ nextforfork < N
        \/ /\ Len(printed) = N
           /\ \A j \in Job : state[j] = "reaped" /\ left[j] = 0)

(* Whatever call fails, no process is left behind.                          *)
NobodyHangs == <>(pc = "exited" /\ \A j \in Job : ~Alive(j))
=============================================================================
