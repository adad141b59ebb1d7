------------------------------ MODULE Dispatch ------------------------------
(***************************************************************************)
(* The machinery the four schedulers of prj1 share: the child program      *)
(* (child.c), the pipe over which main hands it time units, and the part   *)
(* of the Linux kernel the design leans on - SCHED_FIFO priorities on one   *)
(* CPU, fork, exec, exit, file descriptors.                                *)
(*                                                                         *)
(* Time is counted in units of the busy loop of 10^6 iterations; `elapsed' *)
(* is the real time of the machine, which gettime() reads.  main keeps its *)
(* own idea of the time (clock, TimeCounter, cur_time) and has no way to   *)
(* look at a child's progress: that the two agree rests on the priorities. *)
(*                                                                         *)
(* SCHED_FIFO runs a runnable process of maximal priority.  Which one of   *)
(* several of the same priority runs is left open: the kernel's order is   *)
(* one of the orders allowed here.                                         *)
(***************************************************************************)
EXTENDS Integers, Sequences, FiniteSets

CONSTANTS
  Job,          \* the processes of the input file
  Main,         \* the scheduler process itself
  ReadyTimes,   \* the ready times an input line may have
  ExecTimes,    \* the execution times an input line may have
  ForkMayFail,  \* whether fork() may return -1
  ExecMayFail   \* whether execl("./child") may return -1

ASSUME JobAssumption == IsFiniteSet(Job) /\ Main \notin Job
ASSUME TimeAssumption == ReadyTimes \subseteq Nat /\ ExecTimes \subseteq Nat
ASSUME FaultAssumption == ForkMayFail \in BOOLEAN /\ ExecMayFail \in BOOLEAN

VARIABLES
  arrive,   \* input: ready time of each job
  need,     \* input: execution time of each job
  state,    \* where the child of a job is
  prio,     \* its SCHED_FIFO priority
  left,     \* its own execution_time counter
  x,        \* units still to burn of the slice it has read
  pipe,     \* slices written to it and not yet read
  writers,  \* processes holding the write end of its pipe
  readers,  \* processes holding the read end of its pipe
  elapsed,  \* units of real time gone by
  began,    \* real time at which it burnt its first unit (history)
  ended     \* real time at which it exited (history)

input == <<arrive, need>>
fds == <<writers, readers>>
history == <<began, ended>>
child == <<state, prio, left, x, pipe>>
dispatchVars == <<input, child, fds, elapsed, history>>

N == Cardinality(Job)
Slot == 0 .. N - 1        \* indices of the C arrays of N entries
Proc == Job \cup {Main}
Never == -1               \* a time stamp that has not been taken

MainPrio == 98
RunPrio == 99
YieldPrio == 97

(***************************************************************************)
(* "none": not forked; "forked": between fork() and execl(); "scan": in    *)
(* scanf(); "run": in the busy loop; "zombie": exited; "reaped": waited.   *)
(***************************************************************************)
ChildState == {"none", "forked", "scan", "run", "zombie", "reaped"}
Alive(j) == state[j] \in {"forked", "scan", "run"}

DispatchTypeOK ==
  /\ arrive \in [Job -> Nat]
  /\ need \in [Job -> Nat]
  /\ state \in [Job -> ChildState]
  /\ prio \in [Job -> {YieldPrio, MainPrio, RunPrio}]
  /\ left \in [Job -> Int]
  /\ x \in [Job -> Nat]
  /\ pipe \in [Job -> Seq(Nat)]
  /\ writers \in [Job -> SUBSET Proc]
  /\ readers \in [Job -> SUBSET Proc]
  /\ elapsed \in Nat
  /\ began \in [Job -> Nat \cup {Never}]
  /\ ended \in [Job -> Nat \cup {Never}]

(***************************************************************************)
(* Before main has read its input: any input file, no child, no pipe.      *)
(***************************************************************************)
DispatchInit ==
  /\ arrive \in [Job -> ReadyTimes]
  /\ need \in [Job -> ExecTimes]
  /\ state = [j \in Job |-> "none"]
  /\ prio = [j \in Job |-> MainPrio]
  /\ left = need
  /\ x = [j \in Job |-> 0]
  /\ pipe = [j \in Job |-> << >>]
  /\ writers = [j \in Job |-> {}]
  /\ readers = [j \in Job |-> {}]
  /\ elapsed = 0
  /\ began = [j \in Job |-> Never]
  /\ ended = [j \in Job |-> Never]

-----------------------------------------------------------------------------
\* The C arrays hold every job once.
Listings ==
  { b \in [Slot -> Job] : /\ \A i, k \in Slot : b[i] = b[k] => i = k
                          /\ \A j \in Job : \E i \in Slot : b[i] = j }

(* qsort: the entries of arr in lo..hi-1, rearranged in increasing order   *)
(* of key; how ties come out is unspecified.                               *)
QSort(arr, lo, hi, key) ==
  { b \in [Slot -> Job] :
      /\ \A i \in Slot \ (lo .. hi - 1) : b[i] = arr[i]
      /\ \A i \in lo .. hi - 1 : \E k \in lo .. hi - 1 : b[i] = arr[k]
      /\ \A k \in lo .. hi - 1 : \E i \in lo .. hi - 1 : b[i] = arr[k]
      /\ \A i, k \in Slot : b[i] = b[k] => i = k
      /\ \A i, k \in lo .. hi - 1 : i <= k => key[b[i]] <= key[b[k]] }

-----------------------------------------------------------------------------
(* The kernel's choice of who runs.                                        *)
Runnable(j) ==
  \/ state[j] \in {"forked", "run"}
  \/ state[j] = "scan" /\ (pipe[j] # << >> \/ writers[j] = {})

ChildMayRun(j, mainReady) ==
  /\ Runnable(j)
  /\ \A k \in Job : Runnable(k) => prio[k] <= prio[j]
  /\ mainReady => MainPrio <= prio[j]

MainMayRun == \A k \in Job : Runnable(k) => prio[k] <= MainPrio

Zombies == {j \in Job : state[j] = "zombie"}

-----------------------------------------------------------------------------
(* Pieces of main's system calls, used by the scheduler modules.           *)

\* pipe(): main holds both ends of the pipes of the jobs in S.
OpenPipes(S) ==
  /\ writers' = [j \in Job |-> IF j \in S THEN {Main} ELSE writers[j]]
  /\ readers' = [j \in Job |-> IF j \in S THEN {Main} ELSE readers[j]]

\* Mutant of Spawn: main closes fd[1] instead of fd[0].
SpawnClosesWriteEnd(j, t, closing) ==
  LET heir(s) == IF Main \in s THEN s \cup {j} ELSE s IN
  /\ state' = [state EXCEPT ![j] = "forked"]
  /\ prio' = [prio EXCEPT ![j] = MainPrio]
  /\ left' = [left EXCEPT ![j] = t]
  /\ readers' = [k \in Job |-> heir(readers[k])]
  /\ writers' = [k \in Job |-> IF k = j /\ closing THEN heir(writers[k]) \ {Main}
                                                   ELSE heir(writers[k])]
  /\ UNCHANGED <<x, pipe>>

\* fork(): the child of j inherits main's priority and descriptors; its argv
\* will carry the execution time t.  closing: main then closes fd[0].
Spawn(j, t, closing) ==
  LET heir(s) == IF Main \in s THEN s \cup {j} ELSE s IN
  /\ state' = [state EXCEPT ![j] = "forked"]
  /\ prio' = [prio EXCEPT ![j] = MainPrio]
  /\ left' = [left EXCEPT ![j] = t]
  /\ writers' = [k \in Job |-> heir(writers[k])]
  /\ readers' = [k \in Job |-> IF k = j /\ closing THEN heir(readers[k]) \ {Main}
                                                   ELSE heir(readers[k])]
  /\ UNCHANGED <<x, pipe>>

\* exit(), return from main or death by signal: descriptors are closed.
DropFds(p) ==
  /\ writers' = [k \in Job |-> writers[k] \ {p}]
  /\ readers' = [k \in Job |-> readers[k] \ {p}]

\* Mutant of Send: an empty slice is not written.
SendUnlessEmpty(j, t) ==
  /\ pipe' = IF t = 0 THEN pipe ELSE [pipe EXCEPT ![j] = Append(@, t)]
  /\ UNCHANGED <<state, prio, left, x>>

\* write() of one "%d " message.
Send(j, t) ==
  /\ pipe' = [pipe EXCEPT ![j] = Append(@, t)]
  /\ UNCHANGED <<state, prio, left, x>>

\* Mutant of Raise: the child is raised to main's own priority only.
RaiseTooLittle(j) ==
  /\ prio' = [prio EXCEPT ![j] = MainPrio]
  /\ UNCHANGED <<state, left, x, pipe>>

\* sched_setscheduler(pid, SCHED_FIFO, 99)
Raise(j) ==
  /\ prio' = [prio EXCEPT ![j] = RunPrio]
  /\ UNCHANGED <<state, left, x, pipe>>

\* wait(): the child is buried.
Reap(j) ==
  /\ state' = [state EXCEPT ![j] = "reaped"]
  /\ UNCHANGED <<prio, left, x, pipe>>

-----------------------------------------------------------------------------
(* The child program.                                                      *)

Dies(j) ==
  /\ state' = [state EXCEPT ![j] = "zombie"]
  /\ ended' = [ended EXCEPT ![j] = elapsed]
  /\ DropFds(j)

\* Mutant of Exec: the descriptors are not marked FD_CLOEXEC.
ExecKeepsFds(j, cloexec) ==
  /\ state[j] = "forked"
  /\ state' = [state EXCEPT ![j] = "scan"]
  /\ UNCHANGED <<fds, input, prio, left, x, pipe, elapsed, history>>

\* dup2(), execl(): the read end of its own pipe is now its stdin; the
\* inherited descriptors go if they were marked FD_CLOEXEC.
Exec(j, cloexec) ==
  /\ state[j] = "forked"
  /\ state' = [state EXCEPT ![j] = "scan"]
  /\ IF cloexec
     THEN /\ writers' = [k \in Job |-> writers[k] \ {j}]
          /\ readers' = [k \in Job |-> IF k = j THEN readers[k] ELSE readers[k] \ {j}]
     ELSE UNCHANGED fds
  /\ UNCHANGED <<input, prio, left, x, pipe, elapsed, history>>

\* execl() fails and the child exits with status 2.
ExecFails(j) ==
  /\ ExecMayFail
  /\ state[j] = "forked"
  /\ Dies(j)
  /\ UNCHANGED <<input, prio, left, x, pipe, elapsed, began>>

\* scanf("%d", &x) returns the next slice.
Scanf(j) ==
  /\ state[j] = "scan"
  /\ pipe[j] # << >>
  /\ state' = [state EXCEPT ![j] = "run"]
  /\ x' = [x EXCEPT ![j] = Head(pipe[j])]
  /\ pipe' = [pipe EXCEPT ![j] = Tail(@)]
  /\ UNCHANGED <<input, prio, left, fds, elapsed, history>>

\* scanf() returns EOF: exit(2).
ScanfEof(j) ==
  /\ state[j] = "scan"
  /\ pipe[j] = << >>
  /\ writers[j] = {}
  /\ Dies(j)
  /\ UNCHANGED <<input, prio, left, x, pipe, elapsed, began>>

\* Mutant of BurnUnit: execution_time-- is missing.
BurnUnitUncounted(j) ==
  /\ state[j] = "run"
  /\ x[j] > 0
  /\ x' = [x EXCEPT ![j] = @ - 1]
  /\ elapsed' = elapsed + 1
  /\ began' = [began EXCEPT ![j] = IF @ = Never THEN elapsed ELSE @]
  /\ UNCHANGED <<input, left, state, prio, pipe, fds, ended>>

\* One iteration of the for loop over j.
BurnUnit(j) ==
  /\ state[j] = "run"
  /\ x[j] > 0
  /\ x' = [x EXCEPT ![j] = @ - 1]
  /\ left' = [left EXCEPT ![j] = @ - 1]
  /\ elapsed' = elapsed + 1
  /\ began' = [began EXCEPT ![j] = IF @ = Never THEN elapsed ELSE @]
  /\ UNCHANGED <<input, state, prio, pipe, fds, ended>>

\* execution_time <= 0: exit(0).
Finish(j) ==
  /\ state[j] = "run"
  /\ x[j] = 0
  /\ left[j] <= 0
  /\ Dies(j)
  /\ UNCHANGED <<input, prio, left, x, pipe, elapsed, began>>

\* Otherwise sched_setscheduler(0, SCHED_FIFO, 97) hands the CPU to main.
Yield(j) ==
  /\ state[j] = "run"
  /\ x[j] = 0
  /\ left[j] > 0
  /\ state' = [state EXCEPT ![j] = "scan"]
  /\ prio' = [prio EXCEPT ![j] = YieldPrio]
  /\ UNCHANGED <<input, left, x, pipe, fds, elapsed, history>>

ChildProgram(j) ==
  \/ Scanf(j)
  \/ ScanfEof(j)
  \/ BurnUnit(j)
  \/ Finish(j)
  \/ Yield(j)

\* Units of a slice main has handed to j and j has not burnt yet; main never
\* has more than one message in a pipe.
Owed(j) == IF pipe[j] # << >> THEN Head(pipe[j]) ELSE x[j]
=============================================================================
