--------------------------------- MODULE Rr ---------------------------------
(***************************************************************************)
(* rr.c: round robin over a circular doubly linked list of the forked jobs *)
(* (one node per job, named by its job).  Each iteration forks at most one *)
(* job and runs the current one until the next arrival, the end of its     *)
(* quantum or its own end, whichever comes first.                          *)
(***************************************************************************)
EXTENDS Dispatch

CONSTANT Quantum   \* TIME_QUANTUM
ASSUME QuantumAssumption == Quantum \in Nat \ {0}

VARIABLES
  pc,               \* where main is
  p_arr,            \* the job in each slot
  next, finish, cur_time, remain,
  remain_time,      \* the field of each job
  ts,               \* the field of each job: <<first dispatch, exit>>
  cur_job,          \* a node or NULL
  nxt, last,        \* the links of each node
  nodes,            \* nodes malloc'ed and not freed
  kind,             \* the branch of the loop body being executed
  t,                \* the length of its slice
  printed           \* jobs whose result has been printed, in that order

list == <<cur_job, nxt, last, nodes>>
record == <<p_arr, remain_time, ts, printed>>
mainVars == <<pc, list, record, next, finish, cur_time, remain, kind, t>>
vars == <<dispatchVars, mainVars>>

NULL == Main        \* no node: main is not a job

MainState == {"read", "loop", "fork", "choose", "idle", "write", "raise",
              "account", "wait", "exited"}

TypeOK ==
  /\ DispatchTypeOK
  /\ pc \in MainState
  /\ p_arr \in [Slot -> Job]
  /\ next \in 0 .. N
  /\ finish \in 0 .. N
  /\ cur_time \in Nat
  /\ remain \in 1 .. Quantum
  /\ remain_time \in [Job -> Nat]
  /\ ts \in [Job -> [0 .. 1 -> Nat \cup {Never}]]
  /\ cur_job \in nodes \cup {NULL}
  /\ nxt \in [Job -> Proc]
  /\ last \in [Job -> Proc]
  /\ nodes \subseteq Job
  /\ kind \in {"to_fork", "to_next", "to_die"}
  /\ t \in Nat
  /\ printed \in Seq(Job)

Init ==
  /\ DispatchInit
  /\ pc = "read"
  /\ p_arr \in Listings
  /\ next = 0
  /\ finish = 0
  /\ cur_time = 0
  /\ remain = Quantum
  /\ remain_time = need
  /\ ts = [j \in Job |-> [i \in 0 .. 1 |-> Never]]
  /\ cur_job = NULL
  /\ nxt = [j \in Job |-> NULL]
  /\ last = [j \in Job |-> NULL]
  /\ nodes = {}
  /\ kind = "to_fork"
  /\ t = 0
  /\ printed = << >>

upcoming == p_arr[next]

\* wait(NULL) returns for any exited child.  Each wait buries one child and
\* takes one job off the list, so there is always a child to wait for.
MainReady ==
  /\ pc # "exited"
  /\ pc = "wait" => Zombies # {}

At(label) == pc = label /\ MainMayRun

Exit ==
  /\ pc' = "exited"
  /\ DropFds(Main)

-----------------------------------------------------------------------------
\* The input and the qsort() by r_time.
ReadInput ==
  /\ At("read")
  /\ p_arr' \in QSort(p_arr, 0, N, arrive)
  /\ pc' = "loop"
  /\ UNCHANGED <<dispatchVars, list, remain_time, ts, printed, next, finish,
                 cur_time, remain, kind, t>>

\* The top of the loop; fork_child() begins with pipe().
Due == next < N /\ arrive[upcoming] = cur_time

Loop ==
  /\ At("loop")
  /\ finish < N
  /\ \/ /\ Due
        /\ OpenPipes({upcoming})
        /\ pc' = "fork"
     \/ /\ ~Due
        /\ pc' = "choose"
        /\ UNCHANGED fds
  /\ UNCHANGED <<input, child, elapsed, history, list, record, next, finish,
                 cur_time, remain, kind, t>>

\* Mutant of AddList: the new node goes in just after cur_job.
AddListFront(p) ==
  /\ nodes' = nodes \cup {p}
  /\ IF cur_job = NULL
     THEN /\ cur_job' = p
          /\ nxt' = [nxt EXCEPT ![p] = p]
          /\ last' = [last EXCEPT ![p] = p]
     ELSE /\ cur_job' = cur_job
          /\ nxt' = [nxt EXCEPT ![p] = nxt[cur_job], ![cur_job] = p]
          /\ last' = [last EXCEPT ![p] = cur_job, ![nxt[cur_job]] = p]

\* add_list(): the new node goes in just before cur_job.
AddList(p) ==
  /\ nodes' = nodes \cup {p}
  /\ IF cur_job = NULL
     THEN /\ cur_job' = p
          /\ nxt' = [nxt EXCEPT ![p] = p]
          /\ last' = [last EXCEPT ![p] = p]
     ELSE /\ cur_job' = cur_job
          /\ nxt' = [nxt EXCEPT ![p] = cur_job, ![last[cur_job]] = p]
          /\ last' = [last EXCEPT ![p] = last[cur_job], ![cur_job] = p]

\* fork() and add_list().
ForkChild ==
  /\ At("fork")
  /\ Spawn(upcoming, need[upcoming], TRUE)
  /\ AddList(upcoming)
  /\ next' = next + 1
  /\ pc' = "choose"
  /\ UNCHANGED <<input, elapsed, history, record, finish, cur_time, remain, kind, t>>

ForkFails ==
  /\ ForkMayFail
  /\ At("fork")
  /\ Exit
  /\ UNCHANGED <<input, child, elapsed, history, list, record, next, finish,
                 cur_time, remain, kind, t>>

\* cur_job == NULL: wait_for_job(), one unit after the other (t counts them).
StartIdle ==
  /\ At("choose")
  /\ cur_job = NULL
  /\ pc' = "idle"
  /\ t' = 0
  /\ UNCHANGED <<dispatchVars, list, record, next, finish, cur_time, remain, kind>>

Idle ==
  /\ At("idle")
  /\ IF t < arrive[upcoming] - cur_time
     THEN /\ t' = t + 1
          /\ elapsed' = elapsed + 1
          /\ UNCHANGED <<pc, cur_time, remain>>
     ELSE /\ cur_time' = arrive[upcoming]
          /\ remain' = Quantum
          /\ pc' = "loop"
          /\ UNCHANGED <<t, elapsed>>
  /\ UNCHANGED <<input, child, fds, history, list, record, next, finish, kind>>

\* Mutants of ToFork: an arrival at the end of the quantum comes first;
\* arrivals do not end a slice.
ToForkFirst ==
  /\ next < N
  /\ arrive[upcoming] - cur_time <= remain
  /\ arrive[upcoming] - cur_time < remain_time[cur_job]
ToForkNever == FALSE

\* The next arrival comes before the end of the quantum and of the job.
ToFork ==
  /\ next < N
  /\ arrive[upcoming] - cur_time < remain
  /\ arrive[upcoming] - cur_time < remain_time[cur_job]

\* The branch of the loop body, the length of its slice, and the test with
\* which run_job() returns at once.
Choose ==
  /\ At("choose")
  /\ cur_job # NULL
  /\ kind' = IF ToFork THEN "to_fork"
             ELSE IF remain < remain_time[cur_job] THEN "to_next" ELSE "to_die"
  /\ t' = CASE kind' = "to_fork" -> arrive[upcoming] - cur_time
            [] kind' = "to_next" -> remain
            [] kind' = "to_die" -> remain_time[cur_job]
  /\ pc' = IF t' > 0 THEN "write" ELSE "account"
  /\ UNCHANGED <<dispatchVars, list, record, next, finish, cur_time, remain>>

\* Mutant of FirstDispatch: the time is taken at every dispatch.
FirstDispatchAlways == TRUE

FirstDispatch == remain_time[cur_job] = need[cur_job]

\* run_job(): the time stamp and the write().  Without a reader the write
\* kills main.
RunJobWrite ==
  /\ At("write")
  /\ ts' = IF FirstDispatch THEN [ts EXCEPT ![cur_job][0] = elapsed] ELSE ts
  /\ \/ /\ readers[cur_job] # {}
        /\ Send(cur_job, t)
        /\ pc' = "raise"
        /\ UNCHANGED fds
     \/ /\ readers[cur_job] = {}
        /\ Exit
        /\ UNCHANGED child
  /\ UNCHANGED <<input, elapsed, history, list, p_arr, remain_time, printed, next,
                 finish, cur_time, remain, kind, t>>

\* run_job(): sched_setscheduler(pid, 99), which fails for a reaped pid.
RunJobRaise ==
  /\ At("raise")
  /\ \/ /\ state[cur_job] # "reaped"
        /\ Raise(cur_job)
        /\ pc' = "account"
        /\ UNCHANGED fds
     \/ /\ state[cur_job] = "reaped"
        /\ Exit
        /\ UNCHANGED child
  /\ UNCHANGED <<input, elapsed, history, list, record, next, finish, cur_time,
                 remain, kind, t>>

\* The rest of the branch "to_fork".
AfterToFork ==
  /\ At("account")
  /\ kind = "to_fork"
  /\ remain' = remain - t
  /\ remain_time' = [remain_time EXCEPT ![cur_job] = @ - t]
  /\ cur_time' = arrive[upcoming]
  /\ pc' = "loop"
  /\ UNCHANGED <<dispatchVars, list, p_arr, ts, printed, next, finish, kind, t>>

\* Mutant of AfterToNext: cur_time is not advanced.
AfterToNextTimeless ==
  /\ At("account")
  /\ kind = "to_next"
  /\ remain_time' = [remain_time EXCEPT ![cur_job] = @ - remain]
  /\ remain' = Quantum
  /\ cur_job' = nxt[cur_job]
  /\ pc' = "loop"
  /\ UNCHANGED <<dispatchVars, nxt, last, nodes, p_arr, ts, printed, next, finish,
                 cur_time, kind, t>>

\* The rest of the branch "to_next".
AfterToNext ==
  /\ At("account")
  /\ kind = "to_next"
  /\ remain_time' = [remain_time EXCEPT ![cur_job] = @ - remain]
  /\ cur_time' = cur_time + remain
  /\ remain' = Quantum
  /\ cur_job' = nxt[cur_job]
  /\ pc' = "loop"
  /\ UNCHANGED <<dispatchVars, nxt, last, nodes, p_arr, ts, printed, next, finish,
                 kind, t>>

StartWait ==
  /\ At("account")
  /\ kind = "to_die"
  /\ pc' = "wait"
  /\ UNCHANGED <<dispatchVars, list, record, next, finish, cur_time, remain, kind, t>>

\* Mutant of RemoveList: job->next->last is not updated.
RemoveListHalf ==
  /\ nodes' = nodes \ {cur_job}
  /\ IF nxt[cur_job] = cur_job
     THEN /\ cur_job' = NULL
          /\ UNCHANGED <<nxt, last>>
     ELSE /\ nxt' = [nxt EXCEPT ![last[cur_job]] = nxt[cur_job]]
          /\ cur_job' = nxt[cur_job]
          /\ UNCHANGED last

\* remove_list(): the node of cur_job is unlinked and freed.
RemoveList ==
  /\ nodes' = nodes \ {cur_job}
  /\ IF nxt[cur_job] = cur_job
     THEN /\ cur_job' = NULL
          /\ UNCHANGED <<nxt, last>>
     ELSE /\ last' = [last EXCEPT ![nxt[cur_job]] = last[cur_job]]
          /\ nxt' = [nxt EXCEPT ![last[cur_job]] = nxt[cur_job]]
          /\ cur_job' = nxt[cur_job]

\* The rest of the branch "to_die", from wait(NULL).
AfterToDie ==
  /\ At("wait")
  /\ \E j \in Zombies : Reap(j)
  /\ ts' = [ts EXCEPT ![cur_job][1] = elapsed]
  /\ printed' = Append(printed, cur_job)
  /\ cur_time' = cur_time + remain_time[cur_job]
  /\ remain' = Quantum
  /\ RemoveList
  /\ finish' = finish + 1
  /\ pc' = "loop"
  /\ UNCHANGED <<input, fds, elapsed, history, p_arr, remain_time, next, kind, t>>

Return ==
  /\ At("loop")
  /\ finish = N
  /\ Exit
  /\ UNCHANGED <<input, child, elapsed, history, list, record, next, finish,
                 cur_time, remain, kind, t>>

MainStep ==
  \/ ReadInput \/ Loop \/ ForkChild \/ ForkFails \/ StartIdle \/ Idle \/ Choose
  \/ RunJobWrite \/ RunJobRaise \/ AfterToFork \/ AfterToNext \/ StartWait
  \/ AfterToDie \/ Return

\* The pipes are marked FD_CLOEXEC.
ChildStep(j) ==
  /\ ChildMayRun(j, MainReady)
  /\ Exec(j, TRUE) \/ ExecFails(j) \/ ChildProgram(j)
  /\ UNCHANGED mainVars

Next == MainStep \/ \E j \in Job : ChildStep(j)

Spec == Init /\ [][Next]_vars

\* The kernel never leaves the CPU idle while a process is runnable.
FairSpec == Spec /\ WF_vars(Next)

-----------------------------------------------------------------------------
\* Points of the loop at which main decides what happens next.
Deciding == pc \in {"loop", "fork", "choose", "write"}

(* cur_time, which main advances without looking at the child, is the real *)
(* time whenever main decides something.                                    *)
ClockIsTrue == Deciding => cur_time = elapsed

(* Neither cur_time, which the loop tests for equality, nor the real time   *)
(* runs past the r_time of a job that is not forked yet.  The two differ    *)
(* when main charges slices to a child that could not start.                *)
NoMissedArrival ==
  next < N => /\ Deciding => cur_time <= arrive[upcoming]
              /\ elapsed <= arrive[upcoming]

\* The nodes in the order in which the ring is followed from cur_job.
RingFrom[i \in 1 .. N] == IF i = 1 THEN cur_job ELSE nxt[RingFrom[i - 1]]
Ring == [i \in 1 .. Cardinality(nodes) |-> RingFrom[i]]

(* The list is one ring of all the nodes and closed under both links, which *)
(* are inverse to each other; no link of it leads to a freed node.          *)
RingIsSound ==
  /\ \A n \in nodes : nxt[n] \in nodes /\ last[n] \in nodes
  /\ \A n \in nodes : last[nxt[n]] = n /\ nxt[last[n]] = n
  /\ cur_job = NULL <=> nodes = {}
  /\ {Ring[i] : i \in DOMAIN Ring} = nodes

(* The results printed are true: ts[0] is when the job got the CPU and      *)
(* ts[1] when it exited.                                                    *)
ResultsAreTrue ==
  \A i \in 1 .. Len(printed) :
    LET j == printed[i] IN ts[j][0] = began[j] /\ ts[j][1] = ended[j]

(* Whichever fork() or execl() fails: a job that got the CPU at all is      *)
(* printed after it has been run to its end, with true results, and when    *)
(* all are printed every child has been waited for.                         *)
ServedAreTrue ==
  /\ \A i \in 1 .. Len(printed) :
       LET j == printed[i] IN
       began[j] # Never => left[j] = 0 /\ ts[j][0] = began[j] /\ ts[j][1] = ended[j]
  /\ Len(printed) = N => \A j \in Job : state[j] = "reaped"

\* Units of the slice in flight that have been burnt.
Burnt == IF pc \in {"raise", "account", "wait"} THEN t - Owed(cur_job) ELSE 0

Ideal == INSTANCE IdealRr WITH
  now <- elapsed,
  got <- [j \in Job |-> need[j] - left[j]],
  coming <- {j \in Job : state[j] = "none"},
  queue <- Ring,
  used <- Quantum - remain + Burnt

(* Unit by unit, and in the order of its queue, rr.c is round robin.        *)
ImplementsRr == Ideal!Spec

(* rr.txt: when every process has run to its end the loop is left and the   *)
(* program ends.  So main ends, and unless it gave up over a failing        *)
(* fork(), every job has been run to the end, reaped and printed.           *)
AllDone ==
  <>(/\ pc = "exited"
     /\ \/ next < N
        \/ /\ Len(printed) = N
           /\ \A j \in Job : state[j] = "reaped" /\ left[j] = 0)

(* Whatever call fails, no process is left behind.                          *)
NobodyHangs == <>(pc = "exited" /\ \A j \in Job : ~Alive(j))
=============================================================================
