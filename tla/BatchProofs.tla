----------------------------- MODULE BatchProofs ----------------------------
(***************************************************************************)
(* The actions fifo.c and sjf.c share preserve BooksInv and TimesInv, when *)
(* execl() does not fail, and FaultInv, whatever fails; and these imply    *)
(* the safety properties of module Batch.                                  *)
(***************************************************************************)
EXTENDS BatchInv, DispatchProofs

(* The initial states satisfy the invariant.                               *)
LEMMA InitInv == Init => BooksInv
  <1> SUFFICES ASSUME Init PROVE BooksInv
    OBVIOUS
  <1> USE NIsNat DEF Init, DispatchInit
  <1>1. TypeOK
    <2>1. DispatchTypeOK
      BY DispatchInitType
    <2>2. rem \in [Job -> Nat] /\ scheduler \in [Slot -> Job]
      BY TimeAssumption DEF Listings
    <2>3. printed \in Seq(Job)
      OBVIOUS
    <2> QED  BY <2>1, <2>2, <2>3 DEF TypeOK, MainState
  <1>2. ListingInv
    BY DEF ListingInv
  <1>3. IndexInv
    BY DEF IndexInv, InLoop
  <1>4. SlotsInv
    <2>1. \A j \in Job : ToCome(j)
      BY DEF ToCome, Quiet
    <2> QED  BY <2>1 DEF SlotsInv, Slot, InLoop, Listings
  <1>5. ClockInv /\ FdInv /\ ExitInv
    BY DEF ClockInv, FdInv, ExitInv, Deciding
  <1> QED  BY <1>1, <1>2, <1>3, <1>4, <1>5 DEF BooksInv

-----------------------------------------------------------------------------
(* Only the current job can have a slice in flight or be waiting to be      *)
(* buried while main is alive.                                              *)
LEMMA OnlyCurrentBusy ==
  ASSUME BooksInv, pc # "exited", NEW j \in Job,
         pipe[j] # << >> \/ x[j] # 0 \/ state[j] \in {"run", "zombie"}
  PROVE  /\ InLoop
         /\ Index \in Slot
         /\ Index < nextforfork
         /\ j = current
         /\ pc \in {"raise", "charge", "wait"}
  <1> USE NIsNat
  <1>1. PICK i \in Slot : scheduler[i] = j
    BY DEF BooksInv, ListingInv, Listings
  <1>2. ~Finished(j) /\ ~Resting(j) /\ ~ToCome(j)
    BY DEF Finished, Resting, ToCome, Quiet
  <1>3. Index \in 0 .. N /\ nextforfork \in 0 .. N /\ pc \in MainState
    BY DEF BooksInv, TypeOK
  <1>4. i = Index /\ Index < nextforfork
    BY <1>1, <1>2, <1>3 DEF BooksInv, SlotsInv, Slot
  <1>5. InLoop
    BY <1>1, <1>3, <1>4 DEF InLoop, MainState, BooksInv, IndexInv, Slot
  <1>6. ~Deciding
    BY <1>1, <1>2, <1>4, <1>5 DEF BooksInv, SlotsInv, CurrentInv, current
  <1> QED  BY <1>1, <1>4, <1>5, <1>6 DEF InLoop, Deciding, current

(* While main decides what to do next nobody else has anything to do.       *)
LEMMA AllQuiet ==
  ASSUME BooksInv, pc \notin {"raise", "charge", "wait", "exited"}
  PROVE  \A j \in Job : Quiet(j) /\ state[j] \notin {"run", "zombie"}
  BY OnlyCurrentBusy DEF Quiet

-----------------------------------------------------------------------------
(* readFile() and the sort by ready time.                                   *)
LEMMA ReadFileInv == BooksInv /\ ReadFile => BooksInv'
  <1> SUFFICES ASSUME BooksInv, ReadFile PROVE BooksInv'
    OBVIOUS
  <1> USE NIsNat
  <1>0. /\ pc = "read" /\ nextforfork = 0 /\ Index = 0 /\ clock = elapsed /\ clock = 0
        /\ TypeOK /\ scheduler \in Listings
    BY DEF BooksInv, ReadFile, At, IndexInv, ClockInv, ListingInv, TypeOK
  <1>1. TypeOK'
    <2>1. scheduler' \in [Slot -> Job]
      BY DEF ReadFile, QSort
    <2>2. DispatchTypeOK'
      BY <1>0 DEF TypeOK, DispatchTypeOK, ReadFile, OpenPipes, Proc, input, child, history
    <2> QED  BY <1>0, <2>1, <2>2 DEF TypeOK, ReadFile, MainState
  <1>2. ListingInv'
    <2>1. /\ \A i, k \in Slot : scheduler'[i] = scheduler'[k] => i = k
          /\ \A k \in Slot : \E i \in Slot : scheduler'[i] = scheduler[k]
          /\ \A i, k \in Slot : i <= k => arrive[scheduler'[i]] <= arrive[scheduler'[k]]
          /\ scheduler' \in [Slot -> Job]
      BY DEF ReadFile, QSort, Slot
    <2>2. \A j \in Job : \E i \in Slot : scheduler'[i] = j
      BY <1>0, <2>1 DEF Listings
    <2>3. arrive' = arrive
      BY DEF ReadFile, input
    <2> QED  BY <2>1, <2>2, <2>3 DEF ListingInv, Listings
  <1>3. IndexInv'
    BY <1>0 DEF IndexInv, ReadFile, InLoop, TypeOK
  <1>4. SlotsInv'
    <2>1. \A j \in Job : ToCome(j)
      BY <1>0 DEF BooksInv, SlotsInv, Slot, Listings
    <2>2. \A j \in Job : ToCome(j)'
      BY <2>1 DEF ToCome, Quiet, ReadFile, child
    <2>3. scheduler' \in [Slot -> Job]
      BY DEF ReadFile, QSort
    <2> QED  BY <1>0, <2>2, <2>3 DEF SlotsInv, Slot, InLoop, ReadFile
  <1>5. ClockInv'
    <2>1. \A j \in Job : arrive[j] \in Nat
      BY <1>0 DEF TypeOK, DispatchTypeOK
    <2>2. N > 0 => scheduler'[0] \in Job
      BY DEF ReadFile, QSort, Slot
    <2> QED  BY <1>0, <2>1, <2>2 DEF ClockInv, ReadFile, Deciding, upcoming, input
  <1>6. FdInv'
    <2>1. \A j \in Job : state[j] = "none"
      BY <1>0 DEF BooksInv, SlotsInv, Slot, Listings, ToCome
    <2> QED  BY <2>1 DEF FdInv, ReadFile, OpenPipes, child, Alive
  <1>7. ExitInv'
    BY DEF ExitInv, ReadFile
  <1> QED  BY <1>1, <1>2, <1>3, <1>4, <1>5, <1>6, <1>7 DEF BooksInv

-----------------------------------------------------------------------------
(* waitLoop().                                                              *)
LEMMA WaitLoopInv == BooksInv /\ WaitLoop => BooksInv'
  <1> SUFFICES ASSUME BooksInv, WaitLoop PROVE BooksInv'
    OBVIOUS
  <1> USE NIsNat
  <1>0. /\ pc = "waitLoop" /\ pc' \in {"waitLoop", "executeFork"}
        /\ Index \in 0 .. N /\ nextforfork \in 0 .. N /\ clock \in Nat /\ elapsed \in Nat
        /\ Index <= nextforfork /\ Index < N /\ clock = elapsed
        /\ UNCHANGED <<input, child, fds, history, data, Index, nextforfork, time, printed>>
    BY DEF BooksInv, WaitLoop, At, TypeOK, DispatchTypeOK, IndexInv, InLoop, ClockInv, Deciding
  <1>1. TypeOK'
    BY <1>0 DEF BooksInv, TypeOK, DispatchTypeOK, WaitLoop, input, child, fds, history, data, MainState
  <1>2. ListingInv'
    BY <1>0 DEF BooksInv, ListingInv, input, data
  <1>3. IndexInv'
    BY <1>0 DEF BooksInv, IndexInv, InLoop
  <1>4. SlotsInv'
    <2>1. /\ state' = state /\ pipe' = pipe /\ x' = x /\ left' = left /\ rem' = rem
          /\ Index' = Index /\ nextforfork' = nextforfork
      BY <1>0 DEF child, data
    <2>2. scheduler \in [Slot -> Job] /\ scheduler' = scheduler
      BY <1>0 DEF BooksInv, TypeOK, data
    <2>3. Index < nextforfork => Resting(current)
      BY <1>0 DEF BooksInv, SlotsInv, InLoop, CurrentInv, Deciding
    <2>4. Index < nextforfork => CurrentInv'
      BY <1>0, <2>2, <2>3 DEF CurrentInv, current, Slot, Resting, Quiet, Deciding, child, data
    <2> QED  BY <1>0, <2>1, <2>2, <2>4 DEF BooksInv, SlotsInv, Finished, Resting, ToCome, Quiet
  <1>5. ClockInv'
    <2>1. nextforfork < N => upcoming \in Job /\ arrive[upcoming] \in Nat
      BY <1>0 DEF BooksInv, TypeOK, DispatchTypeOK, upcoming, Slot
    <2>2. upcoming' = upcoming /\ arrive' = arrive
      BY <1>0 DEF upcoming, data, input
    <2> QED  BY <1>0, <2>1, <2>2 DEF BooksInv, ClockInv, WaitLoop, Waiting, Deciding
  <1>6. FdInv'
    BY <1>0 DEF BooksInv, FdInv, fds, child, Alive
  <1>7. ExitInv'
    BY <1>0 DEF ExitInv
  <1> QED  BY <1>1, <1>2, <1>3, <1>4, <1>5, <1>6, <1>7 DEF BooksInv

(* executeFork(): a job is forked, or none is due.                          *)
LEMMA ExecuteForkInv == BooksInv /\ ExecuteFork => BooksInv'
  <1> SUFFICES ASSUME BooksInv, ExecuteFork PROVE BooksInv'
    OBVIOUS
  <1> USE NIsNat
  <1>0. /\ pc = "executeFork"
        /\ Index \in 0 .. N /\ nextforfork \in 0 .. N /\ clock \in Nat /\ elapsed \in Nat
        /\ Index <= nextforfork /\ Index < N /\ clock = elapsed
        /\ UNCHANGED <<arrive, need, elapsed, began, ended>>
        /\ UNCHANGED <<scheduler, rem, flag, start, end, clock, Index, time, printed>>
        /\ scheduler \in [Slot -> Job]
    BY DEF BooksInv, ExecuteFork, At, TypeOK, DispatchTypeOK, IndexInv, InLoop, ClockInv, Deciding,
           data, input, history
  <1>a. nextforfork < N => nextforfork \in Slot /\ upcoming \in Job /\ arrive[upcoming] \in Nat
    BY <1>0 DEF BooksInv, TypeOK, DispatchTypeOK, upcoming, Slot
  <1>b. nextforfork < N => clock <= arrive[upcoming]
    BY <1>0 DEF BooksInv, ClockInv, Deciding
  <1>c. Index < nextforfork => Resting(current)
    BY <1>0 DEF BooksInv, SlotsInv, InLoop, CurrentInv, Deciding
  <1>1. CASE Due
    <2> DEFINE u == upcoming
    <2>0. /\ nextforfork < N /\ clock = arrive[u] /\ u \in Job /\ u = scheduler[nextforfork]
          /\ nextforfork' = nextforfork + 1 /\ pc' = pc
          /\ Spawn(u, rem[u], TRUE)
      BY <1>0, <1>1, <1>a DEF Due, ExecuteFork, upcoming
    <2>1. ToCome(u)
      BY <1>0, <2>0, <1>a DEF BooksInv, SlotsInv
    <2>2. /\ state' = [state EXCEPT ![u] = "forked"]
          /\ prio' = [prio EXCEPT ![u] = MainPrio]
          /\ left' = [left EXCEPT ![u] = rem[u]]
          /\ x' = x /\ pipe' = pipe
      BY <2>0 DEF Spawn
    <2>w. ASSUME NEW k \in Job
          PROVE  writers'[k] = IF Main \in writers[k] THEN writers[k] \cup {u} ELSE writers[k]
      BY <2>0 DEF Spawn
    <2>r. ASSUME NEW k \in Job
          PROVE  /\ k = u => readers'[k] = (IF Main \in readers[k] THEN readers[k] \cup {u}
                                                                 ELSE readers[k]) \ {Main}
                 /\ k # u => readers'[k] = IF Main \in readers[k] THEN readers[k] \cup {u}
                                                                ELSE readers[k]
      BY <2>0 DEF Spawn
    <2>3. /\ writers' \in [Job -> SUBSET Proc]
          /\ readers' \in [Job -> SUBSET Proc]
      <3>1. DOMAIN writers' = Job /\ DOMAIN readers' = Job
            /\ writers' = [k \in Job |-> writers'[k]] /\ readers' = [k \in Job |-> readers'[k]]
        BY <2>0 DEF Spawn
      <3>2. \A k \in Job : writers[k] \subseteq Proc /\ readers[k] \subseteq Proc
        BY DEF BooksInv, TypeOK, DispatchTypeOK
      <3>3. \A k \in Job : writers'[k] \in SUBSET Proc /\ readers'[k] \in SUBSET Proc
        <4> SUFFICES ASSUME NEW k \in Job
                     PROVE  writers'[k] \subseteq Proc /\ readers'[k] \subseteq Proc
          OBVIOUS
        <4>1. u \in Proc
          BY <2>0 DEF Proc
        <4>2. writers'[k] \subseteq writers[k] \cup {u} /\ readers'[k] \subseteq readers[k] \cup {u}
          BY <2>w, <2>r
        <4> QED  BY <3>2, <4>1, <4>2
      <3> QED  BY <3>1, <3>3
    <2>4. TypeOK'
      <3>1. DispatchTypeOK'
        <4>1. TypeOK /\ DispatchTypeOK /\ rem[u] \in Int
          BY <2>0 DEF BooksInv, TypeOK
        <4>2. state' \in [Job -> ChildState]
          BY <2>2, <4>1 DEF DispatchTypeOK, ChildState
        <4>3. prio' \in [Job -> {YieldPrio, MainPrio, RunPrio}] /\ left' \in [Job -> Int]
          BY <2>2, <4>1 DEF DispatchTypeOK
        <4> QED  BY <1>0, <2>2, <2>3, <4>1, <4>2, <4>3 DEF DispatchTypeOK
      <3> QED  BY <1>0, <2>0, <3>1 DEF BooksInv, TypeOK
    <2>5. ListingInv'
      BY <1>0, <2>0 DEF BooksInv, ListingInv, Slot
    <2>6. IndexInv'
      BY <1>0, <2>0 DEF BooksInv, IndexInv, InLoop
    <2>7. SlotsInv'
      <3>1. \A i \in Slot : scheduler[i] = u => i = nextforfork
        BY <1>a, <2>0 DEF BooksInv, ListingInv, Listings
      <3>2. ASSUME NEW j \in Job, j # u
            PROVE  state'[j] = state[j] /\ left'[j] = left[j]
        BY <2>2, <3>2 DEF BooksInv, TypeOK, DispatchTypeOK
      <3>3. state'[u] = "forked" /\ left'[u] = rem[u] /\ Quiet(u)
        BY <2>0, <2>1, <2>2 DEF ToCome, BooksInv, TypeOK, DispatchTypeOK
      <3>a. rem' = rem /\ x' = x /\ pipe' = pipe
        BY <1>0, <2>2
      <3>4. \A i \in Slot : i < Index' => Finished(scheduler[i])'
        BY <1>0, <2>0, <3>1, <3>2, <3>a DEF BooksInv, SlotsInv, Slot, Finished, Resting, ToCome, Quiet
      <3>5. \A i \in Slot : Index' < i /\ i < nextforfork' => Resting(scheduler[i])'
        BY <1>0, <2>0, <3>1, <3>2, <3>3, <3>a DEF BooksInv, SlotsInv, Slot, Finished, Resting, ToCome, Quiet
      <3>6. \A i \in Slot : nextforfork' <= i => ToCome(scheduler[i])'
        BY <1>0, <2>0, <3>1, <3>2, <3>a DEF BooksInv, SlotsInv, Slot, Finished, Resting, ToCome, Quiet
      <3>7. Resting(current)'
        BY <1>0, <1>c, <2>0, <3>1, <3>2, <3>3, <3>a DEF current, Slot, Finished, Resting, ToCome, Quiet
      <3>8. CurrentInv'
        BY <1>0, <2>0, <3>7 DEF CurrentInv, Deciding
      <3> QED  BY <3>4, <3>5, <3>6, <3>8 DEF SlotsInv
    <2>8. ClockInv'
      <3>1. nextforfork' < N => /\ upcoming' \in Job
                                /\ arrive'[upcoming'] \in Nat
                                /\ clock <= arrive'[upcoming']
        BY <1>0, <1>a, <2>0 DEF BooksInv, TypeOK, DispatchTypeOK, ListingInv, upcoming, Slot, input
      <3> QED  BY <1>0, <2>0, <3>1 DEF ClockInv, Deciding
    <2>9. FdInv'
      <3>1. ASSUME NEW k \in Job
            PROVE  /\ Main \in writers[k]
                   /\ state[k] = "none" => Main \in readers[k]
                   /\ state[k] \in {"forked", "scan", "run"} => k \in readers[k]
        BY <1>0 DEF BooksInv, FdInv, Alive
      <3>2. ASSUME NEW j \in Job
            PROVE  /\ Main \in writers'[j]
                   /\ state'[j] = "none" => Main \in readers'[j]
                   /\ state'[j] \in {"forked", "scan", "run"} => j \in readers'[j]
        <4>1. CASE j = u
          <5>1. state[j] = "none" /\ state'[j] = "forked" /\ j # Main
            BY <2>0, <2>1, <2>2, <4>1, JobAssumption DEF ToCome, BooksInv, TypeOK, DispatchTypeOK
          <5>2. Main \in writers[j] /\ Main \in readers[j]
            BY <3>1, <3>2, <5>1
          <5>3. Main \in writers'[j]
            BY <2>w, <3>2, <5>2
          <5>4. j \in readers'[j]
            BY <2>r, <3>2, <4>1, <5>1, <5>2
          <5> QED  BY <5>1, <5>3, <5>4
        <4>2. CASE j # u
          <5>1. state'[j] = state[j]
            BY <2>2, <4>2 DEF BooksInv, TypeOK, DispatchTypeOK
          <5>2. Main \in writers'[j]
            BY <2>w, <3>1, <3>2
          <5>3. readers[j] \subseteq readers'[j]
            BY <2>r, <3>2, <4>2
          <5> QED  BY <3>1, <3>2, <5>1, <5>2, <5>3 DEF Alive
        <4> QED  BY <4>1, <4>2
      <3> QED  BY <3>2 DEF FdInv, Alive
    <2>10. ExitInv'
      BY <1>0, <2>0 DEF ExitInv
    <2> QED  BY <2>4, <2>5, <2>6, <2>7, <2>8, <2>9, <2>10 DEF BooksInv
  <1>2. CASE ~Due
    <2>0. pc' = "stamp" /\ UNCHANGED <<child, fds, nextforfork>>
      BY <1>2 DEF ExecuteFork
    <2>1. Index < nextforfork
      BY <1>0, <1>2, <1>a DEF BooksInv, ClockInv, Due
    <2>2. TypeOK' /\ ListingInv'
      BY <1>0, <2>0 DEF BooksInv, TypeOK, DispatchTypeOK, ListingInv, input, child, fds, history, data, MainState
    <2>3. IndexInv'
      BY <1>0, <2>0, <2>1 DEF IndexInv, InLoop
    <2>4. SlotsInv'
      <3>1. UNCHANGED <<state, pipe, x, left, rem, scheduler, Index, nextforfork>>
        BY <1>0, <2>0 DEF child
      <3>2. CurrentInv'
        BY <1>0, <1>c, <2>0, <2>1, <3>1 DEF CurrentInv, Deciding, current, Resting, Quiet
      <3> QED  BY <1>0, <2>0, <3>1, <3>2 DEF BooksInv, SlotsInv, Finished, Resting, ToCome, Quiet
    <2>5. ClockInv'
      BY <1>0, <1>2, <1>a, <1>b, <2>0 DEF ClockInv, Deciding, Due, upcoming, input
    <2>6. FdInv' /\ ExitInv'
      BY <1>0, <2>0 DEF BooksInv, FdInv, ExitInv, child, fds, Alive
    <2> QED  BY <2>2, <2>3, <2>4, <2>5, <2>6 DEF BooksInv
  <1> QED  BY <1>1, <1>2

(* main gives up because fork() failed.                                     *)
LEMMA ForkFailsInv == BooksInv /\ ForkFails => BooksInv'
  <1> SUFFICES ASSUME BooksInv, ForkFails PROVE BooksInv'
    OBVIOUS
  <1> USE NIsNat
  <1>0. /\ pc = "executeFork" /\ pc' = "exited" /\ DropFds(Main) /\ clock = elapsed
        /\ UNCHANGED <<arrive, need, elapsed, began, ended, state, prio, left, x, pipe>>
        /\ UNCHANGED <<scheduler, rem, flag, start, end, clock, Index, nextforfork, time, printed>>
    BY DEF BooksInv, ClockInv, Deciding, ForkFails, Exit, At, input, child, history, data
  <1>1. TypeOK'
    BY <1>0, DropFdsType DEF BooksInv, TypeOK, DispatchTypeOK, MainState
  <1>2. ListingInv' /\ IndexInv'
    BY <1>0 DEF BooksInv, ListingInv, IndexInv, InLoop
  <1>3. ClockInv'
    BY <1>0 DEF BooksInv, ClockInv, Deciding, upcoming
  <1>4. ExitInv'
    BY <1>0, AllQuiet DEF ExitInv, Quiet
  <1> QED  BY <1>0, <1>1, <1>2, <1>3, <1>4 DEF BooksInv, SlotsInv, FdInv

(* The end of main.                                                         *)
LEMMA PrintResultsInv == BooksInv /\ PrintResults => BooksInv'
  <1> SUFFICES ASSUME BooksInv, PrintResults PROVE BooksInv'
    OBVIOUS
  <1> USE NIsNat
  <1>0. /\ pc = "print" /\ pc' = "exited" /\ DropFds(Main) /\ Index = N
        /\ UNCHANGED <<arrive, need, elapsed, began, ended, state, prio, left, x, pipe>>
        /\ UNCHANGED <<scheduler, rem, flag, start, end, clock, Index, nextforfork, time>>
        /\ printed' = [i \in 1 .. N |-> scheduler[i - 1]]
    BY DEF BooksInv, IndexInv, PrintResults, Exit, At, input, child, history, data
  <1>1. TypeOK'
    <2>1. printed' \in Seq(Job)
      <3>1. \A i \in 1 .. N : scheduler[i - 1] \in Job
        BY DEF BooksInv, TypeOK, Slot
      <3> QED  BY <1>0, <3>1
    <2> QED  BY <1>0, <2>1, DropFdsType DEF BooksInv, TypeOK, DispatchTypeOK, MainState
  <1>2. ListingInv' /\ IndexInv'
    BY <1>0 DEF BooksInv, ListingInv, IndexInv, InLoop
  <1>3. ClockInv'
    BY <1>0 DEF BooksInv, ClockInv, IndexInv, TypeOK, Deciding
  <1>4. ExitInv'
    BY <1>0, AllQuiet DEF ExitInv, Quiet
  <1> QED  BY <1>0, <1>1, <1>2, <1>3, <1>4 DEF BooksInv, SlotsInv, FdInv

(* What the invariant says of the job that assign() works on.               *)
LEMMA CurrentFacts ==
  ASSUME BooksInv, pc \in {"stamp", "write", "raise", "charge", "wait"}
  PROVE  /\ Index \in Slot /\ Index < nextforfork /\ nextforfork \in 0 .. N
         /\ current \in Job
         /\ CurrentInv
         /\ nextforfork < N => upcoming \in Job /\ arrive[upcoming] \in Nat
         /\ clock \in Nat /\ elapsed \in Nat /\ time \in Nat
         /\ rem[current] \in Nat /\ left[current] \in Int /\ x[current] \in Nat
         /\ \A i \in Slot : i # Index => scheduler[i] # current
         /\ \A i \in Slot : i < Index => Finished(scheduler[i])
         /\ \A i \in Slot : Index < i /\ i < nextforfork => Resting(scheduler[i])
         /\ \A i \in Slot : nextforfork <= i => ToCome(scheduler[i])
  <1> USE NIsNat
  <1>1. /\ Index \in Slot /\ Index < nextforfork /\ nextforfork \in 0 .. N /\ InLoop
        /\ pc # "exited"
    BY DEF BooksInv, TypeOK, IndexInv, InLoop, Slot
  <1>2. current \in Job /\ (nextforfork < N => upcoming \in Job)
    BY <1>1 DEF BooksInv, TypeOK, current, upcoming, Slot
  <1>3. SlotsInv /\ TypeOK /\ DispatchTypeOK /\ scheduler \in Listings
    BY DEF BooksInv, TypeOK, ListingInv
  <1>4. \A i \in Slot : i # Index => scheduler[i] # current
    BY <1>1, <1>3 DEF Listings, current
  <1> QED  BY <1>1, <1>2, <1>3, <1>4 DEF SlotsInv, TypeOK, DispatchTypeOK

(* The child main writes to is there to read.                               *)
LEMMA CurrentReads ==
  ASSUME BooksInv, pc = "write"
  PROVE  readers[current] # {}
  <1>1. Resting(current)
    BY CurrentFacts DEF CurrentInv, Deciding
  <1>2. Alive(current) => current \in readers[current]
    BY CurrentFacts DEF BooksInv, FdInv
  <1> QED  BY <1>1, <1>2 DEF Resting, Alive

(* assign(): the slice is written.                                          *)
LEMMA AssignWriteInv == BooksInv /\ AssignWrite => BooksInv'
  <1> SUFFICES ASSUME BooksInv, AssignWrite PROVE BooksInv'
    OBVIOUS
  <1> USE NIsNat
  <1> DEFINE c == current
  <1>0. pc = "write" /\ clock = elapsed /\ (nextforfork < N => clock < arrive[upcoming])
    BY DEF BooksInv, AssignWrite, At, ClockInv, Deciding
  <1>1. Resting(c)
    BY <1>0, CurrentFacts DEF CurrentInv, Deciding
  <1>2. readers[c] # {}
    BY <1>0, CurrentReads
  <1>3. /\ time' = decideTime /\ pc' = "raise"
        /\ pipe' = [pipe EXCEPT ![c] = Append(@, time')]
        /\ UNCHANGED <<arrive, need, elapsed, began, ended, state, prio, left, x, writers, readers>>
        /\ UNCHANGED <<scheduler, rem, flag, start, end, clock, Index, nextforfork, printed>>
    BY <1>2 DEF AssignWrite, Send, fds, input, history, data
  <1>4. /\ time' \in Nat /\ time' <= rem[c]
        /\ nextforfork < N => clock + time' <= arrive[upcoming]
    BY <1>0, <1>3, CurrentFacts DEF decideTime
  <1>5. /\ pipe'[c] = <<time'>>
        /\ \A j \in Job : j # c => pipe'[j] = pipe[j]
        /\ pipe' \in [Job -> Seq(Nat)]
    <2>1. pipe \in [Job -> Seq(Nat)] /\ pipe[c] = << >> /\ c \in Job
      BY <1>0, <1>1, CurrentFacts DEF Resting, Quiet, BooksInv, TypeOK, DispatchTypeOK
    <2>2. Append(pipe[c], time') = <<time'>> /\ <<time'>> \in Seq(Nat)
      BY <1>4, <2>1, OneMessage
    <2> QED  BY <1>3, <2>1, <2>2
  <1>6. TypeOK'
    BY <1>3, <1>4, <1>5 DEF BooksInv, TypeOK, DispatchTypeOK, MainState
  <1>7. ListingInv' /\ IndexInv'
    BY <1>0, <1>3 DEF BooksInv, ListingInv, IndexInv, InLoop
  <1>8. SlotsInv'
    <2>1. Handed(c)'
      BY <1>0, <1>1, <1>3, <1>5 DEF Resting, Handed, Quiet, current
    <2>2. CurrentInv'
      BY <1>3, <1>4, <2>1 DEF CurrentInv, Deciding, current
    <2>3. \A i \in Slot : i # Index => pipe'[scheduler[i]] = pipe[scheduler[i]]
      BY <1>0, <1>5, CurrentFacts DEF BooksInv, TypeOK
    <2>4. \A i \in Slot : i < Index => Finished(scheduler[i])'
      BY <1>0, <1>3, <2>3, CurrentFacts DEF Finished, Quiet, Slot
    <2>5. \A i \in Slot : Index < i /\ i < nextforfork => Resting(scheduler[i])'
      BY <1>0, <1>3, <2>3, CurrentFacts DEF Resting, Quiet, Slot
    <2>6. \A i \in Slot : nextforfork <= i => ToCome(scheduler[i])'
      BY <1>0, <1>3, <2>3, CurrentFacts DEF ToCome, Quiet, Slot
    <2> QED  BY <1>3, <2>2, <2>4, <2>5, <2>6 DEF SlotsInv
  <1>9. ClockInv'
    BY <1>3, <1>4 DEF ClockInv, Deciding, upcoming
  <1>10. FdInv' /\ ExitInv'
    BY <1>0, <1>3 DEF BooksInv, FdInv, ExitInv, Alive
  <1> QED  BY <1>6, <1>7, <1>8, <1>9, <1>10 DEF BooksInv

(* A step that only concerns the current job leaves the other slots as they *)
(* were.                                                                    *)
LEMMA OtherSlots ==
  ASSUME BooksInv, pc \in {"stamp", "write", "raise", "charge", "wait"},
         UNCHANGED <<scheduler, Index, nextforfork>>,
         \A j \in Job : j # current =>
            /\ state'[j] = state[j] /\ pipe'[j] = pipe[j] /\ x'[j] = x[j]
            /\ left'[j] = left[j] /\ rem'[j] = rem[j]
  PROVE  /\ \A i \in Slot : i < Index => Finished(scheduler[i])'
         /\ \A i \in Slot : Index < i /\ i < nextforfork => Resting(scheduler[i])'
         /\ \A i \in Slot : nextforfork <= i => ToCome(scheduler[i])'
  <1> USE NIsNat
  <1>1. ASSUME NEW i \in Slot, i # Index
        PROVE  LET j == scheduler[i]
               IN  /\ state'[j] = state[j] /\ pipe'[j] = pipe[j] /\ x'[j] = x[j]
                   /\ left'[j] = left[j] /\ rem'[j] = rem[j]
    BY <1>1, CurrentFacts DEF BooksInv, TypeOK
  <1>2. \A i \in Slot : i < Index => Finished(scheduler[i])'
    BY <1>1, CurrentFacts DEF Finished, Quiet, Slot
  <1>3. \A i \in Slot : Index < i /\ i < nextforfork => Resting(scheduler[i])'
    BY <1>1, CurrentFacts DEF Resting, Quiet, Slot
  <1>4. \A i \in Slot : nextforfork <= i => ToCome(scheduler[i])'
    BY <1>1, CurrentFacts DEF ToCome, Quiet, Slot
  <1> QED  BY <1>2, <1>3, <1>4

(* assign(): the child is raised above main.                                *)
LEMMA AssignRaiseInv == BooksInv /\ AssignRaise => BooksInv'
  <1> SUFFICES ASSUME BooksInv, AssignRaise PROVE BooksInv'
    OBVIOUS
  <1> USE NIsNat
  <1> DEFINE c == current
  <1>0. pc = "raise" /\ c \in Job /\ time <= rem[c] /\ (Handed(c) \/ Taken(c))
    BY CurrentFacts DEF AssignRaise, At, CurrentInv
  <1>1. state[c] # "reaped"
    BY <1>0 DEF Handed, Taken
  <1>2. /\ prio' = [prio EXCEPT ![c] = RunPrio] /\ pc' = "charge"
        /\ UNCHANGED <<arrive, need, elapsed, began, ended, state, left, x, pipe, writers, readers>>
        /\ UNCHANGED <<scheduler, rem, flag, start, end, clock, Index, nextforfork, time, printed>>
    BY <1>1 DEF AssignRaise, Raise, fds, input, history, data
  <1>3. prio' \in [Job -> {YieldPrio, MainPrio, RunPrio}] /\ prio'[c] = RunPrio
    BY <1>0, <1>2 DEF BooksInv, TypeOK, DispatchTypeOK
  <1>4. TypeOK'
    BY <1>2, <1>3 DEF BooksInv, TypeOK, DispatchTypeOK, MainState
  <1>5. ListingInv' /\ IndexInv'
    BY <1>0, <1>2 DEF BooksInv, ListingInv, IndexInv, InLoop
  <1>6. SlotsInv'
    <2>1. Handed(c)' \/ Taken(c)'
      BY <1>0, <1>2 DEF Handed, Taken, current
    <2>2. CurrentInv'
      BY <1>0, <1>2, <1>3, <2>1 DEF CurrentInv, Deciding, current
    <2> QED  BY <1>0, <1>2, <2>2, OtherSlots DEF SlotsInv
  <1>7. ClockInv'
    BY <1>0, <1>2 DEF BooksInv, ClockInv, Deciding, upcoming
  <1>8. FdInv' /\ ExitInv'
    BY <1>0, <1>2 DEF BooksInv, FdInv, ExitInv, Alive
  <1> QED  BY <1>4, <1>5, <1>6, <1>7, <1>8 DEF BooksInv

(* When main has the CPU again in assign() the child has burnt the whole    *)
(* slice: otherwise it would be runnable, at a higher priority than main's.  *)
LEMMA SliceIsBurnt ==
  ASSUME BooksInv, pc = "charge", MainMayRun
  PROVE  /\ Taken(current) /\ state[current] \in {"scan", "zombie"}
         /\ x[current] = 0 /\ pipe[current] = << >> /\ time <= rem[current]
         /\ left[current] = rem[current] - time /\ clock + time = elapsed
         /\ state[current] = "scan" => left[current] > 0
         /\ state[current] = "zombie" => left[current] = 0
  <1> USE NIsNat
  <1> DEFINE c == current
  <1>0. /\ c \in Job /\ time <= rem[c] /\ (Handed(c) \/ Taken(c))
        /\ Handed(c) \/ state[c] = "run" => prio[c] = RunPrio
        /\ clock \in Nat /\ elapsed \in Nat /\ time \in Nat
        /\ rem[c] \in Nat /\ left[c] \in Int /\ x[c] \in Nat
    BY CurrentFacts DEF CurrentInv
  <1>1. ~Runnable(c) \/ prio[c] # RunPrio
    BY <1>0 DEF MainMayRun, RunPrio, MainPrio
  <1>2. ~Handed(c) /\ state[c] # "run"
    <2>1. Handed(c) => Runnable(c)
      <3>1. <<time>> # << >>
        BY <1>0, OneMessage
      <3> QED  BY <3>1 DEF Handed, Runnable
    <2>2. state[c] = "run" => Runnable(c)
      BY DEF Runnable
    <2> QED  BY <1>0, <1>1, <2>1, <2>2
  <1>3. /\ Taken(c) /\ state[c] \in {"scan", "zombie"} /\ x[c] = 0 /\ pipe[c] = << >>
        /\ left[c] = rem[c] - time /\ clock + time = elapsed
        /\ state[c] = "scan" => left[c] > 0
        /\ state[c] = "zombie" => left[c] = 0
    BY <1>0, <1>2 DEF Taken
  <1> QED  BY <1>0, <1>3

(* assign(): main books the slice.                                          *)
LEMMA AssignChargeInv == BooksInv /\ AssignCharge => BooksInv'
  <1> SUFFICES ASSUME BooksInv, AssignCharge PROVE BooksInv'
    OBVIOUS
  <1> USE NIsNat
  <1> DEFINE c == current
  <1>0. /\ pc = "charge" /\ MainMayRun
        /\ c \in Job /\ time <= rem[c]
        /\ clock \in Nat /\ elapsed \in Nat /\ time \in Nat
        /\ rem[c] \in Nat /\ left[c] \in Int /\ x[c] \in Nat
    BY CurrentFacts DEF AssignCharge, At, CurrentInv
  <1>3. /\ Taken(c) /\ state[c] \in {"scan", "zombie"} /\ x[c] = 0 /\ pipe[c] = << >>
        /\ left[c] = rem[c] - time /\ clock + time = elapsed
        /\ state[c] = "scan" => left[c] > 0
        /\ state[c] = "zombie" => left[c] = 0
    BY <1>0, SliceIsBurnt
  <1>4. /\ clock' = elapsed /\ rem' = [rem EXCEPT ![c] = @ - time]
        /\ pc' = IF rem[c] - time = 0 THEN "wait" ELSE "waitLoop"
        /\ UNCHANGED <<arrive, need, elapsed, began, ended, state, prio, left, x, pipe, writers, readers>>
        /\ UNCHANGED <<scheduler, flag, start, end, Index, nextforfork, time, printed>>
    BY <1>3 DEF AssignCharge, dispatchVars, fds, input, child, history
  <1>5. /\ rem' \in [Job -> Nat] /\ rem'[c] = rem[c] - time
        /\ \A j \in Job : j # c => rem'[j] = rem[j]
    <2>1. rem \in [Job -> Nat] /\ rem[c] - time \in Nat
      BY <1>0 DEF BooksInv, TypeOK
    <2> QED  BY <1>0, <1>4, <2>1
  <1>6. TypeOK'
    BY <1>0, <1>4, <1>5 DEF BooksInv, TypeOK, DispatchTypeOK, MainState
  <1>7. ListingInv' /\ IndexInv'
    BY <1>0, <1>4 DEF BooksInv, ListingInv, IndexInv, InLoop
  <1>8. SlotsInv'
    <2>1. pc' = "waitLoop" => Resting(c)'
      BY <1>3, <1>4, <1>5 DEF Resting, Quiet, current
    <2>2. pc' = "wait" => /\ state'[c] = "zombie" /\ Quiet(c)' /\ left'[c] = 0 /\ rem'[c] = 0
      BY <1>3, <1>4, <1>5 DEF Quiet, current
    <2>3. CurrentInv'
      BY <1>4, <2>1, <2>2 DEF CurrentInv, Deciding, current
    <2> QED  BY <1>0, <1>4, <1>5, <2>3, OtherSlots DEF SlotsInv
  <1>9. ClockInv'
    BY <1>0, <1>3, <1>4 DEF BooksInv, ClockInv, Deciding, upcoming
  <1>10. FdInv' /\ ExitInv'
    BY <1>0, <1>4 DEF BooksInv, FdInv, ExitInv, Alive
  <1> QED  BY <1>6, <1>7, <1>8, <1>9, <1>10 DEF BooksInv

(* assign(): wait() takes the current job, the only one there is to take.   *)
LEMMA AssignWaitInv == BooksInv /\ AssignWait => BooksInv'
  <1> SUFFICES ASSUME BooksInv, AssignWait PROVE BooksInv'
    OBVIOUS
  <1> USE NIsNat
  <1> DEFINE c == current
  <1>0. /\ pc = "wait" /\ c \in Job /\ Index \in Slot /\ Index < nextforfork
        /\ nextforfork \in 0 .. N /\ clock = elapsed /\ elapsed \in Nat
        /\ Quiet(c) /\ left[c] = 0 /\ rem[c] = 0
    BY CurrentFacts DEF AssignWait, At, CurrentInv, BooksInv, ClockInv
  <1>1. PICK j \in Zombies : Reap(j)
    BY DEF AssignWait
  <1>2. j = c
    BY <1>0, OnlyCurrentBusy DEF Zombies
  <1>3. /\ state' = [state EXCEPT ![c] = "reaped"]
        /\ end' = [end EXCEPT ![c] = elapsed]
        /\ Index' = Index + 1
        /\ pc' = IF Index + 1 < N THEN "waitLoop" ELSE "print"
        /\ UNCHANGED <<arrive, need, elapsed, began, ended, prio, left, x, pipe, writers, readers>>
        /\ UNCHANGED <<scheduler, rem, flag, start, clock, nextforfork, time, printed>>
    BY <1>1, <1>2 DEF AssignWait, Reap, fds, input, history
  <1>4. /\ state' \in [Job -> ChildState] /\ state'[c] = "reaped"
        /\ \A k \in Job : k # c => state'[k] = state[k]
    BY <1>0, <1>3 DEF BooksInv, TypeOK, DispatchTypeOK, ChildState
  <1>5. TypeOK'
    <2>1. end' \in [Job -> Nat \cup {Never}]
      BY <1>0, <1>3 DEF BooksInv, TypeOK
    <2>2. Index' \in 0 .. N /\ pc' \in MainState
      BY <1>0, <1>3 DEF Slot, MainState
    <2>3. DispatchTypeOK'
      BY <1>3, <1>4 DEF BooksInv, TypeOK, DispatchTypeOK
    <2> QED  BY <1>3, <2>1, <2>2, <2>3 DEF BooksInv, TypeOK
  <1>6. ListingInv' /\ IndexInv'
    BY <1>0, <1>3 DEF BooksInv, ListingInv, IndexInv, InLoop, Slot
  <1>7. SlotsInv'
    <2>1. /\ \A i \in Slot : i # Index => scheduler[i] # c /\ scheduler[i] \in Job
          /\ \A i \in Slot : i < Index => Finished(scheduler[i])
          /\ \A i \in Slot : Index < i /\ i < nextforfork => Resting(scheduler[i])
          /\ \A i \in Slot : nextforfork <= i => ToCome(scheduler[i])
      BY <1>0, CurrentFacts DEF BooksInv, TypeOK
    <2>2. \A i \in Slot : i = Index => Finished(scheduler[i])'
      BY <1>0, <1>3, <1>4 DEF Finished, Quiet, current
    <2>3. \A i \in Slot : i < Index => Finished(scheduler[i])'
      BY <1>0, <1>3, <1>4, <2>1 DEF Finished, Quiet, Slot
    <2>4. \A i \in Slot : Index < i /\ i < nextforfork => Resting(scheduler[i])'
      BY <1>0, <1>3, <1>4, <2>1 DEF Resting, Quiet, Slot
    <2>5. \A i \in Slot : nextforfork <= i => ToCome(scheduler[i])'
      BY <1>0, <1>3, <1>4, <2>1 DEF ToCome, Quiet, Slot
    <2>6. Index' < nextforfork' => Resting(current)'
      BY <1>0, <1>3, <2>4 DEF current, Slot
    <2>7. Index' < nextforfork' => CurrentInv'
      BY <1>3, <2>6 DEF CurrentInv
    <2>8. \A i \in Slot : i < Index' => Finished(scheduler[i])'
      BY <1>0, <1>3, <2>2, <2>3 DEF Slot
    <2>9. \A i \in Slot : Index' < i /\ i < nextforfork' => Resting(scheduler[i])'
      BY <1>0, <1>3, <2>4 DEF Slot
    <2> QED  BY <1>3, <2>5, <2>7, <2>8, <2>9 DEF SlotsInv
  <1>8. ClockInv'
    BY <1>0, <1>3 DEF BooksInv, ClockInv, Deciding, upcoming, Slot
  <1>9. FdInv' /\ ExitInv'
    BY <1>0, <1>3, <1>4 DEF BooksInv, FdInv, ExitInv, Alive
  <1> QED  BY <1>5, <1>6, <1>7, <1>8, <1>9 DEF BooksInv

-----------------------------------------------------------------------------
(* The steps of a child.                                                    *)

(* execl() of the child of j.                                               *)
LEMMA ExecInv ==
  ASSUME BooksInv, NEW j \in Job, Exec(j, TRUE), UNCHANGED mainVars
  PROVE  BooksInv'
  <1> USE NIsNat
  <1>0. /\ state[j] = "forked" /\ state' = [state EXCEPT ![j] = "scan"]
        /\ UNCHANGED <<arrive, need, elapsed, began, ended, prio, left, x, pipe>>
        /\ UNCHANGED <<pc, scheduler, rem, flag, start, end, clock, Index, nextforfork, time, printed>>
    BY DEF Exec, mainVars, data, input, history
  <1>1. /\ state' \in [Job -> ChildState] /\ state'[j] = "scan"
        /\ \A k \in Job : k # j => state'[k] = state[k]
    BY <1>0 DEF BooksInv, TypeOK, DispatchTypeOK, ChildState
  <1>2. ASSUME NEW k \in Job
        PROVE  /\ writers'[k] = writers[k] \ {j}
               /\ readers'[k] = IF k = j THEN readers[k] ELSE readers[k] \ {j}
    BY DEF Exec
  <1>3. TypeOK'
    <2>1. writers' \in [Job -> SUBSET Proc] /\ readers' \in [Job -> SUBSET Proc]
      <3>1. writers' = [k \in Job |-> writers'[k]] /\ readers' = [k \in Job |-> readers'[k]]
        BY DEF Exec
      <3>2. \A k \in Job : writers[k] \subseteq Proc /\ readers[k] \subseteq Proc
        BY DEF BooksInv, TypeOK, DispatchTypeOK
      <3>3. \A k \in Job : writers'[k] \subseteq Proc /\ readers'[k] \subseteq Proc
        BY <1>2, <3>2
      <3> QED  BY <3>1, <3>3
    <2> QED  BY <1>0, <1>1, <2>1 DEF BooksInv, TypeOK, DispatchTypeOK
  <1>4. ListingInv' /\ IndexInv' /\ ClockInv'
    BY <1>0 DEF BooksInv, ListingInv, IndexInv, InLoop, ClockInv, Deciding, upcoming
  <1>5. SlotsInv'
    <2>1. ASSUME NEW k \in Job
          PROVE  /\ Finished(k) => Finished(k)'
                 /\ Resting(k) => Resting(k)'
                 /\ ToCome(k) => ToCome(k)'
                 /\ Handed(k) <=> Handed(k)'
                 /\ Taken(k) => Taken(k)'
                 /\ state'[k] = "run" <=> state[k] = "run"
                 /\ state[k] = "zombie" => state'[k] = "zombie"
      <3>1. CASE k = j
        BY <1>0, <1>1, <3>1 DEF Finished, Resting, ToCome, Handed, Taken, Quiet
      <3>2. CASE k # j
        BY <1>0, <1>1, <3>2 DEF Finished, Resting, ToCome, Handed, Taken, Quiet
      <3> QED  BY <3>1, <3>2
    <2>2. scheduler \in [Slot -> Job] /\ (pc # "exited" /\ Index < nextforfork => Index \in Slot)
      BY DEF BooksInv, TypeOK, Slot
    <2>3. pc # "exited" /\ InLoop /\ Index < nextforfork => CurrentInv'
      <3> SUFFICES ASSUME pc # "exited", InLoop, Index < nextforfork
                   PROVE  CurrentInv'
        OBVIOUS
      <3> DEFINE c == current
      <3>1. CurrentInv /\ c \in Job
        BY <2>2 DEF BooksInv, SlotsInv, current
      <3>2. c' = c /\ Deciding' = Deciding /\ (Quiet(c) => Quiet(c)')
        BY <1>0 DEF current, Deciding, Quiet
      <3> QED  BY <1>0, <2>1, <3>1, <3>2 DEF CurrentInv, current
    <2> QED  BY <1>0, <2>1, <2>2, <2>3 DEF BooksInv, SlotsInv, InLoop
  <1>6. FdInv'
    <2> SUFFICES ASSUME pc \notin {"read", "exited"}, NEW k \in Job
                 PROVE  /\ Main \in writers'[k]
                        /\ state'[k] = "none" => Main \in readers'[k]
                        /\ state'[k] \in {"forked", "scan", "run"} => k \in readers'[k]
      BY <1>0 DEF FdInv, Alive
    <2>1. /\ Main \in writers[k]
          /\ state[k] = "none" => Main \in readers[k]
          /\ state[k] \in {"forked", "scan", "run"} => k \in readers[k]
      BY DEF BooksInv, FdInv, Alive
    <2>2. j # Main
      BY JobAssumption
    <2> QED  BY <1>0, <1>1, <1>2, <2>1, <2>2
  <1>7. ExitInv'
    BY <1>0, <1>1 DEF BooksInv, ExitInv
  <1> QED  BY <1>3, <1>4, <1>5, <1>6, <1>7 DEF BooksInv

(* scanf(): the slice in the pipe is taken.                                 *)
LEMMA ScanfInv ==
  ASSUME BooksInv, NEW j \in Job, Scanf(j), UNCHANGED mainVars
  PROVE  BooksInv'
  <1> USE NIsNat
  <1>0. /\ state[j] = "scan" /\ pipe[j] # << >>
        /\ state' = [state EXCEPT ![j] = "run"]
        /\ x' = [x EXCEPT ![j] = Head(pipe[j])]
        /\ pipe' = [pipe EXCEPT ![j] = Tail(@)]
        /\ UNCHANGED <<arrive, need, elapsed, began, ended, prio, left, writers, readers>>
        /\ UNCHANGED <<pc, scheduler, rem, flag, start, end, clock, Index, nextforfork, time, printed>>
    BY DEF Scanf, mainVars, data, input, history, fds
  <1>1. pc # "exited"
    BY <1>0 DEF BooksInv, ExitInv
  <1>2. j = current /\ pc \in {"raise", "charge", "wait"}
    BY <1>0, <1>1, OnlyCurrentBusy
  <1>3. pc \in {"raise", "charge"} /\ Handed(j) /\ time \in Nat /\ time <= rem[j]
        /\ (pc = "charge" => prio[j] = RunPrio)
    BY <1>0, <1>2, CurrentFacts DEF CurrentInv, Taken, Quiet
  <1>4. Head(pipe[j]) = time /\ Tail(pipe[j]) = << >>
    BY <1>3, OneMessage DEF Handed
  <1>5. /\ state' \in [Job -> ChildState] /\ state'[j] = "run"
        /\ \A k \in Job : k # j => state'[k] = state[k]
        /\ x' \in [Job -> Nat] /\ x'[j] = time
        /\ \A k \in Job : k # j => x'[k] = x[k]
    BY <1>0, <1>3, <1>4 DEF BooksInv, TypeOK, DispatchTypeOK, ChildState
  <1>6. /\ pipe' \in [Job -> Seq(Nat)] /\ pipe'[j] = << >>
        /\ \A k \in Job : k # j => pipe'[k] = pipe[k]
    BY <1>0, <1>4 DEF BooksInv, TypeOK, DispatchTypeOK
  <1>7. TypeOK'
    BY <1>0, <1>5, <1>6 DEF BooksInv, TypeOK, DispatchTypeOK
  <1>8. ListingInv' /\ IndexInv' /\ ClockInv'
    BY <1>0 DEF BooksInv, ListingInv, IndexInv, InLoop, ClockInv, Deciding, upcoming
  <1>9. SlotsInv'
    <2>1. Taken(j)'
      <3>1. left[j] \in Int /\ rem[j] \in Nat /\ clock \in Nat /\ elapsed \in Nat
        BY DEF BooksInv, TypeOK, DispatchTypeOK
      <3> QED  BY <1>0, <1>3, <1>5, <1>6, <3>1 DEF Handed, Taken
    <2>2. CurrentInv'
      BY <1>0, <1>2, <1>3, <2>1 DEF CurrentInv, Deciding, current
    <2> QED  BY <1>0, <1>2, <1>5, <1>6, <2>2, OtherSlots DEF SlotsInv
  <1>10. FdInv' /\ ExitInv'
    BY <1>0, <1>1, <1>5 DEF BooksInv, FdInv, ExitInv, Alive
  <1> QED  BY <1>7, <1>8, <1>9, <1>10 DEF BooksInv

(* A child in its busy loop is the current one, with its slice taken.       *)
LEMMA RunningFacts ==
  ASSUME BooksInv, NEW j \in Job, state[j] = "run"
  PROVE  /\ j = current /\ pc \in {"raise", "charge"}
         /\ Taken(j) /\ time <= rem[j] /\ (pc = "charge" => prio[j] = RunPrio)
         /\ left[j] \in Int /\ x[j] \in Nat /\ rem[j] \in Nat
         /\ clock \in Nat /\ elapsed \in Nat /\ time \in Nat
  <1>1. pc # "exited"
    BY DEF BooksInv, ExitInv
  <1>2. j = current /\ pc \in {"raise", "charge", "wait"}
    BY <1>1, OnlyCurrentBusy
  <1>3. CurrentInv
    BY <1>2, CurrentFacts
  <1>4. pc \in {"raise", "charge"} /\ Taken(j) /\ time <= rem[j] /\ (pc = "charge" => prio[j] = RunPrio)
    BY <1>2, <1>3 DEF CurrentInv, Handed
  <1> QED  BY <1>2, <1>4 DEF BooksInv, TypeOK, DispatchTypeOK

(* One unit of the slice is burnt.                                          *)
LEMMA BurnUnitInv ==
  ASSUME BooksInv, NEW j \in Job, BurnUnit(j), UNCHANGED mainVars
  PROVE  BooksInv'
  <1> USE NIsNat
  <1>0. /\ state[j] = "run" /\ x[j] > 0
        /\ x' = [x EXCEPT ![j] = @ - 1]
        /\ left' = [left EXCEPT ![j] = @ - 1]
        /\ elapsed' = elapsed + 1
        /\ began' = [began EXCEPT ![j] = IF @ = Never THEN elapsed ELSE @]
        /\ UNCHANGED <<arrive, need, state, ended, prio, pipe, writers, readers>>
        /\ UNCHANGED <<pc, scheduler, rem, flag, start, end, clock, Index, nextforfork, time, printed>>
    BY DEF BurnUnit, mainVars, data, input, fds
  <1>1. /\ j = current /\ pc \in {"raise", "charge"}
        /\ Taken(j) /\ time <= rem[j] /\ (pc = "charge" => prio[j] = RunPrio)
        /\ left[j] \in Int /\ x[j] \in Nat /\ rem[j] \in Nat
        /\ clock \in Nat /\ elapsed \in Nat /\ time \in Nat
    BY <1>0, RunningFacts
  <1>2. /\ x' \in [Job -> Nat] /\ x'[j] = x[j] - 1
        /\ \A k \in Job : k # j => x'[k] = x[k]
    <2>1. x \in [Job -> Nat] /\ x[j] - 1 \in Nat
      BY <1>0, <1>1 DEF BooksInv, TypeOK, DispatchTypeOK
    <2> QED  BY <1>0, <2>1
  <1>3. /\ left' \in [Job -> Int] /\ left'[j] = left[j] - 1
        /\ \A k \in Job : k # j => left'[k] = left[k]
    <2>1. left \in [Job -> Int] /\ left[j] - 1 \in Int
      BY <1>1 DEF BooksInv, TypeOK, DispatchTypeOK
    <2> QED  BY <1>0, <2>1
  <1>4. TypeOK'
    <2>1. began' \in [Job -> Nat \cup {Never}]
      BY <1>0, <1>1 DEF BooksInv, TypeOK, DispatchTypeOK
    <2>2. elapsed' \in Nat
      BY <1>0, <1>1
    <2>3. UNCHANGED <<arrive, need, state, ended, prio, pipe, writers, readers>>
      BY <1>0
    <2>4. DispatchTypeOK'
      BY <1>2, <1>3, <2>1, <2>2, <2>3 DEF BooksInv, TypeOK, DispatchTypeOK
    <2>5. UNCHANGED <<pc, scheduler, rem, flag, start, end, clock, Index, nextforfork, time, printed>>
      BY <1>0
    <2> QED  BY <2>4, <2>5 DEF BooksInv, TypeOK
  <1>5. ListingInv' /\ IndexInv' /\ ClockInv'
    BY <1>0, <1>1 DEF BooksInv, ListingInv, IndexInv, InLoop, ClockInv, Deciding, upcoming
  <1>6. SlotsInv'
    <2>1. Taken(j)'
      <3>1. /\ state'[j] = "run" /\ pipe'[j] = << >> /\ rem'[j] = rem[j]
            /\ time' = time /\ clock' = clock /\ elapsed' = elapsed + 1
        BY <1>0, <1>1 DEF Taken
      <3>2. left[j] = rem[j] - time + x[j] /\ clock + time - x[j] = elapsed
        BY <1>1 DEF Taken
      <3>3. left'[j] = rem[j] - time + x'[j] /\ clock + time - x'[j] = elapsed + 1
        BY <1>1, <1>2, <1>3, <3>2
      <3> QED  BY <3>1, <3>3 DEF Taken
    <2>2. CurrentInv'
      BY <1>0, <1>1, <2>1 DEF CurrentInv, Deciding, current
    <2> QED  BY <1>0, <1>1, <1>2, <1>3, <2>2, OtherSlots DEF SlotsInv
  <1>7. FdInv' /\ ExitInv'
    BY <1>0, <1>1 DEF BooksInv, FdInv, ExitInv, Alive
  <1> QED  BY <1>4, <1>5, <1>6, <1>7 DEF BooksInv

(* The death of a child and the record of it, as far as types go.           *)
LEMMA DiesType ==
  ASSUME BooksInv, NEW j \in Job, Dies(j),
         UNCHANGED <<arrive, need, elapsed, began, prio, left, x, pipe>>,
         UNCHANGED mainVars
  PROVE  /\ TypeOK'
         /\ state'[j] = "zombie"
         /\ \A k \in Job : k # j => state'[k] = state[k]
         /\ \A k \in Job : writers'[k] = writers[k] \ {j} /\ readers'[k] = readers[k] \ {j}
  <1>1. /\ state' \in [Job -> ChildState] /\ state'[j] = "zombie"
        /\ \A k \in Job : k # j => state'[k] = state[k]
    BY DEF Dies, BooksInv, TypeOK, DispatchTypeOK, ChildState
  <1>2. ended' \in [Job -> Nat \cup {Never}]
    BY DEF Dies, BooksInv, TypeOK, DispatchTypeOK
  <1>3. writers' \in [Job -> SUBSET Proc] /\ readers' \in [Job -> SUBSET Proc]
    BY DropFdsType DEF Dies, BooksInv, TypeOK
  <1>4. TypeOK'
    BY <1>1, <1>2, <1>3 DEF BooksInv, TypeOK, DispatchTypeOK, mainVars, data
  <1> QED  BY <1>1, <1>4 DEF Dies, DropFds

(* exit(0) at the end of the last slice.                                    *)
LEMMA FinishInv ==
  ASSUME BooksInv, NEW j \in Job, Finish(j), UNCHANGED mainVars
  PROVE  BooksInv'
  <1> USE NIsNat
  <1>0. /\ state[j] = "run" /\ x[j] = 0 /\ left[j] <= 0 /\ Dies(j)
        /\ UNCHANGED <<arrive, need, elapsed, began, prio, left, x, pipe>>
        /\ UNCHANGED <<pc, scheduler, rem, flag, start, end, clock, Index, nextforfork, time, printed>>
    BY DEF Finish, mainVars, data, input
  <1>1. /\ j = current /\ pc \in {"raise", "charge"}
        /\ Taken(j) /\ time <= rem[j] /\ (pc = "charge" => prio[j] = RunPrio)
        /\ left[j] \in Int /\ x[j] \in Nat /\ rem[j] \in Nat
        /\ clock \in Nat /\ elapsed \in Nat /\ time \in Nat
    BY <1>0, RunningFacts
  <1>2. /\ TypeOK' /\ state'[j] = "zombie"
        /\ \A k \in Job : k # j => state'[k] = state[k]
        /\ \A k \in Job : writers'[k] = writers[k] \ {j} /\ readers'[k] = readers[k] \ {j}
    BY <1>0, DiesType
  <1>3. ListingInv' /\ IndexInv' /\ ClockInv'
    BY <1>0 DEF BooksInv, ListingInv, IndexInv, InLoop, ClockInv, Deciding, upcoming
  <1>4. SlotsInv'
    <2>1. Taken(j)'
      <3>1. left[j] = 0
        BY <1>0, <1>1 DEF Taken
      <3> QED  BY <1>0, <1>1, <1>2, <3>1 DEF Taken
    <2>2. ~Handed(j)'
      BY <1>2 DEF Handed
    <2>3. CurrentInv'
      BY <1>0, <1>1, <1>2, <2>1, <2>2 DEF CurrentInv, Deciding, current
    <2> QED  BY <1>0, <1>1, <1>2, <2>3, OtherSlots DEF SlotsInv
  <1>5. FdInv'
    <2> SUFFICES ASSUME NEW k \in Job
                 PROVE  /\ Main \in writers'[k]
                        /\ state'[k] = "none" => Main \in readers'[k]
                        /\ state'[k] \in {"forked", "scan", "run"} => k \in readers'[k]
      BY DEF FdInv, Alive
    <2>1. /\ Main \in writers[k]
          /\ state[k] = "none" => Main \in readers[k]
          /\ state[k] \in {"forked", "scan", "run"} => k \in readers[k]
      BY <1>1 DEF BooksInv, FdInv, Alive
    <2>2. j # Main
      BY JobAssumption
    <2> QED  BY <1>2, <2>1, <2>2
  <1>6. ExitInv'
    BY <1>0, <1>1 DEF ExitInv
  <1> QED  BY <1>2, <1>3, <1>4, <1>5, <1>6 DEF BooksInv

(* The slice is burnt and the child lowers its priority.                    *)
LEMMA YieldInv ==
  ASSUME BooksInv, NEW j \in Job, Yield(j), UNCHANGED mainVars
  PROVE  BooksInv'
  <1> USE NIsNat
  <1>0. /\ state[j] = "run" /\ x[j] = 0 /\ left[j] > 0
        /\ state' = [state EXCEPT ![j] = "scan"]
        /\ prio' = [prio EXCEPT ![j] = YieldPrio]
        /\ UNCHANGED <<arrive, need, elapsed, began, ended, left, x, pipe, writers, readers>>
        /\ UNCHANGED <<pc, scheduler, rem, flag, start, end, clock, Index, nextforfork, time, printed>>
    BY DEF Yield, mainVars, data, input, history, fds
  <1>1. /\ j = current /\ pc \in {"raise", "charge"} /\ Taken(j) /\ time <= rem[j]
    BY <1>0, RunningFacts
  <1>2. /\ state' \in [Job -> ChildState] /\ state'[j] = "scan"
        /\ \A k \in Job : k # j => state'[k] = state[k]
        /\ prio' \in [Job -> {YieldPrio, MainPrio, RunPrio}]
    BY <1>0 DEF BooksInv, TypeOK, DispatchTypeOK, ChildState
  <1>3. TypeOK'
    BY <1>0, <1>2 DEF BooksInv, TypeOK, DispatchTypeOK
  <1>4. ListingInv' /\ IndexInv' /\ ClockInv'
    BY <1>0 DEF BooksInv, ListingInv, IndexInv, InLoop, ClockInv, Deciding, upcoming
  <1>5. SlotsInv'
    <2>1. Taken(j)'
      BY <1>0, <1>1, <1>2 DEF Taken
    <2>2. ~Handed(j)'
      <3>1. time \in Nat
        BY DEF BooksInv, TypeOK
      <3>2. <<time>> # << >>
        BY <3>1, OneMessage
      <3> QED  BY <1>0, <1>1, <3>2 DEF Handed, Taken
    <2>3. CurrentInv'
      BY <1>0, <1>1, <1>2, <2>1, <2>2 DEF CurrentInv, Deciding, current
    <2> QED  BY <1>0, <1>1, <1>2, <2>3, OtherSlots DEF SlotsInv
  <1>6. FdInv' /\ ExitInv'
    BY <1>0, <1>1, <1>2 DEF BooksInv, FdInv, ExitInv, Alive
  <1> QED  BY <1>3, <1>4, <1>5, <1>6 DEF BooksInv

(* Only main's end leaves a pipe without a writer.                          *)
LEMMA EofOnlyAtTheEnd ==
  ASSUME BooksInv, NEW j \in Job, state[j] = "scan", writers[j] = {}
  PROVE  pc = "exited"
  <1>1. pc \in {"read", "exited"}
    BY DEF BooksInv, FdInv
  <1>2. pc = "read" => \A k \in Job : state[k] = "none"
    BY DEF BooksInv, IndexInv, SlotsInv, ListingInv, Listings, ToCome, Slot
  <1> QED  BY <1>1, <1>2

(* A child reads end-of-file: main has gone.                                *)
LEMMA ScanfEofInv ==
  ASSUME BooksInv, NEW j \in Job, ScanfEof(j), UNCHANGED mainVars
  PROVE  BooksInv'
  <1> USE NIsNat
  <1>0. /\ state[j] = "scan" /\ pipe[j] = << >> /\ writers[j] = {} /\ Dies(j)
        /\ UNCHANGED <<arrive, need, elapsed, began, prio, left, x, pipe>>
        /\ UNCHANGED <<pc, scheduler, rem, flag, start, end, clock, Index, nextforfork, time, printed>>
    BY DEF ScanfEof, mainVars, data, input
  <1>1. pc = "exited"
    BY <1>0, EofOnlyAtTheEnd
  <1>2. /\ TypeOK' /\ state'[j] = "zombie"
        /\ \A k \in Job : k # j => state'[k] = state[k]
    BY <1>0, DiesType
  <1>3. ListingInv' /\ IndexInv' /\ ClockInv'
    BY <1>0 DEF BooksInv, ListingInv, IndexInv, InLoop, ClockInv, Deciding, upcoming
  <1>4. ExitInv'
    BY <1>0, <1>2 DEF BooksInv, ExitInv
  <1> QED  BY <1>0, <1>1, <1>2, <1>3, <1>4 DEF BooksInv, SlotsInv, FdInv

(* Whatever a child does, as long as execl() does not fail.                 *)
LEMMA ChildStepInv ==
  ASSUME ~ExecMayFail, BooksInv, NEW j \in Job, ChildStep(j)
  PROVE  BooksInv'
  <1>0. UNCHANGED mainVars
    BY DEF ChildStep
  <1>1. Exec(j, TRUE) \/ Scanf(j) \/ ScanfEof(j) \/ BurnUnit(j) \/ Finish(j) \/ Yield(j)
    BY DEF ChildStep, ChildProgram, ExecFails
  <1>2. CASE Exec(j, TRUE)
    BY <1>0, <1>2, ExecInv
  <1>3. CASE Scanf(j)
    BY <1>0, <1>3, ScanfInv
  <1>4. CASE ScanfEof(j)
    BY <1>0, <1>4, ScanfEofInv
  <1>5. CASE BurnUnit(j)
    BY <1>0, <1>5, BurnUnitInv
  <1>6. CASE Finish(j)
    BY <1>0, <1>6, FinishInv
  <1>7. CASE Yield(j)
    BY <1>0, <1>7, YieldInv
  <1> QED  BY <1>1, <1>2, <1>3, <1>4, <1>5, <1>6, <1>7

(* A stuttering step.                                                       *)
LEMMA StutterInv == BooksInv /\ UNCHANGED vars => BooksInv'
  <1> SUFFICES ASSUME BooksInv, UNCHANGED vars PROVE BooksInv'
    OBVIOUS
  <1>0. /\ UNCHANGED <<arrive, need, state, prio, left, x, pipe, writers, readers, elapsed, began, ended>>
        /\ UNCHANGED <<pc, scheduler, rem, flag, start, end, clock, Index, nextforfork, time, printed>>
    BY DEF vars, dispatchVars, mainVars, data, input, child, fds, history
  <1>1. TypeOK'
    BY <1>0 DEF BooksInv, TypeOK, DispatchTypeOK
  <1>2. ListingInv' /\ IndexInv' /\ ClockInv'
    BY <1>0 DEF BooksInv, ListingInv, IndexInv, InLoop, ClockInv, Deciding, upcoming
  <1>3. SlotsInv'
    BY <1>0 DEF BooksInv, SlotsInv, CurrentInv, Deciding, InLoop, current, Finished, Resting, ToCome,
                Handed, Taken, Quiet
  <1>4. FdInv' /\ ExitInv'
    BY <1>0 DEF BooksInv, FdInv, ExitInv, Alive
  <1> QED  BY <1>1, <1>2, <1>3, <1>4 DEF BooksInv

-----------------------------------------------------------------------------
(* What the invariant is for: main's clock, its books and its wait() are    *)
(* right whenever they matter.                                              *)
LEMMA InvImplies ==
  BooksInv => /\ ClockIsTrue /\ BudgetsAgree /\ NoMissedArrival
          /\ CurrentIsForked /\ WaitFindsCurrent /\ NoEarlyEof
  <1> SUFFICES ASSUME BooksInv
               PROVE  /\ ClockIsTrue /\ BudgetsAgree /\ NoMissedArrival
                      /\ CurrentIsForked /\ WaitFindsCurrent /\ NoEarlyEof
    OBVIOUS
  <1> USE NIsNat
  <1>0. /\ pc \in MainState /\ Index \in 0 .. N /\ nextforfork \in 0 .. N
        /\ clock \in Nat /\ elapsed \in Nat /\ time \in Nat
        /\ nextforfork < N => upcoming \in Job /\ arrive[upcoming] \in Nat
    BY DEF BooksInv, TypeOK, DispatchTypeOK, upcoming, Slot
  <1>1. ClockIsTrue /\ CurrentIsForked
    BY DEF BooksInv, ClockInv, IndexInv, ClockIsTrue, CurrentIsForked
  <1>2. BudgetsAgree
    <2> SUFFICES ASSUME Deciding, NEW j \in Job, Alive(j)
                 PROVE  rem[j] = left[j]
      BY DEF BudgetsAgree
    <2>1. PICK i \in Slot : scheduler[i] = j
      BY DEF BooksInv, ListingInv, Listings
    <2>2. ~Finished(j)
      BY DEF Finished, Alive
    <2>3. Resting(j) \/ ToCome(j)
      BY <1>0, <2>1, <2>2 DEF BooksInv, SlotsInv, CurrentInv, Deciding, InLoop, current, Slot
    <2> QED  BY <2>3 DEF Resting, ToCome
  <1>3. NoMissedArrival
    <2>0. nextforfork < N /\ Deciding => clock <= arrive[upcoming]
      BY DEF BooksInv, ClockInv
    <2> SUFFICES ASSUME nextforfork < N PROVE elapsed <= arrive[upcoming]
      BY <2>0 DEF NoMissedArrival
    <2>1. CASE pc \in {"raise", "charge"}
      <3>1. current \in Job /\ (Handed(current) \/ Taken(current)) /\ x[current] \in Nat
        BY <2>1, CurrentFacts DEF CurrentInv
      <3>2. elapsed <= clock + time
        BY <1>0, <3>1 DEF Handed, Taken
      <3> QED  BY <1>0, <2>1, <3>2 DEF BooksInv, ClockInv
    <2>2. CASE pc \notin {"raise", "charge"}
      BY <1>0, <2>2 DEF BooksInv, ClockInv, IndexInv, Deciding, MainState
    <2> QED  BY <2>1, <2>2
  <1>4. WaitFindsCurrent
    <2> SUFFICES ASSUME pc = "wait" PROVE Zombies = {current}
      BY DEF WaitFindsCurrent, At
    <2>1. current \in Job /\ state[current] = "zombie"
      BY CurrentFacts DEF CurrentInv
    <2>2. \A j \in Job : state[j] = "zombie" => j = current
      BY OnlyCurrentBusy
    <2> QED  BY <2>1, <2>2 DEF Zombies
  <1>5. NoEarlyEof
    <2>1. pc = "read" => \A k \in Job : state[k] = "none"
      BY DEF BooksInv, IndexInv, SlotsInv, ListingInv, Listings, ToCome, Slot
    <2> QED  BY <2>1 DEF NoEarlyEof, BooksInv, FdInv
  <1> QED  BY <1>1, <1>2, <1>3, <1>4, <1>5

-----------------------------------------------------------------------------
(* The time stamps.                                                         *)

(* The stamps of a job depend on its own fields and on nothing that main    *)
(* does to other jobs.                                                      *)
LEMMA JobTimesKept ==
  ASSUME BooksInv, TimesInv,
         UNCHANGED <<arrive, need, left, rem, start, began, flag>>,
         elapsed' \in Nat, elapsed <= elapsed',
         \A j \in Job : state'[j] # "none" => state[j] # "none"
  PROVE  \A j \in Job : JobTimes(j)'
  <1> SUFFICES ASSUME NEW j \in Job PROVE JobTimes(j)'
    OBVIOUS
  <1>1. JobTimes(j) /\ elapsed \in Nat /\ arrive[j] \in Nat
    BY DEF TimesInv, BooksInv, TypeOK, DispatchTypeOK
  <1>2. state'[j] # "none" => arrive[j] <= elapsed'
    BY <1>1 DEF JobTimes
  <1> QED  BY <1>1, <1>2 DEF JobTimes

(* No stamp is taken before the first step.                                 *)
LEMMA InitTimes == Init => TimesInv
  <1> SUFFICES ASSUME Init PROVE TimesInv
    OBVIOUS
  <1> USE NIsNat
  <1>1. /\ pc = "read" /\ Index = 0 /\ nextforfork = 0 /\ printed = << >>
        /\ left = need /\ rem = need
        /\ \A j \in Job : /\ began[j] = Never /\ flag[j] = 0 /\ state[j] = "none"
    BY DEF Init, DispatchInit
  <1>2. \A j \in Job : need[j] \in Nat
    BY DispatchInitType DEF Init, DispatchTypeOK
  <1>3. \A j \in Job : JobTimes(j)
    BY <1>1, <1>2 DEF JobTimes
  <1>4. SlotTimes /\ ReportTimes
    BY <1>1 DEF SlotTimes, ReportTimes, Slot
  <1> QED  BY <1>1, <1>3, <1>4 DEF TimesInv

(* readFile() sets the flags.                                               *)
LEMMA ReadFileTimes == BooksInv /\ TimesInv /\ ReadFile => TimesInv'
  <1> SUFFICES ASSUME BooksInv, TimesInv, ReadFile PROVE TimesInv'
    OBVIOUS
  <1> USE NIsNat
  <1>0. /\ pc = "read" /\ pc' \in {"waitLoop", "print"} /\ nextforfork' = 0 /\ Index' = 0
        /\ flag' = [j \in Job |-> 1] /\ scheduler' \in [Slot -> Job]
        /\ UNCHANGED <<arrive, need, left, rem, start, began, state, elapsed, printed>>
        /\ \A j \in Job : left[j] = need[j]
    BY DEF BooksInv, TimesInv, IndexInv, TypeOK, ReadFile, QSort, At, input, child, history
  <1>1. \A j \in Job : JobTimes(j)'
    BY <1>0 DEF TimesInv, JobTimes
  <1>2. SlotTimes' /\ ReportTimes'
    BY <1>0 DEF TimesInv, SlotTimes, ReportTimes, Slot
  <1> QED  BY <1>0, <1>1, <1>2 DEF TimesInv

(* waitLoop() burns units while no job is current.                          *)
LEMMA WaitLoopTimes == BooksInv /\ TimesInv /\ WaitLoop => TimesInv'
  <1> SUFFICES ASSUME BooksInv, TimesInv, WaitLoop PROVE TimesInv'
    OBVIOUS
  <1> USE NIsNat
  <1>0. /\ pc = "waitLoop" /\ pc' \in {"waitLoop", "executeFork"}
        /\ UNCHANGED <<input, child, history, data, Index, nextforfork, time, printed>>
    BY DEF WaitLoop, At
  <1>1. elapsed \in Nat /\ elapsed' \in {elapsed, elapsed + 1}
    BY DEF WaitLoop, BooksInv, TypeOK, DispatchTypeOK
  <1>2. UNCHANGED <<arrive, need, left, rem, start, end, began, ended, flag, state, scheduler>>
    BY <1>0 DEF input, child, history, data
  <1>3. \A j \in Job : JobTimes(j)'
    BY <1>1, <1>2, JobTimesKept
  <1>4. SlotTimes' /\ ReportTimes'
    BY <1>0, <1>2 DEF TimesInv, SlotTimes, ReportTimes
  <1>5. Index < nextforfork => CurrentTimes'
    BY <1>0, <1>2 DEF TimesInv, InLoop, CurrentTimes, current
  <1> QED  BY <1>0, <1>3, <1>4, <1>5 DEF TimesInv, InLoop

(* executeFork(): a job is forked at its ready time, with its flag set.     *)
LEMMA ExecuteForkTimes == BooksInv /\ TimesInv /\ ExecuteFork => TimesInv'
  <1> SUFFICES ASSUME BooksInv, TimesInv, ExecuteFork PROVE TimesInv'
    OBVIOUS
  <1> USE NIsNat
  <1>0. /\ pc = "executeFork" /\ pc' \in {"executeFork", "stamp"} /\ clock = elapsed
        /\ Index \in 0 .. N /\ nextforfork \in 0 .. N
        /\ Index <= nextforfork /\ scheduler \in [Slot -> Job]
        /\ UNCHANGED <<arrive, need, rem, start, end, began, ended, flag, elapsed>>
        /\ UNCHANGED <<scheduler, Index, time, printed>>
    BY DEF BooksInv, TypeOK, IndexInv, ClockInv, Deciding, ExecuteFork, At, input, history, data
  <1>a. nextforfork' \in {nextforfork, nextforfork + 1}
    BY DEF ExecuteFork
  <1>c. (Due /\ pc' = pc) \/ nextforfork' = nextforfork
    BY DEF ExecuteFork
  <1>b. nextforfork' \in Int /\ nextforfork <= nextforfork'
    BY <1>0, <1>a
  <1>1. left' = left /\ \A j \in Job : state'[j] # "none" => arrive[j] <= elapsed
    <2>1. CASE Due
      <3> DEFINE u == upcoming
      <3>1. /\ nextforfork \in Slot /\ clock = arrive[u] /\ u \in Job
            /\ state' = [state EXCEPT ![u] = "forked"]
            /\ left' = [left EXCEPT ![u] = rem[u]]
        BY <1>0, <2>1 DEF Due, ExecuteFork, upcoming, Spawn, Slot
      <3>2. left[u] = rem[u]
        BY <1>0, <3>1 DEF BooksInv, SlotsInv, ToCome, upcoming
      <3>3. left' = left
        BY <3>1, <3>2 DEF BooksInv, TypeOK, DispatchTypeOK
      <3>4. \A j \in Job : j # u => state'[j] = state[j]
        BY <3>1 DEF BooksInv, TypeOK, DispatchTypeOK
      <3>5. arrive[u] \in Nat
        BY <3>1 DEF BooksInv, TypeOK, DispatchTypeOK
      <3>6. arrive[u] <= elapsed
        BY <1>0, <3>1, <3>5
      <3> QED  BY <3>3, <3>4, <3>6 DEF TimesInv, JobTimes
    <2>2. CASE ~Due
      BY <2>2 DEF ExecuteFork, child, TimesInv, JobTimes
    <2> QED  BY <2>1, <2>2
  <1>2. \A j \in Job : JobTimes(j)'
    BY <1>0, <1>1 DEF TimesInv, JobTimes
  <1>3. SlotTimes'
    <2>1. \A i \in Slot : nextforfork' <= i => nextforfork <= i
      BY <1>0, <1>b DEF Slot
    <2> QED  BY <1>0, <2>1 DEF TimesInv, SlotTimes
  <1>4. ReportTimes'
    BY <1>0 DEF TimesInv, ReportTimes
  <1>5. Index < nextforfork' => CurrentTimes'
    <2>1. CASE Index < nextforfork
      BY <1>0, <1>1, <2>1 DEF TimesInv, InLoop, CurrentTimes, current
    <2>2. CASE Index = nextforfork /\ Index < nextforfork'
      <3>1. Due /\ pc' = "executeFork"
        BY <1>0, <1>c, <2>2
      <3>a. Index \in Slot
        BY <1>0, <2>2, <3>1 DEF Due, Slot
      <3>2. flag[current] = 1
        BY <1>0, <2>2, <3>a DEF TimesInv, SlotTimes, current
      <3> QED  BY <1>0, <3>1, <3>2 DEF CurrentTimes, current
    <2> QED  BY <1>0, <1>b, <2>1, <2>2
  <1> QED  BY <1>0, <1>2, <1>3, <1>4, <1>5 DEF TimesInv

(* main gives up: nothing has been printed.                                 *)
LEMMA ForkFailsTimes == BooksInv /\ TimesInv /\ ForkFails => TimesInv'
  <1> SUFFICES ASSUME BooksInv, TimesInv, ForkFails PROVE TimesInv'
    OBVIOUS
  <1>0. /\ pc = "executeFork" /\ pc' = "exited"
        /\ UNCHANGED <<arrive, need, left, rem, start, end, began, flag, state, elapsed, printed>>
    BY DEF ForkFails, Exit, At, input, child, history, data
  <1>1. elapsed \in Nat
    BY DEF BooksInv, TypeOK, DispatchTypeOK
  <1>2. \A j \in Job : JobTimes(j)'
    BY <1>0, <1>1, JobTimesKept
  <1>3. SlotTimes' /\ ReportTimes'
    BY <1>0 DEF TimesInv, SlotTimes, ReportTimes
  <1> QED  BY <1>0, <1>2, <1>3 DEF TimesInv, InLoop

(* The flag test: the stamp is taken as the job gets its first slice.       *)
LEMMA FlagTestTimes ==
  ASSUME BooksInv, TimesInv, pc = "stamp", pc' = "write",
         NEW b \in Listings, NEW first \in BOOLEAN,
         scheduler' = b,
         \A i \in Slot : i < Index => b[i] = scheduler[i],
         \A i \in Slot : Index < i => flag[b[i]] = 1,
         first => flag[b[Index]] = 1,
         ~first => flag[b[Index]] = 0 /\ left[b[Index]] < need[b[Index]],
         start' = IF first THEN [start EXCEPT ![b[Index]] = elapsed] ELSE start,
         flag' = IF first THEN [flag EXCEPT ![b[Index]] = 0] ELSE flag,
         UNCHANGED <<dispatchVars, rem, end, clock, Index, nextforfork, time, printed>>
  PROVE  TimesInv'
  <1> USE NIsNat
  <1>0. /\ UNCHANGED <<arrive, need, state, left, elapsed, began, ended>>
        /\ UNCHANGED <<rem, end, Index, nextforfork, printed>>
    BY DEF dispatchVars, input, child, history
  <1>1. /\ Index \in Slot /\ nextforfork \in 0 .. N /\ Index < nextforfork
        /\ b \in [Slot -> Job] /\ elapsed \in Nat
        /\ \A i \in Slot : b[i] = b[Index] => i = Index
    BY CurrentFacts DEF Listings
  <1> DEFINE c == b[Index]
  <1>2. c \in Job /\ left[c] \in Int /\ need[c] \in Nat
    BY <1>1 DEF BooksInv, TypeOK, DispatchTypeOK
  <1>3. flag'[c] = 0 /\ \A j \in Job : j # c => flag'[j] = flag[j] /\ start'[j] = start[j]
    BY <1>1, <1>2 DEF BooksInv, TypeOK
  <1>4. first => start'[c] = elapsed /\ left[c] = need[c]
    BY <1>2 DEF BooksInv, TypeOK, TimesInv, JobTimes
  <1>5. ~first => start'[c] = start[c]
    OBVIOUS
  <1>6. ASSUME NEW j \in Job PROVE JobTimes(j)'
    <2>1. JobTimes(j) /\ left[j] \in Int /\ need[j] \in Nat
      BY DEF TimesInv, BooksInv, TypeOK, DispatchTypeOK
    <2>2. CASE j = c
      <3>1. left[j] < need[j] => start'[j] = start[j]
        BY <1>2, <1>4, <1>5, <2>2
      <3> QED  BY <1>0, <1>3, <2>1, <2>2, <3>1 DEF JobTimes
    <2>3. CASE j # c
      BY <1>0, <1>3, <2>1, <2>3 DEF JobTimes
    <2> QED  BY <2>2, <2>3
  <1>7. SlotTimes'
    <2>1. \A i \in Slot : Index < i \/ nextforfork <= i => i # Index
      BY <1>1 DEF Slot
    <2>2. \A i \in Slot : Index < i \/ nextforfork <= i => flag'[b[i]] = 1
      <3> SUFFICES ASSUME NEW i \in Slot, Index < i \/ nextforfork <= i PROVE flag'[b[i]] = 1
        OBVIOUS
      <3>1. Index < i
        BY <1>1 DEF Slot
      <3>2. b[i] \in Job /\ b[i] # c
        BY <1>1, <2>1
      <3> QED  BY <1>3, <3>1, <3>2
    <2>3. \A i \in Slot : i < Index => end[b[i]] = ended[b[i]]
      BY DEF TimesInv, SlotTimes
    <2> QED  BY <1>0, <2>2, <2>3 DEF SlotTimes
  <1>8. CurrentTimes'
    <2>1. left[c] = need[c] => start'[c] = elapsed
      BY <1>2, <1>4
    <2> QED  BY <1>0, <1>3, <2>1 DEF CurrentTimes, current
  <1>9. ReportTimes'
    BY <1>0 DEF TimesInv, ReportTimes
  <1> QED  BY <1>6, <1>7, <1>8, <1>9 DEF TimesInv

(* assign(): a slice is empty only if nothing of the job is left.           *)
LEMMA AssignWriteTimes == BooksInv /\ TimesInv /\ AssignWrite => TimesInv'
  <1> SUFFICES ASSUME BooksInv, TimesInv, AssignWrite PROVE TimesInv'
    OBVIOUS
  <1> USE NIsNat
  <1>0. /\ pc = "write" /\ (nextforfork < N => clock < arrive[upcoming])
    BY DEF BooksInv, AssignWrite, At, ClockInv
  <1>1. /\ time' = decideTime /\ pc' = "raise"
        /\ UNCHANGED <<arrive, need, elapsed, began, ended, state, left>>
        /\ UNCHANGED <<scheduler, rem, flag, start, end, Index, nextforfork, printed>>
    BY <1>0, CurrentReads DEF AssignWrite, Send, input, history, data
  <1>2. time' > 0 \/ rem[current] = 0
    BY <1>0, <1>1, CurrentFacts DEF decideTime
  <1>3. Resting(current) /\ Index < nextforfork
    BY <1>0, CurrentFacts DEF CurrentInv, Deciding
  <1>4. CurrentTimes'
    BY <1>0, <1>1, <1>2, <1>3 DEF TimesInv, CurrentTimes, InLoop, current, Resting
  <1>5. elapsed \in Nat
    BY DEF BooksInv, TypeOK, DispatchTypeOK
  <1>6. \A j \in Job : JobTimes(j)'
    BY <1>1, <1>5, JobTimesKept
  <1>7. SlotTimes' /\ ReportTimes'
    BY <1>0, <1>1 DEF TimesInv, SlotTimes, ReportTimes
  <1> QED  BY <1>1, <1>4, <1>6, <1>7 DEF TimesInv

(* assign(): the priority has nothing to do with the stamps.                *)
LEMMA AssignRaiseTimes == BooksInv /\ TimesInv /\ AssignRaise => TimesInv'
  <1> SUFFICES ASSUME BooksInv, TimesInv, AssignRaise PROVE TimesInv'
    OBVIOUS
  <1>0. pc = "raise" /\ state[current] # "reaped" /\ Index < nextforfork
    BY CurrentFacts DEF AssignRaise, At, CurrentInv, Handed, Taken
  <1>1. /\ pc' = "charge"
        /\ UNCHANGED <<arrive, need, elapsed, began, ended, state, left>>
        /\ UNCHANGED <<scheduler, rem, flag, start, end, Index, nextforfork, time, printed>>
    BY <1>0 DEF AssignRaise, Raise, input, history, data
  <1>2. elapsed \in Nat
    BY DEF BooksInv, TypeOK, DispatchTypeOK
  <1>3. \A j \in Job : JobTimes(j)'
    BY <1>1, <1>2, JobTimesKept
  <1>4. CurrentTimes'
    BY <1>0, <1>1 DEF TimesInv, CurrentTimes, InLoop, current
  <1>5. SlotTimes' /\ ReportTimes'
    BY <1>0, <1>1 DEF TimesInv, SlotTimes, ReportTimes
  <1> QED  BY <1>1, <1>3, <1>4, <1>5 DEF TimesInv

(* assign(): the slice that has been burnt was not empty, or the job ends.  *)
LEMMA AssignChargeTimes == BooksInv /\ TimesInv /\ AssignCharge => TimesInv'
  <1> SUFFICES ASSUME BooksInv, TimesInv, AssignCharge PROVE TimesInv'
    OBVIOUS
  <1> USE NIsNat
  <1> DEFINE c == current
  <1>0. /\ pc = "charge" /\ MainMayRun /\ Index < nextforfork
        /\ c \in Job /\ time \in Nat /\ rem[c] \in Nat
    BY CurrentFacts DEF AssignCharge, At
  <1>1. /\ rem' = [rem EXCEPT ![c] = @ - time]
        /\ pc' = IF rem[c] - time = 0 THEN "wait" ELSE "waitLoop"
        /\ UNCHANGED <<arrive, need, elapsed, began, ended, state, left>>
        /\ UNCHANGED <<scheduler, flag, start, end, Index, nextforfork, time, printed>>
    BY DEF AssignCharge, dispatchVars, input, child, history
  <1>2. left[c] = rem[c] - time /\ state[c] \in {"scan", "zombie"} /\ need[c] \in Nat
    BY <1>0, SliceIsBurnt DEF BooksInv, TypeOK, DispatchTypeOK
  <1>3. (time > 0 \/ rem[c] = 0) /\ flag[c] = 0 /\ (state[c] = "zombie" => ended[c] = elapsed)
    BY <1>0 DEF TimesInv, CurrentTimes, InLoop
  <1>4. rem[c] <= need[c]
    BY <1>0 DEF TimesInv, JobTimes
  <1>5. rem[c] - time # 0 => left[c] # need[c]
    BY <1>0, <1>2, <1>3, <1>4, SliceIsBurnt
  <1>6. CurrentTimes'
    BY <1>1, <1>3, <1>5 DEF CurrentTimes, current
  <1>7. ASSUME NEW j \in Job PROVE JobTimes(j)'
    <2>1. JobTimes(j) /\ rem[j] \in Nat /\ need[j] \in Nat
      BY DEF TimesInv, BooksInv, TypeOK, DispatchTypeOK
    <2>2. rem'[j] \in {rem[j], rem[j] - time}
      BY <1>1 DEF BooksInv, TypeOK
    <2>3. rem'[j] <= need[j]
      BY <1>0, <2>1, <2>2 DEF JobTimes
    <2> QED  BY <1>1, <2>1, <2>3 DEF JobTimes
  <1>8. SlotTimes' /\ ReportTimes'
    BY <1>0, <1>1 DEF TimesInv, SlotTimes, ReportTimes
  <1> QED  BY <1>1, <1>6, <1>7, <1>8 DEF TimesInv

(* assign(): the time wait() returns is the time the child exited.          *)
LEMMA AssignWaitTimes == BooksInv /\ TimesInv /\ AssignWait => TimesInv'
  <1> SUFFICES ASSUME BooksInv, TimesInv, AssignWait PROVE TimesInv'
    OBVIOUS
  <1> USE NIsNat
  <1> DEFINE c == current
  <1>0. /\ pc = "wait" /\ c \in Job /\ Index \in Slot /\ Index < nextforfork
        /\ nextforfork \in 0 .. N /\ state[c] = "zombie" /\ elapsed \in Nat
        /\ \A i \in Slot : i # Index => scheduler[i] # c /\ scheduler[i] \in Job
    BY CurrentFacts DEF AssignWait, At, CurrentInv, BooksInv, TypeOK
  <1>1. PICK j \in Zombies : Reap(j)
    BY DEF AssignWait
  <1>2. j = c
    BY <1>0, OnlyCurrentBusy DEF Zombies
  <1>3. /\ state' = [state EXCEPT ![c] = "reaped"] /\ left' = left
        /\ end' = [end EXCEPT ![c] = elapsed]
        /\ Index' = Index + 1 /\ pc' \in {"waitLoop", "print"}
        /\ UNCHANGED <<arrive, need, elapsed, began, ended>>
        /\ UNCHANGED <<scheduler, rem, flag, start, nextforfork, printed>>
    BY <1>1, <1>2 DEF AssignWait, Reap, input, history
  <1>4. \A k \in Job : k # c => state'[k] = state[k] /\ end'[k] = end[k]
    BY <1>3 DEF BooksInv, TypeOK, DispatchTypeOK
  <1>5. end'[c] = ended[c]
    <2>1. ended[c] = elapsed
      BY <1>0 DEF TimesInv, InLoop, CurrentTimes
    <2> QED  BY <1>0, <1>3, <2>1 DEF BooksInv, TypeOK
  <1>6. \A k \in Job : JobTimes(k)'
    BY <1>0, <1>3, <1>4, JobTimesKept
  <1>7. SlotTimes'
    <2>1. ASSUME NEW i \in Slot, i < Index' PROVE end'[scheduler[i]] = ended[scheduler[i]]
      <3>1. CASE i = Index
        BY <1>5, <3>1 DEF current
      <3>2. CASE i # Index
        <4>1. i < Index
          BY <1>0, <1>3, <2>1, <3>2 DEF Slot
        <4>2. end[scheduler[i]] = ended[scheduler[i]]
          BY <1>0, <4>1 DEF TimesInv, SlotTimes
        <4> QED  BY <1>0, <1>4, <3>2, <4>2
      <3> QED  BY <3>1, <3>2
    <2>2. \A i \in Slot : Index' < i \/ nextforfork <= i => flag[scheduler[i]] = 1
      <3>1. \A i \in Slot : Index' < i => Index < i
        BY <1>0, <1>3 DEF Slot
      <3> QED  BY <1>0, <3>1 DEF TimesInv, SlotTimes
    <2> QED  BY <1>3, <2>1, <2>2 DEF SlotTimes
  <1>8. Index' < nextforfork => CurrentTimes' \/ pc' = "print"
    <2>1. Index' < nextforfork => Index' \in Slot /\ Index < Index'
      BY <1>0, <1>3 DEF Slot
    <2>2. Index' < nextforfork => flag[scheduler[Index']] = 1
      BY <1>0, <2>1 DEF TimesInv, SlotTimes
    <2> QED  BY <1>3, <2>2 DEF CurrentTimes, current
  <1>9. ReportTimes'
    BY <1>0, <1>3 DEF TimesInv, ReportTimes
  <1> QED  BY <1>3, <1>6, <1>7, <1>8, <1>9 DEF TimesInv, InLoop

(* The print loop: every job has been waited for.                           *)
LEMMA PrintResultsTimes == BooksInv /\ TimesInv /\ PrintResults => TimesInv'
  <1> SUFFICES ASSUME BooksInv, TimesInv, PrintResults PROVE TimesInv'
    OBVIOUS
  <1> USE NIsNat
  <1>0. /\ pc = "print" /\ pc' = "exited" /\ Index = N
        /\ UNCHANGED <<arrive, need, elapsed, began, ended, state, left>>
        /\ UNCHANGED <<rem, flag, start, end>>
    BY DEF BooksInv, IndexInv, PrintResults, Exit, At, input, child, history, data
  <1>1. elapsed \in Nat
    BY DEF BooksInv, TypeOK, DispatchTypeOK
  <1>2. \A j \in Job : JobTimes(j)'
    BY <1>0, <1>1, JobTimesKept
  <1>3. ASSUME NEW j \in Job
        PROVE  state[j] = "reaped" /\ left[j] = 0 /\ end[j] = ended[j]
    <2>1. PICK i \in Slot : scheduler[i] = j
      BY DEF BooksInv, ListingInv, Listings
    <2>2. i < Index
      BY <1>0 DEF Slot
    <2> QED  BY <1>0, <2>1, <2>2 DEF BooksInv, SlotsInv, Finished, TimesInv, SlotTimes
  <1>4. SlotTimes' /\ ReportTimes'
    BY <1>0, <1>3 DEF SlotTimes, ReportTimes
  <1> QED  BY <1>0, <1>2, <1>4 DEF TimesInv, InLoop

(* A child that neither burns a unit nor exits touches no stamp.            *)
LEMMA QuietChildTimes ==
  ASSUME BooksInv, TimesInv, NEW j \in Job,
         state[j] \in {"forked", "scan", "run"},
         NEW s \in {"scan", "run"}, state' = [state EXCEPT ![j] = s],
         UNCHANGED <<arrive, need, elapsed, began, ended, left>>, UNCHANGED mainVars
  PROVE  TimesInv'
  <1>0. UNCHANGED <<pc, scheduler, rem, flag, start, end, clock, Index, nextforfork, time, printed>>
    BY DEF mainVars, data
  <1>1. /\ elapsed \in Nat /\ state'[j] = s /\ \A k \in Job : k # j => state'[k] = state[k]
    BY DEF BooksInv, TypeOK, DispatchTypeOK
  <1>2. \A k \in Job : JobTimes(k)'
    <2>1. \A k \in Job : state'[k] # "none" => state[k] # "none"
      BY <1>1
    <2> QED  BY <1>0, <1>1, <2>1, JobTimesKept
  <1>3. SlotTimes'
    BY <1>0 DEF TimesInv, SlotTimes
  <1>4. ReportTimes'
    BY <1>0, <1>1 DEF TimesInv, ReportTimes
  <1>5. InLoop /\ Index < nextforfork => CurrentTimes'
    <2>1. ASSUME NEW k \in Job PROVE state'[k] = "zombie" => state[k] = "zombie"
      BY <1>1
    <2>2. InLoop /\ Index < nextforfork => current \in Job
      BY NIsNat DEF BooksInv, TypeOK, IndexInv, InLoop, current, Slot
    <2> QED  BY <1>0, <2>1, <2>2 DEF TimesInv, CurrentTimes, current
  <1> QED  BY <1>0, <1>2, <1>3, <1>4, <1>5 DEF TimesInv, InLoop

(* The first unit of a job is burnt at the time of its stamp.               *)
LEMMA BurnUnitTimes ==
  ASSUME BooksInv, TimesInv, NEW j \in Job, BurnUnit(j), UNCHANGED mainVars
  PROVE  TimesInv'
  <1>0. /\ state[j] = "run" /\ x[j] > 0
        /\ left' = [left EXCEPT ![j] = @ - 1]
        /\ elapsed' = elapsed + 1
        /\ began' = [began EXCEPT ![j] = IF @ = Never THEN elapsed ELSE @]
        /\ UNCHANGED <<arrive, need, state, ended>>
        /\ UNCHANGED <<pc, scheduler, rem, flag, start, end, clock, Index, nextforfork, time, printed>>
    BY DEF BurnUnit, mainVars, data, input
  <1>1. /\ j = current /\ pc \in {"raise", "charge"} /\ Index < nextforfork
        /\ left[j] \in Int /\ elapsed \in Nat
    BY <1>0, RunningFacts, CurrentFacts
  <1>2. /\ left'[j] = left[j] - 1
        /\ \A k \in Job : k # j => left'[k] = left[k] /\ began'[k] = began[k]
        /\ began'[j] = IF began[j] = Never THEN elapsed ELSE began[j]
    BY <1>0 DEF BooksInv, TypeOK, DispatchTypeOK
  <1>3. JobTimes(j) /\ need[j] \in Nat /\ flag[j] = 0 /\ (left[j] = need[j] => start[j] = elapsed)
        /\ (time > 0 \/ rem[j] = 0)
    BY <1>1 DEF TimesInv, CurrentTimes, InLoop, BooksInv, TypeOK, DispatchTypeOK
  <1>4. left'[j] < need[j] /\ began'[j] = start[j] /\ start[j] # Never
    <2>1. CASE left[j] = need[j]
      <3>1. elapsed # Never
        BY <1>1 DEF Never
      <3> QED  BY <1>1, <1>2, <1>3, <2>1, <3>1 DEF JobTimes
    <2>2. CASE left[j] # need[j]
      <3>1. left[j] < need[j]
        BY <1>1, <1>3, <2>2 DEF JobTimes
      <3> QED  BY <1>1, <1>2, <1>3, <3>1 DEF JobTimes
    <2> QED  BY <2>1, <2>2
  <1>5. ASSUME NEW k \in Job PROVE JobTimes(k)'
    <2>1. JobTimes(k) /\ arrive[k] \in Nat
      BY DEF TimesInv, BooksInv, TypeOK, DispatchTypeOK
    <2>2. arrive[k] <= elapsed => arrive[k] <= elapsed'
      BY <1>0, <1>1, <2>1
    <2>3. CASE k = j
      <3>1. left'[j] <= need[j] /\ left'[j] # need[j]
        BY <1>1, <1>2, <1>3, <1>4
      <3> QED  BY <1>0, <1>3, <1>4, <2>1, <2>2, <2>3, <3>1 DEF JobTimes
    <2>4. CASE k # j
      BY <1>0, <1>2, <2>1, <2>2, <2>4 DEF JobTimes
    <2> QED  BY <2>3, <2>4
  <1>6. SlotTimes' /\ ReportTimes'
    BY <1>0, <1>1 DEF TimesInv, SlotTimes, ReportTimes
  <1>7. CurrentTimes'
    <2>1. left'[j] # need[j]
      BY <1>1, <1>2, <1>3, <1>4
    <2> QED  BY <1>0, <1>1, <1>3, <2>1 DEF CurrentTimes, current
  <1> QED  BY <1>0, <1>1, <1>5, <1>6, <1>7 DEF TimesInv

(* A child exits: no unit passes before main takes the time.                *)
LEMMA DiesTimes ==
  ASSUME BooksInv, TimesInv, NEW j \in Job, Dies(j), state[j] \in {"scan", "run"},
         pc # "exited" => j = current /\ pc \in {"raise", "charge"},
         UNCHANGED <<arrive, need, elapsed, began, left>>, UNCHANGED mainVars
  PROVE  TimesInv'
  <1> USE NIsNat
  <1>0. UNCHANGED <<pc, scheduler, rem, flag, start, end, clock, Index, nextforfork, time, printed>>
    BY DEF mainVars, data
  <1>1. /\ elapsed \in Nat /\ state'[j] = "zombie" /\ ended'[j] = elapsed
        /\ \A k \in Job : k # j => state'[k] = state[k] /\ ended'[k] = ended[k]
    BY DEF Dies, BooksInv, TypeOK, DispatchTypeOK
  <1>2. \A k \in Job : JobTimes(k)'
    <2>1. \A k \in Job : state'[k] # "none" => state[k] # "none"
      BY <1>1
    <2> QED  BY <1>0, <1>1, <2>1, JobTimesKept
  <1>3. SlotTimes'
    <2>1. ASSUME pc # "exited", NEW i \in Slot, i < Index
          PROVE  end[scheduler[i]] = ended'[scheduler[i]]
      <3>1. /\ Index \in Slot /\ i # Index /\ scheduler[i] # current
            /\ scheduler[i] \in Job
        BY <2>1, CurrentFacts DEF BooksInv, TypeOK, Slot
      <3> QED  BY <1>1, <2>1, <3>1 DEF TimesInv, SlotTimes
    <2> QED  BY <1>0, <2>1 DEF TimesInv, SlotTimes
  <1>4. ReportTimes'
    BY <1>0, <1>1 DEF TimesInv, ReportTimes
  <1>5. InLoop /\ Index < nextforfork => CurrentTimes'
    BY <1>0, <1>1 DEF TimesInv, InLoop, CurrentTimes, current
  <1> QED  BY <1>0, <1>2, <1>3, <1>4, <1>5 DEF TimesInv, InLoop

(* Whatever a child does, the stamps stay true.                             *)
LEMMA ChildStepTimes ==
  ASSUME ~ExecMayFail, BooksInv, TimesInv, NEW j \in Job, ChildStep(j)
  PROVE  TimesInv'
  <1>0. UNCHANGED mainVars
    BY DEF ChildStep
  <1>1. Exec(j, TRUE) \/ Scanf(j) \/ ScanfEof(j) \/ BurnUnit(j) \/ Finish(j) \/ Yield(j)
    BY DEF ChildStep, ChildProgram, ExecFails
  <1>2. CASE Exec(j, TRUE) \/ Yield(j)
    <2>1. /\ state[j] \in {"forked", "run"} /\ state' = [state EXCEPT ![j] = "scan"]
          /\ UNCHANGED <<arrive, need, elapsed, began, ended, left>>
      BY <1>2 DEF Exec, Yield, input, history
    <2> QED  BY <1>0, <2>1, QuietChildTimes
  <1>3. CASE Scanf(j)
    <2>1. /\ state[j] = "scan" /\ state' = [state EXCEPT ![j] = "run"]
          /\ UNCHANGED <<arrive, need, elapsed, began, ended, left>>
      BY <1>3 DEF Scanf, input, history
    <2> QED  BY <1>0, <2>1, QuietChildTimes
  <1>4. CASE ScanfEof(j)
    <2>1. pc = "exited"
      BY <1>4, EofOnlyAtTheEnd DEF ScanfEof
    <2> QED  BY <1>0, <1>4, <2>1, DiesTimes DEF ScanfEof, input
  <1>5. CASE BurnUnit(j)
    BY <1>0, <1>5, BurnUnitTimes
  <1>6. CASE Finish(j)
    <2>1. state[j] = "run" /\ j = current /\ pc \in {"raise", "charge"}
      BY <1>6, RunningFacts DEF Finish
    <2> QED  BY <1>0, <1>6, <2>1, DiesTimes DEF Finish, input
  <1> QED  BY <1>1, <1>2, <1>3, <1>4, <1>5, <1>6

(* A stuttering step.                                                       *)
LEMMA StutterTimes == TimesInv /\ UNCHANGED vars => TimesInv'
  BY DEF TimesInv, JobTimes, SlotTimes, CurrentTimes, ReportTimes, InLoop, current,
         vars, dispatchVars, mainVars, data, input, child, fds, history

(* The results that are printed are true.                                   *)
LEMMA TimesImply == BooksInv /\ TimesInv => ResultsAreTrue
  <1> SUFFICES ASSUME BooksInv, TimesInv, NEW i \in 1 .. Len(printed)
               PROVE  LET j == printed[i] IN
                      /\ need[j] > 0 => start[j] = began[j]
                      /\ end[j] = ended[j]
    BY DEF ResultsAreTrue
  <1>1. printed \in Seq(Job) /\ printed # << >>
    <2>1. printed \in Seq(Job)
      BY DEF BooksInv, TypeOK
    <2> QED  BY <2>1
  <1>2. PICK j \in Job : j = printed[i]
    BY <1>1
  <1>3. left[j] = 0 /\ end[j] = ended[j]
    BY <1>1 DEF TimesInv, ReportTimes
  <1>4. need[j] > 0 => start[j] = began[j]
    BY <1>3 DEF TimesInv, JobTimes
  <1> QED  BY <1>2, <1>3, <1>4

-----------------------------------------------------------------------------
(* The units of the CPU.                                                    *)

\* The units each job has been served, as the ideal CPU counts them.
got == [j \in Job |-> need[j] - left[j]]

(* The jobs the ideal CPU has to choose from have been forked and are not   *)
(* finished, as long as real time has not come to the next arrival.         *)
LEMMA PendingIsForked ==
  ASSUME BooksInv, pc # "exited", pc # "read",
         nextforfork < N => elapsed < arrive[upcoming],
         NEW k \in Job, arrive[k] <= elapsed, left[k] > 0
  PROVE  \E i \in Slot : Index <= i /\ i < nextforfork /\ scheduler[i] = k
  <1> USE NIsNat
  <1>0. Index \in 0 .. N /\ nextforfork \in 0 .. N /\ elapsed \in Nat /\ arrive \in [Job -> Nat]
        /\ scheduler \in [Slot -> Job]
    BY DEF BooksInv, TypeOK, DispatchTypeOK
  <1>1. PICK i \in Slot : scheduler[i] = k
    BY DEF BooksInv, ListingInv, Listings
  <1>2. ~(i < Index)
    BY <1>1 DEF BooksInv, SlotsInv, Finished
  <1>3. ASSUME nextforfork <= i PROVE FALSE
    <2>1. nextforfork \in Slot /\ nextforfork < N /\ nextforfork <= nextforfork
      BY <1>0, <1>3 DEF Slot
    <2>2. arrive[scheduler[nextforfork]] <= arrive[scheduler[i]]
      BY <1>3, <2>1 DEF BooksInv, ListingInv
    <2>3. elapsed < arrive[scheduler[nextforfork]] /\ scheduler[nextforfork] \in Job
      BY <1>0, <2>1 DEF upcoming
    <2> QED  BY <1>0, <1>1, <2>2, <2>3
  <1> QED  BY <1>0, <1>1, <1>2, <1>3 DEF Slot

(* A unit burnt is a unit served to the current job; of the other jobs that *)
(* could be served none has been started.                                   *)
LEMMA BurnUnitServes ==
  ASSUME BooksInv, TimesInv, NEW j \in Job, BurnUnit(j), UNCHANGED mainVars
  PROVE  /\ j = current /\ pc \in {"raise", "charge"}
         /\ Ideal!Serve(j)
         /\ Ideal!NonPreemptive(j)
         /\ \A k \in Ideal!Pending : \E i \in Slot : Index <= i /\ i < nextforfork /\ scheduler[i] = k
         /\ got[j] = 0 <=> left[j] = need[j]
  <1> USE NIsNat
  <1>0. /\ state[j] = "run" /\ x[j] > 0 /\ left' = [left EXCEPT ![j] = @ - 1]
        /\ elapsed' = elapsed + 1 /\ arrive' = arrive /\ need' = need
    BY DEF BurnUnit, input
  <1>1. /\ j = current /\ pc \in {"raise", "charge"} /\ Taken(j) /\ time <= rem[j]
        /\ left[j] \in Int /\ x[j] \in Nat /\ rem[j] \in Nat
        /\ clock \in Nat /\ elapsed \in Nat /\ time \in Nat
    BY <1>0, RunningFacts
  <1>2. left[j] > 0 /\ elapsed < clock + time
    <2>1. left[j] = rem[j] - time + x[j] /\ clock + time - x[j] = elapsed
      BY <1>1 DEF Taken
    <2> QED  BY <1>0, <1>1, <2>1
  <1>3. left \in [Job -> Int] /\ need \in [Job -> Nat] /\ arrive \in [Job -> Nat]
    BY DEF BooksInv, TypeOK, DispatchTypeOK
  <1>4. j \in Ideal!Pending
    <2>1. arrive[j] <= elapsed
      BY <1>0 DEF TimesInv, JobTimes
    <2>2. got[j] < need[j]
      BY <1>2, <1>3 DEF got
    <2> QED  BY <2>1, <2>2 DEF Ideal!Pending, got
  <1>5. got' = [got EXCEPT ![j] = @ + 1]
    <2>1. \A k \in Job : left'[k] = IF k = j THEN left[k] - 1 ELSE left[k]
      BY <1>0, <1>3
    <2>2. \A k \in Job : need[k] - left'[k] = IF k = j THEN (need[k] - left[k]) + 1
                                                       ELSE need[k] - left[k]
      BY <1>3, <2>1
    <2>3. got' = [k \in Job |-> need[k] - left'[k]]
      BY <1>0 DEF got
    <2>4. [got EXCEPT ![j] = @ + 1] = [k \in Job |-> IF k = j THEN (need[k] - left[k]) + 1
                                                              ELSE need[k] - left[k]]
      BY DEF got
    <2> QED  BY <2>2, <2>3, <2>4
  <1>6. Ideal!Serve(j)
    BY <1>0, <1>4, <1>5 DEF Ideal!Serve, got
  <1>7. ASSUME NEW k \in Ideal!Pending
        PROVE  \E i \in Slot : Index <= i /\ i < nextforfork /\ scheduler[i] = k
    <2>1. k \in Job /\ arrive[k] <= elapsed /\ left[k] > 0
      BY <1>3 DEF Ideal!Pending
    <2>2. nextforfork < N => elapsed < arrive[upcoming]
      <3>1. nextforfork < N => clock + time <= arrive[upcoming] /\ arrive[upcoming] \in Nat
        BY <1>1, CurrentFacts DEF BooksInv, ClockInv
      <3> QED  BY <1>1, <1>2, <3>1
    <2> QED  BY <1>1, <2>1, <2>2, PendingIsForked
  <1>8. Ideal!NonPreemptive(j)
    <2> SUFFICES ASSUME NEW k \in Ideal!Pending, k # j, got[k] > 0 PROVE FALSE
      BY DEF Ideal!NonPreemptive, got
    <2>1. PICK i \in Slot : Index <= i /\ i < nextforfork /\ scheduler[i] = k
      BY <1>7
    <2>2. Index \in Slot /\ nextforfork \in 0 .. N /\ i # Index
      BY <1>1, <2>1, CurrentFacts DEF current
    <2>3. Index < i
      BY <2>1, <2>2 DEF Slot
    <2>4. k \in Job /\ flag[k] = 1
      BY <1>1, <2>1, <2>3 DEF TimesInv, SlotTimes, Ideal!Pending
    <2>5. left[k] = need[k]
      BY <2>4 DEF TimesInv, JobTimes
    <2> QED  BY <1>3, <2>4, <2>5 DEF got
  <1>9. got[j] = 0 <=> left[j] = need[j]
    BY <1>3 DEF got
  <1> QED  BY <1>1, <1>6, <1>7, <1>8, <1>9

(* A unit main waits is one in which the ideal CPU has nothing to serve.    *)
LEMMA WaitLoopIdles ==
  ASSUME BooksInv, WaitLoop, elapsed' # elapsed
  PROVE  Ideal!Idle
  <1> USE NIsNat
  <1>0. /\ pc = "waitLoop" /\ nextforfork < N /\ Index = nextforfork /\ clock = elapsed
        /\ clock < arrive[upcoming] /\ elapsed' = elapsed + 1
        /\ UNCHANGED <<arrive, need, left>>
    BY DEF WaitLoop, Waiting, At, BooksInv, ClockInv, Deciding, input, child
  <1>1. /\ left \in [Job -> Int] /\ need \in [Job -> Nat]
        /\ nextforfork \in Slot /\ scheduler \in [Slot -> Job]
    BY <1>0 DEF BooksInv, TypeOK, DispatchTypeOK, Slot
  <1>2. Ideal!Pending = {}
    <2> SUFFICES ASSUME NEW k \in Job, arrive[k] <= elapsed, need[k] - left[k] < need[k]
                 PROVE  FALSE
      BY DEF Ideal!Pending
    <2>1. left[k] > 0
      BY <1>1
    <2>2. \E i \in Slot : Index <= i /\ i < nextforfork /\ scheduler[i] = k
      BY <1>0, <2>1, PendingIsForked
    <2> QED  BY <1>0, <1>1, <2>2 DEF Slot
  <1>3. upcoming \in Job /\ arrive[upcoming] > elapsed
    BY <1>0, <1>1 DEF upcoming
  <1> QED  BY <1>0, <1>2, <1>3 DEF Ideal!Idle

(* A fork gives the child the whole of what the job needs.                  *)
LEMMA ForkIsUnseen == BooksInv /\ ExecuteFork => UNCHANGED <<arrive, need, left, elapsed>>
  <1> SUFFICES ASSUME BooksInv, ExecuteFork PROVE UNCHANGED <<arrive, need, left, elapsed>>
    OBVIOUS
  <1> USE NIsNat
  <1>0. UNCHANGED <<arrive, need, elapsed>>
    BY DEF ExecuteFork, input
  <1>1. CASE Due
    <2>1. PICK u \in Job : u = upcoming /\ nextforfork \in Slot
      BY <1>1 DEF Due, upcoming, BooksInv, TypeOK, Slot
    <2>2. left[u] = rem[u]
      <3>1. pc # "exited" /\ nextforfork <= nextforfork /\ u = scheduler[nextforfork]
        BY <2>1 DEF ExecuteFork, At, upcoming, Slot
      <3> QED  BY <2>1, <3>1 DEF BooksInv, SlotsInv, ToCome
    <2>3. left' = [left EXCEPT ![u] = left[u]]
      BY <1>1, <2>1, <2>2 DEF ExecuteFork, Spawn
    <2>4. left' = left
      BY <2>3 DEF BooksInv, TypeOK, DispatchTypeOK
    <2> QED  BY <1>0, <2>4
  <1>2. CASE ~Due
    BY <1>0, <1>2 DEF ExecuteFork, child
  <1> QED  BY <1>1, <1>2

(* A run starts as one of the ideal CPU does.                               *)
LEMMA IdealInit == Init => Ideal!Init
  <1> SUFFICES ASSUME Init PROVE Ideal!Init
    OBVIOUS
  <1>1. DispatchTypeOK /\ left = need /\ elapsed = 0
    BY DispatchInitType DEF Init, DispatchInit
  <1>2. \A j \in Job : need[j] - left[j] = 0
    BY <1>1 DEF DispatchTypeOK
  <1>3. [j \in Job |-> need[j] - left[j]] = [j \in Job |-> 0]
    BY <1>2
  <1> QED  BY <1>1, <1>3 DEF Ideal!Init, DispatchTypeOK

(* The actions of main the ideal CPU does not see.                          *)
LEMMA RestIsUnseen ==
  ASSUME ReadFile \/ ForkFails \/ AssignWrite \/ AssignRaise \/ AssignCharge \/ AssignWait
         \/ PrintResults
  PROVE  UNCHANGED <<arrive, need, left, elapsed>>
  BY DEF ReadFile, ForkFails, AssignWrite, AssignRaise, AssignCharge, AssignWait, PrintResults,
         Send, Raise, Reap, dispatchVars, input, child

(* A child that does not burn a unit is not seen either.                    *)
LEMMA ChildIsUnseen ==
  ASSUME NEW j \in Job, ChildStep(j), ~BurnUnit(j)
  PROVE  UNCHANGED <<arrive, need, left, elapsed>>
  BY DEF ChildStep, ChildProgram, Exec, ExecFails, Scanf, ScanfEof, Finish, Yield, input

-----------------------------------------------------------------------------
(* Once main has read its input, its steps keep its write ends until its    *)
(* end; the flag test touches nothing of a child.                           *)
LEMMA EofMainStep ==
  ASSUME EofInv,
         \/ WaitLoop \/ ExecuteFork \/ AssignWrite \/ AssignRaise \/ AssignCharge \/ AssignWait
         \/ PrintResults \/ ForkFails \/ (At("stamp") /\ pc' = "write" /\ UNCHANGED dispatchVars)
  PROVE  EofInv'
  <1>1. pc \notin {"read", "exited"} /\ pc' # "read"
    BY DEF WaitLoop, ExecuteFork, ForkFails, AssignWrite, AssignRaise, AssignCharge, AssignWait,
       PrintResults, Exit, At
  <1>2. \A j \in Job : Main \in writers[j]
    BY <1>1 DEF EofInv
  <1>3. CASE pc' = "exited"
    BY <1>3 DEF EofInv
  <1>4. CASE pc' # "exited" /\ ExecuteFork
    BY <1>1, <1>2, <1>4 DEF ExecuteFork, Spawn, fds, EofInv
  <1>5. CASE pc' # "exited" /\ ~ExecuteFork
    <2>1. writers' = writers
      BY <1>5 DEF WaitLoop, ForkFails, AssignWrite, AssignRaise, AssignCharge, AssignWait,
         PrintResults, Exit, fds, dispatchVars
    <2> QED  BY <1>1, <1>2, <2>1 DEF EofInv
  <1> QED  BY <1>3, <1>4, <1>5

(* Nobody but main itself, in Exit, gives up main's write ends.             *)
LEMMA EofStep ==
  ASSUME EofInv,
         \/ ReadFile \/ WaitLoop \/ ExecuteFork \/ AssignWrite \/ AssignRaise \/ AssignCharge
         \/ AssignWait \/ PrintResults \/ ForkFails
         \/ (At("stamp") /\ pc' = "write" /\ UNCHANGED dispatchVars)
         \/ (\E j \in Job : ChildStep(j)) \/ UNCHANGED vars
  PROVE  EofInv'
  <1>1. CASE UNCHANGED vars
    BY <1>1 DEF EofInv, vars, dispatchVars, child, fds, mainVars
  <1>2. CASE ReadFile
    BY <1>2 DEF ReadFile, OpenPipes, EofInv
  <1>3. CASE \E j \in Job : ChildStep(j)
    <2>1. PICK j \in Job : ChildStep(j)
      BY <1>3
    <2>2. pc' = pc /\ pc # "read" /\ j # Main
      <3>1. pc' = pc /\ (Exec(j, TRUE) \/ ExecFails(j) \/ ChildProgram(j))
        BY <2>1 DEF ChildStep, mainVars
      <3>2. state[j] # "none"
        BY <3>1 DEF Exec, ExecFails, ChildProgram, Scanf, ScanfEof, BurnUnit, Finish, Yield
      <3> QED  BY <3>1, <3>2, JobAssumption DEF EofInv
    <2>3. \A k \in Job : Main \in writers[k] => Main \in writers'[k]
      BY <2>1, <2>2 DEF ChildStep, Exec, ExecFails, ChildProgram, Scanf, ScanfEof, BurnUnit, Finish,
         Yield, Dies, DropFds, fds
    <2> QED  BY <2>2, <2>3 DEF EofInv
  <1> QED  BY <1>1, <1>2, <1>3, EofMainStep

-----------------------------------------------------------------------------
(* Runs in which any call may fail: FaultInv.                               *)

(* What is known while a job is current.                                    *)
LEMMA ServedFacts ==
  ASSUME FaultInv, pc # "exited", Index < nextforfork, InLoop
  PROVE  /\ Index \in Slot /\ nextforfork \in 0 .. N
         /\ current \in Job /\ current = scheduler[Index]
         /\ CurrentServed
         /\ clock \in Nat /\ elapsed \in Nat /\ time \in Nat
         /\ rem[current] \in Nat /\ left[current] \in Int /\ x[current] \in Nat
         /\ need[current] \in Nat
         /\ \A i \in Slot : scheduler[i] \in Job
         /\ \A i \in Slot : i # Index => scheduler[i] # current
  <1> USE NIsNat
  <1>1. Index \in Slot /\ nextforfork \in 0 .. N
    BY DEF FaultInv, TypeOK, IndexInv, Slot
  <1>2. scheduler \in Listings /\ scheduler \in [Slot -> Job]
    BY DEF FaultInv, ListingInv, TypeOK
  <1>3. current \in Job
    BY <1>1, <1>2 DEF current
  <1>4. \A i \in Slot : i # Index => scheduler[i] # current
    BY <1>1, <1>2 DEF Listings, current
  <1>5. CurrentServed
    BY DEF FaultInv, PlacesInv
  <1> QED  BY <1>1, <1>2, <1>3, <1>4, <1>5 DEF FaultInv, TypeOK, DispatchTypeOK, current

(* While main is there only the current job can have a slice.               *)
LEMMA OnlyCurrentHasSlice ==
  ASSUME FaultInv, pc # "exited", NEW j \in Job, Alive(j)
  PROVE  \/ Resting(j)
         \/ /\ pc \in {"raise", "charge"} /\ j = current /\ Given(j)
            /\ InLoop /\ Index < nextforfork
  <1> USE NIsNat
  <1>1. PICK i \in Slot : scheduler[i] = j
    BY DEF FaultInv, ListingInv, Listings
  <1>2. ~Gone(j) /\ ~Failed(j) /\ ~ToCome(j)
    BY DEF Alive, Gone, Failed, ToCome
  <1>3. Index \in 0 .. N /\ nextforfork \in 0 .. N /\ pc \in MainState /\ i \in 0 .. N - 1
    BY <1>1 DEF FaultInv, TypeOK, Slot
  <1>4. ~(i < Index) /\ ~(nextforfork <= i)
    BY <1>1, <1>2 DEF FaultInv, PlacesInv
  <1>5. CASE i # Index
    <2>1. Index < i /\ i < nextforfork
      BY <1>3, <1>4, <1>5
    <2> QED  BY <1>1, <1>2, <2>1 DEF FaultInv, PlacesInv
  <1>6. CASE i = Index
    <2>1. Index < nextforfork /\ Index < N
      BY <1>3, <1>4, <1>6
    <2>2. InLoop
      BY <1>3, <2>1 DEF FaultInv, IndexInv, InLoop, MainState
    <2>3. CurrentServed /\ j = current
      BY <1>1, <1>6, <2>1, <2>2 DEF FaultInv, PlacesInv, current
    <2> QED  BY <1>2, <2>1, <2>2, <2>3 DEF CurrentServed, InLoop, Deciding
  <1> QED  BY <1>5, <1>6

(* The initial states.                                                      *)
LEMMA FaultInit == Init => FaultInv
  <1> SUFFICES ASSUME Init PROVE FaultInv
    OBVIOUS
  <1> USE NIsNat
  <1>1. TypeOK /\ ListingInv /\ IndexInv /\ SlotsInv
    BY InitInv DEF BooksInv
  <1>2. PlanInv /\ LeadInv
    BY <1>1 DEF Init, DispatchInit, PlanInv, LeadInv, Deciding, TypeOK, DispatchTypeOK
  <1>3. \A j \in Job : JobServed(j)
    BY <1>1 DEF Init, DispatchInit, JobServed, TypeOK, DispatchTypeOK
  <1>4. PlacesInv
    BY <1>1 DEF Init, PlacesInv, SlotsInv, InLoop, Slot
  <1>5. EndInv
    <2>1. {j \in Job : state[j] = "reaped"} = {}
      BY DEF Init, DispatchInit
    <2>2. Cardinality({}) = 0
      BY FS_EmptySet
    <2> QED  BY <2>1, <2>2 DEF Init, EndInv
  <1>6. EofInv
    BY DEF Init, DispatchInit, EofInv
  <1> QED  BY <1>1, <1>2, <1>3, <1>4, <1>5, <1>6 DEF FaultInv

(* The invariant says of every job that has been printed what is claimed.   *)
LEMMA FaultImplies == FaultInv => NoMissedArrival /\ ServedAreTrue
  <1> SUFFICES ASSUME FaultInv PROVE NoMissedArrival /\ ServedAreTrue
    OBVIOUS
  <1> USE NIsNat
  <1>1. NoMissedArrival
    <2>0. nextforfork < N /\ Deciding => clock <= arrive[upcoming]
      BY DEF FaultInv, PlanInv
    <2> SUFFICES ASSUME nextforfork < N PROVE elapsed <= arrive[upcoming]
      BY <2>0 DEF NoMissedArrival
    <2>1. /\ pc \in MainState /\ clock \in Nat /\ time \in Nat /\ elapsed \in Nat
          /\ Index \in 0 .. N /\ nextforfork \in 0 .. N
          /\ arrive[upcoming] \in Nat /\ (pc = "print" => Index = N) /\ Index <= nextforfork
      BY DEF FaultInv, TypeOK, DispatchTypeOK, IndexInv, upcoming, Slot
    <2> QED  BY <2>1 DEF FaultInv, PlanInv, LeadInv, MainState, Deciding
  <1>2. ServedAreTrue
    <2> SUFFICES ASSUME NEW i \in 1 .. Len(printed), NEW j \in Job, j = printed[i]
                 PROVE  /\ state[j] = "reaped"
                        /\ began[j] # Never => /\ left[j] = 0 /\ start[j] = began[j]
                                               /\ end[j] = ended[j]
      <3>1. \A i \in 1 .. Len(printed) : printed[i] \in Job
        BY DEF FaultInv, TypeOK
      <3> QED  BY <3>1 DEF ServedAreTrue
    <2>1. printed # << >>
      OBVIOUS
    <2>2. JobServed(j) /\ left[j] \in Int /\ need[j] \in Nat
      BY DEF FaultInv, TypeOK, DispatchTypeOK
    <2>3. began[j] # Never => left[j] = 0 /\ end[j] = ended[j] /\ left[j] < need[j]
      BY <2>1, <2>2 DEF FaultInv, EndInv, JobServed
    <2> QED  BY <2>1, <2>2, <2>3 DEF FaultInv, EndInv, JobServed
  <1> QED  BY <1>1, <1>2

(* main goes, by whichever of its exits, while no child has a slice.        *)
LEMMA FaultExit ==
  ASSUME FaultInv, pc \notin {"read", "exited"}, pc' = "exited", DropFds(Main),
         UNCHANGED <<arrive, need, elapsed, began, ended, state, prio, left, x, pipe>>,
         UNCHANGED <<scheduler, rem, flag, start, end, clock, Index, nextforfork>>,
         time' \in Nat, printed' \in Seq(Job),
         \A j \in Job : Alive(j) => Resting(j),
         printed' # << >> => \A j \in Job : /\ state[j] = "reaped"
                                            /\ began[j] # Never => left[j] = 0 /\ end[j] = ended[j]
  PROVE  FaultInv'
  <1> USE NIsNat
  <1>1. TypeOK'
    <2>1. writers' \in [Job -> SUBSET Proc] /\ readers' \in [Job -> SUBSET Proc]
      BY DropFdsType DEF FaultInv, TypeOK
    <2>2. DispatchTypeOK'
      BY <2>1 DEF FaultInv, TypeOK, DispatchTypeOK
    <2>3. scheduler' \in [Slot -> Job] /\ rem' \in [Job -> Nat] /\ flag' \in [Job -> {0, 1}]
      BY DEF FaultInv, TypeOK
    <2>4. clock' \in Nat /\ Index' \in 0 .. N /\ nextforfork' \in 0 .. N
      BY DEF FaultInv, TypeOK
    <2>5. start' \in [Job -> Nat \cup {Never}] /\ end' \in [Job -> Nat \cup {Never}]
      BY DEF FaultInv, TypeOK
    <2> QED  BY <2>2, <2>3, <2>4, <2>5 DEF TypeOK, MainState
  <1>2. ListingInv' /\ IndexInv'
    BY DEF FaultInv, ListingInv, IndexInv, InLoop
  <1>a. PlanInv' /\ PlacesInv' /\ EofInv'
    BY DEF PlanInv, Deciding, PlacesInv, EofInv
  <1>3. LeadInv'
    <2>1. nextforfork < N => elapsed <= arrive[upcoming]
      BY FaultImplies DEF NoMissedArrival
    <2> QED  BY <2>1 DEF LeadInv, Deciding, upcoming
  <1>4. \A j \in Job : JobServed(j)'
    BY DEF FaultInv, JobServed
  <1>5. EndInv'
    BY DEF EndInv, Alive, Resting, Quiet
  <1> QED  BY <1>1, <1>2, <1>a, <1>3, <1>4, <1>5 DEF FaultInv

(* main gives up because fork() failed.                                     *)
LEMMA ForkFailsFault == FaultInv /\ ForkFails => FaultInv'
  <1> SUFFICES ASSUME FaultInv, ForkFails PROVE FaultInv'
    OBVIOUS
  <1>0. /\ pc = "executeFork" /\ pc' = "exited" /\ DropFds(Main)
        /\ UNCHANGED <<arrive, need, elapsed, began, ended, state, prio, left, x, pipe>>
        /\ UNCHANGED <<scheduler, rem, flag, start, end, clock, Index, nextforfork, time, printed>>
    BY DEF ForkFails, Exit, At, input, child, history, data
  <1>1. /\ \A j \in Job : Alive(j) => Resting(j)
        /\ time \in Nat /\ printed = << >> /\ printed \in Seq(Job)
    BY <1>0, OnlyCurrentHasSlice DEF FaultInv, TypeOK, EndInv
  <1> QED  BY <1>0, <1>1, FaultExit

(* The end of main: each of its N calls of wait() has buried a child.       *)
LEMMA PrintResultsFault == FaultInv /\ PrintResults => FaultInv'
  <1> SUFFICES ASSUME FaultInv, PrintResults PROVE FaultInv'
    OBVIOUS
  <1> USE NIsNat
  <1>0. /\ pc = "print" /\ pc' = "exited" /\ DropFds(Main) /\ Index = N
        /\ UNCHANGED <<arrive, need, elapsed, began, ended, state, prio, left, x, pipe>>
        /\ UNCHANGED <<scheduler, rem, flag, start, end, clock, Index, nextforfork, time>>
        /\ printed' = [i \in 1 .. N |-> scheduler[i - 1]]
    BY DEF FaultInv, IndexInv, PrintResults, Exit, At, input, child, history, data
  <1>1. printed' \in Seq(Job)
    <2>1. \A i \in 1 .. N : scheduler[i - 1] \in Job
      BY DEF FaultInv, TypeOK, Slot
    <2> QED  BY <1>0, <2>1
  <1>2. \A j \in Job : state[j] = "reaped"
    <2> DEFINE reaped == {j \in Job : state[j] = "reaped"}
    <2>1. Cardinality(reaped) = Cardinality(Job)
      BY <1>0 DEF FaultInv, EndInv, N
    <2>2. reaped \in SUBSET Job
      OBVIOUS
    <2>3. reaped = Job
      <3> HIDE DEF reaped
      <3> QED  BY <2>1, <2>2, JobAssumption, FS_Subset
    <2> QED  BY <2>3
  <1>3. ASSUME NEW j \in Job, began[j] # Never
        PROVE  left[j] = 0 /\ end[j] = ended[j]
    <2>1. PICK i \in Slot : scheduler[i] = j
      BY DEF FaultInv, ListingInv, Listings
    <2>2. i < Index
      BY <1>0 DEF Slot
    <2>3. ~Failed(j)
      BY <1>3 DEF Failed
    <2> QED  BY <1>0, <1>3, <2>1, <2>2, <2>3 DEF FaultInv, PlacesInv, Gone
  <1>4. time' \in Nat /\ \A j \in Job : Alive(j) => Resting(j)
    BY <1>0, OnlyCurrentHasSlice DEF FaultInv, TypeOK
  <1> QED  BY <1>0, <1>1, <1>2, <1>3, <1>4, FaultExit

(* A step that only concerns the current job leaves the others where they   *)
(* are.                                                                     *)
LEMMA PlacesKept ==
  ASSUME FaultInv, pc # "exited", pc # "read", InLoop, Index < nextforfork,
         UNCHANGED <<scheduler, Index, nextforfork>>,
         \A j \in Job : j # current =>
            /\ state'[j] = state[j] /\ pipe'[j] = pipe[j] /\ x'[j] = x[j]
            /\ left'[j] = left[j] /\ rem'[j] = rem[j] /\ need'[j] = need[j]
            /\ began'[j] = began[j] /\ ended'[j] = ended[j] /\ end'[j] = end[j]
            /\ flag'[j] = flag[j],
         CurrentServed'
  PROVE  PlacesInv'
  <1> USE NIsNat
  <1>0. Index \in Slot /\ nextforfork \in 0 .. N
    BY ServedFacts
  <1>1. ASSUME NEW i \in Slot, i # Index
        PROVE  LET j == scheduler[i]
               IN  /\ state'[j] = state[j] /\ pipe'[j] = pipe[j] /\ x'[j] = x[j]
                   /\ left'[j] = left[j] /\ rem'[j] = rem[j] /\ need'[j] = need[j]
                   /\ began'[j] = began[j] /\ ended'[j] = ended[j] /\ end'[j] = end[j]
                   /\ flag'[j] = flag[j]
    BY <1>1, ServedFacts
  <1>2. \A i \in Slot : i < Index =>
          LET j == scheduler[i]
          IN  (Gone(j)' \/ Failed(j)') /\ (began'[j] # Never => end'[j] = ended'[j])
    BY <1>0, <1>1 DEF FaultInv, PlacesInv, Gone, Failed, Quiet, Slot
  <1>3. \A i \in Slot : Index < i /\ i < nextforfork =>
          Resting(scheduler[i])' \/ Failed(scheduler[i])'
    BY <1>0, <1>1 DEF FaultInv, PlacesInv, Resting, Failed, Quiet, Slot
  <1>4. \A i \in Slot : nextforfork <= i => ToCome(scheduler[i])'
    BY <1>0, <1>1 DEF FaultInv, PlacesInv, ToCome, Quiet, Slot
  <1>5. \A i \in Slot : Index < i \/ nextforfork <= i => flag'[scheduler[i]] = 1
    BY <1>0, <1>1 DEF FaultInv, PlacesInv, Slot
  <1> QED  BY <1>2, <1>3, <1>4, <1>5 DEF PlacesInv

(* What main has printed and how many children it has buried do not change  *)
(* in a step that buries nobody.                                            *)
LEMMA EndKept ==
  ASSUME FaultInv, pc # "exited", pc' # "exited", UNCHANGED <<Index, printed>>,
         \A j \in Job : state'[j] = "reaped" <=> state[j] = "reaped"
  PROVE  EndInv'
  <1>1. {j \in Job : state'[j] = "reaped"} = {j \in Job : state[j] = "reaped"}
    OBVIOUS
  <1> QED  BY <1>1 DEF FaultInv, EndInv

(* readFile() and the sort by ready time.                                   *)
LEMMA ReadFileFault == FaultInv /\ ReadFile => FaultInv'
  <1> SUFFICES ASSUME FaultInv, ReadFile PROVE FaultInv'
    OBVIOUS
  <1> USE NIsNat
  <1>0. /\ pc = "read" /\ pc' = IF N > 0 THEN "waitLoop" ELSE "print"
        /\ flag' = [j \in Job |-> 1]
        /\ UNCHANGED <<arrive, need, state, prio, left, x, pipe, elapsed, began, ended>>
        /\ UNCHANGED <<rem, start, end, clock, Index, nextforfork, time, printed>>
        /\ nextforfork = 0 /\ Index = 0 /\ elapsed = 0 /\ (N > 0 => clock = 0) /\ clock \in Nat
        /\ scheduler \in Listings
    BY DEF ReadFile, At, input, child, history, FaultInv, IndexInv, TypeOK, PlanInv, LeadInv,
           ListingInv
  <1>1. /\ scheduler' \in Listings /\ scheduler' \in [Slot -> Job]
        /\ \A i, k \in Slot : i <= k => arrive[scheduler'[i]] <= arrive[scheduler'[k]]
    <2>1. scheduler' \in QSort(scheduler, 0, N, arrive)
      BY DEF ReadFile
    <2>2. PICK b : b = scheduler'
      OBVIOUS
    <2>3. /\ b \in Listings
          /\ \A i, k \in Slot : 0 <= i /\ i <= k /\ k < N => arrive[b[i]] <= arrive[b[k]]
      BY <1>0, <2>1, <2>2, QSortFacts
    <2> QED  BY <2>2, <2>3 DEF Listings, Slot
  <1>2. TypeOK'
    <2>1. writers' \in [Job -> SUBSET Proc] /\ readers' \in [Job -> SUBSET Proc]
      BY DEF ReadFile, OpenPipes, FaultInv, TypeOK, DispatchTypeOK, Proc
    <2>2. DispatchTypeOK'
      BY <1>0, <2>1 DEF FaultInv, TypeOK, DispatchTypeOK
    <2> QED  BY <1>0, <1>1, <2>2 DEF FaultInv, TypeOK, MainState
  <1>3. ListingInv' /\ IndexInv'
    BY <1>0, <1>1 DEF ListingInv, IndexInv, InLoop
  <1>4. PlanInv' /\ LeadInv'
    <2>1. N > 0 => arrive[scheduler'[0]] \in Nat
      BY <1>1 DEF FaultInv, TypeOK, DispatchTypeOK, Slot
    <2> QED  BY <1>0, <2>1 DEF PlanInv, LeadInv, Deciding, upcoming
  <1>5. ASSUME NEW j \in Job
        PROVE  ToCome(j)' /\ JobServed(j)' /\ flag'[j] = 1
    <2>1. state[j] = "none" /\ JobServed(j)
      BY <1>0 DEF FaultInv, EofInv
    <2>2. ToCome(j)
      <3>1. PICK i \in Slot : scheduler[i] = j
        BY <1>0 DEF Listings
      <3>2. nextforfork <= i
        BY <1>0, <3>1 DEF Slot
      <3> QED  BY <1>0, <3>1, <3>2 DEF FaultInv, PlacesInv
    <2> QED  BY <1>0, <2>1, <2>2 DEF ToCome, Quiet, JobServed
  <1>6. PlacesInv'
    BY <1>0, <1>1, <1>5 DEF PlacesInv, Slot
  <1>7. EndInv'
    BY <1>0, EndKept
  <1>8. EofInv'
    BY EofStep DEF FaultInv
  <1> QED  BY <1>2, <1>3, <1>4, <1>5, <1>6, <1>7, <1>8 DEF FaultInv

(* waitLoop(): main burns units only while no child can.                    *)
LEMMA WaitLoopFault == FaultInv /\ WaitLoop => FaultInv'
  <1> SUFFICES ASSUME FaultInv, WaitLoop PROVE FaultInv'
    OBVIOUS
  <1> USE NIsNat
  <1>0. /\ pc = "waitLoop" /\ pc' \in {"waitLoop", "executeFork"}
        /\ Index \in 0 .. N /\ nextforfork \in 0 .. N /\ clock \in Nat /\ elapsed \in Nat
        /\ Index <= nextforfork /\ Index < N /\ elapsed <= clock
        /\ (nextforfork < N => clock <= arrive[upcoming] /\ arrive[upcoming] \in Nat)
        /\ UNCHANGED <<arrive, need, state, prio, left, x, pipe, writers, readers, began, ended>>
        /\ UNCHANGED <<scheduler, rem, flag, start, end, Index, nextforfork, time, printed>>
    BY DEF FaultInv, WaitLoop, At, TypeOK, DispatchTypeOK, IndexInv, InLoop, PlanInv, LeadInv,
           Deciding, input, child, fds, history, data, upcoming, Slot
  <1>1. \/ Waiting /\ elapsed' = elapsed + 1 /\ clock' = clock + 1 /\ pc' = pc
        \/ ~Waiting /\ elapsed' = elapsed /\ clock' = clock /\ pc' = "executeFork"
    BY DEF WaitLoop
  <1>2. TypeOK'
    <2>1. elapsed' \in Nat /\ clock' \in Nat
      BY <1>0, <1>1
    <2>2. DispatchTypeOK'
      BY <1>0, <2>1 DEF FaultInv, TypeOK, DispatchTypeOK
    <2> QED  BY <1>0, <2>1, <2>2 DEF FaultInv, TypeOK, MainState
  <1>3. ListingInv' /\ IndexInv'
    BY <1>0 DEF FaultInv, ListingInv, IndexInv, InLoop
  <1>4. PlanInv' /\ LeadInv'
    BY <1>0, <1>1 DEF PlanInv, LeadInv, Waiting, Deciding, upcoming
  <1>5. \A j \in Job : JobServed(j)'
    BY <1>0 DEF FaultInv, JobServed
  <1>6. PlacesInv'
    <2>1. Index < nextforfork => CurrentServed'
      BY <1>0 DEF FaultInv, PlacesInv, InLoop, CurrentServed, current, Resting, Failed, Quiet, Deciding
    <2> QED  BY <1>0, <2>1 DEF FaultInv, PlacesInv, Gone, Failed, Resting, ToCome, Quiet
  <1>7. EndInv'
    BY <1>0, EndKept
  <1>8. EofInv'
    BY EofStep DEF FaultInv
  <1> QED  BY <1>2, <1>3, <1>4, <1>5, <1>6, <1>7, <1>8 DEF FaultInv

(* executeFork(): a job is forked at its ready time, or none is due.        *)
LEMMA ExecuteForkFault == FaultInv /\ ExecuteFork => FaultInv'
  <1> SUFFICES ASSUME FaultInv, ExecuteFork PROVE FaultInv'
    OBVIOUS
  <1> USE NIsNat
  <1>0. /\ pc = "executeFork"
        /\ Index \in 0 .. N /\ nextforfork \in 0 .. N /\ clock \in Nat /\ elapsed \in Nat
        /\ Index <= nextforfork /\ Index < N /\ elapsed <= clock
        /\ (nextforfork < N => clock <= arrive[upcoming])
        /\ UNCHANGED <<arrive, need, elapsed, began, ended>>
        /\ UNCHANGED <<scheduler, rem, flag, start, end, clock, Index, time, printed>>
        /\ scheduler \in [Slot -> Job] /\ scheduler \in Listings
    BY DEF FaultInv, ExecuteFork, At, TypeOK, DispatchTypeOK, IndexInv, InLoop, PlanInv, LeadInv,
           Deciding, ListingInv, data, input, history
  <1>a. nextforfork < N => nextforfork \in Slot /\ upcoming \in Job /\ arrive[upcoming] \in Nat
    BY <1>0 DEF FaultInv, TypeOK, DispatchTypeOK, upcoming, Slot
  <1>b. EofInv'
    BY EofStep DEF FaultInv
  <1>1. CASE Due
    <2>u. PICK u \in Job : u = upcoming
      BY <1>1, <1>a DEF Due
    <2>0. /\ nextforfork < N /\ clock = arrive[u] /\ u \in Job /\ u = scheduler[nextforfork]
          /\ nextforfork \in Slot /\ nextforfork' = nextforfork + 1 /\ pc' = pc
          /\ Spawn(u, rem[u], TRUE) /\ UNCHANGED <<input, elapsed, history>>
      BY <1>0, <1>1, <1>a, <2>u DEF Due, ExecuteFork, upcoming
    <2>1. ToCome(u) /\ flag[u] = 1
      BY <1>0, <2>0 DEF FaultInv, PlacesInv
    <2>2. /\ DispatchTypeOK' /\ state'[u] = "forked" /\ left'[u] = rem[u]
          /\ \A k \in Job : k # u => state'[k] = state[k] /\ left'[k] = left[k]
          /\ x' = x /\ pipe' = pipe
      <3>1. DispatchTypeOK /\ rem[u] \in Int
        BY <2>0 DEF FaultInv, TypeOK
      <3>2. x' = x /\ pipe' = pipe
        BY <2>0 DEF Spawn
      <3> QED  BY <2>0, <3>1, <3>2, SpawnFacts
    <2>3. TypeOK'
      BY <1>0, <2>0, <2>2 DEF FaultInv, TypeOK
    <2>4. ListingInv' /\ IndexInv'
      BY <1>0, <2>0 DEF FaultInv, ListingInv, IndexInv, InLoop, Slot
    <2>5. PlanInv' /\ LeadInv'
      <3>1. nextforfork' < N => clock <= arrive'[upcoming']
        BY <1>0, <1>a, <2>0 DEF FaultInv, ListingInv, upcoming, Slot
      <3> QED  BY <1>0, <2>0, <3>1 DEF PlanInv, LeadInv, Deciding
    <2>6. ASSUME NEW k \in Job PROVE left'[k] = left[k] /\ (k # u => state'[k] = state[k])
      BY <2>1, <2>2 DEF ToCome
    <2>7. \A j \in Job : JobServed(j)'
      BY <1>0, <2>1, <2>2, <2>6 DEF FaultInv, JobServed, ToCome
    <2>8. PlacesInv'
      <3>1. \A i \in Slot : scheduler[i] \in Job /\ (scheduler[i] = u => i = nextforfork)
        BY <1>0, <2>0 DEF Listings
      <3>2. Resting(u)'
        BY <1>0, <2>1, <2>2 DEF Resting, ToCome, Quiet
      <3>3. \A i \in Slot : i < Index' =>
              LET j == scheduler[i]
              IN  (Gone(j)' \/ Failed(j)') /\ (began[j] # Never => end[j] = ended[j])
        BY <1>0, <2>2, <2>6, <3>1 DEF FaultInv, PlacesInv, Gone, Failed, Quiet, Slot
      <3>4. \A i \in Slot : Index' < i /\ i < nextforfork' =>
              Resting(scheduler[i])' \/ Failed(scheduler[i])'
        <4> SUFFICES ASSUME NEW i \in Slot, Index < i, i < nextforfork + 1
                     PROVE  Resting(scheduler[i])' \/ Failed(scheduler[i])'
          BY <1>0, <2>0
        <4>1. CASE i = nextforfork
          BY <1>0, <2>0, <3>2, <4>1
        <4>2. CASE i # nextforfork
          <5>1. i < nextforfork
            BY <1>0, <4>2 DEF Slot
          <5>2. Resting(scheduler[i]) \/ Failed(scheduler[i])
            BY <1>0, <5>1 DEF FaultInv, PlacesInv
          <5> QED  BY <1>0, <2>2, <2>6, <3>1, <4>2, <5>2 DEF Resting, Failed, Quiet
        <4> QED  BY <4>1, <4>2
      <3>5. \A i \in Slot : nextforfork' <= i => ToCome(scheduler[i])'
        BY <1>0, <2>0, <2>2, <2>6, <3>1 DEF FaultInv, PlacesInv, ToCome, Quiet, Slot
      <3>6. \A i \in Slot : Index' < i \/ nextforfork' <= i => flag'[scheduler[i]] = 1
        BY <1>0, <2>0 DEF FaultInv, PlacesInv, Slot
      <3>7. CurrentServed'
        <4>1. CASE Index = nextforfork
          BY <1>0, <2>0, <2>1, <3>2, <4>1 DEF CurrentServed, current, Deciding
        <4>2. CASE Index # nextforfork
          <5>1. Index < nextforfork /\ Index \in Slot
            BY <1>0, <4>2 DEF Slot
          <5>2. CurrentServed /\ current \in Job /\ current # u
            BY <1>0, <3>1, <4>2, <5>1 DEF FaultInv, PlacesInv, InLoop, current
          <5>3. UNCHANGED current
            BY <1>0 DEF current
          <5> QED  BY <1>0, <2>0, <2>2, <2>6, <5>2, <5>3
                   DEF CurrentServed, Resting, Failed, Quiet, Deciding
        <4> QED  BY <4>1, <4>2
      <3> QED  BY <1>0, <3>3, <3>4, <3>5, <3>6, <3>7 DEF PlacesInv
    <2>9. EndInv'
      <3>1. \A j \in Job : state'[j] = "reaped" <=> state[j] = "reaped"
        BY <2>1, <2>2, <2>6 DEF ToCome
      <3> QED  BY <1>0, <2>0, <3>1, EndKept
    <2> QED  BY <1>b, <2>3, <2>4, <2>5, <2>7, <2>8, <2>9 DEF FaultInv
  <1>2. CASE ~Due
    <2>0. /\ pc' = "stamp" /\ nextforfork' = nextforfork
          /\ UNCHANGED <<state, prio, left, x, pipe, writers, readers>>
      BY <1>2 DEF ExecuteFork, child, fds
    <2>1. Index < nextforfork
      BY <1>0, <1>2, <1>a DEF FaultInv, PlanInv, Due
    <2>2. TypeOK'
      BY <1>0, <2>0 DEF FaultInv, TypeOK, DispatchTypeOK, MainState
    <2>3. ListingInv' /\ IndexInv'
      BY <1>0, <2>0, <2>1 DEF FaultInv, ListingInv, IndexInv, InLoop
    <2>4. PlanInv' /\ LeadInv'
      BY <1>0, <1>2, <1>a, <2>0 DEF PlanInv, LeadInv, Deciding, Due, upcoming
    <2>5. \A j \in Job : JobServed(j)'
      BY <1>0, <2>0 DEF FaultInv, JobServed
    <2>6. PlacesInv'
      <3>1. CurrentServed'
        BY <1>0, <2>0, <2>1 DEF FaultInv, PlacesInv, InLoop, CurrentServed, current, Resting, Failed,
           Quiet, Deciding
      <3> QED  BY <1>0, <2>0, <3>1 DEF FaultInv, PlacesInv, Gone, Failed, Resting, ToCome, Quiet
    <2>7. EndInv'
      BY <1>0, <2>0, EndKept
    <2> QED  BY <1>b, <2>2, <2>3, <2>4, <2>5, <2>6, <2>7 DEF FaultInv
  <1> QED  BY <1>1, <1>2

(* assign(): a slice is written, or there is nobody left to read it.        *)
LEMMA AssignWriteFault == FaultInv /\ AssignWrite => FaultInv'
  <1> SUFFICES ASSUME FaultInv, AssignWrite PROVE FaultInv'
    OBVIOUS
  <1> USE NIsNat
  <1> DEFINE c == current
  <1>0. /\ pc = "write" /\ InLoop /\ Index < nextforfork /\ printed = << >>
        /\ (nextforfork < N => clock < arrive[upcoming] /\ arrive[upcoming] \in Nat)
        /\ elapsed <= clock
    BY DEF FaultInv, AssignWrite, At, PlanInv, LeadInv, IndexInv, EndInv, InLoop, Deciding, TypeOK,
           DispatchTypeOK, upcoming, Slot
  <1>1. /\ c \in Job /\ clock \in Nat /\ elapsed \in Nat /\ time \in Nat /\ rem[c] \in Nat
        /\ CurrentServed /\ nextforfork \in 0 .. N
    BY <1>0, ServedFacts
  <1>2. CASE readers[c] = {}
    <2>1. /\ pc' = "exited" /\ DropFds(Main)
          /\ UNCHANGED <<arrive, need, elapsed, began, ended, state, prio, left, x, pipe>>
          /\ UNCHANGED <<scheduler, rem, flag, start, end, clock, Index, nextforfork, time, printed>>
      BY <1>2 DEF AssignWrite, Exit, Send, input, child, history, data
    <2>2. printed' \in Seq(Job) /\ \A j \in Job : Alive(j) => Resting(j)
      BY <1>0, <2>1, OnlyCurrentHasSlice DEF FaultInv, TypeOK
    <2> QED  BY <1>0, <1>1, <2>1, <2>2, FaultExit
  <1>3. CASE readers[c] # {}
    <2>0. /\ time' = decideTime /\ pc' = "raise"
          /\ pipe' = [pipe EXCEPT ![c] = Append(@, time')]
          /\ UNCHANGED <<arrive, need, elapsed, began, ended, state, prio, left, x, writers, readers>>
          /\ UNCHANGED <<scheduler, rem, flag, start, end, clock, Index, nextforfork, printed>>
      BY <1>3 DEF AssignWrite, Send, fds, input, history, data
    <2>1. /\ time' \in Nat /\ time' <= rem[c] /\ (time' > 0 \/ rem[c] = 0)
          /\ nextforfork < N => clock + time' <= arrive[upcoming]
      BY <1>0, <1>1, <2>0 DEF decideTime
    <2>2. /\ pipe' \in [Job -> Seq(Nat)] /\ \A j \in Job : j # c => pipe'[j] = pipe[j]
          /\ pipe'[c] = Append(pipe[c], time')
      <3>1. pipe \in [Job -> Seq(Nat)] /\ pipe[c] \in Seq(Nat)
        BY <1>1 DEF FaultInv, TypeOK, DispatchTypeOK
      <3>2. Append(pipe[c], time') \in Seq(Nat)
        BY <2>1, <3>1
      <3> QED  BY <1>1, <2>0, <3>1, <3>2
    <2>3. TypeOK'
      <3>1. DispatchTypeOK'
        BY <2>0, <2>2 DEF FaultInv, TypeOK, DispatchTypeOK
      <3> QED  BY <2>0, <2>1, <3>1 DEF FaultInv, TypeOK, MainState
    <2>4. ListingInv' /\ IndexInv'
      BY <1>0, <2>0 DEF FaultInv, ListingInv, IndexInv, InLoop
    <2>5. PlanInv' /\ LeadInv'
      BY <1>0, <1>1, <2>0, <2>1 DEF PlanInv, LeadInv, Deciding, upcoming, current
    <2>6. \A j \in Job : JobServed(j)'
      BY <2>0 DEF FaultInv, JobServed
    <2>7. CurrentServed'
      <3>1. Resting(c) \/ Failed(c)
        BY <1>0, <1>1 DEF CurrentServed, Deciding
      <3>2. Given(c)' \/ Failed(c)'
        <4>1. CASE Resting(c)
          <5>1. pipe'[c] = <<time'>>
            BY <2>1, <2>2, <4>1, OneMessage DEF Resting, Quiet
          <5> QED  BY <1>0, <2>0, <4>1, <5>1 DEF Given, Resting, Quiet, current
        <4>2. CASE Failed(c)
          BY <2>0, <4>2 DEF Failed, current
        <4> QED  BY <3>1, <4>1, <4>2
      <3>3. Failed(c)' = Failed(c)
        BY <2>0 DEF Failed, current
      <3>4. c' = c
        BY <2>0 DEF current
      <3>5. state[c] = "zombie" => began[c] = Never
        BY <3>1 DEF Resting, Failed
      <3> QED  BY <1>0, <1>1, <2>0, <3>2, <3>3, <3>4, <3>5 DEF CurrentServed, Deciding
    <2>8. PlacesInv'
      BY <1>0, <2>0, <2>2, <2>7, PlacesKept
    <2>9. EndInv'
      BY <1>0, <2>0, EndKept
    <2>10. EofInv'
      BY EofStep DEF FaultInv
    <2> QED  BY <2>3, <2>4, <2>5, <2>6, <2>8, <2>9, <2>10 DEF FaultInv
  <1> QED  BY <1>2, <1>3

(* assign(): the child is raised above main, unless it is gone already.     *)
LEMMA AssignRaiseFault == FaultInv /\ AssignRaise => FaultInv'
  <1> SUFFICES ASSUME FaultInv, AssignRaise PROVE FaultInv'
    OBVIOUS
  <1> USE NIsNat
  <1> DEFINE c == current
  <1>0. pc = "raise" /\ InLoop /\ Index < nextforfork /\ printed = << >>
    BY DEF FaultInv, AssignRaise, At, IndexInv, EndInv, InLoop
  <1>1. c \in Job /\ time \in Nat /\ CurrentServed
    BY <1>0, ServedFacts
  <1>2. CASE state[c] = "reaped"
    <2>1. /\ pc' = "exited" /\ DropFds(Main)
          /\ UNCHANGED <<arrive, need, elapsed, began, ended, state, prio, left, x, pipe>>
          /\ UNCHANGED <<scheduler, rem, flag, start, end, clock, Index, nextforfork, time, printed>>
      BY <1>2 DEF AssignRaise, Exit, input, child, history, data
    <2>2. printed' \in Seq(Job)
      BY <2>1 DEF FaultInv, TypeOK
    <2>3. \A j \in Job : Alive(j) => Resting(j)
      BY <1>0, <1>2, OnlyCurrentHasSlice DEF Alive
    <2> QED  BY <1>0, <1>1, <2>1, <2>2, <2>3, FaultExit
  <1>3. CASE state[c] # "reaped"
    <2>0. /\ prio' = [prio EXCEPT ![c] = RunPrio] /\ pc' = "charge"
          /\ UNCHANGED <<arrive, need, elapsed, began, ended, state, left, x, pipe, writers, readers>>
          /\ UNCHANGED <<scheduler, rem, flag, start, end, clock, Index, nextforfork, time, printed>>
      BY <1>3 DEF AssignRaise, Raise, fds, input, history, data
    <2>1. prio' \in [Job -> {YieldPrio, MainPrio, RunPrio}] /\ prio'[c] = RunPrio
      BY <1>1, <2>0 DEF FaultInv, TypeOK, DispatchTypeOK
    <2>2. TypeOK'
      BY <2>0, <2>1 DEF FaultInv, TypeOK, DispatchTypeOK, MainState
    <2>3. ListingInv' /\ IndexInv'
      BY <1>0, <2>0 DEF FaultInv, ListingInv, IndexInv, InLoop
    <2>4. PlanInv' /\ LeadInv'
      BY <1>0, <2>0 DEF FaultInv, PlanInv, LeadInv, Deciding, upcoming, current
    <2>5. \A j \in Job : JobServed(j)'
      BY <2>0 DEF FaultInv, JobServed
    <2>6. CurrentServed'
      <3>1. c' = c /\ Given(c)' = Given(c) /\ Failed(c)' = Failed(c)
        BY <2>0 DEF current, Given, Failed
      <3> QED  BY <1>0, <1>1, <2>0, <2>1, <3>1 DEF CurrentServed, Deciding
    <2>7. PlacesInv'
      BY <1>0, <2>0, <2>6, PlacesKept
    <2>8. EndInv'
      BY <1>0, <2>0, EndKept
    <2>9. EofInv'
      BY EofStep DEF FaultInv
    <2> QED  BY <2>2, <2>3, <2>4, <2>5, <2>7, <2>8, <2>9 DEF FaultInv
  <1> QED  BY <1>2, <1>3

(* When main has the CPU again in assign(), a child that could be started   *)
(* has burnt its slice.                                                     *)
LEMMA GivenIsBurnt ==
  ASSUME FaultInv, pc = "charge", MainMayRun, ~Failed(current)
  PROVE  /\ state[current] \in {"scan", "zombie"}
         /\ x[current] = 0 /\ pipe[current] = << >>
         /\ left[current] = rem[current] - time
         /\ state[current] = "scan" => left[current] > 0
         /\ state[current] = "zombie" => left[current] = 0
  <1> USE NIsNat
  <1> DEFINE c == current
  <1>0. InLoop /\ Index < nextforfork
    BY DEF FaultInv, IndexInv, InLoop
  <1>1. /\ c \in Job /\ CurrentServed /\ time \in Nat /\ rem[c] \in Nat /\ left[c] \in Int
        /\ x[c] \in Nat
    BY <1>0, ServedFacts
  <1>2. Given(c) /\ ((state[c] = "run" \/ (Alive(c) /\ pipe[c] # << >>)) => prio[c] = RunPrio)
    BY <1>1 DEF CurrentServed
  <1>3. ~Runnable(c) \/ prio[c] # RunPrio
    BY <1>1 DEF MainMayRun, RunPrio, MainPrio
  <1>4. state[c] # "run" /\ ~(state[c] \in {"forked", "scan"} /\ pipe[c] # << >>)
    BY <1>2, <1>3 DEF Runnable, Alive
  <1>5. <<time>> # << >>
    BY <1>1, OneMessage
  <1>6. /\ state[c] \in {"run", "scan", "zombie"} /\ pipe[c] = << >>
        /\ left[c] = rem[c] - time + x[c]
        /\ state[c] = "scan" => x[c] = 0 /\ left[c] > 0
        /\ state[c] = "zombie" => x[c] = 0 /\ left[c] = 0
    BY <1>2, <1>4, <1>5 DEF Given
  <1> QED  BY <1>1, <1>4, <1>6

(* assign(): main books the slice, whether it was burnt or not.             *)
LEMMA AssignChargeFault == FaultInv /\ AssignCharge => FaultInv'
  <1> SUFFICES ASSUME FaultInv, AssignCharge PROVE FaultInv'
    OBVIOUS
  <1> USE NIsNat
  <1> DEFINE c == current
  <1>0. /\ pc = "charge" /\ MainMayRun /\ InLoop /\ Index < nextforfork /\ Index < N
    BY DEF FaultInv, AssignCharge, At, IndexInv, InLoop
  <1>1. /\ c \in Job /\ CurrentServed /\ time \in Nat /\ rem[c] \in Nat /\ left[c] \in Int
        /\ clock \in Nat /\ elapsed \in Nat /\ x[c] \in Nat /\ need[c] \in Nat
        /\ time <= rem[c] /\ (time > 0 \/ rem[c] = 0)
        /\ elapsed <= clock + time /\ rem[c] <= need[c]
        /\ (nextforfork < N => clock + time <= arrive[upcoming])
    BY <1>0, ServedFacts DEF FaultInv, PlanInv, LeadInv, JobServed
  <1>2. /\ clock' = clock + time /\ rem' = [rem EXCEPT ![c] = @ - time]
        /\ pc' = IF rem[c] - time = 0 THEN "wait" ELSE "waitLoop"
        /\ UNCHANGED <<arrive, need, elapsed, began, ended, state, prio, left, x, pipe, writers, readers>>
        /\ UNCHANGED <<scheduler, flag, start, end, Index, nextforfork, time, printed>>
    BY DEF AssignCharge, dispatchVars, fds, input, child, history
  <1>3. /\ rem' \in [Job -> Nat] /\ rem'[c] = rem[c] - time
        /\ \A j \in Job : j # c => rem'[j] = rem[j]
    <2>1. rem \in [Job -> Nat] /\ rem[c] - time \in Nat
      BY <1>1 DEF FaultInv, TypeOK
    <2> QED  BY <1>1, <1>2, <2>1
  <1>4. TypeOK'
    <2>1. clock' \in Nat
      BY <1>1, <1>2
    <2>2. DispatchTypeOK'
      BY <1>2 DEF FaultInv, TypeOK, DispatchTypeOK
    <2> QED  BY <1>2, <1>3, <2>1, <2>2 DEF FaultInv, TypeOK, MainState
  <1>5. ListingInv' /\ IndexInv'
    BY <1>0, <1>2 DEF FaultInv, ListingInv, IndexInv, InLoop
  <1>6. PlanInv' /\ LeadInv'
    BY <1>0, <1>1, <1>2, <1>3 DEF PlanInv, LeadInv, Deciding, upcoming, current
  <1>7. ASSUME NEW j \in Job PROVE JobServed(j)'
    <2>1. JobServed(j) /\ rem[j] \in Nat /\ need[j] \in Nat
      BY DEF FaultInv, TypeOK, DispatchTypeOK
    <2>2. rem'[j] <= need[j]
      BY <1>1, <1>3, <2>1 DEF JobServed
    <2> QED  BY <1>2, <2>1, <2>2 DEF JobServed
  <1>8. CurrentServed'
    <2>0. c' = c /\ (Failed(c)' <=> Failed(c))
      BY <1>2 DEF current, Failed
    <2>1. CASE Failed(c)
      BY <1>2, <2>0, <2>1 DEF CurrentServed, Failed, Deciding
    <2>2. CASE ~Failed(c)
      <3>1. /\ state[c] \in {"scan", "zombie"} /\ x[c] = 0 /\ pipe[c] = << >>
            /\ left[c] = rem[c] - time
            /\ state[c] = "scan" => left[c] > 0
            /\ state[c] = "zombie" => left[c] = 0
        BY <1>0, <2>2, GivenIsBurnt
      <3>2. pc' = "waitLoop" => Resting(c)'
        BY <1>2, <1>3, <2>0, <3>1 DEF Resting, Quiet
      <3>3. pc' = "wait" => Gone(c)' /\ state'[c] = "zombie"
        BY <1>2, <2>0, <3>1 DEF Gone, Quiet
      <3>4. pc' = "waitLoop" => left[c] # need[c]
        BY <1>1, <1>2, <3>1
      <3> QED  BY <1>0, <1>1, <1>2, <2>0, <2>2, <3>2, <3>3, <3>4 DEF CurrentServed, Deciding
    <2> QED  BY <2>1, <2>2
  <1>9. PlacesInv'
    BY <1>0, <1>2, <1>3, <1>8, PlacesKept
  <1>10. EndInv'
    BY <1>0, <1>2, EndKept
  <1>11. EofInv'
    BY EofStep DEF FaultInv
  <1> QED  BY <1>4, <1>5, <1>6, <1>7, <1>9, <1>10, <1>11 DEF FaultInv

(* assign(): wait() buries one child, perhaps one that could not be started *)
(* instead of the current one.                                              *)
LEMMA AssignWaitFault == FaultInv /\ AssignWait => FaultInv'
  <1> SUFFICES ASSUME FaultInv, AssignWait PROVE FaultInv'
    OBVIOUS
  <1> USE NIsNat
  <1>0. /\ pc = "wait" /\ InLoop /\ Index < nextforfork /\ Index < N
    BY DEF FaultInv, AssignWait, At, IndexInv, InLoop
  <1>c. PICK c \in Job : c = current /\ c = scheduler[Index]
    BY <1>0, ServedFacts
  <1>1. /\ CurrentServed /\ elapsed \in Nat /\ Index \in Slot /\ nextforfork \in 0 .. N
        /\ \A i \in Slot : scheduler[i] \in Job /\ (i # Index => scheduler[i] # c)
    BY <1>0, <1>c, ServedFacts
  <1>2. PICK j \in Zombies : Reap(j)
    BY DEF AssignWait
  <1>3. /\ j \in Job /\ state[j] = "zombie" /\ state' = [state EXCEPT ![j] = "reaped"]
        /\ end' = [end EXCEPT ![c] = elapsed]
        /\ Index' = Index + 1
        /\ pc' = IF Index + 1 < N THEN "waitLoop" ELSE "print"
        /\ UNCHANGED <<arrive, need, elapsed, began, ended, prio, left, x, pipe, writers, readers>>
        /\ UNCHANGED <<scheduler, rem, flag, start, clock, nextforfork, time, printed>>
    BY <1>2, <1>c DEF AssignWait, Reap, Zombies, fds, input, history
  <1>4. /\ state' \in [Job -> ChildState] /\ state'[j] = "reaped"
        /\ \A k \in Job : k # j => state'[k] = state[k]
    BY <1>3 DEF FaultInv, TypeOK, DispatchTypeOK, ChildState
  <1>5. /\ end' \in [Job -> Nat \cup {Never}] /\ end'[c] = elapsed
        /\ \A k \in Job : k # c => end'[k] = end[k]
    BY <1>1, <1>3 DEF FaultInv, TypeOK
  <1>6. TypeOK'
    <2>1. DispatchTypeOK'
      BY <1>3, <1>4 DEF FaultInv, TypeOK, DispatchTypeOK
    <2>2. Index' \in 0 .. N /\ pc' \in MainState
      BY <1>1, <1>3 DEF Slot, MainState
    <2> QED  BY <1>3, <1>5, <2>1, <2>2 DEF FaultInv, TypeOK
  <1>7. ListingInv' /\ IndexInv'
    BY <1>0, <1>1, <1>3 DEF FaultInv, ListingInv, IndexInv, InLoop, Slot
  <1>8. PlanInv' /\ LeadInv'
    BY <1>0, <1>1, <1>3 DEF FaultInv, PlanInv, LeadInv, Deciding, upcoming, Slot
  <1>9. \A k \in Job : JobServed(k)'
    <2>1. \A k \in Job : state'[k] \in {"none", "forked"} => state[k] \in {"none", "forked"}
      BY <1>4
    <2> QED  BY <1>3, <2>1 DEF FaultInv, JobServed
  <1>10. ASSUME NEW k \in Job
         PROVE  /\ Gone(k) => Gone(k)'
                /\ Failed(k) => Failed(k)'
                /\ Resting(k) => Resting(k)'
                /\ ToCome(k) => ToCome(k)'
    BY <1>3, <1>4 DEF Gone, Failed, Resting, ToCome, Quiet
  <1>11. PlacesInv'
    <2>1. Gone(c)' \/ Failed(c)'
      BY <1>0, <1>1, <1>c, <1>10 DEF CurrentServed
    <2>2. began[c] # Never => ended[c] = elapsed
      BY <1>0, <1>1, <1>c DEF CurrentServed, Failed
    <2>3. ASSUME NEW i \in Slot, i < Index'
          PROVE  LET k == scheduler[i]
                 IN  (Gone(k)' \/ Failed(k)') /\ (began[k] # Never => end'[k] = ended[k])
      <3>1. CASE i = Index
        BY <1>c, <1>3, <1>5, <2>1, <2>2, <3>1
      <3>2. CASE i # Index
        <4>1. i < Index
          BY <1>1, <1>3, <2>3, <3>2 DEF Slot
        <4>2. LET k == scheduler[i]
              IN  (Gone(k) \/ Failed(k)) /\ (began[k] # Never => end[k] = ended[k])
          BY <1>0, <4>1 DEF FaultInv, PlacesInv
        <4> QED  BY <1>1, <1>3, <1>5, <1>10, <3>2, <4>2
      <3> QED  BY <3>1, <3>2
    <2>4. ASSUME NEW i \in Slot, Index' < i, i < nextforfork'
          PROVE  Resting(scheduler[i])' \/ Failed(scheduler[i])'
      <3>1. Index < i /\ i < nextforfork
        BY <1>1, <1>3, <2>4 DEF Slot
      <3>2. Resting(scheduler[i]) \/ Failed(scheduler[i])
        BY <1>0, <3>1 DEF FaultInv, PlacesInv
      <3> QED  BY <1>1, <1>3, <1>10, <3>2
    <2>5. \A i \in Slot : nextforfork' <= i => ToCome(scheduler[i])'
      BY <1>0, <1>1, <1>3, <1>10 DEF FaultInv, PlacesInv
    <2>6. \A i \in Slot : Index' < i \/ nextforfork' <= i => flag'[scheduler[i]] = 1
      BY <1>0, <1>1, <1>3 DEF FaultInv, PlacesInv, Slot
    <2>7. Index' < nextforfork' /\ pc' = "waitLoop" => CurrentServed'
      <3> SUFFICES ASSUME Index + 1 < nextforfork, pc' = "waitLoop" PROVE CurrentServed'
        BY <1>3
      <3>1. Index + 1 \in Slot /\ Index < Index + 1
        BY <1>1 DEF Slot
      <3>2. /\ Resting(scheduler[Index + 1]) \/ Failed(scheduler[Index + 1])
            /\ flag[scheduler[Index + 1]] = 1
        BY <1>0, <3>1 DEF FaultInv, PlacesInv
      <3>3. PICK k \in Job : k = scheduler[Index + 1]
        BY <1>1, <3>1
      <3>4. current' = k /\ flag'[k] = 1 /\ (Resting(k)' \/ Failed(k)')
        BY <1>3, <1>10, <3>2, <3>3 DEF current
      <3> QED  BY <3>4 DEF CurrentServed, Deciding
    <2> QED  BY <1>3, <2>3, <2>4, <2>5, <2>6, <2>7 DEF PlacesInv, InLoop
  <1>12. EndInv'
    <2> DEFINE reaped == {k \in Job : state[k] = "reaped"}
    <2>1. {k \in Job : state'[k] = "reaped"} = reaped \cup {j}
      BY <1>3, <1>4
    <2>2. j \notin reaped /\ reaped \in SUBSET Job /\ Cardinality(reaped) = Index /\ printed = << >>
      BY <1>0, <1>3 DEF FaultInv, EndInv
    <2>3. Cardinality(reaped \cup {j}) = Index + 1
      <3> HIDE DEF reaped
      <3>1. IsFiniteSet(reaped)
        BY <2>2, JobAssumption, FS_Subset
      <3> QED  BY <2>2, <3>1, FS_AddElement
    <2> QED  BY <1>3, <2>1, <2>2, <2>3 DEF EndInv
  <1>13. EofInv'
    BY EofStep DEF FaultInv
  <1> QED  BY <1>6, <1>7, <1>8, <1>9, <1>11, <1>12, <1>13 DEF FaultInv

(* The flag test, with whatever exchange of waiting jobs precedes it.       *)
LEMMA FlagTestFault ==
  ASSUME FaultInv, pc = "stamp", pc' = "write",
         NEW b \in Listings, NEW first \in BOOLEAN,
         scheduler' = b,
         \A i \in Slot : i < Index \/ nextforfork <= i => b[i] = scheduler[i],
         \A i \in Slot : Index <= i /\ i < nextforfork =>
           \E k \in Slot : Index <= k /\ k < nextforfork /\ b[i] = scheduler[k],
         \A i \in Slot : Index < i => flag[b[i]] = 1,
         first => flag[b[Index]] = 1,
         ~first => flag[b[Index]] = 0 /\ ~(left[b[Index]] = need[b[Index]] /\ ~Failed(b[Index])),
         start' = IF first THEN [start EXCEPT ![b[Index]] = elapsed] ELSE start,
         flag' = IF first THEN [flag EXCEPT ![b[Index]] = 0] ELSE flag,
         UNCHANGED <<dispatchVars, rem, end, clock, Index, nextforfork, time, printed>>
  PROVE  FaultInv'
  <1> USE NIsNat
  <1>0. /\ UNCHANGED <<arrive, need, state, prio, left, x, pipe, writers, readers, elapsed, began, ended>>
        /\ UNCHANGED <<rem, end, clock, Index, nextforfork, time, printed>>
    BY DEF dispatchVars, input, child, fds, history
  <1>1. InLoop /\ Index < nextforfork /\ Index < N
    BY DEF FaultInv, IndexInv, InLoop
  <1>2. /\ Index \in Slot /\ nextforfork \in 0 .. N /\ elapsed \in Nat
        /\ b \in [Slot -> Job] /\ \A i \in Slot : b[i] = b[Index] => i = Index
    BY <1>1, ServedFacts DEF Listings
  <1>3. PICK c \in Job : c = b[Index]
    BY <1>2
  <1>4. /\ flag'[c] = 0 /\ flag' \in [Job -> {0, 1}] /\ start' \in [Job -> Nat \cup {Never}]
        /\ \A j \in Job : j # c => flag'[j] = flag[j] /\ start'[j] = start[j]
        /\ first => start'[c] = elapsed /\ flag[c] = 1
        /\ ~first => start'[c] = start[c]
    BY <1>2, <1>3 DEF FaultInv, TypeOK
  <1>5. TypeOK'
    <2>1. DispatchTypeOK'
      BY <1>0 DEF FaultInv, TypeOK, DispatchTypeOK
    <2> QED  BY <1>0, <1>2, <1>4, <2>1 DEF FaultInv, TypeOK, MainState
  <1>6. ListingInv'
    <2>1. \A i, k \in Slot : nextforfork <= i /\ i <= k => arrive[b[i]] <= arrive[b[k]]
      <3> SUFFICES ASSUME NEW i \in Slot, NEW k \in Slot, nextforfork <= i, i <= k
                   PROVE  arrive[b[i]] <= arrive[b[k]]
        OBVIOUS
      <3>1. nextforfork <= k
        BY <1>2 DEF Slot
      <3>2. b[i] = scheduler[i] /\ b[k] = scheduler[k]
        BY <3>1
      <3>3. arrive[scheduler[i]] <= arrive[scheduler[k]]
        BY DEF FaultInv, ListingInv
      <3> QED  BY <3>2, <3>3
    <2> QED  BY <1>0, <2>1 DEF ListingInv
  <1>7. IndexInv'
    BY <1>0, <1>1 DEF FaultInv, IndexInv
  <1>8. PlanInv' /\ LeadInv'
    <2>1. nextforfork < N => upcoming' = upcoming
      BY <1>0, <1>2 DEF upcoming, Slot
    <2> QED  BY <1>0, <2>1 DEF FaultInv, PlanInv, LeadInv, Deciding
  <1>9. ASSUME NEW j \in Job PROVE JobServed(j)'
    <2>1. JobServed(j) /\ left[j] \in Int /\ need[j] \in Nat
      BY DEF FaultInv, TypeOK, DispatchTypeOK
    <2>2. CASE j = c
      <3>1. left[j] < need[j] => start'[j] = start[j]
        BY <1>4, <2>1, <2>2 DEF JobServed
      <3> QED  BY <1>0, <1>4, <2>1, <2>2, <3>1 DEF JobServed
    <2>3. CASE j # c
      BY <1>0, <1>4, <2>1, <2>3 DEF JobServed
    <2> QED  BY <2>2, <2>3
  <1>10. ASSUME NEW j \in Job
         PROVE  /\ Gone(j)' = Gone(j) /\ Failed(j)' = Failed(j)
                /\ Resting(j)' = Resting(j) /\ ToCome(j)' = ToCome(j)
    BY <1>0 DEF Gone, Failed, Resting, ToCome, Quiet
  <1>11. \A k \in Slot : Index <= k /\ k < nextforfork =>
           Resting(scheduler[k]) \/ Failed(scheduler[k])
    <2>1. Resting(scheduler[Index]) \/ Failed(scheduler[Index])
      BY <1>1, ServedFacts DEF CurrentServed, Deciding, current
    <2>2. \A k \in Slot : Index <= k /\ k # Index => Index < k
      BY <1>2 DEF Slot
    <2> QED  BY <2>1, <2>2 DEF FaultInv, PlacesInv
  <1>12. \A i \in Slot : Index <= i /\ i < nextforfork => Resting(b[i]) \/ Failed(b[i])
    BY <1>11
  <1>13. PlacesInv'
    <2>1. CurrentServed'
      <3>1. current' = c /\ Index <= Index
        BY <1>0, <1>2, <1>3 DEF current, Slot
      <3>2. Resting(c)' \/ Failed(c)'
        BY <1>1, <1>2, <1>3, <1>10, <1>12, <3>1
      <3>3. left[c] = need[c] /\ ~Failed(c) => start'[c] = elapsed
        BY <1>3, <1>4
      <3> QED  BY <1>0, <1>4, <1>10, <3>1, <3>2, <3>3 DEF CurrentServed, Deciding
    <2>2. \A i \in Slot : i < Index =>
            LET j == b[i] IN (Gone(j)' \/ Failed(j)') /\ (began[j] # Never => end[j] = ended[j])
      BY <1>2, <1>10 DEF FaultInv, PlacesInv
    <2>3. \A i \in Slot : Index < i /\ i < nextforfork => Resting(b[i])' \/ Failed(b[i])'
      BY <1>2, <1>10, <1>12 DEF Slot
    <2>4. \A i \in Slot : nextforfork <= i => ToCome(b[i])'
      BY <1>2, <1>10 DEF FaultInv, PlacesInv
    <2>5. \A i \in Slot : Index < i \/ nextforfork <= i => flag'[b[i]] = 1
      BY <1>1, <1>2, <1>3, <1>4 DEF Slot
    <2> QED  BY <1>0, <2>1, <2>2, <2>3, <2>4, <2>5 DEF PlacesInv
  <1>14. EndInv'
    BY <1>0, EndKept
  <1>15. EofInv'
    BY <1>0 DEF FaultInv, EofInv
  <1> QED  BY <1>5, <1>6, <1>7, <1>8, <1>9, <1>13, <1>14, <1>15 DEF FaultInv

-----------------------------------------------------------------------------
(* The steps of a child when calls may fail.                                *)

(* execl(), which starts the child or ends it.                              *)
LEMMA StartFault ==
  ASSUME FaultInv, NEW j \in Job, pc # "exited", state[j] = "forked",
         NEW s \in {"scan", "zombie"}, state' = [state EXCEPT ![j] = s],
         UNCHANGED <<arrive, need, prio, left, x, pipe, elapsed, began>>, UNCHANGED mainVars,
         \A k \in Job : k # j => ended'[k] = ended[k],
         DispatchTypeOK', EofInv'
  PROVE  FaultInv'
  <1> USE NIsNat
  <1>0. UNCHANGED <<pc, scheduler, rem, flag, start, end, clock, Index, nextforfork, time, printed>>
    BY DEF mainVars, data
  <1>1. state'[j] = s /\ \A k \in Job : k # j => state'[k] = state[k]
    BY DEF FaultInv, TypeOK, DispatchTypeOK
  <1>2. pc # "read"
    BY DEF FaultInv, EofInv
  <1>3. left[j] = need[j] /\ began[j] = Never
    BY DEF FaultInv, JobServed
  <1>4. TypeOK'
    BY <1>0 DEF FaultInv, TypeOK
  <1>5. ListingInv' /\ IndexInv'
    BY <1>0 DEF FaultInv, ListingInv, IndexInv, InLoop
  <1>6. PlanInv' /\ LeadInv'
    BY <1>0 DEF FaultInv, PlanInv, LeadInv, Deciding, upcoming, current
  <1>7. \A k \in Job : JobServed(k)'
    BY <1>0, <1>1, <1>3 DEF FaultInv, JobServed
  <1>8. ASSUME NEW k \in Job
        PROVE  /\ Gone(k) => Gone(k)' /\ k # j
               /\ Failed(k) => Failed(k)' /\ k # j
               /\ Resting(k) => Resting(k)' \/ Failed(k)'
               /\ Given(k) => Given(k)' \/ Failed(k)'
               /\ ToCome(k) => ToCome(k)'
    <2>1. CASE k # j
      <3>1. /\ state'[k] = state[k] /\ x'[k] = x[k] /\ pipe'[k] = pipe[k] /\ left'[k] = left[k]
            /\ rem'[k] = rem[k] /\ need'[k] = need[k] /\ began'[k] = began[k]
            /\ time' = time /\ clock' = clock /\ elapsed' = elapsed
        BY <1>0, <1>1, <2>1
      <3> QED  BY <2>1, <3>1 DEF Gone, Failed, Resting, Given, ToCome, Quiet
    <2>2. CASE k = j /\ s = "scan"
      BY <1>0, <1>1, <2>2 DEF Gone, Failed, Resting, Given, ToCome, Quiet
    <2>3. CASE k = j /\ s = "zombie"
      <3>1. Resting(k) \/ Given(k) => x[k] = 0
        BY <2>3 DEF Resting, Given, Quiet
      <3>2. Resting(k) \/ Given(k) => Failed(k)'
        BY <1>0, <1>1, <1>3, <2>3, <3>1 DEF Failed
      <3> QED  BY <2>3, <3>2 DEF Gone, Failed, ToCome
    <2> QED  BY <2>1, <2>2, <2>3
  <1>9. PlacesInv'
    <2>1. scheduler \in [Slot -> Job] /\ scheduler' = scheduler
      BY <1>0 DEF FaultInv, TypeOK
    <2>2. \A i \in Slot : i < Index =>
            LET k == scheduler[i]
            IN  (Gone(k)' \/ Failed(k)') /\ (began'[k] # Never => end'[k] = ended'[k])
      BY <1>0, <1>8, <2>1 DEF FaultInv, PlacesInv
    <2>3. \A i \in Slot : Index < i /\ i < nextforfork => Resting(scheduler[i])' \/ Failed(scheduler[i])'
      BY <1>8, <2>1 DEF FaultInv, PlacesInv
    <2>4. \A i \in Slot : nextforfork <= i => ToCome(scheduler[i])'
      BY <1>8, <2>1 DEF FaultInv, PlacesInv
    <2>5. ASSUME InLoop, Index < nextforfork PROVE CurrentServed'
      <3>1. CurrentServed /\ Index \in Slot
        BY <2>5, ServedFacts
      <3>2. PICK c \in Job : c = current /\ c = current'
        BY <1>0, <2>1, <3>1 DEF current
      <3>3. /\ Deciding' = Deciding
            /\ state'[c] = "run" => state[c] = "run"
            /\ Alive(c)' => Alive(c)
            /\ state'[c] = "zombie" /\ began'[c] # Never => c # j /\ state[c] = "zombie"
        BY <1>0, <1>1, <1>3, <3>2 DEF Deciding, Alive
      <3>4. pc = "wait" => (Gone(c)' /\ state'[c] = "zombie") \/ Failed(c)'
        BY <1>1, <1>8, <3>1, <3>2 DEF CurrentServed
      <3>5. ~Failed(c)' => ~Failed(c)
        BY <1>8
      <3>6. state'[c] = "zombie" /\ began'[c] # Never => ended'[c] = ended[c]
        BY <3>3
      <3> QED  BY <1>0, <1>8, <3>1, <3>2, <3>3, <3>4, <3>5, <3>6 DEF CurrentServed
    <2> QED  BY <1>0, <2>2, <2>3, <2>4, <2>5 DEF FaultInv, PlacesInv, InLoop
  <1>10. EndInv'
    <2>1. \A k \in Job : state'[k] = "reaped" <=> state[k] = "reaped"
      BY <1>1
    <2> QED  BY <1>0, <2>1, EndKept
  <1> QED  BY <1>4, <1>5, <1>6, <1>7, <1>9, <1>10 DEF FaultInv

(* A child that is in its busy loop, or has a slice to read, is the current *)
(* one, and the slice is the one main is waiting for.                       *)
LEMMA BusyFacts ==
  ASSUME FaultInv, NEW j \in Job, state[j] = "run" \/ (state[j] = "scan" /\ pipe[j] # << >>)
  PROVE  /\ pc \in {"raise", "charge"} /\ j = current /\ Given(j) /\ ~Failed(j)
         /\ InLoop /\ Index < nextforfork /\ CurrentServed
         /\ time <= rem[j] /\ JobServed(j)
         /\ flag[j] = 0 /\ (left[j] = need[j] => start[j] = elapsed)
         /\ pc = "charge" => prio[j] = RunPrio
         /\ left[j] \in Int /\ need[j] \in Nat /\ x[j] \in Nat /\ rem[j] \in Nat
         /\ clock \in Nat /\ elapsed \in Nat /\ time \in Nat
         /\ elapsed <= clock + time
  <1>1. Alive(j) /\ pc # "exited" /\ ~Resting(j) /\ ~Failed(j)
    BY DEF FaultInv, EndInv, Alive, Resting, Quiet, Failed
  <1>2. /\ pc \in {"raise", "charge"} /\ j = current /\ Given(j)
        /\ InLoop /\ Index < nextforfork
    BY <1>1, OnlyCurrentHasSlice
  <1>3. CurrentServed
    BY <1>1, <1>2, ServedFacts
  <1>4. time <= rem[j] /\ JobServed(j) /\ elapsed <= clock + time
    BY <1>2 DEF FaultInv, PlanInv, LeadInv
  <1>5. /\ flag[j] = 0 /\ (left[j] = need[j] => start[j] = elapsed)
        /\ pc = "charge" => prio[j] = RunPrio
    BY <1>1, <1>2, <1>3 DEF CurrentServed
  <1> QED  BY <1>1, <1>2, <1>3, <1>4, <1>5 DEF FaultInv, TypeOK, DispatchTypeOK

(* What is left to show of a step of such a child.                          *)
LEMMA BusyChildFault ==
  ASSUME FaultInv, NEW j \in Job, state[j] = "run" \/ (state[j] = "scan" /\ pipe[j] # << >>),
         UNCHANGED mainVars, UNCHANGED <<arrive, need>>,
         \A k \in Job : k # j => /\ state'[k] = state[k] /\ pipe'[k] = pipe[k] /\ x'[k] = x[k]
                                 /\ left'[k] = left[k] /\ began'[k] = began[k]
                                 /\ ended'[k] = ended[k],
         DispatchTypeOK', EofInv', state'[j] \in {"run", "scan", "zombie"},
         pc = "charge" /\ (state'[j] = "run" \/ pipe'[j] # << >>) => prio'[j] = RunPrio,
         Given(j)', JobServed(j)', elapsed' <= clock + time,
         left'[j] = need[j] /\ ~Failed(j)' => start[j] = elapsed',
         state'[j] = "zombie" => ended'[j] = elapsed'
  PROVE  FaultInv'
  <1> USE NIsNat
  <1>0. UNCHANGED <<pc, scheduler, rem, flag, start, end, clock, Index, nextforfork, time, printed>>
    BY DEF mainVars, data
  <1>1. /\ pc \in {"raise", "charge"} /\ j = current /\ InLoop /\ Index < nextforfork
        /\ CurrentServed /\ flag[j] = 0 /\ state[j] # "reaped"
    BY BusyFacts
  <1>2. TypeOK'
    BY <1>0 DEF FaultInv, TypeOK
  <1>3. ListingInv' /\ IndexInv'
    BY <1>0 DEF FaultInv, ListingInv, IndexInv, InLoop
  <1>4. PlanInv' /\ LeadInv'
    BY <1>0, <1>1 DEF FaultInv, PlanInv, LeadInv, Deciding, upcoming, current
  <1>5. ASSUME NEW k \in Job PROVE JobServed(k)'
    <2>1. CASE k # j
      <3>1. /\ state'[k] = state[k] /\ left'[k] = left[k] /\ began'[k] = began[k]
            /\ JobServed(k)
        BY <2>1 DEF FaultInv
      <3> QED  BY <1>0, <3>1 DEF JobServed
    <2> QED  BY <2>1
  <1>6. CurrentServed'
    <2>1. current' = j
      BY <1>0, <1>1 DEF current
    <2> QED  BY <1>0, <1>1, <2>1 DEF CurrentServed, Deciding
  <1>7. PlacesInv'
    BY <1>0, <1>1, <1>6, PlacesKept
  <1>8. EndInv'
    BY <1>0, <1>1, EndKept
  <1> QED  BY <1>2, <1>3, <1>4, <1>5, <1>7, <1>8 DEF FaultInv

(* The steps of such a child: it reads its slice, burns it, and then exits  *)
(* or hands the CPU back.                                                   *)
LEMMA BusyStepFault ==
  ASSUME FaultInv, NEW j \in Job, Scanf(j) \/ BurnUnit(j) \/ Finish(j) \/ Yield(j),
         UNCHANGED mainVars, DispatchTypeOK', EofInv'
  PROVE  FaultInv'
  <1> USE NIsNat
  <1>0. UNCHANGED <<pc, scheduler, rem, flag, start, end, clock, Index, nextforfork, time, printed>>
    BY DEF mainVars, data
  <1>a. state[j] = "run" \/ (state[j] = "scan" /\ pipe[j] # << >>)
    BY DEF Scanf, BurnUnit, Finish, Yield
  <1>1. /\ pc \in {"raise", "charge"} /\ Given(j) /\ ~Failed(j)
        /\ time <= rem[j] /\ JobServed(j)
        /\ flag[j] = 0 /\ (left[j] = need[j] => start[j] = elapsed)
        /\ pc = "charge" => prio[j] = RunPrio
        /\ left[j] \in Int /\ need[j] \in Nat /\ x[j] \in Nat /\ rem[j] \in Nat
        /\ clock \in Nat /\ elapsed \in Nat /\ time \in Nat
        /\ elapsed <= clock + time
    BY <1>a, BusyFacts
  <1>2. /\ state \in [Job -> ChildState] /\ pipe \in [Job -> Seq(Nat)] /\ x \in [Job -> Nat]
        /\ left \in [Job -> Int] /\ began \in [Job -> Nat \cup {Never}]
        /\ ended \in [Job -> Nat \cup {Never}]
        /\ prio \in [Job -> {YieldPrio, MainPrio, RunPrio}]
    BY DEF FaultInv, TypeOK, DispatchTypeOK
  <1>3. CASE Scanf(j)
    <2>1. /\ state[j] = "scan" /\ pipe[j] # << >>
          /\ state' = [state EXCEPT ![j] = "run"]
          /\ x' = [x EXCEPT ![j] = Head(pipe[j])]
          /\ pipe' = [pipe EXCEPT ![j] = Tail(@)]
          /\ UNCHANGED <<arrive, need, elapsed, began, ended, prio, left>>
      BY <1>3 DEF Scanf, input, history
    <2>2. pipe[j] = <<time>> /\ x[j] = 0 /\ left[j] = rem[j] /\ elapsed <= clock
      BY <1>1, <2>1 DEF Given
    <2>3. Head(pipe[j]) = time /\ Tail(pipe[j]) = << >>
      BY <1>1, <2>2, OneMessage
    <2>4. /\ state'[j] = "run" /\ x'[j] = time /\ pipe'[j] = << >>
          /\ \A k \in Job : k # j => /\ state'[k] = state[k] /\ pipe'[k] = pipe[k]
                                     /\ x'[k] = x[k]
      BY <1>2, <2>1, <2>3
    <2>5. Given(j)' /\ JobServed(j)'
      BY <1>0, <1>1, <2>1, <2>2, <2>4 DEF Given, JobServed
    <2> QED  BY <1>0, <1>1, <1>a, <2>1, <2>4, <2>5, BusyChildFault
  <1>4. CASE BurnUnit(j)
    <2>1. /\ state[j] = "run" /\ x[j] > 0
          /\ x' = [x EXCEPT ![j] = @ - 1]
          /\ left' = [left EXCEPT ![j] = @ - 1]
          /\ elapsed' = elapsed + 1
          /\ began' = [began EXCEPT ![j] = IF @ = Never THEN elapsed ELSE @]
          /\ UNCHANGED <<arrive, need, state, prio, pipe, ended>>
      BY <1>4 DEF BurnUnit, input
    <2>2. /\ pipe[j] = << >> /\ left[j] = rem[j] - time + x[j] /\ elapsed + x[j] <= clock + time
      BY <1>1, <2>1 DEF Given
    <2>3. /\ x'[j] = x[j] - 1 /\ left'[j] = left[j] - 1
          /\ began'[j] = IF began[j] = Never THEN elapsed ELSE began[j]
          /\ \A k \in Job : k # j => x'[k] = x[k] /\ left'[k] = left[k] /\ began'[k] = began[k]
      BY <1>2, <2>1
    <2>4. Given(j)'
      <3>1. left'[j] = rem[j] - time + x'[j] /\ elapsed' + x'[j] <= clock + time
        <4>1. elapsed' = elapsed + 1 /\ x'[j] = x[j] - 1 /\ left'[j] = left[j] - 1
          BY <2>1, <2>3
        <4>2. left[j] - 1 = rem[j] - time + (x[j] - 1)
          BY <1>1, <2>2
        <4>3. (elapsed + 1) + (x[j] - 1) <= clock + time
          BY <1>1, <2>2
        <4> QED  BY <4>1, <4>2, <4>3
      <3> QED  BY <1>0, <2>1, <2>2, <3>1 DEF Given
    <2>5. left'[j] < need[j] /\ left'[j] # need[j] /\ left'[j] <= need[j]
      BY <1>1, <2>3 DEF JobServed
    <2>6. began'[j] = start[j] /\ start[j] # Never
      <3>1. CASE left[j] = need[j]
        <4>1. elapsed # Never
          BY <1>1 DEF Never
        <4> QED  BY <1>1, <2>3, <3>1, <4>1 DEF JobServed
      <3>2. CASE left[j] # need[j]
        <4>1. left[j] < need[j]
          BY <1>1, <3>2 DEF JobServed
        <4> QED  BY <1>1, <2>3, <4>1 DEF JobServed
      <3> QED  BY <3>1, <3>2
    <2>7. JobServed(j)'
      BY <1>0, <1>1, <2>1, <2>5, <2>6 DEF JobServed
    <2>8. elapsed' <= clock + time
      BY <1>1, <2>1, <2>2
    <2> QED  BY <1>0, <1>1, <1>a, <2>1, <2>3, <2>4, <2>5, <2>7, <2>8, BusyChildFault
  <1>5. CASE Finish(j)
    <2>1. /\ state[j] = "run" /\ x[j] = 0 /\ left[j] <= 0
          /\ state' = [state EXCEPT ![j] = "zombie"]
          /\ ended' = [ended EXCEPT ![j] = elapsed]
          /\ UNCHANGED <<arrive, need, prio, left, x, pipe, elapsed, began>>
      BY <1>5 DEF Finish, Dies, input
    <2>2. /\ pipe[j] = << >> /\ left[j] = rem[j] - time + x[j] /\ elapsed + x[j] <= clock + time
      BY <1>1, <2>1 DEF Given
    <2>3. left[j] = 0
      BY <1>1, <2>1, <2>2
    <2>4. /\ state'[j] = "zombie" /\ ended'[j] = elapsed
          /\ \A k \in Job : k # j => state'[k] = state[k] /\ ended'[k] = ended[k]
      BY <1>2, <2>1
    <2>5. Given(j)' /\ JobServed(j)'
      BY <1>0, <1>1, <2>1, <2>2, <2>3, <2>4 DEF Given, JobServed
    <2> QED  BY <1>0, <1>1, <1>a, <2>1, <2>2, <2>4, <2>5, BusyChildFault
  <1>6. CASE Yield(j)
    <2>1. /\ state[j] = "run" /\ x[j] = 0 /\ left[j] > 0
          /\ state' = [state EXCEPT ![j] = "scan"]
          /\ UNCHANGED <<arrive, need, left, x, pipe, elapsed, began, ended>>
      BY <1>6 DEF Yield, input, history
    <2>2. /\ pipe[j] = << >> /\ left[j] = rem[j] - time + x[j] /\ elapsed + x[j] <= clock + time
      BY <1>1, <2>1 DEF Given
    <2>4. state'[j] = "scan" /\ \A k \in Job : k # j => state'[k] = state[k]
      BY <1>2, <2>1
    <2>5. Given(j)' /\ JobServed(j)'
      BY <1>0, <1>1, <2>1, <2>2, <2>4 DEF Given, JobServed
    <2> QED  BY <1>0, <1>1, <1>a, <2>1, <2>2, <2>4, <2>5, BusyChildFault
  <1> QED  BY <1>3, <1>4, <1>5, <1>6

(* After main has gone the children that are left die or read end-of-file.  *)
LEMMA OrphanFault ==
  ASSUME FaultInv, NEW j \in Job, pc = "exited", state[j] \in {"forked", "scan"},
         NEW s \in {"scan", "zombie"}, state' = [state EXCEPT ![j] = s],
         UNCHANGED <<arrive, need, prio, left, x, pipe, elapsed, began>>, UNCHANGED mainVars,
         \A k \in Job : k # j => ended'[k] = ended[k],
         DispatchTypeOK', EofInv'
  PROVE  FaultInv'
  <1> USE NIsNat
  <1>0. UNCHANGED <<pc, scheduler, rem, flag, start, end, clock, Index, nextforfork, time, printed>>
    BY DEF mainVars, data
  <1>1. state'[j] = s /\ \A k \in Job : k # j => state'[k] = state[k]
    BY DEF FaultInv, TypeOK, DispatchTypeOK
  <1>2. TypeOK'
    BY <1>0 DEF FaultInv, TypeOK
  <1>3. ListingInv' /\ IndexInv'
    BY <1>0 DEF FaultInv, ListingInv, IndexInv, InLoop
  <1>4. PlanInv' /\ LeadInv' /\ PlacesInv'
    BY <1>0 DEF FaultInv, PlanInv, LeadInv, PlacesInv, Deciding, upcoming, current
  <1>5. \A k \in Job : JobServed(k)'
    <2>1. \A k \in Job : state'[k] \in {"none", "forked"} => state[k] \in {"none", "forked"}
      BY <1>1
    <2> QED  BY <1>0, <2>1 DEF FaultInv, JobServed
  <1>6. EndInv'
    <2>1. printed = << >>
      BY DEF FaultInv, EndInv
    <2>2. pipe[j] = << >>
      BY DEF FaultInv, EndInv, Alive
    <2> QED  BY <1>0, <1>1, <2>1, <2>2 DEF FaultInv, EndInv, Alive
  <1> QED  BY <1>2, <1>3, <1>4, <1>5, <1>6 DEF FaultInv

(* Whatever a child does.                                                   *)
LEMMA ChildStepFault ==
  ASSUME FaultInv, NEW j \in Job, ChildStep(j)
  PROVE  FaultInv'
  <1>0. UNCHANGED mainVars /\ (Exec(j, TRUE) \/ ExecFails(j) \/ ChildProgram(j))
    BY DEF ChildStep
  <1>1. DispatchTypeOK' /\ EofInv'
    <2>1. DispatchTypeOK'
      BY <1>0, ChildType DEF FaultInv, TypeOK
    <2> QED  BY <2>1, EofStep DEF FaultInv
  <1>2. CASE Scanf(j) \/ BurnUnit(j) \/ Finish(j) \/ Yield(j)
    BY <1>0, <1>1, <1>2, BusyStepFault
  <1>3. CASE Exec(j, TRUE)
    <2>1. /\ state[j] = "forked" /\ state' = [state EXCEPT ![j] = "scan"]
          /\ UNCHANGED <<arrive, need, prio, left, x, pipe, elapsed, began>>
          /\ ended' = ended
      BY <1>3 DEF Exec, input, history
    <2> QED  BY <1>0, <1>1, <2>1, StartFault, OrphanFault
  <1>4. CASE ExecFails(j) \/ ScanfEof(j)
    <2>1. /\ state[j] \in {"forked", "scan"} /\ state' = [state EXCEPT ![j] = "zombie"]
          /\ UNCHANGED <<arrive, need, prio, left, x, pipe, elapsed, began>>
          /\ ended' = [ended EXCEPT ![j] = elapsed]
          /\ state[j] = "scan" => writers[j] = {}
      BY <1>4 DEF ExecFails, ScanfEof, Dies, input
    <2>2. \A k \in Job : k # j => ended'[k] = ended[k]
      BY <2>1 DEF FaultInv, TypeOK, DispatchTypeOK
    <2>3. state[j] = "scan" => pc = "exited"
      BY <2>1 DEF FaultInv, EofInv
    <2> QED  BY <1>0, <1>1, <2>1, <2>2, <2>3, StartFault, OrphanFault
  <1> QED  BY <1>0, <1>2, <1>3, <1>4 DEF ChildProgram

(* A stuttering step.                                                       *)
LEMMA StutterFault == FaultInv /\ UNCHANGED vars => FaultInv'
  <1> SUFFICES ASSUME FaultInv, UNCHANGED vars PROVE FaultInv'
    OBVIOUS
  <1>0. /\ UNCHANGED <<arrive, need, state, prio, left, x, pipe, writers, readers, elapsed, began, ended>>
        /\ UNCHANGED <<pc, scheduler, rem, flag, start, end, clock, Index, nextforfork, time, printed>>
    BY DEF vars, dispatchVars, mainVars, data, input, child, fds, history
  <1>1. TypeOK'
    BY <1>0 DEF FaultInv, TypeOK, DispatchTypeOK
  <1>2. ListingInv' /\ IndexInv' /\ PlanInv' /\ LeadInv'
    BY <1>0 DEF FaultInv, ListingInv, IndexInv, InLoop, PlanInv, LeadInv, Deciding, upcoming, current
  <1>3. \A k \in Job : JobServed(k)'
    BY <1>0 DEF FaultInv, JobServed
  <1>4. PlacesInv'
    BY <1>0 DEF FaultInv, PlacesInv, CurrentServed, Deciding, InLoop, current, Gone, Failed, Resting,
                ToCome, Given, Quiet, Alive
  <1>5. EndInv' /\ EofInv'
    BY <1>0 DEF FaultInv, EndInv, EofInv, Alive
  <1> QED  BY <1>1, <1>2, <1>3, <1>4, <1>5 DEF FaultInv
=============================================================================
