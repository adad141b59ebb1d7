--------------------------- MODULE DispatchProofs ---------------------------
(***************************************************************************)
(* What the proofs about the schedulers need to know of module Dispatch:   *)
(* the types its operators keep and what its sort leaves alone.            *)
(***************************************************************************)
EXTENDS Dispatch, TLAPS, FiniteSetTheorems

(* The number of jobs is a natural number.                                 *)
LEMMA NIsNat == N \in Nat
  BY JobAssumption, FS_CardinalityType DEF N

(* A pipe that holds one message.                                          *)
LEMMA OneMessage ==
  ASSUME NEW t \in Nat
  PROVE  /\ Append(<< >>, t) = <<t>>
         /\ <<t>> \in Seq(Nat)
         /\ <<t>> # << >>
         /\ Head(<<t>>) = t
         /\ Tail(<<t>>) = << >>
  OBVIOUS

(* Any input file is well typed.                                           *)
LEMMA DispatchInitType == DispatchInit => DispatchTypeOK
  <1> SUFFICES ASSUME DispatchInit PROVE DispatchTypeOK
    OBVIOUS
  <1> USE DEF DispatchInit
  <1>0. \A S, T : S \subseteq T => [Job -> S] \subseteq [Job -> T]
    OBVIOUS
  <1>1. arrive \in [Job -> Nat] /\ need \in [Job -> Nat] /\ left \in [Job -> Int]
    <2>1. [Job -> ReadyTimes] \subseteq [Job -> Nat] /\ [Job -> ExecTimes] \subseteq [Job -> Nat]
      BY <1>0, TimeAssumption
    <2>2. [Job -> Nat] \subseteq [Job -> Int]
      BY <1>0
    <2> QED  BY <2>1, <2>2
  <1>2. pipe \in [Job -> Seq(Nat)] /\ x \in [Job -> Nat]
    OBVIOUS
  <1>3. state \in [Job -> ChildState] /\ prio \in [Job -> {YieldPrio, MainPrio, RunPrio}]
    BY DEF ChildState
  <1>4. writers \in [Job -> SUBSET Proc] /\ readers \in [Job -> SUBSET Proc]
    OBVIOUS
  <1>5. began \in [Job -> Nat \cup {Never}] /\ ended \in [Job -> Nat \cup {Never}]
    OBVIOUS
  <1> QED  BY <1>1, <1>2, <1>3, <1>4, <1>5 DEF DispatchTypeOK

(* A process that closes its descriptors.                                   *)
LEMMA DropFdsType ==
  ASSUME DispatchTypeOK, NEW p, DropFds(p)
  PROVE  writers' \in [Job -> SUBSET Proc] /\ readers' \in [Job -> SUBSET Proc]
  BY DEF DispatchTypeOK, DropFds

(* qsort() of the slots lo .. hi - 1 rearranges these and no others, in     *)
(* increasing order of the key.                                             *)
LEMMA QSortFacts ==
  ASSUME NEW a \in Listings, NEW lo \in Nat, NEW hi \in 0 .. N, NEW key,
         NEW b \in QSort(a, lo, hi, key)
  PROVE  /\ b \in Listings
         /\ \A i \in Slot : i < lo \/ hi <= i => b[i] = a[i]
         /\ \A i \in Slot : lo <= i /\ i < hi =>
              \E k \in Slot : lo <= k /\ k < hi /\ b[i] = a[k]
         /\ \A i, k \in Slot : lo <= i /\ i <= k /\ k < hi => key[b[i]] <= key[b[k]]
  <1> USE NIsNat
  <1>1. /\ b \in [Slot -> Job]
        /\ \A i \in Slot \ (lo .. hi - 1) : b[i] = a[i]
        /\ \A i \in lo .. hi - 1 : \E k \in lo .. hi - 1 : b[i] = a[k]
        /\ \A k \in lo .. hi - 1 : \E i \in lo .. hi - 1 : b[i] = a[k]
        /\ \A i, k \in Slot : b[i] = b[k] => i = k
        /\ \A i, k \in lo .. hi - 1 : i <= k => key[b[i]] <= key[b[k]]
    BY DEF QSort
  <1>2. lo .. hi - 1 \subseteq Slot
    BY DEF Slot
  <1>3. \A k \in Slot : \E i \in Slot : b[i] = a[k]
    BY <1>1, <1>2
  <1>4. \A j \in Job : \E i \in Slot : b[i] = j
    BY <1>3 DEF Listings
  <1>5. b \in Listings
    BY <1>1, <1>4 DEF Listings
  <1>6. \A i \in Slot : i < lo \/ hi <= i => b[i] = a[i]
    BY <1>1 DEF Slot
  <1>7. \A i \in Slot : lo <= i /\ i < hi <=> i \in lo .. hi - 1
    BY DEF Slot
  <1>8. \A i \in Slot : lo <= i /\ i < hi => \E k \in Slot : lo <= k /\ k < hi /\ b[i] = a[k]
    BY <1>1, <1>2, <1>7
  <1>9. \A i, k \in Slot : lo <= i /\ i <= k /\ k < hi => key[b[i]] <= key[b[k]]
    <2> SUFFICES ASSUME NEW i \in Slot, NEW k \in Slot, lo <= i, i <= k, k < hi
                 PROVE  key[b[i]] <= key[b[k]]
      OBVIOUS
    <2>1. i \in lo .. hi - 1 /\ k \in lo .. hi - 1
      BY DEF Slot
    <2> QED  BY <1>1, <2>1
  <1> QED  BY <1>5, <1>6, <1>8, <1>9

(* fork() gives the child descriptors of main and no others.                *)
LEMMA SpawnFacts ==
  ASSUME DispatchTypeOK, NEW u \in Job, NEW time \in Int, NEW closing \in BOOLEAN,
         Spawn(u, time, closing), UNCHANGED <<input, elapsed, history>>
  PROVE  /\ DispatchTypeOK'
         /\ state'[u] = "forked" /\ left'[u] = time
         /\ \A k \in Job : k # u => state'[k] = state[k] /\ left'[k] = left[k]
         /\ \A k \in Job : writers'[k] = IF Main \in writers[k] THEN writers[k] \cup {u}
                                                                ELSE writers[k]
         /\ \A k \in Job : k # u => readers'[k] = IF Main \in readers[k] THEN readers[k] \cup {u}
                                                                         ELSE readers[k]
         /\ Main \in readers[u] => u \in readers'[u]
  <1>1. /\ state' = [state EXCEPT ![u] = "forked"]
        /\ prio' = [prio EXCEPT ![u] = MainPrio]
        /\ left' = [left EXCEPT ![u] = time]
        /\ x' = x /\ pipe' = pipe
    BY DEF Spawn
  <1>2. ASSUME NEW k \in Job
        PROVE  writers'[k] = IF Main \in writers[k] THEN writers[k] \cup {u} ELSE writers[k]
    BY DEF Spawn
  <1>3. ASSUME NEW k \in Job
        PROVE  readers'[k] = IF k = u /\ closing
                             THEN (IF Main \in readers[k] THEN readers[k] \cup {u}
                                                          ELSE readers[k]) \ {Main}
                             ELSE IF Main \in readers[k] THEN readers[k] \cup {u} ELSE readers[k]
    BY DEF Spawn
  <1>4. writers' \in [Job -> SUBSET Proc] /\ readers' \in [Job -> SUBSET Proc]
    <2>1. writers' = [k \in Job |-> writers'[k]] /\ readers' = [k \in Job |-> readers'[k]]
      BY DEF Spawn
    <2>2. \A k \in Job : writers[k] \subseteq Proc /\ readers[k] \subseteq Proc
      BY DEF DispatchTypeOK
    <2>3. \A k \in Job : writers'[k] \in SUBSET Proc /\ readers'[k] \in SUBSET Proc
      <3> SUFFICES ASSUME NEW k \in Job
                   PROVE  writers'[k] \subseteq Proc /\ readers'[k] \subseteq Proc
        OBVIOUS
      <3>1. u \in Proc
        BY DEF Proc
      <3>2. writers'[k] \subseteq writers[k] \cup {u} /\ readers'[k] \subseteq readers[k] \cup {u}
        BY <1>2, <1>3
      <3> QED  BY <2>2, <3>1, <3>2
    <2> QED  BY <2>1, <2>3
  <1>5. /\ state' \in [Job -> ChildState] /\ state'[u] = "forked"
        /\ \A k \in Job : k # u => state'[k] = state[k]
    BY <1>1 DEF DispatchTypeOK, ChildState
  <1>6. /\ prio' \in [Job -> {YieldPrio, MainPrio, RunPrio}] /\ left' \in [Job -> Int]
        /\ left'[u] = time /\ \A k \in Job : k # u => left'[k] = left[k]
    BY <1>1 DEF DispatchTypeOK
  <1>7. DispatchTypeOK'
    BY <1>1, <1>4, <1>5, <1>6 DEF DispatchTypeOK, input, history
  <1>8. Main \in readers[u] => u \in readers'[u]
    BY <1>3, JobAssumption
  <1> QED  BY <1>2, <1>3, <1>5, <1>6, <1>7, <1>8

(* No step of a child breaks the types.                                     *)
LEMMA ChildType ==
  ASSUME DispatchTypeOK, NEW j \in Job, NEW cloexec \in BOOLEAN,
         Exec(j, cloexec) \/ ExecFails(j) \/ ChildProgram(j)
  PROVE  DispatchTypeOK'
  <1>1. CASE Exec(j, cloexec)
    <2>1. state' \in [Job -> ChildState]
      BY <1>1 DEF Exec, DispatchTypeOK, ChildState
    <2>2. writers' \in [Job -> SUBSET Proc] /\ readers' \in [Job -> SUBSET Proc]
      <3>1. CASE cloexec
        <4>1. /\ writers' = [k \in Job |-> writers[k] \ {j}]
              /\ readers' = [k \in Job |-> IF k = j THEN readers[k] ELSE readers[k] \ {j}]
          BY <1>1, <3>1 DEF Exec
        <4>2. \A k \in Job : /\ writers[k] \ {j} \in SUBSET Proc
                             /\ readers[k] \in SUBSET Proc
                             /\ readers[k] \ {j} \in SUBSET Proc
          BY DEF DispatchTypeOK
        <4> QED  BY <4>1, <4>2
      <3>2. CASE ~cloexec
        BY <1>1, <3>2 DEF Exec, DispatchTypeOK, fds
      <3> QED  BY <3>1, <3>2
    <2> QED  BY <1>1, <2>1, <2>2 DEF Exec, DispatchTypeOK, input, history
  <1>2. CASE ExecFails(j) \/ ScanfEof(j) \/ Finish(j)
    <2>1. /\ Dies(j) /\ UNCHANGED <<input, prio, left, x, pipe, elapsed, began>>
      BY <1>2 DEF ExecFails, ScanfEof, Finish
    <2>2. state' \in [Job -> ChildState] /\ ended' \in [Job -> Nat \cup {Never}]
      BY <2>1 DEF Dies, DispatchTypeOK, ChildState
    <2>3. writers' \in [Job -> SUBSET Proc] /\ readers' \in [Job -> SUBSET Proc]
      BY <2>1, DropFdsType DEF Dies
    <2> QED  BY <2>1, <2>2, <2>3 DEF DispatchTypeOK, input
  <1>3. CASE Scanf(j)
    <2>1. state' \in [Job -> ChildState]
      BY <1>3 DEF Scanf, DispatchTypeOK, ChildState
    <2>2. Head(pipe[j]) \in Nat /\ Tail(pipe[j]) \in Seq(Nat)
      <3>1. pipe[j] \in Seq(Nat) /\ pipe[j] # << >>
        BY <1>3 DEF Scanf, DispatchTypeOK
      <3> QED  BY <3>1
    <2>3. x' \in [Job -> Nat] /\ pipe' \in [Job -> Seq(Nat)]
      BY <1>3, <2>2 DEF Scanf, DispatchTypeOK
    <2> QED  BY <1>3, <2>1, <2>3 DEF Scanf, DispatchTypeOK, input, history, fds
  <1>4. CASE BurnUnit(j)
    <2>1. x' \in [Job -> Nat]
      <3>1. x \in [Job -> Nat] /\ x[j] - 1 \in Nat
        BY <1>4 DEF BurnUnit, DispatchTypeOK
      <3> QED  BY <1>4, <3>1 DEF BurnUnit
    <2>2. left' \in [Job -> Int]
      <3>1. left \in [Job -> Int] /\ left[j] - 1 \in Int
        BY DEF DispatchTypeOK
      <3> QED  BY <1>4, <3>1 DEF BurnUnit
    <2>3. elapsed' \in Nat /\ began' \in [Job -> Nat \cup {Never}]
      BY <1>4 DEF BurnUnit, DispatchTypeOK
    <2> QED  BY <1>4, <2>1, <2>2, <2>3 DEF BurnUnit, DispatchTypeOK, input, fds
  <1>5. CASE Yield(j)
    <2>1. /\ state' \in [Job -> ChildState]
          /\ prio' \in [Job -> {YieldPrio, MainPrio, RunPrio}]
      BY <1>5 DEF Yield, DispatchTypeOK, ChildState
    <2> QED  BY <1>5, <2>1 DEF Yield, DispatchTypeOK, input, history, fds
  <1> QED  BY <1>1, <1>2, <1>3, <1>4, <1>5 DEF ChildProgram
=============================================================================
