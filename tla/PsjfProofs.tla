----------------------------- MODULE PsjfProofs -----------------------------
(***************************************************************************)
(* The theorems about psjf.c: its inductive invariant, the safety          *)
(* properties that follow from it, and that unit by unit it behaves as the *)
(* ideal preemptive CPU of module IdealCpu.                                *)
(***************************************************************************)
EXTENDS PsjfInv, DispatchProofs

-----------------------------------------------------------------------------
(* Facts that many steps need.                                             *)

(* The numbers main works with, and the slots they point to.               *)
LEMMA MainFacts ==
  ASSUME IInv
  PROVE  /\ QHead \in 0 .. N /\ ElementCount \in 0 .. N /\ UnReadyCount \in 0 .. N
         /\ Coming \in 0 .. N /\ QHead <= Coming /\ Coming + UnReadyCount = N
         /\ (UnReadyCount > 0 <=> Coming < N) /\ (ElementCount > 0 <=> QHead < Coming)
         /\ TimeCounter \in Nat /\ ThisExecTime \in Nat /\ elapsed \in Nat
         /\ \A i \in Slot : Data[i] \in Job
         /\ UnReadyCount > 0 => /\ Coming \in Slot /\ NextDataIn \in Job
                                /\ NextDataIn = Data[Coming]
                                /\ arrive[NextDataIn] \in Nat
  <1> USE NIsNat
  <1>1. /\ QHead \in 0 .. N /\ ElementCount \in 0 .. N /\ UnReadyCount \in 0 .. N
        /\ TimeCounter \in Nat /\ ThisExecTime \in Nat /\ elapsed \in Nat
        /\ Data \in [Slot -> Job] /\ arrive \in [Job -> Nat] /\ Coming + UnReadyCount = N
    BY DEF IInv, TypeOK, DispatchTypeOK, IndexInv
  <1>2. Coming \in 0 .. N /\ (UnReadyCount > 0 <=> Coming < N)
    BY <1>1 DEF Coming
  <1>3. UnReadyCount > 0 => Coming \in Slot
    BY <1>2 DEF Slot
  <1>4. QHead <= Coming /\ (ElementCount > 0 <=> QHead < Coming)
    BY <1>1 DEF Coming
  <1>5. NextDataIn = Data[Coming]
    BY DEF NextDataIn, Coming
  <1> QED  BY <1>1, <1>2, <1>3, <1>4, <1>5

(* Where each job is, and that it is there only.                           *)
LEMMA SlotFacts ==
  ASSUME IInv, pc # "exited"
  PROVE  /\ \A i, k \in Slot : Data[i] = Data[k] => i = k
         /\ \A j \in Job : \E i \in Slot : Data[i] = j
         /\ \A i \in Slot : i < QHead => Finished(Data[i])
         /\ \A i \in Slot : QHead <= i /\ i < Coming /\ (InFlight => i # QHead)
                              => Resting(Data[i])
         /\ \A i \in Slot : Coming <= i => ToCome(Data[i])
  BY DEF IInv, ListingInv, Listings, SlotsInv

(* The job main is busy with.                                              *)
LEMMA RunningIsHead ==
  ASSUME IInv, pc \in {"write", "raise", "charge", "wait"}
  PROVE  /\ Running = Data[QHead] /\ Running \in Job
         /\ QHead \in Slot /\ QHead < Coming
         /\ \A i \in Slot : i # QHead => Data[i] # Running
         /\ ExecTime[Running] \in Nat /\ left[Running] \in Int /\ x[Running] \in Nat
  <1> USE NIsNat
  <1>1. ElementCount > 0 /\ Running = Data[QHead]
    BY DEF IInv, IndexInv, RunningInv
  <1>2. QHead \in Slot /\ QHead < Coming
    BY <1>1, MainFacts DEF Slot
  <1>3. Running \in Job
    BY <1>1, <1>2, MainFacts
  <1> QED  BY <1>1, <1>2, <1>3, SlotFacts DEF IInv, TypeOK, DispatchTypeOK

(* Only the job main is busy with can have a slice in flight or be waiting  *)
(* to be buried while main is alive.                                        *)
LEMMA OnlyRunningBusy ==
  ASSUME IInv, pc # "exited", NEW j \in Job,
         pipe[j] # << >> \/ x[j] # 0 \/ state[j] \in {"run", "zombie"}
  PROVE  j = Running /\ InFlight
  <1> USE NIsNat
  <1>1. PICK i \in Slot : Data[i] = j
    BY SlotFacts
  <1>2. ~Finished(j) /\ ~Resting(j) /\ ~ToCome(j)
    BY DEF Finished, Resting, ToCome, Quiet
  <1>3. i = QHead /\ InFlight
    BY <1>1, <1>2, SlotFacts, MainFacts DEF Slot
  <1> QED  BY <1>1, <1>3, RunningIsHead DEF InFlight

(* While main decides what to do next nobody else has anything to do.       *)
LEMMA AllQuiet ==
  ASSUME IInv, pc # "exited", ~InFlight
  PROVE  \A j \in Job : Quiet(j) /\ state[j] \notin {"run", "zombie"}
  BY OnlyRunningBusy DEF Quiet

(* A child in its busy loop has taken the slice main has handed out.        *)
LEMMA TakenFacts ==
  ASSUME IInv, NEW j \in Job, state[j] = "run"
  PROVE  /\ j = Running /\ pc \in {"raise", "charge"} /\ Taken(j)
         /\ ThisExecTime <= ExecTime[j] /\ (pc = "charge" => prio[j] = RunPrio)
         /\ left[j] \in Int /\ x[j] \in Nat /\ ExecTime[j] \in Nat
  <1>1. pc # "exited"
    BY DEF IInv, ExitInv
  <1>2. j = Running /\ InFlight
    BY <1>1, OnlyRunningBusy
  <1>3. pc # "wait" /\ (Handed(j) \/ Taken(j))
    BY <1>2 DEF IInv, RunningInv, InFlight
  <1> QED  BY <1>2, <1>3 DEF IInv, RunningInv, InFlight, Handed, TypeOK, DispatchTypeOK

(* A step that only concerns the running job leaves the others as they were *)
LEMMA OtherSlots ==
  ASSUME IInv, pc \in {"write", "raise", "charge", "wait"},
         UNCHANGED <<Data, need>>,
         \A j \in Job : j # Running =>
            /\ state'[j] = state[j] /\ pipe'[j] = pipe[j] /\ x'[j] = x[j]
            /\ left'[j] = left[j] /\ ExecTime'[j] = ExecTime[j]
  PROVE  /\ \A i \in Slot : i < QHead => Finished(Data[i])'
         /\ \A i \in Slot : QHead < i /\ i < Coming => Resting(Data[i])'
         /\ \A i \in Slot : Coming <= i => ToCome(Data[i])'
  <1> USE NIsNat
  <1>1. ASSUME NEW i \in Slot, i # QHead
        PROVE  LET j == Data[i]
               IN  /\ state'[j] = state[j] /\ pipe'[j] = pipe[j] /\ x'[j] = x[j]
                   /\ left'[j] = left[j] /\ ExecTime'[j] = ExecTime[j]
    BY <1>1, RunningIsHead, MainFacts
  <1>2. QHead \in Int /\ Coming \in Int /\ QHead < Coming /\ Slot \subseteq Int
    BY RunningIsHead, MainFacts DEF Slot
  <1>3. \A i \in Slot : i < QHead => Finished(Data[i])'
    BY <1>1, <1>2, SlotFacts DEF Finished, Quiet
  <1>4. \A i \in Slot : QHead < i /\ i < Coming => Resting(Data[i])'
    BY <1>1, <1>2, SlotFacts DEF Resting, Quiet
  <1>5. \A i \in Slot : Coming <= i => ToCome(Data[i])'
    BY <1>1, <1>2, SlotFacts DEF ToCome, Quiet
  <1> QED  BY <1>3, <1>4, <1>5

(* The clauses of the invariant on the splitting of the array give the      *)
(* property the run checks.                                                 *)
LEMMA SplitIsLive ==
  ASSUME IInv, pc # "exited"
  PROVE  QueueIsLive
  <1> USE NIsNat
  <1>1. QHead = FinishedCount /\ QHead + ElementCount + UnReadyCount = N
    BY DEF IInv, IndexInv, Coming
  <1> SUFFICES ASSUME NEW i \in Slot
               PROVE  /\ i < QHead => state[Data[i]] = "reaped"
                      /\ i >= QHead + ElementCount => state[Data[i]] = "none"
                      /\ i \in QHead .. QHead + ElementCount - 1
                           => state[Data[i]] \notin {"none", "reaped"}
    BY <1>1 DEF QueueIsLive
  <1>2. i \in Int /\ QHead \in Int /\ ElementCount \in Int
    BY MainFacts DEF Slot
  <1>3. i < QHead => state[Data[i]] = "reaped"
    BY SlotFacts DEF Finished
  <1>4. i >= QHead + ElementCount => state[Data[i]] = "none"
    BY <1>2, SlotFacts DEF Coming, ToCome
  <1>5. ASSUME QHead <= i, i < QHead + ElementCount
        PROVE  state[Data[i]] \notin {"none", "reaped"}
    <2>1. CASE InFlight /\ i = QHead
      <3>1. state[Running] \notin {"none", "reaped"} /\ Running = Data[QHead]
        BY <2>1 DEF IInv, RunningInv, InFlight, Handed, Taken
      <3> QED  BY <2>1, <3>1
    <2>2. CASE ~(InFlight /\ i = QHead)
      BY <1>5, <2>2, SlotFacts DEF Coming, Resting
    <2> QED  BY <2>1, <2>2
  <1> QED  BY <1>2, <1>3, <1>4, <1>5

-----------------------------------------------------------------------------
(* The initial states, and main alone.                                     *)

(* The initial states satisfy the invariant.                               *)
LEMMA InitInv == Init => IInv
  <1> SUFFICES ASSUME Init PROVE IInv
    OBVIOUS
  <1> USE NIsNat
  <1>0. /\ pc = "read" /\ Data \in Listings /\ QHead = 0 /\ ElementCount = 0
        /\ UnReadyCount = N /\ FinishedCount = 0 /\ TimeCounter = 0 /\ elapsed = 0
        /\ ThisExecTime = 0 /\ ExecTime = need /\ left = need /\ Recorded = {}
        /\ printed = << >>
        /\ \A j \in Job : state[j] = "none" /\ pipe[j] = << >> /\ x[j] = 0 /\ began[j] = Never
    BY DEF Init, DispatchInit
  <1>1. TypeOK
    <2>1. DispatchTypeOK
      BY DispatchInitType DEF Init
    <2>2. ExecTime \in [Job -> Nat]
      BY <1>0, <2>1 DEF DispatchTypeOK
    <2>3. Data \in [Slot -> Job]
      BY <1>0 DEF Listings
    <2>4. Time \in [Job -> [0 .. 1 -> Nat \cup {Never}]]
      BY DEF Init
    <2>5. Running \in Job \cup {Main} /\ toTheEnd \in BOOLEAN
      BY DEF Init
    <2> QED  BY <1>0, <2>1, <2>2, <2>3, <2>4, <2>5 DEF TypeOK, MainState
  <1>2. ListingInv /\ IndexInv
    BY <1>0 DEF ListingInv, IndexInv, Coming
  <1>3. SlotsInv
    <2>1. \A j \in Job : ToCome(j)
      BY <1>0 DEF ToCome, Quiet
    <2>2. Data \in [Slot -> Job]
      BY <1>0 DEF Listings
    <2> QED  BY <1>0, <2>1, <2>2 DEF SlotsInv, Slot, Coming
  <1>4. RunningInv /\ FdInv /\ ExitInv /\ ClockInv
    BY <1>0 DEF RunningInv, FdInv, ExitInv, ClockInv
  <1>5. StampInv
    BY <1>0 DEF StampInv, InFlight
  <1> QED  BY <1>1, <1>2, <1>3, <1>4, <1>5 DEF IInv

(* A stuttering step.                                                       *)
LEMMA StutterInv == IInv /\ UNCHANGED vars => IInv'
  <1> SUFFICES ASSUME IInv, UNCHANGED vars PROVE IInv'
    OBVIOUS
  <1>0. /\ UNCHANGED <<arrive, need, state, prio, left, x, pipe, writers, readers, elapsed, began, ended>>
        /\ UNCHANGED <<pc, Data, QHead, ElementCount, UnReadyCount, FinishedCount, TimeCounter>>
        /\ UNCHANGED <<ExecTime, Recorded, Time, printed, Running, ThisExecTime, toTheEnd>>
    BY DEF vars, dispatchVars, mainVars, input, child, fds, history, queue, record, slice
  <1>1. TypeOK'
    BY <1>0 DEF IInv, TypeOK, DispatchTypeOK
  <1>2. ListingInv' /\ IndexInv' /\ ClockInv' /\ FdInv'
    BY <1>0 DEF IInv, ListingInv, IndexInv, ClockInv, FdInv, Coming, NextDataIn
  <1>3. SlotsInv' /\ RunningInv'
    BY <1>0 DEF IInv, SlotsInv, RunningInv, Finished, Resting, ToCome, Handed, Taken, Quiet,
                InFlight, Coming
  <1>4. StampInv'
    BY <1>0 DEF IInv, StampInv, InFlight
  <1>5. ExitInv'
    BY <1>0 DEF IInv, ExitInv, QueueIsLive
  <1> QED  BY <1>1, <1>2, <1>3, <1>4, <1>5 DEF IInv

(* The input is read and the array sorted by ready time.                    *)
LEMMA ReadInputInv == IInv /\ ReadInput => IInv'
  <1> SUFFICES ASSUME IInv, ReadInput PROVE IInv'
    OBVIOUS
  <1> USE NIsNat
  <1>0. /\ pc = "read" /\ pc' = "loop" /\ Data \in Listings
        /\ QHead = 0 /\ ElementCount = 0 /\ Coming = 0 /\ UnReadyCount = N
        /\ TimeCounter = 0 /\ elapsed = 0
        /\ UNCHANGED <<arrive, need, state, prio, left, x, pipe, elapsed, began, ended>>
        /\ UNCHANGED <<QHead, ElementCount, UnReadyCount, FinishedCount, TimeCounter>>
        /\ UNCHANGED <<ExecTime, Recorded, Time, printed, Running, ThisExecTime, toTheEnd>>
    <2>1. pc = "read" /\ Coming = 0 /\ Data \in Listings /\ TimeCounter = 0 /\ TimeCounter = elapsed
      BY DEF ReadInput, At, IInv, IndexInv, ListingInv, ClockInv
    <2>2. QHead = 0 /\ ElementCount = 0 /\ UnReadyCount = N
      BY <2>1, MainFacts DEF Coming
    <2> QED  BY <2>1, <2>2 DEF ReadInput, input, child, history, record, slice
  <1>1. /\ Data' \in Listings
        /\ \A i, k \in Slot : i <= k => arrive[Data'[i]] <= arrive[Data'[k]]
    <2>1. Data' \in QSort(Data, 0, N, arrive) /\ N \in 0 .. N /\ 0 \in Nat
      BY DEF ReadInput
    <2>2. /\ Data' \in Listings
          /\ \A i, k \in Slot : 0 <= i /\ i <= k /\ k < N => arrive[Data'[i]] <= arrive[Data'[k]]
      BY <1>0, <2>1, QSortFacts
    <2> QED  BY <2>2 DEF Slot
  <1>2. Data' \in [Slot -> Job]
    BY <1>1 DEF Listings
  <1>3. TypeOK'
    <2>1. writers' \in [Job -> SUBSET Proc] /\ readers' \in [Job -> SUBSET Proc]
      BY DEF ReadInput, OpenPipes, IInv, TypeOK, DispatchTypeOK, Proc
    <2>2. DispatchTypeOK'
      BY <1>0, <2>1 DEF IInv, TypeOK, DispatchTypeOK
    <2> QED  BY <1>0, <1>2, <2>2 DEF IInv, TypeOK, MainState
  <1>4. ListingInv' /\ IndexInv'
    BY <1>0, <1>1 DEF IInv, ListingInv, IndexInv, Coming
  <1>5. SlotsInv'
    <2>1. \A j \in Job : ToCome(j)
      <3> SUFFICES ASSUME NEW j \in Job PROVE ToCome(j)
        OBVIOUS
      <3>1. PICK i \in Slot : Data[i] = j
        BY <1>0, SlotFacts
      <3> QED  BY <1>0, <3>1, SlotFacts DEF Slot
    <2>2. \A j \in Job : ToCome(j)'
      BY <1>0, <2>1 DEF ToCome, Quiet
    <2> QED  BY <1>0, <1>2, <2>2 DEF SlotsInv, Slot, Coming
  <1>6. ClockInv'
    <2>1. N > 0 => Data'[0] \in Job
      BY <1>2 DEF Slot
    <2>2. N > 0 => arrive[Data'[0]] \in Nat
      BY <2>1 DEF IInv, TypeOK, DispatchTypeOK
    <2>3. NextDataIn' = Data'[0]
      BY <1>0 DEF NextDataIn
    <2> QED  BY <1>0, <2>2, <2>3 DEF ClockInv
  <1>7. FdInv'
    BY DEF FdInv, ReadInput, OpenPipes
  <1>8. StampInv' /\ RunningInv' /\ ExitInv'
    BY <1>0 DEF IInv, StampInv, RunningInv, ExitInv, InFlight
  <1> QED  BY <1>3, <1>4, <1>5, <1>6, <1>7, <1>8 DEF IInv

(* No job is due.                                                           *)
LEMMA NotDueInv == IInv /\ NotDue => IInv'
  <1> SUFFICES ASSUME IInv, NotDue PROVE IInv'
    OBVIOUS
  <1> USE NIsNat
  <1>0. /\ pc = "loop" /\ FinishedCount < N /\ ~Due /\ ThisExecTime' = 0
        /\ pc' = IF UnReadyCount > 0 /\ ElementCount = 0 THEN "idle" ELSE "select"
        /\ UNCHANGED <<arrive, need, state, prio, left, x, pipe, writers, readers, elapsed, began, ended>>
        /\ UNCHANGED <<Data, QHead, ElementCount, UnReadyCount, FinishedCount, TimeCounter>>
        /\ UNCHANGED <<ExecTime, Recorded, Time, printed, Running, toTheEnd>>
    BY DEF NotDue, At, dispatchVars, input, child, fds, history, queue, record
  <1>1. TypeOK'
    BY <1>0 DEF IInv, TypeOK, DispatchTypeOK, MainState
  <1>2. ListingInv'
    BY <1>0 DEF IInv, ListingInv, Coming
  <1>3. IndexInv'
    <2>1. UnReadyCount = 0 => ElementCount > 0
      BY <1>0, MainFacts DEF IInv, IndexInv
    <2> QED  BY <1>0, <2>1, MainFacts DEF IInv, IndexInv, Coming
  <1>4. SlotsInv'
    BY <1>0 DEF IInv, SlotsInv, InFlight, Finished, Resting, ToCome, Quiet, Coming
  <1>5. ClockInv'
    BY <1>0, MainFacts DEF IInv, ClockInv, NextDataIn
  <1>6. StampInv' /\ RunningInv' /\ ExitInv' /\ FdInv'
    BY <1>0 DEF IInv, StampInv, RunningInv, ExitInv, FdInv, InFlight
  <1> QED  BY <1>1, <1>2, <1>3, <1>4, <1>5, <1>6 DEF IInv

(* WaitForNextProcess().                                                    *)
LEMMA IdleInv == IInv /\ Idle => IInv'
  <1> SUFFICES ASSUME IInv, Idle PROVE IInv'
    OBVIOUS
  <1> USE NIsNat
  <1>0. /\ pc = "idle" /\ UnReadyCount > 0 /\ ElementCount = 0
        /\ TimeCounter + ThisExecTime = elapsed
        /\ TimeCounter + ThisExecTime <= arrive[NextDataIn]
        /\ TimeCounter \in Nat /\ ThisExecTime \in Nat /\ elapsed \in Nat
        /\ arrive[NextDataIn] \in Nat
        /\ UNCHANGED <<arrive, need, state, prio, left, x, pipe, writers, readers, began, ended>>
        /\ UNCHANGED <<Data, QHead, ElementCount, UnReadyCount, FinishedCount>>
        /\ UNCHANGED <<ExecTime, Recorded, Time, printed, Running, toTheEnd>>
    BY MainFacts DEF Idle, At, IInv, IndexInv, ClockInv, input, child, fds, history, queue, record
  <1>1. \/ /\ ThisExecTime < arrive[NextDataIn] - TimeCounter
           /\ ThisExecTime' = ThisExecTime + 1 /\ elapsed' = elapsed + 1
           /\ pc' = pc /\ TimeCounter' = TimeCounter
        \/ /\ TimeCounter' = TimeCounter + ThisExecTime /\ pc' = "loop"
           /\ ThisExecTime' = ThisExecTime /\ elapsed' = elapsed
    BY DEF Idle
  <1>2. /\ TimeCounter' \in Nat /\ ThisExecTime' \in Nat /\ elapsed' \in Nat
        /\ elapsed <= elapsed' /\ pc' \in {"idle", "loop"}
    BY <1>0, <1>1
  <1>3. TypeOK'
    BY <1>0, <1>2 DEF IInv, TypeOK, DispatchTypeOK, MainState
  <1>4. ListingInv' /\ IndexInv'
    BY <1>0, <1>2 DEF IInv, ListingInv, IndexInv, Coming
  <1>5. SlotsInv'
    BY <1>0, <1>2 DEF IInv, SlotsInv, InFlight, Finished, Resting, ToCome, Quiet, Coming
  <1>6. ClockInv'
    <2>1. NextDataIn' = NextDataIn
      BY <1>0 DEF NextDataIn
    <2> QED  BY <1>0, <1>1, <2>1 DEF ClockInv
  <1>7. StampInv'
    <2> SUFFICES ASSUME NEW j \in Job
                 PROVE  /\ state[j] # "none" => arrive[j] <= elapsed'
                        /\ j \in Recorded => Time[j][0] <= elapsed'
      BY <1>0, <1>2 DEF IInv, StampInv, InFlight
    <2>1. /\ state[j] # "none" => arrive[j] <= elapsed
          /\ j \in Recorded => Time[j][0] <= elapsed
          /\ arrive[j] \in Int /\ Time[j][0] \in Int
      BY DEF IInv, StampInv, TypeOK, DispatchTypeOK, Never
    <2> QED  BY <1>0, <1>2, <2>1
  <1>8. RunningInv' /\ ExitInv' /\ FdInv'
    BY <1>0, <1>2 DEF IInv, RunningInv, ExitInv, FdInv
  <1> QED  BY <1>3, <1>4, <1>5, <1>6, <1>7, <1>8 DEF IInv

(* fork() of the job that is due.                                           *)
LEMMA ForkInv == IInv /\ Fork => IInv'
  <1> SUFFICES ASSUME IInv, Fork PROVE IInv'
    OBVIOUS
  <1> USE NIsNat
  <1>u. PICK u \in Job : u = NextDataIn
    BY MainFacts DEF Fork, Due
  <1>0. /\ pc = "loop" /\ pc' = "select" /\ UnReadyCount > 0 /\ arrive[u] = TimeCounter
        /\ TimeCounter = elapsed /\ Spawn(u, ExecTime[u], FALSE)
        /\ UnReadyCount' = UnReadyCount - 1 /\ ElementCount' = ElementCount + 1
        /\ UNCHANGED <<input, elapsed, history>>
        /\ UNCHANGED <<arrive, need, elapsed, began, ended, Data, QHead, FinishedCount, TimeCounter>>
        /\ UNCHANGED <<ExecTime, Recorded, Time, printed, Running, ThisExecTime, toTheEnd>>
    BY <1>u DEF Fork, At, Due, IInv, ClockInv, input, history, record, slice
  <1>1. /\ QHead \in 0 .. N /\ ElementCount \in 0 .. N /\ UnReadyCount \in 0 .. N
        /\ Coming \in Slot /\ QHead <= Coming /\ Coming + UnReadyCount = N
        /\ u \in Job /\ u = Data[Coming] /\ elapsed \in Nat
    BY <1>0, <1>u, MainFacts
  <1>2. Coming' = Coming + 1
    BY <1>0, <1>1 DEF Coming
  <1>3. ToCome(u)
    BY <1>0, <1>1, SlotFacts DEF Slot
  <1>4. DispatchTypeOK /\ ExecTime[u] \in Int /\ FALSE \in BOOLEAN
    BY <1>1 DEF IInv, TypeOK
  <1>5. /\ DispatchTypeOK'
        /\ state'[u] = "forked" /\ left'[u] = ExecTime[u]
        /\ \A k \in Job : k # u => state'[k] = state[k] /\ left'[k] = left[k]
        /\ \A k \in Job : writers'[k] = IF Main \in writers[k] THEN writers[k] \cup {u}
                                                               ELSE writers[k]
    BY <1>0, <1>1, <1>4, SpawnFacts
  <1>6. x' = x /\ pipe' = pipe
    BY <1>0 DEF Spawn
  <1>7. TypeOK'
    <2>1. UnReadyCount' \in 0 .. N
      BY <1>0, <1>1
    <2>2. ElementCount' \in 0 .. N
      BY <1>0, <1>1 DEF Slot, Coming
    <2> QED  BY <1>0, <1>5, <2>1, <2>2 DEF IInv, TypeOK, MainState
  <1>8. ListingInv'
    <2>1. \A i \in Slot : Coming + 1 <= i => Coming <= i
      BY <1>1 DEF Slot
    <2> QED  BY <1>0, <1>2, <2>1 DEF IInv, ListingInv
  <1>9. IndexInv'
    BY <1>0, <1>1, <1>2 DEF IInv, IndexInv, Slot
  <1>10. SlotsInv'
    <2>1. \A i \in Slot : Data[i] = u => i = Coming
      BY <1>0, <1>1, SlotFacts
    <2>2. Resting(u)'
      BY <1>0, <1>3, <1>5, <1>6 DEF Resting, ToCome, Quiet
    <2>3. ASSUME NEW i \in Slot, i # Coming
          PROVE  /\ Finished(Data[i]) => Finished(Data[i])'
                 /\ Resting(Data[i]) => Resting(Data[i])'
                 /\ ToCome(Data[i]) => ToCome(Data[i])'
      <3>1. Data[i] # u /\ Data[i] \in Job
        BY <2>1, <2>3, MainFacts
      <3> QED  BY <1>0, <1>5, <1>6, <3>1 DEF Finished, Resting, ToCome, Quiet
    <2>4. \A i \in Slot : i < QHead => Finished(Data[i])'
      BY <1>0, <1>1, <2>3, SlotFacts DEF Slot
    <2>5. \A i \in Slot : QHead <= i /\ i < Coming + 1 => Resting(Data[i])'
      <3> SUFFICES ASSUME NEW i \in Slot, QHead <= i, i < Coming + 1 PROVE Resting(Data[i])'
        OBVIOUS
      <3>1. CASE i = Coming
        BY <1>0, <1>1, <2>2, <3>1
      <3>2. CASE i # Coming
        <4>1. i < Coming /\ ~InFlight
          BY <1>0, <1>1, <3>2 DEF Slot, InFlight
        <4> QED  BY <1>0, <2>3, <3>2, <4>1, SlotFacts
      <3> QED  BY <3>1, <3>2
    <2>6. \A i \in Slot : Coming + 1 <= i => ToCome(Data[i])'
      BY <1>0, <1>1, <2>3, SlotFacts DEF Slot
    <2> QED  BY <1>0, <1>2, <2>4, <2>5, <2>6 DEF SlotsInv, InFlight
  <1>11. ClockInv'
    <2>1. UnReadyCount' > 0 => TimeCounter <= arrive[Data[Coming + 1]]
      <3> SUFFICES ASSUME UnReadyCount' > 0 PROVE arrive[Data[Coming]] <= arrive[Data[Coming + 1]]
        BY <1>0, <1>1
      <3>1. Coming + 1 \in Slot /\ Coming <= Coming /\ Coming <= Coming + 1
        BY <1>0, <1>1 DEF Slot
      <3> QED  BY <1>0, <1>1, <3>1 DEF IInv, ListingInv
    <2>2. NextDataIn' = Data[Coming + 1]
      BY <1>0, <1>2 DEF NextDataIn, Coming
    <2> QED  BY <1>0, <2>1, <2>2 DEF ClockInv
  <1>12. FdInv'
    BY <1>0, <1>5 DEF IInv, FdInv
  <1>13. StampInv'
    <2>1. ASSUME NEW j \in Job
          PROVE  /\ state'[j] # "none" => arrive[j] <= elapsed
                 /\ began[j] = Never => left'[j] = need[j]
      <3>1. CASE j = u
        BY <1>0, <1>1, <1>3, <1>5, <3>1 DEF ToCome
      <3>2. CASE j # u
        BY <1>5, <3>2 DEF IInv, StampInv
      <3> QED  BY <3>1, <3>2
    <2>2. ASSUME NEW i \in 1 .. Len(printed)
          PROVE  /\ state'[printed[i]] = "reaped" /\ left'[printed[i]] = 0
                 /\ Time[printed[i]][1] = ended[printed[i]]
      <3>1. /\ state[printed[i]] = "reaped" /\ left[printed[i]] = 0
            /\ Time[printed[i]][1] = ended[printed[i]] /\ printed[i] \in Job
        BY <2>2 DEF IInv, StampInv, TypeOK
      <3> QED  BY <1>3, <1>5, <3>1 DEF ToCome
    <2> QED  BY <1>0, <2>1, <2>2 DEF IInv, StampInv, InFlight
  <1>14. RunningInv' /\ ExitInv'
    BY <1>0 DEF RunningInv, ExitInv
  <1> QED  BY <1>7, <1>8, <1>9, <1>10, <1>11, <1>12, <1>13, <1>14 DEF IInv

(* main leaves: fork() has failed or every job is done.                     *)
LEMMA LeaveInv ==
  ASSUME IInv, pc = "loop", Exit,
         UNCHANGED <<input, child, elapsed, history, queue, TimeCounter, record, slice>>
  PROVE  IInv'
  <1> USE NIsNat
  <1>0. /\ pc' = "exited" /\ DropFds(Main) /\ TimeCounter = elapsed
        /\ UNCHANGED <<arrive, need, state, prio, left, x, pipe, elapsed, began, ended>>
        /\ UNCHANGED <<Data, QHead, ElementCount, UnReadyCount, FinishedCount, TimeCounter>>
        /\ UNCHANGED <<ExecTime, Recorded, Time, printed, Running, ThisExecTime, toTheEnd>>
    BY DEF Exit, IInv, ClockInv, input, child, history, queue, record, slice
  <1>1. TypeOK'
    <2>1. writers' \in [Job -> SUBSET Proc] /\ readers' \in [Job -> SUBSET Proc]
      BY <1>0, DropFdsType DEF IInv, TypeOK
    <2> QED  BY <1>0, <2>1 DEF IInv, TypeOK, DispatchTypeOK, MainState
  <1>2. ListingInv' /\ IndexInv'
    BY <1>0 DEF IInv, ListingInv, IndexInv, Coming
  <1>3. ClockInv'
    BY <1>0 DEF IInv, ClockInv, NextDataIn
  <1>4. ExitInv'
    <2>1. \A j \in Job : pipe'[j] = << >> /\ state'[j] # "run"
      BY <1>0, AllQuiet DEF Quiet, InFlight
    <2>2. QueueIsLive'
      BY <1>0, SplitIsLive DEF QueueIsLive
    <2> QED  BY <2>1, <2>2 DEF ExitInv
  <1>5. StampInv'
    BY <1>0 DEF IInv, StampInv, InFlight
  <1> QED  BY <1>0, <1>1, <1>2, <1>3, <1>4, <1>5 DEF IInv, SlotsInv, RunningInv, FdInv

-----------------------------------------------------------------------------
(* The dispatch of a slice.                                                 *)

(* The sort of the queue only exchanges jobs that wait for a slice, and     *)
(* brings one of the shortest to the head.                                  *)
LEMMA SortedFacts ==
  ASSUME IInv, pc = "select", Data' \in Sorted
  PROVE  /\ Data' \in Listings
         /\ \A i \in Slot : i < QHead \/ Coming <= i => Data'[i] = Data[i]
         /\ \A i \in Slot : QHead <= i /\ i < Coming => Resting(Data'[i])
         /\ \A i \in Slot : QHead <= i /\ i < Coming
                              => ExecTime[Data'[QHead]] <= ExecTime[Data'[i]]
         /\ QHead \in Slot /\ QHead < Coming /\ Data'[QHead] \in Job
  <1> USE NIsNat
  <1>1. QHead \in Nat /\ Coming \in 0 .. N /\ QHead < Coming /\ QHead \in Slot
    BY MainFacts DEF IInv, IndexInv, Slot
  <1>2. Data \in Listings /\ Data' \in QSort(Data, QHead, Coming, ExecTime)
    BY DEF Sorted, Coming, IInv, ListingInv
  <1>3. /\ Data' \in Listings
        /\ \A i \in Slot : i < QHead \/ Coming <= i => Data'[i] = Data[i]
        /\ \A i \in Slot : QHead <= i /\ i < Coming =>
             \E k \in Slot : QHead <= k /\ k < Coming /\ Data'[i] = Data[k]
        /\ \A i, k \in Slot : QHead <= i /\ i <= k /\ k < Coming
             => ExecTime[Data'[i]] <= ExecTime[Data'[k]]
    BY <1>1, <1>2, QSortFacts
  <1>4. \A i \in Slot : QHead <= i /\ i < Coming => Resting(Data'[i])
    <2>1. \A k \in Slot : QHead <= k /\ k < Coming => Resting(Data[k])
      BY SlotFacts DEF InFlight
    <2> QED  BY <1>3, <2>1
  <1>5. \A i \in Slot : QHead <= i /\ i < Coming => ExecTime[Data'[QHead]] <= ExecTime[Data'[i]]
    <2> SUFFICES ASSUME NEW i \in Slot, QHead <= i, i < Coming
                 PROVE  ExecTime[Data'[QHead]] <= ExecTime[Data'[i]]
      OBVIOUS
    <2>1. QHead \in Slot /\ QHead <= QHead
      BY <1>1
    <2> QED  BY <1>3, <2>1
  <1>6. Data'[QHead] \in Job
    BY <1>1, <1>3 DEF Listings
  <1> QED  BY <1>1, <1>3, <1>4, <1>5, <1>6

(* The sort, and the choice of the job and of the length of its slice.      *)
LEMMA SelectInv == IInv /\ Select => IInv'
  <1> SUFFICES ASSUME IInv, Select PROVE IInv'
    OBVIOUS
  <1> USE NIsNat
  <1>0. /\ pc = "select" /\ pc' = "write" /\ Data' \in Sorted /\ Running' = Data'[QHead]
        /\ toTheEnd' = ~Cut(ExecTime[Running'])
        /\ ThisExecTime' = IF Cut(ExecTime[Running']) THEN arrive[NextDataIn] - TimeCounter
                                                      ELSE ExecTime[Running']
        /\ UNCHANGED <<arrive, need, state, prio, left, x, pipe, writers, readers, elapsed, began, ended>>
        /\ UNCHANGED <<QHead, ElementCount, UnReadyCount, FinishedCount, TimeCounter>>
        /\ UNCHANGED <<ExecTime, Recorded, Time, printed>>
    BY DEF Select, At, dispatchVars, input, child, fds, history, record
  <1>1. /\ Data' \in Listings
        /\ \A i \in Slot : i < QHead \/ Coming <= i => Data'[i] = Data[i]
        /\ \A i \in Slot : QHead <= i /\ i < Coming => Resting(Data'[i])
        /\ \A i \in Slot : QHead <= i /\ i < Coming
                             => ExecTime[Data'[QHead]] <= ExecTime[Data'[i]]
        /\ QHead \in Slot /\ QHead < Coming /\ Running' \in Job
    BY <1>0, SortedFacts
  <1>2. /\ Coming' = Coming /\ Coming \in 0 .. N /\ TimeCounter \in Nat
        /\ ExecTime[Running'] \in Nat /\ (UnReadyCount > 0 <=> Coming < N)
        /\ UnReadyCount > 0 => /\ arrive[NextDataIn] \in Nat
                               /\ TimeCounter <= arrive[NextDataIn]
                               /\ NextDataIn' = NextDataIn
    <2>1. Coming' = Coming
      BY <1>0 DEF Coming
    <2>2. UnReadyCount > 0 => NextDataIn' = NextDataIn
      BY <1>0, <1>1, <2>1, MainFacts DEF NextDataIn, Coming
    <2> QED  BY <1>0, <1>1, <2>1, <2>2, MainFacts DEF IInv, ClockInv, TypeOK
  <1>3. /\ ThisExecTime' \in Nat /\ ThisExecTime' <= ExecTime[Running']
        /\ toTheEnd' \in BOOLEAN /\ (toTheEnd' <=> ThisExecTime' = ExecTime[Running'])
        /\ UnReadyCount > 0 => TimeCounter + ThisExecTime' <= arrive[NextDataIn]
    <2>1. CASE Cut(ExecTime[Running'])
      <3>1. toTheEnd' = FALSE /\ ThisExecTime' = arrive[NextDataIn] - TimeCounter
        BY <1>0, <2>1
      <3>2. UnReadyCount > 0 /\ arrive[NextDataIn] < TimeCounter + ExecTime[Running']
        BY <2>1 DEF Cut
      <3>3. ThisExecTime' \in Nat /\ ThisExecTime' < ExecTime[Running']
        BY <1>2, <3>1, <3>2
      <3>4. ThisExecTime' # ExecTime[Running'] /\ ThisExecTime' <= ExecTime[Running']
        BY <1>2, <3>3
      <3>5. TimeCounter + ThisExecTime' <= arrive[NextDataIn]
        BY <1>2, <3>1, <3>2
      <3> QED  BY <3>1, <3>3, <3>4, <3>5
    <2>2. CASE ~Cut(ExecTime[Running'])
      <3>1. toTheEnd' = TRUE /\ ThisExecTime' = ExecTime[Running']
        BY <1>0, <2>2
      <3>2. UnReadyCount > 0 => TimeCounter + ExecTime[Running'] <= arrive[NextDataIn]
        BY <1>2, <2>2 DEF Cut
      <3> QED  BY <1>2, <3>1, <3>2
    <2> QED  BY <2>1, <2>2
  <1>4. TypeOK'
    <2>1. Data' \in [Slot -> Job]
      BY <1>1 DEF Listings
    <2> QED  BY <1>0, <1>1, <1>3, <2>1 DEF IInv, TypeOK, DispatchTypeOK, MainState
  <1>5. ListingInv'
    <2>1. ASSUME NEW i \in Slot, NEW k \in Slot, Coming <= i, i <= k
          PROVE  arrive[Data'[i]] <= arrive[Data'[k]]
      <3>1. Coming <= k
        BY <1>2, <2>1 DEF Slot
      <3>2. Data'[i] = Data[i] /\ Data'[k] = Data[k]
        BY <1>1, <2>1, <3>1
      <3> QED  BY <1>0, <2>1, <3>2 DEF IInv, ListingInv
    <2> QED  BY <1>0, <1>1, <1>2, <2>1 DEF ListingInv
  <1>6. IndexInv'
    BY <1>0, <1>2 DEF IInv, IndexInv
  <1>7. SlotsInv'
    <2>1. \A i \in Slot : i < QHead => Finished(Data[i])'
      BY <1>0, <1>1, SlotFacts DEF Finished, Quiet
    <2>2. \A i \in Slot : QHead <= i /\ i < Coming => Resting(Data[i])'
      BY <1>0, <1>1 DEF Resting, Quiet
    <2>3. \A i \in Slot : Coming <= i => ToCome(Data[i])'
      BY <1>0, <1>1, SlotFacts DEF ToCome, Quiet
    <2> QED  BY <1>0, <1>2, <2>1, <2>2, <2>3 DEF SlotsInv, InFlight
  <1>8. RunningInv'
    BY <1>0, <1>1, <1>2, <1>3 DEF RunningInv
  <1>9. ClockInv'
    BY <1>0, <1>2, <1>3 DEF IInv, ClockInv
  <1>10. StampInv'
    BY <1>0 DEF IInv, StampInv, InFlight
  <1>11. FdInv' /\ ExitInv'
    BY <1>0 DEF IInv, FdInv, ExitInv
  <1> QED  BY <1>4, <1>5, <1>6, <1>7, <1>8, <1>9, <1>10, <1>11 DEF IInv

(* SendToChild(): the time stamp and the write().                           *)
LEMMA SendWriteInv == IInv /\ SendWrite => IInv'
  <1> SUFFICES ASSUME IInv, SendWrite PROVE IInv'
    OBVIOUS
  <1> USE NIsNat
  <1>0. /\ pc = "write" /\ pc' = "raise"
        /\ Recorded' = Recorded \cup {Running}
        /\ pipe' = [pipe EXCEPT ![Running] = Append(@, ThisExecTime)]
        /\ UNCHANGED <<arrive, need, state, prio, left, x, writers, readers, elapsed, began, ended>>
        /\ UNCHANGED <<Data, QHead, ElementCount, UnReadyCount, FinishedCount, TimeCounter>>
        /\ UNCHANGED <<ExecTime, printed, Running, ThisExecTime, toTheEnd>>
    BY DEF SendWrite, At, Send, input, fds, history, queue, slice
  <1>1. /\ Running = Data[QHead] /\ Running \in Job /\ QHead \in Slot /\ QHead < Coming
        /\ QHead \in Int /\ Coming \in Int /\ ThisExecTime \in Nat /\ elapsed \in Nat
        /\ TimeCounter = elapsed
    BY <1>0, RunningIsHead, MainFacts DEF IInv, ClockInv
  <1>2. Resting(Running)
    BY <1>0, <1>1, SlotFacts DEF InFlight
  <1>3. /\ pipe' \in [Job -> Seq(Nat)] /\ pipe'[Running] = <<ThisExecTime>>
        /\ \A j \in Job : j # Running => pipe'[j] = pipe[j]
    <2>1. pipe \in [Job -> Seq(Nat)] /\ pipe[Running] = << >>
      BY <1>2 DEF Resting, Quiet, IInv, TypeOK, DispatchTypeOK
    <2>2. Append(pipe[Running], ThisExecTime) = <<ThisExecTime>> /\ <<ThisExecTime>> \in Seq(Nat)
      BY <1>1, <2>1, OneMessage
    <2> QED  BY <1>0, <1>1, <2>1, <2>2
  <1>4. /\ Time' \in [Job -> [0 .. 1 -> Nat \cup {Never}]]
        /\ \A j \in Job : j # Running \/ j \in Recorded => Time'[j] = Time[j]
        /\ \A j \in Job : Time'[j][1] = Time[j][1]
        /\ Running \notin Recorded => Time'[Running][0] = elapsed
    <2>0. Time \in [Job -> [0 .. 1 -> Nat \cup {Never}]]
      BY DEF IInv, TypeOK
    <2>1. CASE Running \in Recorded
      BY <2>0, <2>1 DEF SendWrite
    <2>2. CASE Running \notin Recorded
      <3>1. Time' = [Time EXCEPT ![Running] = [@ EXCEPT ![0] = elapsed]]
        BY <2>2 DEF SendWrite
      <3>2. [Time[Running] EXCEPT ![0] = elapsed] \in [0 .. 1 -> Nat \cup {Never}]
        BY <1>1, <2>0
      <3> QED  BY <1>1, <2>0, <2>2, <3>1, <3>2
    <2> QED  BY <2>1, <2>2
  <1>5. TypeOK'
    BY <1>0, <1>1, <1>3, <1>4 DEF IInv, TypeOK, DispatchTypeOK, MainState
  <1>6. ListingInv' /\ IndexInv'
    BY <1>0 DEF IInv, ListingInv, IndexInv, Coming
  <1>7. SlotsInv'
    BY <1>0, <1>1, <1>3, OtherSlots DEF SlotsInv, InFlight, Coming, Slot
  <1>8. RunningInv'
    <2>1. Handed(Running)'
      BY <1>0, <1>1, <1>2, <1>3 DEF Handed, Resting, Quiet
    <2> QED  BY <1>0, <2>1 DEF IInv, RunningInv, Coming
  <1>9. ClockInv'
    BY <1>0 DEF IInv, ClockInv, NextDataIn
  <1>10. StampInv'
    <2>1. ASSUME NEW j \in Job
          PROVE  /\ j \in Recorded' => arrive[j] <= Time'[j][0] /\ Time'[j][0] <= elapsed
                 /\ began[j] # Never => j \in Recorded' /\ Time'[j][0] <= began[j]
      <3>1. /\ state[j] # "none" => arrive[j] <= elapsed
            /\ j \in Recorded => arrive[j] <= Time[j][0] /\ Time[j][0] <= elapsed
            /\ began[j] # Never => j \in Recorded /\ Time[j][0] <= began[j]
        BY DEF IInv, StampInv
      <3>2. CASE j \in Recorded
        BY <1>0, <1>4, <3>1, <3>2
      <3>3. CASE j \notin Recorded /\ j = Running
        <4>1. state[j] # "none" /\ Time'[j][0] = elapsed
          BY <1>2, <1>4, <3>3 DEF Resting
        <4> QED  BY <1>1, <3>1, <3>3, <4>1
      <3>4. CASE j \notin Recorded /\ j # Running
        BY <1>0, <3>1, <3>4
      <3> QED  BY <3>2, <3>3, <3>4
    <2>2. \A i \in 1 .. Len(printed) : Time'[printed[i]][1] = Time[printed[i]][1]
      BY <1>4 DEF IInv, TypeOK
    <2> QED  BY <1>0, <2>1, <2>2 DEF IInv, StampInv, InFlight
  <1>11. FdInv' /\ ExitInv'
    BY <1>0 DEF IInv, FdInv, ExitInv
  <1> QED  BY <1>5, <1>6, <1>7, <1>8, <1>9, <1>10, <1>11 DEF IInv

(* SendToChild(): the child is raised above main.                           *)
LEMMA SendRaiseInv == IInv /\ SendRaise => IInv'
  <1> SUFFICES ASSUME IInv, SendRaise PROVE IInv'
    OBVIOUS
  <1> USE NIsNat
  <1>0. /\ pc = "raise" /\ pc' = "charge"
        /\ prio' = [prio EXCEPT ![Running] = RunPrio]
        /\ UNCHANGED <<arrive, need, state, left, x, pipe, writers, readers, elapsed, began, ended>>
        /\ UNCHANGED <<Data, QHead, ElementCount, UnReadyCount, FinishedCount, TimeCounter>>
        /\ UNCHANGED <<ExecTime, Recorded, Time, printed, Running, ThisExecTime, toTheEnd>>
    BY DEF SendRaise, At, Raise, input, fds, history, queue, record, slice
  <1>1. prio' \in [Job -> {YieldPrio, MainPrio, RunPrio}] /\ prio'[Running] = RunPrio
    BY <1>0, RunningIsHead DEF IInv, TypeOK, DispatchTypeOK
  <1>2. TypeOK'
    BY <1>0, <1>1 DEF IInv, TypeOK, DispatchTypeOK, MainState
  <1>3. ListingInv' /\ IndexInv' /\ ClockInv'
    BY <1>0 DEF IInv, ListingInv, IndexInv, ClockInv, Coming, NextDataIn
  <1>4. SlotsInv'
    BY <1>0 DEF IInv, SlotsInv, InFlight, Finished, Resting, ToCome, Quiet, Coming
  <1>5. RunningInv'
    BY <1>0, <1>1 DEF IInv, RunningInv, Handed, Taken, Coming
  <1>6. StampInv' /\ FdInv' /\ ExitInv'
    BY <1>0 DEF IInv, StampInv, FdInv, ExitInv, InFlight
  <1> QED  BY <1>2, <1>3, <1>4, <1>5, <1>6 DEF IInv

(* main has the CPU again after raising the child, and that can only be     *)
(* because the child has burnt the whole slice.                             *)
LEMMA ChargeFacts ==
  ASSUME IInv, At("charge")
  PROVE  /\ pipe[Running] = << >> /\ x[Running] = 0
         /\ left[Running] = ExecTime[Running] - ThisExecTime
         /\ TimeCounter + ThisExecTime = elapsed
         /\ ThisExecTime <= ExecTime[Running]
         /\ IF toTheEnd THEN /\ state[Running] = "zombie" /\ left[Running] = 0
                             /\ ended[Running] = elapsed
                        ELSE state[Running] = "scan"
  <1>0. /\ pc = "charge" /\ MainMayRun /\ Running \in Job
        /\ ThisExecTime <= ExecTime[Running] /\ (Handed(Running) \/ Taken(Running))
        /\ Handed(Running) \/ state[Running] = "run" => prio[Running] = RunPrio
        /\ TimeCounter \in Nat /\ elapsed \in Nat /\ ThisExecTime \in Nat
        /\ ExecTime[Running] \in Nat /\ left[Running] \in Int /\ x[Running] \in Nat
    BY RunningIsHead, MainFacts DEF At, IInv, RunningInv
  <1>1. ~Runnable(Running) \/ prio[Running] # RunPrio
    BY <1>0 DEF MainMayRun, RunPrio, MainPrio
  <1>2. ~Handed(Running) /\ state[Running] # "run"
    <2>1. <<ThisExecTime>> # << >>
      BY <1>0, OneMessage
    <2>2. Handed(Running) \/ state[Running] = "run" => Runnable(Running)
      BY <2>1 DEF Handed, Runnable
    <2> QED  BY <1>0, <1>1, <2>2
  <1>3. /\ state[Running] \in {"scan", "zombie"} /\ x[Running] = 0 /\ pipe[Running] = << >>
        /\ left[Running] = ExecTime[Running] - ThisExecTime
        /\ TimeCounter + ThisExecTime = elapsed
        /\ state[Running] = "scan" => left[Running] > 0
        /\ state[Running] = "zombie" => left[Running] = 0 /\ ended[Running] = elapsed
    BY <1>0, <1>2 DEF Taken
  <1>4. toTheEnd <=> ThisExecTime = ExecTime[Running]
    BY <1>0 DEF IInv, RunningInv
  <1>5. ThisExecTime = ExecTime[Running] <=> left[Running] = 0
    BY <1>0, <1>3
  <1> QED  BY <1>0, <1>3, <1>4, <1>5

(* SendToChild(): the slice is booked as run.                               *)
LEMMA SendChargeInv == IInv /\ SendCharge => IInv'
  <1> SUFFICES ASSUME IInv, SendCharge PROVE IInv'
    OBVIOUS
  <1> USE NIsNat
  <1>0. /\ pc = "charge" /\ pc' = IF toTheEnd THEN "wait" ELSE "loop"
        /\ ExecTime' = [ExecTime EXCEPT ![Running] = @ - ThisExecTime]
        /\ TimeCounter' = TimeCounter + ThisExecTime
        /\ UNCHANGED <<arrive, need, state, prio, left, x, pipe, writers, readers, elapsed, began, ended>>
        /\ UNCHANGED <<Data, QHead, ElementCount, UnReadyCount, FinishedCount>>
        /\ UNCHANGED <<Recorded, Time, printed, Running, ThisExecTime, toTheEnd>>
    BY DEF SendCharge, At, dispatchVars, input, child, fds, history, queue, slice
  <1>1. /\ Quiet(Running)
        /\ left[Running] = ExecTime[Running] - ThisExecTime
        /\ TimeCounter' = elapsed
        /\ ThisExecTime <= ExecTime[Running]
        /\ IF toTheEnd THEN /\ state[Running] = "zombie" /\ left[Running] = 0
                            /\ ended[Running] = elapsed
                       ELSE state[Running] = "scan"
    <2>1. At("charge")
      BY DEF SendCharge
    <2> QED  BY <1>0, <2>1, ChargeFacts DEF Quiet
  <1>2. /\ Running \in Job /\ Running = Data[QHead] /\ QHead \in Slot /\ QHead < Coming
        /\ QHead \in Int /\ Coming \in Int /\ ExecTime[Running] \in Nat /\ ThisExecTime \in Nat
        /\ elapsed \in Nat
    BY <1>0, RunningIsHead, MainFacts
  <1>3. /\ ExecTime' \in [Job -> Nat] /\ ExecTime'[Running] = left[Running]
        /\ \A j \in Job : j # Running => ExecTime'[j] = ExecTime[j]
    <2>1. ExecTime \in [Job -> Nat] /\ ExecTime[Running] - ThisExecTime \in Nat
      BY <1>1, <1>2 DEF IInv, TypeOK
    <2> QED  BY <1>0, <1>1, <1>2, <2>1
  <1>4. pc' \in {"wait", "loop"}
    BY <1>0
  <1>5. TypeOK'
    BY <1>0, <1>1, <1>2, <1>3, <1>4 DEF IInv, TypeOK, DispatchTypeOK, MainState
  <1>6. ListingInv' /\ IndexInv'
    BY <1>0, <1>4 DEF IInv, ListingInv, IndexInv, Coming
  <1>7. SlotsInv'
    <2>1. /\ \A i \in Slot : i < QHead => Finished(Data[i])'
          /\ \A i \in Slot : QHead < i /\ i < Coming => Resting(Data[i])'
          /\ \A i \in Slot : Coming <= i => ToCome(Data[i])'
      BY <1>0, <1>3, OtherSlots
    <2>2. pc' = "loop" => Resting(Data[QHead])'
      BY <1>0, <1>1, <1>2, <1>3 DEF Resting, Quiet
    <2>3. \A i \in Slot : QHead <= i /\ i # QHead => QHead < i
      BY <1>2 DEF Slot
    <2> QED  BY <1>0, <1>4, <2>1, <2>2, <2>3 DEF SlotsInv, InFlight, Coming
  <1>8. RunningInv'
    <2>1. pc' = "wait" => /\ state'[Running] = "zombie" /\ Quiet(Running)'
                          /\ left'[Running] = 0 /\ ExecTime'[Running] = 0
                          /\ ended'[Running] = elapsed'
      BY <1>0, <1>1, <1>3 DEF Quiet
    <2> QED  BY <1>0, <1>2, <1>4, <2>1 DEF RunningInv
  <1>9. ClockInv'
    <2>1. UnReadyCount > 0 => TimeCounter + ThisExecTime <= arrive[NextDataIn]
      BY <1>0 DEF IInv, ClockInv
    <2> QED  BY <1>0, <1>1, <1>4, <2>1 DEF ClockInv, NextDataIn
  <1>10. StampInv'
    BY <1>0 DEF IInv, StampInv, InFlight
  <1>11. FdInv' /\ ExitInv'
    BY <1>0, <1>4 DEF IInv, FdInv, ExitInv
  <1> QED  BY <1>5, <1>6, <1>7, <1>8, <1>9, <1>10, <1>11 DEF IInv

(* waitpid() and the printed result.                                        *)
LEMMA WaitPidInv == IInv /\ WaitPid => IInv'
  <1> SUFFICES ASSUME IInv, WaitPid PROVE IInv'
    OBVIOUS
  <1> USE NIsNat
  <1>0. /\ pc = "wait" /\ pc' = "loop"
        /\ state' = [state EXCEPT ![Running] = "reaped"]
        /\ Time' = [Time EXCEPT ![Running][1] = elapsed]
        /\ printed' = Append(printed, Running)
        /\ QHead' = QHead + 1 /\ ElementCount' = ElementCount - 1
        /\ FinishedCount' = FinishedCount + 1
        /\ UNCHANGED <<arrive, need, prio, left, x, pipe, writers, readers, elapsed, began, ended>>
        /\ UNCHANGED <<Data, UnReadyCount, TimeCounter>>
        /\ UNCHANGED <<ExecTime, Recorded, Running, ThisExecTime, toTheEnd>>
    BY DEF WaitPid, At, Reap, input, fds, history, slice
  <1>1. /\ Running = Data[QHead] /\ Running \in Job /\ QHead \in Slot /\ QHead < Coming
        /\ QHead \in 0 .. N /\ Coming \in 0 .. N /\ elapsed \in Nat
        /\ ElementCount \in 0 .. N /\ ElementCount > 0
        /\ TimeCounter = elapsed /\ QHead = FinishedCount
        /\ \A i \in Slot : i # QHead => Data[i] # Running /\ Data[i] \in Job
    BY <1>0, RunningIsHead, MainFacts DEF IInv, ClockInv, IndexInv
  <1>2. /\ state[Running] = "zombie" /\ Quiet(Running) /\ left[Running] = 0
        /\ ExecTime[Running] = 0 /\ ended[Running] = elapsed
    BY <1>0 DEF IInv, RunningInv
  <1>3. /\ state' \in [Job -> ChildState] /\ state'[Running] = "reaped"
        /\ \A j \in Job : j # Running => state'[j] = state[j]
    BY <1>0, <1>1 DEF IInv, TypeOK, DispatchTypeOK, ChildState
  <1>4. /\ Time' \in [Job -> [0 .. 1 -> Nat \cup {Never}]]
        /\ Time'[Running][1] = elapsed /\ Time'[Running][0] = Time[Running][0]
        /\ \A j \in Job : j # Running => Time'[j] = Time[j]
    <2>1. Time \in [Job -> [0 .. 1 -> Nat \cup {Never}]]
      BY DEF IInv, TypeOK
    <2>2. Time' = [Time EXCEPT ![Running] = [@ EXCEPT ![1] = elapsed]]
      BY <1>0
    <2>3. /\ [Time[Running] EXCEPT ![1] = elapsed] \in [0 .. 1 -> Nat \cup {Never}]
          /\ [Time[Running] EXCEPT ![1] = elapsed][1] = elapsed
          /\ [Time[Running] EXCEPT ![1] = elapsed][0] = Time[Running][0]
      BY <1>1, <2>1
    <2> QED  BY <1>1, <2>1, <2>2, <2>3
  <1>5. Coming' = Coming /\ QHead' \in 0 .. N /\ ElementCount' \in 0 .. N /\ FinishedCount' \in 0 .. N
    BY <1>0, <1>1 DEF Coming, Slot
  <1>6. /\ printed' \in Seq(Job) /\ Len(printed') = Len(printed) + 1 /\ Len(printed) \in Nat
        /\ printed'[Len(printed) + 1] = Running
        /\ \A i \in 1 .. Len(printed) : printed'[i] = printed[i] /\ printed[i] \in Job
    BY <1>0, <1>1 DEF IInv, TypeOK
  <1>7. TypeOK'
    BY <1>0, <1>3, <1>4, <1>5, <1>6 DEF IInv, TypeOK, DispatchTypeOK, MainState
  <1>8. ListingInv' /\ IndexInv'
    BY <1>0, <1>1, <1>5 DEF IInv, ListingInv, IndexInv
  <1>9. SlotsInv'
    <2>1. ASSUME NEW i \in Slot, i # QHead
          PROVE  /\ Finished(Data[i]) => Finished(Data[i])'
                 /\ Resting(Data[i]) => Resting(Data[i])'
                 /\ ToCome(Data[i]) => ToCome(Data[i])'
      BY <1>0, <1>1, <1>3, <2>1 DEF Finished, Resting, ToCome, Quiet
    <2>3. \A i \in Slot : i = QHead => Finished(Data[i])'
      BY <1>0, <1>1, <1>2, <1>3 DEF Finished, Quiet
    <2>4. \A i \in Slot : i < QHead + 1 => Finished(Data[i])'
      <3> SUFFICES ASSUME NEW i \in Slot, i < QHead + 1, i # QHead PROVE Finished(Data[i])'
        BY <2>3
      <3>1. i < QHead
        BY <1>1 DEF Slot
      <3> QED  BY <1>0, <2>1, <3>1, SlotFacts
    <2>5. \A i \in Slot : QHead + 1 <= i /\ i < Coming => Resting(Data[i])'
      <3> SUFFICES ASSUME NEW i \in Slot, QHead + 1 <= i, i < Coming PROVE Resting(Data[i])'
        OBVIOUS
      <3>1. QHead <= i /\ i # QHead
        BY <1>1 DEF Slot
      <3> QED  BY <1>0, <2>1, <3>1, SlotFacts
    <2>6. \A i \in Slot : Coming <= i => ToCome(Data[i])'
      <3> SUFFICES ASSUME NEW i \in Slot, Coming <= i PROVE ToCome(Data[i])'
        OBVIOUS
      <3>1. i # QHead
        BY <1>1 DEF Slot
      <3> QED  BY <1>0, <2>1, <3>1, SlotFacts
    <2> QED  BY <1>0, <1>5, <2>4, <2>5, <2>6 DEF SlotsInv, InFlight
  <1>10. ClockInv'
    <2>1. NextDataIn' = NextDataIn
      BY <1>0, <1>5 DEF NextDataIn, Coming
    <2> QED  BY <1>0, <1>1, <2>1 DEF IInv, ClockInv
  <1>11. StampInv'
    <2>1. ASSUME NEW j \in Job
          PROVE  /\ state'[j] # "none" => arrive[j] <= elapsed
                 /\ j \in Recorded => arrive[j] <= Time'[j][0] /\ Time'[j][0] <= elapsed
                 /\ began[j] # Never => j \in Recorded /\ Time'[j][0] <= began[j]
                 /\ began[j] = Never => left[j] = need[j]
      <3>1. CASE j = Running
        <4>1. Time'[j][0] = Time[j][0] /\ state[j] # "none"
          BY <1>2, <1>4, <3>1
        <4> QED  BY <4>1 DEF IInv, StampInv
      <3>2. CASE j # Running
        BY <1>3, <1>4, <3>2 DEF IInv, StampInv
      <3> QED  BY <3>1, <3>2
    <2>2. ASSUME NEW i \in 1 .. Len(printed')
          PROVE  /\ state'[printed'[i]] = "reaped" /\ left[printed'[i]] = 0
                 /\ Time'[printed'[i]][1] = ended[printed'[i]]
      <3>1. CASE i = Len(printed) + 1
        BY <1>2, <1>3, <1>4, <1>6, <3>1
      <3>2. CASE i # Len(printed) + 1
        <4>1. i \in 1 .. Len(printed)
          BY <1>6, <2>2, <3>2
        <4>2. /\ state[printed[i]] = "reaped" /\ left[printed[i]] = 0
              /\ Time[printed[i]][1] = ended[printed[i]]
          BY <4>1 DEF IInv, StampInv
        <4> QED  BY <1>2, <1>3, <1>4, <1>6, <4>1, <4>2
      <3> QED  BY <3>1, <3>2
    <2> QED  BY <1>0, <2>1, <2>2 DEF StampInv, InFlight
  <1>12. RunningInv' /\ FdInv' /\ ExitInv'
    BY <1>0 DEF IInv, RunningInv, FdInv, ExitInv
  <1> QED  BY <1>7, <1>8, <1>9, <1>10, <1>11, <1>12 DEF IInv

-----------------------------------------------------------------------------
(* The steps of a child.                                                    *)

(* A step of a child leaves main's variables, and what they say of each     *)
(* other, alone.                                                            *)
LEMMA ChildFrame ==
  ASSUME IInv, NEW j \in Job, Exec(j, FALSE) \/ ChildProgram(j), UNCHANGED mainVars
  PROVE  /\ UNCHANGED <<arrive, need, pc, Data, QHead, ElementCount, UnReadyCount>>
         /\ UNCHANGED <<FinishedCount, TimeCounter, ExecTime, Recorded, Time, printed>>
         /\ UNCHANGED <<Running, ThisExecTime, toTheEnd>>
         /\ TypeOK' /\ ListingInv' /\ IndexInv'
  <1>0. /\ UNCHANGED <<arrive, need, pc, Data, QHead, ElementCount, UnReadyCount>>
        /\ UNCHANGED <<FinishedCount, TimeCounter, ExecTime, Recorded, Time, printed>>
        /\ UNCHANGED <<Running, ThisExecTime, toTheEnd>>
    BY DEF mainVars, queue, record, slice, Exec, ChildProgram, Scanf, ScanfEof, BurnUnit,
           Finish, Yield, input
  <1>1. DispatchTypeOK'
    <2>1. DispatchTypeOK /\ FALSE \in BOOLEAN
      BY DEF IInv, TypeOK
    <2>2. Exec(j, FALSE) \/ ExecFails(j) \/ ChildProgram(j)
      OBVIOUS
    <2> QED  BY <2>1, <2>2, ChildType
  <1>2. TypeOK'
    BY <1>0, <1>1 DEF IInv, TypeOK
  <1>3. ListingInv' /\ IndexInv'
    BY <1>0 DEF IInv, ListingInv, IndexInv, Coming
  <1> QED  BY <1>0, <1>2, <1>3

(* execl() of the child of j.                                               *)
LEMMA ExecInv ==
  ASSUME IInv, NEW j \in Job, Exec(j, FALSE), UNCHANGED mainVars
  PROVE  IInv'
  <1> USE NIsNat
  <1>0. /\ UNCHANGED <<arrive, need, pc, Data, QHead, ElementCount, UnReadyCount>>
        /\ UNCHANGED <<FinishedCount, TimeCounter, ExecTime, Recorded, Time, printed>>
        /\ UNCHANGED <<Running, ThisExecTime, toTheEnd>>
        /\ TypeOK' /\ ListingInv' /\ IndexInv'
    BY ChildFrame
  <1>1. /\ state[j] = "forked"
        /\ UNCHANGED <<prio, left, x, pipe, writers, readers, elapsed, began, ended>>
    BY DEF Exec, fds, history
  <1>2. state'[j] = "scan" /\ \A k \in Job : k # j => state'[k] = state[k]
    BY DEF Exec, IInv, TypeOK, DispatchTypeOK
  <1>3. ASSUME NEW k \in Job
        PROVE  /\ Finished(k) => Finished(k)'
               /\ Resting(k) => Resting(k)'
               /\ ToCome(k) => ToCome(k)'
               /\ Handed(k) <=> Handed(k)'
               /\ Taken(k) => Taken(k)'
               /\ state'[k] = "run" <=> state[k] = "run"
               /\ state[k] = "zombie" => state'[k] = "zombie"
               /\ state'[k] = "none" <=> state[k] = "none"
               /\ state'[k] = "reaped" <=> state[k] = "reaped"
    <2>1. CASE k = j
      BY <1>0, <1>1, <1>2, <2>1 DEF Finished, Resting, ToCome, Handed, Taken, Quiet
    <2>2. CASE k # j
      BY <1>0, <1>1, <1>2, <2>2 DEF Finished, Resting, ToCome, Handed, Taken, Quiet
    <2> QED  BY <2>1, <2>2
  <1>4. SlotsInv'
    BY <1>0, <1>3, MainFacts DEF IInv, SlotsInv, InFlight, Coming
  <1>5. RunningInv'
    <2> SUFFICES ASSUME pc \in {"write", "raise", "charge", "wait"} PROVE RunningInv'
      BY <1>0 DEF RunningInv
    <2>1. PICK r \in Job : r = Running
      BY RunningIsHead
    <2>2. Quiet(r)' <=> Quiet(r)
      BY <1>0, <1>1 DEF Quiet
    <2>3. /\ Handed(r)' <=> Handed(r)
          /\ Taken(r) => Taken(r)'
          /\ state'[r] = "run" <=> state[r] = "run"
          /\ state[r] = "zombie" => state'[r] = "zombie"
      BY <1>3
    <2> QED  BY <1>0, <1>1, <2>1, <2>2, <2>3 DEF IInv, RunningInv, Coming, Quiet, Handed, Taken
  <1>6. ClockInv' /\ FdInv'
    BY <1>0, <1>1 DEF IInv, ClockInv, FdInv, NextDataIn
  <1>7. StampInv'
    <2>1. \A i \in 1 .. Len(printed) : printed[i] \in Job
      BY DEF IInv, TypeOK
    <2> QED  BY <1>0, <1>1, <1>3, <2>1 DEF IInv, StampInv, InFlight
  <1>8. ExitInv'
    <2> SUFFICES ASSUME pc = "exited" PROVE ExitInv'
      BY <1>0 DEF ExitInv
    <2>1. QueueIsLive'
      BY <1>0, <1>3, MainFacts DEF IInv, ExitInv, QueueIsLive
    <2>2. \A k \in Job : pipe'[k] = << >> /\ state'[k] # "run"
      BY <1>1, <1>3 DEF IInv, ExitInv
    <2> QED  BY <2>1, <2>2 DEF ExitInv
  <1> QED  BY <1>0, <1>4, <1>5, <1>6, <1>7, <1>8 DEF IInv

(* scanf(): the slice in the pipe is taken.                                 *)
LEMMA ScanfInv ==
  ASSUME IInv, NEW j \in Job, Scanf(j), UNCHANGED mainVars
  PROVE  IInv'
  <1> USE NIsNat
  <1>0. /\ UNCHANGED <<arrive, need, pc, Data, QHead, ElementCount, UnReadyCount>>
        /\ UNCHANGED <<FinishedCount, TimeCounter, ExecTime, Recorded, Time, printed>>
        /\ UNCHANGED <<Running, ThisExecTime, toTheEnd>>
        /\ TypeOK' /\ ListingInv' /\ IndexInv'
    BY ChildFrame DEF ChildProgram
  <1>1. /\ state[j] = "scan" /\ pipe[j] # << >>
        /\ state' = [state EXCEPT ![j] = "run"]
        /\ x' = [x EXCEPT ![j] = Head(pipe[j])]
        /\ pipe' = [pipe EXCEPT ![j] = Tail(@)]
        /\ UNCHANGED <<prio, left, writers, readers, elapsed, began, ended>>
    BY DEF Scanf, fds, history
  <1>2. pc # "exited" /\ j = Running /\ InFlight
    <2>1. pc # "exited"
      BY <1>1 DEF IInv, ExitInv
    <2> QED  BY <1>1, <2>1, OnlyRunningBusy
  <1>3. /\ pc \in {"raise", "charge"} /\ Handed(j) /\ (pc = "charge" => prio[j] = RunPrio)
        /\ left[j] \in Int /\ ExecTime[j] \in Nat /\ ThisExecTime \in Nat
        /\ TimeCounter \in Nat /\ elapsed \in Nat
    BY <1>1, <1>2, MainFacts DEF InFlight, IInv, RunningInv, Taken, TypeOK, DispatchTypeOK
  <1>4. Head(pipe[j]) = ThisExecTime /\ Tail(pipe[j]) = << >>
    BY <1>3, OneMessage DEF Handed
  <1>5. /\ state'[j] = "run" /\ x'[j] = ThisExecTime /\ pipe'[j] = << >>
        /\ \A k \in Job : k # j => state'[k] = state[k] /\ x'[k] = x[k] /\ pipe'[k] = pipe[k]
    BY <1>1, <1>4 DEF IInv, TypeOK, DispatchTypeOK
  <1>6. SlotsInv'
    BY <1>0, <1>1, <1>2, <1>3, <1>5, OtherSlots, MainFacts DEF SlotsInv, InFlight, Coming, Slot
  <1>7. RunningInv'
    <2>1. Taken(j)'
      BY <1>0, <1>1, <1>3, <1>5 DEF Taken, Handed
    <2> QED  BY <1>0, <1>1, <1>2, <1>3, <2>1 DEF IInv, RunningInv, Coming
  <1>8. ClockInv' /\ FdInv' /\ ExitInv'
    BY <1>0, <1>1, <1>2 DEF IInv, ClockInv, FdInv, ExitInv, NextDataIn
  <1>9. StampInv'
    <2>1. \A i \in 1 .. Len(printed) : printed[i] \in Job
      BY DEF IInv, TypeOK
    <2>2. \A k \in Job : /\ state'[k] # "none" => state[k] # "none"
                         /\ state[k] = "reaped" => state'[k] = "reaped"
      BY <1>1, <1>5
    <2> QED  BY <1>0, <1>1, <2>1, <2>2 DEF IInv, StampInv, InFlight
  <1> QED  BY <1>0, <1>6, <1>7, <1>8, <1>9 DEF IInv

(* One unit of the slice is burnt.                                          *)
LEMMA BurnUnitInv ==
  ASSUME IInv, NEW j \in Job, BurnUnit(j), UNCHANGED mainVars
  PROVE  IInv'
  <1> USE NIsNat
  <1>0. /\ UNCHANGED <<arrive, need, pc, Data, QHead, ElementCount, UnReadyCount>>
        /\ UNCHANGED <<FinishedCount, TimeCounter, ExecTime, Recorded, Time, printed>>
        /\ UNCHANGED <<Running, ThisExecTime, toTheEnd>>
        /\ TypeOK' /\ ListingInv' /\ IndexInv'
    BY ChildFrame DEF ChildProgram
  <1>1. /\ state[j] = "run" /\ x[j] > 0
        /\ x' = [x EXCEPT ![j] = @ - 1]
        /\ left' = [left EXCEPT ![j] = @ - 1]
        /\ elapsed' = elapsed + 1
        /\ began' = [began EXCEPT ![j] = IF @ = Never THEN elapsed ELSE @]
        /\ UNCHANGED <<state, prio, pipe, writers, readers, ended>>
    BY DEF BurnUnit, fds
  <1>2. /\ j = Running /\ pc \in {"raise", "charge"} /\ Taken(j)
        /\ (pc = "charge" => prio[j] = RunPrio)
        /\ left[j] \in Int /\ x[j] \in Nat /\ ExecTime[j] \in Nat
        /\ TimeCounter \in Nat /\ ThisExecTime \in Nat /\ elapsed \in Nat
    BY <1>1, TakenFacts, MainFacts
  <1>3. /\ x'[j] = x[j] - 1 /\ left'[j] = left[j] - 1
        /\ \A k \in Job : k # j => x'[k] = x[k] /\ left'[k] = left[k] /\ began'[k] = began[k]
        /\ began'[j] = IF began[j] = Never THEN elapsed ELSE began[j]
    BY <1>1 DEF IInv, TypeOK, DispatchTypeOK
  <1>4. SlotsInv'
    BY <1>0, <1>1, <1>2, <1>3, OtherSlots, MainFacts DEF SlotsInv, InFlight, Coming, Slot
  <1>5. RunningInv'
    <2>1. Taken(j)'
      <3>1. /\ left[j] = ExecTime[j] - ThisExecTime + x[j]
            /\ TimeCounter + ThisExecTime - x[j] = elapsed /\ x[j] <= ThisExecTime
        BY <1>2 DEF Taken
      <3>2. /\ left'[j] = ExecTime[j] - ThisExecTime + x'[j] /\ x'[j] <= ThisExecTime
            /\ TimeCounter + ThisExecTime - x'[j] = elapsed'
        BY <1>1, <1>2, <1>3, <3>1
      <3>3. state'[j] = "run" /\ pipe'[j] = << >>
        BY <1>1, <1>2 DEF Taken
      <3> QED  BY <1>0, <3>2, <3>3 DEF Taken
    <2> QED  BY <1>0, <1>1, <1>2, <2>1 DEF IInv, RunningInv, Coming
  <1>6. ClockInv' /\ FdInv' /\ ExitInv'
    BY <1>0, <1>1, <1>2 DEF IInv, ClockInv, FdInv, ExitInv, NextDataIn
  <1>7. StampInv'
    <2>1. ASSUME NEW k \in Job
          PROVE  /\ state[k] # "none" => arrive[k] <= elapsed'
                 /\ k \in Recorded => Time[k][0] <= elapsed'
                 /\ began'[k] # Never => k \in Recorded /\ Time[k][0] <= began'[k]
                 /\ began'[k] = Never => left'[k] = need[k]
      <3>1. /\ state[k] # "none" => arrive[k] <= elapsed
            /\ k \in Recorded => Time[k][0] <= elapsed
            /\ began[k] # Never => k \in Recorded /\ Time[k][0] <= began[k]
            /\ began[k] = Never => left[k] = need[k]
            /\ Running \in Recorded
        BY <1>2 DEF IInv, StampInv, InFlight
      <3>2. arrive[k] \in Int /\ Time[k][0] \in Int
        BY DEF IInv, TypeOK, DispatchTypeOK, Never
      <3>3. elapsed # Never
        BY <1>2 DEF Never
      <3>4. CASE k = j
        BY <1>1, <1>2, <1>3, <3>1, <3>2, <3>3, <3>4
      <3>5. CASE k # j
        BY <1>1, <1>2, <1>3, <3>1, <3>2, <3>5
      <3> QED  BY <3>4, <3>5
    <2>2. ASSUME NEW i \in 1 .. Len(printed)
          PROVE  left'[printed[i]] = left[printed[i]]
      <3>1. printed[i] \in Job /\ state[printed[i]] = "reaped"
        BY <2>2 DEF IInv, TypeOK, StampInv
      <3> QED  BY <1>1, <1>3, <3>1
    <2> QED  BY <1>0, <1>1, <2>1, <2>2 DEF IInv, StampInv, InFlight
  <1> QED  BY <1>0, <1>4, <1>5, <1>6, <1>7 DEF IInv

(* The end of the last slice.                                               *)
LEMMA FinishInv ==
  ASSUME IInv, NEW j \in Job, Finish(j), UNCHANGED mainVars
  PROVE  IInv'
  <1> USE NIsNat
  <1>0. /\ UNCHANGED <<arrive, need, pc, Data, QHead, ElementCount, UnReadyCount>>
        /\ UNCHANGED <<FinishedCount, TimeCounter, ExecTime, Recorded, Time, printed>>
        /\ UNCHANGED <<Running, ThisExecTime, toTheEnd>>
        /\ TypeOK' /\ ListingInv' /\ IndexInv'
    BY ChildFrame DEF ChildProgram
  <1>1. /\ state[j] = "run" /\ x[j] = 0 /\ left[j] <= 0
        /\ state' = [state EXCEPT ![j] = "zombie"]
        /\ ended' = [ended EXCEPT ![j] = elapsed]
        /\ \A k \in Job : writers'[k] = writers[k] \ {j}
        /\ UNCHANGED <<prio, left, x, pipe, elapsed, began>>
    BY DEF Finish, Dies, DropFds
  <1>2. /\ j = Running /\ pc \in {"raise", "charge"} /\ Taken(j) /\ ThisExecTime <= ExecTime[j]
        /\ left[j] \in Int /\ x[j] \in Nat /\ ExecTime[j] \in Nat
        /\ TimeCounter \in Nat /\ ThisExecTime \in Nat /\ elapsed \in Nat
    BY <1>1, TakenFacts, MainFacts
  <1>3. /\ state'[j] = "zombie" /\ ended'[j] = elapsed
        /\ \A k \in Job : k # j => state'[k] = state[k] /\ ended'[k] = ended[k]
    BY <1>1 DEF IInv, TypeOK, DispatchTypeOK
  <1>4. SlotsInv'
    BY <1>0, <1>1, <1>2, <1>3, OtherSlots, MainFacts DEF SlotsInv, InFlight, Coming, Slot
  <1>5. RunningInv'
    <2>1. left[j] = 0
      BY <1>1, <1>2 DEF Taken
    <2>2. Taken(j)' /\ ~Handed(j)'
      BY <1>0, <1>1, <1>2, <1>3, <2>1 DEF Taken, Handed
    <2> QED  BY <1>0, <1>1, <1>2, <1>3, <2>2 DEF IInv, RunningInv, Coming
  <1>6. ClockInv' /\ ExitInv'
    BY <1>0, <1>1, <1>2 DEF IInv, ClockInv, ExitInv, NextDataIn
  <1>7. FdInv'
    BY <1>0, <1>1, JobAssumption DEF IInv, FdInv
  <1>8. StampInv'
    <2>1. \A i \in 1 .. Len(printed) : printed[i] \in Job /\ printed[i] # j
      BY <1>1 DEF IInv, TypeOK, StampInv
    <2>2. \A k \in Job : state'[k] # "none" => state[k] # "none"
      BY <1>1, <1>3
    <2> QED  BY <1>0, <1>1, <1>3, <2>1, <2>2 DEF IInv, StampInv, InFlight
  <1> QED  BY <1>0, <1>4, <1>5, <1>6, <1>7, <1>8 DEF IInv

(* The slice is burnt and the child lowers its priority.                    *)
LEMMA YieldInv ==
  ASSUME IInv, NEW j \in Job, Yield(j), UNCHANGED mainVars
  PROVE  IInv'
  <1> USE NIsNat
  <1>0. /\ UNCHANGED <<arrive, need, pc, Data, QHead, ElementCount, UnReadyCount>>
        /\ UNCHANGED <<FinishedCount, TimeCounter, ExecTime, Recorded, Time, printed>>
        /\ UNCHANGED <<Running, ThisExecTime, toTheEnd>>
        /\ TypeOK' /\ ListingInv' /\ IndexInv'
    BY ChildFrame DEF ChildProgram
  <1>1. /\ state[j] = "run" /\ x[j] = 0 /\ left[j] > 0
        /\ state' = [state EXCEPT ![j] = "scan"]
        /\ UNCHANGED <<left, x, pipe, writers, readers, elapsed, began, ended>>
    BY DEF Yield, fds, history
  <1>2. j = Running /\ pc \in {"raise", "charge"} /\ Taken(j) /\ ThisExecTime \in Nat
    BY <1>1, TakenFacts, MainFacts
  <1>3. state'[j] = "scan" /\ \A k \in Job : k # j => state'[k] = state[k]
    BY <1>1 DEF IInv, TypeOK, DispatchTypeOK
  <1>4. SlotsInv'
    BY <1>0, <1>1, <1>2, <1>3, OtherSlots, MainFacts DEF SlotsInv, InFlight, Coming, Slot
  <1>5. RunningInv'
    <2>1. Taken(j)'
      BY <1>0, <1>1, <1>2, <1>3 DEF Taken
    <2>2. ~Handed(j)'
      <3>1. <<ThisExecTime>> # << >> /\ pipe'[j] = << >>
        BY <1>1, <1>2, OneMessage DEF Taken
      <3> QED  BY <1>0, <3>1 DEF Handed
    <2> QED  BY <1>0, <1>1, <1>2, <1>3, <2>1, <2>2 DEF IInv, RunningInv, Coming
  <1>6. ClockInv' /\ FdInv' /\ ExitInv'
    BY <1>0, <1>1, <1>2 DEF IInv, ClockInv, FdInv, ExitInv, NextDataIn
  <1>7. StampInv'
    <2>1. \A i \in 1 .. Len(printed) : printed[i] \in Job /\ printed[i] # j
      BY <1>1 DEF IInv, TypeOK, StampInv
    <2>2. \A k \in Job : state'[k] # "none" => state[k] # "none"
      BY <1>1, <1>3
    <2> QED  BY <1>0, <1>1, <1>3, <2>1, <2>2 DEF IInv, StampInv, InFlight
  <1> QED  BY <1>0, <1>4, <1>5, <1>6, <1>7 DEF IInv

(* A child reads end-of-file: main has gone.                                *)
LEMMA ScanfEofInv ==
  ASSUME IInv, NEW j \in Job, ScanfEof(j), UNCHANGED mainVars
  PROVE  IInv'
  <1> USE NIsNat
  <1>0. /\ UNCHANGED <<arrive, need, pc, Data, QHead, ElementCount, UnReadyCount>>
        /\ UNCHANGED <<FinishedCount, TimeCounter, ExecTime, Recorded, Time, printed>>
        /\ UNCHANGED <<Running, ThisExecTime, toTheEnd>>
        /\ TypeOK' /\ ListingInv' /\ IndexInv'
    BY ChildFrame DEF ChildProgram
  <1>1. /\ state[j] = "scan" /\ writers[j] = {}
        /\ state' = [state EXCEPT ![j] = "zombie"]
        /\ ended' = [ended EXCEPT ![j] = elapsed]
        /\ UNCHANGED <<prio, left, x, pipe, elapsed, began>>
    BY DEF ScanfEof, Dies
  <1>2. pc = "exited"
    <2>1. pc \in {"read", "exited"}
      BY <1>1 DEF IInv, FdInv
    <2>2. ASSUME pc = "read" PROVE FALSE
      <3>1. PICK i \in Slot : Data[i] = j
        BY <2>2, SlotFacts
      <3>2. Coming = 0 /\ i >= 0
        BY <2>2 DEF IInv, IndexInv, Slot
      <3> QED  BY <1>1, <2>2, <3>1, <3>2, SlotFacts DEF ToCome
    <2> QED  BY <2>1, <2>2
  <1>3. /\ state'[j] = "zombie" /\ ended'[j] = elapsed
        /\ \A k \in Job : k # j => state'[k] = state[k] /\ ended'[k] = ended[k]
    BY <1>1 DEF IInv, TypeOK, DispatchTypeOK
  <1>4. ClockInv'
    BY <1>0, <1>1 DEF IInv, ClockInv, NextDataIn
  <1>5. ExitInv'
    <2>1. \A k \in Job : /\ state'[k] = "none" <=> state[k] = "none"
                         /\ state'[k] = "reaped" <=> state[k] = "reaped"
      BY <1>1, <1>3
    <2>2. QueueIsLive'
      BY <1>0, <1>2, <2>1, MainFacts DEF IInv, ExitInv, QueueIsLive
    <2>3. \A k \in Job : pipe'[k] = << >> /\ state'[k] # "run"
      BY <1>1, <1>2, <1>3 DEF IInv, ExitInv
    <2> QED  BY <2>2, <2>3 DEF ExitInv
  <1>6. StampInv'
    <2>1. \A i \in 1 .. Len(printed) : printed[i] \in Job /\ printed[i] # j
      BY <1>1 DEF IInv, TypeOK, StampInv
    <2>2. \A k \in Job : state'[k] # "none" => state[k] # "none"
      BY <1>1, <1>3
    <2> QED  BY <1>0, <1>1, <1>2, <1>3, <2>1, <2>2 DEF IInv, StampInv, InFlight
  <1> QED  BY <1>0, <1>2, <1>4, <1>5, <1>6 DEF IInv, SlotsInv, RunningInv, FdInv

-----------------------------------------------------------------------------
(* The invariant, and what it is for.                                       *)

(* Whatever a child does.                                                   *)
LEMMA ChildStepInv ==
  ASSUME IInv, NEW j \in Job, ChildStep(j)
  PROVE  IInv'
  <1>1. UNCHANGED mainVars
    BY DEF ChildStep
  <1>2. Exec(j, FALSE) \/ Scanf(j) \/ ScanfEof(j) \/ BurnUnit(j) \/ Finish(j) \/ Yield(j)
    BY DEF ChildStep, ChildProgram
  <1> QED  BY <1>1, <1>2, ExecInv, ScanfInv, ScanfEofInv, BurnUnitInv, FinishInv, YieldInv

(* Whatever main does.                                                      *)
LEMMA MainStepInv == IInv /\ MainStep => IInv'
  <1> SUFFICES ASSUME IInv, MainStep PROVE IInv'
    OBVIOUS
  <1>1. CASE ForkFails
    BY <1>1, LeaveInv DEF ForkFails, At
  <1>2. CASE Return
    BY <1>2, LeaveInv DEF Return, At
  <1> QED  BY <1>1, <1>2, ReadInputInv, ForkInv, NotDueInv, IdleInv, SelectInv, SendWriteInv,
              SendRaiseInv, SendChargeInv, WaitPidInv DEF MainStep

(* Every step of psjf.c and of its children preserves the invariant.        *)
LEMMA NextInv == IInv /\ [Next]_vars => IInv'
  BY MainStepInv, ChildStepInv, StutterInv DEF Next

(* The safety properties of psjf.c follow from the invariant.               *)
LEMMA InvImplies ==
  IInv => ClockIsTrue /\ NoMissedArrival /\ QueueIsLive /\ WaitNeverBlocks /\ ResultsAreSound
  <1> SUFFICES ASSUME IInv
               PROVE  /\ ClockIsTrue /\ NoMissedArrival /\ QueueIsLive
                      /\ WaitNeverBlocks /\ ResultsAreSound
    OBVIOUS
  <1> USE NIsNat
  <1>1. ClockIsTrue
    BY DEF ClockIsTrue, IInv, ClockInv
  <1>2. NoMissedArrival
    <2> SUFFICES ASSUME UnReadyCount > 0 PROVE elapsed <= arrive[NextDataIn]
      BY DEF NoMissedArrival
    <2>0. /\ TimeCounter \in Nat /\ ThisExecTime \in Nat /\ elapsed \in Nat
          /\ arrive[NextDataIn] \in Nat /\ pc \in MainState
      BY MainFacts DEF IInv, TypeOK
    <2>1. CASE pc \in {"raise", "charge"}
      <3>1. (Handed(Running) \/ Taken(Running)) /\ x[Running] \in Nat
        BY <2>1, RunningIsHead DEF IInv, RunningInv
      <3>2. elapsed <= TimeCounter + ThisExecTime
        BY <2>0, <3>1 DEF Handed, Taken
      <3> QED  BY <2>0, <2>1, <3>2 DEF IInv, ClockInv
    <2>2. CASE pc \notin {"raise", "charge"}
      BY <2>0, <2>2 DEF IInv, ClockInv, MainState
    <2> QED  BY <2>1, <2>2
  <1>3. QueueIsLive
    BY SplitIsLive DEF IInv, ExitInv
  <1>4. WaitNeverBlocks
    <2> SUFFICES ASSUME pc = "wait" PROVE state[Running] = "zombie" /\ Zombies = {Running}
      BY DEF WaitNeverBlocks, At
    <2>1. state[Running] = "zombie" /\ Running \in Job
      BY RunningIsHead DEF IInv, RunningInv
    <2>2. \A j \in Job : state[j] = "zombie" => j = Running
      BY OnlyRunningBusy
    <2> QED  BY <2>1, <2>2 DEF Zombies
  <1>5. ResultsAreSound
    <2> SUFFICES ASSUME NEW i \in 1 .. Len(printed), NEW j, j = printed[i]
                 PROVE  /\ Time[j][1] = ended[j]
                        /\ need[j] > 0 => arrive[j] <= Time[j][0] /\ Time[j][0] <= began[j]
      BY DEF ResultsAreSound
    <2>1. j \in Job /\ need[j] \in Nat /\ left[j] = 0 /\ Time[j][1] = ended[j]
      <3>1. left[j] = 0 /\ Time[j][1] = ended[j]
        BY DEF IInv, StampInv
      <3>2. j \in Job
        BY DEF IInv, TypeOK
      <3> QED  BY <3>1, <3>2 DEF IInv, TypeOK, DispatchTypeOK
    <2>2. need[j] > 0 => began[j] # Never
      BY <2>1 DEF IInv, StampInv
    <2> QED  BY <2>1, <2>2 DEF IInv, StampInv
  <1> QED  BY <1>1, <1>2, <1>3, <1>4, <1>5

(* The invariant that ties main's queue, its books and its clock to the     *)
(* children holds throughout every run of psjf.c, for any number of jobs,   *)
(* any input, and whether or not fork() fails.                              *)
THEOREM PsjfInvariance == Spec => []IInv
  BY InitInv, NextInv, PTL DEF Spec

(* TimeCounter is the real time whenever psjf.c decides by it.              *)
THEOREM PsjfClock == Spec => []ClockIsTrue
  BY PsjfInvariance, InvImplies, PTL

(* Real time never runs past the ready time of a job that is not forked:    *)
(* the exact comparison of the two times at the top of the loop misses      *)
(* nothing.                                                                 *)
THEOREM PsjfArrivals == Spec => []NoMissedArrival
  BY PsjfInvariance, InvImplies, PTL

(* The ready queue is exactly the live children.                            *)
THEOREM PsjfQueue == Spec => []QueueIsLive
  BY PsjfInvariance, InvImplies, PTL

(* waitpid() finds the job that has run to its end, and no other is there.  *)
THEOREM PsjfWait == Spec => []WaitNeverBlocks
  BY PsjfInvariance, InvImplies, PTL

(* What psjf.c prints of a job is when it exited, and a start between its   *)
(* arrival and its first unit.                                              *)
THEOREM PsjfResults == Spec => []ResultsAreSound
  BY PsjfInvariance, InvImplies, PTL

-----------------------------------------------------------------------------
(* The refinement of the ideal preemptive CPU.                              *)

\* The units each job has been served, as the ideal CPU counts them.
got == [j \in Job |-> need[j] - left[j]]

(* The jobs the ideal CPU has to choose from are in the queue of psjf.c, as *)
(* long as real time has not come to the next arrival.                      *)
LEMMA PendingIsQueued ==
  ASSUME IInv, pc # "exited", pc # "read",
         UnReadyCount > 0 => elapsed < arrive[NextDataIn],
         NEW k \in Job, arrive[k] <= elapsed, left[k] > 0
  PROVE  \E i \in Slot : QHead <= i /\ i < Coming /\ Data[i] = k
  <1> USE NIsNat
  <1>1. PICK i \in Slot : Data[i] = k
    BY SlotFacts
  <1>2. i \in 0 .. N - 1 /\ QHead \in 0 .. N /\ Coming \in 0 .. N
    BY MainFacts DEF Slot
  <1>3. ~(i < QHead)
    BY <1>1, SlotFacts DEF Finished
  <1>4. ASSUME Coming <= i PROVE FALSE
    <2>1. UnReadyCount > 0 /\ Coming \in Slot /\ NextDataIn = Data[Coming] /\ Coming <= Coming
      BY <1>2, <1>4, MainFacts
    <2>2. arrive[Data[Coming]] <= arrive[Data[i]]
      BY <1>1, <1>4, <2>1 DEF IInv, ListingInv
    <2>3. arrive[k] \in Nat /\ arrive[NextDataIn] \in Nat /\ elapsed \in Nat
      BY <2>1, MainFacts DEF IInv, TypeOK, DispatchTypeOK
    <2> QED  BY <1>1, <2>1, <2>2, <2>3
  <1> QED  BY <1>1, <1>2, <1>3, <1>4

(* A unit burnt by a child is a unit the ideal CPU serves to a job with the *)
(* shortest remaining time.                                                 *)
LEMMA BurnUnitServes ==
  ASSUME IInv, NEW j \in Job, BurnUnit(j), UNCHANGED mainVars
  PROVE  Ideal!PsjfNext
  <1> USE NIsNat
  <1>0. /\ state[j] = "run" /\ x[j] > 0 /\ left' = [left EXCEPT ![j] = @ - 1]
        /\ elapsed' = elapsed + 1 /\ arrive' = arrive /\ need' = need
    BY DEF BurnUnit, input
  <1>1. /\ j = Running /\ pc \in {"raise", "charge"} /\ Taken(j) /\ ThisExecTime <= ExecTime[j]
        /\ left[j] \in Int /\ x[j] \in Nat /\ ExecTime[j] \in Nat /\ ThisExecTime \in Nat
        /\ TimeCounter \in Nat /\ elapsed \in Nat
    BY <1>0, TakenFacts, MainFacts
  <1>2. left[j] > 0 /\ left[j] <= ExecTime[j] /\ elapsed < TimeCounter + ThisExecTime
    <2>1. left[j] = ExecTime[j] - ThisExecTime + x[j] /\ TimeCounter + ThisExecTime - x[j] = elapsed
      BY <1>1 DEF Taken
    <2>2. x[j] <= ThisExecTime /\ x[j] > 0
      BY <1>0, <1>1 DEF Taken
    <2> QED  BY <1>1, <2>1, <2>2
  <1>3. left \in [Job -> Int] /\ need \in [Job -> Nat] /\ arrive \in [Job -> Nat]
    BY DEF IInv, TypeOK, DispatchTypeOK
  <1>4. j \in Ideal!Pending
    <2>1. arrive[j] <= elapsed
      BY <1>0 DEF IInv, StampInv
    <2>2. got[j] < need[j]
      BY <1>2, <1>3 DEF got
    <2> QED  BY <2>1, <2>2 DEF Ideal!Pending, got
  <1>5. got' = [got EXCEPT ![j] = @ + 1]
    <2>1. \A k \in Job : left'[k] = IF k = j THEN left[k] - 1 ELSE left[k]
      BY <1>0, <1>3
    <2>2. \A k \in Job : need[k] - left'[k] = IF k = j THEN (need[k] - left[k]) + 1
                                                       ELSE need[k] - left[k]
      BY <1>3, <2>1
    <2>3. got' = [k \in Job |-> need[k] - left'[k]]
      BY <1>0 DEF got
    <2>4. [got EXCEPT ![j] = @ + 1] = [k \in Job |-> IF k = j THEN (need[k] - left[k]) + 1
                                                              ELSE need[k] - left[k]]
      BY DEF got
    <2> QED  BY <2>2, <2>3, <2>4
  <1>6. ASSUME NEW k \in Ideal!Pending
        PROVE  need[j] - got[j] <= need[k] - got[k]
    <2>1. k \in Job /\ arrive[k] <= elapsed /\ left[k] > 0
      BY <1>3 DEF Ideal!Pending
    <2>2. UnReadyCount > 0 => elapsed < arrive[NextDataIn]
      BY <1>1, <1>2, MainFacts DEF IInv, ClockInv
    <2>3. PICK i \in Slot : QHead <= i /\ i < Coming /\ Data[i] = k
      BY <1>1, <2>1, <2>2, PendingIsQueued
    <2>4. ExecTime[j] <= ExecTime[k] /\ ExecTime[k] \in Nat
      BY <1>1, <2>1, <2>3 DEF IInv, RunningInv, TypeOK
    <2>5. left[j] <= left[k]
      <3>1. CASE i = QHead
        BY <1>1, <2>3, <3>1, RunningIsHead
      <3>2. CASE i # QHead
        <4>1. left[k] = ExecTime[k]
          BY <1>1, <2>3, <3>2, SlotFacts DEF Resting
        <4> QED  BY <1>1, <1>2, <2>4, <4>1
      <3> QED  BY <3>1, <3>2
    <2> QED  BY <1>3, <2>1, <2>5 DEF got
  <1>7. Ideal!Serve(j)
    BY <1>0, <1>4, <1>5 DEF Ideal!Serve, got
  <1> QED  BY <1>6, <1>7 DEF Ideal!PsjfNext, got

(* A unit main waits is one in which the ideal CPU has nothing to serve.    *)
LEMMA IdleIdles ==
  ASSUME IInv, Idle, elapsed' # elapsed
  PROVE  Ideal!PsjfNext
  <1> USE NIsNat
  <1>0. /\ pc = "idle" /\ UnReadyCount > 0 /\ ElementCount = 0
        /\ TimeCounter + ThisExecTime = elapsed
        /\ TimeCounter \in Nat /\ ThisExecTime \in Nat /\ elapsed \in Nat
        /\ arrive[NextDataIn] \in Nat /\ NextDataIn \in Job
        /\ UNCHANGED <<arrive, need, left>>
    BY MainFacts DEF Idle, At, IInv, IndexInv, ClockInv, input, child
  <1>1. ThisExecTime < arrive[NextDataIn] - TimeCounter /\ elapsed' = elapsed + 1
    BY DEF Idle
  <1>2. elapsed < arrive[NextDataIn]
    BY <1>0, <1>1
  <1>3. Ideal!Pending = {}
    <2> SUFFICES ASSUME NEW k \in Job, arrive[k] <= elapsed, need[k] - left[k] < need[k]
                 PROVE  FALSE
      BY DEF Ideal!Pending
    <2>1. left[k] > 0
      BY DEF IInv, TypeOK, DispatchTypeOK
    <2>2. \E i \in Slot : QHead <= i /\ i < Coming /\ Data[i] = k
      BY <1>0, <1>2, <2>1, PendingIsQueued
    <2> QED  BY <1>0, <2>2, MainFacts DEF Slot
  <1> QED  BY <1>0, <1>1, <1>2, <1>3 DEF Ideal!PsjfNext, Ideal!Idle

(* Any other step is one the ideal CPU does not see.                        *)
LEMMA MainIsUnseen ==
  ASSUME IInv, MainStep, elapsed' = elapsed
  PROVE  UNCHANGED <<arrive, need, left>>
  <1>1. CASE Fork
    <2>1. PICK u \in Job : u = NextDataIn
      BY <1>1, MainFacts DEF Fork, Due
    <2>2. /\ pc = "loop" /\ UnReadyCount > 0 /\ Coming \in Slot /\ Data[Coming] = u
          /\ Coming <= Coming
      BY <1>1, <2>1, MainFacts DEF Fork, Due, At
    <2>3. ExecTime[u] = left[u]
      BY <2>2, SlotFacts DEF ToCome
    <2>4. left' = [left EXCEPT ![u] = left[u]]
      BY <1>1, <2>1, <2>3 DEF Fork, Spawn
    <2>5. left' = left
      BY <2>4 DEF IInv, TypeOK, DispatchTypeOK
    <2> QED  BY <1>1, <2>5 DEF Fork, input
  <1>2. CASE ~Fork
    BY <1>2 DEF MainStep, ReadInput, ForkFails, NotDue, Idle, Select, SendWrite, SendRaise,
                SendCharge, WaitPid, Return, Send, Raise, Reap, dispatchVars, input, child
  <1> QED  BY <1>1, <1>2

(* A run of psjf.c starts as one of the ideal CPU does.                     *)
LEMMA IdealInit == Init => Ideal!Init
  <1> SUFFICES ASSUME Init PROVE Ideal!Init
    OBVIOUS
  <1>1. DispatchTypeOK /\ left = need /\ elapsed = 0
    BY DispatchInitType DEF Init, DispatchInit
  <1>2. \A j \in Job : need[j] - left[j] = 0
    BY <1>1 DEF DispatchTypeOK
  <1>3. [j \in Job |-> need[j] - left[j]] = [j \in Job |-> 0]
    BY <1>2
  <1> QED  BY <1>1, <1>3 DEF Ideal!Init, DispatchTypeOK

(* Every step is a unit of the ideal CPU or no step of it.                  *)
LEMMA IdealStep == IInv /\ [Next]_vars => [Ideal!PsjfNext]_(Ideal!vars)
  <1> SUFFICES ASSUME IInv, [Next]_vars PROVE [Ideal!PsjfNext]_(Ideal!vars)
    OBVIOUS
  <1>1. UNCHANGED <<arrive, need, left, elapsed>> => UNCHANGED Ideal!vars
    BY DEF Ideal!vars
  <1>2. CASE MainStep
    <2>1. CASE elapsed' = elapsed
      BY <1>1, <1>2, <2>1, MainIsUnseen
    <2>2. CASE elapsed' # elapsed
      <3>1. Idle
        BY <1>2, <2>2 DEF MainStep, ReadInput, Fork, ForkFails, NotDue, Select, SendWrite,
                          SendRaise, SendCharge, WaitPid, Return, dispatchVars
      <3> QED  BY <2>2, <3>1, IdleIdles
    <2> QED  BY <2>1, <2>2
  <1>3. ASSUME NEW j \in Job, ChildStep(j)
        PROVE  [Ideal!PsjfNext]_(Ideal!vars)
    <2>1. CASE BurnUnit(j)
      BY <1>3, <2>1, BurnUnitServes DEF ChildStep
    <2>2. CASE ~BurnUnit(j)
      <3>1. UNCHANGED <<arrive, need, left, elapsed>>
        BY <1>3, <2>2 DEF ChildStep, ChildProgram, Exec, Scanf, ScanfEof, Finish, Yield, input
      <3> QED  BY <1>1, <3>1
    <2> QED  BY <2>1, <2>2
  <1>4. CASE UNCHANGED vars
    BY <1>1, <1>4 DEF vars, dispatchVars, input, child
  <1> QED  BY <1>2, <1>3, <1>4 DEF Next

(* Unit by unit, psjf.c and its children behave as a CPU that always serves *)
(* a job with the shortest remaining time and idles only when no job that   *)
(* has arrived is unfinished: the processes, the pipes, the priorities and  *)
(* main's predictions add up to the policy.                                 *)
THEOREM PsjfIsIdeal == Spec => ImplementsPsjf
  BY IdealInit, IdealStep, PsjfInvariance, PTL DEF Spec, ImplementsPsjf, Ideal!PsjfSpec
=============================================================================
