---------------------------- MODULE ModulesProofs ---------------------------
(***************************************************************************)
(* The safety properties of module Modules hold in every behaviour,        *)
(* whenever the scripts are started, whichever init function fails and in  *)
(* whatever order the programs open, map, close and are killed.            *)
(***************************************************************************)
EXTENDS Modules, TLAPS, SequenceTheorems

ProgramState == {"off", "open", "serving", "mapped", "touched", "done",
                 "closed", "exiting", "stopped"}

ProgramRecord ==
  [pc : ProgramState, fd : BOOLEAN, vma : BOOLEAN, early : BOOLEAN, pte : BOOLEAN,
   count : Int, reference : Int]

ModulesTypeOK ==
  /\ loaded \in [Module -> {"no", "coming", "yes", "dead"}]
  /\ loaded["ksocket"] \in {"no", "yes"}
  /\ misc \in Seq(Device)
  /\ debugfs \in [Device -> {"none", "live", "stale"}]
  /\ listening \in BOOLEAN
  /\ prog \in [Program -> ProgramRecord]

\* What a program holds at each place of its code, and what the page's two
\* counters say of it.
ProgramSound(s) ==
  /\ s.pc \in {"open", "serving", "mapped", "touched", "done"} => s.fd
  /\ s.pc \in {"off", "open", "serving", "exiting"} => ~s.vma
  /\ s.pc = "mapped" => s.vma /\ ~s.pte
  /\ s.pte => s.vma
  /\ s.reference = IF s.vma THEN 1 ELSE 0
  /\ s.count = (IF s.fd \/ s.vma THEN 1 ELSE 0) + (IF s.pte THEN 1 ELSE 0)

ProgramsInv == \A p \in Program : ProgramSound(prog[p])

\* Who holds a file whose module is gone, or not fully there yet, has opened it
\* in the middle of the init function.
FilesInv ==
  \A p \in Program : HasFile(p) =>
    /\ loaded[Dev(p)] = "no" => prog[p].early /\ Dev(p) \in stale
    /\ loaded[Dev(p)] = "coming" => prog[p].early

\* The devices use ksocket; the list has one entry of a device at most, and
\* only a stale one belongs to a module that is not loaded.
ListInv ==
  /\ \A d \in Device : loaded[d] # "no" => loaded["ksocket"] = "yes"
  /\ \A i, k \in DOMAIN misc : misc[i] = misc[k] => i = k
  /\ \A d \in Range(misc) \ stale : loaded[d] # "no"

\* What an unloaded module may leave behind.
LeftInv ==
  /\ \A d \in Device :
       loaded[d] = "no" /\ debugfs[d] # "stale" => d \notin Range(misc) /\ debugfs[d] = "none"
  /\ loaded["master_device"] \in {"no", "coming"} => ~listening

(* The inductive invariant.                                                *)
IInv ==
  /\ ModulesTypeOK
  /\ ProgramsInv
  /\ FilesInv
  /\ ListInv
  /\ LeftInv

-----------------------------------------------------------------------------
OneEach(s) == \A i, k \in DOMAIN s : s[i] = s[k] => i = k

(* misc_register() puts a new entry in front.                              *)
LEMMA Pushed ==
  ASSUME NEW s \in Seq(Device), OneEach(s), NEW d \in Device, d \notin Range(s)
  PROVE  /\ <<d>> \o s \in Seq(Device)
         /\ OneEach(<<d>> \o s)
         /\ Range(<<d>> \o s) = Range(s) \cup {d}
  <1> DEFINE r == <<d>> \o s
  <1>1. /\ r \in Seq(Device) /\ Len(r) = Len(s) + 1 /\ DOMAIN r = 1 .. Len(s) + 1
        /\ r[1] = d /\ \A i \in 2 .. Len(s) + 1 : r[i] = s[i - 1]
    OBVIOUS
  <1>2. DOMAIN s = 1 .. Len(s) /\ Len(s) \in Nat
    OBVIOUS
  <1>3. \A i \in 1 .. Len(s) : r[i + 1] = s[i] /\ i + 1 \in DOMAIN r
    BY <1>1, <1>2
  <1>4. \A i \in DOMAIN r : i = 1 \/ (i - 1 \in DOMAIN s /\ r[i] = s[i - 1])
    BY <1>1, <1>2
  <1>5. \A i \in DOMAIN s : s[i] # d
    BY DEF Range
  <1>6. OneEach(r)
    <2> SUFFICES ASSUME NEW i \in DOMAIN r, NEW k \in DOMAIN r, r[i] = r[k] PROVE i = k
      BY DEF OneEach
    <2>1. CASE i = 1 \/ k = 1
      BY <1>1, <1>4, <1>5, <2>1
    <2>2. CASE i # 1 /\ k # 1
      <3>1. i - 1 = k - 1
        BY <1>4, <2>2 DEF OneEach
      <3> QED  BY <1>1, <1>2, <3>1
    <2> QED  BY <2>1, <2>2
  <1>7. Range(r) = Range(s) \cup {d}
    <2>1. 1 \in DOMAIN r
      BY <1>1, <1>2
    <2>2. ASSUME NEW i \in DOMAIN r PROVE r[i] \in Range(s) \cup {d}
      BY <1>1, <1>4 DEF Range
    <2>3. ASSUME NEW i \in DOMAIN s PROVE s[i] \in Range(r)
      BY <1>2, <1>3 DEF Range
    <2> QED  BY <1>1, <2>1, <2>2, <2>3 DEF Range
  <1> QED  BY <1>1, <1>6, <1>7

(* The entries before the i-th and those after it are all but one.         *)
LEMMA OneLess ==
  ASSUME NEW i \in Int, NEW n \in Int
  PROVE  (i - 1) + (n - i) = n - 1
  OBVIOUS

(* misc_deregister() takes one entry out.                                  *)
LEMMA Deleted ==
  ASSUME NEW s \in Seq(Device), OneEach(s), NEW i \in DOMAIN s,
         NEW r, r = SubSeq(s, 1, i - 1) \o SubSeq(s, i + 1, Len(s))
  PROVE  /\ r \in Seq(Device)
         /\ OneEach(r)
         /\ Range(r) = Range(s) \ {s[i]}
  <1>1. /\ DOMAIN s = 1 .. Len(s) /\ Len(s) \in Nat /\ i \in 1 .. Len(s)
        /\ \A k \in 1 .. Len(s) : s[k] \in Device
    OBVIOUS
  <1> DEFINE low == SubSeq(s, 1, i - 1)
             high == SubSeq(s, i + 1, Len(s))
  <1>2. /\ low \in Seq(Device) /\ Len(low) = i - 1
        /\ \A k \in 1 .. i - 1 : low[k] = s[k]
    <2>1. \A k \in 1 .. i - 1 : s[k] \in Device
      BY <1>1
    <2>2. /\ low \in Seq(Device) /\ Len(low) = IF 1 <= i - 1 THEN i - 1 - 1 + 1 ELSE 0
          /\ \A k \in 1 .. i - 1 - 1 + 1 : low[k] = s[1 + k - 1]
      BY <1>1, <2>1, SubSeqProperties
    <2> QED  BY <1>1, <2>2
  <1>3. /\ high \in Seq(Device) /\ Len(high) = Len(s) - i
        /\ \A k \in 1 .. Len(s) - i : high[k] = s[k + i]
    <2>1. \A k \in i + 1 .. Len(s) : s[k] \in Device
      BY <1>1
    <2>2. /\ high \in Seq(Device)
          /\ Len(high) = IF i + 1 <= Len(s) THEN Len(s) - (i + 1) + 1 ELSE 0
          /\ \A k \in 1 .. Len(s) - (i + 1) + 1 : high[k] = s[i + 1 + k - 1]
      BY <1>1, <2>1, SubSeqProperties
    <2> QED  BY <1>1, <2>2
  <1>4. /\ r \in Seq(Device) /\ DOMAIN r = 1 .. Len(s) - 1
        /\ \A k \in 1 .. i - 1 : r[k] = s[k]
        /\ \A k \in i .. Len(s) - 1 : r[k] = s[k + 1]
    <2>1. r = low \o high
      OBVIOUS
    <2> HIDE DEF low, high
    <2>2. /\ r \in Seq(Device) /\ Len(r) = Len(low) + Len(high)
          /\ \A k \in 1 .. Len(low) + Len(high) :
               r[k] = IF k <= Len(low) THEN low[k] ELSE high[k - Len(low)]
      <3>1. low \in Seq(Device) /\ high \in Seq(Device)
        BY <1>2, <1>3
      <3> QED  BY <2>1, <3>1, ConcatProperties, ZenonT(30)
    <2>3. Len(r) = Len(s) - 1 /\ DOMAIN r = 1 .. Len(s) - 1
      <3>1. i \in Int /\ Len(s) \in Int
        BY <1>1
      <3>2. Len(r) = (i - 1) + (Len(s) - i)
        BY <1>2, <1>3, <2>2, Zenon
      <3>3. Len(r) = Len(s) - 1
        BY <3>1, <3>2, OneLess, Zenon
      <3>4. DOMAIN r = 1 .. Len(r)
        BY <2>2, LenProperties, Zenon
      <3> QED  BY <3>3, <3>4, Zenon
    <2>4. \A k \in 1 .. i - 1 : r[k] = s[k]
      BY <1>1, <1>2, <1>3, <2>2
    <2>5. \A k \in i .. Len(s) - 1 : r[k] = s[k + 1]
      <3> SUFFICES ASSUME NEW k \in i .. Len(s) - 1 PROVE r[k] = s[k + 1]
        OBVIOUS
      <3>1. i \in Int /\ Len(s) \in Int /\ k \in Int /\ i <= k /\ k <= Len(s) - 1 /\ 1 <= i
        BY <1>1
      <3>2. k \in 1 .. Len(low) + Len(high) /\ ~(k <= Len(low)) /\ k - Len(low) = k - (i - 1)
        BY <1>2, <1>3, <3>1
      <3>3. r[k] = high[k - (i - 1)]
        BY <2>2, <3>2
      <3>4. k - (i - 1) \in 1 .. Len(s) - i /\ k - (i - 1) + i = k + 1
        BY <3>1
      <3> QED  BY <1>3, <3>3, <3>4
    <2> QED  BY <2>2, <2>3, <2>4, <2>5
  <1> HIDE DEF low, high
  <1> DEFINE up(k) == IF k < i THEN k ELSE k + 1
  <1>5. ASSUME NEW k \in DOMAIN r
        PROVE  k \in Int /\ up(k) \in DOMAIN s /\ up(k) # i /\ r[k] = s[up(k)]
    <2>1. k \in Int /\ 1 <= k /\ k <= Len(s) - 1 /\ i \in Int /\ 1 <= i /\ i <= Len(s) /\ Len(s) \in Int
      BY <1>1, <1>4
    <2>2. CASE k < i
      <3>1. k \in 1 .. i - 1 /\ k \in 1 .. Len(s) /\ k # i
        BY <2>1, <2>2
      <3> QED  BY <1>1, <1>4, <2>1, <2>2, <3>1
    <2>3. CASE ~(k < i)
      <3>1. k \in i .. Len(s) - 1 /\ k + 1 \in 1 .. Len(s) /\ k + 1 # i
        BY <2>1, <2>3
      <3> QED  BY <1>1, <1>4, <2>1, <2>3, <3>1
    <2> QED  BY <2>2, <2>3
  <1>6. ASSUME NEW m \in DOMAIN s, m # i
        PROVE  \E k \in DOMAIN r : r[k] = s[m]
    <2>1. m \in Int /\ 1 <= m /\ m <= Len(s) /\ i \in Int /\ 1 <= i /\ i <= Len(s) /\ Len(s) \in Int
      BY <1>1
    <2>2. CASE m < i
      <3>1. m \in 1 .. i - 1 /\ m \in 1 .. Len(s) - 1
        BY <2>1, <2>2
      <3> QED  BY <1>4, <3>1
    <2>3. CASE m > i
      <3>1. PICK k \in i .. Len(s) - 1 : k \in 1 .. Len(s) - 1 /\ k + 1 = m
        <4>1. m - 1 \in i .. Len(s) - 1 /\ m - 1 \in 1 .. Len(s) - 1 /\ (m - 1) + 1 = m
          BY <2>1, <2>3
        <4> QED  BY <4>1
      <3>2. k \in DOMAIN r
        BY <1>4, <3>1
      <3>3. r[k] = s[m]
        BY <1>4, <3>1
      <3> QED  BY <3>2, <3>3
    <2>4. m # i
      BY <1>6
    <2>5. m < i \/ m > i
      BY <2>1, <2>4
    <2> QED  BY <2>2, <2>3, <2>5
  <1>7. OneEach(r)
    <2> SUFFICES ASSUME NEW a \in DOMAIN r, NEW b \in DOMAIN r, r[a] = r[b] PROVE a = b
      BY DEF OneEach
    <2>1. up(a) = up(b) /\ a \in Int /\ b \in Int
      BY <1>5 DEF OneEach
    <2> QED  BY <1>1, <2>1
  <1>8. Range(r) = Range(s) \ {s[i]}
    <2>1. ASSUME NEW k \in DOMAIN r PROVE r[k] \in Range(s) \ {s[i]}
      BY <1>5 DEF OneEach, Range
    <2>2. ASSUME NEW m \in DOMAIN s, m # i PROVE s[m] \in Range(r)
      BY <1>6, <2>2 DEF Range
    <2> QED  BY <2>1, <2>2 DEF Range
  <1> QED  BY <1>4, <1>7, <1>8

(* Before any script has run.                                              *)
LEMMA InitInv == Init => IInv
  <1> SUFFICES ASSUME Init PROVE IInv
    OBVIOUS
  <1> USE DEF Init
  <1>1. NotRunning \in ProgramRecord /\ ProgramSound(NotRunning)
    BY DEF NotRunning, ProgramRecord, ProgramState, ProgramSound
  <1>2. ModulesTypeOK
    <2>1. loaded \in [Module -> {"no", "coming", "yes", "dead"}] /\ loaded["ksocket"] = "no"
      BY DEF Module
    <2>2. misc \in Seq(Device) /\ debugfs \in [Device -> {"none", "live", "stale"}]
      OBVIOUS
    <2>3. prog \in [Program -> ProgramRecord]
      BY <1>1
    <2> QED  BY <2>1, <2>2, <2>3 DEF ModulesTypeOK
  <1>3. ProgramsInv /\ FilesInv
    BY <1>1 DEF ProgramsInv, FilesInv, HasFile, NotRunning
  <1>4. ListInv /\ LeftInv
    BY DEF ListInv, LeftInv, Range, Device, Module
  <1> QED  BY <1>2, <1>3, <1>4 DEF IInv

-----------------------------------------------------------------------------
(* A step of a program that leaves the modules alone and holds a file after *)
(* it only if it may.                                                       *)
LEMMA ProgramStepInv ==
  ASSUME IInv, NEW p \in Program, NEW r \in ProgramRecord,
         prog' = [prog EXCEPT ![p] = r],
         UNCHANGED <<loaded, misc, stale, debugfs, listening>>,
         ProgramSound(r),
         r.fd \/ r.vma => /\ loaded[Dev(p)] = "no" => r.early /\ Dev(p) \in stale
                          /\ loaded[Dev(p)] = "coming" => r.early
  PROVE  IInv'
  <1>0. prog \in [Program -> ProgramRecord]
    BY DEF IInv, ModulesTypeOK
  <1>1. /\ prog' \in [Program -> ProgramRecord] /\ prog'[p] = r
        /\ \A q \in Program : q # p => prog'[q] = prog[q]
    BY <1>0
  <1>2. ModulesTypeOK'
    BY <1>1 DEF IInv, ModulesTypeOK
  <1>3. ProgramsInv'
    BY <1>1 DEF IInv, ProgramsInv, ProgramSound
  <1>4. FilesInv'
    BY <1>1 DEF IInv, FilesInv, HasFile
  <1>5. ListInv' /\ LeftInv'
    BY DEF IInv, ListInv, LeftInv, Range
  <1> QED  BY <1>2, <1>3, <1>4, <1>5 DEF IInv

(* What the invariant says of one program, for the steps below.             *)
LEMMA ProgramFacts ==
  ASSUME IInv, NEW p \in Program
  PROVE  /\ prog[p] \in ProgramRecord
         /\ ProgramSound(prog[p])
         /\ prog[p].fd \/ prog[p].vma =>
              /\ loaded[Dev(p)] = "no" => prog[p].early /\ Dev(p) \in stale
              /\ loaded[Dev(p)] = "coming" => prog[p].early
  BY DEF IInv, ModulesTypeOK, ProgramsInv, FilesInv, HasFile

(* open().                                                                  *)
LEMMA OpensInv == ASSUME IInv, NEW p \in Program, Opens(p) PROVE IInv'
  <1> DEFINE b == loaded[Dev(p)] = "coming"
             r == [NotRunning EXCEPT !.pc = "open", !.fd = TRUE, !.count = 1, !.early = b]
  <1>1. prog' = [prog EXCEPT ![p] = r] /\ UNCHANGED <<loaded, misc, stale, debugfs, listening>>
    BY DEF Opens, modVars
  <1>2. loaded[Dev(p)] # "no"
    BY DEF IInv, ListInv, Opens
  <1>3. b \in BOOLEAN /\ (loaded[Dev(p)] = "coming" => b)
    OBVIOUS
  <1> HIDE DEF b
  <1>4. NotRunning \in ProgramRecord
    BY DEF NotRunning, ProgramRecord, ProgramState
  <1>5. /\ r \in ProgramRecord /\ r.pc = "open" /\ r.fd /\ ~r.vma
        /\ r.early = b /\ ~r.pte /\ r.count = 1 /\ r.reference = 0
    <2>1. PICK n \in Int : n = 1
      OBVIOUS
    <2>2. PICK o \in ProgramState : o = "open"
      BY DEF ProgramState
    <2>3. PICK s \in ProgramRecord : s = NotRunning
      BY <1>4
    <2>4. r = [s EXCEPT !.pc = o, !.fd = TRUE, !.count = n, !.early = b]
      BY <2>1, <2>2, <2>3
    <2> HIDE DEF r
    <2>5. /\ r \in ProgramRecord /\ r.pc = o /\ r.fd /\ r.vma = s.vma /\ r.early = b
          /\ r.pte = s.pte /\ r.count = n /\ r.reference = s.reference
      BY <1>3, <2>4 DEF ProgramRecord
    <2> QED  BY <2>1, <2>2, <2>3, <2>5 DEF NotRunning
  <1> HIDE DEF r
  <1>6. ProgramSound(r)
    BY <1>5 DEF ProgramSound
  <1> QED  BY <1>1, <1>2, <1>3, <1>5, <1>6, ProgramStepInv

(* A process the kernel stops keeps what it holds.                          *)
LEMMA StopsInv ==
  ASSUME IInv, NEW p \in Program, OpenStops(p) \/ Stops(p)
  PROVE  IInv'
  <1> DEFINE r == [prog[p] EXCEPT !.pc = "stopped"]
  <1>1. prog' = [prog EXCEPT ![p] = r] /\ UNCHANGED <<loaded, misc, stale, debugfs, listening>>
    BY DEF OpenStops, Stops, modVars
  <1>2. /\ prog[p] \in ProgramRecord
        /\ ProgramSound(prog[p])
        /\ prog[p].fd \/ prog[p].vma =>
             /\ loaded[Dev(p)] = "no" => prog[p].early /\ Dev(p) \in stale
             /\ loaded[Dev(p)] = "coming" => prog[p].early
    BY ProgramFacts
  <1>3. /\ r \in ProgramRecord /\ r.pc = "stopped" /\ r.fd = prog[p].fd /\ r.vma = prog[p].vma
        /\ r.early = prog[p].early /\ r.pte = prog[p].pte /\ r.count = prog[p].count
        /\ r.reference = prog[p].reference
    BY <1>2 DEF ProgramRecord, ProgramState
  <1> HIDE DEF r
  <1>4. ProgramSound(r)
    BY <1>2, <1>3 DEF ProgramSound
  <1> QED  BY <1>1, <1>2, <1>3, <1>4, ProgramStepInv

(* A step of a program that has its file: it sets some of the fields, keeps *)
(* early, and does not get hold of a file anew.                             *)
LEMMA StepInv ==
  ASSUME IInv, NEW p \in Program, NEW from, NEW to \in ProgramState, NEW fields \in ProgramRecord,
         Step(p, from, to, fields),
         fields.early = prog[p].early,
         fields.fd \/ fields.vma => HasFile(p),
         ProgramSound([fields EXCEPT !.pc = to])
  PROVE  IInv'
  <1> DEFINE r == [fields EXCEPT !.pc = to]
  <1>1. prog' = [prog EXCEPT ![p] = r] /\ UNCHANGED <<loaded, misc, stale, debugfs, listening>>
    BY DEF Step, modVars
  <1>2. r \in ProgramRecord /\ r.fd = fields.fd /\ r.vma = fields.vma /\ r.early = fields.early
    BY DEF ProgramRecord
  <1>3. r.fd \/ r.vma => /\ loaded[Dev(p)] = "no" => r.early /\ Dev(p) \in stale
                         /\ loaded[Dev(p)] = "coming" => r.early
    BY <1>2, ProgramFacts DEF HasFile
  <1>4. ProgramSound(r)
    OBVIOUS
  <1> HIDE DEF r
  <1> QED  BY <1>1, <1>2, <1>3, <1>4, ProgramStepInv

(* Setting the place leaves the other fields alone.                         *)
LEMMA SetPc ==
  ASSUME NEW s \in ProgramRecord, NEW to \in ProgramState
  PROVE  /\ [s EXCEPT !.pc = to].pc = to /\ [s EXCEPT !.pc = to].fd = s.fd
         /\ [s EXCEPT !.pc = to].vma = s.vma /\ [s EXCEPT !.pc = to].pte = s.pte
         /\ [s EXCEPT !.pc = to].count = s.count
         /\ [s EXCEPT !.pc = to].reference = s.reference
  BY DEF ProgramRecord

(* accept() and the end of the connection leave the file as it is.          *)
LEMMA SocketStepInv == IInv /\ (Accepts \/ Disconnects) => IInv'
  <1> SUFFICES ASSUME IInv, Accepts \/ Disconnects PROVE IInv'
    OBVIOUS
  <1> DEFINE s == prog["master"]
  <1>1. "master" \in Program
    BY DEF Program
  <1>2. s \in ProgramRecord /\ ProgramSound(s)
    BY <1>1, ProgramFacts
  <1>3. CASE Accepts
    <2>1. Step("master", {"open"}, "serving", s) /\ s.pc = "open"
      BY <1>3 DEF Accepts, Step
    <2>2. "serving" \in ProgramState
      BY DEF ProgramState
    <2> HIDE DEF s
    <2>3. ProgramSound([s EXCEPT !.pc = "serving"])
      BY <1>2, <2>1, <2>2, SetPc DEF ProgramSound
    <2> USE DEF s
    <2> QED  BY <1>1, <1>2, <2>1, <2>2, <2>3, StepInv DEF HasFile
  <1>4. CASE Disconnects
    <2>1. Step("master", {"serving", "touched"}, "done", s) /\ s.pc \in {"serving", "touched"}
      BY <1>4 DEF Disconnects, Step
    <2>2. "done" \in ProgramState
      BY DEF ProgramState
    <2> HIDE DEF s
    <2>3. ProgramSound([s EXCEPT !.pc = "done"])
      BY <1>2, <2>1, <2>2, SetPc DEF ProgramSound
    <2> USE DEF s
    <2> QED  BY <1>1, <1>2, <2>1, <2>2, <2>3, StepInv DEF HasFile
  <1> QED  BY <1>3, <1>4

(* mmap_open(): the mapping is counted.                                     *)
LEMMA MmapOpen ==
  ASSUME NEW s \in ProgramRecord, NEW r, r = mmap_open(s)
  PROVE  /\ r \in ProgramRecord /\ r.fd = s.fd /\ r.vma /\ r.pte = s.pte
         /\ r.early = s.early /\ r.count = s.count /\ r.reference = s.reference + 1
  <1>1. PICK n \in Int : n = s.reference + 1
    BY DEF ProgramRecord
  <1>2. r = [s EXCEPT !.vma = TRUE, !.reference = n]
    BY <1>1 DEF mmap_open
  <1>3. /\ r \in ProgramRecord /\ r.fd = s.fd /\ r.vma /\ r.pte = s.pte
        /\ r.early = s.early /\ r.count = s.count /\ r.reference = n
    BY <1>2 DEF ProgramRecord
  <1> QED  BY <1>1, <1>3

(* The page enters the page table, with get_page().                         *)
LEMMA PageIn ==
  ASSUME NEW s \in ProgramRecord, NEW r, r = [s EXCEPT !.pte = TRUE, !.count = @ + 1]
  PROVE  /\ r \in ProgramRecord /\ r.fd = s.fd /\ r.vma = s.vma /\ r.pte
         /\ r.early = s.early /\ r.count = s.count + 1 /\ r.reference = s.reference
  <1>1. PICK n \in Int : n = s.count + 1
    BY DEF ProgramRecord
  <1>2. r = [s EXCEPT !.pte = TRUE, !.count = n]
    BY <1>1
  <1>3. /\ r \in ProgramRecord /\ r.fd = s.fd /\ r.vma = s.vma /\ r.pte
        /\ r.early = s.early /\ r.count = n /\ r.reference = s.reference
    BY <1>2 DEF ProgramRecord
  <1> QED  BY <1>1, <1>3

(* The release function frees the page when nothing holds the file.         *)
LEMMA ReleasedFacts ==
  ASSUME NEW s \in ProgramRecord, NEW r, r = Released(s)
  PROVE  /\ r \in ProgramRecord /\ r.fd = s.fd /\ r.vma = s.vma /\ r.pte = s.pte
         /\ r.early = s.early /\ r.reference = s.reference
         /\ r.count = s.count - (IF s.fd \/ s.vma THEN 0 ELSE 1)
  <1>1. CASE s.fd \/ s.vma
    <2>1. r = s
      BY <1>1 DEF Released
    <2>2. s.count \in Int
      BY DEF ProgramRecord
    <2> QED  BY <1>1, <2>1, <2>2
  <1>2. CASE ~(s.fd \/ s.vma)
    <2>1. PICK n \in Int : n = s.count - 1
      BY DEF ProgramRecord
    <2>2. r = [s EXCEPT !.count = n]
      BY <1>2, <2>1 DEF Released
    <2>3. /\ r \in ProgramRecord /\ r.fd = s.fd /\ r.vma = s.vma /\ r.pte = s.pte
          /\ r.early = s.early /\ r.count = n /\ r.reference = s.reference
      BY <2>2 DEF ProgramRecord
    <2> QED  BY <1>2, <2>1, <2>3
  <1> QED  BY <1>1, <1>2

(* mmap_close(): the mapping and its page go.                               *)
LEMMA MmapClose ==
  ASSUME NEW s \in ProgramRecord, NEW r, r = mmap_close(s)
  PROVE  /\ r \in ProgramRecord /\ r.fd = s.fd /\ ~r.vma /\ ~r.pte /\ r.early = s.early
         /\ r.count = s.count - (IF s.pte THEN 1 ELSE 0) /\ r.reference = s.reference - 1
  <1>1. PICK n \in Int : n = s.reference - 1
    BY DEF ProgramRecord
  <1>2. PICK m \in Int : m = s.count - (IF s.pte THEN 1 ELSE 0)
    BY DEF ProgramRecord
  <1>3. r = [s EXCEPT !.vma = FALSE, !.pte = FALSE, !.reference = n, !.count = m]
    BY <1>1, <1>2 DEF mmap_close
  <1>4. /\ r \in ProgramRecord /\ r.fd = s.fd /\ ~r.vma /\ ~r.pte /\ r.early = s.early
        /\ r.count = m /\ r.reference = n
    BY <1>3 DEF ProgramRecord
  <1> QED  BY <1>1, <1>2, <1>4

(* mmap() and the first access to the page.                                 *)
LEMMA MapInv ==
  ASSUME IInv, NEW p \in Program, mmap_mmap(p) \/ mmap_fault(p)
  PROVE  IInv'
  <1> DEFINE s == prog[p]
  <1>1. s \in ProgramRecord /\ ProgramSound(s)
    BY ProgramFacts
  <1>2. CASE mmap_mmap(p)
    <2> DEFINE r == mmap_open(s)
               from == IF p = "master" THEN {"serving"} ELSE {"open"}
    <2>1. Step(p, from, "mapped", r) /\ s.pc \in {"serving", "open"}
      BY <1>2 DEF mmap_mmap, Step
    <2>2. "mapped" \in ProgramState
      BY DEF ProgramState
    <2> HIDE DEF s, from
    <2>3. /\ r \in ProgramRecord /\ r.fd = s.fd /\ r.vma /\ r.pte = s.pte /\ r.early = s.early
          /\ r.count = s.count /\ r.reference = s.reference + 1
      BY <1>1, MmapOpen
    <2> HIDE DEF r
    <2>4. ProgramSound([r EXCEPT !.pc = "mapped"])
      BY <1>1, <2>1, <2>2, <2>3, SetPc DEF ProgramSound
    <2>5. s.fd
      BY <1>1, <2>1 DEF ProgramSound
    <2>6. HasFile(p) /\ r.early = prog[p].early
      BY <2>3, <2>5 DEF HasFile, s
    <2> QED  BY <2>1, <2>2, <2>3, <2>4, <2>6, StepInv
  <1>3. CASE mmap_fault(p)
    <2> DEFINE r == [s EXCEPT !.pte = TRUE, !.count = @ + 1]
    <2>1. Step(p, {"mapped"}, "touched", r) /\ s.pc = "mapped"
      BY <1>3 DEF mmap_fault, Step
    <2>2. "touched" \in ProgramState
      BY DEF ProgramState
    <2> HIDE DEF s
    <2>3. /\ r \in ProgramRecord /\ r.fd = s.fd /\ r.vma = s.vma /\ r.pte /\ r.early = s.early
          /\ r.count = s.count + 1 /\ r.reference = s.reference
      BY <1>1, PageIn
    <2> HIDE DEF r
    <2>4. ProgramSound([r EXCEPT !.pc = "touched"])
      BY <1>1, <2>1, <2>2, <2>3, SetPc DEF ProgramSound
    <2>5. HasFile(p) /\ r.early = prog[p].early
      BY <1>1, <2>1, <2>3 DEF HasFile, ProgramSound, s
    <2> QED  BY <2>1, <2>2, <2>3, <2>4, <2>5, StepInv
  <1> QED  BY <1>2, <1>3

(* close() of the descriptor, with or without a mapping left.               *)
LEMMA CloseFd ==
  ASSUME NEW s \in ProgramRecord, ProgramSound(s), s.fd,
         NEW to \in {"closed", "off"}, to = "off" => ~s.vma,
         NEW r, r = Released([s EXCEPT !.fd = FALSE])
  PROVE  /\ r \in ProgramRecord /\ r.early = s.early /\ r.fd = FALSE /\ r.vma = s.vma
         /\ ProgramSound([r EXCEPT !.pc = to])
  <1> DEFINE c == [s EXCEPT !.fd = FALSE]
  <1>1. /\ c \in ProgramRecord /\ c.fd = FALSE /\ c.vma = s.vma /\ c.pte = s.pte /\ c.early = s.early
        /\ c.count = s.count /\ c.reference = s.reference
    BY DEF ProgramRecord
  <1>2. r = Released(c)
    OBVIOUS
  <1> HIDE DEF c
  <1>3. /\ r \in ProgramRecord /\ r.fd = FALSE /\ r.vma = s.vma /\ r.pte = s.pte /\ r.early = s.early
        /\ r.count = s.count - (IF s.vma THEN 0 ELSE 1) /\ r.reference = s.reference
    <2>1. /\ r \in ProgramRecord /\ r.fd = c.fd /\ r.vma = c.vma /\ r.pte = c.pte
          /\ r.early = c.early /\ r.reference = c.reference
          /\ r.count = c.count - (IF c.fd \/ c.vma THEN 0 ELSE 1)
      BY <1>1, <1>2, ReleasedFacts
    <2> QED  BY <1>1, <2>1
  <1>4. to \in ProgramState
    BY DEF ProgramState
  <1>5. ProgramSound([r EXCEPT !.pc = to])
    BY <1>3, <1>4, SetPc DEF ProgramSound
  <1> QED  BY <1>3, <1>5

(* close() by a program, and the closing of its files when it has ended.    *)
LEMMA ClosesInv ==
  ASSUME IInv, NEW p \in Program, Closes(p) \/ FilesClosed(p)
  PROVE  IInv'
  <1> DEFINE s == prog[p]
  <1>1. s \in ProgramRecord /\ ProgramSound(s)
    BY ProgramFacts
  <1>2. CASE Closes(p)
    <2> DEFINE r == Released([s EXCEPT !.fd = FALSE])
               from == IF p = "master" THEN {"done"} ELSE {"open", "touched"}
    <2>1. Step(p, from, "closed", r) /\ s.pc \in {"done", "open", "touched"}
      BY <1>2 DEF Closes, Step
    <2>2. s.fd
      BY <1>1, <2>1 DEF ProgramSound
    <2> HIDE DEF s, from
    <2>3. PICK u : u = r
      OBVIOUS
    <2>4. /\ u \in ProgramRecord /\ u.early = s.early /\ u.fd = FALSE /\ u.vma = s.vma
          /\ ProgramSound([u EXCEPT !.pc = "closed"])
      BY <1>1, <2>2, <2>3, CloseFd
    <2>5. Step(p, from, "closed", u) /\ "closed" \in ProgramState
      BY <2>1, <2>3 DEF ProgramState
    <2>6. HasFile(p) /\ u.early = prog[p].early
      BY <2>2, <2>4 DEF HasFile, s
    <2> QED  BY <2>4, <2>5, <2>6, StepInv
  <1>3. CASE FilesClosed(p)
    <2> DEFINE r == IF s.fd THEN Released([s EXCEPT !.fd = FALSE]) ELSE s
    <2>1. Step(p, {"exiting"}, "off", r) /\ s.pc = "exiting"
      BY <1>3 DEF FilesClosed, Step
    <2>2. ~s.vma /\ ~s.pte
      BY <1>1, <2>1 DEF ProgramSound
    <2> HIDE DEF s
    <2>3. PICK u : u = r
      OBVIOUS
    <2>4. /\ u \in ProgramRecord /\ u.early = s.early /\ ~u.fd /\ ~u.vma
          /\ ProgramSound([u EXCEPT !.pc = "off"])
      <3>1. CASE s.fd
        BY <1>1, <2>2, <2>3, <3>1, CloseFd
      <3>2. CASE ~s.fd
        <4>1. u = s /\ "off" \in ProgramState
          BY <2>3, <3>2 DEF ProgramState
        <4> QED  BY <1>1, <2>2, <3>2, <4>1, SetPc DEF ProgramSound
      <3> QED  BY <3>1, <3>2
    <2>5. Step(p, {"exiting"}, "off", u) /\ "off" \in ProgramState
      BY <2>1, <2>3 DEF ProgramState
    <2>6. u.early = prog[p].early
      BY <2>4 DEF s
    <2> QED  BY <2>4, <2>5, <2>6, StepInv
  <1> QED  BY <1>2, <1>3

(* The end of a program: its mapping is taken down.                         *)
LEMMA ExitsInv ==
  ASSUME IInv, NEW p \in Program, Exits(p)
  PROVE  IInv'
  <1> DEFINE s == prog[p]
             r == IF s.vma THEN Released(mmap_close(s)) ELSE s
             from == {"open", "serving", "mapped", "touched", "done", "closed"}
  <1>1. s \in ProgramRecord /\ ProgramSound(s)
    BY ProgramFacts
  <1>2. Step(p, from, "exiting", r) /\ "exiting" \in ProgramState
    BY DEF Exits, ProgramState
  <1> HIDE DEF s, from
  <1>3. PICK u : u = r
    OBVIOUS
  <1>4. /\ u \in ProgramRecord /\ u.early = s.early /\ u.fd = s.fd /\ ~u.vma
        /\ ProgramSound([u EXCEPT !.pc = "exiting"])
    <2>1. CASE s.vma
      <3>1. PICK c : c = mmap_close(s)
        OBVIOUS
      <3>2. /\ c \in ProgramRecord /\ c.fd = s.fd /\ ~c.vma /\ ~c.pte /\ c.early = s.early
            /\ c.count = s.count - (IF s.pte THEN 1 ELSE 0) /\ c.reference = s.reference - 1
        BY <1>1, <3>1, MmapClose
      <3>3. u = Released(c)
        BY <1>3, <2>1, <3>1
      <3>4. /\ u \in ProgramRecord /\ u.fd = c.fd /\ u.vma = c.vma /\ u.pte = c.pte
            /\ u.early = c.early /\ u.reference = c.reference
            /\ u.count = c.count - (IF c.fd \/ c.vma THEN 0 ELSE 1)
        BY <3>2, <3>3, ReleasedFacts
      <3> QED  BY <1>1, <1>2, <2>1, <3>2, <3>4, SetPc DEF ProgramSound
    <2>2. CASE ~s.vma
      <3>1. u = s
        BY <1>3, <2>2
      <3> QED  BY <1>1, <1>2, <2>2, <3>1, SetPc DEF ProgramSound
    <2> QED  BY <2>1, <2>2
  <1>5. Step(p, from, "exiting", u)
    BY <1>2, <1>3
  <1>6. u.early = prog[p].early /\ (u.fd \/ u.vma => HasFile(p))
    BY <1>4 DEF s, HasFile
  <1> QED  BY <1>2, <1>4, <1>5, <1>6, StepInv

-----------------------------------------------------------------------------
(* The scripts do not touch the programs.                                   *)
LEMMA ScriptKeepsPrograms == IInv /\ Script => prog' = prog /\ ProgramsInv'
  <1> SUFFICES ASSUME IInv, Script PROVE prog' = prog
    BY DEF IInv, ProgramsInv, ProgramSound
  <1> QED  BY DEF Script, ScriptStarts, ksocket_init, master_init, slave_init, ksocket_exit,
                  master_exit, slave_exit, InsmodRefused, RmmodRefused, MasterRegisters,
                  RegisterFails, RegisterStops, ServerFails, ServerListens, Removable,
                  Current, Command

(* A command that leaves the modules as they are, a timer or a stutter.     *)
LEMMA NothingChanges ==
  ASSUME IInv, UNCHANGED <<loaded, misc, stale, debugfs, listening, prog>>
  PROVE  IInv'
  <1>1. ModulesTypeOK' /\ ProgramsInv' /\ FilesInv'
    BY DEF IInv, ModulesTypeOK, ProgramsInv, ProgramSound, FilesInv, HasFile
  <1>2. ListInv' /\ LeftInv'
    BY DEF IInv, ListInv, LeftInv, Range
  <1> QED  BY <1>1, <1>2 DEF IInv

(* A module changes its state: the files of its device allow it.            *)
LEMMA BecomesInv ==
  ASSUME IInv, UNCHANGED prog, NEW m \in Module,
         NEW st \in {"no", "coming", "yes", "dead"}, Becomes(m, st),
         m = "ksocket" => st \in {"no", "yes"},
         stale \subseteq stale',
         \A p \in Program : HasFile(p) /\ Dev(p) = m =>
           /\ st = "no" => prog[p].early /\ Dev(p) \in stale'
           /\ st = "coming" => prog[p].early
  PROVE  /\ loaded' \in [Module -> {"no", "coming", "yes", "dead"}]
         /\ loaded'["ksocket"] \in {"no", "yes"}
         /\ loaded'[m] = st
         /\ \A e \in Module : e # m => loaded'[e] = loaded[e]
         /\ ProgramsInv' /\ FilesInv'
  <1>1. /\ loaded \in [Module -> {"no", "coming", "yes", "dead"}]
        /\ loaded["ksocket"] \in {"no", "yes"}
    BY DEF IInv, ModulesTypeOK
  <1>2. /\ loaded' \in [Module -> {"no", "coming", "yes", "dead"}] /\ loaded'[m] = st
        /\ \A e \in Module : e # m => loaded'[e] = loaded[e]
    BY <1>1 DEF Becomes
  <1>3. loaded'["ksocket"] \in {"no", "yes"}
    BY <1>1, <1>2 DEF Module
  <1>4. ProgramsInv'
    BY DEF IInv, ProgramsInv, ProgramSound
  <1>5. FilesInv'
    <2>1. \A p \in Program : Dev(p) \in Module
      BY DEF Dev, Module, Device
    <2> QED  BY <1>2, <2>1 DEF IInv, FilesInv, HasFile
  <1> QED  BY <1>2, <1>3, <1>4, <1>5

(* The parts of the invariant that the scripts' lemmas use.                 *)
LEMMA ModuleFacts ==
  ASSUME IInv
  PROVE  /\ misc \in Seq(Device) /\ OneEach(misc)
         /\ debugfs \in [Device -> {"none", "live", "stale"}] /\ listening \in BOOLEAN
         /\ prog \in [Program -> ProgramRecord]
         /\ \A d \in Device : loaded[d] # "no" => loaded["ksocket"] = "yes"
         /\ \A d \in Range(misc) \ stale : loaded[d] # "no"
         /\ loaded["ksocket"] \in {"no", "yes"}
  BY DEF IInv, ModulesTypeOK, ListInv, OneEach

(* ksocket is loaded or unloaded; it is not while a device uses it.         *)
LEMMA KsocketInv == IInv /\ (ksocket_init \/ ksocket_exit) => IInv'
  <1> SUFFICES ASSUME IInv, ksocket_init \/ ksocket_exit PROVE IInv'
    OBVIOUS
  <1>1. PICK st \in {"no", "yes"} : Becomes("ksocket", st)
    BY DEF ksocket_init, ksocket_exit
  <1>2. /\ UNCHANGED <<misc, stale, debugfs, listening, prog>>
        /\ "ksocket" \in Module /\ \A p \in Program : Dev(p) # "ksocket"
        /\ \A d \in Device : d \in Module /\ d # "ksocket"
    BY DEF ksocket_init, ksocket_exit, Removable, Command, Current, Module, Device, Dev
  <1>3. /\ loaded' \in [Module -> {"no", "coming", "yes", "dead"}]
        /\ loaded'["ksocket"] \in {"no", "yes"}
        /\ loaded'["ksocket"] = st
        /\ \A e \in Module : e # "ksocket" => loaded'[e] = loaded[e]
        /\ ProgramsInv' /\ FilesInv'
    BY <1>1, <1>2, BecomesInv
  <1>4. ModulesTypeOK'
    BY <1>2, <1>3 DEF IInv, ModulesTypeOK
  <1>5. ListInv'
    <2>1. CASE ksocket_init
      <3>1. loaded'["ksocket"] = "yes"
        BY <2>1, <1>2, ModuleFacts DEF ksocket_init, Becomes, IInv, ModulesTypeOK
      <3>2. \A d \in Range(misc) \ stale : d \in Device
        BY ModuleFacts DEF Range
      <3> QED  BY <1>2, <1>3, <3>1, <3>2 DEF IInv, ListInv, Range
    <2>2. CASE ksocket_exit
      <3>1. \A d \in Device : loaded[d] = "no"
        BY <2>2 DEF ksocket_exit, Removable, InUse
      <3>2. \A d \in Range(misc) : d \in Device
        BY ModuleFacts DEF Range
      <3> QED  BY <1>2, <1>3, <3>1, <3>2 DEF IInv, ListInv, Range
    <2> QED  BY <2>1, <2>2
  <1>6. LeftInv'
    BY <1>2, <1>3 DEF IInv, LeftInv, Range, Device, Module
  <1> QED  BY <1>3, <1>4, <1>5, <1>6 DEF IInv

(* misc_register() fails: a stale debugfs file is left.                     *)
LEMMA RegisterFailsInv ==
  ASSUME IInv, NEW d \in Device, RegisterFails(d)
  PROVE  IInv'
  <1>1. /\ UNCHANGED <<loaded, misc, stale, listening, prog>>
        /\ debugfs' = [debugfs EXCEPT ![d] = "stale"]
    BY DEF RegisterFails, Command, Current, FileGoesStale
  <1>2. /\ debugfs' \in [Device -> {"none", "live", "stale"}] /\ debugfs'[d] = "stale"
        /\ \A e \in Device : e # d => debugfs'[e] = debugfs[e]
    BY <1>1, ModuleFacts
  <1>3. ModulesTypeOK' /\ ProgramsInv' /\ FilesInv'
    BY <1>1, <1>2 DEF IInv, ModulesTypeOK, ProgramsInv, ProgramSound, FilesInv, HasFile
  <1>4. ListInv' /\ LeftInv'
    BY <1>1, <1>2 DEF IInv, ListInv, LeftInv, Range
  <1> QED  BY <1>3, <1>4 DEF IInv

(* The init or exit function is stopped on its way over the list.           *)
LEMMA StoppedInv ==
  ASSUME IInv, NEW d \in Device, Becomes(d, "dead"), loaded["ksocket"] = "yes",
         UNCHANGED <<misc, stale, listening, prog>>,
         debugfs' = debugfs \/ DebugFile(d)
  PROVE  IInv'
  <1>1. d \in Module /\ d # "ksocket" /\ "ksocket" \in Module
        /\ \A e \in Device : e \in Module /\ e # "ksocket"
    BY DEF Module, Device
  <1>2. /\ loaded' \in [Module -> {"no", "coming", "yes", "dead"}]
        /\ loaded'["ksocket"] \in {"no", "yes"}
        /\ loaded'[d] = "dead"
        /\ \A e \in Module : e # d => loaded'[e] = loaded[e]
        /\ ProgramsInv' /\ FilesInv'
    BY <1>1, BecomesInv
  <1>3. /\ debugfs' \in [Device -> {"none", "live", "stale"}]
        /\ \A e \in Device : e # d => debugfs'[e] = debugfs[e]
    BY ModuleFacts DEF DebugFile
  <1>4. ModulesTypeOK'
    BY <1>2, <1>3 DEF IInv, ModulesTypeOK
  <1>5. ListInv'
    <2>1. \A e \in Range(misc) : e \in Device
      BY ModuleFacts DEF Range
    <2> QED  BY <1>1, <1>2, <2>1 DEF IInv, ListInv, Range
  <1>6. LeftInv'
    <2>1. "master_device" \in Module
      BY DEF Module, Device
    <2> QED  BY <1>1, <1>2, <1>3, <2>1 DEF IInv, LeftInv, Range
  <1> QED  BY <1>2, <1>4, <1>5, <1>6 DEF IInv

(* misc_register() succeeds.                                                *)
LEMMA RegistersInv ==
  ASSUME IInv, NEW d \in Device,
         NEW st \in {"coming", "yes"}, st = "coming" => loaded[d] = "no",
         d = "master_device" => st = "coming",
         ~Refused(d), Registers(d, st), UNCHANGED prog
  PROVE  IInv'
  <1>0. /\ Becomes(d, st) /\ DebugFile(d) /\ d \notin Range(misc) /\ misc' = <<d>> \o misc
        /\ UNCHANGED <<stale, listening>>
    BY DEF Registers
  <1>1. d \in Module /\ d # "ksocket" /\ "ksocket" \in Module /\ "master_device" \in Device
        /\ \A e \in Device : e \in Module /\ e # "ksocket"
    BY DEF Module, Device
  <1>2. /\ loaded' \in [Module -> {"no", "coming", "yes", "dead"}]
        /\ loaded'["ksocket"] \in {"no", "yes"}
        /\ loaded'[d] = st
        /\ \A e \in Module : e # d => loaded'[e] = loaded[e]
        /\ ProgramsInv' /\ FilesInv'
    <2>1. \A p \in Program : HasFile(p) /\ Dev(p) = d =>
            /\ st = "no" => prog[p].early /\ Dev(p) \in stale'
            /\ st = "coming" => prog[p].early
      BY DEF IInv, FilesInv
    <2> QED  BY <1>0, <1>1, <2>1, BecomesInv
  <1>3. /\ debugfs' \in [Device -> {"none", "live", "stale"}]
        /\ \A e \in Device : e # d => debugfs'[e] = debugfs[e]
    BY <1>0, ModuleFacts DEF DebugFile
  <1>4. misc' \in Seq(Device) /\ OneEach(misc') /\ Range(misc') = Range(misc) \cup {d}
    BY <1>0, ModuleFacts, Pushed
  <1>5. ModulesTypeOK'
    BY <1>0, <1>2, <1>3, <1>4 DEF IInv, ModulesTypeOK
  <1>6. ListInv'
    <2>1. \A e \in Range(misc) : e \in Device
      BY ModuleFacts DEF Range
    <2>2. loaded["ksocket"] = "yes"
      BY ModuleFacts DEF Refused
    <2>3. \A e \in Device : loaded'[e] # "no" => loaded'["ksocket"] = "yes"
      BY <1>1, <1>2, <2>2
    <2>4. \A e \in Range(misc') \ stale' : loaded'[e] # "no"
      BY <1>0, <1>1, <1>2, <1>4, <2>1, ModuleFacts
    <2> QED  BY <1>4, <2>3, <2>4 DEF ListInv, OneEach
  <1>7. LeftInv'
    <2>1. \A e \in Device : loaded'[e] = "no" /\ debugfs'[e] # "stale" =>
            e \notin Range(misc') /\ debugfs'[e] = "none"
      BY <1>1, <1>2, <1>3, <1>4 DEF IInv, LeftInv
    <2>2. loaded'["master_device"] \in {"no", "coming"} => ~listening'
      BY <1>0, <1>1, <1>2 DEF IInv, LeftInv
    <2> QED  BY <2>1, <2>2 DEF LeftInv
  <1> QED  BY <1>2, <1>5, <1>6, <1>7 DEF IInv

(* The second half of master_init(): the socket is there, or is not.        *)
LEMMA ServerInv ==
  ASSUME IInv, loaded["master_device"] = "coming", ServerFails \/ ServerListens
  PROVE  IInv'
  <1> DEFINE m == "master_device"
  <1>1. m \in Device /\ m \in Module /\ m # "ksocket" /\ "ksocket" \in Module
        /\ \A e \in Device : e \in Module /\ e # "ksocket"
    BY DEF Module, Device
  <1>2. \A e \in Range(misc) : e \in Device
    BY ModuleFacts DEF Range
  <1>3. CASE ServerFails
    <2>1. /\ Becomes(m, "no") /\ stale' = stale \cup {m} /\ FileGoesStale(m)
          /\ UNCHANGED <<misc, listening, prog>>
      BY <1>3 DEF ServerFails, Command, Current
    <2>2. \A p \in Program : HasFile(p) /\ Dev(p) = m => prog[p].early
      BY DEF IInv, FilesInv
    <2>3. /\ loaded' \in [Module -> {"no", "coming", "yes", "dead"}]
          /\ loaded'["ksocket"] \in {"no", "yes"}
          /\ loaded'[m] = "no"
          /\ \A e \in Module : e # m => loaded'[e] = loaded[e]
          /\ ProgramsInv' /\ FilesInv'
      BY <1>1, <2>1, <2>2, BecomesInv
    <2>4. /\ debugfs' \in [Device -> {"none", "live", "stale"}] /\ debugfs'[m] = "stale"
          /\ \A e \in Device : e # m => debugfs'[e] = debugfs[e]
      BY <1>1, <2>1, ModuleFacts DEF FileGoesStale
    <2>5. ModulesTypeOK'
      BY <2>1, <2>3, <2>4 DEF IInv, ModulesTypeOK
    <2>6. ListInv'
      BY <1>1, <1>2, <2>1, <2>3 DEF IInv, ListInv, Range
    <2>7. LeftInv'
      <3>1. ~listening
        BY DEF IInv, LeftInv
      <3> QED  BY <1>1, <2>1, <2>3, <2>4, <3>1 DEF IInv, LeftInv, Range
    <2> QED  BY <2>3, <2>5, <2>6, <2>7 DEF IInv
  <1>4. CASE ServerListens
    <2>1. /\ Becomes(m, "yes") /\ listening' = TRUE
          /\ UNCHANGED <<misc, stale, debugfs, prog>>
      BY <1>4 DEF ServerListens, Command, Current
    <2>2. /\ loaded' \in [Module -> {"no", "coming", "yes", "dead"}]
          /\ loaded'["ksocket"] \in {"no", "yes"}
          /\ loaded'[m] = "yes"
          /\ \A e \in Module : e # m => loaded'[e] = loaded[e]
          /\ ProgramsInv' /\ FilesInv'
      BY <1>1, <2>1, BecomesInv
    <2>3. ModulesTypeOK'
      BY <2>1, <2>2 DEF IInv, ModulesTypeOK
    <2>4. ListInv' /\ LeftInv'
      BY <1>1, <1>2, <2>1, <2>2 DEF IInv, ListInv, LeftInv, Range
    <2> QED  BY <2>2, <2>3, <2>4 DEF IInv
  <1> QED  BY <1>3, <1>4

(* misc_deregister() and debugfs_remove() by an exit function.              *)
LEMMA DeregistersInv ==
  ASSUME IInv, NEW d \in Device, Removable(d), Deregisters(d),
         listening' = listening \/ listening' = FALSE,
         d = "master_device" => listening' = FALSE
  PROVE  IInv'
  <1>1. d \in Module /\ d # "ksocket" /\ "ksocket" \in Module
        /\ \A e \in Device : e \in Module /\ e # "ksocket"
    BY DEF Module, Device
  <1>2. /\ Becomes(d, "no") /\ UNCHANGED <<stale, prog>> /\ loaded[d] = "yes" /\ ~InUse(d)
        /\ debugfs' = [debugfs EXCEPT ![d] = IF @ = "live" THEN "none" ELSE @]
    BY DEF Removable, Deregisters, Command, Current
  <1>3. /\ loaded' \in [Module -> {"no", "coming", "yes", "dead"}]
        /\ loaded'["ksocket"] \in {"no", "yes"}
        /\ loaded'[d] = "no"
        /\ \A e \in Module : e # d => loaded'[e] = loaded[e]
        /\ ProgramsInv' /\ FilesInv'
    <2>1. \A p \in Program : ~(HasFile(p) /\ Dev(p) = d)
      BY <1>1, <1>2 DEF InUse
    <2> QED  BY <1>1, <1>2, <2>1, BecomesInv
  <1>4. /\ debugfs' \in [Device -> {"none", "live", "stale"}]
        /\ debugfs'[d] \in {"none", "stale"}
        /\ \A e \in Device : e # d => debugfs'[e] = debugfs[e]
    BY <1>2, ModuleFacts
  <1>5. misc' \in Seq(Device) /\ OneEach(misc') /\ Range(misc') = Range(misc) \ {d}
    <2>1. PICK i \in DOMAIN misc :
            misc[i] = d /\ misc' = SubSeq(misc, 1, i - 1) \o SubSeq(misc, i + 1, Len(misc))
      BY DEF Deregisters
    <2>2. misc \in Seq(Device) /\ OneEach(misc)
      BY ModuleFacts
    <2>3. PICK r : r = misc'
      OBVIOUS
    <2>4. r = SubSeq(misc, 1, i - 1) \o SubSeq(misc, i + 1, Len(misc))
      BY <2>1, <2>3
    <2>5. r \in Seq(Device) /\ OneEach(r) /\ Range(r) = Range(misc) \ {misc[i]}
      BY <2>2, <2>4, Deleted
    <2> QED  BY <2>1, <2>3, <2>5
  <1>6. listening' \in BOOLEAN /\ (~listening => ~listening')
    <2>1. listening \in BOOLEAN
      BY ModuleFacts
    <2>2. CASE listening' = FALSE
      BY <2>2
    <2>3. CASE listening' = listening
      BY <2>1, <2>3
    <2> QED  BY <2>2, <2>3
  <1>7. ModulesTypeOK'
    BY <1>2, <1>3, <1>4, <1>5, <1>6 DEF IInv, ModulesTypeOK
  <1>8. ListInv'
    <2>1. \A e \in Range(misc) : e \in Device
      BY ModuleFacts DEF Range
    <2>2. \A e \in Device : loaded'[e] # "no" => loaded'["ksocket"] = "yes"
      BY <1>1, <1>3, ModuleFacts
    <2>3. \A e \in Range(misc') \ stale' : loaded'[e] # "no"
      BY <1>1, <1>2, <1>3, <1>5, <2>1, ModuleFacts
    <2> QED  BY <1>5, <2>2, <2>3 DEF ListInv, OneEach
  <1>9. LeftInv'
    <2>1. \A e \in Device : loaded'[e] = "no" /\ debugfs'[e] # "stale" =>
            e \notin Range(misc') /\ debugfs'[e] = "none"
      BY <1>1, <1>3, <1>4, <1>5 DEF IInv, LeftInv
    <2>2. loaded'["master_device"] \in {"no", "coming"} => ~listening'
      <3>1. "master_device" \in Module
        BY DEF Module, Device
      <3> QED  BY <1>3, <1>6, <3>1 DEF IInv, LeftInv
    <2> QED  BY <2>1, <2>2 DEF LeftInv
  <1> QED  BY <1>3, <1>7, <1>8, <1>9 DEF IInv

(* Every command of a script.                                               *)
LEMMA ScriptInv == IInv /\ Script => IInv'
  <1> SUFFICES ASSUME IInv, Script PROVE IInv'
    OBVIOUS
  <1>0. prog' = prog
    BY ScriptKeepsPrograms
  <1>1. "master_device" \in Device /\ "slave_device" \in Device
    BY DEF Device
  <1>2. CASE ScriptStarts \/ \E m \in Module : InsmodRefused(m) \/ RmmodRefused(m)
    BY <1>0, <1>2, NothingChanges DEF ScriptStarts, InsmodRefused, RmmodRefused, modVars
  <1>3. CASE ksocket_init \/ ksocket_exit
    BY <1>3, KsocketInv
  <1>4. ASSUME NEW d \in Device, ~Refused(d), RegisterFails(d) \/ RegisterStops(d)
        PROVE  IInv'
    <2>1. loaded["ksocket"] = "yes"
      BY <1>4, ModuleFacts DEF Refused
    <2>2. RegisterStops(d) => Becomes(d, "dead") /\ DebugFile(d) /\ UNCHANGED <<misc, stale, listening>>
      BY DEF RegisterStops
    <2> QED  BY <1>0, <1>4, <2>1, <2>2, RegisterFailsInv, StoppedInv
  <1>5. CASE master_init
    <2>1. CASE loaded["master_device"] = "no" /\ ~Refused("master_device") /\ MasterRegisters
      <3>1. CASE RegisterFails("master_device") \/ RegisterStops("master_device")
        BY <1>1, <1>4, <2>1, <3>1
      <3>2. CASE Registers("master_device", "coming")
        BY <1>0, <1>1, <2>1, <3>2, RegistersInv
      <3> QED  BY <2>1, <3>1, <3>2 DEF MasterRegisters
    <2>2. CASE loaded["master_device"] = "coming" /\ (ServerFails \/ ServerListens)
      BY <2>2, ServerInv
    <2> QED  BY <1>5, <2>1, <2>2 DEF master_init
  <1>6. CASE slave_init
    <2>1. ~Refused("slave_device")
      BY <1>6 DEF slave_init
    <2>2. CASE RegisterFails("slave_device") \/ RegisterStops("slave_device")
      BY <1>1, <1>4, <2>1, <2>2
    <2>3. CASE Registers("slave_device", "yes")
      BY <1>0, <1>1, <2>1, <2>3, RegistersInv
    <2> QED  BY <1>6, <2>2, <2>3 DEF slave_init
  <1>7. ASSUME NEW d \in Device, Removable(d), DeregisterStops(d)
        PROVE  IInv'
    <2>1. loaded["ksocket"] = "yes"
      BY <1>7, ModuleFacts DEF Removable
    <2>2. Becomes(d, "dead") /\ UNCHANGED <<misc, stale, debugfs, listening>>
      BY <1>7 DEF DeregisterStops
    <2> QED  BY <1>0, <2>1, <2>2, StoppedInv
  <1>8. CASE master_exit
    <2>1. Removable("master_device")
      BY <1>8 DEF master_exit
    <2>2. CASE DeregisterStops("master_device")
      BY <1>1, <1>7, <2>1, <2>2
    <2>3. CASE Deregisters("master_device") /\ listening' = FALSE
      BY <1>1, <2>1, <2>3, DeregistersInv
    <2> QED  BY <1>8, <2>2, <2>3 DEF master_exit
  <1>9. CASE slave_exit
    <2>1. Removable("slave_device")
      BY <1>9 DEF slave_exit
    <2>2. CASE DeregisterStops("slave_device")
      BY <1>1, <1>7, <2>1, <2>2
    <2>3. CASE Deregisters("slave_device") /\ listening' = listening
      BY <1>1, <2>1, <2>3, DeregistersInv
    <2> QED  BY <1>9, <2>2, <2>3 DEF slave_exit
  <1> QED  BY <1>2, <1>3, <1>5, <1>6, <1>8, <1>9 DEF Script

-----------------------------------------------------------------------------
(* The invariant is inductive: scripts, programs and the timer keep it.     *)
THEOREM ModulesInvariance == Spec => []IInv
  <1>1. ASSUME IInv, [Next]_vars PROVE IInv'
    <2>1. CASE Script
      BY <1>1, <2>1, ScriptInv
    <2>2. CASE Accepts \/ Disconnects
      BY <1>1, <2>2, SocketStepInv
    <2>3. CASE Expires
      BY <1>1, <2>3, NothingChanges DEF Expires, modVars
    <2>4. ASSUME NEW p \in Program,
                 \/ Opens(p) \/ OpenStops(p) \/ Stops(p) \/ mmap_mmap(p) \/ mmap_fault(p)
                 \/ Closes(p) \/ Exits(p) \/ FilesClosed(p)
          PROVE  IInv'
      BY <1>1, <2>4, OpensInv, StopsInv, MapInv, ClosesInv, ExitsInv
    <2>5. CASE UNCHANGED vars
      BY <1>1, <2>5, NothingChanges DEF vars, modVars
    <2> QED  BY <1>1, <2>1, <2>2, <2>3, <2>4, <2>5 DEF Next
  <1> QED  BY <1>1, InitInv, PTL DEF Spec

-----------------------------------------------------------------------------
(* Where OnlyStaleStops is kept, the invariant IInv being there before the  *)
(* step: besides, a program that is off has no file.                        *)
StopsInvariant ==
  /\ OnlyStaleStops
  /\ \A p \in Program : prog[p].pc = "off" => ~HasFile(p)

(* A step that leaves the programs alone and stops nobody.                  *)
LEMMA NobodyStops ==
  ASSUME StopsInvariant, prog' = prog, stuck' = stuck,
         stale' = stale \/ stale' = stale \cup {"master_device"},
         \A d \in Device : loaded'[d] = "dead" => loaded[d] = "dead"
  PROVE  StopsInvariant'
  BY DEF StopsInvariant, OnlyStaleStops, HasFile

(* A step that stops a script in the list, where it met a stale entry.      *)
LEMMA ScriptStops ==
  ASSUME StopsInvariant, prog' = prog, stuck' = TRUE, stale' = stale, stale # {}
  PROVE  StopsInvariant'
  BY DEF StopsInvariant, OnlyStaleStops, HasFile

(* The state of a module is overwritten, with something else than "dead".   *)
LEMMA BecomesAlive ==
  ASSUME IInv, NEW m \in Module, NEW state, state # "dead", Becomes(m, state)
  PROVE  \A d \in Device : loaded'[d] = "dead" => loaded[d] = "dead"
  <1>1. loaded \in [Module -> {"no", "coming", "yes", "dead"}]
    BY DEF IInv, ModulesTypeOK
  <1>2. \A d \in Device : d \in Module
    BY DEF Module
  <1> QED  BY <1>1, <1>2 DEF Becomes

(* insmod and rmmod.                                                        *)
LEMMA ScriptKeepsStops ==
  ASSUME IInv, StopsInvariant, Script
  PROVE  StopsInvariant'
  <1>1. prog' = prog
    BY ScriptKeepsPrograms
  <1>2. "ksocket" \in Module /\ "master_device" \in Module /\ "slave_device" \in Module
    BY DEF Module, Device
  <1>3. CASE ScriptStarts \/ \E m \in Module : InsmodRefused(m) \/ RmmodRefused(m)
    BY <1>1, <1>3, NobodyStops DEF ScriptStarts, InsmodRefused, RmmodRefused, modVars
  <1>4. CASE ksocket_init \/ ksocket_exit
    <2>1. stuck' = stuck /\ stale' = stale
      BY <1>4 DEF ksocket_init, ksocket_exit
    <2>2. Becomes("ksocket", "yes") \/ Becomes("ksocket", "no")
      BY <1>4 DEF ksocket_init, ksocket_exit
    <2> QED  BY <1>1, <1>2, <2>1, <2>2, BecomesAlive, NobodyStops
  <1>5. ASSUME NEW d \in Device, RegisterFails(d) PROVE StopsInvariant'
    BY <1>1, <1>5, NobodyStops DEF RegisterFails
  <1>6. ASSUME NEW d \in Device, RegisterStops(d) PROVE StopsInvariant'
    BY <1>1, <1>6, ScriptStops DEF RegisterStops
  <1>7. ASSUME NEW d \in Device, NEW state \in {"coming", "yes"}, Registers(d, state)
        PROVE  StopsInvariant'
    <2>1. d \in Module /\ stuck' = stuck /\ stale' = stale /\ Becomes(d, state)
      BY <1>7 DEF Registers, Module
    <2> QED  BY <1>1, <2>1, BecomesAlive, NobodyStops
  <1>8. CASE ServerFails
    <2>1. /\ stuck' = stuck /\ stale' = stale \cup {"master_device"}
          /\ Becomes("master_device", "no")
      BY <1>8 DEF ServerFails
    <2> QED  BY <1>1, <1>2, <2>1, BecomesAlive, NobodyStops
  <1>9. CASE ServerListens
    <2>1. stuck' = stuck /\ stale' = stale /\ Becomes("master_device", "yes")
      BY <1>9 DEF ServerListens
    <2> QED  BY <1>1, <1>2, <2>1, BecomesAlive, NobodyStops
  <1>10. "master_device" \in Device /\ "slave_device" \in Device
    BY DEF Device
  <1>11. CASE master_init \/ slave_init
    <2>1. \/ \E d \in Device : RegisterFails(d) \/ RegisterStops(d)
          \/ \E d \in Device, state \in {"coming", "yes"} : Registers(d, state)
          \/ ServerFails \/ ServerListens
      BY <1>10, <1>11 DEF master_init, slave_init, MasterRegisters
    <2> QED  BY <1>5, <1>6, <1>7, <1>8, <1>9, <2>1
  <1>12. ASSUME NEW d \in Device, Deregisters(d) PROVE StopsInvariant'
    <2>1. d \in Module /\ stuck' = stuck /\ stale' = stale /\ Becomes(d, "no")
      BY <1>12 DEF Deregisters, Module
    <2> QED  BY <1>1, <2>1, BecomesAlive, NobodyStops
  <1>13. ASSUME NEW d \in Device, DeregisterStops(d) PROVE StopsInvariant'
    BY <1>1, <1>13, ScriptStops DEF DeregisterStops
  <1>14. CASE master_exit \/ slave_exit
    BY <1>10, <1>12, <1>13, <1>14 DEF master_exit, slave_exit
  <1> QED  BY <1>3, <1>4, <1>11, <1>14 DEF Script

(* A program goes on: it is not stopped, and off only without a file.       *)
LEMMA GoesOn ==
  ASSUME IInv, StopsInvariant, NEW p \in Program, NEW r,
         prog' = [prog EXCEPT ![p] = r], UNCHANGED <<stuck, stale, loaded>>,
         r.pc # "stopped", r.pc = "off" => ~r.fd /\ ~r.vma
  PROVE  StopsInvariant'
  <1>1. /\ prog'[p] = r
        /\ \A q \in Program : q # p => prog'[q] = prog[q]
    BY DEF IInv, ModulesTypeOK
  <1> QED  BY <1>1 DEF StopsInvariant, OnlyStaleStops, HasFile

(* The same of Step, which says where the program is after it.              *)
LEMMA StepGoesOn ==
  ASSUME IInv, StopsInvariant, NEW p \in Program, NEW from, NEW to, NEW fields,
         Step(p, from, to, fields), "pc" \in DOMAIN fields,
         to \notin {"stopped", "off"}
  PROVE  StopsInvariant'
  <1> DEFINE r == [fields EXCEPT !.pc = to]
  <1>1. prog' = [prog EXCEPT ![p] = r] /\ UNCHANGED <<stuck, stale, loaded>>
    BY DEF Step, modVars
  <1>2. r.pc = to
    OBVIOUS
  <1> HIDE DEF r
  <1> QED  BY <1>1, <1>2, GoesOn

(* Programs that open, map and close the device or end.                     *)
LEMMA ProgramKeepsStops ==
  ASSUME IInv, StopsInvariant, NEW p \in Program,
         \/ Opens(p) \/ mmap_mmap(p) \/ mmap_fault(p) \/ Closes(p) \/ Exits(p) \/ FilesClosed(p)
  PROVE  StopsInvariant'
  <1>1. prog[p] \in ProgramRecord /\ ProgramSound(prog[p]) /\ "pc" \in DOMAIN prog[p]
    BY ProgramFacts DEF ProgramRecord
  <1>2. CASE Opens(p)
    <2> DEFINE r == [NotRunning EXCEPT !.pc = "open", !.fd = TRUE, !.count = 1,
                                       !.early = (loaded[Dev(p)] = "coming")]
    <2>1. prog' = [prog EXCEPT ![p] = r] /\ UNCHANGED <<stuck, stale, loaded>>
      BY <1>2 DEF Opens, modVars
    <2>2. r.pc = "open"
      BY DEF NotRunning
    <2> HIDE DEF r
    <2> QED  BY <2>1, <2>2, GoesOn
  <1>3. CASE mmap_mmap(p)
    <2>1. "pc" \in DOMAIN mmap_open(prog[p])
      BY <1>1 DEF mmap_open
    <2> QED  BY <1>3, <2>1, StepGoesOn DEF mmap_mmap
  <1>4. CASE mmap_fault(p)
    <2> DEFINE f == [prog[p] EXCEPT !.pte = TRUE, !.count = @ + 1]
    <2>1. "pc" \in DOMAIN f
      BY <1>1
    <2>2. Step(p, {"mapped"}, "touched", f)
      BY <1>4 DEF mmap_fault
    <2> HIDE DEF f
    <2> QED  BY <2>1, <2>2, StepGoesOn
  <1>5. CASE Closes(p)
    <2>1. "pc" \in DOMAIN Released([prog[p] EXCEPT !.fd = FALSE])
      BY <1>1 DEF Released
    <2> QED  BY <1>5, <2>1, StepGoesOn DEF Closes
  <1>6. CASE Exits(p)
    <2>1. "pc" \in DOMAIN mmap_close(prog[p])
      BY <1>1 DEF mmap_close
    <2>2. "pc" \in DOMAIN (IF prog[p].vma THEN Released(mmap_close(prog[p])) ELSE prog[p])
      BY <1>1, <2>1 DEF Released
    <2> QED  BY <1>6, <2>2, StepGoesOn DEF Exits
  <1>7. CASE FilesClosed(p)
    <2> DEFINE s == prog[p]
               f == IF s.fd THEN Released([s EXCEPT !.fd = FALSE]) ELSE s
               r == [f EXCEPT !.pc = "off"]
    <2>1. /\ prog' = [prog EXCEPT ![p] = r] /\ UNCHANGED <<stuck, stale, loaded>>
          /\ s.pc = "exiting"
      BY <1>7 DEF FilesClosed, Step, modVars
    <2>2. s \in ProgramRecord /\ ProgramSound(s) /\ ~s.vma
      BY <1>1, <2>1 DEF ProgramSound
    <2> HIDE DEF s
    <2>3. PICK u : u = f
      OBVIOUS
    <2>4. u \in ProgramRecord /\ ~u.fd /\ ~u.vma
      <3>1. CASE s.fd
        BY <2>2, <2>3, <3>1, CloseFd
      <3>2. CASE ~s.fd
        BY <2>2, <2>3, <3>2
      <3> QED  BY <3>1, <3>2
    <2>5. PICK v : v = [u EXCEPT !.pc = "off"]
      OBVIOUS
    <2>6. v.pc = "off" /\ ~v.fd /\ ~v.vma
      BY <2>4, <2>5, SetPc DEF ProgramState
    <2>7. prog' = [prog EXCEPT ![p] = v]
      BY <2>1, <2>3, <2>5
    <2> QED  BY <2>1, <2>6, <2>7, GoesOn
  <1> QED  BY <1>2, <1>3, <1>4, <1>5, <1>6, <1>7

(* The kernel stops a program: by a call into a freed module, which a file  *)
(* opened too early leads to, or on its way over a stale entry.             *)
LEMMA StoppedKeepsStops ==
  ASSUME IInv, StopsInvariant, NEW p \in Program, OpenStops(p) \/ Stops(p)
  PROVE  StopsInvariant'
  <1> DEFINE r == [prog[p] EXCEPT !.pc = "stopped"]
  <1>1. prog[p] \in ProgramRecord /\ prog \in [Program -> ProgramRecord]
    BY ProgramFacts, ModuleFacts
  <1>2. /\ prog' = [prog EXCEPT ![p] = r] /\ stale' = stale /\ loaded' = loaded
        /\ stuck' = stuck \/ stuck' = TRUE
    BY DEF OpenStops, Stops, modVars
  <1>3. r.pc = "stopped" /\ r.fd = prog[p].fd /\ r.vma = prog[p].vma /\ r.early = prog[p].early
    BY <1>1 DEF ProgramRecord
  <1> HIDE DEF r
  <1>4. prog'[p] = r /\ \A q \in Program : q # p => prog'[q] = prog[q]
    BY <1>1, <1>2
  <1>5. CASE Stops(p)
    <2>1. HasFile(p) /\ prog[p].early /\ Dev(p) \in stale /\ stuck' = stuck
      BY <1>5 DEF Stops, Gone, IInv, FilesInv, modVars
    <2> QED  BY <1>2, <1>3, <1>4, <2>1 DEF StopsInvariant, OnlyStaleStops, HasFile
  <1>6. CASE OpenStops(p)
    <2>1. ~HasFile(p) /\ stale # {} /\ stuck'
      BY <1>6 DEF OpenStops, StopsInvariant
    <2> QED  BY <1>2, <1>3, <1>4, <2>1 DEF StopsInvariant, OnlyStaleStops, HasFile
  <1> QED  BY <1>5, <1>6

(* The explanation of every stop is inductive, given what IInv says.        *)
THEOREM StopsInvariance == Spec => [](IInv /\ StopsInvariant)
  <1>1. Init => StopsInvariant
    <2>1. NotRunning.pc = "off" /\ ~NotRunning.fd /\ ~NotRunning.vma
      BY DEF NotRunning
    <2>2. \A d \in Device : d \in Module
      BY DEF Module
    <2> QED  BY <2>1, <2>2 DEF Init, StopsInvariant, OnlyStaleStops, HasFile
  <1>2. ASSUME IInv, StopsInvariant, [Next]_vars PROVE StopsInvariant'
    <2>1. CASE Script
      BY <1>2, <2>1, ScriptKeepsStops
    <2>2. CASE Accepts \/ Disconnects
      <3>1. "master" \in Program /\ "pc" \in DOMAIN prog["master"]
        BY <1>2, ProgramFacts DEF Program, ProgramRecord
      <3>2. CASE Accepts
        <4>1. Step("master", {"open"}, "serving", prog["master"])
          BY <3>2 DEF Accepts
        <4> QED  BY <1>2, <3>1, <4>1, StepGoesOn
      <3>3. CASE Disconnects
        <4>1. Step("master", {"serving", "touched"}, "done", prog["master"])
          BY <3>3 DEF Disconnects
        <4> QED  BY <1>2, <3>1, <4>1, StepGoesOn
      <3> QED  BY <2>2, <3>2, <3>3
    <2>3. CASE Expires \/ UNCHANGED vars
      BY <1>2, <2>3, NobodyStops DEF Expires, vars, modVars
    <2>4. ASSUME NEW p \in Program,
                 \/ Opens(p) \/ OpenStops(p) \/ Stops(p) \/ mmap_mmap(p) \/ mmap_fault(p)
                 \/ Closes(p) \/ Exits(p) \/ FilesClosed(p)
          PROVE  StopsInvariant'
      BY <1>2, <2>4, ProgramKeepsStops, StoppedKeepsStops
    <2> QED  BY <1>2, <2>1, <2>2, <2>3, <2>4 DEF Next
  <1> QED  BY <1>1, <1>2, ModulesInvariance, PTL DEF Spec

(* A program runs into freed memory, or a process is stopped for ever, only *)
(* after a master_init() that failed with its device registered: rmmod,     *)
(* with the .owner of both devices, never takes a module from under an open *)
(* file or a mapping.                                                       *)
THEOREM StopsExplained == Spec => []OnlyStaleStops
  <1>1. StopsInvariant => OnlyStaleStops
    BY DEF StopsInvariant
  <1> QED  BY <1>1, StopsInvariance, PTL

(* The page of an open file is counted once for the file and once for its   *)
(* page table entry, and mmap_info counts the mapping, in whatever order a  *)
(* program closes, unmaps and ends: it is neither freed early nor leaked.   *)
THEOREM PagesAreCounted == Spec => []PageIsCounted
  <1>1. IInv => PageIsCounted
    <2> SUFFICES ASSUME IInv, NEW p \in Program
                 PROVE  /\ prog[p].count = (IF HasFile(p) THEN 1 ELSE 0)
                                           + (IF prog[p].pte THEN 1 ELSE 0)
                        /\ prog[p].reference = IF prog[p].vma THEN 1 ELSE 0
      BY DEF PageIsCounted
    <2>1. ProgramSound(prog[p])
      BY ProgramFacts
    <2> QED  BY <2>1 DEF ProgramSound, HasFile
  <1> QED  BY <1>1, ModulesInvariance, PTL

(* A module that is not loaded has left nothing behind but what a failed    *)
(* init function leaves: its debugfs file and, only for master_device, its  *)
(* entry in the list of devices; and never a listening socket.              *)
THEOREM ExitsCleanUp == Spec => []NothingLeft
  <1>1. IInv /\ StopsInvariant => NothingLeft
    <2> SUFFICES ASSUME IInv, StopsInvariant PROVE NothingLeft
      OBVIOUS
    <2>1. ASSUME NEW d \in Device, loaded[d] = "no"
          PROVE  /\ debugfs[d] \in {"none", "stale"}
                 /\ d \in Range(misc) =>
                      d = "master_device" /\ d \in stale /\ debugfs[d] = "stale"
      <3>1. debugfs[d] # "stale" => d \notin Range(misc) /\ debugfs[d] = "none"
        BY <2>1 DEF IInv, LeftInv
      <3>2. d \in Range(misc) => d \in stale
        BY <2>1, ModuleFacts
      <3> QED  BY <3>1, <3>2 DEF StopsInvariant, OnlyStaleStops
    <2> QED  BY <2>1 DEF NothingLeft, IInv, LeftInv
  <1> QED  BY <1>1, StopsInvariance, PTL
=============================================================================
