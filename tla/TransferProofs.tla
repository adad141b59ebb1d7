---------------------------- MODULE TransferProofs ----------------------------
(***************************************************************************)
(* Proofs about master.c and slave.c over the two devices.                 *)
(***************************************************************************)
EXTENDS TransferInv, SequenceTheorems, TLAPS

-----------------------------------------------------------------------------
(* Lemmas about the operators of the model.                                *)

(* The three index sets of the model are the same numbers, and NoSock is    *)
(* none of them.                                                            *)
LEMMA Sets ==
  /\ Conn = Run /\ File = Run /\ Run \subseteq Nat \ {0} /\ NoSock \notin Run
  /\ MaybeSock = Run \cup {0} /\ 0 \notin Run
  /\ PageSize \in Nat \ {0} /\ SockBuf \in Nat \ {0}
  /\ \A r \in Run : r \in 0 .. Runs
BY RunAssumption, PageAssumption, SockBufAssumption DEF Run, NoSock, MaybeSock

(* memcpy() of bytes to a page leaves a page of bytes, with the copied ones *)
(* at its beginning (receive_msg(), the write() of master_device.c).        *)
LEMMA OverlayFacts ==
  ASSUME NEW S, NEW bytes \in Seq(S), NEW page \in [1 .. PageSize -> S]
  PROVE  /\ Overlay(bytes, page) \in [1 .. PageSize -> S]
         /\ \A i \in 1 .. PageSize :
              i <= Len(bytes) => Overlay(bytes, page)[i] = bytes[i]
<1>1. Len(bytes) \in Nat /\ \A i \in 1 .. Len(bytes) : bytes[i] \in S
  BY LenProperties, ElementOfSeq
<1>2. ASSUME NEW i \in 1 .. PageSize, i <= Len(bytes)
      PROVE  bytes[i] \in S
  BY <1>1, <1>2, PageAssumption
<1> QED BY <1>2 DEF Overlay

(* The next part of the input file, as MasterFills reads it.                *)
LEMMA PartFacts ==
  ASSUME NEW r \in Run, NEW off \in Nat, NEW n \in Nat
  PROVE  LET bytes == [i \in 1 .. n |-> <<r, off + i>>]
         IN  bytes \in Seq(Byte) /\ Len(bytes) = n
<1>1. \A i \in 1 .. n : <<r, off + i>> \in Byte
  BY Sets DEF Byte
<1>2. [i \in 1 .. n |-> <<r, off + i>>] \in [1 .. n -> Byte]
  BY <1>1
<1>3. \A f \in [1 .. n -> Byte] : f \in Seq(Byte) /\ Len(f) = n
  OBVIOUS
<1> QED BY <1>2, <1>3

(* Taking n bytes off the front of a stream (krecv()).                      *)
LEMMA RestFacts ==
  ASSUME NEW S, NEW s \in Seq(S), NEW n \in Nat, n <= Len(s)
  PROVE  LET rest == SubSeq(s, n + 1, Len(s))
         IN  /\ rest \in Seq(S)
             /\ Len(rest) = Len(s) - n
             /\ \A i \in 1 .. Len(rest) : rest[i] = s[n + i]
<1>1. Len(s) \in Nat /\ \A i \in n + 1 .. Len(s) : s[i] \in S
  BY LenProperties, ElementOfSeq
<1>2. /\ SubSeq(s, n + 1, Len(s)) \in Seq(S)
      /\ Len(SubSeq(s, n + 1, Len(s))) = IF n + 1 <= Len(s) THEN Len(s) - (n + 1) + 1 ELSE 0
      /\ \A i \in 1 .. Len(s) - (n + 1) + 1 : SubSeq(s, n + 1, Len(s))[i] = s[n + 1 + i - 1]
  BY <1>1, SubSeqProperties
<1>3. Len(SubSeq(s, n + 1, Len(s))) = Len(s) - n
  BY <1>1, <1>2
<1> QED BY <1>1, <1>2, <1>3

(* The n bytes that krecv() returns.                                        *)
LEMMA TakenFacts ==
  ASSUME NEW S, NEW s \in Seq(S), NEW n \in Nat, n <= Len(s)
  PROVE  /\ SubSeq(s, 1, n) \in Seq(S)
         /\ Len(SubSeq(s, 1, n)) = n
         /\ \A i \in 1 .. n : SubSeq(s, 1, n)[i] = s[i]
<1>1. Len(s) \in Nat /\ \A i \in 1 .. n : s[i] \in S
  BY LenProperties, ElementOfSeq
<1>2. /\ SubSeq(s, 1, n) \in Seq(S)
      /\ Len(SubSeq(s, 1, n)) = IF 1 <= n THEN n - 1 + 1 ELSE 0
      /\ \A i \in 1 .. n - 1 + 1 : SubSeq(s, 1, n)[i] = s[1 + i - 1]
  BY <1>1, SubSeqProperties
<1> QED BY <1>1, <1>2

(* The beginning of a page.                                                 *)
LEMMA PagePart ==
  ASSUME NEW S, NEW page \in [1 .. PageSize -> S], NEW n \in 0 .. PageSize
  PROVE  /\ SubSeq(page, 1, n) \in Seq(S)
         /\ Len(SubSeq(page, 1, n)) = n
         /\ \A i \in 1 .. n : SubSeq(page, 1, n)[i] = page[i]
<1>1. page \in Seq(S) /\ Len(page) = PageSize
  BY PageAssumption
<1> QED BY <1>1, TakenFacts, PageAssumption

-----------------------------------------------------------------------------
(* Type correctness.                                                       *)

(* The local state of a run has the fields that the programs use.           *)
LEMMA RunTypes ==
  ASSUME TypeOK, NEW r \in Run
  PROVE  /\ master[r] \in MasterState /\ slave[r] \in SlaveState
         /\ master[r].offset \in Nat /\ master[r].size \in 0 .. PageSize
         /\ master[r].sent \in 0 .. PageSize /\ master[r].sk \in Run \cup {0}
         /\ slave[r].len \in 0 .. PageSize /\ slave[r].sk \in Run \cup {0}
         /\ fileLen[r] \in Nat /\ file_size[r] \in Int /\ file[r] \in Seq(Byte)
         /\ stream[r] \in Seq(Byte) /\ source[r] \in 0 .. Runs
         /\ mPage[r] \in [1 .. PageSize -> Byte] /\ sPage[r] \in [1 .. PageSize -> Byte]
BY Sets DEF TypeOK, MasterState, SlaveState

(* The parts that TypeOK consists of.                                       *)
SocketTypes ==
  /\ listening \in BOOLEAN
  /\ cli \in [Conn -> CliState] /\ srv \in [Conn -> SrvState]
  /\ stream \in [Conn -> Seq(Byte)] /\ backlog \in Seq(Conn)
  /\ \A c \in Conn : Len(stream[c]) <= SockBuf
DeviceTypes ==
  /\ mSock \in MaybeSock /\ sSock \in MaybeSock
  /\ mPage \in [File -> [1 .. PageSize -> Byte]]
  /\ sPage \in [File -> [1 .. PageSize -> Byte]]
ProgramTypes ==
  /\ scenario \in Scenarios /\ fileLen \in [Run -> Nat]
  /\ master \in [Run -> MasterState] /\ slave \in [Run -> SlaveState]
  /\ file \in [Run -> Seq(Byte)] /\ file_size \in [Run -> Int]
  /\ source \in [Conn -> 0 .. Runs]
  /\ disturbed \subseteq {"masters", "slaves"} \X Run

(* They are all of it.                                                      *)
LEMMA TypeParts ==
  /\ TypeOK <=> SocketTypes /\ DeviceTypes /\ ProgramTypes
  /\ TypeOK' <=> SocketTypes' /\ DeviceTypes' /\ ProgramTypes'
BY DEF TypeOK, SocketTypes, DeviceTypes, ProgramTypes

(* Nothing changes the type of what it leaves alone.                        *)
LEMMA TypesFrame ==
  /\ SocketTypes /\ UNCHANGED sockVars => SocketTypes'
  /\ DeviceTypes /\ UNCHANGED devVars => DeviceTypes'
BY DEF SocketTypes, DeviceTypes, sockVars, devVars

(* The programs start in a state of the right type.                         *)
LEMMA TypeInit == Init => TypeOK
<1> SUFFICES ASSUME Init PROVE TypeOK
  OBVIOUS
<1>1. << >> \in Seq(Byte) /\ << >> \in Seq(Conn) /\ Len(<< >>) = 0
  OBVIOUS
<1>a. Zero \in Byte
  BY RunAssumption DEF Zero, Byte
<1>2. ZeroPage \in [1 .. PageSize -> Byte]
  BY <1>a DEF ZeroPage
<1>3. SocketTypes
  <2>1. SocketInit
    BY DEF Init, DeviceInit
  <2>2. stream \in [Conn -> Seq(Byte)] /\ \A c \in Conn : stream[c] = << >>
    BY <1>1, <2>1 DEF SocketInit
  <2>3. \A c \in Conn : Len(stream[c]) <= SockBuf
    BY <1>1, <2>2, Sets
  <2>4. cli \in [Conn -> CliState] /\ srv \in [Conn -> SrvState]
    BY <2>1 DEF SocketInit, CliState, SrvState
  <2> QED BY <1>1, <2>1, <2>2, <2>3, <2>4 DEF SocketInit, SocketTypes
<1>4. DeviceTypes
  BY <1>2 DEF Init, DeviceInit, DeviceTypes, MaybeSock
<1>5. scenario \in Scenarios /\ fileLen \in [Run -> Nat]
  <2>1. scenario \in Scenario
    BY ScenarioAssumption DEF Init
  <2>2. scenario.sizes \subseteq Nat
    BY <2>1 DEF Scenario
  <2> QED BY <2>2 DEF Init
<1>6. master \in [Run -> MasterState] /\ slave \in [Run -> SlaveState]
  <2>1. /\ "fcntl" \in Method /\ NoSock \in MaybeSock /\ "not yet" \in Ending
        /\ 0 \in 0 .. PageSize /\ 0 \in Nat
    BY PageAssumption DEF Method, MaybeSock, Ending
  <2>2. [pc |-> "start", method |-> "fcntl", offset |-> 0, size |-> 0,
         sent |-> 0, sk |-> NoSock, end |-> "not yet"] \in MasterState
    BY <2>1 DEF MasterState
  <2>3. [pc |-> "start", method |-> "fcntl", len |-> 0, sk |-> NoSock,
         end |-> "not yet"] \in SlaveState
    BY <2>1 DEF SlaveState
  <2> QED BY <2>2, <2>3 DEF Init
<1>7. ProgramTypes
  <2>a. 0 \in 0 .. Runs
    BY RunAssumption
  <2>0. source = [c \in Conn |-> 0] /\ file_size = [r \in Run |-> 0]
    BY DEF Init
  <2>1. source \in [Conn -> 0 .. Runs]
    BY <2>0, <2>a
  <2>b. file_size \in [Run -> Int]
    BY <2>0
  <2>2. file \in [Run -> Seq(Byte)]
    BY <1>1 DEF Init
  <2>3. disturbed \subseteq {"masters", "slaves"} \X Run
    BY DEF Init
  <2> QED BY <1>5, <1>6, <2>1, <2>b, <2>2, <2>3 DEF ProgramTypes
<1> QED BY <1>3, <1>4, <1>7, TypeParts

(* Every step of a master keeps the types.                                  *)
LEMMA MasterTypes ==
  ASSUME IInv, NEW r \in Run, Master(r)
  PROVE  TypeOK'
<1> USE DEF histVars, slaveVars
<1>0. TypeOK /\ SocketTypes /\ DeviceTypes /\ ProgramTypes /\ BooksInv /\ MasterInv
  BY TypeParts DEF IInv
<1>1. /\ scenario' = scenario /\ fileLen' = fileLen /\ slave' = slave
      /\ file' = file /\ file_size' = file_size
  BY DEF Master, MasterOpens, MasterAccepts, MasterAssigns, MasterFills, MasterMapFails,
         MasterSends, MasterSendsNothing, MasterSendFails, MasterExits, MasterStops
<1>2. /\ master[r] \in MasterState /\ master[r].offset \in Nat /\ master[r].sk \in Run \cup {0}
      /\ master[r].size \in 0 .. PageSize /\ master[r].sent \in 0 .. PageSize
      /\ fileLen[r] \in Nat
  BY <1>0, RunTypes
<1>3. master' \in [Run -> MasterState]
  <2>0. master \in [Run -> MasterState]
    BY <1>0 DEF ProgramTypes
  <2> USE DEF MasterState
  <2>1. CASE MasterOpens(r)
    <3>1. scenario.masterMethods \subseteq Method
      BY <1>0, ScenarioAssumption DEF Scenario, ProgramTypes
    <3>2. PICK m \in Method, e \in Ending :
            \/ master' = [master EXCEPT ![r].pc = "accept", ![r].method = m]
            \/ master' = [master EXCEPT ![r].pc = "over", ![r].end = e]
      BY <2>1, <3>1 DEF MasterOpens, MasterEnds, Ending, Method
    <3> QED BY <2>0, <3>2
  <2>2. CASE MasterAccepts(r)
    <3>1. PICK c \in MaybeSock : master' = [master EXCEPT ![r].pc = "assign", ![r].sk = c]
      BY <2>2 DEF MasterAccepts, MaybeSock
    <3> QED BY <2>0, <3>1
  <2>3. CASE MasterFills(r)
    <3>1. PICK c \in MasterSock(Fresh) :
            master' = [master EXCEPT ![r].pc = "send", ![r].offset = master[r].offset + part(r),
                                     ![r].size = part(r), ![r].sent = 0, ![r].sk = c]
      BY <2>3 DEF MasterFills
    <3>2. c \in MaybeSock
      BY <1>0, <2>0 DEF MasterSock, Fresh, MasterLive, DeviceTypes
    <3>3. part(r) \in 0 .. PageSize /\ part(r) \in Nat
      BY <1>0, <1>2, Sets DEF part, remain, Min, BooksInv
    <3>4. master[r].offset + part(r) \in Nat /\ 0 \in 0 .. PageSize
      BY <1>2, <3>3, Sets
    <3>5. PICK off \in Nat, n \in 0 .. PageSize, z \in 0 .. PageSize :
            master' = [master EXCEPT ![r].pc = "send", ![r].offset = off, ![r].size = n,
                                     ![r].sent = z, ![r].sk = c]
      BY <3>1, <3>3, <3>4
    <3> DEFINE m == [master[r] EXCEPT !.pc = "send", !.offset = off, !.size = n,
                                      !.sent = z, !.sk = c]
    <3>6. m \in MasterState
      BY <1>2, <3>2
    <3>7. master' = [master EXCEPT ![r] = m]
      BY <3>5
    <3> QED BY <2>0, <3>6, <3>7
  <2>4. CASE MasterSends(r)
    <3>0. master[r].pc = "send" /\ master[r].size # 0
      BY <1>2, <2>4 DEF MasterSends
    <3>1. master[r].sent + 1 \in 0 .. PageSize
      <4>1. master[r].sent <= master[r].size /\ master[r].sent # master[r].size
        BY <1>0, <3>0 DEF BooksInv
      <4> QED BY <1>2, <4>1, Sets
    <3>2. PICK p \in {"send", "fill", "exit"} :
            master' = [master EXCEPT ![r].sent = master[r].sent + 1, ![r].pc = p]
      BY <2>0, <2>4 DEF MasterSends, AfterSend
    <3> QED BY <2>0, <3>1, <3>2
  <2>5. CASE \/ MasterAssigns(r) \/ MasterMapFails(r) \/ MasterSendsNothing(r)
             \/ MasterSendFails(r) \/ MasterExits(r) \/ MasterStops(r)
    <3>1. \/ master' = [master EXCEPT ![r].pc = "fill"]
          \/ master' = [master EXCEPT ![r].pc = "exit"]
          \/ \E e \in Ending : master' = [master EXCEPT ![r].pc = "over", ![r].end = e]
      BY <2>5 DEF MasterAssigns, MasterMapFails, MasterSendsNothing, MasterSendFails, MasterExits,
                  MasterStops, MasterTo, MasterEnds, AfterSend, Ending
    <3> QED BY <2>0, <3>1
  <2> QED BY <2>1, <2>2, <2>3, <2>4, <2>5 DEF Master
<1>4. source' \in [Conn -> 0 .. Runs]
  <2>1. UNCHANGED source \/ \E c \in Conn : source' = [source EXCEPT ![c] = r]
    BY DEF Master, MasterOpens, MasterAccepts, MasterAssigns, MasterFills, MasterMapFails,
           MasterSends, MasterSendsNothing, MasterSendFails, MasterExits, MasterStops
  <2> QED BY <1>0, <2>1, Sets DEF ProgramTypes
<1>5. disturbed' \subseteq {"masters", "slaves"} \X Run
  <2>1. UNCHANGED disturbed \/ disturbed' = disturbed \cup Overlaps("masters", master, r)
    BY DEF Master, MasterOpens, MasterAccepts, MasterAssigns, MasterFills, MasterMapFails,
           MasterSends, MasterSendsNothing, MasterSendFails, MasterExits, MasterStops
  <2> QED BY <1>0, <2>1 DEF ProgramTypes, Overlaps, Active
<1>6. ProgramTypes'
  BY <1>0, <1>1, <1>3, <1>4, <1>5 DEF ProgramTypes
<1>7. SocketTypes' /\ DeviceTypes'
  <2>1. CASE MasterOpens(r)
    <3>1. UNCHANGED sockVars
      BY <2>1 DEF MasterOpens
    <3>2. UNCHANGED devVars \/ master_open(r)
      BY <2>1 DEF MasterOpens
    <3>3. ZeroPage \in [1 .. PageSize -> Byte]
      BY RunAssumption DEF ZeroPage, Zero, Byte
    <3>4. DeviceTypes'
      BY <1>0, <3>2, <3>3, TypesFrame DEF master_open, DeviceTypes
    <3> QED BY <1>0, <3>1, <3>4, TypesFrame
  <2>2. CASE MasterAccepts(r)
    <3>1. PICK c \in Conn : kaccept(c)
      BY <2>2 DEF MasterAccepts
    <3>2. backlog' \in Seq(Conn)
      BY <1>0, <3>1, HeadTailProperties DEF kaccept, SocketTypes
    <3>3. SocketTypes'
      BY <1>0, <3>1, <3>2 DEF kaccept, SocketTypes, SrvState
    <3> QED BY <1>0, <2>2, <3>3, TypesFrame DEF MasterAccepts
  <2>3. CASE MasterAssigns(r)
    <3>1. master[r].sk \in MaybeSock
      BY <1>2, Sets
    <3> QED BY <1>0, <2>3, <3>1, TypesFrame DEF MasterAssigns, MasterAssign, DeviceTypes
  <2>4. CASE MasterFills(r)
    <3> DEFINE bytes == [i \in 1 .. part(r) |-> <<r, master[r].offset + i>>]
    <3>1. mPage' = [mPage EXCEPT ![r] = Overlay(bytes, @)]
      BY <2>4 DEF MasterFills
    <3>2. part(r) \in Nat
      BY <1>0, <1>2, Sets DEF part, remain, Min, BooksInv
    <3>3. bytes \in Seq(Byte)
      BY <1>2, <3>2, PartFacts
    <3>4. Overlay(bytes, mPage[r]) \in [1 .. PageSize -> Byte]
      BY <1>0, <3>3, OverlayFacts, RunTypes
    <3> HIDE DEF bytes
    <3>5. mPage' \in [File -> [1 .. PageSize -> Byte]]
      BY <1>0, <3>1, <3>4 DEF DeviceTypes
    <3> QED BY <1>0, <2>4, <3>5, TypesFrame DEF MasterFills, DeviceTypes
  <2>5. CASE MasterSends(r)
    <3> DEFINE byte == mPage[r][master[r].sent + 1]
               s == stream[master[r].sk]
    <3>1. ksend(master[r].sk, byte) /\ UNCHANGED devVars
      BY <2>5 DEF MasterSends
    <3>2. master[r].sent + 1 \in 1 .. PageSize
      <4>1. master[r].pc = "send" /\ master[r].size # 0
        BY <1>2, <2>5 DEF MasterSends
      <4>2. master[r].sent <= master[r].size /\ master[r].sent # master[r].size
        BY <1>0, <4>1 DEF BooksInv
      <4> QED BY <1>2, <4>2, Sets
    <3>3. byte \in Byte
      BY <1>0, <3>2, RunTypes
    <3>4. master[r].sk \in Run
      <4>1. master[r].sk # NoSock
        BY <1>0, <2>5 DEF MasterSends, MasterInv
      <4> QED BY <1>2, <4>1, Sets DEF NoSock
    <3>5. s \in Seq(Byte)
      BY <1>0, <3>4, RunTypes
    <3> HIDE DEF byte, s
    <3>6. Append(s, byte) \in Seq(Byte) /\ Len(Append(s, byte)) = Len(s) + 1 /\ Len(s) \in Nat
      BY <3>3, <3>5, AppendProperties, LenProperties
    <3>7. Len(s) < SockBuf /\ stream' = [stream EXCEPT ![master[r].sk] = Append(s, byte)]
      BY <3>1 DEF ksend, s
    <3>8. stream' \in [Conn -> Seq(Byte)] /\ \A c \in Conn : Len(stream'[c]) <= SockBuf
      BY <1>0, <3>4, <3>6, <3>7, Sets DEF SocketTypes
    <3> QED BY <1>0, <3>1, <3>8, TypesFrame DEF ksend, SocketTypes
  <2>6. CASE MasterExits(r)
    <3>1. PICK c \in MasterSock(Fresh) : MasterExit(c)
      BY <2>6 DEF MasterExits
    <3> QED BY <1>0, <3>1, TypesFrame DEF MasterExit, kcloseSrv, SocketTypes, SrvState
  <2>7. CASE MasterMapFails(r) \/ MasterSendsNothing(r) \/ MasterSendFails(r) \/ MasterStops(r)
    BY <1>0, <2>7, TypesFrame
       DEF MasterMapFails, MasterSendsNothing, MasterSendFails, MasterStops
  <2> QED BY <2>1, <2>2, <2>3, <2>4, <2>5, <2>6, <2>7 DEF Master
<1> QED BY <1>6, <1>7, TypeParts

(* Every step of a slave keeps the types.                                   *)
LEMMA SlaveTypes ==
  ASSUME IInv, NEW r \in Run, Slave(r)
  PROVE  TypeOK'
<1> USE DEF histVars, masterVars
<1>0. TypeOK /\ SocketTypes /\ DeviceTypes /\ ProgramTypes /\ SlaveInv
  BY TypeParts DEF IInv
<1>1. /\ scenario' = scenario /\ fileLen' = fileLen /\ master' = master /\ source' = source
  BY DEF Slave, SlaveOpens, SlaveMakesSocket, SlaveConnects, SlaveCalls, SlaveReceives, SlaveAtEof,
         SlaveRecvFails, SlaveStores, SlaveExtends, SlaveMaps, SlaveExits, SlaveStops
<1>2. /\ slave[r] \in SlaveState /\ slave[r].len \in 0 .. PageSize
      /\ slave[r].sk \in Run \cup {0} /\ file_size[r] \in Int /\ file[r] \in Seq(Byte)
      /\ sPage[r] \in [1 .. PageSize -> Byte]
  BY <1>0, RunTypes
<1>3. slave' \in [Run -> SlaveState]
  <2>0. slave \in [Run -> SlaveState]
    BY <1>0 DEF ProgramTypes
  <2> USE DEF SlaveState
  <2>1. CASE SlaveOpens(r)
    <3>1. scenario.slaveMethods \subseteq Method
      BY <1>0, ScenarioAssumption DEF Scenario, ProgramTypes
    <3>2. PICK m \in Method : slave' = [slave EXCEPT ![r].pc = "socket", ![r].method = m]
      BY <2>1, <3>1 DEF SlaveOpens
    <3> QED BY <2>0, <3>2
  <2>2. CASE SlaveCalls(r)
    <3>1. PICK c \in MaybeSock : slave' = [slave EXCEPT ![r].pc = "recv", ![r].sk = c]
      BY <1>0, <2>2 DEF SlaveCalls, DeviceTypes
    <3> QED BY <2>0, <3>1
  <2>3. CASE SlaveReceives(r) \/ SlaveAtEof(r)
    <3>1. 0 \in 0 .. PageSize /\ \A n \in 1 .. PageSize : n \in 0 .. PageSize
      BY Sets
    <3>2. CASE SlaveReceives(r)
      <4>1. PICK n \in 0 .. PageSize, p \in {"store", "extend"} :
              slave' = [slave EXCEPT ![r].len = n, ![r].pc = p]
        BY <3>1, <3>2 DEF SlaveReceives
      <4> QED BY <2>0, <4>1
    <3>3. CASE SlaveAtEof(r)
      <4>1. slave' = [slave EXCEPT ![r].pc = "exit", ![r].len = 0]
        BY <3>3 DEF SlaveAtEof
      <4> QED BY <2>0, <3>1, <4>1
    <3> QED BY <2>3, <3>2, <3>3
  <2>4. CASE \/ SlaveMakesSocket(r) \/ SlaveConnects(r) \/ SlaveRecvFails(r) \/ SlaveStores(r)
             \/ SlaveExtends(r) \/ SlaveMaps(r) \/ SlaveExits(r) \/ SlaveStops(r)
    <3>1. \/ \E p \in {"connect", "call", "map", "exit"} : slave' = [slave EXCEPT ![r].pc = p]
          \/ \E e \in Ending : slave' = [slave EXCEPT ![r].pc = "over", ![r].end = e]
      BY <2>4 DEF SlaveMakesSocket, SlaveConnects, SlaveRecvFails, SlaveStores, SlaveExtends,
                  SlaveMaps, SlaveExits, SlaveStops, SlaveTo, SlaveEnds, Ending
    <3> QED BY <2>0, <3>1
  <2> QED BY <2>1, <2>2, <2>3, <2>4 DEF Slave
<1>4. disturbed' \subseteq {"masters", "slaves"} \X Run
  <2>1. UNCHANGED disturbed \/ disturbed' = disturbed \cup Overlaps("slaves", slave, r)
    BY DEF Slave, SlaveOpens, SlaveMakesSocket, SlaveConnects, SlaveCalls, SlaveReceives,
           SlaveAtEof, SlaveRecvFails, SlaveStores, SlaveExtends, SlaveMaps, SlaveExits, SlaveStops
  <2> QED BY <1>0, <2>1 DEF ProgramTypes, Overlaps, Active
<1>5. file' \in [Run -> Seq(Byte)]
  <2>0. file \in [Run -> Seq(Byte)]
    BY <1>0 DEF ProgramTypes
  <2>1. CASE SlaveStores(r)
    <3> DEFINE written == SubSeq(sPage[r], 1, slave[r].len)
    <3>1. written \in Seq(Byte)
      BY <1>2, PagePart
    <3>2. file' = [file EXCEPT ![r] = file[r] \o written]
      BY <2>1 DEF SlaveStores
    <3> HIDE DEF written
    <3>3. file[r] \o written \in Seq(Byte)
      BY <1>2, <3>1, ConcatProperties
    <3> QED BY <2>0, <3>2, <3>3
  <2>2. CASE SlaveExtends(r)
    <3> DEFINE written == [i \in 1 .. slave[r].len |-> Zero]
    <3>1. Zero \in Byte
      BY RunAssumption DEF Zero, Byte
    <3>2. written \in Seq(Byte)
      <4>1. PICK n : n = slave[r].len
        OBVIOUS
      <4>2. n \in Nat
        BY <1>2, <4>1, Sets
      <4>3. [i \in 1 .. n |-> Zero] \in Seq(Byte)
        BY <3>1, <4>2
      <4> QED BY <4>1, <4>3
    <3>3. file' = [file EXCEPT ![r] = file[r] \o written]
      BY <2>2 DEF SlaveExtends
    <3> HIDE DEF written
    <3>4. file[r] \o written \in Seq(Byte)
      BY <1>2, <3>2, ConcatProperties
    <3> QED BY <2>0, <3>3, <3>4
  <2>3. CASE SlaveMaps(r)
    <3> DEFINE new == [i \in DOMAIN file[r] |->
                         IF i \in file_size[r] + 1 .. file_size[r] + slave[r].len
                         THEN sPage[r][i - file_size[r]] ELSE file[r][i]]
    <3>1. file' = file \/ file' = [file EXCEPT ![r] = new]
      BY <2>3 DEF SlaveMaps
    <3>2. \A i \in 1 .. Len(file[r]) : file[r][i] \in Byte
      BY <1>2, ElementOfSeq
    <3>3. \A i \in file_size[r] + 1 .. file_size[r] + slave[r].len : sPage[r][i - file_size[r]] \in Byte
      <4>1. \A i \in file_size[r] + 1 .. file_size[r] + slave[r].len :
              i - file_size[r] \in 1 .. PageSize
        BY <1>2, Sets
      <4> QED BY <1>2, <4>1
    <3>4. DOMAIN file[r] = 1 .. Len(file[r]) /\ Len(file[r]) \in Nat
      BY <1>2, LenProperties
    <3>5. new \in [1 .. Len(file[r]) -> Byte]
      BY <3>2, <3>3, <3>4
    <3>6. \A f \in [1 .. Len(file[r]) -> Byte] : f \in Seq(Byte)
      BY <3>4
    <3>7. new \in Seq(Byte)
      BY <3>5, <3>6
    <3> HIDE DEF new
    <3> QED BY <2>0, <3>1, <3>7
  <2>4. UNCHANGED file \/ SlaveStores(r) \/ SlaveExtends(r) \/ SlaveMaps(r)
    BY DEF Slave, SlaveOpens, SlaveMakesSocket, SlaveConnects, SlaveCalls, SlaveReceives,
           SlaveAtEof, SlaveRecvFails, SlaveExits, SlaveStops
  <2> QED BY <2>0, <2>1, <2>2, <2>3, <2>4
<1>6. file_size' \in [Run -> Int]
  <2>0. file_size[r] - 1 \in Int /\ file_size[r] + slave[r].len \in Int
    BY <1>2, Sets
  <2>1. CASE SlaveRecvFails(r) \/ SlaveStores(r) \/ SlaveMaps(r)
    <3>1. file_size' = file_size \/ \E n \in Int : file_size' = [file_size EXCEPT ![r] = n]
      BY <2>0, <2>1 DEF SlaveRecvFails, SlaveStores, SlaveMaps
    <3> QED BY <1>0, <3>1 DEF ProgramTypes
  <2>2. CASE ~(SlaveRecvFails(r) \/ SlaveStores(r) \/ SlaveMaps(r))
    <3>1. file_size' = file_size
      BY <2>2 DEF Slave, SlaveOpens, SlaveMakesSocket, SlaveConnects, SlaveCalls, SlaveReceives,
                  SlaveAtEof, SlaveExtends, SlaveExits, SlaveStops
    <3> QED BY <1>0, <3>1 DEF ProgramTypes
  <2> QED BY <2>1, <2>2
<1>7. ProgramTypes'
  BY <1>0, <1>1, <1>3, <1>4, <1>5, <1>6 DEF ProgramTypes
<1>8. SocketTypes' /\ DeviceTypes'
  <2>1. CASE SlaveOpens(r)
    <3>1. ZeroPage \in [1 .. PageSize -> Byte]
      BY RunAssumption DEF ZeroPage, Zero, Byte
    <3>2. DeviceTypes'
      BY <1>0, <2>1, <3>1 DEF SlaveOpens, slave_open, DeviceTypes
    <3> QED BY <1>0, <2>1, <3>2, TypesFrame DEF SlaveOpens
  <2>2. CASE SlaveMakesSocket(r)
    BY <1>0, <2>2, Sets
       DEF SlaveMakesSocket, SlaveCreateSock, ksocket, SocketTypes, DeviceTypes, CliState
  <2>3. CASE SlaveConnects(r)
    <3>1. UNCHANGED devVars /\ (UNCHANGED sockVars \/ kconnect(sSock))
      BY <2>3 DEF SlaveConnects
    <3>2. CASE kconnect(sSock)
      <4>1. sSock \in Conn
        BY <1>0, <2>3 DEF SlaveConnects, SlaveLive, DeviceTypes, MaybeSock
      <4>2. backlog' \in Seq(Conn)
        BY <1>0, <3>2, <4>1, AppendProperties DEF kconnect, SocketTypes
      <4>3. cli' \in [Conn -> CliState]
        BY <1>0, <3>2 DEF kconnect, SocketTypes, CliState
      <4>4. SocketTypes'
        BY <1>0, <3>2, <4>2, <4>3 DEF kconnect, SocketTypes
      <4> QED BY <1>0, <3>1, <4>4, TypesFrame
    <3> QED BY <1>0, <3>1, <3>2, TypesFrame
  <2>4. CASE SlaveReceives(r)
    <3> DEFINE c == slave[r].sk
    <3>1. PICK n \in 1 .. PageSize : SlaveRecv(r, c, n)
      BY <2>4 DEF SlaveReceives
    <3>2. c \in Run /\ n \in Nat
      <4>1. slave[r].pc = "recv"
        BY <2>4 DEF SlaveReceives
      <4>2. slave[r].sk # 0
        BY <1>0, <4>1 DEF SlaveInv, NoSock
      <4> QED BY <1>2, <4>2
    <3>3. stream[c] \in Seq(Byte)
      BY <1>0, <3>2, RunTypes
    <3>4. n <= Len(stream[c]) /\ Len(stream[c]) \in Nat
      BY <3>1, <3>3, LenProperties DEF SlaveRecv, krecv
    <3>5. /\ SubSeq(stream[c], n + 1, Len(stream[c])) \in Seq(Byte)
          /\ Len(SubSeq(stream[c], n + 1, Len(stream[c]))) = Len(stream[c]) - n
          /\ SubSeq(stream[c], 1, n) \in Seq(Byte)
      BY <3>2, <3>3, <3>4, RestFacts, TakenFacts
    <3>6. Overlay(SubSeq(stream[c], 1, n), sPage[r]) \in [1 .. PageSize -> Byte]
      BY <1>2, <3>5, OverlayFacts
    <3>7. sPage' \in [File -> [1 .. PageSize -> Byte]]
      BY <1>0, <3>1, <3>6 DEF SlaveRecv, DeviceTypes
    <3>8. DeviceTypes'
      BY <1>0, <3>1, <3>7 DEF SlaveRecv, DeviceTypes
    <3>9. stream' = [stream EXCEPT ![c] = SubSeq(stream[c], n + 1, Len(stream[c]))]
      BY <3>1 DEF SlaveRecv, krecv
    <3> HIDE DEF c
    <3>10. stream' \in [Conn -> Seq(Byte)] /\ \A d \in Conn : Len(stream'[d]) <= SockBuf
      <4>1. Len(stream[c]) <= SockBuf
        BY <1>0, <3>2, Sets DEF SocketTypes
      <4>2. stream \in [Run -> Seq(Byte)] /\ \A d \in Run : Len(stream[d]) <= SockBuf
        BY <1>0, Sets DEF SocketTypes
      <4>3. Len(stream[c]) - n <= SockBuf
        BY <3>2, <3>4, <4>1, Sets
      <4>4. stream' \in [Run -> Seq(Byte)]
        BY <3>2, <3>5, <3>9, <4>2
      <4>5. \A d \in Run : Len(stream'[d]) <= SockBuf
        BY <3>2, <3>5, <3>9, <4>2, <4>3
      <4> QED BY <4>4, <4>5, Sets
    <3> QED BY <1>0, <3>1, <3>8, <3>10 DEF SlaveRecv, krecv, SocketTypes
  <2>5. CASE SlaveRecvFails(r)
    BY <1>0, <2>5, TypesFrame DEF SlaveRecvFails, krecvFails, SocketTypes, SrvState
  <2>6. CASE SlaveExits(r)
    <3>1. kcloseCli(sSock) /\ UNCHANGED devVars
      BY <2>6 DEF SlaveExits, SlaveExit
    <3>2. cli' \in [Conn -> CliState]
      BY <1>0, <3>1 DEF kcloseCli, SocketTypes, CliState
    <3>3. << >> \in Seq(Byte) /\ Len(<< >>) = 0
      OBVIOUS
    <3>4. stream' \in [Conn -> Seq(Byte)] /\ \A d \in Conn : Len(stream'[d]) <= SockBuf
      <4>1. stream' = [stream EXCEPT ![sSock] = << >>]
        BY <3>1 DEF kcloseCli
      <4>2. stream \in [Run -> Seq(Byte)] /\ \A d \in Run : Len(stream[d]) <= SockBuf
        BY <1>0, Sets DEF SocketTypes
      <4>3. 0 <= SockBuf
        BY Sets
      <4>4. stream' \in [Run -> Seq(Byte)]
        BY <3>3, <4>1, <4>2
      <4>5. \A d \in Run : Len(stream'[d]) <= SockBuf
        BY <3>3, <4>1, <4>2, <4>3
      <4> QED BY <4>4, <4>5, Sets
    <3> QED BY <1>0, <3>1, <3>2, <3>4, TypesFrame DEF kcloseCli, SocketTypes
  <2>7. CASE \/ SlaveCalls(r) \/ SlaveAtEof(r) \/ SlaveStores(r) \/ SlaveExtends(r)
             \/ SlaveMaps(r) \/ SlaveStops(r)
    <3>1. UNCHANGED <<sockVars, devVars>>
      BY <2>7 DEF SlaveCalls, SlaveAtEof, SlaveStores, SlaveExtends, SlaveMaps, SlaveStops
    <3> QED BY <1>0, <3>1, TypesFrame
  <2> QED BY <2>1, <2>2, <2>3, <2>4, <2>5, <2>6, <2>7 DEF Slave
<1> QED BY <1>7, <1>8, TypeParts

(* So does removing and inserting master_device,                            *)
LEMMA ReloadTypes ==
  ASSUME IInv, Reload
  PROVE  TypeOK'
<1>0. TypeOK /\ SocketTypes /\ DeviceTypes /\ ProgramTypes
  BY TypeParts DEF IInv
<1>1. ProgramTypes'
  BY <1>0 DEF Reload, ProgramTypes, slaveVars, histVars
<1>2. CASE master_exit
  <2>1. srv' \in [Conn -> SrvState]
    BY <1>0, <1>2 DEF master_exit, kcloseListener, SocketTypes, SrvState
  <2>2. << >> \in Seq(Conn)
    OBVIOUS
  <2>3. SocketTypes'
    BY <1>0, <1>2, <2>1, <2>2 DEF master_exit, kcloseListener, SocketTypes
  <2> QED BY <1>0, <1>1, <1>2, <2>3, TypesFrame, TypeParts DEF master_exit
<1>3. CASE master_init
  <2>1. SocketTypes'
    BY <1>0, <1>3 DEF master_init, klisten, SocketTypes
  <2>2. DeviceTypes'
    BY <1>0, <1>3 DEF master_init, DeviceTypes, MaybeSock
  <2> QED BY <1>1, <2>1, <2>2, TypeParts
<1> QED BY <1>2, <1>3 DEF Reload

(* and killing a program.                                                   *)
LEMMA KillTypes ==
  ASSUME IInv, NEW r \in Run, MasterAborts(r) \/ SlaveAborts(r)
  PROVE  TypeOK'
<1>0. TypeOK /\ SocketTypes /\ DeviceTypes /\ ProgramTypes
  BY TypeParts DEF IInv
<1>1. CASE MasterAborts(r)
  <2>1. master[r].sk \in MaybeSock /\ NoSock \in MaybeSock
    BY <1>0, RunTypes, Sets DEF MaybeSock
  <2>2. mSock' \in MaybeSock
    BY <1>0, <1>1, <2>1 DEF MasterAborts, MasterKilled, MasterAcceptFails, DeviceTypes
  <2>3. DeviceTypes' /\ SocketTypes'
    BY <1>0, <1>1, <2>2, TypesFrame DEF MasterAborts, MasterKilled, MasterAcceptFails, DeviceTypes
  <2>4. master' \in [Run -> MasterState]
    <3>1. master \in [Run -> MasterState]
      BY <1>0 DEF ProgramTypes
    <3>2. PICK e \in Ending : master' = [master EXCEPT ![r].pc = "over", ![r].end = e]
      BY <1>1 DEF MasterAborts, MasterKilled, MasterAcceptFails, MasterEnds, Ending
    <3> QED BY <3>1, <3>2 DEF MasterState
  <2>5. ProgramTypes'
    BY <1>0, <1>1, <2>4 DEF MasterAborts, MasterKilled, MasterAcceptFails, ProgramTypes,
         slaveVars, histVars
  <2> QED BY <2>3, <2>5, TypeParts
<1>2. CASE SlaveAborts(r)
  <2>1. slave' \in [Run -> SlaveState]
    <3>1. slave \in [Run -> SlaveState]
      BY <1>0 DEF ProgramTypes
    <3>2. PICK e \in Ending : slave' = [slave EXCEPT ![r].pc = "over", ![r].end = e]
      BY <1>2 DEF SlaveAborts, SlaveKilled, SlaveSocketFails, SlaveEnds, Ending
    <3> QED BY <3>1, <3>2 DEF SlaveState
  <2>2. ProgramTypes'
    BY <1>0, <1>2, <2>1 DEF SlaveAborts, SlaveKilled, SlaveSocketFails, ProgramTypes,
         masterVars, histVars
  <2>3. sSock' \in MaybeSock
    BY <1>0, <1>2 DEF SlaveAborts, SlaveKilled, SlaveSocketFails, DeviceTypes, MaybeSock, devVars
  <2>4. DeviceTypes' /\ SocketTypes'
    BY <1>0, <1>2, <2>3, TypesFrame DEF SlaveAborts, SlaveKilled, SlaveSocketFails, DeviceTypes,
         devVars
  <2> QED BY <2>2, <2>4, TypeParts
<1> QED BY <1>1, <1>2

(* Types are kept.                                                          *)
LEMMA TypeNext == IInv /\ [Next]_vars => TypeOK'
<1> SUFFICES ASSUME IInv, [Next]_vars PROVE TypeOK'
  OBVIOUS
<1>1. CASE UNCHANGED vars
  BY <1>1 DEF IInv, TypeOK, vars, sockVars, devVars
<1>2. CASE Reload
  BY <1>2, ReloadTypes
<1>3. CASE \E r \in Run : Master(r) \/ Slave(r) \/ MasterAborts(r) \/ SlaveAborts(r)
  BY <1>3, MasterTypes, SlaveTypes, KillTypes
<1> QED BY <1>1, <1>2, <1>3 DEF Next

-----------------------------------------------------------------------------
(* What each step does to the local state of its program.                   *)

(* A step of one run leaves the other runs of the program alone.            *)
LEMMA OthersKept ==
  ASSUME TypeOK, NEW r \in Run
  PROVE  /\ Master(r) \/ MasterAborts(r) =>
              /\ \A q \in Run \ {r} : master'[q] = master[q] /\ mPage'[q] = mPage[q]
              /\ UNCHANGED <<sSock, sPage, slaveVars>>
         /\ Slave(r) \/ SlaveAborts(r) =>
              /\ \A q \in Run \ {r} :
                   /\ slave'[q] = slave[q] /\ sPage'[q] = sPage[q]
                   /\ file'[q] = file[q] /\ file_size'[q] = file_size[q]
              /\ UNCHANGED <<mSock, mPage, masterVars, source>>
         /\ Reload => UNCHANGED <<sSock, mPage, sPage, master, slaveVars, histVars>>
<1>0. /\ master \in [Run -> MasterState] /\ slave \in [Run -> SlaveState]
      /\ mPage \in [Run -> [1 .. PageSize -> Byte]] /\ sPage \in [Run -> [1 .. PageSize -> Byte]]
      /\ file \in [Run -> Seq(Byte)] /\ file_size \in [Run -> Int]
  BY Sets DEF TypeOK
<1>1. ASSUME Master(r) \/ MasterAborts(r)
      PROVE  UNCHANGED <<sSock, sPage, slaveVars>>
  BY <1>1 DEF Master, MasterOpens, MasterAccepts, MasterAssigns, MasterFills, MasterMapFails,
         MasterSends, MasterSendsNothing, MasterSendFails, MasterExits, MasterStops,
         MasterAborts, MasterKilled, MasterAcceptFails,
         slaveVars, devVars, master_open, MasterAssign, MasterExit
<1>2. ASSUME Master(r) \/ MasterAborts(r), NEW q \in Run \ {r}
      PROVE  master'[q] = master[q]
  BY <1>0, <1>2 DEF Master, MasterOpens, MasterAccepts, MasterAssigns, MasterFills, MasterMapFails,
         MasterSends, MasterSendsNothing, MasterSendFails, MasterExits, MasterStops,
         MasterAborts, MasterKilled, MasterAcceptFails,
         MasterTo, MasterEnds
<1>3. ASSUME Master(r) \/ MasterAborts(r), NEW q \in Run \ {r}
      PROVE  mPage'[q] = mPage[q]
  BY <1>0, <1>3 DEF Master, MasterOpens, MasterAccepts, MasterAssigns, MasterFills, MasterMapFails,
         MasterSends, MasterSendsNothing, MasterSendFails, MasterExits, MasterStops,
         MasterAborts, MasterKilled, MasterAcceptFails,
         devVars, master_open, MasterAssign, MasterExit
<1>4. ASSUME Slave(r) \/ SlaveAborts(r)
      PROVE  UNCHANGED <<mSock, mPage, masterVars, source>>
  BY <1>4 DEF Slave, SlaveOpens, SlaveMakesSocket, SlaveConnects, SlaveCalls, SlaveReceives,
         SlaveAtEof, SlaveRecvFails, SlaveStores, SlaveExtends, SlaveMaps, SlaveExits, SlaveStops,
         SlaveAborts, SlaveKilled, SlaveSocketFails, masterVars, histVars, devVars, slave_open,
         SlaveCreateSock, SlaveRecv, SlaveExit
<1>5. ASSUME Slave(r) \/ SlaveAborts(r), NEW q \in Run \ {r}
      PROVE  slave'[q] = slave[q]
  BY <1>0, <1>5 DEF Slave, SlaveOpens, SlaveMakesSocket, SlaveConnects, SlaveCalls, SlaveReceives,
         SlaveAtEof, SlaveRecvFails, SlaveStores, SlaveExtends, SlaveMaps, SlaveExits, SlaveStops,
         SlaveAborts, SlaveKilled, SlaveSocketFails, SlaveTo, SlaveEnds
<1>6. ASSUME Slave(r) \/ SlaveAborts(r), NEW q \in Run \ {r}
      PROVE  sPage'[q] = sPage[q]
  BY <1>0, <1>6 DEF Slave, SlaveOpens, SlaveMakesSocket, SlaveConnects, SlaveCalls, SlaveReceives,
         SlaveAtEof, SlaveRecvFails, SlaveStores, SlaveExtends, SlaveMaps, SlaveExits, SlaveStops,
         SlaveAborts, SlaveKilled, SlaveSocketFails, devVars, slave_open, SlaveCreateSock,
         SlaveRecv, SlaveExit
<1>7. ASSUME Slave(r) \/ SlaveAborts(r), NEW q \in Run \ {r}
      PROVE  file'[q] = file[q] /\ file_size'[q] = file_size[q]
  BY <1>0, <1>7 DEF Slave, SlaveOpens, SlaveMakesSocket, SlaveConnects, SlaveCalls, SlaveReceives,
         SlaveAtEof, SlaveRecvFails, SlaveStores, SlaveExtends, SlaveMaps, SlaveExits, SlaveStops,
         SlaveAborts, SlaveKilled, SlaveSocketFails
<1>8. ASSUME Reload
      PROVE  UNCHANGED <<sSock, mPage, sPage, master, slaveVars, histVars>>
  BY <1>8 DEF Reload, master_exit, master_init, devVars
<1> QED BY <1>1, <1>2, <1>3, <1>4, <1>5, <1>6, <1>7, <1>8

(* The local state of a master before and after each of its steps.          *)
LEMMA MasterEffects ==
  ASSUME TypeOK, NEW r \in Run
  PROVE  LET m == master[r]
             n == master'[r]
         IN  /\ MasterOpens(r) =>
                  m.pc = "start" /\ n.pc \in {"accept", "over"} /\ n.offset = m.offset
             /\ MasterAccepts(r) =>
                  m.pc = "accept" /\ n.pc = "assign" /\ n.offset = m.offset
             /\ MasterAssigns(r) =>
                  /\ m.pc = "assign" /\ n.pc = "fill" /\ n.offset = m.offset
                  /\ mSock' = m.sk
             /\ MasterFills(r) =>
                  /\ m.pc = "fill" /\ n.pc = "send" /\ n.offset = m.offset + part(r)
                  /\ n.size = part(r) /\ n.sent = 0 /\ n.sk \in MasterSock(Fresh)
             /\ MasterSends(r) =>
                  /\ m.pc = "send" /\ m.size > 0
                  /\ n.pc = IF m.sent + 1 = m.size THEN AfterSend(r) ELSE "send"
                  /\ n.offset = m.offset /\ n.size = m.size /\ n.sent = m.sent + 1 /\ n.sk = m.sk
             /\ MasterSendsNothing(r) =>
                  m.pc = "send" /\ n.pc = AfterSend(r) /\ n.offset = m.offset
             /\ MasterSendFails(r) =>
                  m.pc = "send" /\ n.pc \in {AfterSend(r), "over"} /\ n.offset = m.offset
             /\ MasterMapFails(r) =>
                  m.pc = "fill" /\ n.pc = "over" /\ n.offset = m.offset
             /\ MasterExits(r) =>
                  m.pc = "exit" /\ n.pc = "over" /\ n.offset = m.offset
             /\ MasterStops(r) =>
                  /\ m.pc \in {"fill", "send", "exit"} /\ n.pc = "over" /\ n.offset = m.offset
             /\ MasterAborts(r) =>
                  r \in Active(master) /\ n.pc = "over" /\ n.offset = m.offset
<1>0. master \in [Run -> MasterState] /\ master[r].pc \in {"start", "accept", "assign", "fill", "send", "exit", "over"}
  BY DEF TypeOK, MasterState
<1> USE DEF MasterState, MasterTo, MasterEnds
<1>1. MasterOpens(r) =>
        /\ master[r].pc = "start" /\ master'[r].pc \in {"accept", "over"}
        /\ master'[r].offset = master[r].offset
  BY <1>0 DEF MasterOpens, Startable
<1>2. MasterAccepts(r) =>
        /\ master[r].pc = "accept" /\ master'[r].pc = "assign"
        /\ master'[r].offset = master[r].offset
  BY <1>0 DEF MasterAccepts
<1>3. MasterAssigns(r) =>
        /\ master[r].pc = "assign" /\ master'[r].pc = "fill"
        /\ master'[r].offset = master[r].offset /\ mSock' = master[r].sk
  BY <1>0 DEF MasterAssigns, MasterAssign
<1>4. MasterFills(r) =>
        /\ master[r].pc = "fill" /\ master'[r].pc = "send"
        /\ master'[r].offset = master[r].offset + part(r)
        /\ master'[r].size = part(r) /\ master'[r].sent = 0 /\ master'[r].sk \in MasterSock(Fresh)
  <2> SUFFICES ASSUME MasterFills(r)
               PROVE  /\ master[r].pc = "fill" /\ master'[r].pc = "send"
                      /\ master'[r].offset = master[r].offset + part(r)
                      /\ master'[r].size = part(r) /\ master'[r].sent = 0
                      /\ master'[r].sk \in MasterSock(Fresh)
    OBVIOUS
  <2>1. PICK c \in MasterSock(Fresh) :
          master' = [master EXCEPT ![r].pc = "send", ![r].offset = master[r].offset + part(r),
                                   ![r].size = part(r), ![r].sent = 0, ![r].sk = c]
    BY DEF MasterFills
  <2>2. master[r].pc = "fill"
    BY DEF MasterFills
  <2> QED BY <1>0, <2>1, <2>2
<1>5. MasterSends(r) =>
        /\ master[r].pc = "send" /\ master[r].size > 0
        /\ master'[r].pc = IF master[r].sent + 1 = master[r].size THEN AfterSend(r) ELSE "send"
        /\ master'[r].offset = master[r].offset /\ master'[r].size = master[r].size
        /\ master'[r].sent = master[r].sent + 1 /\ master'[r].sk = master[r].sk
  BY <1>0 DEF MasterSends
<1>6. /\ MasterSendsNothing(r) =>
           /\ master[r].pc = "send" /\ master'[r].pc = AfterSend(r)
           /\ master'[r].offset = master[r].offset
      /\ MasterSendFails(r) =>
           /\ master[r].pc = "send" /\ master'[r].pc \in {AfterSend(r), "over"}
           /\ master'[r].offset = master[r].offset
  BY <1>0 DEF MasterSendsNothing, MasterSendFails
<1>7. /\ MasterMapFails(r) =>
           /\ master[r].pc = "fill" /\ master'[r].pc = "over"
           /\ master'[r].offset = master[r].offset
      /\ MasterExits(r) =>
           /\ master[r].pc = "exit" /\ master'[r].pc = "over"
           /\ master'[r].offset = master[r].offset
      /\ MasterStops(r) =>
           /\ master[r].pc \in {"fill", "send", "exit"} /\ master'[r].pc = "over"
           /\ master'[r].offset = master[r].offset
      /\ MasterAborts(r) =>
           /\ r \in Active(master) /\ master'[r].pc = "over"
           /\ master'[r].offset = master[r].offset
  <2>1. "accept" \notin {"start", "over"}
    OBVIOUS
  <2> QED BY <1>0, <2>1 DEF MasterMapFails, MasterExits, MasterStops, MasterAborts, MasterKilled,
            MasterAcceptFails, Active
<1> QED BY <1>1, <1>2, <1>3, <1>4, <1>5, <1>6, <1>7

(* The same of a slave.                                                     *)
LEMMA SlaveEffects ==
  ASSUME TypeOK, NEW r \in Run
  PROVE  LET m == slave[r]
             n == slave'[r]
         IN  /\ SlaveOpens(r) =>
                  m.pc = "start" /\ n.pc = "socket" /\ n.end = m.end
             /\ ~SlaveOpens(r) /\ (Slave(r) \/ SlaveAborts(r)) => n.method = m.method
             /\ SlaveMakesSocket(r) =>
                  m.pc = "socket" /\ n.pc = "connect" /\ n.end = m.end /\ sSock' = r
             /\ SlaveConnects(r) =>
                  /\ m.pc = "connect" /\ n.end \in {m.end, "failed"}
                  /\ n.pc = IF Connectable(sSock) THEN "call" ELSE "over"
             /\ SlaveCalls(r) =>
                  m.pc = "call" /\ n.pc = "recv" /\ n.sk = sSock /\ n.end = m.end
             /\ SlaveReceives(r) =>
                  /\ m.pc = "recv" /\ n.pc = IF m.method = "fcntl" THEN "store" ELSE "extend"
                  /\ n.len \in 1 .. PageSize /\ SlaveRecv(r, m.sk, n.len) /\ n.end = m.end
             /\ SlaveAtEof(r) =>
                  m.pc = "recv" /\ n.pc = "exit" /\ n.end = m.end
             /\ SlaveRecvFails(r) =>
                  /\ m.pc = "recv" /\ n.pc = IF m.method = "fcntl" THEN "call" ELSE "over"
                  /\ n.end \in {m.end, "failed"}
             /\ SlaveStores(r) =>
                  m.pc = "store" /\ n.pc = "call" /\ n.end = m.end
             /\ SlaveExtends(r) =>
                  m.pc = "extend" /\ n.pc = "map" /\ n.len = m.len /\ n.end = m.end
             /\ SlaveMaps(r) =>
                  /\ m.pc = "map" /\ n.end = m.end
                  /\ n.pc = IF file_size[r] % PageSize = 0 THEN "call" ELSE "exit"
             /\ SlaveExits(r) =>
                  m.pc = "exit" /\ n.pc = "over" /\ n.end = "ok"
             /\ SlaveStops(r) =>
                  /\ m.pc \in {"connect", "call", "exit", "recv"}
                  /\ n.pc = "over" /\ n.end = "killed"
             /\ SlaveAborts(r) =>
                  r \in Active(slave) /\ n.pc = "over" /\ n.end \in {"killed", "failed"}
<1>0. slave \in [Run -> SlaveState]
  BY DEF TypeOK
<1> USE DEF SlaveState, SlaveTo, SlaveEnds
<1>1. SlaveOpens(r) =>
        slave[r].pc = "start" /\ slave'[r].pc = "socket" /\ slave'[r].end = slave[r].end
  BY <1>0 DEF SlaveOpens, Startable
<1>2. SlaveMakesSocket(r) =>
        /\ slave[r].pc = "socket" /\ slave'[r].pc = "connect" /\ sSock' = r
        /\ slave'[r].end = slave[r].end /\ slave'[r].method = slave[r].method
  BY <1>0 DEF SlaveMakesSocket, SlaveCreateSock
<1>3. SlaveConnects(r) =>
        /\ slave[r].pc = "connect" /\ slave'[r].end \in {slave[r].end, "failed"}
        /\ slave'[r].pc = IF Connectable(sSock) THEN "call" ELSE "over"
        /\ slave'[r].method = slave[r].method
  BY <1>0 DEF SlaveConnects
<1>4. SlaveCalls(r) =>
        /\ slave[r].pc = "call" /\ slave'[r].pc = "recv" /\ slave'[r].sk = sSock
        /\ slave'[r].end = slave[r].end /\ slave'[r].method = slave[r].method
  BY <1>0 DEF SlaveCalls
<1>5. SlaveReceives(r) =>
        /\ slave[r].pc = "recv"
        /\ slave'[r].pc = IF slave[r].method = "fcntl" THEN "store" ELSE "extend"
        /\ slave'[r].len \in 1 .. PageSize /\ SlaveRecv(r, slave[r].sk, slave'[r].len)
        /\ slave'[r].end = slave[r].end /\ slave'[r].method = slave[r].method
  <2> SUFFICES ASSUME SlaveReceives(r)
               PROVE  /\ slave[r].pc = "recv"
                      /\ slave'[r].pc = IF slave[r].method = "fcntl" THEN "store" ELSE "extend"
                      /\ slave'[r].len \in 1 .. PageSize /\ SlaveRecv(r, slave[r].sk, slave'[r].len)
                      /\ slave'[r].end = slave[r].end /\ slave'[r].method = slave[r].method
    OBVIOUS
  <2>1. PICK n \in 1 .. PageSize :
          /\ SlaveRecv(r, slave[r].sk, n)
          /\ slave' = [slave EXCEPT ![r].len = n,
                         ![r].pc = IF slave[r].method = "fcntl" THEN "store" ELSE "extend"]
    BY DEF SlaveReceives
  <2>2. slave[r].pc = "recv"
    BY DEF SlaveReceives
  <2>3. /\ slave'[r].pc = IF slave[r].method = "fcntl" THEN "store" ELSE "extend"
        /\ slave'[r].len = n
        /\ slave'[r].end = slave[r].end /\ slave'[r].method = slave[r].method
    BY <1>0, <2>1
  <2> QED BY <2>1, <2>2, <2>3
<1>6. SlaveAtEof(r) =>
        /\ slave[r].pc = "recv" /\ slave'[r].pc = "exit"
        /\ slave'[r].end = slave[r].end /\ slave'[r].method = slave[r].method
  BY <1>0 DEF SlaveAtEof
<1>7. SlaveRecvFails(r) =>
        /\ slave[r].pc = "recv"
        /\ slave'[r].pc = IF slave[r].method = "fcntl" THEN "call" ELSE "over"
        /\ slave'[r].end \in {slave[r].end, "failed"} /\ slave'[r].method = slave[r].method
  BY <1>0 DEF SlaveRecvFails
<1>8. /\ SlaveStores(r) =>
           /\ slave[r].pc = "store" /\ slave'[r].pc = "call"
           /\ slave'[r].end = slave[r].end /\ slave'[r].method = slave[r].method
      /\ SlaveExtends(r) =>
           /\ slave[r].pc = "extend" /\ slave'[r].pc = "map" /\ slave'[r].len = slave[r].len
           /\ slave'[r].end = slave[r].end /\ slave'[r].method = slave[r].method
  BY <1>0 DEF SlaveStores, SlaveExtends
<1>9. SlaveMaps(r) =>
        /\ slave[r].pc = "map"
        /\ slave'[r].pc = IF file_size[r] % PageSize = 0 THEN "call" ELSE "exit"
        /\ slave'[r].end = slave[r].end /\ slave'[r].method = slave[r].method
  <2> DEFINE even == file_size[r] % PageSize = 0
  <2>1. SlaveMaps(r) =>
          slave[r].pc = "map" /\ IF even THEN SlaveTo(r, "call") ELSE SlaveTo(r, "exit")
    BY DEF SlaveMaps
  <2> HIDE DEF even
  <2>2. SlaveMaps(r) =>
          /\ slave[r].pc = "map" /\ slave'[r].pc = IF even THEN "call" ELSE "exit"
          /\ slave'[r].end = slave[r].end /\ slave'[r].method = slave[r].method
    BY <1>0, <2>1
  <2> QED BY <2>2 DEF even
<1>10. /\ SlaveExits(r) =>
            /\ slave[r].pc = "exit" /\ slave'[r].pc = "over" /\ slave'[r].end = "ok"
            /\ slave'[r].method = slave[r].method
       /\ SlaveStops(r) =>
            /\ slave[r].pc \in {"connect", "call", "exit", "recv"}
            /\ slave'[r].pc = "over" /\ slave'[r].end = "killed"
            /\ slave'[r].method = slave[r].method
       /\ SlaveAborts(r) =>
            /\ r \in Active(slave) /\ slave'[r].pc = "over"
            /\ slave'[r].end \in {"killed", "failed"}
            /\ slave'[r].method = slave[r].method
  <2>1. "socket" \notin {"start", "over"}
    OBVIOUS
  <2> QED BY <1>0, <2>1 DEF SlaveExits, SlaveStops, SlaveAborts, SlaveKilled, SlaveSocketFails,
  Active
<1>11. ~SlaveOpens(r) /\ (Slave(r) \/ SlaveAborts(r)) => slave'[r].method = slave[r].method
  BY <1>2, <1>3, <1>4, <1>5, <1>6, <1>7, <1>8, <1>9, <1>10 DEF Slave
<1> QED BY <1>1, <1>2, <1>3, <1>4, <1>5, <1>6, <1>7, <1>8, <1>9, <1>10, <1>11

(* The steps.                                                               *)
LEMMA Steps ==
  ASSUME [Next]_vars
  PROVE  \/ UNCHANGED vars
         \/ Reload
         \/ \E r \in Run : Master(r) \/ MasterAborts(r)
         \/ \E r \in Run : Slave(r) \/ SlaveAborts(r)
BY DEF Next

-----------------------------------------------------------------------------
(* BooksInv.                                                                *)

(* The books of one master, as a predicate.                                 *)
Books(r) ==
  /\ master[r].pc \in {"start", "accept", "assign"} => master[r].offset = 0
  /\ master[r].offset <= fileLen[r]
  /\ master[r].pc = "exit" => master[r].offset = fileLen[r]
  /\ master[r].pc = "send" =>
       /\ master[r].size <= master[r].offset
       /\ master[r].sent <= master[r].size
       /\ master[r].sent = master[r].size => master[r].size = 0
       /\ master[r].size = 0 => master[r].offset = fileLen[r]
       /\ \A i \in 1 .. master[r].size :
            mPage[r][i] = <<r, master[r].offset - master[r].size + i>>

(* A master keeps its books.                                                *)
LEMMA BooksStep ==
  ASSUME IInv, NEW r \in Run, Master(r) \/ MasterAborts(r)
  PROVE  Books(r)'
<1>0. TypeOK /\ Books(r)
  BY DEF IInv, BooksInv, Books
<1>1. /\ master[r].offset \in Nat /\ master[r].size \in 0 .. PageSize
      /\ master[r].sent \in 0 .. PageSize /\ fileLen[r] \in Nat
      /\ mPage[r] \in [1 .. PageSize -> Byte]
  BY <1>0, RunTypes
<1>2. fileLen' = fileLen
  BY <1>0, OthersKept DEF slaveVars
<1>3. master[r].offset <= fileLen[r]
  BY <1>0 DEF Books
<1>4. AfterSend(r) \in {"fill", "exit"}
  BY DEF AfterSend
<1>5. ASSUME master[r].pc = "send", AfterSend(r) = "exit"
      PROVE  master[r].offset = fileLen[r]
  <2>1. remain(r) = 0 \/ master[r].size = 0
    BY <1>5 DEF AfterSend
  <2> QED BY <1>0, <1>1, <1>5, <2>1 DEF Books, remain
<1>6. CASE master'[r].pc = "over" /\ master'[r].offset = master[r].offset
  BY <1>2, <1>3, <1>6 DEF Books
<1>7. CASE MasterOpens(r) \/ MasterAccepts(r) \/ MasterAssigns(r)
  <2>1. /\ master'[r].pc \in {"accept", "over", "assign", "fill"}
        /\ master'[r].offset = 0 /\ master[r].offset = 0
    BY <1>0, <1>7, MasterEffects DEF Books
  <2> QED BY <1>2, <1>3, <2>1 DEF Books
<1>8. CASE MasterFills(r)
  <2>1. /\ master'[r].pc = "send" /\ master'[r].offset = master[r].offset + part(r)
        /\ master'[r].size = part(r) /\ master'[r].sent = 0
    BY <1>0, <1>8, MasterEffects
  <2>2. /\ part(r) \in 0 .. PageSize /\ master[r].offset + part(r) <= fileLen[r]
        /\ part(r) = 0 => master[r].offset = fileLen[r]
        /\ part(r) \in Nat
    BY <1>1, <1>3, Sets DEF part, remain, Min
  <2> DEFINE bytes == [i \in 1 .. part(r) |-> <<r, master[r].offset + i>>]
  <2>3. mPage' = [mPage EXCEPT ![r] = Overlay(bytes, @)] /\ mPage \in [Run -> [1 .. PageSize -> Byte]]
    BY <1>0, <1>8, Sets DEF MasterFills, TypeOK
  <2>4. bytes \in Seq(Byte) /\ Len(bytes) = part(r)
    BY <1>1, <2>2, PartFacts
  <2>5. \A i \in 1 .. part(r) : bytes[i] = <<r, master[r].offset + i>>
    OBVIOUS
  <2> HIDE DEF bytes
  <2>6. \A i \in 1 .. part(r) : mPage'[r][i] = <<r, master[r].offset + i>>
    <3>1. mPage'[r] = Overlay(bytes, mPage[r])
      BY <2>3
    <3>2. \A i \in 1 .. part(r) : i \in 1 .. PageSize /\ i <= Len(bytes)
      BY <2>2, <2>4, Sets
    <3>3. \A i \in 1 .. PageSize : i <= Len(bytes) => Overlay(bytes, mPage[r])[i] = bytes[i]
      BY <1>1, <2>4, OverlayFacts
    <3> QED BY <2>5, <3>1, <3>2, <3>3
  <2>7. master[r].offset + part(r) - part(r) = master[r].offset /\ part(r) <= master[r].offset + part(r)
    BY <1>1, <2>2
  <2>8. 0 <= part(r) /\ (0 = part(r) => master[r].offset + part(r) = fileLen[r])
    BY <1>1, <2>2
  <2> DEFINE off == master'[r].offset
             n == master'[r].size
  <2>9. off - n = master[r].offset
    BY <1>1, <2>1, <2>2
  <2>10. \A i \in 1 .. n : mPage'[r][i] = <<r, off - n + i>>
    BY <2>1, <2>6, <2>9
  <2>11. n <= off /\ off <= fileLen'[r] /\ 0 <= n /\ (0 = n => off = fileLen'[r])
    BY <1>2, <2>1, <2>2, <2>7, <2>8
  <2>12. master'[r].pc = "send" /\ master'[r].sent = 0
    BY <2>1
  <2> HIDE DEF off, n
  <2> QED BY <2>10, <2>11, <2>12 DEF Books, off, n
<1>9. CASE MasterSends(r)
  <2>1. /\ master[r].pc = "send" /\ master[r].size > 0
        /\ master'[r].pc = IF master[r].sent + 1 = master[r].size THEN AfterSend(r) ELSE "send"
        /\ master'[r].offset = master[r].offset /\ master'[r].size = master[r].size
        /\ master'[r].sent = master[r].sent + 1
    BY <1>0, <1>9, MasterEffects
  <2>2. mPage' = mPage
    BY <1>9 DEF MasterSends, devVars
  <2>3. master[r].sent + 1 <= master[r].size
    BY <1>0, <1>1, <2>1 DEF Books
  <2>4. CASE master'[r].pc = "send"
    <3>1. master[r].sent + 1 # master[r].size
      BY <1>4, <2>1, <2>4
    <3> QED BY <1>0, <1>1, <1>2, <2>1, <2>2, <2>3, <2>4, <3>1 DEF Books
  <2>5. CASE master'[r].pc \in {"fill", "exit"}
    <3>1. master'[r].pc = "exit" => master[r].offset = fileLen[r]
      BY <1>5, <2>1
    <3> QED BY <1>2, <1>3, <2>1, <2>5, <3>1 DEF Books
  <2> QED BY <1>4, <2>1, <2>4, <2>5
<1>10. CASE MasterSendsNothing(r) \/ MasterSendFails(r)
  <2>1. /\ master[r].pc = "send" /\ master'[r].pc \in {AfterSend(r), "over"}
        /\ master'[r].offset = master[r].offset
    BY <1>0, <1>10, MasterEffects
  <2>2. master'[r].pc = "exit" => master[r].offset = fileLen[r]
    BY <1>5, <2>1
  <2> QED BY <1>2, <1>3, <1>4, <2>1, <2>2 DEF Books
<1>11. MasterMapFails(r) \/ MasterExits(r) \/ MasterStops(r) \/ MasterAborts(r) =>
         master'[r].pc = "over" /\ master'[r].offset = master[r].offset
  BY <1>0, MasterEffects
<1> QED BY <1>6, <1>7, <1>8, <1>9, <1>10, <1>11 DEF Master

(* Nobody else touches them.                                                *)
LEMMA BooksNext == IInv /\ [Next]_vars => BooksInv'
<1> SUFFICES ASSUME IInv, [Next]_vars, NEW q \in Run PROVE Books(q)'
  BY DEF BooksInv, Books
<1>0. TypeOK /\ Books(q)
  BY DEF IInv, BooksInv, Books
<1>1. ASSUME master'[q] = master[q], mPage'[q] = mPage[q], fileLen' = fileLen
      PROVE  Books(q)'
  BY <1>0, <1>1 DEF Books
<1>2. CASE UNCHANGED vars
  BY <1>1, <1>2 DEF vars, devVars
<1>3. CASE Reload
  BY <1>0, <1>1, <1>3, OthersKept DEF slaveVars
<1>4. CASE \E r \in Run : Master(r) \/ MasterAborts(r)
  <2>1. PICK r \in Run : Master(r) \/ MasterAborts(r)
    BY <1>4
  <2>2. CASE r = q
    BY <2>1, <2>2, BooksStep
  <2>3. CASE r # q
    BY <1>0, <1>1, <2>1, <2>3, OthersKept DEF slaveVars
  <2> QED BY <2>2, <2>3
<1>5. CASE \E r \in Run : Slave(r) \/ SlaveAborts(r)
  BY <1>0, <1>1, <1>5, OthersKept DEF masterVars
<1> QED BY <1>2, <1>3, <1>4, <1>5, Steps

-----------------------------------------------------------------------------
(* ConnInv.                                                                 *)

(* Nobody comes back to the beginning of its program.                       *)
NoReturn ==
  /\ \A r \in Run : master'[r].pc \in {"start", "accept"} => master[r].pc \in {"start", "accept"}
  /\ \A r \in Run : slave'[r].pc \in {"start", "socket"} => slave[r].pc \in {"start", "socket"}

(* No step of either program goes back.                                     *)
LEMMA NeverBack == TypeOK /\ [Next]_vars => NoReturn
<1> SUFFICES ASSUME TypeOK, [Next]_vars PROVE NoReturn
  OBVIOUS
<1>1. CASE UNCHANGED vars
  BY <1>1 DEF NoReturn, vars
<1>2. CASE Reload
  BY <1>2, OthersKept DEF NoReturn, slaveVars
<1>3. CASE \E r \in Run : Master(r) \/ MasterAborts(r)
  <2>1. PICK r \in Run : Master(r) \/ MasterAborts(r)
    BY <1>3
  <2>2. AfterSend(r) \in {"fill", "exit"}
    BY DEF AfterSend
  <2>3. master'[r].pc \in {"start", "accept"} => master[r].pc \in {"start", "accept"}
    BY <2>1, <2>2, MasterEffects DEF Master
  <2>4. slave' = slave /\ \A q \in Run \ {r} : master'[q] = master[q]
    BY <2>1, OthersKept DEF slaveVars
  <2> QED BY <2>3, <2>4 DEF NoReturn
<1>4. CASE \E r \in Run : Slave(r) \/ SlaveAborts(r)
  <2>1. PICK r \in Run : Slave(r) \/ SlaveAborts(r)
    BY <1>4
  <2>2. slave'[r].pc \in {"start", "socket"} => slave[r].pc \in {"start", "socket"}
    BY <2>1, SlaveEffects DEF Slave
  <2>3. master' = master /\ \A q \in Run \ {r} : slave'[q] = slave[q]
    BY <2>1, OthersKept DEF masterVars
  <2> QED BY <2>2, <2>3 DEF NoReturn
<1> QED BY <1>1, <1>2, <1>3, <1>4, Steps

(* ConnInv, one connection at a time.                                       *)
Waiting(c) == \E i \in 1 .. Len(backlog) : backlog[i] = c
ConnOne(c) ==
  /\ slave[c].pc \in {"start", "socket"} => cli[c] = "none"
  /\ cli[c] \in {"none", "made"} => source[c] = 0 /\ srv[c] = "none" /\ ~Waiting(c)
  /\ source[c] = 0 => stream[c] = << >> /\ srv[c] # "open"
  /\ source[c] # 0 => /\ srv[c] \in {"open", "closed"}
                      /\ master[source[c]].pc \notin {"start", "accept"}
Distinct == \A c, d \in Run : source[c] = source[d] => c = d \/ source[c] = 0
BacklogInv ==
  \A i \in 1 .. Len(backlog) :
    /\ source[backlog[i]] = 0 /\ srv[backlog[i]] = "none"
    /\ \A k \in 1 .. Len(backlog) : backlog[i] = backlog[k] => i = k

(* These are its parts.                                                     *)
LEMMA ConnParts ==
  /\ ConnInv <=> (\A c \in Run : ConnOne(c)) /\ Distinct /\ BacklogInv
  /\ ConnInv' <=> (\A c \in Run : ConnOne(c)') /\ Distinct' /\ BacklogInv'
<1>1. \A c : Waiting(c) <=> ~ \A i \in 1 .. Len(backlog) : backlog[i] # c
  BY DEF Waiting
<1>2. \A c : Waiting(c)' <=> ~ \A i \in 1 .. Len(backlog') : backlog'[i] # c
  BY DEF Waiting
<1>3. ConnInv <=> (\A c \in Run : ConnOne(c)) /\ Distinct /\ BacklogInv
  BY <1>1, Sets DEF ConnInv, ConnOne, Distinct, BacklogInv
<1>4. ConnInv' <=> (\A c \in Run : ConnOne(c)') /\ Distinct' /\ BacklogInv'
  BY <1>2, Sets DEF ConnInv, ConnOne, Distinct, BacklogInv
<1> QED BY <1>3, <1>4

(* The sockets that a master may use have been accepted.                    *)
LEMMA MasterSockFacts ==
  ASSUME TypeOK, MasterInv, NEW c \in MasterSock(Fresh)
  PROVE  /\ c \in Run /\ source[c] # 0
         /\ MasterLive => c = mSock
         /\ ~MasterLive => \E q \in Run : master[q].pc = "assign" /\ source[c] = q
<1>1. CASE MasterLive
  <2>1. c = mSock /\ mSock # NoSock
    BY <1>1 DEF MasterSock, MasterLive
  <2>2. mSock \in Run
    BY <2>1, Sets DEF TypeOK, NoSock
  <2> QED BY <1>1, <2>1, <2>2 DEF MasterInv
<1>2. CASE ~MasterLive
  <2>1. PICK q \in Run : master[q].pc = "assign" /\ c = master[q].sk
    BY <1>2 DEF MasterSock, Fresh
  <2>2. source[c] = q /\ c # NoSock /\ c \in Run \cup {0}
    BY <2>1, RunTypes DEF MasterInv
  <2> QED BY <1>2, <2>1, <2>2, Sets DEF NoSock
<1> QED BY <1>1, <1>2

(* The connections are kept in order when a master steps,                   *)
LEMMA ConnMaster ==
  ASSUME IInv, NEW r \in Run, Master(r) \/ MasterAborts(r), NoReturn
  PROVE  ConnInv'
<1>0. /\ TypeOK /\ MasterInv /\ (\A c \in Run : ConnOne(c)) /\ Distinct /\ BacklogInv
      /\ cli \in [Run -> CliState] /\ srv \in [Run -> SrvState]
      /\ stream \in [Run -> Seq(Byte)] /\ backlog \in Seq(Run)
      /\ source \in [Run -> 0 .. Runs]
  BY ConnParts, Sets DEF IInv, TypeOK
<1>1. slave' = slave
  BY <1>0, OthersKept DEF slaveVars
<1>2. \A q \in Run : master[q].pc \notin {"start", "accept"} => master'[q].pc \notin {"start", "accept"}
  BY DEF NoReturn
<1>3. CASE UNCHANGED <<cli, srv, stream, backlog, source>>
  <2>1. \A c \in Run : ConnOne(c)'
    <3> SUFFICES ASSUME NEW c \in Run PROVE ConnOne(c)'
      OBVIOUS
    <3>1. source[c] # 0 => source[c] \in Run
      BY <1>0, RunAssumption DEF Run
    <3> QED BY <1>0, <1>1, <1>2, <1>3, <3>1 DEF ConnOne, Waiting
  <2>2. Distinct' /\ BacklogInv'
    BY <1>0, <1>3 DEF Distinct, BacklogInv
  <2> QED BY <2>1, <2>2, ConnParts
<1>4. CASE MasterAccepts(r)
  <2>1. PICK c \in Run : kaccept(c) /\ source' = [source EXCEPT ![c] = r]
    BY <1>4, Sets DEF MasterAccepts
  <2>2. /\ backlog # << >> /\ c = Head(backlog) /\ backlog' = Tail(backlog)
        /\ srv' = [srv EXCEPT ![c] = "open"] /\ cli' = cli /\ stream' = stream
    BY <2>1 DEF kaccept
  <2>3. /\ Len(backlog) \in Nat \ {0} /\ c = backlog[1]
        /\ Len(backlog') = Len(backlog) - 1
        /\ \A i \in 1 .. Len(backlog') : backlog'[i] = backlog[i + 1]
    <3>1. Len(backlog) \in Nat \ {0}
      BY <1>0, <2>2, EmptySeq
    <3> QED BY <1>0, <2>2, <3>1, HeadTailProperties
  <2>4. \A i \in 1 .. Len(backlog') : i + 1 \in 1 .. Len(backlog) /\ backlog[i + 1] # c
    <3>1. \A i \in 1 .. Len(backlog') : i + 1 \in 1 .. Len(backlog) /\ i + 1 # 1
      BY <2>3
    <3> QED BY <1>0, <2>3, <3>1 DEF BacklogInv
  <2>5. source[c] = 0 /\ srv[c] = "none" /\ Waiting(c)
    BY <1>0, <2>3 DEF BacklogInv, Waiting
  <2>6. \A d \in Run : source[d] # r
    <3>1. master[r].pc = "accept" /\ r # 0
      BY <1>4, Sets DEF MasterAccepts
    <3> QED BY <1>0, <3>1 DEF ConnOne
  <2>7. master'[r].pc = "assign"
    BY <1>0, <1>4, MasterEffects
  <2>8. /\ source'[c] = r /\ srv'[c] = "open"
        /\ \A d \in Run \ {c} : source'[d] = source[d] /\ srv'[d] = srv[d]
    BY <1>0, <2>1, <2>2
  <2>9. \A d : Waiting(d)' => Waiting(d)
    BY <2>3, <2>4 DEF Waiting
  <2>10. \A d \in Run : ConnOne(d)'
    <3> SUFFICES ASSUME NEW d \in Run PROVE ConnOne(d)'
      OBVIOUS
    <3>1. ConnOne(d)
      BY <1>0
    <3>2. CASE d = c
      BY <1>1, <2>2, <2>5, <2>7, <2>8, <3>1, <3>2, Sets DEF ConnOne
    <3>3. CASE d # c
      <4>1. source[d] # 0 => source[d] \in Run
        BY <1>0, RunAssumption DEF Run
      <4> QED BY <1>1, <1>2, <2>2, <2>8, <2>9, <3>1, <3>3, <4>1 DEF ConnOne
    <3> QED BY <3>2, <3>3
  <2>11. Distinct'
    BY <1>0, <2>6, <2>8 DEF Distinct
  <2>12. BacklogInv'
    <3> SUFFICES ASSUME NEW i \in 1 .. Len(backlog')
                 PROVE  /\ source'[backlog'[i]] = 0 /\ srv'[backlog'[i]] = "none"
                        /\ \A k \in 1 .. Len(backlog') : backlog'[i] = backlog'[k] => i = k
      BY DEF BacklogInv
    <3>1. backlog[i + 1] \in Run
      BY <1>0, <2>4, ElementOfSeq
    <3>2. source'[backlog'[i]] = 0 /\ srv'[backlog'[i]] = "none"
      <4>1. backlog'[i] = backlog[i + 1] /\ backlog[i + 1] \in Run \ {c} /\ i + 1 \in 1 .. Len(backlog)
        BY <2>3, <2>4, <3>1
      <4>2. source[backlog[i + 1]] = 0 /\ srv[backlog[i + 1]] = "none"
        BY <1>0, <4>1 DEF BacklogInv
      <4> QED BY <2>8, <4>1, <4>2
    <3>3. ASSUME NEW k \in 1 .. Len(backlog'), backlog'[i] = backlog'[k]
          PROVE  i + 1 = k + 1
      <4>1. /\ i + 1 \in 1 .. Len(backlog) /\ k + 1 \in 1 .. Len(backlog)
            /\ backlog'[i] = backlog[i + 1] /\ backlog'[k] = backlog[k + 1]
        BY <2>3, <2>4
      <4>2. backlog[i + 1] = backlog[k + 1]
        BY <3>3, <4>1
      <4>3. \A a, b \in 1 .. Len(backlog) : backlog[a] = backlog[b] => a = b
        BY <1>0 DEF BacklogInv
      <4> QED BY <4>1, <4>2, <4>3
    <3> QED BY <2>3, <3>2, <3>3
  <2> QED BY <2>10, <2>11, <2>12, ConnParts
<1>5. CASE MasterSends(r)
  <2>1. /\ master[r].sk # NoSock /\ source[master[r].sk] # 0
        /\ master[r].sk \in Run
    <3>1. master[r].pc = "send"
      BY <1>5 DEF MasterSends
    <3>2. master[r].sk # NoSock /\ source[master[r].sk] # 0
      BY <1>0, <3>1 DEF MasterInv
    <3> QED BY <1>0, <3>2, RunTypes DEF NoSock
  <2>2. /\ UNCHANGED <<cli, srv, backlog, source>>
        /\ \A d \in Run \ {master[r].sk} : stream'[d] = stream[d]
    BY <1>0, <1>5 DEF MasterSends, ksend, histVars
  <2>3. \A d \in Run : ConnOne(d)'
    <3> SUFFICES ASSUME NEW d \in Run PROVE ConnOne(d)'
      OBVIOUS
    <3>1. source[d] # 0 => source[d] \in Run
      BY <1>0, RunAssumption DEF Run
    <3> QED BY <1>0, <1>1, <1>2, <2>1, <2>2, <3>1 DEF ConnOne, Waiting
  <2>4. Distinct' /\ BacklogInv'
    BY <1>0, <2>2 DEF Distinct, BacklogInv
  <2> QED BY <2>3, <2>4, ConnParts
<1>6. CASE MasterExits(r)
  <2>1. PICK c \in MasterSock(Fresh) : kcloseSrv(c)
    BY <1>6 DEF MasterExits, MasterExit
  <2>2. c \in Run /\ source[c] # 0
    BY <1>0, MasterSockFacts
  <2>3. /\ UNCHANGED <<cli, stream, backlog, source>> /\ srv'[c] = "closed"
        /\ \A d \in Run \ {c} : srv'[d] = srv[d]
    BY <1>0, <1>6, <2>1, <2>2 DEF MasterExits, kcloseSrv, histVars
  <2>4. \A d \in Run : ConnOne(d)'
    <3> SUFFICES ASSUME NEW d \in Run PROVE ConnOne(d)'
      OBVIOUS
    <3>1. source[d] # 0 => source[d] \in Run
      BY <1>0, RunAssumption DEF Run
    <3> QED BY <1>0, <1>1, <1>2, <2>2, <2>3, <3>1 DEF ConnOne, Waiting
  <2>5. Distinct'
    BY <1>0, <2>3 DEF Distinct
  <2>6. BacklogInv'
    <3>1. \A i \in 1 .. Len(backlog) : backlog[i] \in Run
      BY <1>0, ElementOfSeq
    <3> QED BY <1>0, <2>2, <2>3, <3>1 DEF BacklogInv
  <2> QED BY <2>4, <2>5, <2>6, ConnParts
<1>7. \/ MasterAccepts(r) \/ MasterSends(r) \/ MasterExits(r)
      \/ UNCHANGED <<cli, srv, stream, backlog, source>>
  BY DEF Master, MasterOpens, MasterAssigns, MasterFills, MasterMapFails, MasterSendsNothing,
         MasterSendFails, MasterStops, MasterAborts, MasterKilled, MasterAcceptFails, sockVars,
         histVars
<1> QED BY <1>3, <1>4, <1>5, <1>6, <1>7

(* The socket of a slave's call has been made (SlaveConnects, SlaveReceives, *)
(* SlaveRecvFails, SlaveExits).                                              *)
LEMMA SlaveSockFacts ==
  ASSUME TypeOK, SlaveInv, NEW r \in Run
  PROVE  /\ slave[r].pc = "recv" =>
              slave[r].sk \in Run /\ slave[slave[r].sk].pc \notin {"start", "socket"}
         /\ SlaveLive => sSock \in Run /\ slave[sSock].pc \notin {"start", "socket"}
<1>1. sSock \in Run \cup {0} /\ slave[r].sk \in Run \cup {0}
  BY RunTypes, Sets DEF TypeOK
<1> QED BY <1>1 DEF SlaveInv, SlaveLive, NoSock

(* when a slave steps,                                                      *)
LEMMA ConnSlave ==
  ASSUME IInv, NEW r \in Run, Slave(r) \/ SlaveAborts(r), NoReturn
  PROVE  ConnInv'
<1>0. /\ TypeOK /\ SlaveInv /\ (\A c \in Run : ConnOne(c)) /\ Distinct /\ BacklogInv
      /\ cli \in [Run -> CliState] /\ srv \in [Run -> SrvState]
      /\ stream \in [Run -> Seq(Byte)] /\ backlog \in Seq(Run)
      /\ source \in [Run -> 0 .. Runs]
  BY ConnParts, Sets DEF IInv, TypeOK
<1>1. master' = master /\ source' = source
  BY <1>0, OthersKept DEF masterVars
<1>2. \A q \in Run : slave'[q].pc \in {"start", "socket"} => slave[q].pc \in {"start", "socket"}
  BY DEF NoReturn
<1>a. Distinct'
  BY <1>0, <1>1 DEF Distinct
<1>b. \A i \in 1 .. Len(backlog) : backlog[i] \in Run
  BY <1>0, ElementOfSeq
<1>3. CASE UNCHANGED sockVars
  <2>1. \A c \in Run : ConnOne(c)'
    BY <1>0, <1>1, <1>2, <1>3 DEF ConnOne, Waiting, sockVars
  <2>2. BacklogInv'
    BY <1>0, <1>1, <1>3 DEF BacklogInv, sockVars
  <2> QED BY <1>a, <2>1, <2>2, ConnParts
<1>4. CASE SlaveMakesSocket(r)
  <2>1. cli' = [cli EXCEPT ![r] = "made"] /\ UNCHANGED <<srv, stream, backlog>>
    BY <1>4 DEF SlaveMakesSocket, SlaveCreateSock, ksocket
  <2>2. slave[r].pc = "socket" /\ slave'[r].pc = "connect"
    BY <1>0, <1>4, SlaveEffects
  <2>3. cli'[r] = "made" /\ \A d \in Run \ {r} : cli'[d] = cli[d]
    BY <1>0, <2>1
  <2>4. \A d \in Run : ConnOne(d)'
    <3> SUFFICES ASSUME NEW d \in Run PROVE ConnOne(d)'
      OBVIOUS
    <3>1. ConnOne(d)
      BY <1>0
    <3>2. CASE d = r
      BY <1>1, <2>1, <2>2, <2>3, <3>1, <3>2 DEF ConnOne, Waiting
    <3>3. CASE d # r
      BY <1>1, <1>2, <2>1, <2>3, <3>1, <3>3 DEF ConnOne, Waiting
    <3> QED BY <3>2, <3>3
  <2>5. BacklogInv'
    BY <1>0, <1>1, <2>1 DEF BacklogInv
  <2> QED BY <1>a, <2>4, <2>5, ConnParts
<1>5. CASE SlaveConnects(r)
  <2>1. CASE ~Connectable(sSock)
    <3>1. UNCHANGED sockVars
      BY <1>5, <2>1 DEF SlaveConnects
    <3> QED BY <1>3, <3>1
  <2>2. CASE Connectable(sSock)
    <3> DEFINE c == sSock
    <3>1. c \in Run /\ slave[c].pc \notin {"start", "socket"} /\ cli[c] = "made"
      BY <1>0, <1>5, <2>2, SlaveSockFacts DEF SlaveConnects, Connectable
    <3>2. /\ cli' = [cli EXCEPT ![c] = "open"] /\ backlog' = Append(backlog, c)
          /\ srv' = srv /\ stream' = stream
      BY <1>5, <2>2 DEF SlaveConnects, kconnect
    <3> HIDE DEF c
    <3>3. cli'[c] = "open" /\ \A d \in Run \ {c} : cli'[d] = cli[d]
      BY <1>0, <3>1, <3>2
    <3>4. /\ Len(backlog) \in Nat /\ Len(backlog') = Len(backlog) + 1
          /\ backlog'[Len(backlog) + 1] = c
          /\ \A i \in 1 .. Len(backlog) : backlog'[i] = backlog[i]
      BY <1>0, <3>1, <3>2, AppendProperties, LenProperties
    <3>5. source[c] = 0 /\ srv[c] = "none" /\ ~Waiting(c)
      BY <1>0, <3>1 DEF ConnOne
    <3>6. \A d : Waiting(d)' => Waiting(d) \/ d = c
      <4> SUFFICES ASSUME NEW i \in 1 .. Len(backlog')
                   PROVE  Waiting(backlog'[i]) \/ backlog'[i] = c
        BY DEF Waiting
      <4>1. CASE i <= Len(backlog)
        <5>1. i \in 1 .. Len(backlog)
          BY <3>4, <4>1
        <5> QED BY <3>4, <5>1 DEF Waiting
      <4>2. CASE ~ i <= Len(backlog)
        BY <3>4, <4>2
      <4> QED BY <4>1, <4>2
    <3>7. \A d \in Run : ConnOne(d)'
      <4> SUFFICES ASSUME NEW d \in Run PROVE ConnOne(d)'
        OBVIOUS
      <4>1. ConnOne(d)
        BY <1>0
      <4>2. CASE d = c
        BY <1>1, <1>2, <3>1, <3>2, <3>3, <3>5, <4>1, <4>2 DEF ConnOne
      <4>3. CASE d # c
        BY <1>1, <1>2, <3>2, <3>3, <3>6, <4>1, <4>3 DEF ConnOne
      <4> QED BY <4>2, <4>3
    <3>8. BacklogInv'
      <4> SUFFICES ASSUME NEW i \in 1 .. Len(backlog')
                   PROVE  /\ source[backlog'[i]] = 0 /\ srv[backlog'[i]] = "none"
                          /\ \A k \in 1 .. Len(backlog') : backlog'[i] = backlog'[k] => i = k
        BY <1>1, <3>2 DEF BacklogInv
      <4>1. \A k \in 1 .. Len(backlog') : k \in 1 .. Len(backlog) \/ k = Len(backlog) + 1
        BY <3>4
      <4>2. \A k \in 1 .. Len(backlog) : backlog[k] # c
        BY <3>5 DEF Waiting
      <4>3. CASE i \in 1 .. Len(backlog)
        <5>1. source[backlog'[i]] = 0 /\ srv[backlog'[i]] = "none"
          BY <1>0, <3>4, <4>3 DEF BacklogInv
        <5>2. \A k \in 1 .. Len(backlog') : backlog'[i] = backlog'[k] => i = k
          BY <1>0, <3>4, <4>1, <4>2, <4>3 DEF BacklogInv
        <5> QED BY <5>1, <5>2
      <4>4. CASE i = Len(backlog) + 1
        BY <3>4, <3>5, <4>1, <4>2, <4>4
      <4> QED BY <4>1, <4>3, <4>4
    <3> QED BY <1>a, <3>7, <3>8, ConnParts
  <2> QED BY <2>1, <2>2
<1>6. CASE SlaveReceives(r)
  <2> DEFINE c == slave[r].sk
  <2>1. krecv(c, slave'[r].len, PageSize) /\ slave'[r].len \in 1 .. PageSize /\ c \in Run
    BY <1>0, <1>6, SlaveEffects, SlaveSockFacts DEF SlaveRecv
  <2>2. /\ UNCHANGED <<cli, srv, backlog>> /\ cli[c] = "open"
        /\ \A d \in Run \ {c} : stream'[d] = stream[d]
    BY <1>0, <2>1 DEF krecv
  <2>3. stream[c] # << >>
    <3>1. Len(stream[c]) # 0
      BY <2>1, Sets DEF krecv
    <3> QED BY <3>1, EmptySeq
  <2> HIDE DEF c
  <2>4. \A d \in Run : ConnOne(d)'
    BY <1>0, <1>1, <1>2, <2>1, <2>2, <2>3 DEF ConnOne, Waiting
  <2>5. BacklogInv'
    BY <1>0, <1>1, <2>2 DEF BacklogInv
  <2> QED BY <1>a, <2>4, <2>5, ConnParts
<1>7. CASE SlaveRecvFails(r)
  <2> DEFINE c == slave[r].sk
  <2>1. /\ krecvFails(c) /\ c \in Run
    BY <1>0, <1>7, SlaveEffects, SlaveSockFacts DEF SlaveRecvFails
  <2>2. /\ UNCHANGED <<cli, stream, backlog>>
        /\ \A d \in Run \ {c} : srv'[d] = srv[d]
        /\ srv'[c] = IF srv[c] = "reset" THEN "closed" ELSE srv[c]
        /\ cli[c] = "made" \/ (cli[c] = "open" /\ srv[c] = "reset")
    BY <1>0, <2>1 DEF krecvFails
  <2> HIDE DEF c
  <2>3. \A d \in Run : ConnOne(d)'
    <3> SUFFICES ASSUME NEW d \in Run PROVE ConnOne(d)'
      OBVIOUS
    <3>1. ConnOne(d)
      BY <1>0
    <3>2. CASE d = c
      BY <1>1, <1>2, <2>2, <3>1, <3>2 DEF ConnOne, Waiting
    <3>3. CASE d # c
      BY <1>1, <1>2, <2>2, <3>1, <3>3 DEF ConnOne, Waiting
    <3> QED BY <3>2, <3>3
  <2>4. BacklogInv'
    BY <1>0, <1>1, <1>b, <2>1, <2>2 DEF BacklogInv
  <2> QED BY <1>a, <2>3, <2>4, ConnParts
<1>8. CASE SlaveExits(r)
  <2> DEFINE c == sSock
  <2>1. /\ kcloseCli(c) /\ c \in Run /\ slave[c].pc \notin {"start", "socket"}
    BY <1>0, <1>8, SlaveSockFacts DEF SlaveExits, SlaveExit
  <2>2. /\ UNCHANGED <<srv, backlog>>
        /\ \A d \in Run \ {c} : cli'[d] = cli[d] /\ stream'[d] = stream[d]
        /\ cli'[c] = "closed" /\ stream'[c] = << >>
    BY <1>0, <2>1 DEF kcloseCli
  <2> HIDE DEF c
  <2>3. \A d \in Run : ConnOne(d)'
    <3> SUFFICES ASSUME NEW d \in Run PROVE ConnOne(d)'
      OBVIOUS
    <3>1. ConnOne(d)
      BY <1>0
    <3>2. CASE d = c
      BY <1>1, <1>2, <2>1, <2>2, <3>1, <3>2 DEF ConnOne, Waiting
    <3>3. CASE d # c
      BY <1>1, <1>2, <2>2, <3>1, <3>3 DEF ConnOne, Waiting
    <3> QED BY <3>2, <3>3
  <2>4. BacklogInv'
    BY <1>0, <1>1, <2>2 DEF BacklogInv
  <2> QED BY <1>a, <2>3, <2>4, ConnParts
<1>9. \/ SlaveMakesSocket(r) \/ SlaveConnects(r) \/ SlaveReceives(r) \/ SlaveRecvFails(r)
      \/ SlaveExits(r) \/ UNCHANGED sockVars
  BY DEF Slave, SlaveOpens, SlaveCalls, SlaveAtEof, SlaveStores, SlaveExtends, SlaveMaps,
         SlaveStops, SlaveAborts, SlaveKilled, SlaveSocketFails
<1> QED BY <1>3, <1>4, <1>5, <1>6, <1>7, <1>8, <1>9

(* and when master_device is removed or inserted: connections that nobody   *)
(* has accepted are reset.                                                  *)
LEMMA ConnReload ==
  ASSUME IInv, Reload
  PROVE  ConnInv'
<1>0. /\ TypeOK /\ (\A c \in Run : ConnOne(c)) /\ Distinct /\ BacklogInv
      /\ srv \in [Run -> SrvState]
  BY ConnParts, Sets DEF IInv, TypeOK
<1>1. master' = master /\ source' = source /\ slave' = slave
  BY DEF Reload, slaveVars, histVars
<1>2. Distinct'
  BY <1>0, <1>1 DEF Distinct
<1>3. CASE master_exit
  <2>1. /\ cli' = cli /\ stream' = stream /\ backlog' = << >>
        /\ srv' = [c \in Conn |-> IF \E i \in DOMAIN backlog : backlog[i] = c
                                  THEN "reset" ELSE srv[c]]
    BY <1>3 DEF master_exit, kcloseListener
  <2>2. Len(backlog') = 0 /\ DOMAIN backlog = 1 .. Len(backlog)
    BY <2>1, LenProperties DEF TypeOK, IInv
  <2>3. \A c \in Run : srv'[c] = IF Waiting(c) THEN "reset" ELSE srv[c]
    BY <2>1, <2>2, Sets DEF Waiting
  <2>4. \A c : ~Waiting(c)'
    BY <2>2 DEF Waiting
  <2>5. \A c \in Run : Waiting(c) => source[c] = 0
    BY <1>0 DEF Waiting, BacklogInv
  <2>6. \A c \in Run : ConnOne(c)'
    BY <1>0, <1>1, <2>1, <2>3, <2>4, <2>5 DEF ConnOne
  <2>7. BacklogInv'
    BY <2>2 DEF BacklogInv
  <2> QED BY <1>2, <2>6, <2>7, ConnParts
<1>4. CASE master_init
  <2>1. UNCHANGED <<cli, srv, stream, backlog>>
    BY <1>4 DEF master_init, klisten
  <2>2. \A c \in Run : ConnOne(c)'
    BY <1>0, <1>1, <2>1 DEF ConnOne, Waiting
  <2>3. BacklogInv'
    BY <1>0, <1>1, <2>1 DEF BacklogInv
  <2> QED BY <1>2, <2>2, <2>3, ConnParts
<1> QED BY <1>3, <1>4 DEF Reload

(* So it is kept by every step.                                             *)
LEMMA ConnNext == IInv /\ [Next]_vars => ConnInv'
<1> SUFFICES ASSUME IInv, [Next]_vars PROVE ConnInv'
  OBVIOUS
<1>1. NoReturn
  BY NeverBack DEF IInv
<1>2. CASE UNCHANGED vars
  BY <1>2 DEF IInv, ConnInv, vars, sockVars
<1> QED BY <1>1, <1>2, ConnMaster, ConnSlave, ConnReload, Steps

-----------------------------------------------------------------------------
(* MasterInv.                                                               *)

(* A run that is not disturbed now was not disturbed before, and nobody     *)
(* starts while it is active (Startable).                                   *)
LEMMA StillAlone ==
  ASSUME TypeOK, [Next]_vars, NEW r \in Run
  PROVE  /\ disturbed \subseteq disturbed'
         /\ Alone("masters", r)' => Alone("masters", r)
         /\ Alone("slaves", r)' => Alone("slaves", r)
         /\ \A q \in Run : MasterOpens(q) /\ Alone("masters", r)' =>
              r \notin Active(master) /\ (q = r => Active(master) = {})
         /\ \A q \in Run : SlaveOpens(q) /\ Alone("slaves", r)' =>
              r \notin Active(slave) /\ (q = r => Active(slave) = {})
<1>1. disturbed \subseteq disturbed'
  <2>1. CASE UNCHANGED vars
    BY <2>1 DEF vars
  <2>2. CASE Reload
    BY <2>2 DEF Reload, histVars
  <2>3. CASE \E q \in Run : Master(q) \/ MasterAborts(q)
    BY <2>3 DEF Master, MasterOpens, MasterAccepts, MasterAssigns, MasterFills, MasterMapFails,
           MasterSends, MasterSendsNothing, MasterSendFails, MasterExits, MasterStops,
           MasterAborts, MasterKilled, MasterAcceptFails,
           histVars
  <2>4. CASE \E q \in Run : Slave(q) \/ SlaveAborts(q)
    BY <2>4 DEF Slave, SlaveOpens, SlaveMakesSocket, SlaveConnects, SlaveCalls, SlaveReceives,
           SlaveAtEof, SlaveRecvFails, SlaveStores, SlaveExtends, SlaveMaps, SlaveExits, SlaveStops,
           SlaveAborts, SlaveKilled, SlaveSocketFails, histVars
  <2> QED BY <2>1, <2>2, <2>3, <2>4, Steps
<1>2. /\ Alone("masters", r)' => Alone("masters", r)
      /\ Alone("slaves", r)' => Alone("slaves", r)
  BY <1>1 DEF Alone
<1>3. ASSUME NEW q \in Run, MasterOpens(q), Alone("masters", r)'
      PROVE  r \notin Active(master) /\ (q = r => Active(master) = {})
  BY <1>3 DEF MasterOpens, Overlaps, Alone
<1>4. ASSUME NEW q \in Run, SlaveOpens(q), Alone("slaves", r)'
      PROVE  r \notin Active(slave) /\ (q = r => Active(slave) = {})
  BY <1>4 DEF SlaveOpens, Overlaps, Alone
<1> QED BY <1>1, <1>2, <1>3, <1>4

(* Who is active after a step.                                              *)
LEMMA ActiveFacts ==
  /\ \A q \in Run : q \in Active(master) <=> master[q].pc \notin {"start", "over"}
  /\ \A q \in Run : q \in Active(master)' <=> master'[q].pc \notin {"start", "over"}
  /\ \A q \in Run : q \in Active(slave) <=> slave[q].pc \notin {"start", "over"}
  /\ \A q \in Run : q \in Active(slave)' <=> slave'[q].pc \notin {"start", "over"}
  /\ Active(master) \subseteq Run /\ Active(master)' \subseteq Run
  /\ Active(slave) \subseteq Run /\ Active(slave)' \subseteq Run
BY DEF Active

(* MasterInv, one run at a time.                                            *)
SkOne(r) ==
  /\ master[r].pc \in {"assign", "send"} => master[r].sk # NoSock /\ source[master[r].sk] # 0
  /\ master[r].pc = "assign" => source[master[r].sk] = r
Own(r) ==
  /\ Active(master) = {r}
  /\ master[r].pc \in Assigned => mSock # NoSock /\ source[mSock] = r
  /\ master[r].pc = "send" => master[r].sk = mSock
  /\ \A c \in Conn : source[c] = r => srv[c] = "open"
Foreign(r, q) ==
  /\ master[q].pc \in Assigned /\ mSock # NoSock => source[mSock] # r
  /\ master[q].pc = "send" => source[master[q].sk] # r
AloneMaster(r) ==
  Alone("masters", r) =>
    /\ r \in Active(master) => Own(r)
    /\ \A q \in Active(master) \ {r} : Foreign(r, q)
MSockInv == mSock # NoSock => source[mSock] # 0

(* These are its parts.                                                     *)
LEMMA MasterParts ==
  /\ MasterInv <=> MSockInv /\ \A r \in Run : SkOne(r) /\ AloneMaster(r)
  /\ MasterInv' <=> MSockInv' /\ \A r \in Run : SkOne(r)' /\ AloneMaster(r)'
BY DEF MasterInv, MSockInv, SkOne, Own, Foreign, AloneMaster

(* What the steps of a master do to its device: sockfd_cli and who has      *)
(* accepted which connection.                                               *)
LEMMA DeviceEffects ==
  ASSUME TypeOK, NEW p \in Run, Master(p) \/ MasterAborts(p)
  PROVE  /\ MasterAccepts(p) => \E c \in Run :
              /\ kaccept(c) /\ source' = [source EXCEPT ![c] = p]
              /\ master'[p].sk = c
         /\ ~MasterAccepts(p) => source' = source
         /\ ~MasterAccepts(p) /\ ~MasterExits(p) => srv' = srv
         /\ MasterExits(p) => \E c \in MasterSock(Fresh) : kcloseSrv(c)
         /\ MasterAborts(p) =>
              mSock' \in {NoSock, mSock} \/ (master[p].pc = "assign" /\ mSock' = master[p].sk)
         /\ ~MasterAssigns(p) /\ ~MasterAborts(p) => mSock' = mSock
<1>1. MasterAccepts(p) => \E c \in Run :
              /\ kaccept(c) /\ source' = [source EXCEPT ![c] = p]
              /\ master'[p].sk = c
  <2> SUFFICES ASSUME MasterAccepts(p)
               PROVE  \E c \in Run : /\ kaccept(c) /\ source' = [source EXCEPT ![c] = p]
                                     /\ master'[p].sk = c
    OBVIOUS
  <2>1. PICK c \in Run : /\ kaccept(c) /\ source' = [source EXCEPT ![c] = p]
                         /\ master' = [master EXCEPT ![p].pc = "assign", ![p].sk = c]
    BY Sets DEF MasterAccepts
  <2>2. master \in [Run -> MasterState]
    BY DEF TypeOK
  <2>3. master'[p].sk = c
    BY <2>1, <2>2 DEF MasterState
  <2> QED BY <2>1, <2>3
<1>2. ~MasterAccepts(p) => source' = source
  BY DEF Master, MasterOpens, MasterAssigns, MasterFills, MasterMapFails, MasterSends,
         MasterSendsNothing, MasterSendFails, MasterExits, MasterStops, MasterAborts,
         MasterKilled, MasterAcceptFails, histVars
<1>3. ~MasterAccepts(p) /\ ~MasterExits(p) => srv' = srv
  BY DEF Master, MasterOpens, MasterAssigns, MasterFills, MasterMapFails, MasterSends, ksend,
         MasterSendsNothing, MasterSendFails, MasterStops, MasterAborts, MasterKilled,
         MasterAcceptFails, sockVars
<1>4. MasterExits(p) => \E c \in MasterSock(Fresh) : kcloseSrv(c)
  BY DEF MasterExits, MasterExit
<1>5. MasterAborts(p) =>
        mSock' \in {NoSock, mSock} \/ (master[p].pc = "assign" /\ mSock' = master[p].sk)
  BY DEF MasterAborts, MasterKilled, MasterAcceptFails
<1>6. ~MasterAssigns(p) /\ ~MasterAborts(p) => mSock' = mSock
  BY DEF Master, MasterOpens, MasterAccepts, MasterFills, MasterMapFails, MasterSends,
         MasterSendsNothing, MasterSendFails, MasterExits, MasterStops, devVars, master_open,
         MasterExit
<1> QED BY <1>1, <1>2, <1>3, <1>4, <1>5, <1>6

(* A connection that has been accepted stays with its master.               *)
LEMMA SourceKept ==
  ASSUME IInv, [Next]_vars, NEW c \in Run
  PROVE  /\ source[c] # 0 => source'[c] = source[c]
         /\ source'[c] # source[c] => \E p \in Run :
              /\ MasterAccepts(p) /\ kaccept(c) /\ source'[c] = p /\ master'[p].sk = c
<1>0. /\ TypeOK /\ source \in [Run -> 0 .. Runs] /\ BacklogInv /\ backlog \in Seq(Run)
  BY ConnParts, Sets DEF IInv, TypeOK
<1>1. CASE \E p \in Run : MasterAccepts(p)
  <2>1. PICK p \in Run : MasterAccepts(p)
    BY <1>1
  <2>2. PICK d \in Run : kaccept(d) /\ source' = [source EXCEPT ![d] = p] /\ master'[p].sk = d
    BY <1>0, <2>1, DeviceEffects DEF Master
  <2>3. source[d] = 0
    <3>1. backlog # << >> /\ d = Head(backlog)
      BY <2>2 DEF kaccept
    <3>2. Len(backlog) \in Nat \ {0} /\ d = backlog[1]
      BY <1>0, <3>1, EmptySeq
    <3> QED BY <1>0, <3>2 DEF BacklogInv
  <2> QED BY <1>0, <2>1, <2>2, <2>3
<1>2. CASE ~ \E p \in Run : MasterAccepts(p)
  <2>1. source' = source
    <3>1. CASE UNCHANGED vars
      BY <3>1 DEF vars
    <3>2. CASE Reload
      BY <3>2 DEF Reload, histVars
    <3>3. CASE \E p \in Run : Master(p) \/ MasterAborts(p)
      BY <1>0, <1>2, <3>3, DeviceEffects
    <3>4. CASE \E p \in Run : Slave(p) \/ SlaveAborts(p)
      BY <1>0, <3>4, OthersKept
    <3> QED BY <3>1, <3>2, <3>3, <3>4, Steps
  <2> QED BY <2>1
<1> QED BY <1>1, <1>2

(* The sockets of a master's calls are accepted ones.                       *)
LEMMA SkNext ==
  ASSUME IInv, [Next]_vars
  PROVE  MSockInv' /\ \A r \in Run : SkOne(r)'
<1>0. /\ TypeOK /\ MasterInv /\ MSockInv /\ \A r \in Run : SkOne(r)
      /\ \A r \in Run : master[r].sk \in Run \cup {0}
      /\ mSock \in Run \cup {0}
  BY MasterParts, RunTypes, Sets DEF IInv, TypeOK
<1>1. \A c \in Run : source[c] # 0 => source'[c] = source[c]
  BY SourceKept
<1>2. ASSUME NEW r \in Run, master'[r] = master[r]
      PROVE  SkOne(r)'
  BY <1>0, <1>1, <1>2 DEF SkOne, NoSock
<1>3. ASSUME mSock' \in {mSock, NoSock}
      PROVE  MSockInv'
  BY <1>0, <1>1, <1>3 DEF MSockInv, NoSock
<1>4. CASE UNCHANGED vars
  BY <1>2, <1>3, <1>4 DEF vars, devVars
<1>5. CASE Reload
  BY <1>2, <1>3, <1>5 DEF Reload, master_exit, master_init, devVars
<1>6. CASE \E r \in Run : Slave(r) \/ SlaveAborts(r)
  BY <1>0, <1>2, <1>3, <1>6, OthersKept DEF masterVars
<1>7. CASE \E p \in Run : Master(p) \/ MasterAborts(p)
  <2>1. PICK p \in Run : Master(p) \/ MasterAborts(p)
    BY <1>7
  <2>2. MSockInv'
    <3>1. CASE mSock' \in {mSock, NoSock}
      BY <1>3, <3>1
    <3>2. CASE mSock' = master[p].sk /\ master[p].pc = "assign"
      BY <1>0, <1>1, <3>2 DEF MSockInv, SkOne, NoSock
    <3>3. MasterAssigns(p) => mSock' = master[p].sk /\ master[p].pc = "assign"
      BY <1>0, MasterEffects
    <3> QED BY <1>0, <2>1, <3>1, <3>2, <3>3, DeviceEffects
  <2>3. \A q \in Run \ {p} : SkOne(q)'
    BY <1>0, <1>2, <2>1, OthersKept
  <2>4. SkOne(p)'
    <3>1. CASE master'[p].pc \notin {"assign", "send"}
      BY <3>1 DEF SkOne
    <3>2. CASE MasterAccepts(p)
      <4>1. PICK c \in Run : /\ kaccept(c) /\ source' = [source EXCEPT ![c] = p]
                             /\ master'[p].sk = c
        BY <1>0, <2>1, <3>2, DeviceEffects
      <4>2. source'[c] = p
        BY <1>0, <4>1, Sets DEF TypeOK
      <4> QED BY <4>1, <4>2, Sets DEF SkOne, NoSock
    <3>3. CASE MasterFills(p)
      <4>1. master'[p].pc = "send" /\ master'[p].sk \in MasterSock(Fresh)
        BY <1>0, <3>3, MasterEffects
      <4>2. master'[p].sk \in Run /\ source[master'[p].sk] # 0
        BY <1>0, <4>1, MasterSockFacts
      <4> QED BY <1>1, <4>1, <4>2, Sets DEF SkOne, NoSock
    <3>4. CASE MasterSends(p)
      <4>1. master[p].pc = "send" /\ master'[p].sk = master[p].sk /\ master'[p].pc # "assign"
        BY <1>0, <3>4, MasterEffects DEF AfterSend
      <4> QED BY <1>0, <1>1, <4>1 DEF SkOne, NoSock
    <3>5. MasterAccepts(p) \/ MasterFills(p) \/ MasterSends(p) \/ master'[p].pc \notin {"assign", "send"}
      BY <1>0, <2>1, MasterEffects DEF Master, AfterSend
    <3> QED BY <3>1, <3>2, <3>3, <3>4, <3>5
  <2> QED BY <2>2, <2>3, <2>4
<1> QED BY <1>4, <1>5, <1>6, <1>7, Steps

(* A run of master that is alone keeps the socket of the device, and no     *)
(* other run gets hold of its connection.                                   *)
LEMMA AloneMasterStep ==
  ASSUME IInv, [Next]_vars, NEW p \in Run, Master(p) \/ MasterAborts(p),
         NEW r \in Run, Alone("masters", r)'
  PROVE  AloneMaster(r)'
<1>0. /\ TypeOK /\ MasterInv /\ (\A q \in Run : SkOne(q) /\ ConnOne(q))
      /\ AloneMaster(r) /\ Alone("masters", r)
      /\ source \in [Run -> 0 .. Runs] /\ srv \in [Run -> SrvState]
      /\ mSock \in Run \cup {0} /\ \A q \in Run : master[q].sk \in Run \cup {0}
  BY MasterParts, ConnParts, StillAlone, RunTypes, Sets DEF IInv, TypeOK
<1>1. \A q \in Run \ {p} : master'[q] = master[q]
  BY <1>0, OthersKept
<1>2. \A c \in Run : source[c] # 0 => source'[c] = source[c]
  BY SourceKept
<1>3. AfterSend(p) \in {"fill", "exit"}
  BY DEF AfterSend
<1>4. CASE p # r
  <2>1. r \notin Active(master)
    <3>1. CASE MasterOpens(p)
      BY <1>0, <3>1, StillAlone
    <3>2. CASE ~MasterOpens(p)
      <4>1. p \in Active(master)
        BY <1>0, <1>3, <3>2, MasterEffects, ActiveFacts DEF Master
      <4> QED BY <1>0, <1>4, <4>1 DEF AloneMaster, Own
    <3> QED BY <3>1, <3>2
  <2>2. r \notin Active(master)'
    BY <1>1, <1>4, <2>1, ActiveFacts
  <2>3. \A q \in Active(master) : Foreign(r, q)
    BY <1>0, <2>1 DEF AloneMaster
  <2>4. \A q \in Run : master[q].pc = "assign" => q # r
    BY <2>1, ActiveFacts
  <2>5. ASSUME NEW q \in Run \ {p}, q \in Active(master)'
        PROVE  Foreign(r, q)'
    <3>1. Foreign(r, q) /\ master'[q] = master[q]
      BY <1>1, <2>3, <2>5, ActiveFacts
    <3>2. master[q].pc = "send" => source'[master[q].sk] = source[master[q].sk]
      BY <1>0, <1>2 DEF SkOne, NoSock
    <3>3. CASE mSock' = NoSock
      BY <3>1, <3>2, <3>3 DEF Foreign
    <3>4. CASE mSock' = mSock /\ mSock # NoSock
      <4>1. source'[mSock] = source[mSock]
        BY <1>0, <1>2, <3>4 DEF MasterInv, NoSock
      <4> QED BY <3>1, <3>2, <3>4, <4>1 DEF Foreign
    <3>5. CASE mSock' = master[p].sk /\ master[p].pc = "assign"
      <4>1. source'[master[p].sk] = p
        BY <1>0, <1>2, <3>5, Sets DEF SkOne, NoSock
      <4> QED BY <1>4, <3>1, <3>2, <3>5, <4>1 DEF Foreign
    <3>6. MasterAssigns(p) => mSock' = master[p].sk /\ master[p].pc = "assign"
      BY <1>0, MasterEffects
    <3> QED BY <1>0, <3>3, <3>4, <3>5, <3>6, DeviceEffects
  <2>6. ASSUME p \in Active(master)'
        PROVE  Foreign(r, p)'
    <3>1. CASE MasterOpens(p) \/ MasterAccepts(p)
      <4>1. master'[p].pc \in {"accept", "over", "assign"}
        BY <1>0, <3>1, MasterEffects
      <4> QED BY <4>1 DEF Foreign, Assigned
    <3>2. CASE MasterAssigns(p)
      <4>1. master'[p].pc = "fill" /\ mSock' = master[p].sk /\ master[p].pc = "assign"
        BY <1>0, <3>2, MasterEffects
      <4>2. source'[master[p].sk] = p
        BY <1>0, <1>2, <4>1, Sets DEF SkOne, NoSock
      <4> QED BY <1>4, <4>1, <4>2 DEF Foreign
    <3>3. CASE MasterFills(p)
      <4>1. /\ master[p].pc = "fill" /\ master'[p].pc = "send"
            /\ master'[p].sk \in MasterSock(Fresh)
        BY <1>0, <3>3, MasterEffects
      <4>2. mSock' = mSock /\ source' = source
        BY <1>0, <3>3, DeviceEffects, <4>1 DEF MasterFills, MasterAccepts, MasterAssigns,
             MasterAborts, MasterKilled, MasterAcceptFails, histVars
      <4>3. mSock # NoSock => source[mSock] # r
        BY <2>3, <4>1, ActiveFacts DEF Foreign, Assigned
      <4>4. source[master'[p].sk] # r
        <5>1. CASE MasterLive
          BY <1>0, <4>1, <4>3, <5>1, MasterSockFacts DEF MasterLive
        <5>2. CASE ~MasterLive
          BY <1>0, <2>4, <4>1, <5>2, MasterSockFacts
        <5> QED BY <5>1, <5>2
      <4> QED BY <4>1, <4>2, <4>3, <4>4 DEF Foreign
    <3>4. CASE MasterSends(p) \/ MasterSendsNothing(p) \/ MasterSendFails(p)
      <4>1. /\ master[p].pc = "send" /\ master'[p].pc \in Assigned \cup {"over"}
            /\ master'[p].pc = "send" => master'[p].sk = master[p].sk
        BY <1>0, <1>3, <3>4, MasterEffects DEF Assigned
      <4>2. mSock' = mSock /\ source' = source
        BY <3>4 DEF MasterSends, MasterSendsNothing, MasterSendFails, devVars, histVars
      <4>3. /\ mSock # NoSock => source[mSock] # r
            /\ source[master[p].sk] # r
        BY <2>3, <4>1, ActiveFacts DEF Foreign, Assigned
      <4> QED BY <4>1, <4>2, <4>3 DEF Foreign
    <3>5. MasterMapFails(p) \/ MasterExits(p) \/ MasterStops(p) \/ MasterAborts(p) => FALSE
      BY <1>0, <2>6, MasterEffects, ActiveFacts
    <3> QED BY <3>1, <3>2, <3>3, <3>4, <3>5 DEF Master
  <2> QED BY <2>2, <2>5, <2>6, ActiveFacts DEF AloneMaster
<1>5. CASE p = r
  <2>1. Active(master) \subseteq {r}
    <3>1. CASE MasterOpens(p)
      BY <1>0, <1>5, <3>1, StillAlone
    <3>2. CASE ~MasterOpens(p)
      <4>1. p \in Active(master)
        BY <1>0, <1>3, <3>2, MasterEffects, ActiveFacts DEF Master
      <4> QED BY <1>0, <1>5, <4>1 DEF AloneMaster, Own
    <3> QED BY <3>1, <3>2
  <2>2. Active(master)' \subseteq {r}
    BY <1>1, <1>5, <2>1, ActiveFacts
  <2>3. SUFFICES ASSUME r \in Active(master)'
                 PROVE  Own(r)'
    BY <2>2 DEF AloneMaster
  <2>4. Active(master)' = {r}
    BY <2>2, <2>3
  <2>5. CASE MasterOpens(p)
    <3>1. master[r].pc = "start" /\ master'[r].pc = "accept" /\ r # 0
      BY <1>0, <1>5, <2>3, <2>5, MasterEffects, ActiveFacts, Sets
    <3>2. \A c \in Run : source[c] # r
      BY <1>0, <3>1 DEF ConnOne
    <3>3. source' = source
      BY <2>5 DEF MasterOpens
    <3> QED BY <2>4, <3>1, <3>2, <3>3, Sets DEF Own, Assigned
  <2>6. CASE ~MasterOpens(p)
    <3>1. r \in Active(master)
      BY <1>0, <1>3, <1>5, <2>6, MasterEffects, ActiveFacts DEF Master
    <3>2. Own(r)
      BY <1>0, <3>1 DEF AloneMaster
    <3>3. CASE MasterAccepts(p)
      <4>1. PICK c \in Run : kaccept(c) /\ source' = [source EXCEPT ![c] = p]
        BY <1>0, <3>3, DeviceEffects DEF Master
      <4>2. master[r].pc = "accept" /\ master'[r].pc = "assign" /\ r # 0
        BY <1>0, <1>5, <3>3, MasterEffects, Sets
      <4>3. \A d \in Run : source[d] # r
        BY <1>0, <4>2 DEF ConnOne
      <4>4. srv'[c] = "open"
        BY <1>0, <4>1 DEF kaccept
      <4>5. \A d \in Run : source'[d] = r => d = c
        BY <1>0, <4>1, <4>3
      <4> QED BY <2>4, <4>2, <4>4, <4>5, Sets DEF Own, Assigned
    <3>4. CASE MasterAssigns(p)
      <4>1. master'[r].pc = "fill" /\ mSock' = master[r].sk /\ master[r].pc = "assign"
        BY <1>0, <1>5, <3>4, MasterEffects
      <4>2. master[r].sk # NoSock /\ source[master[r].sk] = r
        BY <1>0, <4>1 DEF SkOne
      <4>3. source' = source /\ srv' = srv
        BY <3>4 DEF MasterAssigns, histVars, sockVars
      <4> QED BY <2>4, <3>2, <4>1, <4>2, <4>3 DEF Own
    <3>5. CASE MasterFills(p)
      <4>1. /\ master[r].pc = "fill" /\ master'[r].pc = "send"
            /\ master'[r].sk \in MasterSock(Fresh)
        BY <1>0, <1>5, <3>5, MasterEffects
      <4>2. mSock' = mSock /\ source' = source /\ srv' = srv
        BY <3>5 DEF MasterFills, histVars, sockVars
      <4>3. mSock # NoSock /\ source[mSock] = r
        BY <3>2, <4>1 DEF Own, Assigned
      <4>4. MasterLive
        BY <1>0, <3>2, <4>3, Sets DEF Own, MasterLive, NoSock
      <4>5. master'[r].sk = mSock
        BY <1>0, <4>1, <4>4, MasterSockFacts
      <4> QED BY <2>4, <3>2, <4>2, <4>3, <4>5 DEF Own
    <3>6. CASE MasterSends(p) \/ MasterSendsNothing(p) \/ MasterSendFails(p)
      <4>1. /\ master[r].pc = "send"
            /\ master'[r].pc = "send" => master'[r].sk = master[r].sk
        BY <1>0, <1>3, <1>5, <2>3, <3>6, MasterEffects
      <4>2. mSock' = mSock /\ source' = source
        BY <3>6 DEF MasterSends, MasterSendsNothing, MasterSendFails, devVars, histVars
      <4>3. srv' = srv
        BY <3>6 DEF MasterSends, MasterSendsNothing, MasterSendFails, sockVars, ksend
      <4> QED BY <2>4, <3>2, <4>1, <4>2, <4>3 DEF Own, Assigned
    <3>7. MasterMapFails(p) \/ MasterExits(p) \/ MasterStops(p) \/ MasterAborts(p) => FALSE
      BY <1>0, <1>5, <2>3, MasterEffects, ActiveFacts
    <3> QED BY <2>6, <3>3, <3>4, <3>5, <3>6, <3>7 DEF Master
  <2> QED BY <2>5, <2>6
<1> QED BY <1>4, <1>5

(* MasterInv is kept.                                                       *)
LEMMA MasterNext == IInv /\ [Next]_vars => MasterInv'
<1> SUFFICES ASSUME IInv, [Next]_vars PROVE MasterInv'
  OBVIOUS
<1>0. TypeOK /\ MasterInv /\ srv \in [Run -> SrvState] /\ \A r \in Run : AloneMaster(r)
  BY MasterParts, Sets DEF IInv, TypeOK
<1>1. SUFFICES ASSUME NEW r \in Run, Alone("masters", r)' PROVE AloneMaster(r)'
  <2>1. \A r \in Run : ~Alone("masters", r)' => AloneMaster(r)'
    BY DEF AloneMaster
  <2> QED BY <1>1, <2>1, SkNext, MasterParts
<1>2. AloneMaster(r) /\ Alone("masters", r)
  BY <1>0, <1>1, StillAlone
<1>3. CASE UNCHANGED vars
  BY <1>2, <1>3 DEF AloneMaster, Own, Foreign, Active, vars, sockVars, devVars
<1>4. CASE Reload
  <2>1. Active(master)' = {}
    BY <1>4 DEF Reload, Active
  <2> QED BY <2>1 DEF AloneMaster
<1>5. CASE \E p \in Run : Master(p) \/ MasterAborts(p)
  BY <1>1, <1>5, AloneMasterStep
<1>6. CASE \E p \in Run : Slave(p) \/ SlaveAborts(p)
  <2>1. PICK p \in Run : Slave(p) \/ SlaveAborts(p)
    BY <1>6
  <2>2. UNCHANGED <<mSock, master, source>>
    BY <1>0, <2>1, OthersKept DEF masterVars
  <2>3. \A c \in Run : srv[c] = "open" => srv'[c] = "open"
    <3>1. srv' = srv \/ \E c : krecvFails(c)
      BY <2>1 DEF Slave, SlaveOpens, SlaveMakesSocket, SlaveConnects, SlaveCalls, SlaveReceives,
             SlaveAtEof, SlaveRecvFails, SlaveStores, SlaveExtends, SlaveMaps, SlaveExits,
             SlaveStops, SlaveAborts, SlaveKilled, SlaveSocketFails, SlaveCreateSock, SlaveRecv,
             SlaveExit, ksocket, kconnect,
             krecv, kcloseCli, sockVars
    <3> QED BY <1>0, <3>1 DEF krecvFails
  <2>4. Active(master)' = Active(master)
    BY <2>2 DEF Active
  <2> QED BY <1>2, <2>2, <2>3, <2>4, Sets DEF AloneMaster, Own, Foreign
<1> QED BY <1>3, <1>4, <1>5, <1>6, Steps

-----------------------------------------------------------------------------
(* SlaveInv.                                                                *)

(* SlaveInv, one run at a time.                                             *)
SSockInv == sSock # NoSock => slave[sSock].pc \notin {"start", "socket"}
CallOne(r) ==
  /\ slave[r].pc = "recv" =>
       slave[r].sk # NoSock /\ slave[slave[r].sk].pc \notin {"start", "socket"}
  /\ slave[r].pc = "store" => slave[r].method = "fcntl"
  /\ slave[r].pc \in {"extend", "map"} => slave[r].method = "mmap"
  /\ slave[r].end = "ok" => slave[r].pc = "over"
SlaveOwn(r) ==
  /\ Active(slave) = {r}
  /\ slave[r].pc # "socket" => sSock = r
  /\ slave[r].pc = "recv" => slave[r].sk = r
SlaveForeign(r, q) ==
  /\ slave[q].pc # "socket" => sSock # r
  /\ slave[q].pc = "recv" => slave[q].sk # r
AloneSlave(r) ==
  Alone("slaves", r) =>
    /\ r \in Active(slave) => SlaveOwn(r)
    /\ \A q \in Active(slave) \ {r} : SlaveForeign(r, q)

(* These are its parts.                                                     *)
LEMMA SlaveParts ==
  /\ SlaveInv <=> SSockInv /\ \A r \in Run : CallOne(r) /\ AloneSlave(r)
  /\ SlaveInv' <=> SSockInv' /\ \A r \in Run : CallOne(r)' /\ AloneSlave(r)'
BY DEF SlaveInv, SSockInv, CallOne, SlaveOwn, SlaveForeign, AloneSlave

(* A step of a slave that makes no socket leaves sockfd_cli as it is, or,   *)
(* when ksocket() fails, NULL in it, and ends.                              *)
LEMMA SSockKept ==
  ASSUME TypeOK, NEW p \in Run, Slave(p) \/ SlaveAborts(p), ~SlaveMakesSocket(p)
  PROVE  sSock' = sSock \/ (sSock' = NoSock /\ slave'[p].pc = "over")
<1>1. CASE SlaveSocketFails(p)
  <2>1. slave'[p].pc = "over"
    BY <1>1, SlaveEffects DEF SlaveAborts
  <2> QED BY <1>1, <2>1 DEF SlaveSocketFails
<1>2. CASE ~SlaveSocketFails(p)
  BY <1>2 DEF Slave, SlaveOpens, slave_open, SlaveConnects, SlaveCalls, SlaveReceives,
       SlaveRecv, SlaveAtEof, SlaveRecvFails, SlaveStores, SlaveExtends, SlaveMaps,
       SlaveExits, SlaveExit, SlaveStops, SlaveAborts, SlaveKilled, devVars
<1> QED BY <1>1, <1>2

(* sockfd_cli of the slave's device changes only when a socket is made, or  *)
(* is not.                                                                  *)
LEMMA SSockEffects ==
  ASSUME TypeOK, [Next]_vars
  PROVE  \/ sSock' \in {sSock, NoSock} /\ \A r \in Run : ~SlaveMakesSocket(r)
         \/ \E r \in Run : SlaveMakesSocket(r) /\ sSock' = r
<1>1. CASE UNCHANGED vars
  <2>1. \A r \in Run : ~SlaveMakesSocket(r)
    BY <1>1, SlaveEffects DEF vars
  <2> QED BY <1>1, <2>1 DEF vars, devVars
<1>2. CASE Reload
  <2>1. \A r \in Run : ~SlaveMakesSocket(r)
    BY <1>2, SlaveEffects DEF Reload, slaveVars
  <2>2. sSock' = sSock
    BY <1>2 DEF Reload, master_exit, master_init, devVars
  <2> QED BY <2>1, <2>2
<1>3. CASE \E p \in Run : Master(p) \/ MasterAborts(p)
  <2>1. slave' = slave /\ sSock' = sSock
    BY <1>3, OthersKept DEF slaveVars
  <2>2. \A r \in Run : ~SlaveMakesSocket(r)
    BY <2>1, SlaveEffects
  <2> QED BY <2>1, <2>2
<1>4. CASE \E p \in Run : Slave(p) \/ SlaveAborts(p)
  <2>1. PICK p \in Run : Slave(p) \/ SlaveAborts(p)
    BY <1>4
  <2>2. CASE SlaveMakesSocket(p)
    BY <2>2, SlaveEffects
  <2>3. CASE ~SlaveMakesSocket(p)
    <3>1. sSock' \in {sSock, NoSock}
      BY <2>1, <2>3, SSockKept
    <3>2. \A r \in Run \ {p} : slave'[r] = slave[r]
      BY <2>1, OthersKept
    <3>3. \A r \in Run : ~SlaveMakesSocket(r)
      BY <2>3, <3>2, SlaveEffects
    <3> QED BY <3>1, <3>3
  <2> QED BY <2>2, <2>3
<1> QED BY <1>1, <1>2, <1>3, <1>4, Steps

(* The sockets of a slave's calls have been made, and the two methods are   *)
(* kept apart.                                                              *)
LEMMA CallNext ==
  ASSUME IInv, [Next]_vars
  PROVE  SSockInv' /\ \A r \in Run : CallOne(r)'
<1>0. /\ TypeOK /\ SlaveInv /\ SSockInv /\ (\A r \in Run : CallOne(r)) /\ NoReturn
      /\ sSock \in Run \cup {0} /\ \A r \in Run : slave[r].sk \in Run \cup {0}
  BY SlaveParts, RunTypes, NeverBack, Sets DEF IInv, TypeOK
<1>1. \A r \in Run : slave[r].pc \notin {"start", "socket"} => slave'[r].pc \notin {"start", "socket"}
  BY <1>0 DEF NoReturn
<1>2. SSockInv'
  <2>1. CASE sSock' = sSock
    BY <1>0, <1>1, <2>1 DEF SSockInv, NoSock
  <2>2. CASE \E r \in Run : SlaveMakesSocket(r) /\ sSock' = r
    BY <1>0, <2>2, SlaveEffects DEF SSockInv
  <2>3. CASE sSock' = NoSock
    BY <2>3 DEF SSockInv
  <2> QED BY <1>0, <2>1, <2>2, <2>3, SSockEffects
<1>3. ASSUME NEW r \in Run, slave'[r] = slave[r]
      PROVE  CallOne(r)'
  BY <1>0, <1>1, <1>3 DEF CallOne, NoSock
<1>4. ASSUME NEW r \in Run, Slave(r) \/ SlaveAborts(r)
      PROVE  CallOne(r)'
  <2>0. CallOne(r)
    BY <1>0
  <2>1. CASE SlaveOpens(r) \/ SlaveMakesSocket(r) \/ SlaveConnects(r) \/ SlaveStores(r) \/ SlaveAtEof(r)
    <3>1. /\ slave'[r].pc \in {"socket", "connect", "call", "exit", "over"}
          /\ slave'[r].end \in {slave[r].end, "failed"} /\ slave[r].pc # "over"
      BY <1>0, <2>1, SlaveEffects
    <3> QED BY <2>0, <3>1 DEF CallOne
  <2>2. CASE SlaveCalls(r)
    <3>1. /\ slave'[r].pc = "recv" /\ slave'[r].sk = sSock /\ slave'[r].end = slave[r].end
          /\ slave[r].pc = "call"
      BY <1>0, <2>2, SlaveEffects
    <3>2. sSock \in Run /\ slave[sSock].pc \notin {"start", "socket"}
      BY <1>0, <2>2, SlaveSockFacts DEF SlaveCalls
    <3> QED BY <1>1, <2>0, <3>1, <3>2, Sets DEF CallOne, NoSock
  <2>3. CASE SlaveReceives(r)
    <3>1. /\ slave[r].pc = "recv" /\ slave'[r].end = slave[r].end
          /\ slave'[r].pc = IF slave[r].method = "fcntl" THEN "store" ELSE "extend"
          /\ slave'[r].method = slave[r].method
      BY <1>0, <1>4, <2>3, SlaveEffects
    <3>2. slave[r].method \in {"fcntl", "mmap"}
      BY <1>0, RunTypes DEF SlaveState, Method
    <3> QED BY <2>0, <3>1, <3>2 DEF CallOne
  <2>4. CASE SlaveRecvFails(r)
    <3>1. /\ slave[r].pc = "recv" /\ slave'[r].end \in {slave[r].end, "failed"}
          /\ slave'[r].pc \in {"call", "over"}
      BY <1>0, <2>4, SlaveEffects
    <3> QED BY <2>0, <3>1 DEF CallOne
  <2>5. CASE SlaveExtends(r) \/ SlaveMaps(r)
    <3>1. /\ slave[r].pc \in {"extend", "map"} /\ slave'[r].end = slave[r].end
          /\ slave'[r].pc \in {"map", "call", "exit"} /\ slave'[r].method = slave[r].method
      BY <1>0, <1>4, <2>5, SlaveEffects
    <3> QED BY <2>0, <3>1 DEF CallOne
  <2>6. CASE SlaveExits(r) \/ SlaveStops(r) \/ SlaveAborts(r)
    <3>1. slave'[r].pc = "over"
      BY <1>0, <2>6, SlaveEffects
    <3> QED BY <3>1 DEF CallOne
  <2> QED BY <1>4, <2>1, <2>2, <2>3, <2>4, <2>5, <2>6 DEF Slave
<1>5. \A r \in Run : CallOne(r)'
  <2>1. CASE slave' = slave
    BY <1>3, <2>1
  <2>2. CASE \E p \in Run : Slave(p) \/ SlaveAborts(p)
    BY <1>0, <1>3, <1>4, <2>2, OthersKept
  <2>3. UNCHANGED vars \/ Reload => slave' = slave
    BY DEF vars, Reload, slaveVars
  <2>4. \A p \in Run : Master(p) \/ MasterAborts(p) => slave' = slave
    BY <1>0, OthersKept DEF slaveVars
  <2> QED BY <2>1, <2>2, <2>3, <2>4, Steps
<1> QED BY <1>2, <1>5

(* A run of slave that is alone keeps the socket of the device, and no      *)
(* other run gets hold of it.                                               *)
LEMMA AloneSlaveStep ==
  ASSUME IInv, [Next]_vars, NEW p \in Run, Slave(p) \/ SlaveAborts(p),
         NEW r \in Run, Alone("slaves", r)'
  PROVE  AloneSlave(r)'
<1>0. TypeOK /\ SlaveInv /\ AloneSlave(r) /\ Alone("slaves", r)
  BY SlaveParts, StillAlone DEF IInv
<1>1. \A q \in Run \ {p} : slave'[q] = slave[q]
  BY <1>0, OthersKept
<1>2. SlaveMakesSocket(p) => sSock' = p
  BY <1>0, SlaveEffects
<1>3. ~SlaveMakesSocket(p) => sSock' = sSock \/ (sSock' = NoSock /\ slave'[p].pc = "over")
  BY <1>0, SSockKept
<1>4. ~SlaveOpens(p) => p \in Active(slave)
  BY <1>0, SlaveEffects, ActiveFacts DEF Slave
<1>5. CASE p # r
  <2>1. r \notin Active(slave)
    <3>1. CASE SlaveOpens(p)
      BY <1>0, <3>1, StillAlone
    <3>2. CASE ~SlaveOpens(p)
      BY <1>0, <1>4, <1>5, <3>2 DEF AloneSlave, SlaveOwn
    <3> QED BY <3>1, <3>2
  <2>2. r \notin Active(slave)'
    BY <1>1, <1>5, <2>1, ActiveFacts
  <2>3. \A q \in Active(slave) : SlaveForeign(r, q)
    BY <1>0, <2>1 DEF AloneSlave
  <2>4. sSock' # sSock => sSock' # r
    BY <1>2, <1>3, <1>5, Sets
  <2>5. ASSUME NEW q \in Run \ {p}, q \in Active(slave)'
        PROVE  SlaveForeign(r, q)'
    <3>1. SlaveForeign(r, q) /\ slave'[q] = slave[q]
      BY <1>1, <2>3, <2>5, ActiveFacts
    <3> QED BY <2>4, <3>1 DEF SlaveForeign
  <2>6. ASSUME p \in Active(slave)'
        PROVE  SlaveForeign(r, p)'
    <3>1. CASE SlaveOpens(p)
      <4>1. slave'[p].pc = "socket"
        BY <1>0, <3>1, SlaveEffects
      <4> QED BY <4>1 DEF SlaveForeign
    <3>2. CASE SlaveMakesSocket(p)
      <4>1. slave'[p].pc = "connect" /\ sSock' = p
        BY <1>0, <3>2, SlaveEffects
      <4> QED BY <1>5, <4>1 DEF SlaveForeign
    <3>3. CASE ~SlaveOpens(p) /\ ~SlaveMakesSocket(p)
      <4>1. /\ slave[p].pc # "socket"
            /\ slave'[p].pc = "recv" => slave'[p].sk = sSock
        BY <1>0, <2>6, <3>3, SlaveEffects, ActiveFacts DEF Slave
      <4>2. sSock # r
        BY <1>4, <2>3, <3>3, <4>1 DEF SlaveForeign
      <4>3. sSock' = sSock
        BY <1>3, <2>6, <3>3, ActiveFacts
      <4> QED BY <4>1, <4>2, <4>3 DEF SlaveForeign
    <3> QED BY <3>1, <3>2, <3>3
  <2> QED BY <2>2, <2>5, <2>6, ActiveFacts DEF AloneSlave
<1>6. CASE p = r
  <2>1. Active(slave) \subseteq {r}
    <3>1. CASE SlaveOpens(p)
      BY <1>0, <1>6, <3>1, StillAlone
    <3>2. CASE ~SlaveOpens(p)
      BY <1>0, <1>4, <1>6, <3>2 DEF AloneSlave, SlaveOwn
    <3> QED BY <3>1, <3>2
  <2>2. Active(slave)' \subseteq {r}
    BY <1>1, <1>6, <2>1, ActiveFacts
  <2>3. SUFFICES ASSUME r \in Active(slave)'
                 PROVE  SlaveOwn(r)'
    BY <2>2 DEF AloneSlave
  <2>4. Active(slave)' = {r}
    BY <2>2, <2>3
  <2>5. CASE SlaveOpens(p)
    <3>1. slave'[r].pc = "socket"
      BY <1>0, <1>6, <2>5, SlaveEffects
    <3> QED BY <2>4, <3>1 DEF SlaveOwn
  <2>6. CASE SlaveMakesSocket(p)
    <3>1. slave'[r].pc = "connect" /\ sSock' = r
      BY <1>0, <1>6, <2>6, SlaveEffects
    <3> QED BY <2>4, <3>1 DEF SlaveOwn
  <2>7. CASE ~SlaveOpens(p) /\ ~SlaveMakesSocket(p)
    <3>1. /\ slave[r].pc # "socket"
          /\ slave'[r].pc = "recv" => slave'[r].sk = sSock
      BY <1>0, <1>6, <2>3, <2>7, SlaveEffects, ActiveFacts DEF Slave
    <3>2. sSock = r
      BY <1>0, <1>4, <1>6, <2>7, <3>1 DEF AloneSlave, SlaveOwn
    <3>3. sSock' = sSock
      BY <1>3, <1>6, <2>3, <2>7, ActiveFacts
    <3> QED BY <2>4, <3>1, <3>2, <3>3 DEF SlaveOwn
  <2> QED BY <2>5, <2>6, <2>7
<1> QED BY <1>5, <1>6

(* SlaveInv is kept.                                                        *)
LEMMA SlaveNext == IInv /\ [Next]_vars => SlaveInv'
<1> SUFFICES ASSUME IInv, [Next]_vars PROVE SlaveInv'
  OBVIOUS
<1>0. TypeOK /\ SlaveInv /\ \A r \in Run : AloneSlave(r)
  BY SlaveParts DEF IInv
<1>1. SUFFICES ASSUME NEW r \in Run, Alone("slaves", r)' PROVE AloneSlave(r)'
  <2>1. \A r \in Run : ~Alone("slaves", r)' => AloneSlave(r)'
    BY DEF AloneSlave
  <2> QED BY <1>1, <2>1, CallNext, SlaveParts
<1>2. AloneSlave(r) /\ Alone("slaves", r)
  BY <1>0, <1>1, StillAlone
<1>3. ASSUME slave' = slave, sSock' = sSock
      PROVE  AloneSlave(r)'
  BY <1>2, <1>3 DEF AloneSlave, SlaveOwn, SlaveForeign, Active
<1>4. CASE UNCHANGED vars
  BY <1>3, <1>4 DEF vars, devVars
<1>5. CASE Reload
  BY <1>3, <1>5 DEF Reload, slaveVars, master_exit, master_init, devVars
<1>6. CASE \E p \in Run : Master(p) \/ MasterAborts(p)
  BY <1>0, <1>3, <1>6, OthersKept DEF slaveVars
<1>7. CASE \E p \in Run : Slave(p) \/ SlaveAborts(p)
  BY <1>1, <1>7, AloneSlaveStep
<1> QED BY <1>4, <1>5, <1>6, <1>7, Steps

-----------------------------------------------------------------------------
(* FlowInv.                                                                 *)

(* FlowInv of one run of slave.                                             *)
FlowOne(c) ==
  /\ slave[c].pc \in Receiving => InOrder(c)
  /\ slave[c].pc \in {"start", "socket", "connect"} => file[c] = << >> /\ file_size[c] = 0
  /\ Stored(c)

(* A run that is undisturbed was so before.                                 *)
LEMMA StillUndisturbed ==
  ASSUME IInv, [Next]_vars, NEW c \in Run, Undisturbed(c)'
  PROVE  /\ Undisturbed(c) /\ FlowOne(c) /\ Alone("slaves", c)' /\ Alone("slaves", c)
         /\ source[c] # 0 => source[c] \in Run /\ source'[c] = source[c]
                             /\ Alone("masters", source[c])' /\ Alone("masters", source[c])
<1>0. TypeOK /\ source[c] \in 0 .. Runs
  BY RunTypes DEF IInv
<1>1. Alone("slaves", c)' /\ Alone("slaves", c)
  BY <1>0, StillAlone DEF Undisturbed, Alone
<1>2. source[c] # 0 => source[c] \in Run /\ source'[c] = source[c]
  BY <1>0, SourceKept, RunAssumption DEF Run
<1>3. source[c] # 0 => Alone("masters", source[c])' /\ Alone("masters", source[c])
  BY <1>0, <1>2, StillAlone DEF Undisturbed, Alone
<1>4. <<"masters", 0>> \notin disturbed
  BY <1>0, Sets DEF TypeOK
<1>5. Undisturbed(c)
  BY <1>1, <1>3, <1>4 DEF Undisturbed, Alone
<1>6. FlowOne(c)
  BY <1>5 DEF IInv, FlowInv, FlowOne
<1> QED BY <1>1, <1>2, <1>3, <1>5, <1>6

(* Steps that concern neither run c of slave nor the part of its master     *)
(* that counts.                                                             *)
LEMMA FlowFrame ==
  ASSUME NEW c \in Run, FlowOne(c), fileLen' = fileLen,
         slave'[c] = slave[c], sPage'[c] = sPage[c], file'[c] = file[c],
         file_size'[c] = file_size[c], source'[c] = source[c],
         srv'[c] = "none" => srv[c] = "none",
         slave[c].pc \in Receiving =>
           /\ cli'[c] = cli[c] /\ stream'[c] = stream[c]
           /\ srv'[c] = "closed" => srv[c] = "closed"
           /\ source[c] # 0 /\ source[c] \in Active(master)' =>
                source[c] \in Active(master) /\ Queued(source[c])' = Queued(source[c])
  PROVE  FlowOne(c)'
<1>1. Taken(c)' = Taken(c)
  BY DEF Taken
<1>2. Stored(c)'
  BY DEF FlowOne, Stored
<1>3. slave'[c].pc \in Receiving => InOrder(c)'
  BY <1>1 DEF FlowOne, InOrder
<1> QED BY <1>2, <1>3 DEF FlowOne

(* How many bytes of its file a master has queued changes only when it      *)
(* sends, or when an error makes it drop the rest of a page.                *)
LEMMA QueuedFacts ==
  ASSUME IInv, NEW p \in Run, Master(p) \/ MasterAborts(p)
  PROVE  /\ \A q \in Run \ {p} : Queued(q)' = Queued(q)
         /\ Queued(p) \in Int /\ Queued(p)' \in Int
         /\ MasterSends(p) => Queued(p)' = Queued(p) + 1
         /\ ~MasterSends(p) /\ ~MasterSendFails(p) /\ p \in Active(master)' =>
              Queued(p)' = Queued(p)
         /\ Queued(p) <= Queued(p)' \/ p \notin Active(master)'
<1>0. /\ TypeOK /\ BooksInv /\ BooksInv' /\ TypeOK'
      /\ master[p].offset \in Nat /\ master[p].size \in 0 .. PageSize
      /\ master[p].sent \in 0 .. PageSize
      /\ master[p].pc \in {"start", "accept", "assign", "fill", "send", "exit", "over"}
  <2>1. TypeOK /\ BooksInv /\ [Next]_vars
    BY DEF IInv, Next
  <2>2. BooksInv' /\ TypeOK'
    BY <2>1, BooksNext, TypeNext
  <2> QED BY <2>1, <2>2, RunTypes DEF MasterState
<1>1. \A q \in Run \ {p} : Queued(q)' = Queued(q)
  BY <1>0, OthersKept DEF Queued
<1>2. Queued(p) \in Int
  BY <1>0, Sets DEF Queued
<1>3. /\ master'[p].offset \in Nat /\ master'[p].size \in 0 .. PageSize
      /\ master'[p].sent \in 0 .. PageSize
  BY <1>0 DEF TypeOK, MasterState
<1>4. Queued(p)' \in Int
  BY <1>3, Sets DEF Queued
<1>5. AfterSend(p) \in {"fill", "exit"}
  BY DEF AfterSend
<1>6. master[p].pc = "send" =>
        /\ master[p].size <= master[p].offset /\ master[p].sent <= master[p].size
        /\ master[p].sent = master[p].size => master[p].size = 0
  BY <1>0 DEF BooksInv
<1>7. MasterSends(p) => Queued(p)' = Queued(p) + 1
  <2> SUFFICES ASSUME MasterSends(p) PROVE Queued(p)' = Queued(p) + 1
    OBVIOUS
  <2>1. /\ master[p].pc = "send" /\ master[p].size > 0
        /\ master'[p].pc = IF master[p].sent + 1 = master[p].size THEN AfterSend(p) ELSE "send"
        /\ master'[p].offset = master[p].offset /\ master'[p].size = master[p].size
        /\ master'[p].sent = master[p].sent + 1
    BY <1>0, MasterEffects
  <2>2. CASE master[p].sent + 1 = master[p].size
    <3>1. Queued(p)' = master[p].offset
      BY <1>5, <2>1, <2>2 DEF Queued
    <3> QED BY <1>0, <2>1, <2>2, <3>1, Sets DEF Queued
  <2>3. CASE master[p].sent + 1 # master[p].size
    BY <1>0, <2>1, <2>3, Sets DEF Queued
  <2> QED BY <2>2, <2>3
<1>8. MasterSendFails(p) /\ p \in Active(master)' => Queued(p) <= Queued(p)'
  <2> SUFFICES ASSUME MasterSendFails(p), p \in Active(master)' PROVE Queued(p) <= Queued(p)'
    OBVIOUS
  <2>1. /\ master[p].pc = "send" /\ master'[p].pc = AfterSend(p)
        /\ master'[p].offset = master[p].offset
    BY <1>0, MasterEffects, ActiveFacts
  <2>2. Queued(p)' = master[p].offset
    BY <1>5, <2>1 DEF Queued
  <2> QED BY <1>0, <1>6, <2>1, <2>2, Sets DEF Queued
<1>9. ASSUME ~MasterSends(p), ~MasterSendFails(p), p \in Active(master)'
      PROVE  Queued(p)' = Queued(p)
  <2>1. CASE MasterOpens(p) \/ MasterAccepts(p) \/ MasterAssigns(p)
    <3>1. /\ master[p].pc \in {"start", "accept", "assign"} /\ master'[p].pc # "send"
          /\ master'[p].offset = master[p].offset
      BY <1>0, <2>1, MasterEffects
    <3> QED BY <3>1 DEF Queued
  <2>2. CASE MasterFills(p)
    <3>1. /\ master[p].pc = "fill" /\ master'[p].pc = "send"
          /\ master'[p].offset = master[p].offset + part(p)
          /\ master'[p].size = part(p) /\ master'[p].sent = 0
      BY <1>0, <2>2, MasterEffects
    <3>2. part(p) \in Int
      BY <1>3, <3>1, Sets
    <3>3. Queued(p)' = master'[p].offset - master'[p].size + master'[p].sent
      BY <3>1 DEF Queued
    <3>4. Queued(p) = master[p].offset
      BY <3>1 DEF Queued
    <3> QED BY <1>0, <3>1, <3>2, <3>3, <3>4
  <2>3. CASE MasterSendsNothing(p)
    <3>1. /\ master[p].pc = "send" /\ master[p].size = 0 /\ master'[p].pc = AfterSend(p)
          /\ master'[p].offset = master[p].offset
      BY <1>0, <2>3, MasterEffects DEF MasterSendsNothing
    <3>2. Queued(p)' = master[p].offset
      BY <1>5, <3>1 DEF Queued
    <3> QED BY <1>0, <1>6, <3>1, <3>2, Sets DEF Queued
  <2>4. MasterMapFails(p) \/ MasterExits(p) \/ MasterStops(p) \/ MasterAborts(p) => FALSE
    BY <1>0, <1>9, MasterEffects, ActiveFacts
  <2> QED BY <1>9, <2>1, <2>2, <2>3, <2>4 DEF Master
<1>10. Queued(p) <= Queued(p)' \/ p \notin Active(master)'
  <2>1. CASE MasterSends(p)
    BY <1>2, <1>7, <2>1
  <2>2. CASE ~MasterSends(p) /\ ~MasterSendFails(p)
    BY <1>2, <1>9, <2>2
  <2> QED BY <1>8, <2>1, <2>2
<1> QED BY <1>1, <1>2, <1>4, <1>7, <1>9, <1>10

(* A master's step keeps the order of an undisturbed connection.            *)
LEMMA FlowMaster ==
  ASSUME IInv, NEW p \in Run, Master(p) \/ MasterAborts(p), NEW c \in Run, Undisturbed(c)'
  PROVE  FlowOne(c)'
<1>0. /\ TypeOK /\ BooksInv /\ MasterInv /\ ConnOne(c) /\ Distinct /\ BacklogInv
      /\ [Next]_vars /\ \A q \in Run : SkOne(q) /\ AloneMaster(q)
      /\ cli \in [Run -> CliState] /\ srv \in [Run -> SrvState] /\ stream \in [Run -> Seq(Byte)]
      /\ backlog \in Seq(Run) /\ source \in [Run -> 0 .. Runs]
  BY ConnParts, MasterParts, Sets DEF IInv, TypeOK, Next
<1>1. /\ FlowOne(c) /\ Alone("slaves", c)
      /\ source[c] # 0 => source[c] \in Run /\ source'[c] = source[c] /\ Alone("masters", source[c])
  BY <1>0, StillUndisturbed
<1>2. /\ UNCHANGED <<sPage, slave, file, file_size, fileLen>>
      /\ \A q \in Run \ {p} : master'[q] = master[q]
  BY <1>0, OthersKept DEF slaveVars
<1> DEFINE m == source[c]
<1>3. CASE MasterAccepts(p)
  <2>1. PICK d \in Run : kaccept(d) /\ source' = [source EXCEPT ![d] = p]
    BY <1>0, <1>3, DeviceEffects DEF Master
  <2>2. /\ cli' = cli /\ stream' = stream /\ srv' = [srv EXCEPT ![d] = "open"]
    BY <2>1 DEF kaccept
  <2>3. master[p].pc = "accept" /\ master'[p].pc = "assign" /\ master'[p].offset = master[p].offset
    BY <1>0, <1>3, MasterEffects
  <2>4. CASE d # c
    <3>1. source'[c] = source[c] /\ srv'[c] = srv[c]
      BY <1>0, <2>1, <2>2, <2>4
    <3>2. m # 0 => m # p
      BY <1>0, <2>3 DEF ConnOne
    <3>3. m # 0 /\ m \in Active(master)' => m \in Active(master) /\ Queued(m)' = Queued(m)
      BY <1>1, <1>2, <3>2, QueuedFacts, ActiveFacts
    <3> QED BY <1>1, <1>2, <2>2, <3>1, <3>3, FlowFrame
  <2>5. CASE d = c
    <3>1. source[c] = 0 /\ srv[c] = "none"
      <4>1. backlog # << >> /\ c = Head(backlog)
        BY <2>1, <2>5 DEF kaccept
      <4>2. Len(backlog) \in Nat \ {0} /\ c = backlog[1]
        BY <1>0, <4>1, EmptySeq
      <4> QED BY <1>0, <4>2 DEF BacklogInv
    <3>2. source'[c] = p /\ srv'[c] = "open" /\ p # 0
      BY <1>0, <2>1, <2>2, <2>5, Sets
    <3>3. stream[c] = << >> /\ stream'[c] = << >> /\ Len(<< >>) = 0
      BY <1>0, <2>2, <3>1 DEF ConnOne
    <3>4. file_size[c] = 0 /\ file[c] = << >>
      BY <1>1, <3>1 DEF FlowOne, Stored
    <3>5. slave[c].pc \notin HasPage
      BY <1>1, <3>1 DEF FlowOne, InOrder, HasPage, Receiving
    <3>6. Taken(c)' = 0
      BY <1>2, <3>4, <3>5 DEF Taken
    <3>7. Queued(p)' = 0
      <4>1. master[p].offset = 0
        BY <1>0, <2>3 DEF BooksInv
      <4> QED BY <2>3, <4>1 DEF Queued
    <3>8. fileLen[p] \in Nat
      BY <1>0, RunTypes
    <3>9. Stored(c)'
      <4>1. ~(slave[c].method = "fcntl" /\ (slave[c].pc = "exit" \/ slave[c].end = "ok"))
        BY <1>1, <3>1, <3>4 DEF FlowOne, Stored
      <4> QED BY <1>2, <3>2, <3>3, <3>4, <3>5, <3>8, <4>1 DEF Stored, HasPage
    <3>10. slave'[c].pc \in Receiving => InOrder(c)'
      <4>1. slave[c].pc \in Receiving => cli[c] = "open"
        BY <1>1 DEF FlowOne, InOrder
      <4>2. Taken(c)' + Len(stream'[c]) = 0
        BY <3>3, <3>6
      <4> QED BY <1>2, <2>2, <3>2, <3>3, <3>5, <3>7, <3>8, <4>1, <4>2 DEF InOrder
    <3>11. slave'[c].pc \in {"start", "socket", "connect"} => file'[c] = << >> /\ file_size'[c] = 0
      BY <1>2, <3>4
    <3> QED BY <3>9, <3>10, <3>11 DEF FlowOne
  <2> QED BY <2>4, <2>5
<1>4. CASE MasterSends(p)
  <2> DEFINE k == master[p].sk
  <2>1. /\ master[p].pc = "send" /\ ksend(k, mPage[p][master[p].sent + 1])
        /\ p \in Active(master)
    BY <1>0, <1>4, MasterEffects, ActiveFacts DEF MasterSends
  <2>2. k \in Run /\ source[k] # 0
    BY <1>0, <2>1, RunTypes, Sets DEF SkOne, NoSock
  <2>3. /\ UNCHANGED <<cli, srv, source>> /\ srv[k] = "open"
        /\ stream' = [stream EXCEPT ![k] = Append(stream[k], mPage[p][master[p].sent + 1])]
    BY <1>4, <2>1 DEF ksend, MasterSends, histVars
  <2>4. CASE m # p
    <3>1. k # c
      <4>1. CASE m = 0
        BY <2>2, <4>1
      <4>2. CASE m # 0
        <5>1. source[k] # m
          BY <1>0, <1>1, <2>1, <2>4, <4>2 DEF AloneMaster, Foreign
        <5> QED BY <5>1
      <4> QED BY <4>1, <4>2
    <3>2. stream'[c] = stream[c]
      BY <1>0, <2>3, <3>1
    <3>3. m # 0 /\ m \in Active(master)' => m \in Active(master) /\ Queued(m)' = Queued(m)
      BY <1>1, <1>2, <2>4, QueuedFacts, ActiveFacts
    <3> QED BY <1>1, <1>2, <2>3, <3>2, <3>3, FlowFrame
  <2>5. CASE m = p
    <3>1. Own(p) /\ p # 0
      BY <1>0, <1>1, <2>1, <2>5, Sets DEF AloneMaster
    <3>2. k = c
      <4>1. source[k] = p
        BY <2>1, <3>1 DEF Own, Assigned
      <4> QED BY <1>0, <2>2, <2>5, <4>1 DEF Distinct
    <3>3. Queued(p)' = Queued(p) + 1 /\ Queued(p) \in Int
      BY <1>4, QueuedFacts
    <3>4. /\ master[p].offset \in Nat /\ master[p].size \in 0 .. PageSize
          /\ master[p].sent \in 0 .. PageSize /\ fileLen[p] \in Nat
          /\ stream[c] \in Seq(Byte) /\ file_size[c] \in Int /\ slave[c].len \in 0 .. PageSize
          /\ mPage[p] \in [1 .. PageSize -> Byte]
      BY <1>0, RunTypes
    <3>5. /\ master[p].size <= master[p].offset /\ master[p].sent <= master[p].size
          /\ master[p].sent # master[p].size /\ master[p].offset <= fileLen[p]
          /\ \A i \in 1 .. master[p].size :
               mPage[p][i] = <<p, master[p].offset - master[p].size + i>>
      <4>1. master[p].size > 0
        BY <1>4 DEF MasterSends
      <4> QED BY <1>0, <2>1, <3>4, <4>1 DEF BooksInv
    <3>5a. master[p].offset \in Int /\ master[p].size \in Int /\ master[p].sent \in Int
      BY <3>4, Sets
    <3>6. Queued(p) = master[p].offset - master[p].size + master[p].sent
      BY <2>1 DEF Queued
    <3> DEFINE byte == mPage[p][master[p].sent + 1]
    <3>7. byte = <<p, Queued(p) + 1>> /\ byte \in Byte
      <4>1. master[p].sent + 1 \in 1 .. master[p].size /\ master[p].sent + 1 \in 1 .. PageSize
        <5>1. /\ master[p].sent \in 0 .. PageSize /\ master[p].size \in 0 .. PageSize
              /\ PageSize \in Nat
          BY <3>4, Sets
        <5>2. master[p].sent < master[p].size
          BY <3>5, <5>1
        <5> QED BY <5>1, <5>2
      <4>2. master[p].offset - master[p].size + (master[p].sent + 1) = Queued(p) + 1
        BY <3>5a, <3>6
      <4>3. byte = <<p, master[p].offset - master[p].size + (master[p].sent + 1)>>
        BY <3>5, <4>1
      <4> QED BY <3>4, <4>1, <4>2, <4>3
    <3>8. Queued(p) + 1 <= fileLen[p]
      <4>1. fileLen[p] \in Int /\ Queued(p) \in Int
        BY <3>3, <3>4
      <4>2. \A o, s, n, f \in Int :
              s <= o /\ n <= s /\ n # s /\ o <= f => o - s + n + 1 <= f
        OBVIOUS
      <4>3. master[p].offset - master[p].size + master[p].sent + 1 <= fileLen[p]
        BY <3>5, <3>5a, <4>1, <4>2
      <4> QED BY <3>6, <4>3
    <3> HIDE DEF byte
    <3>9. /\ Len(stream'[c]) = Len(stream[c]) + 1 /\ Len(stream[c]) \in Nat
          /\ stream'[c][Len(stream[c]) + 1] = byte
          /\ \A i \in 1 .. Len(stream[c]) : stream'[c][i] = stream[c][i]
      <4>1. stream'[c] = Append(stream[c], byte)
        BY <1>0, <2>3, <3>2 DEF byte
      <4> QED BY <3>4, <3>7, <4>1, AppendProperties, LenProperties
    <3>10. Taken(c)' = Taken(c) /\ Taken(c) \in Int
      BY <1>2, <3>4, Sets DEF Taken
    <3>11. Stored(c)'
      BY <1>1, <1>2, <2>3 DEF FlowOne, Stored
    <3>12. ASSUME slave'[c].pc \in Receiving
           PROVE  InOrder(c)'
      <4>1. InOrder(c) /\ m # 0
        BY <1>1, <1>2, <2>5, <3>1, <3>12 DEF FlowOne
      <4>2. /\ Taken(c) + Len(stream[c]) = Queued(p)
            /\ \A i \in 1 .. Len(stream[c]) : stream[c][i] = <<p, Taken(c) + i>>
        BY <2>1, <2>5, <4>1 DEF InOrder
      <4>3. Taken(c)' + Len(stream'[c]) = Queued(p)'
        BY <3>3, <3>9, <3>10, <4>2
      <4>4. Taken(c)' + Len(stream'[c]) <= fileLen[p]
        BY <3>3, <3>8, <4>3
      <4>5. \A i \in 1 .. Len(stream'[c]) : stream'[c][i] = <<p, Taken(c)' + i>>
        <5>1. \A i \in 1 .. Len(stream'[c]) : i \in 1 .. Len(stream[c]) \/ i = Len(stream[c]) + 1
          BY <3>9
        <5>2. Taken(c)' + (Len(stream[c]) + 1) = Queued(p) + 1
          BY <3>3, <3>9, <3>10, <4>2
        <5>3. stream'[c][Len(stream[c]) + 1] = <<p, Taken(c)' + (Len(stream[c]) + 1)>>
          BY <3>7, <3>9, <5>2
        <5> QED BY <3>9, <3>10, <4>2, <5>1, <5>3
      <4>6. srv'[c] # "closed" /\ source'[c] = p
        BY <2>3, <2>5, <3>2
      <4>7. cli'[c] = "open" /\ (slave'[c].pc \in HasPage =>
              \A i \in 1 .. slave'[c].len : sPage'[c][i] = <<p, file_size'[c] + i>>)
        BY <1>2, <2>3, <2>5, <4>1 DEF InOrder
      <4> QED BY <1>2, <3>1, <4>3, <4>4, <4>5, <4>6, <4>7 DEF InOrder
    <3>13. slave'[c].pc \in {"start", "socket", "connect"} => file'[c] = << >> /\ file_size'[c] = 0
      BY <1>1, <1>2 DEF FlowOne
    <3> QED BY <3>11, <3>12, <3>13 DEF FlowOne
  <2> QED BY <2>4, <2>5
<1>5. CASE MasterSendFails(p)
  <2>1. UNCHANGED <<cli, srv, stream, source>>
    BY <1>5 DEF MasterSendFails, sockVars, histVars
  <2>2. CASE m # p
    <3>1. m # 0 /\ m \in Active(master)' => m \in Active(master) /\ Queued(m)' = Queued(m)
      BY <1>1, <1>2, <2>2, QueuedFacts, ActiveFacts
    <3> QED BY <1>1, <1>2, <2>1, <3>1, FlowFrame
  <2>3. CASE m = p
    <3>1. master[p].pc = "send" /\ p \in Active(master) /\ p # 0
      BY <1>5, ActiveFacts, Sets DEF MasterSendFails
    <3>2. mSock # NoSock /\ source[mSock] = p /\ master[p].sk = mSock /\ mSock \in Run
      BY <1>0, <1>1, <2>3, <3>1, Sets DEF AloneMaster, Own, Assigned, TypeOK, NoSock
    <3>3. master[p].sk = c
      BY <1>0, <2>3, <3>1, <3>2 DEF Distinct
    <3>4. cli[c] = "closed"
      BY <1>5, <3>3 DEF MasterSendFails, Broken
    <3>5. slave[c].pc \notin Receiving
      BY <1>1, <3>4 DEF FlowOne, InOrder
    <3> QED BY <1>1, <1>2, <2>1, <3>5, FlowFrame
  <2> QED BY <2>2, <2>3
<1>6. CASE MasterExits(p)
  <2>1. PICK d \in MasterSock(Fresh) : kcloseSrv(d)
    BY <1>6 DEF MasterExits, MasterExit
  <2>2. /\ UNCHANGED <<cli, stream, source>> /\ srv' = [srv EXCEPT ![d] = "closed"]
    BY <1>6, <2>1 DEF kcloseSrv, MasterExits, histVars
  <2>3. d \in Run /\ source[d] # 0
    BY <1>0, MasterSockFacts
  <2>4. master[p].pc = "exit" /\ master'[p].pc = "over" /\ p \in Active(master)
    BY <1>0, <1>6, MasterEffects, ActiveFacts
  <2>5. CASE d # c
    <3>1. srv'[c] = srv[c]
      BY <1>0, <2>2, <2>5
    <3>2. m # 0 /\ m \in Active(master)' => m \in Active(master) /\ Queued(m)' = Queued(m)
      BY <1>1, <1>2, <2>4, QueuedFacts, ActiveFacts
    <3> QED BY <1>1, <1>2, <2>2, <3>1, <3>2, FlowFrame
  <2>6. CASE d = c
    <3>1. m # 0 /\ m \in Run
      BY <1>1, <2>3, <2>6
    <3>2. m = p
      <4> SUFFICES ASSUME m # p PROVE FALSE
        OBVIOUS
      <4>1. m \notin Active(master)
        BY <1>0, <1>1, <2>4, <3>1 DEF AloneMaster, Own
      <4>2. Foreign(m, p)
        BY <1>0, <1>1, <2>4, <3>1 DEF AloneMaster
      <4>3. CASE MasterLive
        BY <1>0, <2>4, <2>6, <4>2, <4>3, MasterSockFacts DEF MasterLive, Foreign, Assigned
      <4>4. CASE ~MasterLive
        <5>1. PICK q \in Run : master[q].pc = "assign" /\ source[d] = q
          BY <1>0, <4>4, MasterSockFacts
        <5> QED BY <2>6, <4>1, <5>1, ActiveFacts
      <4> QED BY <4>3, <4>4
    <3>3. p \in Active(master) /\ Queued(p) = fileLen[p]
      BY <1>0, <2>4 DEF BooksInv, Queued
    <3>4. p \notin Active(master)'
      BY <2>4, ActiveFacts
    <3>5. Taken(c)' = Taken(c)
      BY <1>2 DEF Taken
    <3>6. Stored(c)'
      BY <1>0, <1>1, <1>2, <2>2, <2>6, <3>1 DEF FlowOne, Stored
    <3>7. slave'[c].pc \in Receiving => InOrder(c)'
      BY <1>1, <1>2, <2>2, <3>1, <3>2, <3>3, <3>4, <3>5 DEF FlowOne, InOrder
    <3> QED BY <1>1, <1>2, <3>6, <3>7 DEF FlowOne
  <2> QED BY <2>5, <2>6
<1>7. CASE ~(MasterAccepts(p) \/ MasterSends(p) \/ MasterSendFails(p) \/ MasterExits(p))
  <2>1. UNCHANGED <<cli, srv, stream, source>>
    BY <1>7 DEF Master, MasterOpens, MasterAssigns, MasterFills, MasterMapFails,
         MasterSendsNothing, MasterStops, MasterAborts, MasterKilled, MasterAcceptFails,
         sockVars, histVars
  <2>2. m # 0 /\ m \in Active(master)' => m \in Active(master) /\ Queued(m)' = Queued(m)
    <3> SUFFICES ASSUME m # 0, m \in Active(master)'
                 PROVE  m \in Active(master) /\ Queued(m)' = Queued(m)
      OBVIOUS
    <3>1. m \in Active(master)
      <4>1. master[m].pc \notin {"start", "accept"}
        BY <1>0 DEF ConnOne
      <4>2. master[m].pc = "over" => master'[m].pc = "over"
        <5>1. master[p].pc # "over"
          BY <1>0, <1>7, MasterEffects, ActiveFacts DEF Master
        <5> QED BY <1>1, <1>2, <5>1
      <4> QED BY <1>1, <4>1, <4>2, ActiveFacts
    <3>2. Queued(m)' = Queued(m)
      BY <1>1, <1>7, QueuedFacts
    <3> QED BY <3>1, <3>2
  <2> QED BY <1>1, <1>2, <2>1, <2>2, FlowFrame
<1> QED BY <1>3, <1>4, <1>5, <1>6, <1>7

(* A slave that ends, but not normally, has what it had.                    *)
LEMMA FlowEnds ==
  ASSUME NEW c \in Run, FlowOne(c), fileLen' = fileLen, slave'[c].pc = "over",
         slave'[c].end # "ok", slave'[c].method = slave[c].method,
         file'[c] = file[c], file_size'[c] = file_size[c], source'[c] = source[c],
         srv'[c] = "none" => srv[c] = "none"
  PROVE  FlowOne(c)'
<1>1. slave'[c].pc \notin Receiving \cup {"start", "socket", "connect", "exit"}
  BY DEF Receiving, HasPage
<1>2. Stored(c)'
  BY <1>1 DEF FlowOne, Stored
<1> QED BY <1>1, <1>2 DEF FlowOne

(* What the step of an undisturbed slave starts from.                       *)
SlaveBefore(c) ==
  /\ TypeOK /\ TypeOK' /\ ConnOne(c) /\ CallOne(c) /\ CallOne(c)' /\ FlowOne(c)
  /\ c \in Active(slave) => SlaveOwn(c)
  /\ UNCHANGED <<fileLen, source>>
  /\ source[c] # 0 => source[c] \in Run
  /\ Active(master)' = Active(master) /\ \A q \in Run : Queued(q)' = Queued(q)

(* It starts from that in every step.                                       *)
LEMMA BeforeFacts ==
  ASSUME IInv, NEW c \in Run, Slave(c) \/ SlaveAborts(c), Undisturbed(c)'
  PROVE  SlaveBefore(c)
<1>1. [Next]_vars
  BY DEF Next
<1>2. /\ TypeOK /\ ConnOne(c) /\ CallOne(c) /\ FlowOne(c) /\ AloneSlave(c) /\ Alone("slaves", c)
      /\ source[c] # 0 => source[c] \in Run
  BY <1>1, ConnParts, SlaveParts, StillUndisturbed DEF IInv
<1>3. TypeOK' /\ CallOne(c)'
  BY <1>1, TypeNext, CallNext
<1>4. UNCHANGED <<master, fileLen, source>>
  BY <1>2, OthersKept DEF masterVars
<1>5. Active(master)' = Active(master) /\ \A q \in Run : Queued(q)' = Queued(q)
  BY <1>4 DEF Active, Queued
<1> QED BY <1>2, <1>3, <1>4, <1>5 DEF SlaveBefore, AloneSlave

(* An undisturbed slave before it has a connection:                         *)
LEMMA FlowConnects ==
  ASSUME NEW c \in Run, SlaveBefore(c),
         SlaveOpens(c) \/ SlaveMakesSocket(c) \/ SlaveConnects(c)
  PROVE  FlowOne(c)'
<1>0. /\ TypeOK /\ ConnOne(c) /\ CallOne(c) /\ FlowOne(c) /\ UNCHANGED <<fileLen, source>>
      /\ cli \in [Run -> CliState]
  BY Sets DEF SlaveBefore, TypeOK
<1>1. file'[c] = file[c] /\ file_size'[c] = file_size[c]
  BY DEF SlaveOpens, SlaveMakesSocket, SlaveConnects
<1>2. slave[c].pc \in {"start", "socket", "connect"}
  BY <1>0, SlaveEffects
<1>3. file[c] = << >> /\ file_size[c] = 0 /\ slave[c].end # "ok"
  BY <1>0, <1>2 DEF FlowOne, CallOne
<1>4. CASE SlaveOpens(c) \/ SlaveMakesSocket(c)
  <2>1. slave'[c].pc \in {"socket", "connect"} /\ slave'[c].end # "ok"
    BY <1>0, <1>3, <1>4, SlaveEffects
  <2>2. slave[c].pc \in {"start", "socket"}
    BY <1>0, <1>4, SlaveEffects
  <2>3. source[c] = 0
    BY <1>0, <2>2 DEF ConnOne
  <2>4. slave'[c].pc \notin Receiving \cup {"exit"}
    BY <2>1 DEF Receiving, HasPage
  <2>5. Stored(c)'
    BY <1>0, <1>1, <1>3, <2>1, <2>3, <2>4 DEF Stored
  <2> QED BY <1>1, <1>3, <2>4, <2>5 DEF FlowOne
<1>5. CASE SlaveConnects(c) /\ Connectable(sSock)
  <2>1. /\ slave'[c].pc = "call" /\ slave'[c].end # "ok" /\ slave[c].pc = "connect"
        /\ slave'[c].method = slave[c].method
    BY <1>0, <1>3, <1>5, SlaveEffects DEF Slave
  <2>2. sSock = c
    BY <2>1, ActiveFacts DEF SlaveBefore, SlaveOwn
  <2>3. cli'[c] = "open" /\ cli[c] = "made" /\ srv' = srv
    BY <1>0, <1>5, <2>2 DEF SlaveConnects, kconnect, Connectable
  <2>4. source[c] = 0 /\ srv[c] = "none"
    BY <1>0, <2>3 DEF ConnOne
  <2>5. slave'[c].pc \notin HasPage
    BY <2>1 DEF HasPage
  <2>6. InOrder(c)'
    BY <1>0, <1>1, <2>3, <2>4, <2>5 DEF InOrder
  <2>7. Len(file[c]) = 0
    BY <1>3
  <2>8. Stored(c)'
    BY <1>0, <1>1, <1>3, <2>1, <2>4, <2>7 DEF Stored
  <2> QED BY <1>1, <1>3, <2>6, <2>8 DEF FlowOne
<1>6. CASE SlaveConnects(c) /\ ~Connectable(sSock)
  <2>1. /\ slave'[c].pc = "over" /\ slave'[c].end # "ok"
        /\ slave'[c].method = slave[c].method
    BY <1>0, <1>3, <1>6, SlaveEffects DEF Slave
  <2>2. srv' = srv
    BY <1>6 DEF SlaveConnects, sockVars
  <2> QED BY <1>0, <1>1, <2>1, <2>2, FlowEnds
<1> QED BY <1>4, <1>5, <1>6

(* the calls of krecv(),                                                    *)
LEMMA FlowReceives ==
  ASSUME NEW c \in Run, SlaveBefore(c), SlaveReceives(c)
  PROVE  FlowOne(c)'
<1> DEFINE m == source[c]
           n == slave'[c].len
           rest == SubSeq(stream[c], n + 1, Len(stream[c]))
<1>0. /\ TypeOK /\ ConnOne(c) /\ CallOne(c) /\ FlowOne(c) /\ UNCHANGED <<fileLen, source>>
      /\ stream \in [Run -> Seq(Byte)] /\ sPage \in [Run -> [1 .. PageSize -> Byte]]
      /\ stream[c] \in Seq(Byte) /\ sPage[c] \in [1 .. PageSize -> Byte]
      /\ file_size[c] \in Int
  BY Sets DEF SlaveBefore, TypeOK
<1>1. /\ slave[c].pc = "recv" /\ slave'[c].pc \in {"store", "extend"}
      /\ slave'[c].method = slave[c].method /\ slave'[c].end # "ok"
      /\ n \in 1 .. PageSize /\ SlaveRecv(c, slave[c].sk, n)
  BY <1>0, SlaveEffects DEF Slave, CallOne
<1>2. slave[c].sk = c
  BY <1>1, ActiveFacts DEF SlaveBefore, SlaveOwn
<1>3. /\ UNCHANGED <<cli, srv>> /\ stream' = [stream EXCEPT ![c] = rest]
      /\ n <= Len(stream[c])
      /\ sPage' = [sPage EXCEPT ![c] = Overlay(SubSeq(stream[c], 1, n), sPage[c])]
  <2>1. krecv(c, n, PageSize)
        /\ sPage' = [sPage EXCEPT ![c] = Overlay(SubSeq(stream[c], 1, n), sPage[c])]
    BY <1>1, <1>2 DEF SlaveRecv
  <2> HIDE DEF n
  <2> QED BY <2>1 DEF krecv
<1>4. file'[c] = file[c] /\ file_size'[c] = file_size[c]
  BY DEF SlaveReceives
<1>5. n \in Nat /\ n >= 1 /\ Len(stream[c]) \in Nat /\ PageSize \in Nat
  BY <1>0, <1>1, LenProperties, Sets
<1> HIDE DEF n
<1>6. m # 0 /\ m \in Run
  <2>1. stream[c] # << >>
    BY <1>3, <1>5
  <2> QED BY <1>0, <2>1 DEF ConnOne, SlaveBefore
<1>7. /\ Len(rest) = Len(stream[c]) - n
      /\ \A i \in 1 .. Len(rest) : rest[i] = stream[c][n + i]
  BY <1>0, <1>3, <1>5, RestFacts
<1> HIDE DEF rest
<1>8. stream'[c] = rest
  BY <1>0, <1>3
<1>9. \A i \in 1 .. n : sPage'[c][i] = stream[c][i]
  <2>1. /\ SubSeq(stream[c], 1, n) \in Seq(Byte) /\ Len(SubSeq(stream[c], 1, n)) = n
        /\ \A i \in 1 .. n : SubSeq(stream[c], 1, n)[i] = stream[c][i]
    BY <1>0, <1>3, <1>5, TakenFacts
  <2>2. sPage'[c] = Overlay(SubSeq(stream[c], 1, n), sPage[c])
    BY <1>0, <1>3
  <2>3. \A i \in 1 .. PageSize : i <= n =>
          Overlay(SubSeq(stream[c], 1, n), sPage[c])[i] = SubSeq(stream[c], 1, n)[i]
    <3> DEFINE front == SubSeq(stream[c], 1, n)
    <3>1. front \in Seq(Byte) /\ Len(front) = n
      BY <2>1
    <3> HIDE DEF front
    <3>2. \A i \in 1 .. PageSize : i <= Len(front) => Overlay(front, sPage[c])[i] = front[i]
      BY <1>0, <3>1, OverlayFacts
    <3>3. \A i \in 1 .. PageSize : i <= n => Overlay(front, sPage[c])[i] = front[i]
      BY <3>1, <3>2
    <3> QED BY <3>3 DEF front
  <2>4. \A i \in 1 .. n : i \in 1 .. PageSize /\ i <= n
    BY <1>1, <1>5 DEF n
  <2> QED BY <2>1, <2>2, <2>3, <2>4
<1>10. /\ InOrder(c) /\ Stored(c)
       /\ slave[c].pc \notin HasPage /\ slave'[c].pc \in HasPage /\ slave'[c].pc # "map"
       /\ slave'[c].pc \in Receiving /\ slave[c].pc \in Receiving
  BY <1>0, <1>1 DEF FlowOne, Receiving, HasPage
<1>11. Taken(c) = file_size[c] /\ Taken(c)' = file_size[c] + n
  BY <1>0, <1>4, <1>10 DEF Taken, n
<1>12. \A i \in 1 .. Len(stream[c]) : stream[c][i] = <<m, file_size[c] + i>>
  BY <1>6, <1>10, <1>11 DEF InOrder
<1>13. \A i \in 1 .. n : sPage'[c][i] = <<m, file_size[c] + i>>
  <2>1. \A i \in 1 .. n : i \in 1 .. Len(stream[c])
    BY <1>3, <1>5
  <2> QED BY <1>9, <1>12, <2>1
<1>14. \A i \in 1 .. Len(rest) : rest[i] = <<m, file_size[c] + n + i>>
  <2> SUFFICES ASSUME NEW i \in 1 .. Len(rest)
               PROVE  rest[i] = <<m, file_size[c] + n + i>>
    OBVIOUS
  <2>1. n + i \in 1 .. Len(stream[c]) /\ i \in Int
    BY <1>5, <1>7
  <2>2. file_size[c] + (n + i) = file_size[c] + n + i
    BY <1>0, <1>5, <2>1
  <2>3. rest[i] = <<m, file_size[c] + (n + i)>>
    BY <1>7, <1>12, <2>1
  <2> QED BY <2>2, <2>3
<1>15. Taken(c)' + Len(rest) = Taken(c) + Len(stream[c])
  BY <1>0, <1>5, <1>7, <1>11
<1>16. Active(master)' = Active(master) /\ Queued(m)' = Queued(m)
  BY <1>6 DEF SlaveBefore
<1>17. InOrder(c)'
  BY <1>0, <1>3, <1>4, <1>6, <1>8, <1>10, <1>11, <1>13, <1>14, <1>15, <1>16 DEF InOrder, n
<1>18. slave'[c].pc # "exit" /\ slave[c].pc # "map"
  BY <1>1
<1>19. Stored(c)'
  BY <1>0, <1>1, <1>3, <1>4, <1>6, <1>10, <1>18 DEF Stored
<1>20. slave'[c].pc \notin {"start", "socket", "connect"}
  BY <1>1
<1> QED BY <1>17, <1>19, <1>20 DEF FlowOne

(* the end of the file and the errors of krecv(),                           *)
LEMMA FlowEnd ==
  ASSUME NEW c \in Run, SlaveBefore(c), SlaveAtEof(c) \/ SlaveRecvFails(c) \/ SlaveCalls(c)
  PROVE  FlowOne(c)'
<1> DEFINE m == source[c]
<1>0. /\ TypeOK /\ ConnOne(c) /\ CallOne(c) /\ FlowOne(c) /\ UNCHANGED <<fileLen, source>>
      /\ stream[c] \in Seq(Byte) /\ file_size[c] \in Int
      /\ srv \in [Run -> SrvState] /\ file_size \in [Run -> Int]
  BY Sets DEF SlaveBefore, TypeOK
<1>1. file'[c] = file[c] /\ stream' = stream /\ cli' = cli /\ sPage' = sPage
  BY DEF SlaveAtEof, SlaveRecvFails, SlaveCalls, sockVars, devVars, krecvFails
<1>2. /\ slave[c].pc \in Receiving /\ slave[c].pc \notin HasPage
      /\ slave'[c].method = slave[c].method
      /\ slave[c].end # "ok" /\ InOrder(c) /\ Stored(c)
  <2>1. slave[c].pc \in {"call", "recv"} /\ slave'[c].method = slave[c].method
    BY <1>0, SlaveEffects DEF Slave
  <2>2. slave[c].pc \in Receiving /\ slave[c].pc \notin HasPage
    BY <2>1 DEF Receiving, HasPage
  <2> QED BY <1>0, <2>1, <2>2 DEF FlowOne, CallOne
<1>3. CASE SlaveCalls(c)
  <2>1. slave'[c].pc = "recv" /\ slave[c].pc = "call" /\ slave'[c].end # "ok"
    BY <1>0, <1>2, <1>3, SlaveEffects
  <2>2. /\ slave'[c].pc \in Receiving /\ slave'[c].pc \notin HasPage
        /\ slave'[c].pc \notin {"start", "socket", "connect"}
    BY <2>1 DEF Receiving, HasPage
  <2>3. srv' = srv /\ file_size' = file_size
    BY <1>3 DEF SlaveCalls, sockVars
  <2>4. Taken(c)' = Taken(c)
    BY <1>2, <2>2, <2>3 DEF Taken
  <2>5. InOrder(c)'
    BY <1>0, <1>1, <1>2, <2>2, <2>3, <2>4 DEF InOrder, SlaveBefore
  <2>6. Stored(c)'
    BY <1>0, <1>1, <1>2, <2>1, <2>2, <2>3 DEF Stored
  <2> QED BY <2>2, <2>5, <2>6 DEF FlowOne
<1>4. ~SlaveCalls(c) => slave[c].sk = c
  BY <1>0, SlaveEffects, ActiveFacts DEF SlaveBefore, SlaveOwn
<1>5. CASE SlaveAtEof(c) /\ ~SlaveCalls(c)
  <2>1. slave'[c].pc = "exit" /\ slave[c].pc = "recv" /\ slave'[c].end # "ok"
    BY <1>0, <1>2, <1>5, SlaveEffects
  <2>2. srv[c] = "closed" /\ Len(stream[c]) = 0 /\ srv' = srv /\ file_size' = file_size
    BY <1>4, <1>5 DEF SlaveAtEof, AtEof, sockVars
  <2>3. Taken(c) = file_size[c]
    BY <1>0, <1>2 DEF Taken
  <2>4. m # 0 => file_size[c] = fileLen[m]
    BY <1>0, <1>2, <2>2, <2>3 DEF InOrder
  <2>5. m = 0 /\ slave[c].method = "fcntl" => file_size[c] < 0
    BY <1>2, <2>2 DEF InOrder
  <2>6. slave'[c].pc \notin Receiving \cup {"start", "socket", "connect"}
    BY <2>1 DEF Receiving, HasPage
  <2>7. Stored(c)'
    BY <1>0, <1>1, <1>2, <2>2, <2>4, <2>5, <2>6 DEF Stored
  <2> QED BY <2>6, <2>7 DEF FlowOne
<1>6. CASE SlaveRecvFails(c) /\ ~SlaveCalls(c)
  <2>1. /\ slave[c].pc = "recv" /\ slave'[c].pc = IF slave[c].method = "fcntl" THEN "call" ELSE "over"
        /\ slave'[c].end # "ok"
    BY <1>0, <1>2, <1>6, SlaveEffects
  <2>2. srv[c] = "reset" /\ srv'[c] = "closed"
    BY <1>0, <1>2, <1>4, <1>6 DEF SlaveRecvFails, krecvFails, InOrder
  <2>3. m = 0
    BY <1>0, <2>2 DEF ConnOne
  <2>4. CASE slave[c].method = "fcntl"
    <3>1. file_size'[c] = file_size[c] - 1
      BY <1>0, <1>6, <2>4 DEF SlaveRecvFails
    <3>2. file_size[c] <= 0 /\ file[c] = << >>
      BY <1>2, <2>3 DEF Stored
    <3>3. file_size'[c] < 0 /\ file_size'[c] <= 0
      BY <1>0, <3>1, <3>2
    <3>4. /\ slave'[c].pc \in Receiving /\ slave'[c].pc \notin HasPage
          /\ slave'[c].pc \notin {"start", "socket", "connect"}
      BY <2>1, <2>4 DEF Receiving, HasPage
    <3>5. InOrder(c)'
      BY <1>0, <1>1, <1>2, <2>3, <3>3, <3>4 DEF InOrder
    <3>6. slave'[c].method # "mmap"
      BY <1>2, <2>4
    <3>7. Stored(c)'
      BY <1>0, <1>1, <2>2, <2>3, <3>2, <3>3, <3>6 DEF Stored
    <3> QED BY <3>4, <3>5, <3>7 DEF FlowOne
  <2>5. CASE slave[c].method # "fcntl"
    <3>1. file_size' = file_size
      BY <1>6, <2>5 DEF SlaveRecvFails
    <3> QED BY <1>0, <1>1, <1>2, <2>1, <2>2, <2>5, <3>1, FlowEnds
  <2> QED BY <2>4, <2>5
<1> QED BY <1>3, <1>5, <1>6

(* write() of what krecv() has returned,                                    *)
LEMMA FlowStores ==
  ASSUME NEW c \in Run, SlaveBefore(c), SlaveStores(c)
  PROVE  FlowOne(c)'
<1> DEFINE m == source[c]
           n == slave[c].len
           fs == file_size[c]
           part1 == SubSeq(sPage[c], 1, n)
<1>0. /\ TypeOK /\ CallOne(c) /\ FlowOne(c) /\ UNCHANGED <<fileLen, source>>
      /\ file[c] \in Seq(Byte) /\ fs \in Int /\ n \in 0 .. PageSize
      /\ sPage[c] \in [1 .. PageSize -> Byte] /\ stream[c] \in Seq(Byte)
      /\ file_size \in [Run -> Int] /\ file \in [Run -> Seq(Byte)]
  BY RunTypes, Sets DEF SlaveBefore, TypeOK
<1>1. /\ slave[c].pc = "store" /\ slave'[c].pc = "call" /\ slave'[c].method = slave[c].method
      /\ slave'[c].end # "ok" /\ slave[c].method = "fcntl"
  BY <1>0, SlaveEffects DEF Slave, CallOne
<1>2. /\ slave[c].pc \in Receiving /\ slave[c].pc \in HasPage
      /\ slave'[c].pc \in Receiving /\ slave'[c].pc \notin HasPage
      /\ slave'[c].pc \notin {"start", "socket", "connect", "exit"}
  BY <1>1 DEF Receiving, HasPage
<1>3. InOrder(c) /\ Stored(c) /\ m # 0 /\ m \in Run
  BY <1>0, <1>2 DEF FlowOne, InOrder, SlaveBefore
<1>4. /\ file'[c] = file[c] \o part1 /\ file_size'[c] = fs + n
      /\ UNCHANGED <<cli, srv, stream>>
  BY <1>0 DEF SlaveStores, sockVars
<1>5. /\ part1 \in Seq(Byte) /\ Len(part1) = n
      /\ \A i \in 1 .. n : part1[i] = <<m, fs + i>>
  <2>1. /\ part1 \in Seq(Byte) /\ Len(part1) = n
        /\ \A i \in 1 .. n : part1[i] = sPage[c][i]
    BY <1>0, PagePart
  <2>2. \A i \in 1 .. n : sPage[c][i] = <<m, fs + i>>
    BY <1>2, <1>3 DEF InOrder
  <2> HIDE DEF part1, n, fs
  <2> QED BY <2>1, <2>2
<1> HIDE DEF part1
<1>6. /\ fs \in 0 .. Len(file[c]) /\ Len(file[c]) = fs /\ fs <= fileLen[m]
      /\ \A i \in 1 .. fs : file[c][i] = <<m, i>>
  BY <1>1, <1>3 DEF Stored
<1>7. n \in Nat /\ fs \in Nat /\ Len(stream[c]) \in Nat /\ fileLen[m] \in Nat
  BY <1>0, <1>3, <1>6, Sets, LenProperties, RunTypes
<1> HIDE DEF n, fs
<1>8. /\ Len(file'[c]) = fs + n
      /\ \A i \in 1 .. fs + n : file'[c][i] = <<m, i>>
  <2>1. /\ Len(file[c] \o part1) = Len(file[c]) + Len(part1)
        /\ \A i \in 1 .. Len(file[c]) + Len(part1) : (file[c] \o part1)[i] =
              IF i <= Len(file[c]) THEN file[c][i] ELSE part1[i - Len(file[c])]
    BY <1>0, <1>5, ConcatProperties
  <2>2. /\ Len(file'[c]) = fs + n
        /\ \A i \in 1 .. fs + n : file'[c][i] = IF i <= fs THEN file[c][i] ELSE part1[i - fs]
    BY <1>4, <1>5, <1>6, <2>1
  <2>3. \A i \in 1 .. fs + n : file'[c][i] = <<m, i>>
    <3> SUFFICES ASSUME NEW i \in 1 .. fs + n PROVE file'[c][i] = <<m, i>>
      OBVIOUS
    <3>1. CASE i <= fs
      <4>1. i \in 1 .. fs
        BY <1>7, <3>1
      <4> QED BY <1>6, <2>2, <3>1, <4>1
    <3>2. CASE ~ i <= fs
      <4>1. i - fs \in 1 .. n /\ fs + (i - fs) = i
        BY <1>7, <3>2
      <4>2. part1[i - fs] = <<m, fs + (i - fs)>>
        BY <1>5, <4>1
      <4> QED BY <2>2, <3>2, <4>1, <4>2
    <3> QED BY <3>1, <3>2
  <2> QED BY <2>2, <2>3
<1>9. Taken(c) = fs + n /\ Taken(c)' = fs + n
  BY <1>2, <1>4, <1>7 DEF Taken, fs, n
<1>10. fs + n <= fileLen[m]
  <2>1. Taken(c) + Len(stream[c]) <= fileLen[m]
    BY <1>3 DEF InOrder
  <2>2. fs + n + Len(stream[c]) <= fileLen[m]
    BY <1>9, <2>1
  <2>3. \A a, b, d, e \in Nat : a + b + d <= e => a + b <= e
    OBVIOUS
  <2> QED BY <1>7, <2>2, <2>3
<1>11. InOrder(c)'
  <2>1. Queued(m)' = Queued(m) /\ Active(master)' = Active(master)
    BY <1>3 DEF SlaveBefore
  <2> QED BY <1>0, <1>2, <1>3, <1>4, <1>9, <2>1 DEF InOrder
<1>12. file_size'[c] \in 0 .. Len(file'[c])
  BY <1>4, <1>7, <1>8
<1>13. Stored(c)'
  BY <1>0, <1>1, <1>2, <1>3, <1>4, <1>8, <1>10, <1>12 DEF Stored
<1> QED BY <1>2, <1>11, <1>13 DEF FlowOne

(* and mmap() of the part of the file that lseek() and write() have added.  *)
LEMMA FlowMaps ==
  ASSUME NEW c \in Run, SlaveBefore(c), SlaveExtends(c) \/ SlaveMaps(c)
  PROVE  FlowOne(c)'
<1> DEFINE m == source[c]
           n == slave[c].len
           fs == file_size[c]
<1>0. /\ TypeOK /\ CallOne(c) /\ FlowOne(c) /\ UNCHANGED <<fileLen, source>>
      /\ file[c] \in Seq(Byte) /\ fs \in Int /\ n \in 0 .. PageSize
      /\ sPage[c] \in [1 .. PageSize -> Byte] /\ stream[c] \in Seq(Byte)
      /\ file_size \in [Run -> Int] /\ file \in [Run -> Seq(Byte)]
  BY RunTypes, Sets DEF SlaveBefore, TypeOK
<1>1. /\ slave[c].pc \in {"extend", "map"} /\ slave'[c].method = slave[c].method
      /\ slave'[c].end # "ok" /\ slave[c].method = "mmap"
  BY <1>0, SlaveEffects DEF Slave, CallOne
<1>2. slave[c].pc \in Receiving /\ slave[c].pc \in HasPage
  BY <1>1 DEF Receiving, HasPage
<1>3. InOrder(c) /\ Stored(c) /\ m # 0 /\ m \in Run
  BY <1>0, <1>2 DEF FlowOne, InOrder, SlaveBefore
<1>4. UNCHANGED <<cli, srv, stream, sPage>>
  BY DEF SlaveExtends, SlaveMaps, sockVars, devVars
<1>5. \A i \in 1 .. n : sPage[c][i] = <<m, fs + i>>
  BY <1>2, <1>3 DEF InOrder
<1>6. /\ fs \in 0 .. Len(file[c]) /\ fs <= fileLen[m]
      /\ \A i \in 1 .. fs : file[c][i] = <<m, i>>
      /\ Len(file[c]) = fs + IF slave[c].pc = "map" THEN n ELSE 0
  BY <1>1, <1>2, <1>3 DEF Stored
<1>7. n \in Nat /\ fs \in Nat /\ Len(stream[c]) \in Nat /\ fileLen[m] \in Nat /\ Len(file[c]) \in Nat
  BY <1>0, <1>3, <1>6, Sets, LenProperties, RunTypes
<1>8. Queued(m)' = Queued(m) /\ Active(master)' = Active(master)
  BY <1>3 DEF SlaveBefore
<1>9. CASE SlaveExtends(c)
  <2>1. slave[c].pc = "extend" /\ slave'[c].pc = "map" /\ slave'[c].len = n
    BY <1>0, <1>9, SlaveEffects
  <2>2. /\ slave'[c].pc \in Receiving /\ slave'[c].pc \in HasPage
        /\ slave'[c].pc \notin {"start", "socket", "connect", "exit"}
    BY <2>1 DEF Receiving, HasPage
  <2> DEFINE zeros == [i \in 1 .. n |-> Zero]
  <2>3. file'[c] = file[c] \o zeros /\ file_size' = file_size
    BY <1>0, <1>9 DEF SlaveExtends
  <2>4. zeros \in Seq(Byte) /\ Len(zeros) = n
    <3>1. Zero \in Byte
      BY RunAssumption DEF Zero, Byte
    <3> HIDE DEF n
    <3> QED BY <1>7, <3>1
  <2> HIDE DEF zeros
  <2>5. /\ Len(file'[c]) = Len(file[c]) + n
        /\ \A i \in 1 .. fs : file'[c][i] = <<m, i>>
    <3>1. /\ Len(file[c] \o zeros) = Len(file[c]) + Len(zeros)
          /\ \A i \in 1 .. Len(file[c]) + Len(zeros) : (file[c] \o zeros)[i] =
                IF i <= Len(file[c]) THEN file[c][i] ELSE zeros[i - Len(file[c])]
      BY <1>0, <2>4, ConcatProperties
    <3>2. \A i \in 1 .. fs : i \in 1 .. Len(file[c]) + Len(zeros) /\ i <= Len(file[c])
      <4> HIDE DEF n, fs
      <4> QED BY <1>6, <1>7, <2>4
    <3>3. \A i \in 1 .. fs : (file[c] \o zeros)[i] = file[c][i]
      BY <3>1, <3>2
    <3> QED BY <1>6, <2>3, <2>4, <3>1, <3>3
  <2>6. Len(file[c]) = fs
    BY <1>6, <1>7, <2>1
  <2>7. fs \in 0 .. Len(file'[c]) /\ Len(file'[c]) = fs + n
    <3> HIDE DEF n, fs
    <3> QED BY <1>7, <2>5, <2>6
  <2>8. Taken(c)' = Taken(c)
    BY <1>2, <2>1, <2>2, <2>3 DEF Taken
  <2>9. InOrder(c)'
    BY <1>0, <1>2, <1>3, <1>4, <1>8, <2>1, <2>2, <2>3, <2>8 DEF InOrder
  <2>10. Stored(c)'
    BY <1>0, <1>1, <1>3, <1>4, <1>6, <2>1, <2>2, <2>3, <2>5, <2>7 DEF Stored
  <2> QED BY <2>2, <2>9, <2>10 DEF FlowOne
<1>10. CASE SlaveMaps(c) /\ fs % PageSize # 0
  <2>1. slave'[c].pc = "exit"
    BY <1>0, <1>10, SlaveEffects
  <2>2. slave'[c].pc \notin Receiving /\ slave'[c].pc \notin {"start", "socket", "connect"}
    BY <2>1 DEF Receiving, HasPage
  <2>3. UNCHANGED <<file, file_size>>
    BY <1>10 DEF SlaveMaps
  <2>4. Stored(c)'
    BY <1>0, <1>1, <1>3, <1>4, <2>1, <2>2, <2>3 DEF Stored
  <2> QED BY <2>2, <2>4 DEF FlowOne
<1>11. CASE SlaveMaps(c) /\ fs % PageSize = 0
  <2>1. slave'[c].pc = "call" /\ slave[c].pc = "map"
    BY <1>0, <1>11, SlaveEffects
  <2>2. /\ slave'[c].pc \in Receiving /\ slave'[c].pc \notin HasPage
        /\ slave'[c].pc \notin {"start", "socket", "connect", "exit"}
    BY <2>1 DEF Receiving, HasPage
  <2>3. /\ file'[c] = [i \in DOMAIN file[c] |->
                         IF i \in fs + 1 .. fs + n THEN sPage[c][i - fs] ELSE file[c][i]]
        /\ file_size'[c] = fs + n
    BY <1>0, <1>11 DEF SlaveMaps
  <2>4. file'[c] \in Seq(Byte) /\ DOMAIN file[c] = 1 .. fs + n /\ Len(file[c]) = fs + n
    <3>1. TypeOK'
      BY DEF SlaveBefore
    <3>2. file'[c] \in Seq(Byte)
      BY <3>1 DEF TypeOK
    <3>3. Len(file[c]) = fs + n /\ DOMAIN file[c] = 1 .. Len(file[c])
      BY <1>0, <1>6, <2>1, LenProperties
    <3> QED BY <3>2, <3>3
  <2> HIDE DEF n, fs
  <2>5. Len(file'[c]) = fs + n
    <3>1. DOMAIN file'[c] = 1 .. fs + n
      BY <2>3, <2>4
    <3>2. Len(file'[c]) \in Nat /\ DOMAIN file'[c] = 1 .. Len(file'[c])
      BY <2>4, LenProperties
    <3>3. fs + n \in Nat
      BY <1>7
    <3>4. Len(file'[c]) \in DOMAIN file'[c] \/ Len(file'[c]) = 0
      BY <3>2
    <3>5. fs + n \in DOMAIN file'[c] \/ fs + n = 0
      BY <3>1, <3>3
    <3> QED BY <3>1, <3>2, <3>3, <3>4, <3>5
  <2>6. \A i \in 1 .. fs + n : file'[c][i] = <<m, i>>
    <3> SUFFICES ASSUME NEW i \in 1 .. fs + n PROVE file'[c][i] = <<m, i>>
      OBVIOUS
    <3>1. CASE i <= fs
      <4>1. i \in 1 .. fs /\ i \notin fs + 1 .. fs + n
        BY <1>7, <3>1
      <4> QED BY <1>6, <2>3, <2>4, <4>1
    <3>2. CASE ~ i <= fs
      <4>1. i - fs \in 1 .. n /\ fs + (i - fs) = i /\ i \in fs + 1 .. fs + n
        BY <1>7, <3>2
      <4>2. sPage[c][i - fs] = <<m, fs + (i - fs)>>
        BY <1>5, <4>1
      <4> QED BY <2>3, <2>4, <4>1, <4>2
    <3> QED BY <3>1, <3>2
  <2>7. Taken(c) = fs + n /\ Taken(c)' = fs + n
    BY <1>2, <1>7, <2>2, <2>3 DEF Taken, fs, n
  <2>8. fs + n <= fileLen[m] /\ fs + n \in 0 .. Len(file'[c])
    <3>1. fs + n + Len(stream[c]) <= fileLen[m]
      BY <1>3, <2>7 DEF InOrder
    <3>2. \A a, b, d, e \in Nat : a + b + d <= e => a + b <= e
      OBVIOUS
    <3>3. fs + n <= fileLen[m]
      BY <1>7, <3>1, <3>2
    <3>4. fs + n \in 0 .. fs + n
      BY <1>7
    <3> QED BY <2>5, <3>3, <3>4
  <2>9. InOrder(c)'
    BY <1>0, <1>2, <1>3, <1>4, <1>8, <2>2, <2>7 DEF InOrder
  <2>10. slave'[c].pc # "map" /\ Len(file'[c]) = fs + n + 0
    BY <1>7, <2>1, <2>5
  <2>11. Stored(c)'
    BY <1>0, <1>1, <1>3, <1>4, <2>1, <2>2, <2>3, <2>5, <2>6, <2>8, <2>10 DEF Stored
  <2> QED BY <2>2, <2>9, <2>11 DEF FlowOne
<1> QED BY <1>9, <1>10, <1>11

(* A slave's step keeps the order of an undisturbed connection.             *)
LEMMA FlowSlave ==
  ASSUME IInv, NEW p \in Run, Slave(p) \/ SlaveAborts(p), NEW c \in Run, Undisturbed(c)'
  PROVE  FlowOne(c)'
<1>0. /\ TypeOK /\ [Next]_vars /\ SlaveInv /\ FlowOne(c) /\ AloneSlave(c) /\ Alone("slaves", c)'
      /\ Alone("slaves", c)
      /\ srv \in [Run -> SrvState] /\ cli \in [Run -> CliState] /\ stream \in [Run -> Seq(Byte)]
  <2>1. [Next]_vars
    BY DEF Next
  <2> QED BY <2>1, SlaveParts, StillUndisturbed, Sets DEF IInv, TypeOK
<1>1. UNCHANGED <<master, fileLen, source>>
  BY <1>0, OthersKept DEF masterVars
<1>2. CASE p # c
  <2>1. c \notin Active(slave)
    <3>1. CASE SlaveOpens(p)
      BY <1>0, <3>1, StillAlone
    <3>2. CASE ~SlaveOpens(p)
      <4>1. p \in Active(slave)
        BY <1>0, <3>2, SlaveEffects, ActiveFacts DEF Slave
      <4> QED BY <1>0, <1>2, <4>1 DEF AloneSlave, SlaveOwn
    <3> QED BY <3>1, <3>2
  <2>2. slave[c].pc \notin Receiving
    BY <2>1, ActiveFacts DEF Receiving, HasPage
  <2>3. /\ slave'[c] = slave[c] /\ sPage'[c] = sPage[c]
        /\ file'[c] = file[c] /\ file_size'[c] = file_size[c]
    BY <1>0, <1>2, OthersKept
  <2>4. srv'[c] = "none" => srv[c] = "none"
    <3>1. CASE SlaveRecvFails(p)
      <4> DEFINE k == slave[p].sk
      <4>1. srv' = [srv EXCEPT ![k] = IF srv[k] = "reset" THEN "closed" ELSE srv[k]]
        BY <3>1 DEF SlaveRecvFails, krecvFails
      <4> QED BY <1>0, <4>1
    <3>2. CASE ~SlaveRecvFails(p)
      <4>1. srv' = srv
        BY <3>2 DEF Slave, SlaveOpens, SlaveMakesSocket, SlaveConnects, SlaveCalls, SlaveReceives,
              SlaveAtEof, SlaveStores, SlaveExtends, SlaveMaps, SlaveExits, SlaveStops,
              SlaveAborts, SlaveKilled, SlaveSocketFails,
              SlaveCreateSock, SlaveRecv, SlaveExit, ksocket, kconnect, krecv, kcloseCli, sockVars
      <4> QED BY <4>1
    <3> QED BY <3>1, <3>2
  <2> QED BY <1>0, <1>1, <2>2, <2>3, <2>4, FlowFrame
<1>3. CASE p = c
  <2>1. SlaveBefore(c)
    BY <1>3, BeforeFacts
  <2>2. CASE SlaveExits(c)
    <3>1. /\ slave[c].pc = "exit" /\ slave'[c].pc = "over"
          /\ slave'[c].method = slave[c].method
      BY <1>0, <2>2, SlaveEffects DEF Slave
    <3>2. UNCHANGED <<srv, file, file_size>>
      BY <2>2 DEF SlaveExits, SlaveExit, kcloseCli
    <3>3. /\ slave[c].pc \notin Receiving
          /\ slave'[c].pc \notin Receiving \cup {"start", "socket", "connect"}
      BY <3>1 DEF Receiving, HasPage
    <3>4. Stored(c)'
      BY <1>0, <1>1, <3>1, <3>2, <3>3 DEF FlowOne, Stored
    <3> QED BY <3>3, <3>4 DEF FlowOne
  <2>3. CASE SlaveStops(c) \/ SlaveAborts(c)
    <3>1. /\ slave'[c].pc = "over" /\ slave'[c].end # "ok"
          /\ slave'[c].method = slave[c].method
      BY <1>0, <2>3, SlaveEffects DEF Slave
    <3>2. UNCHANGED <<srv, file, file_size>>
      BY <2>3 DEF SlaveStops, SlaveAborts, SlaveKilled, SlaveSocketFails, sockVars
    <3> QED BY <1>0, <1>1, <3>1, <3>2, FlowEnds
  <2> QED BY <1>3, <2>1, <2>2, <2>3, FlowConnects, FlowReceives, FlowEnd, FlowStores, FlowMaps
          DEF Slave
<1> QED BY <1>2, <1>3

(* The order is kept by every step.                                         *)
LEMMA FlowNext == IInv /\ [Next]_vars => FlowInv'
<1> SUFFICES ASSUME IInv, [Next]_vars, NEW c \in Run, Undisturbed(c)'
             PROVE  FlowOne(c)'
  BY DEF FlowInv, FlowOne
<1>1. FlowOne(c)
  BY StillUndisturbed
<1>2. CASE UNCHANGED vars
  BY <1>1, <1>2 DEF FlowOne, InOrder, Stored, Taken, Queued, Active, vars, sockVars, devVars
<1>3. CASE Reload
  <2>1. /\ UNCHANGED <<sPage, master, slave, file, file_size, fileLen, source>>
        /\ Active(master) = {} /\ srv \in [Run -> SrvState] /\ backlog \in Seq(Run)
    BY <1>3, OthersKept, Sets DEF IInv, TypeOK, Reload, slaveVars, histVars, master_exit,
         master_init,
         devVars
  <2>2. /\ UNCHANGED <<cli, stream>>
        /\ srv'[c] \in {srv[c], "reset"}
    <3>1. CASE listening
      BY <1>3, <3>1, Sets DEF Reload, master_exit, kcloseListener
    <3>2. CASE ~listening
      <4>1. UNCHANGED <<cli, stream, srv>>
        BY <1>3, <3>2 DEF Reload, master_init, klisten
      <4> QED BY <4>1
    <3> QED BY <3>1, <3>2
  <2> QED BY <1>1, <2>1, <2>2, FlowFrame DEF Active
<1>4. CASE \E p \in Run : Master(p) \/ MasterAborts(p)
  BY <1>4, FlowMaster
<1>5. CASE \E p \in Run : Slave(p) \/ SlaveAborts(p)
  BY <1>5, FlowSlave
<1> QED BY <1>2, <1>3, <1>4, <1>5, Steps

-----------------------------------------------------------------------------
(* BytesInv.                                                                *)

(* A place is the i-th of a file, a page or a stream that is that long.     *)
LEMMA PlaceFacts ==
  /\ \A p \in Places : \E kind \in Kind, r \in Run : \E i \in 1 .. Width(kind, r) : p = <<kind, r, i>>
  /\ \A p \in Places' : \E kind \in Kind, r \in Run : \E i \in 1 .. Width(kind, r)' : p = <<kind, r, i>>
  /\ \A kind \in Kind, r \in Run : \A i \in 1 .. Width(kind, r) : <<kind, r, i>> \in Places
<1>1. ASSUME NEW p \in Places
      PROVE  \E kind \in Kind, r \in Run : \E i \in 1 .. Width(kind, r) : p = <<kind, r, i>>
  <2>1. PICK kind \in Kind, r \in Run : p \in {<<kind, r, i>> : i \in 1 .. Width(kind, r)}
    BY DEF Places
  <2> QED BY <2>1
<1>2. ASSUME NEW p \in Places'
      PROVE  \E kind \in Kind, r \in Run : \E i \in 1 .. Width(kind, r)' : p = <<kind, r, i>>
  <2>1. PICK kind \in Kind, r \in Run : p \in {<<kind, r, i>> : i \in 1 .. Width(kind, r)'}
    BY DEF Places
  <2> QED BY <2>1
<1>3. ASSUME NEW kind \in Kind, NEW r \in Run, NEW i \in 1 .. Width(kind, r)
      PROVE  <<kind, r, i>> \in Places
  <2> DEFINE S == {<<kind, r, k>> : k \in 1 .. Width(kind, r)}
             T == {{<<l, q, k>> : k \in 1 .. Width(l, q)} : l \in Kind, q \in Run}
  <2>1. <<kind, r, i>> \in S /\ S \in T
    OBVIOUS
  <2>2. Places = UNION T
    BY DEF Places
  <2> HIDE DEF S, T
  <2> QED BY <2>1, <2>2
<1> QED BY <1>1, <1>2, <1>3

(* The three kinds of places.                                               *)
LEMMA WidthFacts ==
  ASSUME NEW r \in Run
  PROVE  /\ Width("file", r) = Len(file[r]) /\ Width("file", r)' = Len(file'[r])
         /\ Width("stream", r) = Len(stream[r]) /\ Width("stream", r)' = Len(stream'[r])
         /\ Width("page", r) = IF slave[r].pc \in HasPage THEN slave[r].len ELSE 0
         /\ Width("page", r)' = IF slave'[r].pc \in HasPage THEN slave'[r].len ELSE 0
         /\ \A i : /\ Held(<<"file", r, i>>) = file[r][i]
                   /\ Held(<<"page", r, i>>) = sPage[r][i]
                   /\ Held(<<"stream", r, i>>) = stream[r][i]
                   /\ Held(<<"file", r, i>>)' = file'[r][i]
                   /\ Held(<<"page", r, i>>)' = sPage'[r][i]
                   /\ Held(<<"stream", r, i>>)' = stream'[r][i]
BY DEF Width, Held

(* What is in a place is a byte.                                            *)
LEMMA HeldFacts ==
  ASSUME TypeOK, NEW p \in Places
  PROVE  Held(p) \in Byte
<1>1. PICK kind \in Kind, r \in Run : \E i \in 1 .. Width(kind, r) : p = <<kind, r, i>>
  BY PlaceFacts
<1>2. PICK i \in 1 .. Width(kind, r) : p = <<kind, r, i>>
  BY <1>1
<1>3. /\ file[r] \in Seq(Byte) /\ stream[r] \in Seq(Byte)
      /\ sPage[r] \in [1 .. PageSize -> Byte] /\ slave[r].len \in 0 .. PageSize
  BY RunTypes
<1>4. CASE kind = "file"
  <2>1. Held(p) = file[r][i] /\ i \in 1 .. Len(file[r])
    BY <1>2, <1>4, WidthFacts
  <2> QED BY <1>3, <2>1, ElementOfSeq
<1>5. CASE kind = "stream"
  <2>1. Held(p) = stream[r][i] /\ i \in 1 .. Len(stream[r])
    BY <1>2, <1>5, WidthFacts
  <2> QED BY <1>3, <2>1, ElementOfSeq
<1>6. CASE kind = "page"
  <2>1. Held(p) = sPage[r][i] /\ i \in 1 .. IF slave[r].pc \in HasPage THEN slave[r].len ELSE 0
    BY <1>2, <1>6, WidthFacts
  <2>2. i \in 1 .. PageSize
    BY <1>3, <2>1, Sets
  <2> QED BY <1>3, <2>1, <2>2
<1> QED BY <1>4, <1>5, <1>6 DEF Kind

(* No step takes back what a master has queued.                             *)
LEMMA QueuedGrows ==
  ASSUME IInv, [Next]_vars, NEW q \in Run
  PROVE  Queued(q) \in Int /\ Queued(q)' \in Int /\ Queued(q) <= Queued(q)'
<1>0. TypeOK /\ BooksInv
  BY DEF IInv
<1>1. Queued(q) \in Int
  BY <1>0, RunTypes, Sets DEF Queued
<1>2. CASE UNCHANGED master
  <2>1. Queued(q)' = Queued(q)
    BY <1>2 DEF Queued
  <2> QED BY <1>1, <2>1
<1>3. ASSUME NEW p \in Run, Master(p) \/ MasterAborts(p)
      PROVE  Queued(q)' \in Int /\ Queued(q) <= Queued(q)'
  <2>1. CASE q # p
    <3>1. Queued(q)' = Queued(q)
      BY <1>3, <2>1, QueuedFacts
    <3> QED BY <1>1, <3>1
  <2>2. CASE q = p
    <3>1. Queued(p)' \in Int /\ (Queued(p) <= Queued(p)' \/ p \notin Active(master)')
      BY <1>3, QueuedFacts
    <3>2. CASE p \notin Active(master)'
      <4>1. master'[p].pc \in {"start", "over"}
        BY <3>2, ActiveFacts
      <4>2. master'[p].offset = master[p].offset
        <5>1. ~MasterFills(p)
          BY <1>0, <4>1, MasterEffects
        <5> QED BY <1>0, <1>3, <5>1, MasterEffects DEF Master
      <4>3. Queued(p)' = master[p].offset
        BY <4>1, <4>2 DEF Queued
      <4>4. /\ master[p].offset \in Int /\ master[p].size \in Int /\ master[p].sent \in Int
        BY <1>0, RunTypes, Sets
      <4>5. master[p].pc = "send" => master[p].sent <= master[p].size
        BY <1>0 DEF BooksInv
      <4>6. Queued(p) <= master[p].offset
        BY <4>4, <4>5 DEF Queued
      <4> QED BY <2>2, <3>1, <4>3, <4>6
    <3> QED BY <2>2, <3>1, <3>2
  <2> QED BY <2>1, <2>2
<1>4. UNCHANGED vars \/ Reload => UNCHANGED master
  BY DEF vars, Reload
<1>5. \A p \in Run : Slave(p) \/ SlaveAborts(p) => UNCHANGED master
  BY <1>0, OthersKept DEF masterVars
<1> QED BY <1>1, <1>2, <1>3, <1>4, <1>5, Steps

(* If every byte was in a place of its own before the step, it still is.    *)
LEMMA BytesMoved ==
  ASSUME IInv, [Next]_vars, NEW from,
         \A p \in Places' : Held(p)' # Zero => from[p] \in Places /\ Held(from[p]) = Held(p)',
         \A p, q \in Places' :
           Held(p)' # Zero /\ Held(q)' # Zero /\ from[p] = from[q] => p = q
  PROVE  BytesInv'
<1>0. TypeOK /\ BytesInv
  BY DEF IInv
<1>1. ASSUME NEW p \in Places', Held(p)' # Zero
      PROVE  (Held(p)[1] \in Run /\ Held(p)[2] <= Queued(Held(p)[1]))'
  <2>1. PICK b : b = Held(p)'
    OBVIOUS
  <2>2. from[p] \in Places /\ Held(from[p]) = b
    BY <1>1, <2>1
  <2>3. b \in Byte /\ b[1] \in Run /\ b[2] <= Queued(b[1])
    BY <1>0, <1>1, <2>1, <2>2, HeldFacts DEF BytesInv
  <2>4. b[2] \in Nat
    BY <2>3 DEF Byte
  <2>5. PICK q \in Run : q = b[1]
    BY <2>3
  <2>6. Queued(q) \in Int /\ Queued(q)' \in Int /\ Queued(q) <= Queued(q)'
    BY QueuedGrows
  <2>7. b[1] \in Run /\ b[2] <= Queued(b[1])'
    BY <2>3, <2>4, <2>5, <2>6
  <2>8. Queued(Held(p)[1])' = Queued(b[1])'
    BY <2>1 DEF Queued
  <2> QED BY <2>1, <2>7, <2>8
<1>2. ASSUME NEW p \in Places', NEW q \in Places', Held(p)' = Held(q)', Held(p)' # Zero
      PROVE  p = q
  <2>1. from[p] = from[q]
    BY <1>0, <1>2 DEF BytesInv
  <2> QED BY <1>2, <2>1
<1> QED BY <1>1, <1>2 DEF BytesInv

(* Steps that leave bytes where they are, or drop them.                     *)
LEMMA BytesFrame ==
  ASSUME IInv, [Next]_vars,
         \A r \in Run :
           /\ stream'[r] \in {stream[r], << >>}
           /\ \A i \in 1 .. Len(file'[r]) :
                file'[r][i] # Zero => i \in 1 .. Len(file[r]) /\ file[r][i] = file'[r][i]
           /\ slave'[r].pc \in HasPage =>
                /\ slave[r].pc \in HasPage /\ slave'[r].len = slave[r].len
                /\ sPage'[r] = sPage[r]
  PROVE  BytesInv'
<1>1. ASSUME NEW p \in Places', Held(p)' # Zero
      PROVE  p \in Places /\ Held(p) = Held(p)'
  <2>1. PICK kind \in Kind, r \in Run : \E i \in 1 .. Width(kind, r)' : p = <<kind, r, i>>
    BY PlaceFacts
  <2>2. PICK i \in 1 .. Width(kind, r)' : p = <<kind, r, i>>
    BY <2>1
  <2>3. i \in 1 .. Width(kind, r) /\ Held(p) = Held(p)'
    <3>1. CASE kind = "file"
      <4>1. i \in 1 .. Len(file'[r]) /\ Held(p)' = file'[r][i] /\ Held(p) = file[r][i]
        BY <2>2, <3>1 DEF Width, Held
      <4>2. i \in 1 .. Len(file[r]) /\ file[r][i] = file'[r][i]
        BY <1>1, <4>1
      <4> QED BY <3>1, <4>1, <4>2 DEF Width, Held
    <3>2. CASE kind = "stream"
      <4>1. i \in 1 .. Len(stream'[r]) /\ Held(p)' = stream'[r][i] /\ Held(p) = stream[r][i]
        BY <2>2, <3>2 DEF Width, Held
      <4>2. stream'[r] = stream[r]
        <5>1. CASE stream'[r] = << >>
          BY <4>1, <5>1
        <5> QED BY <5>1
      <4> QED BY <3>2, <4>1, <4>2 DEF Width, Held
    <3>3. CASE kind = "page"
      <4>1. /\ i \in 1 .. (IF slave'[r].pc \in HasPage THEN slave'[r].len ELSE 0)
            /\ Held(p)' = sPage'[r][i] /\ Held(p) = sPage[r][i]
        BY <2>2, <3>3 DEF Width, Held
      <4>2. slave'[r].pc \in HasPage
        BY <4>1
      <4>3. /\ slave[r].pc \in HasPage /\ slave'[r].len = slave[r].len
            /\ sPage'[r] = sPage[r]
        BY <4>2
      <4> QED BY <3>3, <4>1, <4>2, <4>3 DEF Width, Held
    <3> QED BY <3>1, <3>2, <3>3 DEF Kind
  <2> QED BY <2>2, <2>3, PlaceFacts
<1> DEFINE from == [p \in Places' |-> p]
<1>2. \A p \in Places' : from[p] = p
  OBVIOUS
<1> HIDE DEF from
<1>3. /\ \A p \in Places' : Held(p)' # Zero => from[p] \in Places /\ Held(from[p]) = Held(p)'
      /\ \A p, q \in Places' : Held(p)' # Zero /\ Held(q)' # Zero /\ from[p] = from[q] => p = q
  BY <1>1, <1>2
<1> QED BY <1>3, BytesMoved

(* The byte that a master queues is the next of its file.                   *)
LEMMA SentByte ==
  ASSUME IInv, NEW p \in Run, MasterSends(p)
  PROVE  LET k == master[p].sk
         IN  /\ k \in Run /\ Queued(p) \in Nat
             /\ stream' = [stream EXCEPT ![k] = Append(stream[k], <<p, Queued(p) + 1>>)]
             /\ <<p, Queued(p) + 1>> \in Byte /\ Queued(p)' = Queued(p) + 1
<1> DEFINE k == master[p].sk
           off == master[p].offset
           n == master[p].size
           s == master[p].sent
<1>0. TypeOK /\ BooksInv /\ SkOne(p)
  BY MasterParts DEF IInv
<1>1. /\ master[p].pc = "send" /\ n > 0
      /\ stream' = [stream EXCEPT ![k] = Append(stream[k], mPage[p][s + 1])]
  BY DEF MasterSends, ksend
<1>2. k \in Run
  BY <1>0, <1>1, RunTypes, Sets DEF SkOne, NoSock
<1>3. /\ off \in Nat /\ n \in Nat /\ s \in Nat /\ n <= PageSize /\ PageSize \in Nat
      /\ mPage[p] \in [1 .. PageSize -> Byte]
  BY <1>0, RunTypes, Sets
<1>4. /\ n <= off /\ s <= n /\ (s = n => n = 0)
      /\ \A i \in 1 .. n : mPage[p][i] = <<p, off - n + i>>
  BY <1>0, <1>1 DEF BooksInv
<1>5. Queued(p) = off - n + s
  BY <1>1 DEF Queued
<1>6. Queued(p)' = Queued(p) + 1
  <2>1. Master(p)
    BY DEF Master
  <2> QED BY <2>1, QueuedFacts
<1> HIDE DEF k, off, n, s
<1>7. s + 1 \in 1 .. n /\ s + 1 \in 1 .. PageSize /\ off - n + (s + 1) = Queued(p) + 1
      /\ Queued(p) \in Nat
  BY <1>1, <1>3, <1>4, <1>5
<1>8. mPage[p][s + 1] = <<p, Queued(p) + 1>>
  BY <1>4, <1>7
<1>9. mPage[p][s + 1] \in Byte
  BY <1>3, <1>7
<1> QED BY <1>1, <1>2, <1>6, <1>7, <1>8, <1>9 DEF k

(* It is in no other place.                                                 *)
LEMMA BytesSent ==
  ASSUME IInv, NEW r \in Run, MasterSends(r)
  PROVE  BytesInv'
<1>k. PICK k, len : k = master[r].sk /\ len = Len(stream[k])
  OBVIOUS
<1>b. PICK byte : byte = <<r, Queued(r) + 1>>
  OBVIOUS
<1> DEFINE new == <<"stream", k, len + 1>>
<1>0. TypeOK /\ BytesInv /\ [Next]_vars /\ stream \in [Run -> Seq(Byte)]
  BY Sets DEF IInv, TypeOK, Next, Master
<1>1. UNCHANGED <<slave, file, sPage>>
  BY DEF MasterSends, slaveVars, devVars
<1>2. /\ k \in Run /\ Queued(r) \in Nat /\ Queued(r)' = Queued(r) + 1 /\ byte \in Byte
      /\ stream' = [stream EXCEPT ![k] = Append(stream[k], byte)]
  BY <1>k, <1>b, SentByte
<1>3. byte[1] = r /\ byte[2] = Queued(r) + 1 /\ byte # Zero
  BY <1>b, Sets DEF Zero
<1>4. /\ Len(stream'[k]) = len + 1 /\ len \in Nat /\ stream'[k][len + 1] = byte
      /\ \A i \in 1 .. len : stream'[k][i] = stream[k][i]
      /\ \A q \in Run \ {k} : stream'[q] = stream[q]
  <2>1. stream'[k] = Append(stream[k], byte) /\ stream[k] \in Seq(Byte)
    BY <1>0, <1>2
  <2> QED BY <1>0, <1>2, <1>k, <2>1, AppendProperties, LenProperties
<1>5. ASSUME NEW p \in Places', p # new
      PROVE  p \in Places /\ Held(p) = Held(p)'
  <2>1. PICK kind \in Kind, q \in Run : \E i \in 1 .. Width(kind, q)' : p = <<kind, q, i>>
    BY PlaceFacts
  <2>2. PICK i \in 1 .. Width(kind, q)' : p = <<kind, q, i>>
    BY <2>1
  <2>3. i \in 1 .. Width(kind, q) /\ Held(p) = Held(p)'
    <3>1. CASE kind = "file" \/ kind = "page"
      BY <1>1, <2>2, <3>1 DEF Width, Held
    <3>2. CASE kind = "stream" /\ q # k
      BY <1>4, <2>2, <3>2 DEF Width, Held
    <3>3. CASE kind = "stream" /\ q = k
      <4>1. /\ i \in 1 .. len + 1 /\ i # len + 1
        BY <1>4, <1>5, <2>2, <3>3 DEF Width, Held
      <4>2. i \in 1 .. len
        BY <1>4, <4>1
      <4> QED BY <1>4, <1>k, <2>2, <3>3, <4>2 DEF Width, Held
    <3> QED BY <3>1, <3>2, <3>3 DEF Kind
  <2> QED BY <2>2, <2>3, PlaceFacts
<1>6. Held(new)' = byte
  BY <1>2, <1>4 DEF Held
<1> HIDE DEF new
<1>7. ASSUME NEW p \in Places', Held(p)' # Zero
      PROVE  (Held(p)[1] \in Run /\ Held(p)[2] <= Queued(Held(p)[1]))'
  <2>1. PICK b : b = Held(p)'
    OBVIOUS
  <2>2. CASE p = new
    <3>1. b[1] = r /\ b[2] = Queued(r) + 1
      BY <1>3, <1>6, <2>1, <2>2
    <3>2. b[2] <= Queued(b[1])'
      BY <1>2, <3>1
    <3>3. Queued(Held(p)[1])' = Queued(b[1])'
      BY <2>1 DEF Queued
    <3> QED BY <2>1, <3>1, <3>2, <3>3
  <2>3. CASE p # new
    <3>1. p \in Places /\ Held(p) = b
      BY <1>5, <2>1, <2>3
    <3>2. b \in Byte /\ b[1] \in Run /\ b[2] <= Queued(b[1])
      BY <1>0, <1>7, <2>1, <3>1, HeldFacts DEF BytesInv
    <3>3. b[2] \in Nat
      BY <3>2 DEF Byte
    <3>4. PICK q \in Run : q = b[1]
      BY <3>2
    <3>5. Queued(q) \in Int /\ Queued(q)' \in Int /\ Queued(q) <= Queued(q)'
      BY <1>0, QueuedGrows
    <3>6. b[1] \in Run /\ b[2] <= Queued(b[1])'
      BY <3>2, <3>3, <3>4, <3>5
    <3>7. Queued(Held(p)[1])' = Queued(b[1])'
      BY <2>1 DEF Queued
    <3> QED BY <2>1, <3>6, <3>7
  <2> QED BY <2>2, <2>3
<1>8. ASSUME NEW p \in Places', p # new
      PROVE  Held(p)' # byte
  <2>1. p \in Places /\ Held(p) = Held(p)'
    BY <1>5, <1>8
  <2>2. Held(p) = byte => byte[2] <= Queued(byte[1])
    BY <1>0, <1>3, <2>1 DEF BytesInv
  <2>3. ~(Queued(r) + 1 <= Queued(r))
    BY <1>2
  <2> QED BY <1>3, <2>1, <2>2, <2>3
<1>9. ASSUME NEW p \in Places', NEW q \in Places', Held(p)' = Held(q)', Held(p)' # Zero
      PROVE  p = q
  <2>1. CASE p = new \/ q = new
    BY <1>6, <1>8, <1>9, <2>1
  <2>2. CASE p # new /\ q # new
    <3>1. p \in Places /\ q \in Places /\ Held(p) = Held(p)' /\ Held(q) = Held(q)'
      BY <1>5, <2>2
    <3> QED BY <1>0, <1>9, <3>1 DEF BytesInv
  <2> QED BY <2>1, <2>2
<1> QED BY <1>7, <1>9 DEF BytesInv

(* krecv() moves bytes from the front of a stream to the front of a page,   *)
(* whichever slave's stream it is;                                          *)
LEMMA BytesReceived ==
  ASSUME IInv, NEW r \in Run, SlaveReceives(r)
  PROVE  BytesInv'
<1>0. /\ TypeOK /\ SlaveInv /\ [Next]_vars
      /\ stream \in [Run -> Seq(Byte)] /\ sPage \in [Run -> [1 .. PageSize -> Byte]]
  BY Sets DEF IInv, TypeOK, Next, Slave
<1>1. PICK c, n : c = slave[r].sk /\ n = slave'[r].len
  OBVIOUS
<1>2. /\ c \in Run /\ n \in 1 .. PageSize /\ slave[r].pc = "recv" /\ SlaveRecv(r, c, n)
      /\ slave'[r].pc \in {"store", "extend"}
  BY <1>0, <1>1, SlaveEffects, SlaveSockFacts
<1>3. /\ n \in Nat /\ n <= Len(stream[c]) /\ stream[c] \in Seq(Byte) /\ Len(stream[c]) \in Nat
      /\ sPage[r] \in [1 .. PageSize -> Byte]
  BY <1>0, <1>2, LenProperties, Sets DEF SlaveRecv, krecv
<1>4. PICK rest : rest = SubSeq(stream[c], n + 1, Len(stream[c]))
  OBVIOUS
<1>5. PICK front : front = SubSeq(stream[c], 1, n)
  OBVIOUS
<1>6. /\ rest \in Seq(Byte) /\ Len(rest) = Len(stream[c]) - n
      /\ \A i \in 1 .. Len(rest) : rest[i] = stream[c][n + i]
  BY <1>3, <1>4, RestFacts
<1>7. /\ front \in Seq(Byte) /\ Len(front) = n
      /\ \A i \in 1 .. n : front[i] = stream[c][i]
  BY <1>3, <1>5, TakenFacts
<1>8. /\ stream'[c] = rest /\ sPage'[r] = Overlay(front, sPage[r])
      /\ \A q \in Run \ {c} : stream'[q] = stream[q]
  BY <1>0, <1>2, <1>4, <1>5 DEF SlaveRecv, krecv
<1>9. \A i \in 1 .. n : sPage'[r][i] = stream[c][i]
  <2>1. \A i \in 1 .. PageSize : i <= Len(front) => Overlay(front, sPage[r])[i] = front[i]
    BY <1>3, <1>7, OverlayFacts
  <2>2. \A i \in 1 .. n : i \in 1 .. PageSize /\ i <= Len(front)
    BY <1>2, <1>7, Sets
  <2> QED BY <1>7, <1>8, <2>1, <2>2
<1>10. \A q \in Run \ {r} : slave'[q] = slave[q] /\ sPage'[q] = sPage[q]
  BY <1>0, OthersKept DEF Slave
<1>11. file' = file /\ slave[r].pc \notin HasPage /\ slave'[r].pc \in HasPage
  BY <1>2 DEF SlaveReceives, HasPage
<1> DEFINE from == [p \in Places' |->
                      IF p[1] = "page" /\ p[2] = r THEN <<"stream", c, p[3]>>
                      ELSE IF p[1] = "stream" /\ p[2] = c THEN <<"stream", c, n + p[3]>>
                      ELSE p]
<1>12. ASSUME NEW kind \in Kind, NEW q \in Run, NEW i \in 1 .. Width(kind, q)',
              <<kind, q, i>> \in Places'
       PROVE  LET p == <<kind, q, i>>
              IN  /\ from[p] \in Places /\ Held(from[p]) = Held(p)' /\ i \in Nat /\ i >= 1
                  /\ kind = "page" /\ q = r => from[p] = <<"stream", c, i>> /\ i <= n
                  /\ kind = "stream" /\ q = c => from[p] = <<"stream", c, n + i>>
                  /\ ~(kind = "page" /\ q = r) /\ ~(kind = "stream" /\ q = c) => from[p] = p
  <2>0. i \in Int /\ i >= 1
    OBVIOUS
  <2>1. CASE kind = "page" /\ q = r
    <3>1. i \in 1 .. n /\ Held(<<kind, q, i>>)' = sPage'[r][i]
      BY <1>1, <1>11, <2>1 DEF Width, Held
    <3>2. from[<<kind, q, i>>] = <<"stream", c, i>>
      BY <1>12, <2>1
    <3>3. i \in 1 .. Len(stream[c])
      BY <1>3, <3>1
    <3>4. <<"stream", c, i>> \in Places /\ Held(<<"stream", c, i>>) = stream[c][i]
      BY <1>2, <3>3, PlaceFacts DEF Width, Held, Kind
    <3> HIDE DEF from
    <3> QED BY <1>3, <1>9, <2>1, <3>1, <3>2, <3>4
  <2>2. CASE kind = "stream" /\ q = c
    <3>1. i \in 1 .. Len(rest) /\ Held(<<kind, q, i>>)' = rest[i]
      BY <1>8, <2>2 DEF Width, Held
    <3>2. from[<<kind, q, i>>] = <<"stream", c, n + i>>
      BY <1>12, <2>2
    <3>3. n + i \in 1 .. Len(stream[c]) /\ i \in Nat /\ i >= 1
      BY <1>3, <1>6, <3>1
    <3>4. <<"stream", c, n + i>> \in Places /\ Held(<<"stream", c, n + i>>) = stream[c][n + i]
      BY <1>2, <3>3, PlaceFacts DEF Width, Held, Kind
    <3> HIDE DEF from
    <3> QED BY <1>6, <2>2, <3>1, <3>2, <3>3, <3>4
  <2>3. CASE ~(kind = "page" /\ q = r) /\ ~(kind = "stream" /\ q = c)
    <3>1. from[<<kind, q, i>>] = <<kind, q, i>>
      BY <1>12, <2>3
    <3>2. i \in 1 .. Width(kind, q) /\ Held(<<kind, q, i>>)' = Held(<<kind, q, i>>)
      BY <1>8, <1>10, <1>11, <2>3 DEF Kind, Width, Held
    <3>3. <<kind, q, i>> \in Places
      BY <3>2, PlaceFacts
    <3> HIDE DEF from
    <3> QED BY <2>0, <2>3, <3>1, <3>2, <3>3
  <2> QED BY <2>1, <2>2, <2>3
<1> HIDE DEF from
<1>13. ASSUME NEW p \in Places'
       PROVE  from[p] \in Places /\ Held(from[p]) = Held(p)'
  <2>1. PICK kind \in Kind, q \in Run : \E i \in 1 .. Width(kind, q)' : p = <<kind, q, i>>
    BY PlaceFacts
  <2>2. PICK i \in 1 .. Width(kind, q)' : p = <<kind, q, i>>
    BY <2>1
  <2> QED BY <1>12, <2>2
<1>14. ASSUME NEW p1 \in Places', NEW p2 \in Places', from[p1] = from[p2]
       PROVE  p1 = p2
  <2>1. PICK k1 \in Kind, q1 \in Run : \E i \in 1 .. Width(k1, q1)' : p1 = <<k1, q1, i>>
    BY PlaceFacts
  <2>2. PICK i1 \in 1 .. Width(k1, q1)' : p1 = <<k1, q1, i1>>
    BY <2>1
  <2>3. PICK k2 \in Kind, q2 \in Run : \E i \in 1 .. Width(k2, q2)' : p2 = <<k2, q2, i>>
    BY PlaceFacts
  <2>4. PICK i2 \in 1 .. Width(k2, q2)' : p2 = <<k2, q2, i2>>
    BY <2>3
  <2>5. /\ i1 \in Nat /\ i1 >= 1
        /\ k1 = "page" /\ q1 = r => from[p1] = <<"stream", c, i1>> /\ i1 <= n
        /\ k1 = "stream" /\ q1 = c => from[p1] = <<"stream", c, n + i1>>
        /\ ~(k1 = "page" /\ q1 = r) /\ ~(k1 = "stream" /\ q1 = c) => from[p1] = p1
    BY <1>12, <2>2
  <2>6. /\ i2 \in Nat /\ i2 >= 1
        /\ k2 = "page" /\ q2 = r => from[p2] = <<"stream", c, i2>> /\ i2 <= n
        /\ k2 = "stream" /\ q2 = c => from[p2] = <<"stream", c, n + i2>>
        /\ ~(k2 = "page" /\ q2 = r) /\ ~(k2 = "stream" /\ q2 = c) => from[p2] = p2
    BY <1>12, <2>4
  <2>7. n + i1 # i2 \/ ~(i2 <= n)
    BY <1>3, <2>5, <2>6
  <2>8. n + i2 # i1 \/ ~(i1 <= n)
    BY <1>3, <2>5, <2>6
  <2>9. n + i1 = n + i2 => i1 = i2
    BY <1>3, <2>5, <2>6
  <2>10. CASE k1 = "page" /\ q1 = r
    BY <1>14, <2>2, <2>4, <2>5, <2>6, <2>8, <2>10
  <2>11. CASE k1 = "stream" /\ q1 = c
    BY <1>14, <2>2, <2>4, <2>5, <2>6, <2>7, <2>9, <2>11
  <2>12. CASE ~(k1 = "page" /\ q1 = r) /\ ~(k1 = "stream" /\ q1 = c)
    BY <1>14, <2>2, <2>4, <2>5, <2>6, <2>12
  <2> QED BY <2>10, <2>11, <2>12
<1> QED BY <1>0, <1>13, <1>14, BytesMoved

(* write() and memcpy() to the file move the bytes of a page to the file.   *)
LEMMA BytesWritten ==
  ASSUME IInv, [Next]_vars, NEW r \in Run, NEW at \in Int, UNCHANGED stream,
         \A q \in Run \ {r} : slave'[q] = slave[q] /\ sPage'[q] = sPage[q] /\ file'[q] = file[q],
         slave[r].pc \in HasPage, slave'[r].pc \notin HasPage,
         \A i \in 1 .. Len(file'[r]) :
           IF i \in at + 1 .. at + slave[r].len
           THEN file'[r][i] = sPage[r][i - at]
           ELSE i \in 1 .. Len(file[r]) /\ file'[r][i] = file[r][i]
  PROVE  BytesInv'
<1>0. TypeOK
  BY DEF IInv
<1>1. PICK n : n = slave[r].len
  OBVIOUS
<1>2. n \in Nat
  BY <1>0, <1>1, RunTypes, Sets
<1> DEFINE Moves(kind, q, i) == kind = "file" /\ q = r /\ i \in at + 1 .. at + n
           from == [p \in Places' |->
                      IF Moves(p[1], p[2], p[3]) THEN <<"page", r, p[3] - at>> ELSE p]
<1>3. ASSUME NEW kind \in Kind, NEW q \in Run, NEW i \in 1 .. Width(kind, q)',
             <<kind, q, i>> \in Places'
      PROVE  LET p == <<kind, q, i>>
             IN  /\ from[p] \in Places /\ Held(from[p]) = Held(p)' /\ i \in Int
                 /\ ~(kind = "page" /\ q = r)
                 /\ IF Moves(kind, q, i) THEN from[p] = <<"page", r, i - at>> ELSE from[p] = p
  <2>0. ~(kind = "page" /\ q = r) /\ i \in Int
    BY DEF Width
  <2>1. CASE Moves(kind, q, i)
    <3>1. Held(<<kind, q, i>>)' = sPage[r][i - at] /\ i - at \in 1 .. n
      BY <1>1, <1>2, <1>3, <2>1 DEF Width, Held
    <3>2. from[<<kind, q, i>>] = <<"page", r, i - at>>
      BY <1>3, <2>1
    <3>3. /\ <<"page", r, i - at>> \in Places
          /\ Held(<<"page", r, i - at>>) = sPage[r][i - at]
      BY <1>1, <3>1, PlaceFacts DEF Width, Held, Kind
    <3> HIDE DEF from
    <3> QED BY <2>0, <2>1, <3>1, <3>2, <3>3
  <2>2. CASE ~Moves(kind, q, i)
    <3>1. from[<<kind, q, i>>] = <<kind, q, i>>
      BY <1>3, <2>2
    <3>2. i \in 1 .. Width(kind, q) /\ Held(<<kind, q, i>>)' = Held(<<kind, q, i>>)
      BY <1>1, <2>0, <2>2 DEF Kind, Width, Held
    <3>3. <<kind, q, i>> \in Places
      BY <3>2, PlaceFacts
    <3> HIDE DEF from
    <3> QED BY <2>0, <2>2, <3>1, <3>2, <3>3
  <2> QED BY <2>1, <2>2
<1> HIDE DEF from
<1>4. ASSUME NEW p \in Places'
      PROVE  from[p] \in Places /\ Held(from[p]) = Held(p)'
  <2>1. PICK kind \in Kind, q \in Run : \E i \in 1 .. Width(kind, q)' : p = <<kind, q, i>>
    BY PlaceFacts
  <2>2. PICK i \in 1 .. Width(kind, q)' : p = <<kind, q, i>>
    BY <2>1
  <2> QED BY <1>3, <2>2
<1>5. ASSUME NEW p1 \in Places', NEW p2 \in Places', from[p1] = from[p2]
      PROVE  p1 = p2
  <2>1. PICK k1 \in Kind, q1 \in Run : \E i \in 1 .. Width(k1, q1)' : p1 = <<k1, q1, i>>
    BY PlaceFacts
  <2>2. PICK i1 \in 1 .. Width(k1, q1)' : p1 = <<k1, q1, i1>>
    BY <2>1
  <2>3. PICK k2 \in Kind, q2 \in Run : \E i \in 1 .. Width(k2, q2)' : p2 = <<k2, q2, i>>
    BY PlaceFacts
  <2>4. PICK i2 \in 1 .. Width(k2, q2)' : p2 = <<k2, q2, i2>>
    BY <2>3
  <2>5. /\ i1 \in Int /\ ~(k1 = "page" /\ q1 = r)
        /\ IF Moves(k1, q1, i1) THEN from[p1] = <<"page", r, i1 - at>> ELSE from[p1] = p1
    BY <1>3, <2>2
  <2>6. /\ i2 \in Int /\ ~(k2 = "page" /\ q2 = r)
        /\ IF Moves(k2, q2, i2) THEN from[p2] = <<"page", r, i2 - at>> ELSE from[p2] = p2
    BY <1>3, <2>4
  <2>7. i1 - at = i2 - at => i1 = i2
    BY <2>5, <2>6
  <2>8. CASE Moves(k1, q1, i1)
    BY <1>5, <2>2, <2>4, <2>5, <2>6, <2>7, <2>8
  <2>9. CASE ~Moves(k1, q1, i1)
    BY <1>5, <2>2, <2>4, <2>5, <2>6, <2>9
  <2> QED BY <2>8, <2>9
<1> QED BY <1>4, <1>5, BytesMoved

(* So do both methods of the slave.                                         *)
LEMMA BytesStored ==
  ASSUME IInv, NEW r \in Run, SlaveStores(r) \/ SlaveMaps(r)
  PROVE  BytesInv'
<1>0. /\ TypeOK /\ TypeOK' /\ [Next]_vars
      /\ file \in [Run -> Seq(Byte)] /\ file[r] \in Seq(Byte) /\ file'[r] \in Seq(Byte)
      /\ slave[r].len \in 0 .. PageSize /\ sPage[r] \in [1 .. PageSize -> Byte]
      /\ file_size[r] \in Int
  <2>1. [Next]_vars
    BY DEF Next, Slave
  <2>2. TypeOK /\ TypeOK'
    BY <2>1, TypeNext DEF IInv
  <2> QED BY <2>1, <2>2, RunTypes, Sets DEF TypeOK
<1>1. \A q \in Run \ {r} : slave'[q] = slave[q] /\ sPage'[q] = sPage[q] /\ file'[q] = file[q]
  BY <1>0, OthersKept DEF Slave
<1>2. /\ UNCHANGED <<stream, sPage>> /\ slave[r].pc \in HasPage /\ slave'[r].pc \notin HasPage
  <2>1. UNCHANGED <<stream, sPage>>
    BY DEF SlaveStores, SlaveMaps, sockVars, devVars
  <2>2. slave[r].pc \in {"store", "map"} /\ slave'[r].pc \in {"call", "exit"}
    BY <1>0, SlaveEffects
  <2> QED BY <2>1, <2>2 DEF HasPage
<1>3. PICK n : n = slave[r].len
  OBVIOUS
<1>4. n \in Nat
  BY <1>0, <1>3, Sets
<1>5. CASE SlaveStores(r)
  <2>1. PICK written : written = SubSeq(sPage[r], 1, n)
    OBVIOUS
  <2>2. /\ written \in Seq(Byte) /\ Len(written) = n
        /\ \A i \in 1 .. n : written[i] = sPage[r][i]
    BY <1>0, <1>3, <2>1, PagePart
  <2>3. file'[r] = file[r] \o written
    BY <1>0, <1>3, <1>5, <2>1 DEF SlaveStores
  <2>4. PICK at : at = Len(file[r])
    OBVIOUS
  <2>5. at \in Nat
    BY <1>0, <2>4, LenProperties
  <2>6. /\ Len(file'[r]) = at + n
        /\ \A i \in 1 .. at + n : file'[r][i] = IF i <= at THEN file[r][i] ELSE written[i - at]
    <3>1. /\ Len(file[r] \o written) = Len(file[r]) + Len(written)
          /\ \A i \in 1 .. Len(file[r]) + Len(written) : (file[r] \o written)[i] =
                IF i <= Len(file[r]) THEN file[r][i] ELSE written[i - Len(file[r])]
      BY <1>0, <2>2, ConcatProperties
    <3> QED BY <2>2, <2>3, <2>4, <3>1
  <2>7. \A i \in 1 .. Len(file'[r]) :
          IF i \in at + 1 .. at + slave[r].len
          THEN file'[r][i] = sPage[r][i - at]
          ELSE i \in 1 .. Len(file[r]) /\ file'[r][i] = file[r][i]
    <3> SUFFICES ASSUME NEW i \in 1 .. at + n
                 PROVE  IF i \in at + 1 .. at + n
                        THEN file'[r][i] = sPage[r][i - at]
                        ELSE i \in 1 .. at /\ file'[r][i] = file[r][i]
      BY <1>3, <2>4, <2>6
    <3>1. CASE i <= at
      BY <1>4, <2>5, <2>6, <3>1
    <3>2. CASE ~ i <= at
      <4>1. i - at \in 1 .. n /\ i \in at + 1 .. at + n
        BY <1>4, <2>5, <3>2
      <4> QED BY <2>2, <2>6, <3>2, <4>1
    <3> QED BY <3>1, <3>2
  <2>8. at \in Int /\ UNCHANGED stream
    BY <1>2, <2>5
  <2> QED BY <1>0, <1>1, <1>2, <2>7, <2>8, BytesWritten
<1>6. CASE SlaveMaps(r) /\ file_size[r] % PageSize = 0
  <2>1. PICK at : at = file_size[r]
    OBVIOUS
  <2>2. file'[r] = [i \in DOMAIN file[r] |->
                      IF i \in at + 1 .. at + n THEN sPage[r][i - at] ELSE file[r][i]]
    BY <1>0, <1>3, <1>6, <2>1 DEF SlaveMaps
  <2>3. DOMAIN file'[r] = 1 .. Len(file'[r]) /\ DOMAIN file[r] = 1 .. Len(file[r])
    BY <1>0, LenProperties
  <2>4. \A i \in 1 .. Len(file'[r]) :
          IF i \in at + 1 .. at + slave[r].len
          THEN file'[r][i] = sPage[r][i - at]
          ELSE i \in 1 .. Len(file[r]) /\ file'[r][i] = file[r][i]
    BY <1>3, <2>2, <2>3
  <2> QED BY <1>0, <1>1, <1>2, <2>1, <2>4, BytesWritten
<1>7. CASE SlaveMaps(r) /\ file_size[r] % PageSize # 0
  <2>1. file' = file
    BY <1>7 DEF SlaveMaps
  <2>2. \A q \in Run : slave'[q].pc \in HasPage => q # r
    BY <1>2
  <2> QED BY <1>0, <1>1, <1>2, <2>1, <2>2, BytesFrame
<1> QED BY <1>5, <1>6, <1>7

(* Every step keeps every byte in one place.                                *)
LEMMA BytesNext == IInv /\ [Next]_vars => BytesInv'
<1> SUFFICES ASSUME IInv, [Next]_vars PROVE BytesInv'
  OBVIOUS
<1>0. TypeOK /\ SlaveInv
  BY DEF IInv
<1>1. CASE UNCHANGED <<stream, file, slave, sPage>>
  BY <1>1, BytesFrame
<1>2. UNCHANGED vars \/ Reload => UNCHANGED <<stream, file, slave, sPage>>
  BY DEF vars, sockVars, devVars, Reload, slaveVars, master_exit, master_init, kcloseListener,
         klisten
<1>3. ASSUME NEW p \in Run, Master(p) \/ MasterAborts(p), ~MasterSends(p)
      PROVE  UNCHANGED <<stream, file, slave, sPage>>
  <2>1. UNCHANGED <<file, slave, sPage>>
    BY <1>0, <1>3, OthersKept DEF slaveVars
  <2>2. stream' = stream
    BY <1>3 DEF Master, MasterAborts, MasterKilled, MasterAcceptFails, MasterOpens,
         MasterAccepts, MasterAssigns, MasterFills,
       MasterMapFails, MasterSendsNothing, MasterSendFails, MasterExits, MasterStops, MasterExit,
       kaccept, kcloseSrv, sockVars
  <2> QED BY <2>1, <2>2
<1>4. ASSUME NEW r \in Run, Slave(r) \/ SlaveAborts(r)
      PROVE  BytesInv'
  <2>1. \A q \in Run \ {r} : slave'[q] = slave[q] /\ sPage'[q] = sPage[q] /\ file'[q] = file[q]
    BY <1>0, <1>4, OthersKept
  <2>2. CASE SlaveExtends(r)
    <3>1. /\ file \in [Run -> Seq(Byte)] /\ file[r] \in Seq(Byte) /\ slave[r].len \in 0 .. PageSize
      BY <1>0, RunTypes, Sets DEF TypeOK
    <3>2. UNCHANGED <<stream, sPage>>
      BY <2>2 DEF SlaveExtends, sockVars, devVars
    <3>3. PICK n : n = slave[r].len
      OBVIOUS
    <3>4. PICK zeros : zeros = [i \in 1 .. n |-> Zero]
      OBVIOUS
    <3>5. n \in Nat /\ zeros \in Seq({Zero}) /\ Len(zeros) = n
      <4>1. n \in Nat
        BY <3>1, <3>3, Sets
      <4> QED BY <3>4, <4>1
    <3>6. file'[r] = file[r] \o zeros
      BY <2>2, <3>1, <3>3, <3>4 DEF SlaveExtends
    <3>7. \A i \in 1 .. Len(file'[r]) :
            file'[r][i] # Zero => i \in 1 .. Len(file[r]) /\ file[r][i] = file'[r][i]
      <4>1. PICK len : len = Len(file[r])
        OBVIOUS
      <4>2. len \in Nat
        BY <3>1, <4>1, LenProperties
      <4>3. /\ Len(file'[r]) = len + n
            /\ \A i \in 1 .. len + n : file'[r][i] = IF i <= len THEN file[r][i] ELSE zeros[i - len]
        <5>1. file[r] \in Seq(Byte \cup {Zero}) /\ zeros \in Seq(Byte \cup {Zero})
          BY <3>1, <3>5
        <5>2. /\ Len(file[r] \o zeros) = Len(file[r]) + Len(zeros)
              /\ \A i \in 1 .. Len(file[r]) + Len(zeros) : (file[r] \o zeros)[i] =
                    IF i <= Len(file[r]) THEN file[r][i] ELSE zeros[i - Len(file[r])]
          BY <5>1, ConcatProperties
        <5> QED BY <3>5, <3>6, <4>1, <5>2
      <4>4. \A i \in 1 .. n : zeros[i] = Zero
        BY <3>4
      <4> SUFFICES ASSUME NEW i \in 1 .. len + n, file'[r][i] # Zero
                   PROVE  i \in 1 .. len /\ file[r][i] = file'[r][i]
        BY <4>1, <4>3
      <4>5. CASE i <= len
        BY <3>5, <4>2, <4>3, <4>5
      <4>6. CASE ~ i <= len
        <5>1. i - len \in 1 .. n
          BY <3>5, <4>2, <4>6
        <5> QED BY <4>3, <4>4, <4>6, <5>1
      <4> QED BY <4>5, <4>6
    <3>8. /\ slave[r].pc \in HasPage /\ slave'[r].len = slave[r].len
      BY <1>0, <2>2, SlaveEffects DEF HasPage
    <3> QED BY <2>1, <3>2, <3>7, <3>8, BytesFrame
  <2>3. CASE ~(SlaveReceives(r) \/ SlaveStores(r) \/ SlaveMaps(r) \/ SlaveExtends(r))
    <3>1. file' = file
      BY <1>4, <2>3 DEF Slave, SlaveOpens, SlaveMakesSocket, SlaveConnects, SlaveCalls, SlaveAtEof,
         SlaveRecvFails, SlaveExits, SlaveStops, SlaveAborts, SlaveKilled, SlaveSocketFails
    <3>2. slave'[r].pc \notin HasPage
      <4>1. slave'[r].pc \in {"socket", "connect", "call", "recv", "exit", "over"}
        BY <1>0, <1>4, <2>3, SlaveEffects DEF Slave
      <4> QED BY <4>1 DEF HasPage
    <3>3. \A q \in Run : stream'[q] \in {stream[q], << >>}
      <4>1. CASE SlaveExits(r)
        <5>1. sSock \in Run /\ stream' = [stream EXCEPT ![sSock] = << >>]
          BY <1>0, <4>1, SlaveSockFacts DEF SlaveExits, SlaveExit, kcloseCli
        <5>2. stream \in [Run -> Seq(Byte)]
          BY <1>0, Sets DEF TypeOK
        <5> QED BY <5>1, <5>2
      <4>2. CASE ~SlaveExits(r)
        <5>1. stream' = stream
          BY <1>4, <2>3, <4>2 DEF Slave, SlaveOpens, SlaveMakesSocket, SlaveConnects, SlaveCalls,
             SlaveAtEof, SlaveRecvFails, SlaveStops, SlaveAborts, SlaveKilled, SlaveSocketFails,
             SlaveCreateSock, ksocket, kconnect,
             krecvFails, sockVars
        <5> QED BY <5>1
      <4> QED BY <4>1, <4>2
    <3>4. \A q \in Run : slave'[q].pc \in HasPage => q # r
      BY <3>2
    <3> QED BY <2>1, <3>1, <3>3, <3>4, BytesFrame
  <2> QED BY <1>4, <2>2, <2>3, BytesReceived, BytesStored
<1> QED BY <1>1, <1>2, <1>3, <1>4, BytesSent, Steps

-----------------------------------------------------------------------------
(* The invariant and what follows from it.                                  *)

(* It holds before either program is run.                                   *)
LEMMA InvInit == Init => IInv
<1> SUFFICES ASSUME Init PROVE IInv
  OBVIOUS
<1>1. TypeOK
  BY TypeInit
<1>2. /\ \A r \in Run : /\ master[r].pc = "start" /\ master[r].offset = 0
                        /\ slave[r].pc = "start" /\ slave[r].end = "not yet"
                        /\ file[r] = << >> /\ file_size[r] = 0 /\ source[r] = 0
                        /\ cli[r] = "none" /\ srv[r] = "none" /\ stream[r] = << >>
      /\ backlog = << >> /\ mSock = NoSock /\ sSock = NoSock
  BY Sets DEF Init, DeviceInit, SocketInit
<1>3. BooksInv
  <2>1. \A r \in Run : 0 <= fileLen[r]
    BY <1>1, RunTypes
  <2>2. \A r \in Run : master[r].pc \notin {"exit", "send"} /\ master[r].offset = 0
    BY <1>2
  <2> QED BY <2>1, <2>2 DEF BooksInv
<1>4. ConnInv
  <2>1. Len(backlog) = 0
    BY <1>2
  <2>2. \A i \in 1 .. Len(backlog) : FALSE
    BY <2>1
  <2> QED BY <1>2, <2>2, Sets DEF ConnInv
<1>5. Active(master) = {} /\ Active(slave) = {}
  BY <1>2 DEF Active
<1>6. MasterInv
  BY <1>2, <1>5 DEF MasterInv
<1>7. SlaveInv
  BY <1>2, <1>5 DEF SlaveInv
<1>8. FlowInv
  <2> SUFFICES ASSUME NEW c \in Run PROVE FlowOne(c)
    BY DEF FlowInv, FlowOne
  <2>1. slave[c].pc \notin Receiving
    BY <1>2 DEF Receiving, HasPage
  <2>2. /\ source[c] = 0 /\ file_size[c] = 0 /\ file[c] = << >>
        /\ slave[c].pc # "exit" /\ slave[c].end # "ok"
    BY <1>2
  <2>3. Stored(c)
    BY <2>1, <2>2 DEF Stored
  <2> QED BY <2>1, <2>2, <2>3 DEF FlowOne
<1>9. BytesInv
  <2>1. ASSUME NEW p \in Places PROVE FALSE
    <3>1. PICK kind \in Kind, r \in Run : \E i \in 1 .. Width(kind, r) : p = <<kind, r, i>>
      BY PlaceFacts
    <3>2. file[r] = << >> /\ stream[r] = << >> /\ slave[r].pc \notin HasPage
      BY <1>2 DEF HasPage
    <3>3. Len(<< >>) = 0
      OBVIOUS
    <3>4. Width(kind, r) = 0
      BY <3>2, <3>3 DEF Kind, Width
    <3> QED BY <3>1, <3>4
  <2> QED BY <2>1 DEF BytesInv
<1> QED BY <1>1, <1>3, <1>4, <1>6, <1>7, <1>8, <1>9 DEF IInv

(* The whole invariant is inductive.                                        *)
LEMMA InvNext == IInv /\ [Next]_vars => IInv'
  BY TypeNext, BooksNext, ConnNext, MasterNext, SlaveNext, FlowNext, BytesNext DEF IInv

(* Part, page, connection and socket stay in step in every run of master    *)
(* and slave, for any number of runs, any sizes of files, pages and socket  *)
(* buffers, and whatever the users do: overlapping runs, kills, removing    *)
(* and inserting master_device.                                             *)
THEOREM TransferInvariance == Spec => []IInv
  BY InvInit, InvNext, PTL DEF Spec

(* The programs, the devices and the sockets stay in the states that their  *)
(* declarations allow; no socket holds more than its buffers.               *)
THEOREM TransferTypes == Spec => []TypeOK
<1>1. IInv => TypeOK
  BY DEF IInv
<1> QED BY <1>1, TransferInvariance, PTL

\* The beginning of a file, as the slave that has stored it sees it.
LEMMA PrefixFacts ==
  ASSUME NEW m \in Run, NEW out \in Seq(Byte), NEW n \in Nat, TypeOK,
         n <= Len(out), n <= fileLen[m], \A i \in 1 .. n : out[i] = <<m, i>>
  PROVE  /\ SubSeq(out, 1, n) = SubSeq(Input(m), 1, n)
         /\ n = fileLen[m] /\ n = Len(out) => out = Input(m)
<1>1. fileLen[m] \in Nat
  BY RunTypes
<1>2. PICK all : all = [i \in 1 .. fileLen[m] |-> <<m, i>>]
  OBVIOUS
<1>3. all \in Seq(Byte) /\ Len(all) = fileLen[m]
  <2>1. m \in 0 .. Runs
    BY Sets
  <2>2. \A i \in 1 .. fileLen[m] : <<m, i>> \in Byte
    BY <1>1, <2>1 DEF Byte
  <2> QED BY <1>1, <1>2, <2>2
<1>4. all = Input(m)
  BY <1>2 DEF Input
<1>5. /\ SubSeq(out, 1, n) \in Seq(Byte) /\ Len(SubSeq(out, 1, n)) = n
      /\ \A i \in 1 .. n : SubSeq(out, 1, n)[i] = out[i]
  BY TakenFacts
<1>6. /\ SubSeq(all, 1, n) \in Seq(Byte) /\ Len(SubSeq(all, 1, n)) = n
      /\ \A i \in 1 .. n : SubSeq(all, 1, n)[i] = all[i]
  BY <1>3, TakenFacts
<1>7. \A i \in 1 .. n : all[i] = out[i]
  <2> SUFFICES ASSUME NEW i \in 1 .. n PROVE all[i] = out[i]
    OBVIOUS
  <2>1. i \in 1 .. fileLen[m]
    BY <1>1
  <2> QED BY <1>2, <2>1
<1>8. SubSeq(out, 1, n) = SubSeq(all, 1, n)
  <2> DEFINE s == SubSeq(out, 1, n)
             t == SubSeq(all, 1, n)
  <2>1. /\ s \in Seq(Byte) /\ t \in Seq(Byte) /\ Len(s) = Len(t)
        /\ \A i \in 1 .. Len(s) : s[i] = t[i]
    BY <1>5, <1>6, <1>7
  <2> HIDE DEF s, t
  <2>2. s = t
    BY <2>1, SeqEqual
  <2> QED BY <2>2 DEF s, t
<1>9. n = fileLen[m] /\ n = Len(out) => out = all
  BY <1>3, <1>7, SeqEqual
<1> QED BY <1>4, <1>8, <1>9

(* What an undisturbed slave has stored and counted is the beginning of the *)
(* file of the one master that accepted its connection.                     *)
THEOREM StoredBytes == Spec => []StoredIsPrefix
<1>1. IInv => StoredIsPrefix
  <2> SUFFICES ASSUME IInv, NEW r \in Run, Undisturbed(r), file_size[r] > 0
               PROVE  /\ source[r] # 0
                      /\ file_size[r] <= Min(Len(file[r]), fileLen[source[r]])
                      /\ SubSeq(file[r], 1, file_size[r])
                           = SubSeq(Input(source[r]), 1, file_size[r])
    BY DEF StoredIsPrefix
  <2>1. /\ TypeOK /\ Stored(r) /\ file_size[r] \in Int /\ file[r] \in Seq(Byte)
        /\ source[r] \in 0 .. Runs
    BY RunTypes DEF IInv, FlowInv
  <2>2. source[r] # 0
    BY <2>1 DEF Stored
  <2>3. source[r] \in Run
    BY <2>1, <2>2, RunAssumption DEF Run
  <2>4. /\ file_size[r] \in 0 .. Len(file[r]) /\ file_size[r] <= fileLen[source[r]]
        /\ \A i \in 1 .. file_size[r] : file[r][i] = <<source[r], i>>
    BY <2>1, <2>2 DEF Stored
  <2>5. file_size[r] \in Nat /\ file_size[r] <= Len(file[r])
    BY <2>1, <2>4, LenProperties
  <2>6. SubSeq(file[r], 1, file_size[r]) = SubSeq(Input(source[r]), 1, file_size[r])
    BY <2>1, <2>3, <2>4, <2>5, PrefixFacts
  <2> QED BY <2>2, <2>4, <2>5, <2>6 DEF Min
<1> QED BY <1>1, TransferInvariance, PTL

(* A slave that uses read() and ends normally has the whole file of a       *)
(* master or, if the size it prints is negative, nothing at all.            *)
THEOREM CompleteFiles == Spec => []ReadSlaveIsComplete
<1>1. IInv => ReadSlaveIsComplete
  <2> SUFFICES ASSUME IInv, NEW r \in Run, Undisturbed(r), slave[r].end = "ok",
                      slave[r].method = "fcntl"
               PROVE  IF file_size[r] < 0
                      THEN source[r] = 0 /\ file[r] = << >>
                      ELSE /\ source[r] # 0
                           /\ file[r] = Input(source[r])
                           /\ file_size[r] = fileLen[source[r]]
    BY DEF ReadSlaveIsComplete
  <2>1. /\ TypeOK /\ Stored(r) /\ file_size[r] \in Int /\ file[r] \in Seq(Byte)
        /\ source[r] \in 0 .. Runs
    BY RunTypes DEF IInv, FlowInv
  <2>2. CASE file_size[r] < 0
    <3>1. source[r] = 0
      BY <2>1, <2>2 DEF Stored
    <3> QED BY <2>1, <2>2, <3>1 DEF Stored
  <2>3. CASE ~(file_size[r] < 0)
    <3>1. source[r] # 0 /\ file_size[r] = fileLen[source[r]]
      BY <2>1, <2>3 DEF Stored
    <3>2. source[r] \in Run
      BY <2>1, <3>1, RunAssumption DEF Run
    <3>3. /\ file_size[r] = Len(file[r])
          /\ \A i \in 1 .. file_size[r] : file[r][i] = <<source[r], i>>
      BY <2>1, <3>1 DEF Stored
    <3>4. /\ file_size[r] \in Nat /\ file_size[r] <= Len(file[r])
          /\ file_size[r] <= fileLen[source[r]]
      BY <2>1, <2>3, <3>1, <3>3
    <3> QED BY <2>1, <2>3, <3>1, <3>2, <3>3, <3>4, PrefixFacts
  <2> QED BY <2>2, <2>3
<1> QED BY <1>1, TransferInvariance, PTL

(* No byte of any file is stored twice, even by slaves that read one socket *)
(* at the same time, from masters that write to one.                        *)
THEOREM BytesOnce == Spec => []NoByteTwice
<1>1. IInv => NoByteTwice
  <2> SUFFICES ASSUME IInv, NEW r \in Run, NEW q \in Run, NEW i \in DOMAIN file[r],
                      NEW k \in DOMAIN file[q], file[r][i] = file[q][k], file[r][i] # Zero
               PROVE  <<r, i>> = <<q, k>>
    BY DEF NoByteTwice
  <2>1. DOMAIN file[r] = 1 .. Len(file[r]) /\ DOMAIN file[q] = 1 .. Len(file[q])
    BY RunTypes, LenProperties DEF IInv
  <2>2. /\ <<"file", r, i>> \in Places /\ Held(<<"file", r, i>>) = file[r][i]
        /\ <<"file", q, k>> \in Places /\ Held(<<"file", q, k>>) = file[q][k]
    BY <2>1, PlaceFacts DEF Width, Held, Kind
  <2>3. <<"file", r, i>> = <<"file", q, k>>
    BY <2>2 DEF IInv, BytesInv
  <2> QED BY <2>3
<1> QED BY <1>1, TransferInvariance, PTL

-----------------------------------------------------------------------------
(* Programs that run one after the other, under a device that stays.        *)

(* What one program may do in such a scenario: nobody overlaps (Startable), *)
(* and the module stays (Reload).                                           *)
LEMMA OneByOneFacts ==
  ASSUME OneByOne, TypeOK
  PROVE  /\ ~Reload
         /\ \A r \in Run : MasterOpens(r) =>
              Active(master) = {} /\ \A q \in 1 .. r - 1 : master[q].pc # "start"
         /\ \A r \in Run : SlaveOpens(r) =>
              Active(slave) = {} /\ \A q \in 1 .. r - 1 : slave[q].pc # "start"
<1>1. scenario.may \subseteq {"kill", "memory"}
  BY DEF OneByOne, TypeOK
<1>2. "masters" \notin scenario.may /\ "slaves" \notin scenario.may /\ "reload" \notin scenario.may
  BY <1>1
<1>3. ~Reload
  BY <1>2 DEF Reload
<1>4. \A r \in Run : MasterOpens(r) =>
        Active(master) = {} /\ \A q \in 1 .. r - 1 : master[q].pc # "start"
  BY <1>2 DEF MasterOpens, Startable
<1>5. \A r \in Run : SlaveOpens(r) =>
        Active(slave) = {} /\ \A q \in 1 .. r - 1 : slave[q].pc # "start"
  BY <1>2 DEF SlaveOpens, Startable
<1> QED BY <1>3, <1>4, <1>5

(* The listening socket and the history of overlaps stay as they are.       *)
LEMMA QuietDevice ==
  ASSUME OneByOne, TypeOK, [Next]_vars, disturbed = {}, listening
  PROVE  disturbed' = {} /\ listening'
<1>1. CASE UNCHANGED vars
  BY <1>1 DEF vars, sockVars
<1>2. CASE \E p \in Run : Master(p) \/ MasterAborts(p)
  <2>1. PICK p \in Run : Master(p) \/ MasterAborts(p)
    BY <1>2
  <2>2. disturbed' = {}
    <3>1. CASE MasterOpens(p)
      <4>1. Active(master) = {}
        BY <3>1, OneByOneFacts
      <4> QED BY <3>1, <4>1 DEF MasterOpens, Overlaps
    <3>2. CASE ~MasterOpens(p)
      BY <2>1, <3>2 DEF Master, MasterAccepts, MasterAssigns, MasterFills, MasterMapFails,
             MasterSends, MasterSendsNothing, MasterSendFails, MasterExits, MasterStops,
             MasterAborts, MasterKilled, MasterAcceptFails, histVars
    <3> QED BY <3>1, <3>2
  <2>3. listening' = listening
    BY <2>1 DEF Master, MasterOpens, MasterAccepts, kaccept, MasterAssigns, MasterFills,
           MasterMapFails, MasterSends, ksend, MasterSendsNothing, MasterSendFails, MasterExits,
           MasterExit, kcloseSrv, MasterStops, MasterAborts, MasterKilled, MasterAcceptFails,
           sockVars
  <2> QED BY <2>2, <2>3
<1>3. CASE \E p \in Run : Slave(p) \/ SlaveAborts(p)
  <2>1. PICK p \in Run : Slave(p) \/ SlaveAborts(p)
    BY <1>3
  <2>2. disturbed' = {}
    <3>1. CASE SlaveOpens(p)
      <4>1. Active(slave) = {}
        BY <3>1, OneByOneFacts
      <4> QED BY <3>1, <4>1 DEF SlaveOpens, Overlaps
    <3>2. CASE ~SlaveOpens(p)
      BY <2>1, <3>2 DEF Slave, SlaveMakesSocket, SlaveConnects, SlaveCalls, SlaveReceives,
             SlaveAtEof, SlaveRecvFails, SlaveStores, SlaveExtends, SlaveMaps, SlaveExits,
             SlaveStops, SlaveAborts, SlaveKilled, SlaveSocketFails, histVars
    <3> QED BY <3>1, <3>2
  <2>3. listening' = listening
    BY <2>1 DEF Slave, SlaveOpens, SlaveMakesSocket, SlaveCreateSock, ksocket, SlaveConnects,
           kconnect, SlaveCalls, SlaveReceives, SlaveRecv, krecv, SlaveAtEof, SlaveRecvFails,
           krecvFails, SlaveStores, SlaveExtends, SlaveMaps, SlaveExits, SlaveExit, kcloseCli,
           SlaveStops, SlaveAborts, SlaveKilled, SlaveSocketFails, sockVars
  <2> QED BY <2>2, <2>3
<1> QED BY <1>1, <1>2, <1>3, OneByOneFacts, Steps

(* No connection is reset: only closing the listening socket does that.     *)
LEMMA NoReset ==
  ASSUME OneByOne, TypeOK, [Next]_vars, \A c \in Conn : srv[c] # "reset"
  PROVE  \A c \in Conn : srv'[c] # "reset"
<1>0. srv \in [Conn -> SrvState]
  BY DEF TypeOK
<1>1. CASE srv' = srv
  BY <1>1
<1>2. ASSUME NEW c, kaccept(c) \/ kcloseSrv(c) \/ krecvFails(c)
      PROVE  \A d \in Conn : srv'[d] # "reset"
  BY <1>0, <1>2 DEF kaccept, kcloseSrv, krecvFails
<1>3. CASE UNCHANGED vars
  BY <1>1, <1>3 DEF vars, sockVars
<1>4. CASE \E p \in Run : Master(p) \/ MasterAborts(p)
  BY <1>1, <1>2, <1>4, DeviceEffects
<1>5. CASE \E p \in Run : Slave(p) \/ SlaveAborts(p)
  <2>1. PICK p \in Run : Slave(p) \/ SlaveAborts(p)
    BY <1>5
  <2>2. CASE SlaveRecvFails(p)
    BY <1>2, <2>2 DEF SlaveRecvFails
  <2>3. CASE ~SlaveRecvFails(p)
    <3>1. srv' = srv
      BY <2>1, <2>3 DEF Slave, SlaveOpens, SlaveMakesSocket, SlaveCreateSock, ksocket,
             SlaveConnects, kconnect, SlaveCalls, SlaveReceives, SlaveRecv, krecv, SlaveAtEof,
             SlaveStores, SlaveExtends, SlaveMaps, SlaveExits, SlaveExit, kcloseCli, SlaveStops,
             SlaveAborts, SlaveKilled, SlaveSocketFails, sockVars
    <3> QED BY <1>1, <3>1
  <2> QED BY <2>2, <2>3
<1> QED BY <1>3, <1>4, <1>5, OneByOneFacts, Steps

(* A run of slave that overlaps no other has the socket of the device.      *)
LEMMA QuietSlave ==
  ASSUME IInv, disturbed = {}, NEW r \in Run
  PROVE  /\ Undisturbed(r) /\ FlowOne(r)
         /\ r \in Active(slave) =>
              /\ Active(slave) = {r}
              /\ slave[r].pc # "socket" => sSock = r
              /\ slave[r].pc = "recv" => slave[r].sk = r
<1>1. Undisturbed(r) /\ Alone("slaves", r)
  BY DEF Undisturbed, Alone
<1>2. FlowOne(r)
  BY <1>1 DEF IInv, FlowInv, FlowOne
<1> QED BY <1>1, <1>2 DEF IInv, SlaveInv

(* Then read() of the slave device does not fail: the connection is open,   *)
(* and nobody resets it.                                                    *)
LEMMA ReadNeverFails ==
  ASSUME IInv, QuietInv, NEW r \in Run
  PROVE  ~SlaveRecvFails(r)
<1> SUFFICES ASSUME SlaveRecvFails(r) PROVE FALSE
  OBVIOUS
<1>1. slave[r].pc = "recv" /\ krecvFails(slave[r].sk)
  BY DEF SlaveRecvFails
<1>2. r \in Active(slave) /\ slave[r].pc \in Receiving
  BY <1>1 DEF Active, Receiving
<1>3. slave[r].sk = r /\ FlowOne(r)
  BY <1>1, <1>2, QuietSlave DEF QuietInv
<1>4. cli[r] = "open"
  BY <1>2, <1>3 DEF FlowOne, InOrder
<1>5. srv[r] # "reset"
  BY Sets DEF QuietInv
<1> QED BY <1>1, <1>3, <1>4, <1>5 DEF krecvFails

(* The size that a slave counts, after each step that changes it or the     *)
(* file.                                                                    *)
LEMMA SizeEffects ==
  ASSUME IInv, QuietInv, [Next]_vars
  PROVE  \/ UNCHANGED <<file, file_size>>
         \/ \E r \in Run : /\ SlaveExtends(r) /\ file_size' = file_size
         \/ \E r \in Run : /\ SlaveStores(r) \/ SlaveMaps(r)
                           /\ slave[r].pc \in HasPage
                           /\ file_size' = [file_size EXCEPT ![r] = @ + slave[r].len]
<1>0. TypeOK
  BY DEF IInv
<1>1. CASE UNCHANGED vars
  BY <1>1 DEF vars
<1>2. CASE Reload
  BY <1>2 DEF Reload, slaveVars
<1>3. CASE \E p \in Run : Master(p) \/ MasterAborts(p)
  BY <1>0, <1>3, OthersKept DEF slaveVars
<1>4. CASE \E p \in Run : Slave(p) \/ SlaveAborts(p)
  <2>1. PICK p \in Run : Slave(p) \/ SlaveAborts(p)
    BY <1>4
  <2>2. CASE SlaveStores(p)
    BY <2>2 DEF SlaveStores, HasPage
  <2>3. CASE SlaveMaps(p)
    <3> DEFINE even == file_size[p] % PageSize = 0
    <3>1. /\ slave[p].pc = "map"
          /\ IF even
             THEN file_size' = [file_size EXCEPT ![p] = file_size[p] + slave[p].len]
             ELSE UNCHANGED <<file, file_size>>
      BY <2>3 DEF SlaveMaps
    <3> HIDE DEF even
    <3>2. slave[p].pc \in HasPage
      BY <3>1 DEF HasPage
    <3> QED BY <2>3, <3>1, <3>2
  <2>4. CASE SlaveExtends(p)
    BY <2>4 DEF SlaveExtends
  <2>5. CASE ~SlaveStores(p) /\ ~SlaveMaps(p) /\ ~SlaveExtends(p)
    <3>1. ~SlaveRecvFails(p)
      BY ReadNeverFails
    <3> QED
      BY <2>1, <2>5, <3>1 DEF Slave, SlaveOpens, SlaveMakesSocket, SlaveConnects, SlaveCalls,
         SlaveReceives, SlaveAtEof, SlaveExits, SlaveStops, SlaveAborts, SlaveKilled,
         SlaveSocketFails
  <2> QED BY <2>2, <2>3, <2>4, <2>5
<1> QED BY <1>1, <1>2, <1>3, <1>4, Steps

(* A socket that has just been made is connected by the run that has made   *)
(* it.                                                                      *)
LEMMA MadeNext ==
  ASSUME IInv, QuietInv, [Next]_vars, ~Reload, NEW r \in Run, slave'[r].pc = "connect"
  PROVE  cli'[r] = "made"
<1>0. TypeOK /\ cli \in [Run -> CliState] /\ slave[r].pc \in {"start", "socket", "connect", "call",
         "recv", "store", "extend", "map", "exit", "over"}
  BY RunTypes, Sets DEF IInv, TypeOK, SlaveState
<1>1. CASE UNCHANGED vars
  BY <1>1 DEF QuietInv, vars, sockVars
<1>2. CASE \E p \in Run : Master(p) \/ MasterAborts(p)
  <2>1. PICK p \in Run : Master(p) \/ MasterAborts(p)
    BY <1>2
  <2>2. cli' = cli
    BY <2>1 DEF Master, MasterOpens, MasterAccepts, kaccept, MasterAssigns, MasterFills,
           MasterMapFails, MasterSends, ksend, MasterSendsNothing, MasterSendFails, MasterExits,
           MasterExit, kcloseSrv, MasterStops, MasterAborts, MasterKilled, MasterAcceptFails,
           sockVars
  <2>3. slave' = slave
    BY <1>0, <2>1, OthersKept DEF slaveVars
  <2> QED BY <2>2, <2>3 DEF QuietInv
<1>3. CASE \E p \in Run : Slave(p) \/ SlaveAborts(p)
  <2>1. PICK p \in Run : Slave(p) \/ SlaveAborts(p)
    BY <1>3
  <2>2. CASE p = r
    <3>1. SlaveMakesSocket(r)
      BY <1>0, <2>1, <2>2, SlaveEffects DEF Slave
    <3> QED BY <1>0, <3>1 DEF SlaveMakesSocket, SlaveCreateSock, ksocket
  <2>3. CASE p # r
    <3>1. slave[r].pc = "connect" /\ cli[r] = "made"
      BY <1>0, <2>1, <2>3, OthersKept DEF QuietInv
    <3>2. r \in Active(slave) /\ Active(slave) = {r}
      BY <3>1, ActiveFacts, QuietSlave DEF QuietInv
    <3>3. slave[p].pc \in {"start", "over"}
      BY <2>3, <3>2, ActiveFacts
    <3>4. SlaveOpens(p)
      BY <1>0, <2>1, <3>3, SlaveEffects, ActiveFacts DEF Slave
    <3> QED BY <3>1, <3>4 DEF SlaveOpens, sockVars
  <2> QED BY <2>2, <2>3
<1> QED BY <1>1, <1>2, <1>3, Steps

(* QuietInv is kept.                                                        *)
LEMMA QuietNext ==
  ASSUME OneByOne, IInv, QuietInv, [Next]_vars
  PROVE  QuietInv'
<1>0. TypeOK /\ ~Reload /\ disturbed = {} /\ listening /\ file_size \in [Run -> Int]
      /\ (\A r \in Run : file_size[r] >= 0) /\ \A c \in Conn : srv[c] # "reset"
  BY OneByOneFacts DEF IInv, QuietInv, TypeOK
<1>1. disturbed' = {} /\ listening'
  BY <1>0, QuietDevice
<1>2. \A c \in Conn : srv'[c] # "reset"
  BY <1>0, NoReset
<1>3. \A r \in Run : file_size'[r] >= 0
  <2>1. CASE file_size' = file_size
    BY <1>0, <2>1
  <2>2. CASE \E r \in Run : file_size' = [file_size EXCEPT ![r] = @ + slave[r].len]
    <3>1. PICK r \in Run : file_size' = [file_size EXCEPT ![r] = @ + slave[r].len]
      BY <2>2
    <3>2. slave[r].len \in Nat /\ file_size[r] \in Int
      BY <1>0, RunTypes, Sets
    <3>3. file_size[r] + slave[r].len >= 0
      BY <1>0, <3>2
    <3> QED BY <1>0, <3>1, <3>3
  <2> QED BY <2>1, <2>2, SizeEffects
<1>4. \A r \in Run : slave'[r].pc = "connect" => cli'[r] = "made"
  BY <1>0, MadeNext
<1> QED BY <1>1, <1>2, <1>3, <1>4 DEF QuietInv

(* It holds at the beginning.                                               *)
LEMMA QuietInit == Init => QuietInv
<1> SUFFICES ASSUME Init PROVE QuietInv
  OBVIOUS
<1>1. disturbed = {} /\ listening /\ srv = [c \in Conn |-> "none"]
  BY DEF Init, DeviceInit, SocketInit
<1>2. \A r \in Run : file_size[r] = 0 /\ slave[r].pc = "start"
  BY DEF Init
<1> QED BY <1>1, <1>2 DEF QuietInv

-----------------------------------------------------------------------------
(* FileCopy.                                                                *)

(* Two files that begin with the same n bytes of one input,                 *)
LEMMA SameBeginning ==
  ASSUME NEW s \in Seq(Byte), NEW t \in Seq(Byte), NEW n \in Nat, n <= Len(s), n <= Len(t),
         NEW m \in 0 .. Runs, \A i \in 1 .. n : s[i] = <<m, i>> /\ t[i] = <<m, i>>
  PROVE  SubSeq(s, 1, n) = SubSeq(t, 1, n)
<1>1. /\ SubSeq(s, 1, n) \in Seq(Byte) /\ Len(SubSeq(s, 1, n)) = n
      /\ \A i \in 1 .. n : SubSeq(s, 1, n)[i] = s[i]
  BY TakenFacts
<1>2. /\ SubSeq(t, 1, n) \in Seq(Byte) /\ Len(SubSeq(t, 1, n)) = n
      /\ \A i \in 1 .. n : SubSeq(t, 1, n)[i] = t[i]
  BY TakenFacts
<1> DEFINE u == SubSeq(s, 1, n)
           v == SubSeq(t, 1, n)
<1>3. /\ u \in Seq(Byte) /\ v \in Seq(Byte) /\ Len(u) = Len(v)
      /\ \A i \in 1 .. Len(u) : u[i] = v[i]
  BY <1>1, <1>2
<1> HIDE DEF u, v
<1>4. u = v
  BY <1>3, SeqEqual
<1> QED BY <1>4 DEF u, v

(* and a file that has k bytes of it more.                                  *)
LEMMA LongerBeginning ==
  ASSUME NEW s \in Seq(Byte), NEW t \in Seq(Byte), NEW n \in Nat, NEW k \in Nat,
         n <= Len(s), n + k <= Len(t), NEW m \in Run,
         \A i \in 1 .. n : s[i] = <<m, i>>, \A i \in 1 .. n + k : t[i] = <<m, i>>
  PROVE  /\ Len(SubSeq(s, 1, n)) = n
         /\ SubSeq(t, 1, n + k) =
              SubSeq(s, 1, n) \o [i \in 1 .. k |-> <<m, Len(SubSeq(s, 1, n)) + i>>]
<1>1. /\ SubSeq(s, 1, n) \in Seq(Byte) /\ Len(SubSeq(s, 1, n)) = n
      /\ \A i \in 1 .. n : SubSeq(s, 1, n)[i] = s[i]
  BY TakenFacts
<1>2. /\ SubSeq(t, 1, n + k) \in Seq(Byte) /\ Len(SubSeq(t, 1, n + k)) = n + k
      /\ \A i \in 1 .. n + k : SubSeq(t, 1, n + k)[i] = t[i]
  BY TakenFacts
<1> DEFINE u == SubSeq(s, 1, n)
           v == SubSeq(t, 1, n + k)
           w == [i \in 1 .. k |-> <<m, n + i>>]
<1>3. w \in Seq(Byte) /\ Len(w) = k /\ \A i \in 1 .. k : w[i] = <<m, n + i>>
  BY PartFacts
<1>4. /\ u \in Seq(Byte) /\ v \in Seq(Byte) /\ Len(u) = n /\ Len(v) = n + k
      /\ \A i \in 1 .. n : u[i] = <<m, i>>
      /\ \A i \in 1 .. n + k : v[i] = <<m, i>>
  BY <1>1, <1>2
<1> HIDE DEF u, v, w
<1>5. /\ u \o w \in Seq(Byte) /\ Len(u \o w) = n + k
      /\ \A i \in 1 .. n + k : (u \o w)[i] = IF i <= n THEN u[i] ELSE w[i - n]
  <2>1. /\ Len(u \o w) = Len(u) + Len(w)
        /\ \A i \in 1 .. Len(u) + Len(w) : (u \o w)[i] =
              IF i <= Len(u) THEN u[i] ELSE w[i - Len(u)]
    <3>1. u \in Seq(Byte) /\ w \in Seq(Byte)
      BY <1>3, <1>4
    <3> QED BY <3>1, ConcatProperties, Zenon
  <2>2. u \o w \in Seq(Byte)
    BY <1>3, <1>4
  <2> QED BY <1>3, <1>4, <2>1, <2>2
<1>6. ASSUME NEW i \in 1 .. n + k
      PROVE  v[i] = (u \o w)[i]
  <2>1. CASE i <= n
    <3>1. i \in 1 .. n
      BY <2>1
    <3> QED BY <1>4, <1>5, <2>1, <3>1
  <2>2. CASE ~ i <= n
    <3>1. i - n \in 1 .. k /\ n + (i - n) = i
      BY <2>2
    <3>2. w[i - n] = <<m, n + (i - n)>>
      BY <1>3, <3>1
    <3> QED BY <1>4, <1>5, <2>2, <3>1, <3>2
  <2> QED BY <2>1, <2>2
<1>7. v = u \o w
  BY <1>4, <1>5, <1>6, SeqEqual
<1> QED BY <1>1, <1>7 DEF u, v, w

(* What a slave has stored, in one state.                                   *)
Begins(r) ==
  /\ file[r] \in Seq(Byte) /\ file_size[r] \in Nat /\ file_size[r] <= Len(file[r])
  /\ \A i \in 1 .. file_size[r] : file[r][i] = <<source[r], i>>
  /\ source[r] = 0 => file_size[r] = 0
  /\ source[r] # 0 => source[r] \in Run /\ file_size[r] <= fileLen[source[r]]
  /\ fileLen[source[r]] \in Nat \/ source[r] = 0

(* It is the beginning of its master's file.                                *)
LEMMA BeginsFacts ==
  /\ IInv /\ QuietInv => \A r \in Run : Begins(r)
  /\ (IInv /\ QuietInv)' => (\A r \in Run : Begins(r))'
<1>1. IInv /\ QuietInv => \A r \in Run : Begins(r)
  <2> SUFFICES ASSUME IInv, QuietInv, NEW r \in Run PROVE Begins(r)
    OBVIOUS
  <2>1. TypeOK /\ Stored(r) /\ file_size[r] >= 0
    BY QuietSlave DEF IInv, QuietInv, FlowOne
  <2>2. /\ file[r] \in Seq(Byte) /\ file_size[r] \in Int /\ source[r] \in 0 .. Runs
        /\ Len(file[r]) \in Nat
    BY <2>1, RunTypes, LenProperties
  <2>3. CASE source[r] = 0
    <3>1. file_size[r] = 0
      BY <2>1, <2>2, <2>3 DEF Stored
    <3> QED BY <2>2, <2>3, <3>1 DEF Begins
  <2>4. CASE source[r] # 0
    <3>1. source[r] \in Run
      BY <2>2, <2>4, RunAssumption DEF Run
    <3>2. fileLen[source[r]] \in Nat
      BY <2>1, <3>1, RunTypes
    <3>3. /\ file_size[r] \in 0 .. Len(file[r]) /\ file_size[r] <= fileLen[source[r]]
          /\ \A i \in 1 .. file_size[r] : file[r][i] = <<source[r], i>>
      BY <2>1, <2>4 DEF Stored
    <3> QED BY <2>2, <2>4, <3>1, <3>2, <3>3 DEF Begins
  <2> QED BY <2>3, <2>4
<1> QED BY <1>1, PTL

\* What FileCopy sees of the slaves.
Out == [r \in Run |-> SubSeq(file[r], 1, file_size[r])]
Done == {r \in Run : slave[r].end = "ok" /\ slave[r].method = "fcntl"}

(* Which slaves are done changes only with the end of one in SlaveExits.    *)
LEMMA DoneEffects ==
  ASSUME IInv, [Next]_vars
  PROVE  \/ Done' = Done
         \/ \E r \in Run : SlaveExits(r) /\ slave[r].method = "fcntl" /\ Done' = Done \cup {r}
<1>0. TypeOK /\ \A r \in Run : CallOne(r)
  BY SlaveParts DEF IInv
<1>1. CASE slave' = slave
  BY <1>1 DEF Done
<1>2. ASSUME NEW p \in Run, Slave(p) \/ SlaveAborts(p)
      PROVE  \/ Done' = Done
             \/ SlaveExits(p) /\ slave[p].method = "fcntl" /\ Done' = Done \cup {p}
  <2>1. \A q \in Run \ {p} : slave'[q] = slave[q]
    BY <1>0, <1>2, OthersKept
  <2>2. slave[p].end # "ok"
    <3>1. slave[p].end = "ok" => slave[p].pc = "over"
      BY <1>0 DEF CallOne
    <3>2. slave[p].pc # "over"
      BY <1>0, <1>2, SlaveEffects, ActiveFacts DEF Slave
    <3> QED BY <3>1, <3>2
  <2>3. CASE ~SlaveExits(p)
    <3>1. slave'[p].end # "ok"
      BY <1>0, <1>2, <2>2, <2>3, SlaveEffects DEF Slave
    <3> QED BY <2>1, <2>2, <3>1 DEF Done
  <2>4. CASE SlaveExits(p)
    <3>1. slave'[p].end = "ok" /\ slave'[p].method = slave[p].method
      BY <1>0, <2>4, SlaveEffects DEF Slave
    <3> QED BY <2>1, <2>2, <2>4, <3>1 DEF Done
  <2> QED BY <2>3, <2>4
<1>3. UNCHANGED vars \/ Reload => slave' = slave
  BY DEF vars, Reload, slaveVars
<1>4. \A p \in Run : Master(p) \/ MasterAborts(p) => slave' = slave
  BY <1>0, OthersKept DEF slaveVars
<1> QED BY <1>1, <1>2, <1>3, <1>4, Steps

(* As long as no slave counts more bytes, FileCopy sees no change of what   *)
(* it has: not when a connection is accepted, not when SlaveExtends makes   *)
(* the file longer.                                                         *)
LEMMA SameOut ==
  ASSUME \A r \in Run : Begins(r) /\ Begins(r)',
         NEW r \in Run, file_size'[r] = file_size[r], source'[r] \in 0 .. Runs,
         source[r] # 0 => source'[r] = source[r]
  PROVE  Out'[r] = Out[r]
<1>1. Begins(r) /\ Begins(r)'
  OBVIOUS
<1>2. \A i \in 1 .. file_size[r] : file[r][i] = <<source'[r], i>> /\ file'[r][i] = <<source'[r], i>>
  BY <1>1 DEF Begins
<1>3. /\ file[r] \in Seq(Byte) /\ file'[r] \in Seq(Byte) /\ file_size[r] \in Nat
      /\ file_size[r] <= Len(file[r]) /\ file_size[r] <= Len(file'[r])
  BY <1>1 DEF Begins
<1>4. SubSeq(file[r], 1, file_size[r]) = SubSeq(file'[r], 1, file_size[r])
  BY <1>2, <1>3, SameBeginning
<1> QED BY <1>4 DEF Out

(* Every step of the programs is a step of FileCopy or none.                *)
LEMMA CopyStep ==
  ASSUME IInv, QuietInv, IInv', QuietInv', [Next]_vars
  PROVE  [Copy!Next]_(Copy!vars)
<1>0. /\ TypeOK /\ (\A r \in Run : Begins(r) /\ Begins(r)')
      /\ (\A r \in Run : source[r] # 0 => source'[r] = source[r])
      /\ source \in [Run -> 0 .. Runs] /\ source' \in [Run -> 0 .. Runs]
      /\ file_size \in [Run -> Int] /\ file_size' \in [Run -> Int]
      /\ fileLen' = fileLen
  <2>1. \A r \in Run : Begins(r) /\ Begins(r)'
    BY BeginsFacts
  <2>2. \A r \in Run : source[r] # 0 => source'[r] = source[r]
    BY SourceKept
  <2>3. fileLen' = fileLen
    <3>1. TypeOK
      BY DEF IInv
    <3> QED BY <3>1, OthersKept, Steps DEF slaveVars, masterVars, vars, Reload
  <2> QED BY <2>1, <2>2, <2>3, Sets DEF IInv, TypeOK
<1>1. Copy!Run = Run
  BY DEF Copy!Run, Run
<1>2. ASSUME UNCHANGED <<source, Done>>, Out' = Out
      PROVE  UNCHANGED Copy!vars
  BY <1>0, <1>2 DEF Copy!vars, Out, Done
<1>3. ASSUME file_size' = file_size
      PROVE  Out' = Out
  <2>1. \A r \in Run : Out'[r] = Out[r]
    BY <1>0, <1>3, SameOut
  <2> QED BY <2>1 DEF Out
\* A connection is accepted,
<1>4. CASE source' # source
  <2>1. PICK c \in Run : source'[c] # source[c]
    BY <1>0, <1>4
  <2>2. PICK p \in Run : MasterAccepts(p) /\ source' = [source EXCEPT ![c] = p]
    <3>1. PICK p \in Run : MasterAccepts(p)
      BY <2>1, SourceKept
    <3>2. PICK d \in Run : source' = [source EXCEPT ![d] = p]
      BY <1>0, <3>1, DeviceEffects DEF Master
    <3>3. d = c
      BY <1>0, <2>1, <3>2
    <3> QED BY <3>1, <3>2, <3>3
  <2>3. source[c] = 0
    BY <1>0, <2>1
  <2>4. \A s \in Run : source[s] # p
    <3>1. master[p].pc = "accept" /\ p # 0
      BY <2>2, Sets DEF MasterAccepts
    <3>2. \A s \in Run : source[s] # 0 => master[source[s]].pc # "accept"
      BY Sets DEF IInv, ConnInv
    <3> QED BY <3>1, <3>2
  <2>5. UNCHANGED <<file, file_size, slave>>
    BY <2>2 DEF MasterAccepts, slaveVars
  <2>6. Out' = Out /\ Done' = Done
    BY <1>3, <2>5 DEF Done
  <2>7. Copy!Pair(c, p)
    BY <1>0, <1>1, <2>2, <2>3, <2>4, <2>6 DEF Copy!Pair, Out, Done
  <2> QED BY <1>1, <2>7 DEF Copy!Next
\* bytes are stored,
<1>5. CASE source' = source /\ file_size' # file_size
  <2>1. PICK r \in Run : /\ SlaveStores(r) \/ SlaveMaps(r)
                         /\ slave[r].pc \in HasPage
                         /\ file_size' = [file_size EXCEPT ![r] = @ + slave[r].len]
    BY <1>5, SizeEffects
  <2> DEFINE n == slave[r].len
             m == source[r]
  <2>2. /\ r \notin Done /\ Done' = Done
    <3>1. slave[r].end # "ok"
      BY <2>1, SlaveParts DEF IInv, CallOne, HasPage
    <3>2. \A q \in Run : ~SlaveExits(q)
      <4>1. \A q \in Run : SlaveExits(q) => UNCHANGED file_size
        BY DEF SlaveExits
      <4> QED BY <1>5, <4>1
    <3> QED BY <3>1, <3>2, DoneEffects DEF Done
  <2>3. m # 0 /\ m \in Run
    <3>1. r \in Active(slave) /\ slave[r].pc \in Receiving
      BY <2>1 DEF Active, HasPage, Receiving
    <3>2. InOrder(r)
      BY <3>1, QuietSlave DEF QuietInv, FlowOne
    <3> QED BY <1>0, <2>1, <3>2 DEF InOrder, Begins
  <2>4. n \in Nat /\ file_size'[r] = file_size[r] + n /\ n # 0
    <3>1. n \in Nat /\ file_size'[r] = file_size[r] + n
      BY <1>0, <2>1, RunTypes, Sets
    <3>2. n = 0 => file_size' = file_size
      BY <1>0, <2>1
    <3> QED BY <1>5, <3>1, <3>2
  <2>5. /\ Len(Out[r]) = file_size[r]
        /\ Out'[r] = Out[r] \o [i \in 1 .. n |-> <<m, Len(Out[r]) + i>>]
    <3>1. /\ Begins(r) /\ Begins(r)' /\ source'[r] = m
      BY <1>0, <1>5
    <3>2. /\ file[r] \in Seq(Byte) /\ file'[r] \in Seq(Byte) /\ file_size[r] \in Nat
          /\ file_size[r] <= Len(file[r]) /\ file_size[r] + n <= Len(file'[r])
          /\ \A i \in 1 .. file_size[r] : file[r][i] = <<m, i>>
          /\ \A i \in 1 .. file_size[r] + n : file'[r][i] = <<m, i>>
      BY <2>4, <3>1 DEF Begins
    <3>3. /\ Out[r] = SubSeq(file[r], 1, file_size[r])
          /\ Out'[r] = SubSeq(file'[r], 1, file_size[r] + n)
      BY <2>4 DEF Out
    <3>4. /\ Len(SubSeq(file[r], 1, file_size[r])) = file_size[r]
          /\ SubSeq(file'[r], 1, file_size[r] + n) = SubSeq(file[r], 1, file_size[r])
               \o [i \in 1 .. n |-> <<m, Len(SubSeq(file[r], 1, file_size[r])) + i>>]
      <4>1. PICK s, t, k : s = file[r] /\ t = file'[r] /\ k = file_size[r]
        OBVIOUS
      <4>2. /\ s \in Seq(Byte) /\ t \in Seq(Byte) /\ k \in Nat /\ k <= Len(s) /\ k + n <= Len(t)
            /\ \A i \in 1 .. k : s[i] = <<m, i>>
            /\ \A i \in 1 .. k + n : t[i] = <<m, i>>
            /\ n \in Nat /\ m \in Run
        BY <2>3, <2>4, <3>2, <4>1
      <4> HIDE DEF n, m
      <4>3. /\ Len(SubSeq(s, 1, k)) = k
            /\ SubSeq(t, 1, k + n) =
                 SubSeq(s, 1, k) \o [i \in 1 .. n |-> <<m, Len(SubSeq(s, 1, k)) + i>>]
        BY <4>2, LongerBeginning, ZenonT(60)
      <4> QED BY <4>1, <4>3
    <3> QED BY <3>3, <3>4
  <2>6. \A q \in Run \ {r} : Out'[q] = Out[q]
    BY <1>0, <2>1, SameOut
  <2>7. /\ Len(Out[r]) + n <= fileLen[m] /\ n \in 1 .. fileLen[m]
    <3>1. file_size'[r] <= fileLen[m] /\ fileLen[m] \in Nat /\ file_size[r] \in Nat
      BY <1>0, <1>5, <2>3 DEF Begins
    <3> QED BY <2>4, <2>5, <3>1
  <2>8. Out' = [Out EXCEPT ![r] = @ \o [i \in 1 .. n |-> <<m, Len(@) + i>>]]
    BY <2>5, <2>6 DEF Out
  <2>9. Copy!Receive(r, n)
    BY <1>0, <1>5, <2>2, <2>3, <2>7, <2>8 DEF Copy!Receive, Out, Done
  <2>10. \E k \in 1 .. fileLen[source[r]] : Copy!Receive(r, k)
    <3> HIDE DEF n
    <3>1. n \in 1 .. fileLen[source[r]]
      BY <2>7
    <3> QED BY <3>1, <2>9, Zenon DEF Copy!Receive
  <2> QED BY <1>1, <2>3, <2>10 DEF Copy!Next
\* a slave ends, or nothing is to be seen.
<1>6. CASE source' = source /\ file_size' = file_size
  <2>1. CASE Done' = Done
    BY <1>2, <1>3, <1>6, <2>1
  <2>2. CASE Done' # Done
    <3>1. PICK r \in Run : SlaveExits(r) /\ slave[r].method = "fcntl" /\ Done' = Done \cup {r}
      BY <2>2, DoneEffects
    <3>2. source[r] # 0 /\ file_size[r] = fileLen[source[r]]
      <4>1. slave[r].pc = "exit" /\ FlowOne(r)
        BY <3>1, QuietSlave DEF SlaveExits, QuietInv
      <4>2. file_size[r] < 0 \/ (source[r] # 0 /\ file_size[r] = fileLen[source[r]])
        BY <3>1, <4>1 DEF FlowOne, Stored
      <4>3. file_size[r] \in Nat
        BY <1>0 DEF Begins
      <4> QED BY <4>2, <4>3
    <3>3. Len(Out[r]) = fileLen[source[r]]
      <4>1. file[r] \in Seq(Byte) /\ file_size[r] \in Nat /\ file_size[r] <= Len(file[r])
        BY <1>0 DEF Begins
      <4> QED BY <3>2, <4>1, TakenFacts DEF Out
    <3>4. Out' = Out
      BY <1>3, <1>6
    <3>5. Copy!Finish(r)
      BY <1>0, <1>6, <3>1, <3>2, <3>3, <3>4 DEF Copy!Finish, Out, Done
    <3> QED BY <1>1, <3>5 DEF Copy!Next
  <2> QED BY <2>1, <2>2
<1> QED BY <1>4, <1>5, <1>6

(* At the beginning nobody has anything.                                    *)
LEMMA CopyInit == Init => Copy!Init
<1> SUFFICES ASSUME Init PROVE Copy!Init
  OBVIOUS
<1>1. /\ fileLen \in [Run -> scenario.sizes] /\ scenario \in Scenarios
      /\ source = [c \in Conn |-> 0] /\ file = [r \in Run |-> << >>]
      /\ file_size = [r \in Run |-> 0] /\ \A r \in Run : slave[r].end = "not yet"
  BY DEF Init
<1>2. fileLen \in [Run -> Nat]
  BY <1>1, ScenarioAssumption DEF Scenario
<1>3. [r \in Run |-> SubSeq(file[r], 1, file_size[r])] = [r \in Run |-> << >>]
  <2>1. \A r \in Run : SubSeq(file[r], 1, file_size[r]) = << >>
    <3> SUFFICES ASSUME NEW r \in Run PROVE SubSeq(file[r], 1, file_size[r]) = << >>
      OBVIOUS
    <3>1. << >> \in Seq(Byte) /\ Len(<< >>) = 0
      OBVIOUS
    <3>2. SubSeq(<< >>, 1, 0) \in Seq(Byte) /\ Len(SubSeq(<< >>, 1, 0)) = 0
      BY <3>1, TakenFacts
    <3>3. SubSeq(<< >>, 1, 0) = << >>
      BY <3>2, EmptySeq
    <3> QED BY <1>1, <3>3
  <2> QED BY <2>1
<1>4. {r \in Run : slave[r].end = "ok" /\ slave[r].method = "fcntl"} = {}
  BY <1>1
<1>5. Copy!Run = Run /\ Conn = Run
  BY Sets DEF Copy!Run, Run
<1> QED BY <1>1, <1>2, <1>3, <1>4, <1>5 DEF Copy!Init

(* When the runs of each program follow one another, each slave is given    *)
(* one master, takes the bytes of its file from the first on, and says it   *)
(* is done when it has all of them, however often and wherever programs are *)
(* killed: master.c, slave.c and the devices implement FileCopy.            *)
THEOREM CopyIsImplemented ==
  ASSUME OneByOne
  PROVE  Spec => ImplementsCopy
<1>1. Init => IInv /\ QuietInv /\ Copy!Init
  BY InvInit, QuietInit, CopyInit
<1>2. IInv /\ QuietInv /\ [Next]_vars => (IInv /\ QuietInv)' /\ [Copy!Next]_(Copy!vars)
  <2> SUFFICES ASSUME IInv, QuietInv, [Next]_vars
               PROVE  IInv' /\ QuietInv' /\ [Copy!Next]_(Copy!vars)
    OBVIOUS
  <2>1. IInv' /\ QuietInv'
    BY InvNext, QuietNext
  <2> QED BY <2>1, CopyStep
<1> QED BY <1>1, <1>2, PTL DEF Spec, ImplementsCopy, Copy!Spec

-----------------------------------------------------------------------------
(* RunsArePaired.                                                           *)

(* The parts of TurnsInv.                                                   *)
MasterTurns == \A q \in Run : \A r \in 1 .. q - 1 : master[q].pc # "start" => master[r].pc = "over"
SlaveTurns == \A q \in Run : \A r \in 1 .. q - 1 : slave[q].pc # "start" => slave[r].pc = "over"
Increasing == \A i \in 1 .. Len(backlog) : \A k \in 1 .. i - 1 : backlog[k] < backlog[i]
Turn(r) ==
  /\ source[r] \in {0, r}
  /\ master[r].pc \notin {"start", "accept"} => source[r] = r
  /\ slave[r].pc \notin {"start", "socket", "connect"} => source[r] = r \/ Waiting(r)

(* They are all of it.                                                      *)
LEMMA TurnsParts ==
  /\ TurnsInv <=> MasterTurns /\ SlaveTurns /\ Increasing /\ \A r \in Run : Turn(r)
  /\ TurnsInv' <=> MasterTurns' /\ SlaveTurns' /\ Increasing' /\ \A r \in Run : Turn(r)'
<1>1. TurnsInv <=> MasterTurns /\ SlaveTurns /\ Increasing /\ \A r \in Run : Turn(r)
  BY DEF TurnsInv, MasterTurns, SlaveTurns, Increasing, Turn, Waiting
<1>2. TurnsInv' <=> MasterTurns' /\ SlaveTurns' /\ Increasing' /\ \A r \in Run : Turn(r)'
  BY DEF TurnsInv, MasterTurns, SlaveTurns, Increasing, Turn, Waiting
<1> QED BY <1>1, <1>2

(* Without kills, only the programs themselves step.                        *)
LEMMA LeftAloneFacts ==
  ASSUME LeftAlone, TypeOK
  PROVE  /\ OneByOne
         /\ \A r \in Run : ~MasterAborts(r) /\ ~SlaveAborts(r)
<1>1. OneByOne
  BY DEF LeftAlone, OneByOne
<1>2. "kill" \notin scenario.may /\ "memory" \notin scenario.may
  BY DEF LeftAlone, TypeOK
<1> QED BY <1>1, <1>2 DEF MasterAborts, MasterKilled, MasterAcceptFails, SlaveAborts,
    SlaveKilled, SlaveSocketFails

(* A program that has started goes on to its end before the next starts.    *)
LEMMA TurnsKept ==
  ASSUME LeftAlone, IInv, [Next]_vars, MasterTurns, SlaveTurns
  PROVE  MasterTurns' /\ SlaveTurns'
<1>0. /\ TypeOK /\ OneByOne /\ ~Reload
      /\ \A r \in Run : ~MasterAborts(r) /\ ~SlaveAborts(r)
  BY LeftAloneFacts, OneByOneFacts DEF IInv
<1>1. \A q \in Run : 1 .. q - 1 \subseteq Run
  BY RunAssumption DEF Run
<1>2. CASE UNCHANGED vars
  BY <1>2 DEF MasterTurns, SlaveTurns, vars
<1>3. CASE \E p \in Run : Master(p)
  <2>1. PICK p \in Run : Master(p)
    BY <1>3
  <2>2. slave' = slave /\ \A q \in Run \ {p} : master'[q] = master[q]
    BY <1>0, <2>1, OthersKept DEF slaveVars
  <2>3. master[p].pc # "over" /\ (master[p].pc = "start" => MasterOpens(p))
    BY <1>0, <2>1, MasterEffects DEF Master
  <2>4. \A r \in 1 .. p - 1 : master[r].pc = "over"
    <3>1. CASE master[p].pc = "start"
      <4>1. Active(master) = {} /\ \A r \in 1 .. p - 1 : master[r].pc # "start"
        BY <1>0, <2>3, <3>1, OneByOneFacts
      <4> QED BY <1>1, <4>1, ActiveFacts
    <3>2. CASE master[p].pc # "start"
      BY <3>2 DEF MasterTurns
    <3> QED BY <3>1, <3>2
  <2>5. MasterTurns'
    <3> SUFFICES ASSUME NEW q \in Run, NEW r \in 1 .. q - 1, master'[q].pc # "start"
                 PROVE  master'[r].pc = "over"
      BY DEF MasterTurns
    <3>1. r \in Run /\ r # q
      BY <1>1, Sets
    <3>2. CASE q = p
      BY <2>2, <2>4, <3>1, <3>2
    <3>3. CASE q # p
      <4>1. master[r].pc = "over"
        BY <2>2, <3>3 DEF MasterTurns
      <4> QED BY <2>2, <2>3, <3>1, <4>1
    <3> QED BY <3>2, <3>3
  <2> QED BY <2>2, <2>5 DEF SlaveTurns
<1>4. CASE \E p \in Run : Slave(p)
  <2>1. PICK p \in Run : Slave(p)
    BY <1>4
  <2>2. master' = master /\ \A q \in Run \ {p} : slave'[q] = slave[q]
    BY <1>0, <2>1, OthersKept DEF masterVars
  <2>3. slave[p].pc # "over" /\ (slave[p].pc = "start" => SlaveOpens(p))
    BY <1>0, <2>1, SlaveEffects DEF Slave
  <2>4. \A r \in 1 .. p - 1 : slave[r].pc = "over"
    <3>1. CASE slave[p].pc = "start"
      <4>1. Active(slave) = {} /\ \A r \in 1 .. p - 1 : slave[r].pc # "start"
        BY <1>0, <2>3, <3>1, OneByOneFacts
      <4> QED BY <1>1, <4>1, ActiveFacts
    <3>2. CASE slave[p].pc # "start"
      BY <3>2 DEF SlaveTurns
    <3> QED BY <3>1, <3>2
  <2>5. SlaveTurns'
    <3> SUFFICES ASSUME NEW q \in Run, NEW r \in 1 .. q - 1, slave'[q].pc # "start"
                 PROVE  slave'[r].pc = "over"
      BY DEF SlaveTurns
    <3>1. r \in Run /\ r # q
      BY <1>1, Sets
    <3>2. CASE q = p
      BY <2>2, <2>4, <3>1, <3>2
    <3>3. CASE q # p
      <4>1. slave[r].pc = "over"
        BY <2>2, <3>3 DEF SlaveTurns
      <4> QED BY <2>2, <2>3, <3>1, <4>1
    <3> QED BY <3>2, <3>3
  <2> QED BY <2>2, <2>5 DEF MasterTurns
<1> QED BY <1>0, <1>2, <1>3, <1>4, Steps

(* Who is in the backlog has been started and not been accepted.            *)
LEMMA BacklogRuns ==
  ASSUME IInv, NEW i \in 1 .. Len(backlog)
  PROVE  /\ backlog[i] \in Run /\ source[backlog[i]] = 0
         /\ cli[backlog[i]] # "made" /\ slave[backlog[i]].pc # "start"
<1>1. backlog \in Seq(Run) /\ BacklogInv /\ \A c \in Run : ConnOne(c)
  BY ConnParts, Sets DEF IInv, TypeOK
<1>2. backlog[i] \in Run
  BY <1>1, ElementOfSeq
<1>3. Waiting(backlog[i])
  BY DEF Waiting
<1> QED BY <1>1, <1>2, <1>3 DEF BacklogInv, ConnOne

(* A master accepts the slave of its own number.                            *)
LEMMA AcceptsOwn ==
  ASSUME IInv, TurnsInv, NEW p \in Run, MasterAccepts(p), NEW c \in Run, kaccept(c)
  PROVE  c = p
<1>0. /\ MasterTurns /\ SlaveTurns /\ Increasing /\ (\A r \in Run : Turn(r))
      /\ (\A r \in Run : ConnOne(r)) /\ backlog \in Seq(Run) /\ p \in Nat \ {0} /\ c \in Nat \ {0}
  BY TurnsParts, ConnParts, Sets DEF IInv, TypeOK
<1>1. Len(backlog) \in Nat \ {0} /\ c = backlog[1] /\ 1 \in 1 .. Len(backlog)
  BY <1>0, EmptySeq, LenProperties DEF kaccept
<1>2. source[c] = 0 /\ slave[c].pc # "start"
  BY <1>1, BacklogRuns
<1>3. master[p].pc = "accept"
  BY DEF MasterAccepts
<1>4. CASE c < p
  <2>1. master[c].pc = "over"
    BY <1>0, <1>3, <1>4 DEF MasterTurns
  <2>2. source[c] = c
    BY <1>0, <2>1 DEF Turn
  <2> QED BY <1>0, <1>2, <2>2
<1>5. CASE p < c
  <2>1. slave[p].pc = "over"
    BY <1>0, <1>2, <1>5 DEF SlaveTurns
  <2>2. source[p] # p
    BY <1>0, <1>3 DEF ConnOne
  <2>3. Waiting(p)
    BY <1>0, <2>1, <2>2 DEF Turn
  <2>4. PICK i \in 1 .. Len(backlog) : backlog[i] = p
    BY <2>3 DEF Waiting
  <2>5. 1 \in 1 .. i - 1
    BY <1>0, <1>1, <1>5, <2>4
  <2>6. backlog[1] < p
    BY <1>0, <2>4, <2>5 DEF Increasing
  <2> QED BY <1>0, <1>1, <1>5, <2>6
<1> QED BY <1>0, <1>4, <1>5

(* A slave gets a connection, behind those of the runs before it.           *)
LEMMA ConnectsLast ==
  ASSUME IInv, QuietInv, TurnsInv, NEW p \in Run, slave[p].pc = "connect"
  PROVE  /\ SlaveLive /\ Connectable(sSock) /\ sSock = p
         /\ \A k \in 1 .. Len(backlog) : backlog[k] < p
<1>1. sSock = p /\ cli[p] = "made" /\ listening
  <2>1. p \in Active(slave)
    BY ActiveFacts
  <2> QED BY <2>1, QuietSlave DEF QuietInv
<1>2. SlaveLive /\ Connectable(sSock)
  BY <1>1, Sets DEF SlaveLive, Connectable
<1>3. ASSUME NEW k \in 1 .. Len(backlog)
      PROVE  backlog[k] < p
  <2>1. PICK b \in Run : b = backlog[k] /\ b # p /\ slave[b].pc # "start"
    BY <1>1, BacklogRuns
  <2>2. b \in Nat /\ p \in Nat \ {0}
    BY Sets
  <2>3. SlaveTurns
    BY TurnsParts
  <2>4. CASE p < b
    <3>1. p \in 1 .. b - 1
      BY <2>2, <2>4
    <3> QED BY <2>1, <2>3, <3>1 DEF SlaveTurns
  <2> QED BY <2>1, <2>2, <2>4
<1> QED BY <1>1, <1>2, <1>3

(* How a step changes the backlog and who has been accepted.                *)
LEMMA BacklogEffects ==
  ASSUME LeftAlone, IInv, QuietInv, TurnsInv, [Next]_vars
  PROVE  \/ backlog' = backlog /\ source' = source
         \/ \E p \in Run : /\ MasterAccepts(p) /\ backlog # << >> /\ p = backlog[1]
                           /\ backlog' = Tail(backlog)
                           /\ source' = [source EXCEPT ![p] = p]
         \/ \E p \in Run : /\ SlaveConnects(p) /\ source' = source
                           /\ backlog' = Append(backlog, p)
<1>0. /\ TypeOK /\ OneByOne /\ ~Reload /\ backlog \in Seq(Run)
      /\ \A r \in Run : ~MasterAborts(r) /\ ~SlaveAborts(r)
  BY LeftAloneFacts, OneByOneFacts, Sets DEF IInv, TypeOK
<1>1. CASE UNCHANGED vars
  BY <1>1 DEF vars, sockVars
<1>2. CASE \E p \in Run : Master(p)
  <2>1. PICK p \in Run : Master(p)
    BY <1>2
  <2>2. CASE MasterAccepts(p)
    <3>1. PICK c \in Run : kaccept(c) /\ source' = [source EXCEPT ![c] = p]
      BY <1>0, <2>1, <2>2, DeviceEffects
    <3>2. c = p
      BY <2>2, <3>1, AcceptsOwn
    <3>3. backlog # << >> /\ c = backlog[1] /\ backlog' = Tail(backlog)
      BY <1>0, <3>1 DEF kaccept
    <3> QED BY <2>2, <3>1, <3>2, <3>3
  <2>3. CASE ~MasterAccepts(p)
    <3>1. source' = source
      BY <1>0, <2>1, <2>3, DeviceEffects
    <3>2. backlog' = backlog
      BY <2>1, <2>3 DEF Master, MasterOpens, MasterAssigns, MasterFills, MasterMapFails,
             MasterSends, ksend, MasterSendsNothing, MasterSendFails, MasterExits, MasterExit,
             kcloseSrv, MasterStops, sockVars
    <3> QED BY <3>1, <3>2
  <2> QED BY <2>2, <2>3
<1>3. CASE \E p \in Run : Slave(p)
  <2>1. PICK p \in Run : Slave(p)
    BY <1>3
  <2>2. source' = source
    BY <1>0, <2>1, OthersKept
  <2>3. CASE SlaveConnects(p)
    <3>1. Connectable(sSock) /\ sSock = p
      BY <2>3, ConnectsLast DEF SlaveConnects
    <3>2. backlog' = Append(backlog, p)
      BY <2>3, <3>1 DEF SlaveConnects, kconnect
    <3> QED BY <2>2, <2>3, <3>2
  <2>4. CASE ~SlaveConnects(p)
    <3>1. backlog' = backlog
      BY <2>1, <2>4 DEF Slave, SlaveOpens, SlaveMakesSocket, SlaveCreateSock, ksocket, SlaveCalls,
             SlaveReceives, SlaveRecv, krecv, SlaveAtEof, SlaveRecvFails, krecvFails, SlaveStores,
             SlaveExtends, SlaveMaps, SlaveExits, SlaveExit, kcloseCli, SlaveStops, sockVars
    <3> QED BY <2>2, <3>1
  <2> QED BY <2>3, <2>4
<1> QED BY <1>0, <1>1, <1>2, <1>3, Steps

(* The backlog stays in the order of the runs, and who leaves it has been   *)
(* accepted.                                                                *)
LEMMA BacklogNext ==
  ASSUME LeftAlone, IInv, QuietInv, TurnsInv, [Next]_vars
  PROVE  /\ Increasing'
         /\ \A r \in Run : source'[r] \in {0, r}
         /\ \A r \in Run : source[r] = r \/ Waiting(r) => source'[r] = r \/ Waiting(r)'
<1>0. /\ Increasing /\ (\A r \in Run : source[r] \in {0, r}) /\ source \in [Run -> 0 .. Runs]
      /\ backlog \in Seq(Run) /\ Len(backlog) \in Nat
  BY TurnsParts, Sets, LenProperties DEF IInv, TypeOK, Turn
<1>1. CASE backlog' = backlog /\ source' = source
  BY <1>0, <1>1 DEF Increasing, Waiting
<1>2. CASE \E p \in Run : /\ MasterAccepts(p) /\ backlog # << >> /\ p = backlog[1]
                          /\ backlog' = Tail(backlog) /\ source' = [source EXCEPT ![p] = p]
  <2>1. PICK p \in Run : /\ backlog # << >> /\ p = backlog[1]
                         /\ backlog' = Tail(backlog) /\ source' = [source EXCEPT ![p] = p]
    BY <1>2
  <2>2. /\ Len(backlog') = Len(backlog) - 1 /\ Len(backlog) # 0
        /\ \A i \in 1 .. Len(backlog') : backlog'[i] = backlog[i + 1]
    BY <1>0, <2>1, EmptySeq, HeadTailProperties
  <2>3. Increasing'
    <3> SUFFICES ASSUME NEW i \in 1 .. Len(backlog'), NEW k \in 1 .. i - 1
                 PROVE  backlog'[k] < backlog'[i]
      BY DEF Increasing
    <3>1. /\ i + 1 \in 1 .. Len(backlog) /\ k + 1 \in 1 .. (i + 1) - 1
          /\ k \in 1 .. Len(backlog')
      BY <1>0, <2>2
    <3>2. backlog[k + 1] < backlog[i + 1]
      BY <1>0, <3>1 DEF Increasing
    <3> QED BY <2>2, <3>1, <3>2
  <2>4. ASSUME NEW r \in Run, source[r] = r \/ Waiting(r)
        PROVE  source'[r] = r \/ Waiting(r)'
    <3>1. CASE source[r] = r \/ r = p
      BY <1>0, <2>1, <3>1
    <3>2. CASE source[r] # r /\ r # p
      <4>1. PICK i \in 1 .. Len(backlog) : backlog[i] = r
        BY <2>4, <3>2 DEF Waiting
      <4>2. i # 1
        BY <2>1, <3>2, <4>1
      <4>3. i - 1 \in 1 .. Len(backlog') /\ (i - 1) + 1 = i
        BY <1>0, <2>2, <4>2
      <4>4. backlog'[i - 1] = r
        BY <2>2, <4>1, <4>3
      <4> QED BY <4>3, <4>4 DEF Waiting
    <3> QED BY <3>1, <3>2
  <2> QED BY <1>0, <2>1, <2>3, <2>4
<1>3. CASE \E p \in Run : SlaveConnects(p) /\ source' = source /\ backlog' = Append(backlog, p)
  <2>1. PICK p \in Run : SlaveConnects(p) /\ source' = source /\ backlog' = Append(backlog, p)
    BY <1>3
  <2>2. /\ Len(backlog') = Len(backlog) + 1 /\ backlog'[Len(backlog) + 1] = p
        /\ \A i \in 1 .. Len(backlog) : backlog'[i] = backlog[i]
    BY <1>0, <2>1, AppendProperties
  <2>3. \A k \in 1 .. Len(backlog) : backlog[k] < p
    BY <2>1, ConnectsLast DEF SlaveConnects
  <2>4. Increasing'
    <3> SUFFICES ASSUME NEW i \in 1 .. Len(backlog'), NEW k \in 1 .. i - 1
                 PROVE  backlog'[k] < backlog'[i]
      BY DEF Increasing
    <3>1. k \in 1 .. Len(backlog) /\ (i \in 1 .. Len(backlog) \/ i = Len(backlog) + 1)
      BY <1>0, <2>2
    <3> QED BY <1>0, <2>2, <2>3, <3>1 DEF Increasing
  <2>5. \A r \in Run : Waiting(r) => Waiting(r)'
    <3> SUFFICES ASSUME NEW r \in Run, Waiting(r) PROVE Waiting(r)'
      OBVIOUS
    <3>1. PICK i \in 1 .. Len(backlog) : backlog[i] = r
      BY DEF Waiting
    <3>2. i \in 1 .. Len(backlog') /\ backlog'[i] = r
      BY <1>0, <2>2, <3>1
    <3> QED BY <3>2 DEF Waiting
  <2> QED BY <1>0, <2>1, <2>4, <2>5
<1> QED BY <1>1, <1>2, <1>3, BacklogEffects

(* TurnsInv is kept.                                                        *)
LEMMA TurnsNext ==
  ASSUME LeftAlone, IInv, QuietInv, TurnsInv, [Next]_vars
  PROVE  TurnsInv'
<1>0. /\ TypeOK /\ OneByOne /\ ~Reload /\ MasterTurns /\ SlaveTurns /\ (\A r \in Run : Turn(r))
      /\ (\A r \in Run : ~MasterAborts(r) /\ ~SlaveAborts(r)) /\ NoReturn /\ listening
      /\ backlog \in Seq(Run) /\ source \in [Run -> 0 .. Runs]
  BY LeftAloneFacts, OneByOneFacts, TurnsParts, NeverBack, Sets DEF IInv, TypeOK, QuietInv
<1>1. MasterTurns' /\ SlaveTurns'
  BY <1>0, TurnsKept
<1>2. Increasing'
  BY BacklogNext
<1>3. ASSUME NEW r \in Run
      PROVE  Turn(r)'
  <2>1. source'[r] \in {0, r} /\ (source[r] = r \/ Waiting(r) => source'[r] = r \/ Waiting(r)')
    BY BacklogNext
  <2>2. source[r] = r => source'[r] = r
    BY Sets, SourceKept
  <2>3. master'[r].pc \notin {"start", "accept"} => source'[r] = r
    <3>1. CASE master[r].pc \notin {"start", "accept"}
      BY <1>0, <2>2, <3>1 DEF Turn
    <3>2. CASE master[r].pc \in {"start", "accept"} /\ master'[r].pc \notin {"start", "accept"}
      <4>1. Master(r)
        BY <1>0, <3>2, OthersKept, Steps DEF vars, slaveVars, masterVars
      <4>2. CASE MasterOpens(r)
        <5>1. master'[r].pc = "accept"
          BY <1>0, <4>2 DEF MasterOpens, TypeOK, MasterState
        <5> QED BY <3>2, <5>1
      <4>3. CASE ~MasterOpens(r)
        <5>1. MasterAccepts(r)
          BY <1>0, <3>2, <4>1, <4>3, MasterEffects DEF Master
        <5>2. PICK c \in Run : kaccept(c) /\ source' = [source EXCEPT ![c] = r]
          BY <1>0, <4>1, <5>1, DeviceEffects
        <5>3. c = r
          BY <5>1, <5>2, AcceptsOwn
        <5> QED BY <1>0, <5>2, <5>3
      <4> QED BY <4>2, <4>3
    <3> QED BY <3>1, <3>2
  <2>4. slave'[r].pc \notin {"start", "socket", "connect"} => source'[r] = r \/ Waiting(r)'
    <3>1. CASE slave[r].pc \notin {"start", "socket", "connect"}
      BY <1>0, <2>1, <3>1 DEF Turn
    <3>2. CASE slave[r].pc \in {"start", "socket", "connect"}
               /\ slave'[r].pc \notin {"start", "socket", "connect"}
      <4>1. Slave(r)
        BY <1>0, <3>2, OthersKept, Steps DEF vars, slaveVars, masterVars
      <4>2. slave[r].pc = "connect" /\ (SlaveConnects(r) \/ SlaveStops(r))
        BY <1>0, <3>2, <4>1, SlaveEffects DEF Slave
      <4>3. SlaveLive /\ Connectable(sSock) /\ sSock = r
        BY <4>2, ConnectsLast
      <4>4. SlaveConnects(r)
        BY <4>2, <4>3 DEF SlaveStops
      <4>5. backlog' = Append(backlog, r)
        BY <4>3, <4>4 DEF SlaveConnects, kconnect
      <4>6. /\ Len(backlog) + 1 \in 1 .. Len(backlog')
            /\ backlog'[Len(backlog) + 1] = r
        BY <1>0, <4>5, AppendProperties, LenProperties
      <4> QED BY <4>6 DEF Waiting
    <3> QED BY <3>1, <3>2
  <2> QED BY <2>1, <2>3, <2>4 DEF Turn
<1> QED BY <1>1, <1>2, <1>3, TurnsParts

(* It holds at the beginning.                                               *)
LEMMA TurnsInit == Init => TurnsInv
<1> SUFFICES ASSUME Init PROVE TurnsInv
  OBVIOUS
<1>1. backlog = << >> /\ source = [c \in Run |-> 0]
  BY Sets DEF Init, DeviceInit, SocketInit
<1>2. \A r \in Run : master[r].pc = "start" /\ slave[r].pc = "start"
  BY DEF Init
<1>3. Len(backlog) = 0
  BY <1>1
<1>4. \A q \in Run : 1 .. q - 1 \subseteq Run
  BY RunAssumption DEF Run
<1> QED BY <1>1, <1>2, <1>3, <1>4 DEF TurnsInv

(* What the scenarios without kills keep besides.                           *)
THEOREM OrderlyInvariance ==
  ASSUME LeftAlone
  PROVE  Spec => []OrderlyInv
<1>1. Init => OrderlyInv
  BY InvInit, QuietInit, TurnsInit DEF OrderlyInv
<1>2. OrderlyInv /\ [Next]_vars => OrderlyInv'
  <2> SUFFICES ASSUME IInv, QuietInv, TurnsInv, [Next]_vars PROVE IInv' /\ QuietInv' /\ TurnsInv'
    BY DEF OrderlyInv
  <2>1. OneByOne
    BY LeftAloneFacts DEF IInv
  <2> QED BY <2>1, InvNext, QuietNext, TurnsNext
<1> QED BY <1>1, <1>2, PTL DEF Spec

(* When the runs of each program follow one another and nobody is killed,   *)
(* the n-th run of slave gets the file of the n-th run of master, in        *)
(* whatever order the programs are started.                                 *)
THEOREM PairedInOrder ==
  ASSUME LeftAlone
  PROVE  Spec => []RunsArePaired
<1>1. OrderlyInv => RunsArePaired
  BY DEF OrderlyInv, TurnsInv, RunsArePaired
<1> QED BY <1>1, OrderlyInvariance, PTL
=============================================================================
