------------------------------ MODULE Transfer ------------------------------
(***************************************************************************)
(* master.c and slave.c over the two devices: the program master is run    *)
(* Runs times, each time with a file and a method, and so is slave; the    *)
(* two sequences of runs are not synchronized with each other.  Runs of    *)
(* one program may overlap and then share the socket of their device;      *)
(* either program may be killed; master_device may be removed and inserted *)
(* again while no master has it open.                                      *)
(*                                                                         *)
(* Byte i of the input of master run r is the pair <<r, i>>: every byte of *)
(* every output can be traced to where it came from.                       *)
(***************************************************************************)
EXTENDS Devices, FiniteSets

CONSTANTS
  Runs,       \* how often each program is run
  Scenarios,  \* what the users may do: see Scenario
  MaxErrors   \* bound: errors of read() that one slave counts

Run == 1 .. Runs
Method == {"fcntl", "mmap"}

(***************************************************************************)
(* The sizes of the input files, the methods given to the programs, and    *)
(* what may happen: "kill": programs are killed; "masters", "slaves": runs *)
(* of that program overlap; "reload": master_device is removed and         *)
(* inserted again; "memory": sock_create() fails for a program.            *)
(***************************************************************************)
Scenario ==
  [sizes : SUBSET Nat, masterMethods : SUBSET Method, slaveMethods : SUBSET Method,
   may : SUBSET {"kill", "masters", "slaves", "reload", "memory"}]

ASSUME RunAssumption == Runs \in Nat /\ Conn = Run /\ File = Run
ASSUME ScenarioAssumption == Scenarios \subseteq Scenario
ASSUME ErrorAssumption == MaxErrors \in Nat \ {0}

VARIABLES
  scenario,  \* the scenario of this behaviour
  fileLen,   \* size of the input file of each master run
  master,    \* the local state of each run of master
  slave,     \* the local state of each run of slave
  file,      \* the output file of each slave run
  file_size, \* what each slave run prints as the file size
  source,    \* the master run that accepted each connection (history)
  disturbed  \* runs that overlapped another run of their program (history)

vars == <<sockVars, devVars, scenario, fileLen, master, slave, file, file_size, source, disturbed>>

Ending == {"not yet", "ok", "failed", "killed"}
Byte == (0 .. Runs) \X Nat
MaybeSock == Conn \cup {NoSock}
Min(a, b) == IF a < b THEN a ELSE b

\* offset: bytes of the input file taken so far; size: bytes to be sent by the
\* call under way; sent: how many of them are queued; sk: the socket of the call,
\* or what kaccept() has returned.
MasterState ==
  [pc : {"start", "accept", "assign", "fill", "send", "exit", "over"},
   method : Method, offset : Nat, size : 0 .. PageSize, sent : 0 .. PageSize,
   sk : MaybeSock, end : Ending]

\* len: what krecv() has returned; sk: the socket of the call under way.
SlaveState ==
  [pc : {"start", "socket", "connect", "call", "recv", "store", "extend", "map",
         "exit", "over"},
   method : Method, len : 0 .. PageSize, sk : MaybeSock, end : Ending]

TypeOK ==
  /\ listening \in BOOLEAN
  /\ cli \in [Conn -> CliState] /\ srv \in [Conn -> SrvState]
  /\ stream \in [Conn -> Seq(Byte)] /\ backlog \in Seq(Conn)
  /\ \A c \in Conn : Len(stream[c]) <= SockBuf
  /\ mSock \in MaybeSock /\ sSock \in MaybeSock
  /\ mPage \in [File -> [1 .. PageSize -> Byte]]
  /\ sPage \in [File -> [1 .. PageSize -> Byte]]
  /\ scenario \in Scenarios /\ fileLen \in [Run -> Nat]
  /\ master \in [Run -> MasterState] /\ slave \in [Run -> SlaveState]
  /\ file \in [Run -> Seq(Byte)] /\ file_size \in [Run -> Int]
  /\ source \in [Conn -> 0 .. Runs]
  /\ disturbed \subseteq {"masters", "slaves"} \X Run

Init ==
  /\ DeviceInit
  /\ scenario \in Scenarios
  /\ fileLen \in [Run -> scenario.sizes]
  /\ master = [r \in Run |-> [pc |-> "start", method |-> "fcntl", offset |-> 0, size |-> 0,
                              sent |-> 0, sk |-> NoSock, end |-> "not yet"]]
  /\ slave = [r \in Run |-> [pc |-> "start", method |-> "fcntl", len |-> 0, sk |-> NoSock,
                             end |-> "not yet"]]
  /\ file = [r \in Run |-> << >>]
  /\ file_size = [r \in Run |-> 0]
  /\ source = [c \in Conn |-> 0]
  /\ disturbed = {}

\* Who has the device open, and who may be started.
Active(prog) == {r \in Run : prog[r].pc \notin {"start", "over"}}
Startable(name, prog, r) ==
  /\ prog[r].pc = "start"
  /\ \A q \in 1 .. r - 1 : prog[q].pc # "start"
  /\ name \in scenario.may \/ Active(prog) = {}
Overlaps(name, prog, r) ==
  IF Active(prog) = {} THEN {} ELSE {name} \X (Active(prog) \cup {r})

-----------------------------------------------------------------------------
(* master.c                                                                *)

slaveVars == <<slave, file, file_size, fileLen, scenario>>
histVars == <<source, disturbed>>

MasterTo(r, pc) == master' = [master EXCEPT ![r].pc = pc]
MasterEnds(r, how) == master' = [master EXCEPT ![r].pc = "over", ![r].end = how]
remain(r) == fileLen[r] - master[r].offset

\* The device and the input file are opened; without the module there is no device.
MasterOpens(r) ==
  /\ Startable("masters", master, r)
  /\ disturbed' = disturbed \cup Overlaps("masters", master, r)
  /\ \/ /\ listening
        /\ master_open(r)
        /\ \E m \in scenario.masterMethods :
             master' = [master EXCEPT ![r].pc = "accept", ![r].method = m]
     \/ /\ ~listening
        /\ MasterEnds(r, "failed")
        /\ UNCHANGED devVars
  /\ UNCHANGED <<sockVars, slaveVars, source>>

\* Mutant of MasterAccepts: a sockfd_cli that is set is taken for a connection.
MasterAcceptsOnce(r) ==
  /\ master[r].pc = "accept"
  /\ IF mSock = NoSock
     THEN \E c \in Conn :
            /\ kaccept(c)
            /\ source' = [source EXCEPT ![c] = r]
            /\ master' = [master EXCEPT ![r].pc = "assign", ![r].sk = c]
     ELSE MasterTo(r, "fill") /\ UNCHANGED <<sockVars, source>>
  /\ UNCHANGED <<devVars, slaveVars, disturbed>>

\* ioctl 0x12345677 waits for a slave,
MasterAccepts(r) ==
  /\ master[r].pc = "accept"
  /\ \E c \in Conn :
       /\ kaccept(c)
       /\ source' = [source EXCEPT ![c] = r]
       /\ master' = [master EXCEPT ![r].pc = "assign", ![r].sk = c]
  /\ UNCHANGED <<devVars, slaveVars, disturbed>>

\* and sets sockfd_cli.
MasterAssigns(r) ==
  /\ master[r].pc = "assign"
  /\ MasterAssign(master[r].sk)
  /\ MasterTo(r, "fill")
  /\ UNCHANGED <<sockVars, slaveVars, histVars>>

\* read() into buf, or mmap() of the next part of the file and memcpy() to the
\* page of the device; then write() to the device or ioctl 0x12345678, which take
\* sockfd_cli and call ksend().  read() returns 0 at the end of the file.
Fresh == {master[q].sk : q \in {q \in Run : master[q].pc = "assign"}}
part(r) == Min(remain(r), PageSize)
Unmappable(r) == master[r].method = "mmap" /\ part(r) = 0

MasterFills(r) ==
  /\ master[r].pc = "fill"
  /\ ~Unmappable(r)
  /\ LET off == master[r].offset
         bytes == [i \in 1 .. part(r) |-> <<r, off + i>>]
     IN \E c \in MasterSock(Fresh) :
          /\ mPage' = [mPage EXCEPT ![r] = Overlay(bytes, @)]
          /\ master' = [master EXCEPT ![r].pc = "send", ![r].offset = off + part(r),
                                      ![r].size = part(r), ![r].sent = 0, ![r].sk = c]
  /\ UNCHANGED <<sockVars, mSock, sSock, sPage, slaveVars, histVars>>

\* mmap() of 0 bytes of the file fails, and master returns.
MasterMapFails(r) ==
  /\ master[r].pc = "fill"
  /\ Unmappable(r)
  /\ MasterEnds(r, "failed")
  /\ UNCHANGED <<sockVars, devVars, slaveVars, histVars>>

\* The mmap loop ends with the last byte of the file, the read loop when read()
\* has returned 0.
AfterSend(r) ==
  IF (IF master[r].method = "mmap" THEN remain(r) = 0 ELSE master[r].size = 0)
  THEN "exit" ELSE "fill"

\* ksend() queues byte after byte and returns with the last,
MasterSends(r) ==
  /\ master[r].pc = "send"
  /\ master[r].size > 0
  /\ ksend(master[r].sk, mPage[r][master[r].sent + 1])
  /\ master' = [master EXCEPT ![r].sent = @ + 1,
                  ![r].pc = IF master[r].sent + 1 = master[r].size THEN AfterSend(r) ELSE @]
  /\ UNCHANGED <<devVars, slaveVars, histVars>>

\* or at once if there is nothing to send.
MasterSendsNothing(r) ==
  /\ master[r].pc = "send"
  /\ master[r].size = 0
  /\ MasterTo(r, AfterSend(r))
  /\ UNCHANGED <<sockVars, devVars, slaveVars, histVars>>

\* The slave is gone: the error is ignored, or SIGPIPE ends the program.
MasterSendFails(r) ==
  /\ master[r].pc = "send"
  /\ Broken(master[r].sk)
  /\ MasterTo(r, AfterSend(r)) \/ MasterEnds(r, "killed")
  /\ UNCHANGED <<sockVars, devVars, slaveVars, histVars>>

\* ioctl 0x12345679, and the end of the program.
MasterExits(r) ==
  /\ master[r].pc = "exit"
  /\ \E c \in MasterSock(Fresh) : MasterExit(c)
  /\ MasterEnds(r, "ok")
  /\ UNCHANGED <<slaveVars, histVars>>

\* Another master has closed the socket this one is going to use, or waits on.
MasterStops(r) ==
  /\ \/ master[r].pc = "fill" /\ ~Unmappable(r) /\ ~MasterLive
     \/ master[r].pc = "exit" /\ ~MasterLive
     \/ master[r].pc = "send" /\ srv[master[r].sk] = "closed"
  /\ MasterEnds(r, "killed")
  /\ UNCHANGED <<sockVars, devVars, slaveVars, histVars>>

\* Mutant of MasterKilled: releasing the device closes the connection.
MasterKilledCloses(r) ==
  /\ "kill" \in scenario.may
  /\ r \in Active(master)
  /\ master[r].pc # "accept"
  /\ MasterLive
  /\ MasterExit(mSock)
  /\ MasterEnds(r, "killed")
  /\ UNCHANGED <<slaveVars, histVars>>

\* The program is killed; the device's socket stays open.  An accept() that is
\* interrupted returns NULL to sockfd_cli, one that is over is assigned.
MasterKilled(r) ==
  /\ "kill" \in scenario.may
  /\ r \in Active(master)
  /\ mSock' = CASE master[r].pc = "accept" -> NoSock
                [] master[r].pc = "assign" -> master[r].sk
                [] OTHER -> mSock
  /\ MasterEnds(r, "killed")
  /\ UNCHANGED <<sockVars, sSock, mPage, sPage, slaveVars, histVars>>

\* kaccept() finds no memory for a socket, before it looks at the backlog, and
\* returns NULL to sockfd_cli.
MasterAcceptFails(r) ==
  /\ "memory" \in scenario.may
  /\ master[r].pc = "accept"
  /\ mSock' = NoSock
  /\ MasterEnds(r, "failed")
  /\ UNCHANGED <<sockVars, sSock, mPage, sPage, slaveVars, histVars>>

MasterAborts(r) == MasterKilled(r) \/ MasterAcceptFails(r)

Master(r) ==
  \/ MasterOpens(r) \/ MasterAccepts(r) \/ MasterAssigns(r) \/ MasterFills(r)
  \/ MasterMapFails(r) \/ MasterSends(r) \/ MasterSendsNothing(r)
  \/ MasterSendFails(r) \/ MasterExits(r) \/ MasterStops(r)

\* rmmod needs a device nobody has open.
Reload ==
  /\ "reload" \in scenario.may
  /\ Active(master) = {}
  /\ IF listening THEN master_exit ELSE master_init
  /\ UNCHANGED <<master, slaveVars, histVars>>

-----------------------------------------------------------------------------
(* slave.c                                                                 *)

masterVars == <<master, fileLen, scenario>>

SlaveTo(r, pc) == slave' = [slave EXCEPT ![r].pc = pc]
SlaveEnds(r, how) == slave' = [slave EXCEPT ![r].pc = "over", ![r].end = how]

\* The device is opened and the output file created.
SlaveOpens(r) ==
  /\ Startable("slaves", slave, r)
  /\ disturbed' = disturbed \cup Overlaps("slaves", slave, r)
  /\ slave_open(r)
  /\ \E m \in scenario.slaveMethods : slave' = [slave EXCEPT ![r].pc = "socket", ![r].method = m]
  /\ UNCHANGED <<sockVars, masterVars, file, file_size, source>>

\* ioctl 0x12345677 makes a socket
SlaveMakesSocket(r) ==
  /\ slave[r].pc = "socket"
  /\ SlaveCreateSock(r)
  /\ SlaveTo(r, "connect")
  /\ UNCHANGED <<masterVars, file, file_size, histVars>>

\* and connects sockfd_cli; the master need not be running, its device must.
SlaveConnects(r) ==
  /\ slave[r].pc = "connect"
  /\ SlaveLive
  /\ IF Connectable(sSock)
     THEN kconnect(sSock) /\ SlaveTo(r, "call")
     ELSE SlaveEnds(r, "failed") /\ UNCHANGED sockVars
  /\ UNCHANGED <<devVars, masterVars, file, file_size, histVars>>

\* read() from the device or ioctl 0x12345678 read sockfd_cli and call krecv().
SlaveCalls(r) ==
  /\ slave[r].pc = "call"
  /\ SlaveLive
  /\ slave' = [slave EXCEPT ![r].pc = "recv", ![r].sk = sSock]
  /\ UNCHANGED <<sockVars, devVars, masterVars, file, file_size, histVars>>

SlaveReceives(r) ==
  /\ slave[r].pc = "recv"
  /\ \E n \in 1 .. PageSize :
       /\ SlaveRecv(r, slave[r].sk, n)
       /\ slave' = [slave EXCEPT ![r].len = n,
                      ![r].pc = IF slave[r].method = "fcntl" THEN "store" ELSE "extend"]
  /\ UNCHANGED <<masterVars, file, file_size, histVars>>

\* They return 0.
SlaveAtEof(r) ==
  /\ slave[r].pc = "recv"
  /\ AtEof(slave[r].sk)
  /\ slave' = [slave EXCEPT ![r].pc = "exit", ![r].len = 0]
  /\ UNCHANGED <<sockVars, devVars, masterVars, file, file_size, histVars>>

\* They fail.  The read loop takes the -1 for a length: nothing is written, 1 is
\* subtracted from file_size, and the loop goes on.
SlaveRecvFails(r) ==
  /\ slave[r].pc = "recv"
  /\ krecvFails(slave[r].sk)
  /\ IF slave[r].method = "fcntl"
     THEN /\ file_size[r] > -MaxErrors
          /\ file_size' = [file_size EXCEPT ![r] = @ - 1]
          /\ SlaveTo(r, "call")
     ELSE SlaveEnds(r, "failed") /\ UNCHANGED file_size
  /\ UNCHANGED <<devVars, masterVars, file, histVars>>

\* Mutant of SlaveStores: the whole buffer is written.
SlaveStoresPage(r) ==
  /\ slave[r].pc = "store"
  /\ file' = [file EXCEPT ![r] = @ \o sPage[r]]
  /\ file_size' = [file_size EXCEPT ![r] = @ + PageSize]
  /\ SlaveTo(r, "call")
  /\ UNCHANGED <<sockVars, devVars, masterVars, histVars>>

\* fcntl: write() of what was read.
SlaveStores(r) ==
  /\ slave[r].pc = "store"
  /\ file' = [file EXCEPT ![r] = @ \o SubSeq(sPage[r], 1, slave[r].len)]
  /\ file_size' = [file_size EXCEPT ![r] = @ + slave[r].len]
  /\ SlaveTo(r, "call")
  /\ UNCHANGED <<sockVars, devVars, masterVars, histVars>>

\* mmap: lseek() and write() make the file len bytes longer.
SlaveExtends(r) ==
  /\ slave[r].pc = "extend"
  /\ file' = [file EXCEPT ![r] = @ \o [i \in 1 .. slave[r].len |-> Zero]]
  /\ SlaveTo(r, "map")
  /\ UNCHANGED <<sockVars, devVars, masterVars, file_size, histVars>>

\* mmap: mmap() of the file at offset (which equals file_size) and memcpy();
\* mmap() refuses an offset that is not on a page boundary.
SlaveMaps(r) ==
  /\ slave[r].pc = "map"
  /\ LET at == file_size[r]
         n == slave[r].len
     IN IF at % PageSize = 0
        THEN /\ file' = [file EXCEPT ![r] =
                  [i \in DOMAIN @ |-> IF i \in at + 1 .. at + n THEN sPage[r][i - at] ELSE @[i]]]
             /\ file_size' = [file_size EXCEPT ![r] = at + n]
             /\ SlaveTo(r, "call")
        ELSE SlaveTo(r, "exit") /\ UNCHANGED <<file, file_size>>
  /\ UNCHANGED <<sockVars, devVars, masterVars, histVars>>

\* ioctl 0x12345679, and the end of the program.
SlaveExits(r) ==
  /\ slave[r].pc = "exit"
  /\ SlaveLive
  /\ SlaveExit
  /\ SlaveEnds(r, "ok")
  /\ UNCHANGED <<masterVars, file, file_size, histVars>>

\* Another slave has closed the socket this one is going to use, or waits on.
SlaveStops(r) ==
  /\ \/ slave[r].pc \in {"connect", "call", "exit"} /\ ~SlaveLive
     \/ slave[r].pc = "recv" /\ cli[slave[r].sk] = "closed"
  /\ SlaveEnds(r, "killed")
  /\ UNCHANGED <<sockVars, devVars, masterVars, file, file_size, histVars>>

\* The program is killed; the device's socket stays open.
SlaveKilled(r) ==
  /\ "kill" \in scenario.may
  /\ r \in Active(slave)
  /\ SlaveEnds(r, "killed")
  /\ UNCHANGED <<sockVars, devVars, masterVars, file, file_size, histVars>>

\* ksocket() finds no memory and returns NULL to sockfd_cli.
SlaveSocketFails(r) ==
  /\ "memory" \in scenario.may
  /\ slave[r].pc = "socket"
  /\ sSock' = NoSock
  /\ SlaveEnds(r, "failed")
  /\ UNCHANGED <<sockVars, mSock, mPage, sPage, masterVars, file, file_size, histVars>>

SlaveAborts(r) == SlaveKilled(r) \/ SlaveSocketFails(r)

Slave(r) ==
  \/ SlaveOpens(r) \/ SlaveMakesSocket(r) \/ SlaveConnects(r) \/ SlaveCalls(r)
  \/ SlaveReceives(r) \/ SlaveAtEof(r) \/ SlaveRecvFails(r) \/ SlaveStores(r)
  \/ SlaveExtends(r) \/ SlaveMaps(r) \/ SlaveExits(r) \/ SlaveStops(r)

Next == Reload \/ \E r \in Run : Master(r) \/ Slave(r) \/ MasterAborts(r) \/ SlaveAborts(r)

Spec == Init /\ [][Next]_vars

\* Each program is run by the kernel as long as it is not blocked; nobody has
\* to be killed or to run out of memory.
FairSpec == Spec /\ \A r \in Run : WF_vars(Master(r)) /\ WF_vars(Slave(r))

-----------------------------------------------------------------------------
Input(r) == [i \in 1 .. fileLen[r] |-> <<r, i>>]
Undisturbed(r) ==
  /\ <<"slaves", r>> \notin disturbed
  /\ <<"masters", source[r]>> \notin disturbed

(* What a slave has stored and counted is the beginning of the file of the *)
(* one master that accepted its connection, never a mixture of two runs,    *)
(* however ksend() and krecv() cut the stream, whoever was killed before,   *)
(* and whatever runs that overlapped did to the shared socket before.       *)
StoredIsPrefix ==
  \A r \in Run :
    Undisturbed(r) /\ file_size[r] > 0 =>
      /\ source[r] # 0
      /\ file_size[r] <= Min(Len(file[r]), fileLen[source[r]])
      /\ SubSeq(file[r], 1, file_size[r]) = SubSeq(Input(source[r]), 1, file_size[r])

(* A slave that uses read() and ends normally has the whole file of a       *)
(* master; one whose read() has failed does not end as if it had: the size  *)
(* it prints is negative, it has stored nothing, and no master had its      *)
(* connection.  Neither a killed master nor a removed device is taken for   *)
(* the end of a file.                                                       *)
ReadSlaveIsComplete ==
  \A r \in Run :
    slave[r].end = "ok" /\ slave[r].method = "fcntl" /\ Undisturbed(r) =>
      IF file_size[r] < 0
      THEN source[r] = 0 /\ file[r] = << >>
      ELSE /\ source[r] # 0
           /\ file[r] = Input(source[r])
           /\ file_size[r] = fileLen[source[r]]

(* Even slaves that read one socket at the same time, from masters that     *)
(* write to one: no byte of any file is stored twice.                       *)
NoByteTwice ==
  \A r, q \in Run : \A i \in DOMAIN file[r], k \in DOMAIN file[q] :
    file[r][i] = file[q][k] => <<r, i>> = <<q, k>> \/ file[r][i] = Zero

(* Without kills the n-th run of slave gets the file of the n-th run of     *)
(* master, in whatever order the programs are started, and no master goes   *)
(* on to send before it has accepted the slave of its own number.           *)
RunsArePaired ==
  \A r \in Run :
    /\ source[r] \in {0, r}
    /\ master[r].pc \notin {"start", "accept"} => source[r] = r

(* The order of execution does not matter (README.txt): both programs get   *)
(* through all their runs - up to one of master with mmap and an empty      *)
(* file, which leaves the slave of its connection waiting.                  *)
Through(prog) == \A r \in Run : prog[r].pc = "over"
BothEnd ==
  <>(\/ Through(master) /\ Through(slave)
     \/ \E r \in Run : /\ fileLen[r] = 0 /\ master[r].method = "mmap"
                       /\ master[r].end = "failed")

(* slave.c prints the size of the file it has received.                     *)
SizeIsTrue == \A r \in Run : slave[r].end = "ok" => file_size[r] = Len(file[r])

(* Seen from outside, each run of slave copies the file of one run of       *)
(* master.                                                                  *)
Copy == INSTANCE FileCopy WITH
  from <- source,
  out  <- [r \in Run |-> SubSeq(file[r], 1, file_size[r])],
  done <- {r \in Run : slave[r].end = "ok" /\ slave[r].method = "fcntl"}
ImplementsCopy == Copy!Spec
=============================================================================
