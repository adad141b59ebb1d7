----------------------------- MODULE TransferInv -----------------------------
(***************************************************************************)
(* The inductive invariant behind the safety properties of master.c and    *)
(* slave.c.                                                                *)
(*                                                                         *)
(* What a slave has stored, what is in its page, what is in the stream of  *)
(* its connection and what its master has not queued yet are consecutive   *)
(* parts of one file (FlowInv), as long as neither run has overlapped with *)
(* another: then the device's socket is the run's own, and no later run    *)
(* touches it (MasterInv, SlaveInv).  Whatever overlaps, a byte is in one  *)
(* place at a time (BytesInv).                                             *)
(***************************************************************************)
EXTENDS Transfer

Alone(name, r) == <<name, r>> \notin disturbed

Assigned == {"fill", "send", "exit"}                  \* sockfd_cli has been set
HasPage == {"store", "extend", "map"}                 \* received and not stored
Receiving == {"call", "recv"} \cup HasPage            \* connected, not at the end

\* How many bytes of the file of master run r are queued; how many bytes slave
\* run c has taken from its connection.
Queued(r) == IF master[r].pc = "send"
             THEN master[r].offset - master[r].size + master[r].sent
             ELSE master[r].offset
Taken(c) == file_size[c] + IF slave[c].pc \in HasPage THEN slave[c].len ELSE 0

(* Each master's books: what it has read, what it sends, what is in its page. *)
BooksInv ==
  \A r \in Run :
    /\ master[r].pc \in {"start", "accept", "assign"} => master[r].offset = 0
    /\ master[r].offset <= fileLen[r]
    /\ master[r].pc = "exit" => master[r].offset = fileLen[r]
    /\ master[r].pc = "send" =>
         /\ master[r].size <= master[r].offset
         /\ master[r].sent <= master[r].size
         /\ master[r].sent = master[r].size => master[r].size = 0
         /\ master[r].size = 0 => master[r].offset = fileLen[r]
         /\ \A i \in 1 .. master[r].size :
              mPage[r][i] = <<r, master[r].offset - master[r].size + i>>

(* Each connection goes from made to the backlog, to one master, to closed;  *)
(* bytes are in it only when a master has it.                                *)
ConnInv ==
  /\ \A c \in Conn :
       /\ slave[c].pc \in {"start", "socket"} => cli[c] = "none"
       /\ cli[c] \in {"none", "made"} =>
            source[c] = 0 /\ srv[c] = "none" /\ \A i \in 1 .. Len(backlog) : backlog[i] # c
       /\ source[c] = 0 => stream[c] = << >> /\ srv[c] # "open"
       /\ source[c] # 0 => /\ srv[c] \in {"open", "closed"}
                           /\ master[source[c]].pc \notin {"start", "accept"}
  /\ \A c, d \in Conn : source[c] = source[d] => c = d \/ source[c] = 0
  /\ \A i \in 1 .. Len(backlog) :
       /\ source[backlog[i]] = 0 /\ srv[backlog[i]] = "none"
       /\ \A k \in 1 .. Len(backlog) : backlog[i] = backlog[k] => i = k

(* The sockets of the masters.  A run that is alone has the device's socket  *)
(* to itself, and none of the runs that are active now uses a connection of  *)
(* a run that was alone.                                                     *)
MasterInv ==
  /\ mSock # NoSock => source[mSock] # 0
  /\ \A r \in Run :
       /\ master[r].pc \in {"assign", "send"} =>
            master[r].sk # NoSock /\ source[master[r].sk] # 0
       /\ master[r].pc = "assign" => source[master[r].sk] = r
       /\ Alone("masters", r) =>
            /\ r \in Active(master) =>
                 /\ Active(master) = {r}
                 /\ master[r].pc \in Assigned => mSock # NoSock /\ source[mSock] = r
                 /\ master[r].pc = "send" => master[r].sk = mSock
                 /\ \A c \in Conn : source[c] = r => srv[c] = "open"
            /\ \A q \in Active(master) \ {r} :
                 /\ master[q].pc \in Assigned /\ mSock # NoSock => source[mSock] # r
                 /\ master[q].pc = "send" => source[master[q].sk] # r

(* The same of the slaves.                                                   *)
SlaveInv ==
  /\ sSock # NoSock => slave[sSock].pc \notin {"start", "socket"}
  /\ \A r \in Run :
       /\ slave[r].pc = "recv" =>
            slave[r].sk # NoSock /\ slave[slave[r].sk].pc \notin {"start", "socket"}
       /\ slave[r].pc = "store" => slave[r].method = "fcntl"
       /\ slave[r].pc \in {"extend", "map"} => slave[r].method = "mmap"
       /\ slave[r].end = "ok" => slave[r].pc = "over"
       /\ Alone("slaves", r) =>
            /\ r \in Active(slave) =>
                 /\ Active(slave) = {r}
                 /\ slave[r].pc # "socket" => sSock = r
                 /\ slave[r].pc = "recv" => slave[r].sk = r
            /\ \A q \in Active(slave) \ {r} :
                 /\ slave[q].pc # "socket" => sSock # r
                 /\ slave[q].pc = "recv" => slave[q].sk # r

\* While slave run c reads its connection, page and stream go on where the file
\* ends, up to what its master has queued.
InOrder(c) ==
  LET m == source[c]
  IN /\ cli[c] = "open"
     /\ slave[c].pc \in HasPage =>
          m # 0 /\ \A i \in 1 .. slave[c].len : sPage[c][i] = <<m, file_size[c] + i>>
     /\ m # 0 =>
          /\ \A i \in 1 .. Len(stream[c]) : stream[c][i] = <<m, Taken(c) + i>>
          /\ Taken(c) + Len(stream[c]) <= fileLen[m]
          /\ m \in Active(master) => Taken(c) + Len(stream[c]) = Queued(m)
          /\ srv[c] = "closed" => Taken(c) + Len(stream[c]) = fileLen[m]
     /\ m = 0 /\ srv[c] = "closed" /\ slave[c].method = "fcntl" => file_size[c] < 0

\* What slave run c has in its file.
Stored(c) ==
  LET m == source[c]
  IN /\ m = 0 => /\ file_size[c] <= 0 /\ file[c] = << >>
                 /\ srv[c] = "none" => file_size[c] = 0
     /\ m # 0 => /\ file_size[c] \in 0 .. Len(file[c])
                 /\ file_size[c] <= fileLen[m]
                 /\ \A i \in 1 .. file_size[c] : file[c][i] = <<m, i>>
     /\ m # 0 /\ slave[c].method = "fcntl" => Len(file[c]) = file_size[c]
     /\ slave[c].method = "mmap" /\ slave[c].pc \in Receiving =>
          Len(file[c]) = file_size[c] + IF slave[c].pc = "map" THEN slave[c].len ELSE 0
     /\ slave[c].method = "fcntl" /\ (slave[c].pc = "exit" \/ slave[c].end = "ok") =>
          file_size[c] < 0 \/ (m # 0 /\ file_size[c] = fileLen[m])

FlowInv ==
  \A c \in Run : Undisturbed(c) =>
    /\ slave[c].pc \in Receiving => InOrder(c)
    /\ slave[c].pc \in {"start", "socket", "connect"} => file[c] = << >> /\ file_size[c] = 0
    /\ Stored(c)

\* The places where bytes of the files are: output files, pages of slaves, streams.
Kind == {"file", "page", "stream"}
Width(kind, r) ==
  CASE kind = "file" -> Len(file[r])
    [] kind = "page" -> IF slave[r].pc \in HasPage THEN slave[r].len ELSE 0
    [] kind = "stream" -> Len(stream[r])
Places == UNION {{<<kind, r, i>> : i \in 1 .. Width(kind, r)} : kind \in Kind, r \in Run}
Held(p) == CASE p[1] = "file" -> file[p[2]][p[3]]
             [] p[1] = "page" -> sPage[p[2]][p[3]]
             [] p[1] = "stream" -> stream[p[2]][p[3]]

(* Every byte in the system has been queued by its master, and is in one     *)
(* place.                                                                    *)
BytesInv ==
  /\ \A p \in Places :
       Held(p) # Zero => Held(p)[1] \in Run /\ Held(p)[2] <= Queued(Held(p)[1])
  /\ \A p, q \in Places : Held(p) = Held(q) => p = q \/ Held(p) = Zero

(* Part, page, connection and socket stay in step in every run of master.c   *)
(* and slave.c, whatever the users do.                                       *)
IInv ==
  /\ TypeOK /\ BooksInv /\ ConnInv /\ MasterInv /\ SlaveInv /\ FlowInv /\ BytesInv

-----------------------------------------------------------------------------
(* What holds besides when the scenarios have no overlaps and no reloads,    *)
(* and when they have no kills and no want of memory either.                 *)
OneByOne == \A s \in Scenarios : s.may \subseteq {"kill", "memory"}
LeftAlone == \A s \in Scenarios : s.may = {}

(* Runs of one program that do not overlap, under a device that stays: no    *)
(* connection is reset, none is refused, and read() never fails.             *)
QuietInv ==
  /\ disturbed = {} /\ listening
  /\ \A c \in Conn : srv[c] # "reset"
  /\ \A r \in Run : file_size[r] >= 0 /\ (slave[r].pc = "connect" => cli[r] = "made")

(* If moreover no program aborts, the runs of each program take their turns, *)
(* every slave gets into the backlog, and every master accepts the first of  *)
(* it, which is the slave of its own number.                                 *)
TurnsInv ==
  /\ \A q \in Run : \A r \in 1 .. q - 1 :
       /\ master[q].pc # "start" => master[r].pc = "over"
       /\ slave[q].pc # "start" => slave[r].pc = "over"
  /\ \A i \in 1 .. Len(backlog) : \A k \in 1 .. i - 1 : backlog[k] < backlog[i]
  /\ \A r \in Run :
       /\ source[r] \in {0, r}
       /\ master[r].pc \notin {"start", "accept"} => source[r] = r
       /\ slave[r].pc \notin {"start", "socket", "connect"} =>
            source[r] = r \/ \E i \in 1 .. Len(backlog) : backlog[i] = r

(* All of it: each step of master.c and slave.c finds its own run's socket   *)
(* and the next bytes of its own file there, and the n-th slave is accepted  *)
(* by the n-th master.                                                       *)
OrderlyInv == IInv /\ QuietInv /\ TurnsInv
=============================================================================
