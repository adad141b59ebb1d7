------------------------------- MODULE KSocket ------------------------------
(***************************************************************************)
(* ksocket.c, the kernel-space socket wrappers, together with the TCP      *)
(* connections underneath: a listening socket with its backlog and, per    *)
(* connection, two ends and the byte stream from the master to the slave   *)
(* (nothing is ever sent the other way).  TCP keeps bytes in order and     *)
(* loses none, and forgets where one ksend() ended and the next began.     *)
(***************************************************************************)
EXTENDS Integers, Sequences

CONSTANTS
  Conn,     \* sockets the slaves may make, and the connections made of them
  SockBuf   \* bytes the socket buffers and the network hold

ASSUME SockBufAssumption == SockBuf \in Nat \ {0}

VARIABLES
  listening, \* whether the master's listening socket exists
  cli,       \* the slave's end of each connection
  srv,       \* the master's end of each connection
  stream,    \* bytes sent and not received
  backlog    \* connections made and not accepted

sockVars == <<listening, cli, srv, stream, backlog>>

CliState == {"none", "made", "open", "closed"}
SrvState == {"none", "open", "closed", "reset"}

SocketInit ==
  /\ listening = TRUE
  /\ cli = [c \in Conn |-> "none"]
  /\ srv = [c \in Conn |-> "none"]
  /\ stream = [c \in Conn |-> << >>]
  /\ backlog = << >>

\* ksocket() of the slave.
ksocket(c) ==
  /\ cli' = [cli EXCEPT ![c] = "made"]
  /\ UNCHANGED <<listening, srv, stream, backlog>>

\* connect() succeeds as soon as the connection is in the backlog; it is refused
\* without a listener, and on a socket that is connected already.
Connectable(c) == listening /\ cli[c] = "made"

kconnect(c) ==
  /\ Connectable(c)
  /\ cli' = [cli EXCEPT ![c] = "open"]
  /\ backlog' = Append(backlog, c)
  /\ UNCHANGED <<listening, srv, stream>>

\* accept() takes the oldest connection and blocks when there is none.
kaccept(c) ==
  /\ backlog # << >>
  /\ c = Head(backlog)
  /\ backlog' = Tail(backlog)
  /\ srv' = [srv EXCEPT ![c] = "open"]
  /\ UNCHANGED <<listening, cli, stream>>

\* sendmsg() on a blocking socket: the next byte is queued when there is room.
ksend(c, byte) ==
  /\ srv[c] = "open" /\ cli[c] = "open"
  /\ Len(stream[c]) < SockBuf
  /\ stream' = [stream EXCEPT ![c] = Append(@, byte)]
  /\ UNCHANGED <<listening, cli, srv, backlog>>

\* sendmsg() finds the connection shut by the peer.
Broken(c) == srv[c] = "open" /\ cli[c] = "closed"

\* Mutant of krecv: the bytes stay in the socket.
krecvPeeks(c, n, length) ==
  /\ cli[c] = "open"
  /\ n \in 1 .. length
  /\ n <= Len(stream[c])
  /\ UNCHANGED sockVars

\* recvmsg() returns some of the bytes that are there, at most length of them.
krecv(c, n, length) ==
  /\ cli[c] = "open"
  /\ n \in 1 .. length
  /\ n <= Len(stream[c])
  /\ stream' = [stream EXCEPT ![c] = SubSeq(@, n + 1, Len(@))]
  /\ UNCHANGED <<listening, cli, srv, backlog>>

\* recvmsg() returns 0: the peer has closed and everything has been read.
AtEof(c) == cli[c] = "open" /\ srv[c] = "closed" /\ stream[c] = << >>

\* recvmsg() fails: on a socket that is not connected, every time; after a
\* reset, once.
krecvFails(c) ==
  /\ cli[c] = "made" \/ (cli[c] = "open" /\ srv[c] = "reset")
  /\ srv' = [srv EXCEPT ![c] = IF @ = "reset" THEN "closed" ELSE @]
  /\ UNCHANGED <<listening, cli, stream, backlog>>

\* kclose() of an end; bytes the slave has not read are lost with its end.
kcloseSrv(c) ==
  /\ srv' = [srv EXCEPT ![c] = "closed"]
  /\ UNCHANGED <<listening, cli, stream, backlog>>

kcloseCli(c) ==
  /\ cli' = [cli EXCEPT ![c] = "closed"]
  /\ stream' = [stream EXCEPT ![c] = << >>]
  /\ UNCHANGED <<listening, srv, backlog>>

\* kclose() of the listening socket resets what nobody has accepted.
kcloseListener ==
  /\ listening' = FALSE
  /\ srv' = [c \in Conn |-> IF \E i \in DOMAIN backlog : backlog[i] = c
                            THEN "reset" ELSE srv[c]]
  /\ backlog' = << >>
  /\ UNCHANGED <<cli, stream>>

\* ksocket(), kbind() and klisten() of the master: the port must not be in use by
\* a socket accepted before (the wait after a close is taken to be over).
klisten ==
  /\ ~listening
  /\ \A c \in Conn : srv[c] # "open"
  /\ listening' = TRUE
  /\ UNCHANGED <<cli, srv, stream, backlog>>
=============================================================================
