------------------------------- MODULE Devices ------------------------------
(***************************************************************************)
(* master_device.c and slave_device.c: each module has one static socket   *)
(* (sockfd_cli) shared by everybody who opens the device, and one page per *)
(* open file (private_data), which mmap() hands to the program.            *)
(* Releasing the device frees the page and leaves the socket as it is.     *)
(*                                                                         *)
(* kclose() does not clear sockfd_cli.  Calls through a pointer to a       *)
(* socket that has been freed are undefined: the kernel stops the caller   *)
(* (sock_release() has cleared its operations), or the memory has become a *)
(* socket accepted since.  Masters and slaves are on two machines.         *)
(***************************************************************************)
EXTENDS KSocket

CONSTANTS
  PageSize,
  File        \* open files of a device

ASSUME PageAssumption == PageSize \in Nat \ {0}

VARIABLES
  mSock, sSock,   \* sockfd_cli of the two modules
  mPage, sPage    \* the page of each open file, or its message buffer

devVars == <<mSock, sSock, mPage, sPage>>

NoSock == 0                                     \* NULL; sockets are numbered from 1
Zero == <<0, 0>>                                \* a byte that is of no input
ZeroPage == [i \in 1 .. PageSize |-> Zero]

DeviceInit ==
  /\ SocketInit
  /\ mSock = NoSock
  /\ sSock = NoSock
  /\ mPage = [f \in File |-> ZeroPage]
  /\ sPage = [f \in File |-> ZeroPage]

\* memcpy() of a string of bytes to the beginning of a page.
Overlay(bytes, page) ==
  [i \in 1 .. PageSize |-> IF i <= Len(bytes) THEN bytes[i] ELSE page[i]]

MasterLive == mSock # NoSock /\ srv[mSock] = "open"
SlaveLive == sSock # NoSock /\ cli[sSock] \in {"made", "open"}

\* What a master's call uses for sockfd_cli; fresh: sockets accepted and not
\* assigned yet.
MasterSock(fresh) == IF MasterLive THEN {mSock} ELSE fresh

\* master_open(), slave_open(): a zeroed page.
master_open(f) ==
  /\ mPage' = [mPage EXCEPT ![f] = ZeroPage]
  /\ UNCHANGED <<mSock, sSock, sPage>>

slave_open(f) ==
  /\ sPage' = [sPage EXCEPT ![f] = ZeroPage]
  /\ UNCHANGED <<mSock, sSock, mPage>>

\* Mutant of MasterAssign: the socket of the first connection is kept.
MasterAssignUnlessSet(c) ==
  /\ mSock' = IF mSock = NoSock THEN c ELSE mSock
  /\ UNCHANGED <<sSock, mPage, sPage>>

\* master_IOCTL_CREATESOCK: what kaccept() returns is assigned.
MasterAssign(c) ==
  /\ mSock' = c
  /\ UNCHANGED <<sSock, mPage, sPage>>

\* Mutant of MasterExit: the connection is not closed.
MasterExitOpen(c) == UNCHANGED <<sockVars, devVars>>

\* master_IOCTL_EXIT: close the connection.
MasterExit(c) ==
  /\ kcloseSrv(c)
  /\ UNCHANGED devVars

\* Mutant of SlaveCreateSock: a socket left over from an earlier run is kept.
SlaveCreateSockOnce(c) ==
  /\ ksocket(c)
  /\ sSock' = IF sSock = NoSock THEN c ELSE sSock
  /\ UNCHANGED <<mSock, mPage, sPage>>

\* slave_IOCTL_CREATESOCK, up to ksocket().
SlaveCreateSock(c) ==
  /\ ksocket(c)
  /\ sSock' = c
  /\ UNCHANGED <<mSock, mPage, sPage>>

\* slave_IOCTL_MMAP and receive_msg(): krecv() of at most a page.
SlaveRecv(f, c, n) ==
  /\ krecv(c, n, PageSize)
  /\ sPage' = [sPage EXCEPT ![f] = Overlay(SubSeq(stream[c], 1, n), @)]
  /\ UNCHANGED <<mSock, sSock, mPage>>

\* slave_IOCTL_EXIT: close the connection.
SlaveExit ==
  /\ kcloseCli(sSock)
  /\ UNCHANGED devVars

\* rmmod and insmod of master_device.
master_exit == kcloseListener /\ UNCHANGED devVars
master_init ==
  /\ klisten
  /\ mSock' = NoSock
  /\ UNCHANGED <<sSock, mPage, sPage>>
=============================================================================
