------------------------------ MODULE FileCopy ------------------------------
(***************************************************************************)
(* What master and slave promise together: each run of slave is given one  *)
(* run of master, takes the bytes of its file from the first on, in order, *)
(* never takes one back, and says it is done when it has all of them.      *)
(* There are no sockets, pages or devices.                                 *)
(***************************************************************************)
EXTENDS Integers, Sequences

CONSTANT Runs

VARIABLES
  fileLen,  \* size of the file of each run of master
  from,     \* the run of master each run of slave gets its file from, or 0
  out,      \* what each run of slave has of it
  done      \* runs of slave that have said they are done

vars == <<fileLen, from, out, done>>
Run == 1 .. Runs

Init ==
  /\ fileLen \in [Run -> Nat]
  /\ from = [r \in Run |-> 0]
  /\ out = [r \in Run |-> << >>]
  /\ done = {}

\* A master serves one slave.
Pair(r, q) ==
  /\ from[r] = 0
  /\ \A s \in Run : from[s] # q
  /\ from' = [from EXCEPT ![r] = q]
  /\ UNCHANGED <<fileLen, out, done>>

\* The next n bytes of the file.
Receive(r, n) ==
  /\ r \notin done
  /\ from[r] # 0
  /\ Len(out[r]) + n <= fileLen[from[r]]
  /\ out' = [out EXCEPT ![r] = @ \o [i \in 1 .. n |-> <<from[r], Len(@) + i>>]]
  /\ UNCHANGED <<fileLen, from, done>>

Finish(r) ==
  /\ from[r] # 0
  /\ Len(out[r]) = fileLen[from[r]]
  /\ done' = done \cup {r}
  /\ UNCHANGED <<fileLen, from, out>>

Next ==
  \E r \in Run :
    \/ \E q \in Run : Pair(r, q)
    \/ from[r] # 0 /\ \E n \in 1 .. fileLen[from[r]] : Receive(r, n)
    \/ Finish(r)

Spec == Init /\ [][Next]_vars
=============================================================================
