------------------------------- MODULE SjfInv -------------------------------
(***************************************************************************)
(* The inductive invariant behind the safety properties of sjf.c.          *)
(***************************************************************************)
EXTENDS Sjf, BatchInv

\* The job chosen by the sort, until it burns its first unit.
ShortestInv ==
  pc \in {"write", "raise", "charge"} /\ left[current] = need[current] =>
    \A i \in Slot : Index <= i /\ i < nextforfork => need[current] <= need[scheduler[i]]

(* The books agree, the stamps are true, and the job that is started is a   *)
(* shortest one.                                                            *)
IInv == BooksInv /\ TimesInv /\ ShortestInv
=============================================================================
