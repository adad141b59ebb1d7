------------------------------ MODULE FifoInv -------------------------------
(***************************************************************************)
(* The inductive invariant behind the safety properties of fifo.c.         *)
(***************************************************************************)
EXTENDS Fifo, BatchInv

\* Nothing undoes the sort of readFile().
OrderInv ==
  pc # "read" =>
    \A i, k \in Slot : i <= k => arrive[scheduler[i]] <= arrive[scheduler[k]]

(* The books agree, the stamps are true, and the jobs are taken in the      *)
(* order of their ready times.                                              *)
IInv == BooksInv /\ TimesInv /\ OrderInv
=============================================================================
