------------------------------- MODULE MCFifo -------------------------------
\* Instances of fifo.c with the invariant that the proofs rest on.
EXTENDS FifoInv
=============================================================================
