------------------------------- MODULE MCSjf --------------------------------
\* Instances of sjf.c with the invariant that the proofs rest on.
EXTENDS SjfInv
=============================================================================
