------------------------------- MODULE MCPsjf -------------------------------
\* Instances of psjf.c with the invariant that the proofs rest on.
EXTENDS PsjfInv
=============================================================================
