-------------------------------- MODULE MCRr --------------------------------
\* Instances of rr.c with the invariant that the proofs rest on.
EXTENDS RrInv
=============================================================================
