------------------------------ MODULE MCRacia -------------------------------
\* Three instances of Racia, none of them different from the others.
EXTENDS Racia, TLC

CONSTANTS r1, r2, r3

MCProcs == {r1, r2, r3}
Symmetry == Permutations(MCProcs)
=============================================================================
