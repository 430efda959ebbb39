--------------------------- MODULE MCProfileDrain ---------------------------
EXTENDS ProfileDrainInvariants, TLC

Symmetry == Permutations(Threads) \cup Permutations(Files)
=============================================================================
