---------------------------- MODULE MCClientLists ----------------------------
EXTENDS ClientLists, TLC

Symmetry == Permutations(Threads)
=============================================================================
