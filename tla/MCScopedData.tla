---------------------------- MODULE MCScopedData ----------------------------
EXTENDS ScopedData, TLC

MCYearList == <<"y1", "y2">>

Symmetry == Permutations(Threads) \cup Permutations(AddresseeIds)
=============================================================================
