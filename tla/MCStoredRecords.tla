--------------------------- MODULE MCStoredRecords ---------------------------
(* Instances of StoredRecords for TLC. *)
EXTENDS StoredRecords, TLC

Symmetry == Permutations(Threads) \cup Permutations(RecordIds)
=============================================================================
