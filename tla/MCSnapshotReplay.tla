-------------------------- MODULE MCSnapshotReplay --------------------------
EXTENDS SnapshotReplay, TLC

\* Whatever the endpoints themselves answer with.
MCFiles == UNION {Served(key) : key \in Keys}
=============================================================================
