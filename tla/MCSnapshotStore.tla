--------------------------- MODULE MCSnapshotStore ---------------------------
(* Small instances of SnapshotStore for TLC.                               *)
EXTENDS SnapshotStore, TLC

CONSTANTS d1, d2, reader1

MCDocuments == {d1, d2}
MCReaders   == {reader1}
Symmetry    == Permutations(MCDocuments)
=============================================================================
