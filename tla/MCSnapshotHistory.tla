-------------------------- MODULE MCSnapshotHistory --------------------------
(* Window of two over five snapshots: every output slot is reused twice.   *)
EXTENDS SnapshotHistory

ComputedMarks == {1, 2}
OtherMarks == {3}
=============================================================================
