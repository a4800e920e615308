--------------------------- MODULE MCSnapshotPush ---------------------------
(* Two ranks, two epochs of a training split of four snapshots and an      *)
(* evaluation split of two, windows of three.                              *)
EXTENDS SnapshotPush

TwoSplits == <<4, 6>>
=============================================================================
