-------------------------- MODULE MCLayerwiseScan --------------------------
(* Two ranks whose snapshots have 1 to 4 rows.  Rank a owns two nodes of   *)
(* its first chunk and one of its second, b only a node of its first chunk:*)
(* a prefix of one chunk may leave b without rows.                         *)
EXTENDS LayerwiseScan

CONSTANTS a, b

At(n, c) == [node |-> n, chunk |-> c]
OwnerRows == (a :> <<At(1, 1), At(2, 0), At(3, 0)>>) @@ (b :> <<At(4, 5)>>)

Halving == <<2, 1>>    \* a decayed snapshot may still be complete

NoLimit == -1

AllModes == {"dag", "immediate", "sequential"}
=============================================================================
