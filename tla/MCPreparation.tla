---------------------------- MODULE MCPreparation -----------------------------
(* Four nodes on three ranks; five events with ties in time, a self loop, a   *)
(* node without events and an event from long before time 0.                  *)
EXTENDS Preparation

E(src, dst, ts) == [src |-> src, dst |-> dst, ts |-> ts]

MCGraphs ==
    {<<E(0, 1, 1), E(1, 0, 2), E(2, 3, 2), E(0, 3, 2), E(0, 2, 4)>>,
     <<E(0, 1, -999), E(2, 2, 0), E(1, 2, 0), E(2, 0, 3), E(0, 1, 3)>>}

MCMetis(row, count) == (row + 1) % 2

MCWays ==
    {[by |-> "ratios", first |-> f, second |-> s] : <<f, s>> \in {<<3, 4>>, <<2, 4>>}}
    \cup {[by |-> "labels", labels |-> <<0, 0, 0, 1, 2>>],
          [by |-> "windows", windows |-> <<Cut(0, 2), Cut(2, 4), Cut(4, 5)>>, first |-> 1, second |-> 2]}

MCCuts == {[by |-> "equal_edges", size |-> 2], [by |-> "adaptive_batch", size |-> 2]}

MCLayouts == {{"event_view"}, {"snapshot_csc"},
              {"snapshot_csc", "snapshot_diffusion", "snapshot_hot_compute"}}

MCLabels == {<<[node |-> 1, ts |-> 1], [node |-> 2, ts |-> 2], [node |-> 3, ts |-> 9]>>}
=============================================================================
