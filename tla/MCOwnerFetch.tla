---------------------------- MODULE MCOwnerFetch ----------------------------
(* Three ranks and five nodes, owned so that the order of the ids and the     *)
(* order of their owners differ; node 2 is hot.                               *)
EXTENDS OwnerFetch

OwnerOf == 1 :> 3 @@ 2 :> 1 @@ 3 :> 2 @@ 4 :> 1 @@ 5 :> 3

(* Lists in the order a sampler meets the nodes: nothing, remote nodes of two *)
(* owners out of order around a local one, repetitions, a hot node.           *)
Lists == {<<>>, <<5, 4, 3>>, <<3, 5, 1, 5>>, <<2, 3, 1>>}
Others == {<<<<>>, <<5, 1, 3>>>>, <<<<2, 4, 3>>, <<>>>>, <<<<1, 4>>, <<4, 2>>>>}

Events(state, first, others) ==
    [mode |-> "event", state |-> state, collect |-> FALSE,
     blocks |-> <<first, <<others[1]>>, <<others[2]>>>>,
     ends |-> <<<<>>, <<>>, <<>>>>]

Snapshots(collect, windows, ends) ==
    [mode |-> "snapshot", state |-> "none", collect |-> collect,
     blocks |-> windows, ends |-> ends]

(* Batches whose samples are shuffled, read exactly. *)
ExactEvents == {Events("exact", <<l>>, o) : l \in Lists, o \in Others}

(* Prefetched batches: lists that are sorted, or hold a node twice, or the    *)
(* two layers of a sample.                                                    *)
SortedOthers == {<<<<>>, <<1, 3, 5>>>>, <<<<2, 4>>, <<4, 2, 4>>>>}
SortedEvents ==
    {Events("prefetch", b, o) :
        b \in {<<<<>>>>, <<<<2, 3, 5>>>>, <<<<5, 3, 5>>>>, <<<<5, 3>>, <<3, 1, 5>>>>},
        o \in SortedOthers}

LocalEvents ==
    {Events(s, <<<<4, 2>>>>, <<<<3>>, <<5, 1>>>>) : s \in {"exact", "prefetch", "none"}}

SnapshotBatches ==
    {Snapshots(TRUE, <<<<<<5, 3>>, <<4, 1, 3>>>>, <<<<>>, <<3, 1>>>>, <<<<2, 4>>, <<>>>>>>, e) :
        e \in {<<<<5, 3, 3>>, <<>>, <<1, 4>>>>, <<<<4>>, <<1, 2, 1>>, <<3, 4, 2>>>>}}
    \cup {Snapshots(FALSE, <<<<<<>>>>, <<<<1>>>>, <<<<3, 2>>>>>>, <<<<>>, <<>>, <<>>>>)}

MixedWorkloads == ExactEvents \cup SortedEvents \cup LocalEvents \cup SnapshotBatches

(* Prefetched batches of one layer as the sampler returns them: nodes in the  *)
(* order of the first visit.                                                  *)
VisitOrder == {Events("prefetch", <<l>>, o) : l \in Lists, o \in SortedOthers}
=============================================================================
