------------------------------ MODULE Preparation -----------------------------
(* Trainer.prepare and materialize_graph_views: the graph is partitioned, the *)
(* events are cut into windows, and from both follow the views, the feature   *)
(* shards and the task tables that each rank will load. What one rank is told *)
(* to send another is told to expect, though the two are computed apart.      *)
EXTENDS SnapshotViews, EventViews, TaskTables, FiniteSetsExt, Functions

CONSTANTS
    Ways,     \* how events may be split: [by, first, second, labels, windows]
    Cuts,     \* how a split may be cut: [by, size]
    Layouts,  \* the layouts a view plan may require
    Labels,   \* lists of labels [node, ts] to predict
    Horizon,  \* node_label_horizon
    OneHops   \* include_static_one_hop

(* topk is at most the number of nodes, events come sorted by time, and the   *)
(* configuration is one that split.py accepts.                                *)
ASSUME PrepareAssumption ==
    /\ Topks \subseteq 0..NumNodes
    /\ \A list \in Graphs : \A i, j \in DOMAIN list : i < j => list[i].ts <= list[j].ts
    /\ \A c \in Cuts : c.by \in {"equal_edges", "batch", "adaptive_batch"} /\ c.size \in Nat \ {0}
    /\ \A w \in Ways :
          \/ w.by = "ratios" /\ w.first \in Nat /\ w.second \in Nat
          \/ w.by = "labels" /\ w.labels \in Seq(0..2)
          \/ /\ w.by = "windows" /\ w.windows \in Seq(Window)
             /\ w.first \in 0..Len(w.windows) /\ w.second \in w.first..Len(w.windows)
    /\ \A list \in Labels : list \in Seq([node: Node, ts: Int])

VARIABLES
    stage,              \* what is built next
    way, cut, layouts,  \* the configuration, once it is chosen
    split,              \* split_time_ptr_2
    event_views,        \* rank -> its events, <<>> without that layout
    snapshot_csc_views, \* one after the other: rank -> slice
    include_one_hop,
    node_shards,        \* rank -> the nodes it has features of, row by row
    edge_shards,
    labels,
    edge_targets,       \* rank -> window -> events to predict
    label_targets       \* rank -> window -> labels to predict

built == <<stage, way, cut, layouts, split, event_views, snapshot_csc_views,
           include_one_hop, node_shards, edge_shards, labels, edge_targets, label_targets>>
prepared == <<partition, planned, built>>

Times == [e \in DOMAIN events |-> events[e].ts]
Windows == AllWindows(split)
Snapshot == "snapshot_csc" \in layouts
NoWindows == [train |-> <<>>, val |-> <<>>, test |-> <<>>]

PrepareInit ==
    /\ PlanInit
    /\ stage = "plan"
    /\ way = [by |-> "none"] /\ cut = [by |-> "none"] /\ layouts = {}
    /\ split = NoWindows
    /\ event_views = <<>> /\ snapshot_csc_views = <<>>
    /\ include_one_hop = FALSE
    /\ node_shards = <<>> /\ edge_shards = <<>>
    /\ labels = <<>> /\ edge_targets = <<>> /\ label_targets = <<>>
-----------------------------------------------------------------------------
Plan ==
    /\ PartitionNext
    /\ UNCHANGED <<planned, built>>

PlanChunks ==
    /\ AssignChunks
    /\ UNCHANGED built

(* resolve_split_ranges and resolve_split_time_ptr_2: by the ratios, by split *)
(* labels of the events, or the given windows, of which the ratios take so    *)
(* many for each split.                                                       *)
Divided(by, each) ==
    CASE by.by = "ratios" -> SplitWindows(FromRatios(Times, by.first, by.second), Times, each)
      [] by.by = "labels" -> SplitWindows(FromLabels(by.labels), Times, each)
      [] by.by = "windows" -> DealtOut(by.windows, by.first, by.second)

Applies(by) ==
    CASE by.by = "ratios" -> by.first <= by.second /\ by.second <= Len(events)
      [] by.by = "labels" -> Len(by.labels) = Len(events) /\ InOrderLabels(by.labels)
      [] by.by = "windows" -> \A k \in DOMAIN by.windows : by.windows[k].end <= Len(events)

ResolveSplits ==
    /\ stage = "plan"
    /\ node_to_chunk # <<>>
    /\ way' \in Ways /\ cut' \in Cuts /\ layouts' \in Layouts
    /\ Applies(way')
    /\ split' = Divided(way', cut')
    /\ stage' = "events"
    /\ UNCHANGED <<partition, planned, event_views, snapshot_csc_views, include_one_hop,
                   node_shards, edge_shards, labels, edge_targets, label_targets>>

BuildEventViews ==
    /\ stage = "events"
    /\ event_views' = IF "event_view" \in layouts
                      THEN [rank \in Part |-> EventView(rank, Windows, WriteMask(Windows))]
                      ELSE <<>>
    /\ stage' = "snapshots"
    /\ UNCHANGED <<partition, planned, way, cut, layouts, split, snapshot_csc_views,
                   include_one_hop, node_shards, edge_shards, labels, edge_targets, label_targets>>

(* build_snapshot_csc_views, one window.                                      *)
BuildSnapshot ==
    LET k == Len(snapshot_csc_views) + 1
    IN  /\ stage = "snapshots"
        /\ Snapshot
        /\ k \in DOMAIN Windows
        /\ snapshot_csc_views' = Append(snapshot_csc_views,
               SnapshotViews([i \in 1..(Windows[k].end - Windows[k].begin) |-> Windows[k].begin + i],
                             "snapshot_hot_compute" \in layouts,
                             "snapshot_diffusion" \in layouts))
        /\ UNCHANGED <<partition, planned, stage, way, cut, layouts, split, event_views,
                       include_one_hop, node_shards, edge_shards, labels, edge_targets, label_targets>>

(* build_static_feature_shards; one hop collects what the snapshots name.     *)
Named(rank, field) == UNION {Elements(snapshot_csc_views[k][rank][field]) : k \in DOMAIN snapshot_csc_views}

BuildFeatureShards ==
    /\ stage = "snapshots"
    /\ Snapshot => Len(snapshot_csc_views) = Len(Windows)
    /\ include_one_hop' \in OneHops
    /\ LET named(rank, field) == IF include_one_hop' THEN Named(rank, field) ELSE {}
       IN  /\ node_shards' = [rank \in Part |-> NodeShard(rank, named(rank, "node_feature_ids"))]
           /\ edge_shards' = [rank \in Part |-> EdgeShard(rank, named(rank, "edge_ids"))]
    /\ stage' = "tasks"
    /\ UNCHANGED <<partition, planned, way, cut, layouts, split, event_views, snapshot_csc_views,
                   labels, edge_targets, label_targets>>

(* build_task_shards, for edges and for nodes.                                *)
SplitOfLabels(list) == LabelSplits(list, IF way.by = "labels" THEN way.labels ELSE <<>>)

BuildTaskShards ==
    /\ stage = "tasks"
    /\ labels' \in Labels
    /\ edge_targets' = [rank \in Part |-> EdgeTargets(rank, split, Snapshot)]
    /\ label_targets' = [rank \in Part |->
           LabelTargets(rank, split, labels', SplitOfLabels(labels'), Horizon, Snapshot)]
    /\ stage' = "prepared"
    /\ UNCHANGED <<partition, planned, way, cut, layouts, split, event_views, snapshot_csc_views,
                   include_one_hop, node_shards, edge_shards>>

PrepareNext ==
    \/ Plan
    \/ PlanChunks
    \/ ResolveSplits
    \/ BuildEventViews
    \/ BuildSnapshot
    \/ BuildFeatureShards
    \/ BuildTaskShards

PrepareSpec == PrepareInit /\ [][PrepareNext]_prepared
-----------------------------------------------------------------------------
(* A boundary between two events of one time.                                 *)
Parts(boundary) ==
    boundary \in 1..(Len(events) - 1) /\ events[boundary].ts = events[boundary + 1].ts

(* Windows follow each other without gap or overlap and hold every event; no  *)
(* boundary drawn by a ratio, and none of an adaptive training window, parts  *)
(* events of one time; and moving it there does not take the last event from  *)
(* a side. _move_boundary_off_equal_ts, _adaptive_batch_time_ptr_2.           *)
WindowsTile ==
    stage # "plan" /\ way.by # "windows" =>
        /\ \A e \in DOMAIN events : Cardinality({k \in DOMAIN Windows : e \in Rows(Windows[k])}) = 1
        /\ \A j, k \in DOMAIN Windows : j < k => Windows[j].end <= Windows[k].begin
        /\ way.by = "ratios" =>
               LET ranges == FromRatios(Times, way.first, way.second)
               IN  /\ ~Parts(ranges.train.end) /\ ~Parts(ranges.val.end)
                   /\ way.first > 0 => ranges.train.end > 0
                   /\ way.first < Len(events) /\ Parts(way.first)
                          /\ events[1].ts # events[Len(events)].ts => ranges.train.end < Len(events)
        /\ way.by = "ratios" /\ cut.by = "adaptive_batch" =>
               \A k \in DOMAIN split.train : ~Parts(split.train[k].end)

(* The edges a slice holds, each with the nodes its column and row stand for. *)
ReadBack(slice) ==
    UNION {{<<slice.edge_ids[i], slice.src_nodes[slice.indices[i] + 1], slice.dst_nodes[d]>> :
                i \in (slice.indptr[d] + 1)..slice.indptr[d + 1]} : d \in DOMAIN slice.dst_nodes}

Computes(rank, n) ==
    Master(n) = rank \/ ("snapshot_hot_compute" \in layouts /\ IsHot(n))

(* Read back, column by column, a slice has every edge of its window that     *)
(* leads to a node the rank computes, from the node it comes from, and the    *)
(* features of each source stand where the slice says; every edge is at the   *)
(* owner of its destination, and at every rank if that computes the hot nodes.*)
(* compressed, src_feature_row, diffusion.                                    *)
SlicesReadBack ==
    \A k \in DOMAIN snapshot_csc_views, rank \in Part :
        LET slice == snapshot_csc_views[k][rank]
            features == hot_node_ids \o slice.node_feature_ids
            reverse == {<<slice.src_nodes[slice.reverse_row[i] + 1],
                          slice.dst_nodes[slice.reverse_col[i] + 1]>> : i \in DOMAIN slice.reverse_row}
        IN  /\ ReadBack(slice) = {<<e, events[e].src, events[e].dst>> :
                                     e \in {e \in Rows(Windows[k]) : Computes(rank, events[e].dst)}}
            /\ Len(slice.edge_ids) = Cardinality(Elements(slice.edge_ids))
            /\ \A i \in DOMAIN slice.src_nodes :
                   features[slice.src_feature_row[i] + 1] = slice.src_nodes[i]
            /\ "snapshot_diffusion" \in layouts =>
                   reverse = {<<events[e].dst, events[e].src>> :
                                 e \in {e \in Rows(Windows[k]) : Computes(rank, events[e].src)}}

(* The part of a list that goes to, or comes from, one peer.                  *)
Begins(sizes, peer) == SumFunctionOnSet(sizes, 0..(peer - 1))
Slot(list, sizes, peer) == SubSeq(list, Begins(sizes, peer) + 1, Begins(sizes, peer) + sizes[peer])
NodesAt(slice, rows) == [i \in DOMAIN rows |-> slice.src_nodes[rows[i] + 1]]

(* The rows one rank sends another are, in this order, rows it computes of    *)
(* the nodes the other puts into its rows for them; the sizes agree, nothing  *)
(* is raised, and after the exchange every row of a source is filled once.    *)
(* _collective_route.                                                         *)
RoutesPairUp ==
    \A k \in DOMAIN snapshot_csc_views, a \in Part :
        LET slice == snapshot_csc_views[k][a]
            route == slice.route
            filled == route.recv_src_row
        IN  /\ ~route.raised
            /\ \A row \in Elements(route.send_index) : row \in 0..(Len(slice.dst_nodes) - 1)
            /\ Len(filled) = Cardinality(Elements(filled))
            /\ Elements(filled) = Len(slice.dst_nodes)..(Len(slice.src_nodes) - 1)
            /\ \A b \in Part :
                   LET other == snapshot_csc_views[k][b]
                   IN  /\ route.send_sizes[b] = other.route.recv_sizes[a]
                       /\ NodesAt(slice, Slot(route.send_index, route.send_sizes, b))
                              = NodesAt(other, Slot(other.route.recv_src_row, other.route.recv_sizes, a))

(* What every rank sends, and where its peers expect it.                      *)
WritesLand(k, routes(_)) ==
    \A a, b \in Part :
        LET from == routes(a)[k]
            to == routes(b)[k]
        IN  Slot(from.send_dst_rows, from.send_sizes, b) = Slot(to.recv_rows, to.recv_sizes, a)

(* In each window the state of every node touched is written by the last      *)
(* event that touches it, hot or not, and by no other; the write is sent by   *)
(* the rank that has the event and lands at the owner, in the node's row, the *)
(* two lists matching entry for entry. build_state_write_mask,                *)
(* build_state_write_routes_for_rank.                                         *)
WritesOnce ==
    event_views # <<>> =>
        \A k \in DOMAIN Windows :
            LET cold(rank) == event_views[rank].state_write_routes
                hot(rank) == event_views[rank].hot_state_write_events
                sent == UNION {Elements(cold(rank)[k].sent) \cup Elements(hot(rank)[k].sent) : rank \in Part}
            IN  /\ WritesLand(k, cold) /\ WritesLand(k, hot)
                /\ \A rank \in Part : \A write \in Elements(cold(rank)[k].sent \o hot(rank)[k].sent) :
                       Owner(write.event) = rank
                /\ \A e \in Rows(Windows[k]) : \A n \in Ends(e) :
                       \E write \in sent :
                           /\ write.node = n /\ write.event >= e
                           /\ \A other \in sent : other.node = n => other.event = write.event

(* The split an event is in, and the first window of a split.                 *)
SplitOfEvent(e) == CHOOSE i \in 1..3 : \E k \in Rows(Scopes(split)[i]) : e \in Rows(Windows[k])
FirstOfSplit(i) == Windows[Scopes(split)[i].begin + 1]
Seen(k) == 1..Windows[k].end

EventsPredicted ==
    \A e \in DOMAIN events :
        LET asks == {ask \in Part \X (DOMAIN Windows) : Contains(edge_targets[ask[1]][ask[2]], e)}
        IN  /\ \A ask \in asks :
                  /\ ask[1] = Owner(e)
                  /\ ask[2] \in Rows(Scopes(split)[SplitOfEvent(e)])
                  /\ IF Snapshot THEN e \notin Seen(ask[2]) ELSE e \in Rows(Windows[ask[2]])
            /\ Cardinality(asks) = IF Snapshot /\ e \in Rows(FirstOfSplit(SplitOfEvent(e))) THEN 0 ELSE 1

LabelsPredicted ==
    \A i \in DOMAIN labels :
        LET asks == {ask \in Part \X (DOMAIN Windows) : i \in label_targets[ask[1]][ask[2]]}
            last(k) == events[Windows[k].end].ts
            of == SplitOfLabels(labels)[i]
            scope == IF of = 0 THEN DOMAIN Windows ELSE Rows(Scopes(split)[of])
            held == {k \in scope : Rows(Windows[k]) # {}}
        IN  /\ Cardinality(asks) <= 1
            /\ (~Snapshot \/ Horizon = 0) /\ held # {} => asks # {}
            /\ \A ask \in asks :
                  /\ ask[1] = Master(labels[i].node)
                  /\ ask[2] \in held
                  /\ last(ask[2]) >= labels[i].ts \/ \A k \in held : last(k) < labels[i].ts
                  /\ \A k \in held : k < ask[2] => last(k) < labels[i].ts

(* Every event is predicted once, by the rank that has it: in its window, or, *)
(* over snapshots, from the window before it, and never from one of another   *)
(* split. Every label is predicted once, by the owner of its node, in a       *)
(* window of its split that ends no earlier than it while there is one, the   *)
(* first such. _edge_table, _label_windows.                                   *)
TasksOnce ==
    stage = "prepared" /\ way.by # "windows" => EventsPredicted /\ LabelsPredicted

(* Row of a list that counts from 0.                                          *)
StandsAt(list, row, x) == row + 1 \in DOMAIN list /\ At(list, row) = x

(* The features of a node stand at its owner in the row its index names, those*)
(* of a hot node in that row everywhere, those of an edge at its owner if     *)
(* shards hold no more than what is owned, and nothing stands twice; with one *)
(* hop a rank has the features of all its slices name. build_partition_indices*)
(* and build_static_feature_shards.                                           *)
FeaturesWherePlaced ==
    node_shards # <<>> =>
        \A rank \in Part :
            LET index == NodeIndex
                rows == EdgeIndex
                nodes == node_shards[rank]
                edges == edge_shards[rank]
            IN  /\ \A n \in Node : Master(n) = rank \/ IsHot(n) =>
                       StandsAt(nodes, index[n].loc, n)
                /\ \A e \in DOMAIN events : Owner(e) = rank =>
                       e \in Elements(edges) /\ (~include_one_hop => StandsAt(edges, rows[e].loc, e))
                /\ Len(nodes) = Cardinality(Elements(nodes))
                /\ Len(edges) = Cardinality(Elements(edges))
                /\ include_one_hop =>
                       \A k \in DOMAIN snapshot_csc_views :
                           /\ Elements(snapshot_csc_views[k][rank].src_nodes) \subseteq Elements(nodes)
                           /\ Elements(snapshot_csc_views[k][rank].edge_ids) \subseteq Elements(edges)
=============================================================================
