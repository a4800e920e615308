---------------------------- MODULE PartitionPlan -----------------------------
(* partition_graph and build_partition_indices: who owns every node and edge, *)
(* the chunk of every node within its owner, the row of every node and edge   *)
(* at its owner - and the feature shards that are laid out by those rows.     *)
EXTENDS SpeedPartition, Sequences, SequencesExt

CONSTANTS
    Backends,      \* "speed_partition" or "round_robin"
    ChunksPerRank,
    Metis(_, _)    \* the chunk METIS gives the i-th of k nodes of a rank

ASSUME PlanAssumption ==
    /\ ChunksPerRank \in Nat \ {0}
    /\ \A count \in 1..NumNodes : \A row \in 0..(count - 1) : Metis(row, count) \in 0..(ChunksPerRank - 1)

VARIABLES
    backend,
    node_to_chunk  \* node -> chunk, <<>> until they are assigned

planned == <<backend, node_to_chunk>>

Owner(e) == edge_owner[e]
Master(n) == node_master[n]
-----------------------------------------------------------------------------
(* _resolve_owners: round robin, and on one part in any case, nothing is hot  *)
(* and every edge goes with its destination.                                  *)
RoundRobin ==
    /\ events \in Graphs
    /\ hot_node_ids = <<>>
    /\ node_parts = [n \in Node |-> <<>>]
    /\ node_master = [n \in Node |-> n % NumParts]
    /\ edge_owner = [e \in DOMAIN events |-> node_master[events[e].dst]]
    /\ dropped_edges = {}
    /\ replica_nodes = {}
    /\ pc = "done"

PlanInit ==
    /\ backend \in Backends
    /\ IF NumParts > 1 /\ backend = "speed_partition" THEN Init ELSE RoundRobin
    /\ node_to_chunk = <<>>

(* _assign_chunks_within_master: METIS works on the edges between the nodes   *)
(* of a rank; with fewer nodes than chunks or no such edge they take turns.   *)
LocalChunk(n) ==
    LET local == {m \in Node : Master(m) = Master(n)}
        row == Cardinality({m \in local : m < n})
        inside == {e \in DOMAIN events : Ends(e) \subseteq local}
    IN  IF ChunksPerRank = 1 THEN 0
        ELSE IF Cardinality(local) < ChunksPerRank \/ inside = {} THEN row % ChunksPerRank
        ELSE Metis(row, Cardinality(local))

AssignChunks ==
    /\ pc = "done"
    /\ node_to_chunk = <<>>
    /\ node_to_chunk' = [n \in Node |-> Master(n) * ChunksPerRank + LocalChunk(n)]
    /\ UNCHANGED <<partition, backend>>
-----------------------------------------------------------------------------
(* Variant: the row in the sorted list, whichever part it is of. *)
RowsOverall(part) ==
    [i \in DOMAIN part |-> (CHOOSE q \in DOMAIN part : Argsort(part)[q] = i) - 1]

(* _local_rows_by_part: the place in the list sorted by part, less the place  *)
(* where that part begins.                                                    *)
LocalRows(part) ==
    LET order == Argsort(part)
        sorted == Pick(part, order)
        begins(q) == CHOOSE s \in 1..q :
                        /\ s = 1 \/ sorted[s] # sorted[s - 1]
                        /\ \A t \in (s + 1)..q : sorted[t] = sorted[t - 1]
    IN  [i \in DOMAIN part |-> LET q == CHOOSE q \in DOMAIN order : order[q] = i
                               IN  q - begins(q)]

(* node_dist_index: a hot node has its place in the list of hot nodes, the    *)
(* others come behind them, at their owner.                                   *)
PlaceIn(list, n) == (CHOOSE i \in DOMAIN list : list[i] = n) - 1
Cooler == Increasing({n \in Node : ~IsHot(n)})

NodeIndex ==
    LET rows == LocalRows([k \in DOMAIN Cooler |-> Master(Cooler[k])])
    IN  [n \in Node |->
            [part |-> Master(n),
             loc  |-> IF IsHot(n) THEN PlaceIn(hot_node_ids, n)
                      ELSE rows[PlaceIn(Cooler, n) + 1] + Len(hot_node_ids)]]

EdgeIndex ==
    LET rows == LocalRows(edge_owner)
    IN  [e \in DOMAIN events |-> [part |-> Owner(e), loc |-> rows[e]]]
-----------------------------------------------------------------------------
(* _owned_ids_by_part: what a rank owns, in the order of its rows there.      *)
OwnedInOrder(index, rank) ==
    LET owned == Increasing({x \in DOMAIN index : index[x].part = rank})
    IN  Pick(owned, Argsort([k \in DOMAIN owned |-> index[owned[k]].loc]))

(* build_static_feature_shards: the ids a rank has features of, row by row.   *)
(* one_hop are the nodes of its snapshots, with whose edges it is given more. *)
NodeShard(rank, one_hop) ==
    LET index == NodeIndex
        owned == OwnedInOrder(index, rank)
    IN  hot_node_ids
          \o Masked(owned, {k \in DOMAIN owned : index[owned[k]].loc >= Len(hot_node_ids)})
          \o Increasing({n \in one_hop : Master(n) # rank})

EdgeShard(rank, snapshot_edges) ==
    IF snapshot_edges = {} THEN OwnedInOrder(EdgeIndex, rank)
    ELSE Increasing(Elements(OwnedInOrder(EdgeIndex, rank)) \cup snapshot_edges)
=============================================================================
