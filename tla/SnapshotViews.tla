----------------------------- MODULE SnapshotViews ----------------------------
(* prepare/snapshot_csc.py: for every rank and every window a compressed      *)
(* column graph of the edges that lead to the nodes the rank computes, and    *)
(* the route by which ranks send each other the rows of nodes that those      *)
(* edges come from. Rows count from 0, as in the code; edges are rows of the  *)
(* list of events, from 1.                                                    *)
EXTENDS PartitionPlan

RowIn(list, n) == IF n \in Elements(list) THEN PlaceIn(list, n) ELSE -1
At(list, row) == list[row + 1]

(* dst_nodes_by_rank: what the rank owns, and with hot_compute the hot nodes  *)
(* of others.                                                                 *)
DstNodes(rank, hot_compute) ==
    Increasing({n \in Node : Master(n) = rank})
      \o IF hot_compute
         THEN Masked(hot_node_ids, {k \in DOMAIN hot_node_ids : Master(hot_node_ids[k]) # rank})
         ELSE <<>>

Cool(list) == Masked(list, {k \in DOMAIN list : ~IsHot(list[k])})
-----------------------------------------------------------------------------
(* compressed: sorted by one key after the other, the last key decides, then  *)
(* cut into columns.                                                          *)
SortedBy(order, key) == Pick(order, Argsort(Pick(key, order)))

Compressed(column, chunk, time) ==
    SortedBy(SortedBy(SortedBy([i \in DOMAIN column |-> i], time), chunk), column)

Indptr(column, num_dst) ==
    [d \in 1..(num_dst + 1) |-> Cardinality({i \in DOMAIN column : column[i] < d - 1})]
-----------------------------------------------------------------------------
(* The nodes a rank's edges come from and it does not compute; diffusion goes *)
(* along the edges that leave its nodes too, and needs their other ends.      *)
Into(dst_nodes, edges) == Masked(edges, {i \in DOMAIN edges : events[edges[i]].dst \in Elements(dst_nodes)})
Outgoing(dst_nodes, edges) == Masked(edges, {i \in DOMAIN edges : events[edges[i]].src \in Elements(dst_nodes)})

RemoteSrc(dst_nodes, edges, diffusion) ==
    LET into == Elements(Into(dst_nodes, edges))
        out == IF diffusion THEN Elements(Outgoing(dst_nodes, edges)) ELSE {}
    IN  Increasing(({events[e].src : e \in into} \cup {events[e].dst : e \in out})
                      \ Elements(dst_nodes))

(* Where the features of a source stand: the hot nodes come first, then what  *)
(* the rank owns, then what it borrows in this window.                        *)
FeatureRow(n, owned, borrowed) ==
    IF IsHot(n) THEN RowIn(hot_node_ids, n)
    ELSE IF n \in Elements(owned) THEN Len(hot_node_ids) + RowIn(owned, n)
    ELSE Len(hot_node_ids) + Len(owned) + RowIn(borrowed, n)

(* Variant: rows of borrowed nodes counted from the first of them. *)
WithoutOffset(dst_nodes, remote_src, n) ==
    IF n \in Elements(dst_nodes) THEN RowIn(dst_nodes, n) ELSE RowIn(remote_src, n)

SrcRow(dst_nodes, remote_src, n) ==
    IF n \in Elements(dst_nodes) THEN RowIn(dst_nodes, n) ELSE Len(dst_nodes) + RowIn(remote_src, n)

(* One slice of a rank: edges is its window.                                  *)
Slice(rank, edges, hot_compute, diffusion) ==
    LET dst_nodes == DstNodes(rank, hot_compute)
        owned == Cool(dst_nodes)
        local == Into(dst_nodes, edges)
        remote == RemoteSrc(dst_nodes, edges, diffusion)
        borrowed == Cool(remote)
        src_nodes == dst_nodes \o remote
        column == [i \in DOMAIN local |-> RowIn(dst_nodes, events[local[i]].dst)]
        order == Compressed(column,
                            [i \in DOMAIN local |-> node_to_chunk[events[local[i]].src]],
                            [i \in DOMAIN local |-> events[local[i]].ts])
        outgoing == IF diffusion THEN Outgoing(dst_nodes, edges) ELSE <<>>
    IN  [src_nodes        |-> src_nodes,
         dst_nodes        |-> dst_nodes,
         edge_ids         |-> Pick(local, order),
         indptr           |-> Indptr(column, Len(dst_nodes)),
         indices          |-> [i \in DOMAIN order |->
                                 SrcRow(dst_nodes, remote, events[local[order[i]]].src)],
         node_feature_ids |-> owned \o borrowed,
         src_feature_row  |-> [i \in DOMAIN src_nodes |-> FeatureRow(src_nodes[i], owned, borrowed)],
         reverse_row      |-> [i \in DOMAIN outgoing |-> RowIn(src_nodes, events[outgoing[i]].dst)],
         reverse_col      |-> [i \in DOMAIN outgoing |-> RowIn(dst_nodes, events[outgoing[i]].src)],
         recv_nodes       |-> [peer \in Part |-> Masked(remote, {i \in DOMAIN remote : Master(remote[i]) = peer})],
         route            |-> <<>>]
-----------------------------------------------------------------------------
(* Variant: what this rank asks of the other. *)
AskedOf(slices, rank, peer) == slices[rank].recv_nodes[peer]

(* What the other asks of this rank.                                          *)
Requested(slices, rank, peer) == slices[peer].recv_nodes[rank]

(* _collective_route: a rank looks up what its peers expect of it in its own  *)
(* list of sources, and where to put what it expects of them. It raises only  *)
(* if a node is beyond the greatest it has.                                   *)
Beyond(list, nodes) == \E n \in Elements(nodes) : \A m \in Elements(list) : n > m

Route(slices, rank) ==
    LET src_nodes == slices[rank].src_nodes
        rows(nodes) == [i \in DOMAIN nodes |-> RowIn(src_nodes, nodes[i])]
        all(list(_)) == FlattenSeq([k \in 1..NumParts |-> list(k - 1)])
    IN  [raised       |-> \E peer \in Part : Beyond(src_nodes, Requested(slices, rank, peer)),
         send_sizes   |-> [peer \in Part |-> Len(Requested(slices, rank, peer))],
         recv_sizes   |-> [peer \in Part |-> Len(slices[rank].recv_nodes[peer])],
         send_index   |-> all(LAMBDA peer : rows(Requested(slices, rank, peer))),
         recv_src_row |-> all(LAMBDA peer : rows(slices[rank].recv_nodes[peer]))]

(* The slices of a window, one for every rank, each with its route.           *)
SnapshotViews(edges, hot_compute, diffusion) ==
    LET slices == [rank \in Part |-> Slice(rank, edges, hot_compute, diffusion)]
    IN  [rank \in Part |-> [slices[rank] EXCEPT !.route = Route(slices, rank)]]
=============================================================================
