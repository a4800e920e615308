--------------------------- MODULE SamplingOutput ----------------------------
(* What a call hands to Python: the blocks of all layers described by one     *)
(* table of nodes (a node at a time), one of edges, and for every layer a     *)
(* compressed column graph of rows of those tables (the functions             *)
(* get_sampling_output* of sampler.h). blocks holds for each layer the rows   *)
(* sampled, as TemporalSampling leaves them, and asked the roots of the call. *)
(* Rows of a table count from 0, as in the code.                              *)
EXTENDS Integers, Sequences, SequencesExt, FiniteSets, FiniteSetsExt

(* The key of every row: its time stands with the row, its node in the list   *)
(* of nodes beside; past the end of that list is memory of something else.    *)
Beyond == -1
Keys(block) ==
    [j \in DOMAIN block.rows |->
        [node |-> IF j <= Len(block.nodes) THEN block.nodes[j] ELSE Beyond,
         ts   |-> block.rows[j].ts]]

(* add_node, for one key after the other: a key keeps its first row.          *)
FirstSeen(keys) ==
    FoldLeft(LAMBDA seen, x : IF Contains(seen, x) THEN seen ELSE Append(seen, x), <<>>, keys)

(* The members of S in the order of Before.                                   *)
InOrder(S, Before(_, _)) ==
    [k \in 1..Cardinality(S) |->
        CHOOSE x \in S : Cardinality({y \in S : Before(y, x)}) = k - 1]

Lid(table, x) == SelectInSeq(table, LAMBDA y : y = x) - 1
Lids(table, keys) == [j \in DOMAIN keys |-> Lid(table, keys[j])]
Iota(a, b) == [k \in 1..(b - a) |-> a + k - 1]

(* add_edge, for one row after the other. dense is the cache of the sampler   *)
(* itself: edge id -> row, -1 for an edge that is not in the table.           *)
AddEdges(cache, rows) ==
    LET add(acc, e) ==
            IF acc.dense[e.eid] >= 0 THEN acc
            ELSE [dense |-> [acc.dense EXCEPT ![e.eid] = Len(acc.edges)],
                  edges |-> Append(acc.edges, [gid |-> e.eid, ts |-> e.ts])]
    IN  FoldLeft(add, cache, rows)

(* Counts per column, their running sums, then every row to the next free     *)
(* place of its column. col[j] is the column of row j.                        *)
Csc(col, num_dst) ==
    LET rows(d) == SelectSeq([j \in DOMAIN col |-> j], LAMBDA j : col[j] = d)
    IN  [indptr |-> [d \in 1..(num_dst + 1) |-> Cardinality({j \in DOMAIN col : col[j] < d - 1})],
         order  |-> FlattenSeq([d \in 1..num_dst |-> rows(d - 1)])]

(* One layer of an output: values are the source and the edge of each row.    *)
Mfg(acc, csc, dst_lids, src_lids, src, edge, rows) ==
    LET layer == Len(acc.mfgs)
    IN  [dst_begin   |-> IF layer = 0 THEN 0 ELSE acc.node_layer_ptr[layer + 1],
         dst_end     |-> acc.node_layer_ptr[layer + 2],
         dst_lids    |-> dst_lids,
         src_lids    |-> src_lids,
         csc_indptr  |-> csc.indptr,
         csc_indices |-> [p \in DOMAIN csc.order |-> src[csc.order[p]]],
         edge_lids   |-> [p \in DOMAIN csc.order |-> edge[csc.order[p]]],
         delta_t     |-> [p \in DOMAIN csc.order |-> rows[csc.order[p]].delta]]

(* The state a builder starts a call with, and what it returns.               *)
Begin(asked, dense, frontier, occurrence) ==
    [nodes |-> FirstSeen(asked), cache |-> [dense |-> dense, edges |-> <<>>],
     frontier |-> frontier, occurrence |-> occurrence, mfgs |-> <<>>,
     node_layer_ptr |-> <<0, Len(FirstSeen(asked))>>, edge_layer_ptr |-> <<0>>]

End(asked, acc) ==
    [node_gids |-> acc.nodes, edge_gids |-> acc.cache.edges,
     root_lids |-> Lids(acc.nodes, asked), mfgs |-> acc.mfgs,
     node_layer_ptr |-> acc.node_layer_ptr, edge_layer_ptr |-> acc.edge_layer_ptr]

(* Variant: the cache as the call leaves it. *)
KeepTouched(acc) == acc.cache.dense

(* The entries the call touched are taken back for the next one.              *)
Untouched(acc) ==
    [e \in DOMAIN acc.cache.dense |->
        IF \E k \in DOMAIN acc.cache.edges : acc.cache.edges[k].gid = e THEN -1
        ELSE acc.cache.dense[e]]
-----------------------------------------------------------------------------
(* get_sampling_output: a column for every occurrence of a destination,       *)
(* indices into the table of nodes.                                           *)
SerialLayer(acc, block) ==
    LET rows == block.rows
        nodes == FirstSeen(acc.nodes \o Keys(block))
        cache == AddEdges(acc.cache, rows)
        src == Lids(nodes, Keys(block))
        csc == Csc([j \in DOMAIN rows |-> rows[j].src_index], Len(acc.frontier))
    IN  [acc EXCEPT
            !.nodes = nodes, !.cache = cache, !.frontier = src,
            !.mfgs = Append(@, Mfg(acc, csc, acc.frontier, Iota(0, Len(nodes)), src,
                                   [j \in DOMAIN rows |-> cache.dense[rows[j].eid]], rows)),
            !.node_layer_ptr = Append(@, Len(nodes)),
            !.edge_layer_ptr = Append(@, Len(cache.edges))]

SerialBuild(asked, blocks, dense) ==
    FoldLeft(SerialLayer, Begin(asked, dense, Lids(FirstSeen(asked), asked), <<>>), blocks)
-----------------------------------------------------------------------------
(* deduplicate_compact_mfg_edges: per column an edge once, where it comes     *)
(* first.                                                                     *)
DeduplicateCompact(mfg) ==
    LET column(p) == Cardinality({d \in DOMAIN mfg.csc_indptr : mfg.csc_indptr[d] < p})
        kept == SelectSeq([p \in DOMAIN mfg.edge_lids |-> p],
                          LAMBDA p : \A q \in 1..(p - 1) :
                              column(q) = column(p) => mfg.edge_lids[q] # mfg.edge_lids[p])
        only(list) == [k \in DOMAIN kept |-> list[kept[k]]]
    IN  [mfg EXCEPT
            !.csc_indptr = [d \in DOMAIN @ |-> Cardinality({k \in DOMAIN kept : kept[k] <= @[d]})],
            !.csc_indices = only(@), !.edge_lids = only(@), !.delta_t = only(@)]

(* The column of a row: where its destination's first occurrence stands.      *)
ColumnOf(acc, row) == acc.occurrence[row.src_index + 1]

(* get_sampling_output_compact: a column for every distinct destination, the  *)
(* sources of a layer listed behind its destinations, indices into that list. *)
(* With by_node, occurrences of a node at several times are one; with raw,    *)
(* edges keep their ids and no table is filled.                               *)
CompactKey(by_node, key) == IF by_node THEN key.node ELSE key

(* The destinations of the next layer: every source once, met before or not.  *)
NextFrontier(acc, nodes, first) == Lids(nodes, first)

(* The value that stands for an edge: its row of the table, or its id.        *)
EdgeOf(raw, cache, row) == IF raw THEN row.eid ELSE cache.dense[row.eid]

CompactLayer(by_node, raw, acc, block) ==
    LET rows == block.rows
        keys == [j \in DOMAIN rows |-> CompactKey(by_node, Keys(block)[j])]
        local == FirstSeen(keys)
        first == [k \in DOMAIN local |-> Keys(block)[SelectInSeq(keys, LAMBDA y : y = local[k])]]
        nodes == FirstSeen(acc.nodes \o first)
        cache == IF raw THEN acc.cache ELSE AddEdges(acc.cache, rows)
        num_dst == Len(acc.frontier)
        csc == Csc([j \in DOMAIN rows |-> ColumnOf(acc, rows[j])], num_dst)
        mfg == Mfg(acc, csc, acc.frontier, acc.frontier \o Lids(nodes, first),
                   [j \in DOMAIN rows |-> num_dst + Lid(local, keys[j])],
                   [j \in DOMAIN rows |-> EdgeOf(raw, cache, rows[j])], rows)
    IN  [acc EXCEPT
            !.nodes = nodes, !.cache = cache,
            !.frontier = NextFrontier(acc, nodes, first), !.occurrence = Lids(local, keys),
            !.mfgs = Append(@, IF by_node THEN DeduplicateCompact(mfg) ELSE mfg),
            !.node_layer_ptr = Append(@, Len(nodes)),
            !.edge_layer_ptr = Append(@, Len(cache.edges))]

CompactBuild(asked, blocks, dense, by_node, raw) ==
    LET keys == [i \in DOMAIN asked |-> CompactKey(by_node, asked[i])]
        first == FirstSeen(keys)
        lids == Lids(FirstSeen(asked),
                     [k \in DOMAIN first |-> asked[SelectInSeq(keys, LAMBDA y : y = first[k])]])
    IN  FoldLeft(LAMBDA acc, block : CompactLayer(by_node, raw, acc, block),
                 Begin(asked, dense, lids, Lids(first, keys)), blocks)
-----------------------------------------------------------------------------
(* get_sampling_output_parallel: every occurrence of a key has a position,    *)
(* the roots first, then for each layer its destinations and its rows. The    *)
(* tables list the keys by their least position, whichever thread found it.   *)
NumDst(asked, blocks, layer) ==
    IF layer = 1 THEN Len(asked) ELSE Len(blocks[layer - 1].nodes)

DstBase(asked, blocks, layer) ==
    Len(asked) + FoldLeft(LAMBDA sum, k : sum + NumDst(asked, blocks, k) + Len(blocks[k].rows),
                          0, Iota(1, layer))
EdgeBase(asked, blocks, layer) == DstBase(asked, blocks, layer) + NumDst(asked, blocks, layer)
LayerEnd(asked, blocks, layer) == EdgeBase(asked, blocks, layer) + Len(blocks[layer].rows)

RowsAt(asked, blocks) ==
    UNION {{[row |-> blocks[l].rows[j], key |-> Keys(blocks[l])[j],
             pos |-> EdgeBase(asked, blocks, l) + j - 1] :
               j \in DOMAIN blocks[l].rows} : l \in DOMAIN blocks}

NodesAt(asked, blocks) ==
    {[key |-> asked[i], pos |-> i - 1] : i \in DOMAIN asked}
        \cup {[key |-> at.key, pos |-> at.pos] : at \in RowsAt(asked, blocks)}
        \cup UNION {{[key |-> Keys(blocks[l - 1])[j],
                      pos |-> DstBase(asked, blocks, l) + j - 1] :
                         j \in DOMAIN blocks[l - 1].rows} : l \in (DOMAIN blocks) \ {1}}

FirstAt(found, x) == Min({f.pos : f \in {g \in found : g.key = x}})
FirstsAt(found) == [x \in {f.key : f \in found} |-> FirstAt(found, x)]
Table(found) ==
    LET first == FirstsAt(found)
    IN  InOrder(DOMAIN first, LAMBDA x, y : first[x] < first[y])

(* Each thread counts its share of the rows by column; its rows go behind     *)
(* those of the threads before it.                                            *)
Offset(indptr, col, threads, j) ==
    LET share(t) == {k \in DOMAIN col : (Len(col) * t) \div threads < k
                                          /\ k <= (Len(col) * (t + 1)) \div threads}
        mine == CHOOSE t \in 0..(threads - 1) : j \in share(t)
        before == UNION {share(t) : t \in 0..(mine - 1)}
    IN  indptr[col[j] + 1] + Cardinality({k \in before : col[k] = col[j]})
            + Cardinality({k \in share(mine) : k < j /\ col[k] = col[j]})

ParallelCsc(col, num_dst, threads) ==
    LET indptr == Csc(col, num_dst).indptr
        at(p) == {j \in DOMAIN col : Offset(indptr, col, threads, j) = p - 1}
    IN  [indptr |-> indptr,
         order |-> [p \in DOMAIN col |-> IF at(p) = {} THEN 1 ELSE Max(at(p))]]

ParallelOutput(asked, blocks, threads) ==
    LET nodes_at == NodesAt(asked, blocks)
        edges_at == {[key |-> at.row.eid, ts |-> at.row.ts, pos |-> at.pos] : at \in RowsAt(asked, blocks)}
        nodes == Table(nodes_at)
        eids == Table(edges_at)
        until(table, found, end) == Cardinality({k \in DOMAIN table : FirstAt(found, table[k]) < end})
        ends == [l \in DOMAIN blocks |-> LayerEnd(asked, blocks, l)]
        ptr == <<0, until(nodes, nodes_at, Len(asked))>>
                   \o [l \in DOMAIN blocks |-> until(nodes, nodes_at, ends[l])]
        dst(l) == IF l = 1 THEN asked ELSE Keys(blocks[l - 1])
        mfg(l) ==
            LET rows == blocks[l].rows
            IN  Mfg([mfgs |-> [k \in 1..(l - 1) |-> k], node_layer_ptr |-> ptr],
                    ParallelCsc([j \in DOMAIN rows |-> rows[j].src_index],
                                NumDst(asked, blocks, l), threads),
                    Lids(nodes, dst(l)), Iota(0, Len(nodes)),
                    Lids(nodes, Keys(blocks[l])),
                    [j \in DOMAIN rows |-> Lid(eids, rows[j].eid)], rows)
        first(e) == CHOOSE f \in edges_at : f.key = e /\ f.pos = FirstAt(edges_at, e)
    IN  [node_gids |-> nodes,
         edge_gids |-> [k \in DOMAIN eids |-> [gid |-> eids[k], ts |-> first(eids[k]).ts]],
         root_lids |-> Lids(nodes, asked), mfgs |-> [l \in DOMAIN blocks |-> mfg(l)],
         node_layer_ptr |-> ptr,
         edge_layer_ptr |-> <<0>> \o [l \in DOMAIN blocks |-> until(eids, edges_at, ends[l])]]
-----------------------------------------------------------------------------
(* build_edge_read_layout: the edges of the table grouped by the rank that    *)
(* stores them, each rank's by their row there. A place is a rank and a row;  *)
(* index gives it by edge id, and an id it does not know leaves no layout.    *)
NoLayout == [edge_read_index |-> <<>>, edge_read_ptr |-> <<>>, compute_to_edge_feature |-> <<>>]

(* Where every edge of the table went.                                        *)
PlaceOf(order) == [k \in DOMAIN order |-> SelectInSeq(order, LAMBDA y : y = k) - 1]

EdgeReadLayout(edges, index, edge_read_world_size) ==
    LET known == \A k \in DOMAIN edges : edges[k].gid + 1 \in DOMAIN index
        place(k) == index[edges[k].gid + 1]
        world == IF edge_read_world_size > 0 THEN edge_read_world_size
                 ELSE Max({1} \cup {index[i].part + 1 : i \in DOMAIN index})
        before(a, b) ==
            \/ place(a).part < place(b).part
            \/ place(a).part = place(b).part /\ place(a).loc < place(b).loc
            \/ place(a) = place(b) /\ a < b
        order == InOrder(DOMAIN edges, before)
    IN  IF index = <<>> \/ ~known THEN NoLayout
        ELSE [edge_read_index |-> [k \in DOMAIN order |-> place(order[k])],
              edge_read_ptr |-> [p \in 1..(world + 1) |->
                  Cardinality({k \in DOMAIN edges : place(k).part < p - 1})],
              compute_to_edge_feature |-> PlaceOf(order)]
=============================================================================
