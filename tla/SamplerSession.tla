--------------------------- MODULE SamplerSession ----------------------------
(* The native sampler as Python uses it: a block built from the prepared      *)
(* events under the name of their graph, one sampler on it, and calls, each   *)
(* followed by the output its mode asks for. The cache of edge rows lives as  *)
(* long as the sampler.                                                       *)
EXTENDS TemporalSampling, SamplingOutput

CONSTANTS
    Graphs,       \* name -> its events [src, dst, ts, w] as stored, whether every
                  \* edge comes with its reverse, and the columns of its block
    NumNodes,
    Changes,      \* changes of weights a session may make
    Uniques,      \* values of part_unique a call without times may have
    Pickled,      \* whether blocks may reach the sampler as pickles: a set
    Seeds,        \* seeds a session may set
    UsedPolicies, \* policies a session may be created with
    RootLists,    \* roots a call may ask for
    Histories,    \* [nodes, now, length] of the slice calls; empty for none
    Modes,        \* outputs a call may be followed by
    DistIndex,    \* edge id -> where its features are stored
    World,        \* edge_read_world_size
    MaxCalls      \* calls of a session, the bound of its length

ASSUME SessionAssumption ==
    /\ UsedPolicies \subseteq Policies
    /\ Pickled \subseteq BOOLEAN
    /\ Modes \subseteq {"serial", "compact", "compact_raw_edges", "compact_node_ids", "parallel"}
    /\ NumNodes \in Nat /\ MaxCalls \in Nat

VARIABLES
    tnb_map,   \* blocks of the process, by name
    pickled,   \* whether they reach the sampler as pickles
    graph,     \* name of the graph the sampler was made for
    dense,     \* edge_lid_dense
    mode,      \* output of the last call
    output,    \* and what it returned
    slices,    \* time slices a call for several still has to sample
    old_policy,\* the policy it puts back
    calls

session == <<tnb_map, pickled, graph, dense, mode, output, slices, old_policy, calls>>
vars == <<sampling, session>>
-----------------------------------------------------------------------------
(* Variant: events in the order of the store. *)
UnsortedOrder(events) == [k \in DOMAIN events |-> k]

(* argsort(ts, stable=True).                                                  *)
TimeOrder(events) ==
    InOrder(DOMAIN events, LAMBDA a, b :
        events[a].ts < events[b].ts \/ (events[a].ts = events[b].ts /\ a < b))

Turned(edge) == [edge EXCEPT !.src = edge.dst, !.dst = edge.src]

(* _temporal_event_topology: events in the order of time, each followed by    *)
(* its reverse.                                                               *)
EventTopology(g) ==
    FlattenSeq([k \in DOMAIN g.events |->
        LET event == g.events[TimeOrder(g.events)[k]]
        IN  IF g.reverse THEN <<event, Turned(event)>> ELSE <<event>>])

(* The edges from_graph makes of a topology, numbered where they stand. The   *)
(* topology of a graph without times is its store as it is; from_graph puts   *)
(* the reverses behind all edges, under the ids of the edges they reverse.    *)
Topology(g) ==
    LET given == IF g.with.time THEN EventTopology(g) ELSE g.events
        edges == [k \in DOMAIN given |-> given[k] @@ [eid |-> k - 1]]
    IN  IF g.reverse /\ ~g.with.time
        THEN edges \o [k \in DOMAIN edges |-> Turned(edges[k])]
        ELSE edges

(* NativeTemporalSampler.from_graph: the block of the name, and a new cache.  *)
Opened(map, name) ==
    GetNeighbors(map, name, Topology(Graphs[name]), NumNodes, Graphs[name].with)
Received(block) == IF pickled THEN Deserialize(Serialize(block)) ELSE block
Clean(name) == [e \in 0..(Len(Topology(Graphs[name])) - 1) |-> -1]

Init ==
    /\ graph \in DOMAIN Graphs
    /\ pickled \in Pickled
    /\ tnb_map = Opened(<<>>, graph)
    /\ tnb = Received(tnb_map[graph])
    /\ policy \in UsedPolicies
    /\ base_seed \in Seeds
    /\ unique = FALSE
    /\ roots = <<>>
    /\ ret = <<>>
    /\ tgb = [t \in Tids |-> <<>>]
    /\ progress = [t \in Tids |-> 0]
    /\ pc = "idle"
    /\ dense = Clean(graph)
    /\ mode = "none"
    /\ output = <<>>
    /\ slices = <<>>
    /\ old_policy = policy
    /\ calls = 0

(* The process goes on with a sampler for another graph.                      *)
Reopen(name) ==
    /\ pc = "idle"
    /\ slices = <<>>
    /\ name # graph
    /\ calls < MaxCalls
    /\ graph' = name
    /\ tnb_map' = Opened(tnb_map, name)
    /\ tnb' = Received(tnb_map'[name])
    /\ dense' = Clean(name)
    /\ ret' = <<>>
    /\ mode' = "none"
    /\ output' = <<>>
    /\ UNCHANGED <<policy, base_seed, unique, roots, tgb, progress, pc,
                   pickled, slices, old_policy, calls>>

(* The weights of edges are changed: one by one, by the node an edge leads    *)
(* to, or all by the node it comes from; an exception leaves what was changed *)
(* before it. Without a pickle in between, the block of the process is the    *)
(* block of the sampler.                                                      *)
Changed(change) ==
    CASE change.by = "edge" -> UpdateEdgeWeight(tnb, change.of, change.dst, change.w)
      [] change.by = "node" -> UpdateNodeWeight(tnb, change.of, change.w)
      [] change.by = "all" -> UpdateAllNodeWeight(tnb, change.w)

Reweigh(change) ==
    /\ pc = "idle"
    /\ slices = <<>>
    /\ calls < MaxCalls
    /\ tnb' = Changed(change).tnb
    /\ tnb_map' = IF pickled THEN tnb_map ELSE [tnb_map EXCEPT ![graph] = tnb']
    /\ calls' = calls + 1
    /\ UNCHANGED <<policy, base_seed, unique, roots, ret, tgb, progress, pc,
                   pickled, graph, dense, mode, output, slices, old_policy>>

Timeless(nodes) == [i \in DOMAIN nodes |-> [nodes[i] EXCEPT !.ts = 0]]

(* neighbor_sample_from_nodes. Without times and a number of neighbours to    *)
(* draw, only two policies set the number drawn; Python never passes          *)
(* part_unique, which then is taken for true.                                 *)
Ask(nodes, part_unique) ==
    /\ calls < MaxCalls
    /\ slices = <<>>
    /\ tnb.with_timestamp => ~part_unique
    /\ ~tnb.with_timestamp => policy \in {"uniform", "weighted"}
    /\ Call(IF tnb.with_timestamp THEN nodes ELSE Timeless(nodes), part_unique)
    /\ calls' = calls + 1
    /\ UNCHANGED <<tnb_map, pickled, graph, dense, mode, output, slices, old_policy>>

(* sample_dtdg_uniform: one call per slice, under its own policy.             *)
AtSlice(nodes, slice) == [i \in DOMAIN nodes |-> [node |-> nodes[i], ts |-> slice]]

AskHistory(h) ==
    /\ pc = "idle"
    /\ calls < MaxCalls
    /\ slices = <<>>
    /\ tnb.with_timestamp
    /\ old_policy' = policy
    /\ slices' = Iota(h.now - h.length + 1, h.now + 1)
    /\ Begins("dtdg_uniform", AtSlice(h.nodes, slices'[1]), FALSE)
    /\ calls' = calls + 1
    /\ UNCHANGED <<tnb, base_seed, tnb_map, pickled, graph, dense, mode, output>>

(* What a mode returns, with the layout of its reads, and the cache it leaves.*)
Built(m) ==
    LET acc == IF m = "serial" THEN SerialBuild(roots, ret, dense)
               ELSE CompactBuild(roots, ret, dense, m = "compact_node_ids", m = "compact_raw_edges")
    IN  IF m = "parallel"
        THEN [out |-> ParallelOutput(roots, ret, Threads), dense |-> dense]
        ELSE [out |-> End(roots, acc), dense |-> Untouched(acc)]

Emits(m) ==
    LET built == Built(m)
    IN  /\ output' = built.out @@ EdgeReadLayout(built.out.edge_gids, DistIndex, World)
        /\ dense' = built.dense
        /\ mode' = m

(* The output of a call of its own.                                           *)
Emit(m) ==
    /\ pc = "sampled"
    /\ slices = <<>>
    /\ Emits(m)
    /\ pc' = "idle"
    /\ UNCHANGED <<tnb, policy, base_seed, unique, roots, ret, tgb, progress,
                   tnb_map, pickled, graph, slices, old_policy, calls>>

(* The output of a slice, and after the last the policy put back.             *)
EmitSlice ==
    /\ pc = "sampled"
    /\ slices # <<>>
    /\ Emits("serial")
    /\ slices' = Tail(slices)
    /\ pc' = "idle"
    /\ policy' = IF slices' = <<>> THEN old_policy ELSE policy
    /\ UNCHANGED <<tnb, base_seed, unique, roots, ret, tgb, progress,
                   tnb_map, pickled, graph, old_policy, calls>>

(* The same nodes at the next slice.                                          *)
NextSlice ==
    /\ pc = "idle"
    /\ slices # <<>>
    /\ Begins(policy, AtSlice([i \in DOMAIN roots |-> roots[i].node], slices[1]), FALSE)
    /\ UNCHANGED <<tnb, base_seed, session>>

Step(A) == A /\ UNCHANGED session

Next ==
    \/ \E name \in DOMAIN Graphs : Reopen(name)
    \/ \E change \in Changes : Reweigh(change)
    \/ \E nodes \in RootLists, u \in Uniques \cup {FALSE} : Ask(nodes, u)
    \/ \E h \in Histories : AskHistory(h)
    \/ \E t \in Tids : Step(Root(t))
    \/ Step(Join)
    \/ \E m \in Modes : Emit(m)
    \/ EmitSlice
    \/ NextSlice

Spec == Init /\ [][Next]_vars
-----------------------------------------------------------------------------
Edges == Topology(Graphs[graph])
Rows(l) == ret[l].rows
RootOf(l, row) == Frontier(l)[row.src_index + 1]
Dtdg == policy = "dtdg_uniform"

(* Every sampled neighbour is the other end of an event that happened before  *)
(* the time its destination was asked for - in a slice call, exactly then -,  *)
(* so that along the layers time only goes back; sampler.h cuts each list at  *)
(* the first edge that is not earlier, which means something only in a list   *)
(* in the order of time and built from the graph the sampler was made for.    *)
SampledFromThePast ==
    pc # "idle" =>
        LET edges == ToSet(Edges) IN
        \A l \in DOMAIN ret : \A k \in DOMAIN Rows(l) :
        LET row == Rows(l)[k]
            root == RootOf(l, row)
        IN  /\ \E edge \in edges :
                /\ edge.eid = row.eid
                /\ edge.src = row.node /\ edge.dst = root.node
                /\ tnb.with_timestamp => edge.ts = row.ts
            /\ IF Dtdg \/ ~tnb.with_timestamp THEN row.ts = root.ts ELSE row.ts < root.ts
            /\ row.delta = root.ts - row.ts

(* What "recent" leaves out is older than, or as old as, all it took, and it  *)
(* leaves nothing out while there is room.                                    *)
RecentIsNewest ==
    policy = "recent" /\ pc # "idle" =>
        LET edges == ToSet(Edges) IN
        \A l \in DOMAIN ret : \A i \in DOMAIN Frontier(l) :
            LET root == Frontier(l)[i]
                taken == {k \in DOMAIN Rows(l) : Rows(l)[k].src_index = i - 1}
                eids == {Rows(l)[k].eid : k \in taken}
                left == {e \in edges : e.dst = root.node /\ e.ts < root.ts /\ e.eid \notin eids}
            IN  /\ \A e \in left, k \in taken : e.ts <= Rows(l)[k].ts
                /\ left # {} => Cardinality(eids) = Fanouts[l]

(* The block of a layer as a single thread would leave it.                    *)
OneThread(l) ==
    FlattenSeq([i \in DOMAIN Frontier(l) |->
        IF tnb.with_timestamp THEN SampleRoot(l, i - 1, Frontier(l)[i], 0)
        ELSE SampleStatic(l, i - 1, Frontier(l)[i], 0)])
(* A block does not depend on which thread sampled what, and when: it is what *)
(* one thread would have sampled, root after root.                            *)
ThreadsAgree ==
    policy # "weighted" /\ pc # "idle" => \A l \in DOMAIN ret : Rows(l) = OneThread(l)
-----------------------------------------------------------------------------
(* Reading an output back.                                                    *)
ByNode == mode = "compact_node_ids"
Compact == mode \in {"compact", "compact_raw_edges", "compact_node_ids"}
Key(key) == IF ByNode THEN key.node ELSE key
NodeAt(lid) == output.node_gids[lid + 1]
EdgeAt(lid) == IF lid < Len(output.edge_gids) THEN output.edge_gids[lid + 1].gid ELSE -1

(* The columns of a layer that stand for an occurrence of a destination.      *)
ColumnsOf(l, i) ==
    IF Compact
    THEN {d \in DOMAIN output.mfgs[l].dst_lids :
            Key(NodeAt(output.mfgs[l].dst_lids[d])) = Key(Frontier(l)[i])}
    ELSE {d \in DOMAIN output.mfgs[l].dst_lids :
            d = i /\ NodeAt(output.mfgs[l].dst_lids[d]) = Frontier(l)[i]}

ReadColumn(l, d) ==
    LET mfg == output.mfgs[l]
        from == mfg.csc_indptr[d]
        src(p) == IF Compact THEN mfg.src_lids[mfg.csc_indices[p] + 1] ELSE mfg.csc_indices[p]
    IN  [k \in 1..(mfg.csc_indptr[d + 1] - from) |->
            [src   |-> Key(NodeAt(src(from + k))),
             eid   |-> IF mode = "compact_raw_edges" THEN mfg.edge_lids[from + k]
                       ELSE EdgeAt(mfg.edge_lids[from + k]),
             delta |-> mfg.delta_t[from + k]]]

(* The rows of the sample a column should hold: those of its destination, and *)
(* by node every edge once.                                                   *)
SampledFor(l, i) ==
    LET here == SelectSeq(Rows(l), LAMBDA row : 
                    IF Compact THEN Key(RootOf(l, row)) = Key(Frontier(l)[i])
                    ELSE row.src_index = i - 1)
        once == SelectSeq([k \in DOMAIN here |-> k],
                    LAMBDA k : \A j \in 1..(k - 1) : here[j].eid # here[k].eid)
        kept == IF ByNode THEN [k \in DOMAIN once |-> here[once[k]]] ELSE here
    IN  [k \in DOMAIN kept |->
            [src   |-> Key([node |-> kept[k].node, ts |-> kept[k].ts]),
             eid   |-> kept[k].eid, delta |-> kept[k].delta]]

(* Grouped by rank, the edges of the table stand in the segment of the rank   *)
(* that stores them, by row, and every edge finds its place there.            *)
ReadsGrouped ==
    output.edge_read_index # <<>> =>
        LET place(k) == DistIndex[output.edge_gids[k].gid + 1]
            segment(p) == (output.edge_read_ptr[p + 1] + 1)..output.edge_read_ptr[p + 2]
        IN  /\ \A k \in DOMAIN output.edge_gids :
                /\ output.edge_read_index[output.compute_to_edge_feature[k] + 1] = place(k)
                /\ output.compute_to_edge_feature[k] + 1 \in segment(place(k).part)
            /\ \A i, j \in DOMAIN output.compute_to_edge_feature :
                i # j => output.compute_to_edge_feature[i] # output.compute_to_edge_feature[j]

(* For every root and every node reached, one column with its neighbours,     *)
(* edges and time differences, in the order sampled.                          *)
ReadsBack ==
    /\ \A i \in DOMAIN roots : NodeAt(output.root_lids[i]) = roots[i]
    /\ \A l \in DOMAIN ret : \A i \in DOMAIN Frontier(l) :
        /\ Cardinality(ColumnsOf(l, i)) = 1
        /\ \A d \in ColumnsOf(l, i) : ReadColumn(l, d) = SampledFor(l, i)

(* In the compact modes the sources of a layer are its destinations and then  *)
(* the destinations of the next, as the layers of a model take them.          *)
LayersChain ==
    Compact => \A l \in 1..(Len(ret) - 1) :
        output.mfgs[l].src_lids = output.mfgs[l].dst_lids \o output.mfgs[l + 1].dst_lids

(* The output built by several threads is the one built by one, but for the   *)
(* sources listed with a layer, which go on to the end of the table.          *)
ParallelIsSerial ==
    mode = "parallel" =>
        LET serial == End(roots, SerialBuild(roots, ret, Clean(graph)))
        IN  /\ \A field \in (DOMAIN serial) \ {"mfgs"} : output[field] = serial[field]
            /\ \A l \in DOMAIN ret :
                 [output.mfgs[l] EXCEPT !.src_lids = serial.mfgs[l].src_lids] = serial.mfgs[l]

(* An output says what was sampled, in every mode and whatever call came      *)
(* before: read back it gives every sampled row in its column, its layers fit *)
(* together, its edges are read from where their features are, and building   *)
(* it with several threads changes nothing.                                   *)
OutputDescribesSample ==
    mode # "none" /\ pc = "idle" =>
        ReadsBack /\ LayersChain /\ ReadsGrouped /\ ParallelIsSerial
=============================================================================
