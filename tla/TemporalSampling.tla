-------------------------- MODULE TemporalSampling --------------------------
(* Neighbour sampling by the threads of ParallelSampler (sampler.h): every    *)
(* layer is sampled by all threads at once, each from its own share of the    *)
(* roots into its own block; the blocks are put one behind the other and      *)
(* their nodes, at the times of the edges that led there, are the roots of    *)
(* the next layer.                                                            *)
EXTENDS NeighborBlock

CONSTANTS
    Threads,          \* threads of the sampler
    Fanouts,          \* neighbours wanted in each layer, a sequence
    LocalPart,        \* rank of the sampler, -1 without a partition
    EdgePart,         \* edge id -> rank, for the ids the partition knows
    NodePart,         \* node -> rank that owns it
    Hot,              \* nodes replicated everywhere
    Bits(_, _, _, _), \* what splitmix64 makes of seed, layer, root and draw
    Keep(_, _, _, _), \* whether the draw of a boundary edge stays below its probability
    ThreadDraw(_)     \* first rand_r of a generator seeded with the thread, in percent

ASSUME SamplerAssumption ==
    /\ Threads \in Nat \ {0}
    /\ Fanouts \in Seq(Nat \ {0})

Policies == {"recent", "uniform", "weighted", "dtdg_uniform",
             "boundery_recent_decay", "boundery_recent_uniform", "boundery_uniform"}
Layers == 1..Len(Fanouts)
Tids == 0..(Threads - 1)

VARIABLES
    tnb,        \* the adjacency sampled from
    policy,     \* how neighbours are chosen
    base_seed,  \* seed of the draws
    unique,     \* part_unique of a call without times
    roots,      \* nodes and times asked for
    ret,        \* the blocks of the layers sampled so far
    tgb,        \* what each thread has sampled of the layer under way
    progress,   \* how many of its roots each thread is through with
    pc          \* "idle", "sampling" or "sampled"

sampling == <<tnb, policy, base_seed, unique, roots, ret, tgb, progress, pc>>
-----------------------------------------------------------------------------
(* std::lower_bound and upper_bound halve a range, whatever its order.        *)
Bisect(times, Left(_)) ==
    LET first[f \in 0..Len(times), n \in 0..Len(times)] ==
            LET half == n \div 2
            IN  IF n = 0 THEN f
                ELSE IF Left(times[f + half + 1]) THEN first[f + half + 1, n - half - 1]
                ELSE first[f, half]
    IN  first[0, Len(times)]

LowerBound(times, t) == Bisect(times, LAMBDA x : x < t)
UpperBound(times, t) == Bisect(times, LAMBDA x : x <= t)

IsBoundery == policy \in {"boundery_recent_decay", "boundery_recent_uniform", "boundery_uniform"}

(* An edge of another rank, or one to a cold node another rank owns.          *)
IsBoundaryCandidate(eid, node) ==
    /\ LocalPart >= 0 /\ DOMAIN EdgePart # {}
    /\ \/ eid \notin DOMAIN EdgePart
       \/ EdgePart[eid] # LocalPart
       \/ node \in DOMAIN NodePart /\ node \notin Hot /\ NodePart[node] # LocalPart

(* sample_multinomial: the position where the running sum of the weights      *)
(* reaches the draw of the thread; the whole list takes part, whatever its    *)
(* times.                                                                     *)
Multinomial(weights, tid) ==
    LET sum(k) == FoldLeft(LAMBDA a, b : a + b, 0, SubSeq(weights, 1, k))
        reached == {k \in DOMAIN weights : 100 * sum(k) >= ThreadDraw(tid) * sum(Len(weights))}
    IN  Min(reached) - 1

(* From the newest earlier edge back, at most twice the fanout looked at;     *)
(* a boundary edge stays only if its draw says so, and under decay only among *)
(* the first fanout edges.                                                    *)
Scan(layer, i, node, end, fanout) ==
    LET back == [k \in 1..Min({end, 2 * fanout}) |-> end - k]
        stays(cid) ==
            \/ ~IsBoundaryCandidate(tnb.eid[node][cid + 1], tnb.neighbors[node][cid + 1])
            \/ /\ policy = "boundery_recent_decay" => end - cid <= fanout
               /\ Keep(base_seed, layer, i, cid)
        kept == SelectSeq(back, stays)
    IN  SubSeq(kept, 1, Min({Len(kept), fanout}))

Span(a, b) == [k \in 1..(b - a) |-> a + k - 1]

(* Variant: edges at the time of the root included. *)
PositionsInclusive(layer, i, root, tid) ==
    LET fanout == Fanouts[layer]
        end == UpperBound(tnb.timestamp[root.node], root.ts)
    IN  Span(Max({0, end - fanout}), end)

(* The positions sampled for one root, one branch of the loop body each.      *)
Positions(layer, i, root, tid) ==
    LET fanout == Fanouts[layer]
        times == tnb.timestamp[root.node]
        dtdg == policy = "dtdg_uniform"
        start == IF dtdg THEN LowerBound(times, root.ts) ELSE 0
        end == IF dtdg THEN UpperBound(times, root.ts) ELSE LowerBound(times, root.ts)
        draws == [d \in 1..fanout |->
                    CASE policy = "uniform" -> Bits(base_seed, layer, i, d - 1) % end
                      [] dtdg -> start + (Bits(base_seed, layer, i, d - 1) % (end - start))
                      [] policy = "weighted" -> Multinomial(tnb.edge_weight[root.node], tid)]
    IN  CASE dtdg /\ end - start <= fanout -> Span(start, end)
          [] policy = "recent" \/ (~dtdg /\ end <= fanout /\ ~IsBoundery) ->
                Span(Max({0, end - fanout}), end)
          [] IsBoundery -> Scan(layer, i, root.node, end, fanout)
          [] OTHER -> draws

(* What one root adds to the block of a thread.                               *)
SampleRoot(layer, i, root, tid) ==
    LET cids == Positions(layer, i, root, tid)
    IN  [k \in DOMAIN cids |->
            [src_index |-> i,
             node      |-> tnb.neighbors[root.node][cids[k] + 1],
             ts        |-> tnb.timestamp[root.node][cids[k] + 1],
             eid       |-> tnb.eid[root.node][cids[k] + 1],
             delta     |-> root.ts - tnb.timestamp[root.node][cids[k] + 1]]]

(* Without times: all edges up to the fanout, else draws; with part_unique a  *)
(* neighbour is taken once. The draws are numbered by the loop over the       *)
(* fanout, whose variable hides the root's, so every root draws alike. There  *)
(* are no times and differences; 0 stands for them. Left out: in a block with *)
(* sets of distinct neighbours part_unique adds a draw for every one it finds.*)
SampleStatic(layer, i, root, tid) ==
    LET fanout == Fanouts[layer]
        nei == tnb.neighbors[root.node]
        draw(d, taken) ==
            IF policy = "weighted" THEN Multinomial(tnb.edge_weight[root.node], tid)
            ELSE Bits(base_seed, layer, d - 1, Cardinality(taken)) % Len(nei)
        step(acc, d) ==
            LET p == draw(d, {nei[acc[k] + 1] : k \in IF unique THEN DOMAIN acc ELSE {}})
            IN  IF unique /\ \E k \in DOMAIN acc : nei[acc[k] + 1] = nei[p + 1] THEN acc
                ELSE Append(acc, p)
        cids == IF tnb.deg[root.node] > fanout
                THEN FoldLeft(step, <<>>, [d \in 1..fanout |-> d])
                ELSE Span(0, tnb.deg[root.node])
    IN  [k \in DOMAIN cids |->
            [src_index |-> i, node |-> nei[cids[k] + 1], ts |-> 0,
             eid |-> tnb.eid[root.node][cids[k] + 1], delta |-> 0]]
-----------------------------------------------------------------------------
Layer == Len(ret) + 1

(* The roots of a layer: those of the call, or the nodes of the layer before. *)
Frontier(layer) ==
    IF layer = 1 THEN roots
    ELSE [k \in DOMAIN ret[layer - 1].nodes |->
            [node |-> ret[layer - 1].nodes[k],
             ts   |-> IF tnb.with_timestamp THEN ret[layer - 1].rows[k].ts ELSE 0]]

CeilDiv(a, b) == (a + b - 1) \div b

(* schedule(static, ceil(n / threads)): shares dealt in turn, in order.       *)
RootsOf(tid, n) ==
    LET share == CeilDiv(n, Threads)
    IN  SelectSeq(Span(0, n), LAMBDA i : (i \div share) % Threads = tid)

StartLayer ==
    /\ tgb' = [t \in Tids |-> <<>>]
    /\ progress' = [t \in Tids |-> 0]

(* Sampling of the first layer begins under the given policy.                 *)
Begins(how, nodes, part_unique) ==
    /\ policy' = how
    /\ roots' = nodes
    /\ unique' = part_unique
    /\ ret' = <<>>
    /\ StartLayer
    /\ pc' = "sampling"

(* neighbor_sample_from_nodes: the policy must suit the graph.                *)
Call(nodes, part_unique) ==
    /\ pc = "idle"
    /\ policy = "weighted" => tnb.weighted
    /\ policy = "recent" => tnb.with_timestamp
    /\ Begins(policy, nodes, part_unique)
    /\ UNCHANGED <<tnb, base_seed>>

(* A thread takes the next root of its share.                                 *)
Root(tid) ==
    LET mine == RootsOf(tid, Len(Frontier(Layer)))
        i == mine[progress[tid] + 1]
        root == Frontier(Layer)[i + 1]
    IN  /\ pc = "sampling"
        /\ progress[tid] < Len(mine)
        /\ tgb' = [tgb EXCEPT ![tid] = @ \o
                IF tnb.with_timestamp THEN SampleRoot(Layer, i, root, tid)
                ELSE SampleStatic(Layer, i, root, tid)]
        /\ progress' = [progress EXCEPT ![tid] = @ + 1]
        /\ UNCHANGED <<tnb, policy, base_seed, unique, roots, ret, pc>>

(* Variant: the blocks of the threads put together last thread first. *)
MergedReversed == FlattenSeq([k \in 1..Threads |-> tgb[Threads - k]])

Merged == FlattenSeq([k \in 1..Threads |-> tgb[k - 1]])

(* The nodes of a block stand beside its edges, but for part_unique: then     *)
(* they are the distinct nodes in the order of a hash set.                    *)
NodeLists(rows) ==
    LET nodes == [k \in DOMAIN rows |-> rows[k].node]
    IN  IF tnb.with_timestamp \/ ~unique THEN {nodes} ELSE SetToSeqs(ToSet(nodes))

(* The join of the threads: the next layer, or the end of the call.           *)
Join ==
    /\ pc = "sampling"
    /\ \A t \in Tids : progress[t] = Len(RootsOf(t, Len(Frontier(Layer))))
    /\ \E nodes \in NodeLists(Merged) : ret' = Append(ret, [rows |-> Merged, nodes |-> nodes])
    /\ StartLayer
    /\ pc' = IF Len(ret') = Len(Fanouts) THEN "sampled" ELSE "sampling"
    /\ UNCHANGED <<tnb, policy, base_seed, unique, roots>>
=============================================================================
