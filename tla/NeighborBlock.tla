---------------------------- MODULE NeighborBlock ----------------------------
(* The adjacency the sampler reads (sampler/include/neighbors.h): for every   *)
(* node its in-neighbours in the order of the edge list, with the lists of    *)
(* edge ids, times and weights beside them, position by position. Positions   *)
(* count from 0 as in the code: position p of a list is its element p + 1.    *)
EXTENDS Integers, Sequences, SequencesExt, FiniteSets, FiniteSetsExt, TLC

(* What a list of edges leaves at node n of one of its columns.               *)
Column(edges, n, field) ==
    LET at == SelectSeq(edges, LAMBDA e : e.dst = n)
    IN  [k \in DOMAIN at |-> at[k][field]]

Columns(edges, n, field) == [v \in 0..(n - 1) |-> Column(edges, v, field)]

(* Where the weight of an edge is looked for. The lists of neighbours are     *)
(* complete before the first weight is stored, so every key is given the last *)
(* position of its node.                                                      *)
InvertedIndex(edges, v, by) ==
    LET keys == Column(edges, v, by)
    IN  [k \in ToSet(keys) |-> Len(keys) - 1]

(* get_neighbors: which optional columns there are is fixed here for good.    *)
BlockOf(edges, n, with) ==
    [neighbors       |-> Columns(edges, n, "src"),
     eid             |-> IF with.eid THEN Columns(edges, n, "eid") ELSE <<>>,
     timestamp       |-> IF with.time THEN Columns(edges, n, "ts") ELSE <<>>,
     edge_weight     |-> IF with.weight THEN Columns(edges, n, "w") ELSE <<>>,
     inverted_index  |->
        IF with.weight
        THEN [v \in 0..(n - 1) |-> InvertedIndex(edges, v, IF with.eid THEN "eid" ELSE "src")]
        ELSE <<>>,
     neighbors_set   |->
        IF with.distinct THEN [v \in 0..(n - 1) |-> ToSet(Column(edges, v, "src"))] ELSE <<>>,
     deg             |-> [v \in 0..(n - 1) |-> Len(Column(edges, v, "src"))],
     with_eid        |-> with.eid,
     weighted        |-> with.weight,
     with_timestamp  |-> with.time]

(* A process keeps its blocks by name; a name that is known returns the block *)
(* built first, whatever edges come with the call.                            *)
GetNeighbors(tnb_map, name, edges, n, with) ==
    IF name \in DOMAIN tnb_map THEN tnb_map ELSE tnb_map @@ (name :> BlockOf(edges, n, with))
-----------------------------------------------------------------------------
(* Changes of a block return what they leave and whether they raised: an edge *)
(* that is not found raises with the edges before it already changed.         *)
Done(tnb) == [raised |-> FALSE, tnb |-> tnb]
Raised(tnb) == [raised |-> TRUE, tnb |-> tnb]

SetWeight(tnb, v, p, w) == [tnb EXCEPT !.edge_weight[v][p + 1] = w]

UpdateEdgeWeight(tnb, keys, dst, w) ==
    LET one(acc, i) ==
            IF acc.raised THEN acc
            ELSE IF keys[i] \notin DOMAIN tnb.inverted_index[dst[i]] THEN Raised(acc.tnb)
            ELSE Done(SetWeight(acc.tnb, dst[i], tnb.inverted_index[dst[i]][keys[i]], w[i]))
    IN  IF tnb.weighted
        THEN FoldLeft(one, Done(tnb), [i \in 1..Len(dst) |-> i])
        ELSE Raised(tnb)

(* Stops at the first node without in-edges, leaving the rest as they were.   *)
UpdateNodeWeight(tnb, nodes, w) ==
    LET known(i) == nodes[i] < Cardinality(DOMAIN tnb.deg)
        one(acc, i) ==
            IF acc.stopped \/ acc.raised THEN acc
            ELSE IF ~known(i) THEN [acc EXCEPT !.raised = TRUE]
            ELSE IF DOMAIN tnb.inverted_index[nodes[i]] = {} THEN [acc EXCEPT !.stopped = TRUE]
            ELSE [acc EXCEPT !.tnb.edge_weight[nodes[i]] =
                    [p \in DOMAIN @ |->
                        IF p - 1 \in Range(tnb.inverted_index[nodes[i]]) THEN w[i] ELSE @[p]]]
        last == FoldLeft(one, [raised |-> FALSE, stopped |-> FALSE, tnb |-> tnb],
                         [i \in 1..Len(nodes) |-> i])
    IN  IF tnb.weighted THEN [raised |-> last.raised, tnb |-> last.tnb] ELSE Raised(tnb)

(* Every edge takes the weight of the neighbour it comes from.                *)
WeightOfNeighbor(tnb, v, p, w) == w[tnb.neighbors[v][p] + 1]

UpdateAllNodeWeight(tnb, w) ==
    IF tnb.weighted /\ Len(w) = Cardinality(DOMAIN tnb.neighbors)
    THEN Done([tnb EXCEPT !.edge_weight =
            [v \in DOMAIN @ |-> [p \in DOMAIN @[v] |-> WeightOfNeighbor(tnb, v, p, w)]]])
    ELSE Raised(tnb)
-----------------------------------------------------------------------------
(* Pickling writes one text cut by bars: flags and lists of neighbours, then  *)
(* a part for every other column. Numbers only; a weight is printed with six  *)
(* digits, of which Printed is what comes back.                               *)
CONSTANT Printed(_)

Bit(b) == IF b THEN 1 ELSE 0
Listing(lists) ==
    FlattenSeq([k \in 1..Cardinality(DOMAIN lists) |-> <<Len(lists[k - 1])>> \o lists[k - 1]])
Pairs(f) == FlattenSeq([k \in 1..Cardinality(DOMAIN f) |->
                LET key == SetToSeq(DOMAIN f)[k] IN <<key, f[key]>>])

Serialize(tnb) ==
    LET maps == tnb.inverted_index
        sets == tnb.neighbors_set
    IN  <<<<Bit(tnb.with_eid), 0, Bit(tnb.weighted), Bit(tnb.with_timestamp)>>
              \o Listing(tnb.neighbors),
          Listing(tnb.timestamp), Listing(tnb.eid), <<>>,
          Listing([v \in DOMAIN tnb.edge_weight |->
                      [p \in DOMAIN tnb.edge_weight[v] |-> Printed(tnb.edge_weight[v][p])]]),
          <<Cardinality(DOMAIN tnb.deg)>>
              \o [k \in 1..Cardinality(DOMAIN tnb.deg) |-> tnb.deg[k - 1]],
          FlattenSeq([k \in 1..Cardinality(DOMAIN maps) |->
              <<Cardinality(DOMAIN maps[k - 1])>> \o Pairs(maps[k - 1])]),
          FlattenSeq([k \in 1..Cardinality(DOMAIN sets) |->
              <<Cardinality(sets[k - 1])>> \o SetToSeq(sets[k - 1])])>>

(* The pieces of a part: a size, then that many items of width numbers.       *)
Pieces(part, width) ==
    LET from[i \in 1..(Len(part) + 1)] ==
            IF i > Len(part) THEN <<>>
            ELSE <<SubSeq(part, i + 1, i + width * part[i])>> \o from[i + width * part[i] + 1]
        found == from[1]
    IN  [v \in 0..(Len(found) - 1) |-> found[v + 1]]

Deserialize(text) ==
    LET map(items) == [k \in {items[2 * j - 1] : j \in 1..(Len(items) \div 2)} |->
                          items[2 * (CHOOSE j \in 1..(Len(items) \div 2) : items[2 * j - 1] = k)]]
        flags == SubSeq(text[1], 1, 4)
    IN  [neighbors      |-> Pieces(SubSeq(text[1], 5, Len(text[1])), 1),
         timestamp      |-> Pieces(text[2], 1),
         eid            |-> Pieces(text[3], 1),
         edge_weight    |-> Pieces(text[5], 1),
         deg            |-> [v \in 0..(text[6][1] - 1) |-> text[6][v + 2]],
         inverted_index |-> [v \in DOMAIN Pieces(text[7], 2) |-> map(Pieces(text[7], 2)[v])],
         neighbors_set  |-> [v \in DOMAIN Pieces(text[8], 1) |-> ToSet(Pieces(text[8], 1)[v])],
         with_eid       |-> flags[1] = 1,
         weighted       |-> flags[3] = 1,
         with_timestamp |-> flags[4] = 1]
=============================================================================
