---------------------------- MODULE SpeedPartition ----------------------------
(* speed_partition.cpp: the edges of a graph go to parts one by one, in the   *)
(* order of time, and take their nodes with them; then every node gets the    *)
(* part that is its master. A few hot nodes may lie on many parts, the others *)
(* should lie on one. Nodes, edges and parts count from 0, lists from 1.      *)
EXTENDS OwnerRoute, Functions

CONSTANTS
    NumNodes,   \* num_nodes
    NumParts,   \* num_parts
    Graphs,     \* lists of edges [src, dst, ts] that may be partitioned
    Topks,      \* how many nodes may be hot: floor(topk_ratio * num_nodes)
    TopkTypes   \* what they may be chosen by, "degree" or "importance"

Node == 0..(NumNodes - 1)
Part == 0..(NumParts - 1)
Edge == [src: Node, dst: Node, ts: Int]

ASSUME PartitionAssumption ==
    /\ NumNodes \in Nat
    /\ NumParts \in Nat \ {0}
    /\ Graphs \subseteq Seq(Edge)

VARIABLES
    events,        \* the edges
    hot_node_ids,  \* is_hot, as a list
    node_parts,    \* node -> its parts, the first it was given first
    edge_owner,    \* the part of each edge so far, -1 for a dropped one
    dropped_edges, \* edges no part was best for
    node_master,   \* node -> its master, -1 while it has none
    replica_nodes, \* nodes that still wait for the choice of their master
    pc             \* "edges", then "masters", then "done"

partition == <<events, hot_node_ids, node_parts, edge_owner, dropped_edges,
               node_master, replica_nodes, pc>>
-----------------------------------------------------------------------------
Ends(e) == {events[e].src, events[e].dst}
IsHot(n) == n \in Elements(hot_node_ids)
Cold(e) == {n \in Ends(e) : ~IsHot(n)}
Held(n) == Elements(node_parts[n])

(* An edge counts twice for the node of a self loop.                          *)
Incident(list, n) ==
    {<<e, 0>> : e \in {e \in DOMAIN list : list[e].src = n}}
        \cup {<<e, 1>> : e \in {e \in DOMAIN list : list[e].dst = n}}
Degree(list, n) == Cardinality(Incident(list, n))

(* The sum of the times of its edges, which importance grows with.            *)
Importance(list, n) ==
    SumFunctionOnSet([i \in Incident(list, n) |-> list[i[1]].ts], Incident(list, n))

(* The order of the nodes: most important, of highest degree, of lowest id.   *)
HotterThan(list, by, a, b) ==
    LET weight(n) == IF by = "importance" THEN Importance(list, n) ELSE 0
    IN  \/ weight(a) > weight(b)
        \/ /\ weight(a) = weight(b)
           /\ \/ Degree(list, a) > Degree(list, b)
              \/ Degree(list, a) = Degree(list, b) /\ a < b

Hottest(list, by, topk) ==
    [k \in 1..topk |->
        CHOOSE n \in Node : Cardinality({m \in Node : HotterThan(list, by, m, n)}) = k - 1]

Init ==
    /\ events \in Graphs
    /\ \E by \in TopkTypes, topk \in Topks : hot_node_ids = Hottest(events, by, topk)
    /\ node_parts = [n \in Node |-> <<>>]
    /\ edge_owner = <<>>
    /\ dropped_edges = {}
    /\ node_master = [n \in Node |-> -1]
    /\ replica_nodes = {}
    /\ pc = "edges"
-----------------------------------------------------------------------------
(* The parts an edge must go to one of, if any: where its cold end is, or     *)
(* where both its cold ends are.                                              *)
Candidates(e) ==
    LET u == events[e].src
        v == events[e].dst
    IN  CASE IsHot(u) /\ ~IsHot(v) -> Held(v)
          [] IsHot(v) /\ ~IsHot(u) -> Held(u)
          [] ~IsHot(u) /\ ~IsHot(v) -> Held(u) \cap Held(v)
          [] OTHER -> {}

(* Variant: an end follows its edge to every part. *)
FollowsEdge(n, part) == TRUE

(* A cold node stays on the first part it was given.                          *)
Joins(n, part) == IsHot(n) \/ node_parts[n] = <<>> \/ node_parts[n][1] = part

(* perform_step. Without candidates the part with the best score is taken:    *)
(* the score weighs loads, times and what the ends have on the part already,  *)
(* in floating point, and may prefer any part.                                *)
PlaceEdge(part) ==
    LET e == Len(edge_owner) + 1
    IN  /\ pc = "edges"
        /\ e \in DOMAIN events
        /\ Candidates(e) # {} => part \in Candidates(e)
        /\ edge_owner' = Append(edge_owner, part)
        /\ node_parts' = [n \in Node |->
               IF n \in Ends(e) /\ Joins(n, part) /\ part \notin Held(n)
               THEN Append(node_parts[n], part)
               ELSE node_parts[n]]
        /\ UNCHANGED <<events, hot_node_ids, dropped_edges, node_master, replica_nodes, pc>>

(* A time long before 0 may make the decay of the score infinite, and no      *)
(* comparison with the product of infinity and zero holds: the edge then has  *)
(* no best part.                                                              *)
DropEdge ==
    LET e == Len(edge_owner) + 1
    IN  /\ pc = "edges"
        /\ e \in DOMAIN events
        /\ Candidates(e) = {}
        /\ events[e].ts < 0
        /\ edge_owner' = Append(edge_owner, -1)
        /\ dropped_edges' = dropped_edges \cup {e}
        /\ UNCHANGED <<events, hot_node_ids, node_parts, node_master, replica_nodes, pc>>

(* first_local_part_or_fallback.                                              *)
FirstPart(n) == IF node_parts[n] # <<>> THEN node_parts[n][1] ELSE n % NumParts

(* A dropped edge goes with its destination; a node that is not hot and lies  *)
(* on one part at most has it for its master, the others wait.                *)
Replicas == {n \in Node : IsHot(n) \/ Len(node_parts[n]) > 1}

SettleMasters ==
    /\ pc = "edges"
    /\ Len(edge_owner) = Len(events)
    /\ edge_owner' = [e \in DOMAIN edge_owner |->
           IF edge_owner[e] < 0 THEN FirstPart(events[e].dst) ELSE edge_owner[e]]
    /\ node_master' = [n \in Node |-> IF n \in Replicas THEN -1 ELSE FirstPart(n)]
    /\ replica_nodes' = Replicas
    /\ pc' = "masters"
    /\ UNCHANGED <<events, hot_node_ids, node_parts, dropped_edges>>

(* choose_balanced_node_master, of one replica: the edges the node has on a part *)
(* against the part's share of the load, by degree, that masters have brought *)
(* it so far. Both sides times max(total, num_parts).                         *)
AtLeastOne(k) == IF k > 1 THEN k ELSE 1
Weight(n) == AtLeastOne(Degree(events, n))
LoadOf(S) == Cardinality(UNION {{n} \X (1..Weight(n)) : n \in S})
Affinity(n, part) == Cardinality({i \in Incident(events, n) : edge_owner[i[1]] = part})

(* Variant: the load is left out. *)
AffinityOnly(n, part) == Affinity(n, part)

MasterScore(n, part) ==
    LET total == LoadOf(Node)
    IN  Affinity(n, part) * (IF total > NumParts THEN total ELSE NumParts)
          - Weight(n) * LoadOf({m \in Node : node_master[m] = part}) * NumParts

(* The replica of the highest degree comes next, of equals the lowest.        *)
NextReplica(n) ==
    /\ n \in replica_nodes
    /\ \A m \in replica_nodes : m = n \/ HotterThan(events, "degree", n, m)

Better(n, p, q) ==
    \/ MasterScore(n, p) > MasterScore(n, q)
    \/ MasterScore(n, p) = MasterScore(n, q) /\ p <= q

ChooseMaster ==
    /\ pc = "masters"
    /\ \E n \in Node :
          /\ NextReplica(n)
          /\ LET open == IF IsHot(n) THEN Part ELSE Held(n)
             IN  \E part \in open :
                   /\ \A other \in open : Better(n, part, other)
                   /\ node_master' = [node_master EXCEPT ![n] = part]
          /\ replica_nodes' = replica_nodes \ {n}
    /\ UNCHANGED <<events, hot_node_ids, node_parts, edge_owner, dropped_edges, pc>>

Settled ==
    /\ pc = "masters"
    /\ replica_nodes = {}
    /\ pc' = "done"
    /\ UNCHANGED <<events, hot_node_ids, node_parts, edge_owner, dropped_edges,
                   node_master, replica_nodes>>

PartitionNext ==
    \/ \E part \in Part : PlaceEdge(part)
    \/ DropEdge
    \/ SettleMasters
    \/ ChooseMaster
    \/ Settled

PartitionSpec == Init /\ [][PartitionNext]_partition
-----------------------------------------------------------------------------
PartitionTypeOK ==
    /\ events \in Graphs
    /\ node_parts \in [Node -> Seq(Part)]
    /\ edge_owner \in Seq(Part \cup {-1})
    /\ Len(edge_owner) <= Len(events)
    /\ dropped_edges \subseteq DOMAIN edge_owner
    /\ node_master \in [Node -> Part \cup {-1}]
    /\ replica_nodes \subseteq Node
    /\ pc \in {"edges", "masters", "done"}

(* A node that is not hot is mastered by the one part it lies on, and by none *)
(* of its others; an edge lies on the part that masters its cold ends         *)
(* whenever they have one master between them. Both hold of edges placed long *)
(* before their ends' masters are known. perform_step and                     *)
(* choose_balanced_node_master keep no more than the lists of parts for that. *)
EdgesWithTheirNodes ==
    pc = "done" =>
        /\ \A n \in Node : ~IsHot(n) => Held(n) \subseteq {node_master[n]}
        /\ \A e \in (DOMAIN events) \ dropped_edges, part \in Part :
               Cold(e) # {} /\ (\A n \in Cold(e) : node_master[n] = part)
                   => edge_owner[e] = part

(* A step that gives a node a master takes none that is ahead of another part *)
(* by more than an even share of the whole load.                              *)
SpreadsLoad ==
    \A n \in Node :
        pc = "masters" /\ node_master[n] = -1 /\ node_master'[n] # -1 =>
            LET load(part) == LoadOf({m \in Node : node_master[m] = part})
            IN  \A part \in Part :
                    (load(node_master'[n]) - load(part)) * NumParts
                        <= (IF LoadOf(Node) > NumParts THEN LoadOf(Node) ELSE NumParts)

(* No master is chosen that already has more than an even share of the whole  *)
(* load ahead of another part, however many edges the node has there.         *)
(* choose_balanced_node_master.                                               *)
MastersSpread == [][SpreadsLoad]_partition
=============================================================================
