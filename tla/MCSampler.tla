------------------------------ MODULE MCSampler ------------------------------
(* Two small histories of events, one stored out of the order of time and     *)
(* with several events at one time, sampled in two layers by two threads.     *)
EXTENDS SamplerSession

Event(a, b, t) == [src |-> a, dst |-> b, ts |-> t, w |-> a + 1]

Columns3(time, weight) == [eid |-> TRUE, time |-> time, weight |-> weight, distinct |-> FALSE]

MCGraphs ==
    "a" :> [reverse |-> TRUE, with |-> Columns3(TRUE, FALSE),
            events |-> <<Event(0, 1, 2), Event(1, 2, 1), Event(2, 0, 2), Event(1, 2, 3)>>]
    @@ "b" :> [reverse |-> FALSE, with |-> Columns3(TRUE, TRUE),
               events |-> <<Event(1, 0, 2), Event(2, 0, 1), Event(0, 2, 1), Event(1, 0, 1)>>]
    @@ "c" :> [reverse |-> TRUE, with |-> Columns3(FALSE, TRUE),
               events |-> <<Event(1, 0, 2), Event(2, 0, 1), Event(2, 1, 1), Event(1, 0, 1)>>]
MCChanges == {[by |-> "all", of |-> <<>>, w |-> <<5, 3, 4>>],
              [by |-> "edge", of |-> <<1, 2>>, dst |-> <<0, 0>>, w |-> <<7, 8>>],
              [by |-> "node", of |-> <<0, 2>>, w |-> <<6, 9>>]}

MCFanouts == <<2, 1>>
Root2(a, t, b, u) == <<[node |-> a, ts |-> t], [node |-> b, ts |-> u]>>
MCRoots == {Root2(0, 3, 0, 4), Root2(2, 4, 2, 4) \o Root2(1, 2, 0, 3)}
MCHistories == {[nodes |-> <<0, 2>>, now |-> 2, length |-> 2]}

(* Half of the edges belong to another rank, and node 2 does.                 *)
MCEdgePart == [e \in 0..5 |-> e % 2]
MCNodePart == [n \in 0..2 |-> IF n = 2 THEN 1 ELSE 0]
MCDistIndex == [k \in 1..8 |-> [part |-> k % 2, loc |-> (8 - k) \div 2]]

MCBits(seed, layer, i, d) == seed + 2 * layer + i + d
MCKeep(seed, layer, i, cid) == (seed + layer + i + cid) % 2 = 0
MCThreadDraw(t) == 60 + 20 * t
MCPrinted(w) == w
=============================================================================
