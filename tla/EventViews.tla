------------------------------ MODULE EventViews ------------------------------
(* prepare/event.py and the state writes of utils/route.py: the events of     *)
(* each rank, which of them write the state of a node - the last of a window  *)
(* to touch it - and who sends those writes where.                            *)
EXTENDS PartitionPlan, TimeSplits

(* Variant: the first row of the window. *)
FirstTouch(w, n) ==
    CHOOSE e \in Rows(w) : n \in Ends(e) /\ \A f \in Rows(w) : n \in Ends(f) => e <= f

LastTouch(w, n) ==
    CHOOSE e \in Rows(w) : n \in Ends(e) /\ \A f \in Rows(w) : n \in Ends(f) => f <= e

(* build_state_write_mask: which ends of an event are written. If windows     *)
(* overlap, the last one that has the event decides.                          *)
WriteMask(windows) ==
    LET of(e) == {k \in DOMAIN windows : e \in Rows(windows[k])}
        writes(e, n) == \E k \in of(e) : (\A j \in of(e) : j <= k) /\ LastTouch(windows[k], n) = e
    IN  [e \in DOMAIN events |->
            [src |-> writes(e, events[e].src), dst |-> writes(e, events[e].dst)]]
-----------------------------------------------------------------------------
(* _localize_time_ptr_2: a window in the list of a rank's own events.         *)
LocalRowsOf(rank) == Increasing({e \in DOMAIN events : Owner(e) = rank})

Localized(windows, rank) ==
    LET before(row) == Cardinality({e \in Elements(LocalRowsOf(rank)) : e <= row})
    IN  [k \in DOMAIN windows |-> Cut(before(windows[k].begin), before(windows[k].end))]

(* _state_write_candidates: the writes among some events, first those of      *)
(* their sources; hot or not hot.                                             *)
WritesOf(rows, mask, hot) ==
    LET of(role) ==
            LET by == Masked(rows, {i \in DOMAIN rows : mask[rows[i]][role]})
            IN  [i \in DOMAIN by |-> [event |-> by[i], node |-> events[by[i]][role], role |-> role]]
        all == of("src") \o of("dst")
    IN  Masked(all, {i \in DOMAIN all : IsHot(all[i].node) = hot})

(* build_exchange_route: sorted by the owner of the node.                     *)
SendRoute(writes) ==
    LET index == NodeIndex
        order == Argsort([i \in DOMAIN writes |-> index[writes[i].node].part])
        sent == Pick(writes, order)
    IN  [send_sizes    |-> [peer \in Part |->
                              Cardinality({i \in DOMAIN sent : index[sent[i].node].part = peer})],
         sent          |-> sent,
         send_dst_rows |-> [i \in DOMAIN sent |-> index[sent[i].node].loc]]

(* The writes a peer has to send, as a receiver works them out.               *)
WritesFrom(rows, peer, mask, hot) ==
    WritesOf(Masked(rows, {i \in DOMAIN rows : Owner(rows[i]) = peer}), mask, hot)

(* _state_write_recv_layout: peer after peer, the rows of this rank.          *)
RecvLayout(rank, rows, mask, hot) ==
    LET index == NodeIndex
        from == [peer \in Part |->
                    LET all == WritesFrom(rows, peer, mask, hot)
                    IN  Masked(all, {i \in DOMAIN all : index[all[i].node].part = rank})]
    IN  [recv_sizes |-> [peer \in Part |-> Len(from[peer])],
         recv_rows  |-> FlattenSeq([k \in 1..NumParts |->
                           [i \in DOMAIN from[k - 1] |-> index[from[k - 1][i].node].loc]])]

(* build_state_write_routes_for_rank: per window, what a rank sends of its    *)
(* own events and what it expects of the others.                              *)
WriteRoutes(rank, windows, mask, hot) ==
    LET mine == LocalRowsOf(rank)
        local == Localized(windows, rank)
    IN  [k \in DOMAIN windows |->
        LET own == local[k]
            rows == [i \in 1..(own.end - own.begin) |-> mine[own.begin + i]]
            all == [i \in 1..(windows[k].end - windows[k].begin) |-> windows[k].begin + i]
            send == SendRoute(WritesOf(rows, mask, hot))
            recv == RecvLayout(rank, all, mask, hot)
        IN  [send_sizes |-> send.send_sizes, sent |-> send.sent, send_dst_rows |-> send.send_dst_rows,
             recv_sizes |-> recv.recv_sizes, recv_rows |-> recv.recv_rows]]

(* build_event_view_for_rank.                                                 *)
EventView(rank, windows, mask) ==
    [edge_ids               |-> LocalRowsOf(rank),
     time_ptr_2             |-> Localized(windows, rank),
     state_write_mask       |-> [i \in DOMAIN LocalRowsOf(rank) |-> mask[LocalRowsOf(rank)[i]]],
     state_write_routes     |-> WriteRoutes(rank, windows, mask, FALSE),
     hot_state_write_events |-> WriteRoutes(rank, windows, mask, TRUE)]
=============================================================================
