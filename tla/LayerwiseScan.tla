--------------------------- MODULE LayerwiseScan ---------------------------
(***************************************************************************)
(* One training batch of a decoupled snapshot model                        *)
(* (run_decoupled_window_dag_scan, runtime/snapshot/scan.py) on every rank,*)
(* forward and backward.  A batch is a history of snapshots, oldest first. *)
(* Layer by layer, one coroutine per snapshot computes its rows, enters the*)
(* exchange of the boundary rows and is suspended; it is resumed when all  *)
(* snapshots of the layer have been started.  After the last layer the     *)
(* recurrent cell runs from the oldest snapshot to the newest, and autograd*)
(* walks the recorded operations back, entering the exchanges again with   *)
(* the gradients.                                                          *)
(*                                                                         *)
(* Exchanges are matched by the order in which a rank enters them, not by  *)
(* name: the n-th call of a rank receives what its peers send in their     *)
(* n-th call.  A row is the node it belongs to and the snapshot that       *)
(* computed it; what is computed from it is left out.                      *)
(***************************************************************************)
EXTENDS OwnerRoute, SequencesExt

CONSTANTS
    Rank,
    Rows,           \* Rows[r]: the nodes r owns with their chunk, in owner order
    Layers,         \* graph layers of the model
    ChunkCount,     \* chunks per rank, the length of the chunk order
    Decay,          \* chunk_decay, the newest decayed snapshot first
    NumFull,        \* num_full_snapshots
    FullLimit,      \* full_snapshot_chunk_limit, -1 when unset
    LastWindow,     \* the batches of the split are 0 .. LastWindow
    Modes           \* "dag", or the two environment switches

Chunk == 0 .. ChunkCount - 1
Permutation == {f \in [Chunk -> Chunk] : \A i, j \in Chunk : f[i] = f[j] => i = j}

ASSUME RankAssumption == Rank # {}
ASSUME LayersAssumption == Layers \in Nat \ {0}
ASSUME ChunksAssumption ==
    /\ ChunkCount \in Nat \ {0} /\ NumFull \in Nat \ {0} /\ LastWindow \in Nat
    /\ Decay \in Seq(Nat) /\ FullLimit \in Nat \cup {-1}
ASSUME RowsAssumption ==
    \A r \in Rank :
        /\ Rows[r] \in Seq([node : Nat, chunk : Nat])
        /\ \A i, j \in DOMAIN Rows[r] : Rows[r][i].node = Rows[r][j].node => i = j
ASSUME ModesAssumption == Modes \subseteq {"dag", "immediate", "sequential"}

VARIABLES
    config,     \* what the ranks were started with
    targets,    \* the ranks that own targets of this batch
    pc,
    first,      \* the oldest snapshot of the group being scanned
    layer,
    current,    \* coroutines this pass still has to send to
    pending,    \* coroutines suspended for the next pass
    awaited,    \* awaited[r][w]: the call w is suspended on, 0 for none
    value,      \* value[r][w]: the layer of w's rows and the boundary received
    calls,      \* calls[r]: the exchanges r entered, in order
    tape,       \* the operations autograd recorded
    next,       \* the snapshot the recurrent cell reads next
    carried,    \* the state the cell carries, a row per node
    read,       \* read[r][w]: the previous state the cell was given for w
    reached,    \* the snapshots the gradient of the last output reaches
    returned    \* the gradients that came back

scan == <<first, layer, current, pending, awaited, value>>
cell == <<next, carried, read, reached>>
vars == <<config, targets, pc, scan, cell, calls, tape, returned>>

(* Which snapshots a batch has and which rows of them.                     *)

\* _input_window: full snapshots up to the target, decayed ones before them,
\* none before the split.
FullBegin(k) == IF k - NumFull + 1 > 0 THEN k - NumFull + 1 ELSE 0
Begin(k) == IF FullBegin(k) > Len(Decay) THEN FullBegin(k) - Len(Decay) ELSE 0
Limit(k, w) == IF w >= FullBegin(k) THEN FullLimit ELSE Decay[FullBegin(k) - w]

Window == Begin(config.window) .. config.window

\* A limit that covers the whole chunk order leaves the snapshot complete.
Complete(r, limit) == limit < 0 \/ limit >= ChunkCount

MinChunk == [r \in Rank |->
    CHOOSE c \in {x.chunk : x \in ToSet(Rows[r])} : \A x \in ToSet(Rows[r]) : c <= x.chunk]
\* _chunk_rank: chunks are counted from the first one the rank owns.
Priority(r, row) ==
    LET chunk == row.chunk - MinChunk[r]
    IN  config.order[IF chunk < ChunkCount THEN chunk ELSE ChunkCount - 1]
Nodes(rows) == [i \in DOMAIN rows |-> rows[i].node]

\* _reorder_snapshot_row_for_chunk_prefix.
Sorted(r) == Pick(Rows[r], Argsort([i \in DOMAIN Rows[r] |-> Priority(r, Rows[r][i])]))
Within(r, limit) == {i \in DOMAIN Rows[r] : Priority(r, Rows[r][i]) < limit}
\* _slice_csc_prefix.
Bucketed(r, limit) == SubSeq(Sorted(r), 1, Cardinality(Within(r, limit)))
\* _slice_csc_row.
Selected(r, limit) == Pick(Rows[r], Increasing(Within(r, limit)))

\* Rows served from the packed blob of a snapshot are in chunk order.
FromBlob(limit) == \/ config.layout = "ordered"
                   \/ (config.layout = "rolling" /\ limit >= 0)
Layout(r, w) ==
    LET limit == Limit(config.window, w)
        whole == Complete(r, limit)
    IN  [limited |-> ~whole,
         ordered |-> FromBlob(limit),
         nodes |-> Nodes(IF FromBlob(limit)
                         THEN Bucketed(r, IF whole THEN ChunkCount ELSE limit)
                         ELSE IF whole THEN Rows[r] ELSE Selected(r, limit))]

\* Limited rows have no route.
NeedsExchange(r, w) == Complete(r, Limit(config.window, w))

(* The layers.                                                             *)

Group(r, from) == IF config.mode = "sequential" THEN {from} ELSE from .. config.window
\* _layer_schedule_order: before the last layer the routed snapshots first.
ScheduleOrder(r, from, l) ==
    LET routed == {w \in Group(r, from) : l + 1 < Layers /\ NeedsExchange(r, w)}
    IN  Increasing(routed) \o Increasing(Group(r, from) \ routed)

Local == {}                 \* no boundary rows are received
Pull(w, l) == [kind |-> "pull", window |-> w, layer |-> l]
Grad(w, l) == [kind |-> "grad", window |-> w, layer |-> l]

Enter(r, call) == calls' = [calls EXCEPT ![r] = Append(@, call)]
Record(r, op, w) ==
    tape' = [tape EXCEPT ![r] = Append(@, [op |-> op, window |-> w, layer |-> layer[r] + 1])]
\* Call n of r is complete when every rank has entered its own call n.
Entered(n) == \A p \in Rank : Len(calls[p]) >= n
Received(r, n) == {<<p, calls[p][n]>> : p \in Rank \ {r}}
FromPeers(r, call) == {<<p, call>> : p \in Rank \ {r}}

Init == /\ config \in [window : 0 .. LastWindow, mode : Modes, order : Permutation,
                       layout : {"plain", "rolling", "ordered"},
                       task : {"node", "edge"}, loss : {"last_only", "window_mean"}]
        /\ config.layout = "ordered" => config.loss = "window_mean"
        /\ config.loss = "window_mean" => config.task = "node"
        /\ targets \in SUBSET Rank
        /\ pc = [r \in Rank |-> "layers"]
        /\ first = [r \in Rank |-> Begin(config.window)]
        /\ layer = [r \in Rank |-> 0]
        /\ current = [r \in Rank |-> ScheduleOrder(r, first[r], 0)]
        /\ pending = [r \in Rank |-> <<>>]
        /\ awaited = [r \in Rank |-> [w \in Window |-> 0]]
        /\ value = [r \in Rank |-> [w \in Window |-> [layer |-> 0, boundary |-> Local]]]
        /\ calls = [r \in Rank |-> <<>>]
        /\ tape = [r \in Rank |-> <<>>]
        /\ next = [r \in Rank |-> Begin(config.window)]
        /\ carried = [r \in Rank |-> <<>>]
        /\ read = [r \in Rank |-> <<>>]
        /\ reached = [r \in Rank |-> {}]
        /\ returned = [r \in Rank |-> {}]

Started(r, w) == value[r][w].layer > layer[r]
\* Variant: whichever can go on, as an event loop would.
AnyReady(r) == {w \in ToSet(current[r]) :
                   ~Started(r, w) \/ awaited[r][w] = 0 \/ Entered(awaited[r][w])}
\* The coroutine a pass sends to: in the order the pass was given.
Turn(r) == IF current[r] = <<>> THEN {} ELSE {Head(current[r])}
Without(s, w) == RemoveAt(s, CHOOSE i \in DOMAIN s : s[i] = w)

\* The coroutine of w computes its layer, enters the exchange if the layer is
\* not the last and the snapshot is routed, and is suspended; with an
\* immediate wait it goes on without letting another coroutine run.
Compute(r) ==
    /\ pc[r] = "layers"
    /\ \E w \in Turn(r) :
        /\ ~Started(r, w)
        /\ value' = [value EXCEPT ![r][w] = [layer |-> layer[r] + 1, boundary |-> Local]]
        /\ IF layer[r] + 1 < Layers /\ NeedsExchange(r, w)
           THEN /\ Enter(r, Pull(w, layer[r] + 1))
                /\ Record(r, "send", w)
                /\ awaited' = [awaited EXCEPT ![r][w] = Len(calls[r]) + 1]
           ELSE UNCHANGED <<calls, tape, awaited>>
        /\ IF config.mode = "dag" \/ (config.mode = "immediate" /\ layer[r] + 1 = Layers)
           THEN /\ current' = [current EXCEPT ![r] = Without(@, w)]
                /\ pending' = [pending EXCEPT ![r] = Append(@, w)]
           ELSE UNCHANGED <<current, pending>>
    /\ UNCHANGED <<config, targets, pc, first, layer, cell, returned>>

\* The coroutine of w waits for its exchange and returns.
Resume(r) ==
    /\ pc[r] = "layers"
    /\ \E w \in Turn(r) :
        /\ Started(r, w)
        /\ current' = [current EXCEPT ![r] = Without(@, w)]
        /\ IF awaited[r][w] = 0
           THEN UNCHANGED <<value, tape, awaited>>
           ELSE /\ Entered(awaited[r][w])
                /\ value' = [value EXCEPT ![r][w].boundary = Received(r, awaited[r][w])]
                /\ Record(r, "recv", w)
                /\ awaited' = [awaited EXCEPT ![r][w] = 0]
    /\ UNCHANGED <<config, targets, pc, first, layer, pending, calls, cell, returned>>

\* _run_flare_style_coroutines starts the next pass over the suspended ones.
NextPass(r) ==
    /\ pc[r] = "layers" /\ current[r] = <<>> /\ pending[r] # <<>>
    /\ current' = [current EXCEPT ![r] = pending[r]]
    /\ pending' = [pending EXCEPT ![r] = <<>>]
    /\ UNCHANGED <<config, targets, pc, first, layer, awaited, value, calls, tape, cell,
                   returned>>

EndLayer(r) ==
    /\ pc[r] = "layers" /\ current[r] = <<>> /\ pending[r] = <<>>
    /\ layer' = [layer EXCEPT ![r] = @ + 1]
    /\ IF layer[r] + 1 < Layers
       THEN /\ current' = [current EXCEPT ![r] = ScheduleOrder(r, first[r], layer[r] + 1)]
            /\ UNCHANGED pc
       ELSE /\ pc' = [pc EXCEPT ![r] = "cell"]
            /\ UNCHANGED current
    /\ UNCHANGED <<config, targets, first, pending, awaited, value, calls, tape, cell,
                   returned>>

(* The recurrent cell.                                                     *)

Zero == [node |-> -1, window |-> -1]

\* _fit_rows: the leading rows, or zero rows behind them.
FitRows(state, count) ==
    [i \in 1 .. count |-> IF i <= Len(state) THEN state[i] ELSE Zero]
\* compact_lookup_rows: each row of the node it is for.
LookupRows(state, nodes) ==
    [i \in DOMAIN nodes |->
        IF \E s \in ToSet(state) : s.node = nodes[i]
        THEN CHOOSE s \in ToSet(state) : s.node = nodes[i]
        ELSE Zero]
\* Variant: without looking at the order of the rows.
SameLimit(before, now) == before.limited = now.limited
SameLayout(before, now) ==
    \/ before.ordered /\ now.ordered
    \/ ~(before.limited \/ now.limited \/ before.ordered \/ now.ordered)

PreviousState(r, w) ==
    LET now == Layout(r, w)
        before == Layout(r, w - 1)
    IN  IF w = Begin(config.window) THEN FitRows(<<>>, Len(now.nodes))
        ELSE IF SameLayout(before, now) THEN FitRows(carried[r], Len(now.nodes))
        ELSE LookupRows(carried[r], now.nodes)

\* The new state depends on the carried one unless no row of it was there.
DependsOnCarried(r, w) ==
    /\ w > Begin(config.window)
    /\ \/ carried[r] # <<>>
       \/ SameLayout(Layout(r, w - 1), Layout(r, w)) /\ Layout(r, w).nodes = <<>>

Update(r) ==
    /\ pc[r] = "cell"
    /\ LET w == next[r]
           nodes == Layout(r, w).nodes
       IN  /\ read' = [read EXCEPT ![r] = Append(@, PreviousState(r, w))]
           /\ carried' = [carried EXCEPT ![r] =
                  [i \in DOMAIN nodes |-> [node |-> nodes[i], window |-> w]]]
           /\ reached' = [reached EXCEPT ![r] =
                  IF DependsOnCarried(r, w) THEN @ \cup {w} ELSE {w}]
           /\ next' = [next EXCEPT ![r] = w + 1]
           /\ IF w < config.window
              THEN IF config.mode = "sequential"
                   THEN /\ pc' = [pc EXCEPT ![r] = "layers"]
                        /\ first' = [first EXCEPT ![r] = w + 1]
                        /\ layer' = [layer EXCEPT ![r] = 0]
                        /\ current' = [current EXCEPT ![r] = ScheduleOrder(r, w + 1, 0)]
                   ELSE UNCHANGED <<pc, first, layer, current>>
              ELSE /\ pc' = [pc EXCEPT ![r] = "loss"]
                   /\ UNCHANGED <<first, layer, current>>
    /\ UNCHANGED <<config, targets, pending, awaited, value, calls, tape, returned>>

(* The loss and the backward walk.                                         *)

\* Variant: a rank without targets has a loss on its parameters only.
LossOfTargets(r) ==
    IF r \notin targets THEN {} ELSE IF config.loss = "window_mean" THEN Window ELSE reached[r]
\* The snapshots the gradient of the loss reaches.  A node task has an output
\* per snapshot: window_mean reads them all, and so does the zero loss of a
\* rank without targets (zero_output_loss).
LossReaches(r) ==
    IF config.task = "node" /\ (config.loss = "window_mean" \/ r \notin targets)
    THEN Window ELSE reached[r]

Loss(r) ==
    /\ pc[r] = "loss"
    /\ pc' = [pc EXCEPT ![r] = "backward"]
    /\ tape' = [tape EXCEPT ![r] =
           Pick(@, Increasing({i \in DOMAIN @ : @[i].window \in LossReaches(r)}))]
    /\ UNCHANGED <<config, targets, scan, cell, calls, returned>>

\* _PullRecv.backward sends the gradients of the boundary rows back,
\* _PullSend.backward waits for those of the rows it sent.
BackwardRecv(r) ==
    /\ pc[r] = "backward" /\ tape[r] # <<>>
    /\ LET op == Last(tape[r])
       IN  /\ op.op = "recv"
           /\ Enter(r, Grad(op.window, op.layer))
           /\ awaited' = [awaited EXCEPT ![r][op.window] = Len(calls[r]) + 1]
    /\ tape' = [tape EXCEPT ![r] = Front(@)]
    /\ UNCHANGED <<config, targets, pc, first, layer, current, pending, value, cell,
                   returned>>

BackwardSend(r) ==
    /\ pc[r] = "backward" /\ tape[r] # <<>>
    /\ LET op == Last(tape[r])
           n == awaited[r][op.window]
       IN  /\ op.op = "send"
           /\ Entered(n)
           /\ returned' = [returned EXCEPT ![r] = @ \cup
                  {[window |-> op.window, layer |-> op.layer, from |-> Received(r, n)]}]
           /\ awaited' = [awaited EXCEPT ![r][op.window] = 0]
    /\ tape' = [tape EXCEPT ![r] = Front(@)]
    /\ UNCHANGED <<config, targets, pc, first, layer, current, pending, value, calls, cell>>

Finish(r) ==
    /\ pc[r] = "backward" /\ tape[r] = <<>>
    /\ pc' = [pc EXCEPT ![r] = "done"]
    /\ UNCHANGED <<config, targets, scan, cell, calls, tape, returned>>

Step(r) == \/ Compute(r) \/ Resume(r) \/ NextPass(r) \/ EndLayer(r)
           \/ Update(r) \/ Loss(r) \/ BackwardRecv(r) \/ BackwardSend(r) \/ Finish(r)

\* Every rank has scanned and differentiated its batch.
Done == /\ \A r \in Rank : pc[r] = "done"
        /\ UNCHANGED vars

Next == (\E r \in Rank : Step(r)) \/ Done

Spec == Init /\ [][Next]_vars
FairSpec == Spec /\ \A r \in Rank : WF_vars(Step(r))

----------------------------------------------------------------------------

\* Type correctness; a coroutine is in one queue at most and waits for a call
\* its rank has entered.
TypeOK ==
    /\ pc \in [Rank -> {"layers", "cell", "loss", "backward", "done"}]
    /\ layer \in [Rank -> 0 .. Layers]
    /\ \A r \in Rank :
        /\ ToSet(current[r]) \cup ToSet(pending[r]) \subseteq Window
        /\ ToSet(current[r]) \cap ToSet(pending[r]) = {}
        /\ \A w \in Window : awaited[r][w] <= Len(calls[r])
        /\ reached[r] \subseteq Window

\* The boundary rows a snapshot is computed from are its own, of the layer
\* before, from every peer, whatever else the ranks exchanged in between; and
\* no layer of a complete snapshot is computed with the boundary left out.
HaloMatches ==
    \A r \in Rank, w \in Window :
        LET v == value[r][w]
        IN  \/ v.layer = 0 \/ v.layer = Layers
            \/ v.boundary = FromPeers(r, Pull(w, v.layer))
            \/ v.boundary = Local /\ (NeedsExchange(r, w) => v.layer > layer[r])

\* The recurrent cell reads, for each node, the state the same node was left
\* in by the snapshot before, and zero for a node that snapshot did not have:
\* reading by row position is as good as reading by node.
StateFollowsNode ==
    \A r \in Rank : \A i \in DOMAIN read[r] :
        LET w == Begin(config.window) + i - 1
            nodes == Layout(r, w).nodes
            before == IF i > 1 THEN ToSet(Layout(r, w - 1).nodes) ELSE {}
        IN  \A j \in DOMAIN nodes :
               read[r][i][j] =
                  IF nodes[j] \in before
                  THEN [node |-> nodes[j], window |-> w - 1] ELSE Zero

\* The gradient of every row a rank sent comes back to that row: from each peer,
\* for the same snapshot and layer.
GradientsReturn ==
    \A r \in Rank : \A g \in returned[r] :
        g.from = FromPeers(r, Grad(g.window, g.layer))

\* Rows and gradients meet their own snapshot and layer, although exchanges are
\* matched by nothing but their order: the turns of _run_flare_style_coroutines
\* and the reverse walk of autograd.
ExchangesMatch == TypeOK /\ HaloMatches /\ GradientsReturn

\* Every rank finishes the batch: no rank waits in an exchange that a peer
\* does not enter, forward or backward, whichever ranks have targets.
Terminates == <>(\A r \in Rank : pc[r] = "done")
=============================================================================
