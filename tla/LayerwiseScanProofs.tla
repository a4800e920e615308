------------------------- MODULE LayerwiseScanProofs -------------------------
(***************************************************************************)
(* LayerwiseScan for any number of ranks, layers and snapshots, any rows,  *)
(* every loop, row layout and loss: exchanges meet their own snapshot and  *)
(* layer, forward and backward, and the recurrent state follows the node.  *)
(*                                                                         *)
(* The argument.  Number gives every pull its place in the sequence of     *)
(* calls, from the configuration alone; the gradient of the n-th of Total  *)
(* pulls is call 2 * Total + 1 - n.  Each rank enters its calls with these *)
(* numbers (CallsOK), so the n-th calls of two ranks are the same.  That a *)
(* rank does so is a matter of its own queues (QueueOK: suspended          *)
(* coroutines leave in the order they came in) and of its own tape (TapeOK:*)
(* a receive is recorded after the send of its snapshot and layer, and     *)
(* receives in the order of their numbers), which the loss keeps entire    *)
(* because the gradient reaches every snapshot that was exchanged.         *)
(***************************************************************************)
EXTENDS LayerwiseScan, OwnerRouteProofs

-----------------------------------------------------------------------------
(* Hypotheses.                                                             *)

\* A snapshot that is complete is followed by complete ones, up to the target.
Whole(k, w) == LET limit == Limit(k, w) IN limit < 0 \/ limit >= ChunkCount
Widening == \A k \in 0 .. LastWindow : \A w \in Begin(k) .. k - 1 : Whole(k, w) => Whole(k, w + 1)

\* Every rank owns a node.
OwnsRows == \A r \in Rank : Rows[r] # <<>>

-----------------------------------------------------------------------------
(* What the configuration says.                                            *)

Configs == [window : 0 .. LastWindow, mode : Modes, order : Permutation,
            layout : {"plain", "rolling", "ordered"},
            task : {"node", "edge"}, loss : {"last_only", "window_mean"}]

Snapshots(c) == Begin(c.window) .. c.window
Routed(c) == {w \in Snapshots(c) : Whole(c.window, w)}
Start(c) == CHOOSE s \in Begin(c.window) .. c.window + 1 : Routed(c) = s .. c.window
Width(c) == c.window + 1 - Start(c)
Exchanged == 1 .. Layers - 1
Sequential(c) == c.mode = "sequential"
Scanned(c, f) == IF Sequential(c) THEN {f} ELSE f .. c.window

\* The number of a pull among the calls of a rank.
Number(c, w, l) ==
    IF Sequential(c) THEN (w - Start(c)) * (Layers - 1) + l
    ELSE (l - 1) * Width(c) + (w - Start(c)) + 1
Total(c) == Width(c) * (Layers - 1)

\* Calls entered before layer l + 1 of the group of snapshots from f.
Capped(l) == IF l < Layers THEN l ELSE Layers - 1
Prior(c, f, l) ==
    IF Sequential(c) THEN IF f < Start(c) THEN 0
                          ELSE (f - Start(c)) * (Layers - 1) + Capped(l)
    ELSE Capped(l) * Width(c)

\* The snapshots that enter an exchange in layer l + 1.
Now(c, l) == IF l + 1 < Layers THEN Routed(c) ELSE {}

\* x is the n-th call of a rank.
CallAt(c, x, n) ==
    \E w \in Routed(c), l \in Exchanged :
        \/ x = Pull(w, l) /\ n = Number(c, w, l)
        \/ x = Grad(w, l) /\ n = 2 * Total(c) + 1 - Number(c, w, l)

-----------------------------------------------------------------------------
(* The invariant, part by part, of one rank: its pc (p), first (f), layer  *)
(* (l), next (n), current (cur), pending (pend), awaited (aw), value (val),*)
(* calls (cs) and tape (tp).                                               *)

Calls == [kind : {"pull", "grad"}, window : Nat, layer : Nat]
Ops == [op : {"send", "recv"}, window : Nat, layer : Nat]

Place(c, p, f, l, n) ==
    /\ p \in {"layers", "cell", "loss", "backward", "done"}
    /\ f \in Snapshots(c) /\ l \in 0 .. Layers /\ n \in Begin(c.window) .. c.window + 1
    /\ Sequential(c) \/ f = Begin(c.window)
    /\ p = "layers" => l < Layers /\ n = f
    /\ p # "layers" => l = Layers
    /\ p = "cell" => n <= c.window /\ (Sequential(c) => n = f)
    /\ p \in {"loss", "backward", "done"} => n = c.window + 1 /\ (Sequential(c) => f = c.window)

\* Suspended coroutines leave in the order they came in: of those that have
\* an exchange in this layer, the earlier snapshot first.
Started2(val, l, w) == val[w].layer > l
InOrder(S, s) == \A i, j \in DOMAIN s : i < j /\ s[i] \in S /\ s[j] \in S => s[i] < s[j]
QueueOK(c, f, l, cur, pend, val) ==
    /\ cur \in Seq(Scanned(c, f)) /\ pend \in Seq(Scanned(c, f))
    /\ \A i, j \in DOMAIN cur : cur[i] = cur[j] => i = j
    /\ \A i, j \in DOMAIN pend : pend[i] = pend[j] => i = j
    /\ \A i \in DOMAIN cur, j \in DOMAIN pend :
          /\ cur[i] # pend[j]
          /\ cur[i] \in Now(c, l) /\ pend[j] \in Now(c, l) => pend[j] < cur[i]
          /\ ~Started2(val, l, cur[i])
    /\ \A j \in DOMAIN pend : Started2(val, l, pend[j])
    /\ \A i, j \in DOMAIN cur : i < j /\ Started2(val, l, cur[j]) => Started2(val, l, cur[i])
    /\ InOrder(Now(c, l), cur) /\ InOrder(Now(c, l), pend)
    /\ Sequential(c) \/ (c.mode = "immediate" /\ l + 1 < Layers) => pend = <<>>

\* Which coroutines wait, and for which call.
WaitOK(c, f, l, cur, pend, val, aw) ==
    \A w \in Scanned(c, f) :
        LET queued == w \in ToSet(cur) \cup ToSet(pend)
        IN  /\ val[w].layer \in {l, l + 1}
            /\ ~queued => Started2(val, l, w)
            /\ IF queued /\ Started2(val, l, w) /\ w \in Now(c, l)
               THEN aw[w] = Number(c, w, l + 1) ELSE aw[w] = 0
            /\ ~queued /\ w \in Now(c, l) =>
                  \A v \in Now(c, l) : v \in ToSet(cur) \cup ToSet(pend) => w < v

\* How many calls were entered.
CountOK(c, f, l, val, cs) ==
    /\ Prior(c, f, l) <= Len(cs) /\ Len(cs) <= Prior(c, f, l + 1)
    /\ \A w \in Scanned(c, f) : w \in Now(c, l) =>
          (Started2(val, l, w) <=> Number(c, w, l + 1) <= Len(cs))

\* The pull (w, l) was completed.
Got(c, p, lay, aw, cs, w, l) ==
    IF p \in {"backward", "done"} THEN Number(c, w, l) <= 2 * Total(c) - Len(cs)
    ELSE /\ Number(c, w, l) <= Len(cs)
         /\ ~(p = "layers" /\ l = lay + 1 /\ aw[w] # 0)

\* The order of the operations on one snapshot.
Key(op) == 2 * op.layer + (IF op.op = "recv" THEN 1 ELSE 0)
TapeTyped(c, p, cs, tp) ==
    /\ tp \in Seq(Ops)
    /\ \A i \in DOMAIN tp :
          /\ tp[i].window \in Routed(c) /\ tp[i].layer \in Exchanged
          /\ p \notin {"backward", "done"} => Number(c, tp[i].window, tp[i].layer) <= Len(cs)
ReceivesInOrder(c, tp) ==
    \A i, j \in DOMAIN tp : i < j /\ tp[i].op = "recv" /\ tp[j].op = "recv" =>
          Number(c, tp[i].window, tp[i].layer) < Number(c, tp[j].window, tp[j].layer)
ReceivesRecorded(c, p, lay, aw, cs, tp) ==
    \A w \in Routed(c), l \in Exchanged :
          Got(c, p, lay, aw, cs, w, l)
             <=> \E i \in DOMAIN tp : tp[i] = [op |-> "recv", window |-> w, layer |-> l]
SnapshotInOrder(tp) ==
    \A i, j \in DOMAIN tp : i < j /\ tp[i].window = tp[j].window => Key(tp[i]) < Key(tp[j])
SendsReceived(tp) ==
    \A i, j \in DOMAIN tp : i < j /\ tp[i].window = tp[j].window /\ tp[i].op = "send" =>
          \E k \in i + 1 .. j : tp[k] = [tp[i] EXCEPT !.op = "recv"]
AwaitedSent(c, p, lay, aw, tp) ==
    p = "layers" => \A w \in Routed(c) : aw[w] # 0 =>
          \E i \in DOMAIN tp : tp[i] = [op |-> "send", window |-> w, layer |-> lay + 1]
TapeOK(c, p, lay, aw, cs, tp) ==
    /\ TapeTyped(c, p, cs, tp) /\ ReceivesInOrder(c, tp) /\ ReceivesRecorded(c, p, lay, aw, cs, tp)
    /\ SnapshotInOrder(tp) /\ SendsReceived(tp) /\ AwaitedSent(c, p, lay, aw, tp)

\* The last operation of a snapshot is a send when its gradients are awaited.
BackOK(c, p, aw, tp) ==
    p = "backward" => \A i \in DOMAIN tp :
        tp[i].op = "send" /\ (\A j \in i + 1 .. Len(tp) : tp[j].window # tp[i].window)
           => aw[tp[i].window] = 2 * Total(c) + 1 - Number(c, tp[i].window, tp[i].layer)

CallsOK(c, p, f, cs) ==
    /\ \A n \in DOMAIN cs : CallAt(c, cs[n], n)
    /\ p = "cell" => Len(cs) = Prior(c, f, Layers)
    /\ p = "loss" => Len(cs) = Total(c)
    /\ p \in {"backward", "done"} => Len(cs) \in Total(c) .. 2 * Total(c)

\* Boundary rows of the group being scanned.
BoundaryOK(c, r, f, l, aw, val) ==
    \A w \in Scanned(c, f) :
        \/ val[w].layer = 0 \/ val[w].layer = Layers
        \/ IF Whole(c.window, w) /\ ~(val[w].layer = l + 1 /\ aw[w] # 0)
           THEN val[w].boundary = FromPeers(r, Pull(w, val[w].layer))
           ELSE val[w].boundary = Local

\* Snapshots outside the group, and all when the layers are done.
IdleOK(c, p, f, cur, pend, val, aw) ==
    /\ \A w \in Snapshots(c) \ Scanned(c, f) :
          /\ val[w].layer = IF w < f THEN Layers ELSE 0
          /\ p \in {"layers", "cell"} => aw[w] = 0
    /\ p # "layers" => /\ cur = <<>> /\ pend = <<>>
                       /\ \A w \in Scanned(c, f) : val[w].layer = Layers
    /\ p \in {"cell", "loss"} => \A w \in Snapshots(c) : aw[w] = 0

\* The recurrent cell: what it carries, reads, and reaches.
States(rows, w) == [i \in DOMAIN rows |-> [node |-> rows[i], window |-> w]]
ReadAs(c, r, i, state) ==
    LET w == Begin(c.window) + i - 1
        nodes == Layout(r, w).nodes
        before == IF i > 1 THEN ToSet(Layout(r, w - 1).nodes) ELSE {}
    IN  \A j \in DOMAIN nodes :
           state[j] = IF nodes[j] \in before THEN [node |-> nodes[j], window |-> w - 1] ELSE Zero
CellOK(c, r, n, car, rd, rea) ==
    /\ n = Begin(c.window) => car = <<>>
    /\ n > Begin(c.window) => car = States(Layout(r, n - 1).nodes, n - 1)
    /\ rd \in Seq(ToSet(rd)) /\ Len(rd) = n - Begin(c.window)
    /\ \A i \in DOMAIN rd : ReadAs(c, r, i, rd[i])
    /\ rea \subseteq Snapshots(c)
    /\ \A w \in Routed(c) : w < n => w \in rea

ScanOK(c, p, f, l, cur, pend, val, aw, cs) ==
    p = "layers" => /\ QueueOK(c, f, l, cur, pend, val)
                    /\ WaitOK(c, f, l, cur, pend, val, aw)
                    /\ CountOK(c, f, l, val, cs)
RowsOK(c, p, r, f, l, aw, val) == p = "layers" => BoundaryOK(c, r, f, l, aw, val)
TypesOK(c, val, aw, cs) ==
    /\ val \in [Snapshots(c) -> [layer : 0 .. Layers, boundary : SUBSET (Rank \X Calls)]]
    /\ aw \in [Snapshots(c) -> Nat] /\ \A w \in Snapshots(c) : aw[w] <= Len(cs)
    /\ cs \in Seq(Calls)

RankInv(r) ==
    /\ Place(config, pc[r], first[r], layer[r], next[r])
    /\ TypesOK(config, value[r], awaited[r], calls[r])
    /\ ScanOK(config, pc[r], first[r], layer[r], current[r], pending[r], value[r], awaited[r], calls[r])
    /\ IdleOK(config, pc[r], first[r], current[r], pending[r], value[r], awaited[r])
    /\ CallsOK(config, pc[r], first[r], calls[r])
    /\ TapeOK(config, pc[r], layer[r], awaited[r], calls[r], tape[r])
    /\ BackOK(config, pc[r], awaited[r], tape[r])
    /\ RowsOK(config, pc[r], r, first[r], layer[r], awaited[r], value[r])
    /\ CellOK(config, r, next[r], carried[r], read[r], reached[r])

Functions ==
    /\ pc = [r \in Rank |-> pc[r]]
    /\ first = [r \in Rank |-> first[r]]
    /\ layer = [r \in Rank |-> layer[r]]
    /\ current = [r \in Rank |-> current[r]]
    /\ pending = [r \in Rank |-> pending[r]]
    /\ awaited = [r \in Rank |-> awaited[r]]
    /\ value = [r \in Rank |-> value[r]]
    /\ calls = [r \in Rank |-> calls[r]]
    /\ tape = [r \in Rank |-> tape[r]]
    /\ next = [r \in Rank |-> next[r]]
    /\ carried = [r \in Rank |-> carried[r]]
    /\ read = [r \in Rank |-> read[r]]
    /\ reached = [r \in Rank |-> reached[r]]
    /\ returned = [r \in Rank |-> returned[r]]
Inv == /\ config \in Configs
       /\ Functions
       /\ \A r \in Rank : RankInv(r)
       /\ GradientsReturn
-----------------------------------------------------------------------------
(* Numbers of calls.                                                       *)

\* The few facts about products that the numbers rest on.
LEMMA Products ==
    /\ \A a, b \in Int : a * b \in Int /\ (a + 1) * b = a * b + b /\ 0 * b = 0 /\ a * b = b * a
    /\ \A a, b \in Int, d \in Nat : a <= b => a * d <= b * d
    /\ \A a, b \in Nat : a * b \in Nat
OBVIOUS

\* Windows of a batch.
LEMMA WindowsAre ==
    ASSUME NEW k \in Nat
    PROVE  Begin(k) \in 0 .. k /\ FullBegin(k) \in 0 .. k
<1>1. NumFull \in Nat /\ NumFull # 0 /\ Len(Decay) \in Nat
  BY ChunksAssumption
<1>2. FullBegin(k) \in 0 .. k
  BY <1>1 DEF FullBegin
<1> QED
  BY <1>1, <1>2 DEF Begin

LEMMA ConfigIs ==
    ASSUME NEW c \in Configs
    PROVE  /\ c.window \in 0 .. LastWindow /\ c.window \in Nat
           /\ Begin(c.window) \in 0 .. c.window
           /\ Layers \in Nat /\ Layers >= 1
<1>1. c.window \in 0 .. LastWindow /\ LastWindow \in Nat
  BY ChunksAssumption DEF Configs
<1> QED
  BY <1>1, WindowsAre, LayersAssumption

\* The complete snapshots are the last ones of the batch.
LEMMA StartIs ==
    ASSUME Widening, NEW c \in Configs
    PROVE  /\ Start(c) \in Begin(c.window) .. c.window + 1
           /\ Routed(c) = Start(c) .. c.window
<1> DEFINE K == c.window
           B == Begin(c.window)
           Bad(u) == {w \in u .. K : ~ Whole(c.window, w)}
<1>1. K \in Nat /\ B \in 0 .. K /\ K \in 0 .. LastWindow
  BY ConfigIs
<1>2. ASSUME NEW w \in B .. K - 1, Whole(K, w) PROVE Whole(K, w + 1)
  BY <1>1, <1>2 DEF Widening
<1>3. \E s \in B .. K + 1 : Routed(c) = s .. K
  <2>1. CASE Routed(c) = {}
    <3>1. K + 1 \in B .. K + 1 /\ (K + 1) .. K = {}
      BY <1>1
    <3> QED
      BY <2>1, <3>1
  <2>2. CASE Routed(c) # {}
    <3>1. Routed(c) \in SUBSET Nat
      BY <1>1 DEF Routed, Snapshots
    <3>2. PICK u \in Routed(c) : \A w \in Routed(c) : u <= w
      BY <2>2, <3>1, Least
    <3>3. u \in B .. K /\ Whole(K, u)
      BY <3>2 DEF Routed, Snapshots
    <3>4. Bad(u) = {}
      <4> SUFFICES ASSUME Bad(u) # {} PROVE FALSE
        OBVIOUS
      <4>1. Bad(u) \in SUBSET Nat
        BY <1>1, <3>3
      <4> HIDE DEF Bad
      <4>2. PICK x \in Bad(u) : \A y \in Bad(u) : x <= y
        BY <4>1, Least
      <4>3. x \in u .. K /\ ~ Whole(K, x)
        BY <4>2 DEF Bad
      <4>4. x # u /\ x - 1 \in u .. K /\ x - 1 \in B .. K - 1
        BY <1>1, <3>3, <4>3
      <4>5. x - 1 \notin Bad(u)
        BY <4>2, <4>3, <3>3, <1>1
      <4>6. Whole(K, x - 1)
        BY <4>4, <4>5 DEF Bad
      <4>7. Whole(K, (x - 1) + 1)
        BY <1>2, <4>4, <4>6
      <4>8. (x - 1) + 1 = x
        BY <4>3, <1>1, <3>3
      <4> QED
        BY <4>3, <4>7, <4>8
    <3>5. \A w \in u .. K : Whole(K, w)
      BY <3>4
    <3>6. Routed(c) = u .. K
      <4>1. \A w \in Routed(c) : w \in u .. K
        BY <1>1, <3>1, <3>2, <3>3 DEF Routed, Snapshots
      <4>2. \A w \in u .. K : w \in Routed(c)
        BY <1>1, <3>3, <3>5 DEF Routed, Snapshots
      <4> QED
        BY <4>1, <4>2
    <3> QED
      BY <1>1, <3>3, <3>6
  <2> QED
    BY <2>1, <2>2
<1> QED
  BY <1>3 DEF Start

\* The bounds the numbers are made of.
LEMMA Sizes ==
    ASSUME Widening, NEW c \in Configs
    PROVE  /\ Start(c) \in Nat /\ c.window \in Nat /\ Width(c) \in Nat
           /\ Start(c) + Width(c) = c.window + 1
           /\ Layers - 1 \in Nat
           /\ \A w \in Routed(c) : w \in Snapshots(c) /\ w - Start(c) \in Nat /\ w - Start(c) < Width(c)
           /\ \A w \in Snapshots(c) : w \in Nat /\ (w \in Routed(c) <=> Start(c) <= w)
           /\ Total(c) \in Nat /\ Total(c) = Width(c) * (Layers - 1)
<1>1. /\ c.window \in Nat /\ Begin(c.window) \in 0 .. c.window /\ Layers \in Nat /\ Layers >= 1
      /\ Start(c) \in Begin(c.window) .. c.window + 1
      /\ Routed(c) = Start(c) .. c.window
  BY ConfigIs, StartIs
<1>2. Width(c) \in Nat /\ Start(c) + Width(c) = c.window + 1 /\ Start(c) \in Nat
  BY <1>1 DEF Width
<1>3. \A w \in Routed(c) : w \in Snapshots(c) /\ w - Start(c) \in Nat /\ w - Start(c) < Width(c)
  BY <1>1 DEF Width, Snapshots
<1>4. \A w \in Snapshots(c) : w \in Nat /\ (w \in Routed(c) <=> Start(c) <= w)
  BY <1>1 DEF Snapshots
<1>5. Layers - 1 \in Nat
  BY <1>1
<1>6. Total(c) \in Nat
  BY <1>2, <1>5, Products DEF Total
<1> QED
  BY <1>1, <1>2, <1>3, <1>4, <1>5, <1>6 DEF Total

\* Places of a grid with rows of m, row by row.
LEMMA Grid ==
    ASSUME NEW m \in Nat, NEW a \in Nat, NEW b \in Nat, NEW x \in Nat, NEW y \in Nat, x < m, y < m
    PROVE  /\ a < b => a * m + x < b * m + y /\ a * m + m <= b * m
           /\ a * m + x < b * m + y => a < b \/ (a = b /\ x < y)
           /\ a * m + x = b * m + y => a = b /\ x = y
           /\ a * m \in Nat
<1>1. a * m \in Int /\ b * m \in Int /\ (a + 1) * m = a * m + m /\ (b + 1) * m = b * m + m
  BY Products
<1>2. a * m \in Nat
  BY Products
<1>3. a < b => a * m + m <= b * m
  <2> HAVE a < b
  <2>1. a + 1 <= b /\ a + 1 \in Int
    OBVIOUS
  <2>2. (a + 1) * m <= b * m
    BY <2>1, Products
  <2> QED
    BY <1>1, <2>2
<1>4. b < a => b * m + m <= a * m
  <2> HAVE b < a
  <2>1. b + 1 <= a /\ b + 1 \in Int
    OBVIOUS
  <2>2. (b + 1) * m <= a * m
    BY <2>1, Products
  <2> QED
    BY <1>1, <2>2
<1> DEFINE am == a * m
           bm == b * m
<1>5. am \in Int /\ bm \in Int /\ (a < b => am + m <= bm) /\ (b < a => bm + m <= am) /\ (a = b => am = bm)
  BY <1>1, <1>3, <1>4
<1> HIDE DEF am, bm
<1>6. /\ a < b => am + x < bm + y
      /\ am + x < bm + y => a < b \/ (a = b /\ x < y)
      /\ am + x = bm + y => a = b /\ x = y
  BY <1>5
<1> QED
  BY <1>2, <1>3, <1>6 DEF am, bm

\* Pulls are numbered 1 .. Total, each once.
LEMMA NumberIs ==
    ASSUME Widening, NEW c \in Configs, NEW w \in Routed(c), NEW l \in Exchanged
    PROVE  Number(c, w, l) \in 1 .. Total(c)
<1> DEFINE m == Width(c)
           e == Layers - 1
           x == w - Start(c)
<1>1. m \in Nat /\ e \in Nat /\ x \in Nat /\ x < m /\ l \in Nat /\ l - 1 \in Nat /\ l - 1 < e /\ Total(c) = m * e
  BY Sizes DEF Exchanged
<1>2. CASE Sequential(c)
  <2>1. Number(c, w, l) = x * e + (l - 1) + 1
    <3>1. x * e \in Nat
      BY <1>1, Products
    <3> DEFINE xe == x * e
    <3>2. Number(c, w, l) = xe + l
      BY <1>2 DEF Number
    <3>3. xe \in Nat
      BY <3>1
    <3> HIDE DEF xe
    <3>4. xe + l = xe + (l - 1) + 1
      BY <1>1, <3>3
    <3> QED
      BY <3>2, <3>4 DEF xe
  <2>2. x * e + e <= m * e /\ x * e \in Nat
    BY <1>1, Grid
  <2>3. x * e + (l - 1) + 1 <= m * e /\ x * e + (l - 1) + 1 \in Nat /\ x * e + (l - 1) + 1 >= 1
    BY <1>1, <2>2
  <2> QED
    BY <1>1, <2>1, <2>3
<1>3. CASE ~ Sequential(c)
  <2>1. Number(c, w, l) = (l - 1) * m + x + 1
    BY <1>3 DEF Number
  <2>2. (l - 1) * m + m <= e * m /\ (l - 1) * m \in Nat /\ e * m = m * e
    BY <1>1, Grid, Products
  <2>3. (l - 1) * m + x + 1 <= m * e /\ (l - 1) * m + x + 1 \in Nat /\ (l - 1) * m + x + 1 >= 1
    BY <1>1, <2>2
  <2> QED
    BY <1>1, <2>1, <2>3
<1> QED
  BY <1>2, <1>3

\* Pulls of one number are the same; of one snapshot they are numbered by
\* layer, of one layer by snapshot.
LEMMA NumberOrder ==
    ASSUME Widening, NEW c \in Configs, NEW w \in Routed(c), NEW l \in Exchanged,
           NEW v \in Routed(c), NEW k \in Exchanged
    PROVE  /\ Number(c, w, l) = Number(c, v, k) => w = v /\ l = k
           /\ w = v => (Number(c, w, l) < Number(c, v, k) <=> l < k)
           /\ l = k => (Number(c, w, l) < Number(c, v, k) <=> w < v)
<1> DEFINE m == Width(c)
           e == Layers - 1
           x == w - Start(c)
           y == v - Start(c)
<1>1. /\ m \in Nat /\ e \in Nat /\ x \in Nat /\ x < m /\ l \in Nat /\ l - 1 \in Nat /\ l - 1 < e
      /\ y \in Nat /\ y < m /\ k \in Nat /\ k - 1 \in Nat /\ k - 1 < e
      /\ w \in Nat /\ v \in Nat /\ Start(c) \in Nat
  BY Sizes DEF Exchanged
<1>2. (x = y <=> w = v) /\ (x < y <=> w < v) /\ (l - 1 = k - 1 <=> l = k) /\ (l - 1 < k - 1 <=> l < k)
  BY <1>1
<1>3. CASE Sequential(c)
  <2>1. Number(c, w, l) = x * e + l /\ Number(c, v, k) = y * e + k
    BY <1>3 DEF Number
  <2>2. /\ x < y => x * e + (l - 1) < y * e + (k - 1)
        /\ x * e + (l - 1) < y * e + (k - 1) => x < y \/ (x = y /\ l - 1 < k - 1)
        /\ x * e + (l - 1) = y * e + (k - 1) => x = y /\ l - 1 = k - 1
        /\ x * e \in Nat
    BY <1>1, Grid
  <2>3. y * e \in Nat
    BY <1>1, Products
  <2> DEFINE xe == x * e
             ye == y * e
  <2>4. x = y => xe = ye
    OBVIOUS
  <2>5. /\ x < y => xe + (l - 1) < ye + (k - 1)
        /\ xe + (l - 1) < ye + (k - 1) => x < y \/ (x = y /\ l - 1 < k - 1)
        /\ xe + (l - 1) = ye + (k - 1) => x = y /\ l - 1 = k - 1
        /\ xe \in Nat /\ ye \in Nat
    BY <2>2, <2>3
  <2>6. Number(c, w, l) = xe + l /\ Number(c, v, k) = ye + k
    BY <2>1
  <2> HIDE DEF xe, ye, x, y
  <2> QED
    BY <1>1, <1>2, <2>4, <2>5, <2>6
<1>4. CASE ~ Sequential(c)
  <2>1. Number(c, w, l) = (l - 1) * m + x + 1 /\ Number(c, v, k) = (k - 1) * m + y + 1
    BY <1>4 DEF Number
  <2>2. /\ l - 1 < k - 1 => (l - 1) * m + x < (k - 1) * m + y
        /\ (l - 1) * m + x < (k - 1) * m + y => l - 1 < k - 1 \/ (l - 1 = k - 1 /\ x < y)
        /\ (l - 1) * m + x = (k - 1) * m + y => x = y /\ l - 1 = k - 1
        /\ (l - 1) * m \in Nat
    BY <1>1, Grid
  <2>3. (k - 1) * m \in Nat
    BY <1>1, Products
  <2> DEFINE lm == (l - 1) * m
             km == (k - 1) * m
  <2>4. l = k => lm = km
    OBVIOUS
  <2>5. /\ l - 1 < k - 1 => lm + x < km + y
        /\ lm + x < km + y => l - 1 < k - 1 \/ (l - 1 = k - 1 /\ x < y)
        /\ lm + x = km + y => x = y /\ l - 1 = k - 1
        /\ lm \in Nat /\ km \in Nat
    BY <2>2, <2>3
  <2>6. Number(c, w, l) = lm + x + 1 /\ Number(c, v, k) = km + y + 1
    BY <2>1
  <2> HIDE DEF lm, km, x, y
  <2> QED
    BY <1>1, <1>2, <2>4, <2>5, <2>6
<1> QED
  BY <1>3, <1>4

\* Every number up to Total is that of a pull.
LEMMA NumberNext ==
    ASSUME Widening, NEW c \in Configs, NEW w \in Routed(c), NEW l \in Exchanged,
           Number(c, w, l) < Total(c)
    PROVE  \E v \in Routed(c), k \in Exchanged : Number(c, v, k) = Number(c, w, l) + 1
<1> DEFINE m == Width(c)
           e == Layers - 1
           x == w - Start(c)
<1>1. /\ m \in Nat /\ e \in Nat /\ x \in Nat /\ x < m /\ l \in Nat /\ l - 1 \in Nat /\ l - 1 < e
      /\ Total(c) = m * e /\ w \in Nat /\ Start(c) \in Nat /\ c.window \in Nat
      /\ Start(c) + m = c.window + 1
      /\ w \in Snapshots(c)
  BY Sizes DEF Exchanged
<1>2. \A v \in Start(c) .. c.window : v \in Routed(c)
  BY StartIs
<1>3. CASE Sequential(c)
  <2>2. CASE l < e
    <3>1. l + 1 \in Exchanged
      BY <1>1, <2>2 DEF Exchanged
    <3>2. Number(c, w, l + 1) = Number(c, w, l) + 1
      <4>1. x * e \in Nat /\ Number(c, w, l + 1) = x * e + (l + 1) /\ Number(c, w, l) = x * e + l
        BY <1>1, <1>3, Products DEF Number
      <4> QED
        BY <1>1, <4>1
    <3> QED
      BY <3>1, <3>2
  <2>3. CASE l = e
    <3>1. x * e \in Nat /\ (x + 1) * e = x * e + e
      BY <1>1, Products
    <3>2. x + 1 < m
      <4> SUFFICES ASSUME x + 1 = m PROVE FALSE
        BY <1>1
      <4>1. Number(c, w, l) = x * e + e /\ m * e = x * e + e
        BY <1>3, <2>3, <3>1 DEF Number
      <4> QED
        BY <1>1, <4>1, <3>1
    <3>3. w + 1 \in Routed(c)
      BY <1>1, <1>2, <3>2
    <3>4. 1 \in Exchanged
      BY <1>1 DEF Exchanged
    <3>5. w + 1 - Start(c) = x + 1
      BY <1>1
    <3>6. Number(c, w + 1, 1) = (x + 1) * e + 1 /\ Number(c, w, l) = x * e + e
      BY <1>1, <1>3, <2>3, <3>5 DEF Number
    <3>7. Number(c, w + 1, 1) = Number(c, w, l) + 1
      BY <1>1, <3>1, <3>6
    <3> QED
      BY <3>3, <3>4, <3>7
  <2> QED
    BY <1>1, <2>2, <2>3
<1>4. CASE ~ Sequential(c)
  <2>2. CASE x + 1 < m
    <3>1. w + 1 \in Routed(c)
      BY <1>1, <1>2, <2>2
    <3>2. w + 1 - Start(c) = x + 1
      BY <1>1
    <3>3. (l - 1) * m \in Nat
      BY <1>1, Products
    <3>4. Number(c, w + 1, l) = (l - 1) * m + (x + 1) + 1 /\ Number(c, w, l) = (l - 1) * m + x + 1
      BY <1>1, <1>4, <3>2 DEF Number
    <3>5. Number(c, w + 1, l) = Number(c, w, l) + 1
      BY <1>1, <3>3, <3>4
    <3> QED
      BY <3>1, <3>5
  <2>3. CASE x + 1 = m
    <3>1. (l - 1) * m \in Nat /\ ((l - 1) + 1) * m = (l - 1) * m + m /\ m * e = e * m
      <4>1. l - 1 \in Int /\ m \in Int /\ e \in Int /\ l - 1 \in Nat /\ m \in Nat
        BY <1>1
      <4> HIDE DEF m, e
      <4>2. (l - 1) * m \in Nat
        BY <4>1, Products
      <4>3. ((l - 1) + 1) * m = (l - 1) * m + m
        BY <4>1, Products
      <4>4. m * e = e * m
        BY <4>1, Products
      <4> QED
        BY <4>2, <4>3, <4>4
    <3>2. l < e
      <4> SUFFICES ASSUME l = e PROVE FALSE
        BY <1>1
      <4>1. (l - 1) + 1 = e
        BY <1>1
      <4>2. e * m = (l - 1) * m + m
        BY <3>1, <4>1
      <4>3. Number(c, w, l) = (l - 1) * m + x + 1
        BY <1>4 DEF Number
      <4> QED
        BY <1>1, <2>3, <3>1, <4>2, <4>3
    <3>3. l + 1 \in Exchanged /\ Start(c) \in Routed(c)
      BY <1>1, <1>2, <3>2 DEF Exchanged
    <3>4. Number(c, Start(c), l + 1) = l * m + 1
      <4>1. l + 1 - 1 = l /\ Start(c) - Start(c) = 0 /\ l * m \in Nat
        BY <1>1, Products
      <4>2. Number(c, Start(c), l + 1) = (l + 1 - 1) * m + (Start(c) - Start(c)) + 1
        BY <1>1, <1>4 DEF Number
      <4> QED
        BY <4>1, <4>2
    <3>5. l * m = (l - 1) * m + m
      <4>1. (l - 1) + 1 = l
        BY <1>1
      <4> QED
        BY <3>1, <4>1
    <3>6. Number(c, w, l) = (l - 1) * m + x + 1
      BY <1>4 DEF Number
    <3>7. Number(c, Start(c), l + 1) = Number(c, w, l) + 1
      BY <1>1, <2>3, <3>1, <3>4, <3>5, <3>6
    <3> QED
      BY <3>3, <3>7
  <2> QED
    BY <1>1, <2>2, <2>3
<1> QED
  BY <1>3, <1>4

\* A group of snapshots that is scanned together.
GroupAt(c, f) == f \in Snapshots(c) /\ (Sequential(c) \/ f = Begin(c.window))

LEMMA ScannedIs ==
    ASSUME Widening, NEW c \in Configs, NEW f, GroupAt(c, f)
    PROVE  /\ Scanned(c, f) \subseteq Snapshots(c) /\ f \in Scanned(c, f) /\ f \in Nat
           /\ Sequential(c) => Scanned(c, f) = {f}
           /\ ~ Sequential(c) => Scanned(c, f) = Snapshots(c)
<1>1. c.window \in Nat /\ Begin(c.window) \in 0 .. c.window
  BY ConfigIs
<1> QED
  BY <1>1 DEF GroupAt, Scanned, Snapshots

\* How many calls a layer takes, and the numbers of its pulls.
LEMMA LayerNumbers ==
    ASSUME Widening, NEW c \in Configs, NEW f, GroupAt(c, f), NEW l \in 0 .. Layers - 1
    PROVE  /\ Prior(c, f, l) \in Nat /\ Prior(c, f, l + 1) \in Nat
           /\ Prior(c, f, l) <= Prior(c, f, l + 1) /\ Prior(c, f, l + 1) <= Total(c)
           /\ (\A w \in Scanned(c, f) : w \notin Now(c, l)) => Prior(c, f, l + 1) = Prior(c, f, l)
           /\ \A w \in Scanned(c, f) : w \in Now(c, l) =>
                 /\ w \in Routed(c) /\ l + 1 \in Exchanged
                 /\ Sequential(c) => /\ Prior(c, f, l + 1) = Prior(c, f, l) + 1
                                     /\ Number(c, w, l + 1) = Prior(c, f, l) + 1
                 /\ ~ Sequential(c) => /\ Prior(c, f, l + 1) = Prior(c, f, l) + Width(c)
                                       /\ Number(c, w, l + 1) = Prior(c, f, l) + (w - Start(c)) + 1
<1> DEFINE m == Width(c)
           e == Layers - 1
           S == Start(c)
<1>1. /\ m \in Nat /\ e \in Nat /\ S \in Nat /\ Layers \in Nat /\ l \in Nat /\ l <= e
      /\ f \in Nat /\ f \in Snapshots(c) /\ Total(c) = m * e /\ (f \in Routed(c) <=> S <= f)
  BY Sizes, ConfigIs DEF GroupAt
<1>2. Capped(l) = l /\ Capped(l + 1) = (IF l + 1 < Layers THEN l + 1 ELSE l)
  BY <1>1 DEF Capped
<1>3. \A w \in Now(c, l) : l + 1 < Layers /\ w \in Routed(c) /\ l + 1 \in Exchanged
  BY <1>1 DEF Now, Exchanged
<1>4. CASE Sequential(c)
  <2>1. Scanned(c, f) = {f}
    BY <1>4, ScannedIs
  <2>2. CASE f < S
    <3>1. Prior(c, f, l) = 0 /\ Prior(c, f, l + 1) = 0
      BY <1>4, <2>2 DEF Prior
    <3>2. f \notin Now(c, l)
      BY <1>1, <1>3, <2>2
    <3>3. m * e \in Nat
      BY <1>1, Products
    <3> QED
      BY <1>1, <2>1, <3>1, <3>2, <3>3
  <2>3. CASE S <= f
    <3> DEFINE x == f - S
               xe == x * e
    <3>1. x \in Nat /\ x < m /\ f \in Routed(c)
      BY <1>1, <2>3, Sizes
    <3>2. xe \in Nat /\ xe + e <= m * e
      BY <1>1, <3>1, Grid
    <3>3. ~ (f < S)
      BY <1>1, <2>3
    <3>4. \A k : Prior(c, f, k) = xe + Capped(k)
      BY <1>4, <3>3 DEF Prior
    <3> HIDE DEF xe
    <3>5. Prior(c, f, l) = xe + l /\ Prior(c, f, l + 1) = xe + (IF l + 1 < Layers THEN l + 1 ELSE l)
      BY <1>2, <3>4
    <3>6. \A w \in Scanned(c, f) : w \in Now(c, l) =>
             /\ Prior(c, f, l + 1) = Prior(c, f, l) + 1
             /\ Number(c, w, l + 1) = Prior(c, f, l) + 1
      <4> SUFFICES ASSUME f \in Now(c, l)
                   PROVE  /\ Prior(c, f, l + 1) = Prior(c, f, l) + 1
                          /\ Number(c, f, l + 1) = Prior(c, f, l) + 1
        BY <2>1
      <4>1. l + 1 < Layers
        BY <1>3
      <4>2. Number(c, f, l + 1) = xe + (l + 1)
        BY <1>4 DEF Number, xe
      <4> QED
        BY <1>1, <3>2, <3>5, <4>1, <4>2
    <3>7. (f \notin Now(c, l)) => Prior(c, f, l + 1) = Prior(c, f, l)
      BY <1>1, <3>1, <3>5 DEF Now
    <3>8. /\ Prior(c, f, l) \in Nat /\ Prior(c, f, l + 1) \in Nat
          /\ Prior(c, f, l) <= Prior(c, f, l + 1) /\ Prior(c, f, l + 1) <= Total(c)
      <4> DEFINE me == m * e
      <4>1. me \in Nat /\ xe + e <= me /\ Total(c) = me
        BY <1>1, <3>2, Products
      <4> HIDE DEF me
      <4> QED
        BY <1>1, <3>2, <3>5, <4>1
    <3> QED
      BY <1>3, <1>4, <2>1, <3>6, <3>7, <3>8
  <2> QED
    BY <1>1, <2>2, <2>3
<1>5. CASE ~ Sequential(c)
  <2> DEFINE lm == l * m
             k == IF l + 1 < Layers THEN l + 1 ELSE l
             km == k * m
  <2>1. k \in Nat /\ k <= e /\ (l + 1 < Layers => k = l + 1)
    BY <1>1
  <2>2. lm \in Nat /\ km \in Nat /\ km <= e * m /\ e * m = m * e /\ (l + 1) * m = lm + m
    BY <1>1, <2>1, Products
  <2>3. Prior(c, f, l) = lm /\ Prior(c, f, l + 1) = km
    BY <1>2, <1>5 DEF Prior
  <2>4. lm <= km /\ (l + 1 < Layers => km = lm + m)
    <3>1. l <= k
      BY <1>1
    <3> HIDE DEF k
    <3>2. lm <= km
      BY <1>1, <2>1, <3>1, Products
    <3>3. l + 1 < Layers => km = lm + m
      BY <2>1, <2>2
    <3> QED
      BY <3>2, <3>3
  <2>5. (\A w \in Scanned(c, f) : w \notin Now(c, l)) => km = lm
    <3> HAVE \A w \in Scanned(c, f) : w \notin Now(c, l)
    <3>1. CASE l + 1 < Layers
      <4>1. Now(c, l) = Routed(c)
        BY <3>1 DEF Now
      <4>2. Routed(c) = {}
        BY <1>5, <4>1, ScannedIs, Sizes
      <4>3. m = 0
        <5>1. c.window \in Nat /\ Start(c) \in Nat /\ Routed(c) = Start(c) .. c.window /\ S + m = c.window + 1
          BY StartIs, Sizes
        <5> QED
          BY <1>1, <4>2, <5>1
      <4> QED
        BY <2>2, <2>4, <3>1, <4>3
    <3>2. CASE ~ (l + 1 < Layers)
      BY <3>2
    <3> QED
      BY <3>1, <3>2
  <2>6. \A w \in Scanned(c, f) : w \in Now(c, l) =>
           km = lm + m /\ Number(c, w, l + 1) = lm + (w - Start(c)) + 1
    <3> SUFFICES ASSUME NEW w \in Scanned(c, f), w \in Now(c, l)
                 PROVE  km = lm + m /\ Number(c, w, l + 1) = lm + (w - Start(c)) + 1
      OBVIOUS
    <3>1. l + 1 < Layers /\ (l + 1) - 1 = l
      BY <1>1, <1>3
    <3> QED
      BY <1>5, <2>4, <3>1 DEF Number
  <2> HIDE DEF lm, km, k
  <2> QED
    BY <1>1, <1>3, <1>5, <2>2, <2>3, <2>4, <2>5, <2>6
<1> QED
  BY <1>4, <1>5

\* What the next group begins with is what this one ends with.
LEMMA GroupNumbers ==
    ASSUME Widening, NEW c \in Configs, NEW f, GroupAt(c, f)
    PROVE  /\ Prior(c, Begin(c.window), 0) = 0
           /\ Prior(c, f, Layers) = Prior(c, f, Layers - 1)
           /\ ~ Sequential(c) => Prior(c, f, Layers) = Total(c)
           /\ Sequential(c) /\ f = c.window => Prior(c, f, Layers) = Total(c)
           /\ Sequential(c) /\ f < c.window => Prior(c, f + 1, 0) = Prior(c, f, Layers)
<1> DEFINE m == Width(c)
           e == Layers - 1
           S == Start(c)
           K == c.window
           B == Begin(c.window)
<1>1. /\ m \in Nat /\ e \in Nat /\ S \in Nat /\ Layers \in Nat /\ Layers >= 1 /\ K \in Nat
      /\ f \in Nat /\ Total(c) = m * e /\ S + m = K + 1 /\ f <= K
  BY Sizes, ConfigIs DEF GroupAt, Snapshots
<1>2. Capped(Layers) = e /\ Capped(Layers - 1) = e /\ Capped(0) = 0
  BY <1>1 DEF Capped
<1>3. Prior(c, f, Layers) = Prior(c, f, Layers - 1)
  BY <1>2 DEF Prior
<1>4. Prior(c, B, 0) = 0
  <2>1. S \in B .. K + 1 /\ B \in 0 .. K
    BY ConfigIs, StartIs
  <2>2. CASE Sequential(c)
    <3>1. CASE B < S
      BY <2>2, <3>1 DEF Prior
    <3>2. CASE ~ (B < S)
      <4>1. B - S = 0 /\ 0 * e = 0
        BY <1>1, <2>1, <3>2, Products
      <4>2. Prior(c, B, 0) = (B - S) * e + 0
        BY <1>2, <2>2, <3>2 DEF Prior
      <4> QED
        BY <4>1, <4>2
    <3> QED
      BY <3>1, <3>2
  <2>3. CASE ~ Sequential(c)
    <3>1. 0 * m = 0
      BY <1>1, Products
    <3> QED
      BY <1>2, <2>3, <3>1 DEF Prior
  <2> QED
    BY <2>2, <2>3
<1>5. ~ Sequential(c) => Prior(c, f, Layers) = Total(c)
  <2>1. e * m = m * e
    BY <1>1, Products
  <2> QED
    BY <1>1, <1>2, <2>1 DEF Prior
<1>6. ASSUME Sequential(c), f = K PROVE Prior(c, f, Layers) = Total(c)
  <2>1. CASE f < S
    <3>1. m = 0
      <4>1. m \in Nat /\ S \in Nat /\ K \in Nat /\ S + m = K + 1 /\ K < S
        BY <1>1, <1>6, <2>1
      <4> HIDE DEF m, S, K
      <4> QED
        BY <4>1
    <3>2. 0 * e = 0 /\ m * e = 0 * e
      BY <1>1, <3>1, Products
    <3>3. Prior(c, f, Layers) = 0
      BY <1>6, <2>1 DEF Prior
    <3> QED
      BY <1>1, <3>2, <3>3
  <2>2. CASE ~ (f < S)
    <3> DEFINE x == f - S
    <3>1. x \in Nat /\ x + 1 = m /\ (x + 1) * e = x * e + e
      BY <1>1, <1>6, <2>2, Products
    <3>2. Prior(c, f, Layers) = x * e + e
      BY <1>2, <1>6, <2>2 DEF Prior
    <3> HIDE DEF x
    <3> QED
      BY <1>1, <3>1, <3>2
  <2> QED
    BY <2>1, <2>2
<1>7. ASSUME Sequential(c), f < K PROVE Prior(c, f + 1, 0) = Prior(c, f, Layers)
  <2>1. CASE f + 1 < S
    <3>1. f < S
      BY <1>1, <2>1
    <3> QED
      BY <1>7, <2>1, <3>1 DEF Prior
  <2>2. CASE f + 1 = S
    <3>1. f < S /\ ~ (f + 1 < S) /\ (f + 1) - S = 0 /\ 0 * e = 0
      BY <1>1, <2>2, Products
    <3>2. Prior(c, f + 1, 0) = ((f + 1) - S) * e + 0
      BY <1>2, <1>7, <3>1 DEF Prior
    <3>3. Prior(c, f, Layers) = 0
      BY <1>7, <3>1 DEF Prior
    <3> QED
      BY <3>1, <3>2, <3>3
  <2>3. CASE f + 1 > S
    <3> DEFINE x == f - S
    <3>1. x \in Nat /\ ~ (f < S) /\ ~ (f + 1 < S) /\ (f + 1) - S = x + 1
      BY <1>1, <2>3
    <3>2. (x + 1) * e = x * e + e /\ x * e \in Nat
      BY <1>1, <3>1, Products
    <3>3. Prior(c, f + 1, 0) = ((f + 1) - S) * e + 0 /\ Prior(c, f, Layers) = x * e + e
      BY <1>2, <1>7, <3>1 DEF Prior
    <3> HIDE DEF x
    <3>4. Prior(c, f + 1, 0) = (x + 1) * e + 0
      BY <3>1, <3>3
    <3> QED
      BY <1>1, <3>2, <3>3, <3>4
  <2> QED
    BY <1>1, <2>1, <2>2, <2>3
<1> QED
  BY <1>3, <1>4, <1>5, <1>6, <1>7
-----------------------------------------------------------------------------
(* Lists.                                                                  *)

Distinct(s) == \A i, j \in DOMAIN s : s[i] = s[j] => i = j

\* A coroutine leaves its queue: the rest of the queue is left.
LEMMA RestOf ==
    ASSUME NEW S, NEW s \in Seq(S), s # <<>>, Distinct(s)
    PROVE  /\ Without(s, Head(s)) = Tail(s)
           /\ Tail(s) \in Seq(S) /\ Len(Tail(s)) = Len(s) - 1
           /\ 1 \in DOMAIN s /\ Head(s) = s[1] /\ Head(s) \in S
           /\ \A i \in DOMAIN Tail(s) : i + 1 \in DOMAIN s /\ Tail(s)[i] = s[i + 1]
           /\ Distinct(Tail(s))
           /\ ToSet(Tail(s)) = ToSet(s) \ {Head(s)}
<1>1. Len(s) \in Nat /\ Len(s) >= 1 /\ DOMAIN s = 1 .. Len(s) /\ Head(s) = s[1]
  OBVIOUS
<1>2. Tail(s) \in Seq(S) /\ Len(Tail(s)) = Len(s) - 1 /\ DOMAIN Tail(s) = 1 .. Len(s) - 1
  OBVIOUS
<1>3. \A i \in DOMAIN Tail(s) : i + 1 \in DOMAIN s /\ Tail(s)[i] = s[i + 1]
  BY <1>1, <1>2
<1>4. Distinct(Tail(s))
  <2> SUFFICES ASSUME NEW i \in DOMAIN Tail(s), NEW j \in DOMAIN Tail(s), Tail(s)[i] = Tail(s)[j]
               PROVE  i = j
    BY DEF Distinct
  <2>1. i + 1 = j + 1
    BY <1>3 DEF Distinct
  <2> QED
    BY <1>1, <1>2, <2>1
<1>5. ToSet(Tail(s)) = ToSet(s) \ {Head(s)}
  <2>1. ASSUME NEW x \in ToSet(Tail(s)) PROVE x \in ToSet(s) /\ x # Head(s)
    <3>1. PICK i \in DOMAIN Tail(s) : x = Tail(s)[i]
      BY <2>1 DEF ToSet
    <3>2. i + 1 \in DOMAIN s /\ x = s[i + 1] /\ i + 1 # 1
      BY <1>2, <1>3, <3>1
    <3> QED
      BY <1>1, <3>2 DEF ToSet, Distinct
  <2>2. ASSUME NEW x \in ToSet(s), x # Head(s) PROVE x \in ToSet(Tail(s))
    <3>1. PICK j \in DOMAIN s : x = s[j]
      BY <2>2 DEF ToSet
    <3>2. j # 1 /\ j - 1 \in DOMAIN Tail(s) /\ (j - 1) + 1 = j
      BY <1>1, <1>2, <2>2, <3>1
    <3>3. x = Tail(s)[j - 1]
      BY <1>3, <3>1, <3>2
    <3> QED
      BY <3>2, <3>3 DEF ToSet
  <2> QED
    BY <2>1, <2>2
<1>6. Without(s, Head(s)) = Tail(s)
  <2>1. (CHOOSE i \in DOMAIN s : s[i] = Head(s)) = 1
    <3>1. \E i \in DOMAIN s : s[i] = Head(s)
      BY <1>1
    <3>2. \A i \in DOMAIN s : s[i] = Head(s) => i = 1
      BY <1>1 DEF Distinct
    <3> QED
      BY <3>1, <3>2
  <2>2. Without(s, Head(s)) = SubSeq(s, 1, 0) \o SubSeq(s, 2, Len(s))
    <3>1. Without(s, Head(s)) = RemoveAt(s, 1)
      BY <2>1 DEF Without
    <3> QED
      BY <3>1 DEF RemoveAt
  <2> DEFINE b == SubSeq(s, 2, Len(s))
  <2>3. SubSeq(s, 1, 0) = <<>>
    BY <1>1
  <2>4. b \in Seq(S) /\ Len(b) = Len(s) - 1 /\ \A i \in 1 .. Len(s) - 1 : b[i] = s[i + 1]
    BY <1>1
  <2> HIDE DEF b
  <2>5. <<>> \o b = b
    BY <2>4
  <2>6. b = Tail(s)
    BY <1>1, <1>2, <1>3, <2>4, SeqEqual
  <2> QED
    BY <2>2, <2>3, <2>5, <2>6 DEF b
<1> QED
  BY <1>1, <1>2, <1>3, <1>4, <1>5, <1>6

LEMMA Appended ==
    ASSUME NEW S, NEW s \in Seq(S), NEW x \in S
    PROVE  /\ Append(s, x) \in Seq(S) /\ Len(Append(s, x)) = Len(s) + 1
           /\ DOMAIN Append(s, x) = 1 .. Len(s) + 1 /\ DOMAIN s = 1 .. Len(s) /\ Len(s) \in Nat
           /\ \A i \in DOMAIN s : Append(s, x)[i] = s[i]
           /\ Append(s, x)[Len(s) + 1] = x
           /\ ToSet(Append(s, x)) = ToSet(s) \cup {x}
<1>1. /\ Append(s, x) \in Seq(S) /\ Len(Append(s, x)) = Len(s) + 1
      /\ DOMAIN Append(s, x) = 1 .. Len(s) + 1 /\ DOMAIN s = 1 .. Len(s) /\ Len(s) \in Nat
      /\ \A i \in DOMAIN s : Append(s, x)[i] = s[i]
      /\ Append(s, x)[Len(s) + 1] = x
  OBVIOUS
<1>2. ToSet(Append(s, x)) = ToSet(s) \cup {x}
  <2> DEFINE a == Append(s, x)
  <2> HIDE DEF a
  <2>1. /\ DOMAIN a = 1 .. Len(s) + 1 /\ DOMAIN s = 1 .. Len(s) /\ Len(s) \in Nat
        /\ (\A i \in DOMAIN s : a[i] = s[i]) /\ a[Len(s) + 1] = x
    BY <1>1 DEF a
  <2>2. ASSUME NEW y \in ToSet(a) PROVE y \in ToSet(s) \cup {x}
    <3>1. PICK i \in DOMAIN a : y = a[i]
      BY <2>2 DEF ToSet
    <3>2. i = Len(s) + 1 \/ i \in DOMAIN s
      BY <2>1, <3>1
    <3> QED
      BY <2>1, <3>1, <3>2 DEF ToSet
  <2>3. \A y \in ToSet(s) : y \in ToSet(a)
    BY <2>1 DEF ToSet
  <2>4. x \in ToSet(a)
    BY <2>1 DEF ToSet
  <2>5. ToSet(a) = ToSet(s) \cup {x}
    BY <2>2, <2>3, <2>4
  <2> QED
    BY <2>5 DEF a
<1> QED
  BY <1>1, <1>2

LEMMA FrontOf ==
    ASSUME NEW S, NEW s \in Seq(S), s # <<>>
    PROVE  /\ Front(s) \in Seq(S) /\ Len(Front(s)) = Len(s) - 1 /\ Len(s) \in Nat /\ Len(s) >= 1
           /\ DOMAIN Front(s) = 1 .. Len(s) - 1 /\ DOMAIN s = 1 .. Len(s)
           /\ \A i \in DOMAIN Front(s) : i \in DOMAIN s /\ Front(s)[i] = s[i]
           /\ Len(s) \in DOMAIN s /\ Last(s) = s[Len(s)] /\ Last(s) \in S
<1>1. Len(s) \in Nat /\ Len(s) >= 1 /\ DOMAIN s = 1 .. Len(s)
  OBVIOUS
<1>2. Front(s) = SubSeq(s, 1, Len(s) - 1) /\ Last(s) = s[Len(s)]
  BY DEF Front, Last
<1>3. /\ SubSeq(s, 1, Len(s) - 1) \in Seq(S) /\ Len(SubSeq(s, 1, Len(s) - 1)) = Len(s) - 1
      /\ \A i \in 1 .. Len(s) - 1 : SubSeq(s, 1, Len(s) - 1)[i] = s[i]
  BY <1>1
<1> DEFINE b == SubSeq(s, 1, Len(s) - 1)
<1>4. Front(s) = b /\ b \in Seq(S) /\ Len(b) = Len(s) - 1 /\ \A i \in 1 .. Len(s) - 1 : b[i] = s[i]
  BY <1>2, <1>3
<1> HIDE DEF b
<1>5. DOMAIN b = 1 .. Len(s) - 1
  BY <1>4
<1> QED
  BY <1>1, <1>2, <1>4, <1>5

\* An interval is enumerated by its own places.
LEMMA IncreasingRange ==
    ASSUME NEW n \in Nat
    PROVE  Increasing(1 .. n) = [k \in 1 .. n |-> k]
<1>1. Cardinality(1 .. n) = n
  BY FS_Interval
<1>2. ASSUME NEW x \in 1 .. n PROVE Cardinality({y \in 1 .. n : y < x}) = x - 1
  <2>1. {y \in 1 .. n : y < x} = 1 .. (x - 1)
    OBVIOUS
  <2>2. 1 \in Int /\ x - 1 \in Int /\ x - 1 >= 0
    OBVIOUS
  <2>3. Cardinality(1 .. (x - 1)) = x - 1
    BY <2>2, FS_Interval
  <2> QED
    BY <2>1, <2>3
<1>3. ASSUME NEW k \in 1 .. n
      PROVE  (CHOOSE x \in 1 .. n : Cardinality({y \in 1 .. n : y < x}) = k - 1) = k
  <2> DEFINE P(x) == Cardinality({y \in 1 .. n : y < x}) = k - 1
  <2>1. \A x \in 1 .. n : P(x) <=> x = k
    BY <1>2
  <2> HIDE DEF P
  <2>2. (CHOOSE x \in 1 .. n : P(x)) = k
    BY <2>1
  <2> QED
    BY <2>2 DEF P
<1> QED
  BY <1>1, <1>3 DEF Increasing

\* Keeping every operation keeps the tape as it is.
LEMMA PickAll ==
    ASSUME NEW S, NEW s \in Seq(S)
    PROVE  Pick(s, Increasing(DOMAIN s)) = s
<1>1. Len(s) \in Nat /\ DOMAIN s = 1 .. Len(s) /\ s = [k \in 1 .. Len(s) |-> s[k]]
  OBVIOUS
<1>2. Increasing(DOMAIN s) = [k \in 1 .. Len(s) |-> k]
  BY <1>1, IncreasingRange
<1>3. Pick(s, Increasing(DOMAIN s)) = [k \in 1 .. Len(s) |-> s[k]]
  BY <1>2 DEF Pick
<1> QED
  BY <1>1, <1>3
-----------------------------------------------------------------------------
(* A layer begins.                                                         *)

LEMMA ConfigState ==
    ASSUME config \in Configs, NEW r \in Rank
    PROVE  /\ Window = Snapshots(config)
           /\ \A w : NeedsExchange(r, w) <=> Whole(config.window, w)
           /\ \A f : Group(r, f) = Scanned(config, f)
           /\ \A w \in Snapshots(config) : w \in Routed(config) <=> Whole(config.window, w)
BY DEF Window, Snapshots, NeedsExchange, Complete, Whole, Group, Scanned, Sequential, Routed

\* The snapshots of a group are scheduled once each, those that exchange first
\* and oldest first.
LEMMA ScheduleIs ==
    ASSUME Widening, config \in Configs, NEW r \in Rank, NEW f, GroupAt(config, f),
           NEW l \in 0 .. Layers - 1
    PROVE  LET s == ScheduleOrder(r, f, l)
           IN  /\ s \in Seq(Scanned(config, f)) /\ Distinct(s)
               /\ ToSet(s) = Scanned(config, f)
               /\ InOrder(Now(config, l), s)
<1> DEFINE G == Scanned(config, f)
           R == {w \in G : w \in Now(config, l)}
           a == Increasing(R)
           b == Increasing(G \ R)
           s == ScheduleOrder(r, f, l)
<1>1. G \in SUBSET Snapshots(config)
  BY ScannedIs
<1>2. s = a \o b
  <2>1. Group(r, f) = G
    BY ConfigState
  <2>2. {w \in Group(r, f) : l + 1 < Layers /\ NeedsExchange(r, w)} = R
    <3>1. \A w \in G : NeedsExchange(r, w) <=> w \in Routed(config)
      BY <1>1, ConfigState
    <3> QED
      BY <2>1, <3>1 DEF Now
  <2> QED
    BY <2>1, <2>2 DEF ScheduleOrder
<1>3. /\ R \in SUBSET Int /\ G \ R \in SUBSET Int /\ IsFiniteSet(R) /\ IsFiniteSet(G \ R)
      /\ Cardinality(R) \in Nat /\ Cardinality(G \ R) \in Nat
  <2>1. Begin(config.window) \in Int /\ config.window \in Int
    BY ConfigIs
  <2>2. IsFiniteSet(Snapshots(config)) /\ Snapshots(config) \in SUBSET Int
    BY <2>1, FS_Interval DEF Snapshots
  <2>3. R \subseteq Snapshots(config) /\ G \ R \subseteq Snapshots(config)
    BY <1>1
  <2>4. IsFiniteSet(R) /\ IsFiniteSet(G \ R)
    BY <2>2, <2>3, FS_Subset
  <2> QED
    BY <2>2, <2>3, <2>4, FS_CardinalityType
<1>4. /\ a \in [1 .. Cardinality(R) -> R] /\ Elements(a) = R
      /\ \A i, j \in 1 .. Cardinality(R) : i < j => a[i] < a[j]
  BY <1>3, IncreasingEnumerates
<1>5. /\ b \in [1 .. Cardinality(G \ R) -> G \ R] /\ Elements(b) = G \ R
      /\ \A i, j \in 1 .. Cardinality(G \ R) : i < j => b[i] < b[j]
  BY <1>3, IncreasingEnumerates
<1> DEFINE m == Cardinality(R)
           n == Cardinality(G \ R)
<1>6. a \in Seq(G) /\ b \in Seq(G) /\ Len(a) = m /\ Len(b) = n
  <2>1. a \in Seq(R) /\ Len(a) = m
    BY <1>3, <1>4, ListOf
  <2>2. b \in Seq(G \ R) /\ Len(b) = n
    BY <1>3, <1>5, ListOf
  <2> QED
    BY <2>1, <2>2, SeqMonotonic
<1>7. /\ s \in Seq(G) /\ Len(s) = m + n /\ DOMAIN s = 1 .. m + n /\ m \in Nat /\ n \in Nat
      /\ \A i \in 1 .. m + n : s[i] = IF i <= m THEN a[i] ELSE b[i - m]
  <2> HIDE DEF a, b, m, n, G, s
  <2>1. s \in Seq(G) /\ Len(s) = m + n /\ \A i \in 1 .. m + n : s[i] = IF i <= m THEN a[i] ELSE b[i - m]
    <3>1. a \o b \in Seq(G)
      BY <1>6, ConcatProperties
    <3>2. Len(a \o b) = m + n
      BY <1>6, ConcatProperties
    <3>3. \A i \in 1 .. Len(a) + Len(b) : (a \o b)[i] = IF i <= Len(a) THEN a[i] ELSE b[i - Len(a)]
      BY <1>6, ConcatProperties
    <3> QED
      BY <1>2, <1>6, <3>1, <3>2, <3>3
  <2>2. m \in Nat /\ n \in Nat
    BY <1>3 DEF m, n
  <2>3. DOMAIN s = 1 .. m + n
    BY <2>1, LenProperties
  <2> QED
    BY <2>1, <2>2, <2>3
<1> HIDE DEF s
<1>8. /\ \A i \in DOMAIN s : i <= m => i \in 1 .. m /\ s[i] = a[i] /\ s[i] \in R
      /\ \A i \in DOMAIN s : ~ (i <= m) => i - m \in 1 .. n /\ s[i] = b[i - m] /\ s[i] \in G \ R
  <2> DEFINE O == G \ R
  <2>1. a \in [1 .. m -> R] /\ b \in [1 .. n -> O]
    BY <1>4, <1>5
  <2> HIDE DEF O, a, b, m, n, G, R
  <2>2. /\ \A i \in DOMAIN s : i <= m => i \in 1 .. m /\ s[i] = a[i] /\ s[i] \in R
        /\ \A i \in DOMAIN s : ~ (i <= m) => i - m \in 1 .. n /\ s[i] = b[i - m] /\ s[i] \in O
    BY <1>7, <2>1
  <2> QED
    BY <2>2 DEF O
<1> DEFINE T == Now(config, l)
<1>9. R \subseteq T /\ \A w \in G \ R : w \notin T
  OBVIOUS
<1>10. R \in SUBSET Int /\ G \ R \in SUBSET Int
  BY <1>3
<1>11. G = R \cup (G \ R) /\ R \cap (G \ R) = {}
  OBVIOUS
<1>12. Distinct(s)
  <2> SUFFICES ASSUME NEW i \in DOMAIN s, NEW j \in DOMAIN s, s[i] = s[j], i < j PROVE FALSE
    <3>1. \A i, j \in DOMAIN s : i \in Int /\ j \in Int
      BY <1>7
    <3> QED
      BY <3>1 DEF Distinct
  <2>1. CASE i <= m /\ j <= m
    <3>1. a[i] < a[j] /\ a[i] \in Int
      BY <1>4, <1>8, <1>10, <2>1
    <3> QED
      BY <1>8, <2>1, <3>1
  <2>2. CASE i <= m /\ ~ (j <= m)
    BY <1>8, <1>11, <2>2
  <2>3. CASE ~ (i <= m)
    <3>1. i \in Int /\ j \in Int /\ ~ (j <= m)
      BY <1>7, <2>3
    <3>2. i - m < j - m /\ i - m \in 1 .. n /\ j - m \in 1 .. n
      BY <1>7, <1>8, <2>3, <3>1
    <3>3. b[i - m] < b[j - m] /\ b[i - m] \in Int
      BY <1>5, <1>10, <3>2
    <3> QED
      BY <1>8, <2>3, <3>1, <3>3
  <2> QED
    BY <2>1, <2>2, <2>3
<1>13. ToSet(s) = G
  <2>1. \A x \in ToSet(s) : x \in G
    BY <1>7, ElementOfSeq DEF ToSet
  <2>2. \A x \in R : x \in ToSet(s)
    <3> SUFFICES ASSUME NEW x \in R PROVE x \in ToSet(s)
      OBVIOUS
    <3>1. PICK i \in 1 .. m : x = a[i]
      BY <1>4 DEF Elements
    <3>2. i \in DOMAIN s /\ s[i] = a[i]
      BY <1>7, <3>1
    <3> QED
      BY <3>1, <3>2 DEF ToSet
  <2>3. \A x \in G \ R : x \in ToSet(s)
    <3> SUFFICES ASSUME NEW x \in G \ R PROVE x \in ToSet(s)
      OBVIOUS
    <3>1. PICK i \in 1 .. n : x = b[i]
      BY <1>5 DEF Elements
    <3>2. i + m \in DOMAIN s /\ ~ (i + m <= m) /\ (i + m) - m = i
      BY <1>7, <3>1
    <3>3. s[i + m] = b[i]
      BY <1>8, <3>2
    <3> QED
      BY <3>1, <3>2, <3>3 DEF ToSet
  <2> QED
    BY <1>11, <2>1, <2>2, <2>3
<1>14. InOrder(T, s)
  <2> SUFFICES ASSUME NEW i \in DOMAIN s, NEW j \in DOMAIN s, i < j, s[i] \in T, s[j] \in T
               PROVE  s[i] < s[j]
    BY DEF InOrder
  <2>1. i <= m /\ j <= m
    BY <1>8, <1>9
  <2> QED
    BY <1>4, <1>8, <2>1
<1> QED
  BY <1>7, <1>12, <1>13, <1>14 DEF s

\* A layer of a group begins when nothing of it has been computed.
LEMMA FreshScan ==
    ASSUME Widening, config \in Configs, NEW r \in Rank, NEW f, GroupAt(config, f),
           NEW l \in 0 .. Layers - 1, NEW val, NEW aw, NEW cs,
           Len(cs) = Prior(config, f, l),
           \A w \in Scanned(config, f) : val[w].layer = l /\ aw[w] = 0
    PROVE  LET s == ScheduleOrder(r, f, l)
           IN  /\ QueueOK(config, f, l, s, <<>>, val)
               /\ WaitOK(config, f, l, s, <<>>, val, aw)
               /\ CountOK(config, f, l, val, cs)
<1> DEFINE s == ScheduleOrder(r, f, l)
           G == Scanned(config, f)
<1>0. l \in Int /\ Layers \in Int
  BY ConfigIs
<1>1. s \in Seq(G) /\ Distinct(s) /\ ToSet(s) = G /\ InOrder(Now(config, l), s)
  BY ScheduleIs
<1> HIDE DEF s
<1>2. \A w \in G : ~ Started2(val, l, w)
  BY <1>0 DEF Started2
<1>3. \A i \in DOMAIN s : s[i] \in G
  BY <1>1
<1>4. QueueOK(config, f, l, s, <<>>, val)
  <2>1. InOrder(Now(config, l), <<>>) /\ <<>> \in Seq(G) /\ DOMAIN <<>> = {}
    BY DEF InOrder
  <2>2. \A i \in DOMAIN s : ~ Started2(val, l, s[i])
    BY <1>2, <1>3
  <2>3. \A i, j \in DOMAIN s : s[i] = s[j] => i = j
    BY <1>1 DEF Distinct
  <2> QED
    BY ONLY <1>1, <2>1, <2>2, <2>3 DEF QueueOK
<1>5. WaitOK(config, f, l, s, <<>>, val, aw)
  <2> SUFFICES ASSUME NEW w \in G
               PROVE  LET queued == w \in ToSet(s) \cup ToSet(<<>>)
                      IN  /\ val[w].layer \in {l, l + 1}
                          /\ ~queued => Started2(val, l, w)
                          /\ IF queued /\ Started2(val, l, w) /\ w \in Now(config, l)
                             THEN aw[w] = Number(config, w, l + 1) ELSE aw[w] = 0
                          /\ ~queued /\ w \in Now(config, l) =>
                                \A v \in Now(config, l) : v \in ToSet(s) \cup ToSet(<<>>) => w < v
    BY DEF WaitOK
  <2>1. w \in ToSet(s) /\ ~ Started2(val, l, w) /\ val[w].layer = l /\ aw[w] = 0
    BY <1>1, <1>2
  <2> QED
    BY <2>1
<1>6. CountOK(config, f, l, val, cs)
  <2>1. /\ Prior(config, f, l) \in Nat /\ Prior(config, f, l + 1) \in Nat
        /\ Prior(config, f, l) <= Prior(config, f, l + 1)
        /\ \A w \in G : w \in Now(config, l) =>
                 /\ w \in Routed(config) /\ l + 1 \in Exchanged
                 /\ Sequential(config) => Number(config, w, l + 1) = Prior(config, f, l) + 1
                 /\ ~ Sequential(config) =>
                       Number(config, w, l + 1) = Prior(config, f, l) + (w - Start(config)) + 1
    BY LayerNumbers
  <2>2. \A w \in G : w \in Now(config, l) => ~ (Number(config, w, l + 1) <= Len(cs))
    <3> SUFFICES ASSUME NEW w \in G, w \in Now(config, l)
                 PROVE  ~ (Number(config, w, l + 1) <= Len(cs))
      OBVIOUS
    <3>1. w - Start(config) \in Nat
      BY <2>1, Sizes
    <3> DEFINE p == Prior(config, f, l)
               d == w - Start(config)
               k == Number(config, w, l + 1)
    <3>2. p \in Nat /\ d \in Nat /\ Len(cs) = p /\ (k = p + 1 \/ k = p + d + 1)
      BY <2>1, <3>1
    <3> HIDE DEF p, d, k
    <3>3. ~ (k <= Len(cs))
      BY <3>2
    <3> QED
      BY <3>3 DEF k
  <2> QED
    BY <1>2, <2>1, <2>2 DEF CountOK
<1> QED
  BY <1>4, <1>5, <1>6 DEF s
-----------------------------------------------------------------------------
(* The turns of the coroutines of one rank.                                *)

ScanAt(c, f, l, cur, pend, val, aw, cs) ==
    /\ GroupAt(c, f) /\ l \in 0 .. Layers - 1
    /\ TypesOK(c, val, aw, cs)
    /\ QueueOK(c, f, l, cur, pend, val)
    /\ WaitOK(c, f, l, cur, pend, val, aw)
    /\ CountOK(c, f, l, val, cs)

\* What is said of the head of the queue.
LEMMA HeadOf ==
    ASSUME Widening, NEW c \in Configs, NEW f, NEW l, NEW cur, NEW pend, NEW val, NEW aw, NEW cs,
           ScanAt(c, f, l, cur, pend, val, aw, cs), cur # <<>>
    PROVE  LET w == Head(cur)
           IN  /\ Without(cur, w) = Tail(cur)
               /\ w \in Scanned(c, f) /\ w \in Snapshots(c) /\ w \in Nat
               /\ w \in ToSet(cur) /\ w \notin ToSet(Tail(cur)) /\ w \notin ToSet(pend)
               /\ ToSet(cur) = ToSet(Tail(cur)) \cup {w}
               /\ val[w].layer \in {l, l + 1} /\ l \in Nat
<1> DEFINE w == Head(cur)
<1>1. /\ cur \in Seq(Scanned(c, f)) /\ Distinct(cur)
      /\ \A i \in DOMAIN cur, j \in DOMAIN pend : cur[i] # pend[j]
  BY DEF ScanAt, QueueOK, Distinct
<1>2. /\ Without(cur, w) = Tail(cur) /\ 1 \in DOMAIN cur /\ w = cur[1] /\ w \in Scanned(c, f)
      /\ ToSet(Tail(cur)) = ToSet(cur) \ {w}
  BY <1>1, RestOf
<1>3. w \in ToSet(cur)
  BY <1>2 DEF ToSet
<1>4. w \notin ToSet(pend)
  BY <1>1, <1>2 DEF ToSet
<1>5. w \in Snapshots(c) /\ w \in Nat
  <2>1. Scanned(c, f) \subseteq Snapshots(c)
    BY ScannedIs DEF ScanAt
  <2> QED
    BY <1>2, <2>1, Sizes
<1>6. val[w].layer \in {l, l + 1}
  BY <1>2 DEF ScanAt, WaitOK
<1>7. l \in Nat
  BY ConfigIs DEF ScanAt
<1> QED
  BY <1>2, <1>3, <1>4, <1>5, <1>6, <1>7

\* The snapshot whose turn it is has the number of the next call.
LEMMA HeadNumber ==
    ASSUME Widening, NEW c \in Configs, NEW f, NEW l, NEW cur, NEW pend, NEW val, NEW aw, NEW cs,
           ScanAt(c, f, l, cur, pend, val, aw, cs), cur # <<>>,
           ~ Started2(val, l, Head(cur)), Head(cur) \in Now(c, l)
    PROVE  Number(c, Head(cur), l + 1) = Len(cs) + 1
<1> DEFINE w == Head(cur)
           G == Scanned(c, f)
           N(u) == Number(c, u, l + 1)
           p == Prior(c, f, l)
           q == Prior(c, f, l + 1)
           S == Start(c)
<1>1. /\ w \in G /\ w \in Snapshots(c) /\ w \in Nat
  BY HeadOf
<1>2. /\ p \in Nat /\ q \in Nat /\ w \in Routed(c) /\ l + 1 \in Exchanged
      /\ Sequential(c) => q = p + 1 /\ N(w) = p + 1
  BY <1>1, LayerNumbers DEF ScanAt
<1>3. p <= Len(cs) /\ Len(cs) <= q /\ ~ (N(w) <= Len(cs)) /\ Len(cs) \in Nat
  BY <1>1 DEF ScanAt, CountOK, TypesOK
<1>4. CASE Sequential(c)
  <2> HIDE DEF N, p, q
  <2>1. N(w) = Len(cs) + 1
    BY <1>2, <1>3, <1>4
  <2> QED
    BY <2>1 DEF N
<1>5. CASE ~ Sequential(c)
  <2>1. G = Snapshots(c) /\ S \in Nat /\ S <= w
    BY <1>1, <1>2, <1>5, ScannedIs, Sizes DEF ScanAt
  <2>2. \A u \in G : u \in Now(c, l) => N(u) = p + (u - S) + 1
    BY <1>5, LayerNumbers DEF ScanAt
  <2>3. N(w) = p + (w - S) + 1
    BY <1>1, <2>2
  <2>4. CASE w = S
    <3>1. N(w) = p + 1
      BY <1>2, <2>1, <2>3, <2>4
    <3> HIDE DEF N, p, q, w
    <3>2. N(w) = Len(cs) + 1
      BY <1>2, <1>3, <3>1
    <3> QED
      BY <3>2 DEF N, w
  <2>5. CASE w # S
    <3> DEFINE u == w - 1
    <3>1. S <= u /\ u \in Nat /\ u < w
      BY <1>1, <2>1, <2>5
    <3>2. u \in G /\ u \in Routed(c)
      <4>1. Begin(c.window) <= S /\ w <= c.window /\ Begin(c.window) \in Nat /\ c.window \in Nat
        BY <1>1, StartIs, ConfigIs DEF Snapshots
      <4>2. u \in Snapshots(c)
        BY <1>1, <2>1, <3>1, <4>1 DEF Snapshots
      <4> QED
        BY <2>1, <3>1, <4>2, Sizes
    <3>3. u \in Now(c, l)
      BY <3>2 DEF Now
    <3>4. N(u) = p + (u - S) + 1
      BY <2>2, <3>2, <3>3
    <3>5. Started2(val, l, u)
      <4>1. CASE u \in ToSet(cur)
        <5>1. PICK i \in DOMAIN cur : u = cur[i]
          BY <4>1 DEF ToSet
        <5>2. cur \in Seq(G) /\ InOrder(Now(c, l), cur)
          BY DEF ScanAt, QueueOK
        <5>3. 1 \in DOMAIN cur /\ w = cur[1] /\ i \in Nat /\ 1 <= i
          BY <5>1, <5>2
        <5>4. i # 1
          BY <3>1, <5>1, <5>3, <1>1
        <5>5. cur[1] < cur[i]
          BY <3>3, <5>1, <5>2, <5>3, <5>4 DEF InOrder
        <5> QED
          BY <1>1, <3>1, <5>1, <5>3, <5>5
      <4>2. CASE u \in ToSet(pend)
        BY <4>2 DEF ScanAt, QueueOK, ToSet
      <4>3. CASE u \notin ToSet(cur) \cup ToSet(pend)
        BY <3>2, <4>3 DEF ScanAt, WaitOK
      <4> QED
        BY <4>1, <4>2, <4>3
    <3>6. N(u) <= Len(cs)
      BY <3>2, <3>3, <3>5 DEF ScanAt, CountOK
    <3>7. N(w) = N(u) + 1
      BY <1>1, <1>2, <2>1, <2>3, <3>1, <3>4
    <3>8. N(u) \in Nat
      BY <1>2, <3>2, NumberIs
    <3> HIDE DEF N, u, w
    <3>9. N(w) = Len(cs) + 1
      BY <1>3, <3>6, <3>7, <3>8
    <3> QED
      BY <3>9 DEF N, w
  <2> QED
    BY <2>4, <2>5
<1> QED
  BY <1>4, <1>5

\* Compute: the head of the queue, not started, is started and suspended, or
\* goes on.
LEMMA ComputeQueue ==
    ASSUME Widening, NEW c \in Configs, NEW f, NEW l, NEW cur, NEW pend, NEW val, NEW aw, NEW cs,
           ScanAt(c, f, l, cur, pend, val, aw, cs), cur # <<>>,
           ~ Started2(val, l, Head(cur)),
           NEW x, x.layer = l + 1
    PROVE  LET w == Head(cur)
               val2 == [val EXCEPT ![w] = x]
           IN  /\ c.mode = "dag" \/ (c.mode = "immediate" /\ l + 1 = Layers)
                     => QueueOK(c, f, l, Without(cur, w), Append(pend, w), val2)
               /\ ~ (c.mode = "dag" \/ (c.mode = "immediate" /\ l + 1 = Layers))
                     => QueueOK(c, f, l, cur, pend, val2)
<1> DEFINE w == Head(cur)
           G == Scanned(c, f)
           T == Now(c, l)
           val2 == [val EXCEPT ![w] = x]
           moved == c.mode = "dag" \/ (c.mode = "immediate" /\ l + 1 = Layers)
<1>1. /\ Without(cur, w) = Tail(cur)
      /\ w \in G /\ w \in Snapshots(c) /\ w \notin ToSet(pend) /\ l \in Nat
  BY HeadOf
<1>2. /\ cur \in Seq(G) /\ pend \in Seq(G) /\ Distinct(cur) /\ Distinct(pend)
      /\ InOrder(T, cur) /\ InOrder(T, pend)
      /\ \A i \in DOMAIN cur, j \in DOMAIN pend :
            cur[i] # pend[j] /\ (cur[i] \in T /\ pend[j] \in T => pend[j] < cur[i])
      /\ \A j \in DOMAIN pend : Started2(val, l, pend[j])
      /\ \A i, j \in DOMAIN cur : i < j /\ Started2(val, l, cur[j]) => Started2(val, l, cur[i])
      /\ Sequential(c) \/ (c.mode = "immediate" /\ l + 1 < Layers) => pend = <<>>
  BY DEF ScanAt, QueueOK, Distinct
<1>3. DOMAIN cur = 1 .. Len(cur) /\ 1 \in DOMAIN cur /\ w = cur[1]
  BY <1>2
<1>4. \A i \in DOMAIN cur : ~ Started2(val, l, cur[i])
  BY <1>2, <1>3
<1>5. /\ val2[w] = x /\ \A u \in G : u # w => val2[u] = val[u]
  <2>1. DOMAIN val = Snapshots(c)
    BY DEF ScanAt, TypesOK
  <2> QED
    BY <1>1, <2>1
<1>6. Started2(val2, l, w) /\ \A u \in G : u # w => (Started2(val2, l, u) <=> Started2(val, l, u))
  BY <1>1, <1>5 DEF Started2
<1> HIDE DEF val2
<1>7. ASSUME moved PROVE QueueOK(c, f, l, Tail(cur), Append(pend, w), val2)
  <2> DEFINE t == Tail(cur)
             d == Append(pend, w)
             m == Len(pend)
  <2>1. /\ t \in Seq(G) /\ Distinct(t)
        /\ \A i \in DOMAIN t : i \in Nat /\ i + 1 \in DOMAIN cur /\ i + 1 # 1 /\ t[i] = cur[i + 1]
    <3>1. t \in Seq(G) /\ Distinct(t) /\ \A i \in DOMAIN t : i + 1 \in DOMAIN cur /\ t[i] = cur[i + 1]
      BY <1>2, RestOf
    <3> QED
      BY <3>1
  <2>2. /\ d \in Seq(G) /\ DOMAIN d = 1 .. m + 1 /\ DOMAIN pend = 1 .. m /\ m \in Nat
        /\ (\A i \in DOMAIN pend : d[i] = pend[i]) /\ d[m + 1] = w
    BY <1>1, <1>2, Appended
  <2> HIDE DEF t, d
  <2>3. \A i \in DOMAIN d : i = m + 1 \/ (i \in DOMAIN pend /\ d[i] = pend[i] /\ i < m + 1)
    BY <2>2
  <2>4. \A j \in DOMAIN pend : pend[j] # w /\ pend[j] \in G
    BY <1>1, <1>2 DEF ToSet
  <2>5. \A i \in DOMAIN t : t[i] # w /\ t[i] \in G
    BY <1>2, <1>3, <2>1 DEF Distinct
  <2>6. \A i, j \in DOMAIN d : d[i] = d[j] => i = j
    BY <1>2, <2>2, <2>3, <2>4 DEF Distinct
  <2>7. \A i \in DOMAIN t, j \in DOMAIN d : t[i] # d[j]
    BY <1>2, <2>1, <2>2, <2>3, <2>5
  <2>8. ASSUME NEW i \in DOMAIN t, NEW j \in DOMAIN d, t[i] \in T, d[j] \in T PROVE d[j] < t[i]
    <3>1. CASE j = m + 1
      <4>1. 1 < i + 1
        BY <2>1
      <4>2. cur[1] < cur[i + 1]
        BY <1>2, <1>3, <2>1, <2>2, <2>8, <3>1, <4>1 DEF InOrder
      <4> QED
        BY <1>3, <2>1, <2>2, <3>1, <4>2
    <3>2. CASE j \in DOMAIN pend
      BY <1>2, <2>1, <2>2, <2>8, <3>2
    <3> QED
      BY <2>3, <3>1, <3>2
  <2>9. \A i \in DOMAIN t : ~ Started2(val2, l, t[i])
    BY <1>4, <1>6, <2>1, <2>5
  <2>10. \A j \in DOMAIN d : Started2(val2, l, d[j])
    BY <1>2, <1>6, <2>2, <2>3, <2>4
  <2>11. InOrder(T, t)
    <3> SUFFICES ASSUME NEW i \in DOMAIN t, NEW j \in DOMAIN t, i < j, t[i] \in T, t[j] \in T PROVE t[i] < t[j]
      BY DEF InOrder
    <3>1. i + 1 < j + 1
      BY <2>1
    <3> QED
      BY <1>2, <2>1, <3>1 DEF InOrder
  <2>12. InOrder(T, d)
    <3> SUFFICES ASSUME NEW i \in DOMAIN d, NEW j \in DOMAIN d, i < j, d[i] \in T, d[j] \in T PROVE d[i] < d[j]
      BY DEF InOrder
    <3>1. i \in DOMAIN pend /\ d[i] = pend[i]
      BY <2>2, <2>3
    <3>2. CASE j = m + 1
      BY <1>2, <1>3, <2>2, <3>1, <3>2
    <3>3. CASE j \in DOMAIN pend
      BY <1>2, <2>2, <3>1, <3>3 DEF InOrder
    <3> QED
      BY <2>3, <3>2, <3>3
  <2>13. ~ (Sequential(c) \/ (c.mode = "immediate" /\ l + 1 < Layers))
    BY <1>1, <1>7, ConfigIs DEF Sequential
  <2>14. QueueOK(c, f, l, t, d, val2)
    <3>1. \A i, j \in DOMAIN t : i < j /\ Started2(val2, l, t[j]) => Started2(val2, l, t[i])
      BY <2>9
    <3>2. \A i, j \in DOMAIN t : t[i] = t[j] => i = j
      BY <2>1 DEF Distinct
    <3>3. \A i \in DOMAIN t, j \in DOMAIN d :
             t[i] # d[j] /\ (t[i] \in T /\ d[j] \in T => d[j] < t[i]) /\ ~ Started2(val2, l, t[i])
      BY <2>7, <2>8, <2>9
    <3> QED
      BY ONLY <2>1, <2>2, <2>6, <2>10, <2>11, <2>12, <2>13, <3>1, <3>2, <3>3 DEF QueueOK
  <2> QED
    BY <2>14 DEF t, d
<1>8. ASSUME ~ moved PROVE QueueOK(c, f, l, cur, pend, val2)
  <2>1. pend = <<>>
    <3>1. c.mode \in {"dag", "immediate", "sequential"}
      BY ModesAssumption DEF Configs
    <3>2. l + 1 <= Layers /\ Layers \in Nat
      BY <1>1, ConfigIs DEF ScanAt
    <3> QED
      BY <1>1, <1>2, <1>8, <3>1, <3>2 DEF Sequential
  <2>2. \A i, j \in DOMAIN cur : i < j => ~ Started2(val2, l, cur[j])
    <3> SUFFICES ASSUME NEW i \in DOMAIN cur, NEW j \in DOMAIN cur, i < j PROVE ~ Started2(val2, l, cur[j])
      OBVIOUS
    <3>1. j # 1
      BY <1>3
    <3>2. cur[j] # w /\ cur[j] \in G
      BY <1>2, <1>3, <3>1 DEF Distinct
    <3> QED
      BY <1>4, <1>6, <3>2
  <2>3. \A i, j \in DOMAIN cur : cur[i] = cur[j] => i = j
    BY <1>2 DEF Distinct
  <2>4. DOMAIN pend = {}
    BY <2>1
  <2> QED
    BY ONLY <1>2, <2>1, <2>2, <2>3, <2>4 DEF QueueOK
<1> QED
  BY <1>1, <1>7, <1>8 DEF val2
LEMMA ComputeWait ==
    ASSUME Widening, NEW c \in Configs, NEW f, NEW l, NEW cur, NEW pend, NEW val, NEW aw, NEW cs,
           ScanAt(c, f, l, cur, pend, val, aw, cs), cur # <<>>,
           ~ Started2(val, l, Head(cur)),
           NEW x, x.layer = l + 1,
           NEW cur2, NEW pend2,
           ToSet(cur2) \cup ToSet(pend2) = ToSet(cur) \cup ToSet(pend)
    PROVE  LET w == Head(cur)
               val2 == [val EXCEPT ![w] = x]
           IN  /\ w \in Now(c, l)
                     => WaitOK(c, f, l, cur2, pend2, val2, [aw EXCEPT ![w] = Len(cs) + 1])
               /\ w \notin Now(c, l) => WaitOK(c, f, l, cur2, pend2, val2, aw)
<1> DEFINE w == Head(cur)
           G == Scanned(c, f)
           T == Now(c, l)
           Q == ToSet(cur) \cup ToSet(pend)
           val2 == [val EXCEPT ![w] = x]
           aw2 == [aw EXCEPT ![w] = Len(cs) + 1]
<1>1. w \in G /\ w \in Snapshots(c) /\ w \in Q /\ l \in Nat
  BY HeadOf
<1>2. G \subseteq Snapshots(c)
  BY ScannedIs DEF ScanAt
<1>3. /\ val2[w] = x /\ \A u \in G : u # w => val2[u] = val[u]
      /\ aw2[w] = Len(cs) + 1 /\ \A u \in G : u # w => aw2[u] = aw[u]
  <2>1. DOMAIN val = Snapshots(c) /\ DOMAIN aw = Snapshots(c)
    BY DEF ScanAt, TypesOK
  <2> QED
    BY <1>1, <1>2, <2>1
<1>4. w \in T => Number(c, w, l + 1) = Len(cs) + 1
  BY HeadNumber
<1> HIDE DEF val2, aw2, Q
<1>5. \A u \in G :
         /\ val[u].layer \in {l, l + 1}
         /\ u \notin Q => Started2(val, l, u)
         /\ u \in Q /\ Started2(val, l, u) /\ u \in T => aw[u] = Number(c, u, l + 1)
         /\ ~ (u \in Q /\ Started2(val, l, u) /\ u \in T) => aw[u] = 0
         /\ u \notin Q /\ u \in T => \A v \in T : v \in Q => u < v
  BY DEF ScanAt, WaitOK, Q
<1>6. Started2(val2, l, w) /\ val2[w].layer = l + 1
  BY <1>1, <1>3 DEF Started2
<1>7. \A u \in G : u # w => (Started2(val2, l, u) <=> Started2(val, l, u)) /\ val2[u].layer = val[u].layer
  BY <1>3 DEF Started2
<1>8. ToSet(cur2) \cup ToSet(pend2) = Q
  BY DEF Q
<1>9. \A aw3 : (\A u \in G : /\ (u \in Q /\ Started2(val2, l, u) /\ u \in T) => aw3[u] = Number(c, u, l + 1)
                             /\ ~ (u \in Q /\ Started2(val2, l, u) /\ u \in T) => aw3[u] = 0)
         => WaitOK(c, f, l, cur2, pend2, val2, aw3)
  <2> SUFFICES ASSUME NEW aw3,
                      \A u \in G : /\ (u \in Q /\ Started2(val2, l, u) /\ u \in T) => aw3[u] = Number(c, u, l + 1)
                                   /\ ~ (u \in Q /\ Started2(val2, l, u) /\ u \in T) => aw3[u] = 0,
                      NEW u \in G
               PROVE  /\ val2[u].layer \in {l, l + 1}
                      /\ u \notin Q => Started2(val2, l, u)
                      /\ IF u \in Q /\ Started2(val2, l, u) /\ u \in T
                         THEN aw3[u] = Number(c, u, l + 1) ELSE aw3[u] = 0
                      /\ u \notin Q /\ u \in T => \A v \in T : v \in Q => u < v
    BY <1>8, Zenon DEF WaitOK
  <2> QED
    BY <1>1, <1>5, <1>6, <1>7
<1>10. ASSUME w \in T PROVE WaitOK(c, f, l, cur2, pend2, val2, aw2)
  <2>1. \A u \in G : /\ (u \in Q /\ Started2(val2, l, u) /\ u \in T) => aw2[u] = Number(c, u, l + 1)
                     /\ ~ (u \in Q /\ Started2(val2, l, u) /\ u \in T) => aw2[u] = 0
    BY <1>1, <1>3, <1>4, <1>5, <1>6, <1>7, <1>10
  <2> QED
    BY <1>9, <2>1
<1>11. ASSUME w \notin T PROVE WaitOK(c, f, l, cur2, pend2, val2, aw)
  <2>1. \A u \in G : /\ (u \in Q /\ Started2(val2, l, u) /\ u \in T) => aw[u] = Number(c, u, l + 1)
                     /\ ~ (u \in Q /\ Started2(val2, l, u) /\ u \in T) => aw[u] = 0
    BY <1>1, <1>5, <1>7, <1>11
  <2> QED
    BY <1>9, <2>1
<1> QED
  BY <1>10, <1>11 DEF val2, aw2

LEMMA ComputeCount ==
    ASSUME Widening, NEW c \in Configs, NEW f, NEW l, NEW cur, NEW pend, NEW val, NEW aw, NEW cs,
           ScanAt(c, f, l, cur, pend, val, aw, cs), cur # <<>>,
           ~ Started2(val, l, Head(cur)),
           NEW x, x.layer = l + 1,
           NEW cs2, Len(cs2) = IF Head(cur) \in Now(c, l) THEN Len(cs) + 1 ELSE Len(cs)
    PROVE  CountOK(c, f, l, [val EXCEPT ![Head(cur)] = x], cs2)
<1> DEFINE w == Head(cur)
           G == Scanned(c, f)
           T == Now(c, l)
           N(u) == Number(c, u, l + 1)
           p == Prior(c, f, l)
           q == Prior(c, f, l + 1)
           val2 == [val EXCEPT ![w] = x]
<1>1. w \in G /\ w \in Snapshots(c) /\ l \in Nat
  BY HeadOf
<1>2. val2[w] = x /\ \A u \in G : u # w => val2[u] = val[u]
  <2>1. DOMAIN val = Snapshots(c) /\ G \subseteq Snapshots(c)
    BY ScannedIs DEF ScanAt, TypesOK
  <2> QED
    BY <1>1, <2>1
<1>3. w \in T => N(w) = Len(cs) + 1
  BY HeadNumber
<1>4. /\ p \in Nat /\ q \in Nat
      /\ \A u \in G : u \in T => u \in Routed(c) /\ l + 1 \in Exchanged
  BY LayerNumbers DEF ScanAt
<1>5. /\ p <= Len(cs) /\ Len(cs) <= q /\ Len(cs) \in Nat
      /\ \A u \in G : u \in T => (Started2(val, l, u) <=> N(u) <= Len(cs))
  BY DEF ScanAt, CountOK, TypesOK
<1>6. w \in T => N(w) <= q
  <2> SUFFICES ASSUME w \in T PROVE N(w) <= q
    OBVIOUS
  <2>1. w - Start(c) \in Nat /\ w - Start(c) < Width(c) /\ Start(c) \in Nat /\ Width(c) \in Nat
    BY <1>1, <1>4, Sizes
  <2>2. \/ N(w) = p + 1 /\ q = p + 1
        \/ N(w) = p + (w - Start(c)) + 1 /\ q = p + Width(c)
    BY <1>1, LayerNumbers DEF ScanAt
  <2> DEFINE d == w - Start(c)
             m == Width(c)
  <2>3. \/ N(w) = p + 1 /\ q = p + 1
        \/ N(w) = p + d + 1 /\ q = p + m
    BY <2>2
  <2>4. d \in Nat /\ m \in Nat /\ d < m
    BY <2>1
  <2> HIDE DEF d, m, N, p, q
  <2> QED
    BY <1>4, <2>3, <2>4
<1>7. \A u \in G : u # w => (Started2(val2, l, u) <=> Started2(val, l, u))
  BY <1>2 DEF Started2
<1>8. Started2(val2, l, w)
  BY <1>1, <1>2 DEF Started2
<1>9. \A u \in G : u \in T => N(u) \in Nat
  BY <1>4, NumberIs
<1>10. \A u \in G : u \in T /\ w \in T /\ u # w => N(u) # N(w)
  BY <1>1, <1>4, NumberOrder
<1> HIDE DEF val2, N, p, q
<1>11. \A u \in G : u \in T => (Started2(val2, l, u) <=> N(u) <= Len(cs2))
  <2> SUFFICES ASSUME NEW u \in G, u \in T PROVE Started2(val2, l, u) <=> N(u) <= Len(cs2)
    OBVIOUS
  <2>1. CASE u = w
    BY <1>1, <1>3, <1>5, <1>8, <2>1
  <2>2. CASE u # w /\ w \in T
    <3>1. N(u) # Len(cs) + 1 /\ N(u) \in Nat /\ Len(cs2) = Len(cs) + 1
      BY <1>3, <1>9, <1>10, <2>2
    <3>2. N(u) <= Len(cs) + 1 <=> N(u) <= Len(cs)
      BY <1>5, <3>1
    <3> QED
      BY <1>5, <1>7, <2>2, <3>1, <3>2
  <2>3. CASE u # w /\ w \notin T
    BY <1>5, <1>7, <2>3
  <2> QED
    BY <2>1, <2>2, <2>3
<1>12. p <= Len(cs2) /\ Len(cs2) <= q
  BY <1>3, <1>4, <1>5, <1>6
<1> QED
  BY <1>11, <1>12 DEF CountOK, val2, N, p, q

\* Resume: the head of the queue, started, leaves it.
LEMMA ResumeScan ==
    ASSUME Widening, NEW c \in Configs, NEW f, NEW l, NEW cur, NEW pend, NEW val, NEW aw, NEW cs,
           ScanAt(c, f, l, cur, pend, val, aw, cs), cur # <<>>,
           Started2(val, l, Head(cur)),
           NEW val2, \A u \in Scanned(c, f) : val2[u].layer = val[u].layer,
           NEW aw2, aw2[Head(cur)] = 0, \A u \in Scanned(c, f) : u # Head(cur) => aw2[u] = aw[u]
    PROVE  LET w == Head(cur)
           IN  /\ QueueOK(c, f, l, Without(cur, w), pend, val2)
               /\ WaitOK(c, f, l, Without(cur, w), pend, val2, aw2)
               /\ CountOK(c, f, l, val2, cs)
               /\ aw[w] # 0 <=> w \in Now(c, l)
               /\ aw[w] # 0 => aw[w] = Number(c, w, l + 1)
               /\ w \in Now(c, l) => \A u \in Now(c, l) :
                     u \in Scanned(c, f) /\ w < u /\ Started2(val, l, u) => aw[u] # 0
<1> DEFINE w == Head(cur)
           G == Scanned(c, f)
           T == Now(c, l)
           Q == ToSet(cur) \cup ToSet(pend)
           t == Tail(cur)
<1>1. /\ Without(cur, w) = t /\ w \in G /\ w \in ToSet(cur) /\ w \notin ToSet(t) /\ w \notin ToSet(pend)
      /\ ToSet(cur) = ToSet(t) \cup {w} /\ w \in Nat
  BY HeadOf
<1>2. /\ cur \in Seq(G) /\ pend \in Seq(G) /\ Distinct(cur) /\ Distinct(pend)
      /\ InOrder(T, cur) /\ InOrder(T, pend)
      /\ \A i \in DOMAIN cur, j \in DOMAIN pend : ~ Started2(val, l, cur[i])
      /\ \A i, j \in DOMAIN cur : i < j /\ Started2(val, l, cur[j]) => Started2(val, l, cur[i])
  BY DEF ScanAt, QueueOK, Distinct
<1>3. 1 \in DOMAIN cur /\ w = cur[1] /\ DOMAIN cur = 1 .. Len(cur) /\ Len(cur) \in Nat
  BY <1>2
<1>4. pend = <<>> /\ DOMAIN pend = {} /\ ToSet(pend) = {}
  <2>1. DOMAIN pend = {}
    BY <1>2, <1>3
  <2>2. pend = <<>>
    BY <1>2, <2>1
  <2> QED
    BY <2>1, <2>2 DEF ToSet
<1>5. \A u \in G : Started2(val2, l, u) <=> Started2(val, l, u)
  BY DEF Started2
<1>6. /\ t \in Seq(G) /\ Distinct(t)
      /\ \A i \in DOMAIN t : i \in Nat /\ i + 1 \in DOMAIN cur /\ i + 1 # 1 /\ t[i] = cur[i + 1] /\ t[i] \in G
  <2>1. t \in Seq(G) /\ Distinct(t) /\ \A i \in DOMAIN t : i + 1 \in DOMAIN cur /\ t[i] = cur[i + 1]
    BY <1>2, RestOf
  <2> QED
    BY <2>1
<1> HIDE DEF t
<1>7. QueueOK(c, f, l, t, pend, val2)
  <2>1. ASSUME NEW i \in DOMAIN t, NEW j \in DOMAIN t, i < j
        PROVE  /\ Started2(val2, l, t[j]) => Started2(val2, l, t[i])
               /\ t[i] \in T /\ t[j] \in T => t[i] < t[j]
    <3>1. i + 1 < j + 1
      BY <1>6, <2>1
    <3>2. Started2(val, l, cur[j + 1]) => Started2(val, l, cur[i + 1])
      BY <1>2, <1>6, <3>1
    <3>3. cur[i + 1] \in T /\ cur[j + 1] \in T => cur[i + 1] < cur[j + 1]
      BY <1>2, <1>6, <3>1 DEF InOrder
    <3> QED
      BY <1>5, <1>6, <3>2, <3>3
  <2>2. InOrder(T, t)
    BY <2>1 DEF InOrder
  <2>3. \A i, j \in DOMAIN t : t[i] = t[j] => i = j
    BY <1>6 DEF Distinct
  <2> QED
    BY ONLY <1>2, <1>4, <1>6, <2>1, <2>2, <2>3 DEF QueueOK
<1>8. \A u \in G :
         /\ val[u].layer \in {l, l + 1}
         /\ u \notin Q => Started2(val, l, u)
         /\ u \in Q /\ Started2(val, l, u) /\ u \in T => aw[u] = Number(c, u, l + 1)
         /\ ~ (u \in Q /\ Started2(val, l, u) /\ u \in T) => aw[u] = 0
         /\ u \notin Q /\ u \in T => \A v \in T : v \in Q => u < v
  BY DEF ScanAt, WaitOK
<1>9. \A u \in G : u \in T => Number(c, u, l + 1) \in Nat /\ Number(c, u, l + 1) # 0
  <2>1. \A u \in G : u \in T => u \in Routed(c) /\ l + 1 \in Exchanged
    BY LayerNumbers DEF ScanAt
  <2> QED
    BY <2>1, NumberIs, Sizes
<1>10. (aw[w] # 0 <=> w \in T) /\ (aw[w] # 0 => aw[w] = Number(c, w, l + 1))
  BY <1>1, <1>8, <1>9
<1>11. \A v \in ToSet(t) : w \in T /\ v \in T => w < v
  <2> SUFFICES ASSUME NEW i \in DOMAIN t, w \in T, t[i] \in T PROVE w < t[i]
    BY DEF ToSet
  <2>1. 1 < i + 1
    BY <1>6
  <2> QED
    BY <1>2, <1>3, <1>6, <2>1, SMTT(30) DEF InOrder
<1>12. ToSet(t) \cup ToSet(pend) = Q \ {w} /\ ToSet(t) = Q \ {w} /\ w \in Q
  BY <1>1, <1>4
<1>13. w \in T => \A u \in T : u \in G /\ w < u /\ Started2(val, l, u) => aw[u] # 0
  <2> SUFFICES ASSUME w \in T, NEW u \in T, u \in G, w < u, Started2(val, l, u) PROVE aw[u] # 0
    OBVIOUS
  <2>1. CASE u \in Q
    BY <1>8, <1>9, <2>1
  <2>2. CASE u \notin Q
    <3>1. u < w /\ u \in Nat
      <4>1. G \subseteq Snapshots(c)
        BY ScannedIs DEF ScanAt
      <4> QED
        BY <1>8, <1>12, <2>2, <4>1, Sizes
    <3> QED
      BY <1>1, <3>1
  <2> QED
    BY <2>1, <2>2
<1> HIDE DEF Q
<1>14. WaitOK(c, f, l, t, pend, val2, aw2)
  <2>1. \A u \in G :
           /\ val2[u].layer \in {l, l + 1}
           /\ u \notin Q \ {w} => Started2(val2, l, u)
           /\ IF u \in Q \ {w} /\ Started2(val2, l, u) /\ u \in T
              THEN aw2[u] = Number(c, u, l + 1) ELSE aw2[u] = 0
           /\ u \notin Q \ {w} /\ u \in T => \A v \in T : v \in Q \ {w} => u < v
    <3> SUFFICES ASSUME NEW u \in G
                 PROVE  /\ val2[u].layer \in {l, l + 1}
                        /\ u \notin Q \ {w} => Started2(val2, l, u)
                        /\ IF u \in Q \ {w} /\ Started2(val2, l, u) /\ u \in T
                           THEN aw2[u] = Number(c, u, l + 1) ELSE aw2[u] = 0
                        /\ u \notin Q \ {w} /\ u \in T => \A v \in T : v \in Q \ {w} => u < v
      OBVIOUS
    <3>1. CASE u = w
      BY <1>1, <1>5, <1>8, <1>11, <1>12, <3>1
    <3>2. CASE u # w
      BY <1>5, <1>8, <3>2
    <3> QED
      BY <3>1, <3>2
  <2> QED
    BY <1>12, <2>1 DEF WaitOK
<1>15. CountOK(c, f, l, val2, cs)
  BY <1>5 DEF ScanAt, CountOK
<1> QED
  BY <1>1, <1>7, <1>10, <1>13, <1>14, <1>15 DEF t
\* NextPass: the suspended coroutines are the next pass.
LEMMA PassScan ==
    ASSUME Widening, NEW c \in Configs, NEW f, NEW l, NEW cur, NEW pend, NEW val, NEW aw, NEW cs,
           ScanAt(c, f, l, cur, pend, val, aw, cs), cur = <<>>
    PROVE  /\ QueueOK(c, f, l, pend, <<>>, val)
           /\ WaitOK(c, f, l, pend, <<>>, val, aw)
           /\ CountOK(c, f, l, val, cs)
<1> DEFINE T == Now(c, l)
<1>1. /\ pend \in Seq(Scanned(c, f)) /\ InOrder(T, pend)
      /\ \A i, j \in DOMAIN pend : pend[i] = pend[j] => i = j
      /\ \A j \in DOMAIN pend : Started2(val, l, pend[j])
  BY DEF ScanAt, QueueOK
<1>2. DOMAIN <<>> = {} /\ ToSet(<<>>) = {} /\ <<>> \in Seq(Scanned(c, f)) /\ InOrder(T, <<>>)
  BY DEF ToSet, InOrder
<1>3. QueueOK(c, f, l, pend, <<>>, val)
  BY ONLY <1>1, <1>2 DEF QueueOK
<1>4. ToSet(pend) \cup ToSet(<<>>) = ToSet(cur) \cup ToSet(pend)
  BY <1>2
<1>5. WaitOK(c, f, l, cur, pend, val, aw)
  BY DEF ScanAt
<1>6. WaitOK(c, f, l, pend, <<>>, val, aw)
  BY <1>4, <1>5, Zenon DEF WaitOK
<1> QED
  BY <1>3, <1>6 DEF ScanAt

\* EndLayer: every snapshot of the group has been computed, every call entered.
LEMMA EndScan ==
    ASSUME Widening, NEW c \in Configs, NEW f, NEW l, NEW cur, NEW pend, NEW val, NEW aw, NEW cs,
           ScanAt(c, f, l, cur, pend, val, aw, cs), cur = <<>>, pend = <<>>
    PROVE  /\ \A w \in Scanned(c, f) : val[w].layer = l + 1 /\ aw[w] = 0
           /\ Len(cs) = Prior(c, f, l + 1)
<1> DEFINE G == Scanned(c, f)
           T == Now(c, l)
           p == Prior(c, f, l)
           q == Prior(c, f, l + 1)
<1>1. ToSet(cur) \cup ToSet(pend) = {}
  BY DEF ToSet
<1>2. ASSUME NEW w \in G PROVE Started2(val, l, w) /\ val[w].layer = l + 1 /\ aw[w] = 0
  <2>1. /\ val[w].layer \in {l, l + 1} /\ Started2(val, l, w) /\ aw[w] = 0
    BY <1>1 DEF ScanAt, WaitOK
  <2>2. l \in Nat
    BY ConfigIs DEF ScanAt
  <2> QED
    BY <2>1, <2>2 DEF Started2
<1>3. /\ p \in Nat /\ q \in Nat /\ p <= Len(cs) /\ Len(cs) <= q /\ Len(cs) \in Nat
  BY LayerNumbers DEF ScanAt, CountOK, TypesOK
<1>4. \A w \in G : w \in T => Number(c, w, l + 1) <= Len(cs)
  BY <1>2 DEF ScanAt, CountOK
<1>5. q <= Len(cs)
  <2>1. CASE \A w \in G : w \notin T
    BY <1>3, <2>1, LayerNumbers DEF ScanAt
  <2>2. CASE \E w \in G : w \in T
    <3>1. PICK w \in G : w \in T
      BY <2>2
    <3>2. CASE Sequential(c)
      <4>1. q = p + 1 /\ Number(c, w, l + 1) = p + 1
        BY <3>1, <3>2, LayerNumbers DEF ScanAt
      <4> QED
        BY <1>4, <3>1, <4>1
    <3>3. CASE ~ Sequential(c)
      <4> DEFINE K == c.window
      <4>1. w \in Routed(c) /\ G = Snapshots(c) /\ T = Routed(c)
        <5>1. w \in Routed(c)
          BY <3>1, LayerNumbers DEF ScanAt
        <5> QED
          BY <3>1, <3>3, <5>1, ScannedIs DEF ScanAt, Now
      <4>2. /\ K \in Nat /\ Start(c) \in Nat /\ Routed(c) = Start(c) .. K /\ Start(c) + Width(c) = K + 1
            /\ Width(c) \in Nat
        BY StartIs, Sizes
      <4>3. K \in Routed(c)
        BY <4>1, <4>2
      <4>4. K \in G /\ K \in T
        BY <4>1, <4>3, Sizes
      <4>5. q = p + Width(c) /\ Number(c, K, l + 1) = p + (K - Start(c)) + 1
        BY <3>3, <4>4, LayerNumbers DEF ScanAt
      <4>6. Number(c, K, l + 1) <= Len(cs)
        BY <1>4, <4>4
      <4>7. K - Start(c) + 1 = Width(c)
        BY <4>2
      <4> DEFINE d == K - Start(c)
                 m == Width(c)
                 n == Number(c, K, l + 1)
      <4>8. d + 1 = m /\ d \in Int /\ n = p + d + 1 /\ q = p + m /\ n <= Len(cs)
        BY <4>2, <4>5, <4>6, <4>7
      <4> HIDE DEF d, m, n, p, q
      <4> QED
        BY <1>3, <4>8
    <3> QED
      BY <3>2, <3>3
  <2> QED
    BY <2>1, <2>2
<1> HIDE DEF p, q
<1>6. Len(cs) = q
  BY <1>3, <1>5
<1> QED
  BY <1>2, <1>6 DEF q

-----------------------------------------------------------------------------
(* Calls.                                                                  *)

\* Calls of one number are the same.
LEMMA SameCall ==
    ASSUME Widening, NEW c \in Configs, NEW x, NEW y, NEW n, CallAt(c, x, n), CallAt(c, y, n)
    PROVE  x = y
<1>1. PICK w \in Routed(c), l \in Exchanged :
         \/ x = Pull(w, l) /\ n = Number(c, w, l)
         \/ x = Grad(w, l) /\ n = 2 * Total(c) + 1 - Number(c, w, l)
  BY DEF CallAt
<1>2. PICK v \in Routed(c), k \in Exchanged :
         \/ y = Pull(v, k) /\ n = Number(c, v, k)
         \/ y = Grad(v, k) /\ n = 2 * Total(c) + 1 - Number(c, v, k)
  BY DEF CallAt
<1> DEFINE a == Number(c, w, l)
           b == Number(c, v, k)
           t == Total(c)
<1>3. t \in Nat /\ a \in 1 .. t /\ b \in 1 .. t
  BY NumberIs, Sizes
<1>4. a = b => w = v /\ l = k
  BY NumberOrder
<1>5. /\ \/ x = Pull(w, l) /\ n = a
         \/ x = Grad(w, l) /\ n = 2 * t + 1 - a
      /\ \/ y = Pull(v, k) /\ n = b
         \/ y = Grad(v, k) /\ n = 2 * t + 1 - b
  BY <1>1, <1>2
<1> HIDE DEF a, b, t
<1>6. a = b
  BY <1>3, <1>5
<1>7. (x = Pull(w, l) <=> y = Pull(v, k)) /\ (x = Pull(w, l) \/ x = Grad(w, l))
  <2>1. x = Pull(w, l) \/ x = Grad(w, l)
    BY <1>5
  <2>2. Pull(w, l) # Grad(w, l)
    BY DEF Pull, Grad
  <2>3. x = Pull(w, l) => y = Pull(v, k)
    BY <1>3, <1>5, <1>6, <2>2
  <2>4. y = Pull(v, k) => x = Pull(w, l)
    <3>1. Pull(v, k) # Grad(v, k)
      BY DEF Pull, Grad
    <3> QED
      BY <1>3, <1>5, <1>6, <3>1
  <2> QED
    BY <2>1, <2>3, <2>4
<1> QED
  BY <1>4, <1>5, <1>6, <1>7

\* Calls of every rank have the number of their place.
AllCalls == \A p \in Rank : calls[p] \in Seq(Calls) /\ \A n \in DOMAIN calls[p] : CallAt(config, calls[p][n], n)

\* What a complete exchange delivers.
LEMMA Delivered ==
    ASSUME Widening, config \in Configs, AllCalls, NEW r \in Rank, NEW n \in Nat, n # 0, Entered(n),
           NEW x, CallAt(config, x, n)
    PROVE  Received(r, n) = FromPeers(r, x)
<1>1. ASSUME NEW p \in Rank PROVE calls[p][n] = x
  <2>1. calls[p] \in Seq(Calls) /\ Len(calls[p]) >= n
    BY DEF AllCalls, Entered
  <2>2. n \in DOMAIN calls[p]
    BY <2>1
  <2> QED
    BY <2>2, SameCall DEF AllCalls
<1>2. \A p \in Rank \ {r} : <<p, calls[p][n]>> = <<p, x>>
  BY <1>1
<1> QED
  BY <1>2 DEF Received, FromPeers
-----------------------------------------------------------------------------
(* The tape of one rank.                                                   *)

\* Calls entered while a layer runs are those of the layer.
LEMMA NumberIn ==
    ASSUME Widening, NEW c \in Configs, NEW f, GroupAt(c, f), NEW l \in 0 .. Layers - 1,
           NEW w \in Scanned(c, f), w \in Now(c, l), NEW u \in Routed(c), NEW k \in Exchanged,
           Prior(c, f, l) < Number(c, u, k), Number(c, u, k) <= Prior(c, f, l + 1)
    PROVE  k = l + 1 /\ u \in Now(c, l) /\ u \in Scanned(c, f)
<1> DEFINE p == Prior(c, f, l)
           q == Prior(c, f, l + 1)
           a == Number(c, u, k)
<1>1. p \in Nat /\ q \in Nat /\ w \in Routed(c) /\ l + 1 \in Exchanged /\ a \in Nat
  BY LayerNumbers, NumberIs, Sizes
<1>2. CASE Sequential(c)
  <2>1. q = p + 1 /\ Number(c, w, l + 1) = p + 1
    BY <1>2, LayerNumbers
  <2>2. Number(c, w, l + 1) = a
    <3> HIDE DEF p, q, a
    <3>1. p < a /\ a <= q
      BY DEF p, q, a
    <3> QED
      BY <1>1, <2>1, <3>1
  <2>3. w = u /\ l + 1 = k
    BY <1>1, <2>2, NumberOrder
  <2> QED
    BY <2>3
<1>3. CASE ~ Sequential(c)
  <2> DEFINE S == Start(c)
             v == S + (a - p - 1)
  <2>1. Scanned(c, f) = Snapshots(c) /\ Now(c, l) = Routed(c)
    BY <1>3, ScannedIs DEF Now
  <2>2. S \in Nat /\ Width(c) \in Nat /\ S + Width(c) = c.window + 1 /\ c.window \in Nat
        /\ Routed(c) = S .. c.window
    BY StartIs, Sizes
  <2>3. q = p + Width(c)
    BY <1>3, LayerNumbers
  <2>4. a - p - 1 \in Nat /\ a - p - 1 < Width(c)
    <3> DEFINE m == Width(c)
    <3>1. p < a /\ a <= q /\ q = p + m /\ m \in Nat
      BY <2>2, <2>3
    <3> HIDE DEF p, q, a, m
    <3>2. a - p - 1 \in Nat /\ a - p - 1 < m
      BY <1>1, <3>1
    <3> QED
      BY <3>2 DEF m
  <2>5. v \in Routed(c)
    <3> DEFINE d == a - p - 1
    <3>1. d \in Nat /\ d < Width(c)
      BY <2>4
    <3> HIDE DEF d
    <3>2. S + d \in S .. c.window
      BY <2>2, <3>1
    <3> QED
      BY <2>2, <3>2 DEF d
  <2>6. v \in Scanned(c, f) /\ v \in Now(c, l)
    BY <2>1, <2>5, Sizes
  <2>7. Number(c, v, l + 1) = p + (v - S) + 1
    BY <1>3, <2>6, LayerNumbers
  <2>8. Number(c, v, l + 1) = a
    <3> DEFINE n == Number(c, v, l + 1)
    <3>1. n = p + (v - S) + 1
      BY <2>7
    <3> HIDE DEF p, a, n, S
    <3>2. n = a
      BY <1>1, <2>2, <3>1
    <3> QED
      BY <3>2 DEF n
  <2>9. v = u /\ l + 1 = k
    BY <1>1, <2>5, <2>8, NumberOrder
  <2> QED
    BY <2>1, <2>6, <2>9
<1> QED
  BY <1>2, <1>3

\* What the operations of a tape are.
LEMMA OpIs ==
    ASSUME NEW c \in Configs, NEW p, NEW cs, NEW tp, TapeTyped(c, p, cs, tp), Widening
    PROVE  /\ Len(tp) \in Nat /\ DOMAIN tp = 1 .. Len(tp)
           /\ \A i \in DOMAIN tp :
                /\ i \in Nat /\ tp[i] \in Ops
                /\ tp[i] = [op |-> tp[i].op, window |-> tp[i].window, layer |-> tp[i].layer]
                /\ tp[i].op \in {"send", "recv"} /\ tp[i].layer \in Nat /\ Key(tp[i]) \in Nat
                /\ tp[i].window \in Routed(c) /\ tp[i].layer \in Exchanged
                /\ [tp[i] EXCEPT !.op = "recv"]
                      = [op |-> "recv", window |-> tp[i].window, layer |-> tp[i].layer]
<1>1. tp \in Seq(Ops)
  BY DEF TapeTyped
<1>2. Len(tp) \in Nat /\ DOMAIN tp = 1 .. Len(tp)
  BY <1>1
<1>3. ASSUME NEW i \in DOMAIN tp
      PROVE  /\ i \in Nat /\ tp[i] \in Ops
             /\ tp[i] = [op |-> tp[i].op, window |-> tp[i].window, layer |-> tp[i].layer]
             /\ tp[i].op \in {"send", "recv"} /\ tp[i].layer \in Nat /\ Key(tp[i]) \in Nat
             /\ tp[i].window \in Routed(c) /\ tp[i].layer \in Exchanged
             /\ [tp[i] EXCEPT !.op = "recv"]
                   = [op |-> "recv", window |-> tp[i].window, layer |-> tp[i].layer]
  <2>1. i \in Nat /\ tp[i] \in Ops
    BY <1>1, <1>2
  <2>2. /\ tp[i] = [op |-> tp[i].op, window |-> tp[i].window, layer |-> tp[i].layer]
        /\ tp[i].op \in {"send", "recv"} /\ tp[i].layer \in Nat
        /\ [tp[i] EXCEPT !.op = "recv"] = [op |-> "recv", window |-> tp[i].window, layer |-> tp[i].layer]
    BY <2>1 DEF Ops
  <2>3. Key(tp[i]) \in Nat
    BY <2>2 DEF Key
  <2>4. tp[i].window \in Routed(c) /\ tp[i].layer \in Exchanged
    BY DEF TapeTyped
  <2> QED
    BY <2>1, <2>2, <2>3, <2>4
<1> QED
  BY <1>2, <1>3

\* A completed pull is recorded behind its send.
LEMMA ReceivedAfter ==
    ASSUME NEW c \in Configs, NEW p, NEW lay, NEW aw, NEW cs, NEW tp, Widening,
           TapeOK(c, p, lay, aw, cs, tp),
           NEW i \in DOMAIN tp, tp[i].op = "send",
           Got(c, p, lay, aw, cs, tp[i].window, tp[i].layer)
    PROVE  \E k \in i + 1 .. Len(tp) : tp[k] = [tp[i] EXCEPT !.op = "recv"]
<1>1. /\ Len(tp) \in Nat /\ DOMAIN tp = 1 .. Len(tp) /\ i \in Nat /\ tp[i].layer \in Nat
      /\ tp[i].window \in Routed(c) /\ tp[i].layer \in Exchanged
      /\ [tp[i] EXCEPT !.op = "recv"] = [op |-> "recv", window |-> tp[i].window, layer |-> tp[i].layer]
  BY OpIs DEF TapeOK
<1>2. PICK k \in DOMAIN tp : tp[k] = [op |-> "recv", window |-> tp[i].window, layer |-> tp[i].layer]
  BY <1>1 DEF TapeOK, ReceivesRecorded
<1>3. k # i
  BY <1>2
<1>4. ~ (k < i)
  <2> SUFFICES ASSUME k < i PROVE FALSE
    OBVIOUS
  <2>1. Key(tp[k]) < Key(tp[i])
    BY <1>2 DEF TapeOK, SnapshotInOrder
  <2>2. Key(tp[k]) = 2 * tp[i].layer + 1 /\ Key(tp[i]) = 2 * tp[i].layer + 0
    BY <1>2 DEF Key
  <2> QED
    BY <1>1, <2>1, <2>2
<1> QED
  BY <1>1, <1>2, <1>3, <1>4

\* Compute records the send of the pull it enters.
LEMMA ComputeTape ==
    ASSUME Widening, NEW c \in Configs, NEW f, NEW l, NEW cur, NEW pend, NEW val, NEW aw, NEW cs, NEW tp,
           ScanAt(c, f, l, cur, pend, val, aw, cs), cur # <<>>,
           ~ Started2(val, l, Head(cur)), Head(cur) \in Now(c, l),
           TapeOK(c, "layers", l, aw, cs, tp),
           NEW cs2, Len(cs2) = Len(cs) + 1
    PROVE  TapeOK(c, "layers", l, [aw EXCEPT ![Head(cur)] = Len(cs) + 1], cs2,
                  Append(tp, [op |-> "send", window |-> Head(cur), layer |-> l + 1]))
<1> DEFINE w == Head(cur)
           x == [op |-> "send", window |-> w, layer |-> l + 1]
           t == Append(tp, x)
           m == Len(tp)
           aw2 == [aw EXCEPT ![w] = Len(cs) + 1]
           C == Len(cs)
<1>1. /\ w \in Snapshots(c) /\ w \in Nat /\ l \in Nat /\ w \in Routed(c) /\ l + 1 \in Exchanged
      /\ C \in Nat
  BY HeadOf, LayerNumbers DEF ScanAt, TypesOK
<1>2. Number(c, w, l + 1) = C + 1
  BY HeadNumber
<1>3. x \in Ops /\ tp \in Seq(Ops)
  BY <1>1 DEF Ops, TapeOK, TapeTyped
<1>4. /\ t \in Seq(Ops) /\ DOMAIN t = 1 .. m + 1 /\ DOMAIN tp = 1 .. m /\ m \in Nat
      /\ (\A i \in DOMAIN tp : t[i] = tp[i]) /\ t[m + 1] = x
  BY <1>3, Appended
<1> HIDE DEF t, m
<1>5. \A i \in DOMAIN t : i \in Nat /\ (i = m + 1 \/ (i \in DOMAIN tp /\ i < m + 1))
  BY <1>4
<1>6. /\ aw2[w] = C + 1 /\ \A u \in Snapshots(c) : u # w => aw2[u] = aw[u]
  <2>1. DOMAIN aw = Snapshots(c)
    BY DEF ScanAt, TypesOK
  <2> QED
    BY <1>1, <2>1
<1> HIDE DEF aw2
<1>7. \A i \in DOMAIN tp :
        /\ tp[i].window \in Routed(c) /\ tp[i].layer \in Exchanged /\ tp[i].layer \in Nat
        /\ Number(c, tp[i].window, tp[i].layer) <= C
        /\ Number(c, tp[i].window, tp[i].layer) \in Nat
  <2>1. TapeTyped(c, "layers", cs, tp)
    BY DEF TapeOK
  <2>2. \A i \in DOMAIN tp :
        /\ tp[i].window \in Routed(c) /\ tp[i].layer \in Exchanged /\ tp[i].layer \in Nat
    BY <2>1, OpIs
  <2>3. \A i \in DOMAIN tp : Number(c, tp[i].window, tp[i].layer) <= C
    BY <2>1 DEF TapeTyped
  <2>4. \A i \in DOMAIN tp : Number(c, tp[i].window, tp[i].layer) \in Nat
    BY <2>2, NumberIs, Sizes
  <2> QED
    BY <2>2, <2>3, <2>4
<1>8. \A i \in DOMAIN tp : tp[i].window = w => tp[i].layer < l + 1
  <2> SUFFICES ASSUME NEW i \in DOMAIN tp, tp[i].window = w PROVE tp[i].layer < l + 1
    OBVIOUS
  <2>1. Number(c, w, tp[i].layer) < Number(c, w, l + 1)
    BY <1>1, <1>2, <1>7
  <2> QED
    BY <1>1, <1>7, <2>1, NumberOrder
<1>9. TapeTyped(c, "layers", cs2, t)
  <2>1. ASSUME NEW i \in DOMAIN t
        PROVE  /\ t[i].window \in Routed(c) /\ t[i].layer \in Exchanged
               /\ Number(c, t[i].window, t[i].layer) <= Len(cs2)
    <3>1. CASE i = m + 1
      BY <1>1, <1>2, <1>4, <3>1
    <3>2. CASE i \in DOMAIN tp
      BY <1>1, <1>4, <1>7, <3>2
    <3> QED
      BY <1>5, <3>1, <3>2
  <2> QED
    BY <1>4, <2>1 DEF TapeTyped
<1>10. ReceivesInOrder(c, t)
  <2> SUFFICES ASSUME NEW i \in DOMAIN t, NEW j \in DOMAIN t, i < j, t[i].op = "recv", t[j].op = "recv"
               PROVE  Number(c, t[i].window, t[i].layer) < Number(c, t[j].window, t[j].layer)
    BY DEF ReceivesInOrder
  <2>1. i \in DOMAIN tp /\ j \in DOMAIN tp
    BY <1>4, <1>5
  <2> QED
    BY <1>4, <2>1 DEF TapeOK, ReceivesInOrder
<1>11. ReceivesRecorded(c, "layers", l, aw2, cs2, t)
  <2> SUFFICES ASSUME NEW u \in Routed(c), NEW k \in Exchanged
               PROVE  Got(c, "layers", l, aw2, cs2, u, k)
                        <=> \E i \in DOMAIN t : t[i] = [op |-> "recv", window |-> u, layer |-> k]
    BY DEF ReceivesRecorded
  <2> DEFINE y == [op |-> "recv", window |-> u, layer |-> k]
  <2>1. (\E i \in DOMAIN t : t[i] = y) <=> (\E i \in DOMAIN tp : tp[i] = y)
    BY <1>4, <1>5
  <2>2. Got(c, "layers", l, aw, cs, u, k) <=> \E i \in DOMAIN tp : tp[i] = y
    BY DEF TapeOK, ReceivesRecorded
  <2>3. Got(c, "layers", l, aw2, cs2, u, k) <=> Got(c, "layers", l, aw, cs, u, k)
    <3>1. Number(c, u, k) \in Nat /\ u \in Snapshots(c)
      BY NumberIs, Sizes
    <3>2. CASE u = w /\ k = l + 1
      BY <1>1, <1>2, <1>6, <3>2 DEF Got
    <3>3. CASE ~ (u = w /\ k = l + 1)
      <4>1. Number(c, u, k) # C + 1
        BY <1>1, <1>2, <3>3, NumberOrder
      <4>2. Number(c, u, k) <= Len(cs2) <=> Number(c, u, k) <= Len(cs)
        BY <1>1, <3>1, <4>1
      <4>3. k = l + 1 => aw2[u] = aw[u]
        BY <1>6, <3>1, <3>3
      <4> QED
        BY <4>2, <4>3 DEF Got
    <3> QED
      BY <3>2, <3>3
  <2> QED
    BY <2>1, <2>2, <2>3
<1>12. SnapshotInOrder(t)
  <2> SUFFICES ASSUME NEW i \in DOMAIN t, NEW j \in DOMAIN t, i < j, t[i].window = t[j].window
               PROVE  Key(t[i]) < Key(t[j])
    BY DEF SnapshotInOrder
  <2>1. i \in DOMAIN tp /\ t[i] = tp[i]
    BY <1>4, <1>5
  <2>2. CASE j = m + 1
    <3>1. tp[i].layer < l + 1 /\ tp[i].layer \in Nat
      BY <1>4, <1>7, <1>8, <2>1, <2>2
    <3>2. Key(tp[i]) = 2 * tp[i].layer + 0 \/ Key(tp[i]) = 2 * tp[i].layer + 1
      BY DEF Key
    <3>3. Key(t[j]) = 2 * (l + 1) + 0
      BY <1>4, <2>2 DEF Key
    <3> DEFINE k == tp[i].layer
    <3> QED
      BY <1>1, <2>1, <3>1, <3>2, <3>3
  <2>3. CASE j \in DOMAIN tp
    BY <1>4, <2>1, <2>3 DEF TapeOK, SnapshotInOrder
  <2> QED
    BY <1>5, <2>2, <2>3
<1>13. SendsReceived(t)
  <2> SUFFICES ASSUME NEW i \in DOMAIN t, NEW j \in DOMAIN t, i < j, t[i].window = t[j].window, t[i].op = "send"
               PROVE  \E k \in i + 1 .. j : t[k] = [t[i] EXCEPT !.op = "recv"]
    BY DEF SendsReceived
  <2>1. i \in DOMAIN tp /\ t[i] = tp[i]
    BY <1>4, <1>5
  <2>2. CASE j = m + 1
    <3>1. Got(c, "layers", l, aw, cs, tp[i].window, tp[i].layer)
      BY <1>1, <1>4, <1>7, <1>8, <2>1, <2>2 DEF Got
    <3>2. PICK k \in i + 1 .. m : tp[k] = [tp[i] EXCEPT !.op = "recv"]
      BY <2>1, <3>1, ReceivedAfter DEF m
    <3>3. k \in DOMAIN tp /\ k \in i + 1 .. j
      BY <1>4, <1>5, <2>2, <3>2
    <3> QED
      BY <1>4, <2>1, <3>2, <3>3
  <2>3. CASE j \in DOMAIN tp
    <3>1. t[j] = tp[j]
      BY <1>4, <2>3
    <3>2. tp[i].window = tp[j].window /\ tp[i].op = "send"
      BY <2>1, <3>1
    <3>3. SendsReceived(tp)
      BY DEF TapeOK
    <3>4. PICK k \in i + 1 .. j : tp[k] = [tp[i] EXCEPT !.op = "recv"]
      BY <2>1, <2>3, <3>2, <3>3 DEF SendsReceived
    <3>5. k \in DOMAIN tp
      BY <1>4, <2>1, <2>3, <3>4
    <3>6. t[k] = tp[k]
      BY <1>4, <3>5
    <3> QED
      BY <2>1, <3>4, <3>6
  <2> QED
    BY <1>5, <2>2, <2>3
<1>14. AwaitedSent(c, "layers", l, aw2, t)
  <2> SUFFICES ASSUME NEW u \in Routed(c), aw2[u] # 0
               PROVE  \E i \in DOMAIN t : t[i] = [op |-> "send", window |-> u, layer |-> l + 1]
    BY DEF AwaitedSent
  <2>1. CASE u = w
    <3>1. m + 1 \in DOMAIN t
      BY <1>4
    <3> QED
      BY <1>4, <2>1, <3>1
  <2>2. CASE u # w
    <3>1. aw[u] # 0
      BY <1>6, <2>2, Sizes
    <3>2. PICK i \in DOMAIN tp : tp[i] = [op |-> "send", window |-> u, layer |-> l + 1]
      BY <3>1 DEF TapeOK, AwaitedSent
    <3> QED
      BY <1>4, <3>2
  <2> QED
    BY <2>1, <2>2
<1> QED
  BY <1>9, <1>10, <1>11, <1>12, <1>13, <1>14 DEF TapeOK, aw2, t
\* Resume records the receive of the pull that its snapshot awaited.
LEMMA ResumeTape ==
    ASSUME Widening, NEW c \in Configs, NEW f, NEW l, NEW cur, NEW pend, NEW val, NEW aw, NEW cs, NEW tp,
           ScanAt(c, f, l, cur, pend, val, aw, cs), cur # <<>>,
           Started2(val, l, Head(cur)), aw[Head(cur)] # 0,
           TapeOK(c, "layers", l, aw, cs, tp)
    PROVE  TapeOK(c, "layers", l, [aw EXCEPT ![Head(cur)] = 0], cs,
                  Append(tp, [op |-> "recv", window |-> Head(cur), layer |-> l + 1]))
<1> DEFINE w == Head(cur)
           G == Scanned(c, f)
           T == Now(c, l)
           x == [op |-> "recv", window |-> w, layer |-> l + 1]
           t == Append(tp, x)
           m == Len(tp)
           aw2 == [aw EXCEPT ![w] = 0]
           C == Len(cs)
           N(u, k) == Number(c, u, k)
           p == Prior(c, f, l)
           q == Prior(c, f, l + 1)
<1>1. /\ w \in Snapshots(c) /\ w \in Nat /\ l \in Nat /\ w \in G /\ C \in Nat
  BY HeadOf DEF ScanAt, TypesOK
<1>2. /\ aw2[w] = 0 /\ \A u \in Snapshots(c) : u # w => aw2[u] = aw[u]
  <2>1. DOMAIN aw = Snapshots(c)
    BY DEF ScanAt, TypesOK
  <2> QED
    BY <1>1, <2>1
<1>3. G \subseteq Snapshots(c)
  BY ScannedIs DEF ScanAt
<1> HIDE DEF aw2
<1>4. /\ w \in T /\ aw[w] = N(w, l + 1)
      /\ \A u \in T : u \in G /\ w < u /\ Started2(val, l, u) => aw[u] # 0
  <2>1. \A u \in G : u # w => aw2[u] = aw[u]
    BY <1>2, <1>3
  <2> QED
    BY <1>2, <2>1, ResumeScan
<1>5. w \in Routed(c) /\ l + 1 \in Exchanged /\ p \in Nat /\ q \in Nat
  BY <1>1, <1>4, LayerNumbers DEF ScanAt
<1>6. N(w, l + 1) \in Nat /\ p < N(w, l + 1) /\ N(w, l + 1) <= C /\ C <= q
  <2>1. N(w, l + 1) <= C /\ C <= q
    BY <1>1, <1>4 DEF ScanAt, CountOK
  <2>2. w - Start(c) \in Nat
    BY <1>5, Sizes
  <2>3. N(w, l + 1) \in Nat
    BY <1>5, NumberIs, Sizes
  <2>4. N(w, l + 1) = p + 1 \/ N(w, l + 1) = p + (w - Start(c)) + 1
    BY <1>1, <1>4, LayerNumbers DEF ScanAt
  <2> DEFINE d == w - Start(c)
             n == N(w, l + 1)
  <2>5. d \in Nat /\ n \in Nat /\ (n = p + 1 \/ n = p + d + 1)
    BY <2>2, <2>3, <2>4
  <2> HIDE DEF d, n, p
  <2>6. p < n
    BY <1>5, <2>5
  <2> QED
    BY <2>1, <2>3, <2>6 DEF n
<1>7. x \in Ops /\ tp \in Seq(Ops)
  BY <1>1 DEF Ops, TapeOK, TapeTyped
<1>8. /\ t \in Seq(Ops) /\ DOMAIN t = 1 .. m + 1 /\ DOMAIN tp = 1 .. m /\ m \in Nat
      /\ (\A i \in DOMAIN tp : t[i] = tp[i]) /\ t[m + 1] = x
  BY <1>7, Appended
<1> HIDE DEF t, m
<1>9. \A i \in DOMAIN t : i \in Nat /\ (i = m + 1 \/ (i \in DOMAIN tp /\ i < m + 1))
  BY <1>8
<1>10. \A i \in DOMAIN tp :
        /\ tp[i].window \in Routed(c) /\ tp[i].layer \in Exchanged /\ tp[i].layer \in Nat
        /\ N(tp[i].window, tp[i].layer) <= C
        /\ N(tp[i].window, tp[i].layer) \in Nat
        /\ tp[i].op \in {"send", "recv"}
        /\ tp[i] = [op |-> tp[i].op, window |-> tp[i].window, layer |-> tp[i].layer]
  <2>1. TapeTyped(c, "layers", cs, tp)
    BY DEF TapeOK
  <2>2. \A i \in DOMAIN tp :
        /\ tp[i].window \in Routed(c) /\ tp[i].layer \in Exchanged /\ tp[i].layer \in Nat
        /\ tp[i].op \in {"send", "recv"}
    BY <2>1, OpIs
  <2>3. \A i \in DOMAIN tp : N(tp[i].window, tp[i].layer) <= C
    BY <2>1 DEF TapeTyped
  <2>4. \A i \in DOMAIN tp : N(tp[i].window, tp[i].layer) \in Nat
    BY <2>2, NumberIs, Sizes
  <2>5. \A i \in DOMAIN tp : tp[i] = [op |-> tp[i].op, window |-> tp[i].window, layer |-> tp[i].layer]
    <3> SUFFICES ASSUME NEW i \in DOMAIN tp
                 PROVE  tp[i] = [op |-> tp[i].op, window |-> tp[i].window, layer |-> tp[i].layer]
      OBVIOUS
    <3>1. tp[i] \in Ops
      BY <1>7
    <3> QED
      BY <3>1 DEF Ops
  <2> QED
    BY <2>2, <2>3, <2>4, <2>5
\* What has been received is before it.
<1>11. \A u \in Routed(c), k \in Exchanged :
          Got(c, "layers", l, aw, cs, u, k) => N(u, k) < N(w, l + 1)
  <2> SUFFICES ASSUME NEW u \in Routed(c), NEW k \in Exchanged,
                      Got(c, "layers", l, aw, cs, u, k), ~ (N(u, k) < N(w, l + 1))
               PROVE  FALSE
    OBVIOUS
  <2>1. N(u, k) \in Nat /\ N(u, k) <= C /\ ~ (k = l + 1 /\ aw[u] # 0)
    BY NumberIs, Sizes DEF Got
  <2>2. p < N(u, k) /\ N(u, k) <= q
    <3> DEFINE n == N(u, k)
               a == N(w, l + 1)
    <3>1. n \in Nat /\ n <= C /\ ~ (n < a) /\ a \in Nat /\ p < a /\ C <= q
      BY <1>6, <2>1
    <3> HIDE DEF n, a, p, q
    <3>2. p < n /\ n <= q
      BY <1>1, <1>5, <3>1
    <3> QED
      BY <3>2 DEF n
  <2>3. k = l + 1 /\ u \in T /\ u \in G
    BY <1>1, <1>4, <2>2, NumberIn DEF ScanAt
  <2>4. aw[u] = 0 /\ aw[w] # 0
    BY <2>1, <2>3
  <2>5. ~ (u < w)
    BY <1>5, <2>3, NumberOrder
  <2>6. w < u
    <3>1. u \in Nat
      BY Sizes
    <3> QED
      BY <1>1, <2>4, <2>5, <3>1
  <2>7. Started2(val, l, u)
    BY <2>1, <2>3 DEF ScanAt, CountOK
  <2> QED
    BY <1>4, <2>3, <2>4, <2>6, <2>7
\* No operation on the snapshot is of a later layer, and none a receive of this.
<1>12. \A i \in DOMAIN tp : tp[i].window = w => Key(tp[i]) < 2 * (l + 1) + 1 /\ tp[i].layer <= l + 1
  <2> SUFFICES ASSUME NEW i \in DOMAIN tp, tp[i].window = w
               PROVE  Key(tp[i]) < 2 * (l + 1) + 1 /\ tp[i].layer <= l + 1
    OBVIOUS
  <2> DEFINE k == tp[i].layer
  <2>1. k \in Nat /\ k \in Exchanged /\ N(w, k) <= C /\ N(w, k) \in Nat
    BY <1>10
  <2>2. k <= l + 1
    <3> SUFFICES ASSUME l + 1 < k PROVE FALSE
      BY <1>1, <2>1
    <3>1. N(w, l + 1) < N(w, k)
      BY <1>5, <2>1, NumberOrder
    <3>2. p < N(w, k) /\ N(w, k) <= q
      <4> DEFINE n == N(w, k)
                 a == N(w, l + 1)
      <4>1. n \in Nat /\ n <= C /\ a < n /\ a \in Nat /\ p < a /\ C <= q
        BY <1>6, <2>1, <3>1
      <4> HIDE DEF n, a, p, q
      <4>2. p < n /\ n <= q
        BY <1>1, <1>5, <4>1
      <4> QED
        BY <4>2 DEF n
    <3>3. k = l + 1
      BY <1>1, <1>4, <1>5, <2>1, <3>2, NumberIn DEF ScanAt
    <3> QED
      BY <1>1, <3>3
  <2>3. CASE tp[i].op = "recv"
    <3>1. Got(c, "layers", l, aw, cs, w, k)
      <4>1. tp[i] = [op |-> "recv", window |-> w, layer |-> k]
        BY <1>10, <2>3
      <4> QED
        BY <1>5, <2>1, <4>1 DEF TapeOK, ReceivesRecorded
    <3>2. k # l + 1
      BY <1>4, <3>1 DEF Got
    <3>3. Key(tp[i]) = 2 * k + 1
      BY <2>3 DEF Key
    <3> HIDE DEF k
    <3> QED
      BY <1>1, <2>1, <2>2, <3>2, <3>3 DEF k
  <2>4. CASE tp[i].op # "recv"
    <3>1. Key(tp[i]) = 2 * k + 0
      BY <2>4 DEF Key
    <3> HIDE DEF k
    <3> QED
      BY <1>1, <2>1, <2>2, <3>1 DEF k
  <2> QED
    BY <2>3, <2>4
<1>13. TapeTyped(c, "layers", cs, t)
  <2>1. ASSUME NEW i \in DOMAIN t
        PROVE  /\ t[i].window \in Routed(c) /\ t[i].layer \in Exchanged
               /\ Number(c, t[i].window, t[i].layer) <= Len(cs)
    <3>1. CASE i = m + 1
      BY <1>5, <1>6, <1>8, <3>1
    <3>2. CASE i \in DOMAIN tp
      BY <1>8, <1>10, <3>2
    <3> QED
      BY <1>9, <3>1, <3>2
  <2> QED
    BY <1>8, <2>1 DEF TapeTyped
<1>14. ReceivesInOrder(c, t)
  <2> SUFFICES ASSUME NEW i \in DOMAIN t, NEW j \in DOMAIN t, i < j, t[i].op = "recv", t[j].op = "recv"
               PROVE  Number(c, t[i].window, t[i].layer) < Number(c, t[j].window, t[j].layer)
    BY DEF ReceivesInOrder
  <2>1. i \in DOMAIN tp /\ t[i] = tp[i]
    BY <1>8, <1>9
  <2>2. CASE j = m + 1
    <3>1. Got(c, "layers", l, aw, cs, tp[i].window, tp[i].layer)
      <4>1. tp[i] = [op |-> "recv", window |-> tp[i].window, layer |-> tp[i].layer]
        BY <1>10, <2>1
      <4> QED
        BY <1>10, <2>1, <4>1 DEF TapeOK, ReceivesRecorded
    <3> QED
      BY <1>8, <1>10, <1>11, <2>1, <2>2, <3>1
  <2>3. CASE j \in DOMAIN tp
    BY <1>8, <2>1, <2>3 DEF TapeOK, ReceivesInOrder
  <2> QED
    BY <1>9, <2>2, <2>3
<1>15. ReceivesRecorded(c, "layers", l, aw2, cs, t)
  <2> SUFFICES ASSUME NEW u \in Routed(c), NEW k \in Exchanged
               PROVE  Got(c, "layers", l, aw2, cs, u, k)
                        <=> \E i \in DOMAIN t : t[i] = [op |-> "recv", window |-> u, layer |-> k]
    BY DEF ReceivesRecorded
  <2> DEFINE y == [op |-> "recv", window |-> u, layer |-> k]
  <2>1. Got(c, "layers", l, aw, cs, u, k) <=> \E i \in DOMAIN tp : tp[i] = y
    BY DEF TapeOK, ReceivesRecorded
  <2>2. CASE u = w /\ k = l + 1
    <3>1. Got(c, "layers", l, aw2, cs, u, k)
      BY <1>2, <1>6, <2>2 DEF Got
    <3>2. m + 1 \in DOMAIN t /\ t[m + 1] = y
      BY <1>8, <2>2
    <3> QED
      BY <3>1, <3>2
  <2>3. CASE ~ (u = w /\ k = l + 1)
    <3>1. y # x
      BY <2>3
    <3> HIDE DEF x, y
    <3>2. (\E i \in DOMAIN t : t[i] = y) <=> (\E i \in DOMAIN tp : tp[i] = y)
      BY <1>8, <1>9, <3>1
    <3>3. k = l + 1 => aw2[u] = aw[u]
      BY <1>2, <2>3, Sizes
    <3>4. Got(c, "layers", l, aw2, cs, u, k) <=> Got(c, "layers", l, aw, cs, u, k)
      BY <3>3 DEF Got
    <3> QED
      BY <2>1, <3>2, <3>4 DEF y
  <2> QED
    BY <2>2, <2>3
<1>16. SnapshotInOrder(t)
  <2> SUFFICES ASSUME NEW i \in DOMAIN t, NEW j \in DOMAIN t, i < j, t[i].window = t[j].window
               PROVE  Key(t[i]) < Key(t[j])
    BY DEF SnapshotInOrder
  <2>1. i \in DOMAIN tp /\ t[i] = tp[i]
    BY <1>8, <1>9
  <2>2. CASE j = m + 1
    <3>1. Key(t[j]) = 2 * (l + 1) + 1
      BY <1>8, <2>2 DEF Key
    <3> QED
      BY <1>8, <1>12, <2>1, <2>2, <3>1
  <2>3. CASE j \in DOMAIN tp
    BY <1>8, <2>1, <2>3 DEF TapeOK, SnapshotInOrder
  <2> QED
    BY <1>9, <2>2, <2>3
<1>17. SendsReceived(t)
  <2> SUFFICES ASSUME NEW i \in DOMAIN t, NEW j \in DOMAIN t, i < j, t[i].window = t[j].window, t[i].op = "send"
               PROVE  \E k \in i + 1 .. j : t[k] = [t[i] EXCEPT !.op = "recv"]
    BY DEF SendsReceived
  <2>1. i \in DOMAIN tp /\ t[i] = tp[i]
    BY <1>8, <1>9
  <2>2. CASE j = m + 1 /\ tp[i].layer = l + 1
    <3>1. tp[i] = [op |-> "send", window |-> w, layer |-> l + 1]
      BY <1>8, <1>10, <2>1, <2>2
    <3>2. [tp[i] EXCEPT !.op = "recv"] = x
      BY <3>1
    <3>3. m + 1 \in i + 1 .. j
      BY <1>8, <1>9, <2>2
    <3> QED
      BY <1>8, <2>1, <3>2, <3>3
  <2>3. CASE j = m + 1 /\ tp[i].layer # l + 1
    <3>1. Got(c, "layers", l, aw, cs, tp[i].window, tp[i].layer)
      BY <1>10, <2>1, <2>3 DEF Got
    <3>2. PICK k \in i + 1 .. m : tp[k] = [tp[i] EXCEPT !.op = "recv"]
      BY <2>1, <3>1, ReceivedAfter DEF m
    <3>3. k \in DOMAIN tp /\ k \in i + 1 .. j
      BY <1>8, <1>9, <2>3, <3>2
    <3> QED
      BY <1>8, <2>1, <3>2, <3>3
  <2>4. CASE j \in DOMAIN tp
    <3>0. t[j] = tp[j] /\ tp[i].window = tp[j].window /\ tp[i].op = "send" /\ SendsReceived(tp)
      BY <1>8, <2>1, <2>4 DEF TapeOK
    <3>1. PICK k \in i + 1 .. j : tp[k] = [tp[i] EXCEPT !.op = "recv"]
      BY <2>1, <2>4, <3>0, Zenon DEF SendsReceived
    <3>2. k \in DOMAIN tp
      BY <1>8, <2>1, <2>4, <3>1
    <3> QED
      BY <1>8, <2>1, <3>1, <3>2
  <2> QED
    BY <1>9, <2>2, <2>3, <2>4
<1>18. AwaitedSent(c, "layers", l, aw2, t)
  <2> SUFFICES ASSUME NEW u \in Routed(c), aw2[u] # 0
               PROVE  \E i \in DOMAIN t : t[i] = [op |-> "send", window |-> u, layer |-> l + 1]
    BY DEF AwaitedSent
  <2>1. aw[u] # 0
    BY <1>2, Sizes
  <2>2. PICK i \in DOMAIN tp : tp[i] = [op |-> "send", window |-> u, layer |-> l + 1]
    BY <2>1 DEF TapeOK, AwaitedSent
  <2> QED
    BY <1>8, <2>2
<1> QED
  BY <1>13, <1>14, <1>15, <1>16, <1>17, <1>18 DEF TapeOK, aw2, t
\* What the tape without its last operation keeps.
LEMMA FrontTape ==
    ASSUME Widening, NEW c \in Configs, NEW p, NEW cs, NEW cs2, NEW tp,
           p \in {"backward", "done"}, tp # <<>>,
           TapeTyped(c, p, cs, tp), ReceivesInOrder(c, tp), SnapshotInOrder(tp), SendsReceived(tp)
    PROVE  /\ TapeTyped(c, p, cs2, Front(tp)) /\ ReceivesInOrder(c, Front(tp))
           /\ SnapshotInOrder(Front(tp)) /\ SendsReceived(Front(tp))
<1> DEFINE t == Front(tp)
<1>1. tp \in Seq(Ops)
  BY DEF TapeTyped
<1>2. /\ t \in Seq(Ops) /\ DOMAIN t = 1 .. Len(tp) - 1 /\ DOMAIN tp = 1 .. Len(tp) /\ Len(tp) \in Nat
      /\ \A i \in DOMAIN t : i \in DOMAIN tp /\ t[i] = tp[i]
  BY <1>1, FrontOf
<1> HIDE DEF t
<1>3. TapeTyped(c, p, cs2, t)
  <2>1. \A i \in DOMAIN tp : tp[i].window \in Routed(c) /\ tp[i].layer \in Exchanged
    BY DEF TapeTyped
  <2>2. \A i \in DOMAIN t : t[i].window \in Routed(c) /\ t[i].layer \in Exchanged
    BY <1>2, <2>1
  <2> QED
    BY <1>2, <2>2 DEF TapeTyped
<1>4. ReceivesInOrder(c, t)
  BY <1>2 DEF ReceivesInOrder
<1>5. SnapshotInOrder(t)
  BY <1>2 DEF SnapshotInOrder
<1>6. SendsReceived(t)
  <2> SUFFICES ASSUME NEW i \in DOMAIN t, NEW j \in DOMAIN t, i < j, t[i].window = t[j].window, t[i].op = "send"
               PROVE  \E k \in i + 1 .. j : t[k] = [t[i] EXCEPT !.op = "recv"]
    BY DEF SendsReceived
  <2>1. /\ i \in DOMAIN tp /\ j \in DOMAIN tp /\ t[i] = tp[i] /\ t[j] = tp[j]
        /\ tp[i].window = tp[j].window /\ tp[i].op = "send"
    BY <1>2
  <2>2. PICK k \in i + 1 .. j : tp[k] = [tp[i] EXCEPT !.op = "recv"]
    BY <2>1, Zenon DEF SendsReceived
  <2>3. k \in DOMAIN t
    BY <1>2, <2>2
  <2> QED
    BY <1>2, <2>1, <2>2, <2>3
<1> QED
  BY <1>3, <1>4, <1>5, <1>6 DEF t

\* The walk back comes to a receive: its gradients are sent in the call that
\* mirrors the call it was received in.
LEMMA BackwardRecvTape ==
    ASSUME Widening, NEW c \in Configs, NEW lay, NEW aw, NEW cs, NEW tp, NEW cs2,
           TapeOK(c, "backward", lay, aw, cs, tp), BackOK(c, "backward", aw, tp),
           aw \in [Snapshots(c) -> Nat], Len(cs) \in Total(c) .. 2 * Total(c),
           tp # <<>>, Last(tp).op = "recv", Len(cs2) = Len(cs) + 1
    PROVE  LET op == Last(tp)
               aw2 == [aw EXCEPT ![op.window] = Len(cs) + 1]
           IN  /\ op.window \in Routed(c) /\ op.layer \in Exchanged
               /\ Len(cs) + 1 = 2 * Total(c) + 1 - Number(c, op.window, op.layer)
               /\ Len(cs) + 1 <= 2 * Total(c)
               /\ TapeOK(c, "backward", lay, aw2, cs2, Front(tp))
               /\ BackOK(c, "backward", aw2, Front(tp))
<1> DEFINE m == Len(tp)
           w == tp[m].window
           k == tp[m].layer
           N(u, j) == Number(c, u, j)
           C == Len(cs)
           Z == Total(c)
           t == Front(tp)
           aw2 == [aw EXCEPT ![w] = C + 1]
<1>1. /\ TapeTyped(c, "backward", cs, tp) /\ ReceivesInOrder(c, tp) /\ SnapshotInOrder(tp)
      /\ SendsReceived(tp) /\ tp \in Seq(Ops)
      /\ ReceivesRecorded(c, "backward", lay, aw, cs, tp)
  BY DEF TapeOK, TapeTyped
<1>2. /\ m \in Nat /\ m >= 1 /\ m \in DOMAIN tp /\ Last(tp) = tp[m]
      /\ DOMAIN t = 1 .. m - 1 /\ DOMAIN tp = 1 .. m
      /\ \A i \in DOMAIN t : i \in DOMAIN tp /\ t[i] = tp[i]
  BY <1>1, FrontOf
<1>3. /\ w \in Routed(c) /\ k \in Exchanged /\ tp[m].op = "recv"
      /\ tp[m] = [op |-> "recv", window |-> w, layer |-> k]
      /\ \A i \in DOMAIN tp : i \in Nat /\ tp[i].window \in Routed(c) /\ tp[i].layer \in Exchanged
  <2>1. tp[m].op = "recv"
    BY <1>2
  <2>2. \A i \in DOMAIN tp : i \in Nat /\ tp[i].window \in Routed(c) /\ tp[i].layer \in Exchanged
    BY <1>1, OpIs
  <2>3. tp[m] = [op |-> tp[m].op, window |-> tp[m].window, layer |-> tp[m].layer]
    <3>1. tp[m] \in Ops
      BY <1>1, <1>2
    <3> HIDE DEF m
    <3> QED
      BY <3>1 DEF Ops
  <2>4. tp[m] = [op |-> "recv", window |-> w, layer |-> k]
    BY <2>1, <2>3
  <2> QED
    BY <1>2, <2>1, <2>2, <2>4
<1>4. Z \in Nat /\ C \in Nat /\ Z <= C /\ C <= 2 * Z /\ N(w, k) \in 1 .. Z
  <2>1. Z \in Nat /\ C \in Z .. 2 * Z
    BY Sizes
  <2>2. N(w, k) \in 1 .. Z
    BY <1>3, NumberIs
  <2> HIDE DEF Z, C
  <2>3. C \in Nat /\ Z <= C /\ C <= 2 * Z
    BY <2>1
  <2> QED
    BY <2>1, <2>2, <2>3
<1>5. w \in Snapshots(c)
  BY <1>3, Sizes
<1>6. aw2[w] = C + 1 /\ \A u \in Snapshots(c) : u # w => aw2[u] = aw[u]
  BY <1>5
<1> HIDE DEF t, aw2
<1>7. \A u \in Routed(c), j \in Exchanged :
         N(u, j) <= 2 * Z - C <=> \E i \in DOMAIN tp : tp[i] = [op |-> "recv", window |-> u, layer |-> j]
  BY <1>1 DEF ReceivesRecorded, Got
<1>8. N(w, k) = 2 * Z - C
  <2>1. N(w, k) <= 2 * Z - C
    BY <1>2, <1>3, <1>7
  <2>2. ~ (N(w, k) < 2 * Z - C)
    <3> SUFFICES ASSUME N(w, k) < 2 * Z - C PROVE FALSE
      OBVIOUS
    <3>1. N(w, k) < Z
      <4> DEFINE n == N(w, k)
      <4>1. n \in Nat /\ n < 2 * Z - C
        BY <1>4
      <4> HIDE DEF n, Z
      <4>2. n < Z
        BY <1>4, <4>1
      <4> QED
        BY <4>2 DEF n
    <3>2. PICK u \in Routed(c), j \in Exchanged : N(u, j) = N(w, k) + 1
      BY <1>3, <3>1, NumberNext
    <3>3. N(u, j) <= 2 * Z - C
      BY <1>4, <3>2
    <3>4. PICK i \in DOMAIN tp : tp[i] = [op |-> "recv", window |-> u, layer |-> j]
      BY <1>7, <3>3
    <3>5. i # m
      BY <1>3, <1>4, <3>2, <3>4
    <3>6. i < m
      BY <1>2, <3>5
    <3>7. N(u, j) < N(w, k)
      BY <1>1, <1>2, <1>3, <3>4, <3>6 DEF ReceivesInOrder
    <3> QED
      BY <1>4, <3>2, <3>7
  <2> DEFINE n == N(w, k)
  <2>3. /\ n \in Nat /\ n <= 2 * Z - C /\ ~ (n < 2 * Z - C)
        /\ Z \in Nat /\ C \in Nat
    BY <1>4, <2>1, <2>2
  <2> HIDE DEF n, Z, C
  <2>4. n = 2 * Z - C
    BY <2>3
  <2> QED
    BY <2>4 DEF n
<1>9. C + 1 = 2 * Z + 1 - N(w, k) /\ C + 1 <= 2 * Z
  BY <1>4, <1>8
<1>10. /\ TapeTyped(c, "backward", cs2, t) /\ ReceivesInOrder(c, t)
       /\ SnapshotInOrder(t) /\ SendsReceived(t)
  BY <1>1, FrontTape DEF t
<1>11. ReceivesRecorded(c, "backward", lay, aw2, cs2, t)
  <2> SUFFICES ASSUME NEW u \in Routed(c), NEW j \in Exchanged
               PROVE  N(u, j) <= 2 * Z - (C + 1)
                        <=> \E i \in DOMAIN t : t[i] = [op |-> "recv", window |-> u, layer |-> j]
    BY DEF ReceivesRecorded, Got
  <2>1. N(u, j) \in Nat
    BY NumberIs, Sizes
  <2>2. CASE u = w /\ j = k
    <3>1. ~ (N(u, j) <= 2 * Z - (C + 1))
      BY <1>4, <1>8, <2>2
    <3>2. ~ \E i \in DOMAIN t : t[i] = [op |-> "recv", window |-> u, layer |-> j]
      <4> SUFFICES ASSUME NEW i \in DOMAIN t, t[i] = [op |-> "recv", window |-> u, layer |-> j] PROVE FALSE
        OBVIOUS
      <4>1. i \in DOMAIN tp /\ i < m /\ tp[i] = tp[m]
        BY <1>2, <1>3, <2>2
      <4>2. N(w, k) < N(w, k)
        BY <1>1, <1>2, <1>3, <4>1 DEF ReceivesInOrder
      <4> QED
        BY <1>4, <4>2
    <3> QED
      BY <3>1, <3>2
  <2>3. CASE ~ (u = w /\ j = k)
    <3>1. N(u, j) # N(w, k)
      BY <1>3, <2>3, NumberOrder
    <3>2. N(u, j) <= 2 * Z - (C + 1) <=> N(u, j) <= 2 * Z - C
      BY <1>4, <1>8, <2>1, <3>1
    <3>3. (\E i \in DOMAIN t : t[i] = [op |-> "recv", window |-> u, layer |-> j])
             <=> \E i \in DOMAIN tp : tp[i] = [op |-> "recv", window |-> u, layer |-> j]
      <4>1. tp[m] # [op |-> "recv", window |-> u, layer |-> j]
        BY <1>3, <2>3
      <4>2. \A i \in DOMAIN tp : i = m \/ i \in DOMAIN t
        BY <1>2
      <4> QED
        BY <1>2, <4>1, <4>2
    <3> QED
      BY <1>7, <3>2, <3>3
  <2> QED
    BY <2>2, <2>3
<1>12. BackOK(c, "backward", aw2, t)
  <2> SUFFICES ASSUME NEW i \in DOMAIN t, t[i].op = "send", \A j \in i + 1 .. Len(t) : t[j].window # t[i].window
               PROVE  aw2[t[i].window] = 2 * Z + 1 - Number(c, t[i].window, t[i].layer)
    BY DEF BackOK
  <2>1. i \in DOMAIN tp /\ t[i] = tp[i] /\ i < m /\ i \in Nat
    BY <1>2
  <2>2. \A j \in i + 1 .. m - 1 : tp[j].window # tp[i].window
    <3>1. Len(t) = m - 1
      BY <1>1, FrontOf DEF t
    <3> SUFFICES ASSUME NEW j \in i + 1 .. m - 1 PROVE tp[j].window # tp[i].window
      OBVIOUS
    <3>2. j \in i + 1 .. Len(t) /\ j \in DOMAIN t
      BY <1>2, <2>1, <3>1
    <3> QED
      BY <1>2, <2>1, <3>2
  <2>3. CASE tp[i].window = w
    <3>0. tp[i].op = "send" /\ tp[i].window = tp[m].window /\ SendsReceived(tp)
      BY <1>1, <2>1, <2>3
    <3>1. PICK j \in i + 1 .. m : tp[j] = [tp[i] EXCEPT !.op = "recv"]
      BY <1>2, <2>1, <3>0, Zenon DEF SendsReceived
    <3>2. j \in DOMAIN tp /\ [tp[i] EXCEPT !.op = "recv"] = [op |-> "recv", window |-> tp[i].window, layer |-> tp[i].layer]
      BY <1>1, <1>2, <2>1, OpIs
    <3>3. tp[j].window = tp[i].window /\ tp[j].layer = tp[i].layer
      BY <3>1, <3>2
    <3>4. j = m
      <4>1. j \notin i + 1 .. m - 1
        BY <2>2, <3>3
      <4>2. j \in i + 1 .. m /\ m \in Nat /\ i \in Nat
        BY <1>2, <2>1, <3>1
      <4> HIDE DEF m
      <4> QED
        BY <4>1, <4>2
    <3>5. tp[i].layer = k
      BY <3>3, <3>4
    <3> QED
      BY <1>6, <1>9, <2>1, <2>3, <3>5
  <2>4. CASE tp[i].window # w
    <3>1. \A j \in i + 1 .. m : tp[j].window # tp[i].window
      BY <1>2, <2>1, <2>2, <2>4
    <3>2. aw[tp[i].window] = 2 * Z + 1 - Number(c, tp[i].window, tp[i].layer)
      BY <2>1, <3>1 DEF BackOK
    <3>3. tp[i].window \in Snapshots(c)
      BY <1>3, <2>1, Sizes
    <3> QED
      BY <1>6, <2>1, <2>4, <3>2, <3>3
  <2> QED
    BY <2>3, <2>4
<1>13. AwaitedSent(c, "backward", lay, aw2, t)
  BY DEF AwaitedSent
<1> QED
  BY <1>2, <1>3, <1>9, <1>10, <1>11, <1>12, <1>13 DEF TapeOK, aw2, t

\* The walk back comes to a send: it waits for the call of its receive.
LEMMA BackwardSendTape ==
    ASSUME Widening, NEW c \in Configs, NEW lay, NEW aw, NEW cs, NEW tp,
           TapeOK(c, "backward", lay, aw, cs, tp), BackOK(c, "backward", aw, tp),
           aw \in [Snapshots(c) -> Nat],
           tp # <<>>, Last(tp).op = "send"
    PROVE  LET op == Last(tp)
               aw2 == [aw EXCEPT ![op.window] = 0]
           IN  /\ op.window \in Routed(c) /\ op.layer \in Exchanged
               /\ aw[op.window] = 2 * Total(c) + 1 - Number(c, op.window, op.layer)
               /\ TapeOK(c, "backward", lay, aw2, cs, Front(tp))
               /\ BackOK(c, "backward", aw2, Front(tp))
<1> DEFINE m == Len(tp)
           w == tp[m].window
           k == tp[m].layer
           Z == Total(c)
           t == Front(tp)
           aw2 == [aw EXCEPT ![w] = 0]
<1>1. /\ TapeTyped(c, "backward", cs, tp) /\ ReceivesInOrder(c, tp) /\ SnapshotInOrder(tp)
      /\ SendsReceived(tp) /\ tp \in Seq(Ops)
      /\ ReceivesRecorded(c, "backward", lay, aw, cs, tp)
  BY DEF TapeOK, TapeTyped
<1>2. /\ m \in Nat /\ m >= 1 /\ m \in DOMAIN tp /\ Last(tp) = tp[m]
      /\ DOMAIN t = 1 .. m - 1 /\ DOMAIN tp = 1 .. m /\ Len(t) = m - 1
      /\ \A i \in DOMAIN t : i \in DOMAIN tp /\ t[i] = tp[i]
  BY <1>1, FrontOf
<1>3. /\ w \in Routed(c) /\ k \in Exchanged /\ tp[m].op = "send"
      /\ \A i \in DOMAIN tp : i \in Nat /\ tp[i].window \in Routed(c) /\ tp[i].layer \in Exchanged
  BY <1>1, <1>2, OpIs
<1>4. aw[w] = 2 * Z + 1 - Number(c, w, k)
  <2>1. \A j \in m + 1 .. Len(tp) : tp[j].window # tp[m].window
    BY <1>2
  <2> QED
    BY <1>2, <1>3, <2>1 DEF BackOK
<1>5. w \in Snapshots(c)
  BY <1>3, Sizes
<1>6. aw2[w] = 0 /\ \A u \in Snapshots(c) : u # w => aw2[u] = aw[u]
  BY <1>5
<1> HIDE DEF t, aw2
<1>7. /\ TapeTyped(c, "backward", cs, t) /\ ReceivesInOrder(c, t)
      /\ SnapshotInOrder(t) /\ SendsReceived(t)
  BY <1>1, FrontTape DEF t
<1>8. ReceivesRecorded(c, "backward", lay, aw2, cs, t)
  <2> SUFFICES ASSUME NEW u \in Routed(c), NEW j \in Exchanged
               PROVE  Got(c, "backward", lay, aw2, cs, u, j)
                        <=> \E i \in DOMAIN t : t[i] = [op |-> "recv", window |-> u, layer |-> j]
    BY DEF ReceivesRecorded
  <2>1. Got(c, "backward", lay, aw2, cs, u, j) <=> Got(c, "backward", lay, aw, cs, u, j)
    BY DEF Got
  <2>2. (\E i \in DOMAIN t : t[i] = [op |-> "recv", window |-> u, layer |-> j])
           <=> \E i \in DOMAIN tp : tp[i] = [op |-> "recv", window |-> u, layer |-> j]
    <3>1. tp[m] # [op |-> "recv", window |-> u, layer |-> j]
      BY <1>3
    <3>2. \A i \in DOMAIN tp : i = m \/ i \in DOMAIN t
      BY <1>2
    <3> QED
      BY <1>2, <3>1, <3>2
  <2> QED
    BY <1>1, <2>1, <2>2 DEF ReceivesRecorded
<1>9. BackOK(c, "backward", aw2, t)
  <2> SUFFICES ASSUME NEW i \in DOMAIN t, t[i].op = "send", \A j \in i + 1 .. Len(t) : t[j].window # t[i].window
               PROVE  aw2[t[i].window] = 2 * Z + 1 - Number(c, t[i].window, t[i].layer)
    BY DEF BackOK
  <2>1. i \in DOMAIN tp /\ t[i] = tp[i] /\ i < m /\ i \in Nat
    BY <1>2
  <2>2. \A j \in i + 1 .. m - 1 : tp[j].window # tp[i].window
    <3> SUFFICES ASSUME NEW j \in i + 1 .. m - 1 PROVE tp[j].window # tp[i].window
      OBVIOUS
    <3>1. j \in i + 1 .. Len(t) /\ j \in DOMAIN t
      BY <1>2, <2>1
    <3> QED
      BY <1>2, <2>1, <3>1
  <2>3. CASE tp[i].window = w
    <3>0. tp[i].op = "send" /\ tp[i].window = tp[m].window /\ SendsReceived(tp)
      BY <1>1, <2>1, <2>3
    <3>1. PICK j \in i + 1 .. m : tp[j] = [tp[i] EXCEPT !.op = "recv"]
      BY <1>2, <2>1, <3>0, Zenon DEF SendsReceived
    <3>2. j \in DOMAIN tp /\ [tp[i] EXCEPT !.op = "recv"] = [op |-> "recv", window |-> tp[i].window, layer |-> tp[i].layer]
      BY <1>1, <1>2, <2>1, OpIs, SMTT(30)
    <3>3. tp[j].window = tp[i].window /\ tp[j].op = "recv"
      BY <3>1, <3>2
    <3>4. j = m
      <4>1. j \notin i + 1 .. m - 1
        BY <2>2, <3>3
      <4>2. j \in i + 1 .. m /\ m \in Nat /\ i \in Nat
        BY <1>2, <2>1, <3>1
      <4> HIDE DEF m
      <4> QED
        BY <4>1, <4>2
    <3> QED
      BY <1>3, <3>3, <3>4
  <2>4. CASE tp[i].window # w
    <3>1. \A j \in i + 1 .. m : tp[j].window # tp[i].window
      BY <1>2, <2>1, <2>2, <2>4
    <3>2. aw[tp[i].window] = 2 * Z + 1 - Number(c, tp[i].window, tp[i].layer)
      BY <2>1, <3>1 DEF BackOK
    <3>3. tp[i].window \in Snapshots(c)
      BY <1>3, <2>1, Sizes
    <3> QED
      BY <1>6, <2>1, <2>4, <3>2, <3>3
  <2> QED
    BY <2>3, <2>4
<1>10. AwaitedSent(c, "backward", lay, aw2, t)
  BY DEF AwaitedSent
<1> QED
  BY <1>2, <1>3, <1>4, <1>7, <1>8, <1>9, <1>10 DEF TapeOK, aw2, t

\* The loss keeps the whole tape: every pull of the batch was completed.
LEMMA LossTape ==
    ASSUME Widening, NEW c \in Configs, NEW lay, NEW aw, NEW cs, NEW tp,
           TapeOK(c, "loss", lay, aw, cs, tp), Len(cs) = Total(c)
    PROVE  /\ TapeOK(c, "backward", lay, aw, cs, tp)
           /\ BackOK(c, "backward", aw, tp)
<1> DEFINE Z == Total(c)
<1>1. /\ TapeTyped(c, "loss", cs, tp) /\ ReceivesInOrder(c, tp) /\ SnapshotInOrder(tp)
      /\ SendsReceived(tp) /\ tp \in Seq(Ops)
      /\ ReceivesRecorded(c, "loss", lay, aw, cs, tp)
  BY DEF TapeOK, TapeTyped
<1>2. Z \in Nat
  BY Sizes
<1>3. \A u \in Routed(c), j \in Exchanged :
         /\ Got(c, "loss", lay, aw, cs, u, j)
         /\ Got(c, "backward", lay, aw, cs, u, j)
  <2> SUFFICES ASSUME NEW u \in Routed(c), NEW j \in Exchanged
               PROVE  Got(c, "loss", lay, aw, cs, u, j) /\ Got(c, "backward", lay, aw, cs, u, j)
    OBVIOUS
  <2>1. Number(c, u, j) \in 1 .. Z
    BY NumberIs
  <2>2. 2 * Z - Z = Z
    BY <1>2
  <2> QED
    BY <1>2, <2>1, <2>2 DEF Got
<1>4. TapeOK(c, "backward", lay, aw, cs, tp)
  <2>1. TapeTyped(c, "backward", cs, tp)
    BY <1>1 DEF TapeTyped
  <2>2. ReceivesRecorded(c, "backward", lay, aw, cs, tp)
    BY <1>1, <1>3 DEF ReceivesRecorded
  <2>3. AwaitedSent(c, "backward", lay, aw, tp)
    BY DEF AwaitedSent
  <2> QED
    BY <1>1, <2>1, <2>2, <2>3 DEF TapeOK
<1>5. BackOK(c, "backward", aw, tp)
  <2> SUFFICES ASSUME NEW i \in DOMAIN tp, tp[i].op = "send", \A j \in i + 1 .. Len(tp) : tp[j].window # tp[i].window
               PROVE  FALSE
    BY DEF BackOK
  <2>1. /\ tp[i].window \in Routed(c) /\ tp[i].layer \in Exchanged
        /\ [tp[i] EXCEPT !.op = "recv"] = [op |-> "recv", window |-> tp[i].window, layer |-> tp[i].layer]
    BY <1>1, OpIs
  <2>2. Got(c, "loss", lay, aw, cs, tp[i].window, tp[i].layer)
    BY <1>3, <2>1
  <2>3. PICK k \in i + 1 .. Len(tp) : tp[k] = [tp[i] EXCEPT !.op = "recv"]
    BY <2>2, ReceivedAfter
  <2> QED
    BY <2>1, <2>3
<1> QED
  BY <1>4, <1>5
-----------------------------------------------------------------------------
(* Rows and the recurrent cell.                                            *)

RowType == [node : Nat, chunk : Nat]

LEMMA RowsAre ==
    ASSUME NEW r \in Rank
    PROVE  /\ Rows[r] \in Seq(RowType) /\ Len(Rows[r]) \in Nat /\ DOMAIN Rows[r] = 1 .. Len(Rows[r])
           /\ \A i \in DOMAIN Rows[r] : Rows[r][i] \in RowType /\ Rows[r][i].node \in Nat /\ Rows[r][i].chunk \in Nat
           /\ \A i, j \in DOMAIN Rows[r] : Rows[r][i].node = Rows[r][j].node => i = j
<1>1. Rows[r] \in Seq(RowType) /\ \A i, j \in DOMAIN Rows[r] : Rows[r][i].node = Rows[r][j].node => i = j
  BY RowsAssumption DEF RowType
<1>2. Len(Rows[r]) \in Nat /\ DOMAIN Rows[r] = 1 .. Len(Rows[r]) /\ \A i \in DOMAIN Rows[r] : Rows[r][i] \in RowType
  BY <1>1
<1>3. \A x \in RowType : x.node \in Nat /\ x.chunk \in Nat
  BY DEF RowType
<1> QED
  BY <1>1, <1>2, <1>3

\* Chunks are ranked below ChunkCount.
LEMMA PriorityIs ==
    ASSUME config \in Configs, NEW r \in Rank, NEW i \in DOMAIN Rows[r]
    PROVE  Priority(r, Rows[r][i]) \in 0 .. ChunkCount - 1
<1> DEFINE D == {x.chunk : x \in ToSet(Rows[r])}
           d == Rows[r][i].chunk - MinChunk[r]
<1>1. D \in SUBSET Nat /\ Rows[r][i].chunk \in D /\ Rows[r][i] \in ToSet(Rows[r])
  BY RowsAre DEF ToSet
<1>2. PICK a \in D : \A b \in D : a <= b
  BY <1>1, Least
<1>3. MinChunk[r] \in D /\ \A x \in ToSet(Rows[r]) : MinChunk[r] <= x.chunk
  <2>1. MinChunk[r] = CHOOSE c \in D : \A x \in ToSet(Rows[r]) : c <= x.chunk
    BY DEF MinChunk
  <2>2. \A x \in ToSet(Rows[r]) : a <= x.chunk
    BY <1>2
  <2> QED
    BY <1>2, <2>1, <2>2
<1>4. d \in Nat
  <2> DEFINE e == Rows[r][i].chunk
             o == MinChunk[r]
  <2>1. o \in Nat /\ e \in Nat /\ o <= e
    BY <1>1, <1>3
  <2> HIDE DEF e, o
  <2>2. e - o \in Nat
    BY <2>1
  <2> QED
    BY <2>2 DEF e, o
<1>5. ChunkCount \in Nat \ {0}
  BY ChunksAssumption
<1>6. config.order \in [0 .. ChunkCount - 1 -> 0 .. ChunkCount - 1]
  BY DEF Configs, Permutation, Chunk
<1> HIDE DEF d
<1>7. (IF d < ChunkCount THEN d ELSE ChunkCount - 1) \in 0 .. ChunkCount - 1
  BY <1>4, <1>5
<1>8. config.order[IF d < ChunkCount THEN d ELSE ChunkCount - 1] \in 0 .. ChunkCount - 1
  BY <1>6, <1>7
<1> QED
  BY <1>8 DEF Priority, d

\* The rows in chunk order are the rows.
LEMMA SortedIs ==
    ASSUME config \in Configs, NEW r \in Rank
    PROVE  /\ Sorted(r) \in Seq(RowType) /\ Len(Sorted(r)) = Len(Rows[r])
           /\ \A i, j \in 1 .. Len(Rows[r]) : Sorted(r)[i].node = Sorted(r)[j].node => i = j
<1> DEFINE n == Len(Rows[r])
           keys == [i \in DOMAIN Rows[r] |-> Priority(r, Rows[r][i])]
           order == Argsort(keys)
           s == Sorted(r)
<1>1. /\ Rows[r] \in Seq(RowType) /\ n \in Nat /\ DOMAIN Rows[r] = 1 .. n
      /\ \A i \in DOMAIN Rows[r] : Rows[r][i] \in RowType
      /\ \A i, j \in DOMAIN Rows[r] : Rows[r][i].node = Rows[r][j].node => i = j
  BY RowsAre
<1>2. keys \in [1 .. n -> Int]
  <2>1. \A i \in DOMAIN Rows[r] : Priority(r, Rows[r][i]) \in Int
    BY PriorityIs
  <2> QED
    BY <1>1, <2>1
<1>3. order \in [1 .. n -> 1 .. n] /\ \A i, j \in 1 .. n : order[i] = order[j] => i = j
  <2> HIDE DEF keys, n
  <2> QED
    BY <1>1, <1>2, ArgsortPermutes
<1>4. s = [q \in DOMAIN order |-> Rows[r][order[q]]]
  BY DEF Sorted, Pick
<1> HIDE DEF order, s
<1>5. DOMAIN order = 1 .. n /\ \A q \in 1 .. n : order[q] \in 1 .. n
  BY <1>3
<1>6. s \in [1 .. n -> RowType] /\ \A q \in 1 .. n : s[q] = Rows[r][order[q]]
  BY <1>1, <1>4, <1>5
<1>7. s \in Seq(RowType) /\ Len(s) = n
  BY <1>1, <1>6, ListOf
<1>8. ASSUME NEW i \in 1 .. n, NEW j \in 1 .. n, s[i].node = s[j].node PROVE i = j
  <2>1. order[i] = order[j]
    BY <1>1, <1>5, <1>6, <1>8, ZenonT(30)
  <2> QED
    BY <1>3, <2>1
<1> QED
  BY <1>7, <1>8 DEF s

LEMMA WithinIs ==
    ASSUME config \in Configs, NEW r \in Rank, NEW limit
    PROVE  /\ Cardinality(Within(r, limit)) \in 0 .. Len(Rows[r])
           /\ Within(r, limit) \in SUBSET (1 .. Len(Rows[r])) /\ IsFiniteSet(Within(r, limit))
           /\ limit \in Nat /\ limit >= ChunkCount => Cardinality(Within(r, limit)) = Len(Rows[r])
<1> DEFINE n == Len(Rows[r])
           W == Within(r, limit)
<1>1. n \in Nat /\ DOMAIN Rows[r] = 1 .. n
  BY RowsAre
<1>2. W \in SUBSET (1 .. n)
  BY <1>1 DEF Within
<1>3. IsFiniteSet(1 .. n) /\ Cardinality(1 .. n) = n
  BY <1>1, FS_Interval
<1>4. IsFiniteSet(W) /\ Cardinality(W) <= n /\ Cardinality(W) \in Nat
  BY <1>2, <1>3, FS_Subset, FS_CardinalityType
<1>5. ASSUME limit \in Nat, limit >= ChunkCount PROVE W = 1 .. n
  <2>1. ASSUME NEW i \in 1 .. n PROVE Priority(r, Rows[r][i]) < limit
    <3>1. Priority(r, Rows[r][i]) \in 0 .. ChunkCount - 1
      BY <1>1, PriorityIs
    <3> QED
      BY <1>5, <3>1, ChunksAssumption
  <2> QED
    BY <1>1, <2>1 DEF Within
<1> QED
  BY <1>1, <1>2, <1>3, <1>4, <1>5

\* The nodes of a prefix of the rows in chunk order, and of all rows.
LEMMA NodesAre ==
    ASSUME config \in Configs, NEW r \in Rank, NEW limit
    PROVE  /\ Nodes(Bucketed(r, limit)) \in Seq(Nat)
           /\ Len(Nodes(Bucketed(r, limit))) = Cardinality(Within(r, limit))
           /\ \A i \in 1 .. Cardinality(Within(r, limit)) : Nodes(Bucketed(r, limit))[i] = Sorted(r)[i].node
           /\ Nodes(Rows[r]) \in Seq(Nat) /\ Len(Nodes(Rows[r])) = Len(Rows[r])
           /\ \A i \in 1 .. Len(Rows[r]) : Nodes(Rows[r])[i] = Rows[r][i].node
           /\ Nodes(Selected(r, limit)) \in Seq(Nat)
<1> DEFINE n == Len(Rows[r])
           m == Cardinality(Within(r, limit))
           s == Sorted(r)
           b == Bucketed(r, limit)
<1>1. /\ Rows[r] \in Seq(RowType) /\ n \in Nat /\ DOMAIN Rows[r] = 1 .. n
      /\ \A i \in DOMAIN Rows[r] : Rows[r][i] \in RowType /\ Rows[r][i].node \in Nat
  BY RowsAre
<1>2. s \in Seq(RowType) /\ Len(s) = n
  BY SortedIs
<1>3. m \in 0 .. n /\ Within(r, limit) \in SUBSET (1 .. n) /\ IsFiniteSet(Within(r, limit))
  BY WithinIs
<1>4. \A x \in RowType : x.node \in Nat
  BY DEF RowType
<1>5. b = SubSeq(s, 1, m)
  BY DEF Bucketed
<1> HIDE DEF s, b, m
<1>6. b \in Seq(RowType) /\ Len(b) = m /\ DOMAIN b = 1 .. m /\ \A i \in 1 .. m : b[i] = s[i] /\ b[i] \in RowType
  BY <1>1, <1>2, <1>3, <1>5
<1>7. Nodes(b) \in [1 .. m -> Nat] /\ \A i \in 1 .. m : Nodes(b)[i] = s[i].node
  BY <1>4, <1>6 DEF Nodes
<1>8. Nodes(b) \in Seq(Nat) /\ Len(Nodes(b)) = m
  <2>1. m \in Nat
    BY <1>1, <1>3
  <2> QED
    BY <1>7, <2>1, ListOf
<1>9. Nodes(Rows[r]) \in [1 .. n -> Nat] /\ \A i \in 1 .. n : Nodes(Rows[r])[i] = Rows[r][i].node
  BY <1>1 DEF Nodes
<1>10. Nodes(Rows[r]) \in Seq(Nat) /\ Len(Nodes(Rows[r])) = n
  BY <1>1, <1>9, ListOf
<1>11. Nodes(Selected(r, limit)) \in Seq(Nat)
  <2> DEFINE W == Within(r, limit)
             a == Increasing(W)
             x == Selected(r, limit)
  <2>1. W \in SUBSET Int /\ IsFiniteSet(W)
    BY <1>1, <1>3
  <2>2. a \in [1 .. m -> W] /\ m \in Nat
    <3>1. a \in [1 .. Cardinality(W) -> W]
      BY <2>1, IncreasingEnumerates
    <3> QED
      BY <1>1, <1>3, <3>1 DEF m
  <2>3. x = [q \in DOMAIN a |-> Rows[r][a[q]]]
    BY DEF Selected, Pick
  <2>4. \A q \in W : q \in DOMAIN Rows[r]
    BY <1>1, <1>3
  <2> HIDE DEF W, a, x
  <2>5. DOMAIN x = 1 .. m /\ \A q \in 1 .. m : x[q] \in RowType
    BY <1>1, <2>2, <2>3, <2>4
  <2>6. Nodes(x) \in [1 .. m -> Nat]
    BY <1>4, <2>5 DEF Nodes
  <2>7. Nodes(x) \in Seq(Nat)
    BY <2>2, <2>6, ListOf
  <2> QED
    BY <2>7 DEF x
<1> QED
  BY <1>7, <1>8, <1>9, <1>10, <1>11 DEF b, m, s
\* What the layout of a snapshot says of its nodes.
LEMMA LayoutIs ==
    ASSUME config \in Configs, NEW r \in Rank, NEW w
    PROVE  /\ Layout(r, w).nodes \in Seq(Nat)
           /\ Layout(r, w).limited \in BOOLEAN /\ Layout(r, w).ordered \in BOOLEAN
           /\ Layout(r, w).ordered =>
                 \E m \in 0 .. Len(Rows[r]) :
                    /\ Len(Layout(r, w).nodes) = m
                    /\ \A i \in 1 .. m : Layout(r, w).nodes[i] = Sorted(r)[i].node
           /\ ~ Layout(r, w).ordered /\ ~ Layout(r, w).limited => Layout(r, w).nodes = Nodes(Rows[r])
           /\ Whole(config.window, w) /\ Rows[r] # <<>> => Layout(r, w).nodes # <<>>
<1> DEFINE limit == Limit(config.window, w)
           whole == Complete(r, limit)
           blob == FromBlob(limit)
           l2 == IF whole THEN ChunkCount ELSE limit
           y == Layout(r, w)
<1>1. /\ y.limited = ~ whole /\ y.ordered = blob
      /\ blob => y.nodes = Nodes(Bucketed(r, l2))
      /\ ~ blob /\ whole => y.nodes = Nodes(Rows[r])
      /\ ~ blob /\ ~ whole => y.nodes = Nodes(Selected(r, limit))
  BY DEF Layout
<1>2. whole <=> Whole(config.window, w)
  BY DEF Complete, Whole
<1>3. y.limited \in BOOLEAN /\ y.ordered \in BOOLEAN
  BY <1>1 DEF Complete, FromBlob
<1>4. whole => l2 \in Nat /\ l2 >= ChunkCount
  BY ChunksAssumption
<1>5. \A k \in {l2, limit} :
        /\ Nodes(Bucketed(r, k)) \in Seq(Nat)
        /\ Len(Nodes(Bucketed(r, k))) = Cardinality(Within(r, k))
        /\ \A i \in 1 .. Cardinality(Within(r, k)) : Nodes(Bucketed(r, k))[i] = Sorted(r)[i].node
        /\ Nodes(Rows[r]) \in Seq(Nat) /\ Len(Nodes(Rows[r])) = Len(Rows[r])
        /\ Nodes(Selected(r, k)) \in Seq(Nat)
        /\ Cardinality(Within(r, k)) \in 0 .. Len(Rows[r])
        /\ k \in Nat /\ k >= ChunkCount => Cardinality(Within(r, k)) = Len(Rows[r])
  BY NodesAre, WithinIs
<1> HIDE DEF y, whole, blob, l2, limit
<1>6. y.nodes \in Seq(Nat)
  BY <1>1, <1>5
<1>7. y.ordered => \E m \in 0 .. Len(Rows[r]) :
                      /\ Len(y.nodes) = m
                      /\ \A i \in 1 .. m : y.nodes[i] = Sorted(r)[i].node
  BY <1>1, <1>5
<1>8. ~ y.ordered /\ ~ y.limited => y.nodes = Nodes(Rows[r])
  BY <1>1
<1>9. ASSUME whole, Rows[r] # <<>> PROVE y.nodes # <<>>
  <2>1. Len(Rows[r]) # 0
    BY <1>9, RowsAre
  <2>2. Len(y.nodes) = Len(Rows[r])
    <3>1. CASE blob
      BY <1>1, <1>4, <1>5, <1>9, <3>1
    <3>2. CASE ~ blob
      BY <1>1, <1>5, <1>9, <3>2
    <3> QED
      BY <3>1, <3>2
  <2> QED
    BY <2>1, <2>2
<1> QED
  BY <1>2, <1>3, <1>6, <1>7, <1>8, <1>9 DEF y

\* Under one layout, one node is in one place.
LEMMA SamePlaces ==
    ASSUME config \in Configs, NEW r \in Rank, NEW v, NEW w, SameLayout(Layout(r, v), Layout(r, w))
    PROVE  LET a == Layout(r, v).nodes
               b == Layout(r, w).nodes
           IN  /\ \A j \in 1 .. Len(b) : j <= Len(a) => b[j] = a[j]
               /\ \A j \in 1 .. Len(b), i \in 1 .. Len(a) : b[j] = a[i] => i = j
<1> DEFINE x == Layout(r, v)
           y == Layout(r, w)
           a == x.nodes
           b == y.nodes
           n == Len(Rows[r])
<1>1. /\ \A i, j \in 1 .. n : Sorted(r)[i].node = Sorted(r)[j].node => i = j
      /\ \A i, j \in 1 .. n : Rows[r][i].node = Rows[r][j].node => i = j
      /\ \A i \in 1 .. n : Nodes(Rows[r])[i] = Rows[r][i].node
      /\ n \in Nat /\ Len(Nodes(Rows[r])) = n
  BY RowsAre, SortedIs, NodesAre
<1>2. /\ x.ordered \in BOOLEAN /\ y.ordered \in BOOLEAN /\ a \in Seq(Nat) /\ b \in Seq(Nat)
      /\ x.ordered => \E m \in 0 .. n : Len(a) = m /\ \A i \in 1 .. m : a[i] = Sorted(r)[i].node
      /\ y.ordered => \E m \in 0 .. n : Len(b) = m /\ \A i \in 1 .. m : b[i] = Sorted(r)[i].node
      /\ ~ x.ordered /\ ~ x.limited => a = Nodes(Rows[r])
      /\ ~ y.ordered /\ ~ y.limited => b = Nodes(Rows[r])
  BY LayoutIs
<1>3. \/ x.ordered /\ y.ordered
      \/ ~ x.limited /\ ~ y.limited /\ ~ x.ordered /\ ~ y.ordered
  BY DEF SameLayout
<1> HIDE DEF x, y
<1>4. CASE x.ordered /\ y.ordered
  <2>1. PICK m \in 0 .. n : Len(a) = m /\ \A i \in 1 .. m : a[i] = Sorted(r)[i].node
    BY <1>2, <1>4
  <2>2. PICK k \in 0 .. n : Len(b) = k /\ \A i \in 1 .. k : b[i] = Sorted(r)[i].node
    BY <1>2, <1>4
  <2> QED
    BY <1>1, <2>1, <2>2 DEF x, y
<1>5. CASE ~ x.limited /\ ~ y.limited /\ ~ x.ordered /\ ~ y.ordered
  <2>1. a = Nodes(Rows[r]) /\ b = Nodes(Rows[r])
    BY <1>2, <1>5
  <2> QED
    BY <1>1, <2>1 DEF x, y
<1> QED
  BY <1>3, <1>4, <1>5

\* The cell reads of each node the state it was left in.
LEMMA CellReads ==
    ASSUME config \in Configs, NEW r \in Rank, NEW w \in Snapshots(config),
           w = Begin(config.window) => carried[r] = <<>>,
           w > Begin(config.window) => carried[r] = States(Layout(r, w - 1).nodes, w - 1)
    PROVE  ReadAs(config, r, w - Begin(config.window) + 1, PreviousState(r, w))
<1> DEFINE B == Begin(config.window)
           i == w - B + 1
           b == Layout(r, w).nodes
           a == Layout(r, w - 1).nodes
           s == PreviousState(r, w)
<1>1. B \in Nat /\ w \in Nat /\ B <= w /\ i \in Nat /\ B + i - 1 = w
  BY ConfigIs DEF Snapshots
<1>2. a \in Seq(Nat) /\ b \in Seq(Nat) /\ Len(b) \in Nat /\ Len(a) \in Nat
      /\ DOMAIN a = 1 .. Len(a) /\ DOMAIN b = 1 .. Len(b)
  <2>1. a \in Seq(Nat) /\ b \in Seq(Nat)
    BY LayoutIs
  <2> HIDE DEF a, b
  <2> QED
    BY <2>1
<1>3. s = IF w = B THEN FitRows(<<>>, Len(b))
          ELSE IF SameLayout(Layout(r, w - 1), Layout(r, w)) THEN FitRows(carried[r], Len(b))
          ELSE LookupRows(carried[r], b)
  BY DEF PreviousState
<1>4. ASSUME w = B, NEW j \in DOMAIN b PROVE s[j] = Zero
  <2> HIDE DEF b, s
  <2> QED
    BY <1>2, <1>3, <1>4 DEF FitRows
<1>5. ASSUME w > B, NEW j \in DOMAIN b
      PROVE  s[j] = IF b[j] \in ToSet(a) THEN [node |-> b[j], window |-> w - 1] ELSE Zero
  <2> DEFINE c == carried[r]
  <2>1. c = [k \in DOMAIN a |-> [node |-> a[k], window |-> w - 1]]
    BY <1>5 DEF States
  <2>2. ~ (w = B)
    BY <1>1, <1>5
  <2>3. CASE SameLayout(Layout(r, w - 1), Layout(r, w))
    <3>1. /\ \A k \in 1 .. Len(b) : k <= Len(a) => b[k] = a[k]
          /\ \A k \in 1 .. Len(b), h \in 1 .. Len(a) : b[k] = a[h] => h = k
      BY <2>3, SamePlaces
    <3>2. s = FitRows(c, Len(b))
      BY <1>3, <2>2, <2>3
    <3> HIDE DEF a, b, c, s
    <3>3. Len(c) = Len(a) /\ DOMAIN c = 1 .. Len(a)
      BY <1>2, <2>1
    <3>4. s[j] = IF j <= Len(a) THEN c[j] ELSE Zero
      BY <1>2, <1>5, <3>2, <3>3 DEF FitRows
    <3>5. CASE j <= Len(a)
      <4>1. j \in DOMAIN a /\ b[j] = a[j]
        BY <1>2, <1>5, <3>1, <3>5
      <4>2. b[j] \in ToSet(a)
        BY <4>1 DEF ToSet
      <4> QED
        BY <2>1, <3>4, <3>5, <4>1, <4>2
    <3>6. CASE ~ (j <= Len(a))
      <4>1. b[j] \notin ToSet(a)
        BY <1>2, <1>5, <3>1, <3>6 DEF ToSet
      <4> QED
        BY <3>4, <3>6, <4>1
    <3> QED
      BY <3>5, <3>6
  <2>4. CASE ~ SameLayout(Layout(r, w - 1), Layout(r, w))
    <3>1. s = LookupRows(c, b)
      BY <1>3, <2>2, <2>4
    <3> HIDE DEF a, b, c, s
    <3>2. ToSet(c) = {[node |-> a[k], window |-> w - 1] : k \in DOMAIN a}
      BY <2>1 DEF ToSet
    <3>3. s[j] = IF \E x \in ToSet(c) : x.node = b[j]
                 THEN CHOOSE x \in ToSet(c) : x.node = b[j] ELSE Zero
      BY <1>5, <3>1 DEF LookupRows
    <3>4. CASE b[j] \in ToSet(a)
      <4> DEFINE y == [node |-> b[j], window |-> w - 1]
      <4>1. y \in ToSet(c)
        BY <3>2, <3>4 DEF ToSet
      <4>2. \A x \in ToSet(c) : x.node = b[j] <=> x = y
        BY <3>2
      <4>3. (CHOOSE x \in ToSet(c) : x.node = b[j]) = y
        BY <4>1, <4>2
      <4>4. \E x \in ToSet(c) : x.node = b[j]
        BY <4>1, <4>2
      <4> QED
        BY <3>3, <3>4, <4>3, <4>4
    <3>5. CASE b[j] \notin ToSet(a)
      <4>1. ~ \E x \in ToSet(c) : x.node = b[j]
        BY <3>2, <3>5 DEF ToSet
      <4> QED
        BY <3>3, <3>5, <4>1
    <3> QED
      BY <3>4, <3>5
  <2> QED
    BY <2>3, <2>4
<1> HIDE DEF s, b, a
<1>6. ReadAs(config, r, i, s)
  <2> SUFFICES ASSUME NEW j \in DOMAIN b
               PROVE  s[j] = IF b[j] \in (IF i > 1 THEN ToSet(a) ELSE {})
                             THEN [node |-> b[j], window |-> w - 1] ELSE Zero
    BY <1>1 DEF ReadAs, b, a
  <2>1. CASE w = B
    <3>1. ~ (i > 1) /\ s[j] = Zero
      BY <1>1, <1>4, <2>1
    <3> HIDE DEF i
    <3> QED
      BY <3>1
  <2>2. CASE w > B
    <3>1. i > 1
      BY <1>1, <2>2
    <3>2. s[j] = IF b[j] \in ToSet(a) THEN [node |-> b[j], window |-> w - 1] ELSE Zero
      BY <1>5, <2>2
    <3> HIDE DEF i
    <3> QED
      BY <3>1, <3>2
  <2> QED
    BY <1>1, <2>1, <2>2
<1> QED
  BY <1>6 DEF s
-----------------------------------------------------------------------------
(* Steps.  A step of one rank leaves the state of the others alone.        *)

LEMMA LayoutStays ==
    ASSUME config' = config, NEW r, NEW w
    PROVE  Layout(r, w)' = Layout(r, w)
<1>1. \A row : Priority(r, row)' = Priority(r, row)
  BY DEF Priority
<1>2. \A limit : Within(r, limit)' = Within(r, limit)
  BY <1>1 DEF Within
<1>3. Sorted(r)' = Sorted(r)
  <2> DEFINE keys == [i \in DOMAIN Rows[r] |-> Priority(r, Rows[r][i])]
  <2>1. keys' = keys
    BY <1>1
  <2>2. Sorted(r) = Pick(Rows[r], Argsort(keys)) /\ Sorted(r)' = Pick(Rows[r], Argsort(keys'))
    BY DEF Sorted
  <2> QED
    BY <2>1, <2>2
<1>4. \A limit : Bucketed(r, limit)' = Bucketed(r, limit)
  BY <1>2, <1>3 DEF Bucketed
<1>5. \A limit : Selected(r, limit)' = Selected(r, limit)
  BY <1>2 DEF Selected
<1>6. \A limit : FromBlob(limit)' <=> FromBlob(limit)
  BY DEF FromBlob
<1> DEFINE limit == Limit(config.window, w)
           whole == Complete(r, limit)
           nodes == Nodes(IF FromBlob(limit) THEN Bucketed(r, IF whole THEN ChunkCount ELSE limit)
                          ELSE IF whole THEN Rows[r] ELSE Selected(r, limit))
<1>7. limit' = limit /\ (~ whole)' = (~ whole)
  OBVIOUS
<1>8. FromBlob(limit)' = FromBlob(limit)
  BY <1>7 DEF FromBlob
<1>9. nodes' = nodes
  BY <1>4, <1>5, <1>6, <1>7
<1>10. Layout(r, w) = [limited |-> ~ whole, ordered |-> FromBlob(limit), nodes |-> nodes]
  BY DEF Layout
<1>11. Layout(r, w)' = [limited |-> (~ whole)', ordered |-> FromBlob(limit)', nodes |-> nodes']
  BY DEF Layout
<1> HIDE DEF whole, limit, nodes
<1> QED
  BY <1>7, <1>8, <1>9, <1>10, <1>11

LEMMA CellStays ==
    ASSUME config' = config, NEW p \in Rank, next'[p] = next[p], carried'[p] = carried[p],
           read'[p] = read[p], reached'[p] = reached[p],
           CellOK(config, p, next[p], carried[p], read[p], reached[p])
    PROVE  CellOK(config, p, next[p], carried[p], read[p], reached[p])'
<1>1. \A w : Layout(p, w)' = Layout(p, w)
  BY LayoutStays
<1>2. \A i, s : ReadAs(config, p, i, s)' <=> ReadAs(config, p, i, s)
  BY <1>1 DEF ReadAs
<1> QED
  BY <1>1, <1>2 DEF CellOK

\* What is not touched keeps its invariant.
Same(p) ==
    /\ pc'[p] = pc[p] /\ first'[p] = first[p] /\ layer'[p] = layer[p] /\ next'[p] = next[p]
    /\ current'[p] = current[p] /\ pending'[p] = pending[p] /\ awaited'[p] = awaited[p]
    /\ value'[p] = value[p] /\ calls'[p] = calls[p] /\ tape'[p] = tape[p]
    /\ carried'[p] = carried[p] /\ read'[p] = read[p] /\ reached'[p] = reached[p]
    /\ returned'[p] = returned[p]

LEMMA SameRank ==
    ASSUME config' = config, NEW p \in Rank, Same(p), RankInv(p)
    PROVE  RankInv(p)'
<1>1. CellOK(config, p, next[p], carried[p], read[p], reached[p])'
  BY CellStays DEF Same, RankInv
<1> QED
  BY <1>1 DEF Same, RankInv

LEMMA Touches ==
    ASSUME Functions, NEW r \in Rank, Step(r)
    PROVE  config' = config /\ Functions' /\ \A p \in Rank : p # r => Same(p)
<1> USE DEF Functions, Same, scan, cell
<1>1. CASE Compute(r)
  BY <1>1 DEF Compute, Enter, Record
<1>2. CASE Resume(r)
  BY <1>2 DEF Resume, Record
<1>3. CASE NextPass(r)
  BY <1>3 DEF NextPass
<1>4. CASE EndLayer(r)
  BY <1>4 DEF EndLayer
<1>5. CASE Update(r)
  BY <1>5 DEF Update
<1>6. CASE Loss(r)
  BY <1>6 DEF Loss
<1>7. CASE BackwardRecv(r)
  BY <1>7 DEF BackwardRecv, Enter
<1>8. CASE BackwardSend(r)
  BY <1>8 DEF BackwardSend
<1>9. CASE Finish(r)
  BY <1>9 DEF Finish
<1> QED
  BY <1>1, <1>2, <1>3, <1>4, <1>5, <1>6, <1>7, <1>8, <1>9 DEF Step

LEMMA ScanFrom ==
    ASSUME NEW r \in Rank, config \in Configs, RankInv(r), pc[r] = "layers"
    PROVE  /\ ScanAt(config, first[r], layer[r], current[r], pending[r], value[r], awaited[r], calls[r])
           /\ layer[r] \in Nat /\ layer[r] < Layers /\ Layers \in Nat
           /\ BoundaryOK(config, r, first[r], layer[r], awaited[r], value[r])
<1>1. layer[r] \in 0 .. Layers /\ layer[r] < Layers /\ GroupAt(config, first[r]) /\ Layers \in Nat
  BY ConfigIs DEF RankInv, Place, GroupAt
<1>2. layer[r] \in 0 .. Layers - 1 /\ layer[r] \in Nat
  BY <1>1
<1> QED
  BY <1>1, <1>2 DEF RankInv, ScanOK, RowsOK, ScanAt

\* Compute, of one rank.
LEMMA ComputeStep ==
    ASSUME Widening, Inv, NEW r \in Rank, Compute(r)
    PROVE  RankInv(r)' /\ returned' = returned
<1> DEFINE c == config
           f == first[r]
           l == layer[r]
           cur == current[r]
           pend == pending[r]
           val == value[r]
           aw == awaited[r]
           cs == calls[r]
           tp == tape[r]
           w == Head(cur)
           x == [layer |-> l + 1, boundary |-> Local]
           val2 == [val EXCEPT ![w] = x]
           exch == w \in Now(c, l)
           moved == c.mode = "dag" \/ (c.mode = "immediate" /\ l + 1 = Layers)
           aw2 == IF exch THEN [aw EXCEPT ![w] = Len(cs) + 1] ELSE aw
           cs2 == IF exch THEN Append(cs, Pull(w, l + 1)) ELSE cs
           tp2 == IF exch THEN Append(tp, [op |-> "send", window |-> w, layer |-> l + 1]) ELSE tp
           cur2 == IF moved THEN Without(cur, w) ELSE cur
           pend2 == IF moved THEN Append(pend, w) ELSE pend
<1>1. /\ c \in Configs /\ RankInv(r) /\ pc[r] = "layers" /\ cur # <<>> /\ ~ Started(r, w)
      /\ Functions
  BY DEF Inv, Compute, Turn
<1>2. /\ ScanAt(c, f, l, cur, pend, val, aw, cs) /\ l \in Nat /\ l < Layers /\ Layers \in Nat
      /\ BoundaryOK(c, r, f, l, aw, val)
  BY <1>1, ScanFrom
<1>3. ~ Started2(val, l, w)
  BY <1>1 DEF Started, Started2
<1>4. /\ w \in Scanned(c, f) /\ w \in Snapshots(c) /\ w \in Nat
      /\ ToSet(cur) = ToSet(Tail(cur)) \cup {w} /\ Without(cur, w) = Tail(cur)
  <2> HIDE DEF c, f, l, cur, pend, val, aw, cs
  <2> QED
    BY <1>1, <1>2, HeadOf
<1>5. exch <=> (l + 1 < Layers /\ NeedsExchange(r, w))
  BY <1>1, <1>4, ConfigState DEF Now
<1>6. /\ config' = config /\ pc'[r] = "layers" /\ first'[r] = f /\ layer'[r] = l /\ next'[r] = next[r]
      /\ carried'[r] = carried[r] /\ read'[r] = read[r] /\ reached'[r] = reached[r]
      /\ returned' = returned
  BY <1>1 DEF Compute, cell
<1>7. /\ value'[r] = val2 /\ awaited'[r] = aw2 /\ calls'[r] = cs2 /\ tape'[r] = tp2
      /\ current'[r] = cur2 /\ pending'[r] = pend2
  <2>1. /\ value' = [value EXCEPT ![r][w] = x]
        /\ IF l + 1 < Layers /\ NeedsExchange(r, w)
           THEN /\ calls' = [calls EXCEPT ![r] = Append(@, Pull(w, l + 1))]
                /\ tape' = [tape EXCEPT ![r] = Append(@, [op |-> "send", window |-> w, layer |-> l + 1])]
                /\ awaited' = [awaited EXCEPT ![r][w] = Len(calls[r]) + 1]
           ELSE UNCHANGED <<calls, tape, awaited>>
        /\ IF moved
           THEN /\ current' = [current EXCEPT ![r] = Without(@, w)]
                /\ pending' = [pending EXCEPT ![r] = Append(@, w)]
           ELSE UNCHANGED <<current, pending>>
    BY <1>1 DEF Compute, Turn, Enter, Record
  <2>2. value'[r] = val2
    BY <1>1, <2>1 DEF Functions
  <2>3. current'[r] = cur2 /\ pending'[r] = pend2
    BY <1>1, <2>1 DEF Functions
  <2>4. awaited'[r] = aw2 /\ calls'[r] = cs2 /\ tape'[r] = tp2
    <3>1. CASE exch
      BY <1>1, <1>5, <2>1, <3>1 DEF Functions
    <3>2. CASE ~ exch
      BY <1>1, <1>5, <2>1, <3>2
    <3> QED
      BY <3>1, <3>2
  <2> QED
    BY <2>2, <2>3, <2>4
<1>8. /\ TypesOK(c, val, aw, cs) /\ QueueOK(c, f, l, cur, pend, val)
      /\ Place(c, "layers", f, l, next[r])
      /\ IdleOK(c, "layers", f, cur, pend, val, aw)
      /\ CallsOK(c, "layers", f, cs) /\ TapeOK(c, "layers", l, aw, cs, tp)
      /\ CellOK(c, r, next[r], carried[r], read[r], reached[r])
  BY <1>1, <1>2 DEF ScanAt, RankInv
<1>9. exch => w \in Routed(c) /\ l + 1 \in Exchanged /\ Number(c, w, l + 1) = Len(cs) + 1
  <2>1. exch => Number(c, w, l + 1) = Len(cs) + 1
    BY <1>1, <1>2, <1>3, HeadNumber
  <2>2. exch => w \in Routed(c) /\ l + 1 \in Exchanged
    BY <1>2 DEF Now, Exchanged
  <2> QED
    BY <2>1, <2>2
<1>10. /\ val2[w] = x /\ \A u \in Snapshots(c) : u # w => val2[u] = val[u]
       /\ exch => aw2[w] = Len(cs) + 1
       /\ \A u \in Snapshots(c) : u # w => aw2[u] = aw[u]
       /\ ~ exch => aw2 = aw
  <2>1. DOMAIN val = Snapshots(c) /\ DOMAIN aw = Snapshots(c)
    BY <1>8 DEF TypesOK
  <2> QED
    BY <1>4, <2>1
<1>11. /\ cs \in Seq(Calls) /\ Len(cs) \in Nat /\ cs2 \in Seq(Calls)
       /\ Len(cs2) = IF exch THEN Len(cs) + 1 ELSE Len(cs)
       /\ \A n \in DOMAIN cs2 : \/ n \in DOMAIN cs /\ cs2[n] = cs[n]
                                \/ exch /\ n = Len(cs) + 1 /\ cs2[n] = Pull(w, l + 1)
  <2>1. cs \in Seq(Calls)
    BY <1>8 DEF TypesOK
  <2>2. Pull(w, l + 1) \in Calls
    BY <1>2, <1>4 DEF Pull, Calls
  <2> DEFINE y == Pull(w, l + 1)
             a == Append(cs, y)
  <2>3. /\ a \in Seq(Calls) /\ Len(a) = Len(cs) + 1 /\ DOMAIN a = 1 .. Len(cs) + 1
        /\ DOMAIN cs = 1 .. Len(cs) /\ Len(cs) \in Nat
        /\ (\A i \in DOMAIN cs : a[i] = cs[i]) /\ a[Len(cs) + 1] = y
    BY <2>1, <2>2, Appended
  <2>4. cs2 = IF exch THEN a ELSE cs
    OBVIOUS
  <2> HIDE DEF a, exch, cs2, cs
  <2>5. CASE exch
    <3>1. \A n \in DOMAIN a : n \in DOMAIN cs \/ n = Len(cs) + 1
      BY <2>3
    <3> HIDE DEF y
    <3>2. \A n \in DOMAIN a : (n \in DOMAIN cs /\ a[n] = cs[n]) \/ (n = Len(cs) + 1 /\ a[n] = y)
      BY <2>3, <3>1
    <3> QED
      BY <2>1, <2>3, <2>4, <2>5, <3>2 DEF y
  <2>6. CASE ~ exch
    BY <2>1, <2>3, <2>4, <2>6
  <2> QED
    BY <2>5, <2>6
<1> HIDE DEF val2, aw2, cs2
<1>12. TypesOK(c, val2, aw2, cs2)
  <2>1. l + 1 \in 0 .. Layers
    BY <1>2
  <2>2. x \in [layer : 0 .. Layers, boundary : SUBSET (Rank \X Calls)]
    BY <2>1 DEF Local
  <2>3. val2 \in [Snapshots(c) -> [layer : 0 .. Layers, boundary : SUBSET (Rank \X Calls)]]
    BY <1>8, <2>2 DEF TypesOK, val2
  <2>4. aw2 \in [Snapshots(c) -> Nat]
    <3>1. aw \in [Snapshots(c) -> Nat]
      BY <1>8 DEF TypesOK
    <3>2. CASE exch
      <4>1. Len(cs) + 1 \in Nat
        BY <1>11
      <4> HIDE DEF aw, cs, w
      <4>2. aw2 = [aw EXCEPT ![w] = Len(cs) + 1]
        BY <3>2 DEF aw2
      <4> QED
        BY <3>1, <4>1, <4>2
    <3>3. CASE ~ exch
      BY <3>1, <3>3 DEF aw2
    <3> QED
      BY <3>2, <3>3
  <2>5. \A u \in Snapshots(c) : aw2[u] <= Len(cs2)
    <3> SUFFICES ASSUME NEW u \in Snapshots(c) PROVE aw2[u] <= Len(cs2)
      OBVIOUS
    <3>1. aw[u] <= Len(cs) /\ aw[u] \in Nat
      BY <1>8 DEF TypesOK
    <3> HIDE DEF exch
    <3> QED
      BY <1>10, <1>11, <3>1
  <2> QED
    BY <1>11, <2>3, <2>4, <2>5 DEF TypesOK
<1>13. QueueOK(c, f, l, cur2, pend2, val2)
  <2>1. x.layer = l + 1
    OBVIOUS
  <2> QED
    BY <1>1, <1>2, <1>3, <2>1, ComputeQueue DEF val2
<1>14. WaitOK(c, f, l, cur2, pend2, val2, aw2)
  <2>1. x.layer = l + 1
    OBVIOUS
  <2>2. ToSet(cur2) \cup ToSet(pend2) = ToSet(cur) \cup ToSet(pend)
    <3>1. ToSet(Append(pend, w)) = ToSet(pend) \cup {w}
      BY <1>4, <1>8, Appended DEF QueueOK
    <3> QED
      BY <1>4, <3>1
  <2>3. /\ exch => WaitOK(c, f, l, cur2, pend2, val2, [aw EXCEPT ![w] = Len(cs) + 1])
        /\ ~ exch => WaitOK(c, f, l, cur2, pend2, val2, aw)
    <3> HIDE DEF cur2, pend2, x
    <3> QED
      BY <1>1, <1>2, <1>3, <2>1, <2>2, ComputeWait DEF val2
  <2> QED
    BY <2>3 DEF aw2
<1>15. CountOK(c, f, l, val2, cs2)
  <2>1. x.layer = l + 1
    OBVIOUS
  <2> HIDE DEF x
  <2> QED
    BY <1>1, <1>2, <1>3, <1>11, <2>1, ComputeCount DEF val2
<1>16. IdleOK(c, "layers", f, cur2, pend2, val2, aw2)
  <2>1. \A u \in Snapshots(c) \ Scanned(c, f) : val2[u] = val[u] /\ aw2[u] = aw[u]
    BY <1>4, <1>10
  <2> QED
    BY <1>8, <2>1 DEF IdleOK
<1>17. CallsOK(c, "layers", f, cs2)
  <2> SUFFICES ASSUME NEW n \in DOMAIN cs2 PROVE CallAt(c, cs2[n], n)
    BY DEF CallsOK
  <2>1. CASE n \in DOMAIN cs /\ cs2[n] = cs[n]
    BY <1>8, <2>1 DEF CallsOK
  <2>2. CASE exch /\ n = Len(cs) + 1 /\ cs2[n] = Pull(w, l + 1)
    BY <1>9, <2>2 DEF CallAt
  <2> QED
    BY <1>11, <2>1, <2>2
<1>18. TapeOK(c, "layers", l, aw2, cs2, tp2)
  <2>1. CASE exch
    BY <1>1, <1>2, <1>3, <1>8, <1>11, <2>1, ComputeTape DEF aw2
  <2>2. CASE ~ exch
    BY <1>8, <2>2 DEF aw2, cs2
  <2> QED
    BY <2>1, <2>2
<1>19. BoundaryOK(c, r, f, l, aw2, val2)
  <2> SUFFICES ASSUME NEW u \in Scanned(c, f), val2[u].layer # 0, val2[u].layer # Layers
               PROVE  IF Whole(c.window, u) /\ ~(val2[u].layer = l + 1 /\ aw2[u] # 0)
                      THEN val2[u].boundary = FromPeers(r, Pull(u, val2[u].layer))
                      ELSE val2[u].boundary = Local
    BY DEF BoundaryOK
  <2>1. CASE u = w
    <3>1. val2[w].layer = l + 1 /\ val2[w].boundary = Local
      BY <1>10
    <3>2. Whole(c.window, w) => exch
      <4>1. l + 1 < Layers
        BY <1>2, <2>1, <3>1
      <4> QED
        BY <1>4, <4>1 DEF Now, Routed
    <3>3. exch => aw2[w] # 0
      BY <1>10, <1>11
    <3> QED
      BY <2>1, <3>1, <3>2, <3>3
  <2>2. CASE u # w
    <3>1. u \in Snapshots(c)
      BY <1>1, <1>2, ScannedIs DEF ScanAt
    <3>2. val2[u] = val[u] /\ aw2[u] = aw[u]
      BY <1>10, <2>2, <3>1
    <3> QED
      BY <1>2, <3>2 DEF BoundaryOK
  <2> QED
    BY <2>1, <2>2
<1>20. CellOK(config, r, next[r], carried[r], read[r], reached[r])'
  BY <1>6, <1>8, CellStays
<1>21. BackOK(c, "layers", aw2, tp2)
  BY DEF BackOK
<1> HIDE DEF cur2, pend2, tp2
<1> QED
  BY <1>6, <1>7, <1>8, <1>12, <1>13, <1>14, <1>15, <1>16, <1>17, <1>18, <1>19, <1>20, <1>21
     DEF RankInv, ScanOK, RowsOK

\* Calls of all ranks are in place.
LEMMA CallsFrom ==
    ASSUME Inv
    PROVE  AllCalls
BY DEF Inv, RankInv, TypesOK, CallsOK, AllCalls

\* Resume, of one rank.
LEMMA ResumeStep ==
    ASSUME Widening, Inv, NEW r \in Rank, Resume(r)
    PROVE  RankInv(r)' /\ returned' = returned
<1> DEFINE c == config
           f == first[r]
           l == layer[r]
           cur == current[r]
           pend == pending[r]
           val == value[r]
           aw == awaited[r]
           cs == calls[r]
           tp == tape[r]
           w == Head(cur)
           n == aw[w]
           val2 == IF n = 0 THEN val ELSE [val EXCEPT ![w].boundary = Received(r, n)]
           aw2 == IF n = 0 THEN aw ELSE [aw EXCEPT ![w] = 0]
           tp2 == IF n = 0 THEN tp ELSE Append(tp, [op |-> "recv", window |-> w, layer |-> l + 1])
           cur2 == Without(cur, w)
<1>1. /\ c \in Configs /\ RankInv(r) /\ pc[r] = "layers" /\ cur # <<>> /\ Started(r, w)
      /\ Functions
  BY DEF Inv, Resume, Turn
<1>2. /\ ScanAt(c, f, l, cur, pend, val, aw, cs) /\ l \in Nat /\ l < Layers /\ Layers \in Nat
      /\ BoundaryOK(c, r, f, l, aw, val)
  BY <1>1, ScanFrom
<1>3. Started2(val, l, w)
  BY <1>1 DEF Started, Started2
<1>4. w \in Scanned(c, f) /\ w \in Snapshots(c) /\ w \in Nat /\ Scanned(c, f) \subseteq Snapshots(c)
  <2>1. Scanned(c, f) \subseteq Snapshots(c)
    BY <1>1, <1>2, ScannedIs DEF ScanAt
  <2> HIDE DEF c, f, l, cur, pend, val, aw, cs
  <2> QED
    BY <1>1, <1>2, <2>1, HeadOf
<1>5. /\ config' = config /\ pc'[r] = "layers" /\ first'[r] = f /\ layer'[r] = l /\ next'[r] = next[r]
      /\ carried'[r] = carried[r] /\ read'[r] = read[r] /\ reached'[r] = reached[r]
      /\ returned' = returned /\ calls'[r] = cs /\ pending'[r] = pend
  BY <1>1 DEF Resume, cell
<1>6. /\ value'[r] = val2 /\ awaited'[r] = aw2 /\ tape'[r] = tp2 /\ current'[r] = cur2
      /\ n = 0 \/ Entered(n)
  <2>1. /\ current' = [current EXCEPT ![r] = Without(@, w)]
        /\ IF n = 0
           THEN UNCHANGED <<value, tape, awaited>>
           ELSE /\ Entered(n)
                /\ value' = [value EXCEPT ![r][w].boundary = Received(r, n)]
                /\ tape' = [tape EXCEPT ![r] = Append(@, [op |-> "recv", window |-> w, layer |-> l + 1])]
                /\ awaited' = [awaited EXCEPT ![r][w] = 0]
    BY <1>1 DEF Resume, Turn, Record
  <2>2. CASE n = 0
    BY <1>1, <2>1, <2>2 DEF Functions
  <2>3. CASE n # 0
    BY <1>1, <2>1, <2>3 DEF Functions
  <2> QED
    BY <2>2, <2>3
<1>7. /\ TypesOK(c, val, aw, cs) /\ QueueOK(c, f, l, cur, pend, val)
      /\ Place(c, "layers", f, l, next[r])
      /\ IdleOK(c, "layers", f, cur, pend, val, aw)
      /\ CallsOK(c, "layers", f, cs) /\ TapeOK(c, "layers", l, aw, cs, tp)
      /\ CellOK(c, r, next[r], carried[r], read[r], reached[r])
  BY <1>1, <1>2 DEF ScanAt, RankInv
<1>8. /\ val \in [Snapshots(c) -> [layer : 0 .. Layers, boundary : SUBSET (Rank \X Calls)]]
      /\ aw \in [Snapshots(c) -> Nat] /\ \A u \in Snapshots(c) : aw[u] <= Len(cs)
      /\ cs \in Seq(Calls) /\ Len(cs) \in Nat
  BY <1>7 DEF TypesOK
<1>9. /\ aw2 \in [Snapshots(c) -> Nat] /\ aw2[w] = 0 /\ \A u \in Snapshots(c) : u # w => aw2[u] = aw[u]
  <2> HIDE DEF aw, w
  <2> QED
    BY <1>4, <1>8
<1>10. /\ \A u \in Snapshots(c) : u # w => val2[u] = val[u]
       /\ val2[w].layer = val[w].layer
       /\ n # 0 => val2[w].boundary = Received(r, n)
  <2> HIDE DEF val, w, n
  <2>1. val[w] \in [layer : 0 .. Layers, boundary : SUBSET (Rank \X Calls)] /\ DOMAIN val = Snapshots(c)
    BY <1>4, <1>8
  <2> QED
    BY <1>4, <2>1
<1> HIDE DEF val2, aw2, n
<1>11. /\ QueueOK(c, f, l, cur2, pend, val2)
       /\ WaitOK(c, f, l, cur2, pend, val2, aw2)
       /\ CountOK(c, f, l, val2, cs)
       /\ n # 0 => w \in Now(c, l) /\ n = Number(c, w, l + 1)
       /\ w \in Now(c, l) => n # 0
  <2>1. \A u \in Scanned(c, f) : val2[u].layer = val[u].layer
    BY <1>4, <1>10
  <2>2. \A u \in Scanned(c, f) : u # w => aw2[u] = aw[u]
    BY <1>4, <1>9
  <2> HIDE DEF c, f, l, cur, pend, val, aw, cs
  <2> QED
    BY <1>1, <1>2, <1>3, <1>9, <2>1, <2>2, ResumeScan DEF n
<1>12. n # 0 => Received(r, n) = FromPeers(r, Pull(w, l + 1))
  <2> SUFFICES ASSUME n # 0 PROVE Received(r, n) = FromPeers(r, Pull(w, l + 1))
    OBVIOUS
  <2>1. w \in Routed(c) /\ l + 1 \in Exchanged
    BY <1>2, <1>11 DEF Now, Exchanged
  <2>2. CallAt(c, Pull(w, l + 1), n)
    BY <1>11, <2>1 DEF CallAt
  <2>3. n \in Nat
    BY <1>4, <1>8 DEF n
  <2> QED
    BY <1>1, <1>6, <2>2, <2>3, CallsFrom, Delivered
<1>13. TypesOK(c, val2, aw2, cs)
  <2>1. \A u \in Snapshots(c) : aw2[u] <= Len(cs)
    <3> SUFFICES ASSUME NEW u \in Snapshots(c) PROVE aw2[u] <= Len(cs)
      OBVIOUS
    <3>1. CASE u = w
      BY <1>8, <1>9, <3>1
    <3>2. CASE u # w
      BY <1>8, <1>9, <3>2
    <3> QED
      BY <3>1, <3>2
  <2>2. val2 \in [Snapshots(c) -> [layer : 0 .. Layers, boundary : SUBSET (Rank \X Calls)]]
    <3>1. CASE n = 0
      BY <1>8, <3>1 DEF val2
    <3>2. CASE n # 0
      <4> DEFINE b == FromPeers(r, Pull(w, l + 1))
                 T == [layer : 0 .. Layers, boundary : SUBSET (Rank \X Calls)]
      <4>1. Pull(w, l + 1) \in Calls
        BY <1>2, <1>4 DEF Pull, Calls
      <4>2. b \in SUBSET (Rank \X Calls)
        BY <4>1 DEF FromPeers
      <4>3. val2 = [val EXCEPT ![w].boundary = b]
        BY <1>12, <3>2 DEF val2
      <4> HIDE DEF b, val, w
      <4>4. val[w] \in T
        BY <1>4, <1>8
      <4>5. [val[w] EXCEPT !.boundary = b] \in T
        BY <4>2, <4>4
      <4>6. val2 = [val EXCEPT ![w] = [val[w] EXCEPT !.boundary = b]]
        BY <4>3
      <4> HIDE DEF T
      <4>7. val \in [Snapshots(c) -> T]
        BY <1>8 DEF T
      <4>8. val2 \in [Snapshots(c) -> T]
        BY <1>4, <4>5, <4>6, <4>7
      <4> QED
        BY <4>8 DEF T
    <3> QED
      BY <3>1, <3>2
  <2> QED
    BY <1>8, <1>9, <2>1, <2>2 DEF TypesOK
<1>14. IdleOK(c, "layers", f, cur2, pend, val2, aw2)
  <2>1. \A u \in Snapshots(c) \ Scanned(c, f) : val2[u] = val[u] /\ aw2[u] = aw[u]
    BY <1>4, <1>9, <1>10
  <2> QED
    BY <1>7, <2>1 DEF IdleOK
<1>15. TapeOK(c, "layers", l, aw2, cs, tp2)
  <2>1. CASE n = 0
    BY <1>7, <2>1 DEF aw2
  <2>2. CASE n # 0
    <3>1. aw2 = [aw EXCEPT ![w] = 0] /\ aw[w] # 0
      BY <2>2 DEF aw2, n
    <3>2. tp2 = Append(tp, [op |-> "recv", window |-> w, layer |-> l + 1])
      BY <2>2
    <3> HIDE DEF c, f, l, cur, pend, val, aw, cs, tp, tp2
    <3> QED
      BY <1>1, <1>2, <1>3, <1>7, <3>1, <3>2, ResumeTape
  <2> QED
    BY <2>1, <2>2
<1>16. BoundaryOK(c, r, f, l, aw2, val2)
  <2> SUFFICES ASSUME NEW u \in Scanned(c, f), val2[u].layer # 0, val2[u].layer # Layers
               PROVE  IF Whole(c.window, u) /\ ~(val2[u].layer = l + 1 /\ aw2[u] # 0)
                      THEN val2[u].boundary = FromPeers(r, Pull(u, val2[u].layer))
                      ELSE val2[u].boundary = Local
    BY DEF BoundaryOK
  <2>0. u \in Snapshots(c)
    BY <1>4
  <2>1. CASE u = w /\ n # 0
    <3>1. val2[w].boundary = FromPeers(r, Pull(w, l + 1)) /\ aw2[w] = 0
      BY <1>9, <1>10, <1>12, <2>1
    <3>2. val[w].layer = l + 1
      <4>1. val[w].layer \in {l, l + 1}
        BY <1>2, <1>4 DEF ScanAt, WaitOK
      <4> QED
        BY <1>2, <1>3, <4>1 DEF Started2
    <3>3. Whole(c.window, w)
      BY <1>11, <2>1 DEF Now, Routed
    <3> QED
      BY <1>10, <2>1, <3>1, <3>2, <3>3
  <2>2. CASE u # w \/ n = 0
    <3>1. val2[u] = val[u] /\ aw2[u] = aw[u]
      BY <1>9, <1>10, <2>0, <2>2 DEF val2, aw2
    <3> QED
      BY <1>2, <3>1 DEF BoundaryOK
  <2> QED
    BY <2>1, <2>2
<1>17. CellOK(config, r, next[r], carried[r], read[r], reached[r])'
  BY <1>5, <1>7, CellStays
<1>18. BackOK(c, "layers", aw2, tp2)
  BY DEF BackOK
<1> HIDE DEF cur2, tp2
<1> QED
  BY <1>5, <1>6, <1>7, <1>11, <1>13, <1>14, <1>15, <1>16, <1>17, <1>18
     DEF RankInv, ScanOK, RowsOK

\* NextPass, of one rank.
LEMMA NextPassStep ==
    ASSUME Widening, Inv, NEW r \in Rank, NextPass(r)
    PROVE  RankInv(r)' /\ returned' = returned
<1> DEFINE c == config
           f == first[r]
           l == layer[r]
           cur == current[r]
           pend == pending[r]
           val == value[r]
           aw == awaited[r]
           cs == calls[r]
<1>1. c \in Configs /\ RankInv(r) /\ pc[r] = "layers" /\ cur = <<>> /\ Functions
  BY DEF Inv, NextPass
<1>2. ScanAt(c, f, l, cur, pend, val, aw, cs) /\ BoundaryOK(c, r, f, l, aw, val)
  BY <1>1, ScanFrom
<1>3. /\ config' = config /\ pc'[r] = "layers" /\ first'[r] = f /\ layer'[r] = l /\ next'[r] = next[r]
      /\ carried'[r] = carried[r] /\ read'[r] = read[r] /\ reached'[r] = reached[r]
      /\ returned' = returned /\ calls'[r] = cs /\ value'[r] = val /\ awaited'[r] = aw
      /\ tape'[r] = tape[r] /\ current'[r] = pend /\ pending'[r] = <<>>
  BY <1>1 DEF NextPass, cell, Functions
<1>4. /\ TypesOK(c, val, aw, cs) /\ Place(c, "layers", f, l, next[r])
      /\ IdleOK(c, "layers", f, cur, pend, val, aw)
      /\ CallsOK(c, "layers", f, cs) /\ TapeOK(c, "layers", l, aw, cs, tape[r])
      /\ CellOK(c, r, next[r], carried[r], read[r], reached[r])
  BY <1>1, <1>2 DEF ScanAt, RankInv
<1>5. /\ QueueOK(c, f, l, pend, <<>>, val) /\ WaitOK(c, f, l, pend, <<>>, val, aw)
      /\ CountOK(c, f, l, val, cs)
  <2> HIDE DEF c, f, l, cur, pend, val, aw, cs
  <2> QED
    BY <1>1, <1>2, PassScan
<1>6. IdleOK(c, "layers", f, pend, <<>>, val, aw)
  BY <1>4 DEF IdleOK
<1>7. CellOK(config, r, next[r], carried[r], read[r], reached[r])'
  BY <1>3, <1>4, CellStays
<1>8. BackOK(c, "layers", aw, tape[r])
  BY DEF BackOK
<1> QED
  BY <1>2, <1>3, <1>4, <1>5, <1>6, <1>7, <1>8 DEF RankInv, ScanOK, RowsOK

\* EndLayer, of one rank.
LEMMA EndLayerStep ==
    ASSUME Widening, Inv, NEW r \in Rank, EndLayer(r)
    PROVE  RankInv(r)' /\ returned' = returned
<1> DEFINE c == config
           f == first[r]
           l == layer[r]
           cur == current[r]
           pend == pending[r]
           val == value[r]
           aw == awaited[r]
           cs == calls[r]
           tp == tape[r]
<1>1. c \in Configs /\ RankInv(r) /\ pc[r] = "layers" /\ cur = <<>> /\ pend = <<>> /\ Functions
  BY DEF Inv, EndLayer
<1>2. /\ ScanAt(c, f, l, cur, pend, val, aw, cs) /\ l \in Nat /\ l < Layers /\ Layers \in Nat
      /\ BoundaryOK(c, r, f, l, aw, val)
  BY <1>1, ScanFrom
<1>3. /\ config' = config /\ first'[r] = f /\ layer'[r] = l + 1 /\ next'[r] = next[r]
      /\ carried'[r] = carried[r] /\ read'[r] = read[r] /\ reached'[r] = reached[r]
      /\ returned' = returned /\ calls'[r] = cs /\ value'[r] = val /\ awaited'[r] = aw
      /\ tape'[r] = tp /\ pending'[r] = <<>>
      /\ l + 1 < Layers => pc'[r] = "layers" /\ current'[r] = ScheduleOrder(r, f, l + 1)
      /\ ~ (l + 1 < Layers) => pc'[r] = "cell" /\ current'[r] = <<>>
  BY <1>1 DEF EndLayer, cell, Functions
<1>4. /\ TypesOK(c, val, aw, cs) /\ Place(c, "layers", f, l, next[r])
      /\ IdleOK(c, "layers", f, cur, pend, val, aw)
      /\ CallsOK(c, "layers", f, cs) /\ TapeOK(c, "layers", l, aw, cs, tp)
      /\ CellOK(c, r, next[r], carried[r], read[r], reached[r])
  BY <1>1, <1>2 DEF ScanAt, RankInv
<1>5. /\ \A w \in Scanned(c, f) : val[w].layer = l + 1 /\ aw[w] = 0
      /\ Len(cs) = Prior(c, f, l + 1)
  <2> HIDE DEF c, f, l, cur, pend, val, aw, cs
  <2> QED
    BY <1>1, <1>2, EndScan
<1>6. \A w \in Snapshots(c) : aw[w] = 0
  BY <1>4, <1>5 DEF IdleOK
<1>7. CellOK(config, r, next[r], carried[r], read[r], reached[r])'
  BY <1>3, <1>4, CellStays
<1>8. GroupAt(c, f) /\ Scanned(c, f) \subseteq Snapshots(c) /\ \A w \in Routed(c) : w \in Snapshots(c)
  BY <1>1, <1>2, ScannedIs DEF ScanAt, Routed
<1>9. \A p \in {"layers", "cell"} : TapeOK(c, p, l + 1, aw, cs, tp)
  <2> SUFFICES ASSUME NEW p \in {"layers", "cell"} PROVE TapeOK(c, p, l + 1, aw, cs, tp)
    OBVIOUS
  <2>1. TapeTyped(c, p, cs, tp)
    BY <1>4 DEF TapeOK, TapeTyped
  <2>2. AwaitedSent(c, p, l + 1, aw, tp)
    BY <1>6, <1>8 DEF AwaitedSent
  <2>3. ReceivesRecorded(c, p, l + 1, aw, cs, tp)
    <3>1. \A w \in Routed(c), k \in Exchanged :
             Got(c, p, l + 1, aw, cs, w, k) <=> Got(c, "layers", l, aw, cs, w, k)
      BY <1>6, <1>8 DEF Got
    <3> QED
      BY <1>4, <3>1 DEF TapeOK, ReceivesRecorded
  <2> QED
    BY <1>4, <2>1, <2>2, <2>3 DEF TapeOK
<1>10. CASE l + 1 < Layers
  <2>1. l + 1 \in 0 .. Layers - 1
    BY <1>2, <1>10
  <2>2. /\ QueueOK(c, f, l + 1, ScheduleOrder(r, f, l + 1), <<>>, val)
        /\ WaitOK(c, f, l + 1, ScheduleOrder(r, f, l + 1), <<>>, val, aw)
        /\ CountOK(c, f, l + 1, val, cs)
    <3> HIDE DEF f, l, val, aw, cs
    <3> QED
      BY <1>1, <1>5, <1>8, <2>1, FreshScan
  <2>3. IdleOK(c, "layers", f, ScheduleOrder(r, f, l + 1), <<>>, val, aw)
    BY <1>4 DEF IdleOK
  <2>4. Place(c, "layers", f, l + 1, next[r])
    <3>1. l + 1 \in 0 .. Layers
      BY <1>2
    <3> QED
      BY <1>4, <1>10, <3>1 DEF Place
  <2>5. BoundaryOK(c, r, f, l + 1, aw, val)
    <3> SUFFICES ASSUME NEW w \in Scanned(c, f), val[w].layer # 0, val[w].layer # Layers
                 PROVE  IF Whole(c.window, w) /\ ~(val[w].layer = l + 1 + 1 /\ aw[w] # 0)
                        THEN val[w].boundary = FromPeers(r, Pull(w, val[w].layer))
                        ELSE val[w].boundary = Local
      BY DEF BoundaryOK
    <3>1. aw[w] = 0
      BY <1>5
    <3> QED
      BY <1>2, <3>1 DEF BoundaryOK
  <2>6. BackOK(c, "layers", aw, tp)
    BY DEF BackOK
  <2> QED
    BY <1>3, <1>4, <1>7, <1>9, <1>10, <2>2, <2>3, <2>4, <2>5, <2>6 DEF RankInv, ScanOK, RowsOK
<1>11. CASE ~ (l + 1 < Layers)
  <2>1. l + 1 = Layers /\ Layers \in Nat
    BY <1>2, <1>11
  <2>2. Place(c, "cell", f, l + 1, next[r])
    <3>1. f <= c.window /\ l + 1 \in 0 .. Layers
      BY <1>1, <1>8, <2>1, ConfigIs DEF GroupAt, Snapshots
    <3> QED
      BY <1>4, <2>1, <3>1 DEF Place
  <2>3. IdleOK(c, "cell", f, <<>>, <<>>, val, aw)
    BY <1>4, <1>5, <1>6, <2>1 DEF IdleOK
  <2>4. CallsOK(c, "cell", f, cs)
    BY <1>4, <1>5, <2>1 DEF CallsOK
  <2>5. BackOK(c, "cell", aw, tp) /\ ScanOK(c, "cell", f, l + 1, <<>>, <<>>, val, aw, cs)
        /\ RowsOK(c, "cell", r, f, l + 1, aw, val)
    BY DEF BackOK, ScanOK, RowsOK
  <2> QED
    BY <1>3, <1>4, <1>7, <1>9, <1>11, <2>2, <2>3, <2>4, <2>5 DEF RankInv
<1> QED
  BY <1>10, <1>11

\* The tape does not tell the stages of the scan apart while nothing is awaited.
LEMMA TapeMoves ==
    ASSUME NEW c, NEW p \in {"layers", "cell", "loss"}, NEW q \in {"layers", "cell", "loss"},
           NEW l, NEW k, NEW aw, NEW cs, NEW tp,
           TapeOK(c, p, l, aw, cs, tp), \A w \in Routed(c) : aw[w] = 0
    PROVE  TapeOK(c, q, k, aw, cs, tp)
<1>1. TapeTyped(c, q, cs, tp)
  BY DEF TapeOK, TapeTyped
<1>2. AwaitedSent(c, q, k, aw, tp)
  BY DEF AwaitedSent
<1>3. ReceivesRecorded(c, q, k, aw, cs, tp)
  <2>1. \A w \in Routed(c), m \in Exchanged :
           Got(c, q, k, aw, cs, w, m) <=> Got(c, p, l, aw, cs, w, m)
    BY DEF Got
  <2> QED
    BY <2>1 DEF TapeOK, ReceivesRecorded
<1> QED
  BY <1>1, <1>2, <1>3 DEF TapeOK

\* The recurrent cell reads the state of each node and passes the gradient on.
LEMMA CellMoves ==
    ASSUME Widening, OwnsRows, config \in Configs, NEW r \in Rank, NEW w \in Snapshots(config),
           CellOK(config, r, w, carried[r], read[r], reached[r])
    PROVE  CellOK(config, r, w + 1, States(Layout(r, w).nodes, w),
                  Append(read[r], PreviousState(r, w)),
                  IF DependsOnCarried(r, w) THEN reached[r] \cup {w} ELSE {w})
<1> DEFINE B == Begin(config.window)
           rd == read[r]
           s == PreviousState(r, w)
           rd2 == Append(rd, s)
           rea2 == IF DependsOnCarried(r, w) THEN reached[r] \cup {w} ELSE {w}
           car2 == States(Layout(r, w).nodes, w)
<1>1. B \in Nat /\ w \in Nat /\ B <= w /\ w <= config.window /\ config.window \in Nat
  BY ConfigIs DEF Snapshots
<1>2. /\ w = B => carried[r] = <<>>
      /\ w > B => carried[r] = States(Layout(r, w - 1).nodes, w - 1)
      /\ rd \in Seq(ToSet(rd)) /\ Len(rd) = w - B
      /\ \A i \in DOMAIN rd : ReadAs(config, r, i, rd[i])
      /\ reached[r] \subseteq Snapshots(config)
      /\ \A u \in Routed(config) : u < w => u \in reached[r]
  BY DEF CellOK
<1>3. ReadAs(config, r, w - B + 1, s)
  BY <1>2, CellReads
<1>4. /\ rd2 \in Seq(ToSet(rd2)) /\ Len(rd2) = w - B + 1 /\ DOMAIN rd2 = 1 .. w - B + 1
      /\ \A i \in DOMAIN rd : rd2[i] = rd[i]
      /\ rd2[w - B + 1] = s /\ DOMAIN rd = 1 .. w - B
  <2> DEFINE S == ToSet(rd) \cup {s}
  <2> HIDE DEF s, rd
  <2>1. rd \in Seq(S)
    BY <1>2
  <2>2. /\ rd2 \in Seq(S) /\ Len(rd2) = Len(rd) + 1
        /\ DOMAIN rd2 = 1 .. Len(rd) + 1 /\ DOMAIN rd = 1 .. Len(rd)
        /\ (\A i \in DOMAIN rd : rd2[i] = rd[i]) /\ rd2[Len(rd) + 1] = s
        /\ ToSet(rd2) = ToSet(rd) \cup {s}
    BY <2>1, Appended
  <2> QED
    BY <1>1, <1>2, <2>2
<1> HIDE DEF rd2, s
<1>5. ASSUME NEW i \in DOMAIN rd2 PROVE ReadAs(config, r, i, rd2[i])
  <2>1. CASE i = w - B + 1
    BY <1>3, <1>4, <2>1
  <2>2. CASE i # w - B + 1
    <3>1. i \in DOMAIN rd
      BY <1>1, <1>4, <1>5, <2>2
    <3> QED
      BY <1>2, <1>4, <3>1
  <2> QED
    BY <2>1, <2>2
<1>6. \A u \in Routed(config) : u < w + 1 => u \in rea2
  <2> SUFFICES ASSUME NEW u \in Routed(config), u < w + 1 PROVE u \in rea2
    OBVIOUS
  <2>1. u \in Nat /\ u >= B
    BY <1>1 DEF Routed, Snapshots
  <2>2. CASE u = w
    BY <2>2
  <2>3. CASE u # w
    <3>1. u < w /\ w - 1 \in Snapshots(config) /\ u <= w - 1 /\ w > B
      BY <1>1, <2>1, <2>3 DEF Snapshots
    <3>2. w - 1 \in Routed(config)
      <4>1. /\ Start(config) \in Nat /\ (\A v \in Snapshots(config) : v \in Nat /\ (v \in Routed(config) <=> Start(config) <= v))
            /\ u \in Snapshots(config)
        BY Sizes
      <4> QED
        BY <3>1, <4>1
    <3>3. Rows[r] # <<>> /\ Whole(config.window, w - 1)
      BY <3>2 DEF OwnsRows, Routed
    <3>4. Layout(r, w - 1).nodes # <<>> /\ Layout(r, w - 1).nodes \in Seq(Nat)
      BY <3>3, LayoutIs
    <3>5. carried[r] # <<>>
      <4> DEFINE a == Layout(r, w - 1).nodes
      <4>1. a # <<>> /\ a \in Seq(Nat)
        BY <3>4
      <4>2. carried[r] = [i \in DOMAIN a |-> [node |-> a[i], window |-> w - 1]]
        BY <1>2, <3>1 DEF States
      <4> HIDE DEF a
      <4>3. 1 \in DOMAIN a
        BY <4>1
      <4>4. DOMAIN carried[r] = DOMAIN a
        BY <4>2
      <4> QED
        BY <4>3, <4>4
    <3>6. DependsOnCarried(r, w)
      BY <3>1, <3>5 DEF DependsOnCarried
    <3> QED
      BY <1>2, <3>1, <3>6
  <2> QED
    BY <2>2, <2>3
<1>7. rea2 \subseteq Snapshots(config)
  BY <1>2
<1> HIDE DEF rea2
<1>8. /\ w + 1 = B => car2 = <<>>
      /\ w + 1 > B => car2 = States(Layout(r, w + 1 - 1).nodes, w + 1 - 1)
  <2>1. w + 1 # B /\ w + 1 - 1 = w
    BY <1>1
  <2> QED
    BY <2>1
<1>9. Len(rd2) = w + 1 - B
  BY <1>1, <1>4
<1>10. rd2 \in Seq(ToSet(rd2))
  BY <1>4
<1> HIDE DEF car2
<1>11. CellOK(config, r, w + 1, car2, rd2, rea2)
  <2> DEFINE n == w + 1
  <2>1. /\ n = B => car2 = <<>>
        /\ n > B => car2 = States(Layout(r, n - 1).nodes, n - 1)
        /\ Len(rd2) = n - B
        /\ \A u \in Routed(config) : u < n => u \in rea2
    <3>1. n = B => car2 = <<>>
      BY <1>8
    <3>2. n > B => car2 = States(Layout(r, n - 1).nodes, n - 1)
      <4>1. n - 1 = w + 1 - 1
        BY <1>1
      <4> QED
        BY <1>8, <4>1
    <3>3. Len(rd2) = n - B
      BY <1>1, <1>9
    <3>4. \A u \in Routed(config) : u < n => u \in rea2
      BY <1>6
    <3> QED
      BY <3>1, <3>2, <3>3, <3>4
  <2> HIDE DEF n
  <2>2. CellOK(config, r, n, car2, rd2, rea2)
    BY <1>5, <1>7, <1>10, <2>1 DEF CellOK
  <2> QED
    BY <2>2 DEF n
<1> QED
  BY <1>11 DEF car2, rd2, rea2, s

\* The same of the next state, when the configuration stays.
LEMMA CellPrimed ==
    ASSUME config' = config, NEW r \in Rank, NEW n, NEW car, NEW rd, NEW rea,
           next'[r] = n, carried'[r] = car, read'[r] = rd, reached'[r] = rea,
           CellOK(config, r, n, car, rd, rea)
    PROVE  CellOK(config, r, next[r], carried[r], read[r], reached[r])'
<1>1. \A w : Layout(r, w)' = Layout(r, w)
  BY LayoutStays
<1>2. \A i, s : ReadAs(config, r, i, s)' <=> ReadAs(config, r, i, s)
  BY <1>1 DEF ReadAs
<1> QED
  BY <1>1, <1>2 DEF CellOK

\* Update, of one rank.
LEMMA UpdateStep ==
    ASSUME Widening, OwnsRows, Inv, NEW r \in Rank, Update(r)
    PROVE  RankInv(r)' /\ returned' = returned
<1> DEFINE c == config
           f == first[r]
           w == next[r]
           val == value[r]
           aw == awaited[r]
           cs == calls[r]
           tp == tape[r]
           car2 == States(Layout(r, w).nodes, w)
           rd2 == Append(read[r], PreviousState(r, w))
           rea2 == IF DependsOnCarried(r, w) THEN reached[r] \cup {w} ELSE {w}
<1>1. c \in Configs /\ RankInv(r) /\ pc[r] = "cell" /\ Functions
  BY DEF Inv, Update
<1>2. /\ layer[r] = Layers /\ w \in Begin(c.window) .. c.window /\ f \in Snapshots(c)
      /\ Sequential(c) => w = f
      /\ ~ Sequential(c) => f = Begin(c.window)
      /\ Place(c, "cell", f, Layers, w)
  BY <1>1, ConfigIs DEF RankInv, Place
<1>3. w \in Snapshots(c) /\ w \in Nat /\ c.window \in Nat /\ Begin(c.window) \in 0 .. c.window
      /\ Layers \in Nat /\ Layers >= 1 /\ f \in Nat /\ GroupAt(c, f)
  BY <1>1, <1>2, ConfigIs DEF Snapshots, GroupAt
<1>4. /\ TypesOK(c, val, aw, cs) /\ IdleOK(c, "cell", f, current[r], pending[r], val, aw)
      /\ CallsOK(c, "cell", f, cs) /\ TapeOK(c, "cell", Layers, aw, cs, tp)
      /\ CellOK(c, r, w, carried[r], read[r], reached[r])
  BY <1>1, <1>2 DEF RankInv
<1>5. /\ config' = config /\ calls'[r] = cs /\ value'[r] = val /\ awaited'[r] = aw /\ tape'[r] = tp
      /\ pending'[r] = pending[r] /\ returned' = returned
  BY <1>1 DEF Update
<1>6. next'[r] = w + 1 /\ carried'[r] = car2 /\ read'[r] = rd2 /\ reached'[r] = rea2
  BY <1>1 DEF Update, Functions, States
<1>7. /\ w < c.window /\ Sequential(c) =>
            /\ pc'[r] = "layers" /\ first'[r] = w + 1 /\ layer'[r] = 0
            /\ current'[r] = ScheduleOrder(r, w + 1, 0)
      /\ w < c.window /\ ~ Sequential(c) =>
            /\ pc'[r] = "cell" /\ first'[r] = f /\ layer'[r] = Layers /\ current'[r] = current[r]
      /\ ~ (w < c.window) =>
            /\ pc'[r] = "loss" /\ first'[r] = f /\ layer'[r] = Layers /\ current'[r] = current[r]
  BY <1>1, <1>2 DEF Update, Functions, Sequential
<1>8. CellOK(config, r, next[r], carried[r], read[r], reached[r])'
  <2>1. CellOK(c, r, w + 1, car2, rd2, rea2)
    BY <1>1, <1>3, <1>4, CellMoves
  <2> HIDE DEF car2, rd2, rea2, w
  <2> QED
    BY <1>5, <1>6, <2>1, CellPrimed
<1>9. /\ current[r] = <<>> /\ pending[r] = <<>>
      /\ \A u \in Snapshots(c) : aw[u] = 0
      /\ \A u \in Scanned(c, f) : val[u].layer = Layers
      /\ \A u \in Snapshots(c) \ Scanned(c, f) : val[u].layer = IF u < f THEN Layers ELSE 0
  BY <1>4 DEF IdleOK
<1>10. \A u \in Routed(c) : aw[u] = 0
  BY <1>9 DEF Routed
<1>11. \A q \in {"layers", "cell", "loss"}, k \in {0, Layers} : TapeOK(c, q, k, aw, cs, tp)
  BY <1>4, <1>10, TapeMoves
<1> HIDE DEF car2, rd2, rea2
<1>12. CASE w < c.window /\ Sequential(c)
  <2> DEFINE g == w + 1
  <2>1. g \in Snapshots(c) /\ GroupAt(c, g) /\ w = f /\ g \in Nat
    BY <1>2, <1>3, <1>12 DEF Snapshots, GroupAt
  <2>2. Len(cs) = Prior(c, g, 0)
    <3>1. Len(cs) = Prior(c, f, Layers)
      BY <1>4 DEF CallsOK
    <3>2. Prior(c, f + 1, 0) = Prior(c, f, Layers)
      BY <1>1, <1>2, <1>3, <1>12, GroupNumbers
    <3> QED
      BY <2>1, <3>1, <3>2
  <2>3. Scanned(c, f) = {f} /\ Scanned(c, g) = {g}
    BY <1>12 DEF Scanned
  <2>4. val[g].layer = 0 /\ aw[g] = 0
    <3>1. g \notin Scanned(c, f) /\ ~ (g < f)
      BY <1>3, <2>1, <2>3
    <3> QED
      BY <1>9, <2>1, <3>1
  <2> HIDE DEF g
  <2>5. /\ QueueOK(c, g, 0, ScheduleOrder(r, g, 0), <<>>, val)
        /\ WaitOK(c, g, 0, ScheduleOrder(r, g, 0), <<>>, val, aw)
        /\ CountOK(c, g, 0, val, cs)
    <3>1. 0 \in 0 .. Layers - 1
      BY <1>3
    <3>2. \A u \in Scanned(c, g) : val[u].layer = 0 /\ aw[u] = 0
      BY <2>3, <2>4
    <3> HIDE DEF val, aw, cs
    <3> QED
      BY <1>1, <2>1, <2>2, <3>1, <3>2, FreshScan
  <2>6. Place(c, "layers", g, 0, g)
    BY <1>3, <1>12, <2>1 DEF Place, Snapshots
  <2>7. IdleOK(c, "layers", g, ScheduleOrder(r, g, 0), <<>>, val, aw)
    <3> SUFFICES ASSUME NEW u \in Snapshots(c), u \notin Scanned(c, g)
                 PROVE  val[u].layer = IF u < g THEN Layers ELSE 0
      BY <1>9 DEF IdleOK
    <3>1. u \in Nat
      BY <1>3 DEF Snapshots
    <3>2. CASE u = f
      <4>1. u < g
        BY <1>3, <2>1, <3>2 DEF g
      <4> QED
        BY <1>9, <2>3, <3>2, <4>1
    <3>3. CASE u # f
      <4>1. u < g <=> u < f
        BY <1>3, <2>1, <2>3, <3>1, <3>3 DEF g
      <4>2. u \notin Scanned(c, f)
        BY <2>3, <3>3
      <4> QED
        BY <1>9, <4>1, <4>2
    <3> QED
      BY <3>2, <3>3
  <2>8. RowsOK(c, "layers", r, g, 0, aw, val)
    BY <2>3, <2>4 DEF RowsOK, BoundaryOK
  <2>9. CallsOK(c, "layers", g, cs) /\ BackOK(c, "layers", aw, tp)
    BY <1>4 DEF CallsOK, BackOK
  <2>10. ScanOK(c, "layers", g, 0, ScheduleOrder(r, g, 0), <<>>, val, aw, cs)
    BY <2>5 DEF ScanOK
  <2>11. /\ pc'[r] = "layers" /\ first'[r] = g /\ layer'[r] = 0 /\ next'[r] = g
         /\ current'[r] = ScheduleOrder(r, g, 0) /\ pending'[r] = <<>>
    BY <1>5, <1>6, <1>7, <1>9, <1>12 DEF g
  <2> QED
    BY <1>4, <1>5, <1>8, <1>11, <2>6, <2>7, <2>8, <2>9, <2>10, <2>11 DEF RankInv
<1>13. CASE w < c.window /\ ~ Sequential(c)
  <2>1. w + 1 \in Begin(c.window) .. c.window + 1 /\ w + 1 <= c.window
    BY <1>2, <1>3, <1>13
  <2>2. Place(c, "cell", f, Layers, w + 1)
    BY <1>2, <1>13, <2>1 DEF Place
  <2>3. BackOK(c, "cell", aw, tp) /\ RowsOK(c, "cell", r, f, Layers, aw, val)
        /\ ScanOK(c, "cell", f, Layers, current[r], pending[r], val, aw, cs)
    BY DEF BackOK, RowsOK, ScanOK
  <2> QED
    BY <1>4, <1>5, <1>6, <1>7, <1>8, <1>11, <1>13, <2>2, <2>3 DEF RankInv
<1>14. CASE ~ (w < c.window)
  <2>1. w = c.window /\ w + 1 \in Begin(c.window) .. c.window + 1
    BY <1>2, <1>3, <1>14
  <2>2. Place(c, "loss", f, Layers, w + 1)
    BY <1>2, <1>3, <2>1 DEF Place
  <2>3. CallsOK(c, "loss", f, cs)
    <3>1. Len(cs) = Total(c)
      <4>1. Len(cs) = Prior(c, f, Layers)
        BY <1>4 DEF CallsOK
      <4>2. Prior(c, f, Layers) = Total(c)
        BY <1>1, <1>2, <1>3, <2>1, GroupNumbers
      <4> QED
        BY <4>1, <4>2
    <3> QED
      BY <1>4, <3>1 DEF CallsOK
  <2>4. IdleOK(c, "loss", f, current[r], pending[r], val, aw)
    BY <1>4 DEF IdleOK
  <2>5. BackOK(c, "loss", aw, tp) /\ RowsOK(c, "loss", r, f, Layers, aw, val)
        /\ ScanOK(c, "loss", f, Layers, current[r], pending[r], val, aw, cs)
    BY DEF BackOK, RowsOK, ScanOK
  <2> QED
    BY <1>4, <1>5, <1>6, <1>7, <1>8, <1>11, <1>14, <2>2, <2>3, <2>4, <2>5 DEF RankInv
<1> QED
  BY <1>12, <1>13, <1>14

\* What a rank not in the layers holds.
LEMMA OutOfLayers ==
    ASSUME NEW r \in Rank, config \in Configs, RankInv(r), pc[r] \in {"loss", "backward"}
    PROVE  /\ layer[r] = Layers /\ current[r] = <<>> /\ pending[r] = <<>>
           /\ next[r] = config.window + 1
           /\ TypesOK(config, value[r], awaited[r], calls[r])
           /\ CallsOK(config, pc[r], first[r], calls[r])
           /\ TapeOK(config, pc[r], Layers, awaited[r], calls[r], tape[r])
           /\ BackOK(config, pc[r], awaited[r], tape[r])
           /\ CellOK(config, r, next[r], carried[r], read[r], reached[r])
           /\ \A p \in {"backward", "done"} : Place(config, p, first[r], Layers, next[r])
           /\ \A p \in {"backward", "done"} : \A aw :
                 IdleOK(config, p, first[r], <<>>, <<>>, value[r], aw)
           /\ \A p \in {"backward", "done"} : \A aw, cs : ScanOK(config, p, first[r], Layers, <<>>, <<>>, value[r], aw, cs)
           /\ \A p \in {"backward", "done"} : \A aw : RowsOK(config, p, r, first[r], Layers, aw, value[r])
<1>1. layer[r] = Layers /\ Place(config, pc[r], first[r], layer[r], next[r])
  BY DEF RankInv, Place
<1>2. next[r] = config.window + 1 /\ current[r] = <<>> /\ pending[r] = <<>>
  BY DEF RankInv, Place, IdleOK
<1>3. \A p \in {"backward", "done"} : Place(config, p, first[r], Layers, next[r])
  BY <1>1, <1>2 DEF Place
<1>4. \A p \in {"backward", "done"} : \A aw :
         IdleOK(config, p, first[r], <<>>, <<>>, value[r], aw)
  BY DEF RankInv, IdleOK
<1>5. \A p \in {"backward", "done"} : \A aw, cs : ScanOK(config, p, first[r], Layers, <<>>, <<>>, value[r], aw, cs)
  BY DEF ScanOK
<1>6. \A p \in {"backward", "done"} : \A aw : RowsOK(config, p, r, first[r], Layers, aw, value[r])
  BY DEF RowsOK
<1> QED
  BY <1>1, <1>2, <1>3, <1>4, <1>5, <1>6 DEF RankInv

\* Loss, of one rank: the gradient reaches every snapshot that was exchanged.
LEMMA LossStep ==
    ASSUME Widening, Inv, NEW r \in Rank, Loss(r)
    PROVE  RankInv(r)' /\ returned' = returned
<1> DEFINE c == config
           aw == awaited[r]
           cs == calls[r]
           tp == tape[r]
<1>1. c \in Configs /\ RankInv(r) /\ pc[r] = "loss" /\ Functions
  BY DEF Inv, Loss
<1>2. /\ layer[r] = Layers /\ current[r] = <<>> /\ pending[r] = <<>> /\ next[r] = c.window + 1
      /\ TypesOK(c, value[r], aw, cs) /\ CallsOK(c, "loss", first[r], cs)
      /\ TapeOK(c, "loss", Layers, aw, cs, tp)
      /\ CellOK(c, r, next[r], carried[r], read[r], reached[r])
      /\ Place(c, "backward", first[r], Layers, next[r])
      /\ IdleOK(c, "backward", first[r], <<>>, <<>>, value[r], aw)
      /\ ScanOK(c, "backward", first[r], Layers, <<>>, <<>>, value[r], aw, cs)
      /\ RowsOK(c, "backward", r, first[r], Layers, aw, value[r])
  BY <1>1, OutOfLayers
<1>3. \A w \in Routed(c) : w \in LossReaches(r)
  <2>1. \A w \in Routed(c) : w \in Window /\ w < c.window + 1
    BY <1>1, ConfigIs DEF Routed, Snapshots, Window
  <2>2. \A w \in Routed(c) : w \in reached[r]
    BY <1>2, <2>1 DEF CellOK
  <2> QED
    BY <2>1, <2>2 DEF LossReaches
<1>4. tp \in Seq(Ops) /\ \A i \in DOMAIN tp : tp[i].window \in Routed(c)
  BY <1>2 DEF TapeOK, TapeTyped
<1>5. tape'[r] = tp
  <2> DEFINE K == {i \in DOMAIN tp : tp[i].window \in LossReaches(r)}
  <2>1. K = DOMAIN tp
    BY <1>3, <1>4
  <2>2. tape'[r] = Pick(tp, Increasing(K))
    BY <1>1 DEF Loss, Functions
  <2> HIDE DEF K, tp
  <2> QED
    BY <1>4, <2>1, <2>2, PickAll
<1>6. /\ config' = config /\ pc'[r] = "backward" /\ first'[r] = first[r] /\ layer'[r] = layer[r]
      /\ next'[r] = next[r] /\ carried'[r] = carried[r] /\ read'[r] = read[r]
      /\ reached'[r] = reached[r] /\ returned' = returned /\ calls'[r] = cs
      /\ value'[r] = value[r] /\ awaited'[r] = aw /\ current'[r] = current[r] /\ pending'[r] = pending[r]
  BY <1>1 DEF Loss, scan, cell, Functions
<1>7. Len(cs) = Total(c)
  BY <1>2 DEF CallsOK
<1>8. TapeOK(c, "backward", Layers, aw, cs, tp) /\ BackOK(c, "backward", aw, tp)
  BY <1>1, <1>2, <1>7, LossTape
<1>9. CallsOK(c, "backward", first[r], cs)
  <2>1. Total(c) \in Nat
    BY <1>1, Sizes
  <2>2. Len(cs) \in Total(c) .. 2 * Total(c)
    BY <1>7, <2>1
  <2> QED
    BY <1>2, <2>2 DEF CallsOK
<1>10. CellOK(config, r, next[r], carried[r], read[r], reached[r])'
  BY <1>2, <1>6, CellStays
<1> QED
  BY <1>2, <1>5, <1>6, <1>8, <1>9, <1>10 DEF RankInv

\* BackwardRecv, of one rank.
LEMMA BackwardRecvStep ==
    ASSUME Widening, Inv, NEW r \in Rank, BackwardRecv(r)
    PROVE  RankInv(r)' /\ returned' = returned
<1> DEFINE c == config
           aw == awaited[r]
           cs == calls[r]
           tp == tape[r]
           op == Last(tp)
           g == Grad(op.window, op.layer)
           cs2 == Append(cs, g)
           aw2 == [aw EXCEPT ![op.window] = Len(cs) + 1]
<1>1. c \in Configs /\ RankInv(r) /\ pc[r] = "backward" /\ tp # <<>> /\ op.op = "recv" /\ Functions
  BY DEF Inv, BackwardRecv
<1>2. /\ layer[r] = Layers /\ current[r] = <<>> /\ pending[r] = <<>>
      /\ TypesOK(c, value[r], aw, cs) /\ CallsOK(c, "backward", first[r], cs)
      /\ TapeOK(c, "backward", Layers, aw, cs, tp) /\ BackOK(c, "backward", aw, tp)
      /\ CellOK(c, r, next[r], carried[r], read[r], reached[r])
      /\ Place(c, "backward", first[r], Layers, next[r])
      /\ IdleOK(c, "backward", first[r], <<>>, <<>>, value[r], aw2)
      /\ ScanOK(c, "backward", first[r], Layers, <<>>, <<>>, value[r], aw2, cs2)
      /\ RowsOK(c, "backward", r, first[r], Layers, aw2, value[r])
  BY <1>1, OutOfLayers
<1>3. /\ config' = config /\ pc'[r] = "backward" /\ first'[r] = first[r] /\ layer'[r] = layer[r]
      /\ next'[r] = next[r] /\ carried'[r] = carried[r] /\ read'[r] = read[r]
      /\ reached'[r] = reached[r] /\ returned' = returned /\ calls'[r] = cs2
      /\ value'[r] = value[r] /\ awaited'[r] = aw2 /\ current'[r] = current[r] /\ pending'[r] = pending[r]
      /\ tape'[r] = Front(tp)
  BY <1>1 DEF BackwardRecv, Enter, cell, Functions
<1>4. /\ aw \in [Snapshots(c) -> Nat] /\ cs \in Seq(Calls) /\ Len(cs) \in Nat
      /\ Len(cs) \in Total(c) .. 2 * Total(c) /\ \A w \in Snapshots(c) : aw[w] <= Len(cs)
      /\ \A n \in DOMAIN cs : CallAt(c, cs[n], n)
  BY <1>2 DEF TypesOK, CallsOK
<1>5. tp \in Seq(Ops) /\ op \in Ops
  <2>1. tp \in Seq(Ops)
    BY <1>2 DEF TapeOK, TapeTyped
  <2> HIDE DEF tp
  <2> QED
    BY <1>1, <2>1, FrontOf
<1>6. g \in Calls
  <2> HIDE DEF op
  <2> QED
    BY <1>5 DEF Ops, Calls, Grad
<1> HIDE DEF g
<1>7. /\ cs2 \in Seq(Calls) /\ Len(cs2) = Len(cs) + 1 /\ DOMAIN cs2 = 1 .. Len(cs) + 1
      /\ DOMAIN cs = 1 .. Len(cs) /\ (\A n \in DOMAIN cs : cs2[n] = cs[n]) /\ cs2[Len(cs) + 1] = g
  <2> HIDE DEF cs
  <2> QED
    BY <1>4, <1>6, Appended
<1> HIDE DEF cs2
<1>8. /\ op.window \in Routed(c) /\ op.layer \in Exchanged
      /\ Len(cs) + 1 = 2 * Total(c) + 1 - Number(c, op.window, op.layer)
      /\ Len(cs) + 1 <= 2 * Total(c)
      /\ TapeOK(c, "backward", Layers, aw2, cs2, Front(tp))
      /\ BackOK(c, "backward", aw2, Front(tp))
  <2>1. /\ c \in Configs /\ aw \in [Snapshots(c) -> Nat] /\ Len(cs) \in Total(c) .. 2 * Total(c)
        /\ TapeOK(c, "backward", Layers, aw, cs, tp) /\ BackOK(c, "backward", aw, tp)
        /\ tp # <<>> /\ Last(tp).op = "recv" /\ Len(cs2) = Len(cs) + 1
    BY <1>1, <1>2, <1>4, <1>7
  <2> HIDE DEF c, aw, cs, tp
  <2> QED
    BY <2>1, BackwardRecvTape
<1> HIDE DEF aw2, op
<1>9. CallsOK(c, "backward", first[r], cs2)
  <2>1. Total(c) \in Nat
    BY <1>1, Sizes
  <2>2. Len(cs2) \in Total(c) .. 2 * Total(c)
    BY <1>4, <1>7, <1>8, <2>1
  <2>3. CallAt(c, g, Len(cs) + 1)
    BY <1>8 DEF CallAt, g
  <2>4. \A n \in DOMAIN cs2 : n \in DOMAIN cs \/ n = Len(cs) + 1
    BY <1>4, <1>7
  <2>5. \A n \in DOMAIN cs2 : CallAt(c, cs2[n], n)
    BY <1>4, <1>7, <2>3, <2>4
  <2> QED
    BY <2>2, <2>5 DEF CallsOK
<1>10. TypesOK(c, value[r], aw2, cs2)
  <2>1. Len(cs) + 1 \in Nat
    BY <1>4
  <2>2. aw2 = [aw EXCEPT ![op.window] = Len(cs) + 1]
    BY DEF aw2
  <2> HIDE DEF aw, cs
  <2>3. aw2 \in [Snapshots(c) -> Nat] /\ \A w \in Snapshots(c) : aw2[w] = aw[w] \/ aw2[w] = Len(cs) + 1
    BY <1>4, <2>1, <2>2
  <2>4. \A w \in Snapshots(c) : aw[w] \in Nat
    BY <1>4
  <2>5. \A w \in Snapshots(c) : aw2[w] <= Len(cs2)
    BY <1>4, <1>7, <2>3, <2>4
  <2> QED
    BY <1>2, <1>7, <2>3, <2>5 DEF TypesOK, aw, cs
<1>11. CellOK(config, r, next[r], carried[r], read[r], reached[r])'
  BY <1>2, <1>3, CellStays
<1> QED
  BY <1>2, <1>3, <1>8, <1>9, <1>10, <1>11 DEF RankInv

\* BackwardSend, of one rank: the gradients are those of the rows it sent.
LEMMA BackwardSendStep ==
    ASSUME Widening, Inv, NEW r \in Rank, BackwardSend(r)
    PROVE  /\ RankInv(r)'
           /\ \A p \in Rank : \A x \in returned'[p] :
                 x \in returned[p] \/ x.from = FromPeers(p, Grad(x.window, x.layer))
<1> DEFINE c == config
           aw == awaited[r]
           cs == calls[r]
           tp == tape[r]
           op == Last(tp)
           n == aw[op.window]
           g == Grad(op.window, op.layer)
           aw2 == [aw EXCEPT ![op.window] = 0]
           back == [window |-> op.window, layer |-> op.layer, from |-> Received(r, n)]
<1>1. /\ c \in Configs /\ RankInv(r) /\ pc[r] = "backward" /\ tp # <<>> /\ op.op = "send"
      /\ Entered(n) /\ Functions
  BY DEF Inv, BackwardSend
<1>2. /\ layer[r] = Layers /\ current[r] = <<>> /\ pending[r] = <<>>
      /\ TypesOK(c, value[r], aw, cs) /\ CallsOK(c, "backward", first[r], cs)
      /\ TapeOK(c, "backward", Layers, aw, cs, tp) /\ BackOK(c, "backward", aw, tp)
      /\ CellOK(c, r, next[r], carried[r], read[r], reached[r])
      /\ Place(c, "backward", first[r], Layers, next[r])
      /\ IdleOK(c, "backward", first[r], <<>>, <<>>, value[r], aw2)
      /\ ScanOK(c, "backward", first[r], Layers, <<>>, <<>>, value[r], aw2, cs)
      /\ RowsOK(c, "backward", r, first[r], Layers, aw2, value[r])
  BY <1>1, OutOfLayers
<1>3. /\ config' = config /\ pc'[r] = "backward" /\ first'[r] = first[r] /\ layer'[r] = layer[r]
      /\ next'[r] = next[r] /\ carried'[r] = carried[r] /\ read'[r] = read[r]
      /\ reached'[r] = reached[r] /\ calls'[r] = cs
      /\ value'[r] = value[r] /\ awaited'[r] = aw2 /\ current'[r] = current[r] /\ pending'[r] = pending[r]
      /\ tape'[r] = Front(tp)
      /\ returned' = [returned EXCEPT ![r] = @ \cup {back}]
  BY <1>1 DEF BackwardSend, cell, Functions
<1>4. /\ aw \in [Snapshots(c) -> Nat] /\ Len(cs) \in Nat /\ \A w \in Snapshots(c) : aw[w] <= Len(cs)
  BY <1>2 DEF TypesOK
<1>5. /\ op.window \in Routed(c) /\ op.layer \in Exchanged
      /\ n = 2 * Total(c) + 1 - Number(c, op.window, op.layer)
      /\ TapeOK(c, "backward", Layers, aw2, cs, Front(tp))
      /\ BackOK(c, "backward", aw2, Front(tp))
  <2>1. /\ c \in Configs /\ aw \in [Snapshots(c) -> Nat]
        /\ TapeOK(c, "backward", Layers, aw, cs, tp) /\ BackOK(c, "backward", aw, tp)
        /\ tp # <<>> /\ Last(tp).op = "send"
    BY <1>1, <1>2, <1>4
  <2> HIDE DEF c, aw, cs, tp
  <2> QED
    BY <2>1, BackwardSendTape
<1>6. Received(r, n) = FromPeers(r, g)
  <2>1. CallAt(c, g, n)
    BY <1>5 DEF CallAt
  <2>2. n \in Nat /\ n # 0
    <3>1. Number(c, op.window, op.layer) \in 1 .. Total(c) /\ Total(c) \in Nat
      BY <1>1, <1>5, NumberIs, Sizes
    <3> HIDE DEF n, op
    <3> QED
      BY <1>5, <3>1
  <2> HIDE DEF g, n
  <2> QED
    BY <1>1, <2>1, <2>2, CallsFrom, Delivered
<1>7. back.from = FromPeers(r, Grad(back.window, back.layer))
  BY <1>6
<1>8. ASSUME NEW p \in Rank, NEW x \in returned'[p]
      PROVE  x \in returned[p] \/ x.from = FromPeers(p, Grad(x.window, x.layer))
  <2> HIDE DEF back
  <2>1. CASE p = r
    <3>1. returned'[r] = returned[r] \cup {back}
      BY <1>1, <1>3 DEF Functions
    <3> QED
      BY <1>7, <1>8, <2>1, <3>1
  <2>2. CASE p # r
    <3>1. returned'[p] = returned[p]
      BY <1>1, <1>3, <2>2 DEF Functions
    <3> QED
      BY <1>8, <3>1
  <2> QED
    BY <2>1, <2>2
<1> HIDE DEF aw2, n, op
<1>9. TypesOK(c, value[r], aw2, cs)
  <2>1. aw2 = [aw EXCEPT ![op.window] = 0]
    BY DEF aw2
  <2> HIDE DEF aw, cs
  <2>2. aw2 \in [Snapshots(c) -> Nat] /\ \A w \in Snapshots(c) : aw2[w] = aw[w] \/ aw2[w] = 0
    BY <1>4, <2>1
  <2>3. \A w \in Snapshots(c) : aw2[w] <= Len(cs)
    BY <1>4, <2>2
  <2> QED
    BY <1>2, <2>2, <2>3 DEF TypesOK, aw, cs
<1>10. CellOK(config, r, next[r], carried[r], read[r], reached[r])'
  BY <1>2, <1>3, CellStays
<1>11. RankInv(r)'
  BY <1>2, <1>3, <1>5, <1>9, <1>10 DEF RankInv
<1> QED
  BY <1>8, <1>11

\* Finish, of one rank.
LEMMA FinishStep ==
    ASSUME Inv, NEW r \in Rank, Finish(r)
    PROVE  RankInv(r)' /\ returned' = returned
<1> DEFINE c == config
           aw == awaited[r]
           cs == calls[r]
           tp == tape[r]
<1>1. c \in Configs /\ RankInv(r) /\ pc[r] = "backward" /\ Functions
  BY DEF Inv, Finish
<1>2. /\ layer[r] = Layers /\ current[r] = <<>> /\ pending[r] = <<>>
      /\ TypesOK(c, value[r], aw, cs) /\ CallsOK(c, "backward", first[r], cs)
      /\ TapeOK(c, "backward", Layers, aw, cs, tp)
      /\ CellOK(c, r, next[r], carried[r], read[r], reached[r])
      /\ Place(c, "done", first[r], Layers, next[r])
      /\ IdleOK(c, "done", first[r], <<>>, <<>>, value[r], aw)
      /\ ScanOK(c, "done", first[r], Layers, <<>>, <<>>, value[r], aw, cs)
      /\ RowsOK(c, "done", r, first[r], Layers, aw, value[r])
  BY <1>1, OutOfLayers
<1>3. /\ config' = config /\ pc'[r] = "done" /\ first'[r] = first[r] /\ layer'[r] = layer[r]
      /\ next'[r] = next[r] /\ carried'[r] = carried[r] /\ read'[r] = read[r]
      /\ reached'[r] = reached[r] /\ returned' = returned /\ calls'[r] = cs
      /\ value'[r] = value[r] /\ awaited'[r] = aw /\ current'[r] = current[r] /\ pending'[r] = pending[r]
      /\ tape'[r] = tp
  BY <1>1 DEF Finish, scan, cell, Functions
<1>4. CallsOK(c, "done", first[r], cs)
  BY <1>2 DEF CallsOK
<1>5. BackOK(c, "done", aw, tp)
  BY DEF BackOK
<1>6. TapeOK(c, "done", Layers, aw, cs, tp)
  <2>1. \A w, l : Got(c, "done", Layers, aw, cs, w, l) <=> Got(c, "backward", Layers, aw, cs, w, l)
    BY DEF Got
  <2>2. ReceivesRecorded(c, "done", Layers, aw, cs, tp)
    BY <1>2, <2>1 DEF TapeOK, ReceivesRecorded
  <2> QED
    BY <1>2, <2>2 DEF TapeOK, TapeTyped, AwaitedSent
<1>7. CellOK(config, r, next[r], carried[r], read[r], reached[r])'
  BY <1>2, <1>3, CellStays
<1> QED
  BY <1>2, <1>3, <1>4, <1>5, <1>6, <1>7 DEF RankInv

-----------------------------------------------------------------------------
(* The invariant.                                                          *)

LEMMA InitInv ==
    ASSUME Widening, Init
    PROVE  Inv
<1> DEFINE c == config
           B == Begin(c.window)
<1>1. c \in Configs
  BY DEF Init, Configs
<1>2. Functions
  BY DEF Init, Functions
<1>3. GradientsReturn
  BY DEF Init, GradientsReturn
<1>4. ASSUME NEW r \in Rank PROVE RankInv(r)
  <2>1. /\ c.window \in Nat /\ B \in 0 .. c.window /\ B \in Snapshots(c) /\ GroupAt(c, B)
        /\ Layers \in Nat /\ Layers >= 1 /\ 0 \in 0 .. Layers - 1
    BY <1>1, ConfigIs DEF GroupAt, Snapshots
  <2> DEFINE val == [w \in Snapshots(c) |-> [layer |-> 0, boundary |-> Local]]
             aw == [w \in Snapshots(c) |-> 0]
             cur == ScheduleOrder(r, B, 0)
  <2>2. Window = Snapshots(c)
    BY <1>1, ConfigState
  <2>3. /\ pc[r] = "layers" /\ first[r] = B /\ layer[r] = 0 /\ current[r] = cur
        /\ pending[r] = <<>> /\ awaited[r] = aw /\ value[r] = val /\ calls[r] = <<>>
        /\ tape[r] = <<>> /\ next[r] = B /\ carried[r] = <<>> /\ read[r] = <<>> /\ reached[r] = {}
    BY <2>2 DEF Init
  <2>4. Place(c, "layers", B, 0, B)
    BY <2>1 DEF Place
  <2>5. TypesOK(c, val, aw, <<>>)
    <3>1. 0 \in 0 .. Layers
      BY <2>1
    <3>2. [layer |-> 0, boundary |-> Local] \in [layer : 0 .. Layers, boundary : SUBSET (Rank \X Calls)]
      BY <3>1 DEF Local
    <3> QED
      BY <3>2 DEF TypesOK
  <2>6. Scanned(c, B) \subseteq Snapshots(c)
    BY <1>1, <2>1, ScannedIs
  <2>7. ScanOK(c, "layers", B, 0, cur, <<>>, val, aw, <<>>)
    <3>1. Len(<<>>) = Prior(c, B, 0)
      BY <1>1, <2>1, GroupNumbers
    <3>2. \A w \in Scanned(c, B) : val[w].layer = 0 /\ aw[w] = 0
      BY <2>6
    <3> HIDE DEF val, aw, B
    <3>3. /\ QueueOK(c, B, 0, ScheduleOrder(r, B, 0), <<>>, val)
          /\ WaitOK(c, B, 0, ScheduleOrder(r, B, 0), <<>>, val, aw)
          /\ CountOK(c, B, 0, val, <<>>)
      BY <1>1, <2>1, <3>1, <3>2, FreshScan
    <3> QED
      BY <3>3 DEF ScanOK
  <2>8. IdleOK(c, "layers", B, cur, <<>>, val, aw)
    <3> SUFFICES ASSUME NEW u \in Snapshots(c) PROVE ~ (u < B)
      BY DEF IdleOK
    <3> QED
      BY <2>1 DEF Snapshots
  <2>9. CallsOK(c, "layers", B, <<>>)
    BY DEF CallsOK
  <2>10. TapeOK(c, "layers", 0, aw, <<>>, <<>>)
    <3>1. \A w \in Routed(c), l \in Exchanged : ~ Got(c, "layers", 0, aw, <<>>, w, l)
      <4> SUFFICES ASSUME NEW w \in Routed(c), NEW l \in Exchanged
                   PROVE  ~ (Number(c, w, l) <= 0)
        BY DEF Got
      <4>1. Number(c, w, l) \in 1 .. Total(c) /\ Total(c) \in Nat
        BY <1>1, NumberIs, Sizes
      <4> QED
        BY <4>1
    <3>2. \A w \in Routed(c) : aw[w] = 0
      BY DEF Routed
    <3> HIDE DEF aw
    <3>3. ReceivesRecorded(c, "layers", 0, aw, <<>>, <<>>)
      BY <3>1 DEF ReceivesRecorded
    <3>4. AwaitedSent(c, "layers", 0, aw, <<>>)
      BY <3>2 DEF AwaitedSent
    <3> QED
      BY <3>3, <3>4 DEF TapeOK, TapeTyped, ReceivesInOrder, SnapshotInOrder, SendsReceived
  <2>11. BackOK(c, "layers", aw, <<>>)
    BY DEF BackOK
  <2>12. RowsOK(c, "layers", r, B, 0, aw, val)
    BY <2>6 DEF RowsOK, BoundaryOK
  <2>13. CellOK(c, r, B, <<>>, <<>>, {})
    <3>1. \A w \in Routed(c) : ~ (w < B)
      BY <2>1 DEF Routed, Snapshots
    <3> QED
      BY <2>1, <3>1 DEF CellOK
  <2> HIDE DEF val, aw, cur
  <2> QED
    BY <2>3, <2>4, <2>5, <2>7, <2>8, <2>9, <2>10, <2>11, <2>12, <2>13 DEF RankInv
<1> QED
  BY <1>1, <1>2, <1>3, <1>4 DEF Inv

LEMMA StepInv ==
    ASSUME Widening, OwnsRows, Inv, [Next]_vars
    PROVE  Inv'
<1>1. ASSUME NEW r \in Rank, Step(r) PROVE Inv'
  <2>1. config' = config /\ Functions' /\ \A p \in Rank : p # r => Same(p)
    BY <1>1, Touches DEF Inv
  <2>2. /\ RankInv(r)'
        /\ \A p \in Rank : \A x \in returned'[p] :
              x \in returned[p] \/ x.from = FromPeers(p, Grad(x.window, x.layer))
    <3>1. CASE Compute(r)
      BY <3>1, ComputeStep
    <3>2. CASE Resume(r)
      BY <3>2, ResumeStep
    <3>3. CASE NextPass(r)
      BY <3>3, NextPassStep
    <3>4. CASE EndLayer(r)
      BY <3>4, EndLayerStep
    <3>5. CASE Update(r)
      BY <3>5, UpdateStep
    <3>6. CASE Loss(r)
      BY <3>6, LossStep
    <3>7. CASE BackwardRecv(r)
      BY <3>7, BackwardRecvStep
    <3>8. CASE BackwardSend(r)
      BY <3>8, BackwardSendStep
    <3>9. CASE Finish(r)
      BY <3>9, FinishStep
    <3> QED
      BY <1>1, <3>1, <3>2, <3>3, <3>4, <3>5, <3>6, <3>7, <3>8, <3>9 DEF Step
  <2>3. ASSUME NEW p \in Rank PROVE RankInv(p)'
    <3>1. CASE p = r
      BY <2>2, <3>1
    <3>2. CASE p # r
      BY <2>1, <3>2, SameRank DEF Inv
    <3> QED
      BY <3>1, <3>2
  <2>4. GradientsReturn'
    <3> SUFFICES ASSUME NEW p \in Rank, NEW x \in returned'[p]
                 PROVE  x.from = FromPeers(p, Grad(x.window, x.layer))
      BY DEF GradientsReturn, FromPeers, Grad
    <3> QED
      BY <2>2 DEF Inv, GradientsReturn
  <2>5. (config \in Configs)'
    <3>1. Configs' = Configs
      BY DEF Configs
    <3> QED
      BY <2>1, <3>1 DEF Inv
  <2> QED
    BY <2>1, <2>3, <2>4, <2>5 DEF Inv
<1>2. CASE UNCHANGED vars
  <2>1. /\ config' = config /\ returned' = returned /\ \A p \in Rank : Same(p)
        /\ pc' = pc /\ first' = first /\ layer' = layer /\ current' = current /\ pending' = pending
        /\ awaited' = awaited /\ value' = value /\ calls' = calls /\ tape' = tape /\ next' = next
        /\ carried' = carried /\ read' = read /\ reached' = reached
    BY <1>2 DEF vars, scan, cell, Same
  <2>2. \A p \in Rank : RankInv(p)'
    BY <2>1, SameRank DEF Inv
  <2>3. Functions' /\ GradientsReturn'
    BY <2>1 DEF Inv, Functions, GradientsReturn, FromPeers, Grad
  <2>4. (config \in Configs)'
    <3>1. Configs' = Configs
      BY DEF Configs
    <3> QED
      BY <2>1, <3>1 DEF Inv
  <2> QED
    BY <2>2, <2>3, <2>4 DEF Inv
<1> QED
  BY <1>1, <1>2 DEF Next, Done

-----------------------------------------------------------------------------
(* What the invariant says.                                                *)

LEMMA InvTypes ==
    ASSUME Inv
    PROVE  TypeOK
<1> USE DEF Inv
<1>1. Functions /\ config \in Configs
  OBVIOUS
<1>2. ASSUME NEW r \in Rank
      PROVE  /\ pc[r] \in {"layers", "cell", "loss", "backward", "done"} /\ layer[r] \in 0 .. Layers
             /\ ToSet(current[r]) \cup ToSet(pending[r]) \subseteq Window
             /\ ToSet(current[r]) \cap ToSet(pending[r]) = {}
             /\ \A w \in Window : awaited[r][w] <= Len(calls[r])
             /\ reached[r] \subseteq Window
  <2>1. RankInv(r) /\ Window = Snapshots(config)
    BY ConfigState
  <2>2. Place(config, pc[r], first[r], layer[r], next[r])
    BY <2>1 DEF RankInv
  <2>3. /\ ToSet(current[r]) \cup ToSet(pending[r]) \subseteq Window
        /\ ToSet(current[r]) \cap ToSet(pending[r]) = {}
    <3>1. CASE pc[r] = "layers"
      <4>1. QueueOK(config, first[r], layer[r], current[r], pending[r], value[r])
        BY <2>1, <3>1 DEF RankInv, ScanOK
      <4>2. Scanned(config, first[r]) \subseteq Snapshots(config)
        <5>1. first[r] \in Snapshots(config) /\ Begin(config.window) \in Nat /\ config.window \in Nat
          BY <2>2, ConfigIs DEF Place
        <5>2. CASE Sequential(config)
          BY <5>1, <5>2 DEF Scanned
        <5>3. CASE ~ Sequential(config)
          BY <2>2, <5>3 DEF Scanned, Snapshots, Place
        <5> QED
          BY <5>2, <5>3
      <4>3. current[r] \in Seq(Window) /\ pending[r] \in Seq(Window)
        <5> DEFINE S == Scanned(config, first[r])
        <5>1. current[r] \in Seq(S) /\ pending[r] \in Seq(S)
          BY <4>1 DEF QueueOK
        <5>2. S \subseteq Window
          BY <2>1, <4>2
        <5> HIDE DEF S
        <5> QED
          BY <5>1, <5>2
      <4>4. \A i \in DOMAIN current[r], j \in DOMAIN pending[r] : current[r][i] # pending[r][j]
        BY <4>1 DEF QueueOK
      <4> QED
        BY <4>3, <4>4 DEF ToSet
    <3>2. CASE pc[r] # "layers"
      BY <2>1, <3>2 DEF RankInv, IdleOK, ToSet
    <3> QED
      BY <3>1, <3>2
  <2> QED
    BY <2>1, <2>2, <2>3 DEF RankInv, Place, TypesOK, CellOK
<1>3. pc \in [Rank -> {"layers", "cell", "loss", "backward", "done"}] /\ layer \in [Rank -> 0 .. Layers]
  BY <1>1, <1>2 DEF Functions
<1> QED
  BY <1>2, <1>3 DEF TypeOK

LEMMA InvHalo ==
    ASSUME Inv
    PROVE  HaloMatches
<1> SUFFICES ASSUME NEW r \in Rank, NEW w \in Window, value[r][w].layer # 0, value[r][w].layer # Layers
             PROVE  LET v == value[r][w]
                    IN  \/ v.boundary = FromPeers(r, Pull(w, v.layer))
                        \/ v.boundary = Local /\ (NeedsExchange(r, w) => v.layer > layer[r])
  BY DEF HaloMatches
<1> DEFINE c == config
           v == value[r][w]
<1>1. /\ c \in Configs /\ RankInv(r) /\ w \in Snapshots(c)
      /\ NeedsExchange(r, w) <=> Whole(c.window, w)
  BY ConfigState DEF Inv
<1>2. /\ IdleOK(c, pc[r], first[r], current[r], pending[r], value[r], awaited[r])
      /\ RowsOK(c, pc[r], r, first[r], layer[r], awaited[r], value[r])
      /\ Place(c, pc[r], first[r], layer[r], next[r])
  BY <1>1 DEF RankInv
<1>3. w \in Scanned(c, first[r])
  BY <1>1, <1>2 DEF IdleOK
<1>4. pc[r] = "layers"
  BY <1>2, <1>3 DEF IdleOK
<1>5. IF Whole(c.window, w) /\ ~ (v.layer = layer[r] + 1 /\ awaited[r][w] # 0)
      THEN v.boundary = FromPeers(r, Pull(w, v.layer))
      ELSE v.boundary = Local
  BY <1>2, <1>3, <1>4 DEF RowsOK, BoundaryOK
<1>6. layer[r] \in Nat
  BY <1>2, LayersAssumption DEF Place
<1>7. CASE Whole(c.window, w) /\ ~ (v.layer = layer[r] + 1 /\ awaited[r][w] # 0)
  BY <1>5, <1>7
<1>8. CASE ~ Whole(c.window, w)
  BY <1>1, <1>5, <1>8
<1>9. CASE v.layer = layer[r] + 1 /\ awaited[r][w] # 0
  <2>1. v.layer > layer[r]
    BY <1>6, <1>9
  <2> QED
    BY <1>5, <1>9, <2>1
<1> QED
  BY <1>7, <1>8, <1>9

-----------------------------------------------------------------------------
(* The hypotheses, from the options.                                       *)

\* _parse_chunk_decay refuses a chunk_decay that increases.
NonIncreasing == \A i, j \in DOMAIN Decay : i < j => Decay[i] >= Decay[j]

\* A chunk_decay as _parse_chunk_decay returns it, and full snapshots that are
\* complete or else no complete decayed ones: then a complete snapshot is
\* followed by complete ones.
THEOREM OptionsWiden ==
    ASSUME NonIncreasing,
           \/ FullLimit = -1
           \/ FullLimit >= ChunkCount
           \/ \A i \in DOMAIN Decay : Decay[i] < ChunkCount
    PROVE  Widening
<1> SUFFICES ASSUME NEW k \in 0 .. LastWindow, NEW w \in Begin(k) .. k - 1, Whole(k, w)
             PROVE  Whole(k, w + 1)
  BY DEF Widening
<1> DEFINE b == FullBegin(k)
<1>1. k \in Nat /\ Begin(k) \in 0 .. k /\ b \in 0 .. k /\ w \in Nat /\ w < k /\ Begin(k) <= w
  BY WindowsAre, ChunksAssumption
<1>2. /\ Decay \in Seq(Nat) /\ ChunkCount \in Nat /\ FullLimit \in Nat \cup {-1}
      /\ Len(Decay) \in Nat /\ DOMAIN Decay = 1 .. Len(Decay)
  BY ChunksAssumption
<1>3. \A v : Limit(k, v) = IF v >= b THEN FullLimit ELSE Decay[b - v]
  BY DEF Limit
<1>4. \A v : Whole(k, v) <=> (Limit(k, v) < 0 \/ Limit(k, v) >= ChunkCount)
  BY DEF Whole
<1>5. b - w <= Len(Decay)
  <2>1. Begin(k) = IF b > Len(Decay) THEN b - Len(Decay) ELSE 0
    BY DEF Begin
  <2> HIDE DEF b
  <2> QED
    BY <1>1, <1>2, <2>1
<1> HIDE DEF b
<1>6. CASE w >= b
  <2>1. w + 1 >= b
    BY <1>1, <1>6
  <2> QED
    BY <1>3, <1>4, <1>6, <2>1
<1>7. CASE ~ (w >= b)
  <2>1. b - w \in DOMAIN Decay /\ Decay[b - w] >= ChunkCount
    <3>1. b - w \in DOMAIN Decay
      BY <1>1, <1>2, <1>5, <1>7
    <3>2. Decay[b - w] \in Nat
      BY <1>2, <3>1
    <3>3. Limit(k, w) = Decay[b - w]
      BY <1>3, <1>7
    <3> QED
      BY <1>4, <3>1, <3>2, <3>3
  <2>2. CASE w + 1 >= b
    <3>1. Limit(k, w + 1) = FullLimit
      BY <1>3, <2>2
    <3>2. ~ (\A i \in DOMAIN Decay : Decay[i] < ChunkCount)
      BY <1>2, <2>1
    <3>3. FullLimit < 0 \/ FullLimit >= ChunkCount
      BY <1>2, <3>2
    <3> QED
      BY <1>4, <3>1, <3>3
  <2>3. CASE ~ (w + 1 >= b)
    <3>1. b - (w + 1) \in DOMAIN Decay /\ b - (w + 1) < b - w
      BY <1>1, <1>2, <1>5, <2>3
    <3>2. Decay[b - (w + 1)] >= Decay[b - w]
      BY <2>1, <3>1 DEF NonIncreasing
    <3>3. Limit(k, w + 1) = Decay[b - (w + 1)] /\ Decay[b - (w + 1)] \in Nat /\ Decay[b - w] \in Nat
      BY <1>2, <1>3, <2>1, <2>3, <3>1
    <3>4. Limit(k, w + 1) >= ChunkCount
      BY <1>2, <2>1, <3>2, <3>3
    <3> QED
      BY <1>4, <3>4
  <2> QED
    BY <2>2, <2>3
<1> QED
  BY <1>6, <1>7

-----------------------------------------------------------------------------
(* The theorems.                                                           *)

\* Rows and gradients meet their own snapshot and layer, although exchanges
\* are matched by their order only: for any ranks, layers, snapshots and rows,
\* because the turns of _run_flare_style_coroutines and the reverse walk of
\* autograd enter the n-th exchange of every rank for the same snapshot and
\* layer.
THEOREM ExchangesMatchHolds ==
    ASSUME Widening, OwnsRows
    PROVE  Spec => []ExchangesMatch
<1>1. Init => Inv
  BY InitInv
<1>2. Inv /\ [Next]_vars => Inv'
  BY StepInv
<1>3. Inv => ExchangesMatch
  BY InvTypes, InvHalo DEF Inv, ExchangesMatch
<1> QED
  BY <1>1, <1>2, <1>3, PTL DEF Spec

\* The recurrent cell reads, for each node, the state the same node was left
\* in by the snapshot before, and zero for a node that snapshot did not have,
\* for any rows, chunk order and decay: where _fit_rows reads by row position
\* (both snapshots in chunk order, or both whole in owner order) a node keeps
\* its position, and elsewhere compact_lookup_rows looks the node up.
THEOREM StateFollowsNodeHolds ==
    ASSUME Widening, OwnsRows
    PROVE  Spec => []StateFollowsNode
<1>1. Init => Inv
  BY InitInv
<1>2. Inv /\ [Next]_vars => Inv'
  BY StepInv
<1>3. Inv => StateFollowsNode
  BY DEF Inv, RankInv, CellOK, ReadAs, StateFollowsNode
<1> QED
  BY <1>1, <1>2, <1>3, PTL DEF Spec
==============================================================================
