-------------------------- MODULE OwnerFetchProofs --------------------------
(* OwnerFetch for any number of ranks, partition, replicas and batches: every *)
(* list a batch reads comes back with the row of the node at each place, in   *)
(* collectives in which all ranks make the same call with fitting lengths.    *)
(*                                                                            *)
(* The argument.  Which calls a rank enters in a batch, with what parts and   *)
(* lengths, depends on the plan alone: Call(w, o, r) is the o-th call of rank *)
(* r in a batch that wants w, Cost(w) how many there are, the same number for *)
(* all ranks, and Base(plan, b) how many come before batch b.  The invariant  *)
(* says that a rank has entered the calls so far in that order, where it      *)
(* stands in its batch, and which request and fetches are under way.  So what *)
(* the k-th calls of the peers hold is known although the peers may be        *)
(* batches ahead or behind (PeersCall), and what arrives is computed leg by   *)
(* leg: counts, ids, rows.                                                    *)
(*                                                                            *)
(* What it needs to know about lists is in OwnerRouteProofs.                  *)
EXTENDS OwnerFetch, OwnerRouteProofs

LEMMA RankIs == N \in Nat /\ N # 0 /\ Rank = 1 .. N /\ Node \subseteq Int /\ Owner \in [Node -> Rank]
BY FetchAssumption DEF Rank

(* all_to_all_single cuts a list into parts of the given sizes.               *)
LEMMA SplitIs ==
    ASSUME NEW V, NEW s \in Seq(V), NEW f \in [Rank -> Nat], Len(s) = Upto(f, N)
    PROVE  /\ Split(s, f) \in Lists(Rank, V)
           /\ Lens(Split(s, f)) = f
           /\ \A p \in Rank : Len(Split(s, f)[p]) = f[p]
           /\ \A p \in Rank : \A j \in 1 .. f[p] : Split(s, f)[p][j] = s[Upto(f, p - 1) + j]
<1>1. N \in Nat /\ Rank = 1 .. N /\ f \in [1 .. N -> Nat]
  BY RankIs
<1>2. ASSUME NEW p \in Rank
      PROVE  /\ SubSeq(s, Upto(f, p - 1) + 1, Upto(f, p - 1) + f[p]) \in Seq(V)
             /\ Len(SubSeq(s, Upto(f, p - 1) + 1, Upto(f, p - 1) + f[p])) = f[p]
             /\ \A j \in 1 .. f[p] :
                   SubSeq(s, Upto(f, p - 1) + 1, Upto(f, p - 1) + f[p])[j] = s[Upto(f, p - 1) + j]
  <2> DEFINE u == Upto(f, p - 1)
             m == u + 1
             k == u + f[p]
  <2>1. u \in Nat /\ f[p] \in Nat /\ p \in 1 .. N
    <3>1. p - 1 \in 0 .. N
      BY <1>1
    <3> QED
      BY <1>1, <3>1, UptoIs
  <2>2. \A i \in m .. k : s[i] \in V
    <3> TAKE i \in m .. k
    <3>1. i - u \in 1 .. f[p] /\ i = u + (i - u)
      BY <2>1
    <3>2. N \in 0 .. N /\ p <= N
      BY <1>1, <2>1
    <3>3. u + (i - u) \in 1 .. Upto(f, N)
      BY <1>1, <2>1, <3>1, <3>2, PartWithin
    <3> QED
      BY <3>1, <3>3, ElementOfSeq
  <2>3. m \in Int /\ k \in Int /\ k - m + 1 = f[p] /\ (IF m <= k THEN k - m + 1 ELSE 0) = f[p]
    BY <2>1
  <2>4. \A j \in 1 .. f[p] : m + j - 1 = u + j
    BY <2>1
  <2> HIDE DEF u, m, k
  <2>5. /\ SubSeq(s, m, k) \in Seq(V)
        /\ Len(SubSeq(s, m, k)) = IF m <= k THEN k - m + 1 ELSE 0
        /\ \A i \in 1 .. k - m + 1 : SubSeq(s, m, k)[i] = s[m + i - 1]
    BY <2>2, <2>3, SubSeqProperties
  <2>6. /\ SubSeq(s, m, k) \in Seq(V) /\ Len(SubSeq(s, m, k)) = f[p]
        /\ \A j \in 1 .. f[p] : SubSeq(s, m, k)[j] = s[u + j]
    BY <2>3, <2>4, <2>5
  <2> QED
    BY <2>6 DEF u, m, k
<1>3. Split(s, f) = [p \in Rank |-> SubSeq(s, Upto(f, p - 1) + 1, Upto(f, p - 1) + f[p])]
  BY Zenon DEF Split, Upto
<1>4. Split(s, f) \in [Rank -> Seq(V)] /\ \A p \in Rank : Len(Split(s, f)[p]) = f[p]
  BY <1>2, <1>3
<1>5. Lens(Split(s, f)) = f
  BY <1>4 DEF Lens
<1> QED
  BY <1>2, <1>3, <1>4, <1>5 DEF Lists

(* What the ranks sent, put together.                                         *)
LEMMA FlattenParts ==
    ASSUME NEW V, NEW ss \in Lists(Rank, V), NEW f \in [Rank -> Nat],
           \A p \in Rank : f[p] = Len(ss[p])
    PROVE  /\ FlattenSeq(ss) \in Seq(V)
           /\ Len(FlattenSeq(ss)) = Upto(f, N)
           /\ \A p \in Rank : \A j \in 1 .. f[p] : FlattenSeq(ss)[Upto(f, p - 1) + j] = ss[p][j]
<1>1. N \in Nat /\ Rank = 1 .. N
  BY RankIs
<1>2. ss \in Lists(1 .. N, V)
  BY <1>1
<1>3. Lens(ss) = f
  BY DEF Lens, Lists
<1>4. /\ FlattenSeq(ss) \in Seq(V)
      /\ Len(FlattenSeq(ss)) = Upto(Lens(ss), N)
      /\ \A p \in 1 .. N : \A j \in 1 .. Len(ss[p]) :
            FlattenSeq(ss)[Upto(Lens(ss), p - 1) + j] = ss[p][j]
  BY <1>1, <1>2, FlattenIs
<1> QED
  BY <1>1, <1>3, <1>4, Zenon

(* Parts cut off and put together again are the list.                         *)
LEMMA FlattenSplit ==
    ASSUME NEW V, NEW s \in Seq(V), NEW f \in [Rank -> Nat], Len(s) = Upto(f, N)
    PROVE  FlattenSeq(Split(s, f)) = s
<1> DEFINE ss == Split(s, f)
           t == FlattenSeq(ss)
<1>1. N \in Nat /\ Rank = 1 .. N /\ f \in [1 .. N -> Nat]
  BY RankIs
<1>2. /\ ss \in Lists(Rank, V)
      /\ \A p \in Rank : f[p] = Len(ss[p])
      /\ \A p \in Rank : \A j \in 1 .. f[p] : ss[p][j] = s[Upto(f, p - 1) + j]
  BY SplitIs
<1> HIDE DEF ss
<1>3. /\ t \in Seq(V) /\ Len(t) = Upto(f, N)
      /\ \A p \in Rank : \A j \in 1 .. f[p] : t[Upto(f, p - 1) + j] = ss[p][j]
  BY <1>2, FlattenParts, SMTT(30)
<1> HIDE DEF t
<1>4. \A p \in 1 .. N : \A j \in 1 .. f[p] : t[Upto(f, p - 1) + j] = s[Upto(f, p - 1) + j]
  BY <1>1, <1>2, <1>3
<1>5. t = s
  BY <1>1, <1>3, <1>4, SameParts
<1> QED
  BY <1>5 DEF t, ss

(* Lists put together and cut again are the lists.                            *)
LEMMA SplitFlatten ==
    ASSUME NEW V, NEW ss \in Lists(Rank, V)
    PROVE  /\ Lens(ss) \in [Rank -> Nat]
           /\ FlattenSeq(ss) \in Seq(V)
           /\ Len(FlattenSeq(ss)) = Upto(Lens(ss), N)
           /\ Split(FlattenSeq(ss), Lens(ss)) = ss
<1> DEFINE f == Lens(ss)
           t == FlattenSeq(ss)
<1>1. ss \in [Rank -> Seq(V)]
  BY DEF Lists
<1>2. /\ f \in [Rank -> Nat] /\ \A p \in Rank : f[p] = Len(ss[p])
      /\ t \in Seq(V) /\ Len(t) = Upto(f, N)
      /\ \A p \in Rank : \A j \in 1 .. f[p] : t[Upto(f, p - 1) + j] = ss[p][j]
  <2>1. f \in [Rank -> Nat] /\ \A p \in Rank : f[p] = Len(ss[p])
    BY <1>1 DEF Lens
  <2> HIDE DEF f
  <2> QED
    BY <2>1, FlattenParts
<1> HIDE DEF f, t
<1>3. /\ Split(t, f) \in Lists(Rank, V)
      /\ \A p \in Rank : Len(Split(t, f)[p]) = f[p]
      /\ \A p \in Rank : \A j \in 1 .. f[p] : Split(t, f)[p][j] = t[Upto(f, p - 1) + j]
  BY <1>2, SplitIs
<1>4. ASSUME NEW p \in Rank PROVE Split(t, f)[p] = ss[p]
  <2>1. Split(t, f)[p] \in Seq(V) /\ ss[p] \in Seq(V) /\ Len(Split(t, f)[p]) = Len(ss[p])
    BY <1>1, <1>2, <1>3 DEF Lists
  <2>2. \A j \in 1 .. Len(Split(t, f)[p]) : Split(t, f)[p][j] = ss[p][j]
    BY <1>2, <1>3
  <2> QED
    BY <2>1, <2>2, SeqEqual
<1>5. Split(t, f) = ss
  BY <1>1, <1>3, <1>4 DEF Lists
<1> QED
  BY <1>2, <1>5 DEF f, t

Cells == Kinds \X Node

(* The rows of a list.                                                        *)
LEMMA RowsIs ==
    ASSUME NEW kind \in Kinds, NEW ids \in Seq(Node)
    PROVE  /\ Rows(kind, ids) \in Seq(Cells) /\ Len(Rows(kind, ids)) = Len(ids)
           /\ \A i \in 1 .. Len(ids) : Rows(kind, ids)[i] = Row(kind, ids[i])
<1>1. Len(ids) \in Nat /\ DOMAIN ids = 1 .. Len(ids) /\ ids \in [1 .. Len(ids) -> Node]
  OBVIOUS
<1>2. Rows(kind, ids) = [i \in 1 .. Len(ids) |-> Row(kind, ids[i])]
  BY <1>1 DEF Rows
<1>3. \A i \in 1 .. Len(ids) : Row(kind, ids[i]) \in Cells
  BY <1>1 DEF Row, Cells
<1>4. Rows(kind, ids) \in [1 .. Len(ids) -> Cells]
  BY <1>2, <1>3
<1> HIDE DEF Cells
<1> QED
  BY <1>1, <1>2, <1>4, ListOf

(* The rows of the parts, put together, are the rows of the list.             *)
LEMMA RowsOfParts ==
    ASSUME NEW kind \in Kinds, NEW s \in Seq(Node), NEW f \in [Rank -> Nat], Len(s) = Upto(f, N)
    PROVE  FlattenSeq([p \in Rank |-> Rows(kind, Split(s, f)[p])]) = Rows(kind, s)
<1> DEFINE ss == [p \in Rank |-> Rows(kind, Split(s, f)[p])]
           t == FlattenSeq(ss)
           u == Rows(kind, s)
<1>1. N \in Nat /\ Rank = 1 .. N /\ f \in [1 .. N -> Nat]
  BY RankIs
<1>2. /\ Split(s, f) \in Lists(Rank, Node)
      /\ \A p \in Rank : Len(Split(s, f)[p]) = f[p]
      /\ \A p \in Rank : \A j \in 1 .. f[p] : Split(s, f)[p][j] = s[Upto(f, p - 1) + j]
  BY SplitIs
<1>3. ASSUME NEW p \in Rank
      PROVE  /\ ss[p] \in Seq(Cells) /\ Len(ss[p]) = f[p]
             /\ \A j \in 1 .. f[p] : ss[p][j] = Row(kind, s[Upto(f, p - 1) + j])
  <2>1. Split(s, f)[p] \in Seq(Node) /\ ss[p] = Rows(kind, Split(s, f)[p])
    BY <1>2 DEF Lists
  <2> HIDE DEF ss
  <2>2. /\ ss[p] \in Seq(Cells) /\ Len(ss[p]) = Len(Split(s, f)[p])
        /\ \A j \in 1 .. Len(Split(s, f)[p]) : ss[p][j] = Row(kind, Split(s, f)[p][j])
    BY <2>1, RowsIs
  <2> QED
    BY <1>2, <2>2
<1>4. ss \in Lists(Rank, Cells)
  <2>1. \A p \in Rank : ss[p] \in Seq(Cells)
    BY <1>3
  <2>2. ss = [p \in Rank |-> ss[p]]
    OBVIOUS
  <2> HIDE DEF ss, Cells
  <2> QED
    BY <2>1, <2>2 DEF Lists
<1> HIDE DEF ss
<1>5. /\ t \in Seq(Cells) /\ Len(t) = Upto(f, N)
      /\ \A p \in Rank : \A j \in 1 .. f[p] : t[Upto(f, p - 1) + j] = ss[p][j]
  BY <1>3, <1>4, FlattenParts
<1>6. /\ u \in Seq(Cells) /\ Len(u) = Upto(f, N)
      /\ \A i \in 1 .. Len(s) : u[i] = Row(kind, s[i])
  BY RowsIs
<1> HIDE DEF t, u
<1>7. ASSUME NEW p \in 1 .. N, NEW j \in 1 .. f[p]
      PROVE  t[Upto(f, p - 1) + j] = u[Upto(f, p - 1) + j]
  <2>1. N \in 0 .. N /\ p <= N
    BY <1>1
  <2>2. Upto(f, p - 1) + j \in 1 .. Upto(f, N)
    BY <1>1, <2>1, PartWithin
  <2> QED
    BY <1>1, <1>3, <1>5, <1>6, <2>2
<1>8. t = u
  BY <1>1, <1>5, <1>6, <1>7, SameParts
<1> QED
  BY <1>8 DEF ss, t, u
-----------------------------------------------------------------------------
(* The lists of a request.                                                    *)

(* The ids of a request as they leave, and the part of each peer.             *)
InOwnerOrder(ids) == Pick(ids, OwnerOrder(ids))
Parts(ids) == Split(InOwnerOrder(ids), SendCounts(ids))

OwnersOf(ids) == [i \in DOMAIN ids |-> Owner[ids[i]]]

LEMMA OwnersAre ==
    ASSUME NEW ids \in Seq(Node)
    PROVE  /\ Len(ids) \in Nat /\ DOMAIN ids = 1 .. Len(ids)
           /\ \A i \in 1 .. Len(ids) : ids[i] \in Node /\ Owner[ids[i]] \in Rank /\ Owner[ids[i]] \in 1 .. N
           /\ OwnersOf(ids) \in [1 .. Len(ids) -> Int]
           /\ \A i \in 1 .. Len(ids) : OwnersOf(ids)[i] = Owner[ids[i]]
           /\ OwnerOrder(ids) = Argsort(OwnersOf(ids))
<1>1. Len(ids) \in Nat /\ DOMAIN ids = 1 .. Len(ids) /\ \A i \in 1 .. Len(ids) : ids[i] \in Node
  OBVIOUS
<1>2. \A i \in 1 .. Len(ids) : Owner[ids[i]] \in Rank /\ Owner[ids[i]] \in 1 .. N /\ Owner[ids[i]] \in Int
  BY <1>1, RankIs
<1>3. OwnersOf(ids) = [i \in 1 .. Len(ids) |-> Owner[ids[i]]]
  BY <1>1 DEF OwnersOf
<1>4. OwnerOrder(ids) = Argsort(OwnersOf(ids))
  BY DEF OwnerOrder, OwnersOf
<1> QED
  BY <1>1, <1>2, <1>3, <1>4

(* The order visits every place, and the list in this order is the list.      *)
LEMMA OrderIs ==
    ASSUME NEW ids \in Seq(Node)
    PROVE  /\ OwnerOrder(ids) \in [1 .. Len(ids) -> 1 .. Len(ids)]
           /\ Elements(OwnerOrder(ids)) = DOMAIN ids
           /\ \A q, w \in 1 .. Len(ids) : OwnerOrder(ids)[q] = OwnerOrder(ids)[w] => q = w
           /\ \A i \in 1 .. Len(ids) : \E q \in 1 .. Len(ids) : OwnerOrder(ids)[q] = i
           /\ InOwnerOrder(ids) \in Seq(Node) /\ Len(InOwnerOrder(ids)) = Len(ids)
           /\ \A q \in 1 .. Len(ids) : InOwnerOrder(ids)[q] = ids[OwnerOrder(ids)[q]]
<1> DEFINE order == OwnerOrder(ids)
           n == Len(ids)
           keys == OwnersOf(ids)
<1>1. /\ n \in Nat /\ DOMAIN ids = 1 .. n /\ \A i \in 1 .. n : ids[i] \in Node
      /\ keys \in [1 .. n -> Int] /\ order = Argsort(keys)
  BY OwnersAre
<1> HIDE DEF n, order, keys
<1>2. /\ order \in [1 .. n -> 1 .. n]
      /\ \A q, w \in 1 .. n : order[q] = order[w] => q = w
      /\ \A i \in 1 .. n : \E q \in 1 .. n : order[q] = i
  <2>1. /\ Argsort(keys) \in [1 .. n -> 1 .. n]
        /\ \A q, w \in 1 .. n : Argsort(keys)[q] = Argsort(keys)[w] => q = w
        /\ \A i \in 1 .. n : \E q \in 1 .. n : Argsort(keys)[q] = i
    BY <1>1, ArgsortPermutes
  <2> QED
    BY <1>1, <2>1
<1>3. InOwnerOrder(ids) = [q \in 1 .. n |-> ids[order[q]]]
  BY <1>2 DEF InOwnerOrder, Pick, order
<1>4. InOwnerOrder(ids) \in [1 .. n -> Node]
  BY <1>1, <1>2, <1>3
<1>5. InOwnerOrder(ids) \in Seq(Node) /\ Len(InOwnerOrder(ids)) = n
  BY <1>1, <1>4, ListOf
<1>6. Elements(order) = DOMAIN ids
  BY <1>1, <1>2 DEF Elements
<1> QED
  BY <1>2, <1>3, <1>5, <1>6 DEF n, order

(* The places whose owner is one of the first p ranks.                        *)
First(ids, p) == {i \in DOMAIN ids : Owner[ids[i]] <= p}

(* The counts add up to the places of the first ranks.                        *)
LEMMA CountsAre ==
    ASSUME NEW ids \in Seq(Node)
    PROVE  /\ SendCounts(ids) \in [Rank -> Nat]
           /\ \A p \in 0 .. N : /\ IsFiniteSet(First(ids, p))
                                /\ Upto(SendCounts(ids), p) = Cardinality(First(ids, p))
           /\ Upto(SendCounts(ids), N) = Len(ids)
<1> DEFINE f == SendCounts(ids)
           n == Len(ids)
           Here(p) == {i \in DOMAIN ids : Owner[ids[i]] = p}
           Bad == {p \in Nat : p <= N /\ Upto(f, p) # Cardinality(First(ids, p))}
<1>1. N \in Nat /\ Rank = 1 .. N
  BY RankIs
<1>2. n \in Nat /\ DOMAIN ids = 1 .. n /\ \A i \in 1 .. n : Owner[ids[i]] \in 1 .. N
  BY OwnersAre
<1>3. IsFiniteSet(DOMAIN ids) /\ Cardinality(DOMAIN ids) = n
  <2>1. 1 \in Int /\ n \in Int
    BY <1>2
  <2>2. /\ IsFiniteSet(1 .. n)
        /\ Cardinality(1 .. n) = IF 1 > n THEN 0 ELSE n - 1 + 1
    BY ONLY <2>1, FS_Interval
  <2> QED
    BY <1>2, <2>2
<1>4. \A p : IsFiniteSet(Here(p)) /\ Cardinality(Here(p)) \in Nat
  BY <1>3, FS_Subset, FS_CardinalityType
<1>5. \A p : IsFiniteSet(First(ids, p)) /\ Cardinality(First(ids, p)) \in Nat
  BY <1>3, FS_Subset, FS_CardinalityType DEF First
<1>6. f \in [Rank -> Nat] /\ \A p \in Rank : f[p] = Cardinality(Here(p))
  BY <1>4 DEF SendCounts
<1> HIDE DEF f, n
<1>7. /\ \A p \in 0 .. N : Upto(f, p) \in Nat
      /\ Upto(f, 0) = 0
      /\ \A p \in 1 .. N : Upto(f, p) = Upto(f, p - 1) + f[p]
  BY <1>1, <1>6, UptoIs
<1>8. Bad = {}
  <2> SUFFICES ASSUME Bad # {} PROVE FALSE
    OBVIOUS
  <2>1. PICK p \in Bad : \A y \in Bad : p <= y
    BY Least
  <2>2. p \in 0 .. N /\ p \in Nat /\ Upto(f, p) # Cardinality(First(ids, p))
    BY <1>1, <2>1
  <2>3. CASE p = 0
    <3>1. First(ids, 0) = {}
      BY <1>2 DEF First
    <3>2. Cardinality(First(ids, 0)) = 0
      BY <3>1, FS_EmptySet
    <3> QED
      BY <1>7, <2>2, <2>3, <3>2
  <2>4. CASE p # 0
    <3>1. p \in 1 .. N /\ p - 1 \in Nat /\ p - 1 \notin Bad /\ p - 1 <= N
      BY <1>1, <2>1, <2>2, <2>4
    <3>2. Upto(f, p - 1) = Cardinality(First(ids, p - 1))
      BY <3>1
    <3>3. First(ids, p) = First(ids, p - 1) \cup Here(p) /\ First(ids, p - 1) \cap Here(p) = {}
      BY <1>2, <3>1 DEF First
    <3>4. Cardinality(First(ids, p - 1) \cup Here(p))
             = Cardinality(First(ids, p - 1)) + Cardinality(Here(p))
                  - Cardinality(First(ids, p - 1) \cap Here(p))
      <4> DEFINE A == First(ids, p - 1)
                 B == Here(p)
      <4>1. IsFiniteSet(A) /\ IsFiniteSet(B)
        BY <1>4, <1>5
      <4> HIDE DEF A, B
      <4>2. Cardinality(A \cup B) = Cardinality(A) + Cardinality(B) - Cardinality(A \cap B)
        BY <4>1, FS_Union
      <4> QED
        BY <4>2 DEF A, B
    <3>5. Cardinality(First(ids, p - 1) \cap Here(p)) = 0
      BY <3>3, FS_EmptySet
    <3>6. f[p] = Cardinality(Here(p)) /\ Upto(f, p) = Upto(f, p - 1) + f[p]
      BY <1>1, <1>6, <1>7, <3>1
    <3>7. Cardinality(First(ids, p - 1)) \in Nat /\ Cardinality(Here(p)) \in Nat
      BY <1>4, <1>5
    <3> HIDE DEF Here
    <3> QED
      BY <2>2, <3>2, <3>3, <3>4, <3>5, <3>6, <3>7
  <2> QED
    BY <2>3, <2>4
<1>9. \A p \in 0 .. N : Upto(f, p) = Cardinality(First(ids, p))
  BY <1>1, <1>8
<1>10. Upto(f, N) = n
  <2>1. First(ids, N) = DOMAIN ids
    BY <1>2 DEF First
  <2>2. N \in 0 .. N
    BY <1>1
  <2> QED
    BY <1>3, <1>9, <2>1, <2>2
<1> QED
  BY <1>5, <1>6, <1>9, <1>10 DEF f, n

(* The part of a request that goes to a rank is of that length, and the parts *)
(* put together are the ids in owner order.                                   *)
LEMMA PartsAre ==
    ASSUME NEW ids \in Seq(Node)
    PROVE  /\ Parts(ids) \in Lists(Rank, Node)
           /\ \A p \in Rank : Parts(ids)[p] \in Seq(Node) /\ Len(Parts(ids)[p]) = SendCounts(ids)[p]
           /\ \A p \in Rank : \A j \in 1 .. SendCounts(ids)[p] :
                 Parts(ids)[p][j] = InOwnerOrder(ids)[Upto(SendCounts(ids), p - 1) + j]
           /\ \A kind \in Kinds : FlattenSeq([p \in Rank |-> Rows(kind, Parts(ids)[p])])
                                     = Rows(kind, InOwnerOrder(ids))
<1> DEFINE s == InOwnerOrder(ids)
           f == SendCounts(ids)
<1>1. s \in Seq(Node) /\ Len(s) = Len(ids)
  BY OrderIs
<1>2. f \in [Rank -> Nat] /\ Upto(f, N) = Len(ids)
  BY CountsAre
<1> HIDE DEF s, f
<1>3. /\ Split(s, f) \in Lists(Rank, Node)
      /\ \A p \in Rank : Len(Split(s, f)[p]) = f[p]
      /\ \A p \in Rank : \A j \in 1 .. f[p] : Split(s, f)[p][j] = s[Upto(f, p - 1) + j]
  BY <1>1, <1>2, SplitIs
<1>4. \A kind \in Kinds : FlattenSeq([p \in Rank |-> Rows(kind, Split(s, f)[p])]) = Rows(kind, s)
  BY <1>1, <1>2, RowsOfParts
<1>5. \A p \in Rank : Split(s, f)[p] \in Seq(Node)
  BY <1>3 DEF Lists
<1>6. Parts(ids) = Split(s, f)
  BY DEF Parts, s, f
<1> QED
  BY <1>3, <1>4, <1>5, <1>6 DEF s, f

(* Every id in the part of a rank is owned by it.                             *)
LEMMA PartsOwned ==
    ASSUME NEW ids \in Seq(Node), NEW p \in Rank, NEW j \in 1 .. SendCounts(ids)[p]
    PROVE  Owner[Parts(ids)[p][j]] = p
<1> DEFINE f == SendCounts(ids)
           n == Len(ids)
           order == OwnerOrder(ids)
           q == Upto(f, p - 1) + j
           key(w) == Owner[ids[order[w]]]
<1>1. N \in Nat /\ p \in 1 .. N /\ p \in Nat /\ p - 1 \in 0 .. N /\ p \in 0 .. N
  BY RankIs
<1>2. /\ n \in Nat /\ DOMAIN ids = 1 .. n
      /\ \A i \in 1 .. n : Owner[ids[i]] \in 1 .. N
      /\ OwnersOf(ids) \in [1 .. n -> Int]
      /\ \A i \in 1 .. n : OwnersOf(ids)[i] = Owner[ids[i]]
      /\ order = Argsort(OwnersOf(ids))
  BY OwnersAre
<1>3. /\ order \in [1 .. n -> 1 .. n]
      /\ \A u, w \in 1 .. n : order[u] = order[w] => u = w
      /\ \A i \in 1 .. n : \E w \in 1 .. n : order[w] = i
      /\ \A w \in 1 .. n : InOwnerOrder(ids)[w] = ids[order[w]]
  BY OrderIs
<1>4. /\ f \in [Rank -> Nat] /\ Upto(f, N) = n
      /\ \A k \in 0 .. N : IsFiniteSet(First(ids, k)) /\ Upto(f, k) = Cardinality(First(ids, k))
  BY CountsAre
<1>5. Parts(ids)[p][j] = InOwnerOrder(ids)[q]
  BY PartsAre
<1>6. f \in [1 .. N -> Nat] /\ j \in 1 .. f[p]
  BY <1>4, RankIs
<1> HIDE DEF f, n, order
<1>7. /\ Upto(f, p - 1) \in Nat /\ Upto(f, p) \in Nat /\ Upto(f, p) = Upto(f, p - 1) + f[p]
      /\ f[p] \in Nat
  BY <1>1, <1>6, UptoIs
<1>8. q \in 1 .. n /\ q \in Nat /\ Upto(f, p - 1) < q /\ q <= Upto(f, p)
  <2>1. N \in 0 .. N /\ p <= N
    BY <1>1
  <2>2. q \in 1 .. Upto(f, N)
    BY <1>1, <1>6, <2>1, PartWithin
  <2> QED
    BY <1>2, <1>4, <1>6, <1>7, <2>2
<1>9. \A u, w \in 1 .. n : u <= w => key(u) <= key(w)
  <2> TAKE u, w \in 1 .. n
  <2> HAVE u <= w
  <2>1. order[u] \in 1 .. n /\ order[w] \in 1 .. n
    BY <1>3
  <2>2. key(u) \in 1 .. N /\ key(w) \in 1 .. N
    BY <1>2, <2>1
  <2>3. CASE u = w
    BY <2>2, <2>3
  <2>4. CASE u < w
    <3>1. OwnersOf(ids)[order[u]] <= OwnersOf(ids)[order[w]]
      BY <1>2, <2>4, ArgsortGroups
    <3> QED
      BY <1>2, <2>1, <3>1
  <2> QED
    BY <2>3, <2>4
<1>10. \A w \in 1 .. n : order[w] \in 1 .. n /\ key(w) \in 1 .. N
  BY <1>2, <1>3
<1> HIDE DEF q
<1>11. ~(key(q) < p)
  <2> SUFFICES ASSUME key(q) < p PROVE FALSE
    OBVIOUS
  <2> DEFINE g == [w \in 1 .. q |-> order[w]]
  <2>1. \A w \in 1 .. q : w \in 1 .. n /\ order[w] \in First(ids, p - 1)
    <3> TAKE w \in 1 .. q
    <3>1. w \in 1 .. n /\ key(w) <= key(q)
      BY <1>2, <1>8, <1>9
    <3>2. key(w) \in Int /\ key(q) \in Int /\ key(w) <= p - 1
      BY <1>1, <1>8, <1>10, <3>1, SMTT(30)
    <3> QED
      BY <1>2, <1>10, <3>1, <3>2 DEF First
  <2>2. g \in [1 .. q -> First(ids, p - 1)] /\ \A u, w \in 1 .. q : g[u] = g[w] => u = w
    BY <1>3, <2>1
  <2>3. g \in Injection(1 .. q, First(ids, p - 1))
    BY <2>2 DEF Injection, IsInjective
  <2>4. IsFiniteSet(1 .. q) /\ Cardinality(1 .. q) = q
    BY <1>8, FS_Interval
  <2>5. IsFiniteSet(First(ids, p - 1)) /\ Cardinality(First(ids, p - 1)) = Upto(f, p - 1)
    BY <1>1, <1>4
  <2>6. Cardinality(1 .. q) <= Cardinality(First(ids, p - 1))
    BY <2>3, <2>5, FS_Injection
  <2> QED
    BY <1>7, <1>8, <2>4, <2>5, <2>6
<1>12. ~(key(q) > p)
  <2> SUFFICES ASSUME key(q) > p PROVE FALSE
    OBVIOUS
  <2> DEFINE h == [i \in First(ids, p) |-> CHOOSE w \in 1 .. n : order[w] = i]
  <2>1. \A i \in First(ids, p) : i \in 1 .. n /\ h[i] \in 1 .. n /\ order[h[i]] = i
    BY <1>2, <1>3 DEF First
  <2>2. \A i \in First(ids, p) : h[i] \in 1 .. (q - 1)
    <3> TAKE i \in First(ids, p)
    <3>1. key(h[i]) <= p /\ h[i] \in 1 .. n
      BY <2>1 DEF First
    <3>2. ~(q <= h[i])
      <4> SUFFICES ASSUME q <= h[i] PROVE FALSE
        OBVIOUS
      <4>1. key(q) <= key(h[i])
        BY <1>8, <1>9, <3>1
      <4>2. key(q) \in Int /\ key(h[i]) \in Int
        BY <1>8, <1>10, <3>1
      <4> QED
        BY <1>1, <3>1, <4>1, <4>2
    <3> QED
      BY <1>8, <3>1, <3>2
  <2>3. h \in [First(ids, p) -> 1 .. (q - 1)] /\ \A u, w \in First(ids, p) : h[u] = h[w] => u = w
    BY <2>1, <2>2
  <2> HIDE DEF h
  <2>4. h \in Injection(First(ids, p), 1 .. (q - 1))
    BY <2>3 DEF Injection, IsInjective
  <2>5. IsFiniteSet(1 .. (q - 1)) /\ Cardinality(1 .. (q - 1)) = q - 1
    BY <1>8, FS_Interval
  <2>6. Cardinality(First(ids, p)) <= Cardinality(1 .. (q - 1))
    BY <2>4, <2>5, FS_Injection
  <2>7. Cardinality(First(ids, p)) = Upto(f, p)
    BY <1>1, <1>4
  <2> QED
    BY <1>7, <1>8, <2>5, <2>6, <2>7
<1>13. key(q) \in Int
  BY <1>8, <1>10
<1>14. key(q) = p
  BY <1>1, <1>11, <1>12, <1>13
<1> QED
  BY <1>3, <1>5, <1>8, <1>14 DEF q
-----------------------------------------------------------------------------
(* Rows that are missing, repeated, or in owner order.                        *)

(* The missing places, increasing and complete, and what stands there.        *)
LEMMA MissingIs ==
    ASSUME NEW ids \in Seq(Node), NEW present
    PROVE  /\ Missing(ids, present) \in Seq(Node)
           /\ DOMAIN MissingPos(ids, present) = 1 .. Len(Missing(ids, present))
           /\ Elements(MissingPos(ids, present)) = {i \in 1 .. Len(ids) : ids[i] \notin present}
           /\ \A k, l \in 1 .. Len(Missing(ids, present)) :
                 k < l => MissingPos(ids, present)[k] < MissingPos(ids, present)[l]
           /\ \A k \in 1 .. Len(Missing(ids, present)) :
                 /\ MissingPos(ids, present)[k] \in 1 .. Len(ids)
                 /\ ids[MissingPos(ids, present)[k]] \notin present
                 /\ Missing(ids, present)[k] = ids[MissingPos(ids, present)[k]]
<1> DEFINE S == {i \in 1 .. Len(ids) : ids[i] \notin present}
           pos == MissingPos(ids, present)
           m == Cardinality(S)
           got == Missing(ids, present)
<1>1. Len(ids) \in Nat /\ DOMAIN ids = 1 .. Len(ids) /\ \A i \in 1 .. Len(ids) : ids[i] \in Node
  OBVIOUS
<1>2. IsFiniteSet(1 .. Len(ids)) /\ S \subseteq 1 .. Len(ids) /\ S \in SUBSET Int
  BY <1>1, FS_Interval
<1>3. IsFiniteSet(S) /\ m \in Nat
  BY <1>2, FS_Subset, FS_CardinalityType
<1>4. pos = Increasing(S)
  BY <1>1 DEF MissingPos
<1>5. \A i \in S : i \in 1 .. Len(ids) /\ ids[i] \notin present /\ ids[i] \in Node
  BY <1>1
<1> HIDE DEF S, m
<1>6. /\ pos \in [1 .. m -> S]
      /\ Elements(pos) = S
      /\ \A k, l \in 1 .. m : k < l => pos[k] < pos[l]
  BY <1>2, <1>3, <1>4, IncreasingEnumerates DEF m
<1> HIDE DEF pos
<1>7. got = [k \in 1 .. m |-> ids[pos[k]]]
  BY <1>6 DEF Missing, Pick, pos
<1>8. \A k \in 1 .. m : pos[k] \in S /\ got[k] = ids[pos[k]]
  BY <1>6, <1>7
<1>9. got \in [1 .. m -> Node]
  BY <1>5, <1>7, <1>8
<1>10. got \in Seq(Node) /\ Len(got) = m
  BY <1>3, <1>9, ListOf
<1> HIDE DEF got
<1>11. DOMAIN pos = 1 .. Len(got)
  BY <1>6, <1>10
<1>12. \A k \in 1 .. Len(got) : pos[k] \in 1 .. Len(ids) /\ ids[pos[k]] \notin present /\ got[k] = ids[pos[k]]
  BY <1>5, <1>8, <1>10
<1>13. \A k, l \in 1 .. Len(got) : k < l => pos[k] < pos[l]
  BY <1>6, <1>10
<1> QED
  BY <1>6, <1>10, <1>11, <1>12, <1>13 DEF got, pos, S

(* Local rows in their places and the rows asked for where they were missing: *)
(* the rows of the list.                                                      *)
LEMMA FillIs ==
    ASSUME NEW kind \in Kinds, NEW ids \in Seq(Node), NEW present, NEW got,
           Missing(ids, present) = <<>> \/ got = Rows(kind, Missing(ids, present))
    PROVE  Fill(kind, ids, present, got) = Rows(kind, ids)
<1> DEFINE pos == MissingPos(ids, present)
           lost == Missing(ids, present)
           at_(i) == CHOOSE j \in DOMAIN pos : pos[j] = i
<1>1. /\ lost \in Seq(Node) /\ DOMAIN pos = 1 .. Len(lost)
      /\ Elements(pos) = {i \in 1 .. Len(ids) : ids[i] \notin present}
      /\ \A k \in 1 .. Len(lost) : pos[k] \in 1 .. Len(ids) /\ lost[k] = ids[pos[k]]
  BY MissingIs
<1>2. DOMAIN ids = 1 .. Len(ids)
  OBVIOUS
<1>3. Fill(kind, ids, present, got)
         = [i \in DOMAIN ids |-> IF ids[i] \in present THEN Row(kind, ids[i]) ELSE got[at_(i)]]
  BY DEF Fill
<1> HIDE DEF pos, lost
<1>4. ASSUME NEW i \in 1 .. Len(ids), ids[i] \notin present
      PROVE  got[at_(i)] = Row(kind, ids[i])
  <2>1. i \in Elements(pos)
    BY <1>1, <1>4
  <2>2. \E j \in DOMAIN pos : pos[j] = i
    BY <2>1 DEF Elements
  <2>3. at_(i) \in 1 .. Len(lost) /\ pos[at_(i)] = i
    BY <1>1, <2>2
  <2> HIDE DEF at_
  <2>4. lost # <<>>
    BY <2>3
  <2>5. got = Rows(kind, lost)
    BY <2>4 DEF lost
  <2>6. got[at_(i)] = Row(kind, lost[at_(i)])
    BY <1>1, <2>3, <2>5, RowsIs
  <2> QED
    BY <1>1, <2>3, <2>6
<1> HIDE DEF at_
<1>5. Fill(kind, ids, present, got) = [i \in DOMAIN ids |-> Row(kind, ids[i])]
  BY <1>2, <1>3, <1>4
<1> QED
  BY <1>5 DEF Rows

(* The answers, put back by the order they were asked in.                     *)
LEMMA RestoreIs ==
    ASSUME NEW kind \in Kinds, NEW ids \in Seq(Node)
    PROVE  Restore(Rows(kind, InOwnerOrder(ids)), OwnerOrder(ids)) = Rows(kind, ids)
<1> DEFINE n == Len(ids)
           keys == OwnersOf(ids)
           order == OwnerOrder(ids)
           rows == Rows(kind, ids)
           sorted == InOwnerOrder(ids)
<1>1. n \in Nat /\ keys \in [1 .. n -> Int] /\ order = Argsort(keys)
  BY OwnersAre
<1>2. /\ rows \in Seq(Cells) /\ Len(rows) = n
      /\ \A i \in 1 .. n : rows[i] = Row(kind, ids[i])
  BY RowsIs
<1>3. /\ order \in [1 .. n -> 1 .. n]
      /\ sorted \in Seq(Node) /\ Len(sorted) = n
      /\ \A q \in 1 .. n : sorted[q] = ids[order[q]]
  BY OrderIs
<1> HIDE DEF n, keys, order, rows, sorted
<1>4. rows \in [1 .. n -> Cells]
  BY <1>2
<1>5. DOMAIN sorted = 1 .. n
  BY <1>1, <1>3
<1>6. Rows(kind, sorted) = [q \in 1 .. n |-> Row(kind, sorted[q])]
  BY <1>5 DEF Rows
<1>7. Pick(rows, order) = [q \in 1 .. n |-> rows[order[q]]]
  BY <1>3 DEF Pick
<1>8. \A q \in 1 .. n : Row(kind, sorted[q]) = rows[order[q]]
  BY <1>2, <1>3
<1>9. Rows(kind, sorted) = Pick(rows, order)
  BY <1>6, <1>7, <1>8
<1>10. Restore(Pick(rows, Argsort(keys)), Argsort(keys)) = rows
  BY <1>1, <1>4, RestoreInvertsOrder
<1> QED
  BY <1>1, <1>9, <1>10 DEF order, rows, sorted

(* A list asked for once per node, and expanded again.                        *)
LEMMA UniqueIs ==
    ASSUME NEW ids \in Seq(Node)
    PROVE  /\ Unique(ids) \in Seq(Node)
           /\ Elements(Unique(ids)) = Elements(ids)
           /\ IsFiniteSet(Elements(ids)) /\ Elements(ids) \subseteq Node
           /\ Len(Unique(ids)) = Cardinality(Elements(ids))
           /\ \A k, l \in 1 .. Len(Unique(ids)) : k < l => Unique(ids)[k] < Unique(ids)[l]
           /\ \A kind \in Kinds : Pick(Rows(kind, Unique(ids)), InverseOf(ids)) = Rows(kind, ids)
<1> DEFINE n == Len(ids)
           S == Elements(ids)
           u == Unique(ids)
           inverse == InverseOf(ids)
<1>1. n \in Nat /\ DOMAIN ids = 1 .. n /\ Node \subseteq Int
      /\ \A i \in 1 .. n : ids[i] \in Node
  BY RankIs
<1>2. S \subseteq Node /\ S \in SUBSET Int
  BY <1>1 DEF Elements
<1>3. IsFiniteSet(S)
  <2>1. ids \in Surjection(1 .. n, S)
    BY <1>1 DEF Surjection, Elements
  <2>2. IsFiniteSet(1 .. n)
    BY <1>1, FS_Interval
  <2> QED
    BY <2>1, <2>2, FS_Surjection
<1>4. /\ u \in [1 .. Cardinality(S) -> S]
      /\ Elements(u) = S
      /\ \A k, l \in 1 .. Cardinality(S) : k < l => u[k] < u[l]
  BY <1>2, <1>3, IncreasingEnumerates DEF Unique
<1>5. Cardinality(S) \in Nat
  BY <1>3, FS_CardinalityType
<1>6. ids \in [1 .. n -> Int]
  <2>1. \A i \in 1 .. n : ids[i] \in Int
    BY <1>1
  <2>2. ids = [i \in 1 .. n |-> ids[i]]
    BY <1>1
  <2> QED
    BY <2>1, <2>2
<1>7. /\ inverse \in [1 .. n -> DOMAIN u]
      /\ Pick(u, inverse) = ids
  BY <1>1, <1>6, InverseExpandsUnique
<1> HIDE DEF n, S, u, inverse
<1>8. u \in [1 .. Cardinality(S) -> Node]
  BY <1>2, <1>4
<1>9. u \in Seq(Node) /\ Len(u) = Cardinality(S) /\ DOMAIN u = 1 .. Len(u)
  BY <1>5, <1>8, ListOf
<1>10. \A i \in 1 .. n : inverse[i] \in 1 .. Len(u) /\ u[inverse[i]] = ids[i]
  <2>1. Pick(u, inverse) = [i \in 1 .. n |-> u[inverse[i]]]
    BY <1>7 DEF Pick
  <2> QED
    BY <1>7, <1>9, <2>1
<1>11. ASSUME NEW kind \in Kinds
       PROVE  Pick(Rows(kind, u), inverse) = Rows(kind, ids)
  <2>1. \A k \in 1 .. Len(u) : Rows(kind, u)[k] = Row(kind, u[k])
    BY <1>9, RowsIs
  <2>2. Pick(Rows(kind, u), inverse) = [i \in 1 .. n |-> Rows(kind, u)[inverse[i]]]
    BY <1>7 DEF Pick
  <2>3. Rows(kind, ids) = [i \in 1 .. n |-> Row(kind, ids[i])]
    BY <1>1 DEF Rows
  <2>4. \A i \in 1 .. n : Rows(kind, u)[inverse[i]] = Row(kind, ids[i])
    BY <1>10, <2>1
  <2> QED
    BY <2>2, <2>3, <2>4
<1>12. \A k, l \in 1 .. Len(u) : k < l => u[k] < u[l]
  BY <1>4, <1>9
<1> QED
  BY <1>2, <1>3, <1>4, <1>9, <1>11, <1>12 DEF S, u, inverse

LEMMA DistinctIs ==
    ASSUME NEW ids \in Seq(Node)
    PROVE  Distinct(ids) \in Seq(Node) /\ Elements(Distinct(ids)) = Elements(ids)
BY UniqueIs DEF Distinct
-----------------------------------------------------------------------------
(* The calls of a request.  X gives the list that each rank asks for.         *)

\* What the ranks ask of r, and how many ids each sends it.
AskedOf(X, r) == [p \in Rank |-> Parts(X[p])[r]]
Asked(X, r) == [p \in Rank |-> SendCounts(X[p])[r]]

CountsCall(X, r) == [kind |-> "counts", to |-> ToAll(SendCounts(X[r])), want |-> OneEach]
NodesCall(X, r) == [kind |-> "nodes", to |-> Parts(X[r]), want |-> Asked(X, r)]
RowsCall(kind, X, r) ==
    [kind |-> kind, to |-> [p \in Rank |-> Rows(kind, AskedOf(X, r)[p])], want |-> SendCounts(X[r])]
NeededCall(X, r) ==
    [kind |-> "needed", to |-> ToAll([p \in Rank |-> X[r] # <<>>]), want |-> OneEach]

Leg(kind, X, r, l) ==
    IF l = 1 THEN CountsCall(X, r) ELSE IF l = 2 THEN NodesCall(X, r) ELSE RowsCall(kind, X, r)

\* A request whose counts are known, and one whose ids are here.
Counted(X, r) ==
    [ids |-> X[r], order |-> OwnerOrder(X[r]), send |-> SendCounts(X[r]), recv |-> Asked(X, r),
     nodes |-> <<>>]
Answered(X, r) ==
    [ids |-> X[r], order |-> OwnerOrder(X[r]), send |-> SendCounts(X[r]), recv |-> Asked(X, r),
     nodes |-> FlattenSeq(AskedOf(X, r))]

LEMMA ListsAre ==
    ASSUME NEW X \in Lists(Rank, Node), NEW r \in Rank
    PROVE  /\ X[r] \in Seq(Node)
           /\ SendCounts(X[r]) \in [Rank -> Nat]
           /\ Parts(X[r]) \in Lists(Rank, Node)
           /\ \A p \in Rank : Parts(X[r])[p] \in Seq(Node) /\ Len(Parts(X[r])[p]) = SendCounts(X[r])[p]
<1>1. X[r] \in Seq(Node)
  BY DEF Lists
<1>2. SendCounts(X[r]) \in [Rank -> Nat]
  BY <1>1, CountsAre
<1>3. /\ Parts(X[r]) \in Lists(Rank, Node)
      /\ \A p \in Rank : Parts(X[r])[p] \in Seq(Node) /\ Len(Parts(X[r])[p]) = SendCounts(X[r])[p]
  BY <1>1, PartsAre
<1> QED
  BY <1>1, <1>2, <1>3

LEMMA AskedIs ==
    ASSUME NEW X \in Lists(Rank, Node), NEW r \in Rank
    PROVE  /\ AskedOf(X, r) \in Lists(Rank, Node)
           /\ Asked(X, r) \in [Rank -> Nat]
           /\ Asked(X, r) = Lens(AskedOf(X, r))
           /\ \A p \in Rank : /\ AskedOf(X, r)[p] = Parts(X[p])[r]
                              /\ Asked(X, r)[p] = SendCounts(X[p])[r]
                              /\ Asked(X, r)[p] = Len(AskedOf(X, r)[p])
<1>1. \A p \in Rank : /\ SendCounts(X[p]) \in [Rank -> Nat]
                      /\ Parts(X[p])[r] \in Seq(Node)
                      /\ Len(Parts(X[p])[r]) = SendCounts(X[p])[r]
  BY ListsAre
<1>2. \A p \in Rank : SendCounts(X[p])[r] \in Nat
  BY <1>1
<1>3. AskedOf(X, r) \in Lists(Rank, Node)
  BY <1>1 DEF AskedOf, Lists
<1>4. Asked(X, r) \in [Rank -> Nat]
  BY <1>2 DEF Asked
<1>5. \A p \in Rank : AskedOf(X, r)[p] = Parts(X[p])[r] /\ Asked(X, r)[p] = SendCounts(X[p])[r]
  BY DEF AskedOf, Asked
<1>6. Asked(X, r) = Lens(AskedOf(X, r))
  BY <1>1 DEF Asked, AskedOf, Lens
<1> QED
  BY <1>1, <1>3, <1>4, <1>5, <1>6

(* Ranks in the same leg of a request make the same call, and what one sends  *)
(* the other has room for.                                                    *)
LEMMA LegsFit ==
    ASSUME NEW X \in Lists(Rank, Node), NEW kind \in Kinds, NEW r \in Rank, NEW p \in Rank, NEW l
    PROVE  /\ Leg(kind, X, r, l).kind = Leg(kind, X, p, l).kind
           /\ Len(Leg(kind, X, r, l).to[p]) = Leg(kind, X, p, l).want[r]
<1>1. CASE l = 1
  <2>1. /\ Leg(kind, X, r, l) = CountsCall(X, r)
        /\ Leg(kind, X, p, l) = CountsCall(X, p)
    BY <1>1 DEF Leg
  <2>2. CountsCall(X, r).to[p] = <<SendCounts(X[r])[p]>> /\ CountsCall(X, p).want[r] = 1
    BY DEF CountsCall, ToAll, OneEach
  <2>3. CountsCall(X, r).kind = "counts" /\ CountsCall(X, p).kind = "counts"
    BY DEF CountsCall
  <2> QED
    BY <2>1, <2>2, <2>3
<1>2. CASE l = 2
  <2>1. /\ Leg(kind, X, r, l) = NodesCall(X, r)
        /\ Leg(kind, X, p, l) = NodesCall(X, p)
    BY <1>2 DEF Leg
  <2>2. NodesCall(X, r).to[p] = Parts(X[r])[p] /\ NodesCall(X, p).want[r] = SendCounts(X[r])[p]
    BY AskedIs DEF NodesCall
  <2>3. NodesCall(X, r).kind = "nodes" /\ NodesCall(X, p).kind = "nodes"
    BY DEF NodesCall
  <2>4. Len(Parts(X[r])[p]) = SendCounts(X[r])[p]
    BY ListsAre
  <2> QED
    BY <2>1, <2>2, <2>3, <2>4
<1>3. CASE l # 1 /\ l # 2
  <2>1. /\ Leg(kind, X, r, l) = RowsCall(kind, X, r)
        /\ Leg(kind, X, p, l) = RowsCall(kind, X, p)
    BY <1>3 DEF Leg
  <2>2. /\ RowsCall(kind, X, r).to[p] = Rows(kind, AskedOf(X, r)[p])
        /\ RowsCall(kind, X, p).want[r] = SendCounts(X[p])[r]
    BY DEF RowsCall
  <2>3. RowsCall(kind, X, r).kind = kind /\ RowsCall(kind, X, p).kind = kind
    BY DEF RowsCall
  <2>4. AskedOf(X, r)[p] = Parts(X[p])[r]
    BY AskedIs
  <2>5. Parts(X[p])[r] \in Seq(Node) /\ Len(Parts(X[p])[r]) = SendCounts(X[p])[r]
    BY ListsAre
  <2>6. Len(Rows(kind, Parts(X[p])[r])) = SendCounts(X[p])[r]
    BY <2>5, RowsIs
  <2> QED
    BY <2>1, <2>2, <2>3, <2>4, <2>6
<1> QED
  BY <1>1, <1>2, <1>3

LEMMA NeededFit ==
    ASSUME NEW X, NEW r \in Rank, NEW p \in Rank
    PROVE  /\ NeededCall(X, r).kind = NeededCall(X, p).kind
           /\ Len(NeededCall(X, r).to[p]) = NeededCall(X, p).want[r]
           /\ NeededCall(X, r).to[p][1] = (X[r] # <<>>)
<1>1. NeededCall(X, r).to[p] = <<X[r] # <<>>>> /\ NeededCall(X, p).want[r] = 1
  BY DEF NeededCall, ToAll, OneEach
<1>2. NeededCall(X, r).kind = "needed" /\ NeededCall(X, p).kind = "needed"
  BY DEF NeededCall
<1> QED
  BY <1>1, <1>2

(* The parts of the collected nodes are the rows of what each rank asked for. *)
LEMMA AnswerIs ==
    ASSUME NEW X \in Lists(Rank, Node), NEW kind \in Kinds, NEW r \in Rank
    PROVE  /\ FlattenSeq(AskedOf(X, r)) \in Seq(Node)
           /\ Split(Rows(kind, FlattenSeq(AskedOf(X, r))), Asked(X, r))
                 = [p \in Rank |-> Rows(kind, AskedOf(X, r)[p])]
<1> DEFINE ss == AskedOf(X, r)
           f == Asked(X, r)
           t == FlattenSeq(ss)
           u == Rows(kind, t)
           w == Split(u, f)
<1>1. ss \in Lists(Rank, Node) /\ f \in [Rank -> Nat] /\ \A p \in Rank : f[p] = Len(ss[p])
  BY AskedIs
<1> HIDE DEF ss, f
<1>2. /\ t \in Seq(Node) /\ Len(t) = Upto(f, N)
      /\ \A p \in Rank : \A j \in 1 .. f[p] : t[Upto(f, p - 1) + j] = ss[p][j]
  BY <1>1, FlattenParts
<1> HIDE DEF t
<1>3. /\ u \in Seq(Cells) /\ Len(u) = Len(t)
      /\ \A i \in 1 .. Len(t) : u[i] = Row(kind, t[i])
  BY <1>2, RowsIs
<1> HIDE DEF u
<1>4. /\ w \in Lists(Rank, Cells)
      /\ \A p \in Rank : Len(w[p]) = f[p]
      /\ \A p \in Rank : \A j \in 1 .. f[p] : w[p][j] = u[Upto(f, p - 1) + j]
  BY <1>1, <1>2, <1>3, SplitIs
<1> HIDE DEF w
<1>5. ASSUME NEW p \in Rank
      PROVE  w[p] = Rows(kind, ss[p])
  <2>1. ss[p] \in Seq(Node) /\ w[p] \in Seq(Cells) /\ f[p] \in Nat /\ Len(ss[p]) = f[p]
    BY <1>1, <1>4 DEF Lists
  <2>2. /\ Rows(kind, ss[p]) \in Seq(Cells) /\ Len(Rows(kind, ss[p])) = f[p]
        /\ \A j \in 1 .. f[p] : Rows(kind, ss[p])[j] = Row(kind, ss[p][j])
    BY <2>1, RowsIs
  <2>3. ASSUME NEW j \in 1 .. f[p]
        PROVE  w[p][j] = Rows(kind, ss[p])[j]
    <3>1. N \in 0 .. N /\ p <= N /\ N \in Nat /\ p \in 1 .. N /\ f \in [1 .. N -> Nat]
      BY <1>1, RankIs
    <3>2. Upto(f, p - 1) + j \in 1 .. Upto(f, N)
      BY <3>1, PartWithin
    <3>3. u[Upto(f, p - 1) + j] = Row(kind, t[Upto(f, p - 1) + j])
      BY <1>2, <1>3, <3>2
    <3> QED
      BY <1>2, <1>4, <2>2, <3>3
  <2> QED
    BY <1>4, <2>1, <2>2, <2>3, SeqEqual
<1>6. w = [p \in Rank |-> w[p]]
  BY <1>4 DEF Lists
<1> QED
  BY <1>2, <1>5, <1>6 DEF ss, f, t, u, w

(* A rank is asked for its own nodes only.                                    *)
LEMMA AskedOwned ==
    ASSUME NEW X \in Lists(Rank, Node), NEW r \in Rank
    PROVE  Elements(FlattenSeq(AskedOf(X, r))) \subseteq Own(r)
<1> DEFINE ss == AskedOf(X, r)
           f == Asked(X, r)
           t == FlattenSeq(ss)
<1>1. /\ ss \in Lists(Rank, Node) /\ f \in [Rank -> Nat]
      /\ \A p \in Rank : /\ f[p] = Len(ss[p]) /\ ss[p] = Parts(X[p])[r]
                         /\ f[p] = SendCounts(X[p])[r]
  BY AskedIs
<1> HIDE DEF ss, f
<1>2. /\ t \in Seq(Node) /\ Len(t) = Upto(f, N)
      /\ \A p \in Rank : \A j \in 1 .. f[p] : t[Upto(f, p - 1) + j] = ss[p][j]
  BY <1>1, FlattenParts
<1> HIDE DEF t
<1>3. ASSUME NEW i \in 1 .. Len(t)
      PROVE  t[i] \in Own(r)
  <2>1. N \in Nat /\ f \in [1 .. N -> Nat] /\ i \in 1 .. Upto(f, N)
    BY <1>1, <1>2, RankIs
  <2>2. \E p \in 1 .. N : \E j \in 1 .. f[p] : i = Upto(f, p - 1) + j
    BY <2>1, InPart
  <2>3. PICK p \in 1 .. N : \E j \in 1 .. f[p] : i = Upto(f, p - 1) + j
    BY <2>2
  <2>4. PICK j \in 1 .. f[p] : i = Upto(f, p - 1) + j
    BY <2>3
  <2>5. p \in Rank
    BY RankIs
  <2>6. X[p] \in Seq(Node) /\ j \in 1 .. SendCounts(X[p])[r]
    BY <1>1, <2>4, <2>5, ListsAre
  <2>7. Owner[Parts(X[p])[r][j]] = r
    BY <2>6, PartsOwned
  <2>8. t[i] = Parts(X[p])[r][j]
    BY <1>1, <1>2, <2>4, <2>5
  <2>9. t[i] \in Node
    BY <1>2
  <2> QED
    BY <2>7, <2>8, <2>9 DEF Own
<1>4. DOMAIN t = 1 .. Len(t)
  BY <1>2
<1>5. Elements(t) \subseteq Own(r)
  BY <1>3, <1>4 DEF Elements
<1> QED
  BY <1>5 DEF t, ss
-----------------------------------------------------------------------------
(* The calls of a batch, which its plan alone decides.                        *)

FeatureIds(w, k) ==
    [r \in Rank |-> Missing(Distinct(FeatureLists(w, r)[k]), FeatureRows(r))]
StateMissing(w) == [r \in Rank |-> MissingState(w, r)]
StateIds(w) == [r \in Rank |-> Unique(MissingState(w, r))]
EndIds(w) == [r \in Rank |-> Missing(w.ends[r], Own(r))]

Fetches(w) == IF w.mode = "snapshot" THEN Len(w.blocks[1]) ELSE 1
AnyMissing(w) == \E r \in Rank : MissingState(w, r) # <<>>

FeatureCalls(w) == 3 * Fetches(w)
StateCalls(w) ==
    IF w.state = "none" THEN 0
    ELSE IF ~AnyMissing(w) THEN 1
    ELSE IF w.state = "exact" THEN 4 ELSE 2
BeforeEnds(w) == FeatureCalls(w) + StateCalls(w)
Cost(w) == BeforeEnds(w) + (IF w.collect THEN 3 ELSE 0)

Call(w, o, r) ==
    IF o <= FeatureCalls(w)
    THEN LET k == (o + 2) \div 3 IN Leg("feature", FeatureIds(w, k), r, o - 3 * (k - 1))
    ELSE IF o = FeatureCalls(w) + 1 /\ w.state # "none" THEN NeededCall(StateMissing(w), r)
    ELSE IF o <= BeforeEnds(w)
    THEN IF w.state = "exact" THEN Leg("state", StateIds(w), r, o - FeatureCalls(w) - 1)
         ELSE RowsCall("state", FeatureIds(w, 1), r)
    ELSE Leg("endpoint", EndIds(w), r, o - BeforeEnds(w))

LEMMA WantIs ==
    ASSUME NEW w \in Workloads, NEW r \in Rank
    PROVE  /\ w.mode \in {"event", "snapshot"} /\ w.state \in {"none", "exact", "prefetch"}
           /\ w.collect \in BOOLEAN
           /\ w.blocks[r] \in Seq(Seq(Node)) /\ w.ends[r] \in Seq(Node)
           /\ Nodes(w, r) \in Seq(Node)
<1>1. w \in Wants
  BY FetchAssumption
<1>2. /\ w.mode \in {"event", "snapshot"} /\ w.state \in {"none", "exact", "prefetch"}
      /\ w.collect \in BOOLEAN
      /\ w.blocks \in [Rank -> Seq(Seq(Node))] /\ w.ends \in [Rank -> Seq(Node)]
  BY <1>1 DEF Wants
<1>3. w.blocks[r] \in Seq(Seq(Node)) /\ w.ends[r] \in Seq(Node)
  BY <1>2
<1>4. Nodes(w, r) \in Seq(Node)
  <2> DEFINE ss == w.blocks[r]
             n == Len(ss)
  <2>1. n \in Nat /\ ss = [i \in 1 .. n |-> ss[i]] /\ \A i \in 1 .. n : ss[i] \in Seq(Node)
    BY <1>3
  <2> HIDE DEF n, ss
  <2>2. ss \in Lists(1 .. n, Node)
    BY <2>1 DEF Lists
  <2>3. FlattenSeq(ss) \in Seq(Node)
    BY <2>1, <2>2, FlattenIs
  <2> QED
    BY <2>3 DEF Nodes, ss
<1> QED
  BY <1>2, <1>3, <1>4

(* Every rank makes the same number of feature fetches in a batch.            *)
LEMMA FetchesAre ==
    ASSUME NEW w \in Workloads, NEW r \in Rank
    PROVE  /\ Fetches(w) \in Nat /\ Fetches(w) # 0
           /\ FeatureLists(w, r) \in Seq(Seq(Node)) /\ Len(FeatureLists(w, r)) = Fetches(w)
           /\ w.state = "prefetch" => Fetches(w) = 1 /\ w.mode = "event"
<1>1. 1 \in Rank
  BY RankIs
<1>2. /\ w.blocks[r] \in Seq(Seq(Node)) /\ w.blocks[1] \in Seq(Seq(Node))
      /\ Nodes(w, r) \in Seq(Node) /\ w.mode \in {"event", "snapshot"}
  BY <1>1, WantIs
<1>3. w.mode = "snapshot" =>
         w.state = "none" /\ Len(w.blocks[r]) = Len(w.blocks[1]) /\ w.blocks[1] # <<>>
  BY <1>1, SnapshotsAssumption
<1>4. CASE w.mode = "snapshot"
  <2>1. Fetches(w) = Len(w.blocks[1]) /\ FeatureLists(w, r) = w.blocks[r]
    BY <1>4 DEF Fetches, FeatureLists
  <2>2. w.state # "prefetch"
    BY <1>3, <1>4
  <2>3. Len(w.blocks[1]) \in Nat /\ Len(w.blocks[1]) # 0
    BY <1>2, <1>3, <1>4
  <2> QED
    BY <1>2, <1>3, <1>4, <2>1, <2>2, <2>3
<1>5. CASE w.mode = "event"
  <2>1. Fetches(w) = 1
    BY <1>5 DEF Fetches
  <2>2. Unique(Nodes(w, r)) \in Seq(Node)
    BY <1>2, UniqueIs
  <2>3. \E s \in Seq(Node) : FeatureLists(w, r) = <<s>>
    BY <1>2, <1>5, <2>2 DEF FeatureLists
  <2> QED
    BY <1>5, <2>1, <2>3
<1> QED
  BY <1>2, <1>4, <1>5

LEMMA StateNodesAre ==
    ASSUME NEW w \in Workloads, NEW r \in Rank
    PROVE  /\ StateNodes(w, r) \in Seq(Node)
           /\ Elements(StateNodes(w, r)) = Elements(Nodes(w, r))
           /\ MissingState(w, r) \in Seq(Node)
<1> DEFINE s == Nodes(w, r)
           n == Len(s)
           order == Argsort(s)
           t == Pick(s, order)
<1>1. s \in Seq(Node)
  BY WantIs
<1>2. n \in Nat /\ DOMAIN s = 1 .. n /\ s = [i \in 1 .. n |-> s[i]]
      /\ \A i \in 1 .. n : s[i] \in Node /\ s[i] \in Int
  BY <1>1, RankIs
<1> HIDE DEF n, s
<1>3. s \in [1 .. n -> Int]
  BY <1>2
<1>4. order \in [1 .. n -> 1 .. n] /\ \A i \in 1 .. n : \E q \in 1 .. n : order[q] = i
  BY <1>2, <1>3, ArgsortPermutes
<1> HIDE DEF order
<1>5. t = [q \in 1 .. n |-> s[order[q]]]
  BY <1>4 DEF Pick
<1>6. \A q \in 1 .. n : order[q] \in 1 .. n /\ s[order[q]] \in Node /\ t[q] = s[order[q]]
  BY <1>2, <1>4, <1>5
<1>7. t \in Seq(Node) /\ DOMAIN t = 1 .. n
  <2>1. t \in [1 .. n -> Node]
    BY <1>5, <1>6
  <2> QED
    BY <1>2, <2>1, ListOf
<1> HIDE DEF t
<1>8. Elements(t) = Elements(s)
  <2>1. ASSUME NEW i \in 1 .. n PROVE \E q \in 1 .. n : t[q] = s[i]
    <3>1. PICK q \in 1 .. n : order[q] = i
      BY <1>4
    <3> QED
      BY <1>6, <3>1
  <2>2. \A q \in 1 .. n : \E i \in 1 .. n : s[i] = t[q]
    BY <1>6
  <2> QED
    BY <1>2, <1>7, <2>1, <2>2 DEF Elements
<1>9. StateNodes(w, r) = s \/ StateNodes(w, r) = t
  BY DEF StateNodes, s, t, order
<1>10. StateNodes(w, r) \in Seq(Node) /\ Elements(StateNodes(w, r)) = Elements(s)
  BY <1>1, <1>7, <1>8, <1>9 DEF s
<1>11. MissingState(w, r) \in Seq(Node)
  BY <1>10, MissingIs DEF MissingState
<1> QED
  BY <1>10, <1>11 DEF s

LEMMA IdsAre ==
    ASSUME NEW w \in Workloads
    PROVE  /\ \A k \in 1 .. Fetches(w) : FeatureIds(w, k) \in Lists(Rank, Node)
           /\ StateMissing(w) \in Lists(Rank, Node)
           /\ StateIds(w) \in Lists(Rank, Node)
           /\ EndIds(w) \in Lists(Rank, Node)
<1>1. ASSUME NEW k \in 1 .. Fetches(w) PROVE FeatureIds(w, k) \in Lists(Rank, Node)
  <2>1. ASSUME NEW r \in Rank
        PROVE  Missing(Distinct(FeatureLists(w, r)[k]), FeatureRows(r)) \in Seq(Node)
    <3>1. FeatureLists(w, r) \in Seq(Seq(Node)) /\ k \in 1 .. Len(FeatureLists(w, r))
      BY FetchesAre
    <3>2. FeatureLists(w, r)[k] \in Seq(Node)
      BY <3>1
    <3> QED
      BY <3>2, DistinctIs, MissingIs
  <2> QED
    BY <2>1 DEF FeatureIds, Lists
<1>2. \A r \in Rank : MissingState(w, r) \in Seq(Node)
  BY StateNodesAre
<1>3. \A r \in Rank : Unique(MissingState(w, r)) \in Seq(Node)
  BY <1>2, UniqueIs
<1>4. \A r \in Rank : Missing(w.ends[r], Own(r)) \in Seq(Node)
  BY WantIs, MissingIs
<1>5. StateMissing(w) \in Lists(Rank, Node)
  BY <1>2 DEF StateMissing, Lists
<1>6. StateIds(w) \in Lists(Rank, Node)
  BY <1>3 DEF StateIds, Lists
<1>7. EndIds(w) \in Lists(Rank, Node)
  BY <1>4 DEF EndIds, Lists
<1> QED
  BY <1>1, <1>5, <1>6, <1>7

LEMMA CostIs ==
    ASSUME NEW w \in Workloads
    PROVE  /\ Fetches(w) \in Nat /\ Fetches(w) # 0
           /\ FeatureCalls(w) = 3 * Fetches(w) /\ FeatureCalls(w) \in Nat
           /\ StateCalls(w) \in 0 .. 4
           /\ w.state = "none" => StateCalls(w) = 0
           /\ w.state # "none" /\ ~AnyMissing(w) => StateCalls(w) = 1
           /\ w.state = "exact" /\ AnyMissing(w) => StateCalls(w) = 4
           /\ w.state = "prefetch" /\ AnyMissing(w) => StateCalls(w) = 2
           /\ BeforeEnds(w) = FeatureCalls(w) + StateCalls(w) /\ BeforeEnds(w) \in Nat
           /\ w.collect => Cost(w) = BeforeEnds(w) + 3
           /\ ~w.collect => Cost(w) = BeforeEnds(w)
           /\ Cost(w) \in Nat
<1>1. 1 \in Rank
  BY RankIs
<1>2. Fetches(w) \in Nat /\ Fetches(w) # 0
  BY <1>1, FetchesAre
<1>3. w.state \in {"none", "exact", "prefetch"} /\ w.collect \in BOOLEAN
  BY <1>1, WantIs
<1>4. FeatureCalls(w) = 3 * Fetches(w) /\ FeatureCalls(w) \in Nat
  BY <1>2 DEF FeatureCalls
<1>5. /\ StateCalls(w) \in 0 .. 4
      /\ w.state = "none" => StateCalls(w) = 0
      /\ w.state # "none" /\ ~AnyMissing(w) => StateCalls(w) = 1
      /\ w.state = "exact" /\ AnyMissing(w) => StateCalls(w) = 4
      /\ w.state = "prefetch" /\ AnyMissing(w) => StateCalls(w) = 2
  BY DEF StateCalls
<1>6. BeforeEnds(w) = FeatureCalls(w) + StateCalls(w) /\ BeforeEnds(w) \in Nat
  BY <1>4, <1>5 DEF BeforeEnds
<1>7. /\ w.collect => Cost(w) = BeforeEnds(w) + 3
      /\ ~w.collect => Cost(w) = BeforeEnds(w)
      /\ Cost(w) \in Nat
  BY <1>6 DEF Cost
<1> QED
  BY <1>2, <1>4, <1>5, <1>6, <1>7
-----------------------------------------------------------------------------
(* Which call is which, and where it stands among those of all batches.       *)

LEMMA FeatureCall ==
    ASSUME NEW w \in Workloads, NEW r \in Rank, NEW k \in 1 .. Fetches(w), NEW l \in 1 .. 3
    PROVE  /\ 3 * (k - 1) + l \in 1 .. Cost(w)
           /\ Call(w, 3 * (k - 1) + l, r) = Leg("feature", FeatureIds(w, k), r, l)
<1> DEFINE o == 3 * (k - 1) + l
<1>1. /\ Fetches(w) \in Nat /\ FeatureCalls(w) = 3 * Fetches(w)
      /\ FeatureCalls(w) <= Cost(w) /\ Cost(w) \in Nat
  <2>1. w.collect \in BOOLEAN
    BY WantIs
  <2> QED
    BY <2>1, CostIs
<1>2. k \in Nat /\ k >= 1 /\ k <= Fetches(w) /\ l \in Nat /\ l >= 1 /\ l <= 3
  BY <1>1
<1>3. o \in Nat /\ o >= 1 /\ o <= 3 * Fetches(w)
  BY <1>1, <1>2
<1>4. (o + 2) \div 3 = k /\ o - 3 * (k - 1) = l
  BY <1>2
<1> HIDE DEF o
<1>5. Call(w, o, r) = Leg("feature", FeatureIds(w, k), r, l)
  BY <1>1, <1>3, <1>4 DEF Call
<1> QED
  BY <1>1, <1>3, <1>5 DEF o

LEMMA StateCall ==
    ASSUME NEW w \in Workloads, NEW r \in Rank, w.state # "none"
    PROVE  /\ FeatureCalls(w) + 1 \in 1 .. Cost(w)
           /\ Call(w, FeatureCalls(w) + 1, r) = NeededCall(StateMissing(w), r)
           /\ w.state = "exact" /\ AnyMissing(w) =>
                 \A l \in 1 .. 3 :
                    /\ FeatureCalls(w) + 1 + l \in 1 .. Cost(w)
                    /\ Call(w, FeatureCalls(w) + 1 + l, r) = Leg("state", StateIds(w), r, l)
           /\ w.state = "prefetch" /\ AnyMissing(w) =>
                 /\ FeatureCalls(w) + 2 \in 1 .. Cost(w)
                 /\ Call(w, FeatureCalls(w) + 2, r) = RowsCall("state", FeatureIds(w, 1), r)
<1>1. w.state \in {"exact", "prefetch"} /\ w.collect \in BOOLEAN
  BY WantIs
<1>2. /\ FeatureCalls(w) \in Nat /\ StateCalls(w) \in Nat /\ StateCalls(w) >= 1
      /\ w.state = "exact" /\ AnyMissing(w) => StateCalls(w) = 4
      /\ w.state = "prefetch" /\ AnyMissing(w) => StateCalls(w) = 2
      /\ BeforeEnds(w) = FeatureCalls(w) + StateCalls(w)
      /\ Cost(w) >= BeforeEnds(w) /\ Cost(w) \in Nat
  BY <1>1, CostIs
<1>3. FeatureCalls(w) + 1 \in 1 .. Cost(w)
  BY <1>2
<1>4. Call(w, FeatureCalls(w) + 1, r) = NeededCall(StateMissing(w), r)
  BY <1>2 DEF Call
<1>5. ASSUME w.state = "exact", AnyMissing(w), NEW l \in 1 .. 3
      PROVE  /\ FeatureCalls(w) + 1 + l \in 1 .. Cost(w)
             /\ Call(w, FeatureCalls(w) + 1 + l, r) = Leg("state", StateIds(w), r, l)
  <2> DEFINE o == FeatureCalls(w) + 1 + l
  <2>1. /\ o \in 1 .. Cost(w) /\ ~(o <= FeatureCalls(w)) /\ o # FeatureCalls(w) + 1
        /\ o <= BeforeEnds(w) /\ o - FeatureCalls(w) - 1 = l
    BY <1>2, <1>5
  <2> HIDE DEF o
  <2>2. Call(w, o, r) = Leg("state", StateIds(w), r, l)
    BY <1>5, <2>1 DEF Call
  <2> QED
    BY <2>1, <2>2 DEF o
<1>6. ASSUME w.state = "prefetch", AnyMissing(w)
      PROVE  /\ FeatureCalls(w) + 2 \in 1 .. Cost(w)
             /\ Call(w, FeatureCalls(w) + 2, r) = RowsCall("state", FeatureIds(w, 1), r)
  <2> DEFINE o == FeatureCalls(w) + 2
  <2>1. /\ o \in 1 .. Cost(w) /\ ~(o <= FeatureCalls(w)) /\ o # FeatureCalls(w) + 1
        /\ o <= BeforeEnds(w)
    BY <1>2, <1>6
  <2> HIDE DEF o
  <2>2. Call(w, o, r) = RowsCall("state", FeatureIds(w, 1), r)
    BY <1>6, <2>1 DEF Call
  <2> QED
    BY <2>1, <2>2 DEF o
<1> QED
  BY <1>3, <1>4, <1>5, <1>6

LEMMA EndCall ==
    ASSUME NEW w \in Workloads, NEW r \in Rank, w.collect, NEW l \in 1 .. 3
    PROVE  /\ BeforeEnds(w) + l \in 1 .. Cost(w)
           /\ Call(w, BeforeEnds(w) + l, r) = Leg("endpoint", EndIds(w), r, l)
<1> DEFINE o == BeforeEnds(w) + l
<1>1. w.state \in {"none", "exact", "prefetch"}
  BY WantIs
<1>2. /\ FeatureCalls(w) \in Nat /\ StateCalls(w) \in Nat
      /\ w.state # "none" => StateCalls(w) >= 1
      /\ BeforeEnds(w) = FeatureCalls(w) + StateCalls(w)
      /\ Cost(w) = BeforeEnds(w) + 3
  BY <1>1, CostIs
<1>3. /\ o \in 1 .. Cost(w) /\ ~(o <= FeatureCalls(w))
      /\ ~(o = FeatureCalls(w) + 1 /\ w.state # "none")
      /\ ~(o <= BeforeEnds(w)) /\ o - BeforeEnds(w) = l
  BY <1>2
<1> HIDE DEF o
<1>4. Call(w, o, r) = Leg("endpoint", EndIds(w), r, l)
  BY <1>3 DEF Call
<1> QED
  BY <1>3, <1>4 DEF o

(* In the same place of a batch all ranks make the same call, and each sends  *)
(* what its peer has room for.                                                *)
LEMMA CallsMatch ==
    ASSUME NEW w \in Workloads, NEW r \in Rank, NEW p \in Rank, NEW o \in 1 .. Cost(w)
    PROVE  /\ Call(w, o, r).kind = Call(w, o, p).kind
           /\ Len(Call(w, o, r).to[p]) = Call(w, o, p).want[r]
<1> DEFINE k == (o + 2) \div 3
<1>1. /\ FeatureCalls(w) \in Nat /\ FeatureCalls(w) = 3 * Fetches(w) /\ Fetches(w) \in Nat
      /\ Fetches(w) # 0 /\ Cost(w) \in Nat /\ BeforeEnds(w) \in Nat
  BY CostIs
<1>2. "feature" \in Kinds /\ "state" \in Kinds /\ "endpoint" \in Kinds
  BY DEF Kinds
<1>3. o \in Nat /\ o >= 1
  BY <1>1
<1>4. CASE o <= FeatureCalls(w)
  <2>1. k \in 1 .. Fetches(w)
    BY <1>1, <1>3, <1>4
  <2>2. FeatureIds(w, k) \in Lists(Rank, Node)
    BY <2>1, IdsAre
  <2>3. /\ Call(w, o, r) = Leg("feature", FeatureIds(w, k), r, o - 3 * (k - 1))
        /\ Call(w, o, p) = Leg("feature", FeatureIds(w, k), p, o - 3 * (k - 1))
    BY <1>4 DEF Call
  <2> HIDE DEF k
  <2> QED
    BY <1>2, <2>2, <2>3, LegsFit
<1>5. CASE ~(o <= FeatureCalls(w)) /\ (o = FeatureCalls(w) + 1 /\ w.state # "none")
  <2>1. /\ Call(w, o, r) = NeededCall(StateMissing(w), r)
        /\ Call(w, o, p) = NeededCall(StateMissing(w), p)
    BY <1>5 DEF Call
  <2> QED
    BY <2>1, NeededFit
<1>6. CASE /\ ~(o <= FeatureCalls(w)) /\ ~(o = FeatureCalls(w) + 1 /\ w.state # "none")
           /\ o <= BeforeEnds(w) /\ w.state = "exact"
  <2>1. /\ Call(w, o, r) = Leg("state", StateIds(w), r, o - FeatureCalls(w) - 1)
        /\ Call(w, o, p) = Leg("state", StateIds(w), p, o - FeatureCalls(w) - 1)
    BY <1>6 DEF Call
  <2>2. StateIds(w) \in Lists(Rank, Node)
    BY IdsAre
  <2> QED
    BY <1>2, <2>1, <2>2, LegsFit
<1>7. CASE /\ ~(o <= FeatureCalls(w)) /\ ~(o = FeatureCalls(w) + 1 /\ w.state # "none")
           /\ o <= BeforeEnds(w) /\ w.state # "exact"
  <2>1. /\ Call(w, o, r) = RowsCall("state", FeatureIds(w, 1), r)
        /\ Call(w, o, p) = RowsCall("state", FeatureIds(w, 1), p)
    BY <1>7 DEF Call
  <2>2. FeatureIds(w, 1) \in Lists(Rank, Node)
    <3>1. 1 \in 1 .. Fetches(w)
      BY <1>1
    <3> QED
      BY <3>1, IdsAre
  <2>3. /\ RowsCall("state", FeatureIds(w, 1), r) = Leg("state", FeatureIds(w, 1), r, 3)
        /\ RowsCall("state", FeatureIds(w, 1), p) = Leg("state", FeatureIds(w, 1), p, 3)
    BY DEF Leg
  <2> QED
    BY <1>2, <2>1, <2>2, <2>3, LegsFit
<1>8. CASE /\ ~(o <= FeatureCalls(w)) /\ ~(o = FeatureCalls(w) + 1 /\ w.state # "none")
           /\ ~(o <= BeforeEnds(w))
  <2>1. /\ Call(w, o, r) = Leg("endpoint", EndIds(w), r, o - BeforeEnds(w))
        /\ Call(w, o, p) = Leg("endpoint", EndIds(w), p, o - BeforeEnds(w))
    BY <1>8 DEF Call
  <2>2. EndIds(w) \in Lists(Rank, Node)
    BY IdsAre
  <2> QED
    BY <1>2, <2>1, <2>2, LegsFit
<1> HIDE DEF k
<1> QED
  BY ONLY <1>4, <1>5, <1>6, <1>7, <1>8

\* Plans, and the calls of a rank before batch b.
PlanOK(pl) == pl \in [1 .. Batches -> Workloads]
Costs(pl) == [c \in 1 .. Batches |-> Cost(pl[c])]
Base(pl, b) == Upto(Costs(pl), b - 1)

LEMMA BaseIs ==
    ASSUME NEW pl, PlanOK(pl)
    PROVE  /\ Batches \in Nat /\ Batches # 0
           /\ Base(pl, 1) = 0
           /\ \A b \in 1 .. Batches + 1 : Base(pl, b) \in Nat
           /\ \A b \in 1 .. Batches : /\ pl[b] \in Workloads /\ Cost(pl[b]) \in Nat
                                      /\ Base(pl, b + 1) = Base(pl, b) + Cost(pl[b])
           /\ \A b, c \in 1 .. Batches + 1 : b <= c => Base(pl, b) <= Base(pl, c)
<1> DEFINE f == Costs(pl)
<1>1. Batches \in Nat /\ Batches # 0
  BY FetchAssumption
<1>2. \A b \in 1 .. Batches : pl[b] \in Workloads
  BY DEF PlanOK
<1>3. \A b \in 1 .. Batches : Cost(pl[b]) \in Nat
  BY <1>2, CostIs
<1>4. f \in [1 .. Batches -> Nat] /\ \A b \in 1 .. Batches : f[b] = Cost(pl[b])
  BY <1>3 DEF Costs
<1> HIDE DEF f
<1>5. /\ \A p \in 0 .. Batches : Upto(f, p) \in Nat
      /\ Upto(f, 0) = 0
      /\ \A p \in 1 .. Batches : Upto(f, p) = Upto(f, p - 1) + f[p]
  BY <1>1, <1>4, UptoIs
<1>6. \A b : Base(pl, b) = Upto(f, b - 1)
  BY DEF Base, f
<1>7. Base(pl, 1) = 0
  <2>1. 1 - 1 = 0
    OBVIOUS
  <2> QED
    BY <1>5, <1>6, <2>1
<1>8. ASSUME NEW b \in 1 .. Batches + 1 PROVE Base(pl, b) \in Nat
  <2>1. b - 1 \in 0 .. Batches
    BY <1>1
  <2> QED
    BY <1>5, <1>6, <2>1
<1>9. ASSUME NEW b \in 1 .. Batches PROVE Base(pl, b + 1) = Base(pl, b) + Cost(pl[b])
  <2>1. (b + 1) - 1 = b
    BY <1>1
  <2> QED
    BY <1>4, <1>5, <1>6, <2>1
<1>10. ASSUME NEW b \in 1 .. Batches + 1, NEW c \in 1 .. Batches + 1, b <= c
       PROVE  Base(pl, b) <= Base(pl, c)
  <2>1. b - 1 \in 0 .. Batches /\ c - 1 \in 0 .. Batches /\ b - 1 <= c - 1
    BY <1>1, <1>10
  <2>2. Upto(f, b - 1) <= Upto(f, c - 1)
    BY <1>1, <1>4, <2>1, UptoGrows
  <2> QED
    BY <1>6, <2>2
<1> QED
  BY <1>1, <1>2, <1>3, <1>7, <1>8, <1>9, <1>10

(* A place belongs to one call of one batch.                                  *)
LEMMA PlaceOf ==
    ASSUME NEW pl, PlanOK(pl),
           NEW b \in 1 .. Batches, NEW o \in 1 .. Cost(pl[b]),
           NEW c \in 1 .. Batches, NEW i \in 1 .. Cost(pl[c]),
           Base(pl, b) + o = Base(pl, c) + i
    PROVE  b = c /\ o = i
<1>1. /\ Batches \in Nat
      /\ \A d \in 1 .. Batches + 1 : Base(pl, d) \in Nat
      /\ \A d \in 1 .. Batches : /\ Cost(pl[d]) \in Nat
                                 /\ Base(pl, d + 1) = Base(pl, d) + Cost(pl[d])
      /\ \A d, e \in 1 .. Batches + 1 : d <= e => Base(pl, d) <= Base(pl, e)
  BY BaseIs
<1>2. ASSUME NEW d \in 1 .. Batches, NEW e \in 1 .. Batches,
             NEW u \in 1 .. Cost(pl[d]), NEW v \in 1 .. Cost(pl[e]),
             Base(pl, d) + u = Base(pl, e) + v
      PROVE  ~(d < e)
  <2> SUFFICES ASSUME d < e PROVE FALSE
    OBVIOUS
  <2>1. d + 1 \in 1 .. Batches + 1 /\ e \in 1 .. Batches + 1 /\ d + 1 <= e /\ d \in 1 .. Batches + 1
    BY <1>1
  <2>2. Base(pl, d) + Cost(pl[d]) <= Base(pl, e)
    BY <1>1, <2>1
  <2>3. /\ Base(pl, d) \in Nat /\ Base(pl, e) \in Nat /\ Cost(pl[d]) \in Nat /\ Cost(pl[e]) \in Nat
        /\ u \in Nat /\ v \in Nat /\ u <= Cost(pl[d]) /\ v >= 1
    BY <1>1, <2>1
  <2> QED
    BY ONLY <1>2, <2>2, <2>3
<1>3. ~(b < c)
  BY <1>2
<1>4. ~(c < b)
  BY <1>2
<1>5. b = c
  BY <1>1, <1>3, <1>4
<1>6. b \in 1 .. Batches + 1
  BY <1>1
<1>7. Base(pl, b) \in Nat /\ o \in Nat /\ i \in Nat
  BY <1>1, <1>6
<1>8. Base(pl, b) + o = Base(pl, b) + i
  BY <1>5
<1> QED
  BY ONLY <1>5, <1>7, <1>8

(* Every place up to the last is one of a call of a batch.                    *)
LEMMA CallAt ==
    ASSUME NEW pl, PlanOK(pl), NEW k \in 1 .. Base(pl, Batches + 1)
    PROVE  \E c \in 1 .. Batches : \E o \in 1 .. Cost(pl[c]) : k = Base(pl, c) + o
<1> DEFINE f == Costs(pl)
<1>1. Batches \in Nat /\ \A b \in 1 .. Batches : Cost(pl[b]) \in Nat
  BY BaseIs
<1>2. f \in [1 .. Batches -> Nat] /\ \A b \in 1 .. Batches : f[b] = Cost(pl[b])
  BY <1>1 DEF Costs
<1>3. Base(pl, Batches + 1) = Upto(f, Batches)
  <2>1. (Batches + 1) - 1 = Batches
    BY <1>1
  <2> QED
    BY <2>1 DEF Base
<1>4. \A c : Base(pl, c) = Upto(f, c - 1)
  BY DEF Base
<1> HIDE DEF f
<1>5. k \in 1 .. Upto(f, Batches)
  BY <1>3
<1>6. \E p \in 1 .. Batches : \E j \in 1 .. f[p] : k = Upto(f, p - 1) + j
  BY <1>1, <1>2, <1>5, InPart
<1> QED
  BY <1>2, <1>4, <1>6
-----------------------------------------------------------------------------
(* The inductive invariant.  All of it is about one rank and the plan: where  *)
(* the rank is in its batch, which calls it has entered, and what it holds.   *)

Phases == {"features", "feature_counts", "feature_nodes", "feature_finish",
           "state", "state_needed", "state_counts", "state_nodes", "state_finish",
           "endpoints", "endpoint_counts", "endpoint_nodes", "endpoint_finish", "use", "done"}
Fetch == [ids : Seq(Node), order : Seq(Nat), reply : Nat]
AnyCall == {Call(w, o, r) : w \in Workloads, o \in Nat, r \in Rank}

RequestOK(r, q) ==
    /\ q \in Request
    /\ Elements(q.order) = DOMAIN q.ids
    /\ Elements(q.nodes) \subseteq Own(r)

\* a: batch and phase; s: the calls entered; q: the request; pd: the fetches
\* under way; rp: the place of the answer; rd: what was read.
Typed(r, a, s, q, pd, rp, rd) ==
    /\ a \in [batch : 1 .. Batches + 1, phase : Phases]
    /\ a.phase = "done" <=> a.batch = Batches + 1
    /\ s \in Seq(AnyCall)
    /\ RequestOK(r, q)
    /\ pd \in Seq(Fetch)
    /\ rp \in 0 .. Len(s)
    /\ rd = [k \in Kinds |-> rd[k]]

\* The calls a rank entered are those of its batches, in order.
Calls(pl, r, s) ==
    \A c \in 1 .. Batches : \A o \in 1 .. Cost(pl[c]) :
        Base(pl, c) + o <= Len(s) => s[Base(pl, c) + o] = Call(pl[c], o, r)

\* The fetch of list k of a batch whose calls begin after place b.
FetchOf(w, b, r, k) ==
    [ids |-> Distinct(FeatureLists(w, r)[k]), order |-> OwnerOrder(FeatureIds(w, k)[r]),
     reply |-> b + 3 * k]
Fetching(w, b, r, pd, len) ==
    /\ \A k \in 1 .. Len(pd) : pd[k] = FetchOf(w, b, r, k)
    /\ b + 3 * Len(pd) <= len

\* The request of the state read was answered, unless nobody missed a row.
StateAsked(w, b, r, q, rp) ==
    /\ AnyMissing(w) =>
          /\ rp = b + BeforeEnds(w)
          /\ q = Answered(IF w.state = "exact" THEN StateIds(w) ELSE FeatureIds(w, 1), r)
    /\ ~AnyMissing(w) => rp = 0

\* The state read is next; a prefetch keeps the fetch and its request.
StateNext(w, r, q, n, rp) ==
    /\ w.state # "none" /\ rp = 0
    /\ w.state = "exact" => n = 0
    /\ w.state = "prefetch" => n = 1 /\ q = Answered(FeatureIds(w, 1), r)

\* Where a rank stands: n fetches under way, len calls entered.
Place(w, b, r, phase, len, q, n, rp) ==
    /\ phase = "features" => n < Fetches(w) /\ len = b + 3 * n /\ rp = 0
    /\ phase = "feature_counts" =>
          n < Fetches(w) /\ len = b + 3 * n + 1 /\ rp = 0 /\ q = AskedFor(FeatureIds(w, n + 1)[r])
    /\ phase = "feature_nodes" =>
          n < Fetches(w) /\ len = b + 3 * n + 2 /\ rp = 0 /\ q = Counted(FeatureIds(w, n + 1), r)
    /\ phase = "feature_finish" =>
          /\ n = Fetches(w)
          /\ w.state = "prefetch" => len = b + BeforeEnds(w) /\ StateAsked(w, b, r, q, rp)
          /\ w.state # "prefetch" => len = b + FeatureCalls(w) /\ rp = 0
    /\ phase = "state" => len = b + FeatureCalls(w) /\ StateNext(w, r, q, n, rp)
    /\ phase = "state_needed" => len = b + FeatureCalls(w) + 1 /\ StateNext(w, r, q, n, rp)
    /\ phase = "state_counts" =>
          /\ w.state = "exact" /\ AnyMissing(w) /\ n = 0 /\ rp = 0
          /\ len = b + FeatureCalls(w) + 2 /\ q = AskedFor(StateIds(w)[r])
    /\ phase = "state_nodes" =>
          /\ w.state = "exact" /\ AnyMissing(w) /\ n = 0 /\ rp = 0
          /\ len = b + FeatureCalls(w) + 3 /\ q = Counted(StateIds(w), r)
    /\ phase = "state_finish" =>
          w.state # "none" /\ n = 0 /\ len = b + BeforeEnds(w) /\ StateAsked(w, b, r, q, rp)
    /\ phase = "endpoints" => n = 0 /\ len = b + BeforeEnds(w)
    /\ phase = "endpoint_counts" =>
          w.collect /\ n = 0 /\ len = b + BeforeEnds(w) + 1 /\ q = AskedFor(EndIds(w)[r])
    /\ phase = "endpoint_nodes" =>
          w.collect /\ n = 0 /\ len = b + BeforeEnds(w) + 2 /\ q = Counted(EndIds(w), r)
    /\ phase = "endpoint_finish" =>
          /\ w.collect /\ n = 0 /\ len = b + BeforeEnds(w) + 3 /\ rp = len
          /\ q = Answered(EndIds(w), r)
    /\ phase = "use" => w.collect /\ n = 0 /\ len = b + BeforeEnds(w) + 3
    /\ phase = "done" => n = 0 /\ len = b

\* What a batch was given so far is right.  The state read of a prefetch is,
\* if lists of one block come sorted when no node repeats.
SortedPrefetches ==
    \A w \in Workloads : \A r \in Rank :
        w.state = "prefetch" /\ Len(w.blocks[r]) = 1 /\ ~Repeats(Nodes(w, r))
            => Nodes(w, r) = Unique(Nodes(w, r))
Reads(w, r, rd) ==
    /\ \A k \in DOMAIN rd["feature"] : rd["feature"][k] = Rows("feature", FeatureLists(w, r)[k])
    /\ SortedPrefetches =>
          (rd["state"] # <<>> => rd["state"] = Rows("state", StateNodes(w, r)))
    /\ rd["endpoint"] # <<>> => rd["endpoint"] = Rows("endpoint", w.ends[r])

Good(pl, r, a, s, q, pd, rp, rd) ==
    /\ Typed(r, a, s, q, pd, rp, rd)
    /\ Calls(pl, r, s)
    /\ Fetching(pl[a.batch], Base(pl, a.batch), r, pd, Len(s))
    /\ Place(pl[a.batch], Base(pl, a.batch), r, a.phase, Len(s), q, Len(pd), rp)
    /\ Reads(pl[a.batch], r, rd)

Local(r) == Good(plan, r, at[r], sent[r], request[r], pending[r], reply[r], read[r])

Domains ==
    /\ DOMAIN at = Rank /\ DOMAIN sent = Rank /\ DOMAIN request = Rank
    /\ DOMAIN pending = Rank /\ DOMAIN reply = Rank /\ DOMAIN read = Rank

Inv == PlanOK(plan) /\ Domains /\ \A r \in Rank : Local(r)

-----------------------------------------------------------------------------
(* A step of a rank changes nothing of the others.                            *)

Only(r) ==
    /\ plan' = plan
    /\ Domains'
    /\ \A p \in Rank : p # r =>
          /\ at'[p] = at[p] /\ sent'[p] = sent[p] /\ request'[p] = request[p]
          /\ pending'[p] = pending[p] /\ reply'[p] = reply[p] /\ read'[p] = read[p]

LEMMA OnlyKeeps ==
    ASSUME Inv, NEW r \in Rank, Only(r),
           Good(plan, r, at'[r], sent'[r], request'[r], pending'[r], reply'[r], read'[r])
    PROVE  Inv'
<1>1. PlanOK(plan') /\ Domains' /\ plan' = plan
  BY DEF Inv, Only
<1>2. ASSUME NEW p \in Rank PROVE Local(p)'
  <2>1. CASE p = r
    BY <1>1, <2>1 DEF Local
  <2>2. CASE p # r
    <3>1. /\ at'[p] = at[p] /\ sent'[p] = sent[p] /\ request'[p] = request[p]
          /\ pending'[p] = pending[p] /\ reply'[p] = reply[p] /\ read'[p] = read[p]
      BY <2>2 DEF Only
    <3>2. Local(p)
      BY DEF Inv
    <3> QED
      BY <1>1, <3>1, <3>2 DEF Local
  <2> QED
    BY <2>1, <2>2
<1> QED
  BY <1>1, <1>2 DEF Inv

(* The next call of the batch keeps the calls in order.                       *)
LEMMA CallEntered ==
    ASSUME NEW pl, PlanOK(pl), NEW r \in Rank, NEW s \in Seq(AnyCall), Calls(pl, r, s),
           NEW b \in 1 .. Batches, NEW o \in 1 .. Cost(pl[b]), Len(s) = Base(pl, b) + o - 1,
           NEW call, call = Call(pl[b], o, r)
    PROVE  /\ Append(s, call) \in Seq(AnyCall)
           /\ Len(Append(s, call)) = Base(pl, b) + o
           /\ Len(Append(s, call)) = Len(s) + 1
           /\ Calls(pl, r, Append(s, call))
<1> DEFINE t == Append(s, call)
<1>1. /\ Batches \in Nat
      /\ \A d \in 1 .. Batches + 1 : Base(pl, d) \in Nat
      /\ \A d \in 1 .. Batches : pl[d] \in Workloads /\ Cost(pl[d]) \in Nat
  BY BaseIs
<1>2. call \in AnyCall
  <2>1. o \in Nat /\ pl[b] \in Workloads
    BY <1>1
  <2> QED
    BY <2>1 DEF AnyCall
<1> HIDE DEF AnyCall
<1>3. /\ t \in Seq(AnyCall) /\ Len(t) = Len(s) + 1 /\ t[Len(s) + 1] = call
      /\ \A i \in 1 .. Len(s) : t[i] = s[i]
  BY <1>2
<1> HIDE DEF t
<1>4. /\ Len(s) \in Nat /\ Base(pl, b) \in Nat /\ o \in Nat /\ Len(t) = Base(pl, b) + o
      /\ Len(t) = Len(s) + 1
  BY <1>1, <1>3
<1>5. ASSUME NEW c \in 1 .. Batches, NEW i \in 1 .. Cost(pl[c]), Base(pl, c) + i <= Len(t)
      PROVE  t[Base(pl, c) + i] = Call(pl[c], i, r)
  <2>1. Base(pl, c) \in Nat /\ i \in Nat /\ i >= 1
    BY <1>1
  <2>2. CASE Base(pl, c) + i <= Len(s)
    <3>1. s[Base(pl, c) + i] = Call(pl[c], i, r)
      BY <2>2 DEF Calls
    <3>2. Base(pl, c) + i \in 1 .. Len(s)
      BY <1>4, <2>1, <2>2
    <3> QED
      BY <1>3, <3>1, <3>2
  <2>3. CASE ~(Base(pl, c) + i <= Len(s))
    <3>1. Base(pl, c) + i = Base(pl, b) + o /\ Base(pl, c) + i = Len(s) + 1
      <4>1. Base(pl, c) + i <= Len(t)
        BY <1>5
      <4> QED
        BY ONLY <1>4, <2>1, <2>3, <4>1
    <3>2. b = c /\ o = i
      BY <3>1, PlaceOf
    <3> QED
      BY <1>3, <3>1, <3>2
  <2> QED
    BY <2>2, <2>3
<1>6. Calls(pl, r, t)
  BY <1>5 DEF Calls
<1> QED
  BY <1>3, <1>4, <1>6 DEF t

(* In a collective that is complete, every rank has made the call of its place. *)
LEMMA PeersCall ==
    ASSUME Inv, NEW k, \A p \in Rank : Len(sent[p]) >= k,
           NEW c \in 1 .. Batches, NEW o \in 1 .. Cost(plan[c]), k = Base(plan, c) + o
    PROVE  \A p \in Rank : sent[p][k] = Call(plan[c], o, p)
<1> TAKE p \in Rank
<1>1. Calls(plan, p, sent[p]) /\ sent[p] \in Seq(AnyCall)
  BY DEF Inv, Local, Good, Typed
<1>2. Base(plan, c) \in Nat /\ o \in Nat /\ Len(sent[p]) \in Nat
  <2>1. PlanOK(plan)
    BY DEF Inv
  <2>2. c \in 1 .. Batches + 1 /\ Batches \in Nat /\ Cost(plan[c]) \in Nat
    BY <2>1, BaseIs
  <2> QED
    BY <1>1, <2>1, <2>2, BaseIs
<1>3. k <= Len(sent[p])
  BY <1>2
<1> QED
  BY <1>1, <1>3 DEF Calls
-----------------------------------------------------------------------------
(* What arrives in a collective, leg by leg.                                  *)

LEMMA RequestsOK ==
    ASSUME NEW X \in Lists(Rank, Node), NEW r \in Rank
    PROVE  /\ RequestOK(r, AskedFor(X[r])) /\ RequestOK(r, Counted(X, r))
           /\ RequestOK(r, Answered(X, r))
<1> DEFINE order == OwnerOrder(X[r])
<1>1. X[r] \in Seq(Node) /\ SendCounts(X[r]) \in [Rank -> Nat]
  BY ListsAre
<1>2. order \in Seq(Nat) /\ Elements(order) = DOMAIN X[r]
  <2>1. /\ order \in [1 .. Len(X[r]) -> 1 .. Len(X[r])] /\ Elements(order) = DOMAIN X[r]
    BY <1>1, OrderIs
  <2>2. Len(X[r]) \in Nat
    BY <1>1
  <2> HIDE DEF order
  <2>3. order \in [1 .. Len(X[r]) -> Nat]
    BY <2>1, <2>2
  <2> QED
    BY <2>1, <2>2, <2>3, ListOf
<1>3. Asked(X, r) \in [Rank -> Nat] /\ NoCounts \in [Rank -> Nat]
  BY AskedIs DEF NoCounts
<1>4. FlattenSeq(AskedOf(X, r)) \in Seq(Node) /\ Elements(FlattenSeq(AskedOf(X, r))) \subseteq Own(r)
  <2>1. "feature" \in Kinds
    BY DEF Kinds
  <2> QED
    BY <2>1, AnswerIs, AskedOwned
<1>5. <<>> \in Seq(Node) /\ Elements(<<>>) = {}
  BY DEF Elements
<1> HIDE DEF order
<1>6. RequestOK(r, [ids |-> X[r], order |-> order, send |-> SendCounts(X[r]), recv |-> NoCounts,
                    nodes |-> <<>>])
  BY <1>1, <1>2, <1>3, <1>5 DEF RequestOK, Request
<1>7. RequestOK(r, [ids |-> X[r], order |-> order, send |-> SendCounts(X[r]), recv |-> Asked(X, r),
                    nodes |-> <<>>])
  BY <1>1, <1>2, <1>3, <1>5 DEF RequestOK, Request
<1>8. RequestOK(r, [ids |-> X[r], order |-> order, send |-> SendCounts(X[r]), recv |-> Asked(X, r),
                    nodes |-> FlattenSeq(AskedOf(X, r))])
  BY <1>1, <1>2, <1>3, <1>4 DEF RequestOK, Request
<1> QED
  BY <1>6, <1>7, <1>8 DEF AskedFor, Counted, Answered, order

LEMMA NoRequestOK == \A r \in Rank : RequestOK(r, NoRequest)
<1>1. NoRequest \in Request
  <2>1. <<>> \in Seq(Node) /\ <<>> \in Seq(Nat) /\ NoCounts \in [Rank -> Nat]
    BY DEF NoCounts
  <2> QED
    BY <2>1 DEF NoRequest, Request
<1>2. Elements(<<>>) = {} /\ DOMAIN <<>> = {}
  BY DEF Elements
<1> QED
  BY <1>1, <1>2 DEF RequestOK, NoRequest

LEMMA CountsArrive ==
    ASSUME NEW X, NEW r \in Rank, NEW k, \A p \in Rank : sent[p][k] = CountsCall(X, p)
    PROVE  ReceivedEach(r, k) = Asked(X, r)
<1>1. ASSUME NEW p \in Rank PROVE sent[p][k].to[r][1] = SendCounts(X[p])[r]
  <2>1. CountsCall(X, p).to[r][1] = SendCounts(X[p])[r]
    BY DEF CountsCall, ToAll
  <2> QED
    BY <2>1
<1> QED
  BY <1>1 DEF ReceivedEach, Asked

LEMMA NodesArrive ==
    ASSUME NEW X, NEW r \in Rank, NEW k, \A p \in Rank : sent[p][k] = NodesCall(X, p)
    PROVE  Received(r, k) = FlattenSeq(AskedOf(X, r))
<1>1. ASSUME NEW p \in Rank PROVE sent[p][k].to[r] = Parts(X[p])[r]
  <2>1. NodesCall(X, p).to[r] = Parts(X[p])[r]
    BY DEF NodesCall
  <2> QED
    BY <2>1
<1>2. [p \in Rank |-> sent[p][k].to[r]] = AskedOf(X, r)
  BY <1>1 DEF AskedOf
<1> QED
  BY <1>2 DEF Received

LEMMA RowsArrive ==
    ASSUME NEW X \in Lists(Rank, Node), NEW kind \in Kinds, NEW r \in Rank, NEW k,
           \A p \in Rank : sent[p][k] = RowsCall(kind, X, p)
    PROVE  Restore(Received(r, k), OwnerOrder(X[r])) = Rows(kind, X[r])
<1>1. ASSUME NEW p \in Rank PROVE sent[p][k].to[r] = Rows(kind, AskedOf(X, p)[r])
  <2>1. RowsCall(kind, X, p).to[r] = Rows(kind, AskedOf(X, p)[r])
    BY DEF RowsCall
  <2> QED
    BY <2>1
<1>2. \A p \in Rank : AskedOf(X, p)[r] = Parts(X[r])[p]
  BY AskedIs
<1>3. [p \in Rank |-> sent[p][k].to[r]] = [p \in Rank |-> Rows(kind, Parts(X[r])[p])]
  BY <1>1, <1>2
<1>4. X[r] \in Seq(Node)
  BY ListsAre
<1>5. Received(r, k) = Rows(kind, InOwnerOrder(X[r]))
  BY <1>3, <1>4, PartsAre DEF Received
<1> QED
  BY <1>4, <1>5, RestoreIs

LEMMA NeededArrive ==
    ASSUME NEW X, NEW r \in Rank, NEW k, \A p \in Rank : sent[p][k] = NeededCall(X, p)
    PROVE  (\E p \in Rank : ReceivedEach(r, k)[p]) <=> (\E p \in Rank : X[p] # <<>>)
<1>1. \A p \in Rank : sent[p][k].to[r][1] = (X[p] # <<>>)
  BY NeededFit
<1>2. \A p \in Rank : ReceivedEach(r, k)[p] = (X[p] # <<>>)
  BY <1>1 DEF ReceivedEach
<1> QED
  BY <1>2

-----------------------------------------------------------------------------
(* A rank in a batch.                                                         *)

LEMMA InBatch ==
    ASSUME Inv, NEW r \in Rank, at[r].phase # "done"
    PROVE  /\ Batches \in Nat /\ at[r].batch \in 1 .. Batches /\ Want(r) = plan[at[r].batch]
           /\ at[r].phase \in Phases
           /\ Want(r) \in Workloads /\ Base(plan, at[r].batch) \in Nat
           /\ sent[r] \in Seq(AnyCall) /\ Len(sent[r]) \in Nat /\ Calls(plan, r, sent[r])
           /\ Entered(r) = Len(sent[r])
           /\ RequestOK(r, request[r]) /\ pending[r] \in Seq(Fetch) /\ Len(pending[r]) \in Nat
           /\ reply[r] \in 0 .. Len(sent[r]) /\ read[r] = [k \in Kinds |-> read[r][k]]
           /\ Fetching(Want(r), Base(plan, at[r].batch), r, pending[r], Len(sent[r]))
           /\ Place(Want(r), Base(plan, at[r].batch), r, at[r].phase, Len(sent[r]), request[r],
                    Len(pending[r]), reply[r])
           /\ Reads(Want(r), r, read[r])
<1>1. PlanOK(plan) /\ Local(r)
  BY DEF Inv
<1>2. Want(r) = plan[at[r].batch]
  BY DEF Want
<1>3. /\ at[r] \in [batch : 1 .. Batches + 1, phase : Phases]
      /\ at[r].phase = "done" <=> at[r].batch = Batches + 1
      /\ sent[r] \in Seq(AnyCall) /\ RequestOK(r, request[r]) /\ pending[r] \in Seq(Fetch)
      /\ reply[r] \in 0 .. Len(sent[r]) /\ read[r] = [k \in Kinds |-> read[r][k]]
  BY <1>1 DEF Local, Good, Typed
<1>4. /\ Calls(plan, r, sent[r])
      /\ Fetching(Want(r), Base(plan, at[r].batch), r, pending[r], Len(sent[r]))
      /\ Place(Want(r), Base(plan, at[r].batch), r, at[r].phase, Len(sent[r]), request[r],
               Len(pending[r]), reply[r])
      /\ Reads(Want(r), r, read[r])
  BY <1>1, <1>2 DEF Local, Good
<1>5. Batches \in Nat
  BY <1>1, BaseIs
<1>6. at[r].batch \in 1 .. Batches /\ at[r].batch \in 1 .. Batches + 1 /\ at[r].phase \in Phases
  BY <1>3, <1>5
<1>7. Want(r) \in Workloads /\ Base(plan, at[r].batch) \in Nat
  BY <1>1, <1>2, <1>6, BaseIs
<1>8. Len(sent[r]) \in Nat /\ Len(pending[r]) \in Nat
  BY <1>3
<1>9. Entered(r) = Len(sent[r])
  BY DEF Entered
<1> QED
  BY <1>2, <1>3, <1>4, <1>5, <1>6, <1>7, <1>8, <1>9

\* The rank moves on in its batch.
Moved(r, phase) ==
    /\ phase \in Phases \ {"done"}
    /\ at[r].phase # "done"
    /\ at'[r].batch = at[r].batch /\ at'[r].phase = phase
    /\ at'[r] \in [batch : {at[r].batch}, phase : {phase}]

LEMMA MovedIs ==
    ASSUME Inv, NEW r \in Rank, at[r].phase # "done", NEW phase \in Phases \ {"done"},
           at' = [at EXCEPT ![r].phase = phase]
    PROVE  /\ Moved(r, phase) /\ DOMAIN at' = Rank
           /\ \A p \in Rank : p # r => at'[p] = at[p]
<1>1. at[r] \in [batch : 1 .. Batches + 1, phase : Phases] /\ DOMAIN at = Rank
  BY DEF Inv, Local, Good, Typed, Domains
<1>2. at'[r] = [at[r] EXCEPT !.phase = phase]
  BY <1>1
<1>3. at'[r].batch = at[r].batch /\ at'[r].phase = phase /\ at'[r] \in [batch : {at[r].batch}, phase : {phase}]
  BY <1>1, <1>2
<1> QED
  BY <1>1, <1>3 DEF Moved

(* A step that enters the next call of the batch.                             *)
LEMMA EnterKeeps ==
    ASSUME Inv, NEW r \in Rank, Only(r), NEW phase, Moved(r, phase),
           NEW o \in 1 .. Cost(Want(r)), Len(sent[r]) = Base(plan, at[r].batch) + o - 1,
           sent'[r] = Append(sent[r], Call(Want(r), o, r)),
           RequestOK(r, request'[r]), pending'[r] \in Seq(Fetch),
           reply'[r] \in 0 .. Len(sent[r]) + 1, read'[r] = read[r],
           Fetching(Want(r), Base(plan, at[r].batch), r, pending'[r], Len(sent[r]) + 1),
           Place(Want(r), Base(plan, at[r].batch), r, phase, Len(sent[r]) + 1, request'[r],
                 Len(pending'[r]), reply'[r])
    PROVE  Inv'
<1> DEFINE w == Want(r)
           b == Base(plan, at[r].batch)
           s == Append(sent[r], Call(w, o, r))
<1>1. /\ at[r].batch \in 1 .. Batches /\ w = plan[at[r].batch] /\ Batches \in Nat
      /\ sent[r] \in Seq(AnyCall) /\ Calls(plan, r, sent[r])
      /\ read[r] = [k \in Kinds |-> read[r][k]] /\ Reads(w, r, read[r])
  BY InBatch DEF Moved
<1>2. PlanOK(plan)
  BY DEF Inv
<1>3. /\ s \in Seq(AnyCall) /\ Len(s) = Len(sent[r]) + 1 /\ Calls(plan, r, s)
  <2> DEFINE c == at[r].batch
             call == Call(w, o, r)
             t == sent[r]
  <2>1. /\ c \in 1 .. Batches /\ o \in 1 .. Cost(plan[c]) /\ call = Call(plan[c], o, r)
        /\ Len(t) = Base(plan, c) + o - 1
        /\ t \in Seq(AnyCall) /\ Calls(plan, r, t)
    BY <1>1
  <2> HIDE DEF c, call, t
  <2>2. /\ Append(t, call) \in Seq(AnyCall) /\ Len(Append(t, call)) = Len(t) + 1
        /\ Calls(plan, r, Append(t, call))
    BY ONLY <1>2, <2>1, r \in Rank, CallEntered
  <2> QED
    BY <2>2 DEF call, t
<1>4. /\ at'[r] \in [batch : 1 .. Batches + 1, phase : Phases]
      /\ at'[r].phase = "done" <=> at'[r].batch = Batches + 1
      /\ at'[r].batch = at[r].batch /\ at'[r].phase = phase
  BY <1>1 DEF Moved
<1> HIDE DEF w, b, s
<1>5. sent'[r] = s
  BY DEF s, w
<1>6. Typed(r, at'[r], sent'[r], request'[r], pending'[r], reply'[r], read'[r])
  BY <1>1, <1>3, <1>4, <1>5 DEF Typed
<1>7. Good(plan, r, at'[r], sent'[r], request'[r], pending'[r], reply'[r], read'[r])
  BY <1>1, <1>3, <1>4, <1>5, <1>6 DEF Good, w, b
<1> QED
  BY <1>7, OnlyKeeps

(* A step within a batch that enters no call.                                 *)
LEMMA StayKeeps ==
    ASSUME Inv, NEW r \in Rank, Only(r), NEW phase, Moved(r, phase),
           sent'[r] = sent[r], request'[r] = request[r], reply'[r] = reply[r],
           pending'[r] \in Seq(Fetch),
           Fetching(Want(r), Base(plan, at[r].batch), r, pending'[r], Len(sent[r])),
           Place(Want(r), Base(plan, at[r].batch), r, phase, Len(sent[r]), request[r],
                 Len(pending'[r]), reply[r]),
           read'[r] = [k \in Kinds |-> read'[r][k]], Reads(Want(r), r, read'[r])
    PROVE  Inv'
<1>1. /\ at[r].batch \in 1 .. Batches /\ Want(r) = plan[at[r].batch] /\ Batches \in Nat
      /\ sent[r] \in Seq(AnyCall) /\ Calls(plan, r, sent[r]) /\ RequestOK(r, request[r])
      /\ reply[r] \in 0 .. Len(sent[r])
  BY InBatch DEF Moved
<1>2. /\ at'[r] \in [batch : 1 .. Batches + 1, phase : Phases]
      /\ at'[r].phase = "done" <=> at'[r].batch = Batches + 1
      /\ at'[r].batch = at[r].batch /\ at'[r].phase = phase
  BY <1>1 DEF Moved
<1>3. Typed(r, at'[r], sent'[r], request'[r], pending'[r], reply'[r], read'[r])
  BY <1>1, <1>2 DEF Typed
<1>4. Good(plan, r, at'[r], sent'[r], request'[r], pending'[r], reply'[r], read'[r])
  BY <1>1, <1>2, <1>3 DEF Good
<1> QED
  BY <1>4, OnlyKeeps

\* All calls up to k are there.
AllEntered(k) == \A p \in Rank : Len(sent[p]) >= k

LEMMA CompleteIs ==
    ASSUME NEW k, Complete(k)
    PROVE  AllEntered(k)
BY DEF Complete, AllEntered, Entered
-----------------------------------------------------------------------------
(* One lemma per step of a rank.                                              *)

LEMMA AwaitedIs ==
    ASSUME NEW r, Ready(r)
    PROVE  /\ at[r].phase # "done"
           /\ at[r].phase \in {"feature_counts", "feature_nodes", "state_needed", "state_counts",
                               "state_nodes", "endpoint_counts", "endpoint_nodes"}
                 => AllEntered(Entered(r))
           /\ at[r].phase = "feature_finish" => AllEntered(Last(pending[r]).reply)
           /\ at[r].phase \in {"state_finish", "endpoint_finish"} => AllEntered(reply[r])
<1>1. at[r].phase # "done" /\ Complete(Awaited(r))
  BY DEF Ready
<1>2. AllEntered(Awaited(r))
  BY <1>1, CompleteIs
<1>3. ASSUME at[r].phase \in {"feature_counts", "feature_nodes", "state_needed", "state_counts",
                              "state_nodes", "endpoint_counts", "endpoint_nodes"}
      PROVE  Awaited(r) = Entered(r)
  BY <1>3 DEF Awaited
<1>4. ASSUME at[r].phase = "feature_finish" PROVE Awaited(r) = Last(pending[r]).reply
  BY <1>4 DEF Awaited
<1>5. ASSUME at[r].phase \in {"state_finish", "endpoint_finish"} PROVE Awaited(r) = reply[r]
  BY <1>5 DEF Awaited
<1> QED
  BY <1>1, <1>2, <1>3, <1>4, <1>5

LEMMA LaunchKeeps ==
    ASSUME Inv, NEW r \in Rank, LaunchFeatures(r)
    PROVE  Inv'
<1> DEFINE w == Want(r)
           b == Base(plan, at[r].batch)
           n == Len(pending[r])
           X == FeatureIds(w, n + 1)
           len == Len(sent[r])
           q == AskedFor(X[r])
<1>1. at[r].phase = "features"
  BY DEF LaunchFeatures
<1>2. at[r].phase # "done" /\ "feature_counts" \in Phases \ {"done"}
  BY <1>1 DEF Phases
<1>3. /\ w \in Workloads /\ b \in Nat /\ len \in Nat /\ n \in Nat
      /\ pending[r] \in Seq(Fetch) /\ reply[r] \in 0 .. len
      /\ Fetching(w, b, r, pending[r], len)
      /\ Place(w, b, r, "features", len, request[r], n, reply[r])
  BY <1>1, <1>2, InBatch
<1>4. Fetches(w) \in Nat
  BY <1>3, CostIs
<1>5. n < Fetches(w) /\ len = b + 3 * n /\ reply[r] = 0
  BY <1>3 DEF Place
<1>6. n + 1 \in 1 .. Fetches(w)
  BY <1>3, <1>4, <1>5
<1>7. X \in Lists(Rank, Node)
  BY <1>3, <1>6, IdsAre
<1>8. X[r] = Missing(FetchedIds(r), FeatureRows(r))
  BY DEF FeatureIds, FetchedIds
<1> DEFINE o == 3 * ((n + 1) - 1) + 1
<1>9. o \in 1 .. Cost(w) /\ Call(w, o, r) = CountsCall(X, r)
  <2>1. 1 \in 1 .. 3
    OBVIOUS
  <2>2. o \in 1 .. Cost(w) /\ Call(w, o, r) = Leg("feature", X, r, 1)
    BY <1>3, <1>6, <2>1, FeatureCall
  <2> QED
    BY <2>2 DEF Leg
<1>10. len = b + o - 1
  BY <1>3, <1>5
<1>11. /\ request' = [request EXCEPT ![r] = q]
       /\ sent' = [sent EXCEPT ![r] = Append(@, CountsCall(X, r))]
       /\ at' = [at EXCEPT ![r].phase = "feature_counts"]
       /\ plan' = plan /\ pending' = pending /\ reply' = reply /\ read' = read
  BY <1>8 DEF LaunchFeatures, Ask, Enter, Move, CountsCall
<1>12. Domains
  BY DEF Inv
<1>13. Moved(r, "feature_counts") /\ DOMAIN at' = Rank /\ \A p \in Rank : p # r => at'[p] = at[p]
  BY <1>2, <1>11, MovedIs
<1>14. Only(r) /\ request'[r] = q /\ sent'[r] = Append(sent[r], CountsCall(X, r))
  BY <1>11, <1>12, <1>13 DEF Only, Domains
<1>15. RequestOK(r, q)
  BY <1>7, RequestsOK
<1>16. Fetching(w, b, r, pending[r], len + 1)
  BY <1>3 DEF Fetching
<1> HIDE DEF w, b, n, X, len, q, o
<1>17. Place(w, b, r, "feature_counts", len + 1, q, n, reply[r])
  BY <1>5 DEF Place, q, X
<1>18. reply[r] \in 0 .. len + 1
  BY <1>3
<1>19. /\ RequestOK(r, request'[r]) /\ pending'[r] \in Seq(Fetch) /\ reply'[r] \in 0 .. len + 1
       /\ read'[r] = read[r] /\ sent'[r] = Append(sent[r], Call(w, o, r))
       /\ Fetching(w, b, r, pending'[r], len + 1)
       /\ Place(w, b, r, "feature_counts", len + 1, request'[r], Len(pending'[r]), reply'[r])
  BY <1>3, <1>9, <1>11, <1>14, <1>15, <1>16, <1>17, <1>18 DEF n
<1> QED
  BY <1>9, <1>10, <1>13, <1>14, <1>19, EnterKeeps DEF w, b, len

(* The counts of a request are here, its ids leave.                           *)
LEMMA IdsLeave ==
    ASSUME Inv, NEW r \in Rank, Ready(r), NEW kind \in Kinds, SendIds(r, kind),
           NEW X \in Lists(Rank, Node), request[r] = AskedFor(X[r]),
           NEW o \in 1 .. Cost(Want(r)), Len(sent[r]) = Base(plan, at[r].batch) + o,
           \A p \in Rank : Call(Want(r), o, p) = CountsCall(X, p),
           NEW phase, phase = NodesOf[kind], phase \in Phases \ {"done"}
    PROVE  /\ Only(r) /\ Moved(r, phase)
           /\ request'[r] = Counted(X, r) /\ sent'[r] = Append(sent[r], NodesCall(X, r))
           /\ pending'[r] = pending[r] /\ reply'[r] = reply[r] /\ read'[r] = read[r]
<1> DEFINE k == Entered(r)
           recv == ReceivedEach(r, k)
<1>1. at[r].phase \in {"feature_counts", "state_counts", "endpoint_counts"}
  BY DEF SendIds, CountsOf, Kinds
<1>2. at[r].phase # "done" /\ AllEntered(k)
  BY <1>1, AwaitedIs
<1>3. at[r].batch \in 1 .. Batches /\ Want(r) = plan[at[r].batch] /\ k = Len(sent[r])
  BY <1>2, InBatch
<1> HIDE DEF k
<1>4. \A p \in Rank : sent[p][k] = CountsCall(X, p)
  <2>1. o \in 1 .. Cost(plan[at[r].batch]) /\ k = Base(plan, at[r].batch) + o
    BY <1>3
  <2>2. \A p \in Rank : sent[p][k] = Call(plan[at[r].batch], o, p)
    BY <1>2, <1>3, <2>1, PeersCall DEF AllEntered
  <2> QED
    BY <1>3, <2>2
<1>5. recv = Asked(X, r)
  BY <1>4, CountsArrive
<1> HIDE DEF recv
<1>6. Split(Pick(request[r].ids, request[r].order), request[r].send) = Parts(X[r])
  BY DEF AskedFor, Parts, InOwnerOrder
<1>7. /\ request' = [request EXCEPT ![r].recv = recv]
      /\ sent' = [sent EXCEPT ![r] = Append(@, NodesCall(X, r))]
      /\ at' = [at EXCEPT ![r].phase = phase]
      /\ plan' = plan /\ pending' = pending /\ reply' = reply /\ read' = read
  BY <1>5, <1>6 DEF SendIds, Enter, Move, NodesCall, recv, k
<1>8. Domains
  BY DEF Inv
<1>9. Moved(r, phase) /\ DOMAIN at' = Rank /\ \A p \in Rank : p # r => at'[p] = at[p]
  BY <1>2, <1>7, MovedIs
<1>10. Only(r) /\ sent'[r] = Append(sent[r], NodesCall(X, r))
  BY <1>7, <1>8, <1>9 DEF Only, Domains
<1>11. request'[r] = [AskedFor(X[r]) EXCEPT !.recv = recv]
  BY <1>7, <1>8 DEF Domains
<1>12. request'[r] = Counted(X, r)
  BY <1>5, <1>11 DEF AskedFor, Counted
<1> QED
  BY <1>7, <1>9, <1>10, <1>12

(* The ids asked of a rank are here, its answer leaves.                       *)
Answering(r, kind) ==
    /\ request' = [request EXCEPT ![r] = Requested(r)]
    /\ Answer(r, kind, Requested(r))

LEMMA AnswerLeaves ==
    ASSUME Inv, NEW r \in Rank, NEW kind \in Kinds,
           at[r].phase # "done", AllEntered(Entered(r)),
           NEW X \in Lists(Rank, Node), request[r] = Counted(X, r),
           NEW o \in 1 .. Cost(Want(r)), Len(sent[r]) = Base(plan, at[r].batch) + o,
           \A p \in Rank : Call(Want(r), o, p) = NodesCall(X, p),
           Answering(r, kind)
    PROVE  /\ request'[r] = Answered(X, r) /\ DOMAIN request' = Rank
           /\ \A p \in Rank : p # r => request'[p] = request[p]
           /\ sent'[r] = Append(sent[r], RowsCall(kind, X, r)) /\ DOMAIN sent' = Rank
           /\ \A p \in Rank : p # r => sent'[p] = sent[p]
<1> DEFINE k == Entered(r)
<1>1. at[r].phase # "done" /\ AllEntered(k)
  OBVIOUS
<1>2. at[r].batch \in 1 .. Batches /\ Want(r) = plan[at[r].batch] /\ k = Len(sent[r])
  BY <1>1, InBatch
<1> HIDE DEF k
<1>3. \A p \in Rank : sent[p][k] = NodesCall(X, p)
  <2>1. o \in 1 .. Cost(plan[at[r].batch]) /\ k = Base(plan, at[r].batch) + o
    BY <1>2
  <2>2. \A p \in Rank : sent[p][k] = Call(plan[at[r].batch], o, p)
    BY <1>1, <1>2, <2>1, PeersCall DEF AllEntered
  <2> QED
    BY <1>2, <2>2
<1>4. Received(r, k) = FlattenSeq(AskedOf(X, r))
  BY <1>3, NodesArrive
<1>5. Requested(r) = Answered(X, r)
  BY <1>4 DEF Requested, Counted, Answered, k
<1>6. Domains
  BY DEF Inv
<1>7. /\ Answered(X, r).nodes = FlattenSeq(AskedOf(X, r))
      /\ Answered(X, r).recv = Asked(X, r) /\ Answered(X, r).send = SendCounts(X[r])
  BY DEF Answered
<1>8. Split(Rows(kind, Answered(X, r).nodes), Answered(X, r).recv)
         = [p \in Rank |-> Rows(kind, AskedOf(X, r)[p])]
  BY <1>7, AnswerIs
<1>9. sent' = [sent EXCEPT ![r] = Append(@, RowsCall(kind, X, r))]
  BY <1>5, <1>7, <1>8 DEF Answering, Answer, Enter, RowsCall
<1> QED
  BY <1>5, <1>6, <1>9 DEF Answering, Domains

LEMMA SendIdsKeeps ==
    ASSUME Inv, NEW r \in Rank, Ready(r), NEW kind \in Kinds, SendIds(r, kind)
    PROVE  Inv'
<1> DEFINE w == Want(r)
           b == Base(plan, at[r].batch)
           n == Len(pending[r])
           len == Len(sent[r])
<1>1. at[r].phase = CountsOf[kind]
  BY DEF SendIds
<1>2. at[r].phase # "done"
  BY AwaitedIs
<1>3. /\ w \in Workloads /\ b \in Nat /\ len \in Nat /\ n \in Nat
      /\ pending[r] \in Seq(Fetch) /\ reply[r] \in 0 .. len
      /\ Fetching(w, b, r, pending[r], len)
      /\ Place(w, b, r, at[r].phase, len, request[r], n, reply[r])
  BY <1>2, InBatch
<1>4. Fetches(w) \in Nat
  BY <1>3, CostIs
<1>5. Fetching(w, b, r, pending[r], len + 1) /\ reply[r] \in 0 .. len + 1
  BY <1>3 DEF Fetching
<1>6. ASSUME NEW X \in Lists(Rank, Node), request[r] = AskedFor(X[r]),
             NEW o \in 1 .. Cost(w), len = b + o, o + 1 \in 1 .. Cost(w),
             \A p \in Rank : Call(w, o, p) = CountsCall(X, p), Call(w, o + 1, r) = NodesCall(X, r),
             NEW phase, phase = NodesOf[kind], phase \in Phases \ {"done"},
             Place(w, b, r, phase, len + 1, Counted(X, r), n, reply[r])
      PROVE  Inv'
  <2>1. /\ Only(r) /\ Moved(r, phase)
        /\ request'[r] = Counted(X, r) /\ sent'[r] = Append(sent[r], NodesCall(X, r))
        /\ pending'[r] = pending[r] /\ reply'[r] = reply[r] /\ read'[r] = read[r]
    BY <1>6, IdsLeave
  <2>2. RequestOK(r, Counted(X, r))
    BY RequestsOK
  <2>3. len = b + (o + 1) - 1
    BY <1>3, <1>6
  <2> DEFINE i == o + 1
  <2>4. i \in 1 .. Cost(w) /\ len = b + i - 1 /\ sent'[r] = Append(sent[r], Call(w, i, r))
    BY <1>6, <2>1, <2>3
  <2> HIDE DEF i
  <2>5. /\ RequestOK(r, request'[r]) /\ pending'[r] \in Seq(Fetch) /\ reply'[r] \in 0 .. len + 1
        /\ Fetching(w, b, r, pending'[r], len + 1)
        /\ Place(w, b, r, phase, len + 1, request'[r], Len(pending'[r]), reply'[r])
    BY <1>3, <1>5, <1>6, <2>1, <2>2
  <2> QED
    BY <2>1, <2>4, <2>5, EnterKeeps
<1>7. 1 \in 1 .. 3 /\ 2 \in 1 .. 3
  OBVIOUS
<1>8. CASE kind = "feature"
  <2> DEFINE X == FeatureIds(w, n + 1)
             o == 3 * ((n + 1) - 1) + 1
  <2>1. at[r].phase = "feature_counts"
    BY <1>1, <1>8 DEF CountsOf
  <2>2. n < Fetches(w) /\ len = b + 3 * n + 1 /\ reply[r] = 0 /\ request[r] = AskedFor(X[r])
    BY <1>3, <2>1 DEF Place
  <2>3. n + 1 \in 1 .. Fetches(w)
    BY <1>3, <1>4, <2>2
  <2>4. X \in Lists(Rank, Node)
    BY <1>3, <2>3, IdsAre
  <2>5. /\ o \in 1 .. Cost(w)
        /\ \A p \in Rank : Call(w, o, p) = CountsCall(X, p)
    <3>1. \A p \in Rank : o \in 1 .. Cost(w) /\ Call(w, o, p) = Leg("feature", X, p, 1)
      BY <1>3, <1>7, <2>3, FeatureCall
    <3> QED
      BY <3>1 DEF Leg
  <2>6. o + 1 \in 1 .. Cost(w) /\ Call(w, o + 1, r) = NodesCall(X, r)
    <3>1. /\ 3 * ((n + 1) - 1) + 2 \in 1 .. Cost(w)
          /\ Call(w, 3 * ((n + 1) - 1) + 2, r) = Leg("feature", X, r, 2)
      BY <1>3, <1>7, <2>3, FeatureCall
    <3>2. 3 * ((n + 1) - 1) + 2 = o + 1
      BY <1>3
    <3>3. Leg("feature", X, r, 2) = NodesCall(X, r)
      BY DEF Leg
    <3> HIDE DEF o, X
    <3> QED
      BY <3>1, <3>2, <3>3
  <2>7. len = b + o
    BY <1>3, <2>2
  <2>8. "feature_nodes" = NodesOf[kind] /\ "feature_nodes" \in Phases \ {"done"}
    BY <1>8 DEF NodesOf, Phases
  <2>9. Place(w, b, r, "feature_nodes", len + 1, Counted(X, r), n, reply[r])
    <3>1. len + 1 = b + 3 * n + 2
      BY <1>3, <2>2
    <3> HIDE DEF w, b, n, len
    <3> QED
      BY <2>2, <3>1 DEF Place
  <2> HIDE DEF X, o, w, b, n, len
  <2> QED
    BY <1>6, <2>2, <2>4, <2>5, <2>6, <2>7, <2>8, <2>9
<1>9. CASE kind = "state"
  <2> DEFINE X == StateIds(w)
             o == FeatureCalls(w) + 1 + 1
  <2>1. at[r].phase = "state_counts"
    BY <1>1, <1>9 DEF CountsOf
  <2>2. /\ w.state = "exact" /\ AnyMissing(w) /\ n = 0 /\ reply[r] = 0
        /\ len = b + FeatureCalls(w) + 2 /\ request[r] = AskedFor(X[r])
    BY <1>3, <2>1 DEF Place
  <2>3. X \in Lists(Rank, Node)
    BY <1>3, IdsAre
  <2>4. /\ o \in 1 .. Cost(w)
        /\ \A p \in Rank : Call(w, o, p) = CountsCall(X, p)
    <3>1. \A p \in Rank : o \in 1 .. Cost(w) /\ Call(w, o, p) = Leg("state", X, p, 1)
      BY <1>3, <1>7, <2>2, StateCall
    <3> QED
      BY <3>1 DEF Leg
  <2>5. FeatureCalls(w) \in Nat
    BY <1>3, CostIs
  <2>6. o + 1 \in 1 .. Cost(w) /\ Call(w, o + 1, r) = NodesCall(X, r)
    <3>1. /\ FeatureCalls(w) + 1 + 2 \in 1 .. Cost(w)
          /\ Call(w, FeatureCalls(w) + 1 + 2, r) = Leg("state", X, r, 2)
      BY <1>3, <1>7, <2>2, StateCall
    <3>2. FeatureCalls(w) + 1 + 2 = o + 1
      BY <2>5
    <3>3. Leg("state", X, r, 2) = NodesCall(X, r)
      BY DEF Leg
    <3> HIDE DEF o, X
    <3> QED
      BY <3>1, <3>2, <3>3
  <2>7. len = b + o
    BY <1>3, <2>2, <2>5
  <2>8. "state_nodes" = NodesOf[kind] /\ "state_nodes" \in Phases \ {"done"}
    BY <1>9 DEF NodesOf, Phases
  <2>9. Place(w, b, r, "state_nodes", len + 1, Counted(X, r), n, reply[r])
    <3>1. len + 1 = b + FeatureCalls(w) + 3
      BY <1>3, <2>2, <2>5
    <3> HIDE DEF w, b, n, len
    <3> QED
      BY <2>2, <3>1 DEF Place
  <2> HIDE DEF X, o, w, b, n, len
  <2> QED
    BY <1>6, <2>2, <2>3, <2>4, <2>6, <2>7, <2>8, <2>9
<1>10. CASE kind = "endpoint"
  <2> DEFINE X == EndIds(w)
             o == BeforeEnds(w) + 1
  <2>1. at[r].phase = "endpoint_counts"
    BY <1>1, <1>10 DEF CountsOf
  <2>2. /\ w.collect /\ n = 0 /\ len = b + BeforeEnds(w) + 1 /\ request[r] = AskedFor(X[r])
    BY <1>3, <2>1 DEF Place
  <2>3. X \in Lists(Rank, Node)
    BY <1>3, IdsAre
  <2>4. /\ o \in 1 .. Cost(w)
        /\ \A p \in Rank : Call(w, o, p) = CountsCall(X, p)
    <3>1. \A p \in Rank : o \in 1 .. Cost(w) /\ Call(w, o, p) = Leg("endpoint", X, p, 1)
      BY <1>3, <1>7, <2>2, EndCall
    <3> QED
      BY <3>1 DEF Leg
  <2>5. BeforeEnds(w) \in Nat
    BY <1>3, CostIs
  <2>6. o + 1 \in 1 .. Cost(w) /\ Call(w, o + 1, r) = NodesCall(X, r)
    <3>1. /\ BeforeEnds(w) + 2 \in 1 .. Cost(w)
          /\ Call(w, BeforeEnds(w) + 2, r) = Leg("endpoint", X, r, 2)
      BY <1>3, <1>7, <2>2, EndCall
    <3>2. BeforeEnds(w) + 2 = o + 1
      BY <2>5
    <3>3. Leg("endpoint", X, r, 2) = NodesCall(X, r)
      BY DEF Leg
    <3> HIDE DEF o, X
    <3> QED
      BY <3>1, <3>2, <3>3
  <2>7. len = b + o
    BY <1>3, <2>2, <2>5
  <2>8. "endpoint_nodes" = NodesOf[kind] /\ "endpoint_nodes" \in Phases \ {"done"}
    BY <1>10 DEF NodesOf, Phases
  <2>9. Place(w, b, r, "endpoint_nodes", len + 1, Counted(X, r), n, reply[r])
    <3>1. len + 1 = b + BeforeEnds(w) + 2
      BY <1>3, <2>2, <2>5
    <3> HIDE DEF w, b, n, len
    <3> QED
      BY <2>2, <3>1 DEF Place
  <2> HIDE DEF X, o, w, b, n, len
  <2> QED
    BY <1>6, <2>2, <2>3, <2>4, <2>6, <2>7, <2>8, <2>9
<1> QED
  BY <1>8, <1>9, <1>10 DEF Kinds

LEMMA FetchIsTyped ==
    ASSUME NEW w \in Workloads, NEW b \in Nat, NEW r \in Rank, NEW k \in 1 .. Fetches(w)
    PROVE  FetchOf(w, b, r, k) \in Fetch
<1>1. FeatureLists(w, r) \in Seq(Seq(Node)) /\ k \in 1 .. Len(FeatureLists(w, r))
  BY FetchesAre
<1>2. Distinct(FeatureLists(w, r)[k]) \in Seq(Node)
  BY <1>1, DistinctIs
<1>3. OwnerOrder(FeatureIds(w, k)[r]) \in Seq(Nat)
  <2>1. FeatureIds(w, k) \in Lists(Rank, Node)
    BY IdsAre
  <2>2. RequestOK(r, AskedFor(FeatureIds(w, k)[r]))
    BY <2>1, RequestsOK
  <2> QED
    BY <2>2 DEF RequestOK, Request, AskedFor
<1>4. b + 3 * k \in Nat
  <2>1. Fetches(w) \in Nat
    BY CostIs
  <2> QED
    BY <2>1
<1> QED
  BY <1>2, <1>3, <1>4 DEF FetchOf, Fetch

LEMMA AnswerFeaturesKeeps ==
    ASSUME Inv, NEW r \in Rank, Ready(r), AnswerFeatures(r)
    PROVE  Inv'
<1> DEFINE w == Want(r)
           b == Base(plan, at[r].batch)
           n == Len(pending[r])
           len == Len(sent[r])
           X == FeatureIds(w, n + 1)
           o == 3 * ((n + 1) - 1) + 2
           i == 3 * ((n + 1) - 1) + 3
           fetch == FetchOf(w, b, r, n + 1)
           phase == IF n + 1 < Fetches(w) THEN "features"
                    ELSE IF w.state = "prefetch" THEN "state" ELSE "feature_finish"
<1>1. at[r].phase = "feature_nodes"
  BY DEF AnswerFeatures
<1>2. at[r].phase # "done" /\ phase \in Phases \ {"done"} /\ AllEntered(Entered(r))
  BY <1>1, AwaitedIs DEF Phases
<1>3. /\ w \in Workloads /\ b \in Nat /\ len \in Nat /\ n \in Nat /\ Entered(r) = len
      /\ pending[r] \in Seq(Fetch) /\ reply[r] \in 0 .. len
      /\ Fetching(w, b, r, pending[r], len)
      /\ Place(w, b, r, "feature_nodes", len, request[r], n, reply[r])
  BY <1>1, <1>2, InBatch
<1>4. Fetches(w) \in Nat /\ Len(FeatureLists(w, r)) = Fetches(w) /\ FeatureCalls(w) = 3 * Fetches(w)
  BY <1>3, CostIs, FetchesAre
<1>5. n < Fetches(w) /\ len = b + 3 * n + 2 /\ reply[r] = 0 /\ request[r] = Counted(X, r)
  BY <1>3 DEF Place
<1>6. n + 1 \in 1 .. Fetches(w)
  BY <1>3, <1>4, <1>5
<1>7. X \in Lists(Rank, Node)
  BY <1>3, <1>6, IdsAre
<1>8. 2 \in 1 .. 3 /\ 3 \in 1 .. 3
  OBVIOUS
<1>9. /\ o \in 1 .. Cost(w)
      /\ \A p \in Rank : Call(w, o, p) = NodesCall(X, p)
  <2>1. \A p \in Rank : o \in 1 .. Cost(w) /\ Call(w, o, p) = Leg("feature", X, p, 2)
    BY <1>3, <1>6, <1>8, FeatureCall
  <2> QED
    BY <2>1 DEF Leg
<1>10. i \in 1 .. Cost(w) /\ Call(w, i, r) = RowsCall("feature", X, r)
  <2>1. i \in 1 .. Cost(w) /\ Call(w, i, r) = Leg("feature", X, r, 3)
    BY <1>3, <1>6, <1>8, FeatureCall
  <2> QED
    BY <2>1 DEF Leg
<1>11. len = b + o /\ len = b + i - 1 /\ len + 1 = b + 3 * (n + 1)
  BY <1>3, <1>5
<1>12. /\ Answering(r, "feature")
       /\ pending' = [pending EXCEPT ![r] =
              Append(@, [ids |-> FetchedIds(r), order |-> request[r].order,
                         reply |-> Entered(r) + 1])]
       /\ at' = [at EXCEPT ![r].phase = phase]
       /\ plan' = plan /\ reply' = reply /\ read' = read
  BY <1>4 DEF AnswerFeatures, Move, Answering
<1>13. "feature" \in Kinds
  BY DEF Kinds
<1>14. fetch = [ids |-> FetchedIds(r), order |-> request[r].order, reply |-> Entered(r) + 1]
  <2>1. request[r].order = OwnerOrder(X[r])
    BY <1>5 DEF Counted
  <2>2. FetchedIds(r) = Distinct(FeatureLists(w, r)[n + 1])
    BY DEF FetchedIds
  <2> QED
    BY <1>3, <1>11, <2>1, <2>2 DEF FetchOf
<1>15. fetch \in Fetch
  BY <1>3, <1>6, FetchIsTyped
<1>16. Domains
  BY DEF Inv
<1> HIDE DEF fetch, o, i, X, phase
<1>17. /\ request'[r] = Answered(X, r) /\ DOMAIN request' = Rank
       /\ \A p \in Rank : p # r => request'[p] = request[p]
       /\ sent'[r] = Append(sent[r], RowsCall("feature", X, r)) /\ DOMAIN sent' = Rank
       /\ \A p \in Rank : p # r => sent'[p] = sent[p]
  BY <1>2, <1>5, <1>7, <1>9, <1>11, <1>12, <1>13, AnswerLeaves
<1>18. Moved(r, phase) /\ DOMAIN at' = Rank /\ \A p \in Rank : p # r => at'[p] = at[p]
  BY <1>2, <1>12, MovedIs
<1>19. /\ DOMAIN pending' = Rank /\ pending'[r] = Append(pending[r], fetch)
       /\ \A p \in Rank : p # r => pending'[p] = pending[p]
  BY <1>12, <1>14, <1>16 DEF Domains
<1>20. Only(r)
  BY <1>12, <1>16, <1>17, <1>18, <1>19 DEF Only, Domains
<1>21. /\ pending'[r] \in Seq(Fetch) /\ Len(pending'[r]) = n + 1
       /\ pending'[r][n + 1] = fetch /\ \A k \in 1 .. n : pending'[r][k] = pending[r][k]
  BY <1>3, <1>15, <1>19
<1>22. Fetching(w, b, r, pending'[r], len + 1)
  <2>1. \A k \in 1 .. n : pending[r][k] = FetchOf(w, b, r, k)
    BY <1>3 DEF Fetching
  <2>2. \A k \in 1 .. n + 1 : k \in 1 .. n \/ k = n + 1
    BY <1>3
  <2>3. \A k \in 1 .. n + 1 : pending'[r][k] = FetchOf(w, b, r, k)
    BY <1>21, <2>1, <2>2 DEF fetch
  <2>4. b + 3 * (n + 1) <= len + 1
    BY <1>3, <1>11
  <2> HIDE DEF w, b, n, len
  <2> QED
    BY <1>21, <2>3, <2>4 DEF Fetching
<1>23. w.state = "prefetch" => Fetches(w) = 1
  BY <1>3, FetchesAre
<1>24. Place(w, b, r, phase, len + 1, Answered(X, r), n + 1, reply[r])
  <2>1. CASE n + 1 < Fetches(w)
    <3>1. phase = "features"
      BY <2>1 DEF phase
    <3> HIDE DEF w, b, n, len
    <3> QED
      BY <1>5, <1>11, <2>1, <3>1 DEF Place
  <2>2. CASE ~(n + 1 < Fetches(w)) /\ w.state = "prefetch"
    <3>1. phase = "state"
      BY <2>2 DEF phase
    <3>2. n + 1 = 1 /\ n + 1 = Fetches(w)
      BY <1>3, <1>4, <1>6, <1>23, <2>2
    <3>3. len + 1 = b + FeatureCalls(w)
      BY <1>4, <1>11, <3>2
    <3>4. X = FeatureIds(w, 1)
      BY <3>2 DEF X
    <3>5. w.state # "none" /\ w.state # "exact"
      BY <2>2
    <3> HIDE DEF w, b, len
    <3>6. StateNext(w, r, Answered(X, r), n + 1, reply[r])
      BY <1>5, <3>2, <3>4, <3>5 DEF StateNext
    <3> HIDE DEF n
    <3> QED
      BY <3>1, <3>3, <3>6 DEF Place
  <2>3. CASE ~(n + 1 < Fetches(w)) /\ w.state # "prefetch"
    <3>1. phase = "feature_finish"
      BY <2>3 DEF phase
    <3>2. n + 1 = Fetches(w)
      BY <1>3, <1>4, <1>6, <2>3
    <3>3. len + 1 = b + FeatureCalls(w)
      BY <1>4, <1>11, <3>2
    <3> HIDE DEF w, b, len, n
    <3> QED
      BY <1>5, <2>3, <3>1, <3>2, <3>3 DEF Place
  <2> QED
    BY <2>1, <2>2, <2>3
<1>25. RequestOK(r, Answered(X, r))
  BY <1>7, RequestsOK
<1>26. /\ RequestOK(r, request'[r]) /\ reply'[r] \in 0 .. len + 1 /\ read'[r] = read[r]
       /\ sent'[r] = Append(sent[r], Call(w, i, r))
       /\ Place(w, b, r, phase, len + 1, request'[r], Len(pending'[r]), reply'[r])
  BY <1>3, <1>10, <1>12, <1>17, <1>21, <1>24, <1>25
<1> QED
  BY <1>10, <1>11, <1>18, <1>20, <1>21, <1>22, <1>26, EnterKeeps

LEMMA AnswerIdsKeeps ==
    ASSUME Inv, NEW r \in Rank, Ready(r), NEW kind \in {"state", "endpoint"}, AnswerIds(r, kind)
    PROVE  Inv'
<1> DEFINE w == Want(r)
           b == Base(plan, at[r].batch)
           n == Len(pending[r])
           len == Len(sent[r])
<1>1. at[r].phase = NodesOf[kind]
  BY DEF AnswerIds
<1>2. at[r].phase # "done" /\ AllEntered(Entered(r))
  BY <1>1, AwaitedIs DEF NodesOf
<1>3. /\ w \in Workloads /\ b \in Nat /\ len \in Nat /\ n \in Nat /\ Entered(r) = len
      /\ pending[r] \in Seq(Fetch)
      /\ Fetching(w, b, r, pending[r], len)
      /\ Place(w, b, r, at[r].phase, len, request[r], n, reply[r])
  BY <1>2, InBatch
<1>4. Fetching(w, b, r, pending[r], len + 1)
  BY <1>3 DEF Fetching
<1>5. kind \in Kinds /\ FinishOf[kind] \in Phases \ {"done"}
  BY DEF Kinds, FinishOf, Phases
<1>6. /\ Answering(r, kind)
      /\ reply' = [reply EXCEPT ![r] = len + 1]
      /\ at' = [at EXCEPT ![r].phase = FinishOf[kind]]
      /\ plan' = plan /\ pending' = pending /\ read' = read
  BY <1>3 DEF AnswerIds, Move, Answering
<1>7. Domains
  BY DEF Inv
<1>8. ASSUME NEW X \in Lists(Rank, Node), request[r] = Counted(X, r),
             NEW o \in 1 .. Cost(w), len = b + o,
             \A p \in Rank : Call(w, o, p) = NodesCall(X, p),
             NEW i \in 1 .. Cost(w), i = o + 1, Call(w, i, r) = RowsCall(kind, X, r),
             Place(w, b, r, FinishOf[kind], len + 1, Answered(X, r), n, len + 1)
      PROVE  Inv'
  <2> DEFINE phase == FinishOf[kind]
  <2>1. /\ request'[r] = Answered(X, r) /\ DOMAIN request' = Rank
        /\ \A p \in Rank : p # r => request'[p] = request[p]
        /\ sent'[r] = Append(sent[r], RowsCall(kind, X, r)) /\ DOMAIN sent' = Rank
        /\ \A p \in Rank : p # r => sent'[p] = sent[p]
    <3>1. Len(sent[r]) = Base(plan, at[r].batch) + o /\ o \in 1 .. Cost(Want(r))
      BY <1>8
    <3>2. \A p \in Rank : Call(Want(r), o, p) = NodesCall(X, p)
      BY <1>8
    <3>3. Inv /\ r \in Rank /\ Ready(r) /\ X \in Lists(Rank, Node) /\ request[r] = Counted(X, r)
      BY <1>8
    <3>4. Answering(r, kind)
      BY <1>6
    <3> HIDE DEF w, b, n, len
    <3> QED
      BY ONLY <1>2, <1>5, <3>1, <3>2, <3>3, <3>4, AnswerLeaves
  <2> HIDE DEF phase
  <2>2. phase \in Phases \ {"done"} /\ at' = [at EXCEPT ![r].phase = phase]
    BY <1>5, <1>6 DEF phase
  <2>3. Moved(r, phase) /\ DOMAIN at' = Rank /\ \A p \in Rank : p # r => at'[p] = at[p]
    BY <1>2, <2>2, MovedIs
  <2>4. /\ DOMAIN reply' = Rank /\ reply'[r] = len + 1
        /\ \A p \in Rank : p # r => reply'[p] = reply[p]
    BY <1>6, <1>7 DEF Domains
  <2>5. Only(r)
    BY <1>6, <1>7, <2>1, <2>3, <2>4 DEF Only, Domains
  <2>6. RequestOK(r, Answered(X, r))
    BY RequestsOK
  <2>7. len = b + i - 1 /\ sent'[r] = Append(sent[r], Call(w, i, r))
    BY <1>3, <1>8, <2>1
  <2>8. len + 1 \in 0 .. len + 1
    BY <1>3
  <2>9. /\ RequestOK(r, request'[r]) /\ reply'[r] \in 0 .. len + 1 /\ read'[r] = read[r]
        /\ pending'[r] \in Seq(Fetch)
        /\ Fetching(w, b, r, pending'[r], len + 1)
        /\ Place(w, b, r, phase, len + 1, request'[r], Len(pending'[r]), reply'[r])
    BY <1>3, <1>4, <1>6, <1>8, <2>1, <2>4, <2>6, <2>8 DEF phase
  <2> QED
    BY <2>3, <2>5, <2>7, <2>9, EnterKeeps
<1>9. 2 \in 1 .. 3 /\ 3 \in 1 .. 3
  OBVIOUS
<1>10. CASE kind = "state"
  <2> DEFINE X == StateIds(w)
             o == FeatureCalls(w) + 1 + 2
             i == FeatureCalls(w) + 1 + 3
  <2>1. at[r].phase = "state_nodes" /\ FinishOf[kind] = "state_finish"
    BY <1>1, <1>10 DEF NodesOf, FinishOf
  <2>2. /\ w.state = "exact" /\ AnyMissing(w) /\ n = 0
        /\ len = b + FeatureCalls(w) + 3 /\ request[r] = Counted(X, r)
    BY <1>3, <2>1 DEF Place
  <2>3. X \in Lists(Rank, Node)
    BY <1>3, IdsAre
  <2>4. /\ o \in 1 .. Cost(w)
        /\ \A p \in Rank : Call(w, o, p) = NodesCall(X, p)
    <3>1. \A p \in Rank : o \in 1 .. Cost(w) /\ Call(w, o, p) = Leg("state", X, p, 2)
      BY <1>3, <1>9, <2>2, StateCall
    <3> QED
      BY <3>1 DEF Leg
  <2>5. i \in 1 .. Cost(w) /\ Call(w, i, r) = RowsCall(kind, X, r)
    <3>1. i \in 1 .. Cost(w) /\ Call(w, i, r) = Leg("state", X, r, 3)
      BY <1>3, <1>9, <2>2, StateCall
    <3> QED
      BY <1>10, <3>1 DEF Leg
  <2>6. /\ FeatureCalls(w) \in Nat /\ BeforeEnds(w) = FeatureCalls(w) + StateCalls(w)
        /\ StateCalls(w) = 4
    BY <1>3, <2>2, CostIs
  <2>7. len = b + o /\ i = o + 1 /\ len + 1 = b + BeforeEnds(w)
    BY <1>3, <2>2, <2>6
  <2>8. Place(w, b, r, "state_finish", len + 1, Answered(X, r), n, len + 1)
    <3>1. w.state # "none"
      BY <2>2
    <3> HIDE DEF w, b, n, len
    <3>2. StateAsked(w, b, r, Answered(X, r), len + 1)
      BY <2>2, <2>7 DEF StateAsked
    <3> QED
      BY <2>2, <2>7, <3>1, <3>2 DEF Place
  <2> HIDE DEF X, o, i, w, b, n, len
  <2> QED
    BY <1>8, <2>1, <2>2, <2>3, <2>4, <2>5, <2>7, <2>8
<1>11. CASE kind = "endpoint"
  <2> DEFINE X == EndIds(w)
             o == BeforeEnds(w) + 2
             i == BeforeEnds(w) + 3
  <2>1. at[r].phase = "endpoint_nodes" /\ FinishOf[kind] = "endpoint_finish"
    BY <1>1, <1>11 DEF NodesOf, FinishOf
  <2>2. /\ w.collect /\ n = 0 /\ len = b + BeforeEnds(w) + 2 /\ request[r] = Counted(X, r)
    BY <1>3, <2>1 DEF Place
  <2>3. X \in Lists(Rank, Node)
    BY <1>3, IdsAre
  <2>4. /\ o \in 1 .. Cost(w)
        /\ \A p \in Rank : Call(w, o, p) = NodesCall(X, p)
    <3>1. \A p \in Rank : o \in 1 .. Cost(w) /\ Call(w, o, p) = Leg("endpoint", X, p, 2)
      BY <1>3, <1>9, <2>2, EndCall
    <3> QED
      BY <3>1 DEF Leg
  <2>5. i \in 1 .. Cost(w) /\ Call(w, i, r) = RowsCall(kind, X, r)
    <3>1. i \in 1 .. Cost(w) /\ Call(w, i, r) = Leg("endpoint", X, r, 3)
      BY <1>3, <1>9, <2>2, EndCall
    <3> QED
      BY <1>11, <3>1 DEF Leg
  <2>6. BeforeEnds(w) \in Nat
    BY <1>3, CostIs
  <2>7. len = b + o /\ i = o + 1 /\ len + 1 = b + BeforeEnds(w) + 3
    BY <1>3, <2>2, <2>6
  <2>8. Place(w, b, r, "endpoint_finish", len + 1, Answered(X, r), n, len + 1)
    <3> HIDE DEF w, b, n, len
    <3> QED
      BY <2>2, <2>7 DEF Place
  <2> HIDE DEF X, o, i, w, b, n, len
  <2> QED
    BY <1>8, <2>1, <2>2, <2>3, <2>4, <2>5, <2>7, <2>8
<1> QED
  BY <1>10, <1>11

(* A step of the rank that gives the batch rows, and enters no call.          *)
With(rd, kind, rows) == [k \in Kinds |-> IF k = kind THEN rows ELSE rd[k]]

LEMMA GiveKeeps ==
    ASSUME Inv, NEW r \in Rank, at[r].phase # "done", NEW kind \in Kinds, NEW rows,
           read' = [read EXCEPT ![r][kind] = rows],
           NEW phase \in Phases \ {"done"}, at' = [at EXCEPT ![r].phase = phase],
           plan' = plan, sent' = sent, request' = request, reply' = reply,
           DOMAIN pending' = Rank, \A p \in Rank : p # r => pending'[p] = pending[p],
           pending'[r] \in Seq(Fetch),
           Fetching(Want(r), Base(plan, at[r].batch), r, pending'[r], Len(sent[r])),
           Place(Want(r), Base(plan, at[r].batch), r, phase, Len(sent[r]), request[r],
                 Len(pending'[r]), reply[r]),
           Reads(Want(r), r, With(read[r], kind, rows))
    PROVE  Inv'
<1>1. Domains
  BY DEF Inv
<1>2. Moved(r, phase) /\ DOMAIN at' = Rank /\ \A p \in Rank : p # r => at'[p] = at[p]
  BY MovedIs
<1>3. read[r] = [k \in Kinds |-> read[r][k]]
  BY InBatch
<1>4. /\ DOMAIN read' = Rank /\ \A p \in Rank : p # r => read'[p] = read[p]
      /\ read'[r] = [read[r] EXCEPT ![kind] = rows]
  BY <1>1 DEF Domains
<1>5. read'[r] = With(read[r], kind, rows)
  <2>1. DOMAIN read[r] = Kinds
    BY <1>3
  <2> QED
    BY <1>4, <2>1 DEF With
<1>6. read'[r] = [k \in Kinds |-> read'[r][k]]
  BY <1>5 DEF With
<1>7. Only(r)
  BY <1>1, <1>2, <1>4 DEF Only, Domains
<1>8. sent'[r] = sent[r] /\ request'[r] = request[r] /\ reply'[r] = reply[r]
  OBVIOUS
<1>9. Reads(Want(r), r, read'[r])
  BY <1>5
<1> QED
  BY <1>2, <1>6, <1>7, <1>8, <1>9, StayKeeps

(* What a feature fetch returns.                                              *)
LEMMA FetchedIs ==
    ASSUME Inv, NEW r \in Rank, Ready(r), at[r].phase = "feature_finish",
           NEW k \in 1 .. Len(pending[r])
    PROVE  Fetched(r, k) = Rows("feature", FeatureLists(Want(r), r)[k])
<1> DEFINE w == Want(r)
           b == Base(plan, at[r].batch)
           n == Len(pending[r])
           X == FeatureIds(w, k)
           list == FeatureLists(w, r)[k]
           o == 3 * (k - 1) + 3
           c == b + 3 * k
<1>1. at[r].phase # "done" /\ "feature" \in Kinds /\ 3 \in 1 .. 3
  BY DEF Kinds
<1>2. AllEntered(Last(pending[r]).reply)
  BY AwaitedIs
<1>3. /\ w \in Workloads /\ b \in Nat /\ n \in Nat
      /\ at[r].batch \in 1 .. Batches /\ w = plan[at[r].batch]
      /\ pending[r] \in Seq(Fetch)
      /\ Fetching(w, b, r, pending[r], Len(sent[r]))
      /\ Place(w, b, r, "feature_finish", Len(sent[r]), request[r], n, reply[r])
  BY <1>1, InBatch
<1>4. n = Fetches(w)
  BY <1>3 DEF Place
<1>5. k \in 1 .. Fetches(w) /\ k \in Nat /\ n \in 1 .. n /\ k <= n
  BY <1>3, <1>4
<1>6. pending[r][k] = FetchOf(w, b, r, k) /\ pending[r][n] = FetchOf(w, b, r, n)
  BY <1>3, <1>5 DEF Fetching
<1>7. \A p \in Rank : Len(sent[p]) >= c
  <2>1. Last(pending[r]) = pending[r][n]
    BY DEF Last
  <2>2. Last(pending[r]).reply = b + 3 * n
    BY <1>6, <2>1 DEF FetchOf
  <2>3. \A p \in Rank : Len(sent[p]) >= b + 3 * n
    BY <1>2, <2>2 DEF AllEntered
  <2>4. \A p \in Rank : Len(sent[p]) \in Nat
    BY DEF Inv, Local, Good, Typed
  <2>5. c <= b + 3 * n /\ c \in Nat /\ b + 3 * n \in Nat
    BY <1>3, <1>5
  <2> HIDE DEF c, n, b
  <2> QED
    BY <2>3, <2>4, <2>5
<1>8. /\ o \in 1 .. Cost(w)
      /\ \A p \in Rank : Call(w, o, p) = RowsCall("feature", X, p)
  <2>1. \A p \in Rank : o \in 1 .. Cost(w) /\ Call(w, o, p) = Leg("feature", X, p, 3)
    BY <1>1, <1>3, <1>5, FeatureCall
  <2> QED
    BY <2>1 DEF Leg
<1>9. c = b + o
  BY <1>3, <1>5
<1>10. X \in Lists(Rank, Node) /\ X[r] = Missing(Distinct(list), FeatureRows(r))
  BY <1>3, <1>5, IdsAre DEF FeatureIds
<1>11. list \in Seq(Node)
  <2>1. FeatureLists(w, r) \in Seq(Seq(Node)) /\ k \in 1 .. Len(FeatureLists(w, r))
    BY <1>3, <1>5, FetchesAre
  <2> QED
    BY <2>1
<1> HIDE DEF o, X, c, list
<1>12. \A p \in Rank : sent[p][c] = RowsCall("feature", X, p)
  <2>1. \A p \in Rank : sent[p][c] = Call(plan[at[r].batch], o, p)
    BY <1>3, <1>7, <1>8, <1>9, PeersCall, ZenonT(30)
  <2> QED
    BY <1>3, <1>8, <2>1
<1>13. Restore(Received(r, c), OwnerOrder(X[r])) = Rows("feature", X[r])
  BY <1>1, <1>10, <1>12, RowsArrive
<1>14. /\ pending[r][k].ids = Distinct(list) /\ pending[r][k].reply = c
       /\ pending[r][k].order = OwnerOrder(X[r])
  BY <1>6 DEF FetchOf, list, X, c
<1> DEFINE rows == Fill("feature", pending[r][k].ids, FeatureRows(r),
                        Restore(Received(r, pending[r][k].reply), pending[r][k].order))
<1>15. rows = Rows("feature", Distinct(list))
  <2>1. Distinct(list) \in Seq(Node)
    BY <1>11, DistinctIs
  <2>2. rows = Fill("feature", Distinct(list), FeatureRows(r), Rows("feature", X[r]))
    BY <1>13, <1>14
  <2> QED
    BY <1>1, <1>10, <2>1, <2>2, FillIs
<1>16. Fetched(r, k) = IF Repeats(list) THEN Pick(rows, InverseOf(list)) ELSE rows
  BY DEF Fetched, list
<1> HIDE DEF rows, w
<1>17. ASSUME Repeats(list) PROVE Fetched(r, k) = Rows("feature", list)
  <2>1. Fetched(r, k) = Pick(Rows("feature", Unique(list)), InverseOf(list))
    BY <1>15, <1>16, <1>17 DEF Distinct
  <2> QED
    BY <1>1, <1>11, <2>1, UniqueIs
<1>18. ASSUME ~Repeats(list) PROVE Fetched(r, k) = Rows("feature", list)
  BY <1>15, <1>16, <1>18 DEF Distinct
<1> QED
  BY <1>17, <1>18 DEF list, w

LEMMA FinishFeaturesKeeps ==
    ASSUME Inv, NEW r \in Rank, Ready(r), FinishFeatures(r)
    PROVE  Inv'
<1> DEFINE w == Want(r)
           b == Base(plan, at[r].batch)
           n == Len(pending[r])
           len == Len(sent[r])
           rows == [k \in DOMAIN pending[r] |-> Fetched(r, k)]
           phase == CASE w.state = "prefetch" -> "state_finish"
                      [] w.state = "exact" -> "state"
                      [] OTHER -> "endpoints"
<1>1. at[r].phase = "feature_finish"
  BY DEF FinishFeatures
<1>2. at[r].phase # "done" /\ phase \in Phases \ {"done"} /\ "feature" \in Kinds
  BY <1>1 DEF Phases, Kinds
<1>3. /\ w \in Workloads /\ b \in Nat /\ len \in Nat /\ n \in Nat
      /\ pending[r] \in Seq(Fetch) /\ Fetching(w, b, r, pending[r], len)
      /\ Place(w, b, r, "feature_finish", len, request[r], n, reply[r])
      /\ Reads(w, r, read[r])
  BY <1>1, <1>2, InBatch
<1>4. /\ w.state \in {"none", "exact", "prefetch"}
      /\ w.state = "none" => BeforeEnds(w) = FeatureCalls(w)
  BY <1>3, WantIs, CostIs
<1>5. /\ w.state = "prefetch" => len = b + BeforeEnds(w) /\ StateAsked(w, b, r, request[r], reply[r])
      /\ w.state # "prefetch" => len = b + FeatureCalls(w) /\ reply[r] = 0
  BY <1>3 DEF Place
<1>6. Reads(w, r, With(read[r], "feature", rows))
  <2> DEFINE rd == With(read[r], "feature", rows)
  <2>1. rd["feature"] = rows /\ rd["state"] = read[r]["state"] /\ rd["endpoint"] = read[r]["endpoint"]
    BY DEF With, Kinds
  <2>2. DOMAIN rows = 1 .. n
    BY <1>3
  <2>3. \A k \in 1 .. n : rows[k] = Rows("feature", FeatureLists(w, r)[k])
    BY <1>1, <2>2, FetchedIs
  <2> HIDE DEF rows, w, rd
  <2>4. Reads(w, r, rd)
    BY <1>3, <2>1, <2>2, <2>3 DEF Reads
  <2> QED
    BY <2>4 DEF rd
<1>7. Domains
  BY DEF Inv
<1>8. /\ read' = [read EXCEPT ![r]["feature"] = rows]
      /\ at' = [at EXCEPT ![r].phase = phase]
      /\ plan' = plan /\ sent' = sent /\ request' = request /\ reply' = reply
      /\ pending'[r] = <<>> /\ DOMAIN pending' = Rank
      /\ \A p \in Rank : p # r => pending'[p] = pending[p]
  BY <1>7 DEF FinishFeatures, Move, Domains
<1>9. pending'[r] \in Seq(Fetch) /\ Len(pending'[r]) = 0
  BY <1>8
<1>10. Fetching(w, b, r, pending'[r], len)
  <2>1. b + 3 * n <= len
    BY <1>3 DEF Fetching
  <2>2. b + 3 * 0 <= len
    BY <1>3, <2>1
  <2>3. \A k \in 1 .. 0 : FALSE
    OBVIOUS
  <2> HIDE DEF w, b, len
  <2> QED
    BY <1>9, <2>2, <2>3 DEF Fetching
<1>11. Place(w, b, r, phase, len, request[r], 0, reply[r])
  <2>1. CASE w.state = "prefetch"
    <3>1. phase = "state_finish" /\ w.state # "none"
      BY <2>1
    <3> HIDE DEF w, b, len, phase
    <3> QED
      BY <1>5, <2>1, <3>1 DEF Place
  <2>2. CASE w.state = "exact"
    <3>1. phase = "state" /\ w.state # "none" /\ w.state # "prefetch"
      BY <2>2
    <3> HIDE DEF w, b, len, phase
    <3>2. StateNext(w, r, request[r], 0, reply[r])
      BY <1>5, <3>1 DEF StateNext
    <3> QED
      BY <1>5, <2>2, <3>1, <3>2 DEF Place
  <2>3. CASE w.state = "none"
    <3>1. phase = "endpoints" /\ w.state # "prefetch"
      BY <2>3
    <3> HIDE DEF w, b, len, phase
    <3> QED
      BY <1>4, <1>5, <2>3, <3>1 DEF Place
  <2> QED
    BY <1>4, <2>1, <2>2, <2>3
<1> HIDE DEF rows, phase
<1> QED
  BY <1>2, <1>6, <1>8, <1>9, <1>10, <1>11, GiveKeeps

(* The ranks are asked whether anyone misses a row.                           *)
LEMMA SubmitStateKeeps ==
    ASSUME Inv, NEW r \in Rank, SubmitState(r)
    PROVE  Inv'
<1> DEFINE w == Want(r)
           b == Base(plan, at[r].batch)
           n == Len(pending[r])
           len == Len(sent[r])
           X == StateMissing(w)
           o == FeatureCalls(w) + 1
<1>1. at[r].phase = "state"
  BY DEF SubmitState
<1>2. at[r].phase # "done" /\ "state_needed" \in Phases \ {"done"}
  BY <1>1 DEF Phases
<1>3. /\ w \in Workloads /\ b \in Nat /\ len \in Nat /\ n \in Nat
      /\ RequestOK(r, request[r]) /\ pending[r] \in Seq(Fetch) /\ reply[r] \in 0 .. len
      /\ Fetching(w, b, r, pending[r], len)
      /\ Place(w, b, r, "state", len, request[r], n, reply[r])
  BY <1>1, <1>2, InBatch
<1>4. FeatureCalls(w) \in Nat
  BY <1>3, CostIs
<1>5. len = b + FeatureCalls(w) /\ StateNext(w, r, request[r], n, reply[r])
  BY <1>3 DEF Place
<1>6. w.state # "none"
  BY <1>5 DEF StateNext
<1>7. o \in 1 .. Cost(w) /\ Call(w, o, r) = NeededCall(X, r)
  BY <1>3, <1>6, StateCall
<1>8. len = b + o - 1 /\ len + 1 = b + FeatureCalls(w) + 1
  BY <1>3, <1>4, <1>5
<1>9. X[r] = MissingState(w, r)
  BY DEF StateMissing
<1>10. /\ sent' = [sent EXCEPT ![r] = Append(@, NeededCall(X, r))]
       /\ at' = [at EXCEPT ![r].phase = "state_needed"]
       /\ plan' = plan /\ request' = request /\ pending' = pending /\ reply' = reply /\ read' = read
  BY <1>9 DEF SubmitState, Enter, Move, NeededCall
<1>11. Domains
  BY DEF Inv
<1>12. Moved(r, "state_needed") /\ DOMAIN at' = Rank /\ \A p \in Rank : p # r => at'[p] = at[p]
  BY <1>2, <1>10, MovedIs
<1>13. Only(r) /\ sent'[r] = Append(sent[r], NeededCall(X, r))
  BY <1>10, <1>11, <1>12 DEF Only, Domains
<1>14. Fetching(w, b, r, pending[r], len + 1) /\ reply[r] \in 0 .. len + 1
  BY <1>3 DEF Fetching
<1> HIDE DEF w, b, n, len, X, o
<1>15. Place(w, b, r, "state_needed", len + 1, request[r], n, reply[r])
  BY <1>5, <1>8 DEF Place
<1>16. /\ RequestOK(r, request'[r]) /\ pending'[r] \in Seq(Fetch) /\ reply'[r] \in 0 .. len + 1
       /\ read'[r] = read[r] /\ sent'[r] = Append(sent[r], Call(w, o, r))
       /\ Fetching(w, b, r, pending'[r], len + 1)
       /\ Place(w, b, r, "state_needed", len + 1, request'[r], Len(pending'[r]), reply'[r])
  BY <1>3, <1>7, <1>10, <1>13, <1>14, <1>15 DEF n
<1> QED
  BY <1>7, <1>8, <1>12, <1>13, <1>16, EnterKeeps DEF w, b, len

LEMMA RequestStateKeeps ==
    ASSUME Inv, NEW r \in Rank, Ready(r), RequestState(r)
    PROVE  Inv'
<1> DEFINE w == Want(r)
           b == Base(plan, at[r].batch)
           n == Len(pending[r])
           len == Len(sent[r])
           q == request[r]
<1>1. at[r].phase = "state_needed"
  BY DEF RequestState
<1>2. at[r].phase # "done" /\ AllEntered(Entered(r))
  BY <1>1, AwaitedIs
<1>3. /\ w \in Workloads /\ b \in Nat /\ len \in Nat /\ n \in Nat /\ Entered(r) = len
      /\ at[r].batch \in 1 .. Batches /\ w = plan[at[r].batch]
      /\ RequestOK(r, q) /\ pending[r] \in Seq(Fetch) /\ reply[r] \in 0 .. len
      /\ Fetching(w, b, r, pending[r], len)
      /\ Place(w, b, r, "state_needed", len, q, n, reply[r])
      /\ read[r] = [k \in Kinds |-> read[r][k]] /\ Reads(w, r, read[r])
  BY <1>1, <1>2, InBatch
<1>4. len = b + FeatureCalls(w) + 1 /\ StateNext(w, r, q, n, reply[r])
  BY <1>3 DEF Place
<1>5. /\ w.state # "none" /\ reply[r] = 0 /\ w.state \in {"exact", "prefetch"}
      /\ w.state = "exact" => n = 0
      /\ w.state = "prefetch" => n = 1 /\ q = Answered(FeatureIds(w, 1), r)
  <2>1. w.state \in {"none", "exact", "prefetch"}
    BY <1>3, WantIs
  <2> QED
    BY <1>4, <2>1 DEF StateNext
<1>6. /\ FeatureCalls(w) \in Nat /\ StateCalls(w) \in 0 .. 4
      /\ BeforeEnds(w) = FeatureCalls(w) + StateCalls(w)
      /\ ~AnyMissing(w) => StateCalls(w) = 1
      /\ w.state = "prefetch" /\ AnyMissing(w) => StateCalls(w) = 2
  BY <1>3, <1>5, CostIs
<1>7. Needed(r) <=> AnyMissing(w)
  <2> DEFINE o == FeatureCalls(w) + 1
             X == StateMissing(w)
  <2>1. /\ o \in 1 .. Cost(w)
        /\ \A p \in Rank : Call(w, o, p) = NeededCall(X, p)
    BY <1>3, <1>5, StateCall
  <2>2. len = b + o /\ \A p \in Rank : Len(sent[p]) >= len
    BY <1>2, <1>3, <1>4, <1>6 DEF AllEntered
  <2> HIDE DEF o, X, len
  <2>3. \A p \in Rank : sent[p][len] = Call(plan[at[r].batch], o, p)
    <3>1. /\ at[r].batch \in 1 .. Batches /\ o \in 1 .. Cost(plan[at[r].batch])
          /\ len = Base(plan, at[r].batch) + o
      BY <1>3, <2>1, <2>2
    <3> QED
      BY <2>2, <3>1, PeersCall, ZenonT(30)
  <2>4. \A p \in Rank : sent[p][len] = NeededCall(X, p)
    BY <1>3, <2>1, <2>3
  <2>5. (\E p \in Rank : ReceivedEach(r, len)[p]) <=> (\E p \in Rank : X[p] # <<>>)
    BY <2>4, NeededArrive
  <2>6. \A p \in Rank : X[p] = MissingState(w, p)
    BY DEF X, StateMissing
  <2>7. AnyMissing(w) <=> \E p \in Rank : X[p] # <<>>
    BY <2>6 DEF AnyMissing
  <2> HIDE DEF w
  <2> QED
    BY <1>3, <2>5, <2>7 DEF Needed
<1>8. Domains
  BY DEF Inv
<1>9. plan' = plan /\ pending' = pending /\ read' = read
  BY DEF RequestState
<1>10. Fetching(w, b, r, pending[r], len + 1)
  BY <1>3 DEF Fetching
<1>11. ASSUME ~Needed(r), sent' = sent, request' = request, reply' = reply,
              Move(r, IF w.state = "prefetch" THEN "feature_finish" ELSE "state_finish")
       PROVE  Inv'
  <2> DEFINE phase == IF w.state = "prefetch" THEN "feature_finish" ELSE "state_finish"
  <2>1. phase \in Phases \ {"done"} /\ at' = [at EXCEPT ![r].phase = phase]
    BY <1>11 DEF Phases, Move
  <2> HIDE DEF phase
  <2>2. Moved(r, phase) /\ DOMAIN at' = Rank /\ \A p \in Rank : p # r => at'[p] = at[p]
    BY <1>2, <2>1, MovedIs
  <2>3. Only(r)
    BY <1>8, <1>9, <1>11, <2>2 DEF Only, Domains
  <2>4. ~AnyMissing(w) /\ len = b + BeforeEnds(w)
    BY <1>3, <1>4, <1>6, <1>7, <1>11
  <2>5. StateAsked(w, b, r, q, reply[r])
    <3> HIDE DEF w, b, q
    <3> QED
      BY <1>5, <2>4 DEF StateAsked
  <2>6. w.state = "prefetch" => n = Fetches(w)
    BY <1>3, <1>5, FetchesAre
  <2>7. Place(w, b, r, phase, len, q, n, reply[r])
    <3>1. CASE w.state = "prefetch"
      <4>1. phase = "feature_finish"
        BY <3>1 DEF phase
      <4> HIDE DEF w, b, q, n, len
      <4> QED
        BY <2>4, <2>5, <2>6, <3>1, <4>1 DEF Place
    <3>2. CASE w.state = "exact"
      <4>1. phase = "state_finish" /\ n = 0
        BY <1>5, <3>2 DEF phase
      <4> HIDE DEF w, b, q, n, len
      <4> QED
        BY <1>5, <2>4, <2>5, <3>2, <4>1 DEF Place
    <3> QED
      BY <1>5, <3>1, <3>2
  <2> QED
    BY <1>3, <1>9, <1>11, <2>2, <2>3, <2>7, StayKeeps
<1>12. ASSUME Needed(r), ReuseRequest(r) PROVE Inv'
  <2> DEFINE X == FeatureIds(w, 1)
             o == FeatureCalls(w) + 2
  <2>1. /\ w.state = "prefetch" /\ w.state # "exact" /\ n = 1 /\ q = Answered(X, r)
        /\ AnyMissing(w)
    BY <1>5, <1>7, <1>12 DEF ReuseRequest
  <2>2. 1 \in 1 .. Fetches(w) /\ Fetches(w) = 1
    BY <1>3, <2>1, FetchesAre
  <2>3. X \in Lists(Rank, Node)
    BY <1>3, <2>2, IdsAre
  <2>4. o \in 1 .. Cost(w) /\ Call(w, o, r) = RowsCall("state", X, r)
    BY <1>3, <1>5, <2>1, StateCall
  <2>5. len = b + o - 1 /\ len + 1 = b + BeforeEnds(w)
    BY <1>3, <1>4, <1>6, <2>1
  <2> HIDE DEF X, o
  <2>6. "state" \in Kinds /\ "feature_finish" \in Phases \ {"done"}
    BY DEF Kinds, Phases
  <2>7. /\ q.nodes = FlattenSeq(AskedOf(X, r))
        /\ q.recv = Asked(X, r) /\ q.send = SendCounts(X[r])
    BY <2>1 DEF Answered
  <2>8. Split(Rows("state", q.nodes), q.recv) = [p \in Rank |-> Rows("state", AskedOf(X, r)[p])]
    BY <2>3, <2>6, <2>7, AnswerIs
  <2>9. /\ sent' = [sent EXCEPT ![r] = Append(@, RowsCall("state", X, r))]
        /\ reply' = [reply EXCEPT ![r] = len + 1]
        /\ request' = request
        /\ at' = [at EXCEPT ![r].phase = "feature_finish"]
    BY <1>3, <1>12, <2>7, <2>8 DEF ReuseRequest, Answer, Enter, RowsCall, Move
  <2>10. Moved(r, "feature_finish") /\ DOMAIN at' = Rank /\ \A p \in Rank : p # r => at'[p] = at[p]
    BY <1>2, <2>6, <2>9, MovedIs
  <2>11. Only(r) /\ sent'[r] = Append(sent[r], Call(w, o, r)) /\ reply'[r] = len + 1
    BY <1>8, <1>9, <2>4, <2>9, <2>10 DEF Only, Domains
  <2>12. StateAsked(w, b, r, q, len + 1)
    <3> HIDE DEF w, b, q, len
    <3> QED
      BY <2>1, <2>5 DEF StateAsked, X
  <2>13. Place(w, b, r, "feature_finish", len + 1, q, n, len + 1)
    <3> HIDE DEF w, b, q, len, n
    <3> QED
      BY <2>1, <2>2, <2>5, <2>12 DEF Place
  <2>14. len + 1 \in 0 .. len + 1
    BY <1>3
  <2>15. /\ RequestOK(r, request'[r]) /\ pending'[r] \in Seq(Fetch) /\ reply'[r] \in 0 .. len + 1
         /\ read'[r] = read[r]
         /\ Fetching(w, b, r, pending'[r], len + 1)
         /\ Place(w, b, r, "feature_finish", len + 1, request'[r], Len(pending'[r]), reply'[r])
    BY <1>3, <1>9, <1>10, <2>9, <2>11, <2>13, <2>14
  <2> QED
    BY <2>4, <2>5, <2>10, <2>11, <2>15, EnterKeeps
<1>13. ASSUME Needed(r), w.state = "exact", Ask(r, Unique(MissingState(w, r))),
              Move(r, "state_counts"), reply' = reply
       PROVE  Inv'
  <2> DEFINE X == StateIds(w)
             o == FeatureCalls(w) + 1 + 1
  <2>1. n = 0 /\ AnyMissing(w) /\ 1 \in 1 .. 3
    BY <1>5, <1>7, <1>13
  <2>2. X \in Lists(Rank, Node) /\ X[r] = Unique(MissingState(w, r))
    BY <1>3, IdsAre DEF StateIds
  <2>3. o \in 1 .. Cost(w) /\ Call(w, o, r) = CountsCall(X, r)
    <3>1. o \in 1 .. Cost(w) /\ Call(w, o, r) = Leg("state", X, r, 1)
      BY <1>3, <1>5, <1>13, <2>1, StateCall
    <3> QED
      BY <3>1 DEF Leg
  <2>4. len = b + o - 1 /\ len + 1 = b + FeatureCalls(w) + 2
    BY <1>3, <1>4, <1>6
  <2> HIDE DEF X, o
  <2>5. "state_counts" \in Phases \ {"done"}
    BY DEF Phases
  <2>6. /\ request' = [request EXCEPT ![r] = AskedFor(X[r])]
        /\ sent' = [sent EXCEPT ![r] = Append(@, CountsCall(X, r))]
        /\ at' = [at EXCEPT ![r].phase = "state_counts"]
    BY <1>13, <2>2 DEF Ask, Enter, Move, CountsCall
  <2>7. Moved(r, "state_counts") /\ DOMAIN at' = Rank /\ \A p \in Rank : p # r => at'[p] = at[p]
    BY <1>2, <2>5, <2>6, MovedIs
  <2>8. Only(r) /\ sent'[r] = Append(sent[r], Call(w, o, r)) /\ request'[r] = AskedFor(X[r])
    BY <1>8, <1>9, <1>13, <2>3, <2>6, <2>7 DEF Only, Domains
  <2>9. RequestOK(r, AskedFor(X[r]))
    BY <2>2, RequestsOK
  <2>10. Place(w, b, r, "state_counts", len + 1, AskedFor(X[r]), n, reply[r])
    <3>1. w.state = "exact"
      BY <1>13
    <3> HIDE DEF w, b, len, n
    <3> QED
      BY <1>5, <2>1, <2>4, <3>1 DEF Place, X
  <2>11. reply[r] \in 0 .. len + 1
    BY <1>3
  <2>12. /\ RequestOK(r, request'[r]) /\ pending'[r] \in Seq(Fetch) /\ reply'[r] \in 0 .. len + 1
         /\ read'[r] = read[r]
         /\ Fetching(w, b, r, pending'[r], len + 1)
         /\ Place(w, b, r, "state_counts", len + 1, request'[r], Len(pending'[r]), reply'[r])
    BY <1>3, <1>9, <1>10, <1>13, <2>8, <2>9, <2>10, <2>11
  <2> QED
    BY <2>3, <2>4, <2>7, <2>8, <2>12, EnterKeeps
<1> QED
  BY <1>11, <1>12, <1>13 DEF RequestState

-----------------------------------------------------------------------------
(* Increasing lists are what their elements are.                              *)

Ascends(s) == \A k, l \in 1 .. Len(s) : k < l => s[k] < s[l]

LEMMA AscendingAgree ==
    ASSUME NEW s \in Seq(Node), NEW t \in Seq(Node), Ascends(s), Ascends(t),
           Elements(s) = Elements(t)
    PROVE  s = t
<1>1. /\ Len(s) \in Nat /\ Len(t) \in Nat
      /\ \A k \in 1 .. Len(s) : s[k] \in Int
      /\ \A k \in 1 .. Len(t) : t[k] \in Int
  <2>1. Node \subseteq Int
    BY FetchAssumption
  <2>2. /\ Len(s) \in Nat /\ Len(t) \in Nat
        /\ \A k \in 1 .. Len(s) : s[k] \in Node
        /\ \A k \in 1 .. Len(t) : t[k] \in Node
    OBVIOUS
  <2> QED
    BY <2>1, <2>2
<1>2. /\ \A k \in 1 .. Len(s) : \E l \in 1 .. Len(t) : t[l] = s[k]
      /\ \A l \in 1 .. Len(t) : \E k \in 1 .. Len(s) : s[k] = t[l]
  <2>1. DOMAIN s = 1 .. Len(s) /\ DOMAIN t = 1 .. Len(t)
    OBVIOUS
  <2> QED
    BY <2>1 DEF Elements
<1> DEFINE Same(k) == k <= Len(s) /\ k <= Len(t) /\ s[k] = t[k]
           Bad == {k \in Nat : 1 <= k /\ (k <= Len(s) \/ k <= Len(t)) /\ ~Same(k)}
<1>3. Bad = {}
  <2> SUFFICES ASSUME Bad # {} PROVE FALSE
    OBVIOUS
  <2>1. PICK k \in Bad : \A y \in Bad : k <= y
    <3>1. Bad \in SUBSET Nat
      OBVIOUS
    <3> HIDE DEF Bad
    <3> QED
      BY <3>1, Least
  <2>2. k \in Nat /\ 1 <= k /\ (k <= Len(s) \/ k <= Len(t)) /\ ~Same(k)
    OBVIOUS
  <2>3. ASSUME NEW j \in 1 .. k - 1 PROVE j \in Nat /\ j < k /\ Same(j)
    <3>1. j \in Nat /\ 1 <= j /\ j < k /\ (j <= Len(s) \/ j <= Len(t))
      BY <1>1, <2>2
    <3>2. j \notin Bad
      <4> HIDE DEF Bad
      <4> QED
        BY <2>1, <2>2, <3>1
    <3> QED
      BY <3>1, <3>2
  <2> HIDE DEF Bad
  <2>4. ASSUME k <= Len(s) PROVE k <= Len(t) /\ t[k] <= s[k]
    <3>1. PICK l \in 1 .. Len(t) : t[l] = s[k]
      BY <1>2, <2>2, <2>4
    <3>2. l \in Nat /\ 1 <= l /\ l <= Len(t) /\ k \in 1 .. Len(s)
      BY <1>1, <2>2, <2>4
    <3>3. ASSUME l < k PROVE FALSE
      <4>1. l \in 1 .. k - 1
        BY <2>2, <3>2, <3>3
      <4>2. l \in 1 .. Len(s) /\ s[l] = t[l]
        BY <1>1, <2>3, <3>2, <4>1
      <4>3. s[l] < s[k]
        BY <3>2, <3>3, <4>2 DEF Ascends
      <4> QED
        BY <1>1, <3>1, <3>2, <4>2, <4>3
    <3>4. k <= l
      BY <2>2, <3>2, <3>3
    <3>5. k <= Len(t) /\ k \in 1 .. Len(t)
      BY <1>1, <2>2, <3>2, <3>4
    <3>6. k = l \/ t[k] < t[l]
      BY <2>2, <3>2, <3>4, <3>5 DEF Ascends
    <3> QED
      BY <1>1, <3>1, <3>2, <3>5, <3>6
  <2>5. ASSUME k <= Len(t) PROVE k <= Len(s) /\ s[k] <= t[k]
    <3>1. PICK l \in 1 .. Len(s) : s[l] = t[k]
      BY <1>2, <2>2, <2>5
    <3>2. l \in Nat /\ 1 <= l /\ l <= Len(s) /\ k \in 1 .. Len(t)
      BY <1>1, <2>2, <2>5
    <3>3. ASSUME l < k PROVE FALSE
      <4>1. l \in 1 .. k - 1
        BY <2>2, <3>2, <3>3
      <4>2. l \in 1 .. Len(t) /\ s[l] = t[l]
        BY <1>1, <2>3, <3>2, <4>1
      <4>3. t[l] < t[k]
        BY <3>2, <3>3, <4>2 DEF Ascends
      <4> QED
        BY <1>1, <3>1, <3>2, <4>2, <4>3
    <3>4. k <= l
      BY <2>2, <3>2, <3>3
    <3>5. k <= Len(s) /\ k \in 1 .. Len(s)
      BY <1>1, <2>2, <3>2, <3>4
    <3>6. k = l \/ s[k] < s[l]
      BY <2>2, <3>2, <3>4, <3>5 DEF Ascends
    <3> QED
      BY <1>1, <3>1, <3>2, <3>5, <3>6
  <2>6. k <= Len(s) /\ k <= Len(t) /\ k \in 1 .. Len(s) /\ k \in 1 .. Len(t)
    BY <1>1, <2>2, <2>4, <2>5
  <2>7. s[k] = t[k]
    BY <1>1, <2>4, <2>5, <2>6
  <2> QED
    BY <2>2, <2>6, <2>7
<1>4. ASSUME NEW k \in Nat, 1 <= k, k <= Len(s) \/ k <= Len(t)
      PROVE  k <= Len(s) /\ k <= Len(t) /\ s[k] = t[k]
  BY <1>3, <1>4
<1>5. Len(s) = Len(t)
  <2>1. Len(s) <= Len(t)
    <3>1. CASE Len(s) = 0
      BY <1>1, <3>1
    <3>2. CASE Len(s) # 0
      BY <1>1, <1>4, <3>2
    <3> QED
      BY <3>1, <3>2
  <2>2. Len(t) <= Len(s)
    <3>1. CASE Len(t) = 0
      BY <1>1, <3>1
    <3>2. CASE Len(t) # 0
      BY <1>1, <1>4, <3>2
    <3> QED
      BY <3>1, <3>2
  <2> QED
    BY <1>1, <2>1, <2>2
<1>6. \A k \in 1 .. Len(s) : s[k] = t[k]
  BY <1>1, <1>4
<1> QED
  BY <1>5, <1>6

(* What is missing of an increasing list is increasing, and the ids that are  *)
(* not present.                                                               *)
LEMMA MissingAscends ==
    ASSUME NEW ids \in Seq(Node), NEW present
    PROVE  /\ Elements(Missing(ids, present)) = Elements(ids) \ present
           /\ Ascends(ids) => Ascends(Missing(ids, present))
<1> DEFINE m == Missing(ids, present)
           pos == MissingPos(ids, present)
<1>1. /\ m \in Seq(Node)
      /\ DOMAIN pos = 1 .. Len(m)
      /\ Elements(pos) = {i \in 1 .. Len(ids) : ids[i] \notin present}
      /\ \A k, l \in 1 .. Len(m) : k < l => pos[k] < pos[l]
      /\ \A k \in 1 .. Len(m) :
            pos[k] \in 1 .. Len(ids) /\ ids[pos[k]] \notin present /\ m[k] = ids[pos[k]]
  BY MissingIs
<1>2. DOMAIN m = 1 .. Len(m) /\ DOMAIN ids = 1 .. Len(ids)
  BY <1>1
<1> HIDE DEF m, pos
<1>3. Elements(m) \subseteq Elements(ids) \ present
  <2> SUFFICES ASSUME NEW k \in 1 .. Len(m) PROVE m[k] \in Elements(ids) /\ m[k] \notin present
    BY <1>2 DEF Elements
  <2> QED
    BY <1>1, <1>2 DEF Elements
<1>4. Elements(ids) \ present \subseteq Elements(m)
  <2> SUFFICES ASSUME NEW i \in 1 .. Len(ids), ids[i] \notin present PROVE ids[i] \in Elements(m)
    BY <1>2 DEF Elements
  <2>1. i \in Elements(pos)
    BY <1>1
  <2>2. PICK k \in 1 .. Len(m) : pos[k] = i
    BY <1>1, <2>1 DEF Elements
  <2> QED
    BY <1>1, <1>2, <2>2 DEF Elements
<1>5. ASSUME Ascends(ids) PROVE Ascends(m)
  BY <1>1, <1>5 DEF Ascends
<1> QED
  BY <1>3, <1>4, <1>5 DEF m

(* The request of a prefetched feature fetch asks for the nodes of the state  *)
(* read that are missing, each once and in increasing order: the order that   *)
(* finish_pair expands by the inverse.                                        *)
LEMMA PrefetchAsksUnique ==
    ASSUME NEW w \in Workloads, NEW r \in Rank, w.state = "prefetch", SortedPrefetches
    PROVE  FeatureIds(w, 1)[r] = Unique(MissingState(w, r))
<1> DEFINE L == FeatureLists(w, r)[1]
           D == Distinct(L)
           P == FeatureRows(r)
           X == FeatureIds(w, 1)[r]
           M == MissingState(w, r)
<1>1. X = Missing(D, P) /\ M = Missing(StateNodes(w, r), P)
  BY DEF FeatureIds, MissingState, StateRows, FeatureRows
<1>2. /\ Nodes(w, r) \in Seq(Node) /\ StateNodes(w, r) \in Seq(Node) /\ M \in Seq(Node)
      /\ Elements(StateNodes(w, r)) = Elements(Nodes(w, r))
      /\ w.mode = "event"
  BY WantIs, StateNodesAre, FetchesAre
<1>3. w.mode # "snapshot"
  BY <1>2
<1>4. Len(w.blocks[r]) = 1 => L = Nodes(w, r)
  BY <1>3 DEF FeatureLists
<1>5. Len(w.blocks[r]) # 1 => L = Unique(Nodes(w, r))
  BY <1>3 DEF FeatureLists
<1> HIDE DEF L, P, X, M
<1>6. \A ids \in Seq(Node) :
         Unique(ids) \in Seq(Node) /\ Elements(Unique(ids)) = Elements(ids) /\ Ascends(Unique(ids))
  BY UniqueIs DEF Ascends
<1>7. L \in Seq(Node) /\ Elements(L) = Elements(Nodes(w, r))
  BY <1>2, <1>4, <1>5, <1>6
<1>8. D \in Seq(Node) /\ Elements(D) = Elements(Nodes(w, r)) /\ Ascends(D)
  <2>1. CASE Repeats(L)
    BY <1>6, <1>7, <2>1 DEF Distinct
  <2>2. CASE ~Repeats(L) /\ Len(w.blocks[r]) = 1
    <3>1. Nodes(w, r) = Unique(Nodes(w, r))
      BY <1>4, <2>2 DEF SortedPrefetches
    <3>2. D = L
      BY <2>2 DEF Distinct
    <3> HIDE DEF D
    <3> QED
      BY <1>2, <1>4, <1>6, <1>7, <2>2, <3>1, <3>2
  <2>3. CASE ~Repeats(L) /\ Len(w.blocks[r]) # 1
    <3>1. D = L
      BY <2>3 DEF Distinct
    <3> HIDE DEF D
    <3> QED
      BY <1>2, <1>5, <1>6, <1>7, <2>3, <3>1
  <2> QED
    BY <2>1, <2>2, <2>3
<1> HIDE DEF D
<1>9. X \in Seq(Node) /\ Elements(X) = Elements(Nodes(w, r)) \ P /\ Ascends(X)
  BY <1>1, <1>8, MissingAscends, MissingIs
<1>10. Elements(M) = Elements(Nodes(w, r)) \ P
  BY <1>1, <1>2, MissingAscends
<1>11. Unique(M) \in Seq(Node) /\ Elements(Unique(M)) = Elements(X) /\ Ascends(Unique(M))
  BY <1>2, <1>6, <1>9, <1>10
<1>12. X = Unique(M)
  BY <1>9, <1>11, AscendingAgree
<1> QED
  BY <1>12 DEF X, M

(* Nobody misses a row, or the answer holds the rows of the nodes asked for.  *)
LEMMA StateRowsArrive ==
    ASSUME Inv, NEW r \in Rank, Ready(r), at[r].phase = "state_finish", AnyMissing(Want(r)),
           NEW X \in Lists(Rank, Node),
           X = IF Want(r).state = "exact" THEN StateIds(Want(r)) ELSE FeatureIds(Want(r), 1)
    PROVE  /\ reply[r] # 0 /\ request[r].order = OwnerOrder(X[r])
           /\ Restore(Received(r, reply[r]), request[r].order) = Rows("state", X[r])
<1> DEFINE w == Want(r)
           b == Base(plan, at[r].batch)
           c == reply[r]
           o == BeforeEnds(w)
<1>1. at[r].phase # "done" /\ "state" \in Kinds /\ 3 \in 1 .. 3
  BY DEF Kinds
<1>2. \A p \in Rank : Len(sent[p]) >= c
  BY AwaitedIs DEF AllEntered
<1>3. /\ w \in Workloads /\ b \in Nat
      /\ at[r].batch \in 1 .. Batches /\ w = plan[at[r].batch]
      /\ Place(w, b, r, "state_finish", Len(sent[r]), request[r], Len(pending[r]), c)
  BY <1>1, InBatch
<1>4. w.state # "none" /\ StateAsked(w, b, r, request[r], c)
  BY <1>3 DEF Place
<1>5. c = b + o /\ request[r] = Answered(X, r)
  BY <1>4 DEF StateAsked
<1>6. w.state \in {"exact", "prefetch"}
  BY <1>3, <1>4, WantIs
<1>7. o \in Nat /\ o # 0
  BY <1>3, CostIs, SMTT(30)
<1>8. /\ o \in 1 .. Cost(w)
      /\ \A p \in Rank : Call(w, o, p) = RowsCall("state", X, p)
  <2>1. CASE w.state = "exact"
    <3>1. o = FeatureCalls(w) + 1 + 3
      <4>1. FeatureCalls(w) \in Nat /\ StateCalls(w) = 4 /\ o = FeatureCalls(w) + StateCalls(w)
        BY <1>3, <2>1, CostIs
      <4> QED
        BY <4>1
    <3>2. X = StateIds(w)
      BY <2>1
    <3>3. \A p \in Rank : /\ FeatureCalls(w) + 1 + 3 \in 1 .. Cost(w)
                          /\ Call(w, FeatureCalls(w) + 1 + 3, p) = Leg("state", X, p, 3)
      BY <1>1, <1>3, <1>4, <2>1, <3>2, StateCall
    <3>4. \A p \in Rank : Leg("state", X, p, 3) = RowsCall("state", X, p)
      BY DEF Leg
    <3> HIDE DEF o, w
    <3> QED
      BY <3>1, <3>3, <3>4
  <2>2. CASE w.state = "prefetch"
    <3>1. o = FeatureCalls(w) + 2
      <4>1. FeatureCalls(w) \in Nat /\ StateCalls(w) = 2 /\ o = FeatureCalls(w) + StateCalls(w)
        BY <1>3, <2>2, CostIs
      <4> QED
        BY <4>1
    <3>2. X = FeatureIds(w, 1)
      BY <2>2
    <3>3. \A p \in Rank : /\ FeatureCalls(w) + 2 \in 1 .. Cost(w)
                          /\ Call(w, FeatureCalls(w) + 2, p) = RowsCall("state", X, p)
      BY <1>3, <1>4, <2>2, <3>2, StateCall
    <3> HIDE DEF o, w
    <3> QED
      BY <3>1, <3>3
  <2> QED
    BY <1>6, <2>1, <2>2
<1> HIDE DEF o, c
<1>9. \A p \in Rank : sent[p][c] = RowsCall("state", X, p)
  <2>1. \A p \in Rank : sent[p][c] = Call(plan[at[r].batch], o, p)
    BY <1>2, <1>3, <1>5, <1>8, PeersCall
  <2> QED
    BY <1>3, <1>8, <2>1
<1>10. Restore(Received(r, c), OwnerOrder(X[r])) = Rows("state", X[r])
  BY <1>1, <1>9, RowsArrive
<1>11. request[r].order = OwnerOrder(X[r])
  BY <1>5 DEF Answered
<1>12. c # 0
  BY <1>3, <1>5, <1>7
<1> QED
  BY <1>10, <1>11, <1>12 DEF c

LEMMA FinishStateKeeps ==
    ASSUME Inv, NEW r \in Rank, Ready(r), FinishState(r)
    PROVE  Inv'
<1> DEFINE w == Want(r)
           b == Base(plan, at[r].batch)
           n == Len(pending[r])
           len == Len(sent[r])
           missing == MissingState(w, r)
           restored == Restore(Received(r, reply[r]), request[r].order)
           got == IF reply[r] = 0 THEN <<>> ELSE Pick(restored, InverseOf(missing))
           rows == Fill("state", StateNodes(w, r), StateRows(w, r), got)
<1>1. at[r].phase = "state_finish"
  BY DEF FinishState
<1>2. at[r].phase # "done" /\ "endpoints" \in Phases \ {"done"} /\ "state" \in Kinds
  BY <1>1 DEF Phases, Kinds
<1>3. /\ w \in Workloads /\ b \in Nat /\ len \in Nat /\ n \in Nat
      /\ pending[r] \in Seq(Fetch) /\ Fetching(w, b, r, pending[r], len)
      /\ Place(w, b, r, "state_finish", len, request[r], n, reply[r])
      /\ Reads(w, r, read[r])
  BY <1>1, <1>2, InBatch
<1>4. w.state # "none" /\ n = 0 /\ len = b + BeforeEnds(w)
  BY <1>3 DEF Place
<1>5. w.state \in {"exact", "prefetch"}
  BY <1>3, <1>4, WantIs
<1>6. StateNodes(w, r) \in Seq(Node) /\ missing \in Seq(Node)
  BY <1>3, StateNodesAre
<1>7. missing = Missing(StateNodes(w, r), StateRows(w, r))
  BY DEF MissingState
<1>8. ASSUME SortedPrefetches PROVE rows = Rows("state", StateNodes(w, r))
  <2>1. ASSUME AnyMissing(w) PROVE got = Rows("state", missing)
    <3> DEFINE X == IF w.state = "exact" THEN StateIds(w) ELSE FeatureIds(w, 1)
    <3>1. X \in Lists(Rank, Node)
      <4>1. 1 \in 1 .. Fetches(w)
        BY <1>3, CostIs
      <4> QED
        BY <1>3, <4>1, IdsAre
    <3>2. X[r] = Unique(missing)
      <4>1. CASE w.state = "exact"
        BY <4>1 DEF StateIds
      <4>2. CASE w.state = "prefetch"
        BY <1>3, <1>8, <4>2, PrefetchAsksUnique
      <4> QED
        BY <1>5, <4>1, <4>2
    <3>3. X = IF w.state = "exact" THEN StateIds(w) ELSE FeatureIds(w, 1)
      OBVIOUS
    <3> HIDE DEF X
    <3>4. reply[r] # 0 /\ restored = Rows("state", X[r])
      BY <1>1, <2>1, <3>1, <3>3, StateRowsArrive
    <3> HIDE DEF restored, missing
    <3>5. got = Pick(Rows("state", Unique(missing)), InverseOf(missing))
      BY <3>2, <3>4
    <3> QED
      BY <1>2, <1>6, <3>5, UniqueIs
  <2>2. ASSUME ~AnyMissing(w) PROVE missing = <<>>
    BY <2>2 DEF AnyMissing
  <2> HIDE DEF got, missing, w
  <2> QED
    BY <1>2, <1>6, <1>7, <2>1, <2>2, FillIs
<1> HIDE DEF rows, got, missing, restored
<1>9. Reads(w, r, With(read[r], "state", rows))
  <2> DEFINE rd == With(read[r], "state", rows)
  <2>1. rd["state"] = rows /\ rd["feature"] = read[r]["feature"] /\ rd["endpoint"] = read[r]["endpoint"]
    BY DEF With, Kinds
  <2> HIDE DEF w, rd
  <2>2. Reads(w, r, rd)
    BY <1>3, <1>8, <2>1 DEF Reads
  <2> QED
    BY <2>2 DEF rd
<1>10. Domains
  BY DEF Inv
<1>11. /\ read' = [read EXCEPT ![r]["state"] = rows]
       /\ at' = [at EXCEPT ![r].phase = "endpoints"]
       /\ plan' = plan /\ sent' = sent /\ request' = request /\ reply' = reply
       /\ pending' = pending /\ DOMAIN pending' = Rank
  BY <1>10 DEF FinishState, Move, Domains, rows, got, missing, restored
<1>12. Place(w, b, r, "endpoints", len, request[r], n, reply[r])
  <2> HIDE DEF w, b, n, len
  <2> QED
    BY <1>4 DEF Place
<1> QED
  BY <1>2, <1>3, <1>9, <1>11, <1>12, GiveKeeps

LEMMA CollectEndpointsKeeps ==
    ASSUME Inv, NEW r \in Rank, CollectEndpoints(r)
    PROVE  Inv'
<1> DEFINE w == Want(r)
           b == Base(plan, at[r].batch)
           n == Len(pending[r])
           len == Len(sent[r])
           X == EndIds(w)
           o == BeforeEnds(w) + 1
           q == AskedFor(X[r])
<1>1. at[r].phase = "endpoints" /\ w.collect
  BY DEF CollectEndpoints
<1>2. at[r].phase # "done" /\ "endpoint_counts" \in Phases \ {"done"} /\ 1 \in 1 .. 3
  BY <1>1 DEF Phases
<1>3. /\ w \in Workloads /\ b \in Nat /\ len \in Nat /\ n \in Nat
      /\ pending[r] \in Seq(Fetch) /\ reply[r] \in 0 .. len
      /\ Fetching(w, b, r, pending[r], len)
      /\ Place(w, b, r, "endpoints", len, request[r], n, reply[r])
  BY <1>1, <1>2, InBatch
<1>4. BeforeEnds(w) \in Nat
  BY <1>3, CostIs
<1>5. n = 0 /\ len = b + BeforeEnds(w)
  BY <1>3 DEF Place
<1>6. X \in Lists(Rank, Node) /\ X[r] = Missing(w.ends[r], Own(r))
  BY <1>3, IdsAre DEF EndIds
<1>7. o \in 1 .. Cost(w) /\ Call(w, o, r) = CountsCall(X, r)
  <2>1. o \in 1 .. Cost(w) /\ Call(w, o, r) = Leg("endpoint", X, r, 1)
    BY <1>1, <1>2, <1>3, EndCall
  <2> QED
    BY <2>1 DEF Leg
<1>8. len = b + o - 1 /\ len + 1 = b + BeforeEnds(w) + 1
  BY <1>3, <1>4, <1>5
<1>9. /\ request' = [request EXCEPT ![r] = q]
      /\ sent' = [sent EXCEPT ![r] = Append(@, CountsCall(X, r))]
      /\ at' = [at EXCEPT ![r].phase = "endpoint_counts"]
      /\ plan' = plan /\ pending' = pending /\ reply' = reply /\ read' = read
  BY <1>6 DEF CollectEndpoints, Ask, Enter, Move, CountsCall
<1>10. Domains
  BY DEF Inv
<1>11. Moved(r, "endpoint_counts") /\ DOMAIN at' = Rank /\ \A p \in Rank : p # r => at'[p] = at[p]
  BY <1>2, <1>9, MovedIs
<1>12. Only(r) /\ request'[r] = q /\ sent'[r] = Append(sent[r], CountsCall(X, r))
  BY <1>9, <1>10, <1>11 DEF Only, Domains
<1>13. RequestOK(r, q)
  BY <1>6, RequestsOK
<1>14. Fetching(w, b, r, pending[r], len + 1) /\ reply[r] \in 0 .. len + 1
  BY <1>3 DEF Fetching
<1> HIDE DEF w, b, n, len, X, o, q
<1>15. Place(w, b, r, "endpoint_counts", len + 1, q, n, reply[r])
  BY <1>1, <1>5, <1>8 DEF Place, X, q
<1>16. /\ RequestOK(r, request'[r]) /\ pending'[r] \in Seq(Fetch) /\ reply'[r] \in 0 .. len + 1
       /\ read'[r] = read[r] /\ sent'[r] = Append(sent[r], Call(w, o, r))
       /\ Fetching(w, b, r, pending'[r], len + 1)
       /\ Place(w, b, r, "endpoint_counts", len + 1, request'[r], Len(pending'[r]), reply'[r])
  BY <1>3, <1>7, <1>9, <1>12, <1>13, <1>14, <1>15 DEF n
<1> QED
  BY <1>7, <1>8, <1>11, <1>12, <1>16, EnterKeeps DEF w, b, len

LEMMA FinishEndpointsKeeps ==
    ASSUME Inv, NEW r \in Rank, Ready(r), FinishEndpoints(r)
    PROVE  Inv'
<1> DEFINE w == Want(r)
           b == Base(plan, at[r].batch)
           n == Len(pending[r])
           len == Len(sent[r])
           X == EndIds(w)
           o == BeforeEnds(w) + 3
           c == reply[r]
           got == Restore(Received(r, c), request[r].order)
           rows == Fill("endpoint", w.ends[r], Own(r), got)
<1>1. at[r].phase = "endpoint_finish"
  BY DEF FinishEndpoints
<1>2. at[r].phase # "done" /\ "use" \in Phases \ {"done"} /\ "endpoint" \in Kinds /\ 3 \in 1 .. 3
  BY <1>1 DEF Phases, Kinds
<1>3. /\ w \in Workloads /\ b \in Nat /\ len \in Nat /\ n \in Nat
      /\ at[r].batch \in 1 .. Batches /\ w = plan[at[r].batch]
      /\ pending[r] \in Seq(Fetch) /\ Fetching(w, b, r, pending[r], len)
      /\ Place(w, b, r, "endpoint_finish", len, request[r], n, c)
      /\ Reads(w, r, read[r])
  BY <1>1, <1>2, InBatch
<1>4. /\ w.collect /\ n = 0 /\ len = b + BeforeEnds(w) + 3 /\ c = len
      /\ request[r] = Answered(X, r)
  BY <1>3 DEF Place
<1>5. \A p \in Rank : Len(sent[p]) >= c
  BY <1>1, AwaitedIs DEF AllEntered
<1>6. X \in Lists(Rank, Node) /\ X[r] = Missing(w.ends[r], Own(r)) /\ w.ends[r] \in Seq(Node)
  BY <1>3, IdsAre, WantIs DEF EndIds
<1>7. /\ o \in 1 .. Cost(w)
      /\ \A p \in Rank : Call(w, o, p) = RowsCall("endpoint", X, p)
  <2>1. \A p \in Rank : o \in 1 .. Cost(w) /\ Call(w, o, p) = Leg("endpoint", X, p, 3)
    BY <1>2, <1>3, <1>4, EndCall
  <2> QED
    BY <2>1 DEF Leg
<1>8. c = b + o
  <2>1. BeforeEnds(w) \in Nat
    BY <1>3, CostIs
  <2> QED
    BY <1>3, <1>4, <2>1
<1> HIDE DEF o, c, X
<1>9. \A p \in Rank : sent[p][c] = RowsCall("endpoint", X, p)
  <2>1. /\ at[r].batch \in 1 .. Batches /\ o \in 1 .. Cost(plan[at[r].batch])
        /\ c = Base(plan, at[r].batch) + o
    BY <1>3, <1>7, <1>8
  <2>2. \A p \in Rank : sent[p][c] = Call(plan[at[r].batch], o, p)
    BY <1>5, <2>1, PeersCall
  <2> QED
    BY <1>3, <1>7, <2>2
<1>10. got = Rows("endpoint", X[r])
  <2>1. Restore(Received(r, c), OwnerOrder(X[r])) = Rows("endpoint", X[r])
    BY <1>2, <1>6, <1>9, RowsArrive
  <2>2. request[r].order = OwnerOrder(X[r])
    BY <1>4 DEF Answered
  <2> QED
    BY <2>1, <2>2
<1> HIDE DEF got
<1>11. rows = Rows("endpoint", w.ends[r])
  <2> HIDE DEF w
  <2> QED
    BY <1>2, <1>6, <1>10, FillIs
<1>12. Domains
  BY DEF Inv
<1>13. /\ read' = [read EXCEPT ![r]["endpoint"] = rows]
       /\ at' = [at EXCEPT ![r].phase = "use"]
       /\ plan' = plan /\ sent' = sent /\ request' = request /\ reply' = reply
       /\ pending' = pending /\ DOMAIN pending' = Rank
  BY <1>12 DEF FinishEndpoints, Move, Domains, got, c
<1> HIDE DEF rows
<1>14. Reads(w, r, With(read[r], "endpoint", rows))
  <2> DEFINE rd == With(read[r], "endpoint", rows)
  <2>1. rd["endpoint"] = rows /\ rd["feature"] = read[r]["feature"] /\ rd["state"] = read[r]["state"]
    BY DEF With, Kinds
  <2> HIDE DEF w, rd
  <2>2. Reads(w, r, rd)
    BY <1>3, <1>11, <2>1 DEF Reads
  <2> QED
    BY <2>2 DEF rd
<1>15. Place(w, b, r, "use", len, request[r], n, reply[r])
  <2> HIDE DEF w, b, n, len
  <2> QED
    BY <1>4 DEF Place
<1> QED
  BY <1>2, <1>3, <1>13, <1>14, <1>15, GiveKeeps

(* A rank at the beginning of a batch, or behind the last one.                *)
Begin(c) == [batch |-> c, phase |-> IF c = Batches + 1 THEN "done" ELSE "features"]

LEMMA BatchBegins ==
    ASSUME NEW pl, PlanOK(pl), NEW r \in Rank, NEW s \in Seq(AnyCall), Calls(pl, r, s),
           NEW c \in 1 .. Batches + 1, Len(s) = Base(pl, c)
    PROVE  Good(pl, r, Begin(c), s, NoRequest, <<>>, 0, [k \in Kinds |-> <<>>])
<1> DEFINE a == Begin(c)
           rd == [k \in Kinds |-> <<>>]
           w == pl[c]
           b == Base(pl, c)
<1>1. Batches \in Nat /\ c \in Nat /\ b \in Nat /\ Len(s) \in Nat
  BY BaseIs
<1>2. a.batch = c /\ a.phase \in {"done", "features"} /\ (a.phase = "done" <=> c = Batches + 1)
  BY DEF Begin
<1>3. a \in [batch : 1 .. Batches + 1, phase : Phases]
  <2>1. {"done", "features"} \subseteq Phases
    BY DEF Phases
  <2> QED
    BY <2>1 DEF Begin
<1>4. Typed(r, a, s, NoRequest, <<>>, 0, rd)
  <2>1. <<>> \in Seq(Fetch) /\ 0 \in 0 .. Len(s)
    BY <1>1
  <2>2. rd = [k \in Kinds |-> rd[k]]
    OBVIOUS
  <2>3. RequestOK(r, NoRequest)
    BY NoRequestOK
  <2> HIDE DEF a, rd
  <2> QED
    BY <1>2, <1>3, <2>1, <2>2, <2>3 DEF Typed
<1>5. Fetching(w, b, r, <<>>, Len(s))
  <2>1. Len(<<>>) = 0 /\ b + 3 * 0 <= Len(s) /\ \A k \in 1 .. 0 : FALSE
    BY <1>1
  <2> HIDE DEF w, b
  <2> QED
    BY <2>1 DEF Fetching
<1>6. Place(w, b, r, a.phase, Len(s), NoRequest, 0, 0)
  <2>1. CASE a.phase = "done"
    <3> HIDE DEF w, b, a
    <3> QED
      BY <2>1 DEF Place, b
  <2>2. CASE a.phase = "features"
    <3>1. c \in 1 .. Batches
      BY <1>1, <1>2, <2>2
    <3>2. w \in Workloads
      BY <3>1, BaseIs
    <3>3. Fetches(w) \in Nat /\ Fetches(w) # 0
      BY <3>2, CostIs
    <3>4. 0 < Fetches(w) /\ Len(s) = b + 3 * 0
      BY <1>1, <3>3
    <3> HIDE DEF w, b, a
    <3> QED
      BY <2>2, <3>4 DEF Place
  <2> QED
    BY <1>2, <2>1, <2>2
<1>7. Reads(w, r, rd)
  <2>1. rd["feature"] = <<>> /\ rd["state"] = <<>> /\ rd["endpoint"] = <<>>
    BY DEF Kinds
  <2>2. DOMAIN <<>> = {}
    OBVIOUS
  <2> HIDE DEF rd, w
  <2> QED
    BY <2>1, <2>2 DEF Reads
<1>8. Len(<<>>) = 0
  OBVIOUS
<1> HIDE DEF a, rd
<1>9. Good(pl, r, a, s, NoRequest, <<>>, 0, rd)
  BY <1>2, <1>4, <1>5, <1>6, <1>7, <1>8 DEF Good
<1> QED
  BY <1>9 DEF a, rd

LEMMA UseKeeps ==
    ASSUME Inv, NEW r \in Rank, Use(r)
    PROVE  Inv'
<1> DEFINE w == Want(r)
           c == at[r].batch
           b == Base(plan, c)
           n == Len(pending[r])
           len == Len(sent[r])
<1>1. at[r].phase = "use" \/ (at[r].phase = "endpoints" /\ ~w.collect)
  BY DEF Use
<1>2. at[r].phase # "done"
  BY <1>1
<1>3. /\ w \in Workloads /\ b \in Nat /\ len \in Nat /\ n \in Nat
      /\ Batches \in Nat /\ c \in 1 .. Batches /\ w = plan[c]
      /\ sent[r] \in Seq(AnyCall) /\ Calls(plan, r, sent[r]) /\ pending[r] \in Seq(Fetch)
      /\ Place(w, b, r, at[r].phase, len, request[r], n, reply[r])
  BY <1>2, InBatch
<1>4. n = 0 /\ len = b + Cost(w)
  <2>1. /\ BeforeEnds(w) \in Nat
        /\ w.collect => Cost(w) = BeforeEnds(w) + 3
        /\ ~w.collect => Cost(w) = BeforeEnds(w)
    BY <1>3, CostIs
  <2>2. CASE at[r].phase = "use"
    <3>1. w.collect /\ n = 0 /\ len = b + BeforeEnds(w) + 3
      BY <1>3, <2>2 DEF Place
    <3> QED
      BY <1>3, <2>1, <3>1
  <2>3. CASE at[r].phase = "endpoints" /\ ~w.collect
    <3>1. n = 0 /\ len = b + BeforeEnds(w)
      BY <1>3, <2>3 DEF Place
    <3> QED
      BY <1>3, <2>1, <2>3, <3>1
  <2> QED
    BY <1>1, <2>2, <2>3
<1>5. PlanOK(plan) /\ Domains
  BY DEF Inv
<1>6. c + 1 \in 1 .. Batches + 1 /\ (c = Batches <=> c + 1 = Batches + 1)
  BY <1>3
<1>7. len = Base(plan, c + 1)
  BY <1>3, <1>4, <1>5, BaseIs
<1>8. Good(plan, r, Begin(c + 1), sent[r], NoRequest, <<>>, 0, [k \in Kinds |-> <<>>])
  <2> HIDE DEF c
  <2> QED
    BY <1>3, <1>5, <1>6, <1>7, BatchBegins
<1>9. pending[r] = <<>>
  BY <1>3, <1>4
<1>10. /\ at' = [at EXCEPT ![r] = Begin(c + 1)]
       /\ request' = [request EXCEPT ![r] = NoRequest]
       /\ reply' = [reply EXCEPT ![r] = 0]
       /\ read' = [read EXCEPT ![r] = [k \in Kinds |-> <<>>]]
       /\ plan' = plan /\ sent' = sent /\ pending' = pending
  BY <1>6 DEF Use, NextBatch, Begin
<1>11. /\ at'[r] = Begin(c + 1) /\ sent'[r] = sent[r] /\ request'[r] = NoRequest
       /\ pending'[r] = <<>> /\ reply'[r] = 0 /\ read'[r] = [k \in Kinds |-> <<>>]
  BY <1>5, <1>9, <1>10 DEF Domains
<1>12. Only(r)
  BY <1>5, <1>10 DEF Only, Domains
<1>13. Good(plan, r, at'[r], sent'[r], request'[r], pending'[r], reply'[r], read'[r])
  BY <1>8, <1>11
<1> QED
  BY <1>12, <1>13, OnlyKeeps

-----------------------------------------------------------------------------
(* What holds in every state.                                                 *)

LEMMA InitInv == Init => Inv
<1> SUFFICES ASSUME Init PROVE Inv
  OBVIOUS
<1>1. PlanOK(plan) /\ Domains
  BY DEF Init, PlanOK, Domains
<1>2. Batches \in Nat /\ Batches # 0 /\ Base(plan, 1) = 0
  BY <1>1, BaseIs
<1>3. ASSUME NEW r \in Rank PROVE Local(r)
  <2>1. /\ at[r] = [batch |-> 1, phase |-> "features"] /\ sent[r] = <<>> /\ request[r] = NoRequest
        /\ pending[r] = <<>> /\ reply[r] = 0 /\ read[r] = [k \in Kinds |-> <<>>]
    BY DEF Init
  <2>2. at[r] = Begin(1)
    <3>1. 1 # Batches + 1
      BY <1>2
    <3> QED
      BY <2>1, <3>1 DEF Begin
  <2>3. 1 \in 1 .. Batches + 1 /\ <<>> \in Seq(AnyCall) /\ Len(<<>>) = Base(plan, 1)
    BY <1>2
  <2>4. Calls(plan, r, <<>>)
    <3> SUFFICES ASSUME NEW c \in 1 .. Batches, NEW o \in 1 .. Cost(plan[c]),
                        Base(plan, c) + o <= 0
                 PROVE  FALSE
      BY DEF Calls
    <3>1. c \in 1 .. Batches + 1 /\ Base(plan, c) \in Nat
      BY <1>1, <1>2, BaseIs
    <3>2. o \in Nat /\ o # 0
      BY <1>1, BaseIs
    <3> QED
      BY <3>1, <3>2
  <2>5. Good(plan, r, Begin(1), <<>>, NoRequest, <<>>, 0, [k \in Kinds |-> <<>>])
    BY <1>1, <2>3, <2>4, BatchBegins
  <2> QED
    BY <2>1, <2>2, <2>5 DEF Local
<1> QED
  BY <1>1, <1>3 DEF Inv

LEMMA StutterKeeps == Inv /\ UNCHANGED vars => Inv'
<1> SUFFICES ASSUME Inv, UNCHANGED vars PROVE Inv'
  OBVIOUS
<1>1. /\ plan' = plan /\ at' = at /\ sent' = sent /\ request' = request
      /\ pending' = pending /\ reply' = reply /\ read' = read
  BY DEF vars
<1>2. Domains' /\ PlanOK(plan')
  BY <1>1 DEF Inv, Domains
<1>3. ASSUME NEW p \in Rank PROVE Local(p)'
  <2>1. Local(p)
    BY DEF Inv
  <2> QED
    BY <1>1, <2>1 DEF Local
<1> QED
  BY <1>2, <1>3 DEF Inv

(* The calls a rank has entered, and where it stands in its batch, are a      *)
(* function of the plan alone; what it holds is what the plan asks for.       *)
THEOREM Invariance == Spec => []Inv
<1>1. ASSUME Inv, [Next]_vars PROVE Inv'
  <2>1. ASSUME NEW r \in Rank, Step(r) PROVE Inv'
    <3>1. Ready(r)
      BY <2>1 DEF Step
    <3>2. CASE LaunchFeatures(r)
      BY <1>1, <3>2, LaunchKeeps
    <3>3. CASE AnswerFeatures(r)
      BY <1>1, <3>1, <3>3, AnswerFeaturesKeeps
    <3>4. CASE FinishFeatures(r)
      BY <1>1, <3>1, <3>4, FinishFeaturesKeeps
    <3>5. CASE SubmitState(r)
      BY <1>1, <3>5, SubmitStateKeeps
    <3>6. CASE RequestState(r)
      BY <1>1, <3>1, <3>6, RequestStateKeeps
    <3>7. CASE FinishState(r)
      BY <1>1, <3>1, <3>7, FinishStateKeeps
    <3>8. CASE CollectEndpoints(r)
      BY <1>1, <3>8, CollectEndpointsKeeps
    <3>9. CASE FinishEndpoints(r)
      BY <1>1, <3>1, <3>9, FinishEndpointsKeeps
    <3>10. ASSUME NEW kind \in Kinds, SendIds(r, kind) PROVE Inv'
      BY <1>1, <3>1, <3>10, SendIdsKeeps
    <3>11. ASSUME NEW kind \in {"state", "endpoint"}, AnswerIds(r, kind) PROVE Inv'
      BY <1>1, <3>1, <3>11, AnswerIdsKeeps
    <3>12. CASE Use(r)
      BY <1>1, <3>12, UseKeeps
    <3> QED
      BY <2>1, <3>2, <3>3, <3>4, <3>5, <3>6, <3>7, <3>8, <3>9, <3>10, <3>11, <3>12 DEF Step
  <2>2. CASE UNCHANGED vars
    BY <1>1, <2>2, StutterKeeps
  <2> QED
    BY <1>1, <2>1, <2>2 DEF Next, Done
<1> QED
  BY <1>1, InitInv, PTL DEF Spec

-----------------------------------------------------------------------------
(* What the invariant says of the calls and of the lists read.                *)

(* No rank enters more calls than its batches have.                           *)
LEMMA SentWithin ==
    ASSUME Inv, NEW r \in Rank
    PROVE  Len(sent[r]) \in Nat /\ Len(sent[r]) <= Base(plan, Batches + 1)
<1> DEFINE c == at[r].batch
           w == plan[c]
           b == Base(plan, c)
           n == Len(pending[r])
           len == Len(sent[r])
<1>1. PlanOK(plan) /\ Local(r)
  BY DEF Inv
<1>2. /\ at[r] \in [batch : 1 .. Batches + 1, phase : Phases]
      /\ at[r].phase = "done" <=> c = Batches + 1
      /\ len \in Nat /\ n \in Nat
      /\ Place(w, b, r, at[r].phase, len, request[r], n, reply[r])
  BY <1>1 DEF Local, Good, Typed
<1>3. /\ Batches \in Nat /\ b \in Nat /\ Base(plan, Batches + 1) \in Nat
      /\ c \in 1 .. Batches + 1 /\ at[r].phase \in Phases
  <2>1. Batches \in Nat
    BY <1>1, BaseIs
  <2>2. Batches + 1 \in 1 .. Batches + 1
    BY <2>1
  <2> QED
    BY <1>1, <1>2, <2>1, <2>2, BaseIs
<1>4. CASE at[r].phase = "done"
  <2>1. len = b /\ c = Batches + 1
    BY <1>2, <1>4 DEF Place
  <2> QED
    BY <1>2, <1>3, <2>1
<1>5. CASE at[r].phase # "done"
  <2>1. c \in 1 .. Batches
    BY <1>2, <1>3, <1>5
  <2>2. /\ w \in Workloads /\ Cost(w) \in Nat /\ Base(plan, c + 1) = b + Cost(w)
        /\ Base(plan, c + 1) \in Nat /\ Base(plan, c + 1) <= Base(plan, Batches + 1)
    <3>1. c + 1 \in 1 .. Batches + 1 /\ Batches + 1 \in 1 .. Batches + 1 /\ c + 1 <= Batches + 1
      BY <1>3, <2>1
    <3> HIDE DEF c
    <3> QED
      BY <1>1, <2>1, <3>1, BaseIs
  <2>3. /\ Fetches(w) \in Nat /\ FeatureCalls(w) = 3 * Fetches(w) /\ FeatureCalls(w) \in Nat
        /\ StateCalls(w) \in 0 .. 4 /\ BeforeEnds(w) = FeatureCalls(w) + StateCalls(w)
        /\ BeforeEnds(w) \in Nat
        /\ w.state # "none" /\ ~AnyMissing(w) => StateCalls(w) = 1
        /\ w.state = "exact" /\ AnyMissing(w) => StateCalls(w) = 4
        /\ w.state = "prefetch" /\ AnyMissing(w) => StateCalls(w) = 2
        /\ w.state \in {"none", "exact", "prefetch"}
        /\ w.collect => Cost(w) = BeforeEnds(w) + 3
        /\ ~w.collect => Cost(w) = BeforeEnds(w)
    BY <2>2, CostIs, WantIs, RankIs
  <2>4. BeforeEnds(w) <= Cost(w)
    BY <2>2, <2>3
  <2> HIDE DEF w, b, n, len, c
  <2>5. len <= b + Cost(w)
    <3>1. CASE at[r].phase \in {"features", "feature_counts", "feature_nodes"}
      <4>1. n < Fetches(w) /\ (len = b + 3 * n \/ len = b + 3 * n + 1 \/ len = b + 3 * n + 2)
        BY <1>2, <3>1 DEF Place
      <4> QED
        BY <1>2, <1>3, <2>2, <2>3, <2>4, <4>1
    <3>2. CASE at[r].phase = "feature_finish"
      <4>1. len = b + BeforeEnds(w) \/ len = b + FeatureCalls(w)
        BY <1>2, <3>2 DEF Place
      <4> QED
        BY <1>2, <1>3, <2>2, <2>3, <2>4, <4>1
    <3>3. CASE at[r].phase \in {"state", "state_needed"}
      <4>1. w.state # "none" /\ (len = b + FeatureCalls(w) \/ len = b + FeatureCalls(w) + 1)
        BY <1>2, <3>3 DEF Place, StateNext
      <4>2. StateCalls(w) >= 1
        BY <2>3, <4>1
      <4> QED
        BY <1>2, <1>3, <2>2, <2>3, <2>4, <4>1, <4>2
    <3>4. CASE at[r].phase \in {"state_counts", "state_nodes"}
      <4>1. /\ w.state = "exact" /\ AnyMissing(w)
            /\ len = b + FeatureCalls(w) + 2 \/ len = b + FeatureCalls(w) + 3
        BY <1>2, <3>4 DEF Place
      <4>2. StateCalls(w) = 4
        BY <2>3, <4>1
      <4> QED
        BY <1>2, <1>3, <2>2, <2>3, <2>4, <4>1, <4>2
    <3>5. CASE at[r].phase \in {"state_finish", "endpoints"}
      <4>1. len = b + BeforeEnds(w)
        BY <1>2, <3>5 DEF Place
      <4> QED
        BY <1>2, <1>3, <2>2, <2>3, <2>4, <4>1
    <3>6. CASE at[r].phase \in {"endpoint_counts", "endpoint_nodes", "endpoint_finish", "use"}
      <4>1. /\ w.collect
            /\ \/ len = b + BeforeEnds(w) + 1 \/ len = b + BeforeEnds(w) + 2
               \/ len = b + BeforeEnds(w) + 3
        BY <1>2, <3>6 DEF Place
      <4> QED
        BY <1>2, <1>3, <2>2, <2>3, <4>1
    <3> QED
      BY <1>3, <1>5, <3>1, <3>2, <3>3, <3>4, <3>5, <3>6 DEF Phases
  <2>6. len <= Base(plan, Batches + 1)
    BY <1>2, <1>3, <2>2, <2>5
  <2> QED
    BY <1>2, <2>6 DEF len
<1> QED
  BY <1>4, <1>5

LEMMA CallsFitHolds == Inv => CallsFit
<1> SUFFICES ASSUME Inv, NEW r \in Rank, NEW p \in Rank, NEW k \in 1 .. Entered(r), k <= Entered(p)
             PROVE  /\ sent[r][k].kind = sent[p][k].kind
                    /\ Len(sent[r][k].to[p]) = sent[p][k].want[r]
  BY DEF CallsFit
<1>1. PlanOK(plan) /\ Entered(r) = Len(sent[r]) /\ Entered(p) = Len(sent[p])
  BY DEF Inv, Entered
<1>2. /\ Entered(r) \in Nat /\ Entered(p) \in Nat
      /\ Entered(r) <= Base(plan, Batches + 1) /\ Base(plan, Batches + 1) \in Nat
  <2>1. Batches \in Nat
    BY <1>1, BaseIs
  <2>2. Batches + 1 \in 1 .. Batches + 1
    BY <2>1
  <2> QED
    BY <1>1, <2>2, SentWithin, BaseIs
<1>3. k \in 1 .. Base(plan, Batches + 1)
  BY <1>2
<1>4. PICK c \in 1 .. Batches : \E o \in 1 .. Cost(plan[c]) : k = Base(plan, c) + o
  BY <1>1, <1>3, CallAt
<1>5. PICK o \in 1 .. Cost(plan[c]) : k = Base(plan, c) + o
  BY <1>4
<1>6. plan[c] \in Workloads
  BY <1>1, BaseIs
<1>7. sent[r][k] = Call(plan[c], o, r) /\ sent[p][k] = Call(plan[c], o, p)
  <2>1. Calls(plan, r, sent[r]) /\ Calls(plan, p, sent[p])
    BY DEF Inv, Local, Good
  <2>2. Base(plan, c) + o <= Len(sent[r]) /\ Base(plan, c) + o <= Len(sent[p])
    BY <1>1, <1>2, <1>5
  <2> QED
    BY <1>5, <2>1, <2>2 DEF Calls
<1> QED
  BY <1>6, <1>7, CallsMatch

LEMMA TypeHolds == Inv => TypeOK
<1> SUFFICES ASSUME Inv PROVE TypeOK
  OBVIOUS
<1>1. PlanOK(plan)
  BY DEF Inv
<1>2. ASSUME NEW r \in Rank
      PROVE  /\ at[r].batch \in 1..(Batches + 1)
             /\ IsIds(request[r].ids) /\ IsIds(request[r].nodes)
             /\ Elements(request[r].order) = DOMAIN request[r].ids
             /\ request[r].send \in [Rank -> Nat] /\ request[r].recv \in [Rank -> Nat]
             /\ \A k \in DOMAIN pending[r] : pending[r][k].reply \in 1..Entered(r)
             /\ reply[r] \in 0..Entered(r)
  <2> DEFINE b == Base(plan, at[r].batch)
             w == plan[at[r].batch]
  <2>1. /\ at[r] \in [batch : 1 .. Batches + 1, phase : Phases]
        /\ RequestOK(r, request[r]) /\ pending[r] \in Seq(Fetch)
        /\ reply[r] \in 0 .. Len(sent[r]) /\ Len(sent[r]) \in Nat
        /\ Fetching(w, b, r, pending[r], Len(sent[r]))
    <3>1. Local(r)
      BY DEF Inv
    <3> HIDE DEF b, w
    <3> QED
      BY <3>1 DEF Local, Good, Typed, b, w
  <2>2. request[r] \in Request /\ Elements(request[r].order) = DOMAIN request[r].ids
    BY <2>1 DEF RequestOK
  <2>3. at[r].batch \in 1 .. Batches + 1 /\ b \in Nat
    BY <1>1, <2>1, BaseIs
  <2>4. \A ids \in Seq(Node) : IsIds(ids)
    BY DEF IsIds, IsList, Elements
  <2>5. IsIds(request[r].ids) /\ IsIds(request[r].nodes)
    BY <2>2, <2>4 DEF Request
  <2>6. request[r].send \in [Rank -> Nat] /\ request[r].recv \in [Rank -> Nat]
    BY <2>2 DEF Request
  <2>7. ASSUME NEW k \in DOMAIN pending[r] PROVE pending[r][k].reply \in 1 .. Entered(r)
    <3>1. k \in 1 .. Len(pending[r]) /\ k \in Nat /\ 1 <= k /\ k <= Len(pending[r])
          /\ Len(pending[r]) \in Nat
      BY <2>1
    <3>2. pending[r][k].reply = b + 3 * k /\ b + 3 * Len(pending[r]) <= Len(sent[r])
      <4>1. pending[r][k] = FetchOf(w, b, r, k) /\ b + 3 * Len(pending[r]) <= Len(sent[r])
        BY <2>1, <3>1 DEF Fetching
      <4> QED
        BY <4>1 DEF FetchOf
    <3> HIDE DEF b
    <3> QED
      BY <2>1, <2>3, <3>1, <3>2 DEF Entered
  <2> QED
    BY <2>1, <2>2, <2>3, <2>5, <2>6, <2>7 DEF Entered
<1> QED
  BY <1>1, <1>2 DEF TypeOK, PlanOK

LEMMA AskedOfOwnersHolds == Inv => AskedOfOwners
BY DEF Inv, Local, Good, Typed, RequestOK, AskedOfOwners

LEMMA ReadsHold ==
    ASSUME Inv, NEW r \in Rank
    PROVE  Reads(Want(r), r, read[r])
BY DEF Inv, Local, Good, Want

(* _restore_order, finish_node_feature_fetch, _materialize: ranks always meet *)
(* in matching calls with the lengths expected, ask owners only, and every    *)
(* list of features or endpoints holds the row of the node at each place.     *)
THEOREM FetchesMatchHolds == Spec => []FetchesMatch
<1>1. Inv => FeaturesMatch
  BY ReadsHold DEF Reads, FeaturesMatch
<1>2. Inv => EndpointsMatch
  BY ReadsHold DEF Reads, EndpointsMatch
<1>3. Inv => FetchesMatch
  BY <1>1, <1>2, TypeHolds, CallsFitHolds, AskedOfOwnersHolds DEF FetchesMatch
<1> QED
  BY <1>3, Invariance, PTL

(* finish_pair: the rows of memory and mailbox stand at the places of their   *)
(* nodes, on a request of their own or, if lists of one block come sorted, on *)
(* the one of the feature fetch.                                              *)
THEOREM StateMatchesHolds ==
    ASSUME SortedPrefetches
    PROVE  Spec => []StateMatches
<1>1. Inv => StateMatches
  BY ReadsHold DEF Reads, StateMatches
<1> QED
  BY <1>1, Invariance, PTL
=============================================================================
