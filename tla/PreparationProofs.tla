--------------------------- MODULE PreparationProofs ---------------------------
(* What a preparation leaves on disk fits together, for every graph, number   *)
(* of nodes and parts, choice of hot nodes and configuration: the windows cut *)
(* time into pieces, the slices of a rank read back as its graph, what one    *)
(* rank sends is what another expects, features stand where the index says,   *)
(* targets are predicted once and a node's state is written by its last       *)
(* event. Before that, the partition: a node that is not hot lies on one      *)
(* part, and an edge goes where its cold ends are mastered, though masters    *)
(* are chosen after all edges are placed.                                     *)
(*                                                                            *)
(* A preparation is a sequence of steps, each of which builds one thing, once *)
(* and for good. StageInv says what is settled when a stage is reached; the   *)
(* other parts of the invariant say of each thing built that it is what the   *)
(* operator of its step gives on what was settled before. The rest is about   *)
(* those operators, on lists of any length.                                   *)
EXTENDS Preparation, OwnerRouteProofs, TLAPS

-----------------------------------------------------------------------------
(* Cuts of time: a range of events is cut into windows that follow each other *)
(* and hold each event once, and a boundary moves off events of one time.     *)

Ordered(ts, n) == \A i, j \in 1..n : i < j => ts[i] <= ts[j]
Apart(ts, n, b) == b \in 1..(n - 1) => ts[b] # ts[b + 1]

(* How many of a stretch of times in order come before one of two borders:    *)
(* those before it are the first of the stretch.                              *)
LEMMA Stretch ==
    ASSUME NEW low \in Nat, NEW high \in Nat, low <= high,
           NEW S \in SUBSET ((low + 1)..high),
           \A i \in S : \A j \in (low + 1)..i : j \in S
    PROVE  LET p == low + Cardinality(S)
           IN  /\ p \in low..high
               /\ S = (low + 1)..p
<1> DEFINE Out == {p \in Nat : p >= low /\ \A i \in S : i <= p}
<1>1. high \in Out
  OBVIOUS
<1>2. PICK p \in Out : \A q \in Out : p <= q
  BY <1>1, Least
<1>3. p \in low..high
  BY <1>1, <1>2
<1>4. p = low \/ p \in S
  <2>1. SUFFICES ASSUME p # low, p \notin S PROVE FALSE
    OBVIOUS
  <2>2. \A i \in S : i \in Int /\ i <= p /\ i # p
    BY <1>2, <2>1
  <2>3. p - 1 \in Nat /\ p - 1 >= low
    BY <1>3, <2>1
  <2>4. p - 1 \in Out
    BY <2>2, <2>3
  <2> QED
    BY <1>2, <2>3, <2>4
<1>5. S = (low + 1)..p
  <2>1. \A i \in S : i \in (low + 1)..p
    BY <1>2, <1>3
  <2>2. ASSUME NEW j \in (low + 1)..p PROVE j \in S
    BY <1>3, <1>4, <2>2
  <2> QED
    BY <2>1, <2>2
<1>6. Cardinality(S) = p - low
  <2>1. Cardinality((low + 1)..p) = IF low + 1 > p THEN 0 ELSE p - (low + 1) + 1
    BY <1>3, FS_Interval
  <2> QED
    BY <1>3, <1>5, <2>1
<1> QED
  BY <1>3, <1>5, <1>6

(* _move_boundary_off_equal_ts.                                               *)
LEMMA MovedOffEqual ==
    ASSUME NEW n \in Nat, NEW ts \in [1..n -> Int], Ordered(ts, n),
           NEW low \in 0..n, Apart(ts, n, low), NEW b \in Nat
    PROVE  LET r == MoveBoundary(ts, b, low, n)
           IN  /\ r \in low..n /\ Apart(ts, n, r)
               /\ b > low /\ low < n => r > low
               /\ low = 0 /\ b < n /\ b >= 1 /\ ts[b] = ts[b + 1] /\ ts[1] # ts[n] => r < n
<1> DEFINE v == ts[b + 1]
           less == {i \in (low + 1)..n : ts[i] < v}
           upto == {i \in (low + 1)..n : ts[i] <= v}
           left == low + Cardinality(less)
           right == low + Cardinality(upto)
           r == MoveBoundary(ts, b, low, n)
<1>1. CASE b <= low
  <2>1. r = low
    BY <1>1 DEF MoveBoundary
  <2> QED
    BY <1>1, <2>1 DEF Apart
<1>2. CASE b > low /\ b >= n
  <2>1. r = n
    BY <1>2 DEF MoveBoundary
  <2> QED
    BY <1>2, <2>1 DEF Apart
<1>3. CASE b > low /\ b < n /\ ts[b] # v
  <2>1. r = b
    BY <1>3 DEF MoveBoundary
  <2> QED
    BY <1>3, <2>1 DEF Apart
<1>4. CASE b > low /\ b < n /\ ts[b] = v
  <2>1. r = IF left = low THEN right
            ELSE IF right = n \/ b - left <= right - b THEN left ELSE right
    BY <1>4 DEF MoveBoundary
  <2>2. b \in 1..n /\ b + 1 \in 1..n /\ v \in Int /\ b \in (low + 1)..n /\ b + 1 \in (low + 1)..n
    BY <1>4
  <2>3. left \in low..n /\ less = (low + 1)..left
    <3>1. \A i \in less : \A j \in (low + 1)..i : j \in less
      BY <2>2 DEF Ordered
    <3>2. less \in SUBSET ((low + 1)..n) /\ low \in Nat /\ low <= n
      OBVIOUS
    <3> HIDE DEF less
    <3> QED
      BY <3>1, <3>2, Stretch
  <2>4. right \in low..n /\ upto = (low + 1)..right
    <3>1. \A i \in upto : \A j \in (low + 1)..i : j \in upto
      BY <2>2 DEF Ordered
    <3>2. upto \in SUBSET ((low + 1)..n) /\ low \in Nat /\ low <= n
      OBVIOUS
    <3> HIDE DEF upto
    <3> QED
      BY <3>1, <3>2, Stretch
  <2>5. left < b /\ b + 1 <= right
    <3>1. b \notin less
      BY <1>4, <2>2
    <3>2. b + 1 \in upto
      BY <2>2
    <3> HIDE DEF less, upto, left, right
    <3> QED
      BY <2>2, <2>3, <2>4, <3>1, <3>2
  <2>6. left > low => Apart(ts, n, left)
    <3>1. SUFFICES ASSUME left > low, left < n PROVE ts[left] # ts[left + 1]
      BY DEF Apart
    <3>2. left \in less /\ left + 1 \notin less /\ left + 1 \in (low + 1)..n
      <4> HIDE DEF less, left
      <4> QED
        BY <2>3, <3>1
    <3>3. ts[left] < v /\ ~(ts[left + 1] < v)
      <4> HIDE DEF left
      <4> QED
        BY <3>2
    <3> QED
      BY <3>3
  <2>7. Apart(ts, n, right)
    <3>1. SUFFICES ASSUME right < n PROVE ts[right] # ts[right + 1]
      BY DEF Apart
    <3>2. right \in upto /\ right + 1 \notin upto /\ right + 1 \in (low + 1)..n
      <4> HIDE DEF upto, right
      <4> QED
        BY <2>2, <2>4, <2>5, <3>1
    <3>3. ts[right] <= v /\ ~(ts[right + 1] <= v)
      <4> HIDE DEF right
      <4> QED
        BY <3>2
    <3> QED
      BY <3>3
  <2>8. ASSUME low = 0, ts[1] # ts[n], left = low PROVE right < n
    <3>1. 1 \notin less /\ 1 \in 1..n /\ n \in 1..n
      <4> HIDE DEF less
      <4> QED
        BY <1>4, <2>3, <2>8
    <3>2. ~(ts[1] < v)
      BY <2>8, <3>1
    <3>3. ts[1] <= v
      BY <2>2, <3>1 DEF Ordered
    <3>4. ts[1] = v /\ ts[n] # v
      BY <2>2, <2>8, <3>1, <3>2, <3>3
    <3>5. v <= ts[n]
      <4>1. CASE b + 1 = n
        BY <4>1, <2>2
      <4>2. CASE b + 1 # n
        BY <4>2, <2>2, <3>1 DEF Ordered
      <4> QED
        BY <4>1, <4>2
    <3>6. n \notin upto
      BY <2>2, <3>1, <3>4, <3>5
    <3> HIDE DEF upto, right
    <3> QED
      BY <2>2, <2>4, <2>5, <3>1, <3>6
  <2> HIDE DEF left, right, v, r
  <2>9. r \in low..n /\ Apart(ts, n, r) /\ r > low
    BY <2>1, <2>2, <2>3, <2>4, <2>5, <2>6, <2>7
  <2>10. low = 0 /\ ts[1] # ts[n] => r < n
    BY <2>1, <2>2, <2>3, <2>4, <2>5, <2>8
  <2> QED
    BY <2>9, <2>10 DEF r
<1> QED
  BY <1>1, <1>2, <1>3, <1>4

(* Windows that follow each other from one row to another and hold every      *)
(* event between.                                                             *)
Follow(windows) == \A j, k \in DOMAIN windows : j < k => windows[j].end <= windows[k].begin

Tiled(windows, lo, hi) ==
    /\ windows \in Seq([begin: lo..hi, end: lo..hi])
    /\ Follow(windows)
    /\ \A e \in (lo + 1)..hi : \E k \in DOMAIN windows : e \in Rows(windows[k])

(* What a list holds, item by item.                                           *)
LEMMA ItemsOf ==
    ASSUME NEW V, NEW s \in Seq(V)
    PROVE  Len(s) \in Nat /\ DOMAIN s = 1..Len(s) /\ \A k \in DOMAIN s : s[k] \in V
OBVIOUS

(* A list of fewer kinds is a list of more.                                   *)
LEMMA WiderList ==
    ASSUME NEW V, NEW s \in Seq(V), NEW W, \A k \in DOMAIN s : s[k] \in W
    PROVE  s \in Seq(W)
<1>1. s \in [1..Len(s) -> W] /\ Len(s) \in Nat
  OBVIOUS
<1> QED
  BY <1>1

(* Where the items of two lists stand once they are joined.                   *)
LEMMA JoinIs ==
    ASSUME NEW V, NEW a \in Seq(V), NEW W, NEW b \in Seq(W)
    PROVE  /\ a \o b \in Seq(V \cup W)
           /\ Len(a) \in Nat /\ Len(b) \in Nat /\ Len(a \o b) = Len(a) + Len(b)
           /\ DOMAIN a = 1..Len(a) /\ DOMAIN b = 1..Len(b) /\ DOMAIN (a \o b) = 1..(Len(a) + Len(b))
           /\ \A i \in 1..Len(a) : (a \o b)[i] = a[i]
           /\ \A i \in (Len(a) + 1)..(Len(a) + Len(b)) :
                 (a \o b)[i] = b[i - Len(a)] /\ i - Len(a) \in 1..Len(b)
<1>1. a \in Seq(V \cup W) /\ b \in Seq(V \cup W)
  BY WiderList
<1> QED
  BY <1>1

(* The windows of a list have a begin and an end.                             *)
LEMMA InWindows ==
    ASSUME NEW X, NEW w \in Seq([begin: X, end: X])
    PROVE  /\ Len(w) \in Nat /\ DOMAIN w = 1..Len(w)
           /\ \A k \in DOMAIN w : w[k] \in [begin: X, end: X] /\ w[k].begin \in X /\ w[k].end \in X
<1>1. Len(w) \in Nat /\ DOMAIN w = 1..Len(w)
  OBVIOUS
<1>2. \A k \in DOMAIN w : w[k] \in [begin: X, end: X]
  BY ItemsOf
<1>3. \A r \in [begin: X, end: X] : r.begin \in X /\ r.end \in X
  OBVIOUS
<1> QED
  BY <1>1, <1>2, <1>3

(* No window tiles an empty range, one window its own.                        *)
LEMMA NoneTile ==
    ASSUME NEW lo \in Nat
    PROVE  Tiled(<<>>, lo, lo)
BY DEF Tiled, Follow

(* Tilings of two ranges that meet join to one.                               *)
LEMMA TilesJoin ==
    ASSUME NEW lo \in Nat, NEW mid \in Nat, NEW hi \in Nat, lo <= mid, mid <= hi,
           NEW a, Tiled(a, lo, mid), NEW b, Tiled(b, mid, hi)
    PROVE  Tiled(a \o b, lo, hi)
<1> DEFINE W == [begin: lo..hi, end: lo..hi]
           c == a \o b
<1>1. a \in Seq([begin: lo..mid, end: lo..mid]) /\ b \in Seq([begin: mid..hi, end: mid..hi])
  BY DEF Tiled
<1>2. Len(a) \in Nat /\ Len(b) \in Nat /\ DOMAIN a = 1..Len(a) /\ DOMAIN b = 1..Len(b)
  BY <1>1
<1>3. /\ \A i \in DOMAIN a : a[i].begin \in lo..mid /\ a[i].end \in lo..mid
      /\ \A i \in DOMAIN b : b[i].begin \in mid..hi /\ b[i].end \in mid..hi
  BY <1>1, InWindows
<1>4. a \in Seq(W) /\ b \in Seq(W)
  <2>1. [begin: lo..mid, end: lo..mid] \subseteq W
    OBVIOUS
  <2>2. [begin: mid..hi, end: mid..hi] \subseteq W
    OBVIOUS
  <2> HIDE DEF W
  <2>3. /\ \A i \in DOMAIN a : a[i] \in [begin: lo..mid, end: lo..mid]
        /\ \A i \in DOMAIN b : b[i] \in [begin: mid..hi, end: mid..hi]
    BY <1>1, InWindows
  <2>4. /\ \A i \in DOMAIN a : a[i] \in W
        /\ \A i \in DOMAIN b : b[i] \in W
    BY <2>1, <2>2, <2>3
  <2> QED
    BY <1>1, <2>4, WiderList
<1>5. /\ c \in Seq(W) /\ DOMAIN c = 1..(Len(a) + Len(b))
      /\ \A i \in 1..Len(a) : c[i] = a[i]
      /\ \A i \in 1..Len(b) : c[Len(a) + i] = b[i]
  BY <1>4
<1> HIDE DEF W, c
<1>6. ASSUME NEW j \in DOMAIN c, NEW k \in DOMAIN c, j < k PROVE c[j].end <= c[k].begin
  <2>1. CASE k <= Len(a)
    <3>1. j \in DOMAIN a /\ k \in DOMAIN a
      BY <1>2, <1>5, <1>6, <2>1
    <3> QED
      BY <1>2, <1>5, <1>6, <3>1 DEF Tiled, Follow
  <2>2. CASE j <= Len(a) /\ k > Len(a)
    <3>1. j \in DOMAIN a /\ k - Len(a) \in DOMAIN b /\ k = Len(a) + (k - Len(a))
      BY <1>2, <1>5, <2>2
    <3>2. c[j] = a[j] /\ c[k] = b[k - Len(a)]
      BY <1>2, <1>5, <3>1
    <3>3. c[j].end \in lo..mid /\ c[k].begin \in mid..hi
      BY <1>3, <3>1, <3>2
    <3> QED
      BY <3>3
  <2>3. CASE j > Len(a)
    <3>1. /\ j - Len(a) \in DOMAIN b /\ k - Len(a) \in DOMAIN b /\ j - Len(a) < k - Len(a)
          /\ k = Len(a) + (k - Len(a)) /\ j = Len(a) + (j - Len(a))
      BY <1>2, <1>5, <1>6, <2>3
    <3>2. c[j] = b[j - Len(a)] /\ c[k] = b[k - Len(a)]
      BY <1>2, <1>5, <3>1
    <3> QED
      BY <3>1, <3>2 DEF Tiled, Follow
  <2> QED
    BY <1>2, <1>5, <2>1, <2>2, <2>3
<1>7. ASSUME NEW e \in (lo + 1)..hi PROVE \E k \in DOMAIN c : e \in Rows(c[k])
  <2>1. CASE e <= mid
    <3>1. PICK k \in DOMAIN a : e \in Rows(a[k])
      BY <2>1 DEF Tiled
    <3> QED
      BY <1>2, <1>5, <3>1
  <2>2. CASE e > mid
    <3>1. PICK k \in DOMAIN b : e \in Rows(b[k])
      BY <2>2 DEF Tiled
    <3>2. Len(a) + k \in DOMAIN c /\ c[Len(a) + k] = b[k]
      BY <1>2, <1>5, <3>1
    <3> QED
      BY <3>1, <3>2
  <2> QED
    BY <2>1, <2>2
<1> QED
  BY <1>5, <1>6, <1>7 DEF Tiled, Follow, W, c

(* Bounds that never fall cut a range into windows that tile it.              *)
LEMMA BetweenTiles ==
    ASSUME NEW m \in Nat, NEW n \in Nat, NEW bounds \in [1..(m + 1) -> 0..n],
           \A i, j \in 1..(m + 1) : i < j => bounds[i] <= bounds[j],
           bounds[1] = 0, bounds[m + 1] = n
    PROVE  Tiled(Between(bounds), 0, n)
<1> DEFINE w == Between(bounds)
           W == [begin: 0..n, end: 0..n]
<1>0. Len(bounds) = m + 1
  OBVIOUS
<1>1. w = [k \in 1..m |-> Cut(bounds[k], bounds[k + 1])]
  BY <1>0 DEF Between
<1>2. \A k \in 1..m : bounds[k] \in 0..n /\ bounds[k + 1] \in 0..n
  OBVIOUS
<1>3. w \in [1..m -> W]
  BY <1>1, <1>2 DEF Cut
<1>4. w \in Seq(W) /\ DOMAIN w = 1..m
  BY <1>3, ListOf
<1> HIDE DEF w
<1>5. \A k \in 1..m : w[k].begin = bounds[k] /\ w[k].end = bounds[k + 1]
  BY <1>1 DEF Cut
<1>6. ASSUME NEW j \in 1..m, NEW k \in 1..m, j < k PROVE w[j].end <= w[k].begin
  <2>1. w[j].end = bounds[j + 1] /\ w[k].begin = bounds[k] /\ j + 1 \in 1..(m + 1) /\ k \in 1..(m + 1)
    BY <1>5
  <2>2. j + 1 < k => bounds[j + 1] <= bounds[k]
    BY <2>1
  <2>3. j + 1 = k => bounds[j + 1] <= bounds[k]
    BY <2>1
  <2> QED
    BY <1>6, <2>1, <2>2, <2>3
<1>7. ASSUME NEW e \in (0 + 1)..n PROVE \E k \in DOMAIN w : e \in Rows(w[k])
  <2> DEFINE T == {k \in 1..(m + 1) : e <= bounds[k]}
  <2>1. m + 1 \in T
    OBVIOUS
  <2>2. T \in SUBSET Nat /\ T # {}
    BY <2>1
  <2>3. PICK x \in T : \A y \in T : x <= y
    BY <2>2, Least
  <2>4. x \in 1..(m + 1) /\ e <= bounds[x] /\ x # 1
    BY <2>3
  <2>5. x - 1 \in 1..m /\ x - 1 \notin T /\ (x - 1) + 1 = x
    BY <2>3, <2>4
  <2>6. bounds[x - 1] < e
    BY <2>5
  <2> HIDE DEF T
  <2>7. e \in Rows(w[x - 1])
    BY <1>2, <1>5, <2>4, <2>5, <2>6 DEF Rows
  <2> QED
    BY <1>4, <2>5, <2>7
<1> QED
  BY <1>4, <1>6, <1>7 DEF Tiled, Follow, w

(* Windows of a range moved along with it (_resolve_range_time_ptr_2).        *)
LEMMA ShiftTiles ==
    ASSUME NEW n \in Nat, NEW by \in Nat, NEW w, Tiled(w, 0, n)
    PROVE  Tiled(Shift(w, by), by, by + n)
<1> DEFINE s == Shift(w, by)
           W == [begin: by..(by + n), end: by..(by + n)]
<1>1. w \in Seq([begin: 0..n, end: 0..n])
  BY DEF Tiled
<1>2. Len(w) \in Nat /\ DOMAIN w = 1..Len(w) /\ \A k \in DOMAIN w : w[k].begin \in 0..n /\ w[k].end \in 0..n
  BY <1>1, InWindows
<1>3. s = [k \in 1..Len(w) |-> Cut(w[k].begin + by, w[k].end + by)]
  BY <1>2 DEF Shift
<1>4. \A k \in 1..Len(w) : w[k].begin + by \in by..(by + n) /\ w[k].end + by \in by..(by + n)
  BY <1>2
<1>5. s \in [1..Len(w) -> W]
  BY <1>3, <1>4 DEF Cut
<1>6. s \in Seq(W) /\ DOMAIN s = 1..Len(w)
  BY <1>2, <1>5, ListOf
<1> HIDE DEF s
<1>7. \A k \in 1..Len(w) : s[k].begin = w[k].begin + by /\ s[k].end = w[k].end + by
  BY <1>3 DEF Cut
<1>8. Follow(s)
  <2>1. ASSUME NEW j \in 1..Len(w), NEW k \in 1..Len(w), j < k PROVE s[j].end <= s[k].begin
    <3>1. w[j].end <= w[k].begin
      BY <1>2, <2>1 DEF Tiled, Follow
    <3> QED
      BY <1>2, <1>7, <3>1
  <2> QED
    BY <1>6, <2>1 DEF Follow
<1>9. ASSUME NEW e \in (by + 1)..(by + n) PROVE \E k \in DOMAIN s : e \in Rows(s[k])
  <2>1. e - by \in (0 + 1)..n
    OBVIOUS
  <2>2. PICK k \in DOMAIN w : e - by \in Rows(w[k])
    BY <2>1 DEF Tiled
  <2>3. w[k].begin \in 0..n /\ w[k].end \in 0..n /\ s[k].begin = w[k].begin + by /\ s[k].end = w[k].end + by
    BY <1>2, <1>7
  <2>4. e \in Rows(s[k])
    BY <2>2, <2>3 DEF Rows
  <2> QED
    BY <1>2, <1>6, <2>4
<1> QED
  BY <1>6, <1>8, <1>9 DEF Tiled, s

(* Every event is in one window.                                              *)
LEMMA TilesHoldOnce ==
    ASSUME NEW n \in Nat, NEW w, Tiled(w, 0, n), NEW e \in 1..n
    PROVE  /\ Cardinality({k \in DOMAIN w : e \in Rows(w[k])}) = 1
           /\ \A j, k \in DOMAIN w : e \in Rows(w[j]) /\ e \in Rows(w[k]) => j = k
<1>1. w \in Seq([begin: 0..n, end: 0..n]) /\ DOMAIN w \subseteq Int
  BY DEF Tiled
<1>2. PICK k \in DOMAIN w : e \in Rows(w[k])
  BY DEF Tiled
<1>3. ASSUME NEW i \in DOMAIN w, NEW j \in DOMAIN w, e \in Rows(w[i]), e \in Rows(w[j]) PROVE i = j
  <2>1. w[i].end \in 0..n /\ w[i].begin \in 0..n /\ w[j].begin \in 0..n /\ w[j].end \in 0..n
    BY <1>1, InWindows
  <2>2. (i < j => w[i].end <= w[j].begin) /\ (j < i => w[j].end <= w[i].begin)
    BY DEF Tiled, Follow
  <2>3. w[i].begin < e /\ e <= w[i].end /\ w[j].begin < e /\ e <= w[j].end
    BY <1>3, <2>1 DEF Rows
  <2>4. ~(i < j) /\ ~(j < i)
    BY <2>1, <2>2, <2>3
  <2> QED
    BY <1>1, <2>4
<1>4. {i \in DOMAIN w : e \in Rows(w[i])} = {k}
  BY <1>2, <1>3
<1> QED
  BY <1>3, <1>4, FS_Singleton

(* Division with a remainder, its growth, and that of Python's rounding half  *)
(* to even.                                                                   *)
LEMMA Divides ==
    ASSUME NEW a \in Nat, NEW b \in Nat \ {0}
    PROVE  a \div b \in Nat /\ a % b \in 0..(b - 1) /\ a = b * (a \div b) + (a % b)
OBVIOUS

LEMMA TimesGrows ==
    ASSUME NEW b \in Nat, NEW x \in Nat, NEW y \in Nat, x <= y
    PROVE  b * x <= b * y /\ b * x \in Nat
<1>1. PICK d \in Nat : y = x + d
  <2>1. y - x \in Nat /\ y = x + (y - x)
    OBVIOUS
  <2> QED
    BY <2>1
<1>2. b * y = b * x + b * d /\ b * d \in Nat /\ b * x \in Nat
  BY <1>1
<1> QED
  BY <1>2

LEMMA DivGrows ==
    ASSUME NEW a \in Nat, NEW c \in Nat, NEW b \in Nat \ {0}, a <= c
    PROVE  a \div b <= c \div b
<1> DEFINE p == a \div b
           q == c \div b
<1>1. p \in Nat /\ a % b \in 0..(b - 1) /\ a = b * p + (a % b)
  BY Divides
<1>2. q \in Nat /\ c % b \in 0..(b - 1) /\ c = b * q + (c % b)
  BY Divides
<1> HIDE DEF p, q
<1>3. ASSUME p > q PROVE FALSE
  <2>1. q + 1 \in Nat /\ q + 1 <= p
    BY <1>1, <1>2, <1>3
  <2>2. b * (q + 1) <= b * p
    BY <1>1, <2>1, TimesGrows
  <2>3. b * (q + 1) = b * q + b
    BY <1>2
  <2>4. b * q \in Int /\ b * p \in Int
    BY <1>1, <1>2
  <2> QED
    BY <1>1, <1>2, <2>2, <2>3, <2>4
<1> QED
  BY <1>1, <1>2, <1>3 DEF p, q

LEMMA RoundingGrows ==
    ASSUME NEW a \in Nat, NEW c \in Nat, NEW b \in Nat \ {0}, a <= c
    PROVE  /\ RoundHalfEven(a, b) \in Nat
           /\ RoundHalfEven(a, b) <= RoundHalfEven(c, b)
<1> DEFINE p == a \div b
           q == c \div b
           r == a % b
           s == c % b
<1>1. p \in Nat /\ r \in 0..(b - 1) /\ a = b * p + r
  BY Divides
<1>2. q \in Nat /\ s \in 0..(b - 1) /\ c = b * q + s
  BY Divides
<1>3. p <= q
  BY DivGrows
<1>4. RoundHalfEven(a, b) = IF 2 * r > b \/ (2 * r = b /\ p % 2 = 1) THEN p + 1 ELSE p
  BY DEF RoundHalfEven
<1>5. RoundHalfEven(c, b) = IF 2 * s > b \/ (2 * s = b /\ q % 2 = 1) THEN q + 1 ELSE q
  BY DEF RoundHalfEven
<1> HIDE DEF p, q, r, s
<1>6. CASE p = q
  <2>1. b * p = b * q
    BY <1>6
  <2>2. r <= s
    <3>1. b * q \in Int
      BY <1>2
    <3> QED
      BY <1>1, <1>2, <2>1, <3>1
  <2>3. 2 * r <= 2 * s /\ 2 * r \in Int /\ 2 * s \in Int
    BY <1>1, <1>2, <2>2
  <2> QED
    BY <1>1, <1>2, <1>4, <1>5, <1>6, <2>3
<1>7. CASE p < q
  BY <1>1, <1>2, <1>4, <1>5, <1>7
<1> QED
  BY <1>1, <1>2, <1>3, <1>6, <1>7

(* _equal_edge_time_ptr_2 and _batch_time_ptr_2 tile their range; so does     *)
(* _adaptive_batch_time_ptr_2, with no boundary between equal times.          *)
LEMMA EqualEdgesTile ==
    ASSUME NEW n \in Nat, NEW slices \in Nat \ {0}
    PROVE  Tiled(EqualEdges(n, slices), 0, n)
<1> DEFINE bound(k) == RoundHalfEven((k - 1) * n, slices)
           bounds == [k \in 1..(slices + 1) |-> bound(k)]
<1>1. EqualEdges(n, slices) = Between(bounds)
  BY DEF EqualEdges
<1>2. ASSUME NEW k \in 1..(slices + 1) PROVE (k - 1) * n \in Nat
  <2>1. k - 1 \in Nat
    OBVIOUS
  <2> QED
    BY <2>1
<1>3. ASSUME NEW i \in 1..(slices + 1), NEW j \in 1..(slices + 1), i <= j
      PROVE  bound(i) \in Nat /\ bound(i) <= bound(j)
  <2>1. i - 1 \in Nat /\ j - 1 \in Nat /\ i - 1 <= j - 1
    BY <1>3
  <2>2. n * (i - 1) <= n * (j - 1)
    BY <2>1, TimesGrows
  <2>3. (i - 1) * n = n * (i - 1) /\ (j - 1) * n = n * (j - 1)
    BY <2>1
  <2>4. (i - 1) * n \in Nat /\ (j - 1) * n \in Nat /\ (i - 1) * n <= (j - 1) * n
    BY <1>2, <2>2, <2>3
  <2> QED
    BY <2>4, RoundingGrows
<1>4. bound(1) = 0
  <2>1. (1 - 1) * n = 0
    OBVIOUS
  <2>2. 0 \div slices \in Nat /\ 0 % slices \in 0..(slices - 1) /\ 0 = slices * (0 \div slices) + (0 % slices)
    BY Divides
  <2>3. slices * (0 \div slices) \in Nat
    BY <2>2
  <2>4. 0 % slices = 0 /\ slices * (0 \div slices) = 0
    BY <2>2, <2>3
  <2>5. 0 \div slices = 0
    BY <2>2, <2>4
  <2> QED
    BY <2>1, <2>4, <2>5 DEF RoundHalfEven
<1>5. bound(slices + 1) = n
  <2> DEFINE a == slices * n
             q == a \div slices
             r == a % slices
  <2>1. ((slices + 1) - 1) * n = a /\ a \in Nat
    OBVIOUS
  <2>2. q \in Nat /\ r \in 0..(slices - 1) /\ a = slices * q + r
    BY <2>1, Divides
  <2>3. RoundHalfEven(a, slices) = IF 2 * r > slices \/ (2 * r = slices /\ q % 2 = 1) THEN q + 1 ELSE q
    BY DEF RoundHalfEven
  <2> HIDE DEF q, r
  <2>4. ~(q > n)
    <3>1. SUFFICES ASSUME q > n PROVE FALSE
      OBVIOUS
    <3>2. n + 1 \in Nat /\ n + 1 <= q
      BY <2>2, <3>1
    <3>3. slices * (n + 1) <= slices * q
      BY <2>2, <3>2, TimesGrows
    <3>4. slices * (n + 1) = slices * n + slices /\ slices * q \in Int
      BY <2>2
    <3> QED
      BY <2>1, <2>2, <3>3, <3>4
  <2>5. ~(q < n)
    <3>1. SUFFICES ASSUME q < n PROVE FALSE
      OBVIOUS
    <3>2. q + 1 \in Nat /\ q + 1 <= n
      BY <2>2, <3>1
    <3>3. slices * (q + 1) <= slices * n
      BY <2>2, <3>2, TimesGrows
    <3>4. slices * (q + 1) = slices * q + slices /\ slices * q \in Int
      BY <2>2
    <3> QED
      BY <2>1, <2>2, <3>3, <3>4
  <2>6. q = n
    BY <2>2, <2>4, <2>5
  <2>7. r = 0
    BY <2>1, <2>2, <2>6
  <2> QED
    BY <2>1, <2>3, <2>6, <2>7
<1> HIDE DEF bound
<1>6. \A k \in 1..(slices + 1) : bound(k) \in 0..n
  BY <1>3, <1>5
<1>7. bounds \in [1..(slices + 1) -> 0..n]
  BY <1>6
<1>8. /\ \A i, j \in 1..(slices + 1) : i < j => bounds[i] <= bounds[j]
      /\ bounds[1] = 0 /\ bounds[slices + 1] = n
  BY <1>3, <1>4, <1>5
<1> HIDE DEF bounds
<1>9. slices \in Nat
  OBVIOUS
<1> QED
  BY <1>1, <1>7, <1>8, <1>9, BetweenTiles

LEMMA BatchedTile ==
    ASSUME NEW n \in Nat \ {0}, NEW size \in Nat \ {0}
    PROVE  Tiled(Batched(n, size), 0, n)
<1> DEFINE full == (n + size - 1) \div size
           bounds == [k \in 1..(full + 1) |-> IF k <= full THEN (k - 1) * size ELSE n]
           left == (n + size - 1) % size
<1>1. Batched(n, size) = Between(bounds)
  BY DEF Batched
<1>2. full \in Nat /\ left \in 0..(size - 1) /\ n + size - 1 = size * full + left
  <2>1. n + size - 1 \in Nat
    OBVIOUS
  <2> QED
    BY <2>1, Divides
<1> HIDE DEF full, left
<1>3. full # 0
  <2>1. full = 0 => size * full = 0
    OBVIOUS
  <2> QED
    BY <1>2, <2>1
<1>4. ASSUME NEW k \in 1..(full + 1), k <= full PROVE (k - 1) * size \in 0..(n - 1)
  <2>1. k - 1 \in Nat /\ full - 1 \in Nat /\ k - 1 <= full - 1
    BY <1>2, <1>3, <1>4
  <2>2. size * (k - 1) <= size * (full - 1) /\ size * (k - 1) \in Nat
    BY <2>1, TimesGrows
  <2>3. size * (full - 1) = size * full - size /\ (k - 1) * size = size * (k - 1) /\ size * full \in Int
    BY <1>2, <2>1
  <2> QED
    BY <1>2, <2>2, <2>3
<1>5. bounds \in [1..(full + 1) -> 0..n]
  BY <1>4
<1>6. bounds[1] = 0 /\ bounds[full + 1] = n
  BY <1>2, <1>3
<1>7. ASSUME NEW i \in 1..(full + 1), NEW j \in 1..(full + 1), i < j PROVE bounds[i] <= bounds[j]
  <2>1. CASE j <= full
    <3>1. i - 1 \in Nat /\ j - 1 \in Nat /\ i - 1 <= j - 1 /\ i <= full
      BY <1>2, <1>7, <2>1
    <3>2. size * (i - 1) <= size * (j - 1)
      BY <3>1, TimesGrows
    <3>3. (i - 1) * size = size * (i - 1) /\ (j - 1) * size = size * (j - 1)
      BY <3>1
    <3> QED
      BY <2>1, <3>1, <3>2, <3>3
  <2>2. CASE ~(j <= full)
    <3>1. bounds[j] = n /\ bounds[i] \in 0..n
      BY <1>5, <2>2
    <3> QED
      BY <3>1
  <2> QED
    BY <2>1, <2>2
<1> HIDE DEF bounds
<1>8. n \in Nat /\ \A i, j \in 1..(full + 1) : i < j => bounds[i] <= bounds[j]
  BY <1>7
<1> QED
  BY <1>1, <1>2, <1>5, <1>6, <1>8, BetweenTiles

(* _adaptive_batch_time_ptr_2: a window is not empty and parts no events of   *)
(* one time.                                                                  *)
LEMMA AdaptiveAdvances ==
    ASSUME NEW n \in Nat, NEW ts \in [1..n -> Int], NEW begin \in 0..(n - 1), NEW size \in Nat \ {0}
    PROVE  /\ AdaptiveEnd(ts, begin, size) \in (begin + 1)..n
           /\ Apart(ts, n, AdaptiveEnd(ts, begin, size))
<1> DEFINE target == IF begin + size < n THEN begin + size ELSE n
           isLeft(l) == /\ l > begin => ts[l] # ts[l + 1]
                        /\ \A m \in (l + 1)..target : ts[m] = ts[m + 1]
           isRight(r) == /\ r < n => ts[r] # ts[r + 1]
                         /\ \A m \in target..(r - 1) : ts[m] = ts[m + 1]
           left == CHOOSE l \in begin..target : isLeft(l)
           right == CHOOSE r \in target..n : isRight(r)
           end == AdaptiveEnd(ts, begin, size)
<1>1. Len(ts) = n
  OBVIOUS
<1>2. target \in (begin + 1)..n
  OBVIOUS
<1>3. end = IF target = n THEN target ELSE IF left = begin THEN right
            ELSE IF right = n \/ target - left < right - target THEN left ELSE right
  BY <1>1 DEF AdaptiveEnd
<1> HIDE DEF target
<1>4. \E l \in begin..target : isLeft(l)
  <2> DEFINE T == {l \in begin..target : \A m \in (l + 1)..target : ts[m] = ts[m + 1]}
  <2>1. target \in T
    BY <1>2
  <2>2. T \in SUBSET Nat /\ T # {}
    <3>1. T \in SUBSET Nat
      BY <1>2
    <3> HIDE DEF T
    <3> QED
      BY <2>1, <3>1
  <2>3. PICK l \in T : \A y \in T : l <= y
    BY <2>2, Least
  <2>4. ASSUME l > begin, ts[l] = ts[l + 1] PROVE FALSE
    <3>1. l - 1 \in begin..target
      BY <1>2, <2>4
    <3>2. \A m \in ((l - 1) + 1)..target : m = l \/ m \in (l + 1)..target
      BY <1>2, <2>4
    <3>3. l - 1 \in T
      BY <2>3, <2>4, <3>1, <3>2
    <3>4. l <= l - 1
      <4> HIDE DEF T
      <4> QED
        BY <2>3, <3>3
    <3> QED
      BY <1>2, <3>4
  <2> QED
    BY <2>3, <2>4
<1>5. \E r \in target..n : isRight(r)
  <2> DEFINE T == {r \in target..n : r < n => ts[r] # ts[r + 1]}
  <2>1. n \in T
    BY <1>2
  <2>2. T \in SUBSET Nat /\ T # {}
    <3>1. T \in SUBSET Nat
      BY <1>2
    <3> HIDE DEF T
    <3> QED
      BY <2>1, <3>1
  <2>3. PICK r \in T : \A y \in T : r <= y
    BY <2>2, Least
  <2>5. r \in target..n
    OBVIOUS
  <2>4. ASSUME NEW m \in target..(r - 1) PROVE ts[m] = ts[m + 1]
    <3>1. m \in target..n /\ m < n /\ ~(r <= m)
      BY <1>2, <2>5
    <3>2. m \notin T
      <4> HIDE DEF T
      <4> QED
        BY <2>3, <3>1
    <3> QED
      BY <3>1, <3>2
  <2> QED
    BY <2>3, <2>4
<1>6. left \in begin..target /\ isLeft(left)
  <2> HIDE DEF isLeft
  <2> QED
    BY <1>4
<1>7. right \in target..n /\ isRight(right)
  <2> HIDE DEF isRight
  <2> QED
    BY <1>5
<1>8. left > begin => left \in (begin + 1)..n /\ Apart(ts, n, left)
  BY <1>2, <1>6 DEF Apart
<1>9. right \in (begin + 1)..n /\ Apart(ts, n, right)
  BY <1>2, <1>7 DEF Apart
<1>10. Apart(ts, n, n)
  BY DEF Apart
<1> HIDE DEF left, right, end
<1>11. end \in (begin + 1)..n /\ Apart(ts, n, end)
  BY <1>2, <1>3, <1>6, <1>8, <1>9, <1>10
<1> QED
  BY <1>11 DEF end

AdaptSteps(ts, size, it, begin) ==
    IF begin = Len(ts) THEN <<>>
    ELSE <<Cut(begin, AdaptiveEnd(ts, begin, size))>> \o it[AdaptiveEnd(ts, begin, size)]

(* The recursion over the next begin defines a function, because each window  *)
(* takes an event.                                                            *)
LEMMA AdaptExists ==
    ASSUME NEW n \in Nat, NEW ts \in [1..n -> Int], NEW size \in Nat \ {0}
    PROVE  \E it : it = [b \in 0..n |-> AdaptSteps(ts, size, it, b)]
<1> DEFINE Good(l) == \E it : it = [b \in (n - l)..n |-> AdaptSteps(ts, size, it, b)]
           Bad == {l \in Nat : l <= n /\ ~Good(l)}
<1>0. Len(ts) = n
  OBVIOUS
<1>1. Good(0)
  <2> DEFINE it == [b \in (n - 0)..n |-> <<>>]
  <2>1. it = [b \in (n - 0)..n |-> AdaptSteps(ts, size, it, b)]
    BY <1>0 DEF AdaptSteps
  <2> QED
    BY <2>1
<1>2. ASSUME NEW l \in Nat, l + 1 <= n, Good(l) PROVE Good(l + 1)
  <2>1. PICK it : it = [b \in (n - l)..n |-> AdaptSteps(ts, size, it, b)]
    BY <1>2
  <2> DEFINE jt == [b \in (n - (l + 1))..n |-> AdaptSteps(ts, size, it, b)]
  <2>2. ASSUME NEW b \in (n - (l + 1))..n PROVE AdaptSteps(ts, size, it, b) = AdaptSteps(ts, size, jt, b)
    <3>1. CASE b = n
      BY <1>0, <3>1 DEF AdaptSteps
    <3>2. CASE b # n
      <4> DEFINE e == AdaptiveEnd(ts, b, size)
      <4>1. b \in 0..(n - 1)
        BY <1>2, <3>2
      <4>2. e \in (b + 1)..n
        BY <4>1, AdaptiveAdvances
      <4> HIDE DEF e
      <4>3. e \in (n - l)..n /\ e \in (n - (l + 1))..n
        BY <4>1, <4>2
      <4>4. jt[e] = AdaptSteps(ts, size, it, e) /\ it[e] = AdaptSteps(ts, size, it, e)
        BY <2>1, <4>3
      <4> QED
        BY <1>0, <3>2, <4>4 DEF AdaptSteps, e
    <3> QED
      BY <3>1, <3>2
  <2>3. jt = [b \in (n - (l + 1))..n |-> AdaptSteps(ts, size, jt, b)]
    BY <2>2
  <2> HIDE DEF jt
  <2> QED
    BY <2>3
<1> HIDE DEF Good
<1>3. ASSUME Bad # {} PROVE FALSE
  <2>1. PICK x \in Bad : \A y \in Bad : x <= y
    BY <1>3, Least
  <2>2. x \in Nat /\ x # 0 /\ ~Good(x) /\ x <= n
    BY <1>1, <2>1
  <2>3. x - 1 \in Nat /\ x - 1 \notin Bad /\ (x - 1) + 1 = x
    BY <2>1, <2>2
  <2>4. Good(x - 1)
    BY <2>2, <2>3
  <2> QED
    BY <1>2, <2>2, <2>3, <2>4
<1>4. Good(n)
  BY <1>3
<1>5. n - n = 0
  OBVIOUS
<1> QED
  BY <1>4, <1>5 DEF Good

LEMMA OneTiles ==
    ASSUME NEW b \in Nat, NEW e \in Nat, b <= e
    PROVE  Tiled(<<Cut(b, e)>>, b, e)
<1> DEFINE w == <<Cut(b, e)>>
<1>1. Cut(b, e) \in [begin: b..e, end: b..e]
  BY DEF Cut
<1>2. w \in Seq([begin: b..e, end: b..e]) /\ DOMAIN w = {1} /\ w[1] = Cut(b, e)
  BY <1>1
<1> HIDE DEF w
<1>3. Follow(w)
  BY <1>2 DEF Follow
<1>4. \A x \in (b + 1)..e : x \in Rows(w[1])
  BY <1>2 DEF Rows, Cut
<1> QED
  BY <1>2, <1>3, <1>4 DEF Tiled, w

LEMMA AdaptiveTile ==
    ASSUME NEW n \in Nat, NEW ts \in [1..n -> Int], NEW size \in Nat \ {0}
    PROVE  /\ Tiled(Adaptive(ts, size), 0, n)
           /\ \A k \in DOMAIN Adaptive(ts, size) : Apart(ts, n, Adaptive(ts, size)[k].end)
<1> DEFINE it == CHOOSE it : it = [b \in 0..Len(ts) |-> AdaptSteps(ts, size, it, b)]
           Good(b) == Tiled(it[b], b, n) /\ \A k \in DOMAIN it[b] : Apart(ts, n, it[b][k].end)
           Bad == {l \in Nat : l <= n /\ ~Good(n - l)}
<1>0. Len(ts) = n
  OBVIOUS
<1>1. Adaptive(ts, size) = it[0]
  BY DEF Adaptive, AdaptSteps
<1>2. it = [b \in 0..n |-> AdaptSteps(ts, size, it, b)]
  <2>1. \E jt : jt = [b \in 0..Len(ts) |-> AdaptSteps(ts, size, jt, b)]
    BY <1>0, AdaptExists
  <2>2. it = [b \in 0..Len(ts) |-> AdaptSteps(ts, size, it, b)]
    BY <2>1
  <2> HIDE DEF it
  <2> QED
    BY <1>0, <2>2
<1> HIDE DEF it
<1>3. Good(n)
  <2>1. it[n] = <<>>
    BY <1>0, <1>2 DEF AdaptSteps
  <2> QED
    BY <2>1, NoneTile
<1>4. ASSUME NEW b \in 0..(n - 1), Good(AdaptiveEnd(ts, b, size)) PROVE Good(b)
  <2> DEFINE e == AdaptiveEnd(ts, b, size)
             one == <<Cut(b, e)>>
  <2>1. e \in (b + 1)..n /\ Apart(ts, n, e)
    BY AdaptiveAdvances
  <2>2. b \in 0..n /\ b # n
    OBVIOUS
  <2>3. it[b] = one \o it[e]
    BY <1>0, <1>2, <2>2 DEF AdaptSteps
  <2> HIDE DEF e
  <2>4. Tiled(one, b, e)
    BY <2>1, OneTiles
  <2>5. Tiled(it[e], e, n)
    BY <1>4 DEF e
  <2>6. /\ one \in Seq([begin: b..e, end: b..e]) /\ it[e] \in Seq([begin: e..n, end: e..n])
        /\ DOMAIN one = {1} /\ one[1].end = e
    BY <2>4, <2>5 DEF Tiled, Cut
  <2>9. Len(one) = 1
    OBVIOUS
  <2> HIDE DEF one
  <2>7. Tiled(one \o it[e], b, n)
    BY <2>1, <2>4, <2>5, TilesJoin
  <2>8. ASSUME NEW k \in DOMAIN (one \o it[e]) PROVE Apart(ts, n, (one \o it[e])[k].end)
    <3>1. Len(it[e]) \in Nat /\ DOMAIN it[e] = 1..Len(it[e])
      BY <2>6
    <3>5. /\ DOMAIN (one \o it[e]) = 1..(1 + Len(it[e]))
          /\ \A i \in 1..1 : (one \o it[e])[i] = one[i]
          /\ \A i \in (1 + 1)..(1 + Len(it[e])) :
                (one \o it[e])[i] = it[e][i - 1] /\ i - 1 \in 1..Len(it[e])
      <4> DEFINE V == [begin: b..e, end: b..e]
                 W == [begin: e..n, end: e..n]
                 rest == it[e]
      <4>1. one \in Seq(V) /\ rest \in Seq(W)
        BY <2>6
      <4> HIDE DEF V, W, rest
      <4>2. /\ DOMAIN (one \o rest) = 1..(Len(one) + Len(rest))
            /\ \A i \in 1..Len(one) : (one \o rest)[i] = one[i]
            /\ \A i \in (Len(one) + 1)..(Len(one) + Len(rest)) :
                  (one \o rest)[i] = rest[i - Len(one)] /\ i - Len(one) \in 1..Len(rest)
        BY <4>1, JoinIs
      <4> QED
        BY <2>9, <4>2 DEF rest
    <3>2. k \in 1..(1 + Len(it[e]))
      BY <3>5
    <3>3. CASE k = 1
      <4>1. (one \o it[e])[k] = one[1]
        BY <3>3, <3>5
      <4> QED
        BY <2>1, <2>6, <4>1
    <3>4. CASE k # 1
      <4>1. (one \o it[e])[k] = it[e][k - 1] /\ k - 1 \in DOMAIN it[e]
        BY <3>1, <3>2, <3>4, <3>5
      <4> QED
        BY <1>4, <4>1 DEF e
    <3> QED
      BY <3>3, <3>4
  <2> QED
    BY <2>3, <2>7, <2>8
<1> HIDE DEF Good
<1>5. ASSUME Bad # {} PROVE FALSE
  <2>1. PICK x \in Bad : \A y \in Bad : x <= y
    BY <1>5, Least
  <2>2. x \in Nat /\ x <= n /\ ~Good(n - x) /\ x # 0
    BY <1>3, <2>1
  <2> DEFINE e == AdaptiveEnd(ts, n - x, size)
  <2>3. n - x \in 0..(n - 1)
    BY <2>2
  <2>4. e \in ((n - x) + 1)..n
    BY <2>3, AdaptiveAdvances
  <2> HIDE DEF e
  <2>5. n - e \in Nat /\ n - e <= n /\ ~(x <= n - e) /\ n - (n - e) = e
    BY <2>2, <2>4
  <2>6. Good(e)
    BY <2>1, <2>5
  <2> QED
    BY <1>4, <2>2, <2>3, <2>6 DEF e
<1>6. Good(0)
  <2>1. n - n = 0 /\ n \notin Bad
    BY <1>5
  <2>2. Good(n - n)
    BY <2>1
  <2> QED
    BY <2>1, <2>2
<1> QED
  BY <1>1, <1>6 DEF Good

IsCut(c) == c.by \in {"batch", "adaptive_batch", "equal_edges"} /\ c.size \in Nat \ {0}

(* _resolve_range_time_ptr_2.                                                 *)
LEMMA RangeTiles ==
    ASSUME NEW n \in Nat, NEW ts \in [1..n -> Int], NEW lo \in 0..n, NEW hi \in lo..n,
           NEW c, IsCut(c), NEW name
    PROVE  LET w == RangeWindows(name, Cut(lo, hi), ts, c)
           IN  /\ Tiled(w, lo, hi)
               /\ name = "train" /\ c.by = "adaptive_batch" /\ Apart(ts, n, lo) /\ Apart(ts, n, hi)
                      => \A k \in DOMAIN w : Apart(ts, n, w[k].end)
<1> DEFINE m == hi - lo
           here == [i \in 1..m |-> ts[lo + i]]
           by == IF c.by = "adaptive_batch" /\ name # "train" THEN "batch" ELSE c.by
           local == CASE m = 0 -> <<>>
                      [] m > 0 /\ by = "adaptive_batch" -> Adaptive(here, c.size)
                      [] m > 0 /\ by = "batch" -> Batched(m, c.size)
                      [] m > 0 /\ by = "equal_edges" -> EqualEdges(m, c.size)
           w == RangeWindows(name, Cut(lo, hi), ts, c)
<1>1. w = Shift(local, lo)
  BY DEF RangeWindows, Cut
<1>2. m \in Nat /\ c.size \in Nat \ {0} /\ by \in {"batch", "adaptive_batch", "equal_edges"}
  BY DEF IsCut
<1>3. here \in [1..m -> Int]
  OBVIOUS
<1> HIDE DEF m, here, by
<1>8. Tiled(local, 0, m)
  <2>4. CASE m = 0
    <3>1. local = <<>>
      BY <2>4
    <3>2. Tiled(local, 0, m)
      BY <2>4, <3>1, NoneTile
    <3> QED
      BY <3>1, <3>2
  <2>5. CASE m > 0 /\ by = "adaptive_batch"
    <3>1. local = Adaptive(here, c.size)
      BY <2>5
    <3> HIDE DEF local
    <3> QED
      BY <1>2, <1>3, <3>1, AdaptiveTile
  <2>6. CASE m > 0 /\ by = "batch"
    <3>1. local = Batched(m, c.size)
      BY <2>6
    <3> HIDE DEF local
    <3>2. m \in Nat \ {0}
      BY <1>2, <2>6
    <3> QED
      BY <1>2, <3>1, <3>2, BatchedTile
  <2>7. CASE m > 0 /\ by = "equal_edges"
    <3>1. local = EqualEdges(m, c.size)
      BY <2>7
    <3> HIDE DEF local
    <3> QED
      BY <1>2, <3>1, EqualEdgesTile
  <2> HIDE DEF local
  <2> QED
    BY <1>2, <2>4, <2>5, <2>6, <2>7
<1> HIDE DEF local
<1>9. lo + m = hi /\ lo \in Nat
  BY DEF m
<1>10. Tiled(Shift(local, lo), lo, lo + m)
  BY <1>2, <1>8, <1>9, ShiftTiles
<1>11. Tiled(w, lo, hi)
  BY <1>1, <1>9, <1>10
<1>12. ASSUME name = "train", c.by = "adaptive_batch", Apart(ts, n, lo), Apart(ts, n, hi),
              NEW k \in DOMAIN w
       PROVE  Apart(ts, n, w[k].end)
  <2>1. local \in Seq([begin: 0..m, end: 0..m])
    BY <1>8 DEF Tiled
  <2>2. DOMAIN local = 1..Len(local) /\ \A j \in DOMAIN local : local[j].end \in 0..m
    BY <2>1, InWindows
  <2>3. k \in DOMAIN local /\ w[k].end = local[k].end + lo
    BY <1>1, <1>12 DEF Shift, Cut
  <2>4. m > 0
    <3>1. m = 0 => DOMAIN local = {}
      BY DEF local
    <3> QED
      BY <1>2, <2>3, <3>1
  <2>5. by = "adaptive_batch"
    BY <1>12 DEF by
  <2>6. Apart(here, m, local[k].end)
    <3>1. local = Adaptive(here, c.size)
      BY <2>4, <2>5 DEF local
    <3> QED
      BY <1>2, <1>3, <2>3, <3>1, AdaptiveTile
  <2> DEFINE e == local[k].end
  <2>7. e \in 0..m /\ w[k].end = lo + e
    BY <2>2, <2>3
  <2> HIDE DEF e
  <2>8. CASE e = 0
    BY <1>12, <2>7, <2>8
  <2>9. CASE e = m
    BY <1>9, <1>12, <2>7, <2>9
  <2>10. CASE e \in 1..(m - 1)
    <3>1. here[e] # here[e + 1]
      BY <2>6, <2>10 DEF Apart, e
    <3>2. here[e] = ts[lo + e] /\ here[e + 1] = ts[lo + (e + 1)]
      BY <1>2, <2>10 DEF here
    <3>3. lo + (e + 1) = (lo + e) + 1
      BY <2>10
    <3> QED
      BY <2>7, <3>1, <3>2, <3>3 DEF Apart
  <2> QED
    BY <1>2, <2>7, <2>8, <2>9, <2>10
<1> QED
  BY <1>11, <1>12

(* resolve_split_ranges.                                                      *)
InOrder(ranges, n) ==
    \E a \in 0..n : \E b \in a..n :
        ranges = [train |-> Cut(0, a), val |-> Cut(a, b), test |-> Cut(b, n)]

(* Ranges by ratio follow each other and are not cut at equal times; those by *)
(* label follow each other.                                                   *)
LEMMA RatiosInOrder ==
    ASSUME NEW n \in Nat, NEW ts \in [1..n -> Int], Ordered(ts, n),
           NEW first \in 0..n, NEW second \in first..n
    PROVE  LET r == FromRatios(ts, first, second)
           IN  /\ InOrder(r, n)
               /\ Apart(ts, n, r.train.end) /\ Apart(ts, n, r.val.end)
               /\ first > 0 => r.train.end > 0
               /\ first \in 1..(n - 1) /\ ts[first] = ts[first + 1] /\ ts[1] # ts[n] => r.train.end < n
<1> DEFINE a == MoveBoundary(ts, first, 0, n)
           b == MoveBoundary(ts, second, a, n)
           r == FromRatios(ts, first, second)
<1>1. Len(ts) = n
  OBVIOUS
<1>2. r = [train |-> Cut(0, a), val |-> Cut(a, b), test |-> Cut(b, n)]
  BY <1>1 DEF FromRatios
<1>3. r.train.end = a /\ r.val.end = b
  BY <1>2 DEF Cut
<1>4. Apart(ts, n, 0) /\ 0 \in 0..n /\ first \in Nat /\ second \in Nat
  BY DEF Apart
<1>5. /\ a \in 0..n /\ Apart(ts, n, a)
      /\ first > 0 /\ 0 < n => a > 0
      /\ first < n /\ first >= 1 /\ ts[first] = ts[first + 1] /\ ts[1] # ts[n] => a < n
  BY <1>4, MovedOffEqual
<1> HIDE DEF a
<1>6. b \in a..n /\ Apart(ts, n, b)
  BY <1>4, <1>5, MovedOffEqual
<1> HIDE DEF b, r
<1>7. InOrder(r, n)
  BY <1>2, <1>5, <1>6 DEF InOrder
<1> QED
  BY <1>3, <1>5, <1>6, <1>7 DEF r

LEMMA LabelsInOrder ==
    ASSUME NEW n \in Nat, NEW marks \in [1..n -> Int]
    PROVE  InOrder(FromLabels(marks), n)
<1> DEFINE of(k) == {i \in 1..n : marks[i] <= k}
           a == Cardinality(of(0))
           b == Cardinality(of(1))
<1>1. Len(marks) = n /\ DOMAIN marks = 1..n
  OBVIOUS
<1>2. FromLabels(marks) = [train |-> Cut(0, a), val |-> Cut(a, b), test |-> Cut(b, n)]
  BY <1>1 DEF FromLabels
<1>3. IsFiniteSet(1..n) /\ Cardinality(1..n) = n
  BY FS_Interval
<1>4. of(0) \subseteq of(1) /\ of(1) \subseteq 1..n
  OBVIOUS
<1> HIDE DEF of
<1>5. a \in Nat /\ b \in Nat /\ a <= b /\ b <= n
  BY <1>3, <1>4, FS_Subset, FS_CardinalityType
<1> QED
  BY <1>2, <1>5 DEF InOrder

(* resolve_split_time_ptr_2.                                                  *)
LEMMA SplitTiles ==
    ASSUME NEW n \in Nat, NEW ts \in [1..n -> Int], NEW ranges, InOrder(ranges, n), NEW c, IsCut(c)
    PROVE  LET s == SplitWindows(ranges, ts, c)
           IN  /\ Tiled(AllWindows(s), 0, n)
               /\ c.by = "adaptive_batch" /\ Apart(ts, n, ranges.train.end)
                      => \A k \in DOMAIN s.train : Apart(ts, n, s.train[k].end)
<1> DEFINE s == SplitWindows(ranges, ts, c)
<1>1. PICK a \in 0..n : \E b \in a..n :
         ranges = [train |-> Cut(0, a), val |-> Cut(a, b), test |-> Cut(b, n)]
  BY DEF InOrder
<1>2. PICK b \in a..n : ranges = [train |-> Cut(0, a), val |-> Cut(a, b), test |-> Cut(b, n)]
  BY <1>1
<1>3. /\ s.train = RangeWindows("train", Cut(0, a), ts, c)
      /\ s.val = RangeWindows("val", Cut(a, b), ts, c)
      /\ s.test = RangeWindows("test", Cut(b, n), ts, c)
      /\ ranges.train.end = a
  BY <1>2 DEF SplitWindows, Cut
<1> HIDE DEF s
<1>4. 0 \in 0..n /\ a \in 0..n /\ b \in 0..n /\ n \in b..n /\ Apart(ts, n, 0)
  BY DEF Apart
<1>5. /\ Tiled(s.train, 0, a)
      /\ c.by = "adaptive_batch" /\ Apart(ts, n, a) => \A k \in DOMAIN s.train : Apart(ts, n, s.train[k].end)
  BY <1>3, <1>4, RangeTiles
<1>6. Tiled(s.val, a, b)
  BY <1>3, <1>4, RangeTiles
<1>7. Tiled(s.test, b, n)
  BY <1>3, <1>4, RangeTiles
<1>8. a \in Nat /\ b \in Nat /\ 0 <= a /\ a <= b /\ b <= n
  OBVIOUS
<1>9. Tiled(s.train \o s.val, 0, b)
  BY <1>5, <1>6, <1>8, TilesJoin
<1>10. 0 <= b /\ 0 \in Nat
  OBVIOUS
<1>11. Tiled((s.train \o s.val) \o s.test, 0, n)
  BY <1>7, <1>8, <1>9, <1>10, TilesJoin
<1> QED
  BY <1>3, <1>5, <1>11 DEF AllWindows, s
-----------------------------------------------------------------------------
USE PartitionAssumption

Placed ==
    /\ \A n \in Node : ~IsHot(n) => Len(node_parts[n]) <= 1
    /\ \A e \in (DOMAIN edge_owner) \ dropped_edges :
          /\ edge_owner[e] \in Part
          /\ \A n \in Cold(e) : Len(node_parts[n]) = 1
          /\ \A part \in Part :
                Cold(e) # {} /\ (\A n \in Cold(e) : node_parts[n][1] = part)
                    => edge_owner[e] = part

Mastered ==
    pc # "edges" =>
        /\ Len(edge_owner) = Len(events)
        /\ \A n \in Node : ~IsHot(n) => node_master[n] = FirstPart(n)
        /\ \A n \in replica_nodes : IsHot(n)

IInv == PartitionTypeOK /\ Placed /\ Mastered
-----------------------------------------------------------------------------
(* The ends of an edge are nodes.                                             *)
LEMMA EndsAreNodes ==
    ASSUME PartitionTypeOK, NEW e \in DOMAIN events
    PROVE  Ends(e) \subseteq Node /\ Cold(e) \subseteq Node
<1>1. events \in Seq(Edge)
  BY DEF PartitionTypeOK
<1>2. events[e] \in Edge
  BY <1>1
<1> QED
  BY <1>2 DEF Edge, Ends, Cold

(* first_local_part_or_fallback gives a part.                                 *)
LEMMA FirstPartIsPart ==
    ASSUME PartitionTypeOK, NEW n \in Node
    PROVE  FirstPart(n) \in Part
<1>1. CASE node_parts[n] # <<>>
  <2>1. node_parts[n] \in Seq(Part)
    BY DEF PartitionTypeOK
  <2> QED
    BY <1>1, <2>1 DEF FirstPart
<1>2. CASE node_parts[n] = <<>>
  <2>1. n \in Int /\ NumParts \in Nat \ {0}
    BY DEF Node
  <2>2. n % NumParts \in 0..(NumParts - 1)
    BY <2>1
  <2> QED
    BY <1>2, <2>2 DEF FirstPart, Part
<1> QED
  BY <1>1, <1>2

(* perform_step: the parts of a cold node after an edge took a part. A node   *)
(* that had none has this one, and one that had keeps what it had.            *)
LEMMA ColdKeepsItsPart ==
    ASSUME PartitionTypeOK, NEW part \in Part, PlaceEdge(part),
           NEW n \in Node, ~IsHot(n), Len(node_parts[n]) <= 1
    PROVE  node_parts'[n] =
               IF node_parts[n] = <<>> /\ n \in Ends(Len(edge_owner) + 1) THEN <<part>>
               ELSE node_parts[n]
<1>1. node_parts[n] \in Seq(Part)
  BY DEF PartitionTypeOK
<1>2. node_parts'[n] =
         IF n \in Ends(Len(edge_owner) + 1) /\ Joins(n, part) /\ part \notin Held(n)
         THEN Append(node_parts[n], part) ELSE node_parts[n]
  BY DEF PlaceEdge
<1>3. CASE node_parts[n] = <<>>
  <2>1. Joins(n, part) /\ part \notin Held(n)
    BY <1>3 DEF Joins, Held, Elements
  <2>2. Append(node_parts[n], part) = <<part>>
    BY <1>3
  <2> QED
    BY <1>2, <1>3, <2>1, <2>2
<1>4. CASE node_parts[n] # <<>>
  <2>1. 1 \in DOMAIN node_parts[n]
    BY <1>1, <1>4
  <2>2. Joins(n, part) => part \in Held(n)
    BY <1>4, <2>1 DEF Joins, Held, Elements
  <2> QED
    BY <1>2, <1>4, <2>2
<1> QED
  BY <1>3, <1>4
-----------------------------------------------------------------------------
(* Every variable keeps to its type, from the constants' assumption.          *)
LEMMA TypeStep ==
    PartitionTypeOK /\ [PartitionNext]_partition => PartitionTypeOK'
<1> SUFFICES ASSUME PartitionTypeOK, [PartitionNext]_partition
             PROVE  PartitionTypeOK'
  OBVIOUS
<1>0. events \in Seq(Edge) /\ edge_owner \in Seq(Part \cup {-1})
  BY DEF PartitionTypeOK
<1>1. ASSUME NEW part \in Part, PlaceEdge(part)
      PROVE  PartitionTypeOK'
  <2>1. node_parts' \in [Node -> Seq(Part)]
    BY <1>1 DEF PartitionTypeOK, PlaceEdge
  <2>2. Len(edge_owner) + 1 <= Len(events)
    BY <1>0, <1>1 DEF PlaceEdge
  <2>3. /\ edge_owner' \in Seq(Part \cup {-1})
        /\ Len(edge_owner') = Len(edge_owner) + 1
        /\ DOMAIN edge_owner \subseteq DOMAIN edge_owner'
    BY <1>0, <1>1 DEF PlaceEdge
  <2> QED
    BY <1>1, <2>1, <2>2, <2>3 DEF PartitionTypeOK, PlaceEdge
<1>2. CASE DropEdge
  <2>1. Len(edge_owner) + 1 <= Len(events)
    BY <1>0, <1>2 DEF DropEdge
  <2>2. /\ edge_owner' \in Seq(Part \cup {-1})
        /\ Len(edge_owner') = Len(edge_owner) + 1
        /\ DOMAIN edge_owner \subseteq DOMAIN edge_owner'
        /\ Len(edge_owner) + 1 \in DOMAIN edge_owner'
    BY <1>0, <1>2 DEF DropEdge
  <2> QED
    BY <1>2, <2>1, <2>2 DEF PartitionTypeOK, DropEdge
<1>3. CASE SettleMasters
  <2>1. \A e \in DOMAIN edge_owner : events[e].dst \in Node
    <3>1. \A e \in DOMAIN edge_owner : e \in DOMAIN events
      BY <1>0, <1>3 DEF SettleMasters
    <3>2. \A e \in DOMAIN events : events[e] \in Edge
      BY <1>0
    <3> QED
      BY <3>1, <3>2 DEF Edge
  <2>2. \A e \in DOMAIN edge_owner : edge_owner'[e] \in Part \cup {-1}
    BY <1>0, <1>3, <2>1, FirstPartIsPart DEF SettleMasters
  <2>3. DOMAIN edge_owner' = 1..Len(edge_owner)
    BY <1>0, <1>3 DEF SettleMasters
  <2>4. /\ edge_owner' \in Seq(Part \cup {-1})
        /\ Len(edge_owner') = Len(edge_owner)
    <3>1. edge_owner' = [e \in 1..Len(edge_owner) |-> edge_owner'[e]]
      BY <1>0, <1>3, <2>3 DEF SettleMasters
    <3>2. Len(edge_owner) \in Nat /\ DOMAIN edge_owner = 1..Len(edge_owner)
      BY <1>0
    <3>3. edge_owner' \in [1..Len(edge_owner) -> Part \cup {-1}]
      BY <2>2, <3>1, <3>2
    <3> QED
      BY <3>2, <3>3
  <2>5. node_master' \in [Node -> Part \cup {-1}]
    BY <1>3, FirstPartIsPart DEF SettleMasters
  <2>6. replica_nodes' \subseteq Node
    BY <1>3 DEF SettleMasters, Replicas
  <2> QED
    BY <1>0, <1>3, <2>3, <2>4, <2>5, <2>6 DEF PartitionTypeOK, SettleMasters
<1>4. CASE ChooseMaster
  <2>1. PICK n \in Node :
          /\ \E part \in (IF IsHot(n) THEN Part ELSE Held(n)) :
                node_master' = [node_master EXCEPT ![n] = part]
          /\ replica_nodes' = replica_nodes \ {n}
    BY <1>4 DEF ChooseMaster
  <2>2. PICK part \in (IF IsHot(n) THEN Part ELSE Held(n)) :
          node_master' = [node_master EXCEPT ![n] = part]
    BY <2>1
  <2>3. part \in Part
    <3>1. node_parts[n] \in Seq(Part)
      BY DEF PartitionTypeOK
    <3> QED
      BY <2>2, <3>1 DEF Held, Elements
  <2> QED
    BY <1>4, <2>1, <2>2, <2>3 DEF PartitionTypeOK, ChooseMaster
<1>5. CASE Settled
  BY <1>5 DEF PartitionTypeOK, Settled
<1>6. CASE UNCHANGED partition
  BY <1>6 DEF PartitionTypeOK, partition
<1> QED
  BY <1>1, <1>2, <1>3, <1>4, <1>5, <1>6 DEF PartitionNext

(* The types and the invariant hold when nothing is placed.                   *)
LEMMA TypeInit == Init => PartitionTypeOK
<1> SUFFICES ASSUME Init PROVE PartitionTypeOK
  OBVIOUS
<1>1. events \in Seq(Edge)
  BY DEF Init
<1> QED
  BY <1>1 DEF Init, PartitionTypeOK

(* speed_partition: parts, owners and masters are parts of the partition in   *)
(* every state, for every graph.                                              *)
THEOREM PartitionTypeCorrect == PartitionSpec => []PartitionTypeOK
<1> QED
  BY TypeInit, TypeStep, PTL DEF PartitionSpec
-----------------------------------------------------------------------------
(* What hot and cold mean does not change with a step.                        *)
LEMMA ColdStays ==
    ASSUME UNCHANGED <<events, hot_node_ids>>
    PROVE  /\ \A n : IsHot(n)' <=> IsHot(n)
           /\ \A e : Ends(e)' = Ends(e) /\ Cold(e)' = Cold(e)
<1>1. \A n : IsHot(n)' <=> IsHot(n)
  BY DEF IsHot
<1>2. \A e : Ends(e)' = Ends(e)
  BY DEF Ends
<1> QED
  BY <1>1, <1>2 DEF Cold

(* perform_step: where the candidates of an edge come from.                   *)
LEMMA CandidatesOfCold ==
    ASSUME IInv, NEW e \in DOMAIN events, Cold(e) # {},
           NEW part \in Part,
           \A n \in Cold(e) : node_parts[n] # <<>> /\ node_parts[n][1] = part
    PROVE  Candidates(e) = {part}
<1>1. Cold(e) \subseteq Node
  BY EndsAreNodes DEF IInv
<1>2. \A n \in Cold(e) : Held(n) = {part}
  <2> SUFFICES ASSUME NEW n \in Cold(e)
               PROVE  Held(n) = {part}
    OBVIOUS
  <2>1. node_parts[n] \in Seq(Part) /\ Len(node_parts[n]) <= 1
    BY <1>1 DEF IInv, PartitionTypeOK, Placed, Cold
  <2>2. Len(node_parts[n]) = 1
    <3>1. node_parts[n] # <<>>
      OBVIOUS
    <3>2. 1 \in DOMAIN node_parts[n]
      BY <2>1, <3>1
    <3> DEFINE k == Len(node_parts[n])
    <3>3. k \in Nat /\ k >= 1 /\ k <= 1
      BY <2>1, <3>2
    <3> HIDE DEF k
    <3>4. k = 1
      BY <3>3
    <3> QED
      BY <3>4 DEF k
  <2>3. DOMAIN node_parts[n] = {1}
    BY <2>1, <2>2
  <2> QED
    BY <2>3 DEF Held, Elements
<1> QED
  BY <1>2 DEF Candidates, Cold, Ends

(* An edge placed on a part: what was settled of earlier edges stays, and the *)
(* new edge is where its cold ends are.                                       *)
LEMMA PlaceEdgeKeeps ==
    ASSUME IInv, NEW part \in Part, PlaceEdge(part)
    PROVE  Placed'
<1> DEFINE new == Len(edge_owner) + 1
<1>1. /\ edge_owner \in Seq(Part \cup {-1}) /\ events \in Seq(Edge)
      /\ dropped_edges \subseteq DOMAIN edge_owner
      /\ Len(edge_owner) <= Len(events)
  BY DEF IInv, PartitionTypeOK
<1>2. /\ DOMAIN edge_owner' = DOMAIN edge_owner \cup {new}
      /\ new \notin DOMAIN edge_owner
      /\ edge_owner'[new] = part
      /\ \A e \in DOMAIN edge_owner : edge_owner'[e] = edge_owner[e]
      /\ dropped_edges' = dropped_edges
      /\ new \in DOMAIN events
      /\ DOMAIN edge_owner \subseteq DOMAIN events
  BY <1>1 DEF PlaceEdge
<1>3. /\ \A n : IsHot(n)' <=> IsHot(n)
      /\ \A e : Ends(e)' = Ends(e) /\ Cold(e)' = Cold(e)
  BY ColdStays DEF PlaceEdge
<1>4. \A n \in Node : ~IsHot(n) =>
          node_parts'[n] = IF node_parts[n] = <<>> /\ n \in Ends(new) THEN <<part>>
                           ELSE node_parts[n]
  BY ColdKeepsItsPart DEF IInv, Placed
<1>5. \A n \in Node : node_parts[n] \in Seq(Part) /\ (~IsHot(n) => Len(node_parts[n]) <= 1)
  BY DEF IInv, PartitionTypeOK, Placed
<1>6. \A e \in DOMAIN events : Cold(e) \subseteq Node /\ \A n \in Cold(e) : ~IsHot(n) /\ n \in Ends(e)
  BY EndsAreNodes DEF IInv, Cold
<1>7. \A n \in Node : ~IsHot(n) => Len(node_parts'[n]) <= 1
  <2> SUFFICES ASSUME NEW n \in Node, ~IsHot(n)
               PROVE  Len(node_parts'[n]) <= 1
    OBVIOUS
  <2>1. CASE node_parts'[n] = <<part>>
    BY <2>1
  <2>2. CASE node_parts'[n] = node_parts[n]
    BY <1>5, <2>2
  <2> QED
    BY <1>4, <2>1, <2>2
<1>8. ASSUME NEW e \in (DOMAIN edge_owner) \ dropped_edges
      PROVE  /\ edge_owner'[e] \in Part
             /\ \A n \in Cold(e) : Len(node_parts'[n]) = 1
             /\ \A q \in Part :
                   Cold(e) # {} /\ (\A n \in Cold(e) : node_parts'[n][1] = q)
                       => edge_owner'[e] = q
  <2>1. \A n \in Cold(e) : Len(node_parts[n]) = 1
    BY DEF IInv, Placed
  <2>2. \A n \in Cold(e) : node_parts'[n] = node_parts[n]
    BY <1>2, <1>4, <1>6, <2>1
  <2> QED
    BY <1>2, <2>1, <2>2 DEF IInv, Placed
<1>9. /\ \A n \in Cold(new) : Len(node_parts'[n]) = 1
      /\ \A q \in Part :
            Cold(new) # {} /\ (\A n \in Cold(new) : node_parts'[n][1] = q) => part = q
  <2>1. ASSUME NEW n \in Cold(new)
        PROVE  /\ Len(node_parts'[n]) = 1
               /\ node_parts[n] = <<>> => node_parts'[n][1] = part
               /\ node_parts[n] # <<>> => node_parts'[n][1] = node_parts[n][1]
    <3>1. n \in Node /\ ~IsHot(n) /\ n \in Ends(new)
      BY <1>2, <1>6
    <3>2. CASE node_parts[n] = <<>>
      BY <1>4, <3>1, <3>2
    <3>3. CASE node_parts[n] # <<>>
      BY <1>4, <1>5, <3>1, <3>3
    <3> QED
      BY <3>2, <3>3
  <2>2. ASSUME NEW q \in Part, Cold(new) # {}, \A n \in Cold(new) : node_parts'[n][1] = q
        PROVE  part = q
    <3>1. CASE \E n \in Cold(new) : node_parts[n] = <<>>
      BY <2>1, <2>2, <3>1
    <3>2. CASE \A n \in Cold(new) : node_parts[n] # <<>>
      <4>1. Candidates(new) = {q}
        BY <1>2, <2>1, <2>2, <3>2, CandidatesOfCold
      <4> QED
        BY <4>1 DEF PlaceEdge
    <3> QED
      BY <3>1, <3>2
  <2> QED
    BY <2>1, <2>2
<1> QED
  BY <1>2, <1>3, <1>7, <1>8, <1>9 DEF Placed

(* Masters are settled: no edge that was placed moves, and a node that is not *)
(* hot waits for nothing.                                                     *)
LEMMA SettleMastersKeeps ==
    ASSUME IInv, SettleMasters
    PROVE  Placed' /\ Mastered'
<1>1. edge_owner \in Seq(Part \cup {-1})
  BY DEF IInv, PartitionTypeOK
<1>2. /\ \A n : IsHot(n)' <=> IsHot(n)
      /\ \A e : Cold(e)' = Cold(e)
  BY ColdStays DEF SettleMasters
<1>3. \A e \in (DOMAIN edge_owner) \ dropped_edges : edge_owner'[e] = edge_owner[e]
  BY DEF IInv, Placed, SettleMasters, Part
<1>4. Placed'
  BY <1>1, <1>2, <1>3 DEF IInv, Placed, SettleMasters
<1>5. \A n \in Node : ~IsHot(n) => n \notin Replicas
  BY DEF IInv, Placed, PartitionTypeOK, Replicas
<1>6. \A n \in Node : FirstPart(n)' = FirstPart(n)
  BY DEF FirstPart, SettleMasters
<1>7. Len(edge_owner') = Len(edge_owner)
  BY <1>1, TypeStep DEF SettleMasters
<1>8. Mastered'
  BY <1>2, <1>5, <1>6, <1>7 DEF Mastered, SettleMasters, Replicas
<1> QED
  BY <1>4, <1>8

(* The other steps leave the lists of parts alone.                            *)
LEMMA InvariantStep == IInv /\ [PartitionNext]_partition => IInv'
<1> SUFFICES ASSUME IInv, [PartitionNext]_partition
             PROVE  Placed' /\ Mastered'
  BY TypeStep DEF IInv
<1>1. ASSUME NEW part \in Part, PlaceEdge(part)
      PROVE  Placed' /\ Mastered'
  BY <1>1, PlaceEdgeKeeps DEF Mastered, PlaceEdge
<1>2. CASE DropEdge
  <2> DEFINE new == Len(edge_owner) + 1
  <2>1. edge_owner \in Seq(Part \cup {-1}) /\ dropped_edges \subseteq DOMAIN edge_owner
    BY DEF IInv, PartitionTypeOK
  <2>2. /\ (DOMAIN edge_owner') \ dropped_edges' = (DOMAIN edge_owner) \ dropped_edges
        /\ \A e \in DOMAIN edge_owner : edge_owner'[e] = edge_owner[e]
    BY <1>2, <2>1 DEF DropEdge
  <2>3. \A n : IsHot(n)' <=> IsHot(n)
    BY <1>2, ColdStays DEF DropEdge
  <2>4. \A e : Cold(e)' = Cold(e)
    BY <1>2, ColdStays DEF DropEdge
  <2>5. Placed'
    BY <1>2, <2>2, <2>3, <2>4 DEF IInv, Placed, DropEdge
  <2> QED
    BY <1>2, <2>5 DEF Mastered, DropEdge
<1>3. CASE SettleMasters
  BY <1>3, SettleMastersKeeps
<1>4. CASE ChooseMaster
  <2>1. PICK n \in Node : /\ n \in replica_nodes
                          /\ \A m \in Node : m # n => node_master'[m] = node_master[m]
                          /\ replica_nodes' = replica_nodes \ {n}
    BY <1>4 DEF ChooseMaster, NextReplica, IInv, PartitionTypeOK
  <2>2. \A m : IsHot(m)' <=> IsHot(m)
    BY <1>4, ColdStays DEF ChooseMaster
  <2>3. \A e : Cold(e)' = Cold(e)
    BY <1>4, ColdStays DEF ChooseMaster
  <2>4. Placed'
    BY <1>4, <2>2, <2>3 DEF IInv, Placed, ChooseMaster
  <2>5. \A m \in Node : FirstPart(m)' = FirstPart(m)
    BY <1>4 DEF FirstPart, ChooseMaster
  <2>6. pc # "edges" /\ IsHot(n)
    BY <1>4, <2>1 DEF IInv, Mastered, ChooseMaster
  <2>7. Mastered'
    BY <1>4, <2>1, <2>2, <2>5, <2>6 DEF IInv, Mastered, ChooseMaster
  <2> QED
    BY <2>4, <2>7
<1>5. CASE Settled
  <2>1. \A m : IsHot(m)' <=> IsHot(m)
    BY <1>5, ColdStays DEF Settled
  <2>2. \A e : Cold(e)' = Cold(e)
    BY <1>5, ColdStays DEF Settled
  <2>3. Placed'
    BY <1>5, <2>1, <2>2 DEF IInv, Placed, Settled
  <2>4. \A m \in Node : FirstPart(m)' = FirstPart(m)
    BY <1>5 DEF FirstPart, Settled
  <2>5. Mastered'
    BY <1>5, <2>1, <2>4 DEF IInv, Mastered, Settled
  <2> QED
    BY <2>3, <2>5
<1>6. CASE UNCHANGED partition
  <2>1. Placed'
    BY <1>6 DEF IInv, Placed, partition, IsHot, Cold, Ends
  <2>2. Mastered'
    BY <1>6 DEF IInv, Mastered, partition, IsHot, FirstPart
  <2> QED
    BY <2>1, <2>2
<1> QED
  BY <1>1, <1>2, <1>3, <1>4, <1>5, <1>6 DEF PartitionNext

LEMMA InvariantInit == Init => IInv
<1> SUFFICES ASSUME Init PROVE IInv
  OBVIOUS
<1>1. PartitionTypeOK
  BY TypeInit
<1>2. \A n \in Node : Len(node_parts[n]) <= 1
  BY DEF Init
<1>3. DOMAIN edge_owner = {}
  BY DEF Init
<1>4. Placed
  BY <1>2, <1>3 DEF Placed
<1>5. Mastered
  BY DEF Init, Mastered
<1> QED
  BY <1>1, <1>4, <1>5 DEF IInv

(* When all masters are chosen, a node that is not hot lies on no part but    *)
(* its master, and an edge is where the master of its cold ends is.           *)
LEMMA InvariantEnds == IInv => EdgesWithTheirNodes
<1> SUFFICES ASSUME IInv, pc = "done"
             PROVE  /\ \A n \in Node : ~IsHot(n) => Held(n) \subseteq {node_master[n]}
                    /\ \A e \in (DOMAIN events) \ dropped_edges, part \in Part :
                          Cold(e) # {} /\ (\A n \in Cold(e) : node_master[n] = part)
                              => edge_owner[e] = part
  BY DEF EdgesWithTheirNodes
<1>1. \A n \in Node : ~IsHot(n) => node_master[n] = FirstPart(n)
  BY DEF IInv, Mastered
<1>2. \A n \in Node : node_parts[n] \in Seq(Part)
  BY DEF IInv, PartitionTypeOK
<1>3. ASSUME NEW n \in Node, ~IsHot(n)
      PROVE  /\ Held(n) \subseteq {node_master[n]}
             /\ Len(node_parts[n]) = 1 => node_parts[n][1] = node_master[n]
  <2>1. Len(node_parts[n]) <= 1
    BY <1>3 DEF IInv, Placed
  <2>2. CASE node_parts[n] = <<>>
    BY <2>2 DEF Held, Elements
  <2>3. CASE node_parts[n] # <<>>
    <3>1. DOMAIN node_parts[n] = {1}
      BY <1>2, <2>1, <2>3
    <3>2. node_master[n] = node_parts[n][1]
      BY <1>1, <1>3, <2>3 DEF FirstPart
    <3> QED
      BY <3>1, <3>2 DEF Held, Elements
  <2> QED
    BY <2>2, <2>3
<1>4. ASSUME NEW e \in (DOMAIN events) \ dropped_edges, NEW part \in Part,
             Cold(e) # {}, \A n \in Cold(e) : node_master[n] = part
      PROVE  edge_owner[e] = part
  <2>1. e \in (DOMAIN edge_owner) \ dropped_edges
    <3>1. events \in Seq(Edge) /\ edge_owner \in Seq(Part \cup {-1})
      BY DEF IInv, PartitionTypeOK
    <3>2. Len(edge_owner) = Len(events)
      BY DEF IInv, Mastered
    <3> QED
      BY <1>4, <3>1, <3>2
  <2>2. \A n \in Cold(e) : n \in Node /\ ~IsHot(n)
    BY EndsAreNodes DEF IInv, Cold
  <2>3. \A n \in Cold(e) : Len(node_parts[n]) = 1
    BY <2>1 DEF IInv, Placed
  <2>4. \A n \in Cold(e) : node_parts[n][1] = part
    BY <1>3, <1>4, <2>2, <2>3
  <2> QED
    BY <1>4, <2>1, <2>4 DEF IInv, Placed
<1> QED
  BY <1>3, <1>4

(* speed_partition: cold nodes are never split over parts, and edges lie with *)
(* the masters of their cold ends, for every graph and every choice of parts. *)
THEOREM EdgesStayWithTheirNodes == PartitionSpec => []EdgesWithTheirNodes
<1> QED
  BY InvariantInit, InvariantStep, InvariantEnds, PTL DEF PartitionSpec
-----------------------------------------------------------------------------
(* The load of any set of nodes is a number, a node has at least weight 1 and *)
(* no part has more of its edges than that.                                   *)
Both == (1..Len(events)) \X (0..1)

LEMMA IncidentIsFinite ==
    ASSUME PartitionTypeOK
    PROVE  /\ IsFiniteSet(Both) /\ Cardinality(Both) \in Nat
           /\ \A n \in Node : /\ IsFiniteSet(Incident(events, n))
                             /\ Degree(events, n) \in 0..Cardinality(Both)
<1>1. events \in Seq(Edge)
  BY DEF PartitionTypeOK
<1>2. IsFiniteSet(Both) /\ Cardinality(Both) \in Nat
  <2>1. IsFiniteSet(1..Len(events))
    BY <1>1, FS_Interval
  <2>2. IsFiniteSet(0..1)
    <3>1. 0 \in Int /\ 1 \in Int
      OBVIOUS
    <3> QED
      BY <3>1, FS_Interval, Zenon
  <2>3. IsFiniteSet(Both)
    BY <2>1, <2>2, FS_Product DEF Both
  <2> QED
    BY <2>3, FS_CardinalityType
<1>3. ASSUME NEW n \in Node
      PROVE  /\ IsFiniteSet(Incident(events, n))
             /\ Degree(events, n) \in 0..Cardinality(Both)
  <2>1. Incident(events, n) \in SUBSET Both
    BY <1>1 DEF Incident, Both
  <2>2. /\ IsFiniteSet(Incident(events, n))
        /\ Cardinality(Incident(events, n)) <= Cardinality(Both)
    BY <1>2, <2>1, FS_Subset
  <2>3. Cardinality(Incident(events, n)) \in Nat
    BY <2>2, FS_CardinalityType
  <2> QED
    BY <1>2, <2>2, <2>3 DEF Degree
<1> QED
  BY <1>2, <1>3

LEMMA WeightAndAffinity ==
    ASSUME PartitionTypeOK, NEW n \in Node, NEW part \in Part
    PROVE  /\ Weight(n) \in Nat /\ Weight(n) >= 1
           /\ Affinity(n, part) \in Nat /\ Affinity(n, part) <= Weight(n)
<1>1. /\ IsFiniteSet(Incident(events, n))
      /\ Degree(events, n) \in Nat
  BY IncidentIsFinite, FS_CardinalityType DEF Degree
<1>2. Weight(n) \in Nat /\ Weight(n) >= 1 /\ Degree(events, n) <= Weight(n)
  BY <1>1 DEF Weight, AtLeastOne
<1> DEFINE There == {i \in Incident(events, n) : edge_owner[i[1]] = part}
<1>3. There \in SUBSET Incident(events, n)
  OBVIOUS
<1>4. IsFiniteSet(There) /\ Cardinality(There) <= Degree(events, n)
  BY <1>1, <1>3, FS_Subset DEF Degree
<1>5. Cardinality(There) \in Nat
  BY <1>4, FS_CardinalityType
<1> QED
  BY <1>1, <1>2, <1>4, <1>5 DEF Affinity

LEMMA LoadIsNumber ==
    ASSUME PartitionTypeOK, NEW S \in SUBSET Node
    PROVE  LoadOf(S) \in Nat
<1> DEFINE Most == Cardinality(Both) + 1
           Loads == UNION {{n} \X (1..Weight(n)) : n \in S}
<1>1. Most \in Nat /\ Most >= 1
  BY IncidentIsFinite
<1>2. ASSUME NEW n \in S
      PROVE  n \in Node /\ Weight(n) \in Nat /\ Weight(n) <= Most
  <2>1. Degree(events, n) \in 0..Cardinality(Both)
    BY IncidentIsFinite
  <2> QED
    BY <2>1, IncidentIsFinite DEF Weight, AtLeastOne
<1> HIDE DEF Most
<1>3. Loads \in SUBSET (Node \X (1..Most))
  <2>1. \A n \in S : {n} \X (1..Weight(n)) \subseteq Node \X (1..Most)
    BY <1>1, <1>2
  <2> QED
    BY <2>1
<1>4. IsFiniteSet(Node \X (1..Most))
  <2>1. IsFiniteSet(Node)
    BY FS_Interval DEF Node
  <2>2. IsFiniteSet(1..Most)
    BY <1>1, FS_Interval
  <2> QED
    BY <2>1, <2>2, FS_Product
<1>5. IsFiniteSet(Loads)
  BY <1>3, <1>4, FS_Subset
<1> QED
  BY <1>5, FS_CardinalityType DEF LoadOf

(* Products of naturals keep their order.                                     *)
LEMMA Scaled ==
    ASSUME NEW w \in Nat, NEW a \in Int, NEW b \in Int, a <= b
    PROVE  w * a <= w * b
<1>1. w * (b - a) >= 0
  OBVIOUS
<1>2. w * (b - a) = w * b - w * a
  OBVIOUS
<1> QED
  BY <1>1, <1>2

LEMMA ScoreIsNumber ==
    ASSUME NEW a \in Nat, NEW w \in Nat, NEW x \in Nat, NEW k \in Nat, NEW m \in Nat
    PROVE  a * m - w * x * k \in Int
  OBVIOUS

(* From the scores to the loads: affinity a of at most w for the part chosen, *)
(* c for another; x and y are their loads, k parts, m the total.              *)
LEMMA BetterMeansLighter ==
    ASSUME NEW a \in Nat, NEW c \in Nat, NEW w \in Nat, NEW x \in Nat, NEW y \in Nat,
           NEW k \in Nat, NEW m \in Nat,
           1 <= w, a <= w, c * m - w * y * k <= a * m - w * x * k
    PROVE  (x - y) * k <= m
<1> DEFINE z == (x - y) * k
<1>1. z \in Int
  OBVIOUS
<1>2. w * z = w * x * k - w * y * k
  OBVIOUS
<1>3. 0 <= c * m
  OBVIOUS
<1>4. a * m <= w * m
  <2>1. m * a <= m * w
    BY Scaled
  <2> QED
    BY <2>1
<1>5. /\ w * z \in Int /\ w * m \in Int /\ a * m \in Int /\ c * m \in Int
      /\ w * x * k \in Int /\ w * y * k \in Int
  BY <1>1
<1>6. w * z <= w * m
  BY <1>2, <1>3, <1>4, <1>5
<1> HIDE DEF z
<1>7. SUFFICES ASSUME ~(z <= m) PROVE FALSE
  BY DEF z
<1>8. w * (m + 1) <= w * z
  BY <1>1, <1>7, Scaled
<1>9. w * (m + 1) = w * m + w
  OBVIOUS
<1> QED
  BY <1>5, <1>6, <1>8, <1>9

(* A master is chosen among all parts, for none but hot nodes wait for one.   *)
LEMMA SpreadStep == IInv /\ [PartitionNext]_partition => SpreadsLoad
<1> DEFINE load(part) == LoadOf({m \in Node : node_master[m] = part})
           Total == IF LoadOf(Node) > NumParts THEN LoadOf(Node) ELSE NumParts
<1> SUFFICES ASSUME IInv, [PartitionNext]_partition, NEW n \in Node, NEW other \in Part,
                    pc = "masters", node_master[n] = -1, node_master'[n] # -1
             PROVE  (load(node_master'[n]) - load(other)) * NumParts <= Total
  BY DEF SpreadsLoad
<1> USE DEF IInv
<1>1. ChooseMaster
  BY DEF PartitionNext, PlaceEdge, DropEdge, SettleMasters, Settled, partition
<1>2. PICK m \in Node :
          /\ m \in replica_nodes
          /\ \E part \in (IF IsHot(m) THEN Part ELSE Held(m)) :
                /\ \A q \in (IF IsHot(m) THEN Part ELSE Held(m)) : Better(m, part, q)
                /\ node_master' = [node_master EXCEPT ![m] = part]
  BY <1>1 DEF ChooseMaster, NextReplica
<1>3. IsHot(m)
  BY <1>2 DEF Mastered
<1>4. PICK part \in Part :
          /\ Better(m, part, other)
          /\ node_master' = [node_master EXCEPT ![m] = part]
  BY <1>2, <1>3
<1>5. m = n /\ node_master'[n] = part
  BY <1>4 DEF PartitionTypeOK
<1>6. /\ load(part) \in Nat /\ load(other) \in Nat
      /\ Total \in Nat /\ NumParts \in Nat
  BY LoadIsNumber
<1>7. /\ MasterScore(n, part) = Affinity(n, part) * Total - Weight(n) * load(part) * NumParts
      /\ MasterScore(n, other) = Affinity(n, other) * Total - Weight(n) * load(other) * NumParts
  BY DEF MasterScore
<1>8. /\ Weight(n) \in Nat /\ 1 <= Weight(n)
      /\ Affinity(n, part) \in Nat /\ Affinity(n, part) <= Weight(n)
      /\ Affinity(n, other) \in Nat
  BY WeightAndAffinity
<1> HIDE DEF load, Total
<1>9. MasterScore(n, other) <= MasterScore(n, part)
  <2>1. MasterScore(n, other) \in Int
    <3>1. Affinity(n, other) * Total - Weight(n) * load(other) * NumParts \in Int
      BY <1>6, <1>8, ScoreIsNumber, Zenon
    <3> QED
      BY <1>7, <3>1, Zenon
  <2>2. MasterScore(n, part) \in Int
    <3>1. Affinity(n, part) * Total - Weight(n) * load(part) * NumParts \in Int
      BY <1>6, <1>8, ScoreIsNumber, Zenon
    <3> QED
      BY <1>7, <3>1, Zenon
  <2> QED
    BY <1>4, <1>5, <2>1, <2>2 DEF Better
<1>10. Affinity(n, other) * Total - Weight(n) * load(other) * NumParts
          <= Affinity(n, part) * Total - Weight(n) * load(part) * NumParts
  BY <1>7, <1>9
<1>11. (load(part) - load(other)) * NumParts <= Total
  BY <1>6, <1>8, <1>10, BetterMeansLighter, Zenon
<1> QED
  BY <1>5, <1>11

(* choose_balanced_node_master: masters of hot nodes do not pile up on a part *)
(* because their edges do, for every graph and number of parts.               *)
THEOREM MastersStaySpread == PartitionSpec => MastersSpread
<1>1. IInv /\ [PartitionNext]_partition => [SpreadsLoad]_partition
  BY SpreadStep
<1> QED
  BY <1>1, InvariantInit, InvariantStep, PTL DEF PartitionSpec, MastersSpread
-----------------------------------------------------------------------------
(* Sums over the hot and the cold, and the hottest.                           *)

(* Sums that may be of negative numbers.                                      *)
LEMMA SumIsNumber ==
    ASSUME NEW D, NEW f \in [D -> Int], NEW S \in SUBSET D, IsFiniteSet(S)
    PROVE  SumFunctionOnSet(f, S) \in Int
<1> DEFINE it == CHOOSE it : it = [T \in SUBSET S |-> SumSteps(f, it, T)]
           Bad == {Cardinality(T) : T \in {T \in SUBSET S : it[T] \notin Int}}
<1>1. it = [T \in SUBSET S |-> SumSteps(f, it, T)]
  BY SumExists
<1>2. SumFunctionOnSet(f, S) = it[S]
  BY Zenon DEF SumFunctionOnSet, FoldFunctionOnSet, MapThenFoldSet, SumSteps
<1> HIDE DEF it
<1>3. \A T \in SUBSET S : IsFiniteSet(T) /\ Cardinality(T) \in Nat
  BY FS_Subset, FS_CardinalityType
<1>4. ASSUME NEW T \in SUBSET S, it[T] \notin Int,
             \A U \in SUBSET S : it[U] \notin Int => Cardinality(T) <= Cardinality(U)
      PROVE  FALSE
  <2>1. it[T] = SumSteps(f, it, T)
    BY <1>1
  <2>2. CASE T = {}
    BY <1>4, <2>1, <2>2 DEF SumSteps
  <2>3. CASE T # {}
    <3> DEFINE x == CHOOSE x \in T : TRUE
    <3>1. /\ x \in T
          /\ Cardinality(T) \in Nat /\ Cardinality(T) # 0
          /\ Cardinality(T \ {x}) = Cardinality(T) - 1
      BY <1>3, <2>3, OneLess
    <3>2. it[T] = f[x] + it[T \ {x}]
      BY <2>1, <2>3 DEF SumSteps
    <3> HIDE DEF x
    <3>3. it[T \ {x}] \in Int
      <4>1. T \ {x} \in SUBSET S
        OBVIOUS
      <4>2. ~(Cardinality(T) <= Cardinality(T \ {x}))
        BY <3>1
      <4> QED
        BY <1>4, <4>1, <4>2
    <3>4. f[x] \in Int
      BY <3>1
    <3> QED
      BY <1>4, <3>2, <3>3, <3>4
  <2> QED
    BY <2>2, <2>3
<1>5. Bad = {}
  <2> SUFFICES ASSUME Bad # {} PROVE FALSE
    OBVIOUS
  <2>1. Bad \in SUBSET Nat
    BY <1>3
  <2>2. PICK c \in Bad : \A y \in Bad : c <= y
    BY <2>1, Least
  <2>3. PICK T \in SUBSET S : it[T] \notin Int /\ c = Cardinality(T)
    BY <2>2
  <2>4. \A U \in SUBSET S : it[U] \notin Int => Cardinality(T) <= Cardinality(U)
    BY <2>2, <2>3
  <2> QED
    BY <1>4, <2>3, <2>4
<1> QED
  BY <1>2, <1>5

NodesFinite == IsFiniteSet(Node) /\ Cardinality(Node) = NumNodes
LEMMA NodesAreFinite == NodesFinite
<1> DEFINE last == NumNodes - 1
<1>1. 0 \in Int /\ last \in Int /\ NumNodes \in Nat
  OBVIOUS
<1> HIDE DEF last
<1>2. IsFiniteSet(0..last) /\ Cardinality(0..last) = IF 0 > last THEN 0 ELSE last - 0 + 1
  BY <1>1, FS_Interval, Zenon
<1>3. last = NumNodes - 1
  BY DEF last
<1>4. Cardinality(0..last) = NumNodes
  BY <1>1, <1>2, <1>3
<1> QED
  BY <1>2, <1>4 DEF NodesFinite, Node, last

HotOrder(list, by) == {p \in Node \X Node : HotterThan(list, by, p[1], p[2])}

(* The nodes are ordered by how hot they are, ties by their ids.              *)
LEMMA HotOrderIsStrict ==
    ASSUME NEW list \in Seq(Edge), NEW by
    PROVE  /\ IsStrictOrder(Node, HotOrder(list, by))
           /\ \A n \in Node : {m \in Node : HotterThan(list, by, m, n)} = Below(Node, HotOrder(list, by), n)
<1> DEFINE R == HotOrder(list, by)
           weight(n) == IF by = "importance" THEN Importance(list, n) ELSE 0
           degree(n) == Degree(list, n)
           hotter(a, b) == \/ weight(a) > weight(b)
                           \/ /\ weight(a) = weight(b)
                              /\ \/ degree(a) > degree(b)
                                 \/ degree(a) = degree(b) /\ a < b
<1>1. ASSUME NEW n \in Node PROVE weight(n) \in Int /\ degree(n) \in Nat
  <2> DEFINE S == Incident(list, n)
             pairs == (DOMAIN list) \X (0..1)
             f == [i \in S |-> list[i[1]].ts]
  <2>1. IsFiniteSet(DOMAIN list) /\ IsFiniteSet(0..1)
    <3>1. Len(list) \in Nat /\ DOMAIN list = 1..Len(list)
      OBVIOUS
    <3>2. IsFiniteSet(1..Len(list))
      BY <3>1, FS_Interval
    <3>3. IsFiniteSet(0..1)
      <4>1. 0 \in Int /\ 1 \in Int
        OBVIOUS
      <4> QED
        BY <4>1, FS_Interval, Zenon
    <3> QED
      BY <3>1, <3>2, <3>3
  <2>2. IsFiniteSet(pairs)
    BY <2>1, FS_Product
  <2>3. S \subseteq pairs
    BY DEF Incident
  <2>4. IsFiniteSet(S) /\ Cardinality(S) \in Nat
    BY <2>2, <2>3, FS_Subset, FS_CardinalityType
  <2>5. \A i \in S : list[i[1]].ts \in Int
    <3>1. \A e \in DOMAIN list : list[e] \in Edge
      OBVIOUS
    <3>2. \A e \in Edge : e.ts \in Int
      BY DEF Edge
    <3>3. \A i \in S : i[1] \in DOMAIN list
      BY <2>3
    <3> QED
      BY <3>1, <3>2, <3>3
  <2>6. f \in [S -> Int]
    BY <2>5
  <2>7. S \in SUBSET S
    OBVIOUS
  <2> HIDE DEF S, f
  <2>8. SumFunctionOnSet(f, S) \in Int
    BY <2>4, <2>6, <2>7, SumIsNumber
  <2> QED
    BY <2>4, <2>8 DEF Importance, Degree, S, f
<1>2. \A a, b \in Node : HotterThan(list, by, a, b) <=> hotter(a, b)
  BY DEF HotterThan
<1> HIDE DEF weight, degree
<1>3. \A a, b \in Node : <<a, b>> \in R <=> hotter(a, b)
  BY <1>2 DEF HotOrder
<1>4. Node \subseteq Int
  BY DEF Node
<1> HIDE DEF R
<1>5. \A x \in Node : <<x, x>> \notin R
  BY <1>1, <1>3, <1>4
<1>6. ASSUME NEW x \in Node, NEW y \in Node, NEW z \in Node, <<x, y>> \in R, <<y, z>> \in R
      PROVE  <<x, z>> \in R
  <2>1. hotter(x, y) /\ hotter(y, z)
    BY <1>3, <1>6
  <2>2. /\ weight(x) \in Int /\ weight(y) \in Int /\ weight(z) \in Int
        /\ degree(x) \in Int /\ degree(y) \in Int /\ degree(z) \in Int
        /\ x \in Int /\ y \in Int /\ z \in Int
    BY <1>1, <1>4
  <2>3. hotter(x, z)
    BY <2>1, <2>2
  <2> QED
    BY <1>3, <2>3
<1>7. ASSUME NEW x \in Node, NEW y \in Node, x # y PROVE <<x, y>> \in R \/ <<y, x>> \in R
  <2>1. /\ weight(x) \in Int /\ weight(y) \in Int /\ degree(x) \in Int /\ degree(y) \in Int
        /\ x \in Int /\ y \in Int
    BY <1>1, <1>4
  <2>2. hotter(x, y) \/ hotter(y, x)
    BY <1>7, <2>1
  <2> QED
    BY <1>3, <2>2
<1>8. IsStrictOrder(Node, R)
  BY <1>5, <1>6, <1>7 DEF IsStrictOrder
<1>9. \A n \in Node : {m \in Node : HotterThan(list, by, m, n)} = Below(Node, R, n)
  BY <1>2, <1>3 DEF Below
<1> QED
  BY <1>8, <1>9 DEF R

Distinct(s) == \A i, j \in DOMAIN s : s[i] = s[j] => i = j

(* The list of hot nodes names nodes, none twice.                             *)
LEMMA HottestAreDistinct ==
    ASSUME NEW list \in Seq(Edge), NEW by, NEW topk \in 0..NumNodes
    PROVE  Hottest(list, by, topk) \in Seq(Node) /\ Distinct(Hottest(list, by, topk))
<1> DEFINE R == HotOrder(list, by)
           count(n) == Cardinality({m \in Node : HotterThan(list, by, m, n)})
           h == Hottest(list, by, topk)
<1>1. IsStrictOrder(Node, R) /\ \A n \in Node : count(n) = Cardinality(Below(Node, R, n))
  BY HotOrderIsStrict
<1>2. Numbered(Node, R)
  BY <1>1, NodesAreFinite, Ranking DEF NodesFinite
<1>3. ASSUME NEW k \in 1..topk PROVE \E n \in Node : count(n) = k - 1
  <2>1. k - 1 \in 0..(Cardinality(Node) - 1)
    <3>1. Cardinality(Node) = NumNodes /\ k \in 1..NumNodes
      BY NodesAreFinite DEF NodesFinite
    <3> QED
      BY <3>1
  <2>2. \E n \in Node : Cardinality(Below(Node, R, n)) = k - 1
    BY <1>2, <2>1 DEF Numbered
  <2> QED
    BY <1>1, <2>2
<1>4. h = [k \in 1..topk |-> CHOOSE n \in Node : count(n) = k - 1]
  BY DEF Hottest
<1> HIDE DEF count, h
<1>5. \A k \in 1..topk : h[k] \in Node /\ count(h[k]) = k - 1
  BY <1>3, <1>4
<1>6. topk \in Nat /\ h \in [1..topk -> Node]
  BY <1>4, <1>5
<1>7. h \in Seq(Node) /\ DOMAIN h = 1..topk
  BY <1>6, ListOf
<1>8. Distinct(h)
  <2>1. ASSUME NEW i \in 1..topk, NEW j \in 1..topk, h[i] = h[j] PROVE i = j
    BY <1>5, <2>1
  <2> QED
    BY <1>7, <2>1 DEF Distinct
<1> QED
  BY <1>7, <1>8 DEF h
-----------------------------------------------------------------------------
(* The stages of preparation: what is fixed once a stage is reached.          *)

PlanInv ==
    /\ PartitionTypeOK
    /\ hot_node_ids \in Seq(Node) /\ Distinct(hot_node_ids)
    /\ pc # "edges" =>
          /\ Len(edge_owner) = Len(events)
          /\ \A e \in DOMAIN events : edge_owner[e] \in Part
          /\ \A n \in Node \ replica_nodes : node_master[n] \in Part
    /\ pc = "done" => replica_nodes = {}

(* The plan keeps its types, and its list of hot nodes, through every step.   *)
LEMMA PlanInvInit == PlanInit => PlanInv
<1> SUFFICES ASSUME PlanInit PROVE PlanInv
  OBVIOUS
<1>1. CASE Init
  <2>1. PICK by \in TopkTypes, topk \in Topks : hot_node_ids = Hottest(events, by, topk)
    BY <1>1 DEF Init
  <2>2. events \in Seq(Edge) /\ topk \in 0..NumNodes
    BY <1>1, PrepareAssumption DEF Init
  <2>3. hot_node_ids \in Seq(Node) /\ Distinct(hot_node_ids)
    BY <2>1, <2>2, HottestAreDistinct
  <2> QED
    BY <1>1, <2>3, TypeInit DEF PlanInv, Init
<1>2. CASE RoundRobin
  <2>1. events \in Seq(Edge) /\ events \in Graphs
    BY <1>2 DEF RoundRobin
  <2>2. \A n \in Node : node_master[n] \in Part
    <3>1. \A n \in Node : n \in Int /\ NumParts \in Nat \ {0}
      BY DEF Node
    <3>2. \A n \in Node : n % NumParts \in 0..(NumParts - 1)
      BY <3>1
    <3> QED
      BY <1>2, <3>2 DEF RoundRobin, Part
  <2>3. \A e \in DOMAIN events : events[e].dst \in Node
    <3>1. \A e \in DOMAIN events : events[e] \in Edge
      BY <2>1
    <3> QED
      BY <3>1 DEF Edge
  <2>4. Len(events) \in Nat /\ DOMAIN events = 1..Len(events)
    BY <2>1
  <2>5. edge_owner \in [1..Len(events) -> Part]
    BY <1>2, <2>2, <2>3, <2>4 DEF RoundRobin
  <2>6. edge_owner \in Seq(Part \cup {-1}) /\ Len(edge_owner) = Len(events)
    <3>1. edge_owner \in [1..Len(events) -> Part \cup {-1}]
      BY <2>5
    <3> QED
      BY <2>4, <3>1, ListOf
  <2>7. node_master \in [Node -> Part \cup {-1}] /\ node_parts \in [Node -> Seq(Part)]
    BY <1>2, <2>2 DEF RoundRobin
  <2>8. hot_node_ids \in Seq(Node) /\ Distinct(hot_node_ids)
    BY <1>2 DEF RoundRobin, Distinct
  <2>9. PartitionTypeOK
    BY <1>2, <2>1, <2>4, <2>6, <2>7 DEF PartitionTypeOK, RoundRobin
  <2> QED
    BY <1>2, <2>2, <2>4, <2>5, <2>6, <2>8, <2>9 DEF PlanInv, RoundRobin
<1> QED
  BY <1>1, <1>2 DEF PlanInit

LEMMA PlanInvStep == PlanInv /\ [PartitionNext]_partition => PlanInv'
<1> SUFFICES ASSUME PlanInv, [PartitionNext]_partition PROVE PlanInv'
  OBVIOUS
<1>0. PartitionTypeOK /\ PartitionTypeOK'
  BY TypeStep DEF PlanInv
<1>1. ASSUME UNCHANGED hot_node_ids PROVE hot_node_ids' \in Seq(Node) /\ Distinct(hot_node_ids)'
  BY <1>1 DEF PlanInv, Distinct
<1>2. ASSUME NEW part \in Part, PlaceEdge(part) PROVE PlanInv'
  BY <1>0, <1>1, <1>2 DEF PlanInv, PlaceEdge
<1>3. CASE DropEdge
  BY <1>0, <1>1, <1>3 DEF PlanInv, DropEdge
<1>4. CASE SettleMasters
  <2>1. events \in Seq(Edge) /\ edge_owner \in Seq(Part \cup {-1}) /\ Len(edge_owner) = Len(events)
    BY <1>0, <1>4 DEF PartitionTypeOK, SettleMasters
  <2>2. DOMAIN edge_owner = DOMAIN events /\ DOMAIN events = 1..Len(events) /\ Len(events) \in Nat
    BY <2>1
  <2>3. \A e \in DOMAIN events : events[e].dst \in Node /\ (edge_owner[e] \in Part \/ edge_owner[e] = -1)
    <3>1. \A e \in DOMAIN events : events[e] \in Edge
      BY <2>1
    <3> QED
      BY <2>1, <2>2, <3>1 DEF Edge
  <2>4. \A n \in Node : FirstPart(n) \in Part
    BY <1>0, FirstPartIsPart
  <2>5. \A e \in DOMAIN events : edge_owner'[e] \in Part
    BY <1>4, <2>2, <2>3, <2>4 DEF SettleMasters, Part
  <2>6. Len(edge_owner') = Len(events')
    <3>1. edge_owner' \in [1..Len(events) -> Part]
      BY <1>4, <2>2, <2>5 DEF SettleMasters
    <3> QED
      BY <1>4, <2>2, <3>1, ListOf DEF SettleMasters
  <2>7. \A n \in Node \ replica_nodes' : node_master'[n] \in Part
    BY <1>4, <2>4 DEF SettleMasters
  <2> QED
    BY <1>0, <1>1, <1>4, <2>5, <2>6, <2>7 DEF PlanInv, SettleMasters
<1>5. CASE ChooseMaster
  <2>1. PICK n \in Node :
          /\ \E part \in (IF IsHot(n) THEN Part ELSE Held(n)) :
                node_master' = [node_master EXCEPT ![n] = part]
          /\ replica_nodes' = replica_nodes \ {n}
    BY <1>5 DEF ChooseMaster
  <2>2. PICK part \in (IF IsHot(n) THEN Part ELSE Held(n)) :
          node_master' = [node_master EXCEPT ![n] = part]
    BY <2>1
  <2>3. part \in Part
    <3>1. node_parts[n] \in Seq(Part)
      BY <1>0 DEF PartitionTypeOK
    <3> QED
      BY <2>2, <3>1 DEF Held, Elements
  <2>4. \A m \in Node \ replica_nodes' : node_master'[m] \in Part
    BY <1>0, <1>5, <2>1, <2>2, <2>3 DEF PlanInv, PartitionTypeOK, ChooseMaster
  <2> QED
    BY <1>0, <1>1, <1>5, <2>4 DEF PlanInv, ChooseMaster
<1>6. CASE Settled
  BY <1>0, <1>1, <1>6 DEF PlanInv, Settled
<1>7. CASE UNCHANGED partition
  BY <1>0, <1>1, <1>7 DEF PlanInv, partition
<1> QED
  BY <1>2, <1>3, <1>4, <1>5, <1>6, <1>7 DEF PartitionNext

(* Whether a configuration applies depends on the graph alone.                *)
LEMMA DividedStays ==
    ASSUME UNCHANGED events
    PROVE  \A w, c : /\ Divided(w, c)' = Divided(w, c)
                     /\ Applies(w)' <=> Applies(w)
<1>1. Times' = Times
  BY DEF Times
<1> QED
  BY <1>1 DEF Divided, Applies

Chosen ==
    stage # "plan" =>
        /\ node_to_chunk # <<>>
        /\ way \in Ways /\ cut \in Cuts
        /\ Applies(way)
        /\ split = Divided(way, cut)

Staged ==
    /\ stage \in {"plan", "events", "snapshots", "tasks", "prepared"}
    /\ node_to_chunk # <<>> => pc = "done"
    /\ stage \in {"plan", "events"} => event_views = <<>> /\ snapshot_csc_views = <<>>
    /\ stage \in {"plan", "events", "snapshots"} => node_shards = <<>> /\ edge_shards = <<>>

StageInv == PlanInv /\ Chosen /\ Staged

(* The stages are entered in their order, each with what the ones before      *)
(* built.                                                                     *)
LEMMA StageInvInit == PrepareInit => StageInv
BY PlanInvInit DEF PrepareInit, PlanInit, StageInv, Chosen, Staged

(* Once the nodes are in chunks the partition does not change.                *)
LEMMA PlanEnds == pc = "done" => ~PartitionNext
BY DEF PartitionNext, PlaceEdge, DropEdge, SettleMasters, ChooseMaster, Settled

LEMMA StageInvStep == StageInv /\ [PrepareNext]_prepared => StageInv'
<1> SUFFICES ASSUME StageInv, [PrepareNext]_prepared PROVE StageInv'
  OBVIOUS
<1>1. CASE Plan
  <2>1. PlanInv'
    BY <1>1, PlanInvStep DEF Plan, StageInv
  <2>2. pc # "done" /\ node_to_chunk = <<>> /\ stage = "plan"
    BY <1>1, PlanEnds DEF Plan, StageInv, Staged, Chosen
  <2>3. node_to_chunk' = <<>> /\ UNCHANGED built
    BY <1>1, <2>2 DEF Plan, planned
  <2>4. Chosen'
    BY <2>2, <2>3 DEF Chosen, built
  <2>5. Staged'
    BY <2>2, <2>3 DEF StageInv, Staged, built
  <2> QED
    BY <2>1, <2>4, <2>5 DEF StageInv
<1>2. CASE PlanChunks
  <2>1. UNCHANGED partition /\ node_to_chunk = <<>> /\ pc = "done" /\ UNCHANGED built
    BY <1>2 DEF PlanChunks, AssignChunks
  <2>2. PlanInv'
    BY <2>1, PlanInvStep DEF StageInv
  <2>3. stage = "plan"
    BY <2>1 DEF StageInv, Chosen
  <2>4. Chosen'
    BY <2>1, <2>3 DEF Chosen, built
  <2>5. Staged'
    BY <2>1, <2>3 DEF StageInv, Staged, built, partition
  <2> QED
    BY <2>2, <2>4, <2>5 DEF StageInv
<1>3. CASE ResolveSplits
  <2>1. UNCHANGED <<partition, planned>>
    BY <1>3 DEF ResolveSplits
  <2>2. PlanInv'
    BY <2>1, PlanInvStep DEF StageInv
  <2>3. events' = events
    BY <2>1 DEF partition
  <2>4. Divided(way, cut)' = Divided(way', cut') /\ (Applies(way)' <=> Applies(way'))
    BY <2>3 DEF Divided, Applies, Times
  <2>5. Chosen'
    BY <1>3, <2>1, <2>4 DEF Chosen, ResolveSplits, planned
  <2>6. Staged'
    BY <1>3, <2>1 DEF StageInv, Staged, ResolveSplits, partition, planned
  <2> QED
    BY <2>2, <2>5, <2>6 DEF StageInv
<1>4. CASE /\ UNCHANGED <<partition, planned, way, cut, split>>
           /\ BuildEventViews \/ BuildSnapshot \/ BuildFeatureShards \/ BuildTaskShards \/ UNCHANGED stage
           /\ Staged'
  <2>1. PlanInv'
    BY <1>4, PlanInvStep DEF StageInv
  <2>2. events' = events
    BY <1>4 DEF partition
  <2>3. Divided(way, cut)' = Divided(way, cut) /\ (Applies(way)' <=> Applies(way))
    BY <1>4, <2>2 DEF Divided, Applies, Times
  <2>4. stage' # "plan" => stage # "plan"
    BY <1>4 DEF BuildEventViews, BuildSnapshot, BuildFeatureShards, BuildTaskShards
  <2>5. Chosen'
    BY <1>4, <2>3, <2>4 DEF StageInv, Chosen, planned
  <2> QED
    BY <1>4, <2>1, <2>5 DEF StageInv
<1>5. CASE BuildEventViews
  <2>1. Staged'
    BY <1>5 DEF StageInv, Staged, BuildEventViews, partition, planned
  <2> QED
    BY <1>4, <1>5, <2>1 DEF BuildEventViews
<1>6. CASE BuildSnapshot
  <2>1. Staged'
    BY <1>6 DEF StageInv, Staged, BuildSnapshot, partition, planned
  <2> QED
    BY <1>4, <1>6, <2>1 DEF BuildSnapshot
<1>7. CASE BuildFeatureShards
  <2>1. Staged'
    BY <1>7 DEF StageInv, Staged, BuildFeatureShards, partition, planned
  <2> QED
    BY <1>4, <1>7, <2>1 DEF BuildFeatureShards
<1>8. CASE BuildTaskShards
  <2>1. Staged'
    BY <1>8 DEF StageInv, Staged, BuildTaskShards, partition, planned
  <2> QED
    BY <1>4, <1>8, <2>1 DEF BuildTaskShards
<1>9. CASE UNCHANGED prepared
  <2>1. Staged'
    BY <1>9 DEF StageInv, Staged, prepared, partition, planned, built
  <2> QED
    BY <1>4, <1>9, <2>1 DEF prepared, built
<1> QED
  BY <1>1, <1>2, <1>3, <1>5, <1>6, <1>7, <1>8, <1>9 DEF PrepareNext

N == Len(events)

(* Events come in the order of their times.                                   *)
LEMMA TimesOrdered ==
    ASSUME StageInv
    PROVE  /\ events \in Seq(Edge) /\ N \in Nat /\ DOMAIN events = 1..N
           /\ Times \in [1..N -> Int] /\ Ordered(Times, N)
           /\ \A e \in 1..N : Times[e] = events[e].ts
<1>1. events \in Seq(Edge) /\ events \in Graphs
  BY DEF StageInv, PlanInv, PartitionTypeOK
<1>2. N \in Nat /\ DOMAIN events = 1..N
  BY <1>1 DEF N
<1>3. \A e \in 1..N : events[e].ts \in Int
  <2>1. \A e \in 1..N : events[e] \in Edge
    BY <1>1, <1>2
  <2> QED
    BY <2>1 DEF Edge
<1>4. Times = [e \in 1..N |-> events[e].ts]
  BY <1>2 DEF Times
<1>5. Times \in [1..N -> Int]
  BY <1>3, <1>4
<1>6. \A i, j \in 1..N : i < j => events[i].ts <= events[j].ts
  BY <1>1, <1>2, PrepareAssumption
<1> QED
  BY <1>1, <1>2, <1>4, <1>5, <1>6 DEF Ordered

(* The windows of every configuration tile the list of events.                *)
LEMMA SplitsTile ==
    ASSUME StageInv, stage # "plan", way.by # "windows"
    PROVE  /\ Tiled(Windows, 0, N)
           /\ way.by = "ratios" =>
                 LET r == FromRatios(Times, way.first, way.second)
                 IN  /\ Apart(Times, N, r.train.end) /\ Apart(Times, N, r.val.end)
                     /\ way.first > 0 => r.train.end > 0
                     /\ way.first \in 1..(N - 1) /\ Times[way.first] = Times[way.first + 1]
                            /\ Times[1] # Times[N] => r.train.end < N
                     /\ cut.by = "adaptive_batch" => \A k \in DOMAIN split.train : Apart(Times, N, split.train[k].end)
<1>1. /\ N \in Nat /\ Times \in [1..N -> Int] /\ Ordered(Times, N)
  BY TimesOrdered
<1>2. way \in Ways /\ cut \in Cuts /\ Applies(way) /\ split = Divided(way, cut)
  BY DEF StageInv, Chosen
<1>3. IsCut(cut)
  BY <1>2, PrepareAssumption DEF IsCut
<1>4. CASE way.by = "ratios"
  <2> DEFINE r == FromRatios(Times, way.first, way.second)
  <2>1. way.first \in Nat /\ way.second \in Nat
    BY <1>2, <1>4, PrepareAssumption
  <2>2. way.first \in 0..N /\ way.second \in way.first..N
    BY <1>1, <1>2, <1>4, <2>1 DEF Applies, N
  <2>3. split = SplitWindows(r, Times, cut)
    BY <1>2, <1>4 DEF Divided
  <2>4. /\ InOrder(r, N)
        /\ Apart(Times, N, r.train.end) /\ Apart(Times, N, r.val.end)
        /\ way.first > 0 => r.train.end > 0
        /\ way.first \in 1..(N - 1) /\ Times[way.first] = Times[way.first + 1]
               /\ Times[1] # Times[N] => r.train.end < N
    BY <1>1, <2>2, RatiosInOrder
  <2> HIDE DEF r
  <2>5. /\ Tiled(AllWindows(split), 0, N)
        /\ cut.by = "adaptive_batch" /\ Apart(Times, N, r.train.end)
               => \A k \in DOMAIN split.train : Apart(Times, N, split.train[k].end)
    BY <1>1, <1>3, <2>3, <2>4, SplitTiles
  <2> QED
    BY <2>4, <2>5 DEF Windows, r
<1>5. CASE way.by = "labels"
  <2>1. way.labels \in Seq(0..2) /\ Len(way.labels) = N
    BY <1>2, <1>5, PrepareAssumption DEF Applies, N
  <2>2. way.labels \in [1..N -> Int]
    BY <2>1
  <2>3. InOrder(FromLabels(way.labels), N)
    BY <1>1, <2>2, LabelsInOrder
  <2>4. split = SplitWindows(FromLabels(way.labels), Times, cut)
    BY <1>2, <1>5 DEF Divided
  <2>5. Tiled(AllWindows(split), 0, N)
    BY <1>1, <1>3, <2>3, <2>4, SplitTiles
  <2> QED
    BY <1>5, <2>5 DEF Windows
<1> QED
  BY <1>2, <1>4, <1>5, PrepareAssumption

(* What tilings say, in the terms of WindowsTile.                             *)
LEMMA StageInvTiles == StageInv => WindowsTile
<1> SUFFICES ASSUME StageInv, stage # "plan", way.by # "windows" PROVE WindowsTile
  BY DEF WindowsTile
<1>1. /\ N \in Nat /\ DOMAIN events = 1..N /\ \A e \in 1..N : Times[e] = events[e].ts
  BY TimesOrdered
<1>2. Tiled(Windows, 0, N)
  BY SplitsTile
<1>3. \A e \in DOMAIN events : Cardinality({k \in DOMAIN Windows : e \in Rows(Windows[k])}) = 1
  BY <1>1, <1>2, TilesHoldOnce
<1>4. \A j, k \in DOMAIN Windows : j < k => Windows[j].end <= Windows[k].begin
  BY <1>2 DEF Tiled, Follow
<1>5. ASSUME NEW b, Apart(Times, N, b) PROVE ~Parts(b)
  <2>1. ASSUME Parts(b) PROVE FALSE
    <3>1. b \in 1..(N - 1) /\ events[b].ts = events[b + 1].ts
      BY <2>1 DEF Parts, N
    <3>2. b \in 1..N /\ b + 1 \in 1..N
      BY <1>1, <3>1
    <3> QED
      BY <1>1, <1>5, <3>1, <3>2 DEF Apart
  <2> QED
    BY <2>1
<1>6. ASSUME way.by = "ratios"
      PROVE  LET ranges == FromRatios(Times, way.first, way.second)
             IN  /\ ~Parts(ranges.train.end) /\ ~Parts(ranges.val.end)
                 /\ way.first > 0 => ranges.train.end > 0
                 /\ way.first < Len(events) /\ Parts(way.first)
                        /\ events[1].ts # events[Len(events)].ts => ranges.train.end < Len(events)
  <2> DEFINE r == FromRatios(Times, way.first, way.second)
  <2>1. /\ Apart(Times, N, r.train.end) /\ Apart(Times, N, r.val.end)
        /\ way.first > 0 => r.train.end > 0
        /\ way.first \in 1..(N - 1) /\ Times[way.first] = Times[way.first + 1]
               /\ Times[1] # Times[N] => r.train.end < N
    BY <1>6, SplitsTile
  <2> HIDE DEF r
  <2>2. ASSUME Parts(way.first), events[1].ts # events[N].ts PROVE r.train.end < N
    <3>1. way.first \in 1..(N - 1) /\ events[way.first].ts = events[way.first + 1].ts
      BY <2>2 DEF Parts, N
    <3>2. way.first \in 1..N /\ way.first + 1 \in 1..N /\ 1 \in 1..N /\ N \in 1..N
      BY <1>1, <3>1
    <3>3. Times[way.first] = Times[way.first + 1] /\ Times[1] # Times[N]
      BY <1>1, <2>2, <3>1, <3>2
    <3> QED
      BY <2>1, <3>1, <3>3
  <2> QED
    BY <1>5, <2>1, <2>2 DEF r, N
<1>7. way.by = "ratios" /\ cut.by = "adaptive_batch" => \A k \in DOMAIN split.train : ~Parts(split.train[k].end)
  BY <1>5, SplitsTile
<1> QED
  BY <1>3, <1>4, <1>6, <1>7 DEF WindowsTile

(* prepare/split.py: however ratios round, labels lie and windows are cut,    *)
(* every event is in exactly one window and windows follow each other; no     *)
(* boundary drawn by a ratio, and none of an adaptive training window, lies   *)
(* between two events of one time.                                            *)
THEOREM PreparedWindowsTile == PrepareSpec => []WindowsTile
<1> QED
  BY StageInvInit, StageInvStep, StageInvTiles, PTL DEF PrepareSpec
-----------------------------------------------------------------------------
(* Lists, masks and places.                                                   *)

(* The items at some places; a list of distinct entries has as many of them.  *)
ItemsAt(s, P) == {s[i] : i \in P}

LEMMA CountedOnce ==
    ASSUME NEW V, NEW s \in Seq(V), Distinct(s), NEW P \in SUBSET DOMAIN s
    PROVE  /\ IsFiniteSet(ItemsAt(s, P))
           /\ Cardinality(ItemsAt(s, P)) = Cardinality(P)
<1> DEFINE T == {s[i] : i \in P}
           f == [i \in P |-> s[i]]
<1>1. IsFiniteSet(P)
  <2>1. DOMAIN s = 1..Len(s) /\ Len(s) \in Nat
    OBVIOUS
  <2>2. IsFiniteSet(DOMAIN s)
    BY <2>1, FS_Interval
  <2> QED
    BY <2>2, FS_Subset
<1>2. f \in Bijection(P, T)
  <2>1. f \in [P -> T] /\ \A t \in T : \E i \in P : f[i] = t
    OBVIOUS
  <2>2. IsInjective(f)
    BY DEF IsInjective, Distinct
  <2> HIDE DEF T, f
  <2> QED
    BY <2>1, <2>2 DEF Bijection, Injection, Surjection
<1> QED
  BY <1>1, <1>2, FS_Bijection DEF ExistsBijection, ItemsAt

(* A list without repetition is as long as what it holds; such lists with     *)
(* nothing in common join to one.                                             *)
LEMMA DistinctLength ==
    ASSUME NEW V, NEW s \in Seq(V), Distinct(s)
    PROVE  IsFiniteSet(Elements(s)) /\ Len(s) = Cardinality(Elements(s))
<1>1. Elements(s) = {s[i] : i \in DOMAIN s}
  BY DEF Elements
<1>2. DOMAIN s = 1..Len(s) /\ Len(s) \in Nat
  OBVIOUS
<1>3. Cardinality(1..Len(s)) = Len(s)
  <2> DEFINE n == Len(s)
  <2>1. 1 \in Int /\ n \in Int /\ n >= 0
    BY <1>2
  <2> HIDE DEF n
  <2>2. Cardinality(1..n) = IF 1 > n THEN 0 ELSE n - 1 + 1
    BY <2>1, FS_Interval
  <2>3. Cardinality(1..n) = n
    BY <2>1, <2>2
  <2> QED
    BY <2>3 DEF n
<1>4. IsFiniteSet({s[i] : i \in DOMAIN s}) /\ Cardinality({s[i] : i \in DOMAIN s}) = Cardinality(DOMAIN s)
  <2> DEFINE P == DOMAIN s
  <2>1. P \in SUBSET DOMAIN s
    OBVIOUS
  <2> HIDE DEF P
  <2>2. IsFiniteSet({s[i] : i \in P}) /\ Cardinality({s[i] : i \in P}) = Cardinality(P)
    <3>1. IsFiniteSet(ItemsAt(s, P)) /\ Cardinality(ItemsAt(s, P)) = Cardinality(P)
      BY <2>1, CountedOnce
    <3> QED
      BY <3>1 DEF ItemsAt
  <2> QED
    BY <2>2 DEF P
<1> QED
  BY <1>1, <1>2, <1>3, <1>4

LEMMA DistinctJoin ==
    ASSUME NEW V, NEW a \in Seq(V), NEW W, NEW b \in Seq(W)
    PROVE  /\ Elements(a \o b) = Elements(a) \cup Elements(b)
           /\ Distinct(a) /\ Distinct(b) /\ Elements(a) \cap Elements(b) = {} => Distinct(a \o b)
<1> DEFINE c == a \o b
<1>1. /\ Len(a) \in Nat /\ Len(b) \in Nat
      /\ DOMAIN a = 1..Len(a) /\ DOMAIN b = 1..Len(b) /\ DOMAIN c = 1..(Len(a) + Len(b))
      /\ \A i \in 1..Len(a) : c[i] = a[i]
      /\ \A i \in (Len(a) + 1)..(Len(a) + Len(b)) : c[i] = b[i - Len(a)] /\ i - Len(a) \in 1..Len(b)
  BY JoinIs
<1> HIDE DEF c
<1>2. \A i \in DOMAIN c : i \in 1..Len(a) \/ i \in (Len(a) + 1)..(Len(a) + Len(b))
  BY <1>1
<1>3. Elements(c) = Elements(a) \cup Elements(b)
  <2>1. ASSUME NEW x \in Elements(c) PROVE x \in Elements(a) \cup Elements(b)
    <3>1. PICK i \in DOMAIN c : x = c[i]
      BY DEF Elements
    <3> QED
      BY <1>1, <1>2, <3>1 DEF Elements
  <2>2. ASSUME NEW x \in Elements(a) PROVE x \in Elements(c)
    <3>1. PICK i \in DOMAIN a : x = a[i]
      BY DEF Elements
    <3>2. i \in DOMAIN c /\ c[i] = x
      BY <1>1, <3>1
    <3> QED
      BY <3>2 DEF Elements
  <2>3. ASSUME NEW x \in Elements(b) PROVE x \in Elements(c)
    <3>1. PICK i \in DOMAIN b : x = b[i]
      BY DEF Elements
    <3>2. Len(a) + i \in (Len(a) + 1)..(Len(a) + Len(b)) /\ (Len(a) + i) - Len(a) = i
      BY <1>1
    <3>3. Len(a) + i \in DOMAIN c /\ c[Len(a) + i] = x
      BY <1>1, <3>1, <3>2
    <3> QED
      BY <3>3 DEF Elements
  <2> QED
    BY <2>1, <2>2, <2>3
<1>4. ASSUME Distinct(a), Distinct(b), Elements(a) \cap Elements(b) = {},
             NEW i \in DOMAIN c, NEW j \in DOMAIN c, c[i] = c[j]
      PROVE  i = j
  <2>1. CASE i \in 1..Len(a) /\ j \in 1..Len(a)
    BY <1>1, <1>4, <2>1 DEF Distinct
  <2>2. ASSUME NEW k \in 1..Len(a), NEW l \in (Len(a) + 1)..(Len(a) + Len(b)), c[k] = c[l] PROVE FALSE
    <3>1. c[k] \in Elements(a) /\ c[l] \in Elements(b)
      BY <1>1 DEF Elements
    <3> QED
      BY <1>4, <2>2, <3>1
  <2>3. CASE i \in (Len(a) + 1)..(Len(a) + Len(b)) /\ j \in (Len(a) + 1)..(Len(a) + Len(b))
    <3>1. i - Len(a) = j - Len(a)
      BY <1>1, <1>4, <2>3 DEF Distinct
    <3> QED
      BY <1>1, <2>3, <3>1
  <2> QED
    BY <1>2, <1>4, <2>1, <2>2, <2>3
<1> QED
  BY <1>3, <1>4 DEF Distinct, c

(* What sorting a set gives, what a mask leaves of a list, and where an item  *)
(* stands.                                                                    *)
LEMMA SortedList ==
    ASSUME NEW S \in SUBSET Int, IsFiniteSet(S)
    PROVE  /\ Increasing(S) \in Seq(S) /\ Len(Increasing(S)) = Cardinality(S)
           /\ DOMAIN Increasing(S) = 1..Cardinality(S) /\ Cardinality(S) \in Nat
           /\ Elements(Increasing(S)) = S /\ Distinct(Increasing(S))
           /\ \A k, l \in DOMAIN Increasing(S) :
                 /\ k < l => Increasing(S)[k] < Increasing(S)[l]
                 /\ Increasing(S)[k] < Increasing(S)[l] => k < l
<1> DEFINE s == Increasing(S)
           n == Cardinality(S)
<1>1. n \in Nat
  BY FS_CardinalityType
<1>2. /\ s \in [1..n -> S] /\ Elements(s) = S
      /\ \A k, l \in 1..n : k < l => s[k] < s[l]
  BY IncreasingEnumerates
<1> HIDE DEF s, n
<1>3. s \in Seq(S) /\ Len(s) = n /\ DOMAIN s = 1..n
  BY <1>1, <1>2, ListOf
<1>4. \A k \in 1..n : s[k] \in Int
  BY <1>2
<1>5. ASSUME NEW k \in 1..n, NEW l \in 1..n, s[k] < s[l] PROVE k < l
  BY <1>1, <1>2, <1>4, <1>5
<1>6. Distinct(s)
  BY <1>1, <1>2, <1>3, <1>4 DEF Distinct
<1> QED
  BY <1>1, <1>2, <1>3, <1>5, <1>6 DEF s, n

LEMMA MaskedIs ==
    ASSUME NEW V, NEW s \in Seq(V), NEW P \in SUBSET DOMAIN s
    PROVE  /\ Masked(s, P) \in Seq(V) /\ Len(Masked(s, P)) = Cardinality(P)
           /\ DOMAIN Masked(s, P) = DOMAIN Increasing(P)
           /\ \A k \in DOMAIN Masked(s, P) : Masked(s, P)[k] = s[Increasing(P)[k]] /\ Increasing(P)[k] \in P
           /\ Elements(Masked(s, P)) = {s[i] : i \in P}
           /\ Distinct(s) => Distinct(Masked(s, P))
<1> DEFINE m == Masked(s, P)
           o == Increasing(P)
<1>1. P \in SUBSET Int /\ IsFiniteSet(P)
  <2>1. DOMAIN s = 1..Len(s) /\ Len(s) \in Nat
    OBVIOUS
  <2>2. IsFiniteSet(DOMAIN s)
    BY <2>1, FS_Interval
  <2> QED
    BY <2>1, <2>2, FS_Subset
<1>2. /\ o \in Seq(P) /\ Len(o) = Cardinality(P) /\ DOMAIN o = 1..Cardinality(P) /\ Cardinality(P) \in Nat
      /\ Elements(o) = P /\ Distinct(o)
  BY <1>1, SortedList
<1>3. m = [k \in DOMAIN o |-> s[o[k]]]
  BY DEF Masked, Pick
<1> HIDE DEF m, o
<1>4. \A k \in DOMAIN o : o[k] \in P /\ s[o[k]] \in V
  BY <1>2
<1>5. m \in [1..Cardinality(P) -> V]
  BY <1>2, <1>3, <1>4
<1>6. m \in Seq(V) /\ Len(m) = Cardinality(P) /\ DOMAIN m = DOMAIN o
  BY <1>2, <1>5, ListOf
<1>7. Elements(m) = {s[i] : i \in P}
  <2>1. \A i \in P : \E k \in DOMAIN o : o[k] = i
    BY <1>2 DEF Elements
  <2> QED
    BY <1>3, <1>4, <1>6, <2>1 DEF Elements
<1>8. Distinct(s) => Distinct(m)
  BY <1>2, <1>3, <1>4, <1>6 DEF Distinct
<1> QED
  BY <1>3, <1>4, <1>6, <1>7, <1>8 DEF m, o

(* The place of an item in a list.                                            *)
LEMMA PlacedAt ==
    ASSUME NEW V, NEW s \in Seq(V), Distinct(s), NEW i \in DOMAIN s
    PROVE  PlaceIn(s, s[i]) = i - 1 /\ RowIn(s, s[i]) = i - 1
<1>1. (CHOOSE k \in DOMAIN s : s[k] = s[i]) = i
  BY DEF Distinct
<1> QED
  BY <1>1 DEF PlaceIn, RowIn, Elements

LEMMA PlacedIn ==
    ASSUME NEW V, NEW s \in Seq(V), NEW x \in Elements(s)
    PROVE  /\ PlaceIn(s, x) \in 0..(Len(s) - 1) /\ RowIn(s, x) = PlaceIn(s, x)
           /\ PlaceIn(s, x) + 1 \in DOMAIN s /\ s[PlaceIn(s, x) + 1] = x
<1> DEFINE k == CHOOSE k \in DOMAIN s : s[k] = x
<1>1. \E j \in DOMAIN s : s[j] = x
  BY DEF Elements
<1>2. k \in DOMAIN s /\ s[k] = x
  BY <1>1
<1>3. PlaceIn(s, x) = k - 1
  BY DEF PlaceIn
<1> HIDE DEF k
<1>4. DOMAIN s = 1..Len(s) /\ Len(s) \in Nat
  OBVIOUS
<1>5. k \in Int /\ (k - 1) + 1 = k
  BY <1>2, <1>4
<1> QED
  BY <1>2, <1>3, <1>4, <1>5 DEF RowIn

(* _local_rows_by_part: how many entries of the same part come before.        *)
LEMMA LocalRowsAre ==
    ASSUME NEW n \in Nat, NEW part \in [1..n -> Int], NEW i \in 1..n
    PROVE  LocalRows(part)[i] = Cardinality({j \in 1..n : part[j] = part[i] /\ j < i})
<1> DEFINE o == Argsort(part)
           sorted == Pick(part, o)
           v == part[i]
           A == {j \in 1..n : part[j] < v}
           B == {j \in 1..n : part[j] = v /\ j < i}
           b == Cardinality(A)
           place == CHOOSE q \in 1..n : o[q] = i
           fits(q, s) == /\ s = 1 \/ sorted[s] # sorted[s - 1]
                         /\ \A t \in (s + 1)..q : sorted[t] = sorted[t - 1]
           begins == CHOOSE s \in 1..place : fits(place, s)
           Lower == {t \in 1..n : sorted[t] < v}
<1>1. /\ o \in [1..n -> 1..n]
      /\ \A q, w \in 1..n : o[q] = o[w] => q = w
      /\ \A j \in 1..n : \E q \in 1..n : o[q] = j
      /\ \A q \in 1..n : Cardinality(Earlier(part, o[q])) = q - 1
  BY ArgsortPermutes
<1>2. \A q, w \in 1..n : q < w => part[o[q]] <= part[o[w]]
  BY ArgsortGroups
<1> HIDE DEF o
<1>3. sorted = [q \in 1..n |-> part[o[q]]]
  BY <1>1 DEF Pick
<1>4. place \in 1..n /\ o[place] = i
  BY <1>1
<1>5. LocalRows(part)[i] = place - begins
  BY <1>1 DEF LocalRows, o
<1> HIDE DEF place, sorted
<1>6. IsFiniteSet(1..n)
  BY FS_Interval
<1>7. A \in SUBSET (1..n) /\ B \in SUBSET (1..n) /\ A \cap B = {} /\ Earlier(part, i) = A \cup B
  BY DEF Earlier
<1> HIDE DEF A, B
<1>8. IsFiniteSet(A) /\ IsFiniteSet(B) /\ b \in Nat /\ Cardinality(B) \in Nat
  BY <1>6, <1>7, FS_Subset, FS_CardinalityType
<1>9. place - 1 = b + Cardinality(B)
  <2>1. Cardinality(A \cap B) = 0
    BY <1>7, FS_EmptySet
  <2>2. Cardinality(A \cup B) = Cardinality(A) + Cardinality(B) - Cardinality(A \cap B)
    BY <1>8, FS_Union
  <2>3. Cardinality(A \cup B) = place - 1
    BY <1>1, <1>4, <1>7
  <2> QED
    BY <1>8, <2>1, <2>2, <2>3
<1>10. \A t \in 1..n : sorted[t] = part[o[t]] /\ sorted[t] \in Int
  BY <1>1, <1>3
<1>11. sorted[place] = v /\ v \in Int
  BY <1>4, <1>10
<1>12. \A t, u \in 1..n : t < u => sorted[t] <= sorted[u]
  BY <1>2, <1>10
<1>13. Cardinality(Lower) = b
  <2> DEFINE f == [t \in Lower |-> o[t]]
  <2>1. f \in [Lower -> A]
    BY <1>1, <1>10 DEF A
  <2>2. \A j \in A : \E t \in Lower : f[t] = j
    <3> SUFFICES ASSUME NEW j \in A PROVE \E t \in Lower : f[t] = j
      OBVIOUS
    <3>1. j \in 1..n /\ part[j] < v
      BY DEF A
    <3>2. PICK t \in 1..n : o[t] = j
      BY <1>1, <3>1
    <3>3. t \in Lower
      BY <1>10, <3>1, <3>2
    <3> QED
      BY <3>2, <3>3
  <2>3. IsInjective(f)
    BY <1>1 DEF IsInjective
  <2>4. Lower \in SUBSET (1..n)
    OBVIOUS
  <2>5. IsFiniteSet(Lower)
    BY <1>6, <2>4, FS_Subset
  <2> HIDE DEF f, Lower
  <2>6. f \in Bijection(Lower, A)
    BY <2>1, <2>2, <2>3 DEF Bijection, Injection, Surjection
  <2> QED
    BY <2>5, <2>6, FS_Bijection DEF ExistsBijection
<1>14. Lower = 1..b /\ b <= n
  <2>1. Lower \in SUBSET ((0 + 1)..n)
    OBVIOUS
  <2>2. \A t \in Lower : \A u \in (0 + 1)..t : u \in Lower
    BY <1>10, <1>11, <1>12
  <2> HIDE DEF Lower
  <2>3. 0 + Cardinality(Lower) \in 0..n /\ Lower = (0 + 1)..(0 + Cardinality(Lower))
    BY <2>1, <2>2, Stretch
  <2> QED
    BY <1>8, <1>13, <2>3
<1>15. \A t \in 1..n : t <= b <=> sorted[t] < v
  <2> TAKE t \in 1..n
  <2>1. t \in Lower <=> sorted[t] < v
    OBVIOUS
  <2> HIDE DEF Lower
  <2>2. t \in 1..b <=> t <= b
    BY <1>8
  <2> QED
    BY <1>14, <2>1, <2>2
<1>16. b < place
  BY <1>4, <1>8, <1>9
<1>17. \A t \in (b + 1)..place : t \in 1..n /\ sorted[t] = v
  <2> TAKE t \in (b + 1)..place
  <2>1. t \in 1..n /\ ~(t <= b)
    BY <1>4, <1>8
  <2>2. sorted[t] \in Int /\ ~(sorted[t] < v)
    BY <1>10, <1>15, <2>1
  <2>3. t < place => sorted[t] <= v
    BY <1>4, <1>11, <1>12, <2>1
  <2>4. t = place \/ t < place
    BY <1>4, <1>8
  <2> QED
    BY <1>11, <2>1, <2>2, <2>3, <2>4
<1>18. b + 1 \in 1..place /\ fits(place, b + 1)
  <2>1. b + 1 \in 1..place
    BY <1>4, <1>8, <1>16
  <2>2. b + 1 = 1 \/ sorted[b + 1] # sorted[(b + 1) - 1]
    <3>1. CASE b # 0
      <4>1. (b + 1) - 1 = b /\ b \in 1..n /\ b + 1 \in (b + 1)..place
        BY <1>8, <1>14, <2>1, <3>1
      <4>2. sorted[b] < v /\ sorted[b] \in Int /\ sorted[b + 1] = v
        BY <1>8, <1>10, <1>15, <1>17, <4>1
      <4> QED
        BY <1>11, <4>1, <4>2
    <3> QED
      BY <3>1
  <2>3. \A t \in ((b + 1) + 1)..place : sorted[t] = sorted[t - 1]
    <3> TAKE t \in ((b + 1) + 1)..place
    <3>1. t \in (b + 1)..place /\ t - 1 \in (b + 1)..place
      BY <1>4, <1>8
    <3> QED
      BY <1>17, <3>1
  <2> QED
    BY <2>1, <2>2, <2>3
<1>19. ASSUME NEW s \in 1..place, fits(place, s) PROVE s = b + 1
  <2>1. ~(s <= b)
    <3> SUFFICES ASSUME s <= b PROVE FALSE
      OBVIOUS
    <3>1. b + 1 \in (s + 1)..place /\ b + 1 \in (b + 1)..place /\ b \in 1..n /\ (b + 1) - 1 = b
      <4>1. b \in Nat /\ n \in Nat /\ place \in Int /\ s \in Int /\ 1 <= s /\ b <= n
        BY <1>4, <1>8, <1>14
      <4>2. b < place
        BY <1>16
      <4> QED
        BY <4>1, <4>2
    <3>2. sorted[b + 1] = sorted[b]
      BY <1>19, <3>1
    <3>3. sorted[b] < v /\ sorted[b + 1] = v
      BY <1>8, <1>15, <1>17, <3>1
    <3> QED
      BY <1>11, <3>2, <3>3
  <2>2. ~(s > b + 1)
    <3> SUFFICES ASSUME s > b + 1 PROVE FALSE
      OBVIOUS
    <3>1. s # 1 /\ s \in (b + 1)..place /\ s - 1 \in (b + 1)..place
      <4>1. b \in Nat /\ place \in Int /\ s \in Int /\ s <= place
        BY <1>4, <1>8
      <4> QED
        BY <4>1
    <3> QED
      BY <1>17, <1>19, <3>1
  <2> QED
    BY <1>4, <1>8, <2>1, <2>2
<1> HIDE DEF fits, b
<1>20. begins = b + 1
  BY <1>18, <1>19
<1> HIDE DEF begins
<1>21. LocalRows(part)[i] = Cardinality(B)
  <2>1. LocalRows(part)[i] = place - (b + 1) /\ place \in Int /\ b \in Int /\ Cardinality(B) \in Int
    BY <1>4, <1>5, <1>8, <1>20
  <2> QED
    BY <1>9, <2>1
<1> QED
  BY <1>21 DEF B

(* The number counts from base how many of the set are below.                 *)
RankedBy(S, loc, base) == \A x \in S : loc[x] = base + Cardinality({y \in S : y < x})

(* A list of all of a set, in the order of a number that counts from base how *)
(* many of the set are below, has the number's owner at the number.           *)
LEMMA RankedList ==
    ASSUME NEW S \in SUBSET Int, IsFiniteSet(S), NEW C \in Seq(S), Distinct(C), Elements(C) = S,
           NEW base \in Int, NEW loc \in [S -> Int],
           RankedBy(S, loc, base),
           \A k, l \in DOMAIN C : k < l => loc[C[k]] <= loc[C[l]]
    PROVE  \A k \in DOMAIN C : loc[C[k]] = base + (k - 1)
<1> DEFINE R == {p \in S \X S : p[1] < p[2]}
           count(x) == Cardinality({y \in S : y < x})
<1>0. C \in Seq(S) /\ Distinct(C)
  OBVIOUS
<1>1. IsStrictOrder(S, R) /\ \A x \in S : {y \in S : y < x} = Below(S, R, x)
  BY LessIsStrict
<1>2. \A x, y \in S : <<x, y>> \in R <=> x < y
  OBVIOUS
<1>3. \A x \in S : count(x) \in Nat
  <2>1. \A x \in S : {y \in S : y < x} \subseteq S
    OBVIOUS
  <2> QED
    BY <2>1, FS_Subset, FS_CardinalityType
<1> HIDE DEF R
<1>4. ASSUME NEW x \in S, NEW y \in S, x < y PROVE count(x) < count(y)
  <2>1. Cardinality(Below(S, R, x)) < Cardinality(Below(S, R, y))
    BY <1>1, <1>2, <1>4, BelowGrows
  <2> QED
    BY <1>1, <2>1
<1>5. DOMAIN C = 1..Len(C) /\ Len(C) \in Nat /\ \A k \in DOMAIN C : C[k] \in S /\ C[k] \in Int
  BY ItemsOf
<1>6. \A x \in S : loc[x] = base + count(x)
  BY DEF RankedBy
<1> HIDE DEF count
<1>7. ASSUME NEW k \in DOMAIN C, NEW l \in DOMAIN C, k < l PROVE C[k] < C[l]
  <2>1. C[k] # C[l]
    BY <1>5, <1>7 DEF Distinct
  <2>2. ASSUME C[l] < C[k] PROVE FALSE
    <3>1. count(C[l]) < count(C[k])
      BY <1>4, <1>5, <2>2
    <3>2. count(C[l]) \in Int /\ count(C[k]) \in Int
      BY <1>3, <1>5
    <3>3. loc[C[k]] <= loc[C[l]] /\ loc[C[k]] = base + count(C[k]) /\ loc[C[l]] = base + count(C[l])
      BY <1>5, <1>6, <1>7
    <3> QED
      BY <3>1, <3>2, <3>3
  <2> QED
    BY <1>5, <2>1, <2>2
<1> TAKE k \in DOMAIN C
<1>8. {y \in S : y < C[k]} = {C[j] : j \in 1..(k - 1)}
  <2>1. ASSUME NEW y \in S, y < C[k] PROVE \E j \in 1..(k - 1) : y = C[j]
    <3>1. PICK j \in DOMAIN C : y = C[j]
      BY DEF Elements
    <3>2. ~(k < j) /\ k # j
      BY <1>5, <1>7, <2>1, <3>1
    <3> QED
      BY <1>5, <3>1, <3>2
  <2>2. ASSUME NEW j \in 1..(k - 1) PROVE C[j] \in S /\ C[j] < C[k]
    <3>1. j \in DOMAIN C /\ j < k
      BY <1>5
    <3> QED
      BY <1>5, <1>7, <3>1
  <2> QED
    BY <2>1, <2>2
<1>9. 1..(k - 1) \in SUBSET DOMAIN C
  BY <1>5
<1>10. Cardinality({C[j] : j \in 1..(k - 1)}) = Cardinality(1..(k - 1))
  <2> DEFINE P == 1..(k - 1)
  <2>1. P \in SUBSET DOMAIN C
    BY <1>9
  <2> HIDE DEF P
  <2>2. IsFiniteSet({C[i] : i \in P}) /\ Cardinality({C[i] : i \in P}) = Cardinality(P)
    <3>1. IsFiniteSet(ItemsAt(C, P)) /\ Cardinality(ItemsAt(C, P)) = Cardinality(P)
      BY ONLY <1>0, <2>1, CountedOnce
    <3> QED
      BY <3>1 DEF ItemsAt
  <2> QED
    BY <2>2 DEF P
<1>11. Cardinality(1..(k - 1)) = k - 1
  <2> DEFINE h == k - 1
  <2>1. h \in Nat
    BY <1>5
  <2> HIDE DEF h
  <2>2. Cardinality(1..h) = h
    BY <2>1, FS_Interval
  <2> QED
    BY <2>2 DEF h
<1>12. count(C[k]) = k - 1
  BY <1>8, <1>10, <1>11 DEF count
<1> QED
  BY <1>5, <1>6, <1>12

OwnedOf(X, index, rank) == {x \in X : index[x].part = rank}

(* _owned_ids_by_part.                                                        *)
LEMMA OwnedIs ==
    ASSUME NEW X \in SUBSET Int, IsFiniteSet(X), NEW index, DOMAIN index = X,
           \A x \in X : index[x].loc \in Int, NEW rank
    PROVE  LET m == OwnedInOrder(index, rank)
               S == OwnedOf(X, index, rank)
           IN  /\ m \in Seq(S) /\ Distinct(m) /\ Elements(m) = S
               /\ \A k, l \in DOMAIN m : k < l => index[m[k]].loc <= index[m[l]].loc
<1> DEFINE m == OwnedInOrder(index, rank)
           S == OwnedOf(X, index, rank)
           owned == Increasing(S)
           n == Cardinality(S)
           locs == [k \in DOMAIN owned |-> index[owned[k]].loc]
           o == Argsort(locs)
<1>1. S \in SUBSET Int /\ IsFiniteSet(S)
  <2>1. S \subseteq X
    BY DEF OwnedOf
  <2> QED
    BY <2>1, FS_Subset
<1>2. m = Pick(owned, o)
  BY DEF OwnedInOrder, OwnedOf
<1>3. \A x \in S : x \in X /\ index[x].loc \in Int
  BY DEF OwnedOf
<1> HIDE DEF m, S
<1>4. /\ owned \in Seq(S) /\ DOMAIN owned = 1..n /\ n \in Nat
      /\ Elements(owned) = S /\ Distinct(owned)
  BY <1>1, SortedList
<1> HIDE DEF owned, n
<1>5. \A k \in 1..n : owned[k] \in S
  BY <1>4
<1>6. locs \in [1..n -> Int] /\ \A k \in 1..n : locs[k] = index[owned[k]].loc
  BY <1>3, <1>4, <1>5
<1> HIDE DEF locs
<1>7. /\ o \in [1..n -> 1..n]
      /\ \A q, w \in 1..n : o[q] = o[w] => q = w
      /\ \A i \in 1..n : \E q \in 1..n : o[q] = i
  BY <1>4, <1>6, ArgsortPermutes
<1>8. \A q, w \in 1..n : q < w => locs[o[q]] <= locs[o[w]]
  BY <1>4, <1>6, ArgsortGroups
<1> HIDE DEF o
<1>9. m = [q \in 1..n |-> owned[o[q]]]
  BY <1>2, <1>7 DEF Pick
<1>10. m \in [1..n -> S]
  BY <1>5, <1>7, <1>9
<1>11. m \in Seq(S) /\ DOMAIN m = 1..n
  BY <1>4, <1>10, ListOf
<1>12. Distinct(m)
  <2>1. ASSUME NEW q \in 1..n, NEW w \in 1..n, m[q] = m[w] PROVE q = w
    <3>1. owned[o[q]] = owned[o[w]] /\ o[q] \in 1..n /\ o[w] \in 1..n
      BY <1>7, <1>9, <2>1
    <3>2. o[q] = o[w]
      BY <1>4, <3>1 DEF Distinct
    <3> QED
      BY <1>7, <3>2
  <2> QED
    BY <1>11, <2>1 DEF Distinct
<1>13. Elements(m) = S
  <2>1. ASSUME NEW x \in S PROVE \E q \in 1..n : m[q] = x
    <3>1. PICK k \in 1..n : owned[k] = x
      BY <1>4 DEF Elements
    <3>2. PICK q \in 1..n : o[q] = k
      BY <1>7
    <3> QED
      BY <1>9, <3>1, <3>2
  <2>2. \A q \in 1..n : m[q] \in S
    BY <1>10
  <2> QED
    BY <1>11, <2>1, <2>2 DEF Elements
<1>14. \A k, l \in 1..n : k < l => index[m[k]].loc <= index[m[l]].loc
  <2> TAKE k, l \in 1..n
  <2> HAVE k < l
  <2>1. locs[o[k]] <= locs[o[l]] /\ o[k] \in 1..n /\ o[l] \in 1..n
    BY <1>7, <1>8
  <2>2. m[k] = owned[o[k]] /\ m[l] = owned[o[l]]
    BY <1>9
  <2> QED
    BY <1>6, <2>1, <2>2
<1> QED
  BY <1>11, <1>12, <1>13, <1>14 DEF m, S
-----------------------------------------------------------------------------
(* The index of a node and of an edge, and the shards that follow it.         *)

CoolNodes == {n \in Node : ~IsHot(n)}
CoolAt(rank) == {n \in CoolNodes : Master(n) = rank}

(* In a finished plan every node and edge has its owner.                      *)
LEMMA OwnersKnown ==
    ASSUME PlanInv, pc = "done"
    PROVE  /\ \A n \in Node : Master(n) \in Part /\ Master(n) \in Int /\ n \in Int
           /\ events \in Seq(Edge) /\ edge_owner \in [1..N -> Part] /\ edge_owner \in [1..N -> Int]
           /\ N \in Nat /\ DOMAIN events = 1..N
           /\ \A e \in 1..N : Owner(e) \in Part /\ events[e].src \in Node /\ events[e].dst \in Node
<1>1. \A n \in Node : node_master[n] \in Part /\ n \in Int
  BY DEF PlanInv, Node
<1>2. Part \subseteq Int
  BY DEF Part
<1>3. events \in Seq(Edge) /\ edge_owner \in Seq(Part \cup {-1}) /\ Len(edge_owner) = Len(events)
  BY DEF PlanInv, PartitionTypeOK
<1>4. DOMAIN events = 1..N /\ N \in Nat /\ DOMAIN edge_owner = 1..N
  BY <1>3 DEF N
<1>5. \A e \in 1..N : edge_owner[e] \in Part
  BY <1>4 DEF PlanInv
<1>6. edge_owner = [e \in 1..N |-> edge_owner[e]]
  BY <1>3, <1>4
<1>7. edge_owner \in [1..N -> Part]
  BY <1>5, <1>6
<1>8. \A e \in 1..N : events[e] \in Edge
  BY <1>3, <1>4
<1>9. \A e \in Edge : e.src \in Node /\ e.dst \in Node
  BY DEF Edge
<1> QED
  BY <1>1, <1>2, <1>3, <1>4, <1>5, <1>7, <1>8, <1>9 DEF Master, Owner

(* node_dist_index.                                                           *)
LEMMA NodeIndexIs ==
    ASSUME PlanInv, pc = "done"
    PROVE  /\ DOMAIN NodeIndex = Node
           /\ \A n \in Node :
                 /\ NodeIndex[n].part = Master(n)
                 /\ NodeIndex[n].loc \in Int
                 /\ IsHot(n) => NodeIndex[n].loc = PlaceIn(hot_node_ids, n)
                 /\ ~IsHot(n) => NodeIndex[n].loc = Len(hot_node_ids)
                                    + Cardinality({m \in CoolAt(Master(n)) : m < n})
<1> DEFINE c == Cardinality(CoolNodes)
           part == [k \in DOMAIN Cooler |-> Master(Cooler[k])]
           rows == LocalRows(part)
           loc(n) == IF IsHot(n) THEN PlaceIn(hot_node_ids, n)
                     ELSE rows[PlaceIn(Cooler, n) + 1] + Len(hot_node_ids)
<1>1. CoolNodes \in SUBSET Int /\ IsFiniteSet(CoolNodes) /\ CoolNodes \subseteq Node
  <2>1. CoolNodes \subseteq Node /\ Node \subseteq Int
    BY DEF CoolNodes, Node
  <2> QED
    BY <2>1, NodesAreFinite, FS_Subset DEF NodesFinite
<1>2. NodeIndex = [n \in Node |-> [part |-> Master(n), loc |-> loc(n)]]
  BY DEF NodeIndex
<1>3. /\ Cooler \in Seq(CoolNodes) /\ DOMAIN Cooler = 1..c /\ c \in Nat
      /\ Elements(Cooler) = CoolNodes /\ Distinct(Cooler)
      /\ \A k, l \in DOMAIN Cooler : Cooler[k] < Cooler[l] => k < l
      /\ \A k, l \in DOMAIN Cooler : k < l => Cooler[k] < Cooler[l]
  BY <1>1, SortedList DEF Cooler, CoolNodes
<1> HIDE DEF c, rows
<1>4. \A n \in Node : Master(n) \in Int
  BY OwnersKnown
<1>5. part \in [1..c -> Int] /\ \A k \in 1..c : part[k] = Master(Cooler[k]) /\ Cooler[k] \in CoolNodes
  <2>1. \A k \in 1..c : Cooler[k] \in CoolNodes
    BY <1>3
  <2>2. \A k \in 1..c : Cooler[k] \in Node /\ Master(Cooler[k]) \in Int
    BY <1>1, <1>4, <2>1
  <2>3. part = [k \in 1..c |-> Master(Cooler[k])]
    BY <1>3
  <2> QED
    BY <2>1, <2>2, <2>3
<1> HIDE DEF part
<1>6. \A k \in 1..c : rows[k] = Cardinality({j \in 1..c : part[j] = part[k] /\ j < k})
  <2> TAKE k \in 1..c
  <2>1. c \in Nat /\ part \in [1..c -> Int]
    BY <1>3, <1>5
  <2>2. LocalRows(part)[k] = Cardinality({j \in 1..c : part[j] = part[k] /\ j < k})
    BY <2>1, LocalRowsAre
  <2> QED
    BY <2>2 DEF rows
<1>7. ASSUME NEW k \in 1..c
      PROVE  /\ rows[k] = Cardinality({m \in CoolAt(Master(Cooler[k])) : m < Cooler[k]})
             /\ rows[k] \in Int
  <2> DEFINE P == {j \in 1..c : part[j] = part[k] /\ j < k}
             T == {m \in CoolAt(Master(Cooler[k])) : m < Cooler[k]}
  <2>1. P \in SUBSET DOMAIN Cooler
    BY <1>3
  <2>2. {Cooler[j] : j \in P} = T
    <3>1. ASSUME NEW j \in P PROVE Cooler[j] \in T
      <4>1. j \in 1..c /\ part[j] = part[k] /\ j < k
        OBVIOUS
      <4> QED
        BY <1>3, <1>5, <4>1 DEF CoolAt
    <3>2. ASSUME NEW m \in T PROVE \E j \in P : m = Cooler[j]
      <4>1. m \in CoolNodes /\ Master(m) = Master(Cooler[k]) /\ m < Cooler[k]
        BY DEF CoolAt
      <4>2. PICK j \in 1..c : Cooler[j] = m
        BY <1>3, <4>1 DEF Elements
      <4>3. j < k
        BY <1>3, <4>1, <4>2
      <4> QED
        BY <1>5, <4>1, <4>2, <4>3
    <3> HIDE DEF P, T
    <3> QED
      BY <3>1, <3>2
  <2>3. rows[k] = Cardinality(P)
    BY <1>6
  <2> HIDE DEF P, T
  <2>4. IsFiniteSet({Cooler[i] : i \in P}) /\ Cardinality({Cooler[i] : i \in P}) = Cardinality(P)
    <3>1. IsFiniteSet(ItemsAt(Cooler, P)) /\ Cardinality(ItemsAt(Cooler, P)) = Cardinality(P)
      BY <1>3, <2>1, CountedOnce
    <3> QED
      BY <3>1 DEF ItemsAt
  <2>5. rows[k] = Cardinality(T) /\ Cardinality(T) \in Nat
    BY <2>2, <2>3, <2>4, FS_CardinalityType
  <2> QED
    BY <2>5 DEF T
<1>8. hot_node_ids \in Seq(Node) /\ Len(hot_node_ids) \in Nat
  BY DEF PlanInv
<1> HIDE DEF loc
<1> SUFFICES ASSUME NEW n \in Node
             PROVE  /\ loc(n) \in Int
                    /\ IsHot(n) => loc(n) = PlaceIn(hot_node_ids, n)
                    /\ ~IsHot(n) => loc(n) = Len(hot_node_ids) + Cardinality({m \in CoolAt(Master(n)) : m < n})
  BY <1>2
<1>9. CASE IsHot(n)
  <2>1. n \in Elements(hot_node_ids)
    BY <1>9 DEF IsHot
  <2>2. PlaceIn(hot_node_ids, n) \in 0..(Len(hot_node_ids) - 1)
    BY <1>8, <2>1, PlacedIn
  <2>3. PlaceIn(hot_node_ids, n) \in Int
    BY <1>8, <2>2
  <2> QED
    BY <1>9, <2>3 DEF loc
<1>10. CASE ~IsHot(n)
  <2>1. n \in Elements(Cooler)
    BY <1>3, <1>10 DEF CoolNodes
  <2> DEFINE k == PlaceIn(Cooler, n) + 1
  <2>2. k \in DOMAIN Cooler /\ Cooler[k] = n
    BY <1>3, <2>1, PlacedIn
  <2>3. loc(n) = rows[k] + Len(hot_node_ids)
    BY <1>10 DEF loc
  <2> HIDE DEF k
  <2>4. rows[k] = Cardinality({m \in CoolAt(Master(n)) : m < n}) /\ rows[k] \in Int
    BY <1>3, <1>7, <2>2
  <2>5. loc(n) = Len(hot_node_ids) + rows[k] /\ loc(n) \in Int
    BY <1>8, <2>3, <2>4
  <2> QED
    BY <1>10, <2>4, <2>5
<1> QED
  BY <1>9, <1>10

(* edge_dist_index.                                                           *)
LEMMA EdgeIndexIs ==
    ASSUME PlanInv, pc = "done"
    PROVE  /\ DOMAIN EdgeIndex = 1..N
           /\ \A e \in 1..N :
                 /\ EdgeIndex[e].part = Owner(e)
                 /\ EdgeIndex[e].loc \in Int
                 /\ EdgeIndex[e].loc = Cardinality({i \in {i \in 1..N : Owner(i) = Owner(e)} : i < e})
<1> DEFINE rows == LocalRows(edge_owner)
<1>1. N \in Nat /\ DOMAIN events = 1..N /\ edge_owner \in [1..N -> Int]
  BY OwnersKnown
<1>2. EdgeIndex = [e \in 1..N |-> [part |-> Owner(e), loc |-> rows[e]]]
  BY <1>1 DEF EdgeIndex
<1> HIDE DEF rows
<1> SUFFICES ASSUME NEW e \in 1..N
             PROVE  /\ rows[e] \in Int
                    /\ rows[e] = Cardinality({i \in {i \in 1..N : Owner(i) = Owner(e)} : i < e})
  BY <1>2
<1>3. rows[e] = Cardinality({i \in 1..N : edge_owner[i] = edge_owner[e] /\ i < e})
  BY <1>1, LocalRowsAre DEF rows
<1>4. {i \in 1..N : edge_owner[i] = edge_owner[e] /\ i < e} = {i \in {i \in 1..N : Owner(i) = Owner(e)} : i < e}
  BY DEF Owner
<1>5. Cardinality({i \in {i \in 1..N : Owner(i) = Owner(e)} : i < e}) \in Nat
  <2>1. IsFiniteSet(1..N)
    BY <1>1, FS_Interval
  <2>2. {i \in {i \in 1..N : Owner(i) = Owner(e)} : i < e} \subseteq 1..N
    OBVIOUS
  <2> QED
    BY <2>1, <2>2, FS_Subset, FS_CardinalityType
<1> DEFINE A == {i \in 1..N : edge_owner[i] = edge_owner[e] /\ i < e}
           B == {i \in {i \in 1..N : Owner(i) = Owner(e)} : i < e}
<1>6. rows[e] = Cardinality(A) /\ A = B /\ Cardinality(B) \in Nat
  BY <1>3, <1>4, <1>5
<1> HIDE DEF A, B
<1>7. rows[e] \in Int /\ rows[e] = Cardinality(B)
  BY <1>6
<1> QED
  BY <1>7 DEF B

(* What a rank owns of the nodes that are not hot: the list build_static_     *)
(* feature_shards lays behind the hot nodes.                                  *)
LEMMA CoolInOrder ==
    ASSUME PlanInv, pc = "done", NEW rank \in Part
    PROVE  LET owned == OwnedInOrder(NodeIndex, rank)
               C == Masked(owned, {k \in DOMAIN owned : NodeIndex[owned[k]].loc >= Len(hot_node_ids)})
           IN  /\ C \in Seq(CoolAt(rank)) /\ Distinct(C) /\ Elements(C) = CoolAt(rank)
               /\ \A k \in DOMAIN C : NodeIndex[C[k]].loc = Len(hot_node_ids) + (k - 1)
<1> DEFINE index == NodeIndex
           H == Len(hot_node_ids)
           m == OwnedInOrder(index, rank)
           P == {k \in DOMAIN m : index[m[k]].loc >= H}
           C == Masked(m, P)
           S == OwnedOf(Node, index, rank)
           T == CoolAt(rank)
           loc == [x \in T |-> index[x].loc]
<1>1. /\ DOMAIN index = Node
      /\ \A n \in Node :
            /\ index[n].part = Master(n)
            /\ index[n].loc \in Int
            /\ IsHot(n) => index[n].loc = PlaceIn(hot_node_ids, n)
            /\ ~IsHot(n) => index[n].loc = H + Cardinality({y \in CoolAt(Master(n)) : y < n})
  BY NodeIndexIs
<1>2. hot_node_ids \in Seq(Node) /\ H \in Nat
  BY DEF PlanInv
<1>3. Node \in SUBSET Int /\ IsFiniteSet(Node)
  BY NodesAreFinite DEF NodesFinite, Node
<1>4. T \in SUBSET Node /\ T \in SUBSET Int /\ IsFiniteSet(T)
  <2>1. T \subseteq Node
    BY DEF CoolAt, CoolNodes
  <2> QED
    BY <1>3, <2>1, FS_Subset
<1> HIDE DEF index, H
<1>5. /\ m \in Seq(S) /\ Distinct(m) /\ Elements(m) = S
      /\ \A k, l \in DOMAIN m : k < l => index[m[k]].loc <= index[m[l]].loc
  <2>1. DOMAIN index = Node /\ \A n \in Node : index[n].loc \in Int
    BY <1>1
  <2> QED
    BY ONLY <1>3, <2>1, OwnedIs
<1> HIDE DEF m
<1>6. \A x \in Node : x \in S <=> Master(x) = rank
  BY <1>1 DEF OwnedOf
<1>7. \A x \in S : x \in Node
  BY DEF OwnedOf
<1> HIDE DEF S
<1>8. \A x \in T : x \in Node /\ ~IsHot(x) /\ Master(x) = rank
  BY DEF CoolAt, CoolNodes
<1>9. \A x \in T : index[x].loc = H + Cardinality({y \in T : y < x})
  BY <1>1, <1>8
<1>10. \A x \in S : index[x].loc >= H <=> x \in T
  <2> TAKE x \in S
  <2>1. x \in Node /\ Master(x) = rank
    BY <1>6, <1>7
  <2>2. CASE IsHot(x)
    <3>1. x \in Elements(hot_node_ids)
      BY <2>2 DEF IsHot
    <3>2. PlaceIn(hot_node_ids, x) \in 0..(Len(hot_node_ids) - 1)
      BY <1>2, <3>1, PlacedIn
    <3>3. index[x].loc = PlaceIn(hot_node_ids, x)
      BY <1>1, <2>1, <2>2
    <3>4. ~(index[x].loc >= H)
      BY <1>2, <3>2, <3>3 DEF H
    <3> QED
      BY <1>8, <2>2, <3>4
  <2>3. CASE ~IsHot(x)
    <3>1. x \in T
      BY <2>1, <2>3 DEF CoolAt, CoolNodes
    <3> DEFINE U == {y \in T : y < x}
    <3>2. U \subseteq T
      OBVIOUS
    <3>3. Cardinality(U) \in Nat
      BY <1>4, <3>2, FS_Subset, FS_CardinalityType
    <3>4. index[x].loc = H + Cardinality(U)
      BY <1>9, <3>1
    <3> QED
      BY <1>2, <3>1, <3>3, <3>4
  <2> QED
    BY <2>2, <2>3
<1>11. P \in SUBSET DOMAIN m /\ \A k \in DOMAIN m : k \in P <=> m[k] \in T
  BY <1>5, <1>10
<1> HIDE DEF P
<1>12. DOMAIN m = 1..Len(m) /\ Len(m) \in Nat /\ \A k \in DOMAIN m : m[k] \in S
  BY <1>5
<1>13. /\ C \in Seq(S) /\ DOMAIN C = DOMAIN Increasing(P)
       /\ \A k \in DOMAIN C : C[k] = m[Increasing(P)[k]] /\ Increasing(P)[k] \in P
       /\ Elements(C) = {m[i] : i \in P} /\ Distinct(C)
  <2>1. /\ Masked(m, P) \in Seq(S) /\ Len(Masked(m, P)) = Cardinality(P)
        /\ DOMAIN Masked(m, P) = DOMAIN Increasing(P)
        /\ \A k \in DOMAIN Masked(m, P) : Masked(m, P)[k] = m[Increasing(P)[k]] /\ Increasing(P)[k] \in P
        /\ Elements(Masked(m, P)) = {m[i] : i \in P}
        /\ Distinct(m) => Distinct(Masked(m, P))
    BY <1>5, <1>11, MaskedIs
  <2> QED
    BY <1>5, <2>1
<1>14. \A k, l \in DOMAIN Increasing(P) : k < l => Increasing(P)[k] < Increasing(P)[l]
  <2>1. P \in SUBSET Int /\ IsFiniteSet(P)
    <3>1. IsFiniteSet(DOMAIN m)
      BY <1>12, FS_Interval
    <3> QED
      BY <1>11, <1>12, <3>1, FS_Subset
  <2> QED
    BY <2>1, SortedList
<1>15. Elements(C) = T
  <2>1. ASSUME NEW x \in T PROVE \E i \in P : x = m[i]
    <3>1. x \in S
      BY <1>6, <1>8
    <3>2. PICK i \in DOMAIN m : m[i] = x
      BY <1>5, <3>1 DEF Elements
    <3> QED
      BY <1>11, <3>2
  <2>2. \A i \in P : m[i] \in T
    BY <1>11
  <2> QED
    BY <1>13, <2>1, <2>2
<1>16. \A k, l \in DOMAIN C : k < l => index[C[k]].loc <= index[C[l]].loc
  <2> TAKE k, l \in DOMAIN C
  <2> HAVE k < l
  <2>1. Increasing(P)[k] < Increasing(P)[l]
    BY <1>13, <1>14
  <2>2. Increasing(P)[k] \in DOMAIN m /\ Increasing(P)[l] \in DOMAIN m
    BY <1>11, <1>13
  <2> QED
    BY <1>5, <1>13, <2>1, <2>2
<1> HIDE DEF C
<1>17. C \in Seq(T)
  <2>1. \A k \in DOMAIN C : C[k] \in T
    BY <1>15 DEF Elements
  <2> QED
    BY <1>13, <2>1, WiderList
<1> HIDE DEF T
<1>18. loc \in [T -> Int] /\ \A x \in T : loc[x] = index[x].loc
  BY <1>1, <1>8
<1> HIDE DEF loc
<1>19. RankedBy(T, loc, H)
  BY <1>9, <1>18 DEF RankedBy
<1>20. \A k, l \in DOMAIN C : k < l => loc[C[k]] <= loc[C[l]]
  BY <1>16, <1>17, <1>18
<1>21. \A k \in DOMAIN C : loc[C[k]] = H + (k - 1)
  <2>1. H \in Int /\ T \in SUBSET Int /\ IsFiniteSet(T) /\ loc \in [T -> Int]
    BY <1>2, <1>4, <1>18
  <2> QED
    BY ONLY <2>1, <1>13, <1>15, <1>17, <1>19, <1>20, RankedList
<1>22. \A k \in DOMAIN C : index[C[k]].loc = H + (k - 1)
  BY <1>17, <1>18, <1>21
<1> QED
  BY <1>13, <1>15, <1>17, <1>22 DEF C, P, m, H, index, T

(* What the feature shards hold, and that they hold it where the index places *)
(* it.                                                                        *)
LEMMA NodeShardIs ==
    ASSUME PlanInv, pc = "done", NEW rank \in Part, NEW one_hop \in SUBSET CoolNodes
    PROVE  LET nodes == NodeShard(rank, one_hop)
           IN  /\ nodes \in Seq(Node) /\ Distinct(nodes)
               /\ Elements(nodes) = Elements(hot_node_ids) \cup CoolAt(rank)
                                        \cup {n \in one_hop : Master(n) # rank}
               /\ \A n \in Node : Master(n) = rank \/ IsHot(n) => StandsAt(nodes, NodeIndex[n].loc, n)
<1> DEFINE owned == OwnedInOrder(NodeIndex, rank)
           C == Masked(owned, {k \in DOMAIN owned : NodeIndex[owned[k]].loc >= Len(hot_node_ids)})
           T == CoolAt(rank)
           E == {n \in one_hop : Master(n) # rank}
           x == Increasing(E)
           hc == hot_node_ids \o C
           nodes == NodeShard(rank, one_hop)
           H == Len(hot_node_ids)
<1>1. /\ C \in Seq(T) /\ Distinct(C) /\ Elements(C) = T
      /\ \A k \in DOMAIN C : NodeIndex[C[k]].loc = Len(hot_node_ids) + (k - 1)
  BY CoolInOrder
<1>2. nodes = hc \o x
  BY DEF NodeShard
<1>3. hot_node_ids \in Seq(Node) /\ Distinct(hot_node_ids)
  BY DEF PlanInv
<1>4. T \subseteq Node /\ E \subseteq Node /\ T \cap E = {} /\ E \subseteq CoolNodes /\ T \subseteq CoolNodes
  BY DEF CoolAt, CoolNodes
<1>5. Elements(hot_node_ids) \cap CoolNodes = {}
  BY DEF CoolNodes, IsHot
<1>6. E \in SUBSET Int /\ IsFiniteSet(E)
  BY <1>4, NodesAreFinite, FS_Subset DEF NodesFinite, Node
<1> HIDE DEF C, T, E, nodes
<1>7. x \in Seq(E) /\ Elements(x) = E /\ Distinct(x)
  BY <1>6, SortedList
<1> HIDE DEF x
<1>8. /\ hc \in Seq(Node \cup T)
      /\ Len(hot_node_ids) \in Nat /\ Len(C) \in Nat /\ Len(hc) = Len(hot_node_ids) + Len(C)
      /\ DOMAIN hot_node_ids = 1..Len(hot_node_ids) /\ DOMAIN C = 1..Len(C)
      /\ DOMAIN hc = 1..(Len(hot_node_ids) + Len(C))
      /\ \A i \in 1..Len(hot_node_ids) : hc[i] = hot_node_ids[i]
      /\ \A i \in (Len(hot_node_ids) + 1)..(Len(hot_node_ids) + Len(C)) :
            hc[i] = C[i - Len(hot_node_ids)] /\ i - Len(hot_node_ids) \in 1..Len(C)
  BY <1>1, <1>3, JoinIs
<1>9. /\ Elements(hc) = Elements(hot_node_ids) \cup Elements(C)
      /\ Distinct(hot_node_ids) /\ Distinct(C) /\ Elements(hot_node_ids) \cap Elements(C) = {} => Distinct(hc)
  BY <1>1, <1>3, DistinctJoin
<1> HIDE DEF hc
<1>10. Distinct(hc) /\ Elements(hc) = Elements(hot_node_ids) \cup T
  BY <1>1, <1>3, <1>4, <1>5, <1>9
<1>11. /\ hc \o x \in Seq((Node \cup T) \cup E)
       /\ Len(hc) \in Nat /\ Len(x) \in Nat /\ Len(hc \o x) = Len(hc) + Len(x)
       /\ DOMAIN hc = 1..Len(hc) /\ DOMAIN x = 1..Len(x) /\ DOMAIN (hc \o x) = 1..(Len(hc) + Len(x))
       /\ \A i \in 1..Len(hc) : (hc \o x)[i] = hc[i]
       /\ \A i \in (Len(hc) + 1)..(Len(hc) + Len(x)) :
             (hc \o x)[i] = x[i - Len(hc)] /\ i - Len(hc) \in 1..Len(x)
  <2> DEFINE U == Node \cup T
  <2>1. hc \in Seq(U) /\ x \in Seq(E)
    BY <1>7, <1>8
  <2> HIDE DEF U
  <2>2. /\ hc \o x \in Seq(U \cup E)
        /\ Len(hc) \in Nat /\ Len(x) \in Nat /\ Len(hc \o x) = Len(hc) + Len(x)
        /\ DOMAIN hc = 1..Len(hc) /\ DOMAIN x = 1..Len(x) /\ DOMAIN (hc \o x) = 1..(Len(hc) + Len(x))
        /\ \A i \in 1..Len(hc) : (hc \o x)[i] = hc[i]
        /\ \A i \in (Len(hc) + 1)..(Len(hc) + Len(x)) :
              (hc \o x)[i] = x[i - Len(hc)] /\ i - Len(hc) \in 1..Len(x)
    BY ONLY <2>1, JoinIs
  <2> QED
    BY <2>2 DEF U
<1>12. /\ Elements(hc \o x) = Elements(hc) \cup Elements(x)
       /\ Distinct(hc) /\ Distinct(x) /\ Elements(hc) \cap Elements(x) = {} => Distinct(hc \o x)
  BY <1>7, <1>8, DistinctJoin
<1>13. Distinct(nodes) /\ Elements(nodes) = (Elements(hot_node_ids) \cup T) \cup E
  BY <1>2, <1>4, <1>5, <1>7, <1>10, <1>12
<1>14. nodes \in Seq(Node)
  <2>1. (Node \cup T) \cup E = Node
    BY <1>4
  <2> QED
    BY <1>2, <1>11, <2>1
<1>15. ASSUME NEW i \in 1..Len(hc) PROVE i \in DOMAIN nodes /\ nodes[i] = hc[i]
  BY <1>2, <1>11
<1>16. ASSUME NEW n \in Node, IsHot(n) PROVE StandsAt(nodes, NodeIndex[n].loc, n)
  <2>1. n \in Elements(hot_node_ids)
    BY <1>16 DEF IsHot
  <2>2. /\ PlaceIn(hot_node_ids, n) + 1 \in DOMAIN hot_node_ids
        /\ hot_node_ids[PlaceIn(hot_node_ids, n) + 1] = n
    BY <1>3, <2>1, PlacedIn
  <2>3. NodeIndex[n].loc = PlaceIn(hot_node_ids, n)
    BY <1>16, NodeIndexIs
  <2> DEFINE i == NodeIndex[n].loc + 1
  <2>4. i \in 1..Len(hot_node_ids) /\ hot_node_ids[i] = n
    BY <1>8, <2>2, <2>3
  <2> HIDE DEF i
  <2>5. i \in 1..Len(hc) /\ hc[i] = n
    BY <1>8, <2>4
  <2>6. i \in DOMAIN nodes /\ nodes[i] = n
    BY <1>15, <2>5
  <2> QED
    BY <2>6 DEF StandsAt, At, i
<1>17. ASSUME NEW n \in Node, ~IsHot(n), Master(n) = rank PROVE StandsAt(nodes, NodeIndex[n].loc, n)
  <2>1. n \in T
    BY <1>17 DEF T, CoolAt, CoolNodes
  <2>2. PICK k \in DOMAIN C : C[k] = n
    BY <1>1, <2>1 DEF Elements
  <2>3. NodeIndex[n].loc = Len(hot_node_ids) + (k - 1)
    BY <1>1, <2>2
  <2> DEFINE i == NodeIndex[n].loc + 1
  <2>4. i = Len(hot_node_ids) + k
    BY <1>8, <2>2, <2>3
  <2> HIDE DEF i
  <2>5. /\ i \in (Len(hot_node_ids) + 1)..(Len(hot_node_ids) + Len(C))
        /\ i - Len(hot_node_ids) = k /\ i \in 1..Len(hc)
    BY <1>8, <2>2, <2>4
  <2>6. hc[i] = n
    BY <1>8, <2>2, <2>5
  <2>7. i \in DOMAIN nodes /\ nodes[i] = n
    BY <1>15, <2>5, <2>6
  <2> QED
    BY <2>7 DEF StandsAt, At, i
<1> QED
  BY <1>13, <1>14, <1>16, <1>17 DEF nodes, T, E

LEMMA EdgeShardIs ==
    ASSUME PlanInv, pc = "done", NEW rank \in Part, NEW given \in SUBSET (1..N)
    PROVE  LET edges == EdgeShard(rank, given)
               S == {e \in 1..N : Owner(e) = rank}
           IN  /\ edges \in Seq(1..N) /\ Distinct(edges)
               /\ Elements(edges) = S \cup given
               /\ given = {} => \A e \in S : StandsAt(edges, EdgeIndex[e].loc, e)
<1> DEFINE index == EdgeIndex
           m == OwnedInOrder(index, rank)
           S == {e \in 1..N : Owner(e) = rank}
           L == OwnedOf(1..N, index, rank)
           loc == [e \in S |-> index[e].loc]
           edges == EdgeShard(rank, given)
<1>1. /\ DOMAIN index = 1..N
      /\ \A e \in 1..N :
            /\ index[e].part = Owner(e)
            /\ index[e].loc \in Int
            /\ index[e].loc = Cardinality({i \in {i \in 1..N : Owner(i) = Owner(e)} : i < e})
  BY EdgeIndexIs
<1>2. N \in Nat /\ 1..N \in SUBSET Int /\ IsFiniteSet(1..N)
  BY OwnersKnown, FS_Interval
<1>3. edges = IF given = {} THEN m ELSE Increasing(Elements(m) \cup given)
  BY DEF EdgeShard
<1> HIDE DEF index, edges
<1>4. /\ m \in Seq(L) /\ Distinct(m) /\ Elements(m) = L
      /\ \A k, l \in DOMAIN m : k < l => index[m[k]].loc <= index[m[l]].loc
  BY <1>1, <1>2, OwnedIs
<1> HIDE DEF m
<1>5. L = S
  BY <1>1 DEF OwnedOf
<1>6. \A e \in S : index[e].loc = 0 + Cardinality({i \in S : i < e})
  <2> TAKE e \in S
  <2>1. {i \in 1..N : Owner(i) = Owner(e)} = S
    OBVIOUS
  <2>2. index[e].loc = Cardinality({i \in S : i < e}) /\ index[e].loc \in Int
    BY <1>1, <2>1
  <2> QED
    BY <2>2
<1>7. S \subseteq 1..N
  OBVIOUS
<1> HIDE DEF L, S
<1>8. CASE given = {}
  <2>1. edges = m
    BY <1>3, <1>8
  <2>2. S \in SUBSET Int /\ IsFiniteSet(S)
    BY <1>2, <1>7, FS_Subset
  <2>3. loc \in [S -> Int] /\ \A e \in S : loc[e] = index[e].loc
    BY <1>1, <1>7
  <2> HIDE DEF loc
  <2>4. RankedBy(S, loc, 0)
    BY <1>6, <2>3 DEF RankedBy
  <2>5. m \in Seq(S) /\ Elements(m) = S /\ Distinct(m)
    BY <1>4, <1>5
  <2>6. DOMAIN m = 1..Len(m) /\ Len(m) \in Nat /\ \A k \in DOMAIN m : m[k] \in S
    BY <2>5
  <2>7. \A k, l \in DOMAIN m : k < l => loc[m[k]] <= loc[m[l]]
    BY <1>4, <2>3, <2>6
  <2>8. \A k \in DOMAIN m : loc[m[k]] = 0 + (k - 1)
    <3>1. 0 \in Int
      OBVIOUS
    <3> QED
      BY ONLY <3>1, <2>2, <2>3, <2>4, <2>5, <2>7, RankedList
  <2>9. ASSUME NEW e \in S PROVE StandsAt(edges, index[e].loc, e)
    <3>1. PICK k \in DOMAIN m : m[k] = e
      BY <2>5 DEF Elements
    <3>2. index[e].loc = 0 + (k - 1)
      BY <2>3, <2>8, <3>1
    <3>3. index[e].loc + 1 = k
      BY <2>6, <3>1, <3>2
    <3> QED
      BY <2>1, <3>1, <3>3 DEF StandsAt, At
  <2>10. edges \in Seq(1..N)
    <3>1. \A k \in DOMAIN m : m[k] \in 1..N
      BY <1>7, <2>6
    <3> QED
      BY <2>1, <2>5, <3>1, WiderList
  <2>11. Elements(edges) = S \cup given /\ Distinct(edges)
    BY <1>8, <2>1, <2>5
  <2> QED
    BY <2>9, <2>10, <2>11 DEF edges, S, index
<1>9. CASE given # {}
  <2> DEFINE U == S \cup given
  <2>1. edges = Increasing(U)
    BY <1>3, <1>4, <1>5, <1>9
  <2>2. U \subseteq 1..N
    BY <1>7
  <2> HIDE DEF U
  <2>3. U \in SUBSET Int /\ IsFiniteSet(U)
    BY <1>2, <2>2, FS_Subset
  <2>4. Increasing(U) \in Seq(U) /\ Elements(Increasing(U)) = U /\ Distinct(Increasing(U))
    BY <2>3, SortedList
  <2>5. \A k \in DOMAIN edges : edges[k] \in 1..N
    BY <2>1, <2>2, <2>4, ItemsOf
  <2>6. edges \in Seq(1..N)
    BY <2>1, <2>4, <2>5, WiderList
  <2> QED
    BY <1>9, <2>1, <2>4, <2>6 DEF edges, S, U
<1> QED
  BY <1>8, <1>9
-----------------------------------------------------------------------------
(* Chunks, and the order of the columns of a slice.                           *)

(* Chunks are numbers.                                                        *)
LEMMA LocalChunkIsNumber ==
    ASSUME PlanInv, pc = "done", NEW n \in Node
    PROVE  LocalChunk(n) \in Int
<1> DEFINE local == {m \in Node : Master(m) = Master(n)}
           below == {m \in local : m < n}
           row == Cardinality(below)
           count == Cardinality(local)
<1>1. ChunksPerRank \in Nat \ {0}
  BY PlanAssumption
<1>2. local \subseteq Node /\ below \subseteq local /\ n \in local /\ n \notin below
  <2>1. n \in Int
    BY DEF Node
  <2> QED
    BY <2>1
<1>3. IsFiniteSet(local) /\ IsFiniteSet(below) /\ count \in Nat /\ row \in Nat
  BY <1>2, NodesAreFinite, FS_Subset, FS_CardinalityType DEF NodesFinite
<1>4. row < count
  <2> HIDE DEF local, below
  <2>1. below # local
    BY <1>2
  <2>2. Cardinality(below) <= Cardinality(local) /\ (Cardinality(below) = Cardinality(local) => below = local)
    BY <1>2, <1>3, FS_Subset
  <2> QED
    BY <1>3, <2>1, <2>2
<1>5. count <= NumNodes
  <2>1. Cardinality(local) <= Cardinality(Node)
    BY <1>2, NodesAreFinite, FS_Subset DEF NodesFinite
  <2> QED
    BY <2>1, NodesAreFinite DEF NodesFinite
<1>6. \/ LocalChunk(n) = 0
      \/ LocalChunk(n) = row % ChunksPerRank
      \/ LocalChunk(n) = Metis(row, count)
  BY DEF LocalChunk
<1> HIDE DEF row, count
<1>7. row % ChunksPerRank \in Int
  BY <1>1, <1>3
<1>8. Metis(row, count) \in Int
  <2>1. count \in 1..NumNodes /\ row \in 0..(count - 1)
    BY <1>3, <1>4, <1>5
  <2>2. Metis(row, count) \in 0..(ChunksPerRank - 1)
    BY <2>1, PlanAssumption
  <2> QED
    BY <1>1, <2>2
<1> QED
  BY <1>6, <1>7, <1>8

(* Chunks are numbers, so they can be sorted by.                              *)
LEMMA ChunksAreNumbers ==
    ASSUME PlanInv, AssignChunks
    PROVE  node_to_chunk' \in [Node -> Int]
<1>1. ASSUME NEW n \in Node PROVE Master(n) * ChunksPerRank + LocalChunk(n) \in Int
  <2>1. Master(n) \in Int /\ LocalChunk(n) \in Int
    BY OwnersKnown, LocalChunkIsNumber DEF AssignChunks
  <2>2. ChunksPerRank \in Int
    BY PlanAssumption
  <2> QED
    BY <2>1, <2>2
<1> QED
  BY <1>1 DEF AssignChunks
-----------------------------------------------------------------------------
(* compressed sorts by one key after the other: the order it returns is one   *)
(* of all places, and the last key decides.                                   *)
IsOrder(o, n) ==
    /\ o \in [1..n -> 1..n]
    /\ \A q, w \in 1..n : o[q] = o[w] => q = w
    /\ \A i \in 1..n : \E q \in 1..n : o[q] = i

(* A stable sort of an order is an order; the last key of three decides.      *)
LEMMA SortKeepsOrder ==
    ASSUME NEW n \in Nat, NEW o, IsOrder(o, n), NEW key \in [1..n -> Int]
    PROVE  /\ IsOrder(SortedBy(o, key), n)
           /\ \A q, w \in 1..n : q < w => key[SortedBy(o, key)[q]] <= key[SortedBy(o, key)[w]]
<1> DEFINE keys == Pick(key, o)
           a == Argsort(keys)
           s == SortedBy(o, key)
<1>1. o \in [1..n -> 1..n]
  BY DEF IsOrder
<1>2. keys = [q \in 1..n |-> key[o[q]]]
  BY <1>1 DEF Pick
<1>3. keys \in [1..n -> Int]
  BY <1>1, <1>2
<1>4. s = Pick(o, a)
  BY DEF SortedBy
<1> HIDE DEF keys, s
<1>5. /\ a \in [1..n -> 1..n]
      /\ \A q, w \in 1..n : a[q] = a[w] => q = w
      /\ \A i \in 1..n : \E q \in 1..n : a[q] = i
  BY <1>3, ArgsortPermutes
<1>6. \A q, w \in 1..n : q < w => keys[a[q]] <= keys[a[w]]
  BY <1>3, ArgsortGroups
<1> HIDE DEF a
<1>7. s = [q \in 1..n |-> o[a[q]]]
  BY <1>4, <1>5 DEF Pick
<1>8. s \in [1..n -> 1..n] /\ \A q \in 1..n : a[q] \in 1..n /\ s[q] = o[a[q]]
  BY <1>1, <1>5, <1>7
<1>9. \A q, w \in 1..n : s[q] = s[w] => q = w
  <2> TAKE q, w \in 1..n
  <2> HAVE s[q] = s[w]
  <2>1. a[q] \in 1..n /\ a[w] \in 1..n /\ o[a[q]] = o[a[w]]
    BY <1>8
  <2>2. a[q] = a[w]
    BY <2>1 DEF IsOrder
  <2> QED
    BY <1>5, <2>2
<1>10. \A i \in 1..n : \E q \in 1..n : s[q] = i
  <2> TAKE i \in 1..n
  <2>1. PICK j \in 1..n : o[j] = i
    BY DEF IsOrder
  <2>2. PICK q \in 1..n : a[q] = j
    BY <1>5
  <2> QED
    BY <1>8, <2>1, <2>2
<1>11. \A q \in 1..n : key[s[q]] = keys[a[q]]
  BY <1>2, <1>8
<1> QED
  BY <1>6, <1>8, <1>9, <1>10, <1>11 DEF IsOrder, s

LEMMA CompressedIs ==
    ASSUME NEW n \in Nat, NEW column \in [1..n -> Int], NEW chunk \in [1..n -> Int], NEW time \in [1..n -> Int]
    PROVE  LET o == Compressed(column, chunk, time)
           IN  /\ IsOrder(o, n)
               /\ \A q, w \in 1..n : q < w => column[o[q]] <= column[o[w]]
<1> DEFINE first == [i \in DOMAIN column |-> i]
           timed == SortedBy(first, time)
           chunked == SortedBy(timed, chunk)
           o == SortedBy(chunked, column)
<1>1. Compressed(column, chunk, time) = o
  BY DEF Compressed
<1>2. IsOrder(first, n)
  BY DEF IsOrder
<1> HIDE DEF first
<1>3. IsOrder(timed, n)
  BY <1>2, SortKeepsOrder
<1> HIDE DEF timed
<1>4. IsOrder(chunked, n)
  BY <1>3, SortKeepsOrder
<1> HIDE DEF chunked
<1>5. IsOrder(o, n) /\ \A q, w \in 1..n : q < w => column[o[q]] <= column[o[w]]
  BY <1>4, SortKeepsOrder
<1> QED
  BY <1>1, <1>5

ChunksInv == node_to_chunk # <<>> => node_to_chunk \in [Node -> Int]

(* The nodes whose columns a rank keeps.                                      *)
DstOf(rank, hot_compute) == {n \in Node : Master(n) = rank \/ (hot_compute /\ IsHot(n))}

(* A set of nodes, listed.                                                    *)
LEMMA NodesAsList ==
    ASSUME NEW S \in SUBSET Node
    PROVE  Increasing(S) \in Seq(S) /\ Elements(Increasing(S)) = S /\ Distinct(Increasing(S))
<1>1. S \in SUBSET Int
  BY DEF Node
<1>2. IsFiniteSet(S)
  BY NodesAreFinite, FS_Subset DEF NodesFinite
<1> QED
  BY <1>1, <1>2, SortedList

(* What the lists of a slice hold: the nodes it computes, those that are not  *)
(* hot, its edges and the nodes it borrows.                                   *)
LEMMA DstNodesAre ==
    ASSUME PlanInv, pc = "done", NEW rank \in Part, NEW hot_compute \in BOOLEAN
    PROVE  LET d == DstNodes(rank, hot_compute)
           IN  d \in Seq(Node) /\ Distinct(d) /\ Elements(d) = DstOf(rank, hot_compute)
<1> DEFINE S == {n \in Node : Master(n) = rank}
           own == Increasing(S)
           P == {k \in DOMAIN hot_node_ids : Master(hot_node_ids[k]) # rank}
           h == Masked(hot_node_ids, P)
           d == DstNodes(rank, hot_compute)
<1>1. own \in Seq(S) /\ Elements(own) = S /\ Distinct(own)
  <2>1. S \in SUBSET Node
    OBVIOUS
  <2> HIDE DEF S
  <2> QED
    BY <2>1, NodesAsList
<1>2. hot_node_ids \in Seq(Node) /\ Distinct(hot_node_ids)
  BY DEF PlanInv
<1>3. d = own \o (IF hot_compute THEN h ELSE <<>>)
  BY DEF DstNodes
<1>4. P \in SUBSET DOMAIN hot_node_ids
  OBVIOUS
<1>5. S \subseteq Node /\ \A n \in Node : n \in S <=> Master(n) = rank
  OBVIOUS
<1>6. \A k \in DOMAIN hot_node_ids : k \in P <=> Master(hot_node_ids[k]) # rank
  OBVIOUS
<1> HIDE DEF P, own, d
<1>7. h \in Seq(Node) /\ Elements(h) = {hot_node_ids[i] : i \in P} /\ Distinct(h)
  <2>1. /\ Masked(hot_node_ids, P) \in Seq(Node) /\ Len(Masked(hot_node_ids, P)) = Cardinality(P)
        /\ DOMAIN Masked(hot_node_ids, P) = DOMAIN Increasing(P)
        /\ \A k \in DOMAIN Masked(hot_node_ids, P) :
              Masked(hot_node_ids, P)[k] = hot_node_ids[Increasing(P)[k]] /\ Increasing(P)[k] \in P
        /\ Elements(Masked(hot_node_ids, P)) = {hot_node_ids[i] : i \in P}
        /\ Distinct(hot_node_ids) => Distinct(Masked(hot_node_ids, P))
    BY <1>2, <1>4, MaskedIs
  <2> QED
    BY <1>2, <2>1
<1>8. Elements(h) = {n \in Node : IsHot(n) /\ Master(n) # rank}
  <2>1. \A i \in P : hot_node_ids[i] \in Node /\ IsHot(hot_node_ids[i]) /\ Master(hot_node_ids[i]) # rank
    BY <1>2, <1>4, <1>6 DEF IsHot, Elements
  <2>2. ASSUME NEW n \in Node, IsHot(n), Master(n) # rank PROVE \E i \in P : n = hot_node_ids[i]
    BY <1>6, <2>2 DEF IsHot, Elements
  <2> QED
    BY <1>7, <2>1, <2>2
<1> HIDE DEF h, S
<1>9. CASE hot_compute
  <2>1. d = own \o h
    BY <1>3, <1>9
  <2>2. /\ Elements(own \o h) = Elements(own) \cup Elements(h)
        /\ Distinct(own) /\ Distinct(h) /\ Elements(own) \cap Elements(h) = {} => Distinct(own \o h)
    BY <1>1, <1>7, DistinctJoin
  <2>3. own \in Seq(Node)
    BY <1>1, <1>5
  <2>4. own \o h \in Seq(Node)
    BY <1>7, <2>3
  <2>5. Elements(own) \cap Elements(h) = {}
    BY <1>1, <1>5, <1>8
  <2>6. Elements(d) = DstOf(rank, hot_compute)
    BY <1>1, <1>5, <1>8, <1>9, <2>1, <2>2 DEF DstOf
  <2> QED
    BY <1>1, <1>7, <2>1, <2>2, <2>4, <2>5, <2>6 DEF d
<1>10. CASE ~hot_compute
  <2>1. own \in Seq(Node) /\ own \o <<>> = own
    BY <1>1, <1>5
  <2>2. d = own
    BY <1>3, <1>10, <2>1
  <2>3. Elements(d) = DstOf(rank, hot_compute)
    BY <1>1, <1>5, <1>10, <2>2 DEF DstOf
  <2> QED
    BY <1>1, <2>1, <2>2, <2>3 DEF d
<1> QED
  BY <1>9, <1>10

LEMMA CoolIs ==
    ASSUME NEW list \in Seq(Node)
    PROVE  /\ Cool(list) \in Seq(Node) /\ Elements(Cool(list)) = Elements(list) \cap CoolNodes
           /\ Distinct(list) => Distinct(Cool(list))
<1> DEFINE P == {k \in DOMAIN list : ~IsHot(list[k])}
<1>1. P \in SUBSET DOMAIN list /\ \A k \in DOMAIN list : k \in P <=> ~IsHot(list[k])
  OBVIOUS
<1>2. Cool(list) = Masked(list, P)
  BY DEF Cool
<1> HIDE DEF P
<1>3. /\ Masked(list, P) \in Seq(Node) /\ Len(Masked(list, P)) = Cardinality(P)
      /\ DOMAIN Masked(list, P) = DOMAIN Increasing(P)
      /\ \A k \in DOMAIN Masked(list, P) : Masked(list, P)[k] = list[Increasing(P)[k]] /\ Increasing(P)[k] \in P
      /\ Elements(Masked(list, P)) = {list[i] : i \in P}
      /\ Distinct(list) => Distinct(Masked(list, P))
  BY <1>1, MaskedIs
<1>4. {list[i] : i \in P} = Elements(list) \cap CoolNodes
  <2>1. \A k \in DOMAIN list : list[k] \in Node
    OBVIOUS
  <2> QED
    BY <1>1, <2>1 DEF Elements, CoolNodes
<1> QED
  BY <1>2, <1>3, <1>4

LEMMA EdgesIntoAre ==
    ASSUME NEW edges \in Seq(1..N), NEW d
    PROVE  /\ Into(d, edges) \in Seq(1..N)
           /\ Elements(Into(d, edges)) = {e \in Elements(edges) : events[e].dst \in Elements(d)}
           /\ Distinct(edges) => Distinct(Into(d, edges))
<1> DEFINE P == {i \in DOMAIN edges : events[edges[i]].dst \in Elements(d)}
<1>1. P \in SUBSET DOMAIN edges /\ \A k \in DOMAIN edges : k \in P <=> events[edges[k]].dst \in Elements(d)
  OBVIOUS
<1>2. Into(d, edges) = Masked(edges, P)
  BY DEF Into
<1> HIDE DEF P
<1>3. /\ Masked(edges, P) \in Seq(1..N) /\ Len(Masked(edges, P)) = Cardinality(P)
      /\ DOMAIN Masked(edges, P) = DOMAIN Increasing(P)
      /\ \A k \in DOMAIN Masked(edges, P) : Masked(edges, P)[k] = edges[Increasing(P)[k]] /\ Increasing(P)[k] \in P
      /\ Elements(Masked(edges, P)) = {edges[i] : i \in P}
      /\ Distinct(edges) => Distinct(Masked(edges, P))
  BY <1>1, MaskedIs
<1>4. {edges[i] : i \in P} = {e \in Elements(edges) : events[e].dst \in Elements(d)}
  BY <1>1 DEF Elements
<1> QED
  BY <1>2, <1>3, <1>4

LEMMA EdgesOutOfAre ==
    ASSUME NEW edges \in Seq(1..N), NEW d
    PROVE  /\ Outgoing(d, edges) \in Seq(1..N)
           /\ Elements(Outgoing(d, edges)) = {e \in Elements(edges) : events[e].src \in Elements(d)}
           /\ Distinct(edges) => Distinct(Outgoing(d, edges))
<1> DEFINE P == {i \in DOMAIN edges : events[edges[i]].src \in Elements(d)}
<1>1. P \in SUBSET DOMAIN edges /\ \A k \in DOMAIN edges : k \in P <=> events[edges[k]].src \in Elements(d)
  OBVIOUS
<1>2. Outgoing(d, edges) = Masked(edges, P)
  BY DEF Outgoing
<1> HIDE DEF P
<1>3. /\ Masked(edges, P) \in Seq(1..N) /\ Len(Masked(edges, P)) = Cardinality(P)
      /\ DOMAIN Masked(edges, P) = DOMAIN Increasing(P)
      /\ \A k \in DOMAIN Masked(edges, P) : Masked(edges, P)[k] = edges[Increasing(P)[k]] /\ Increasing(P)[k] \in P
      /\ Elements(Masked(edges, P)) = {edges[i] : i \in P}
      /\ Distinct(edges) => Distinct(Masked(edges, P))
  BY <1>1, MaskedIs
<1>4. {edges[i] : i \in P} = {e \in Elements(edges) : events[e].src \in Elements(d)}
  BY <1>1 DEF Elements
<1> QED
  BY <1>2, <1>3, <1>4

(* The sources a rank borrows.                                                *)
RemoteOf(d, edges, diffusion) ==
    ({events[e].src : e \in {e \in Elements(edges) : events[e].dst \in Elements(d)}}
        \cup (IF diffusion THEN {events[e].dst : e \in {e \in Elements(edges) : events[e].src \in Elements(d)}} ELSE {}))
            \ Elements(d)

LEMMA RemoteSrcIs ==
    ASSUME PlanInv, pc = "done", NEW edges \in Seq(1..N), NEW d, NEW diffusion \in BOOLEAN
    PROVE  LET r == RemoteSrc(d, edges, diffusion)
           IN  /\ r = Increasing(RemoteOf(d, edges, diffusion))
               /\ r \in Seq(Node) /\ Distinct(r) /\ Elements(r) = RemoteOf(d, edges, diffusion)
               /\ RemoteOf(d, edges, diffusion) \cap Elements(d) = {}
<1> DEFINE I == {e \in Elements(edges) : events[e].dst \in Elements(d)}
           O == {e \in Elements(edges) : events[e].src \in Elements(d)}
           r == RemoteSrc(d, edges, diffusion)
           R == RemoteOf(d, edges, diffusion)
<1>1. Elements(Into(d, edges)) = I
  BY EdgesIntoAre
<1>2. Elements(Outgoing(d, edges)) = O
  BY EdgesOutOfAre
<1>3. \A e \in Elements(edges) : events[e].src \in Node /\ events[e].dst \in Node
  <2>1. \A e \in 1..N : events[e].src \in Node /\ events[e].dst \in Node
    BY OwnersKnown
  <2>2. \A e \in Elements(edges) : e \in 1..N
    <3>1. \A k \in DOMAIN edges : edges[k] \in 1..N
      BY ItemsOf
    <3> QED
      BY <3>1 DEF Elements
  <2> QED
    BY <2>1, <2>2
<1>4. I \subseteq Elements(edges) /\ O \subseteq Elements(edges)
  OBVIOUS
<1>5. R = ({events[e].src : e \in I} \cup (IF diffusion THEN {events[e].dst : e \in O} ELSE {})) \ Elements(d)
  BY DEF RemoteOf
<1> HIDE DEF I, O, R
<1>6. r = Increasing(({events[e].src : e \in I} \cup {events[e].dst : e \in (IF diffusion THEN O ELSE {})}) \ Elements(d))
  BY <1>1, <1>2 DEF RemoteSrc
<1>7. {events[e].dst : e \in (IF diffusion THEN O ELSE {})} = IF diffusion THEN {events[e].dst : e \in O} ELSE {}
  OBVIOUS
<1>8. r = Increasing(R)
  BY <1>5, <1>6, <1>7
<1>9. R \in SUBSET Node /\ R \cap Elements(d) = {}
  BY <1>3, <1>4, <1>5
<1> HIDE DEF r
<1>10. Increasing(R) \in Seq(R) /\ Elements(Increasing(R)) = R /\ Distinct(Increasing(R))
  BY <1>9, NodesAsList
<1>11. r \in Seq(Node)
  BY <1>8, <1>9, <1>10
<1> QED
  BY <1>8, <1>9, <1>10, <1>11 DEF r, R

Columns(d, local) == [i \in DOMAIN local |-> RowIn(d, events[local[i]].dst)]
ChunksOf(local) == [i \in DOMAIN local |-> node_to_chunk[events[local[i]].src]]
TimesOf(local) == [i \in DOMAIN local |-> events[local[i]].ts]
OrderOf(d, local) == Compressed(Columns(d, local), ChunksOf(local), TimesOf(local))

(* A slice has a column for each edge, and sorted they are all its edges.     *)
LEMMA SliceOrder ==
    ASSUME PlanInv, pc = "done", node_to_chunk \in [Node -> Int],
           NEW d \in Seq(Node), NEW local \in Seq(1..N), \A i \in DOMAIN local : events[local[i]].dst \in Elements(d)
    PROVE  LET n == Len(local)
               column == Columns(d, local)
               o == OrderOf(d, local)
           IN  /\ n \in Nat /\ DOMAIN local = 1..n /\ DOMAIN o = 1..n
               /\ column \in [1..n -> Int]
               /\ \A i \in 1..n : column[i] \in 0..(Len(d) - 1) /\ d[column[i] + 1] = events[local[i]].dst
               /\ IsOrder(o, n)
               /\ \A q, w \in 1..n : q < w => column[o[q]] <= column[o[w]]
<1> DEFINE n == Len(local)
           column == Columns(d, local)
           chunk == ChunksOf(local)
           time == TimesOf(local)
           o == OrderOf(d, local)
<1>1. n \in Nat /\ DOMAIN local = 1..n /\ \A i \in 1..n : local[i] \in 1..N
  BY ItemsOf
<1>2. \A e \in 1..N : events[e].src \in Node /\ events[e].ts \in Int
  <2>1. \A e \in 1..N : events[e].src \in Node
    BY OwnersKnown
  <2>2. \A e \in 1..N : events[e] \in Edge
    BY OwnersKnown
  <2>3. \A x \in Edge : x.ts \in Int
    BY DEF Edge
  <2> QED
    BY <2>1, <2>2, <2>3
<1>3. \A i \in 1..n : column[i] \in 0..(Len(d) - 1) /\ d[column[i] + 1] = events[local[i]].dst
  <2> TAKE i \in 1..n
  <2> DEFINE x == events[local[i]].dst
  <2>1. x \in Elements(d)
    BY <1>1
  <2>2. column[i] = RowIn(d, x)
    BY <1>1 DEF Columns
  <2> HIDE DEF x, column
  <2>3. PlaceIn(d, x) \in 0..(Len(d) - 1) /\ RowIn(d, x) = PlaceIn(d, x) /\ d[PlaceIn(d, x) + 1] = x
    BY <2>1, PlacedIn
  <2>4. column[i] \in 0..(Len(d) - 1) /\ d[column[i] + 1] = x
    BY <2>2, <2>3
  <2> QED
    BY <2>4 DEF x
<1>4. column \in [1..n -> Int]
  <2>1. column = [i \in 1..n |-> column[i]]
    BY <1>1 DEF Columns
  <2>2. \A i \in 1..n : column[i] \in Int
    BY <1>3
  <2> HIDE DEF column
  <2> QED
    BY <2>1, <2>2
<1>5. chunk \in [1..n -> Int]
  <2>1. chunk = [i \in 1..n |-> node_to_chunk[events[local[i]].src]]
    BY <1>1 DEF ChunksOf
  <2>2. \A i \in 1..n : node_to_chunk[events[local[i]].src] \in Int
    BY <1>1, <1>2
  <2> HIDE DEF chunk
  <2> QED
    BY <2>1, <2>2
<1>6. time \in [1..n -> Int]
  <2>1. time = [i \in 1..n |-> events[local[i]].ts]
    BY <1>1 DEF TimesOf
  <2>2. \A i \in 1..n : events[local[i]].ts \in Int
    BY <1>1, <1>2
  <2> HIDE DEF time
  <2> QED
    BY <2>1, <2>2
<1> HIDE DEF n, column, chunk, time
<1>7. LET c == Compressed(column, chunk, time)
      IN  IsOrder(c, n) /\ \A q, w \in 1..n : q < w => column[c[q]] <= column[c[w]]
  BY <1>1, <1>4, <1>5, <1>6, CompressedIs
<1>8. o = Compressed(column, chunk, time)
  BY DEF OrderOf, column, chunk, time
<1> HIDE DEF o
<1>9. IsOrder(o, n) /\ \A q, w \in 1..n : q < w => column[o[q]] <= column[o[w]]
  BY <1>7, <1>8
<1>10. DOMAIN o = 1..n
  BY <1>9 DEF IsOrder
<1> QED
  BY <1>1, <1>3, <1>4, <1>9, <1>10 DEF n, column, o

(* What the feature shards rely on.                                           *)
Nameable(slice) ==
    /\ Elements(slice.node_feature_ids) \subseteq CoolNodes
    /\ \A n \in Elements(slice.src_nodes) : n \in Node /\ (n \in CoolNodes => n \in Elements(slice.node_feature_ids))
    /\ Elements(slice.edge_ids) \subseteq 1..N

(* Whatever a slice names has a row in the shards.                            *)
LEMMA SliceNameable ==
    ASSUME PlanInv, pc = "done", node_to_chunk \in [Node -> Int],
           NEW rank \in Part, NEW edges \in Seq(1..N), NEW hot_compute \in BOOLEAN, NEW diffusion \in BOOLEAN
    PROVE  Nameable(Slice(rank, edges, hot_compute, diffusion))
<1> DEFINE s == Slice(rank, edges, hot_compute, diffusion)
           d == DstNodes(rank, hot_compute)
           r == RemoteSrc(d, edges, diffusion)
           local == Into(d, edges)
           n == Len(local)
           o == OrderOf(d, local)
<1>1. /\ s.src_nodes = d \o r
      /\ s.edge_ids = Pick(local, o)
      /\ s.node_feature_ids = Cool(d) \o Cool(r)
  BY DEF Slice, OrderOf, Columns, ChunksOf, TimesOf
<1>2. d \in Seq(Node)
  BY DstNodesAre
<1> HIDE DEF d
<1>3. r \in Seq(Node)
  BY RemoteSrcIs
<1> HIDE DEF r, s
<1>4. Elements(d \o r) = Elements(d) \cup Elements(r)
  BY <1>2, <1>3, DistinctJoin
<1>5. /\ Cool(d) \in Seq(Node) /\ Elements(Cool(d)) = Elements(d) \cap CoolNodes
      /\ Cool(r) \in Seq(Node) /\ Elements(Cool(r)) = Elements(r) \cap CoolNodes
  BY <1>2, <1>3, CoolIs
<1>6. Elements(Cool(d) \o Cool(r)) = Elements(Cool(d)) \cup Elements(Cool(r))
  BY <1>5, DistinctJoin
<1>7. Elements(d) \subseteq Node /\ Elements(r) \subseteq Node
  BY <1>2, <1>3 DEF Elements
<1>8. /\ local \in Seq(1..N)
      /\ Elements(local) = {e \in Elements(edges) : events[e].dst \in Elements(d)}
  BY EdgesIntoAre
<1> HIDE DEF local
<1>9. \A i \in DOMAIN local : events[local[i]].dst \in Elements(d)
  BY <1>8 DEF Elements
<1>10. DOMAIN local = 1..n /\ IsOrder(o, n)
  BY <1>2, <1>8, <1>9, SliceOrder
<1> HIDE DEF o, n
<1>11. Elements(Pick(local, o)) \subseteq 1..N
  <2>1. \A q \in DOMAIN o : o[q] \in 1..n
    BY <1>10 DEF IsOrder
  <2>2. \A i \in 1..n : local[i] \in 1..N
    BY <1>8, <1>10, ItemsOf
  <2> QED
    BY <2>1, <2>2 DEF Pick, Elements
<1>12. Nameable(s)
  BY <1>1, <1>4, <1>5, <1>6, <1>7, <1>11 DEF Nameable
<1> QED
  BY <1>12 DEF s
-----------------------------------------------------------------------------
(* Views and shards: what a slice names has a row.                            *)

(* A view is a slice but for its route.                                       *)
Shows(v, s) ==
    /\ v.src_nodes = s.src_nodes /\ v.dst_nodes = s.dst_nodes
    /\ v.edge_ids = s.edge_ids /\ v.indptr = s.indptr /\ v.indices = s.indices
    /\ v.node_feature_ids = s.node_feature_ids /\ v.src_feature_row = s.src_feature_row
    /\ v.reverse_row = s.reverse_row /\ v.reverse_col = s.reverse_col
    /\ v.recv_nodes = s.recv_nodes

AllSlices(edges, hot_compute, diffusion) == [rank \in Part |-> Slice(rank, edges, hot_compute, diffusion)]

(* A view is the slice of its rank and the route over all slices.             *)
LEMMA ViewFields ==
    ASSUME NEW edges, NEW hot_compute, NEW diffusion, NEW rank \in Part
    PROVE  /\ Shows(SnapshotViews(edges, hot_compute, diffusion)[rank], Slice(rank, edges, hot_compute, diffusion))
           /\ SnapshotViews(edges, hot_compute, diffusion)[rank].route
                  = Route(AllSlices(edges, hot_compute, diffusion), rank)
<1> DEFINE s == Slice(rank, edges, hot_compute, diffusion)
           route == Route(AllSlices(edges, hot_compute, diffusion), rank)
           v == SnapshotViews(edges, hot_compute, diffusion)[rank]
<1>1. v = [s EXCEPT !.route = route]
  BY DEF SnapshotViews, AllSlices
<1>2. DOMAIN s = {"src_nodes", "dst_nodes", "edge_ids", "indptr", "indices", "node_feature_ids",
                  "src_feature_row", "reverse_row", "reverse_col", "recv_nodes", "route"}
  BY DEF Slice
<1> HIDE DEF s, route, v
<1>3. s = [x \in DOMAIN s |-> s[x]]
  BY DEF s, Slice
<1> QED
  BY <1>1, <1>2, <1>3 DEF s, route, v, Shows
-----------------------------------------------------------------------------
(* Windows lie within the events.                                             *)
LEMMA WindowsWithin ==
    ASSUME StageInv, stage # "plan"
    PROVE  /\ Len(Windows) \in Nat /\ DOMAIN Windows = 1..Len(Windows)
           /\ \A k \in DOMAIN Windows : Windows[k].begin \in Nat /\ Windows[k].end \in 0..N
<1>1. N \in Nat
  BY TimesOrdered
<1>2. CASE way.by # "windows"
  <2>1. Tiled(Windows, 0, N)
    BY <1>2, SplitsTile
  <2>2. Windows \in Seq([begin: 0..N, end: 0..N])
    BY <2>1 DEF Tiled
  <2>3. /\ Len(Windows) \in Nat /\ DOMAIN Windows = 1..Len(Windows)
        /\ \A k \in DOMAIN Windows : /\ Windows[k] \in [begin: 0..N, end: 0..N]
                                    /\ Windows[k].begin \in 0..N /\ Windows[k].end \in 0..N
    BY <2>2, InWindows
  <2> QED
    BY <1>1, <2>3
<1>3. CASE way.by = "windows"
  <2> DEFINE w == way.windows
             f == way.first
             g == way.second
             V == {x \in Window : x.end <= N}
  <2>1. way \in Ways /\ Applies(way) /\ split = Divided(way, cut)
    BY DEF StageInv, Chosen
  <2>2. w \in Seq(Window) /\ f \in 0..Len(w) /\ g \in f..Len(w)
    BY <1>3, <2>1, PrepareAssumption
  <2>3. \A k \in DOMAIN w : w[k].end <= N
    BY <1>3, <2>1 DEF Applies, N
  <2>4. split = DealtOut(w, f, g)
    BY <1>3, <2>1 DEF Divided
  <2> HIDE DEF w, f, g
  <2>5. w \in Seq(V)
    <3>1. Len(w) \in Nat /\ DOMAIN w = 1..Len(w) /\ \A k \in DOMAIN w : w[k] \in Window
      BY <2>2, ItemsOf
    <3>2. \A k \in DOMAIN w : w[k] \in V
      BY <2>3, <3>1
    <3> HIDE DEF V
    <3> QED
      BY <2>2, <3>2, WiderList
  <2> HIDE DEF V
  <2>6. /\ Len(w) \in Nat
        /\ SubSeq(w, 1, f) \in Seq(V) /\ SubSeq(w, f + 1, g) \in Seq(V) /\ SubSeq(w, g + 1, Len(w)) \in Seq(V)
    <3>1. Len(w) \in Nat /\ f \in Nat /\ g \in Nat /\ f <= g /\ g <= Len(w) /\ f <= Len(w)
      BY <2>2
    <3>2. \A i, j \in Nat : i >= 1 /\ j <= Len(w) => SubSeq(w, i, j) \in Seq(V)
      <4> TAKE i, j \in Nat
      <4> HAVE i >= 1 /\ j <= Len(w)
      <4>1. \A h \in i..j : h \in 1..Len(w) /\ w[h] \in V
        BY <2>5, <3>1
      <4> QED
        BY <2>5, <3>1, <4>1
    <3>3. 1 \in Nat /\ f + 1 \in Nat /\ g + 1 \in Nat /\ f + 1 >= 1 /\ g + 1 >= 1 /\ 1 >= 1 /\ Len(w) <= Len(w)
      BY <3>1
    <3> QED
      BY <3>1, <3>2, <3>3
  <2>7. Windows = SubSeq(w, 1, f) \o SubSeq(w, f + 1, g) \o SubSeq(w, g + 1, Len(w))
    BY <2>4 DEF Windows, AllWindows, DealtOut
  <2>8. Windows \in Seq(V)
    BY <2>6, <2>7
  <2>9. Len(Windows) \in Nat /\ DOMAIN Windows = 1..Len(Windows) /\ \A k \in DOMAIN Windows : Windows[k] \in V
    BY <2>8, ItemsOf
  <2>10. \A x \in V : x.begin \in Nat /\ x.end \in 0..N
    BY <1>1 DEF V, Window
  <2> QED
    BY <2>9, <2>10
<1> QED
  BY <1>2, <1>3

EdgesOf(window) == [i \in 1..(window.end - window.begin) |-> window.begin + i]

(* The edges of a window are its rows.                                        *)
LEMMA EdgesOfWindow ==
    ASSUME N \in Nat, NEW w, w.begin \in Nat, w.end \in 0..N
    PROVE  EdgesOf(w) \in Seq(1..N) /\ Distinct(EdgesOf(w)) /\ Elements(EdgesOf(w)) = Rows(w)
<1> DEFINE b == w.begin
           z == w.end
           list == EdgesOf(w)
           n == IF z >= b THEN z - b ELSE 0
<1>1. b \in Nat /\ z \in 0..N /\ list = [i \in 1..(z - b) |-> b + i] /\ Rows(w) = (b + 1)..z
  BY DEF EdgesOf, Rows
<1> HIDE DEF b, z, list
<1>2. n \in Nat /\ list = [i \in 1..n |-> b + i]
  <2>1. 1..(z - b) = 1..n
    BY <1>1
  <2> QED
    BY <1>1, <2>1
<1>3. \A i \in 1..n : b + i \in 1..N /\ b + i \in (b + 1)..z
  BY <1>1
<1>4. \A e \in (b + 1)..z : e - b \in 1..n /\ b + (e - b) = e
  BY <1>1
<1> HIDE DEF n
<1>5. list \in [1..n -> 1..N]
  BY <1>2, <1>3
<1>6. list \in Seq(1..N) /\ DOMAIN list = 1..n
  BY <1>2, <1>5, ListOf
<1>7. \A i \in 1..n : list[i] = b + i
  BY <1>2
<1>8. Distinct(list)
  <2>1. \A i, j \in 1..n : b + i = b + j => i = j
    BY <1>1, <1>2
  <2> QED
    BY <1>6, <1>7, <2>1 DEF Distinct
<1>9. Elements(list) = (b + 1)..z
  <2>1. \A e \in (b + 1)..z : \E i \in 1..n : e = list[i]
    BY <1>4, <1>7
  <2>2. \A i \in 1..n : list[i] \in (b + 1)..z
    BY <1>3, <1>7
  <2> QED
    BY <1>6, <2>1, <2>2 DEF Elements
<1> QED
  BY <1>1, <1>6, <1>8, <1>9 DEF list

ViewsInv ==
    /\ \E V : snapshot_csc_views \in Seq(V)
    /\ \A k \in DOMAIN snapshot_csc_views, rank \in Part : Nameable(snapshot_csc_views[k][rank])

FeatureInv == StageInv /\ ChunksInv /\ ViewsInv /\ FeaturesWherePlaced

(* The index depends on the plan alone.                                       *)
LEMMA IndicesStay ==
    ASSUME UNCHANGED partition
    PROVE  /\ NodeIndex' = NodeIndex /\ EdgeIndex' = EdgeIndex
           /\ CoolNodes' = CoolNodes /\ N' = N
           /\ \A n : Master(n)' = Master(n) /\ (IsHot(n)' <=> IsHot(n)) /\ Owner(n)' = Owner(n)
<1>1. \A n : Master(n)' = Master(n) /\ (IsHot(n)' <=> IsHot(n)) /\ Owner(n)' = Owner(n)
  BY DEF partition, Master, IsHot, Owner
<1>2. CoolNodes' = CoolNodes /\ N' = N
  BY DEF partition, CoolNodes, IsHot, N
<1>3. Cooler' = Cooler
  BY DEF Cooler, partition, IsHot
<1>4. NodeIndex' = NodeIndex
  BY <1>3 DEF NodeIndex, Master, IsHot, partition
<1>5. EdgeIndex' = EdgeIndex
  BY DEF EdgeIndex, Owner, partition
<1> QED
  BY <1>1, <1>2, <1>4, <1>5

(* Views are built once, from slices whose names have rows; no other step     *)
(* touches them.                                                              *)
LEMMA ViewsStep ==
    ASSUME StageInv, ChunksInv, ViewsInv, BuildSnapshot
    PROVE  ViewsInv'
<1> DEFINE k == Len(snapshot_csc_views) + 1
           hc == "snapshot_hot_compute" \in layouts
           df == "snapshot_diffusion" \in layouts
           w == Windows[k]
           v == SnapshotViews(EdgesOf(w), hc, df)
           old == snapshot_csc_views
           new == snapshot_csc_views'
<1>1. /\ stage = "snapshots" /\ k \in DOMAIN Windows
      /\ new = Append(old, v) /\ UNCHANGED <<partition, planned>>
  BY DEF BuildSnapshot, EdgesOf
<1>2. PlanInv /\ pc = "done" /\ node_to_chunk \in [Node -> Int]
  BY <1>1 DEF StageInv, Chosen, Staged, ChunksInv
<1>3. w.begin \in Nat /\ w.end \in 0..N /\ N \in Nat
  BY <1>1, WindowsWithin, TimesOrdered
<1> HIDE DEF w
<1>4. EdgesOf(w) \in Seq(1..N)
  BY <1>3, EdgesOfWindow
<1>5. hc \in BOOLEAN /\ df \in BOOLEAN
  OBVIOUS
<1> HIDE DEF hc, df
<1>6. ASSUME NEW rank \in Part PROVE Nameable(v[rank])
  <2>1. Nameable(Slice(rank, EdgesOf(w), hc, df))
    BY <1>2, <1>4, <1>5, SliceNameable
  <2>2. Shows(v[rank], Slice(rank, EdgesOf(w), hc, df))
    BY ViewFields
  <2> QED
    BY <2>1, <2>2 DEF Nameable, Shows
<1> HIDE DEF v
<1>7. PICK V : old \in Seq(V)
  BY DEF ViewsInv
<1>8. old \in Seq(V \cup {v})
  <2>1. \A i \in DOMAIN old : old[i] \in V \cup {v}
    BY <1>7, ItemsOf
  <2> QED
    BY <1>7, <2>1, WiderList
<1>9. /\ new \in Seq(V \cup {v}) /\ k \in Nat /\ DOMAIN new = 1..k
      /\ \A i \in 1..k : IF i = k THEN new[i] = v ELSE i \in DOMAIN old /\ new[i] = old[i]
  BY <1>1, <1>8
<1> HIDE DEF k
<1>10. ASSUME NEW i \in DOMAIN new, NEW rank \in Part PROVE Nameable(new[i][rank])
  <2>1. CASE i = k
    BY <1>6, <1>9, <2>1
  <2>2. CASE i # k
    <3>1. i \in DOMAIN old /\ new[i] = old[i]
      BY <1>9, <2>2
    <3> QED
      BY <3>1 DEF ViewsInv
  <2> QED
    BY <2>1, <2>2
<1>11. CoolNodes' = CoolNodes /\ N' = N
  BY <1>1, IndicesStay
<1>12. \A i \in DOMAIN new, rank \in Part : Nameable(snapshot_csc_views[i][rank])'
  BY <1>10, <1>11 DEF Nameable
<1> QED
  BY <1>9, <1>12 DEF ViewsInv

LEMMA ViewsStay ==
    ASSUME ViewsInv, UNCHANGED <<partition, snapshot_csc_views>>
    PROVE  ViewsInv'
<1>1. CoolNodes' = CoolNodes /\ N' = N
  BY IndicesStay
<1> QED
  BY <1>1 DEF ViewsInv, Nameable

(* Nor does a step after the shards are built touch what they follow.         *)
LEMMA FeaturesStay ==
    ASSUME FeaturesWherePlaced,
           UNCHANGED <<partition, node_shards, edge_shards, include_one_hop, snapshot_csc_views>>
    PROVE  FeaturesWherePlaced'
<1>1. /\ NodeIndex' = NodeIndex /\ EdgeIndex' = EdgeIndex
      /\ \A n : Master(n)' = Master(n) /\ (IsHot(n)' <=> IsHot(n)) /\ Owner(n)' = Owner(n)
  BY IndicesStay
<1>2. events' = events
  BY DEF partition
<1> QED
  BY <1>1, <1>2 DEF FeaturesWherePlaced

(* The shards hold what the views name.                                       *)
LEMMA FeaturesStep ==
    ASSUME StageInv, ViewsInv, BuildFeatureShards
    PROVE  FeaturesWherePlaced'
<1> DEFINE hop == include_one_hop'
           nodesNamed(rank) == IF hop THEN Named(rank, "node_feature_ids") ELSE {}
           edgesNamed(rank) == IF hop THEN Named(rank, "edge_ids") ELSE {}
<1>1. /\ stage = "snapshots" /\ UNCHANGED <<partition, planned, snapshot_csc_views>>
      /\ node_shards' = [rank \in Part |-> NodeShard(rank, nodesNamed(rank))]
      /\ edge_shards' = [rank \in Part |-> EdgeShard(rank, edgesNamed(rank))]
  BY DEF BuildFeatureShards
<1>2. PlanInv /\ pc = "done" /\ DOMAIN events = 1..N
  BY <1>1, TimesOrdered DEF StageInv, Chosen, Staged
<1>3. /\ NodeIndex' = NodeIndex /\ EdgeIndex' = EdgeIndex /\ events' = events
      /\ \A n : Master(n)' = Master(n) /\ (IsHot(n)' <=> IsHot(n)) /\ Owner(n)' = Owner(n)
  BY <1>1, IndicesStay DEF partition
<1>4. ASSUME NEW rank \in Part
      PROVE  nodesNamed(rank) \in SUBSET CoolNodes /\ edgesNamed(rank) \in SUBSET (1..N)
  <2>1. \A k \in DOMAIN snapshot_csc_views :
           /\ Elements(snapshot_csc_views[k][rank].node_feature_ids) \subseteq CoolNodes
           /\ Elements(snapshot_csc_views[k][rank].edge_ids) \subseteq 1..N
    BY DEF ViewsInv, Nameable
  <2> QED
    BY <2>1 DEF Named
<1>5. ASSUME NEW rank \in Part, hop, NEW k \in DOMAIN snapshot_csc_views
      PROVE  /\ Elements(snapshot_csc_views[k][rank].node_feature_ids) \subseteq nodesNamed(rank)
             /\ Elements(snapshot_csc_views[k][rank].edge_ids) \subseteq edgesNamed(rank)
  BY <1>5 DEF Named
<1>6. \A rank \in Part : ~hop => edgesNamed(rank) = {}
  OBVIOUS
<1> HIDE DEF nodesNamed, edgesNamed, hop
<1> SUFFICES ASSUME NEW rank \in Part
             PROVE  LET nodes == node_shards'[rank]
                        edges == edge_shards'[rank]
                    IN  /\ \A n \in Node : Master(n) = rank \/ IsHot(n) =>
                               StandsAt(nodes, NodeIndex[n].loc, n)
                        /\ \A e \in DOMAIN events : Owner(e) = rank =>
                               e \in Elements(edges) /\ (~hop => StandsAt(edges, EdgeIndex[e].loc, e))
                        /\ Len(nodes) = Cardinality(Elements(nodes))
                        /\ Len(edges) = Cardinality(Elements(edges))
                        /\ hop =>
                               \A k \in DOMAIN snapshot_csc_views :
                                   /\ Elements(snapshot_csc_views[k][rank].src_nodes) \subseteq Elements(nodes)
                                   /\ Elements(snapshot_csc_views[k][rank].edge_ids) \subseteq Elements(edges)
  BY <1>1, <1>3 DEF FeaturesWherePlaced, hop
<1> DEFINE nodes == NodeShard(rank, nodesNamed(rank))
           edges == EdgeShard(rank, edgesNamed(rank))
<1>7. node_shards'[rank] = nodes /\ edge_shards'[rank] = edges
  BY <1>1
<1>8. /\ nodes \in Seq(Node) /\ Distinct(nodes)
      /\ Elements(nodes) = Elements(hot_node_ids) \cup CoolAt(rank)
                               \cup {n \in nodesNamed(rank) : Master(n) # rank}
      /\ \A n \in Node : Master(n) = rank \/ IsHot(n) => StandsAt(nodes, NodeIndex[n].loc, n)
  BY <1>2, <1>4, NodeShardIs
<1>9. /\ edges \in Seq(1..N) /\ Distinct(edges)
      /\ Elements(edges) = {e \in 1..N : Owner(e) = rank} \cup edgesNamed(rank)
      /\ edgesNamed(rank) = {} => \A e \in {e \in 1..N : Owner(e) = rank} : StandsAt(edges, EdgeIndex[e].loc, e)
  BY <1>2, <1>4, EdgeShardIs
<1> HIDE DEF nodes, edges
<1>10. Len(nodes) = Cardinality(Elements(nodes)) /\ Len(edges) = Cardinality(Elements(edges))
  BY <1>8, <1>9, DistinctLength
<1>11. \A e \in DOMAIN events : Owner(e) = rank =>
          e \in Elements(edges) /\ (~hop => StandsAt(edges, EdgeIndex[e].loc, e))
  BY <1>2, <1>6, <1>9
<1>12. ASSUME hop, NEW k \in DOMAIN snapshot_csc_views
       PROVE  /\ Elements(snapshot_csc_views[k][rank].src_nodes) \subseteq Elements(nodes)
              /\ Elements(snapshot_csc_views[k][rank].edge_ids) \subseteq Elements(edges)
  <2>1. Elements(snapshot_csc_views[k][rank].edge_ids) \subseteq Elements(edges)
    BY <1>5, <1>9, <1>12
  <2>2. ASSUME NEW n \in Elements(snapshot_csc_views[k][rank].src_nodes) PROVE n \in Elements(nodes)
    <3>1. n \in Node /\ (n \in CoolNodes => n \in Elements(snapshot_csc_views[k][rank].node_feature_ids))
      BY DEF ViewsInv, Nameable
    <3>2. CASE IsHot(n)
      BY <1>8, <3>2 DEF IsHot
    <3>3. CASE ~IsHot(n)
      <4>1. n \in CoolNodes
        BY <3>1, <3>3 DEF CoolNodes
      <4>2. n \in nodesNamed(rank)
        BY <1>5, <1>12, <3>1, <4>1
      <4> QED
        BY <1>8, <4>1, <4>2 DEF CoolAt
    <3> QED
      BY <3>2, <3>3
  <2> QED
    BY <2>1, <2>2
<1> QED
  BY <1>7, <1>8, <1>10, <1>11, <1>12

(* The invariant of the shards holds at first and is kept by every step of a  *)
(* preparation.                                                               *)
LEMMA FeatureInvInit == PrepareInit => FeatureInv
<1> SUFFICES ASSUME PrepareInit PROVE FeatureInv
  OBVIOUS
<1>1. StageInv
  BY StageInvInit
<1>2. node_to_chunk = <<>> /\ snapshot_csc_views = <<>> /\ node_shards = <<>>
  BY DEF PrepareInit, PlanInit
<1>3. <<>> \in Seq({})
  OBVIOUS
<1> QED
  BY <1>1, <1>2, <1>3 DEF FeatureInv, ChunksInv, ViewsInv, FeaturesWherePlaced

LEMMA FeatureInvStep == FeatureInv /\ [PrepareNext]_prepared => FeatureInv'
<1> SUFFICES ASSUME FeatureInv, [PrepareNext]_prepared PROVE FeatureInv'
  OBVIOUS
<1>0. StageInv /\ ChunksInv /\ ViewsInv /\ FeaturesWherePlaced /\ StageInv'
  BY StageInvStep DEF FeatureInv
<1>1. CASE Plan
  <2>1. pc # "done" /\ node_to_chunk = <<>> /\ stage = "plan"
    BY <1>0, <1>1, PlanEnds DEF Plan, StageInv, Staged, Chosen
  <2>2. snapshot_csc_views = <<>> /\ node_shards = <<>>
    BY <1>0, <2>1 DEF StageInv, Staged
  <2>3. node_to_chunk' = <<>> /\ snapshot_csc_views' = <<>> /\ node_shards' = <<>>
    BY <1>1, <2>1, <2>2 DEF Plan, planned, built
  <2>4. <<>> \in Seq({})
    OBVIOUS
  <2> QED
    BY <1>0, <2>3, <2>4 DEF FeatureInv, ChunksInv, ViewsInv, FeaturesWherePlaced
<1>2. CASE PlanChunks
  <2>1. PlanInv /\ AssignChunks /\ UNCHANGED <<partition, built>>
    BY <1>0, <1>2 DEF PlanChunks, AssignChunks, StageInv
  <2>2. ChunksInv'
    BY <2>1, ChunksAreNumbers DEF ChunksInv
  <2>3. ViewsInv' /\ FeaturesWherePlaced'
    BY <1>0, <2>1, ViewsStay, FeaturesStay DEF built
  <2> QED
    BY <1>0, <2>2, <2>3 DEF FeatureInv
<1>3. ASSUME UNCHANGED <<partition, planned>> PROVE ChunksInv'
  BY <1>0, <1>3 DEF ChunksInv, planned
<1>4. ASSUME UNCHANGED <<partition, planned, snapshot_csc_views, node_shards, edge_shards, include_one_hop>>
      PROVE  FeatureInv'
  <2>1. ViewsInv' /\ FeaturesWherePlaced'
    BY <1>0, <1>4, ViewsStay, FeaturesStay
  <2> QED
    BY <1>0, <1>3, <1>4, <2>1 DEF FeatureInv
<1>5. CASE ResolveSplits
  BY <1>4, <1>5 DEF ResolveSplits
<1>6. CASE BuildEventViews
  BY <1>4, <1>6 DEF BuildEventViews
<1>7. CASE BuildSnapshot
  <2>1. node_shards = <<>> /\ node_shards' = <<>> /\ UNCHANGED <<partition, planned>>
    BY <1>0, <1>7 DEF BuildSnapshot, StageInv, Staged
  <2>2. ViewsInv'
    BY <1>0, <1>7, ViewsStep
  <2> QED
    BY <1>0, <1>3, <2>1, <2>2 DEF FeatureInv, FeaturesWherePlaced
<1>8. CASE BuildFeatureShards
  <2>1. UNCHANGED <<partition, planned, snapshot_csc_views>>
    BY <1>8 DEF BuildFeatureShards
  <2>2. ViewsInv' /\ FeaturesWherePlaced'
    BY <1>0, <1>8, <2>1, ViewsStay, FeaturesStep
  <2> QED
    BY <1>0, <1>3, <2>1, <2>2 DEF FeatureInv
<1>9. CASE BuildTaskShards
  BY <1>4, <1>9 DEF BuildTaskShards
<1>10. CASE UNCHANGED prepared
  BY <1>4, <1>10 DEF prepared, built
<1> QED
  BY <1>1, <1>2, <1>5, <1>6, <1>7, <1>8, <1>9, <1>10 DEF PrepareNext

(* The rows of a feature shard are written by one piece of code and looked up *)
(* through an index another computes (store/feature.py, partition_index.py):  *)
(* a rank finds its nodes, all hot nodes and its edges at those rows, none    *)
(* twice, and has a row for what its slices name.                             *)
THEOREM PreparedFeaturesWherePlaced == PrepareSpec => []FeaturesWherePlaced
<1>1. FeatureInv => FeaturesWherePlaced
  BY DEF FeatureInv
<1> QED
  BY <1>1, FeatureInvInit, FeatureInvStep, PTL DEF PrepareSpec
-----------------------------------------------------------------------------
(* Slices read back.                                                          *)

(* The columns of a slice: a bound lies behind all edges of the columns       *)
(* before it.                                                                 *)
LEMMA IndptrIs ==
    ASSUME NEW n \in Nat, NEW column \in [1..n -> Int], NEW o, IsOrder(o, n),
           \A q, w \in 1..n : q < w => column[o[q]] <= column[o[w]],
           NEW num \in Nat, NEW d \in 1..(num + 1)
    PROVE  /\ Indptr(column, num)[d] \in 0..n
           /\ \A q \in 1..n : q <= Indptr(column, num)[d] <=> column[o[q]] < d - 1
<1> DEFINE A == {i \in 1..n : column[i] < d - 1}
           S == {q \in 1..n : column[o[q]] < d - 1}
           f == [q \in S |-> o[q]]
<1>1. Indptr(column, num)[d] = Cardinality(A)
  BY DEF Indptr
<1>2. /\ o \in [1..n -> 1..n]
      /\ \A q, w \in 1..n : o[q] = o[w] => q = w
      /\ \A i \in 1..n : \E q \in 1..n : o[q] = i
  BY DEF IsOrder
<1>3. S \in SUBSET (1..n) /\ IsFiniteSet(S)
  <2>1. IsFiniteSet(1..n)
    BY FS_Interval
  <2>2. S \subseteq 1..n
    OBVIOUS
  <2> QED
    BY <2>1, <2>2, FS_Subset
<1>4. f \in [S -> A]
  BY <1>2
<1>5. \A i \in A : \E q \in S : f[q] = i
  <2> SUFFICES ASSUME NEW i \in A PROVE \E q \in S : f[q] = i
    OBVIOUS
  <2>1. PICK q \in 1..n : o[q] = i
    BY <1>2
  <2> QED
    BY <2>1
<1>6. IsInjective(f)
  BY <1>2 DEF IsInjective
<1>7. \A q \in S : \A w \in 1..q : w \in S
  <2> TAKE q \in S
  <2> TAKE w \in 1..q
  <2>1. w \in 1..n /\ q \in 1..n /\ (w = q \/ w < q)
    OBVIOUS
  <2>2. column[o[w]] \in Int /\ column[o[q]] \in Int /\ column[o[q]] < d - 1
    BY <1>2, <2>1
  <2>3. column[o[w]] <= column[o[q]]
    BY <2>1, <2>2
  <2> QED
    BY <2>1, <2>2, <2>3
<1>8. \A q \in 1..n : q \in S <=> column[o[q]] < d - 1
  OBVIOUS
<1> HIDE DEF f, A, S
<1>9. Cardinality(A) = Cardinality(S)
  <2>1. f \in Bijection(S, A)
    BY <1>4, <1>5, <1>6 DEF Bijection, Injection, Surjection
  <2> QED
    BY <1>3, <2>1, FS_Bijection DEF ExistsBijection
<1>10. LET p == 0 + Cardinality(S) IN p \in 0..n /\ S = (0 + 1)..p
  <2>1. S \in SUBSET ((0 + 1)..n) /\ \A i \in S : \A j \in (0 + 1)..i : j \in S
    BY <1>3, <1>7
  <2>2. 0 \in Nat /\ 0 <= n
    OBVIOUS
  <2> QED
    BY <2>1, <2>2, Stretch
<1>11. Cardinality(S) \in 0..n /\ S = 1..Cardinality(S)
  <2>1. Cardinality(S) \in Nat
    BY <1>3, FS_CardinalityType
  <2> QED
    BY <1>10, <2>1
<1> QED
  BY <1>1, <1>8, <1>9, <1>11

(* Where a source stands in the rows of a slice.                              *)
LEMMA SrcRowIs ==
    ASSUME NEW d \in Seq(Node), NEW r \in Seq(Node), NEW x \in Elements(d) \cup Elements(r)
    PROVE  SrcRow(d, r, x) + 1 \in DOMAIN (d \o r) /\ (d \o r)[SrcRow(d, r, x) + 1] = x
<1>1. /\ Len(d) \in Nat /\ Len(r) \in Nat
      /\ DOMAIN d = 1..Len(d) /\ DOMAIN r = 1..Len(r) /\ DOMAIN (d \o r) = 1..(Len(d) + Len(r))
      /\ \A i \in 1..Len(d) : (d \o r)[i] = d[i]
      /\ \A i \in (Len(d) + 1)..(Len(d) + Len(r)) :
            (d \o r)[i] = r[i - Len(d)] /\ i - Len(d) \in 1..Len(r)
  BY JoinIs
<1>2. CASE x \in Elements(d)
  <2> DEFINE p == PlaceIn(d, x)
  <2>1. p \in 0..(Len(d) - 1) /\ RowIn(d, x) = p /\ p + 1 \in DOMAIN d /\ d[p + 1] = x
    BY <1>2, PlacedIn
  <2>2. SrcRow(d, r, x) = p
    BY <1>2, <2>1 DEF SrcRow
  <2> HIDE DEF p
  <2>3. p + 1 \in 1..Len(d) /\ p + 1 \in 1..(Len(d) + Len(r))
    BY <1>1, <2>1
  <2> QED
    BY <1>1, <2>1, <2>2, <2>3
<1>3. CASE x \notin Elements(d)
  <2> DEFINE p == PlaceIn(r, x)
  <2>1. p \in 0..(Len(r) - 1) /\ RowIn(r, x) = p /\ p + 1 \in DOMAIN r /\ r[p + 1] = x
    BY <1>3, PlacedIn
  <2>2. SrcRow(d, r, x) = Len(d) + p
    BY <1>3, <2>1 DEF SrcRow
  <2> HIDE DEF p
  <2> DEFINE i == (Len(d) + p) + 1
  <2>3. i \in (Len(d) + 1)..(Len(d) + Len(r)) /\ i - Len(d) = p + 1 /\ i \in 1..(Len(d) + Len(r))
    BY <1>1, <2>1
  <2>4. SrcRow(d, r, x) + 1 = i
    BY <2>2
  <2> HIDE DEF i
  <2> QED
    BY <1>1, <2>1, <2>3, <2>4
<1> QED
  BY <1>2, <1>3

(* Where the features of a source stand: hot nodes, owned, borrowed.          *)
LEMMA FeatureRowIs ==
    ASSUME PlanInv, NEW a \in Seq(Node), NEW b \in Seq(Node), NEW x,
           IsHot(x) \/ x \in Elements(a) \/ x \in Elements(b)
    PROVE  (hot_node_ids \o (a \o b))[FeatureRow(x, a, b) + 1] = x
<1> DEFINE h == hot_node_ids
           ab == a \o b
           f == h \o ab
<1>1. h \in Seq(Node)
  BY DEF PlanInv
<1>2. ab \in Seq(Node) /\ Len(ab) = Len(a) + Len(b) /\ Len(a) \in Nat /\ Len(b) \in Nat
  <2>1. /\ a \o b \in Seq(Node \cup Node)
        /\ Len(a) \in Nat /\ Len(b) \in Nat /\ Len(a \o b) = Len(a) + Len(b)
        /\ DOMAIN a = 1..Len(a) /\ DOMAIN b = 1..Len(b) /\ DOMAIN (a \o b) = 1..(Len(a) + Len(b))
        /\ \A i \in 1..Len(a) : (a \o b)[i] = a[i]
        /\ \A i \in (Len(a) + 1)..(Len(a) + Len(b)) :
              (a \o b)[i] = b[i - Len(a)] /\ i - Len(a) \in 1..Len(b)
    BY JoinIs
  <2>2. Node \cup Node = Node
    OBVIOUS
  <2> QED
    BY <2>1, <2>2
<1>3. /\ DOMAIN a = 1..Len(a) /\ DOMAIN b = 1..Len(b)
      /\ \A i \in 1..Len(a) : ab[i] = a[i]
      /\ \A i \in (Len(a) + 1)..(Len(a) + Len(b)) : ab[i] = b[i - Len(a)] /\ i - Len(a) \in 1..Len(b)
  BY JoinIs
<1> HIDE DEF h, ab
<1>4. /\ Len(h) \in Nat /\ DOMAIN h = 1..Len(h)
      /\ \A i \in 1..Len(h) : f[i] = h[i]
      /\ \A i \in (Len(h) + 1)..(Len(h) + Len(ab)) : f[i] = ab[i - Len(h)] /\ i - Len(h) \in 1..Len(ab)
  BY <1>1, <1>2, JoinIs
<1> HIDE DEF f
<1>5. CASE IsHot(x)
  <2> DEFINE p == PlaceIn(h, x)
  <2>1. x \in Elements(h)
    BY <1>5 DEF IsHot, h
  <2>2. p \in 0..(Len(h) - 1) /\ RowIn(h, x) = p /\ p + 1 \in DOMAIN h /\ h[p + 1] = x
    BY <1>1, <2>1, PlacedIn
  <2>3. FeatureRow(x, a, b) = p
    BY <1>5, <2>2 DEF FeatureRow, h
  <2> HIDE DEF p
  <2>4. p + 1 \in 1..Len(h)
    BY <1>4, <2>2
  <2> QED
    BY <1>4, <2>2, <2>3, <2>4 DEF f, h, ab
<1>6. CASE ~IsHot(x) /\ x \in Elements(a)
  <2> DEFINE p == PlaceIn(a, x)
             i == (Len(h) + p) + 1
  <2>1. p \in 0..(Len(a) - 1) /\ RowIn(a, x) = p /\ p + 1 \in DOMAIN a /\ a[p + 1] = x
    BY <1>6, PlacedIn
  <2>2. FeatureRow(x, a, b) = Len(h) + p
    BY <1>6, <2>1 DEF FeatureRow, h
  <2> HIDE DEF p
  <2>3. /\ i \in (Len(h) + 1)..(Len(h) + Len(ab)) /\ i - Len(h) = p + 1
        /\ p + 1 \in 1..Len(a) /\ FeatureRow(x, a, b) + 1 = i
    BY <1>2, <1>4, <2>1, <2>2
  <2> HIDE DEF i
  <2> QED
    BY <1>3, <1>4, <2>1, <2>3 DEF f, h, ab
<1>7. CASE ~IsHot(x) /\ x \notin Elements(a)
  <2> DEFINE p == PlaceIn(b, x)
             i == (Len(h) + Len(a) + p) + 1
             j == (Len(a) + p) + 1
  <2>0. x \in Elements(b)
    BY <1>7
  <2>1. p \in 0..(Len(b) - 1) /\ RowIn(b, x) = p /\ p + 1 \in DOMAIN b /\ b[p + 1] = x
    BY <2>0, PlacedIn
  <2>2. FeatureRow(x, a, b) = Len(h) + Len(a) + p
    BY <1>7, <2>1 DEF FeatureRow, h
  <2> HIDE DEF p
  <2>3. /\ i \in (Len(h) + 1)..(Len(h) + Len(ab)) /\ i - Len(h) = j
        /\ j \in (Len(a) + 1)..(Len(a) + Len(b)) /\ j - Len(a) = p + 1
        /\ FeatureRow(x, a, b) + 1 = i
    BY <1>2, <1>4, <2>1, <2>2
  <2> HIDE DEF i, j
  <2> QED
    BY <1>3, <1>4, <2>1, <2>3 DEF f, h, ab
<1> QED
  BY <1>5, <1>6, <1>7

(* SlicesReadBack of one slice.                                               *)
EdgesRead(slice, rows, rank) ==
    ReadBack(slice) = {<<e, events[e].src, events[e].dst>> : e \in {e \in rows : Computes(rank, events[e].dst)}}

FeaturesRead(slice) ==
    \A i \in DOMAIN slice.src_nodes :
        (hot_node_ids \o slice.node_feature_ids)[slice.src_feature_row[i] + 1] = slice.src_nodes[i]

ReverseRead(slice, rows, rank) ==
    {<<slice.src_nodes[slice.reverse_row[i] + 1],
       slice.dst_nodes[slice.reverse_col[i] + 1]>> : i \in DOMAIN slice.reverse_row}
        = {<<events[e].dst, events[e].src>> : e \in {e \in rows : Computes(rank, events[e].src)}}

ReadsRight(slice, rows, rank) ==
    /\ EdgesRead(slice, rows, rank)
    /\ Len(slice.edge_ids) = Cardinality(Elements(slice.edge_ids))
    /\ FeaturesRead(slice)
    /\ "snapshot_diffusion" \in layouts => ReverseRead(slice, rows, rank)

HotCompute == "snapshot_hot_compute" \in layouts
Diffusion == "snapshot_diffusion" \in layouts

(* A slice read column by column gives the edges it was built from.           *)
LEMMA SliceReads ==
    ASSUME PlanInv, pc = "done", node_to_chunk \in [Node -> Int],
           NEW rank \in Part, NEW edges \in Seq(1..N), Distinct(edges)
    PROVE  ReadsRight(Slice(rank, edges, HotCompute, Diffusion), Elements(edges), rank)
<1> DEFINE s == Slice(rank, edges, HotCompute, Diffusion)
           rows == Elements(edges)
           d == DstNodes(rank, HotCompute)
           r == RemoteSrc(d, edges, Diffusion)
           src == d \o r
           local == Into(d, edges)
           out == Outgoing(d, edges)
           n == Len(local)
           column == Columns(d, local)
           o == OrderOf(d, local)
           ptr == Indptr(column, Len(d))
<1>0. HotCompute \in BOOLEAN /\ Diffusion \in BOOLEAN
  BY DEF HotCompute, Diffusion
<1>1. /\ s.src_nodes = src /\ s.dst_nodes = d
      /\ s.edge_ids = Pick(local, o) /\ s.indptr = ptr
      /\ s.indices = [i \in DOMAIN o |-> SrcRow(d, r, events[local[o[i]]].src)]
      /\ s.node_feature_ids = Cool(d) \o Cool(r)
      /\ s.src_feature_row = [i \in DOMAIN src |-> FeatureRow(src[i], Cool(d), Cool(r))]
      /\ Diffusion => /\ s.reverse_row = [i \in DOMAIN out |-> RowIn(src, events[out[i]].dst)]
                      /\ s.reverse_col = [i \in DOMAIN out |-> RowIn(d, events[out[i]].src)]
  BY DEF Slice, OrderOf, Columns, ChunksOf, TimesOf
<1>2. d \in Seq(Node) /\ Elements(d) = DstOf(rank, HotCompute)
  BY <1>0, DstNodesAre
<1>3. \A x \in Node : x \in Elements(d) <=> Computes(rank, x)
  BY <1>2 DEF DstOf, Computes, HotCompute
<1> HIDE DEF d
<1>4. /\ r \in Seq(Node) /\ Elements(r) = RemoteOf(d, edges, Diffusion)
  BY <1>0, RemoteSrcIs
<1> HIDE DEF r, s
<1>5. /\ local \in Seq(1..N) /\ Elements(local) = {e \in rows : events[e].dst \in Elements(d)}
      /\ Distinct(local)
  BY EdgesIntoAre
<1>6. out \in Seq(1..N) /\ Elements(out) = {e \in rows : events[e].src \in Elements(d)}
  BY EdgesOutOfAre
<1>7. \A e \in rows : e \in 1..N /\ events[e].src \in Node /\ events[e].dst \in Node
  <2>1. \A k \in DOMAIN edges : edges[k] \in 1..N
    BY ItemsOf
  <2> QED
    BY <2>1, OwnersKnown DEF Elements
<1>8. \A e \in Elements(local) : events[e].src \in Elements(d) \cup Elements(r)
  BY <1>4, <1>5 DEF RemoteOf
<1>9. Diffusion => \A e \in Elements(out) : events[e].dst \in Elements(d) \cup Elements(r)
  BY <1>4, <1>6 DEF RemoteOf
<1> HIDE DEF local, out, rows
<1>10. \A i \in DOMAIN local : events[local[i]].dst \in Elements(d)
  BY <1>5 DEF Elements
<1>11. /\ n \in Nat /\ DOMAIN local = 1..n /\ DOMAIN o = 1..n
       /\ column \in [1..n -> Int]
       /\ \A i \in 1..n : column[i] \in 0..(Len(d) - 1) /\ d[column[i] + 1] = events[local[i]].dst
       /\ IsOrder(o, n)
       /\ \A q, w \in 1..n : q < w => column[o[q]] <= column[o[w]]
  BY <1>2, <1>5, <1>10, SliceOrder
<1> HIDE DEF o, n, column
<1>12. DOMAIN d = 1..Len(d) /\ Len(d) \in Nat /\ \A k \in DOMAIN d : d[k] \in Node
  BY <1>2, ItemsOf
<1>13. \A k \in 1..(Len(d) + 1) : /\ ptr[k] \in 0..n
                                  /\ \A q \in 1..n : q <= ptr[k] <=> column[o[q]] < k - 1
  BY <1>11, <1>12, IndptrIs
<1> HIDE DEF ptr
<1>14. \A q \in 1..n : o[q] \in 1..n /\ local[o[q]] \in Elements(local)
  BY <1>11 DEF IsOrder, Elements
<1>15. \A q \in 1..n : Pick(local, o)[q] = local[o[q]]
  BY <1>11 DEF Pick
<1>16. \A q \in 1..n : src[SrcRow(d, r, events[local[o[q]]].src) + 1] = events[local[o[q]]].src
  <2> TAKE q \in 1..n
  <2>1. events[local[o[q]]].src \in Elements(d) \cup Elements(r)
    BY <1>8, <1>14
  <2> HIDE DEF src
  <2> QED
    BY <1>2, <1>4, <2>1, SrcRowIs DEF src
<1>17. \A k \in DOMAIN d : \A q \in 1..n : q \in (ptr[k] + 1)..ptr[k + 1] <=> column[o[q]] = k - 1
  <2> TAKE k \in DOMAIN d
  <2> TAKE q \in 1..n
  <2>1. k \in 1..(Len(d) + 1) /\ k + 1 \in 1..(Len(d) + 1) /\ (k + 1) - 1 = k
    BY <1>12
  <2>2. /\ ptr[k] \in 0..n /\ (q <= ptr[k] <=> column[o[q]] < k - 1)
        /\ ptr[k + 1] \in 0..n /\ (q <= ptr[k + 1] <=> column[o[q]] < k)
    BY <1>13, <2>1
  <2>3. column[o[q]] \in Int
    BY <1>11, <1>14
  <2> DEFINE a == ptr[k]
             b == ptr[k + 1]
             c == column[o[q]]
  <2>4. a \in Int /\ b \in Int /\ c \in Int /\ q \in Int /\ k \in Int
    <3>1. n \in Nat /\ Len(d) \in Nat /\ k \in 1..(Len(d) + 1)
      BY <1>11, <1>12, <2>1
    <3>2. k \in Int /\ q \in Int
      BY <3>1
    <3>3. a \in Int /\ b \in Int
      BY <2>2, <3>1
    <3> QED
      BY <2>3, <3>2, <3>3
  <2>5. (q <= a <=> c < k - 1) /\ (q <= b <=> c < k)
    BY <2>2
  <2> HIDE DEF a, b, c
  <2>6. q \in (a + 1)..b <=> c = k - 1
    BY <2>4, <2>5
  <2> QED
    BY <2>6 DEF a, b, c
<1>18. \A k \in DOMAIN d : \A q \in (ptr[k] + 1)..ptr[k + 1] : q \in 1..n
  <2> TAKE k \in DOMAIN d
  <2>1. k \in 1..(Len(d) + 1) /\ k + 1 \in 1..(Len(d) + 1)
    BY <1>12
  <2>2. ptr[k] \in 0..n /\ ptr[k + 1] \in 0..n
    BY <1>13, <2>1
  <2> QED
    BY <1>11, <2>2
<1> DEFINE entry(q, k) == <<s.edge_ids[q], s.src_nodes[s.indices[q] + 1], s.dst_nodes[k]>>
           triple(e) == <<e, events[e].src, events[e].dst>>
           want == {e \in rows : Computes(rank, events[e].dst)}
<1>19. \A q \in 1..n : /\ s.edge_ids[q] = local[o[q]]
                       /\ s.src_nodes[s.indices[q] + 1] = events[local[o[q]]].src
  <2> HIDE DEF src
  <2> QED
    BY <1>1, <1>11, <1>15, <1>16
<1>20. want = Elements(local)
  BY <1>3, <1>5, <1>7
<1>21. ASSUME NEW k \in DOMAIN d, NEW q \in (ptr[k] + 1)..ptr[k + 1]
       PROVE  local[o[q]] \in want /\ entry(q, k) = triple(local[o[q]])
  <2>1. q \in 1..n /\ column[o[q]] = k - 1
    BY <1>17, <1>18, <1>21
  <2>2. d[k] = events[local[o[q]]].dst
    <3>1. o[q] \in 1..n /\ (k - 1) + 1 = k
      BY <1>12, <1>14, <2>1
    <3> QED
      BY <1>11, <2>1, <3>1
  <2> QED
    BY <1>1, <1>14, <1>19, <1>20, <2>1, <2>2
<1>22. ASSUME NEW e \in want
       PROVE  \E k \in DOMAIN d : \E q \in (ptr[k] + 1)..ptr[k + 1] : entry(q, k) = triple(e)
  <2>1. PICK i \in 1..n : local[i] = e
    BY <1>11, <1>20 DEF Elements
  <2>2. PICK q \in 1..n : o[q] = i
    BY <1>11 DEF IsOrder
  <2> DEFINE k == column[i] + 1
  <2>3. k \in DOMAIN d /\ column[o[q]] = k - 1 /\ d[k] = events[e].dst
    <3>1. column[i] \in 0..(Len(d) - 1) /\ d[column[i] + 1] = events[local[i]].dst
      BY <1>11
    <3>2. k \in 1..Len(d) /\ column[i] = k - 1
      BY <1>12, <3>1
    <3> QED
      BY <1>12, <2>1, <2>2, <3>1, <3>2
  <2> HIDE DEF k
  <2>4. q \in (ptr[k] + 1)..ptr[k + 1]
    BY <1>17, <2>3
  <2>5. entry(q, k) = triple(e)
    BY <1>1, <1>19, <2>1, <2>2, <2>3
  <2> QED
    BY <2>3, <2>4, <2>5
<1>23. EdgesRead(s, rows, rank)
  <2>1. ReadBack(s) = UNION {{entry(q, k) : q \in (ptr[k] + 1)..ptr[k + 1]} : k \in DOMAIN d}
    BY <1>1 DEF ReadBack
  <2> HIDE DEF entry, triple, want
  <2>2. ReadBack(s) = {triple(e) : e \in want}
    BY <1>21, <1>22, <2>1
  <2> QED
    BY <2>2 DEF EdgesRead, triple, want
<1>24. Len(s.edge_ids) = Cardinality(Elements(s.edge_ids))
  <2> DEFINE list == Pick(local, o)
  <2>1. list = [q \in 1..n |-> local[o[q]]]
    BY <1>11 DEF Pick
  <2>2. \A q \in 1..n : local[o[q]] \in 1..N
    BY <1>5, <1>11, <1>14, ItemsOf
  <2> HIDE DEF list
  <2>3. list \in [1..n -> 1..N]
    BY <2>1, <2>2
  <2>4. list \in Seq(1..N) /\ DOMAIN list = 1..n
    BY <1>11, <2>3, ListOf
  <2>5. ASSUME NEW q \in 1..n, NEW w \in 1..n, list[q] = list[w] PROVE q = w
    <3>1. local[o[q]] = local[o[w]] /\ o[q] \in DOMAIN local /\ o[w] \in DOMAIN local
      BY <1>11, <1>14, <2>1, <2>5
    <3>2. o[q] = o[w]
      BY <1>5, <3>1 DEF Distinct
    <3> QED
      BY <1>11, <3>2 DEF IsOrder
  <2>6. Distinct(list)
    BY <2>4, <2>5 DEF Distinct
  <2>7. Len(list) = Cardinality(Elements(list))
    BY <2>4, <2>6, DistinctLength
  <2> QED
    BY <1>1, <2>7 DEF list
<1>25. FeaturesRead(s)
  <2> DEFINE a == Cool(d)
             b == Cool(r)
  <2>1. /\ a \in Seq(Node) /\ Elements(a) = Elements(d) \cap CoolNodes
        /\ b \in Seq(Node) /\ Elements(b) = Elements(r) \cap CoolNodes
    BY <1>2, <1>4, CoolIs
  <2> HIDE DEF a, b
  <2>2. Elements(src) = Elements(d) \cup Elements(r)
    BY <1>2, <1>4, DistinctJoin
  <2>3. Elements(d) \subseteq Node /\ Elements(r) \subseteq Node
    BY <1>2, <1>4, ItemsOf DEF Elements
  <2> HIDE DEF src
  <2>4. ASSUME NEW i \in DOMAIN src PROVE (hot_node_ids \o (a \o b))[FeatureRow(src[i], a, b) + 1] = src[i]
    <3>1. src[i] \in Elements(src)
      BY DEF Elements
    <3>2. IsHot(src[i]) \/ src[i] \in Elements(a) \/ src[i] \in Elements(b)
      BY <2>1, <2>2, <2>3, <3>1 DEF CoolNodes
    <3> DEFINE x == src[i]
    <3> HIDE DEF x
    <3>3. (hot_node_ids \o (a \o b))[FeatureRow(x, a, b) + 1] = x
      BY <2>1, <3>2, FeatureRowIs DEF x
    <3> QED
      BY <3>3 DEF x
  <2>5. /\ s.src_nodes = src /\ s.node_feature_ids = a \o b
        /\ s.src_feature_row = [i \in DOMAIN src |-> FeatureRow(src[i], a, b)]
    BY <1>1 DEF a, b, src
  <2> QED
    BY <2>4, <2>5 DEF FeaturesRead
<1>26. ASSUME Diffusion PROVE ReverseRead(s, rows, rank)
  <2>1. src \in Seq(Node) /\ Elements(src) = Elements(d) \cup Elements(r)
    BY <1>2, <1>4, DistinctJoin
  <2> HIDE DEF src
  <2>2. ASSUME NEW i \in DOMAIN out
        PROVE  /\ s.src_nodes[s.reverse_row[i] + 1] = events[out[i]].dst
               /\ s.dst_nodes[s.reverse_col[i] + 1] = events[out[i]].src
    <3> DEFINE x == events[out[i]].dst
               y == events[out[i]].src
    <3>1. out[i] \in Elements(out)
      BY DEF Elements
    <3>2. x \in Elements(src) /\ y \in Elements(d)
      BY <1>6, <1>9, <1>26, <2>1, <3>1
    <3>3. s.reverse_row[i] = RowIn(src, x) /\ s.reverse_col[i] = RowIn(d, y)
      BY <1>1, <1>26 DEF src
    <3> HIDE DEF x, y
    <3>4. RowIn(src, x) = PlaceIn(src, x) /\ src[PlaceIn(src, x) + 1] = x
      BY <2>1, <3>2, PlacedIn
    <3>5. RowIn(d, y) = PlaceIn(d, y) /\ d[PlaceIn(d, y) + 1] = y
      BY <1>2, <3>2, PlacedIn
    <3> QED
      BY <1>1, <3>3, <3>4, <3>5 DEF x, y, src
  <2>3. DOMAIN s.reverse_row = DOMAIN out
    BY <1>1, <1>26
  <2>4. {e \in rows : Computes(rank, events[e].src)} = Elements(out)
    BY <1>3, <1>6, <1>7
  <2>5. {<<s.src_nodes[s.reverse_row[i] + 1], s.dst_nodes[s.reverse_col[i] + 1]>> : i \in DOMAIN s.reverse_row}
          = {<<events[e].dst, events[e].src>> : e \in Elements(out)}
    <3>1. {<<s.src_nodes[s.reverse_row[i] + 1], s.dst_nodes[s.reverse_col[i] + 1]>> : i \in DOMAIN s.reverse_row}
            = {<<events[out[i]].dst, events[out[i]].src>> : i \in DOMAIN out}
      BY <2>2, <2>3
    <3>2. {<<events[out[i]].dst, events[out[i]].src>> : i \in DOMAIN out}
            = {<<events[e].dst, events[e].src>> : e \in Elements(out)}
      BY DEF Elements
    <3> QED
      BY <3>1, <3>2
  <2> QED
    BY <2>4, <2>5 DEF ReverseRead
<1> QED
  BY <1>23, <1>24, <1>25, <1>26 DEF ReadsRight, Diffusion, s, rows

(* Every view reads back as the edges of its window, now that the views are   *)
(* slices of rows that tile the window.                                       *)
ReadsInv ==
    \A k \in DOMAIN snapshot_csc_views, rank \in Part :
        ReadsRight(snapshot_csc_views[k][rank], Rows(Windows[k]), rank)

ReadInv == FeatureInv /\ ReadsInv

(* ReadsInv is SlicesReadBack, named by its parts.                            *)
LEMMA ReadsAre == ReadsInv => SlicesReadBack
  BY DEF ReadsInv, SlicesReadBack, ReadsRight, EdgesRead, FeaturesRead, ReverseRead

(* A view reads as the slice it shows.                                        *)
LEMMA ReadsShown ==
    ASSUME NEW v, NEW s, Shows(v, s), NEW rows, NEW rank, ReadsRight(s, rows, rank)
    PROVE  ReadsRight(v, rows, rank)
<1>1. ReadBack(v) = ReadBack(s)
  BY DEF Shows, ReadBack
<1>2. EdgesRead(v, rows, rank)
  BY <1>1 DEF ReadsRight, EdgesRead
<1>3. Len(v.edge_ids) = Cardinality(Elements(v.edge_ids))
  BY DEF Shows, ReadsRight
<1>4. FeaturesRead(v)
  BY DEF Shows, ReadsRight, FeaturesRead
<1>5. ASSUME "snapshot_diffusion" \in layouts PROVE ReverseRead(v, rows, rank)
  BY <1>5 DEF Shows, ReadsRight, ReverseRead
<1> QED
  BY <1>2, <1>3, <1>4, <1>5 DEF ReadsRight

(* The next views are read by what does not change.                           *)
LEMMA ReadsNext ==
    ASSUME UNCHANGED <<partition, layouts, split>>,
           \A k \in DOMAIN snapshot_csc_views', rank \in Part :
               ReadsRight(snapshot_csc_views'[k][rank], Rows(Windows[k]), rank)
    PROVE  ReadsInv'
<1>1. \A n : (IsHot(n)' <=> IsHot(n)) /\ Master(n)' = Master(n)
  BY IndicesStay
<1>2. /\ \A n, rank : Computes(rank, n)' <=> Computes(rank, n)
      /\ events' = events /\ hot_node_ids' = hot_node_ids /\ Windows' = Windows
  BY <1>1 DEF Computes, partition, Windows
<1> SUFFICES ASSUME NEW k \in DOMAIN snapshot_csc_views', NEW rank \in Part
             PROVE  ReadsRight(snapshot_csc_views[k][rank], Rows(Windows[k]), rank)'
  BY DEF ReadsInv
<1> DEFINE v == snapshot_csc_views[k][rank]
           rows == Rows(Windows[k])
           x == snapshot_csc_views'[k][rank]
<1>3. ReadsRight(x, rows, rank)
  OBVIOUS
<1>4. v' = x /\ rows' = rows /\ ReadBack(v)' = ReadBack(x)
  BY <1>2 DEF ReadBack
<1>5. /\ {e \in rows : Computes(rank, events[e].dst)}' = {e \in rows : Computes(rank, events[e].dst)}
      /\ {e \in rows : Computes(rank, events[e].src)}' = {e \in rows : Computes(rank, events[e].src)}
  BY <1>2, <1>4
<1>6. EdgesRead(v, rows, rank)'
  BY <1>2, <1>3, <1>4, <1>5 DEF ReadsRight, EdgesRead
<1>7. FeaturesRead(v)' /\ (Len(v.edge_ids) = Cardinality(Elements(v.edge_ids)))'
  BY <1>2, <1>3, <1>4 DEF ReadsRight, FeaturesRead
<1>8. ("snapshot_diffusion" \in layouts => ReverseRead(v, rows, rank))'
  BY <1>2, <1>3, <1>4, <1>5 DEF ReadsRight, ReverseRead
<1> QED
  BY <1>6, <1>7, <1>8 DEF ReadsRight

(* Views that stay are read the same.                                         *)
LEMMA ReadsStay ==
    ASSUME UNCHANGED <<partition, snapshot_csc_views, layouts, split>>, ReadsInv
    PROVE  ReadsInv'
<1>1. \A k \in DOMAIN snapshot_csc_views', rank \in Part :
         ReadsRight(snapshot_csc_views'[k][rank], Rows(Windows[k]), rank)
  BY DEF ReadsInv
<1> QED
  BY <1>1, ReadsNext

(* The view that is built is one of the rows of its window.                   *)
LEMMA ReadsStep ==
    ASSUME StageInv, ChunksInv, ViewsInv, ReadsInv, BuildSnapshot
    PROVE  ReadsInv'
<1> DEFINE k == Len(snapshot_csc_views) + 1
           w == Windows[k]
           v == SnapshotViews(EdgesOf(w), HotCompute, Diffusion)
           old == snapshot_csc_views
           new == snapshot_csc_views'
<1>1. /\ stage = "snapshots" /\ k \in DOMAIN Windows
      /\ new = Append(old, v) /\ UNCHANGED <<partition, planned, layouts, split>>
  BY DEF BuildSnapshot, EdgesOf, HotCompute, Diffusion
<1>2. PlanInv /\ pc = "done" /\ node_to_chunk \in [Node -> Int]
  BY <1>1 DEF StageInv, Chosen, Staged, ChunksInv
<1>3. w.begin \in Nat /\ w.end \in 0..N /\ N \in Nat
  BY <1>1, WindowsWithin, TimesOrdered
<1>4. ASSUME NEW rank \in Part PROVE ReadsRight(v[rank], Rows(w), rank)
  <2> DEFINE edges == EdgesOf(w)
  <2>1. edges \in Seq(1..N) /\ Distinct(edges) /\ Elements(edges) = Rows(w)
    BY <1>3, EdgesOfWindow
  <2> HIDE DEF edges
  <2>2. ReadsRight(Slice(rank, edges, HotCompute, Diffusion), Elements(edges), rank)
    BY <1>2, <2>1, SliceReads
  <2>3. Shows(v[rank], Slice(rank, edges, HotCompute, Diffusion))
    BY ViewFields DEF edges
  <2> HIDE DEF v, w
  <2> QED
    BY <2>1, <2>2, <2>3, ReadsShown
<1> HIDE DEF v
<1>5. PICK V : old \in Seq(V)
  BY DEF ViewsInv
<1>6. /\ Len(old) \in Nat /\ DOMAIN old = 1..Len(old)
      /\ DOMAIN new = 1..k
      /\ \A i \in 1..k : IF i = k THEN new[i] = v ELSE i \in DOMAIN old /\ new[i] = old[i]
  <2>1. /\ old \in Seq(V \cup {v}) /\ Len(old) \in Nat /\ DOMAIN old = 1..Len(old)
    <3>1. Len(old) \in Nat /\ DOMAIN old = 1..Len(old) /\ \A i \in DOMAIN old : old[i] \in V
      BY <1>5, ItemsOf
    <3>2. \A i \in DOMAIN old : old[i] \in V \cup {v}
      BY <3>1
    <3> QED
      BY <1>5, <3>1, <3>2, WiderList
  <2> QED
    BY <1>1, <2>1
<1> HIDE DEF k
<1>7. ASSUME NEW i \in DOMAIN new, NEW rank \in Part PROVE ReadsRight(new[i][rank], Rows(Windows[i]), rank)
  <2>1. CASE i = k
    BY <1>4, <1>6, <2>1
  <2>2. CASE i # k
    BY <1>6, <2>2 DEF ReadsInv
  <2> QED
    BY <2>1, <2>2
<1> QED
  BY <1>1, <1>7, ReadsNext

(* What is read back was right when the views were built, and they stay.      *)
LEMMA ReadInvInit == PrepareInit => ReadInv
<1>1. PrepareInit => ReadsInv
  BY DEF PrepareInit, ReadsInv
<1> QED
  BY <1>1, FeatureInvInit DEF ReadInv

LEMMA ReadInvStep == ReadInv /\ [PrepareNext]_prepared => ReadInv'
<1> SUFFICES ASSUME ReadInv, [PrepareNext]_prepared PROVE ReadInv'
  OBVIOUS
<1>0. StageInv /\ ChunksInv /\ ViewsInv /\ ReadsInv /\ FeatureInv'
  BY FeatureInvStep DEF ReadInv, FeatureInv
<1> SUFFICES ReadsInv'
  BY <1>0 DEF ReadInv
<1>1. ASSUME snapshot_csc_views' = <<>> PROVE ReadsInv'
  BY <1>1 DEF ReadsInv
<1>2. stage = "plan" => snapshot_csc_views = <<>>
  BY <1>0 DEF StageInv, Staged
<1>3. CASE Plan \/ PlanChunks \/ ResolveSplits
  <2>1. ReadsInv' \/ (stage = "plan" /\ snapshot_csc_views' = snapshot_csc_views)
    <3>1. CASE Plan
      <4>1. pc # "done" /\ stage = "plan"
        BY <1>0, <3>1, PlanEnds DEF Plan, StageInv, Staged, Chosen
      <4> QED
        BY <3>1, <4>1 DEF Plan, built
    <3>2. CASE PlanChunks
      <4>1. UNCHANGED <<partition, built>>
        BY <3>2 DEF PlanChunks, AssignChunks
      <4> QED
        BY <1>0, <4>1, ReadsStay DEF built
    <3>3. CASE ResolveSplits
      BY <3>3 DEF ResolveSplits
    <3> QED
      BY <1>3, <3>1, <3>2, <3>3
  <2> QED
    BY <1>1, <1>2, <2>1
<1>4. ASSUME UNCHANGED <<partition, snapshot_csc_views, layouts, split>> PROVE ReadsInv'
  BY <1>0, <1>4, ReadsStay
<1>5. CASE BuildEventViews
  BY <1>4, <1>5 DEF BuildEventViews
<1>6. CASE BuildSnapshot
  BY <1>0, <1>6, ReadsStep
<1>7. CASE BuildFeatureShards
  BY <1>4, <1>7 DEF BuildFeatureShards
<1>8. CASE BuildTaskShards
  BY <1>4, <1>8 DEF BuildTaskShards
<1>9. CASE UNCHANGED prepared
  BY <1>4, <1>9 DEF prepared, built
<1> QED
  BY <1>3, <1>5, <1>6, <1>7, <1>8, <1>9 DEF PrepareNext

(* build_snapshot_csc_views: three sorts, a renumbering of sources over owned *)
(* and borrowed nodes and an offset for hot ones; a reader that decodes       *)
(* columns and rows gets back the edges of the window that lead to the nodes  *)
(* of the rank, each once, and finds the features of each source; so for      *)
(* the edges that diffusion follows back.                                     *)
THEOREM PreparedSlicesReadBack == PrepareSpec => []SlicesReadBack
<1>1. ReadInv => SlicesReadBack
  BY ReadsAre DEF ReadInv
<1> QED
  BY <1>1, ReadInvInit, ReadInvStep, PTL DEF PrepareSpec
-----------------------------------------------------------------------------
(* Routes: the whole that all_to_all_single moves, and its parts.             *)

(* One list for every rank, numbered from 0, put one behind the other.        *)
Shifted(ss) == [k \in 1..NumParts |-> ss[k - 1]]

(* Where the part of a peer begins in the whole.                              *)
LEMMA BeginsIs ==
    ASSUME NEW sizes \in [Part -> Nat], NEW p \in Part
    PROVE  Begins(sizes, p) = Upto(Shifted(sizes), p)
<1> DEFINE S == 0..(p - 1)
           T == 1..p
           f == Shifted(sizes)
           A == Dots(sizes, S)
           B == Dots(f, T)
           g == [d \in A |-> <<d[1] + 1, d[2]>>]
<1>0. NumParts \in Nat /\ p \in Nat /\ p < NumParts
  BY DEF Part
<1>1. S \in SUBSET Part /\ T \in SUBSET (1..NumParts)
  BY <1>0 DEF Part
<1>2. IsFiniteSet(S) /\ IsFiniteSet(T)
  <2>1. 0 \in Int /\ 1 \in Int /\ p \in Int /\ p - 1 \in Int
    BY <1>0
  <2> QED
    BY <2>1, FS_Interval
<1>3. f \in [1..NumParts -> Nat] /\ \A k \in 1..NumParts : f[k] = sizes[k - 1]
  <2>1. \A k \in 1..NumParts : k - 1 \in Part
    BY <1>0 DEF Part
  <2> QED
    BY <2>1 DEF Shifted
<1>4. \A x \in S : x \in Int /\ x + 1 \in T /\ x + 1 \in 1..NumParts /\ (x + 1) - 1 = x
  BY <1>0
<1>5. \A y \in T : y - 1 \in S /\ (y - 1) + 1 = y /\ y \in 1..NumParts
  BY <1>0
<1>6. Begins(sizes, p) = SumFunctionOnSet(sizes, S) /\ Upto(f, p) = SumFunctionOnSet(f, T)
  BY DEF Begins, Upto
<1> HIDE DEF S, T, f
<1>7. IsFiniteSet(A) /\ SumFunctionOnSet(sizes, S) = Cardinality(A)
  BY <1>1, <1>2, SumIs
<1>8. SumFunctionOnSet(f, T) = Cardinality(B)
  BY <1>1, <1>2, <1>3, SumIs
<1>9. \A d \in A : <<d[1] + 1, d[2]>> \in B
  <2> TAKE d \in A
  <2>1. d[1] \in S /\ d[2] \in Nat /\ 1 <= d[2] /\ d[2] <= sizes[d[1]]
    BY DEF Dots
  <2>2. d[1] + 1 \in T /\ f[d[1] + 1] = sizes[d[1]]
    BY <1>3, <1>4, <2>1
  <2> QED
    BY <2>1, <2>2 DEF Dots
<1>10. \A c, d \in A : <<c[1] + 1, c[2]>> = <<d[1] + 1, d[2]>> => c = d
  <2> TAKE c, d \in A
  <2> HAVE <<c[1] + 1, c[2]>> = <<d[1] + 1, d[2]>>
  <2>1. c[1] \in S /\ d[1] \in S /\ c = <<c[1], c[2]>> /\ d = <<d[1], d[2]>>
    BY DEF Dots
  <2>2. c[1] + 1 = d[1] + 1 /\ c[2] = d[2]
    OBVIOUS
  <2>3. c[1] = d[1]
    BY <1>4, <2>1, <2>2
  <2> QED
    BY <2>1, <2>2, <2>3
<1>11. \A e \in B : \E d \in A : <<d[1] + 1, d[2]>> = e
  <2> TAKE e \in B
  <2>1. e[1] \in T /\ e[2] \in Nat /\ 1 <= e[2] /\ e[2] <= f[e[1]] /\ e = <<e[1], e[2]>>
    BY DEF Dots
  <2> DEFINE d == <<e[1] - 1, e[2]>>
  <2>2. d \in A
    BY <1>3, <1>5, <2>1 DEF Dots
  <2>3. d[1] + 1 = e[1] /\ d[2] = e[2]
    BY <1>5, <2>1
  <2> QED
    BY <2>1, <2>2, <2>3
<1> HIDE DEF A, B
<1>12. g \in Bijection(A, B)
  <2>1. g \in [A -> B] /\ (\A e \in B : \E d \in A : g[d] = e) /\ \A c, d \in A : g[c] = g[d] => c = d
    BY <1>9, <1>10, <1>11
  <2> HIDE DEF g
  <2> QED
    BY <2>1 DEF Bijection, Injection, Surjection, IsInjective
<1>13. Cardinality(B) = Cardinality(A)
  BY <1>7, <1>12, FS_Bijection DEF ExistsBijection
<1> QED
  BY <1>6, <1>7, <1>8, <1>13 DEF f

(* all_to_all_single: a rank's part of the whole is what was put in for it.   *)
Sizes(ss) == [p \in Part |-> Len(ss[p])]

PartsAre(V, ss, flat, sizes) ==
    /\ flat \in Seq(V)
    /\ \A p \in Part : sizes[p] = Len(ss[p]) /\ Begins(sizes, p) \in Nat
    /\ \A p \in Part : \A j \in 1..Len(ss[p]) :
          Begins(sizes, p) + j \in 1..Len(flat) /\ flat[Begins(sizes, p) + j] = ss[p][j]
    /\ \A q \in 1..Len(flat) : \E p \in Part : \E j \in 1..Len(ss[p]) : q = Begins(sizes, p) + j

(* Lists joined rank after rank are found again by the sizes: each has its    *)
(* slot, and nothing else is in the whole.                                    *)
LEMMA PartsOfWhole ==
    ASSUME NEW V, NEW ss \in [Part -> Seq(V)]
    PROVE  PartsAre(V, ss, FlattenSeq(Shifted(ss)), Sizes(ss))
<1> DEFINE n == NumParts
           tt == Shifted(ss)
           flat == FlattenSeq(tt)
           f == Shifted(Sizes(ss))
<1>0. n \in Nat
  OBVIOUS
<1>1. \A k \in 1..n : k - 1 \in Part
  BY DEF Part
<1>2. \A p \in Part : p \in Int /\ p \in 0..n /\ p + 1 \in 1..n /\ (p + 1) - 1 = p
  BY DEF Part
<1>3. \A p \in Part : ss[p] \in Seq(V) /\ Len(ss[p]) \in Nat
  OBVIOUS
<1>4. Sizes(ss) \in [Part -> Nat] /\ \A p \in Part : Sizes(ss)[p] = Len(ss[p])
  BY <1>3 DEF Sizes
<1>5. tt = [k \in 1..n |-> ss[k - 1]] /\ f = [k \in 1..n |-> Sizes(ss)[k - 1]]
  BY DEF Shifted
<1>6. tt \in Lists(1..n, V) /\ f = Lens(tt)
  <2>1. tt \in [1..n -> Seq(V)]
    BY <1>1, <1>3, <1>5
  <2>2. \A k \in 1..n : Sizes(ss)[k - 1] = Len(tt[k])
    BY <1>1, <1>4, <1>5
  <2> HIDE DEF f, tt, n
  <2> QED
    BY <1>5, <2>1, <2>2 DEF Lists, Lens
<1> HIDE DEF n, tt, f
<1>7. /\ f \in [1..n -> Nat] /\ FlattenSeq(tt) \in Seq(V) /\ Len(FlattenSeq(tt)) = Upto(f, n)
      /\ \A p \in 1..n : \A j \in 1..Len(tt[p]) : FlattenSeq(tt)[Upto(f, p - 1) + j] = tt[p][j]
  BY <1>0, <1>6, FlattenIs
<1> HIDE DEF flat
<1>8. ASSUME NEW p \in Part PROVE Begins(Sizes(ss), p) = Upto(f, p) /\ Upto(f, p) \in Nat
  <2>1. p \in 0..n
    BY <1>2
  <2> QED
    BY <1>0, <1>4, <1>7, <2>1, BeginsIs, UptoIs DEF f
<1>9. ASSUME NEW p \in Part, NEW j \in 1..Len(ss[p])
      PROVE  /\ Begins(Sizes(ss), p) \in Nat
             /\ Begins(Sizes(ss), p) + j \in 1..Len(flat)
             /\ flat[Begins(Sizes(ss), p) + j] = ss[p][j]
  <2> DEFINE k == p + 1
  <2>1. k \in 1..n /\ k - 1 = p /\ tt[k] = ss[p] /\ f[k] = Len(ss[p])
    BY <1>2, <1>4, <1>5
  <2> HIDE DEF k
  <2>2. flat[Upto(f, k - 1) + j] = tt[k][j]
    BY <1>7, <2>1 DEF flat
  <2>3. Upto(f, k - 1) + j \in 1..Upto(f, n)
    <3>1. n \in 0..n /\ k <= n /\ j \in 1..f[k]
      BY <1>0, <2>1
    <3> QED
      BY <1>0, <1>7, <2>1, <3>1, PartWithin
  <2>4. Upto(f, k - 1) \in Nat
    <3>1. k - 1 \in 0..n
      BY <1>0, <2>1
    <3> QED
      BY <1>0, <1>7, <3>1, UptoIs
  <2> QED
    BY <1>7, <1>8, <2>1, <2>2, <2>3, <2>4 DEF flat
<1>10. ASSUME NEW q \in 1..Len(flat) PROVE \E p \in Part : \E j \in 1..Len(ss[p]) : q = Begins(Sizes(ss), p) + j
  <2>0. \E k \in 1..n : \E j \in 1..f[k] : q = Upto(f, k - 1) + j
    <3>1. q \in 1..Upto(f, n)
      BY <1>7 DEF flat
    <3> QED
      BY ONLY <1>0, <1>7, <3>1, InPart
  <2>1. PICK k \in 1..n : \E j \in 1..f[k] : q = Upto(f, k - 1) + j
    BY <2>0
  <2>2. k - 1 \in Part /\ f[k] = Len(ss[k - 1])
    BY <1>1, <1>4, <1>5
  <2> QED
    BY <1>8, <2>1, <2>2
<1> QED
  BY <1>4, <1>7, <1>8, <1>9, <1>10 DEF PartsAre, flat, tt
LEMMA SlotIs ==
    ASSUME NEW V, NEW ss \in [Part -> Seq(V)], NEW p \in Part
    PROVE  Slot(FlattenSeq(Shifted(ss)), Sizes(ss), p) = ss[p]
<1> DEFINE flat == FlattenSeq(Shifted(ss))
           b == Begins(Sizes(ss), p)
           n == Len(ss[p])
           slot == Slot(flat, Sizes(ss), p)
<1>1. /\ flat \in Seq(V) /\ Sizes(ss)[p] = n /\ b \in Nat
      /\ \A j \in 1..n : b + j \in 1..Len(flat) /\ flat[b + j] = ss[p][j]
  <2> DEFINE sizes == Sizes(ss)
  <2>1. PartsAre(V, ss, flat, sizes)
    BY PartsOfWhole
  <2> HIDE DEF flat, sizes
  <2>2. /\ flat \in Seq(V) /\ sizes[p] = n /\ Begins(sizes, p) \in Nat
        /\ \A j \in 1..n : Begins(sizes, p) + j \in 1..Len(flat) /\ flat[Begins(sizes, p) + j] = ss[p][j]
    BY <2>1 DEF PartsAre
  <2> QED
    BY <2>2 DEF sizes
<1>2. b \in Int /\ n \in Nat /\ ss[p] \in Seq(V)
  BY <1>1
<1>3. slot = SubSeq(flat, b + 1, b + n)
  BY <1>1 DEF Slot
<1> HIDE DEF flat, b, n, slot
<1>4. \A h \in (b + 1)..(b + n) : h \in 1..Len(flat) /\ flat[h] \in V
  <2> TAKE h \in (b + 1)..(b + n)
  <2>1. h - b \in 1..n /\ b + (h - b) = h
    BY <1>1, <1>2
  <2>2. h \in 1..Len(flat)
    BY <1>1, <2>1
  <2> QED
    BY <1>1, <2>2
<1>5. slot \in Seq(V) /\ Len(slot) = n /\ \A j \in 1..n : slot[j] = flat[b + j]
  <2> DEFINE t == [j \in 1..n |-> flat[b + j]]
  <2>1. slot = t
    <3>1. /\ SubSeq(flat, b + 1, b + n) = [i \in 1..((b + n) - (b + 1) + 1) |-> flat[((b + 1) + i) - 1]]
      <4>1. \A s : \A x, y \in Int : SubSeq(s, x, y) = [i \in 1..(1 + y - x) |-> s[x + i - 1]]
        OBVIOUS
      <4> QED
        BY <1>1, <1>2
    <3>2. 1..((b + n) - (b + 1) + 1) = 1..n
      BY <1>1, <1>2
    <3>3. \A i \in 1..n : ((b + 1) + i) - 1 = b + i
      BY <1>1, <1>2
    <3> QED
      BY <1>3, <3>1, <3>2, <3>3
  <2>2. t \in [1..n -> V]
    <3>1. \A j \in 1..n : flat[b + j] \in V
      BY <1>1, <1>2, <1>4
    <3> QED
      BY <3>1
  <2>3. t \in Seq(V) /\ Len(t) = n
    BY <1>1, <1>2, <2>2, ListOf
  <2> QED
    BY <2>1, <2>3
<1>6. Len(ss[p]) = n /\ \A j \in 1..n : slot[j] = ss[p][j]
  BY <1>1, <1>5 DEF n
<1>7. slot = ss[p]
  BY <1>1, <1>5, <1>6, SeqEqual
<1> QED
  BY <1>7 DEF slot, flat

(* The whole has what its parts have, and repeats nothing if they do not.     *)
LEMMA WholeHas ==
    ASSUME NEW V, NEW ss \in [Part -> Seq(V)]
    PROVE  /\ Elements(FlattenSeq(Shifted(ss))) = UNION {Elements(ss[p]) : p \in Part}
           /\ (\A p \in Part : Distinct(ss[p])) /\ (\A p, q \in Part : p # q => Elements(ss[p]) \cap Elements(ss[q]) = {})
                 => Distinct(FlattenSeq(Shifted(ss)))
<1> DEFINE flat == FlattenSeq(Shifted(ss))
           b(p) == Begins(Sizes(ss), p)
<1>1. /\ flat \in Seq(V)
      /\ \A p \in Part : \A j \in 1..Len(ss[p]) : b(p) + j \in 1..Len(flat) /\ flat[b(p) + j] = ss[p][j]
      /\ \A q \in 1..Len(flat) : \E p \in Part : \E j \in 1..Len(ss[p]) : q = b(p) + j
  BY PartsOfWhole DEF PartsAre
<1>2. \A p \in Part : DOMAIN ss[p] = 1..Len(ss[p])
  OBVIOUS
<1> HIDE DEF flat, b
<1>3. DOMAIN flat = 1..Len(flat)
  BY <1>1
<1>4. Elements(flat) = UNION {Elements(ss[p]) : p \in Part}
  <2>1. ASSUME NEW q \in DOMAIN flat PROVE \E p \in Part : flat[q] \in Elements(ss[p])
    <3>1. PICK p \in Part : \E j \in 1..Len(ss[p]) : q = b(p) + j
      BY <1>1, <1>3
    <3>2. PICK j \in 1..Len(ss[p]) : q = b(p) + j
      BY <3>1
    <3> QED
      BY <1>1, <1>2, <3>2 DEF Elements
  <2>2. ASSUME NEW p \in Part, NEW j \in DOMAIN ss[p] PROVE \E q \in DOMAIN flat : flat[q] = ss[p][j]
    BY <1>1, <1>2, <1>3
  <2> QED
    BY <2>1, <2>2 DEF Elements
<1>5. ASSUME \A p \in Part : Distinct(ss[p]), \A p, q \in Part : p # q => Elements(ss[p]) \cap Elements(ss[q]) = {}
      PROVE  Distinct(flat)
  <2>1. ASSUME NEW q \in DOMAIN flat, NEW w \in DOMAIN flat, flat[q] = flat[w] PROVE q = w
    <3>a. PICK p \in Part : \E j \in 1..Len(ss[p]) : q = b(p) + j
      BY <1>1, <1>3
    <3>b. PICK r \in Part : \E i \in 1..Len(ss[r]) : w = b(r) + i
      BY <1>1, <1>3
    <3>1. PICK j \in 1..Len(ss[p]) : q = b(p) + j
      BY <3>a
    <3>2. PICK i \in 1..Len(ss[r]) : w = b(r) + i
      BY <3>b
    <3>3. ss[p][j] = ss[r][i]
      BY <1>1, <2>1, <3>1, <3>2
    <3>4. ss[p][j] \in Elements(ss[p]) /\ ss[r][i] \in Elements(ss[r])
      BY <1>2 DEF Elements
    <3>5. p = r
      BY <1>5, <3>3, <3>4
    <3>6. j = i
      BY <1>2, <1>5, <3>3, <3>5 DEF Distinct
    <3> QED
      BY <3>1, <3>2, <3>5, <3>6
  <2> QED
    BY <2>1 DEF Distinct
<1> QED
  BY <1>4, <1>5 DEF flat

RowsIn(src, nodes) == [i \in DOMAIN nodes |-> RowIn(src, nodes[i])]

(* The rows of nodes a rank has.                                              *)
LEMMA RowsInIs ==
    ASSUME NEW src \in Seq(Node), NEW nodes \in Seq(Node), Distinct(nodes), Elements(nodes) \subseteq Elements(src)
    PROVE  /\ RowsIn(src, nodes) \in Seq(Int) /\ Len(RowsIn(src, nodes)) = Len(nodes)
           /\ DOMAIN RowsIn(src, nodes) = DOMAIN nodes
           /\ Distinct(RowsIn(src, nodes))
           /\ \A i \in DOMAIN nodes : src[RowsIn(src, nodes)[i] + 1] = nodes[i]
           /\ Elements(RowsIn(src, nodes)) = {RowIn(src, n) : n \in Elements(nodes)}
<1> DEFINE rows == RowsIn(src, nodes)
           n == Len(nodes)
<1>1. n \in Nat /\ DOMAIN nodes = 1..n
  OBVIOUS
<1>2. rows = [i \in 1..n |-> RowIn(src, nodes[i])]
  BY <1>1 DEF RowsIn
<1>3. ASSUME NEW i \in 1..n PROVE RowIn(src, nodes[i]) \in Int /\ src[RowIn(src, nodes[i]) + 1] = nodes[i]
  <2>1. nodes[i] \in Elements(src)
    BY <1>1 DEF Elements
  <2> DEFINE x == nodes[i]
  <2> HIDE DEF x
  <2>2. PlaceIn(src, x) \in 0..(Len(src) - 1) /\ RowIn(src, x) = PlaceIn(src, x) /\ src[PlaceIn(src, x) + 1] = x
    BY <2>1, PlacedIn DEF x
  <2>3. RowIn(src, x) \in Int /\ src[RowIn(src, x) + 1] = x
    BY <2>2
  <2> QED
    BY <2>3 DEF x
<1> HIDE DEF n, rows
<1>4. rows \in [1..n -> Int]
  BY <1>2, <1>3
<1>5. rows \in Seq(Int) /\ Len(rows) = n /\ DOMAIN rows = 1..n
  BY <1>1, <1>4, ListOf
<1>6. \A i \in 1..n : src[rows[i] + 1] = nodes[i] /\ rows[i] = RowIn(src, nodes[i])
  BY <1>2, <1>3
<1>7. Distinct(rows)
  BY <1>1, <1>5, <1>6 DEF Distinct
<1>8. Elements(rows) = {RowIn(src, x) : x \in Elements(nodes)}
  BY <1>1, <1>5, <1>6 DEF Elements
<1> QED
  BY <1>1, <1>5, <1>6, <1>7, <1>8 DEF rows, n

(* What a route relies on in the slice of a rank: the rows it computes come   *)
(* first, and it asks the master of each of the others.                       *)
Borrowed(s) == {s.src_nodes[row + 1] : row \in Len(s.dst_nodes)..(Len(s.src_nodes) - 1)}

Fits(s, rank) ==
    /\ s.src_nodes \in Seq(Node) /\ Distinct(s.src_nodes)
    /\ Len(s.dst_nodes) \in Nat /\ Len(s.dst_nodes) <= Len(s.src_nodes)
    /\ \A n \in Node : Master(n) = rank =>
          n \in Elements(s.src_nodes) /\ RowIn(s.src_nodes, n) \in 0..(Len(s.dst_nodes) - 1)
    /\ s.recv_nodes \in [Part -> Seq(Node)]
    /\ \A peer \in Part :
          /\ Distinct(s.recv_nodes[peer])
          /\ Elements(s.recv_nodes[peer]) = {n \in Borrowed(s) : Master(n) = peer}

(* What a slice expects of its peers is what it borrows, peer by peer, and    *)
(* each has it among the nodes it computes.                                   *)
LEMMA SliceFits ==
    ASSUME PlanInv, pc = "done", NEW rank \in Part, NEW edges \in Seq(1..N),
           NEW hot_compute \in BOOLEAN, NEW diffusion \in BOOLEAN
    PROVE  Fits(Slice(rank, edges, hot_compute, diffusion), rank)
<1> DEFINE s == Slice(rank, edges, hot_compute, diffusion)
           d == DstNodes(rank, hot_compute)
           r == RemoteSrc(d, edges, diffusion)
           src == d \o r
           places(peer) == {i \in DOMAIN r : Master(r[i]) = peer}
           want == DstOf(rank, hot_compute)
<1>1. /\ s.src_nodes = src /\ s.dst_nodes = d
      /\ s.recv_nodes = [peer \in Part |-> Masked(r, places(peer))]
  BY DEF Slice
<1>2. d \in Seq(Node) /\ Distinct(d) /\ Elements(d) = want
  BY DstNodesAre
<1> HIDE DEF d
<1>3. r \in Seq(Node) /\ Distinct(r) /\ Elements(r) \cap Elements(d) = {}
  BY RemoteSrcIs
<1> HIDE DEF r, s
<1>4. /\ src \in Seq(Node \cup Node) /\ Len(d) \in Nat /\ Len(r) \in Nat /\ Len(src) = Len(d) + Len(r)
      /\ DOMAIN d = 1..Len(d) /\ DOMAIN r = 1..Len(r) /\ DOMAIN src = 1..(Len(d) + Len(r))
      /\ \A i \in 1..Len(d) : src[i] = d[i]
      /\ \A i \in (Len(d) + 1)..(Len(d) + Len(r)) : src[i] = r[i - Len(d)] /\ i - Len(d) \in 1..Len(r)
  BY <1>2, <1>3, JoinIs
<1>5. Elements(src) = Elements(d) \cup Elements(r) /\ Distinct(src)
  BY <1>2, <1>3, DistinctJoin
<1> HIDE DEF src
<1>6. src \in Seq(Node)
  BY <1>4
<1>7. ASSUME NEW n \in Node, Master(n) = rank PROVE n \in Elements(src) /\ RowIn(src, n) \in 0..(Len(d) - 1)
  <2>1. n \in Elements(d)
    BY <1>2, <1>7 DEF DstOf
  <2>2. PICK i \in 1..Len(d) : d[i] = n
    BY <1>4, <2>1 DEF Elements
  <2>3. i \in DOMAIN src /\ src[i] = n
    BY <1>4, <2>2
  <2>4. RowIn(src, src[i]) = i - 1
    BY <1>5, <1>6, <2>3, PlacedAt
  <2> QED
    BY <1>4, <1>5, <2>1, <2>2, <2>3, <2>4
<1>8. Borrowed(s) = Elements(r)
  <2>1. Borrowed(s) = {src[row + 1] : row \in Len(d)..(Len(src) - 1)}
    BY <1>1 DEF Borrowed
  <2>2. ASSUME NEW row \in Len(d)..(Len(src) - 1) PROVE \E i \in DOMAIN r : src[row + 1] = r[i]
    <3>1. row + 1 \in (Len(d) + 1)..(Len(d) + Len(r))
      BY <1>4
    <3> QED
      BY <1>4, <3>1
  <2>3. ASSUME NEW i \in DOMAIN r PROVE \E row \in Len(d)..(Len(src) - 1) : src[row + 1] = r[i]
    <3> DEFINE row == Len(d) + i - 1
    <3>1. /\ row \in Len(d)..(Len(src) - 1) /\ row + 1 \in (Len(d) + 1)..(Len(d) + Len(r))
          /\ (row + 1) - Len(d) = i
      BY <1>4
    <3> HIDE DEF row
    <3>2. src[row + 1] = r[i]
      BY <1>4, <3>1
    <3> QED
      BY <3>1, <3>2
  <2> QED
    BY <2>1, <2>2, <2>3 DEF Elements
<1>9. ASSUME NEW peer \in Part
      PROVE  LET m == Masked(r, places(peer))
             IN  m \in Seq(Node) /\ Distinct(m) /\ Elements(m) = {n \in Borrowed(s) : Master(n) = peer}
  <2> DEFINE P == places(peer)
             m == Masked(r, P)
  <2>1. P \in SUBSET DOMAIN r /\ \A i \in DOMAIN r : i \in P <=> Master(r[i]) = peer
    OBVIOUS
  <2> HIDE DEF P
  <2>2. /\ Masked(r, P) \in Seq(Node) /\ Len(Masked(r, P)) = Cardinality(P)
        /\ DOMAIN Masked(r, P) = DOMAIN Increasing(P)
        /\ \A k \in DOMAIN Masked(r, P) : Masked(r, P)[k] = r[Increasing(P)[k]] /\ Increasing(P)[k] \in P
        /\ Elements(Masked(r, P)) = {r[i] : i \in P}
        /\ Distinct(r) => Distinct(Masked(r, P))
    BY <1>3, <2>1, MaskedIs
  <2>3. {r[i] : i \in P} = {n \in Elements(r) : Master(n) = peer}
    BY <2>1 DEF Elements
  <2>4. m \in Seq(Node) /\ Distinct(m) /\ Elements(m) = {n \in Borrowed(s) : Master(n) = peer}
    BY <1>3, <1>8, <2>2, <2>3
  <2> QED
    BY <2>4 DEF P
<1> HIDE DEF places
<1>10. s.recv_nodes \in [Part -> Seq(Node)]
  BY <1>1, <1>9
<1>11. \A peer \in Part : s.recv_nodes[peer] = Masked(r, places(peer))
  BY <1>1
<1>12. Fits(s, rank)
  <2>1. Len(d) <= Len(src) /\ Len(d) \in Nat
    BY <1>4
  <2> QED
    BY <1>1, <1>5, <1>6, <1>7, <1>9, <1>10, <1>11, <2>1 DEF Fits
<1> QED
  BY <1>12 DEF s

(* What the ranks ask of one, and what it asks of them.                       *)
Asks(slices, rank) == [peer \in Part |-> Requested(slices, rank, peer)]
RowsOf(src, lists) == [peer \in Part |-> RowsIn(src, lists[peer])]

AllFit(slices) == \A rank \in Part : Fits(slices[rank], rank)

RouteIs(route, slices, rank) ==
    LET src == slices[rank].src_nodes
        asks == Asks(slices, rank)
        gets == slices[rank].recv_nodes
    IN  /\ ~route.raised
        /\ route.send_sizes = Sizes(asks) /\ route.recv_sizes = Sizes(gets)
        /\ route.send_index = FlattenSeq(Shifted(RowsOf(src, asks)))
        /\ route.recv_src_row = FlattenSeq(Shifted(RowsOf(src, gets)))

(* Whoever asks a rank asks it for nodes that are its own.                    *)
LEMMA AskedIsOwn ==
    ASSUME NEW slices, AllFit(slices), NEW rank \in Part, NEW peer \in Part
    PROVE  /\ Requested(slices, rank, peer) \in Seq(Node) /\ Distinct(Requested(slices, rank, peer))
           /\ Elements(Requested(slices, rank, peer)) \subseteq Elements(slices[rank].src_nodes)
           /\ \A n \in Elements(Requested(slices, rank, peer)) :
                 RowIn(slices[rank].src_nodes, n) \in 0..(Len(slices[rank].dst_nodes) - 1)
<1> DEFINE m == Requested(slices, rank, peer)
<1>1. /\ m \in Seq(Node) /\ Distinct(m)
      /\ Elements(m) = {n \in Borrowed(slices[peer]) : Master(n) = rank}
  BY DEF AllFit, Fits, Requested
<1>2. \A n \in Elements(m) : n \in Node /\ Master(n) = rank
  <2>1. \A i \in DOMAIN m : m[i] \in Node
    BY <1>1, ItemsOf
  <2> QED
    BY <1>1, <2>1 DEF Elements
<1>3. Fits(slices[rank], rank)
  BY DEF AllFit
<1> HIDE DEF m
<1>4. \A n \in Elements(m) : /\ n \in Elements(slices[rank].src_nodes)
                             /\ RowIn(slices[rank].src_nodes, n) \in 0..(Len(slices[rank].dst_nodes) - 1)
  BY <1>2, <1>3 DEF Fits
<1> QED
  BY <1>1, <1>4 DEF m

(* What a rank gets of a peer are nodes it borrows.                           *)
LEMMA GotIsBorrowed ==
    ASSUME NEW slices, AllFit(slices), NEW rank \in Part, NEW peer \in Part
    PROVE  /\ slices[rank].recv_nodes[peer] \in Seq(Node) /\ Distinct(slices[rank].recv_nodes[peer])
           /\ Elements(slices[rank].recv_nodes[peer]) = {n \in Borrowed(slices[rank]) : Master(n) = peer}
           /\ Elements(slices[rank].recv_nodes[peer]) \subseteq Elements(slices[rank].src_nodes)
<1> DEFINE s == slices[rank]
           m == s.recv_nodes[peer]
<1>1. Fits(s, rank)
  BY DEF AllFit
<1>2. m \in Seq(Node) /\ Distinct(m) /\ Elements(m) = {n \in Borrowed(s) : Master(n) = peer}
  BY <1>1 DEF Fits
<1>3. Borrowed(s) \subseteq Elements(s.src_nodes)
  <2>1. /\ Len(s.dst_nodes) \in Nat /\ Len(s.src_nodes) \in Nat /\ DOMAIN s.src_nodes = 1..Len(s.src_nodes)
    BY <1>1, ItemsOf DEF Fits
  <2>2. \A row \in Len(s.dst_nodes)..(Len(s.src_nodes) - 1) : row + 1 \in DOMAIN s.src_nodes
    BY <2>1
  <2> QED
    BY <2>2 DEF Borrowed, Elements
<1> QED
  BY <1>2, <1>3

(* A route lists, peer after peer, the rows asked of a rank and the rows it   *)
(* fills.                                                                     *)
LEMMA RoutesAre ==
    ASSUME NEW slices, AllFit(slices), NEW rank \in Part
    PROVE  RouteIs(Route(slices, rank), slices, rank)
<1> DEFINE route == Route(slices, rank)
           src == slices[rank].src_nodes
           asks == Asks(slices, rank)
           gets == slices[rank].recv_nodes
<1>1. /\ route.raised = \E peer \in Part : Beyond(src, Requested(slices, rank, peer))
      /\ route.send_sizes = [peer \in Part |-> Len(Requested(slices, rank, peer))]
      /\ route.recv_sizes = [peer \in Part |-> Len(gets[peer])]
      /\ route.send_index = FlattenSeq([k \in 1..NumParts |-> RowsIn(src, Requested(slices, rank, k - 1))])
      /\ route.recv_src_row = FlattenSeq([k \in 1..NumParts |-> RowsIn(src, gets[k - 1])])
  BY DEF Route, RowsIn
<1>2. ASSUME NEW peer \in Part PROVE ~Beyond(src, Requested(slices, rank, peer))
  <2>1. /\ Elements(Requested(slices, rank, peer)) \subseteq Elements(src)
        /\ Elements(Requested(slices, rank, peer)) \subseteq Int
    <3> DEFINE m == Requested(slices, rank, peer)
    <3>1. m \in Seq(Node) /\ Elements(m) \subseteq Elements(src)
      BY AskedIsOwn
    <3> HIDE DEF m, src
    <3>2. \A i \in DOMAIN m : m[i] \in Int
      BY <3>1, ItemsOf DEF Node
    <3>3. Elements(m) \subseteq Int
      BY <3>2 DEF Elements
    <3> QED
      BY <3>1, <3>3 DEF m
  <2> QED
    BY <2>1 DEF Beyond
<1>3. \A k \in 1..NumParts : k - 1 \in Part
  BY DEF Part
<1>4. /\ Shifted(RowsOf(src, asks)) = [k \in 1..NumParts |-> RowsIn(src, Requested(slices, rank, k - 1))]
      /\ Shifted(RowsOf(src, gets)) = [k \in 1..NumParts |-> RowsIn(src, gets[k - 1])]
  BY <1>3 DEF Shifted, RowsOf, Asks
<1>5. Sizes(asks) = [peer \in Part |-> Len(Requested(slices, rank, peer))]
  BY DEF Sizes, Asks
<1>6. Sizes(gets) = [peer \in Part |-> Len(gets[peer])]
  BY DEF Sizes
<1> QED
  BY <1>1, <1>2, <1>4, <1>5, <1>6 DEF RouteIs

(* RoutesPairUp of one window.                                                *)
PairedWith(slice, route, other, answer, a, b) ==
    /\ route.send_sizes[b] = answer.recv_sizes[a]
    /\ NodesAt(slice, Slot(route.send_index, route.send_sizes, b))
           = NodesAt(other, Slot(answer.recv_src_row, answer.recv_sizes, a))

RouteFills(slice, route) ==
    /\ ~route.raised
    /\ \A row \in Elements(route.send_index) : row \in 0..(Len(slice.dst_nodes) - 1)
    /\ Len(route.recv_src_row) = Cardinality(Elements(route.recv_src_row))
    /\ Elements(route.recv_src_row) = Len(slice.dst_nodes)..(Len(slice.src_nodes) - 1)

(* Every row of a borrowed node is filled once.                               *)
LEMMA RoutesFill ==
    ASSUME NEW slices, AllFit(slices), NEW rank \in Part, \A n \in Node : Master(n) \in Part
    PROVE  RouteFills(slices[rank], Route(slices, rank))
<1> DEFINE route == Route(slices, rank)
           s == slices[rank]
           src == s.src_nodes
           d == Len(s.dst_nodes)
           asks == Asks(slices, rank)
           gets == s.recv_nodes
           sent == RowsOf(src, asks)
           put == RowsOf(src, gets)
<1>1. /\ ~route.raised
      /\ route.send_index = FlattenSeq(Shifted(sent))
      /\ route.recv_src_row = FlattenSeq(Shifted(put))
  BY RoutesAre DEF RouteIs
<1>2. Fits(s, rank)
  BY DEF AllFit
<1>3. src \in Seq(Node) /\ Distinct(src) /\ d \in Nat /\ Len(src) \in Nat /\ DOMAIN src = 1..Len(src)
  BY <1>2, ItemsOf DEF Fits
<1>4. ASSUME NEW p \in Part
      PROVE  /\ asks[p] = Requested(slices, rank, p) /\ sent[p] = RowsIn(src, asks[p]) /\ put[p] = RowsIn(src, gets[p])
             /\ sent[p] \in Seq(Int) /\ (\A x \in Elements(sent[p]) : \E n \in Elements(asks[p]) : x = RowIn(src, n))
             /\ put[p] \in Seq(Int) /\ Distinct(put[p])
             /\ (\A x \in Elements(put[p]) : \E n \in Elements(gets[p]) : x = RowIn(src, n))
             /\ (\A n \in Elements(gets[p]) : RowIn(src, n) \in Elements(put[p]))
  <2> DEFINE u == asks[p]
             w == gets[p]
  <2>1. asks[p] = Requested(slices, rank, p) /\ sent[p] = RowsIn(src, asks[p]) /\ put[p] = RowsIn(src, gets[p])
    BY DEF Asks, RowsOf
  <2>2. u \in Seq(Node) /\ Distinct(u) /\ Elements(u) \subseteq Elements(src)
    BY <2>1, AskedIsOwn
  <2>3. w \in Seq(Node) /\ Distinct(w) /\ Elements(w) \subseteq Elements(src)
    BY GotIsBorrowed
  <2> HIDE DEF u, w, src, sent, put
  <2>4. RowsIn(src, u) \in Seq(Int) /\ Elements(RowsIn(src, u)) = {RowIn(src, n) : n \in Elements(u)}
    BY <1>3, <2>2, RowsInIs
  <2>5. /\ RowsIn(src, w) \in Seq(Int) /\ Distinct(RowsIn(src, w))
        /\ Elements(RowsIn(src, w)) = {RowIn(src, n) : n \in Elements(w)}
    BY <1>3, <2>3, RowsInIs
  <2> QED
    BY <2>1, <2>4, <2>5 DEF u, w
<1>5. sent \in [Part -> Seq(Int)] /\ put \in [Part -> Seq(Int)]
  BY <1>4 DEF RowsOf
<1>6. \A p \in Part :
         /\ \A n \in Elements(gets[p]) : n \in Borrowed(s) /\ Master(n) = p /\ n \in Elements(src)
         /\ \A n \in Borrowed(s) : Master(n) = p => n \in Elements(gets[p])
  <2> TAKE p \in Part
  <2>1. /\ gets[p] \in Seq(Node) /\ Distinct(gets[p])
        /\ Elements(gets[p]) = {n \in Borrowed(s) : Master(n) = p}
        /\ Elements(gets[p]) \subseteq Elements(src)
    BY GotIsBorrowed
  <2> QED
    BY <2>1
<1>7. \A p \in Part : \A n \in Elements(asks[p]) : RowIn(src, n) \in 0..(d - 1)
  BY <1>4, AskedIsOwn
<1> HIDE DEF route, src, d, asks, gets, sent, put
<1>8. \A row \in Elements(route.send_index) : row \in 0..(d - 1)
  <2>1. Elements(route.send_index) = UNION {Elements(sent[p]) : p \in Part}
    BY <1>1, <1>5, WholeHas
  <2> TAKE row \in Elements(route.send_index)
  <2>2. PICK p \in Part : row \in Elements(sent[p])
    BY <2>1
  <2>3. PICK n \in Elements(asks[p]) : row = RowIn(src, n)
    BY <1>4, <2>2
  <2> QED
    BY <1>7, <2>3
<1>9. \A n \in Elements(src) : RowIn(src, n) \in Int /\ src[RowIn(src, n) + 1] = n
  <2> TAKE n \in Elements(src)
  <2>1. PlaceIn(src, n) \in 0..(Len(src) - 1) /\ RowIn(src, n) = PlaceIn(src, n) /\ src[PlaceIn(src, n) + 1] = n
    BY <1>3, PlacedIn
  <2> QED
    BY <1>3, <2>1
<1>10. \A p, q \in Part : p # q => Elements(put[p]) \cap Elements(put[q]) = {}
  <2> TAKE p, q \in Part
  <2> HAVE p # q
  <2>1. ASSUME NEW x \in Elements(put[p]), x \in Elements(put[q]) PROVE FALSE
    <3>1. PICK n \in Elements(gets[p]) : x = RowIn(src, n)
      BY <1>4
    <3>2. PICK m \in Elements(gets[q]) : x = RowIn(src, m)
      BY <1>4, <2>1
    <3>3. n \in Elements(src) /\ m \in Elements(src) /\ Master(n) = p /\ Master(m) = q
      BY <1>6
    <3>4. src[x + 1] = n /\ src[x + 1] = m
      BY <1>9, <3>1, <3>2, <3>3
    <3> QED
      BY <3>3, <3>4
  <2> QED
    BY <2>1
<1>11. /\ Elements(route.recv_src_row) = UNION {Elements(put[p]) : p \in Part}
       /\ Distinct(route.recv_src_row)
       /\ route.recv_src_row \in Seq(Int)
  <2>1. FlattenSeq(Shifted(put)) \in Seq(Int)
    BY <1>5, PartsOfWhole DEF PartsAre
  <2>2. /\ Elements(FlattenSeq(Shifted(put))) = UNION {Elements(put[p]) : p \in Part}
        /\ (\A p \in Part : Distinct(put[p])) /\ (\A p, q \in Part : p # q => Elements(put[p]) \cap Elements(put[q]) = {})
              => Distinct(FlattenSeq(Shifted(put)))
    BY <1>5, WholeHas
  <2> QED
    BY <1>1, <1>4, <1>10, <2>1, <2>2
<1>12. Len(route.recv_src_row) = Cardinality(Elements(route.recv_src_row))
  BY <1>11, DistinctLength
<1>13. Elements(route.recv_src_row) = d..(Len(src) - 1)
  <2>1. Borrowed(s) = {src[row + 1] : row \in d..(Len(src) - 1)}
    BY DEF Borrowed, src, d
  <2>2. ASSUME NEW row \in d..(Len(src) - 1)
        PROVE  /\ src[row + 1] \in Borrowed(s) /\ RowIn(src, src[row + 1]) = row
               /\ Master(src[row + 1]) \in Part
    <3>1. row + 1 \in DOMAIN src /\ (row + 1) - 1 = row
      BY <1>3
    <3>2. RowIn(src, src[row + 1]) = (row + 1) - 1
      BY <1>3, <3>1, PlacedAt
    <3>3. src[row + 1] \in Node
      BY <1>3, <3>1, ItemsOf
    <3> QED
      BY <2>1, <3>1, <3>2, <3>3
  <2>3. ASSUME NEW p \in Part, NEW x \in Elements(put[p]) PROVE x \in d..(Len(src) - 1)
    <3>1. PICK n \in Elements(gets[p]) : x = RowIn(src, n)
      BY <1>4
    <3>2. n \in Borrowed(s)
      BY <1>6
    <3>3. PICK row \in d..(Len(src) - 1) : n = src[row + 1]
      BY <2>1, <3>2
    <3> QED
      BY <2>2, <3>1, <3>3
  <2>4. ASSUME NEW row \in d..(Len(src) - 1) PROVE \E p \in Part : row \in Elements(put[p])
    <3> DEFINE n == src[row + 1]
               p == Master(n)
    <3>1. n \in Borrowed(s) /\ RowIn(src, n) = row /\ p \in Part
      BY <2>2
    <3> HIDE DEF n
    <3>2. n \in Elements(gets[p])
      BY <1>6, <3>1
    <3>3. row \in Elements(put[p])
      BY <1>4, <3>1, <3>2
    <3> QED
      BY <3>1, <3>3
  <2> QED
    BY <1>11, <2>3, <2>4
<1>14. ~route.raised
  BY <1>1
<1>15. /\ \A row \in Elements(route.send_index) : row \in 0..(Len(s.dst_nodes) - 1)
       /\ Elements(route.recv_src_row) = Len(s.dst_nodes)..(Len(s.src_nodes) - 1)
  BY <1>8, <1>13 DEF src, d
<1> HIDE DEF s
<1>16. RouteFills(s, route)
  BY ONLY <1>12, <1>14, <1>15 DEF RouteFills
<1> QED
  BY ONLY <1>16 DEF s, route

(* What a sends b stands, item by item, where b puts it.                      *)
LEMMA RoutesPaired ==
    ASSUME NEW slices, AllFit(slices), NEW a \in Part, NEW b \in Part
    PROVE  PairedWith(slices[a], Route(slices, a), slices[b], Route(slices, b), a, b)
<1> DEFINE srcA == slices[a].src_nodes
           srcB == slices[b].src_nodes
           asks == Asks(slices, a)
           gets == slices[b].recv_nodes
           m == gets[a]
           sent == RowsOf(srcA, asks)
           put == RowsOf(srcB, gets)
           out == Route(slices, a)
           in == Route(slices, b)
<1>1. /\ out.send_sizes = Sizes(asks) /\ out.send_index = FlattenSeq(Shifted(sent))
      /\ in.recv_sizes = Sizes(gets) /\ in.recv_src_row = FlattenSeq(Shifted(put))
  BY RoutesAre DEF RouteIs
<1>2. \A p \in Part : /\ asks[p] \in Seq(Node) /\ Distinct(asks[p]) /\ Elements(asks[p]) \subseteq Elements(srcA)
                      /\ gets[p] \in Seq(Node) /\ Distinct(gets[p]) /\ Elements(gets[p]) \subseteq Elements(srcB)
  <2> TAKE p \in Part
  <2>1. asks[p] = Requested(slices, a, p)
    BY DEF Asks
  <2>2. /\ Requested(slices, a, p) \in Seq(Node) /\ Distinct(Requested(slices, a, p))
        /\ Elements(Requested(slices, a, p)) \subseteq Elements(srcA)
    BY AskedIsOwn
  <2>3. gets[p] \in Seq(Node) /\ Distinct(gets[p]) /\ Elements(gets[p]) \subseteq Elements(srcB)
    BY GotIsBorrowed
  <2> QED
    BY <2>1, <2>2, <2>3
<1>3. srcA \in Seq(Node) /\ srcB \in Seq(Node)
  BY DEF AllFit, Fits
<1>4. asks[b] = m
  BY DEF Asks, Requested
<1>5. \A p \in Part : sent[p] = RowsIn(srcA, asks[p]) /\ put[p] = RowsIn(srcB, gets[p])
  BY DEF RowsOf
<1> HIDE DEF srcA, srcB, asks, sent, put, out, in
<1>6. \A p \in Part : /\ sent[p] \in Seq(Int) /\ Len(sent[p]) = Len(asks[p])
                      /\ put[p] \in Seq(Int) /\ Len(put[p]) = Len(gets[p])
  <2> TAKE p \in Part
  <2>1. RowsIn(srcA, asks[p]) \in Seq(Int) /\ Len(RowsIn(srcA, asks[p])) = Len(asks[p])
    BY <1>2, <1>3, RowsInIs
  <2> HIDE DEF gets
  <2>2. RowsIn(srcB, gets[p]) \in Seq(Int) /\ Len(RowsIn(srcB, gets[p])) = Len(gets[p])
    BY <1>2, <1>3, RowsInIs
  <2> QED
    BY <1>5, <2>1, <2>2
<1>7. sent \in [Part -> Seq(Int)] /\ put \in [Part -> Seq(Int)]
  BY <1>6 DEF sent, put, RowsOf
<1>8. Sizes(sent) = Sizes(asks) /\ Sizes(put) = Sizes(gets)
  BY <1>6 DEF Sizes
<1>9. Slot(FlattenSeq(Shifted(sent)), Sizes(sent), b) = sent[b] /\ Slot(FlattenSeq(Shifted(put)), Sizes(put), a) = put[a]
  BY <1>7, SlotIs
<1>10. /\ Slot(out.send_index, out.send_sizes, b) = RowsIn(srcA, m)
       /\ Slot(in.recv_src_row, in.recv_sizes, a) = RowsIn(srcB, m)
  BY <1>1, <1>4, <1>5, <1>8, <1>9
<1>11. m \in Seq(Node) /\ Distinct(m) /\ Elements(m) \subseteq Elements(srcA) /\ Elements(m) \subseteq Elements(srcB)
  BY <1>2, <1>4
<1> HIDE DEF m
<1>12. /\ DOMAIN RowsIn(srcA, m) = DOMAIN m /\ \A i \in DOMAIN m : srcA[RowsIn(srcA, m)[i] + 1] = m[i]
       /\ DOMAIN RowsIn(srcB, m) = DOMAIN m /\ \A i \in DOMAIN m : srcB[RowsIn(srcB, m)[i] + 1] = m[i]
  BY <1>3, <1>11, RowsInIs
<1>13. NodesAt(slices[a], RowsIn(srcA, m)) = NodesAt(slices[b], RowsIn(srcB, m))
  BY <1>12 DEF NodesAt, srcA, srcB
<1>14. out.send_sizes[b] = in.recv_sizes[a]
  BY <1>1, <1>4 DEF Sizes, m
<1> QED
  BY <1>10, <1>13, <1>14 DEF PairedWith, out, in

(* RoutesPairUp of the views of one window.                                   *)
ViewsPaired(views) ==
    \A a, b \in Part : /\ RouteFills(views[a], views[a].route)
                       /\ PairedWith(views[a], views[a].route, views[b], views[b].route, a, b)

RoutesInv == \A k \in DOMAIN snapshot_csc_views : ViewsPaired(snapshot_csc_views[k])

RouteInv == FeatureInv /\ RoutesInv

(* RoutesInv is RoutesPairUp, named by its parts.                             *)
LEMMA RoutesArePaired == RoutesInv => RoutesPairUp
<1> SUFFICES ASSUME RoutesInv PROVE RoutesPairUp
  OBVIOUS
<1>1. ASSUME NEW k \in DOMAIN snapshot_csc_views, NEW a \in Part, NEW b \in Part
      PROVE  /\ RouteFills(snapshot_csc_views[k][a], snapshot_csc_views[k][a].route)
             /\ PairedWith(snapshot_csc_views[k][a], snapshot_csc_views[k][a].route,
                           snapshot_csc_views[k][b], snapshot_csc_views[k][b].route, a, b)
  BY DEF RoutesInv, ViewsPaired
<1> QED
  BY <1>1 DEF RoutesPairUp, RouteFills, PairedWith

(* The views of a window are the slices that its routes were made from.       *)
LEMMA BuiltArePaired ==
    ASSUME PlanInv, pc = "done", NEW edges \in Seq(1..N), NEW hot_compute \in BOOLEAN, NEW diffusion \in BOOLEAN
    PROVE  ViewsPaired(SnapshotViews(edges, hot_compute, diffusion))
<1> DEFINE views == SnapshotViews(edges, hot_compute, diffusion)
           slices == AllSlices(edges, hot_compute, diffusion)
<1>1. \A rank \in Part : slices[rank] = Slice(rank, edges, hot_compute, diffusion)
  BY DEF AllSlices
<1>2. AllFit(slices)
  BY <1>1, SliceFits DEF AllFit
<1>3. \A rank \in Part : Shows(views[rank], slices[rank]) /\ views[rank].route = Route(slices, rank)
  BY <1>1, ViewFields
<1>4. \A n \in Node : Master(n) \in Part
  BY OwnersKnown
<1> HIDE DEF views, slices
<1> SUFFICES ASSUME NEW a \in Part, NEW b \in Part
             PROVE  /\ RouteFills(views[a], views[a].route)
                    /\ PairedWith(views[a], views[a].route, views[b], views[b].route, a, b)
  BY DEF ViewsPaired, views
<1> DEFINE out == Route(slices, a)
           in == Route(slices, b)
<1>5. RouteFills(slices[a], out)
  BY <1>2, <1>4, RoutesFill
<1>6. PairedWith(slices[a], out, slices[b], in, a, b)
  BY <1>2, RoutesPaired
<1>7. views[a].route = out /\ views[b].route = in /\ Shows(views[a], slices[a]) /\ Shows(views[b], slices[b])
  BY <1>3
<1> HIDE DEF out, in
<1>8. RouteFills(views[a], out)
  BY <1>5, <1>7 DEF RouteFills, Shows
<1>9. \A rows : NodesAt(views[a], rows) = NodesAt(slices[a], rows) /\ NodesAt(views[b], rows) = NodesAt(slices[b], rows)
  BY <1>7 DEF NodesAt, Shows
<1>10. PairedWith(views[a], out, views[b], in, a, b)
  BY <1>6, <1>9 DEF PairedWith
<1> QED
  BY <1>7, <1>8, <1>10

(* Routes are built once, for all ranks of a window together.                 *)
LEMMA RoutesStep ==
    ASSUME StageInv, ViewsInv, RoutesInv, BuildSnapshot
    PROVE  RoutesInv'
<1> DEFINE k == Len(snapshot_csc_views) + 1
           w == Windows[k]
           hc == "snapshot_hot_compute" \in layouts
           df == "snapshot_diffusion" \in layouts
           v == SnapshotViews(EdgesOf(w), hc, df)
           old == snapshot_csc_views
           new == snapshot_csc_views'
<1>1. stage = "snapshots" /\ k \in DOMAIN Windows /\ new = Append(old, v)
  BY DEF BuildSnapshot, EdgesOf
<1>2. PlanInv /\ pc = "done"
  BY <1>1 DEF StageInv, Chosen, Staged
<1>3. w.begin \in Nat /\ w.end \in 0..N /\ N \in Nat
  BY <1>1, WindowsWithin, TimesOrdered
<1>4. ViewsPaired(v)
  <2> DEFINE edges == EdgesOf(w)
  <2>1. edges \in Seq(1..N)
    BY <1>3, EdgesOfWindow
  <2>2. hc \in BOOLEAN /\ df \in BOOLEAN
    OBVIOUS
  <2> HIDE DEF edges, hc, df
  <2>3. ViewsPaired(SnapshotViews(edges, hc, df))
    BY <1>2, <2>1, <2>2, BuiltArePaired
  <2> QED
    BY <2>3 DEF edges
<1> HIDE DEF v
<1>5. PICK V : old \in Seq(V)
  BY DEF ViewsInv
<1>6. /\ DOMAIN new = 1..k
      /\ \A i \in 1..k : IF i = k THEN new[i] = v ELSE i \in DOMAIN old /\ new[i] = old[i]
  <2>1. /\ old \in Seq(V \cup {v}) /\ Len(old) \in Nat /\ DOMAIN old = 1..Len(old)
    <3>1. Len(old) \in Nat /\ DOMAIN old = 1..Len(old) /\ \A i \in DOMAIN old : old[i] \in V
      BY <1>5, ItemsOf
    <3>2. \A i \in DOMAIN old : old[i] \in V \cup {v}
      BY <3>1
    <3> QED
      BY <1>5, <3>1, <3>2, WiderList
  <2> QED
    BY <1>1, <2>1
<1> HIDE DEF k
<1>7. ASSUME NEW i \in DOMAIN new PROVE ViewsPaired(new[i])
  <2>1. CASE i = k
    BY <1>4, <1>6, <2>1
  <2>2. CASE i # k
    BY <1>6, <2>2 DEF RoutesInv
  <2> QED
    BY <2>1, <2>2
<1> QED
  BY <1>7 DEF RoutesInv, ViewsPaired, RouteFills, PairedWith

(* The invariant of the routes holds at first and is kept by every step.      *)
LEMMA RouteInvInit == PrepareInit => RouteInv
<1>1. PrepareInit => RoutesInv
  BY DEF PrepareInit, RoutesInv
<1> QED
  BY <1>1, FeatureInvInit DEF RouteInv

LEMMA RouteInvStep == RouteInv /\ [PrepareNext]_prepared => RouteInv'
<1> SUFFICES ASSUME RouteInv, [PrepareNext]_prepared PROVE RouteInv'
  OBVIOUS
<1>0. StageInv /\ ViewsInv /\ RoutesInv /\ FeatureInv'
  BY FeatureInvStep DEF RouteInv, FeatureInv
<1>1. ASSUME UNCHANGED snapshot_csc_views PROVE RoutesInv'
  <2> DEFINE views == snapshot_csc_views
             paired(v) == \A k \in DOMAIN v : ViewsPaired(v[k])
  <2>1. paired(views) /\ views' = views
    BY <1>0, <1>1 DEF RoutesInv
  <2>2. paired(views')
    BY <2>1
  <2> QED
    BY <2>2 DEF RoutesInv, ViewsPaired, RouteFills, PairedWith
<1>2. CASE BuildSnapshot
  BY <1>0, <1>2, RoutesStep DEF RouteInv
<1>3. CASE ~BuildSnapshot
  <2>1. UNCHANGED snapshot_csc_views
    BY <1>3 DEF PrepareNext, Plan, PlanChunks, ResolveSplits, BuildEventViews, BuildFeatureShards,
                BuildTaskShards, prepared, built
  <2> QED
    BY <1>0, <1>1, <2>1 DEF RouteInv
<1> QED
  BY <1>2, <1>3

(* _collective_route computes what a rank sends and what it expects from      *)
(* different lists; all_to_all_single pairs them by position alone. Sizes     *)
(* agree, and every row sent is put where its node stands.                    *)
THEOREM PreparedRoutesPairUp == PrepareSpec => []RoutesPairUp
<1>1. RouteInv => RoutesPairUp
  BY RoutesArePaired DEF RouteInv
<1> QED
  BY <1>1, RouteInvInit, RouteInvStep, PTL DEF PrepareSpec
-----------------------------------------------------------------------------
(* Targets: every event and every label is predicted once.                    *)

(* The three splits are lists of windows, and their places in the list of all *)
(* windows part it.                                                           *)
LEMMA SplitLists ==
    ASSUME StageInv, stage # "plan", way.by # "windows"
    PROVE  \E V : split.train \in Seq(V) /\ split.val \in Seq(V) /\ split.test \in Seq(V)
<1>1. N \in Nat /\ Times \in [1..N -> Int] /\ Ordered(Times, N)
  BY TimesOrdered
<1>2. way \in Ways /\ cut \in Cuts /\ Applies(way) /\ split = Divided(way, cut)
  BY DEF StageInv, Chosen
<1>3. IsCut(cut)
  BY <1>2, PrepareAssumption DEF IsCut
<1>4. \E ranges : InOrder(ranges, N) /\ split = SplitWindows(ranges, Times, cut)
  <2>1. CASE way.by = "ratios"
    <3>1. way.first \in Nat /\ way.second \in Nat
      BY <1>2, <2>1, PrepareAssumption
    <3>2. way.first \in 0..N /\ way.second \in way.first..N
      BY <1>1, <1>2, <2>1, <3>1 DEF Applies, N
    <3>3. split = SplitWindows(FromRatios(Times, way.first, way.second), Times, cut)
      BY <1>2, <2>1 DEF Divided
    <3>4. InOrder(FromRatios(Times, way.first, way.second), N)
      BY <1>1, <3>2, RatiosInOrder
    <3> QED
      BY <3>3, <3>4
  <2>2. CASE way.by = "labels"
    <3>1. way.labels \in Seq(0..2) /\ Len(way.labels) = N
      BY <1>2, <2>2, PrepareAssumption DEF Applies, N
    <3>2. way.labels \in [1..N -> Int]
      BY <3>1
    <3>3. InOrder(FromLabels(way.labels), N)
      BY <1>1, <3>2, LabelsInOrder
    <3>4. split = SplitWindows(FromLabels(way.labels), Times, cut)
      BY <1>2, <2>2 DEF Divided
    <3> QED
      BY <3>3, <3>4
  <2> QED
    BY <1>2, <2>1, <2>2, PrepareAssumption
<1>5. PICK ranges : InOrder(ranges, N) /\ split = SplitWindows(ranges, Times, cut)
  BY <1>4
<1>6. PICK a \in 0..N : \E b \in a..N :
         ranges = [train |-> Cut(0, a), val |-> Cut(a, b), test |-> Cut(b, N)]
  BY <1>5 DEF InOrder
<1>7. PICK b \in a..N : ranges = [train |-> Cut(0, a), val |-> Cut(a, b), test |-> Cut(b, N)]
  BY <1>6
<1>8. /\ split.train = RangeWindows("train", Cut(0, a), Times, cut)
      /\ split.val = RangeWindows("val", Cut(a, b), Times, cut)
      /\ split.test = RangeWindows("test", Cut(b, N), Times, cut)
  BY <1>5, <1>7 DEF SplitWindows, Cut
<1>9. 0 \in 0..N /\ a \in 0..N /\ b \in 0..N /\ N \in b..N
  BY <1>1
<1>10. Tiled(split.train, 0, a) /\ Tiled(split.val, a, b) /\ Tiled(split.test, b, N)
  <2>0. \A lo \in 0..N : \A hi \in lo..N : \A name : Tiled(RangeWindows(name, Cut(lo, hi), Times, cut), lo, hi)
    <3> TAKE lo \in 0..N
    <3> TAKE hi \in lo..N
    <3> TAKE name
    <3>1. LET w == RangeWindows(name, Cut(lo, hi), Times, cut)
          IN  /\ Tiled(w, lo, hi)
              /\ name = "train" /\ cut.by = "adaptive_batch" /\ Apart(Times, N, lo) /\ Apart(Times, N, hi)
                     => \A k \in DOMAIN w : Apart(Times, N, w[k].end)
      BY <1>1, <1>3, RangeTiles
    <3> QED
      BY <3>1
  <2>1. Tiled(split.train, 0, a)
    BY <1>8, <1>9, <2>0
  <2>2. Tiled(split.val, a, b)
    BY <1>8, <1>9, <2>0
  <2>3. Tiled(split.test, b, N)
    BY <1>8, <1>9, <2>0
  <2> QED
    BY <2>1, <2>2, <2>3
<1> DEFINE V == [begin: Int, end: Int]
<1>11. ASSUME NEW w, NEW lo \in Int, NEW hi \in Int, Tiled(w, lo, hi) PROVE w \in Seq(V)
  <2>1. w \in Seq([begin: lo..hi, end: lo..hi])
    BY <1>11 DEF Tiled
  <2>2. [begin: lo..hi, end: lo..hi] \subseteq V
    OBVIOUS
  <2> HIDE DEF V
  <2>3. \A k \in DOMAIN w : w[k] \in [begin: lo..hi, end: lo..hi]
    BY <2>1, InWindows
  <2> QED
    BY <2>1, <2>2, <2>3, WiderList
<1>12. 0 \in Int /\ a \in Int /\ b \in Int /\ N \in Int
  BY <1>1
<1> QED
  BY <1>10, <1>11, <1>12

ScopesPart(S, L) ==
    /\ L \in Nat
    /\ \A i \in 1..3 : S[i].begin \in 0..L /\ S[i].end \in 0..L
    /\ \A k \in 1..L : \E i \in 1..3 : k \in Rows(S[i])
    /\ \A k : \A i, j \in 1..3 : k \in Rows(S[i]) /\ k \in Rows(S[j]) => i = j

(* The scopes of a snapshot configuration part its windows.                   *)
LEMMA ScopesAre ==
    ASSUME StageInv, stage # "plan", way.by # "windows"
    PROVE  ScopesPart(Scopes(split), Len(Windows)) /\ DOMAIN Windows = 1..Len(Windows)
<1>1. PICK V : split.train \in Seq(V) /\ split.val \in Seq(V) /\ split.test \in Seq(V)
  BY SplitLists
<1> DEFINE a == Len(split.train)
           b == Len(split.train) + Len(split.val)
           c == Len(split.train) + Len(split.val) + Len(split.test)
<1>2. Len(split.train) \in Nat /\ Len(split.val) \in Nat /\ Len(split.test) \in Nat
  BY <1>1
<1>3. Len(Windows) = c /\ DOMAIN Windows = 1..c
  BY <1>1 DEF Windows, AllWindows
<1>4. a \in Nat /\ b \in Nat /\ c \in Nat /\ a <= b /\ b <= c
  <2>1. \A x, y, z \in Nat : x + y \in Nat /\ x + y + z \in Nat /\ x <= x + y /\ x + y <= x + y + z
    OBVIOUS
  <2> QED
    BY ONLY <1>2, <2>1
<1>5. Scopes(split) = <<Cut(0, a), Cut(a, b), Cut(b, c)>>
  BY DEF Scopes
<1> HIDE DEF a, b, c
<1> DEFINE S == <<Cut(0, a), Cut(a, b), Cut(b, c)>>
<1>6. /\ S[1].begin = 0 /\ S[1].end = a
      /\ S[2].begin = a /\ S[2].end = b
      /\ S[3].begin = b /\ S[3].end = c
  BY DEF Cut
<1> HIDE DEF S
<1>7. 1..3 = {1, 2, 3}
  OBVIOUS
<1>8. Rows(S[1]) = (0 + 1)..a /\ Rows(S[2]) = (a + 1)..b /\ Rows(S[3]) = (b + 1)..c
  BY <1>6 DEF Rows
<1>9. \A i \in 1..3 : S[i].begin \in 0..c /\ S[i].end \in 0..c
  BY <1>4, <1>6, <1>7
<1>10. \A k \in 1..c : \E i \in 1..3 : k \in Rows(S[i])
  <2> TAKE k \in 1..c
  <2>1. k \in (0 + 1)..a \/ k \in (a + 1)..b \/ k \in (b + 1)..c
    BY <1>4
  <2> QED
    BY <1>7, <1>8, <2>1
<1>11. \A k : \A i, j \in 1..3 : k \in Rows(S[i]) /\ k \in Rows(S[j]) => i = j
  <2>1. \A k : /\ ~(k \in (0 + 1)..a /\ k \in (a + 1)..b)
               /\ ~(k \in (0 + 1)..a /\ k \in (b + 1)..c)
               /\ ~(k \in (a + 1)..b /\ k \in (b + 1)..c)
    BY <1>4
  <2> QED
    BY <1>7, <1>8, <2>1
<1> QED
  BY <1>3, <1>4, <1>5, <1>9, <1>10, <1>11 DEF ScopesPart, S

(* The window a window's targets are in, if any.                              *)
LEMMA NextIs ==
    ASSUME StageInv, stage # "plan", way.by # "windows",
           NEW k, NEW i \in 1..3, k \in Rows(Scopes(split)[i])
    PROVE  /\ k \in DOMAIN Windows
           /\ NextInScope(split, k) = IF k < Scopes(split)[i].end THEN k + 1 ELSE 0
           /\ k < Scopes(split)[i].end => k + 1 \in DOMAIN Windows /\ k + 1 \in Rows(Scopes(split)[i])
<1> DEFINE S == Scopes(split)
           L == Len(Windows)
<1>1. ScopesPart(S, L) /\ DOMAIN Windows = 1..L
  BY ScopesAre
<1>2. NextInScope(split, k) =
         LET scope == CHOOSE j \in 1..3 : k \in Rows(S[j]) IN IF k < S[scope].end THEN k + 1 ELSE 0
  BY DEF NextInScope
<1> HIDE DEF S, L
<1>3. k \in Rows(S[i])
  BY DEF S
<1>4. (CHOOSE j \in 1..3 : k \in Rows(S[j])) = i
  BY <1>1, <1>3 DEF ScopesPart
<1>5. S[i].begin \in 0..L /\ S[i].end \in 0..L /\ L \in Nat
  BY <1>1 DEF ScopesPart
<1>6. k \in (S[i].begin + 1)..S[i].end
  BY <1>3 DEF Rows
<1>7. k \in 1..L /\ (k < S[i].end => k + 1 \in 1..L /\ k + 1 \in (S[i].begin + 1)..S[i].end)
  BY <1>5, <1>6
<1> QED
  BY <1>1, <1>2, <1>4, <1>7 DEF Rows, S

Target(k) == IF Snapshot THEN NextInScope(split, k) ELSE k

(* The target window of a window, if it has one, is a window.                 *)
LEMMA TargetIs ==
    ASSUME StageInv, stage # "plan", way.by # "windows", NEW k \in DOMAIN Windows
    PROVE  Target(k) = 0 \/ Target(k) \in DOMAIN Windows
<1>1. ScopesPart(Scopes(split), Len(Windows)) /\ DOMAIN Windows = 1..Len(Windows)
  BY ScopesAre
<1>2. PICK i \in 1..3 : k \in Rows(Scopes(split)[i])
  BY <1>1 DEF ScopesPart
<1> QED
  BY <1>2, NextIs DEF Target

(* The events a window predicts are those of its target window, each at its   *)
(* owner.                                                                     *)
LEMMA EdgeTargetsAre ==
    ASSUME StageInv, stage # "plan", way.by # "windows", NEW rank \in Part, NEW k \in DOMAIN Windows, NEW e
    PROVE  Contains(EdgeTargets(rank, split, Snapshot)[k], e)
              <=> Target(k) # 0 /\ e \in Rows(Windows[Target(k)]) /\ Owner(e) = rank
<1>1. EdgeTargets(rank, split, Snapshot)[k] =
         IF Target(k) = 0 THEN <<>> ELSE Increasing({x \in Rows(Windows[Target(k)]) : Owner(x) = rank})
  BY DEF EdgeTargets, Target, Windows
<1>2. CASE Target(k) = 0
  <2>1. ~Contains(<<>>, e)
    BY DEF Contains
  <2> QED
    BY <1>1, <1>2, <2>1
<1>3. CASE Target(k) # 0
  <2> DEFINE w == Windows[Target(k)]
             S == {x \in Rows(w) : Owner(x) = rank}
  <2>1. Target(k) \in DOMAIN Windows
    BY <1>3, TargetIs
  <2>2. w.begin \in Nat /\ w.end \in 0..N /\ N \in Nat
    BY <2>1, WindowsWithin, TimesOrdered
  <2>3. Rows(w) \in SUBSET Int /\ IsFiniteSet(Rows(w))
    <3>1. w.begin + 1 \in Int /\ w.end \in Int
      BY <2>2
    <3> QED
      BY <3>1, FS_Interval DEF Rows
  <2>4. S \in SUBSET Int /\ IsFiniteSet(S)
    BY <2>3, FS_Subset
  <2> HIDE DEF S, w
  <2>5. Increasing(S) \in Seq(S) /\ Elements(Increasing(S)) = S
    BY <2>4, SortedList
  <2>6. Contains(Increasing(S), e) <=> e \in Elements(Increasing(S))
    <3>1. DOMAIN Increasing(S) = 1..Len(Increasing(S))
      BY <2>5
    <3> QED
      BY <3>1 DEF Contains, Elements
  <2>7. EdgeTargets(rank, split, Snapshot)[k] = Increasing(S)
    BY <1>1, <1>3 DEF S, w
  <2> QED
    BY <1>3, <2>5, <2>6, <2>7 DEF S, w
<1> QED
  BY <1>2, <1>3

TasksInv ==
    stage = "prepared" =>
        /\ labels \in Labels
        /\ edge_targets = [rank \in Part |-> EdgeTargets(rank, split, Snapshot)]
        /\ label_targets = [rank \in Part |->
               LabelTargets(rank, split, labels, SplitOfLabels(labels), Horizon, Snapshot)]

(* Hence an event is predicted by one window at one rank, unless its window   *)
(* is the first of its scope to hold any.                                     *)
LEMMA EventsPredictedOnce ==
    ASSUME StageInv, TasksInv, stage = "prepared", way.by # "windows"
    PROVE  EventsPredicted
<1> DEFINE S == Scopes(split)
           L == Len(Windows)
           asks(e) == {ask \in Part \X (DOMAIN Windows) : Contains(edge_targets[ask[1]][ask[2]], e)}
<1>0. stage # "plan" /\ pc = "done"
  BY DEF StageInv, Staged, Chosen
<1>1. ScopesPart(S, L) /\ DOMAIN Windows = 1..L /\ L \in Nat
  BY <1>0, ScopesAre DEF ScopesPart
<1>2. Tiled(Windows, 0, N) /\ N \in Nat /\ DOMAIN events = 1..N
  BY <1>0, SplitsTile, TimesOrdered
<1>3. \A e \in 1..N : Owner(e) \in Part
  BY <1>0, OwnersKnown DEF StageInv
<1>4. \A k \in DOMAIN Windows : Windows[k].begin \in Nat /\ Windows[k].end \in 0..N
  BY <1>0, WindowsWithin
<1>5. \A j, k \in DOMAIN Windows : j < k => Windows[j].end <= Windows[k].begin
  BY <1>2 DEF Tiled, Follow
<1> SUFFICES ASSUME NEW e \in 1..N
             PROVE  /\ \A ask \in asks(e) :
                         /\ ask[1] = Owner(e)
                         /\ ask[2] \in Rows(S[SplitOfEvent(e)])
                         /\ IF Snapshot THEN e \notin Seen(ask[2]) ELSE e \in Rows(Windows[ask[2]])
                    /\ Cardinality(asks(e)) = IF Snapshot /\ e \in Rows(FirstOfSplit(SplitOfEvent(e))) THEN 0 ELSE 1
  BY <1>2 DEF EventsPredicted
<1>6. \A r \in Part, k \in DOMAIN Windows :
         Contains(edge_targets[r][k], e) <=> Target(k) # 0 /\ e \in Rows(Windows[Target(k)]) /\ Owner(e) = r
  BY <1>0, EdgeTargetsAre DEF TasksInv
<1>7. PICK w \in DOMAIN Windows : e \in Rows(Windows[w])
  BY <1>2 DEF Tiled
<1>8. \A k \in DOMAIN Windows : e \in Rows(Windows[k]) <=> k = w
  BY <1>2, <1>7, TilesHoldOnce
<1>9. PICK i \in 1..3 : w \in Rows(S[i])
  BY <1>1, <1>7 DEF ScopesPart
<1>10. \A j \in 1..3 : \A k \in Rows(S[j]) : k \in DOMAIN Windows
  BY <1>0, NextIs
<1>11. SplitOfEvent(e) = i
  <2>1. \A j \in 1..3 : (\E k \in Rows(S[j]) : e \in Rows(Windows[k])) <=> j = i
    <3>1. \A j \in 1..3 : w \in Rows(S[j]) <=> j = i
      BY <1>1, <1>9 DEF ScopesPart
    <3> HIDE DEF S
    <3> QED
      BY <1>8, <1>10, <3>1
  <2> QED
    BY <2>1 DEF SplitOfEvent
<1>12. \A k \in DOMAIN Windows : Target(k) = 0 \/ Target(k) \in DOMAIN Windows
  BY <1>0, TargetIs
<1>13. \A r \in Part, k \in DOMAIN Windows : Contains(edge_targets[r][k], e) <=> Target(k) = w /\ Owner(e) = r
  <2> TAKE r \in Part, k \in DOMAIN Windows
  <2>1. w # 0
    BY <1>1, <1>7
  <2> QED
    BY <1>6, <1>8, <1>12, <2>1
<1> HIDE DEF S, L
<1>14. CASE ~Snapshot
  <2>1. \A r \in Part, k \in DOMAIN Windows : Contains(edge_targets[r][k], e) <=> k = w /\ r = Owner(e)
    BY <1>13, <1>14 DEF Target
  <2>2. asks(e) = {<<Owner(e), w>>}
    BY <1>3, <1>7, <2>1
  <2>3. Cardinality(asks(e)) = 1
    BY <2>2, FS_Singleton
  <2> HIDE DEF asks
  <2>4. \A ask \in asks(e) : ask[1] = Owner(e) /\ ask[2] = w
    BY <2>2
  <2> QED
    BY <1>7, <1>9, <1>11, <1>14, <2>3, <2>4
<1>15. CASE Snapshot
  <2>1. S[i].begin \in 0..L /\ S[i].end \in 0..L /\ w \in (S[i].begin + 1)..S[i].end /\ w \in 1..L /\ L \in Nat
    BY <1>1, <1>7, <1>9 DEF ScopesPart, Rows
  <2>2. \A j \in 1..3 : \A k \in Rows(S[j]) : Target(k) = IF k < S[j].end THEN k + 1 ELSE 0
    BY <1>0, <1>15, NextIs DEF Target, S
  <2>3. \A k \in DOMAIN Windows : Target(k) = w <=> k = w - 1 /\ w # S[i].begin + 1
    <3> TAKE k \in DOMAIN Windows
    <3>1. PICK j \in 1..3 : k \in Rows(S[j])
      BY <1>1 DEF ScopesPart
    <3>2. S[j].begin \in 0..L /\ S[j].end \in 0..L /\ k \in (S[j].begin + 1)..S[j].end
      BY <1>1, <3>1 DEF ScopesPart, Rows
    <3>3. ASSUME Target(k) = w PROVE k = w - 1 /\ w # S[i].begin + 1
      <4>1. k < S[j].end /\ w = k + 1
        BY <2>1, <2>2, <3>1, <3>3
      <4>2. w \in Rows(S[j])
        BY <2>1, <3>2, <4>1 DEF Rows
      <4>3. j = i
        BY <1>1, <1>9, <4>2 DEF ScopesPart
      <4> QED
        BY <2>1, <3>2, <4>1, <4>3
    <3>4. ASSUME k = w - 1, w # S[i].begin + 1 PROVE Target(k) = w
      <4>1. k \in (S[i].begin + 1)..S[i].end /\ k < S[i].end /\ k + 1 = w
        BY <2>1, <3>4
      <4>2. k \in Rows(S[i])
        BY <4>1 DEF Rows
      <4> QED
        BY <2>2, <4>1, <4>2
    <3> QED
      BY <3>3, <3>4
  <2>4. e \in Rows(FirstOfSplit(SplitOfEvent(e))) <=> w = S[i].begin + 1
    <3>1. FirstOfSplit(SplitOfEvent(e)) = Windows[S[i].begin + 1]
      BY <1>11 DEF FirstOfSplit, S
    <3>2. S[i].begin + 1 \in DOMAIN Windows
      BY <1>1, <2>1
    <3> QED
      BY <1>8, <3>1, <3>2
  <2>5. CASE w = S[i].begin + 1
    <3>1. \A r \in Part, k \in DOMAIN Windows : ~Contains(edge_targets[r][k], e)
      BY <1>13, <2>3, <2>5
    <3>2. asks(e) = {}
      BY <3>1
    <3>3. Cardinality(asks(e)) = 0
      BY <3>2, FS_EmptySet
    <3> HIDE DEF asks
    <3> QED
      BY <1>15, <2>4, <2>5, <3>2, <3>3
  <2>6. CASE w # S[i].begin + 1
    <3>1. w - 1 \in DOMAIN Windows /\ w - 1 \in (S[i].begin + 1)..S[i].end
      BY <1>1, <2>1, <2>6
    <3>2. \A r \in Part, k \in DOMAIN Windows : Contains(edge_targets[r][k], e) <=> k = w - 1 /\ r = Owner(e)
      BY <1>13, <2>3, <2>6
    <3>3. asks(e) = {<<Owner(e), w - 1>>}
      BY <1>3, <3>1, <3>2
    <3>4. Cardinality(asks(e)) = 1
      BY <3>3, FS_Singleton
    <3> HIDE DEF asks
    <3>5. \A ask \in asks(e) : ask[1] = Owner(e) /\ ask[2] = w - 1
      BY <3>3
    <3>6. w - 1 \in Rows(S[i])
      BY <3>1 DEF Rows
    <3>7. e \notin Seen(w - 1)
      <4>1. w - 1 < w /\ Windows[w - 1].end <= Windows[w].begin
        BY <1>5, <1>7, <2>1, <3>1
      <4>2. Windows[w - 1].end \in Nat /\ Windows[w].begin \in Nat /\ Windows[w].end \in Nat
        BY <1>2, <1>4, <1>7, <3>1
      <4>3. e \in (Windows[w].begin + 1)..Windows[w].end
        BY <1>7 DEF Rows
      <4> QED
        BY <4>1, <4>2, <4>3 DEF Seen
    <3> QED
      BY <1>11, <1>15, <2>4, <2>6, <3>4, <3>5, <3>6, <3>7
  <2> QED
    BY <2>5, <2>6
<1> QED
  BY <1>14, <1>15

HeldIn(scope) == {k \in Rows(scope) : Rows(Windows[k]) # {}}
LastTime(k) == events[Windows[k].end].ts

(* The window of a label by its time.                                         *)
PlacedByTime(w, scope, ts) ==
    /\ HeldIn(scope) = {} => w = 0
    /\ HeldIn(scope) # {} =>
          /\ w \in HeldIn(scope)
          /\ LastTime(w) >= ts \/ \A k \in HeldIn(scope) : LastTime(k) < ts
          /\ \A k \in HeldIn(scope) : k < w => LastTime(k) < ts

(* The search by time finds the first window of its scope that ends no        *)
(* earlier, if one does.                                                      *)
LEMMA LabelWindowIs ==
    ASSUME StageInv, stage # "plan", way.by # "windows",
           NEW scope, scope.begin \in 0..Len(Windows), scope.end \in 0..Len(Windows), NEW ts \in Int
    PROVE  /\ PlacedByTime(LabelWindow(split, scope, ts), scope, ts)
           /\ HeldIn(scope) \subseteq DOMAIN Windows
<1> DEFINE H == HeldIn(scope)
           held == Filled(split, scope)
           n == Len(held)
           ends == [i \in DOMAIN held |-> LastTime(held[i])]
           P == {i \in DOMAIN ends : ends[i] < ts}
           w == LabelWindow(split, scope, ts)
<1>1. Len(Windows) \in Nat /\ DOMAIN Windows = 1..Len(Windows)
  BY WindowsWithin
<1>2. \A k \in DOMAIN Windows : Windows[k].begin \in Nat /\ Windows[k].end \in 0..N
  BY WindowsWithin
<1>3. N \in Nat /\ Times \in [1..N -> Int] /\ Ordered(Times, N) /\ \A e \in 1..N : Times[e] = events[e].ts
  BY TimesOrdered
<1>4. \A j, k \in DOMAIN Windows : j < k => Windows[j].end <= Windows[k].begin
  BY SplitsTile DEF Tiled, Follow
<1>5. Rows(scope) \subseteq 1..Len(Windows)
  BY <1>1 DEF Rows
<1>6. \A k \in Rows(scope) : Rows(Windows[k]) # {} <=> Windows[k].end > Windows[k].begin
  <2> TAKE k \in Rows(scope)
  <2>1. Windows[k].begin \in Int /\ Windows[k].end \in Int
    BY <1>1, <1>2, <1>5
  <2>2. \A x, y \in Int : (x + 1)..y # {} <=> y > x
    <3> TAKE x, y \in Int
    <3>1. y > x => y \in (x + 1)..y
      OBVIOUS
    <3>2. ASSUME NEW z \in (x + 1)..y PROVE y > x
      OBVIOUS
    <3> QED
      BY <3>1, <3>2
  <2> QED
    BY <2>1, <2>2 DEF Rows
<1>7. held = Increasing(H)
  <2>1. H = {k \in Rows(scope) : Windows[k].end > Windows[k].begin}
    BY <1>6 DEF HeldIn
  <2> QED
    BY <2>1 DEF Filled, Windows
<1>8. H \in SUBSET Int /\ IsFiniteSet(H) /\ H \subseteq DOMAIN Windows
  <2>1. H \subseteq 1..Len(Windows)
    BY <1>5 DEF HeldIn
  <2>2. IsFiniteSet(1..Len(Windows)) /\ 1..Len(Windows) \subseteq Int
    BY <1>1, FS_Interval
  <2> HIDE DEF H
  <2> QED
    BY <1>1, <2>1, <2>2, FS_Subset
<1>9. \A k \in H : Windows[k].end \in 1..N /\ Windows[k].begin < Windows[k].end
  <2>1. \A k \in H : Windows[k].end > Windows[k].begin
    BY <1>6 DEF HeldIn
  <2> HIDE DEF H
  <2> QED
    BY <1>2, <1>3, <1>8, <2>1
<1>10. \A k \in H : LastTime(k) \in Int /\ LastTime(k) = Times[Windows[k].end]
  <2> HIDE DEF H
  <2> QED
    BY <1>3, <1>9 DEF LastTime
<1>11. \A j, k \in H : j < k => LastTime(j) <= LastTime(k)
  <2> HIDE DEF H
  <2> TAKE j, k \in H
  <2> HAVE j < k
  <2>1. Windows[j].end < Windows[k].end /\ Windows[j].end \in 1..N /\ Windows[k].end \in 1..N
    <3>1. Windows[j].end <= Windows[k].begin
      BY <1>4, <1>8
    <3>2. Windows[k].begin \in Nat
      BY <1>2, <1>8
    <3> QED
      BY <1>9, <3>1, <3>2
  <2> QED
    BY <1>3, <1>10, <2>1 DEF Ordered
<1>12. w = IF held = <<>> THEN 0
           ELSE held[IF 1 + Cardinality(P) > n THEN n ELSE 1 + Cardinality(P)]
  BY DEF LabelWindow, LastTime, Windows
<1> HIDE DEF H, w, held
<1>13. /\ held \in Seq(H) /\ n = Cardinality(H) /\ n \in Nat /\ DOMAIN held = 1..n /\ Elements(held) = H
       /\ \A k, l \in 1..n : (k < l => held[k] < held[l]) /\ (held[k] < held[l] => k < l)
  BY <1>7, <1>8, SortedList
<1>14. CASE H = {}
  <2>1. n = 0
    BY <1>13, <1>14, FS_EmptySet
  <2>2. held = <<>>
    BY <1>13, <2>1
  <2>3. w = 0
    BY <1>12, <2>2
  <2> QED
    BY <1>8, <1>14, <2>3 DEF PlacedByTime, H, w
<1>15. CASE H # {}
  <2>1. n # 0
    BY <1>13, <1>15 DEF Elements
  <2>2. held # <<>>
    BY <1>13, <2>1
  <2>3. \A i \in 1..n : held[i] \in H
    BY <1>13
  <2>4. ends = [i \in 1..n |-> LastTime(held[i])]
    BY <1>13
  <2>5. \A i \in 1..n : ends[i] \in Int /\ ends[i] = LastTime(held[i])
    BY <1>10, <2>3, <2>4
  <2>6. \A i, j \in 1..n : i < j => ends[i] <= ends[j]
    <3> TAKE i, j \in 1..n
    <3> HAVE i < j
    <3>1. held[i] < held[j] /\ held[i] \in H /\ held[j] \in H
      BY <1>13, <2>3
    <3> QED
      BY <1>11, <2>5, <3>1
  <2>7. P = {i \in 1..n : ends[i] < ts}
    BY <2>4
  <2> HIDE DEF ends, n
  <2>8. P \in SUBSET ((0 + 1)..n)
    BY <1>13, <2>7
  <2>9. \A i \in P : \A j \in (0 + 1)..i : j \in P
    <3> TAKE i \in P
    <3> TAKE j \in (0 + 1)..i
    <3>1. i \in 1..n /\ ends[i] < ts
      BY <2>7
    <3>2. j \in 1..n /\ (j = i \/ j < i)
      BY <1>13, <3>1
    <3>3. ends[j] <= ends[i] /\ ends[i] \in Int /\ ends[j] \in Int
      BY <2>5, <2>6, <3>1, <3>2
    <3> QED
      BY <2>7, <3>1, <3>2, <3>3
  <2> HIDE DEF P
  <2> DEFINE p == Cardinality(P)
  <2>10. p \in 0..n /\ P = 1..p
    <3>1. 0 \in Nat /\ n \in Nat /\ 0 <= n
      BY <1>13
    <3>2. 0 + Cardinality(P) \in 0..n /\ P = (0 + 1)..(0 + Cardinality(P))
      BY <2>8, <2>9, <3>1, Stretch
    <3>3. IsFiniteSet(P)
      <4>1. IsFiniteSet((0 + 1)..n)
        BY <3>1, FS_Interval
      <4> QED
        BY <2>8, <4>1, FS_Subset
    <3>4. Cardinality(P) \in Nat
      BY <3>3, FS_CardinalityType
    <3> QED
      BY <3>2, <3>4
  <2>11. w = held[IF 1 + p > n THEN n ELSE 1 + p]
    BY <1>12, <2>2
  <2> HIDE DEF p
  <2>12. CASE 1 + p > n
    <3>1. p = n /\ n \in 1..n
      BY <1>13, <2>1, <2>10, <2>12
    <3>2. w = held[n] /\ w \in H
      BY <2>3, <2>11, <2>12, <3>1
    <3>3. \A k \in H : LastTime(k) < ts
      <4> TAKE k \in H
      <4>1. PICK i \in 1..n : k = held[i]
        BY <1>13 DEF Elements
      <4>2. i \in P
        BY <2>10, <3>1, <4>1
      <4> QED
        BY <2>5, <2>7, <4>1, <4>2
    <3> QED
      BY <1>8, <1>15, <3>2, <3>3 DEF PlacedByTime, H, w
  <2>13. CASE ~(1 + p > n)
    <3>1. 1 + p \in 1..n /\ 1 + p \notin P /\ p \in Nat
      BY <1>13, <2>10, <2>13
    <3>2. w = held[1 + p] /\ w \in H
      BY <2>3, <2>11, <2>13, <3>1
    <3>3. LastTime(w) >= ts
      BY <2>5, <2>7, <3>1, <3>2
    <3>4. \A k \in H : k < w => LastTime(k) < ts
      <4> TAKE k \in H
      <4> HAVE k < w
      <4>1. PICK i \in 1..n : k = held[i]
        BY <1>13 DEF Elements
      <4>2. i < 1 + p
        BY <1>13, <3>1, <3>2, <4>1
      <4>3. i \in P
        BY <2>10, <4>1, <4>2
      <4> QED
        BY <2>5, <2>7, <4>1, <4>3
    <3> QED
      BY <1>8, <1>15, <3>2, <3>3, <3>4 DEF PlacedByTime, H, w
  <2> QED
    BY <2>12, <2>13
<1> QED
  BY <1>14, <1>15

(* Labels that come by their time alone are in a split each, or none is.      *)
LEMMA LabelSplitsAre ==
    ASSUME NEW list, NEW edge_split
    PROVE  LET s == LabelSplits(list, edge_split)
           IN  /\ DOMAIN s = DOMAIN list
               /\ (\A i \in DOMAIN list : s[i] = 0) \/ (\A i \in DOMAIN list : s[i] \in 1..3)
<1> DEFINE times(k) == {events[e].ts : e \in {e \in DOMAIN edge_split : edge_split[e] = k}}
           covers(k, ts) == \E t, u \in times(k) : t <= ts + 1 /\ ts < u
           found(i) == {k \in 0..2 : covers(k, list[i].ts)}
           s == LabelSplits(list, edge_split)
<1>1. s = [i \in DOMAIN list |->
            IF \A j \in DOMAIN list : found(j) = {} THEN 0
            ELSE IF found(i) = {} THEN 3
            ELSE 1 + CHOOSE k \in found(i) : \A other \in found(i) : other <= k]
  BY DEF LabelSplits
<1>2. \A i : found(i) \subseteq 0..2
  OBVIOUS
<1> HIDE DEF found, s
<1>3. \A i : found(i) # {} => (CHOOSE k \in found(i) : \A other \in found(i) : other <= k) \in 0..2
  <2> TAKE i
  <2> HAVE found(i) # {}
  <2> DEFINE F == found(i)
  <2>1. F \subseteq 0..2 /\ F # {}
    BY <1>2
  <2> HIDE DEF F
  <2>2. \E k \in F : \A other \in F : other <= k
    <3>1. CASE 2 \in F
      BY <2>1, <3>1
    <3>2. CASE 2 \notin F /\ 1 \in F
      BY <2>1, <3>2
    <3>3. CASE 2 \notin F /\ 1 \notin F
      <4>1. \A x \in F : x = 0
        BY <2>1, <3>3
      <4>2. PICK x \in F : TRUE
        BY <2>1
      <4> QED
        BY <4>1, <4>2
    <3> QED
      BY <3>1, <3>2, <3>3
  <2>3. (CHOOSE k \in F : \A other \in F : other <= k) \in F
    BY <2>2
  <2>4. (CHOOSE k \in F : \A other \in F : other <= k) \in 0..2
    BY <2>1, <2>3
  <2> QED
    BY <2>4 DEF F
<1>4. DOMAIN s = DOMAIN list
  BY <1>1
<1>5. CASE \A j \in DOMAIN list : found(j) = {}
  <2>1. \A i \in DOMAIN list : s[i] = 0
    BY <1>1, <1>5
  <2> QED
    BY <1>4, <2>1 DEF s
<1>6. CASE ~(\A j \in DOMAIN list : found(j) = {})
  <2>1. \A i \in DOMAIN list : s[i] \in 1..3
    <3> TAKE i \in DOMAIN list
    <3> DEFINE m == CHOOSE k \in found(i) : \A other \in found(i) : other <= k
    <3>1. s[i] = IF found(i) = {} THEN 3 ELSE 1 + m
      BY <1>1, <1>6
    <3>2. found(i) # {} => m \in 0..2
      BY <1>3
    <3> HIDE DEF m
    <3> QED
      BY <3>1, <3>2
  <2> QED
    BY <1>4, <2>1 DEF s
<1> QED
  BY <1>5, <1>6

(* Where a label looks for its window.                                        *)
ScopeOf(i) == IF SplitOfLabels(labels)[i] = 0 THEN Cut(0, Len(Windows))
              ELSE Scopes(split)[SplitOfLabels(labels)[i]]

(* A label looks in the windows of its split, or in all if labels have none.  *)
LEMMA ScopeOfIs ==
    ASSUME StageInv, stage # "plan", way.by # "windows", NEW i \in DOMAIN labels
    PROVE  /\ ScopeOf(i) = IF \A j \in DOMAIN labels : SplitOfLabels(labels)[j] = 0
                           THEN Cut(0, Len(Windows)) ELSE Scopes(split)[SplitOfLabels(labels)[i]]
           /\ ScopeOf(i).begin \in 0..Len(Windows) /\ ScopeOf(i).end \in 0..Len(Windows)
           /\ Rows(ScopeOf(i)) = IF SplitOfLabels(labels)[i] = 0 THEN DOMAIN Windows
                                 ELSE Rows(Scopes(split)[SplitOfLabels(labels)[i]])
<1> DEFINE s == SplitOfLabels(labels)
<1>1. (\A j \in DOMAIN labels : s[j] = 0) \/ (\A j \in DOMAIN labels : s[j] \in 1..3)
  BY LabelSplitsAre DEF SplitOfLabels
<1>2. ScopesPart(Scopes(split), Len(Windows)) /\ DOMAIN Windows = 1..Len(Windows)
  BY ScopesAre
<1>3. Len(Windows) \in Nat
  BY <1>2 DEF ScopesPart
<1> HIDE DEF s
<1>4. ScopeOf(i) = IF s[i] = 0 THEN Cut(0, Len(Windows)) ELSE Scopes(split)[s[i]]
  BY DEF ScopeOf, s
<1>5. CASE \A j \in DOMAIN labels : s[j] = 0
  <2>1. ScopeOf(i) = Cut(0, Len(Windows)) /\ s[i] = 0
    BY <1>4, <1>5
  <2>2. ScopeOf(i).begin = 0 /\ ScopeOf(i).end = Len(Windows)
    BY <2>1 DEF Cut
  <2>3. Rows(ScopeOf(i)) = 1..Len(Windows)
    BY <2>2 DEF Rows
  <2> QED
    BY <1>2, <1>3, <1>5, <2>1, <2>2, <2>3 DEF s
<1>6. CASE \A j \in DOMAIN labels : s[j] \in 1..3
  <2>1. s[i] \in 1..3 /\ s[i] # 0 /\ ~(\A j \in DOMAIN labels : s[j] = 0)
    BY <1>6
  <2>2. ScopeOf(i) = Scopes(split)[s[i]]
    BY <1>4, <2>1
  <2>3. Scopes(split)[s[i]].begin \in 0..Len(Windows) /\ Scopes(split)[s[i]].end \in 0..Len(Windows)
    BY <1>2, <2>1 DEF ScopesPart
  <2> QED
    BY <2>1, <2>2, <2>3 DEF s
<1> QED
  BY <1>1, <1>5, <1>6

(* What puts a label into a window's list.                                    *)
LEMMA LabelTargetsAre ==
    ASSUME NEW rank, NEW k \in DOMAIN Windows, NEW i \in DOMAIN labels,
           ScopeOf(i) = IF \A j \in DOMAIN labels : SplitOfLabels(labels)[j] = 0
                        THEN Cut(0, Len(Windows)) ELSE Scopes(split)[SplitOfLabels(labels)[i]]
    PROVE  i \in LabelTargets(rank, split, labels, SplitOfLabels(labels), Horizon, Snapshot)[k]
              <=> /\ Master(labels[i].node) = rank
                  /\ Predicts(split, k, Horizon, Snapshot)
                  /\ LabelWindow(split, ScopeOf(i), labels[i].ts) = k
<1> DEFINE s == SplitOfLabels(labels)
           scope(h) == IF \A j \in DOMAIN labels : s[j] = 0 THEN Cut(0, Len(Windows)) ELSE Scopes(split)[s[h]]
<1>1. LabelTargets(rank, split, labels, s, Horizon, Snapshot)[k] =
         {h \in DOMAIN labels :
             /\ Master(labels[h].node) = rank
             /\ Predicts(split, k, Horizon, Snapshot)
             /\ LabelWindow(split, scope(h), labels[h].ts) = k}
  BY DEF LabelTargets, Windows
<1>2. scope(i) = ScopeOf(i)
  OBVIOUS
<1> HIDE DEF scope, s
<1> QED
  BY <1>1, <1>2 DEF s

(* Hence a label is predicted once, at the owner of its node, or never.       *)
LEMMA LabelsPredictedOnce ==
    ASSUME StageInv, TasksInv, stage = "prepared", way.by # "windows"
    PROVE  LabelsPredicted
<1>0. stage # "plan" /\ pc = "done"
  BY DEF StageInv, Staged, Chosen
<1> SUFFICES ASSUME NEW i \in DOMAIN labels
             PROVE  LET asks == {ask \in Part \X (DOMAIN Windows) : i \in label_targets[ask[1]][ask[2]]}
                        last(k) == events[Windows[k].end].ts
                        of == SplitOfLabels(labels)[i]
                        scope == IF of = 0 THEN DOMAIN Windows ELSE Rows(Scopes(split)[of])
                        held == {k \in scope : Rows(Windows[k]) # {}}
                    IN  /\ Cardinality(asks) <= 1
                        /\ (~Snapshot \/ Horizon = 0) /\ held # {} => asks # {}
                        /\ \A ask \in asks :
                              /\ ask[1] = Master(labels[i].node)
                              /\ ask[2] \in held
                              /\ last(ask[2]) >= labels[i].ts \/ \A k \in held : last(k) < labels[i].ts
                              /\ \A k \in held : k < ask[2] => last(k) < labels[i].ts
  BY DEF LabelsPredicted
<1> DEFINE asks == {ask \in Part \X (DOMAIN Windows) : i \in label_targets[ask[1]][ask[2]]}
           of == SplitOfLabels(labels)[i]
           scope == IF of = 0 THEN DOMAIN Windows ELSE Rows(Scopes(split)[of])
           held == {k \in scope : Rows(Windows[k]) # {}}
           home == Master(labels[i].node)
           w == LabelWindow(split, ScopeOf(i), labels[i].ts)
<1>1. /\ ScopeOf(i) = IF \A j \in DOMAIN labels : SplitOfLabels(labels)[j] = 0
                      THEN Cut(0, Len(Windows)) ELSE Scopes(split)[SplitOfLabels(labels)[i]]
      /\ ScopeOf(i).begin \in 0..Len(Windows) /\ ScopeOf(i).end \in 0..Len(Windows)
      /\ Rows(ScopeOf(i)) = scope
  BY <1>0, ScopeOfIs
<1>2. labels[i].node \in Node /\ labels[i].ts \in Int
  <2>1. labels \in Seq([node: Node, ts: Int])
    BY PrepareAssumption DEF TasksInv
  <2>2. labels[i] \in [node: Node, ts: Int]
    BY <2>1, ItemsOf
  <2> QED
    BY <2>2
<1>3. home \in Part
  BY <1>0, <1>2, OwnersKnown DEF StageInv
<1>4. \A r \in Part, k \in DOMAIN Windows :
         i \in label_targets[r][k] <=> home = r /\ Predicts(split, k, Horizon, Snapshot) /\ w = k
  <2> TAKE r \in Part, k \in DOMAIN Windows
  <2>1. label_targets[r] = LabelTargets(r, split, labels, SplitOfLabels(labels), Horizon, Snapshot)
    BY DEF TasksInv
  <2>2. i \in LabelTargets(r, split, labels, SplitOfLabels(labels), Horizon, Snapshot)[k]
              <=> /\ Master(labels[i].node) = r
                  /\ Predicts(split, k, Horizon, Snapshot)
                  /\ LabelWindow(split, ScopeOf(i), labels[i].ts) = k
    BY <1>1, LabelTargetsAre
  <2> QED
    BY <2>1, <2>2
<1>5. PlacedByTime(w, ScopeOf(i), labels[i].ts) /\ HeldIn(ScopeOf(i)) \subseteq DOMAIN Windows
  BY <1>0, <1>1, <1>2, LabelWindowIs
<1>6. HeldIn(ScopeOf(i)) = held
  BY <1>1 DEF HeldIn
<1> HIDE DEF held, scope, w
<1>7. asks \subseteq {<<home, w>>}
  BY <1>4
<1>8. Cardinality(asks) <= 1
  <2>1. Cardinality({<<home, w>>}) = 1 /\ IsFiniteSet({<<home, w>>})
    BY FS_Singleton
  <2> HIDE DEF asks
  <2>2. Cardinality(asks) <= Cardinality({<<home, w>>})
    BY <1>7, <2>1, FS_Subset
  <2> QED
    BY <2>1, <2>2
<1>9. 0 \notin DOMAIN Windows
  <2>1. DOMAIN Windows = 1..Len(Windows)
    BY <1>0, WindowsWithin
  <2> QED
    BY <2>1
<1>10. ASSUME ~Snapshot \/ Horizon = 0, held # {} PROVE asks # {}
  <2>1. w \in held /\ w \in DOMAIN Windows
    BY <1>5, <1>6, <1>10 DEF PlacedByTime
  <2>2. Predicts(split, w, Horizon, Snapshot)
    <3>1. CASE ~Snapshot
      BY <3>1 DEF Predicts
    <3>2. CASE Horizon = 0
      <4>1. ScopesPart(Scopes(split), Len(Windows))
        BY <1>0, ScopesAre
      <4>2. \A j \in 1..3 : w \in Rows(Scopes(split)[j]) => w <= Scopes(split)[j].end - 0
        <5> TAKE j \in 1..3
        <5>1. Scopes(split)[j].begin \in Int /\ Scopes(split)[j].end \in Int
          BY <4>1 DEF ScopesPart
        <5> QED
          BY <5>1 DEF Rows
      <4> QED
        BY <3>2, <4>2 DEF Predicts
    <3> QED
      BY <1>10, <3>1, <3>2
  <2>3. <<home, w>> \in Part \X (DOMAIN Windows) /\ i \in label_targets[home][w]
    BY <1>3, <1>4, <2>1, <2>2
  <2> QED
    BY <2>3
<1>11. ASSUME NEW ask \in asks
       PROVE  /\ ask[1] = home
              /\ ask[2] \in held
              /\ LastTime(ask[2]) >= labels[i].ts \/ \A k \in held : LastTime(k) < labels[i].ts
              /\ \A k \in held : k < ask[2] => LastTime(k) < labels[i].ts
  <2>1. ask[1] = home /\ ask[2] = w /\ w \in DOMAIN Windows
    BY <1>4
  <2>2. held # {}
    BY <1>5, <1>6, <1>9, <2>1 DEF PlacedByTime
  <2> QED
    BY <1>5, <1>6, <2>1, <2>2 DEF PlacedByTime
<1> HIDE DEF asks
<1> QED
  BY <1>8, <1>10, <1>11 DEF asks, held, scope, LastTime

(* The two halves are TasksOnce.                                              *)
LEMMA TasksAre == StageInv /\ TasksInv => TasksOnce
BY EventsPredictedOnce, LabelsPredictedOnce DEF TasksOnce

TaskInv == StageInv /\ TasksInv

(* Nothing is predicted before the tables are built.                          *)
LEMMA TaskInvInit == PrepareInit => TaskInv
BY StageInvInit DEF PrepareInit, TaskInv, TasksInv

(* The tables depend on the plan, the windows and the labels.                 *)
LEMMA TargetsStay ==
    ASSUME UNCHANGED <<partition, way, layouts, split>>
    PROVE  /\ \A rank \in Part : EdgeTargets(rank, split, Snapshot)' = EdgeTargets(rank, split, Snapshot)
           /\ \A rank \in Part :
                 LabelTargets(rank, split, labels, SplitOfLabels(labels), Horizon, Snapshot)'
                    = LabelTargets(rank, split, labels', SplitOfLabels(labels'), Horizon, Snapshot)
<1>1. /\ events' = events /\ node_master' = node_master /\ edge_owner' = edge_owner
      /\ split' = split /\ way' = way /\ layouts' = layouts
  BY DEF partition
<1>2. \A rank \in Part : EdgeTargets(rank, split, Snapshot)' = EdgeTargets(rank, split, Snapshot)
  BY <1>1 DEF EdgeTargets, Snapshot, NextInScope, Scopes, AllWindows, Owner, Increasing, Rows
<1>3. SplitOfLabels(labels)' = SplitOfLabels(labels')
  BY <1>1 DEF SplitOfLabels, LabelSplits
<1>4. \A rank \in Part :
         LabelTargets(rank, split, labels, SplitOfLabels(labels), Horizon, Snapshot)'
            = LabelTargets(rank, split, labels', SplitOfLabels(labels'), Horizon, Snapshot)
  <2>1. Snapshot' = Snapshot /\ AllWindows(split)' = AllWindows(split) /\ Scopes(split)' = Scopes(split)
    BY <1>1 DEF Snapshot, AllWindows, Scopes
  <2>2. \A scope, ts : LabelWindow(split, scope, ts)' = LabelWindow(split, scope, ts)
    BY <1>1 DEF LabelWindow, Filled, AllWindows, Increasing, Rows
  <2>3. \A k : Predicts(split, k, Horizon, Snapshot)' = Predicts(split, k, Horizon, Snapshot)
    BY <1>1 DEF Predicts, Snapshot, AllWindows, Scopes, Rows
  <2>4. \A n : Master(n)' = Master(n)
    BY <1>1 DEF Master
  <2> QED
    BY <1>1, <1>3, <2>1, <2>2, <2>3, <2>4 DEF LabelTargets
<1> QED
  BY <1>2, <1>4

(* The tables are built once, from what is settled; no other step touches     *)
(* them.                                                                      *)
LEMMA TaskInvStep == TaskInv /\ [PrepareNext]_prepared => TaskInv'
<1> SUFFICES ASSUME TaskInv, [PrepareNext]_prepared PROVE TaskInv'
  OBVIOUS
<1>1. StageInv /\ TasksInv
  BY DEF TaskInv
<1>2. StageInv'
  BY <1>1, StageInvStep
<1>3. CASE Plan
  <2>1. stage = "plan" /\ UNCHANGED built
    BY <1>1, <1>3, PlanEnds DEF Plan, StageInv, Staged, Chosen
  <2>2. TasksInv'
    BY <2>1 DEF TasksInv, built
  <2> QED
    BY <1>2, <2>2 DEF TaskInv
<1>4. CASE PlanChunks
  <2>1. stage = "plan" /\ UNCHANGED built
    BY <1>1, <1>4 DEF PlanChunks, AssignChunks, StageInv, Chosen
  <2>2. TasksInv'
    BY <2>1 DEF TasksInv, built
  <2> QED
    BY <1>2, <2>2 DEF TaskInv
<1>5. CASE ResolveSplits \/ BuildEventViews \/ BuildSnapshot \/ BuildFeatureShards
  <2>1. stage' # "prepared"
    BY <1>5 DEF ResolveSplits, BuildEventViews, BuildSnapshot, BuildFeatureShards
  <2> QED
    BY <1>2, <2>1 DEF TaskInv, TasksInv
<1>6. CASE BuildTaskShards
  <2>1. UNCHANGED <<partition, planned, way, layouts, split>> /\ labels' \in Labels
    BY <1>6 DEF BuildTaskShards
  <2>2. /\ edge_targets' = [rank \in Part |-> EdgeTargets(rank, split, Snapshot)]
        /\ label_targets' = [rank \in Part |->
              LabelTargets(rank, split, labels', SplitOfLabels(labels'), Horizon, Snapshot)]
    BY <1>6 DEF BuildTaskShards
  <2>3. TasksInv'
    BY <2>1, <2>2, TargetsStay DEF TasksInv
  <2> QED
    BY <1>2, <2>3 DEF TaskInv
<1>7. CASE UNCHANGED prepared
  <2>1. UNCHANGED <<partition, planned, built>>
    BY <1>7 DEF prepared
  <2>2. UNCHANGED <<partition, way, layouts, split, stage, labels, edge_targets, label_targets>>
    BY <2>1 DEF built
  <2>3. /\ \A rank \in Part : EdgeTargets(rank, split, Snapshot)' = EdgeTargets(rank, split, Snapshot)
        /\ \A rank \in Part :
              LabelTargets(rank, split, labels, SplitOfLabels(labels), Horizon, Snapshot)'
                 = LabelTargets(rank, split, labels, SplitOfLabels(labels), Horizon, Snapshot)
    BY <2>2, TargetsStay
  <2>4. CASE stage = "prepared"
    <3>1. /\ labels \in Labels
          /\ edge_targets = [rank \in Part |-> EdgeTargets(rank, split, Snapshot)]
          /\ label_targets = [rank \in Part |->
               LabelTargets(rank, split, labels, SplitOfLabels(labels), Horizon, Snapshot)]
      BY <1>1, <2>4 DEF TasksInv
    <3>2. TasksInv'
      BY <2>2, <2>3, <3>1 DEF TasksInv
    <3> QED
      BY <1>2, <3>2 DEF TaskInv
  <2>5. CASE stage # "prepared"
    BY <1>2, <2>2, <2>5 DEF TaskInv, TasksInv
  <2> QED
    BY <2>4, <2>5
<1> QED
  BY <1>3, <1>4, <1>5, <1>6, <1>7 DEF PrepareNext

(* _edge_table and _label_windows: whichever windows a split has, empty ones  *)
(* included, an event is a target once, at its owner, in its window or from   *)
(* the window before it in the same split; a label is a target at most once,  *)
(* at the owner of its node, in the first window that ends no earlier.        *)
THEOREM PreparedTasksOnce == PrepareSpec => []TasksOnce
<1> QED
  BY TaskInvInit, TaskInvStep, TasksAre, PTL DEF PrepareSpec, TaskInv
-----------------------------------------------------------------------------
(* State writes: the last event to touch a node, where its owner expects it.  *)

(* A set has one increasing list.                                             *)
LEMMA SameIncreasing ==
    ASSUME NEW S \in SUBSET Int, IsFiniteSet(S), NEW C \in Seq(S), Elements(C) = S,
           \A k, l \in DOMAIN C : k < l => C[k] < C[l]
    PROVE  C = Increasing(S)
<1> DEFINE I == Increasing(S)
           loc == [x \in S |-> Cardinality({y \in S : y < x})]
<1>1. /\ I \in Seq(S) /\ Elements(I) = S /\ Distinct(I)
      /\ \A k, l \in DOMAIN I : k < l => I[k] < I[l]
  BY SortedList
<1>2. DOMAIN C = 1..Len(C) /\ Len(C) \in Nat /\ DOMAIN I = 1..Len(I) /\ Len(I) \in Nat
  BY <1>1
<1>3. \A k \in DOMAIN C : C[k] \in S /\ C[k] \in Int
  <2>1. \A k \in DOMAIN C : C[k] \in S
    BY ItemsOf
  <2> QED
    BY <2>1
<1>4. Distinct(C)
  BY <1>2, <1>3 DEF Distinct
<1>5. \A x \in S : IsFiniteSet({y \in S : y < x}) /\ Cardinality({y \in S : y < x}) \in Nat
  BY FS_Subset, FS_CardinalityType
<1>6. \A x, z \in S : x <= z => Cardinality({y \in S : y < x}) <= Cardinality({y \in S : y < z})
  <2> TAKE x, z \in S
  <2> HAVE x <= z
  <2> DEFINE A == {y \in S : y < x}
             B == {y \in S : y < z}
  <2>1. x \in Int /\ z \in Int /\ \A y \in S : y \in Int
    OBVIOUS
  <2>2. A \subseteq B
    <3>1. ASSUME NEW y \in S, y < x PROVE y < z
      <4>1. y \in Int
        BY <2>1
      <4> QED
        BY <2>1, <3>1, <4>1
    <3> QED
      BY <3>1
  <2>3. IsFiniteSet(B)
    BY <1>5
  <2> HIDE DEF A, B
  <2>4. Cardinality(A) <= Cardinality(B)
    BY <2>2, <2>3, FS_Subset
  <2> QED
    BY <2>4 DEF A, B
<1>7. loc \in [S -> Int] /\ \A x \in S : loc[x] = Cardinality({y \in S : y < x})
  BY <1>5
<1>7a. \A x, z \in S : x <= z => loc[x] <= loc[z]
  BY <1>6
<1> HIDE DEF I, loc
<1>8. RankedBy(S, loc, 0)
  BY <1>5, <1>7 DEF RankedBy
<1>9. \A k \in DOMAIN C : loc[C[k]] = 0 + (k - 1)
  <2>1. \A k, l \in DOMAIN C : k < l => loc[C[k]] <= loc[C[l]]
    <3> TAKE k, l \in DOMAIN C
    <3> HAVE k < l
    <3>1. C[k] \in S /\ C[l] \in S /\ C[k] <= C[l]
      BY <1>3
    <3> QED
      BY <1>7a, <3>1
  <2>2. 0 \in Int
    OBVIOUS
  <2> QED
    BY <1>4, <1>7, <1>8, <2>1, <2>2, RankedList
<1>10. \A k \in DOMAIN I : loc[I[k]] = 0 + (k - 1)
  <2>1. \A k, l \in DOMAIN I : k < l => loc[I[k]] <= loc[I[l]]
    <3> TAKE k, l \in DOMAIN I
    <3> HAVE k < l
    <3>1. I[k] \in S /\ I[l] \in S
      BY <1>1, <1>2, ItemsOf
    <3>2. I[k] < I[l] /\ I[k] \in Int /\ I[l] \in Int
      BY <1>1, <3>1
    <3>3. I[k] <= I[l]
      BY <3>2
    <3> QED
      BY <1>7a, <3>1, <3>3
  <2>2. 0 \in Int
    OBVIOUS
  <2> QED
    BY <1>1, <1>7, <1>8, <2>1, <2>2, RankedList
<1>11. Len(C) = Len(I)
  BY <1>1, <1>4, DistinctLength
<1>12. \A k \in DOMAIN C : C[k] = I[k]
  <2> TAKE k \in DOMAIN C
  <2>1. k \in DOMAIN I /\ k \in Int
    BY <1>2, <1>11
  <2>2. I[k] \in Elements(C)
    BY <1>1, <2>1
  <2>3. PICK j \in DOMAIN C : C[j] = I[k]
    BY <2>2 DEF Elements
  <2>4. j - 1 = k - 1 /\ j \in Int
    BY <1>2, <1>9, <1>10, <2>1, <2>3
  <2> QED
    BY <2>1, <2>3, <2>4
<1>13. C = I
  <2>1. C = [k \in 1..Len(C) |-> C[k]] /\ I = [k \in 1..Len(I) |-> I[k]]
    BY <1>1, <1>2
  <2> QED
    BY <1>2, <1>11, <1>12, <2>1
<1> QED
  BY <1>13 DEF I

(* The items of an increasing list up to a bound are its first.               *)
LEMMA CountedUpto ==
    ASSUME NEW S \in SUBSET Int, IsFiniteSet(S), NEW x \in Int
    PROVE  LET c == Cardinality({y \in S : y <= x})
           IN  /\ c \in 0..Len(Increasing(S))
               /\ \A j \in DOMAIN Increasing(S) : Increasing(S)[j] <= x <=> j <= c
<1> DEFINE I == Increasing(S)
           T == {j \in DOMAIN I : I[j] <= x}
           Y == {y \in S : y <= x}
<1>1. /\ I \in Seq(S) /\ Elements(I) = S /\ Distinct(I)
      /\ \A k, l \in DOMAIN I : k < l => I[k] < I[l]
  BY SortedList
<1>2. DOMAIN I = 1..Len(I) /\ Len(I) \in Nat /\ \A j \in DOMAIN I : I[j] \in S /\ I[j] \in Int
  <2> HIDE DEF I
  <2> QED
    BY <1>1, ItemsOf
<1>3. {I[j] : j \in T} = Y
  <2>1. \A y \in Y : \E j \in DOMAIN I : I[j] = y
    BY <1>1 DEF Elements
  <2> HIDE DEF I
  <2>2. \A y \in Y : \E j \in T : I[j] = y
    BY <2>1
  <2>3. \A j \in T : I[j] \in Y
    BY <1>2
  <2> QED
    BY <2>2, <2>3
<1> HIDE DEF I, Y
<1>4. T \in SUBSET DOMAIN I
  OBVIOUS
<1>5. \A i \in T : \A j \in 1..i : j \in T
  <2> TAKE i \in T
  <2> TAKE j \in 1..i
  <2>1. i \in DOMAIN I /\ j \in DOMAIN I /\ i \in Int /\ j \in Int
    BY <1>2
  <2>2. j = i \/ I[j] < I[i]
    BY <1>1, <2>1
  <2> QED
    BY <1>2, <2>1, <2>2
<1> HIDE DEF T
<1>6. Cardinality({I[j] : j \in T}) = Cardinality(T)
  <2>1. IsFiniteSet(ItemsAt(I, T)) /\ Cardinality(ItemsAt(I, T)) = Cardinality(T)
    BY <1>1, <1>4, CountedOnce
  <2> QED
    BY <2>1 DEF ItemsAt
<1>7. Cardinality(T) \in 0..Len(I) /\ T = 1..Cardinality(T)
  <2>1. T \in SUBSET ((0 + 1)..Len(I)) /\ 0 <= Len(I) /\ 0 \in Nat
    BY <1>2, <1>4
  <2>2. \A i \in T : \A j \in (0 + 1)..i : j \in T
    BY <1>5
  <2>3. LET p == 0 + Cardinality(T) IN p \in 0..Len(I) /\ T = (0 + 1)..p
    BY <1>2, <2>1, <2>2, Stretch
  <2>4. IsFiniteSet(T)
    <3>1. IsFiniteSet(1..Len(I))
      BY <1>2, FS_Interval
    <3> QED
      BY <1>2, <1>4, <3>1, FS_Subset
  <2>5. Cardinality(T) \in Nat
    BY <2>4, FS_CardinalityType
  <2> QED
    BY <2>3, <2>5
<1>8. Cardinality(Y) = Cardinality(T)
  BY <1>3, <1>6
<1>9. \A j \in DOMAIN I : I[j] <= x <=> j <= Cardinality(T)
  <2> TAKE j \in DOMAIN I
  <2>1. j \in T <=> I[j] <= x
    BY DEF T
  <2>2. j \in T <=> j <= Cardinality(T)
    BY <1>2, <1>7
  <2> QED
    BY <2>1, <2>2
<1> QED
  BY <1>7, <1>8, <1>9 DEF I, Y

(* _localize_time_ptr_2: a rank's events of a window, cut out of its own.     *)
OwnOf(rank, w) == Masked(EdgesOf(w), {i \in DOMAIN EdgesOf(w) : Owner(EdgesOf(w)[i]) = rank})

CutOut(list, window) == [i \in 1..(window.end - window.begin) |-> list[window.begin + i]]

UptoRow(rank, row) == Cardinality({e \in Elements(LocalRowsOf(rank)) : e <= row})

(* What a rank owns of a window, in the order of time.                        *)
LEMMA OwnIs ==
    ASSUME N \in Nat, NEW w, w.begin \in Nat, w.end \in 0..N, NEW rank
    PROVE  /\ OwnOf(rank, w) \in Seq({e \in 1..N : Owner(e) = rank})
           /\ Elements(OwnOf(rank, w)) = {e \in Rows(w) : Owner(e) = rank}
           /\ \A k, l \in DOMAIN OwnOf(rank, w) : k < l => OwnOf(rank, w)[k] < OwnOf(rank, w)[l]
<1> DEFINE W == EdgesOf(w)
           P == {i \in DOMAIN W : Owner(W[i]) = rank}
           M == Masked(W, P)
<1>1. W \in Seq(1..N) /\ Elements(W) = Rows(w)
  BY EdgesOfWindow
<1>2. DOMAIN W = 1..(w.end - w.begin) /\ \A i \in DOMAIN W : W[i] = w.begin + i
  BY DEF EdgesOf
<1>3. /\ M \in Seq(1..N) /\ DOMAIN M = DOMAIN Increasing(P)
      /\ \A k \in DOMAIN M : M[k] = W[Increasing(P)[k]] /\ Increasing(P)[k] \in P
      /\ Elements(M) = {W[i] : i \in P}
  <2>1. P \in SUBSET DOMAIN W
    OBVIOUS
  <2> HIDE DEF W, P
  <2> QED
    BY <1>1, <2>1, MaskedIs
<1>4. P \in SUBSET Int /\ IsFiniteSet(P)
  <2> DEFINE D == 1..(w.end - w.begin)
  <2>1. w.end - w.begin \in Int /\ 1 \in Int
    OBVIOUS
  <2>2. IsFiniteSet(D) /\ D \in SUBSET Int
    BY <2>1, FS_Interval
  <2>3. P \subseteq D
    BY <1>2
  <2> HIDE DEF P, D
  <2>4. IsFiniteSet(P)
    BY <2>2, <2>3, FS_Subset
  <2> QED
    BY <2>2, <2>3, <2>4
<1>5. \A k, l \in DOMAIN Increasing(P) : k < l => Increasing(P)[k] < Increasing(P)[l]
  BY <1>4, SortedList
<1>6. \A i \in P : i \in DOMAIN W /\ i \in Int /\ Owner(W[i]) = rank /\ W[i] \in 1..N /\ W[i] = w.begin + i
  BY <1>1, <1>2
<1>7. {W[i] : i \in P} = {e \in Rows(w) : Owner(e) = rank}
  <2>1. \A i \in P : W[i] \in Rows(w) /\ Owner(W[i]) = rank
    BY <1>1, <1>6 DEF Elements
  <2>2. \A e \in Rows(w) : \E i \in DOMAIN W : W[i] = e
    BY <1>1 DEF Elements
  <2>3. \A e \in Rows(w) : Owner(e) = rank => \E i \in P : W[i] = e
    <3> TAKE e \in Rows(w)
    <3> HAVE Owner(e) = rank
    <3>1. PICK i \in DOMAIN W : W[i] = e
      BY <2>2
    <3> QED
      BY <3>1
  <2> HIDE DEF P, W
  <2> QED
    BY <2>1, <2>3
<1> HIDE DEF W, P, M
<1>8. \A k \in DOMAIN M : M[k] \in {e \in 1..N : Owner(e) = rank}
  BY <1>3, <1>6
<1>9. M \in Seq({e \in 1..N : Owner(e) = rank})
  BY <1>3, <1>8, WiderList
<1>10. \A k, l \in DOMAIN M : k < l => M[k] < M[l]
  <2> TAKE k, l \in DOMAIN M
  <2> HAVE k < l
  <2>1. Increasing(P)[k] < Increasing(P)[l]
    BY <1>3, <1>5
  <2>2. M[k] = w.begin + Increasing(P)[k] /\ M[l] = w.begin + Increasing(P)[l]
    BY <1>3, <1>6
  <2> QED
    <3>1. Increasing(P)[k] \in Int /\ Increasing(P)[l] \in Int /\ w.begin \in Int
      BY <1>3, <1>6
    <3> QED
      BY <2>1, <2>2, <3>1
<1>11. OwnOf(rank, w) = M
  BY DEF OwnOf, M, P, W
<1> QED
  BY <1>3, <1>7, <1>9, <1>10, <1>11

(* Cutting a rank's own list at its localized bounds gives exactly that.      *)
LEMMA LocalizedIs ==
    ASSUME N \in Nat, DOMAIN events = 1..N, NEW w, w.begin \in Nat, w.end \in 0..N, NEW rank
    PROVE  CutOut(LocalRowsOf(rank), Cut(UptoRow(rank, w.begin), UptoRow(rank, w.end))) = OwnOf(rank, w)
<1> DEFINE O == {e \in 1..N : Owner(e) = rank}
           mine == Increasing(O)
           b == Cardinality({y \in O : y <= w.begin})
           c == Cardinality({y \in O : y <= w.end})
           C == [i \in 1..(c - b) |-> mine[b + i]]
           S == {e \in Rows(w) : Owner(e) = rank}
<1>1. O \in SUBSET Int /\ IsFiniteSet(O) /\ w.begin \in Int /\ w.end \in Int
  <2>1. IsFiniteSet(1..N)
    BY FS_Interval
  <2>2. O \in SUBSET (1..N)
    OBVIOUS
  <2>3. IsFiniteSet(O)
    BY <2>1, <2>2, FS_Subset
  <2> QED
    BY <2>2, <2>3
<1>2. LocalRowsOf(rank) = mine
  BY DEF LocalRowsOf
<1>3. /\ mine \in Seq(O) /\ Elements(mine) = O /\ DOMAIN mine = 1..Len(mine) /\ Len(mine) \in Nat
      /\ \A k, l \in DOMAIN mine : k < l => mine[k] < mine[l]
  <2> HIDE DEF O
  <2> QED
    BY <1>1, SortedList
<1>4. /\ UptoRow(rank, w.begin) = b /\ UptoRow(rank, w.end) = c
  BY <1>2, <1>3 DEF UptoRow
<1>5. b \in 0..Len(mine) /\ \A j \in DOMAIN mine : mine[j] <= w.begin <=> j <= b
  <2> HIDE DEF O
  <2> QED
    BY <1>1, CountedUpto
<1>6. c \in 0..Len(mine) /\ \A j \in DOMAIN mine : mine[j] <= w.end <=> j <= c
  <2> HIDE DEF O
  <2> QED
    BY <1>1, CountedUpto
<1>7. \A j \in DOMAIN mine : mine[j] \in 1..N /\ Owner(mine[j]) = rank
  <2>1. \A j \in DOMAIN mine : mine[j] \in O
    BY <1>3
  <2> HIDE DEF mine
  <2> QED
    BY <2>1
<1>8. S \subseteq O
  BY DEF Rows
<1> HIDE DEF b, c
<1>9. CutOut(mine, Cut(b, c)) = C
  BY DEF CutOut, Cut
<1>10. \A i \in 1..(c - b) : b + i \in DOMAIN mine /\ b + i \in Int
  BY <1>3, <1>5, <1>6
<1> HIDE DEF mine
<1>11. \A i \in 1..(c - b) : mine[b + i] \in S
  <2> TAKE i \in 1..(c - b)
  <2>1. b + i \in DOMAIN mine /\ ~(b + i <= b) /\ b + i <= c
    BY <1>5, <1>6, <1>10
  <2>2. mine[b + i] \in 1..N /\ ~(mine[b + i] <= w.begin) /\ mine[b + i] <= w.end /\ Owner(mine[b + i]) = rank
    BY <1>5, <1>6, <1>7, <2>1
  <2> QED
    BY <2>2 DEF Rows
<1>12. \A e \in S : \E i \in 1..(c - b) : mine[b + i] = e
  <2> TAKE e \in S
  <2>1. e \in Elements(mine) /\ e > w.begin /\ e <= w.end /\ e \in Int
    BY <1>3, <1>8 DEF Rows
  <2>2. PICK j \in DOMAIN mine : mine[j] = e
    BY <2>1 DEF Elements
  <2>3. j <= c /\ ~(j <= b) /\ j \in Int
    BY <1>3, <1>5, <1>6, <2>1, <2>2
  <2>4. j - b \in 1..(c - b) /\ b + (j - b) = j
    BY <1>5, <1>6, <2>3
  <2> QED
    BY <2>2, <2>4
<1> HIDE DEF O, S
<1>13. C \in Seq(S) /\ DOMAIN C = 1..(c - b) /\ \A i \in 1..(c - b) : C[i] = mine[b + i]
  <2>1. CASE c - b \in Nat
    <3>1. C \in [1..(c - b) -> S]
      BY <1>11
    <3> HIDE DEF C
    <3>2. C \in Seq(S) /\ DOMAIN C = 1..(c - b)
      BY <2>1, <3>1, ListOf
    <3> QED
      BY <3>2 DEF C
  <2>2. CASE ~(c - b \in Nat)
    <3>1. 1..(c - b) = {} /\ 1..0 = {} /\ 0 \in Nat
      BY <1>5, <1>6, <2>2
    <3>2. C \in [1..0 -> S]
      BY <3>1
    <3> HIDE DEF C
    <3>3. C \in Seq(S)
      BY <3>1, <3>2, ListOf
    <3> QED
      BY <3>1, <3>3 DEF C
  <2> QED
    BY <2>1, <2>2
<1> HIDE DEF C
<1>14. Elements(C) = S
  BY <1>11, <1>12, <1>13 DEF Elements
<1>15. \A k, l \in DOMAIN C : k < l => C[k] < C[l]
  <2> TAKE k, l \in DOMAIN C
  <2> HAVE k < l
  <2>1. b + k \in DOMAIN mine /\ b + l \in DOMAIN mine /\ b + k < b + l
    BY <1>5, <1>10, <1>13
  <2> QED
    BY <1>3, <1>13, <2>1
<1>16. S \in SUBSET Int /\ IsFiniteSet(S)
  BY <1>1, <1>8, FS_Subset
<1>17. C = Increasing(S)
  BY <1>13, <1>14, <1>15, <1>16, SameIncreasing
<1>18. OwnOf(rank, w) = Increasing(S)
  <2> DEFINE M == OwnOf(rank, w)
  <2>1. M \in Seq({e \in 1..N : Owner(e) = rank}) /\ Elements(M) = S
        /\ \A k, l \in DOMAIN M : k < l => M[k] < M[l]
    BY OwnIs DEF S
  <2> HIDE DEF M
  <2>2. M \in Seq(S)
    <3>1. \A k \in DOMAIN M : M[k] \in S
      BY <2>1 DEF Elements
    <3> QED
      BY <2>1, <3>1, WiderList
  <2>3. M = Increasing(S)
    BY <1>16, <2>1, <2>2, SameIncreasing
  <2> QED
    BY <2>3 DEF M
<1> QED
  BY <1>2, <1>4, <1>9, <1>17, <1>18

(* The slots of the ranks follow each other in the whole.                     *)
LEMMA BeginsGrow ==
    ASSUME NEW sizes \in [Part -> Nat], NEW p \in Part, NEW q \in Part, p < q
    PROVE  /\ Begins(sizes, p) \in Nat /\ Begins(sizes, q) \in Nat
           /\ Begins(sizes, p) + sizes[p] <= Begins(sizes, q)
<1> DEFINE n == NumParts
           f == Shifted(sizes)
           k == p + 1
<1>1. n \in Nat /\ p \in 0..n /\ q \in 0..n /\ k \in 1..n /\ k \in 0..n /\ k - 1 = p /\ k <= q
  BY DEF Part
<1>2. f \in [1..n -> Nat] /\ f[k] = sizes[p]
  <2>1. \A l \in 1..NumParts : l - 1 \in Part
    BY DEF Part
  <2>2. f \in [1..n -> Nat] /\ \A l \in 1..n : f[l] = sizes[l - 1]
    BY <2>1 DEF Shifted
  <2> HIDE DEF f, k, n
  <2> QED
    BY <1>1, <2>2
<1>3. Begins(sizes, p) = Upto(f, p) /\ Begins(sizes, q) = Upto(f, q)
  BY BeginsIs
<1> HIDE DEF f, k, n
<1>4. /\ Upto(f, p) \in Nat /\ Upto(f, q) \in Nat /\ Upto(f, k) = Upto(f, k - 1) + f[k]
  BY <1>1, <1>2, UptoIs
<1>5. Upto(f, k) <= Upto(f, q)
  BY <1>1, <1>2, UptoGrows
<1> QED
  BY <1>1, <1>2, <1>3, <1>4, <1>5

(* build_exchange_route: a stable sort by rank puts the places of each rank,  *)
(* in their order, one rank behind the other.                                 *)
PlacesOf(keys) == [p \in Part |-> Increasing({i \in DOMAIN keys : keys[i] = p})]

(* The places of one rank, in their order.                                    *)
LEMMA PlacesAre ==
    ASSUME NEW n \in Nat, NEW keys \in [1..n -> Part], NEW p \in Part
    PROVE  /\ PlacesOf(keys)[p] \in Seq(1..n) /\ Distinct(PlacesOf(keys)[p])
           /\ Len(PlacesOf(keys)[p]) = Cardinality({i \in DOMAIN keys : keys[i] = p})
           /\ DOMAIN PlacesOf(keys)[p] = 1..Len(PlacesOf(keys)[p]) /\ Len(PlacesOf(keys)[p]) \in Nat
           /\ Elements(PlacesOf(keys)[p]) = {i \in 1..n : keys[i] = p}
           /\ \A k, l \in DOMAIN PlacesOf(keys)[p] : k < l => PlacesOf(keys)[p][k] < PlacesOf(keys)[p][l]
<1> DEFINE S == {i \in DOMAIN keys : keys[i] = p}
<1>1. S = {i \in 1..n : keys[i] = p} /\ S \in SUBSET (1..n)
  OBVIOUS
<1>2. IsFiniteSet(1..n)
  BY FS_Interval
<1>3. PlacesOf(keys)[p] = Increasing(S)
  BY DEF PlacesOf
<1> HIDE DEF S
<1>4. S \in SUBSET Int /\ IsFiniteSet(S)
  BY <1>1, <1>2, FS_Subset
<1>5. /\ Increasing(S) \in Seq(S) /\ Len(Increasing(S)) = Cardinality(S)
      /\ DOMAIN Increasing(S) = 1..Cardinality(S) /\ Cardinality(S) \in Nat
      /\ Elements(Increasing(S)) = S /\ Distinct(Increasing(S))
      /\ \A k, l \in DOMAIN Increasing(S) : k < l => Increasing(S)[k] < Increasing(S)[l]
  BY <1>4, SortedList
<1>6. Increasing(S) \in Seq(1..n)
  <2>1. \A k \in DOMAIN Increasing(S) : Increasing(S)[k] \in 1..n
    BY <1>1, <1>5, ItemsOf
  <2> QED
    BY <1>5, <2>1, WiderList
<1>7. Increasing(S) \in Seq(1..n) /\ Distinct(Increasing(S)) /\ Len(Increasing(S)) = Cardinality(S)
  BY <1>5, <1>6
<1>8. Elements(Increasing(S)) = {i \in 1..n : keys[i] = p}
  BY <1>1, <1>5
<1> QED
  BY <1>3, <1>5, <1>7, <1>8 DEF S

(* The places of all ranks, one rank behind the other, name every place once, *)
(* by rank and then by place.                                                 *)
LEMMA PlacesFill ==
    ASSUME NEW n \in Nat, NEW keys \in [1..n -> Part]
    PROVE  LET flat == FlattenSeq(Shifted(PlacesOf(keys)))
           IN  /\ flat \in Seq(1..n) /\ Len(flat) = n /\ Distinct(flat) /\ Elements(flat) = 1..n
               /\ \A q, w \in 1..n : q < w => keys[flat[q]] < keys[flat[w]]
                                           \/ (keys[flat[q]] = keys[flat[w]] /\ flat[q] < flat[w])
<1> DEFINE ss == PlacesOf(keys)
           sizes == Sizes(ss)
           flat == FlattenSeq(Shifted(ss))
<1>1. \A p \in Part : /\ ss[p] \in Seq(1..n) /\ Distinct(ss[p])
                      /\ DOMAIN ss[p] = 1..Len(ss[p]) /\ Len(ss[p]) \in Nat
                      /\ Elements(ss[p]) = {i \in 1..n : keys[i] = p}
                      /\ \A k, l \in DOMAIN ss[p] : k < l => ss[p][k] < ss[p][l]
  <2> TAKE p \in Part
  <2>1. /\ PlacesOf(keys)[p] \in Seq(1..n) /\ Distinct(PlacesOf(keys)[p])
        /\ Len(PlacesOf(keys)[p]) = Cardinality({i \in DOMAIN keys : keys[i] = p})
        /\ DOMAIN PlacesOf(keys)[p] = 1..Len(PlacesOf(keys)[p]) /\ Len(PlacesOf(keys)[p]) \in Nat
        /\ Elements(PlacesOf(keys)[p]) = {i \in 1..n : keys[i] = p}
        /\ \A k, l \in DOMAIN PlacesOf(keys)[p] : k < l => PlacesOf(keys)[p][k] < PlacesOf(keys)[p][l]
    BY PlacesAre
  <2> QED
    BY <2>1
<1>2. ss \in [Part -> Seq(1..n)]
  <2>1. ss = [p \in Part |-> ss[p]]
    BY DEF PlacesOf
  <2> HIDE DEF ss
  <2> QED
    BY <1>1, <2>1
<1> HIDE DEF ss
<1>3. PartsAre(1..n, ss, flat, sizes)
  BY <1>2, PartsOfWhole
<1>4. /\ Elements(flat) = UNION {Elements(ss[p]) : p \in Part}
      /\ (\A p \in Part : Distinct(ss[p])) /\ (\A p, q \in Part : p # q => Elements(ss[p]) \cap Elements(ss[q]) = {})
            => Distinct(flat)
  BY <1>2, WholeHas
<1>5. sizes \in [Part -> Nat] /\ \A p \in Part : sizes[p] = Len(ss[p])
  BY <1>1 DEF Sizes
<1> HIDE DEF flat, sizes
<1>6. \A p, q \in Part : p # q => Elements(ss[p]) \cap Elements(ss[q]) = {}
  <2> TAKE p, q \in Part
  <2> HAVE p # q
  <2>1. Elements(ss[p]) = {i \in 1..n : keys[i] = p} /\ Elements(ss[q]) = {i \in 1..n : keys[i] = q}
    BY <1>1
  <2>2. {i \in 1..n : keys[i] = p} \cap {i \in 1..n : keys[i] = q} = {}
    OBVIOUS
  <2> QED
    BY <2>1, <2>2
<1>7. Distinct(flat)
  BY <1>1, <1>4, <1>6
<1>8. Elements(flat) = 1..n
  <2>1. \A i \in 1..n : keys[i] \in Part /\ i \in Elements(ss[keys[i]])
    BY <1>1
  <2>2. \A p \in Part : \A i \in Elements(ss[p]) : i \in 1..n
    BY <1>1
  <2> QED
    BY <1>4, <2>1, <2>2
<1>9. flat \in Seq(1..n) /\ DOMAIN flat = 1..Len(flat) /\ Len(flat) \in Nat
  BY <1>3 DEF PartsAre
<1>10. Len(flat) = n
  <2>1. Len(flat) = Cardinality(Elements(flat))
    BY <1>7, <1>9, DistinctLength
  <2>2. Cardinality(1..n) = n
    BY FS_Interval
  <2> QED
    BY <1>8, <2>1, <2>2
<1>11. ASSUME NEW q \in 1..n, NEW w \in 1..n, q < w
       PROVE  keys[flat[q]] < keys[flat[w]] \/ (keys[flat[q]] = keys[flat[w]] /\ flat[q] < flat[w])
  <2>1. PICK p \in Part : \E j \in 1..Len(ss[p]) : q = Begins(sizes, p) + j
    BY <1>3, <1>10 DEF PartsAre
  <2>2. PICK j \in 1..Len(ss[p]) : q = Begins(sizes, p) + j
    BY <2>1
  <2>3. PICK r \in Part : \E l \in 1..Len(ss[r]) : w = Begins(sizes, r) + l
    BY <1>3, <1>10 DEF PartsAre
  <2>4. PICK l \in 1..Len(ss[r]) : w = Begins(sizes, r) + l
    BY <2>3
  <2>5. flat[q] = ss[p][j] /\ flat[w] = ss[r][l]
    BY <1>3, <2>2, <2>4 DEF PartsAre
  <2>6. /\ j \in DOMAIN ss[p] /\ l \in DOMAIN ss[r]
        /\ j <= sizes[p] /\ l <= sizes[r] /\ j \in Nat /\ l \in Nat /\ 1 <= j /\ 1 <= l
        /\ sizes[p] \in Nat /\ sizes[r] \in Nat
    <3>1. /\ DOMAIN ss[p] = 1..Len(ss[p]) /\ Len(ss[p]) \in Nat /\ sizes[p] = Len(ss[p])
          /\ DOMAIN ss[r] = 1..Len(ss[r]) /\ Len(ss[r]) \in Nat /\ sizes[r] = Len(ss[r])
      BY <1>1, <1>5
    <3> QED
      BY <3>1
  <2>7. keys[flat[q]] = p /\ keys[flat[w]] = r
    <3>1. ss[p][j] \in Elements(ss[p]) /\ ss[r][l] \in Elements(ss[r])
      BY <2>6 DEF Elements
    <3> QED
      BY <1>1, <2>5, <3>1
  <2>8. Begins(sizes, p) \in Nat /\ Begins(sizes, r) \in Nat /\ p \in Int /\ r \in Int
    <3>1. Begins(sizes, p) \in Nat /\ Begins(sizes, r) \in Nat
      BY <1>3 DEF PartsAre
    <3> QED
      BY <3>1 DEF Part
  <2>9. CASE p < r
    BY <2>7, <2>9
  <2>10. CASE p = r
    <3>1. j < l
      BY <1>11, <2>2, <2>4, <2>6, <2>8, <2>10
    <3>2. ss[p][j] < ss[p][l]
      BY <1>1, <2>6, <2>10, <3>1
    <3> QED
      BY <2>5, <2>7, <2>10, <3>2
  <2>11. CASE r < p
    <3>1. Begins(sizes, r) + sizes[r] <= Begins(sizes, p)
      BY <1>5, <2>11, BeginsGrow
    <3> QED
      BY <1>11, <2>2, <2>4, <2>6, <2>8, <3>1
  <2> QED
    BY <2>8, <2>9, <2>10, <2>11
<1>12. \A q, w \in 1..n : q < w => keys[flat[q]] < keys[flat[w]]
                                \/ (keys[flat[q]] = keys[flat[w]] /\ flat[q] < flat[w])
  BY <1>11
<1> QED
  BY <1>7, <1>8, <1>9, <1>10, <1>12 DEF flat, ss

(* That is the stable sort by rank.                                           *)
LEMMA SortedByRank ==
    ASSUME NEW n \in Nat, NEW keys \in [1..n -> Part]
    PROVE  Argsort(keys) = FlattenSeq(Shifted(PlacesOf(keys)))
<1> DEFINE flat == FlattenSeq(Shifted(PlacesOf(keys)))
           order == Argsort(keys)
<1>1. /\ flat \in Seq(1..n) /\ Len(flat) = n /\ Distinct(flat) /\ Elements(flat) = 1..n
      /\ \A q, w \in 1..n : q < w => keys[flat[q]] < keys[flat[w]]
                                  \/ (keys[flat[q]] = keys[flat[w]] /\ flat[q] < flat[w])
  BY PlacesFill
<1>2. keys \in [1..n -> Int]
  BY DEF Part
<1>3. /\ order \in [1..n -> 1..n]
      /\ \A q, w \in 1..n : order[q] = order[w] => q = w
      /\ \A i \in 1..n : \E q \in 1..n : order[q] = i
      /\ \A q \in 1..n : Cardinality(Earlier(keys, order[q])) = q - 1
  BY <1>2, ArgsortPermutes
<1> HIDE DEF flat, order
<1>4. DOMAIN flat = 1..n /\ \A q \in 1..n : flat[q] \in 1..n
  BY <1>1, ItemsOf
<1>5. ASSUME NEW q \in 1..n PROVE Cardinality(Earlier(keys, flat[q])) = q - 1
  <2> DEFINE T == 1..(q - 1)
  <2>1. Earlier(keys, flat[q]) = {flat[r] : r \in T}
    <3>1. ASSUME NEW j \in Earlier(keys, flat[q]) PROVE \E r \in T : flat[r] = j
      <4>1. j \in 1..n /\ (keys[j] < keys[flat[q]] \/ (keys[j] = keys[flat[q]] /\ j < flat[q]))
        BY DEF Earlier
      <4>2. PICK r \in 1..n : flat[r] = j
        BY <1>1, <1>4, <4>1 DEF Elements
      <4>3. r < q
        <5>1. keys[flat[r]] \in Int /\ keys[flat[q]] \in Int /\ flat[r] \in Int /\ flat[q] \in Int
          BY <1>2, <1>4
        <5>2. CASE r = q
          BY <4>1, <4>2, <5>1, <5>2
        <5>3. CASE q < r
          <6>1. keys[flat[q]] < keys[flat[r]] \/ (keys[flat[q]] = keys[flat[r]] /\ flat[q] < flat[r])
            BY <1>1, <5>3
          <6> QED
            BY <4>1, <4>2, <5>1, <6>1
        <5> QED
          BY <5>2, <5>3
      <4> QED
        BY <4>2, <4>3
    <3>2. ASSUME NEW r \in T PROVE flat[r] \in Earlier(keys, flat[q])
      <4>1. r \in 1..n /\ r < q
        OBVIOUS
      <4>2. keys[flat[r]] < keys[flat[q]] \/ (keys[flat[r]] = keys[flat[q]] /\ flat[r] < flat[q])
        BY <1>1, <4>1
      <4>3. flat[r] \in DOMAIN keys
        BY <1>4, <4>1
      <4> QED
        BY <4>2, <4>3 DEF Earlier
    <3> HIDE DEF T
    <3> QED
      BY <3>1, <3>2
  <2>2. T \in SUBSET DOMAIN flat
    BY <1>4
  <2> HIDE DEF T
  <2>3. Cardinality({flat[r] : r \in T}) = Cardinality(T)
    <3>1. flat \in Seq(1..n) /\ Distinct(flat)
      BY <1>1
    <3>2. Cardinality(ItemsAt(flat, T)) = Cardinality(T)
      BY <2>2, <3>1, CountedOnce
    <3> QED
      BY <3>2 DEF ItemsAt
  <2>4. Cardinality(T) = q - 1
    <3>1. 1 \in Int /\ q - 1 \in Int /\ q - 1 >= 0
      OBVIOUS
    <3>2. Cardinality(1..(q - 1)) = IF 1 > q - 1 THEN 0 ELSE (q - 1) - 1 + 1
      BY <3>1, FS_Interval
    <3> QED
      BY <3>1, <3>2 DEF T
  <2> QED
    BY <2>1, <2>3, <2>4
<1>6. \A q \in 1..n : order[q] = flat[q]
  <2> TAKE q \in 1..n
  <2>1. flat[q] \in 1..n
    BY <1>4
  <2>2. PICK r \in 1..n : order[r] = flat[q]
    BY <1>3, <2>1
  <2>3. Cardinality(Earlier(keys, order[r])) = r - 1
    BY <1>3
  <2>4. Cardinality(Earlier(keys, flat[q])) = q - 1
    BY <1>5
  <2>5. r = q
    BY <2>2, <2>3, <2>4
  <2> QED
    BY <2>2, <2>5
<1>7. flat = [q \in 1..n |-> flat[q]] /\ order = [q \in 1..n |-> order[q]]
  BY <1>1, <1>3, <1>4
<1>8. order = flat
  BY <1>6, <1>7
<1> QED
  BY <1>8 DEF order, flat

(* A column of the whole, cut up, is the column of each part.                 *)
Column(s, f) == [q \in DOMAIN s |-> f[s[q]]]

ColumnCut(ss, f, p) == Slot(Column(FlattenSeq(Shifted(ss)), f), Sizes(ss), p) = Column(ss[p], f)

(* The slot of a rank in a column of the whole is the column of its part.     *)
LEMMA SlotOfColumn ==
    ASSUME NEW V, NEW ss \in [Part -> Seq(V)], NEW W, NEW f \in [V -> W], NEW p \in Part
    PROVE  ColumnCut(ss, f, p)
<1> DEFINE flat == FlattenSeq(Shifted(ss))
           sizes == Sizes(ss)
           column == [q \in DOMAIN flat |-> f[flat[q]]]
           b == Begins(sizes, p)
           s == ss[p]
<1>1. PartsAre(V, ss, flat, sizes)
  BY PartsOfWhole
<1>2. s \in Seq(V)
  OBVIOUS
<1> HIDE DEF flat, sizes, s
<1>3. /\ flat \in Seq(V) /\ sizes[p] = Len(s) /\ b \in Nat
      /\ \A j \in 1..Len(s) : b + j \in 1..Len(flat) /\ flat[b + j] = s[j]
  BY <1>1 DEF PartsAre, s
<1>4. Len(flat) \in Nat /\ DOMAIN flat = 1..Len(flat) /\ Len(s) \in Nat /\ DOMAIN s = 1..Len(s)
  BY <1>2, <1>3
<1>5. column \in Seq(W) /\ Len(column) = Len(flat) /\ \A q \in 1..Len(flat) : column[q] = f[flat[q]]
  <2>1. \A q \in DOMAIN flat : flat[q] \in V
    BY <1>3, ItemsOf
  <2>2. column \in [1..Len(flat) -> W] /\ \A q \in 1..Len(flat) : column[q] = f[flat[q]]
    BY <1>4, <2>1
  <2> HIDE DEF column
  <2> QED
    BY <1>4, <2>2, ListOf
<1> HIDE DEF column, b
<1>6. Slot(column, sizes, p) = [j \in 1..Len(s) |-> column[b + j]]
  <2>1. Slot(column, sizes, p) = SubSeq(column, b + 1, b + Len(s))
    BY <1>3 DEF Slot, b
  <2>2. SubSeq(column, b + 1, b + Len(s)) = [i \in 1..((b + Len(s)) - (b + 1) + 1) |-> column[((b + 1) + i) - 1]]
    <3>1. \A l : \A x, y \in Int : SubSeq(l, x, y) = [i \in 1..(1 + y - x) |-> l[x + i - 1]]
      OBVIOUS
    <3> QED
      BY <1>3, <1>4
  <2>3. 1..((b + Len(s)) - (b + 1) + 1) = 1..Len(s)
    BY <1>3, <1>4
  <2>4. \A i \in 1..Len(s) : ((b + 1) + i) - 1 = b + i
    BY <1>3, <1>4
  <2> QED
    BY <2>1, <2>2, <2>3, <2>4
<1>7. \A j \in 1..Len(s) : column[b + j] = f[s[j]]
  BY <1>3, <1>5
<1>8. Slot(column, sizes, p) = [j \in DOMAIN s |-> f[s[j]]]
  BY <1>4, <1>6, <1>7
<1> QED
  BY <1>8 DEF ColumnCut, Column, column, sizes, flat, s

(* _state_write_candidates: the write of one end of an event.                 *)
Role == {"src", "dst"}
Writes == [event: 1..N, node: Node, role: Role]
WriteOf(e, role) == [event |-> e, node |-> events[e][role], role |-> role]

RoleWrites(rows, mask, role) ==
    LET by == Masked(rows, {i \in DOMAIN rows : mask[rows[i]][role]})
    IN  [i \in DOMAIN by |-> [event |-> by[i], node |-> events[by[i]][role], role |-> role]]

(* The writes of one end are those the mask asks for.                         *)
LEMMA RoleWritesAre ==
    ASSUME PlanInv, pc = "done", NEW rows \in Seq(1..N), NEW mask, NEW role \in Role
    PROVE  /\ RoleWrites(rows, mask, role) \in Seq(Writes)
           /\ \A x \in Elements(RoleWrites(rows, mask, role)) :
                 \E e \in Elements(rows) : mask[e][role] /\ x = WriteOf(e, role)
           /\ \A e \in Elements(rows) :
                 mask[e][role] => WriteOf(e, role) \in Elements(RoleWrites(rows, mask, role))
<1> DEFINE P == {i \in DOMAIN rows : mask[rows[i]][role]}
           by == Masked(rows, P)
           L == [i \in DOMAIN by |-> WriteOf(by[i], role)]
<1>1. /\ by \in Seq(1..N)
      /\ Elements(by) = {rows[i] : i \in P}
  <2>1. P \in SUBSET DOMAIN rows
    OBVIOUS
  <2> HIDE DEF P
  <2> QED
    BY <2>1, MaskedIs
<1>2. \A i \in P : rows[i] \in Elements(rows) /\ mask[rows[i]][role]
  BY DEF Elements
<1>3. \A e \in Elements(rows) : mask[e][role] => \E i \in P : rows[i] = e
  BY DEF Elements
<1>4. RoleWrites(rows, mask, role) = L
  BY DEF RoleWrites, WriteOf
<1> HIDE DEF P, by
<1>5. DOMAIN by = 1..Len(by) /\ Len(by) \in Nat /\ \A i \in DOMAIN by : by[i] \in 1..N
  BY <1>1, ItemsOf
<1>6. \A e \in 1..N : WriteOf(e, role) \in Writes
  <2> TAKE e \in 1..N
  <2>1. events[e].src \in Node /\ events[e].dst \in Node
    BY OwnersKnown
  <2>2. events[e][role] \in Node
    BY <2>1 DEF Role
  <2> QED
    BY <2>2 DEF WriteOf, Writes
<1>7. L \in Seq(Writes) /\ DOMAIN L = DOMAIN by /\ \A i \in DOMAIN by : L[i] = WriteOf(by[i], role)
  <2>1. L \in [1..Len(by) -> Writes] /\ \A i \in DOMAIN by : L[i] = WriteOf(by[i], role)
    BY <1>5, <1>6
  <2> HIDE DEF L
  <2> QED
    BY <1>5, <2>1, ListOf
<1> HIDE DEF L
<1>8. ASSUME NEW x \in Elements(L) PROVE \E e \in Elements(rows) : mask[e][role] /\ x = WriteOf(e, role)
  <2>1. PICK i \in DOMAIN by : x = WriteOf(by[i], role)
    BY <1>7 DEF Elements
  <2>2. by[i] \in Elements(by)
    BY DEF Elements
  <2>3. PICK j \in P : by[i] = rows[j]
    BY <1>1, <2>2
  <2> QED
    BY <1>2, <2>1, <2>3
<1>9. ASSUME NEW e \in Elements(rows), mask[e][role] PROVE WriteOf(e, role) \in Elements(L)
  <2>1. e \in Elements(by)
    BY <1>1, <1>3, <1>9
  <2>2. PICK i \in DOMAIN by : by[i] = e
    BY <2>1 DEF Elements
  <2>3. i \in DOMAIN L /\ L[i] = WriteOf(e, role)
    BY <1>7, <2>2
  <2> QED
    BY <2>3 DEF Elements
<1> QED
  BY <1>4, <1>7, <1>8, <1>9

(* So are the writes of both ends, of hot or of cold nodes.                   *)
LEMMA WritesAre ==
    ASSUME PlanInv, pc = "done", NEW rows \in Seq(1..N), NEW mask, NEW hot
    PROVE  /\ WritesOf(rows, mask, hot) \in Seq(Writes)
           /\ \A x \in Elements(WritesOf(rows, mask, hot)) :
                 \E e \in Elements(rows), role \in Role :
                     mask[e][role] /\ x = WriteOf(e, role)
           /\ \A e \in Elements(rows), role \in Role :
                 mask[e][role] /\ IsHot(events[e][role]) = hot
                     => WriteOf(e, role) \in Elements(WritesOf(rows, mask, hot))
<1> DEFINE a == RoleWrites(rows, mask, "src")
           b == RoleWrites(rows, mask, "dst")
           all == a \o b
           P == {i \in DOMAIN all : IsHot(all[i].node) = hot}
           M == Masked(all, P)
<1>1. "src" \in Role /\ "dst" \in Role
  BY DEF Role
<1>2. /\ a \in Seq(Writes)
      /\ \A x \in Elements(a) : \E e \in Elements(rows) : mask[e]["src"] /\ x = WriteOf(e, "src")
      /\ \A e \in Elements(rows) : mask[e]["src"] => WriteOf(e, "src") \in Elements(a)
  BY <1>1, RoleWritesAre
<1>3. /\ b \in Seq(Writes)
      /\ \A x \in Elements(b) : \E e \in Elements(rows) : mask[e]["dst"] /\ x = WriteOf(e, "dst")
      /\ \A e \in Elements(rows) : mask[e]["dst"] => WriteOf(e, "dst") \in Elements(b)
  BY <1>1, RoleWritesAre
<1>4. WritesOf(rows, mask, hot) = M
  BY DEF WritesOf, RoleWrites
<1> HIDE DEF a, b
<1>5. all \in Seq(Writes) /\ Elements(all) = Elements(a) \cup Elements(b)
  BY <1>2, <1>3, DistinctJoin
<1> HIDE DEF all
<1>6. /\ M \in Seq(Writes) /\ Elements(M) = {all[i] : i \in P}
  <2>1. P \in SUBSET DOMAIN all
    OBVIOUS
  <2> HIDE DEF P
  <2> QED
    BY <1>5, <2>1, MaskedIs
<1>7. \A i \in P : all[i] \in Elements(all)
  BY DEF Elements
<1>8. \A x \in Elements(all) : IsHot(x.node) = hot => \E i \in P : all[i] = x
  BY DEF Elements
<1> HIDE DEF P, M
<1>9. ASSUME NEW x \in Elements(M)
      PROVE  \E e \in Elements(rows), role \in Role : mask[e][role] /\ x = WriteOf(e, role)
  <2>1. x \in Elements(all)
    BY <1>6, <1>7
  <2>2. CASE x \in Elements(a)
    <3>1. PICK e \in Elements(rows) : mask[e]["src"] /\ x = WriteOf(e, "src")
      BY <1>2, <2>2
    <3> QED
      BY <1>1, <3>1
  <2>3. CASE x \in Elements(b)
    <3>1. PICK e \in Elements(rows) : mask[e]["dst"] /\ x = WriteOf(e, "dst")
      BY <1>3, <2>3
    <3> QED
      BY <1>1, <3>1
  <2> QED
    BY <1>5, <2>1, <2>2, <2>3
<1>10. ASSUME NEW e \in Elements(rows), NEW role \in Role, mask[e][role], IsHot(events[e][role]) = hot
       PROVE  WriteOf(e, role) \in Elements(M)
  <2>1. WriteOf(e, role) \in Elements(all)
    <3>1. CASE role = "src"
      BY <1>2, <1>5, <1>10, <3>1
    <3>2. CASE role = "dst"
      BY <1>3, <1>5, <1>10, <3>2
    <3> QED
      BY <3>1, <3>2 DEF Role
  <2>2. WriteOf(e, role).node = events[e][role]
    BY DEF WriteOf
  <2>3. IsHot(WriteOf(e, role).node) = hot
    BY <1>10, <2>2
  <2>4. PICK i \in P : all[i] = WriteOf(e, role)
    BY <1>8, <2>1, <2>3
  <2> QED
    BY <1>6, <2>4
<1> QED
  BY <1>4, <1>6, <1>9, <1>10

(* A write goes to the node its event names.                                  *)
LEMMA WritesNameNodes ==
    ASSUME NEW s \in Seq(Writes)
    PROVE  DOMAIN s = 1..Len(s) /\ Len(s) \in Nat /\ \A i \in DOMAIN s : s[i] \in Writes /\ s[i].node \in Node
<1>1. DOMAIN s = 1..Len(s) /\ Len(s) \in Nat /\ \A i \in DOMAIN s : s[i] \in Writes
  BY ItemsOf
<1> QED
  BY <1>1 DEF Writes

(* The rows a list of writes fills at one rank, in its order.                 *)
BoundFor(writes, rank) == Masked(writes, {i \in DOMAIN writes : NodeIndex[writes[i].node].part = rank})
LandingRows(writes, rank) ==
    [j \in DOMAIN BoundFor(writes, rank) |-> NodeIndex[BoundFor(writes, rank)[j].node].loc]

(* What a rank sends a peer lands, in order, on the rows of the writes bound  *)
(* for the peer.                                                              *)
LEMMA SendIs ==
    ASSUME PlanInv, pc = "done", NEW writes \in Seq(Writes), NEW rank \in Part
    PROVE  LET r == SendRoute(writes)
           IN  /\ Slot(r.send_dst_rows, r.send_sizes, rank) = LandingRows(writes, rank)
               /\ r.sent \in Seq(Writes) /\ Elements(r.sent) = Elements(writes)
<1> DEFINE n == Len(writes)
           index == NodeIndex
           keys == [i \in DOMAIN writes |-> index[writes[i].node].part]
           f == [i \in 1..n |-> index[writes[i].node].loc]
           order == Argsort(keys)
           sent == Pick(writes, order)
           ss == PlacesOf(keys)
           flat == FlattenSeq(Shifted(ss))
           sizes == [peer \in Part |-> Cardinality({i \in DOMAIN sent : index[sent[i].node].part = peer})]
           rows == [i \in DOMAIN sent |-> index[sent[i].node].loc]
           bound == {i \in DOMAIN writes : index[writes[i].node].part = rank}
<1>1. SendRoute(writes) = [send_sizes |-> sizes, sent |-> sent, send_dst_rows |-> rows]
  BY DEF SendRoute
<1>2. n \in Nat /\ DOMAIN writes = 1..n /\ \A i \in 1..n : writes[i].node \in Node
  BY WritesNameNodes
<1>3. \A m \in Node : index[m].part \in Part /\ index[m].loc \in Int
  BY NodeIndexIs, OwnersKnown
<1>4. /\ keys \in [1..n -> Part] /\ DOMAIN keys = 1..n
      /\ \A i \in 1..n : keys[i] = index[writes[i].node].part
  BY <1>2, <1>3
<1>5. f \in [1..n -> Int] /\ \A i \in 1..n : f[i] = index[writes[i].node].loc
  BY <1>2, <1>3
<1>6. bound = {i \in 1..n : keys[i] = rank} /\ LandingRows(writes, rank)
        = [j \in DOMAIN Masked(writes, bound) |-> index[Masked(writes, bound)[j].node].loc]
  BY <1>2, <1>4 DEF LandingRows, BoundFor
<1> HIDE DEF keys, index, n, f, bound
<1>7. order = flat
  BY <1>2, <1>4, SortedByRank
<1>8. /\ flat \in Seq(1..n) /\ Len(flat) = n /\ Distinct(flat) /\ Elements(flat) = 1..n
  BY <1>2, <1>4, PlacesFill
<1>9. \A p \in Part : /\ ss[p] \in Seq(1..n) /\ Len(ss[p]) = Cardinality({i \in DOMAIN keys : keys[i] = p})
  BY <1>2, <1>4, PlacesAre
<1>10. ss \in [Part -> Seq(1..n)] /\ ss[rank] = Increasing(bound)
  <2>1. ss = [p \in Part |-> ss[p]] /\ ss[rank] = Increasing(bound)
    BY <1>4, <1>6 DEF PlacesOf
  <2> HIDE DEF ss
  <2> QED
    BY <1>9, <2>1
<1> HIDE DEF order, flat, ss
<1>11. DOMAIN flat = 1..n /\ \A q \in 1..n : flat[q] \in 1..n
  BY <1>8, ItemsOf
<1>12. sent = [q \in 1..n |-> writes[flat[q]]]
  BY <1>7, <1>11 DEF Pick
<1> HIDE DEF sent
<1>13. DOMAIN sent = 1..n /\ \A q \in 1..n : sent[q] = writes[flat[q]] /\ index[sent[q].node].part = keys[flat[q]]
                                          /\ index[sent[q].node].loc = f[flat[q]]
  BY <1>4, <1>5, <1>11, <1>12
<1>14. ASSUME NEW p \in Part PROVE sizes[p] = Len(ss[p])
  <2> DEFINE Q == {q \in 1..n : keys[flat[q]] = p}
             S == {i \in 1..n : keys[i] = p}
  <2>1. {q \in DOMAIN sent : index[sent[q].node].part = p} = Q
    BY <1>13
  <2>2. {flat[q] : q \in Q} = S
    <3>1. \A i \in S : \E q \in Q : flat[q] = i
      BY <1>8, <1>11 DEF Elements
    <3>2. \A q \in Q : flat[q] \in S
      BY <1>11
    <3> HIDE DEF Q, S
    <3> QED
      BY <3>1, <3>2
  <2>3. Q \in SUBSET DOMAIN flat
    BY <1>11
  <2> HIDE DEF Q
  <2>4. Cardinality({flat[q] : q \in Q}) = Cardinality(Q)
    <3>1. IsFiniteSet(ItemsAt(flat, Q)) /\ Cardinality(ItemsAt(flat, Q)) = Cardinality(Q)
      BY <1>8, <2>3, CountedOnce
    <3> QED
      BY <3>1 DEF ItemsAt
  <2>5. Len(ss[p]) = Cardinality(S)
    BY <1>4, <1>9
  <2>6. sizes[p] = Cardinality(Q)
    BY <2>1
  <2> QED
    BY <2>2, <2>4, <2>5, <2>6
<1>15. sizes = Sizes(ss)
  BY <1>14 DEF Sizes
<1>16. rows = [q \in DOMAIN flat |-> f[flat[q]]]
  BY <1>11, <1>13
<1> HIDE DEF sizes, rows
<1>17. Slot(rows, sizes, rank) = [j \in DOMAIN ss[rank] |-> f[ss[rank][j]]]
  <2>1. Slot(Column(flat, f), Sizes(ss), rank) = Column(ss[rank], f)
    <3>1. ColumnCut(ss, f, rank)
      BY <1>5, <1>10, SlotOfColumn
    <3> QED
      BY <3>1 DEF ColumnCut, flat
  <2> QED
    BY <1>15, <1>16, <2>1 DEF Column
<1>18. /\ DOMAIN Masked(writes, bound) = DOMAIN ss[rank]
       /\ \A j \in DOMAIN ss[rank] : f[ss[rank][j]] = index[Masked(writes, bound)[j].node].loc
  <2>1. bound \in SUBSET DOMAIN writes
    BY <1>2, <1>6
  <2>2. /\ DOMAIN Masked(writes, bound) = DOMAIN Increasing(bound)
        /\ \A k \in DOMAIN Masked(writes, bound) :
              Masked(writes, bound)[k] = writes[Increasing(bound)[k]] /\ Increasing(bound)[k] \in bound
    BY <2>1, MaskedIs
  <2>3. \A j \in bound : j \in 1..n
    BY <1>6
  <2> QED
    BY <1>5, <1>10, <2>2, <2>3
<1>19. Slot(rows, sizes, rank) = LandingRows(writes, rank)
  BY <1>6, <1>17, <1>18
<1>20. Elements(sent) = Elements(writes)
  <2>1. ASSUME NEW x \in Elements(sent) PROVE x \in Elements(writes)
    BY <1>2, <1>11, <1>13 DEF Elements
  <2>2. ASSUME NEW x \in Elements(writes) PROVE x \in Elements(sent)
    <3>1. PICK i \in 1..n : writes[i] = x
      BY <1>2 DEF Elements
    <3>2. PICK q \in 1..n : flat[q] = i
      BY <1>8, <1>11 DEF Elements
    <3>3. sent[q] = x
      BY <1>13, <3>1, <3>2
    <3> QED
      BY <1>13, <3>3 DEF Elements
  <2> QED
    BY <2>1, <2>2
<1>21. sent \in Seq(Writes)
  <2>1. \A q \in 1..n : sent[q] \in Writes
    <3>1. \A i \in 1..n : writes[i] \in Writes
      BY <1>2, ItemsOf
    <3> QED
      BY <1>11, <1>13, <3>1
  <2>2. sent \in [1..n -> Writes]
    BY <1>12, <1>13, <2>1
  <2> QED
    BY <1>2, <2>2, ListOf
<1> QED
  BY <1>1, <1>19, <1>20, <1>21

(* The rows a rank works out for what it gets of a peer are those of the same *)
(* writes.                                                                    *)
LEMMA RecvIs ==
    ASSUME PlanInv, pc = "done", NEW rows \in Seq(1..N), NEW mask, NEW hot, NEW rank \in Part, NEW peer \in Part,
           \A p \in Part : WritesFrom(rows, p, mask, hot) \in Seq(Writes)
    PROVE  LET r == RecvLayout(rank, rows, mask, hot)
           IN  Slot(r.recv_rows, r.recv_sizes, peer) = LandingRows(WritesFrom(rows, peer, mask, hot), rank)
<1> DEFINE from == [p \in Part |-> BoundFor(WritesFrom(rows, p, mask, hot), rank)]
           rr == [p \in Part |-> LandingRows(WritesFrom(rows, p, mask, hot), rank)]
           flat == FlattenSeq([k \in 1..NumParts |-> [i \in DOMAIN from[k - 1] |-> NodeIndex[from[k - 1][i].node].loc]])
<1>1. RecvLayout(rank, rows, mask, hot) = [recv_sizes |-> [p \in Part |-> Len(from[p])], recv_rows |-> flat]
  BY DEF RecvLayout, BoundFor
<1>2. \A k \in 1..NumParts : k - 1 \in Part
  BY DEF Part
<1>3. \A m \in Node : NodeIndex[m].loc \in Int
  BY NodeIndexIs
<1>4. ASSUME NEW p \in Part
      PROVE  /\ from[p] = BoundFor(WritesFrom(rows, p, mask, hot), rank)
             /\ rr[p] = [i \in DOMAIN from[p] |-> NodeIndex[from[p][i].node].loc]
             /\ rr[p] \in Seq(Int) /\ Len(rr[p]) = Len(from[p])
  <2> DEFINE w == WritesFrom(rows, p, mask, hot)
             P == {i \in DOMAIN w : NodeIndex[w[i].node].part = rank}
             b == BoundFor(w, rank)
  <2>1. w \in Seq(Writes) /\ P \in SUBSET DOMAIN w /\ b = Masked(w, P)
    BY DEF BoundFor
  <2>2. from[p] = b /\ rr[p] = [i \in DOMAIN b |-> NodeIndex[b[i].node].loc]
    BY DEF LandingRows
  <2> HIDE DEF w, P, b, from, rr
  <2>3. b \in Seq(Writes)
    BY <2>1, MaskedIs
  <2>4. DOMAIN b = 1..Len(b) /\ Len(b) \in Nat /\ \A i \in DOMAIN b : b[i].node \in Node
    BY <2>3, WritesNameNodes
  <2>5. rr[p] \in [1..Len(b) -> Int]
    BY <1>3, <2>2, <2>4
  <2>6. rr[p] \in Seq(Int) /\ Len(rr[p]) = Len(b)
    BY <2>4, <2>5, ListOf
  <2> QED
    BY <2>2, <2>6 DEF b, w
<1>5. rr = [p \in Part |-> rr[p]]
  OBVIOUS
<1> HIDE DEF from, rr
<1>6. rr \in [Part -> Seq(Int)]
  BY <1>4, <1>5
<1>7. flat = FlattenSeq(Shifted(rr))
  <2>1. \A k \in 1..NumParts : rr[k - 1] = [i \in DOMAIN from[k - 1] |-> NodeIndex[from[k - 1][i].node].loc]
    BY <1>2, <1>4
  <2>2. [k \in 1..NumParts |-> [i \in DOMAIN from[k - 1] |-> NodeIndex[from[k - 1][i].node].loc]] = Shifted(rr)
    BY <2>1 DEF Shifted
  <2> QED
    BY <2>2
<1>8. [p \in Part |-> Len(from[p])] = Sizes(rr)
  BY <1>4 DEF Sizes
<1> HIDE DEF flat
<1>9. Slot(flat, Sizes(rr), peer) = rr[peer]
  BY <1>6, <1>7, SlotIs
<1>10. rr[peer] = LandingRows(WritesFrom(rows, peer, mask, hot), rank)
  BY DEF rr
<1> DEFINE r == RecvLayout(rank, rows, mask, hot)
<1>11. r.recv_rows = flat /\ r.recv_sizes = Sizes(rr)
  BY <1>1, <1>8
<1> HIDE DEF r
<1>12. Slot(r.recv_rows, r.recv_sizes, peer) = LandingRows(WritesFrom(rows, peer, mask, hot), rank)
  BY <1>9, <1>10, <1>11
<1> QED
  BY <1>12 DEF r

(* Windows that have no event in common.                                      *)
NoneShared(windows) ==
    \A j, k \in DOMAIN windows : \A e \in Rows(windows[j]) : e \in Rows(windows[k]) => j = k

(* split.py checks no more of given windows than their shape.                 *)
GivenWindowsApart == \A w \in Ways : w.by = "windows" => NoneShared(w.windows)

(* A cut of a list.                                                           *)
LEMMA CutIs ==
    ASSUME NEW V, NEW w \in Seq(V), NEW a \in Nat, NEW b \in Nat, a <= b, b <= Len(w)
    PROVE  /\ SubSeq(w, a + 1, b) \in Seq(V) /\ Len(SubSeq(w, a + 1, b)) = b - a
           /\ \A i \in 1..(b - a) : SubSeq(w, a + 1, b)[i] = w[a + i]
<1>1. Len(w) \in Nat /\ DOMAIN w = 1..Len(w) /\ \A i \in 1..Len(w) : w[i] \in V
  BY ItemsOf
<1> DEFINE t == [i \in 1..(b - a) |-> w[a + i]]
<1>2. SubSeq(w, a + 1, b) = t
  <2>1. SubSeq(w, a + 1, b) = [i \in 1..(b - (a + 1) + 1) |-> w[((a + 1) + i) - 1]]
    <3>1. \A s : \A x, y \in Int : SubSeq(s, x, y) = [i \in 1..(1 + y - x) |-> s[x + i - 1]]
      OBVIOUS
    <3> QED
      BY <1>1
  <2>2. 1..(b - (a + 1) + 1) = 1..(b - a) /\ \A i \in 1..(b - a) : ((a + 1) + i) - 1 = a + i
    OBVIOUS
  <2> QED
    BY <2>1, <2>2
<1>3. b - a \in Nat /\ \A i \in 1..(b - a) : a + i \in 1..Len(w)
  BY <1>1
<1>4. t \in [1..(b - a) -> V] /\ \A i \in 1..(b - a) : t[i] = w[a + i]
  BY <1>1, <1>3
<1> HIDE DEF t
<1>5. t \in Seq(V) /\ Len(t) = b - a
  BY <1>3, <1>4, ListOf
<1> QED
  BY <1>2, <1>4, <1>5

(* Two lists of one kind, joined.                                             *)
LEMMA JoinSame ==
    ASSUME NEW V, NEW a \in Seq(V), NEW b \in Seq(V)
    PROVE  /\ a \o b \in Seq(V) /\ Len(a \o b) = Len(a) + Len(b)
           /\ \A i \in 1..Len(a) : (a \o b)[i] = a[i]
           /\ \A i \in (Len(a) + 1)..(Len(a) + Len(b)) : (a \o b)[i] = b[i - Len(a)]
<1>1. a \o b \in Seq(V)
  OBVIOUS
<1>2. /\ Len(a \o b) = Len(a) + Len(b)
      /\ \A i \in 1..Len(a) : (a \o b)[i] = a[i]
      /\ \A i \in (Len(a) + 1)..(Len(a) + Len(b)) : (a \o b)[i] = b[i - Len(a)]
  BY JoinIs
<1> QED
  BY <1>1, <1>2

(* Three cuts that follow each other are the whole.                           *)
LEMMA CutsJoin ==
    ASSUME NEW V, NEW w \in Seq(V), NEW f \in 0..Len(w), NEW g \in f..Len(w)
    PROVE  SubSeq(w, 1, f) \o SubSeq(w, f + 1, g) \o SubSeq(w, g + 1, Len(w)) = w
<1> DEFINE n == Len(w)
           a == SubSeq(w, 0 + 1, f)
           b == SubSeq(w, f + 1, g)
           c == SubSeq(w, g + 1, Len(w))
           d == (a \o b) \o c
<1>1. n \in Nat /\ f \in Nat /\ g \in Nat /\ 0 \in Nat /\ 0 <= f /\ f <= g /\ g <= n /\ n <= n /\ f <= n
      /\ DOMAIN w = 1..n
  OBVIOUS
<1>2. a \in Seq(V) /\ Len(a) = f - 0 /\ \A i \in 1..(f - 0) : a[i] = w[0 + i]
  BY <1>1, CutIs
<1>3. b \in Seq(V) /\ Len(b) = g - f /\ \A i \in 1..(g - f) : b[i] = w[f + i]
  BY <1>1, CutIs
<1>4. c \in Seq(V) /\ Len(c) = n - g /\ \A i \in 1..(n - g) : c[i] = w[g + i]
  <2>1. g \in Nat /\ Len(w) \in Nat /\ g <= Len(w) /\ Len(w) <= Len(w)
    BY <1>1
  <2>2. c \in Seq(V) /\ Len(c) = Len(w) - g /\ \A i \in 1..(Len(w) - g) : c[i] = w[g + i]
    BY <2>1, CutIs
  <2> QED
    BY <2>2
<1>5. SubSeq(w, 1, f) = a
  BY <1>1
<1> HIDE DEF n, a, b, c
<1>6. /\ a \o b \in Seq(V) /\ Len(a \o b) = Len(a) + Len(b)
      /\ \A i \in 1..Len(a) : (a \o b)[i] = a[i]
      /\ \A i \in (Len(a) + 1)..(Len(a) + Len(b)) : (a \o b)[i] = b[i - Len(a)]
  BY <1>2, <1>3, JoinSame
<1>7. /\ d \in Seq(V) /\ Len(d) = Len(a \o b) + Len(c)
      /\ \A i \in 1..Len(a \o b) : d[i] = (a \o b)[i]
      /\ \A i \in (Len(a \o b) + 1)..(Len(a \o b) + Len(c)) : d[i] = c[i - Len(a \o b)]
  <2> DEFINE ab == a \o b
  <2>1. ab \in Seq(V)
    BY <1>6
  <2> HIDE DEF ab
  <2>2. /\ ab \o c \in Seq(V) /\ Len(ab \o c) = Len(ab) + Len(c)
        /\ \A i \in 1..Len(ab) : (ab \o c)[i] = ab[i]
        /\ \A i \in (Len(ab) + 1)..(Len(ab) + Len(c)) : (ab \o c)[i] = c[i - Len(ab)]
    <3>1. c \in Seq(V)
      BY <1>4
    <3> QED
      BY ONLY <2>1, <3>1, JoinSame
  <2> QED
    BY <2>2 DEF ab
<1> HIDE DEF d
<1>8. Len(a) = f /\ Len(b) = g - f /\ Len(a \o b) = g /\ Len(d) = n
  BY <1>1, <1>2, <1>3, <1>4, <1>6, <1>7
<1>9. \A i \in 1..f : a[i] = w[i]
  BY <1>1, <1>2
<1>10. \A i \in (f + 1)..g : b[i - f] = w[i]
  <2> TAKE i \in (f + 1)..g
  <2>1. i - f \in 1..(g - f) /\ f + (i - f) = i
    BY <1>1
  <2> QED
    BY <1>3, <2>1
<1>11. \A i \in (g + 1)..n : c[i - g] = w[i]
  <2> TAKE i \in (g + 1)..n
  <2>1. i - g \in 1..(n - g) /\ g + (i - g) = i
    BY <1>1
  <2> QED
    BY <1>4, <2>1
<1>12. \A i \in 1..n : d[i] = w[i]
  <2> TAKE i \in 1..n
  <2>1. CASE i <= f
    <3>1. i \in 1..Len(a) /\ i \in 1..Len(a \o b) /\ i \in 1..f
      BY <1>1, <1>8, <2>1
    <3> QED
      BY <1>6, <1>7, <1>9, <3>1
  <2>2. CASE f < i /\ i <= g
    <3>1. i \in (Len(a) + 1)..(Len(a) + Len(b)) /\ i \in 1..Len(a \o b) /\ i \in (f + 1)..g /\ i - Len(a) = i - f
      BY <1>1, <1>8, <2>2
    <3> QED
      BY <1>6, <1>7, <1>10, <3>1
  <2>3. CASE g < i
    <3>1. /\ i \in (Len(a \o b) + 1)..(Len(a \o b) + Len(c)) /\ i \in (g + 1)..n
          /\ i - Len(a \o b) = i - g
      BY <1>1, <1>4, <1>8, <2>3
    <3> QED
      BY <1>7, <1>11, <3>1
  <2> QED
    BY <1>1, <2>1, <2>2, <2>3
<1>13. d = w
  <2>1. Len(d) = Len(w) /\ d \in Seq(V) /\ w \in Seq(V)
    BY <1>7, <1>8 DEF n
  <2>2. \A i \in 1..Len(d) : d[i] = w[i]
    BY <1>8, <1>12
  <2> QED
    BY <2>1, <2>2, SeqEqual
<1> QED
  BY <1>5, <1>13 DEF b, c, d

(* Cut windows share no event; given ones do not by hypothesis.               *)
LEMMA WindowsShareNone ==
    ASSUME StageInv, stage # "plan", GivenWindowsApart
    PROVE  NoneShared(Windows)
<1>1. N \in Nat
  BY TimesOrdered
<1>2. CASE way.by # "windows"
  <2>1. Tiled(Windows, 0, N)
    BY <1>2, SplitsTile
  <2>2. \A k \in DOMAIN Windows : Windows[k].begin \in Nat /\ Windows[k].end \in 0..N
    BY WindowsWithin
  <2>3. ASSUME NEW j \in DOMAIN Windows, NEW k \in DOMAIN Windows, NEW e \in Rows(Windows[j]), e \in Rows(Windows[k])
        PROVE  j = k
    <3>1. e \in 1..N
      BY <1>1, <2>2 DEF Rows
    <3> QED
      BY <1>1, <2>1, <2>3, <3>1, TilesHoldOnce
  <2> QED
    BY <2>3 DEF NoneShared
<1>3. CASE way.by = "windows"
  <2> DEFINE w == way.windows
             f == way.first
             g == way.second
  <2>1. way \in Ways /\ split = Divided(way, cut)
    BY DEF StageInv, Chosen
  <2>2. w \in Seq(Window) /\ f \in 0..Len(w) /\ g \in f..Len(w)
    BY <1>3, <2>1, PrepareAssumption
  <2>3. split = DealtOut(w, f, g)
    BY <1>3, <2>1 DEF Divided
  <2>4. NoneShared(w)
    BY <1>3, <2>1 DEF GivenWindowsApart
  <2> HIDE DEF w, f, g
  <2>5. Windows = SubSeq(w, 1, f) \o SubSeq(w, f + 1, g) \o SubSeq(w, g + 1, Len(w))
    BY <2>3 DEF Windows, AllWindows, DealtOut
  <2>6. SubSeq(w, 1, f) \o SubSeq(w, f + 1, g) \o SubSeq(w, g + 1, Len(w)) = w
    BY <2>2, CutsJoin
  <2> QED
    BY <2>4, <2>5, <2>6
<1> QED
  BY <1>2, <1>3

(* build_state_write_mask: a window has a last event to touch a node.         *)
LEMMA LastTouches ==
    ASSUME NEW w, w.begin \in Nat, w.end \in Nat, NEW n, NEW e \in Rows(w), n \in Ends(e)
    PROVE  /\ LastTouch(w, n) \in Rows(w) /\ n \in Ends(LastTouch(w, n))
           /\ \A f \in Rows(w) : n \in Ends(f) => f <= LastTouch(w, n)
<1> DEFINE S == {f \in Rows(w) : n \in Ends(f)}
           T == {w.end - f : f \in S}
           P(l) == l \in Rows(w) /\ n \in Ends(l) /\ \A f \in Rows(w) : n \in Ends(f) => f <= l
<1>1. \A f \in Rows(w) : f \in Nat /\ f <= w.end
  BY DEF Rows
<1>2. T \in SUBSET Nat /\ T # {}
  <2>1. e \in S
    OBVIOUS
  <2>2. \A f \in S : w.end - f \in Nat
    BY <1>1
  <2> HIDE DEF S
  <2> QED
    BY <2>1, <2>2
<1>3. PICK x \in T : \A y \in T : x <= y
  BY <1>2, Least
<1>4. PICK l \in S : x = w.end - l
  BY <1>3
<1>5. \A f \in S : f <= l
  <2> TAKE f \in S
  <2>1. w.end - l <= w.end - f
    BY <1>3, <1>4
  <2> QED
    BY <1>1, <2>1
<1>6. P(l)
  BY <1>5
<1>7. P(LastTouch(w, n))
  <2>1. LastTouch(w, n) = CHOOSE m \in Rows(w) : n \in Ends(m) /\ \A f \in Rows(w) : n \in Ends(f) => f <= m
    BY DEF LastTouch
  <2>2. \E m \in Rows(w) : n \in Ends(m) /\ \A f \in Rows(w) : n \in Ends(f) => f <= m
    BY <1>6
  <2> QED
    BY <2>1, <2>2
<1> QED
  BY <1>7

(* If windows share no event, the mask asks for the last touch of each        *)
(* window.                                                                    *)
LEMMA MaskDecides ==
    ASSUME NEW windows, DOMAIN windows \subseteq Int, NoneShared(windows),
           NEW k \in DOMAIN windows, NEW e \in DOMAIN events, e \in Rows(windows[k]), NEW role \in Role
    PROVE  WriteMask(windows)[e][role] <=> LastTouch(windows[k], events[e][role]) = e
<1> DEFINE of == {j \in DOMAIN windows : e \in Rows(windows[j])}
           writes(n) == \E j \in of : (\A i \in of : i <= j) /\ LastTouch(windows[j], n) = e
<1>1. of = {k}
  BY DEF NoneShared
<1>2. \A n : writes(n) <=> LastTouch(windows[k], n) = e
  BY <1>1
<1>3. WriteMask(windows)[e] = [src |-> writes(events[e].src), dst |-> writes(events[e].dst)]
  BY DEF WriteMask
<1> HIDE DEF writes
<1>4. CASE role = "src"
  BY <1>2, <1>3, <1>4
<1>5. CASE role = "dst"
  BY <1>2, <1>3, <1>5
<1> QED
  BY <1>4, <1>5 DEF Role

(* build_state_write_routes_for_rank: what a rank sends of a window.          *)
OwnWrites(rank, w, mask, hot) == WritesOf(OwnOf(rank, w), mask, hot)

RouteOfWindow(route, rank, w, mask, hot) ==
    LET send == SendRoute(OwnWrites(rank, w, mask, hot))
        recv == RecvLayout(rank, EdgesOf(w), mask, hot)
    IN  /\ route.send_sizes = send.send_sizes /\ route.sent = send.sent
        /\ route.send_dst_rows = send.send_dst_rows
        /\ route.recv_sizes = recv.recv_sizes /\ route.recv_rows = recv.recv_rows

(* The routes of a window are made of the events that ranks own in it.        *)
LEMMA WriteRoutesAre ==
    ASSUME PlanInv, pc = "done", NEW windows, NEW k \in DOMAIN windows,
           windows[k].begin \in Nat, windows[k].end \in 0..N, NEW rank, NEW mask, NEW hot
    PROVE  RouteOfWindow(WriteRoutes(rank, windows, mask, hot)[k], rank, windows[k], mask, hot)
<1> DEFINE w == windows[k]
           own == Localized(windows, rank)[k]
           cutout == CutOut(LocalRowsOf(rank), own)
           send == SendRoute(WritesOf(cutout, mask, hot))
           recv == RecvLayout(rank, EdgesOf(w), mask, hot)
<1>1. WriteRoutes(rank, windows, mask, hot)[k]
        = [send_sizes |-> send.send_sizes, sent |-> send.sent, send_dst_rows |-> send.send_dst_rows,
           recv_sizes |-> recv.recv_sizes, recv_rows |-> recv.recv_rows]
  BY DEF WriteRoutes, CutOut, EdgesOf
<1>2. own = Cut(UptoRow(rank, w.begin), UptoRow(rank, w.end))
  BY DEF Localized, UptoRow
<1>3. N \in Nat /\ DOMAIN events = 1..N
  BY OwnersKnown
<1>4. cutout = OwnOf(rank, w)
  <2>1. CutOut(LocalRowsOf(rank), Cut(UptoRow(rank, w.begin), UptoRow(rank, w.end))) = OwnOf(rank, w)
    <3> HIDE DEF w
    <3>1. w.begin \in Nat /\ w.end \in 0..N
      BY DEF w
    <3> QED
      BY <1>3, <3>1, LocalizedIs
  <2> QED
    BY <1>2, <2>1
<1>5. send = SendRoute(OwnWrites(rank, w, mask, hot))
  BY <1>4 DEF OwnWrites
<1> HIDE DEF send, recv, w
<1>6. LET r == WriteRoutes(rank, windows, mask, hot)[k]
      IN  /\ r.send_sizes = send.send_sizes /\ r.sent = send.sent
          /\ r.send_dst_rows = send.send_dst_rows
          /\ r.recv_sizes = recv.recv_sizes /\ r.recv_rows = recv.recv_rows
  BY <1>1
<1>7. RouteOfWindow(WriteRoutes(rank, windows, mask, hot)[k], rank, w, mask, hot)
  BY <1>5, <1>6 DEF RouteOfWindow, recv
<1> QED
  BY <1>7 DEF w

(* A write that the mask of a window asks of a rank.                          *)
Asked(x, w, mask, rank) ==
    \E e \in Rows(w), role \in Role : Owner(e) = rank /\ mask[e][role] /\ x = WriteOf(e, role)

(* A rank sends what the mask asks of its own events.                         *)
LEMMA OwnWritesAre ==
    ASSUME PlanInv, pc = "done", NEW w, w.begin \in Nat, w.end \in 0..N, NEW mask, NEW hot, NEW rank \in Part
    PROVE  /\ OwnWrites(rank, w, mask, hot) \in Seq(Writes)
           /\ \A x \in Elements(OwnWrites(rank, w, mask, hot)) : Asked(x, w, mask, rank)
           /\ \A e \in Rows(w), role \in Role :
                 Owner(e) = rank /\ mask[e][role] /\ IsHot(events[e][role]) = hot
                     => WriteOf(e, role) \in Elements(OwnWrites(rank, w, mask, hot))
<1> DEFINE rows == OwnOf(rank, w)
           ww == WritesOf(rows, mask, hot)
<1>1. N \in Nat
  BY OwnersKnown
<1>2. rows \in Seq({e \in 1..N : Owner(e) = rank}) /\ Elements(rows) = {e \in Rows(w) : Owner(e) = rank}
  BY <1>1, OwnIs
<1>3. OwnWrites(rank, w, mask, hot) = ww
  BY DEF OwnWrites
<1> HIDE DEF rows
<1>4. rows \in Seq(1..N)
  <2>1. \A k \in DOMAIN rows : rows[k] \in {e \in 1..N : Owner(e) = rank}
    BY <1>2, ItemsOf
  <2>2. \A k \in DOMAIN rows : rows[k] \in 1..N
    BY <2>1
  <2> QED
    BY <1>2, <2>2, WiderList
<1>5. /\ ww \in Seq(Writes)
      /\ \A x \in Elements(ww) : \E e \in Elements(rows), role \in Role : mask[e][role] /\ x = WriteOf(e, role)
      /\ \A e \in Elements(rows), role \in Role :
            mask[e][role] /\ IsHot(events[e][role]) = hot => WriteOf(e, role) \in Elements(ww)
  BY <1>4, WritesAre
<1> HIDE DEF ww
<1>6. ASSUME NEW x \in Elements(ww)
      PROVE  Asked(x, w, mask, rank)
  <2>1. PICK e \in Elements(rows), role \in Role : mask[e][role] /\ x = WriteOf(e, role)
    BY <1>5
  <2>2. e \in Rows(w) /\ Owner(e) = rank
    BY <1>2
  <2> QED
    BY <2>1, <2>2 DEF Asked
<1>7. ASSUME NEW e \in Rows(w), NEW role \in Role, Owner(e) = rank, mask[e][role], IsHot(events[e][role]) = hot
      PROVE  WriteOf(e, role) \in Elements(ww)
  <2>1. e \in Elements(rows)
    BY <1>2, <1>7
  <2> QED
    BY <1>5, <1>7, <2>1
<1> QED
  BY <1>3, <1>5, <1>6, <1>7

Landed(from, to, a, b) ==
    Slot(from.send_dst_rows, from.send_sizes, b) = Slot(to.recv_rows, to.recv_sizes, a)

(* What a sends b is, entry for entry, what b expects of a.                   *)
LEMMA OneWindowLands ==
    ASSUME PlanInv, pc = "done", NEW w, w.begin \in Nat, w.end \in 0..N, NEW mask, NEW hot,
           NEW a \in Part, NEW b \in Part, NEW from, NEW to,
           RouteOfWindow(from, a, w, mask, hot), RouteOfWindow(to, b, w, mask, hot)
    PROVE  Landed(from, to, a, b)
<1> DEFINE rows == EdgesOf(w)
           mine == OwnWrites(a, w, mask, hot)
           send == SendRoute(mine)
           recv == RecvLayout(b, rows, mask, hot)
<1>1. N \in Nat
  BY OwnersKnown
<1>2. rows \in Seq(1..N)
  BY <1>1, EdgesOfWindow
<1>3. \A p \in Part : WritesFrom(rows, p, mask, hot) = OwnWrites(p, w, mask, hot)
  BY DEF WritesFrom, OwnWrites, OwnOf
<1>4. \A p \in Part : OwnWrites(p, w, mask, hot) \in Seq(Writes)
  BY OwnWritesAre
<1>5. /\ from.send_sizes = send.send_sizes /\ from.send_dst_rows = send.send_dst_rows
  BY DEF RouteOfWindow
<1>6. /\ to.recv_sizes = recv.recv_sizes /\ to.recv_rows = recv.recv_rows
  BY DEF RouteOfWindow
<1> HIDE DEF rows
<1>7. WritesFrom(rows, a, mask, hot) = mine
  BY <1>3
<1>8. Slot(recv.recv_rows, recv.recv_sizes, a) = LandingRows(WritesFrom(rows, a, mask, hot), b)
  <2>1. \A p \in Part : WritesFrom(rows, p, mask, hot) \in Seq(Writes)
    BY <1>3, <1>4
  <2> QED
    BY <1>2, <2>1, RecvIs
<1>9. mine \in Seq(Writes)
  BY <1>4
<1> HIDE DEF mine
<1>10. Slot(send.send_dst_rows, send.send_sizes, b) = LandingRows(mine, b)
  BY <1>9, SendIs
<1> QED
  BY <1>5, <1>6, <1>7, <1>8, <1>10 DEF Landed

(* What a set of writes has to be: of every node of the window the last.      *)
LastOnly(sent, w) ==
    \A e \in Rows(w) : \A n \in Ends(e) :
        \E write \in sent :
            /\ write.node = n /\ write.event >= e
            /\ \A other \in sent : other.node = n => other.event = write.event

(* Writes that follow the mask are the last of their nodes, and every node    *)
(* has its last.                                                              *)
LEMMA LastAreWritten ==
    ASSUME PlanInv, pc = "done", NEW windows, DOMAIN windows \subseteq Int, NoneShared(windows),
           NEW k \in DOMAIN windows, windows[k].begin \in Nat, windows[k].end \in 0..N, NEW sent,
           \A x \in sent : \E e \in Rows(windows[k]), role \in Role :
               WriteMask(windows)[e][role] /\ x = WriteOf(e, role),
           \A e \in Rows(windows[k]), role \in Role :
               WriteMask(windows)[e][role] => WriteOf(e, role) \in sent
    PROVE  LastOnly(sent, windows[k])
<1> DEFINE w == windows[k]
           mask == WriteMask(windows)
<1>1. N \in Nat /\ DOMAIN events = 1..N
  BY OwnersKnown
<1>2. \A e \in Rows(w) : e \in 1..N /\ e \in Int
  BY <1>1 DEF Rows
<1>3. \A e \in Rows(w), role \in Role : mask[e][role] <=> LastTouch(w, events[e][role]) = e
  BY <1>1, <1>2, MaskDecides
<1>4. w.begin \in Nat /\ w.end \in Nat
  BY <1>1
<1>5. /\ \A x \in sent : \E e \in Rows(w), role \in Role : mask[e][role] /\ x = WriteOf(e, role)
      /\ \A e \in Rows(w), role \in Role : mask[e][role] => WriteOf(e, role) \in sent
  OBVIOUS
<1> HIDE DEF w, mask
<1>6. ASSUME NEW e \in Rows(w), NEW n \in Ends(e)
      PROVE  \E write \in sent :
                 /\ write.node = n /\ write.event >= e
                 /\ \A other \in sent : other.node = n => other.event = write.event
  <2> DEFINE l == LastTouch(w, n)
  <2>1. l \in Rows(w) /\ n \in Ends(l) /\ \A f \in Rows(w) : n \in Ends(f) => f <= l
    BY <1>4, LastTouches
  <2>2. PICK role \in Role : events[l][role] = n
    BY <2>1 DEF Ends, Role
  <2>3. WriteOf(l, role) \in sent
    BY <1>3, <1>5, <2>1, <2>2
  <2>4. WriteOf(l, role).node = n /\ WriteOf(l, role).event = l
    BY <2>2 DEF WriteOf
  <2>5. l >= e
    BY <1>2, <2>1
  <2>6. ASSUME NEW other \in sent, other.node = n PROVE other.event = l
    <3>1. PICK f \in Rows(w), r \in Role : mask[f][r] /\ other = WriteOf(f, r)
      BY <1>5
    <3>2. other.event = f /\ other.node = events[f][r]
      BY <3>1 DEF WriteOf
    <3>3. LastTouch(w, events[f][r]) = f
      BY <1>3, <3>1
    <3> QED
      BY <2>6, <3>2, <3>3
  <2> HIDE DEF l
  <2> QED
    BY <2>3, <2>4, <2>5, <2>6
<1> QED
  BY <1>6 DEF LastOnly, w

(* What the event views of all ranks have to say of one window.               *)
SentOf(views, k) ==
    UNION {Elements(views[rank].state_write_routes[k].sent)
             \cup Elements(views[rank].hot_state_write_events[k].sent) : rank \in Part}

Lands(views, k) ==
    \A a, b \in Part :
        /\ Slot(views[a].state_write_routes[k].send_dst_rows, views[a].state_write_routes[k].send_sizes, b)
             = Slot(views[b].state_write_routes[k].recv_rows, views[b].state_write_routes[k].recv_sizes, a)
        /\ Slot(views[a].hot_state_write_events[k].send_dst_rows, views[a].hot_state_write_events[k].send_sizes, b)
             = Slot(views[b].hot_state_write_events[k].recv_rows, views[b].hot_state_write_events[k].recv_sizes, a)

SentByOwner(views, k) ==
    \A rank \in Part :
        \A write \in Elements(views[rank].state_write_routes[k].sent \o views[rank].hot_state_write_events[k].sent) :
            Owner(write.event) = rank

(* The views of all ranks, at one window.                                     *)
LEMMA ViewsWrite ==
    ASSUME PlanInv, pc = "done", NEW windows, DOMAIN windows \subseteq Int, NoneShared(windows),
           NEW k \in DOMAIN windows, windows[k].begin \in Nat, windows[k].end \in 0..N,
           NEW views, views = [rank \in Part |-> EventView(rank, windows, WriteMask(windows))]
    PROVE  Lands(views, k) /\ SentByOwner(views, k) /\ LastOnly(SentOf(views, k), windows[k])
<1> DEFINE w == windows[k]
           mask == WriteMask(windows)
           cold(rank) == views[rank].state_write_routes[k]
           hot(rank) == views[rank].hot_state_write_events[k]
           sent == SentOf(views, k)
<1>1. \A rank \in Part : /\ cold(rank) = WriteRoutes(rank, windows, mask, FALSE)[k]
                         /\ hot(rank) = WriteRoutes(rank, windows, mask, TRUE)[k]
  BY DEF EventView
<1>2. ASSUME NEW rank \in Part
      PROVE  RouteOfWindow(cold(rank), rank, w, mask, FALSE) /\ RouteOfWindow(hot(rank), rank, w, mask, TRUE)
  <2> HIDE DEF mask, cold, hot
  <2>1. RouteOfWindow(WriteRoutes(rank, windows, mask, FALSE)[k], rank, windows[k], mask, FALSE)
    BY WriteRoutesAre
  <2>2. RouteOfWindow(WriteRoutes(rank, windows, mask, TRUE)[k], rank, windows[k], mask, TRUE)
    BY WriteRoutesAre
  <2> QED
    BY <1>1, <2>1, <2>2
<1>3. w.begin \in Nat /\ w.end \in 0..N
  OBVIOUS
<1>4. sent = UNION {Elements(cold(rank).sent) \cup Elements(hot(rank).sent) : rank \in Part}
  BY DEF SentOf
<1>5. /\ (\A a, b \in Part : /\ Slot(cold(a).send_dst_rows, cold(a).send_sizes, b)
                                  = Slot(cold(b).recv_rows, cold(b).recv_sizes, a)
                             /\ Slot(hot(a).send_dst_rows, hot(a).send_sizes, b)
                                  = Slot(hot(b).recv_rows, hot(b).recv_sizes, a))
        => Lands(views, k)
      /\ (\A rank \in Part : \A write \in Elements(cold(rank).sent \o hot(rank).sent) : Owner(write.event) = rank)
        => SentByOwner(views, k)
  BY DEF Lands, SentByOwner
<1>6. DOMAIN events = 1..N /\ N \in Nat /\ \A e \in 1..N : Owner(e) \in Part
  BY OwnersKnown
<1> HIDE DEF w, cold, hot, sent
<1>7. ASSUME NEW a \in Part, NEW b \in Part
      PROVE  /\ Slot(cold(a).send_dst_rows, cold(a).send_sizes, b) = Slot(cold(b).recv_rows, cold(b).recv_sizes, a)
             /\ Slot(hot(a).send_dst_rows, hot(a).send_sizes, b) = Slot(hot(b).recv_rows, hot(b).recv_sizes, a)
  <2> HIDE DEF mask
  <2>1. RouteOfWindow(cold(a), a, w, mask, FALSE) /\ RouteOfWindow(cold(b), b, w, mask, FALSE)
    BY <1>2
  <2>2. RouteOfWindow(hot(a), a, w, mask, TRUE) /\ RouteOfWindow(hot(b), b, w, mask, TRUE)
    BY <1>2
  <2>3. Landed(cold(a), cold(b), a, b)
    BY <1>3, <2>1, OneWindowLands
  <2>4. Landed(hot(a), hot(b), a, b)
    BY <1>3, <2>2, OneWindowLands
  <2> QED
    BY <2>3, <2>4 DEF Landed
<1>8. ASSUME NEW rank \in Part
      PROVE  /\ cold(rank).sent \in Seq(Writes) /\ Elements(cold(rank).sent) = Elements(OwnWrites(rank, w, mask, FALSE))
             /\ hot(rank).sent \in Seq(Writes) /\ Elements(hot(rank).sent) = Elements(OwnWrites(rank, w, mask, TRUE))
  <2> HIDE DEF mask
  <2> DEFINE c == OwnWrites(rank, w, mask, FALSE)
             h == OwnWrites(rank, w, mask, TRUE)
  <2>1. c \in Seq(Writes) /\ h \in Seq(Writes)
    BY <1>3, OwnWritesAre
  <2>2. cold(rank).sent = SendRoute(c).sent /\ hot(rank).sent = SendRoute(h).sent
    BY <1>2 DEF RouteOfWindow
  <2> HIDE DEF c, h
  <2>3. /\ SendRoute(c).sent \in Seq(Writes) /\ Elements(SendRoute(c).sent) = Elements(c)
        /\ SendRoute(h).sent \in Seq(Writes) /\ Elements(SendRoute(h).sent) = Elements(h)
    BY <2>1, SendIs
  <2> QED
    BY <2>2, <2>3 DEF c, h
<1> HIDE DEF mask
<1>9. ASSUME NEW rank \in Part, NEW x \in Elements(cold(rank).sent) \cup Elements(hot(rank).sent)
      PROVE  Asked(x, w, mask, rank)
  <2>1. CASE x \in Elements(OwnWrites(rank, w, mask, FALSE))
    BY <1>3, <2>1, OwnWritesAre
  <2>2. CASE x \in Elements(OwnWrites(rank, w, mask, TRUE))
    BY <1>3, <2>2, OwnWritesAre
  <2> QED
    BY <1>8, <1>9, <2>1, <2>2
<1>10. ASSUME NEW rank \in Part, NEW write \in Elements(cold(rank).sent \o hot(rank).sent)
       PROVE  Owner(write.event) = rank
  <2>1. write \in Elements(cold(rank).sent) \cup Elements(hot(rank).sent)
    <3>1. cold(rank).sent \in Seq(Writes) /\ hot(rank).sent \in Seq(Writes)
      BY <1>8
    <3>2. Elements(cold(rank).sent \o hot(rank).sent) = Elements(cold(rank).sent) \cup Elements(hot(rank).sent)
      BY <3>1, DistinctJoin
    <3> QED
      BY <3>2
  <2>2. PICK e \in Rows(w), role \in Role : Owner(e) = rank /\ mask[e][role] /\ write = WriteOf(e, role)
    BY <1>9, <2>1 DEF Asked
  <2>3. write.event = e
    BY <2>2 DEF WriteOf
  <2> QED
    BY <2>2, <2>3
<1>11. ASSUME NEW x \in sent PROVE \E e \in Rows(w), role \in Role : mask[e][role] /\ x = WriteOf(e, role)
  <2>1. PICK rank \in Part : x \in Elements(cold(rank).sent) \cup Elements(hot(rank).sent)
    BY <1>4
  <2>2. PICK e \in Rows(w), role \in Role : Owner(e) = rank /\ mask[e][role] /\ x = WriteOf(e, role)
    BY <1>9, <2>1 DEF Asked
  <2> QED
    BY <2>2
<1>12. ASSUME NEW e \in Rows(w), NEW role \in Role, mask[e][role] PROVE WriteOf(e, role) \in sent
  <2> DEFINE rank == Owner(e)
  <2>1. rank \in Part
    BY <1>3, <1>6 DEF Rows
  <2>2. WriteOf(e, role) \in Elements(cold(rank).sent) \cup Elements(hot(rank).sent)
    <3>1. CASE IsHot(events[e][role]) = FALSE
      <4>1. WriteOf(e, role) \in Elements(OwnWrites(rank, w, mask, FALSE))
        BY <1>3, <1>12, <2>1, <3>1, OwnWritesAre
      <4> QED
        BY <1>8, <2>1, <4>1
    <3>2. CASE IsHot(events[e][role]) = TRUE
      <4>1. WriteOf(e, role) \in Elements(OwnWrites(rank, w, mask, TRUE))
        BY <1>3, <1>12, <2>1, <3>2, OwnWritesAre
      <4> QED
        BY <1>8, <2>1, <4>1
    <3>3. IsHot(events[e][role]) \in BOOLEAN
      BY DEF IsHot
    <3> QED
      BY <3>1, <3>2, <3>3
  <2> HIDE DEF rank
  <2> QED
    BY <1>4, <2>1, <2>2
<1>13. LastOnly(sent, windows[k])
  <2>1. /\ \A x \in sent : \E e \in Rows(windows[k]), role \in Role :
              WriteMask(windows)[e][role] /\ x = WriteOf(e, role)
        /\ \A e \in Rows(windows[k]), role \in Role :
              WriteMask(windows)[e][role] => WriteOf(e, role) \in sent
    BY <1>11, <1>12 DEF w, mask
  <2> QED
    BY <2>1, LastAreWritten
<1> QED
  BY <1>5, <1>7, <1>10, <1>13 DEF sent

(* WritesOnce after a step, named by its parts.                               *)
LEMMA WritesNext ==
    ASSUME UNCHANGED <<partition, split>>,
           event_views' # <<>> =>
               \A k \in DOMAIN Windows :
                   /\ Lands(event_views', k) /\ SentByOwner(event_views', k)
                   /\ LastOnly(SentOf(event_views', k), Windows[k])
    PROVE  WritesOnce'
<1>1. /\ events' = events /\ edge_owner' = edge_owner /\ split' = split
  BY DEF partition
<1>2. /\ Windows' = Windows
      /\ \A e : Owner(e)' = Owner(e) /\ Ends(e)' = Ends(e)
  BY <1>1 DEF Windows, Owner, Ends
<1> SUFFICES ASSUME event_views' # <<>>, NEW k \in DOMAIN Windows
             PROVE  /\ WritesLand(k, LAMBDA rank : event_views[rank].state_write_routes)'
                    /\ WritesLand(k, LAMBDA rank : event_views[rank].hot_state_write_events)'
                    /\ SentByOwner(event_views', k)
                    /\ LastOnly(SentOf(event_views', k), Windows[k])
  BY <1>1, <1>2 DEF WritesOnce, SentByOwner, LastOnly, SentOf, Ends, Owner
<1> QED
  BY DEF WritesLand, Lands

(* The step that builds the event views.                                      *)
LEMMA WritesStep ==
    ASSUME StageInv, StageInv', BuildEventViews, GivenWindowsApart
    PROVE  WritesOnce'
<1>1. /\ stage = "events" /\ stage # "plan" /\ UNCHANGED <<partition, split>>
      /\ event_views' = (IF "event_view" \in layouts
                         THEN [rank \in Part |-> EventView(rank, Windows, WriteMask(Windows))]
                         ELSE <<>>)
  BY DEF BuildEventViews
<1>2. PlanInv /\ pc = "done"
  BY <1>1 DEF StageInv, Staged, Chosen
<1>3. /\ Len(Windows) \in Nat /\ DOMAIN Windows = 1..Len(Windows)
      /\ \A k \in DOMAIN Windows : Windows[k].begin \in Nat /\ Windows[k].end \in 0..N
  BY <1>1, WindowsWithin
<1>4. NoneShared(Windows)
  BY <1>1, WindowsShareNone
<1>5. DOMAIN Windows \subseteq Int
  BY <1>3
<1>6. ASSUME event_views' # <<>>, NEW k \in DOMAIN Windows
      PROVE  /\ Lands(event_views', k) /\ SentByOwner(event_views', k)
             /\ LastOnly(SentOf(event_views', k), Windows[k])
  <2> DEFINE windows == Windows
             views == event_views'
  <2>1. views = [rank \in Part |-> EventView(rank, windows, WriteMask(windows))]
    BY <1>1, <1>6
  <2>2. windows[k].begin \in Nat /\ windows[k].end \in 0..N /\ k \in DOMAIN windows
    BY <1>3
  <2>3. NoneShared(windows) /\ DOMAIN windows \subseteq Int
    BY <1>4, <1>5
  <2> HIDE DEF windows, views
  <2>4. Lands(views, k) /\ SentByOwner(views, k) /\ LastOnly(SentOf(views, k), windows[k])
    BY <1>2, <2>1, <2>2, <2>3, ViewsWrite
  <2> QED
    BY <2>4 DEF windows, views
<1> QED
  BY <1>1, <1>6, WritesNext

WriteInv == StageInv /\ WritesOnce

(* Nothing is written before the event views are built.                       *)
LEMMA WriteInvInit == PrepareInit => WriteInv
<1> SUFFICES ASSUME PrepareInit PROVE WriteInv
  OBVIOUS
<1>1. StageInv
  BY StageInvInit
<1>2. event_views = <<>>
  BY DEF PrepareInit
<1> QED
  BY <1>1, <1>2 DEF WriteInv, WritesOnce

(* The same, at any stage before.                                             *)
LEMMA WritesNotYet ==
    ASSUME StageInv, stage \in {"plan", "events"}
    PROVE  event_views = <<>>
BY DEF StageInv, Staged

(* Views that stay write the same.                                            *)
LEMMA WritesStay ==
    ASSUME WritesOnce, UNCHANGED <<partition, split, event_views>>
    PROVE  WritesOnce'
<1>1. /\ events' = events /\ edge_owner' = edge_owner /\ split' = split /\ event_views' = event_views
  BY DEF partition
<1>2. Windows' = Windows
  BY <1>1 DEF Windows
<1>3. CASE event_views = <<>>
  BY <1>1, <1>3 DEF WritesOnce
<1>4. CASE event_views # <<>>
  <2>1. ASSUME NEW k \in DOMAIN Windows
        PROVE  /\ Lands(event_views, k) /\ SentByOwner(event_views, k)
               /\ LastOnly(SentOf(event_views, k), Windows[k])
    <3>1. /\ WritesLand(k, LAMBDA rank : event_views[rank].state_write_routes)
          /\ WritesLand(k, LAMBDA rank : event_views[rank].hot_state_write_events)
          /\ SentByOwner(event_views, k)
          /\ LastOnly(SentOf(event_views, k), Windows[k])
      BY <1>4 DEF WritesOnce, SentByOwner, LastOnly, SentOf
    <3> QED
      BY <3>1 DEF WritesLand, Lands
  <2>2. \A k \in DOMAIN Windows :
           /\ Lands(event_views', k) /\ SentByOwner(event_views', k)
           /\ LastOnly(SentOf(event_views', k), Windows[k])
    BY <1>1, <2>1
  <2> QED
    BY <2>2, WritesNext
<1> QED
  BY <1>3, <1>4

(* The event views are built once; no other step touches them.                *)
LEMMA WriteInvStep ==
    ASSUME WriteInv, [PrepareNext]_prepared, GivenWindowsApart
    PROVE  WriteInv'
<1>1. StageInv /\ WritesOnce
  BY DEF WriteInv
<1>2. StageInv'
  BY <1>1, StageInvStep
<1>3. CASE Plan
  <2>1. stage = "plan" /\ UNCHANGED built
    BY <1>1, <1>3, PlanEnds DEF Plan, StageInv, Staged, Chosen
  <2>2. event_views' = <<>>
    BY <1>1, <2>1, WritesNotYet DEF built
  <2> QED
    BY <1>2, <2>2 DEF WriteInv, WritesOnce
<1>4. CASE PlanChunks
  <2>1. stage = "plan" /\ UNCHANGED built
    BY <1>1, <1>4 DEF PlanChunks, AssignChunks, StageInv, Chosen
  <2>2. event_views' = <<>>
    BY <1>1, <2>1, WritesNotYet DEF built
  <2> QED
    BY <1>2, <2>2 DEF WriteInv, WritesOnce
<1>5. CASE ResolveSplits
  <2>1. stage = "plan" /\ UNCHANGED event_views
    BY <1>5 DEF ResolveSplits
  <2>2. event_views' = <<>>
    BY <1>1, <2>1, WritesNotYet
  <2> QED
    BY <1>2, <2>2 DEF WriteInv, WritesOnce
<1>6. CASE BuildEventViews
  BY <1>1, <1>2, <1>6, WritesStep DEF WriteInv
<1>7. CASE BuildSnapshot \/ BuildFeatureShards \/ BuildTaskShards
  <2>1. UNCHANGED <<partition, split, event_views>>
    BY <1>7 DEF BuildSnapshot, BuildFeatureShards, BuildTaskShards
  <2> QED
    BY <1>1, <1>2, <2>1, WritesStay DEF WriteInv
<1>8. CASE UNCHANGED prepared
  <2>1. UNCHANGED <<partition, split, event_views>>
    BY <1>8 DEF prepared, built
  <2> QED
    BY <1>1, <1>2, <2>1, WritesStay DEF WriteInv
<1> QED
  BY <1>3, <1>4, <1>5, <1>6, <1>7, <1>8 DEF PrepareNext

(* build_state_write_mask and build_state_write_routes_for_rank: of the ends  *)
(* of the events of a window exactly the last to touch a node is written, and *)
(* what its rank sends to the owner is, entry for entry, what the owner works *)
(* out for itself. Given windows must not overlap.                            *)
THEOREM PreparedWritesOnce ==
    ASSUME GivenWindowsApart
    PROVE  PrepareSpec => []WritesOnce
<1>1. WriteInv /\ [PrepareNext]_prepared => WriteInv'
  BY WriteInvStep
<1>2. WriteInv => WritesOnce
  BY DEF WriteInv
<1> QED
  BY <1>1, <1>2, WriteInvInit, PTL DEF PrepareSpec
=============================================================================
