------------------------- MODULE EventMemoryProofs -------------------------
(***************************************************************************)
(* What run_epoch reads from memory and mailbox, for any number of ranks,  *)
(* nodes, windows, slots and epochs and every table in time order.         *)
(*                                                                         *)
(* The argument has two halves.  Of the data: the commits of an owner, one *)
(* window after the other, leave in a group what the past of its node says *)
(* (Stored), and the gathers of a replica leave a row of those it applied  *)
(* (Refreshed).  Of the ranks: what a rank took or was sent for a window   *)
(* is what the owner had stored a fixed number of windows before, because  *)
(* the blocking calls keep the ranks within one call of each other.        *)
(***************************************************************************)
EXTENDS EventMemory, FiniteSetTheorems, SequenceTheorems, WellFoundedInduction, TLAPS

-----------------------------------------------------------------------------
(* The table, as operators of it: what they say does not change with a     *)
(* step.                                                                   *)

Touches(t, i, n) == n \in {t[i].src, t[i].dst}
IsLast(t, i, n) ==
    /\ Touches(t, i, n)
    /\ \A j \in DOMAIN t : t[j].window = t[i].window /\ Touches(t, j, n) => j <= i
WritesIn(t, n, k) == {i \in DOMAIN t : t[i].window = k /\ IsLast(t, i, n)}
PastIn(t, n, k) == {i \in DOMAIN t : t[i].window <= k /\ IsLast(t, i, n)}

TableOK(t) ==
    /\ t \in Seq([src : Node, dst : Node, rank : Rank, window : 1 .. Windows, ts : Nat])
    /\ \A i, j \in DOMAIN t : i < j => t[i].window <= t[j].window /\ t[i].ts <= t[j].ts

GroupOf(t) == [memory : 0 .. Len(t), mailbox : [Slot -> 0 .. Len(t)]]

-----------------------------------------------------------------------------
(* What a group holds.                                                     *)

\* The newest row of the past, 0 if there is none.
IsLatest(i, past) == i \in past \cup {0} /\ \A j \in past : j <= i

\* The newest rows of the past, each once, as many as fit.
IsMail(box, past) ==
    /\ \A s \in Slot : box[s] \in past \cup {0}
    /\ \A s, u \in Slot : box[s] = box[u] /\ s # u => box[s] = 0
    /\ \A i \in past : (\E s \in Slot : box[s] = i) \/ \A s \in Slot : box[s] > i

\* Sequential processing of the windows up to k leaves g for node n.
Stored(t, g, n, k) ==
    /\ g \in GroupOf(t)
    /\ IsLatest(g.memory, PastIn(t, n, k))
    /\ Untied(t) /\ Positive(t) => IsMail(g.mailbox, PastIn(t, n, k))

\* The rows of n in the gathers of a set, and a replica that applied them.
RowsOfGather(o, n, j) == {d.row : d \in {e \in UNION {o[p][j] : p \in Rank} : e.node = n}}
RowsOfGathers(o, n, js) == UNION {RowsOfGather(o, n, j) : j \in js}
Refreshed(t, o, g, n, js) ==
    /\ g \in GroupOf(t)
    /\ g.memory \in RowsOfGathers(o, n, js) \cup {0}
    /\ Untied(t) => \A i \in RowsOfGathers(o, n, js) : i <= g.memory

-----------------------------------------------------------------------------
(* The inductive invariant.                                                *)

Types ==
    /\ TypeOK
    /\ TableOK(table)
    /\ offer \in [Rank -> Seq(SUBSET [node : Hot, row : 1 .. Len(table)])]
    /\ \A r \in Rank : view[r] \in Seq([{m \in Node : ~FromOther(r, m)} -> GroupOf(table)])
    /\ \A p, r \in Rank : answer[p][r] \in Seq([Owned(p) -> GroupOf(table)])
    /\ DOMAIN view = Rank /\ DOMAIN answer = Rank
    /\ \A p \in Rank : DOMAIN answer[p] = Rank

AtMost(k) == IF k < Windows THEN k ELSE Windows

\* Windows whose commit, or whose gather, was launched.
Pushed(r) == IF pc[r] \in {"commit", "push"} THEN batch[r] - 1 ELSE batch[r]
Gathered(r) == IF ~bounded THEN 0
               ELSE IF pc[r] \in {"commit", "push", "gather"} THEN batch[r] - 1 ELSE batch[r]

\* Where a rank stands in its epoch: how far it reads ahead.
Place(r) ==
    /\ pc[r] = "request" =>
          /\ requested[r] < Windows
          /\ requested[r] = IF bounded /\ (requested[r] # 0 \/ batch[r] # 0)
                            THEN batch[r] + 1 ELSE batch[r]
    /\ pc[r] = "respond" =>
          requested[r] = IF bounded /\ (requested[r] # 1 \/ batch[r] # 0)
                         THEN batch[r] + 2 ELSE batch[r] + 1
    /\ pc[r] = "train" =>
          /\ batch[r] < Windows
          /\ requested[r] = IF bounded THEN AtMost(batch[r] + 2) ELSE batch[r] + 1
    /\ pc[r] \in {"commit", "push", "gather"} =>
          /\ batch[r] >= 1
          /\ requested[r] = IF bounded THEN AtMost(batch[r] + 1) ELSE batch[r]
    /\ pc[r] = "gather" => bounded
    /\ pc[r] \in {"end", "reset"} => batch[r] = Windows /\ requested[r] = Windows
    /\ pc[r] = "done" => batch[r] = 0 /\ requested[r] = 0
    /\ pc[r] = "done" <=> epoch[r] = Epochs + 1

\* The blocking calls of a window, and how many a rank has entered.
PerWindow == IF bounded THEN 3 ELSE 2
Within(r) == requested[r] + (IF pc[r] = "commit" THEN batch[r] - 1 ELSE batch[r])
               + (IF bounded THEN Pushed(r) ELSE 0)
Calls(r) == entered[r] = (epoch[r] - 1) * (PerWindow * Windows) + Within(r)

\* The groups a rank owns, and the commits it has not applied to them.
Commits(r) ==
    \E w \in 0 .. Pushed(r) :
       /\ pending[r] = (w + 1) .. Pushed(r)
       /\ pc[r] \in {"respond", "reset"} => w = Pushed(r)
       /\ \A n \in Owned(r) : Stored(table, owned[n], n, w)

\* What a rank took for its own windows when it requested them.
Views(r) ==
    /\ Len(view[r]) = requested[r] - batch[r]
    /\ \A i \in 1 .. Len(view[r]) : \A n \in Node :
          /\ Owner[n] = r => Stored(table, view[r][i][n], n, batch[r] + i - Lag)
          /\ FromReplica(r, n) =>
                view[r][i][n].memory \in PastIn(table, n, batch[r] + i - Lag) \cup {0}

Seen(r) ==
    pc[r] = "commit" =>
       \A n \in Node :
          /\ ~FromReplica(r, n) => Stored(table, seen[r][n], n, batch[r] - Lag)
          /\ FromReplica(r, n) =>
                seen[r][n].memory \in PastIn(table, n, batch[r] - Lag) \cup {0}

\* The k-th gather of an epoch has rows of window k.
Offers(r) ==
    /\ Len(offer[r]) = IF bounded THEN (epoch[r] - 1) * Windows + Pushed(r) ELSE 0
    /\ \A e \in 0 .. Epochs : \A k \in 1 .. Windows :
          e * Windows + k <= Len(offer[r]) =>
             \A d \in offer[r][e * Windows + k] : d.row \in WritesIn(table, d.node, k)

\* The gathers of the epoch, those applied, and what they left.
Launched(r) == ((epoch[r] - 1) * Windows + 1) .. ((epoch[r] - 1) * Windows + Gathered(r))
Replicas(r) ==
    /\ syncs[r] \subseteq Launched(r)
    /\ \A j \in Launched(r) \ syncs[r] : Arrived(j)
    /\ \A n \in Hot : Refreshed(table, offer, shared[r][n], n, Launched(r) \ syncs[r])

Local(r) == Place(r) /\ Calls(r) /\ Commits(r) /\ Views(r) /\ Seen(r) /\ Offers(r)

\* No rank is more than one call ahead of another.
Waiting(r) == IF pc[r] \in {"respond", "push", "gather"} THEN 1 ELSE 0
Meet(p, r) == entered[p] >= entered[r] - Waiting(r)

\* The answers of p in this epoch and in the epoch e, and those r has not taken.
Responses(p) == IF pc[p] = "respond" THEN requested[p] - 1 ELSE requested[p]
Answered(p, e) == IF epoch[p] > e THEN Windows ELSE IF epoch[p] < e THEN 0
                  ELSE Responses(p)
Answers(p, r) ==
    /\ Len(answer[p][r]) = Answered(p, epoch[r]) - batch[r]
    /\ \A i \in 1 .. Len(answer[p][r]) : \A n \in Owned(p) :
          Stored(table, answer[p][r][i][n], n, batch[r] + i - Lag)

Inv ==
    /\ Types
    /\ \A r \in Rank : Local(r) /\ Replicas(r)
    /\ \A p, r \in Rank : Meet(p, r) /\ Answers(p, r)
-----------------------------------------------------------------------------
(* Numbers.                                                                *)

Less == {ss \in Nat \X Nat : ss[1] < ss[2]}

(* The order of the naturals as a set of pairs.                            *)
LEMMA LessWellFounded == IsWellFoundedOn(Less, Nat)
BY ONLY NatLessThanWellFounded, Zenon DEF OpToRel, Less

(* Every set of numbers that is not empty has a least one.                 *)
LEMMA Least ==
    ASSUME NEW T \in SUBSET Nat, T # {}
    PROVE  \E x \in T : \A y \in T : x <= y
<1>1. PICK x \in T : \A y \in T : <<y, x>> \notin Less
  BY WFMin, LessWellFounded
<1>2. \A y \in T : ~ (y < x)
  BY <1>1, Zenon DEF Less
<1>3. x \in Nat /\ \A y \in T : y \in Nat
  OBVIOUS
<1> QED
  BY <1>2, <1>3

-----------------------------------------------------------------------------
(* The rows of a node in the table.                                        *)

(* The types of the rows.                                                  *)
LEMMA RowTypes ==
    ASSUME NEW t, TableOK(t)
    PROVE  /\ DOMAIN t = 1 .. Len(t) /\ Len(t) \in Nat
           /\ \A i \in DOMAIN t : /\ i \in Nat /\ i >= 1 /\ i <= Len(t)
                                  /\ t[i].window \in 1 .. Windows /\ t[i].window \in Nat
                                  /\ t[i].ts \in Nat
<1>1. t \in Seq([src : Node, dst : Node, rank : Rank, window : 1 .. Windows, ts : Nat])
  BY DEF TableOK
<1>2. DOMAIN t = 1 .. Len(t) /\ Len(t) \in Nat
  BY <1>1
<1>3. \A i \in DOMAIN t :
         t[i] \in [src : Node, dst : Node, rank : Rank, window : 1 .. Windows, ts : Nat]
  BY <1>1, <1>2, ElementOfSeq
<1>4. \A i \in DOMAIN t : t[i].window \in 1 .. Windows /\ t[i].ts \in Nat
  BY <1>3
<1>5. Windows \in Nat
  BY SizeAssumption
<1>6. \A i \in DOMAIN t : t[i].window \in Nat
  BY <1>4, <1>5
<1>7. \A i \in DOMAIN t : i \in Nat /\ i >= 1 /\ i <= Len(t)
  BY <1>2
<1> QED
  BY <1>2, <1>4, <1>6, <1>7

(* Two rows that are the last of their windows are of different windows.   *)
LEMMA RowOrder ==
    ASSUME NEW t, TableOK(t), NEW n, NEW i \in DOMAIN t, NEW j \in DOMAIN t,
           IsLast(t, i, n), IsLast(t, j, n), i < j
    PROVE  t[i].window < t[j].window /\ t[i].ts <= t[j].ts
<1>1. t[i].window <= t[j].window /\ t[i].ts <= t[j].ts
  BY DEF TableOK
<1>2. t[i].window \in Nat /\ t[j].window \in Nat /\ i \in Nat /\ j \in Nat
  BY RowTypes
<1>3. t[i].window # t[j].window
  BY <1>2 DEF IsLast
<1> QED
  BY <1>1, <1>2, <1>3

(* A window writes a node at most once.                                    *)
LEMMA WritesOne ==
    ASSUME NEW t, TableOK(t), NEW n, NEW k, NEW i \in WritesIn(t, n, k),
           NEW j \in WritesIn(t, n, k)
    PROVE  i = j
<1>1. i \in DOMAIN t /\ j \in DOMAIN t /\ i <= j /\ j <= i
  BY DEF WritesIn, IsLast
<1> QED
  BY <1>1, RowTypes

(* It writes it after every window before.                                 *)
LEMMA WritesNewer ==
    ASSUME NEW t, TableOK(t), NEW n, NEW k \in Int, NEW i \in WritesIn(t, n, k + 1),
           NEW j \in PastIn(t, n, k)
    PROVE  j < i
<1>1. i \in DOMAIN t /\ j \in DOMAIN t /\ t[i].window = k + 1 /\ t[j].window <= k
  BY DEF WritesIn, PastIn
<1>2. /\ i \in Nat /\ j \in Nat /\ t[i].window \in Nat /\ t[j].window \in Nat
  BY <1>1, RowTypes
<1>3. i < j => t[i].window <= t[j].window
  BY <1>1 DEF TableOK
<1>4. i # j
  BY <1>1, <1>2
<1> QED
  BY <1>1, <1>2, <1>3, <1>4

(* The past of a node, window after window.                                *)
LEMMA PastGrows ==
    ASSUME NEW t, TableOK(t), NEW n, NEW k \in Int
    PROVE  PastIn(t, n, k + 1) = PastIn(t, n, k) \cup WritesIn(t, n, k + 1)
<1>1. \A i \in DOMAIN t : t[i].window <= k + 1 <=> t[i].window <= k \/ t[i].window = k + 1
  BY RowTypes
<1> QED
  BY <1>1 DEF PastIn, WritesIn

LEMMA PastNone ==
    ASSUME NEW t, TableOK(t), NEW n, NEW k \in Int, k <= 0
    PROVE  PastIn(t, n, k) = {}
<1>1. \A i \in DOMAIN t : ~ (t[i].window <= k)
  BY RowTypes
<1> QED
  BY <1>1 DEF PastIn

LEMMA PastMonotone ==
    ASSUME NEW t, TableOK(t), NEW n, NEW k \in Int, NEW l \in Int, k <= l
    PROVE  /\ PastIn(t, n, k) \subseteq PastIn(t, n, l)
           /\ WritesIn(t, n, k) \subseteq PastIn(t, n, l)
<1>1. \A i \in DOMAIN t : t[i].window <= k => t[i].window <= l
  BY RowTypes
<1>2. \A i \in DOMAIN t : t[i].window = k => t[i].window <= l
  BY RowTypes
<1> QED
  BY <1>1, <1>2 DEF PastIn, WritesIn

LEMMA PastTypes ==
    ASSUME NEW t, TableOK(t), NEW n, NEW k
    PROVE  /\ PastIn(t, n, k) \subseteq DOMAIN t /\ WritesIn(t, n, k) \subseteq DOMAIN t
           /\ \A i \in PastIn(t, n, k) : i \in Nat /\ i >= 1 /\ i <= Len(t)
           /\ \A i \in WritesIn(t, n, k) : i \in Nat /\ i >= 1 /\ i <= Len(t)
BY RowTypes DEF PastIn, WritesIn

(* The newest row of the past is known by being the latest.                *)
LEMMA LatestIs ==
    ASSUME NEW t, TableOK(t), NEW n, NEW k, NEW i, IsLatest(i, PastIn(t, n, k))
    PROVE  i = CHOOSE l \in PastIn(t, n, k) \cup {0} : \A j \in PastIn(t, n, k) : j <= l
<1> DEFINE P == PastIn(t, n, k)
<1>1. \A x \in P \cup {0} : x \in Nat /\ (x # 0 => x \in P)
  BY PastTypes
<1>2. \A x, y \in P \cup {0} :
         (\A j \in P : j <= x) /\ (\A j \in P : j <= y) => x = y
  <2> SUFFICES ASSUME NEW x \in P \cup {0}, NEW y \in P \cup {0},
                      \A j \in P : j <= x, \A j \in P : j <= y
               PROVE  x = y
    OBVIOUS
  <2>1. x <= y
    BY <1>1
  <2>2. y <= x
    BY <1>1
  <2> QED
    BY <1>1, <2>1, <2>2
<1>3. i \in P \cup {0} /\ \A j \in P : j <= i
  BY DEF IsLatest
<1> HIDE DEF P
<1>4. i = CHOOSE l \in P \cup {0} : \A j \in P : j <= l
  BY <1>2, <1>3
<1> QED
  BY <1>4 DEF P

-----------------------------------------------------------------------------
(* A commit.                                                               *)

(* The times that _commit_local and append compare.                        *)
LEMMA TimeTypes ==
    ASSUME TableOK(table)
    PROVE  \A i \in 0 .. Len(table) : Ts(i) \in Nat /\ (i # 0 => Ts(i) = table[i].ts)
<1>1. \A i \in 0 .. Len(table) : i # 0 => i \in DOMAIN table
  BY RowTypes
<1> QED
  BY <1>1, RowTypes DEF Ts

(* Among rows that are the last of their windows, newer is later.          *)
LEMMA TimeOrder ==
    ASSUME TableOK(table), NEW n, NEW k, NEW i \in PastIn(table, n, k) \cup {0},
           NEW j \in PastIn(table, n, k), i < j
    PROVE  Ts(i) <= Ts(j) /\ (Untied(table) /\ i # 0 => Ts(i) < Ts(j))
<1>1. j \in 0 .. Len(table) /\ j # 0 /\ j \in DOMAIN table /\ IsLast(table, j, n)
  BY PastTypes DEF PastIn
<1>2. Ts(j) \in Nat /\ Ts(j) = table[j].ts
  BY <1>1, TimeTypes
<1>3. CASE i = 0
  BY <1>2, <1>3 DEF Ts
<1>4. CASE i # 0
  <2>1. i \in DOMAIN table /\ IsLast(table, i, n) /\ i \in 0 .. Len(table)
    BY <1>4, PastTypes DEF PastIn
  <2>2. Ts(i) = table[i].ts
    BY <1>4, <2>1, TimeTypes
  <2>3. table[i].window < table[j].window /\ table[i].ts <= table[j].ts
    BY <1>1, <2>1, RowOrder
  <2>4. Untied(table) => table[i].ts < table[j].ts
    BY <1>1, <2>1, <2>3 DEF Untied
  <2> QED
    BY <1>2, <2>2, <2>3, <2>4
<1> QED
  BY <1>3, <1>4

(* _deduplicate_latest of one row.                                         *)
LEMMA LatestOne ==
    ASSUME NEW i, i \in Nat
    PROVE  Latest({i}) = i
BY DEF Latest

(* append: the slot of the least time, the first of several.               *)
LEMMA OldestIs ==
    ASSUME TableOK(table), NEW box \in [Slot -> 0 .. Len(table)]
    PROVE  /\ OldestSlot(box) \in Slot
           /\ \A s \in Slot : Ts(box[OldestSlot(box)]) <= Ts(box[s])
<1> DEFINE time == [s \in Slot |-> Ts(box[s])]
           T == {time[s] : s \in Slot}
<1>1. \A s \in Slot : time[s] \in Nat
  BY TimeTypes
<1>2. T \in SUBSET Nat /\ T # {}
  BY <1>1, SizeAssumption DEF Slot
<1>3. PICK x \in T : \A y \in T : x <= y
  BY <1>2, Least
<1> DEFINE U == {s \in Slot : time[s] = x}
<1>4. U \in SUBSET Nat /\ U # {}
  BY <1>3 DEF Slot
<1>5. PICK s \in U : \A u \in U : s <= u
  <2> HIDE DEF U
  <2> QED
    BY <1>4, Least
<1>6. \A u \in Slot : time[s] < time[u] \/ (time[s] = time[u] /\ s <= u)
  <2> SUFFICES ASSUME NEW u \in Slot
               PROVE  time[s] < time[u] \/ (time[s] = time[u] /\ s <= u)
    OBVIOUS
  <2>1. time[s] = x /\ x \in Nat /\ time[u] \in Nat /\ time[u] \in T
    BY <1>1, <1>3
  <2>2. x <= time[u]
    BY <1>3, <2>1
  <2>3. x = time[u] => s <= u
    BY <1>5
  <2> QED
    BY <2>1, <2>2, <2>3
<1>7. s \in Slot /\ \A u \in Slot : Ts(box[s]) < Ts(box[u]) \/ (Ts(box[s]) = Ts(box[u]) /\ s <= u)
  BY <1>6
<1>8. LET o == OldestSlot(box)
      IN  o \in Slot /\ \A u \in Slot : Ts(box[o]) < Ts(box[u]) \/ (Ts(box[o]) = Ts(box[u]) /\ o <= u)
  BY <1>7, Zenon DEF OldestSlot
<1>9. \A u \in Slot : Ts(box[u]) \in Nat
  BY TimeTypes
<1> QED
  BY <1>8, <1>9

(* append keeps the newest rows, if time tells them apart.                 *)
LEMMA MailAppended ==
    ASSUME TableOK(table), Untied(table), Positive(table), NEW n, NEW k \in Int,
           NEW i \in WritesIn(table, n, k + 1), NEW box \in [Slot -> 0 .. Len(table)],
           IsMail(box, PastIn(table, n, k))
    PROVE  IsMail([box EXCEPT ![OldestSlot(box)] = i], PastIn(table, n, k + 1))
<1> DEFINE P == PastIn(table, n, k)
           Q == PastIn(table, n, k + 1)
           o == OldestSlot(box)
           c == [box EXCEPT ![o] = i]
<1>1. Q = P \cup {i}
  BY PastGrows, WritesOne
<1>2. \A j \in P : j \in Nat /\ j >= 1 /\ j < i
  BY PastTypes, WritesNewer
<1>3. i \in Nat /\ i >= 1
  BY PastTypes
<1>4. o \in Slot /\ \A s \in Slot : Ts(box[o]) <= Ts(box[s])
  BY OldestIs
<1>5. \A s \in Slot : box[s] \in P \cup {0}
  BY DEF IsMail
<1>6. \A s, u \in Slot : box[s] = box[u] /\ s # u => box[s] = 0
  BY DEF IsMail
<1>7. \A j \in P : (\E s \in Slot : box[s] = j) \/ \A s \in Slot : box[s] > j
  BY DEF IsMail
<1>8. c[o] = i /\ \A s \in Slot : s # o => c[s] = box[s]
  BY <1>4
<1>9. ASSUME box[o] # 0, NEW s \in Slot, s # o
      PROVE  box[s] > box[o]
  <2>1. box[o] \in P /\ box[o] \in 0 .. Len(table) /\ box[s] \in 0 .. Len(table)
    BY <1>4, <1>5, <1>9
  <2>2. Ts(box[o]) > 0 /\ Ts(box[o]) \in Nat
    BY <2>1, <1>9, TimeTypes, PastTypes DEF Positive
  <2>3. Ts(box[o]) <= Ts(box[s]) /\ Ts(box[s]) \in Nat
    BY <1>4, <1>9, <2>1, TimeTypes
  <2>4. box[s] # 0
    BY <2>2, <2>3 DEF Ts
  <2>5. box[s] \in P /\ box[s] # box[o]
    BY <1>4, <1>5, <1>6, <1>9, <2>4
  <2>6. ~ (box[s] < box[o])
    BY <2>1, <2>2, <2>3, <2>4, <2>5, TimeOrder
  <2> QED
    BY <2>1, <2>5, <2>6
<1> HIDE DEF P, Q, o, c
<1>10. \A s \in Slot : c[s] \in Q \cup {0}
  BY <1>1, <1>5, <1>8
<1>11. ASSUME NEW s \in Slot, NEW u \in Slot, c[s] = c[u], s # u
       PROVE  c[s] = 0
  <2>1. \A v \in Slot : box[v] # i
    BY <1>2, <1>3, <1>5
  <2>2. s # o /\ u # o
    BY <1>8, <1>11, <2>1
  <2> QED
    BY <1>6, <1>8, <1>11, <2>2
<1>12. ASSUME NEW j \in Q
       PROVE  (\E s \in Slot : c[s] = j) \/ \A s \in Slot : c[s] > j
  <2>1. CASE j = i
    BY <1>4, <1>8, <2>1
  <2>2. CASE j \in P /\ \A s \in Slot : box[s] > j
    BY <1>2, <1>8, <2>2
  <2>3. ASSUME j \in P, NEW s \in Slot, box[s] = j, s # o
        PROVE  \E u \in Slot : c[u] = j
    BY <1>8, <2>3
  <2>4. ASSUME j \in P, box[o] = j
        PROVE  \A s \in Slot : c[s] > j
    <3>1. box[o] # 0
      BY <1>2, <2>4
    <3> QED
      BY <1>2, <1>8, <1>9, <2>4, <3>1
  <2> QED
    BY <1>1, <1>7, <2>1, <2>2, <2>3, <2>4
<1>13. IsMail(c, Q)
  BY <1>10, <1>11, <1>12 DEF IsMail
<1> QED
  BY <1>13 DEF c, Q, o

(* The rows that reach an owner from a window.                             *)
LEMMA WritesAre ==
    ASSUME NEW n \in Node, NEW k
    PROVE  Writes(n, k) = WritesIn(table, n, k)
BY DEF Writes, WritesIn, StateWriteMask, RowsOf, Endpoints, IsLast, Touches

(* _commit_local and append of the next window: one outcome, the group     *)
(* sequential processing would leave.                                      *)
LEMMA CommitIs ==
    ASSUME TableOK(table), NEW n \in Node, NEW k \in Int, NEW g, Stored(table, g, n, k)
    PROVE  \E h : /\ CommitLocal(g, Writes(n, k + 1)) = {h}
                  /\ Stored(table, h, n, k + 1)
<1> DEFINE P == PastIn(table, n, k)
           Q == PastIn(table, n, k + 1)
<1>1. /\ g \in GroupOf(table) /\ IsLatest(g.memory, P)
      /\ Untied(table) /\ Positive(table) => IsMail(g.mailbox, P)
  BY DEF Stored
<1>2. Writes(n, k + 1) = WritesIn(table, n, k + 1)
  BY WritesAre
<1>3. Q = P \cup WritesIn(table, n, k + 1)
  BY PastGrows
<1>4. /\ g.memory \in 0 .. Len(table) /\ g.mailbox \in [Slot -> 0 .. Len(table)]
      /\ g = [memory |-> g.memory, mailbox |-> g.mailbox]
  BY <1>1 DEF GroupOf
<1>5. CASE WritesIn(table, n, k + 1) = {}
  <2>1. StateCommits(g.memory, {}) = {g.memory}
    BY DEF StateCommits
  <2>2. AppendMail(g.mailbox, {}) = g.mailbox
    BY DEF AppendMail
  <2>3. CommitLocal(g, {}) = {g}
    BY <1>4, <2>1, <2>2 DEF CommitLocal
  <2>4. Q = P
    BY <1>3, <1>5
  <2> QED
    BY <1>1, <1>2, <1>5, <2>3, <2>4 DEF Stored
<1>6. ASSUME NEW i \in WritesIn(table, n, k + 1)
      PROVE  \E h : /\ CommitLocal(g, Writes(n, k + 1)) = {h}
                    /\ Stored(table, h, n, k + 1)
  <2> DEFINE box == [g.mailbox EXCEPT ![OldestSlot(g.mailbox)] = i]
             h == [memory |-> i, mailbox |-> box]
  <2>1. WritesIn(table, n, k + 1) = {i}
    BY WritesOne
  <2>2. i \in Nat /\ i >= 1 /\ i \in 0 .. Len(table) /\ i \in Q
    BY <1>3, PastTypes, RowTypes
  <2>3. g.memory \in P \cup {0} /\ \A j \in P : j < i
    BY <1>1, WritesNewer DEF IsLatest
  <2>4. g.memory < i
    <3> DEFINE m == g.memory
    <3>1. m \in P \cup {0} /\ (m \in P => m < i)
      BY <2>3
    <3> HIDE DEF P, m
    <3>2. m < i
      BY <2>2, <3>1
    <3> QED
      BY <3>2 DEF m
  <2>5. Ts(i) >= Ts(g.memory)
    <3>1. g.memory \in Q \cup {0}
      BY <1>3, <2>3
    <3> HIDE DEF P, Q
    <3>2. Ts(g.memory) <= Ts(i)
      BY <2>2, <2>4, <3>1, TimeOrder DEF Q
    <3> QED
      BY <1>4, <2>2, <3>2, TimeTypes
  <2>6. StateCommits(g.memory, {i}) = {i}
    BY <2>5 DEF StateCommits
  <2>7. AppendMail(g.mailbox, {i}) = box
    BY <2>2, LatestOne DEF AppendMail
  <2>8. CommitLocal(g, {i}) = {h}
    BY <2>6, <2>7 DEF CommitLocal
  <2>9. box \in [Slot -> 0 .. Len(table)]
    BY <1>4, <2>2
  <2>10. h \in GroupOf(table)
    BY <2>2, <2>9 DEF GroupOf
  <2>11. IsLatest(h.memory, Q)
    BY <1>3, <2>1, <2>2, <2>3 DEF IsLatest
  <2>12. Untied(table) /\ Positive(table) => IsMail(h.mailbox, Q)
    BY <1>1, <1>4, MailAppended
  <2> HIDE DEF h
  <2>13. Stored(table, h, n, k + 1)
    BY <2>10, <2>11, <2>12 DEF Stored
  <2> QED
    BY <1>2, <2>1, <2>8, <2>13
<1> QED
  BY <1>5, <1>6

-----------------------------------------------------------------------------
(* What is under way, in the order of its numbers.                         *)

(* The largest of the numbers up to m, if it is among them.                *)
LEMMA MaxIs ==
    ASSUME NEW m \in Nat, NEW S \in SUBSET (1 .. m), m \in S
    PROVE  Max(S) = m
<1>1. m \in S /\ \A y \in S : m >= y
  OBVIOUS
<1>2. \A x \in S : (\A y \in S : x >= y) => x = m
  OBVIOUS
<1>3. Max(S) = CHOOSE x \in S : \A y \in S : x >= y
  BY DEF Max
<1> QED
  BY <1>1, <1>2, <1>3

\* The outcomes of more and more windows of node n.
Outcome(n, k, groups) == UNION {CommitLocal(group, Writes(n, k)) : group \in groups}
OutcomeSteps(n, it, S) ==
    IF S = {} THEN {owned[n]} ELSE Outcome(n, Max(S), it[S \ {Max(S)}])

(* The fold has a value for every set of numbers up to m.                  *)
LEMMA OutcomesExist ==
    ASSUME NEW n, NEW m \in Nat
    PROVE  \E it : it = [S \in SUBSET (1 .. m) |-> OutcomeSteps(n, it, S)]
<1> DEFINE Good(l) == \E it : it = [S \in SUBSET (1 .. l) |-> OutcomeSteps(n, it, S)]
           Bad == {l \in Nat : ~Good(l)}
<1>1. Good(0)
  <2> DEFINE it == [S \in SUBSET (1 .. 0) |-> {owned[n]}]
  <2>1. \A S \in SUBSET (1 .. 0) : S = {}
    OBVIOUS
  <2>2. it = [S \in SUBSET (1 .. 0) |-> OutcomeSteps(n, it, S)]
    BY <2>1 DEF OutcomeSteps
  <2> QED
    BY <2>2
<1>2. ASSUME NEW l \in Nat, Good(l) PROVE Good(l + 1)
  <2>1. PICK it : it = [S \in SUBSET (1 .. l) |-> OutcomeSteps(n, it, S)]
    BY <1>2
  <2> DEFINE jt == [S \in SUBSET (1 .. l + 1) |->
                      IF l + 1 \in S THEN Outcome(n, l + 1, it[S \ {l + 1}]) ELSE it[S]]
  <2>2. ASSUME NEW S \in SUBSET (1 .. l + 1) PROVE jt[S] = OutcomeSteps(n, jt, S)
    <3>1. CASE l + 1 \in S
      <4>1. Max(S) = l + 1 /\ S # {}
        BY <3>1, MaxIs
      <4>2. S \ {l + 1} \in SUBSET (1 .. l + 1) /\ l + 1 \notin S \ {l + 1}
        OBVIOUS
      <4>3. jt[S \ {l + 1}] = it[S \ {l + 1}]
        BY <4>2
      <4>4. jt[S] = Outcome(n, l + 1, it[S \ {l + 1}])
        BY <3>1
      <4> QED
        BY <4>1, <4>3, <4>4 DEF OutcomeSteps
    <3>2. CASE l + 1 \notin S
      <4>1. S \in SUBSET (1 .. l)
        BY <3>2
      <4>2. jt[S] = it[S] /\ it[S] = OutcomeSteps(n, it, S)
        BY <2>1, <3>2, <4>1
      <4>3. OutcomeSteps(n, it, S) = OutcomeSteps(n, jt, S)
        <5>1. CASE S = {}
          BY <5>1 DEF OutcomeSteps
        <5>2. CASE S # {}
          <6>1. S \ {Max(S)} \in SUBSET (1 .. l + 1) /\ l + 1 \notin S \ {Max(S)}
            BY <3>2
          <6>2. jt[S \ {Max(S)}] = it[S \ {Max(S)}]
            BY <6>1
          <6> QED
            BY <5>2, <6>2 DEF OutcomeSteps
        <5> QED
          BY <5>1, <5>2
      <4> QED
        BY <4>2, <4>3
    <3> QED
      BY <3>1, <3>2
  <2>3. jt = [S \in SUBSET (1 .. l + 1) |-> OutcomeSteps(n, jt, S)]
    BY <2>2
  <2> HIDE DEF jt
  <2> QED
    BY <2>3
<1> HIDE DEF Good
<1>3. ASSUME Bad = {} PROVE Good(m)
  BY <1>3
<1>4. ASSUME Bad # {} PROVE Good(m)
  <2>1. PICK x \in Bad : \A y \in Bad : x <= y
    BY <1>4, Least
  <2>2. x \in Nat /\ x # 0 /\ ~Good(x)
    BY <1>1, <2>1
  <2>3. x - 1 \in Nat /\ x - 1 \notin Bad
    BY <2>1, <2>2
  <2>4. Good(x - 1)
    BY <2>3
  <2>5. Good((x - 1) + 1)
    BY <1>2, <2>3, <2>4
  <2> QED
    BY <2>2, <2>5
<1>5. Good(m)
  BY <1>3, <1>4
<1> QED
  BY <1>5 DEF Good

(* handle_owner_async: the windows after w up to l, one after the other,   *)
(* have one outcome.                                                       *)
LEMMA OutcomesAre ==
    ASSUME TableOK(table), NEW n \in Node, NEW w \in Nat, NEW m \in Nat, w <= m,
           Stored(table, owned[n], n, w)
    PROVE  \E h : Outcomes(n, (w + 1) .. m) = {h} /\ Stored(table, h, n, m)
<1> DEFINE it == CHOOSE it : it = [S \in SUBSET (w + 1 .. m) |-> OutcomeSteps(n, it, S)]
           Good(l) == \E h : it[w + 1 .. l] = {h} /\ Stored(table, h, n, l)
           Bad == {l \in Nat : w + l <= m /\ ~Good(w + l)}
<1>1. it = [S \in SUBSET (w + 1 .. m) |-> OutcomeSteps(n, it, S)]
  <2>1. PICK jt : jt = [S \in SUBSET (1 .. m) |-> OutcomeSteps(n, jt, S)]
    BY OutcomesExist
  <2> DEFINE kt == [S \in SUBSET (w + 1 .. m) |-> jt[S]]
  <2>2. ASSUME NEW S \in SUBSET (w + 1 .. m) PROVE kt[S] = OutcomeSteps(n, kt, S)
    <3>1. S \in SUBSET (1 .. m)
      OBVIOUS
    <3>2. kt[S] = jt[S] /\ jt[S] = OutcomeSteps(n, jt, S)
      BY <2>1, <3>1
    <3>3. S \ {Max(S)} \in SUBSET (w + 1 .. m)
      OBVIOUS
    <3>4. kt[S \ {Max(S)}] = jt[S \ {Max(S)}]
      BY <3>3
    <3> QED
      BY <3>2, <3>4 DEF OutcomeSteps
  <2>3. kt = [S \in SUBSET (w + 1 .. m) |-> OutcomeSteps(n, kt, S)]
    BY <2>2
  <2> HIDE DEF kt
  <2> QED
    BY <2>3
<1>2. Outcomes(n, w + 1 .. m) = it[w + 1 .. m]
  BY Zenon DEF Outcomes, InOrder, MapThenFoldSet, OutcomeSteps, Outcome
<1> HIDE DEF it
<1>3. Good(w)
  <2>1. w + 1 .. w = {}
    OBVIOUS
  <2>2. it[{}] = {owned[n]}
    BY <1>1 DEF OutcomeSteps
  <2> QED
    BY <2>1, <2>2
<1>4. ASSUME NEW l \in Nat, w <= l, l + 1 <= m, Good(l) PROVE Good(l + 1)
  <2>1. PICK h : it[w + 1 .. l] = {h} /\ Stored(table, h, n, l)
    BY <1>4
  <2>2. w + 1 .. l + 1 \in SUBSET (w + 1 .. m) /\ l + 1 \in w + 1 .. l + 1
    BY <1>4
  <2>3. Max(w + 1 .. l + 1) = l + 1
    BY <1>4, MaxIs
  <2>4. (w + 1 .. l + 1) \ {l + 1} = w + 1 .. l
    BY <1>4
  <2>5. it[w + 1 .. l + 1] = Outcome(n, l + 1, {h})
    BY <1>1, <2>1, <2>2, <2>3, <2>4 DEF OutcomeSteps
  <2>6. Outcome(n, l + 1, {h}) = CommitLocal(h, Writes(n, l + 1))
    BY DEF Outcome
  <2> QED
    BY <2>1, <2>5, <2>6, CommitIs
<1> HIDE DEF Good
<1>5. CASE Bad = {}
  <2>1. m - w \in Nat /\ w + (m - w) = m
    OBVIOUS
  <2>2. m - w \notin Bad
    BY <1>5
  <2>3. w + (m - w) <= m
    OBVIOUS
  <2>4. Good(w + (m - w))
    BY <2>1, <2>2, <2>3
  <2>5. Good(m)
    BY <2>1, <2>4, Zenon
  <2> QED
    BY <1>2, <2>5 DEF Good
<1>6. CASE Bad # {}
  <2>1. PICK x \in Bad : \A y \in Bad : x <= y
    BY <1>6, Least
  <2>2. x \in Nat /\ x # 0 /\ w + x <= m /\ ~Good(w + x)
    BY <1>3, <2>1
  <2>3. x - 1 \in Nat /\ x - 1 \notin Bad /\ w + (x - 1) <= m
    BY <2>1, <2>2
  <2>4. Good(w + (x - 1))
    BY <2>3
  <2>5. w + (x - 1) \in Nat /\ w <= w + (x - 1) /\ (w + (x - 1)) + 1 = w + x
    BY <2>2, <2>3
  <2>6. Good((w + (x - 1)) + 1)
    BY <1>4, <2>2, <2>4, <2>5
  <2> QED
    BY <2>2, <2>5, <2>6
<1> QED
  BY <1>5, <1>6

-----------------------------------------------------------------------------
(* The gathers of a replica.                                               *)

(* A row offered for a hot node is the last of a window that touches it.   *)
InWindow(j) ==
    \E k \in 1 .. Windows :
       \A n \in Hot : RowsOfGather(offer, n, j) \subseteq WritesIn(table, n, k)

LEMMA RowsPast ==
    ASSUME TableOK(table), NEW n \in Hot, NEW js, \A j \in js : InWindow(j)
    PROVE  RowsOfGathers(offer, n, js) \subseteq PastIn(table, n, Windows)
<1> SUFFICES ASSUME NEW j \in js, NEW i \in RowsOfGather(offer, n, j)
             PROVE  i \in PastIn(table, n, Windows)
  BY DEF RowsOfGathers
<1>1. PICK k \in 1 .. Windows :
         \A m \in Hot : RowsOfGather(offer, m, j) \subseteq WritesIn(table, m, k)
  BY DEF InWindow
<1>2. k \in Int /\ Windows \in Int /\ k <= Windows
  BY SizeAssumption
<1>3. i \in WritesIn(table, n, k)
  BY <1>1
<1> QED
  BY <1>2, <1>3, PastMonotone

LEMMA RowsOfOneMore ==
    ASSUME NEW o, NEW n, NEW js, NEW j
    PROVE  RowsOfGathers(o, n, js \cup {j}) = RowsOfGathers(o, n, js) \cup RowsOfGather(o, n, j)
BY DEF RowsOfGathers

(* finish_shared_sync of one gather: the replica keeps its row or takes    *)
(* the one gathered, whichever is the later.                               *)
LEMMA SyncKeeps ==
    ASSUME TableOK(table), NEW js, NEW j, InWindow(j), \A i \in js : InWindow(i),
           NEW replica, \A n \in Hot : Refreshed(table, offer, replica[n], n, js)
    PROVE  \A n \in Hot : Refreshed(table, offer, FinishSync(j, replica)[n], n, js \cup {j})
<1> SUFFICES ASSUME NEW n \in Hot
             PROVE  Refreshed(table, offer, FinishSync(j, replica)[n], n, js \cup {j})
  OBVIOUS
<1> DEFINE g == replica[n]
           rows == RowsOfGather(offer, n, j)
           R == RowsOfGathers(offer, n, js)
           P == PastIn(table, n, Windows)
<1>1. /\ g \in GroupOf(table) /\ g.memory \in R \cup {0}
      /\ Untied(table) => \A i \in R : i <= g.memory
  BY DEF Refreshed
<1>2. RowsOfGathers(offer, n, js \cup {j}) = R \cup rows
  BY RowsOfOneMore
<1>3. R \subseteq P
  BY RowsPast
<1>4. /\ g.memory \in 0 .. Len(table) /\ g.mailbox \in [Slot -> 0 .. Len(table)]
      /\ g = [memory |-> g.memory, mailbox |-> g.mailbox]
  BY <1>1 DEF GroupOf
<1>5. PICK k \in 1 .. Windows : rows \subseteq WritesIn(table, n, k)
  BY DEF InWindow
<1>6. k \in Int /\ Windows \in Int /\ k <= Windows
  BY SizeAssumption
<1>7. rows \subseteq P /\ \A i \in rows, l \in rows : i = l
  BY <1>5, <1>6, PastMonotone, WritesOne
<1>8. FinishSync(j, replica)[n] =
         CHOOSE h \in CommitLocal(g, IF rows = {} THEN {} ELSE {Latest(rows)}) : TRUE
  BY DEF FinishSync, RowsOfGather
<1>9. CASE rows = {}
  <2>1. StateCommits(g.memory, {}) = {g.memory}
    BY DEF StateCommits
  <2>2. AppendMail(g.mailbox, {}) = g.mailbox
    BY DEF AppendMail
  <2>3. CommitLocal(g, {}) = {g}
    BY <1>4, <2>1, <2>2 DEF CommitLocal
  <2> HIDE DEF g, rows
  <2>4. FinishSync(j, replica)[n] = g
    BY <1>8, <1>9, <2>3
  <2>5. R \cup rows = R
    BY <1>9
  <2>6. RowsOfGathers(offer, n, js \cup {j}) = R
    BY <1>2, <2>5
  <2> QED
    BY <1>1, <2>4, <2>6 DEF Refreshed
<1>10. ASSUME NEW i \in rows
       PROVE  Refreshed(table, offer, FinishSync(j, replica)[n], n, js \cup {j})
  <2> DEFINE m == IF Ts(i) >= Ts(g.memory) THEN i ELSE g.memory
             h == [memory |-> m, mailbox |-> [g.mailbox EXCEPT ![OldestSlot(g.mailbox)] = i]]
  <2>1. rows = {i} /\ i \in P /\ i \in Nat /\ i >= 1 /\ i \in 0 .. Len(table)
    BY <1>7, PastTypes, RowTypes
  <2>2. StateCommits(g.memory, {i}) = {m}
    BY DEF StateCommits
  <2>3. AppendMail(g.mailbox, {i}) = h.mailbox
    BY <2>1, LatestOne DEF AppendMail
  <2>4. CommitLocal(g, {i}) = {h}
    BY <2>2, <2>3 DEF CommitLocal
  <2>5. (IF rows = {} THEN {} ELSE {Latest(rows)}) = {i}
    BY <2>1, LatestOne
  <2>6. FinishSync(j, replica)[n] = h
    BY <1>8, <2>4, <2>5
  <2>7. h \in GroupOf(table)
    BY <1>4, <2>1 DEF GroupOf
  <2>8. m \in (R \cup rows) \cup {0}
    BY <1>1
  <2>9. ASSUME Untied(table) PROVE i <= m /\ g.memory <= m
    <3>1. g.memory \in P \cup {0} /\ Ts(i) \in Nat /\ Ts(g.memory) \in Nat
      BY <1>1, <1>3, <1>4, <2>1, TimeTypes
    <3>2. i < g.memory => Ts(i) < Ts(g.memory)
      BY <2>1, <2>9, <3>1, TimeOrder
    <3>3. g.memory < i => Ts(g.memory) <= Ts(i)
      BY <2>1, <3>1, TimeOrder
    <3> DEFINE x == g.memory
               a == Ts(i)
               b == Ts(x)
    <3>4. x \in Nat /\ a \in Nat /\ b \in Nat
      BY <1>4, <3>1
    <3>5. (i < x => a < b) /\ (x < i => b <= a) /\ m = IF a >= b THEN i ELSE x
      BY <3>2, <3>3
    <3> HIDE DEF x, a, b, m
    <3>6. i <= m /\ x <= m
      BY <2>1, <3>4, <3>5
    <3> QED
      BY <3>6 DEF x
  <2>10. ASSUME Untied(table), NEW l \in R \cup rows PROVE l <= m
    <3>1. CASE l \in rows
      BY <2>1, <2>9, <2>10, <3>1
    <3>2. CASE l \in R
      <4>1. l \in Nat /\ l <= g.memory /\ g.memory <= m
        BY <1>1, <1>3, <2>9, <2>10, <3>2, PastTypes
      <4>2. g.memory \in Nat /\ m \in Nat
        BY <1>4, <2>1
      <4> QED
        BY <4>1, <4>2
    <3> QED
      BY <2>10, <3>1, <3>2
  <2> HIDE DEF m, g, rows, R
  <2>11. h.memory = m
    OBVIOUS
  <2> HIDE DEF h
  <2> QED
    BY <1>2, <2>6, <2>7, <2>8, <2>10, <2>11 DEF Refreshed
<1> QED
  BY <1>9, <1>10

SyncSteps(replica, it, S) ==
    IF S = {} THEN replica ELSE FinishSync(Max(S), it[S \ {Max(S)}])

(* The fold has a value for every set of numbers up to m.                  *)
LEMMA SyncsExist ==
    ASSUME NEW replica, NEW m \in Nat
    PROVE  \E it : it = [S \in SUBSET (1 .. m) |-> SyncSteps(replica, it, S)]
<1> DEFINE Good(l) == \E it : it = [S \in SUBSET (1 .. l) |-> SyncSteps(replica, it, S)]
           Bad == {l \in Nat : ~Good(l)}
<1>1. Good(0)
  <2> DEFINE it == [S \in SUBSET (1 .. 0) |-> replica]
  <2>1. \A S \in SUBSET (1 .. 0) : S = {}
    OBVIOUS
  <2>2. it = [S \in SUBSET (1 .. 0) |-> SyncSteps(replica, it, S)]
    BY <2>1 DEF SyncSteps
  <2> QED
    BY <2>2
<1>2. ASSUME NEW l \in Nat, Good(l) PROVE Good(l + 1)
  <2>1. PICK it : it = [S \in SUBSET (1 .. l) |-> SyncSteps(replica, it, S)]
    BY <1>2
  <2> DEFINE jt == [S \in SUBSET (1 .. l + 1) |->
                      IF l + 1 \in S THEN FinishSync(l + 1, it[S \ {l + 1}]) ELSE it[S]]
  <2>2. ASSUME NEW S \in SUBSET (1 .. l + 1) PROVE jt[S] = SyncSteps(replica, jt, S)
    <3>1. CASE l + 1 \in S
      <4>1. Max(S) = l + 1 /\ S # {}
        BY <3>1, MaxIs
      <4>2. S \ {l + 1} \in SUBSET (1 .. l + 1) /\ l + 1 \notin S \ {l + 1}
        OBVIOUS
      <4>3. jt[S \ {l + 1}] = it[S \ {l + 1}]
        BY <4>2
      <4>4. jt[S] = FinishSync(l + 1, it[S \ {l + 1}])
        BY <3>1
      <4> QED
        BY <4>1, <4>3, <4>4 DEF SyncSteps
    <3>2. CASE l + 1 \notin S
      <4>1. S \in SUBSET (1 .. l)
        BY <3>2
      <4>2. jt[S] = it[S] /\ it[S] = SyncSteps(replica, it, S)
        BY <2>1, <3>2, <4>1
      <4>3. SyncSteps(replica, it, S) = SyncSteps(replica, jt, S)
        <5>1. CASE S = {}
          BY <5>1 DEF SyncSteps
        <5>2. CASE S # {}
          <6>1. S \ {Max(S)} \in SUBSET (1 .. l + 1) /\ l + 1 \notin S \ {Max(S)}
            BY <3>2
          <6>2. jt[S \ {Max(S)}] = it[S \ {Max(S)}]
            BY <6>1
          <6> QED
            BY <5>2, <6>2 DEF SyncSteps
        <5> QED
          BY <5>1, <5>2
      <4> QED
        BY <4>2, <4>3
    <3> QED
      BY <3>1, <3>2
  <2>3. jt = [S \in SUBSET (1 .. l + 1) |-> SyncSteps(replica, jt, S)]
    BY <2>2
  <2> HIDE DEF jt
  <2> QED
    BY <2>3
<1> HIDE DEF Good
<1>3. ASSUME Bad = {} PROVE Good(m)
  BY <1>3
<1>4. ASSUME Bad # {} PROVE Good(m)
  <2>1. PICK x \in Bad : \A y \in Bad : x <= y
    BY <1>4, Least
  <2>2. x \in Nat /\ x # 0 /\ ~Good(x)
    BY <1>1, <2>1
  <2>3. x - 1 \in Nat /\ x - 1 \notin Bad
    BY <2>1, <2>2
  <2>4. Good(x - 1)
    BY <2>3
  <2>5. Good((x - 1) + 1)
    BY <1>2, <2>3, <2>4
  <2> QED
    BY <2>2, <2>5
<1>5. Good(m)
  BY <1>3, <1>4
<1> QED
  BY <1>5 DEF Good

(* finish_shared_ready and finish_shared_async of any of the gathers.      *)
LEMMA SyncsKeep ==
    ASSUME TableOK(table), NEW m \in Nat, NEW js, \A j \in js : InWindow(j),
           NEW chosen \in SUBSET (1 .. m), \A j \in chosen : InWindow(j),
           NEW replica, replica = [n \in Hot |-> replica[n]],
           \A n \in Hot : Refreshed(table, offer, replica[n], n, js)
    PROVE  LET after == InOrder(FinishSync, replica, chosen)
           IN  /\ after = [n \in Hot |-> after[n]]
               /\ \A n \in Hot : Refreshed(table, offer, after[n], n, js \cup chosen)
<1> DEFINE it == CHOOSE it : it = [S \in SUBSET chosen |-> SyncSteps(replica, it, S)]
           Fine(S) == /\ it[S] = [n \in Hot |-> it[S][n]]
                      /\ \A n \in Hot : Refreshed(table, offer, it[S][n], n, js \cup S)
           Good(l) == \A S \in SUBSET chosen : S \subseteq 1 .. l => Fine(S)
           Bad == {l \in Nat : ~Good(l)}
<1>1. it = [S \in SUBSET chosen |-> SyncSteps(replica, it, S)]
  <2>1. PICK jt : jt = [S \in SUBSET (1 .. m) |-> SyncSteps(replica, jt, S)]
    BY SyncsExist
  <2> DEFINE kt == [S \in SUBSET chosen |-> jt[S]]
  <2>2. ASSUME NEW S \in SUBSET chosen PROVE kt[S] = SyncSteps(replica, kt, S)
    <3>1. S \in SUBSET (1 .. m)
      OBVIOUS
    <3>2. kt[S] = jt[S] /\ jt[S] = SyncSteps(replica, jt, S)
      BY <2>1, <3>1
    <3>3. S \ {Max(S)} \in SUBSET chosen
      OBVIOUS
    <3>4. kt[S \ {Max(S)}] = jt[S \ {Max(S)}]
      BY <3>3
    <3> QED
      BY <3>2, <3>4 DEF SyncSteps
  <2>3. kt = [S \in SUBSET chosen |-> SyncSteps(replica, kt, S)]
    BY <2>2
  <2> HIDE DEF kt
  <2> QED
    BY <2>3
<1>2. InOrder(FinishSync, replica, chosen) = it[chosen]
  BY Zenon DEF InOrder, MapThenFoldSet, SyncSteps
<1> HIDE DEF it
<1>3. it[{}] = replica
  BY <1>1 DEF SyncSteps
<1>4. Fine({})
  <2>1. js \cup {} = js
    OBVIOUS
  <2> QED
    BY <1>3, <2>1
<1>5. ASSUME NEW l \in Nat, Good(l) PROVE Good(l + 1)
  <2> SUFFICES ASSUME NEW S \in SUBSET chosen, S \subseteq 1 .. l + 1
               PROVE  Fine(S)
    OBVIOUS
  <2>1. CASE l + 1 \notin S
    <3>1. S \subseteq 1 .. l
      BY <2>1
    <3> QED
      BY <1>5, <3>1
  <2>2. CASE l + 1 \in S
    <3> DEFINE T == S \ {l + 1}
               u == js \cup T
    <3>1. T \in SUBSET chosen /\ T \subseteq 1 .. l /\ S = T \cup {l + 1}
      BY <2>2
    <3>2. Max(S) = l + 1
      BY <2>2, MaxIs
    <3>3. it[S] = FinishSync(l + 1, it[T])
      BY <1>1, <2>2, <3>2 DEF SyncSteps
    <3>4. Fine(T)
      BY <1>5, <3>1
    <3>5. InWindow(l + 1) /\ \A j \in u : InWindow(j)
      BY <2>2, <3>1
    <3>6. it[S] = [n \in Hot |-> it[S][n]]
      BY <3>3 DEF FinishSync
    <3>7. js \cup S = u \cup {l + 1}
      BY <3>1
    <3>8. \A n \in Hot : Refreshed(table, offer, it[T][n], n, u)
      BY <3>4
    <3> HIDE DEF u, T
    <3>9. \A n \in Hot : Refreshed(table, offer, FinishSync(l + 1, it[T])[n], n, u \cup {l + 1})
      BY <3>5, <3>8, SyncKeeps
    <3> QED
      BY <3>3, <3>6, <3>7, <3>9
  <2> QED
    BY <2>1, <2>2
<1>6. Good(0)
  <2>1. \A S \in SUBSET chosen : S \subseteq 1 .. 0 => S = {}
    OBVIOUS
  <2> HIDE DEF Fine
  <2> QED
    BY <1>4, <2>1
<1> HIDE DEF Good
<1>7. ASSUME Bad = {} PROVE Good(m)
  BY <1>7
<1>8. ASSUME Bad # {} PROVE Good(m)
  <2>1. PICK x \in Bad : \A y \in Bad : x <= y
    BY <1>8, Least
  <2>2. x \in Nat /\ x # 0 /\ ~Good(x)
    BY <1>6, <2>1
  <2>3. x - 1 \in Nat /\ x - 1 \notin Bad
    BY <2>1, <2>2
  <2>4. Good(x - 1)
    BY <2>3
  <2>5. Good((x - 1) + 1)
    BY <1>5, <2>3, <2>4
  <2> QED
    BY <2>2, <2>5
<1>9. Fine(chosen)
  BY <1>7, <1>8 DEF Good
<1> QED
  BY <1>2, <1>9

-----------------------------------------------------------------------------
(* What the properties say of a group, in the terms of the invariant.      *)

LEMMA PastIs ==
    ASSUME NEW n \in Node, NEW k
    PROVE  Past(n, k) = PastIn(table, n, k)
BY DEF Past, PastIn, RowsOf, Endpoints, IsLast, Touches

LEMMA LastWriteIs ==
    ASSUME TableOK(table), NEW n \in Node, NEW k, NEW i,
           IsLatest(i, PastIn(table, n, k))
    PROVE  LastWrite(n, k) = i
BY LatestIs, PastIs DEF LastWrite

(* A row of the past is what its own window left.                          *)
LEMMA PastWritten ==
    ASSUME TableOK(table), NEW n \in Node, NEW k \in Int, NEW i \in PastIn(table, n, k) \cup {0}
    PROVE  \E l \in 0 .. (IF k > 0 THEN k ELSE 0) : i = LastWrite(n, l)
<1>1. CASE i = 0
  <2>1. IsLatest(0, PastIn(table, n, 0))
    BY PastNone DEF IsLatest
  <2>2. LastWrite(n, 0) = 0
    BY <2>1, LastWriteIs
  <2> QED
    BY <1>1, <2>2
<1>2. CASE i # 0
  <2> DEFINE l == table[i].window
  <2>1. i \in DOMAIN table /\ l <= k /\ IsLast(table, i, n)
    BY <1>2 DEF PastIn
  <2>2. l \in 1 .. Windows /\ l \in Nat /\ l >= 1 /\ i \in Nat /\ i >= 1
    BY <2>1, RowTypes
  <2>3. i \in PastIn(table, n, l)
    BY <2>1, <2>2 DEF PastIn
  <2>4. ASSUME NEW j \in PastIn(table, n, l) PROVE j <= i
    <3>1. j \in DOMAIN table /\ IsLast(table, j, n) /\ table[j].window <= l
      BY DEF PastIn
    <3>2. j \in Nat /\ table[j].window \in Nat
      BY <3>1, RowTypes
    <3>3. i < j => l < table[j].window
      BY <2>1, <3>1, RowOrder
    <3> HIDE DEF l
    <3> QED
      BY <2>2, <3>1, <3>2, <3>3
  <2>5. IsLatest(i, PastIn(table, n, l))
    BY <2>3, <2>4 DEF IsLatest
  <2>6. i = LastWrite(n, l)
    BY <2>5, LastWriteIs
  <2> HIDE DEF l
  <2>7. l \in 0 .. (IF k > 0 THEN k ELSE 0)
    BY <2>1, <2>2
  <2> QED
    BY <2>6, <2>7
<1> QED
  BY <1>1, <1>2

(* The slots hold the newest rows, all of them and no others.              *)
LEMMA MailIs ==
    ASSUME TableOK(table), NEW n \in Node, NEW k, NEW box,
           IsMail(box, PastIn(table, n, k))
    PROVE  {box[s] : s \in Slot} = Newest(n, k)
<1> DEFINE P == PastIn(table, n, k)
           D(i) == {j \in P : j > i}
<1>1. /\ \A s \in Slot : box[s] \in P \cup {0}
      /\ \A s, u \in Slot : box[s] = box[u] /\ s # u => box[s] = 0
      /\ \A i \in P : (\E s \in Slot : box[s] = i) \/ \A s \in Slot : box[s] > i
  BY DEF IsMail
<1>2. \A i \in P \cup {0} : i \in Nat /\ (i \in P => i >= 1)
  BY PastTypes
<1>3. IsFiniteSet(P) /\ Cardinality(P) \in Nat
  <2>1. P \in SUBSET (1 .. Len(table)) /\ Len(table) \in Int
    BY PastTypes, RowTypes
  <2>2. IsFiniteSet(1 .. Len(table))
    BY <2>1, FS_Interval
  <2> QED
    BY <2>1, <2>2, FS_Subset, FS_CardinalityType
<1>4. ASSUME NEW i PROVE IsFiniteSet(D(i)) /\ Cardinality(D(i)) \in Nat
  BY <1>3, FS_Subset, FS_CardinalityType
<1>5. IsFiniteSet(Slot) /\ Cardinality(Slot) = Slots /\ Slots \in Nat /\ Slots >= 1
  BY SizeAssumption, FS_Interval DEF Slot
<1>6. ASSUME NEW s \in Slot PROVE IsFiniteSet(Slot \ {s}) /\ Cardinality(Slot \ {s}) = Slots - 1
  BY <1>5, FS_RemoveElement
<1>7. D(0) = P
  BY <1>2
<1>8. Newest(n, k) = {i \in P \cup {0} : Cardinality(D(i)) < Slots}
  <2>1. 0 \notin P
    BY <1>2
  <2>2. Newest(n, k) = {i \in P : Cardinality(D(i)) < Slots}
                         \cup (IF Cardinality(P) < Slots THEN {0} ELSE {})
    BY PastIs DEF Newest
  <2> HIDE DEF D, P
  <2> QED
    BY <1>7, <2>1, <2>2
<1> HIDE DEF P
<1>9. ASSUME NEW s \in Slot PROVE Cardinality(D(box[s])) < Slots
  <2> DEFINE i == box[s]
             f == [j \in D(i) |-> CHOOSE u \in Slot : box[u] = j]
  <2>1. ASSUME NEW j \in D(i) PROVE f[j] \in Slot /\ box[f[j]] = j /\ f[j] # s
    <3>1. j \in P /\ j > i /\ i \in Nat /\ j \in Nat
      BY <1>1, <1>2
    <3>2. \E u \in Slot : box[u] = j
      BY <1>1, <3>1
    <3>3. f[j] \in Slot /\ box[f[j]] = j
      BY <3>2
    <3> QED
      BY <3>1, <3>3
  <2>2. f \in Injection(D(i), Slot \ {s})
    <3>1. f \in [D(i) -> Slot \ {s}]
      BY <2>1
    <3>2. \A j, l \in D(i) : f[j] = f[l] => j = l
      BY <2>1
    <3> HIDE DEF f
    <3> QED
      BY <3>1, <3>2 DEF Injection, IsInjective
  <2>3. Cardinality(D(i)) <= Slots - 1
    BY <1>6, <2>2, FS_Injection
  <2> HIDE DEF D, i
  <2>4. Cardinality(D(i)) < Slots
    BY <1>4, <1>5, <2>3
  <2> QED
    BY <2>4 DEF i
<1>10. ASSUME NEW i \in P \cup {0}, Cardinality(D(i)) < Slots
       PROVE  \E s \in Slot : box[s] = i
  <2> SUFFICES ASSUME \A s \in Slot : box[s] # i PROVE FALSE
    OBVIOUS
  <2> DEFINE f == [s \in Slot |-> box[s]]
  <2>1. ASSUME NEW s \in Slot PROVE box[s] \in P /\ box[s] > i
    <3>1. CASE i \in P
      <4>1. box[s] > i /\ i \in Nat /\ box[s] \in P \cup {0}
        BY <1>1, <1>2, <3>1
      <4>2. box[s] # 0
        BY <4>1
      <4> QED
        BY <4>1, <4>2
    <3>2. CASE i = 0
      <4>1. box[s] \in P
        BY <1>1, <3>2
      <4>2. box[s] >= 1 /\ box[s] \in Nat
        BY <1>2, <4>1
      <4>3. box[s] > 0
        BY <4>2
      <4> QED
        BY <3>2, <4>1, <4>3
    <3> QED
      BY <3>1, <3>2
  <2>2. f \in [Slot -> D(i)]
    BY <2>1
  <2>3. \A s, u \in Slot : f[s] = f[u] => s = u
    <3>1. \A s \in Slot : box[s] # 0
      BY <1>2, <2>1
    <3> QED
      BY <1>1, <3>1
  <2>4. f \in Injection(Slot, D(i))
    BY <2>2, <2>3 DEF Injection, IsInjective
  <2>5. Slots <= Cardinality(D(i))
    BY <1>4, <1>5, <2>4, FS_Injection
  <2> HIDE DEF D
  <2> QED
    BY <1>4, <1>5, <1>10, <2>5
<1> HIDE DEF D
<1>11. \A s \in Slot : box[s] \in P \cup {0} /\ Cardinality(D(box[s])) < Slots
  BY <1>1, <1>9
<1> QED
  BY <1>8, <1>10, <1>11

-----------------------------------------------------------------------------
(* The ranks.                                                              *)

(* What the types say of one rank.                                         *)
LEMMA RankTypes ==
    ASSUME Types, NEW r \in Rank
    PROVE  /\ pc[r] \in {"request", "respond", "train", "commit", "push",
                         "gather", "end", "reset", "done"}
           /\ epoch[r] \in 1 .. Epochs + 1 /\ epoch[r] \in Nat
           /\ epoch[r] >= 1 /\ epoch[r] <= Epochs + 1
           /\ requested[r] \in 0 .. Windows /\ requested[r] \in Nat
           /\ batch[r] \in 0 .. Windows /\ batch[r] \in Nat
           /\ Windows \in Nat /\ Windows >= 1 /\ Epochs \in Nat /\ Epochs >= 1
           /\ entered[r] \in Nat /\ requested[r] <= Windows /\ batch[r] <= Windows
           /\ bounded \in BOOLEAN
           /\ offer[r] \in Seq(SUBSET [node : Hot, row : 1 .. Len(table)])
           /\ Len(offer[r]) \in Nat
           /\ view[r] \in Seq([{m \in Node : ~FromOther(r, m)} -> GroupOf(table)])
           /\ shared[r] \in [Hot -> Group]
<1>1. /\ pc \in [Rank -> {"request", "respond", "train", "commit", "push",
                          "gather", "end", "reset", "done"}]
      /\ epoch \in [Rank -> 1 .. Epochs + 1] /\ requested \in [Rank -> 0 .. Windows]
      /\ batch \in [Rank -> 0 .. Windows] /\ entered \in [Rank -> Nat]
      /\ shared \in [Rank -> [Hot -> Group]]
      /\ [table |-> table, bounded |-> bounded] \in Runs
  BY DEF Types, TypeOK
<1>2. Windows \in Nat /\ Windows >= 1 /\ Epochs \in Nat /\ Epochs >= 1
  BY SizeAssumption
<1>3. bounded \in BOOLEAN
  BY <1>1, RunsAssumption
<1>4. /\ epoch[r] \in 1 .. Epochs + 1 /\ requested[r] \in 0 .. Windows
      /\ batch[r] \in 0 .. Windows /\ entered[r] \in Nat
      /\ pc[r] \in {"request", "respond", "train", "commit", "push",
                    "gather", "end", "reset", "done"}
      /\ shared[r] \in [Hot -> Group]
  BY <1>1
<1>5. /\ epoch[r] \in Nat /\ requested[r] \in Nat /\ batch[r] \in Nat
      /\ requested[r] <= Windows /\ batch[r] <= Windows
      /\ epoch[r] >= 1 /\ epoch[r] <= Epochs + 1
  BY <1>2, <1>4
<1>6. /\ offer[r] \in Seq(SUBSET [node : Hot, row : 1 .. Len(table)])
      /\ view[r] \in Seq([{m \in Node : ~FromOther(r, m)} -> GroupOf(table)])
  BY DEF Types
<1>7. Len(offer[r]) \in Nat
  BY <1>6
<1> QED
  BY <1>2, <1>3, <1>4, <1>5, <1>6, <1>7

LEMMA Product ==
    ASSUME NEW a \in Int, NEW b \in Int, NEW c \in Nat, a <= b
    PROVE  a * c <= b * c /\ (a + 1) * c = a * c + c
<1>1. PICK d \in Nat : b = a + d
  <2>1. b - a \in Nat /\ b = a + (b - a)
    OBVIOUS
  <2> QED
    BY <2>1
<1>2. (a + d) * c = a * c + d * c
  OBVIOUS
<1>3. d * c >= 0
  OBVIOUS
<1>4. a * c \in Int /\ d * c \in Int
  OBVIOUS
<1> QED
  BY <1>1, <1>2, <1>3, <1>4

(* Within its epoch a rank is between its first call and its last.         *)
LEMMA WithinIs ==
    ASSUME Types, NEW r \in Rank, Place(r)
    PROVE  /\ Within(r) \in Nat /\ Waiting(r) \in {0, 1}
           /\ Within(r) <= PerWindow * Windows /\ Waiting(r) <= Within(r)
           /\ Within(r) = PerWindow * Windows =>
                /\ requested[r] = Windows /\ batch[r] = Windows
                /\ pc[r] \notin {"request", "respond", "train", "commit", "done"}
           /\ pc[r] = "respond" => Within(r) >= 1
           /\ Within(r) <= Waiting(r) =>
                /\ batch[r] = 0 /\ requested[r] <= 1
                /\ requested[r] = 1 => pc[r] = "respond"
<1>1. /\ requested[r] \in Nat /\ requested[r] <= Windows
      /\ batch[r] \in Nat /\ batch[r] <= Windows
      /\ Windows \in Nat /\ Windows >= 1 /\ bounded \in BOOLEAN
  BY RankTypes
<1>8. pc[r] \in {"request", "respond", "train", "commit", "push",
                 "gather", "end", "reset", "done"}
  BY RankTypes
<1>2. PerWindow * Windows = IF bounded THEN Windows + Windows + Windows ELSE Windows + Windows
  BY <1>1 DEF PerWindow
<1> DEFINE whole == PerWindow * Windows
<1> HIDE DEF whole
<1>3. whole = IF bounded THEN Windows + Windows + Windows ELSE Windows + Windows
  BY <1>2 DEF whole
<1> SUFFICES /\ Within(r) \in Nat /\ Waiting(r) \in {0, 1}
             /\ Within(r) <= whole /\ Waiting(r) <= Within(r)
             /\ Within(r) = whole =>
                  /\ requested[r] = Windows /\ batch[r] = Windows
                  /\ pc[r] \notin {"request", "respond", "train", "commit", "done"}
             /\ pc[r] = "respond" => Within(r) >= 1
             /\ Within(r) <= Waiting(r) =>
                  /\ batch[r] = 0 /\ requested[r] <= 1
                  /\ requested[r] = 1 => pc[r] = "respond"
  BY DEF whole
<1>10. CASE pc[r] = "request"
  <2>1. CASE bounded
    BY <1>1, <1>3, <1>10, <2>1 DEF Place, Within, Waiting, Pushed, AtMost
  <2>2. CASE ~bounded
    BY <1>1, <1>3, <1>10, <2>2 DEF Place, Within, Waiting, Pushed, AtMost
  <2> QED
    BY <2>1, <2>2
<1>11. CASE pc[r] = "respond"
  <2>1. CASE bounded
    <3>1. Within(r) = requested[r] + batch[r] + batch[r] /\ Waiting(r) = 1
      BY <1>11, <2>1 DEF Within, Waiting, Pushed
    <3>2. requested[r] = batch[r] + 2 \/ (requested[r] = 1 /\ batch[r] = 0)
      BY <1>11, <2>1 DEF Place
    <3>3. whole = Windows + Windows + Windows
      BY <1>3, <2>1
    <3> HIDE DEF whole
    <3> QED
      BY <1>1, <1>11, <3>1, <3>2, <3>3
  <2>2. CASE ~bounded
    BY <1>1, <1>3, <1>11, <2>2 DEF Place, Within, Waiting, Pushed, AtMost
  <2> QED
    BY <2>1, <2>2
<1>12. CASE pc[r] = "train"
  <2>1. CASE bounded
    BY <1>1, <1>3, <1>12, <2>1 DEF Place, Within, Waiting, Pushed, AtMost
  <2>2. CASE ~bounded
    BY <1>1, <1>3, <1>12, <2>2 DEF Place, Within, Waiting, Pushed, AtMost
  <2> QED
    BY <2>1, <2>2
<1>13. CASE pc[r] = "commit"
  <2>1. CASE bounded
    BY <1>1, <1>3, <1>13, <2>1 DEF Place, Within, Waiting, Pushed, AtMost
  <2>2. CASE ~bounded
    BY <1>1, <1>3, <1>13, <2>2 DEF Place, Within, Waiting, Pushed, AtMost
  <2> QED
    BY <2>1, <2>2
<1>14. CASE pc[r] = "push"
  <2>1. CASE bounded
    BY <1>1, <1>3, <1>14, <2>1 DEF Place, Within, Waiting, Pushed, AtMost
  <2>2. CASE ~bounded
    BY <1>1, <1>3, <1>14, <2>2 DEF Place, Within, Waiting, Pushed, AtMost
  <2> QED
    BY <2>1, <2>2
<1>15. CASE pc[r] = "gather"
  <2>1. CASE bounded
    BY <1>1, <1>3, <1>15, <2>1 DEF Place, Within, Waiting, Pushed, AtMost
  <2>2. CASE ~bounded
    BY <1>1, <1>3, <1>15, <2>2 DEF Place, Within, Waiting, Pushed, AtMost
  <2> QED
    BY <2>1, <2>2
<1>16. CASE pc[r] = "end"
  <2>1. CASE bounded
    BY <1>1, <1>3, <1>16, <2>1 DEF Place, Within, Waiting, Pushed, AtMost
  <2>2. CASE ~bounded
    BY <1>1, <1>3, <1>16, <2>2 DEF Place, Within, Waiting, Pushed, AtMost
  <2> QED
    BY <2>1, <2>2
<1>17. CASE pc[r] = "reset"
  <2>1. CASE bounded
    BY <1>1, <1>3, <1>17, <2>1 DEF Place, Within, Waiting, Pushed, AtMost
  <2>2. CASE ~bounded
    BY <1>1, <1>3, <1>17, <2>2 DEF Place, Within, Waiting, Pushed, AtMost
  <2> QED
    BY <2>1, <2>2
<1>18. CASE pc[r] = "done"
  <2>1. CASE bounded
    BY <1>1, <1>3, <1>18, <2>1 DEF Place, Within, Waiting, Pushed, AtMost
  <2>2. CASE ~bounded
    BY <1>1, <1>3, <1>18, <2>2 DEF Place, Within, Waiting, Pushed, AtMost
  <2> QED
    BY <2>1, <2>2
<1> QED
  BY <1>8, <1>10, <1>11, <1>12, <1>13, <1>14, <1>15, <1>16, <1>17, <1>18

(* A rank that meets another in its calls is at most one epoch behind, and *)
(* then has entered all calls of its own, and the other at most one.       *)
LEMMA Behind ==
    ASSUME Types, NEW p \in Rank, NEW r \in Rank, Local(p), Local(r), Meet(p, r),
           epoch[p] < epoch[r]
    PROVE  /\ epoch[r] = epoch[p] + 1
           /\ requested[p] = Windows /\ batch[p] = Windows
           /\ pc[p] \notin {"request", "respond", "train", "commit", "done"}
           /\ batch[r] = 0 /\ requested[r] <= 1
           /\ requested[r] = 1 => pc[r] = "respond"
<1> DEFINE whole == PerWindow * Windows
           a == epoch[p]
           b == epoch[r]
<1>1. a \in Nat /\ b \in Nat /\ a < b
  BY RankTypes
<1>2. whole \in Nat /\ whole >= 1
  <2>1. Windows \in Nat /\ Windows >= 1 /\ bounded \in BOOLEAN
    BY RankTypes
  <2> QED
    BY <2>1 DEF PerWindow
<1>3. /\ entered[p] = (a - 1) * whole + Within(p)
      /\ entered[r] = (b - 1) * whole + Within(r)
  BY Zenon DEF Local, Calls
<1>4. /\ Within(p) \in Nat /\ Within(p) <= whole
      /\ Within(r) \in Nat /\ Waiting(r) \in {0, 1} /\ Waiting(r) <= Within(r)
  BY WithinIs DEF Local
<1>5. entered[p] >= entered[r] - Waiting(r)
  BY DEF Meet
<1> HIDE DEF whole, a, b
<1>6. (a - 1) * whole \in Int /\ (b - 1) * whole \in Int
  BY <1>1, <1>2
<1> DEFINE x == (a - 1) * whole
           y == (b - 1) * whole
           u == Within(p)
           v == Within(r)
           z == Waiting(r)
<1>7. y >= x + whole
  <2>1. ((a - 1) + 1) * whole <= (b - 1) * whole
    BY <1>1, <1>2, Product
  <2>2. ((a - 1) + 1) * whole = (a - 1) * whole + whole
    BY <1>1, <1>2, Product
  <2> QED
    BY <2>1, <2>2
<1>8. x + u >= y + v - z
  <2>1. entered[p] = x + u /\ entered[r] = y + v /\ entered[p] >= entered[r] - z
    BY <1>3, <1>5
  <2>2. x \in Int /\ y \in Int /\ u \in Nat /\ v \in Nat /\ z \in {0, 1}
    BY <1>4, <1>6
  <2> HIDE DEF x, y, u, v, z
  <2> QED
    BY <2>1, <2>2
<1>9. b # a + 1 => y >= x + whole + whole
  <2> SUFFICES ASSUME b # a + 1 PROVE y >= x + whole + whole
    OBVIOUS
  <2>1. a + 1 <= b - 1
    BY <1>1
  <2>2. (a + 1) * whole <= (b - 1) * whole
    BY <1>1, <1>2, <2>1, Product
  <2>3. (a + 1) * whole = a * whole + whole
    BY <1>1, <1>2, Product
  <2>4. ((a - 1) + 1) * whole = (a - 1) * whole + whole
    BY <1>1, <1>2, Product
  <2>5. (a - 1) + 1 = a
    BY <1>1
  <2>6. a * whole = (a - 1) * whole + whole
    BY <2>4, <2>5
  <2> QED
    BY <2>2, <2>3, <2>6
<1>10. x \in Int /\ y \in Int /\ u \in Nat /\ u <= whole /\ v \in Nat /\ z \in {0, 1} /\ z <= v
  BY <1>4, <1>6
<1> HIDE DEF x, y, u, v, z
<1>11. u = whole /\ v <= z /\ b = a + 1
  BY <1>2, <1>7, <1>8, <1>9, <1>10
<1>12. Within(p) = PerWindow * Windows /\ Within(r) <= Waiting(r)
  BY <1>11 DEF u, v, z, whole
<1> QED
  BY <1>11, <1>12, WithinIs DEF a, b, Local

(* A rank that has entered the call of another is in its epoch.            *)
LEMMA SameEpoch ==
    ASSUME Types, NEW p \in Rank, NEW r \in Rank, Local(p), Local(r), Meet(p, r),
           entered[r] >= entered[p], pc[p] = "respond"
    PROVE  epoch[r] = epoch[p]
<1> DEFINE whole == PerWindow * Windows
           a == epoch[p]
           b == epoch[r]
<1>1. a \in Nat /\ b \in Nat
  BY RankTypes
<1>2. ~ (a < b)
  BY Behind
<1>3. whole \in Nat
  <2>1. Windows \in Nat /\ bounded \in BOOLEAN
    BY RankTypes
  <2> QED
    BY <2>1 DEF PerWindow
<1>4. /\ entered[p] = (a - 1) * whole + Within(p)
      /\ entered[r] = (b - 1) * whole + Within(r)
  BY Zenon DEF Local, Calls
<1>5. Within(p) \in Nat /\ Within(p) >= 1 /\ Within(r) \in Nat /\ Within(r) <= whole
  BY WithinIs DEF Local
<1> HIDE DEF whole, a, b
<1>6. (a - 1) * whole \in Int /\ (b - 1) * whole \in Int
  BY <1>1, <1>3
<1>7. b < a => (a - 1) * whole >= (b - 1) * whole + whole
  <2> SUFFICES ASSUME b < a PROVE (a - 1) * whole >= (b - 1) * whole + whole
    OBVIOUS
  <2>1. ((b - 1) + 1) * whole <= (a - 1) * whole
    BY <1>1, <1>3, Product
  <2>2. ((b - 1) + 1) * whole = (b - 1) * whole + whole
    BY <1>1, <1>3, Product
  <2> QED
    BY <2>1, <2>2
<1> DEFINE x == (a - 1) * whole
           y == (b - 1) * whole
<1>8. x + Within(p) <= y + Within(r)
  <2>1. entered[p] = x + Within(p) /\ entered[r] = y + Within(r)
    BY <1>4
  <2> HIDE DEF x, y
  <2> QED
    BY <2>1
<1>9. x \in Int /\ y \in Int /\ (b < a => x >= y + whole)
  BY <1>6, <1>7
<1> HIDE DEF x, y
<1>10. ~ (b < a)
  BY <1>3, <1>5, <1>8, <1>9
<1>11. a = b
  BY <1>1, <1>2, <1>10
<1> QED
  BY <1>11 DEF a, b

-----------------------------------------------------------------------------
(* What a step of one rank leaves to the others.                           *)

Const == table' = table /\ bounded' = bounded

\* Nothing of rank q changes.
Same(q) ==
    /\ pc'[q] = pc[q] /\ epoch'[q] = epoch[q] /\ requested'[q] = requested[q]
    /\ batch'[q] = batch[q] /\ pending'[q] = pending[q] /\ view'[q] = view[q]
    /\ seen'[q] = seen[q] /\ entered'[q] = entered[q] /\ syncs'[q] = syncs[q]
    /\ shared'[q] = shared[q] /\ offer'[q] = offer[q]
    /\ \A n \in Owned(q) : owned'[n] = owned[n]

\* What p offered stays where it is.
Extends(p) ==
    /\ Len(offer'[p]) >= Len(offer[p])
    /\ \A j \in 1 .. Len(offer[p]) : offer'[p][j] = offer[p][j]

LEMMA ConstKept ==
    ASSUME Const
    PROVE  /\ Lag' = Lag /\ PerWindow' = PerWindow
           /\ \A r, n : FromReplica(r, n)' = FromReplica(r, n)
           /\ \A r, n : FromOther(r, n)' = FromOther(r, n)
BY DEF Const, Lag, PerWindow, FromReplica, FromOther

LEMMA FrameLocal ==
    ASSUME Const, NEW q \in Rank, Same(q), Local(q)
    PROVE  Local(q)'
<1>1. Pushed(q)' = Pushed(q)
  BY DEF Same, Pushed
<1>2. Place(q)'
  BY DEF Local, Same, Const, Place, AtMost
<1>3. Calls(q)'
  <2>1. Within(q)' = Within(q)
    BY <1>1 DEF Same, Const, Within
  <2> QED
    BY <2>1, ConstKept DEF Local, Same, Calls
<1>4. Commits(q)'
  BY <1>1 DEF Local, Same, Const, Commits
<1>5. Views(q)'
  BY ConstKept DEF Local, Same, Const, Views
<1>6. Seen(q)'
  BY ConstKept DEF Local, Same, Const, Seen
<1>7. Offers(q)'
  BY <1>1 DEF Local, Same, Const, Offers
<1> QED
  BY <1>2, <1>3, <1>4, <1>5, <1>6, <1>7 DEF Local

(* The rows of a gather that has arrived are there for good.               *)
LEMMA RowsStay ==
    ASSUME \A p \in Rank : Extends(p), NEW n, NEW js,
           \A j \in js : j \in Nat /\ j >= 1 /\ Arrived(j),
           \A p \in Rank : Len(offer[p]) \in Nat /\ Len(offer'[p]) \in Nat
    PROVE  /\ \A j \in js : Arrived(j)'
           /\ RowsOfGathers(offer', n, js) = RowsOfGathers(offer, n, js)
<1>1. ASSUME NEW j \in js, NEW p \in Rank
      PROVE  Len(offer'[p]) >= j /\ offer'[p][j] = offer[p][j]
  <2>1. j \in Nat /\ j >= 1 /\ Len(offer[p]) >= j /\ Len(offer[p]) \in Nat
        /\ Len(offer'[p]) \in Nat
    BY DEF Arrived
  <2>2. j \in 1 .. Len(offer[p])
    BY <2>1
  <2>3. Len(offer'[p]) >= Len(offer[p]) /\ offer'[p][j] = offer[p][j]
    BY <2>2 DEF Extends
  <2> QED
    BY <2>1, <2>3
<1>2. ASSUME NEW j \in js PROVE RowsOfGather(offer', n, j) = RowsOfGather(offer, n, j)
  BY <1>1 DEF RowsOfGather
<1>3. RowsOfGathers(offer', n, js) = RowsOfGathers(offer, n, js)
  BY <1>2 DEF RowsOfGathers
<1>4. \A j \in js : Arrived(j)'
  BY <1>1 DEF Arrived
<1> QED
  BY <1>3, <1>4

(* The numbers of the gathers of an epoch.                                 *)
LEMMA LaunchedIs ==
    ASSUME Types, NEW r \in Rank, Place(r)
    PROVE  /\ Gathered(r) \in Nat /\ Gathered(r) <= Windows
           /\ (epoch[r] - 1) * Windows \in Nat
           /\ \A j \in Launched(r) : j \in Nat /\ j >= 1
<1>1. /\ epoch[r] \in Nat /\ epoch[r] >= 1 /\ Windows \in Nat
      /\ batch[r] \in Nat /\ batch[r] <= Windows
  BY RankTypes
<1>2. Gathered(r) \in Nat /\ Gathered(r) <= Windows
  BY <1>1 DEF Place, Gathered
<1>3. (epoch[r] - 1) * Windows \in Nat
  BY <1>1
<1> DEFINE base == (epoch[r] - 1) * Windows
<1> HIDE DEF base
<1>4. \A j \in base + 1 .. base + Gathered(r) : j \in Nat /\ j >= 1
  BY <1>2, <1>3 DEF base
<1> QED
  BY <1>2, <1>3, <1>4 DEF Launched, base

LEMMA FrameReplicas ==
    ASSUME Types, Const, NEW q \in Rank, Place(q), Replicas(q), Launched(q)' = Launched(q),
           syncs'[q] = syncs[q], shared'[q] = shared[q],
           \A p \in Rank : Extends(p), \A p \in Rank : Len(offer'[p]) \in Nat
    PROVE  Replicas(q)'
<1> DEFINE js == Launched(q) \ syncs[q]
<1>2. /\ syncs[q] \subseteq Launched(q) /\ \A j \in js : Arrived(j)
      /\ \A n \in Hot : Refreshed(table, offer, shared[q][n], n, js)
  BY DEF Replicas
<1>3. \A p \in Rank : Len(offer[p]) \in Nat
  BY RankTypes
<1>4. \A j \in js : j \in Nat /\ j >= 1
  BY LaunchedIs
<1> HIDE DEF js
<1>5. ASSUME NEW n \in Hot
      PROVE  /\ \A j \in js : Arrived(j)'
             /\ RowsOfGathers(offer', n, js) = RowsOfGathers(offer, n, js)
  BY <1>2, <1>3, <1>4, RowsStay
<1>6. \A j \in js : Arrived(j)'
  BY <1>2, <1>3, <1>4, RowsStay
<1>7. \A n \in Hot : Refreshed(table, offer', shared[q][n], n, js)
  BY <1>2, <1>5 DEF Refreshed
<1>8. js' = js
  BY DEF js
<1>9. \A n \in Hot : Refreshed(table', offer', shared'[q][n], n, js)
  BY <1>7 DEF Const
<1> QED
  BY <1>2, <1>6, <1>8, <1>9 DEF Replicas, js

LEMMA StepKeeps ==
    ASSUME Inv, Const, NEW r \in Rank, \A q \in Rank \ {r} : Same(q),
           \A p \in Rank : Extends(p), Types', Local(r)', Replicas(r)',
           entered'[r] >= entered[r],
           \A p \in Rank \ {r} : entered[p] >= entered'[r] - Waiting(r)',
           \A p, q \in Rank : Answers(p, q)'
    PROVE  Inv'
<1>1. \A q \in Rank : Local(q)'
  BY FrameLocal DEF Inv
<1>2. \A p \in Rank : Len(offer'[p]) \in Nat
  <2>1. \A p \in Rank : offer'[p] \in Seq(SUBSET [node : Hot, row : 1 .. Len(table)])
    BY DEF Types, Const
  <2> QED
    BY <2>1
<1>3. \A q \in Rank : Replicas(q)'
  <2> SUFFICES ASSUME NEW q \in Rank, q # r PROVE Replicas(q)'
    OBVIOUS
  <2>1. Same(q)
    OBVIOUS
  <2>2. Launched(q)' = Launched(q) /\ syncs'[q] = syncs[q] /\ shared'[q] = shared[q]
    BY <2>1 DEF Same, Const, Launched, Gathered
  <2> QED
    BY <1>2, <2>2, FrameReplicas DEF Inv, Local
<1>4. \A p \in Rank : entered[p] \in Nat /\ entered'[p] \in Nat
  BY DEF Inv, Types, TypeOK
<1>5. ASSUME NEW p \in Rank, NEW q \in Rank
      PROVE  Meet(p, q)'
  <2>1. Waiting(q)' \in {0, 1}
    BY DEF Waiting
  <2>2. CASE p = q
    <3>1. entered'[p] >= entered'[p] - Waiting(q)'
      BY <1>4, <2>1
    <3> QED
      BY <2>2, <3>1 DEF Meet
  <2>3. CASE q = r /\ p # r
    <3>1. entered'[p] = entered[p]
      BY <2>3 DEF Same
    <3> QED
      BY <2>3, <3>1 DEF Meet
  <2>4. CASE q # r
    <3>1. entered'[q] = entered[q] /\ Waiting(q)' = Waiting(q)
      BY <2>4 DEF Same, Waiting
    <3>2. entered[p] >= entered[q] - Waiting(q)
      BY DEF Inv, Meet
    <3>3. entered'[p] >= entered[p]
      <4>1. CASE p = r
        BY <4>1
      <4>2. CASE p # r
        <5>1. entered'[p] = entered[p]
          BY <4>2 DEF Same
        <5> QED
          BY <1>4, <5>1
      <4> QED
        BY <4>1, <4>2
    <3>4. entered'[p] >= entered[q] - Waiting(q)
      BY <1>4, <2>1, <3>1, <3>2, <3>3
    <3> QED
      BY <3>1, <3>4 DEF Meet
  <2> QED
    BY <2>2, <2>3, <2>4
<1> QED
  BY <1>1, <1>3, <1>5 DEF Inv

(* A step that gives no answer and takes none.                             *)
LEMMA FrameAnswers ==
    ASSUME Inv, Const, NEW r \in Rank, \A q \in Rank \ {r} : Same(q),
           answer' = answer, epoch' = epoch, batch' = batch,
           Responses(r)' = Responses(r)
    PROVE  \A p, q \in Rank : Answers(p, q)'
<1> SUFFICES ASSUME NEW p \in Rank, NEW q \in Rank PROVE Answers(p, q)'
  OBVIOUS
<1>1. Responses(p)' = Responses(p)
  <2>1. CASE p = r
    BY <2>1
  <2>2. CASE p # r
    BY <2>2 DEF Same, Responses
  <2> QED
    BY <2>1, <2>2
<1>2. Answered(p, epoch[q])' = Answered(p, epoch[q])
  BY <1>1 DEF Answered
<1>3. Answers(p, q)
  BY DEF Inv
<1> QED
  BY <1>2, <1>3, ConstKept DEF Answers, Const

-----------------------------------------------------------------------------
(* Finishing what is under way.                                            *)

(* handle_owner_async: the groups a rank owns are as sequential processing *)
(* leaves them after the last window it pushed.                            *)
LEMMA OwnerFinished ==
    ASSUME Inv, NEW r \in Rank, FinishOwner(r)
    PROVE  /\ \A n \in Owned(r) : Stored(table, owned'[n], n, Pushed(r))
           /\ \A n \in Node \ Owned(r) : owned'[n] = owned[n]
           /\ owned' \in [Node -> GroupOf(table)]
           /\ pending'[r] = {} /\ pending' \in [Rank -> SUBSET (1 .. Windows)]
           /\ \A q \in Rank \ {r} : pending'[q] = pending[q]
<1>1. PICK result \in [Owned(r) -> UNION {Outcomes(n, pending[r]) : n \in Owned(r)}] :
         /\ \A n \in Owned(r) : result[n] \in Outcomes(n, pending[r])
         /\ owned' = [n \in Node |-> IF n \in Owned(r) THEN result[n] ELSE owned[n]]
  BY DEF FinishOwner
<1>2. /\ TableOK(table) /\ owned \in [Node -> Group]
      /\ pending \in [Rank -> SUBSET (1 .. Windows)]
  BY DEF Inv, Types, TypeOK
<1>3. PICK w \in 0 .. Pushed(r) :
         /\ pending[r] = (w + 1) .. Pushed(r)
         /\ \A n \in Owned(r) : Stored(table, owned[n], n, w)
  BY DEF Inv, Local, Commits
<1>4. Pushed(r) \in Int
  <2>1. Types
    BY DEF Inv
  <2>2. batch[r] \in Nat
    BY <2>1, RankTypes
  <2> QED
    BY <2>2 DEF Pushed
<1>5. w \in Nat /\ Pushed(r) \in Nat /\ w <= Pushed(r)
  BY <1>4
<1>6. ASSUME NEW n \in Owned(r)
      PROVE  Stored(table, owned'[n], n, Pushed(r))
  <2>1. n \in Node
    BY DEF Owned
  <2>2. PICK h : Outcomes(n, (w + 1) .. Pushed(r)) = {h} /\ Stored(table, h, n, Pushed(r))
    BY <1>2, <1>3, <1>5, <2>1, OutcomesAre
  <2>3. owned'[n] = result[n] /\ result[n] \in Outcomes(n, pending[r])
    BY <1>1, <2>1
  <2> QED
    BY <1>3, <2>2, <2>3
<1>7. \A n \in Node \ Owned(r) : owned'[n] = owned[n]
  BY <1>1
<1>8. \A n \in Node : owned'[n] \in GroupOf(table)
  <2>1. Group = GroupOf(table)
    BY DEF Group, GroupOf
  <2> QED
    BY <1>2, <1>6, <1>7, <2>1 DEF Stored
<1>9. owned' \in [Node -> GroupOf(table)]
  BY <1>1, <1>8
<1>10. pending' = [pending EXCEPT ![r] = {}]
  BY DEF FinishOwner
<1> QED
  BY <1>2, <1>6, <1>7, <1>9, <1>10

(* A gather of this epoch has the rows of the window with its number.      *)
LEMMA WindowOf ==
    ASSUME Inv, NEW r \in Rank, NEW j \in Launched(r), Arrived(j)
    PROVE  \E k \in 1 .. Gathered(r) :
              /\ k \in 1 .. Windows
              /\ \A n \in Hot : RowsOfGather(offer, n, j) \subseteq WritesIn(table, n, k)
<1> DEFINE e == epoch[r] - 1
           base == e * Windows
           k == j - base
<1>1. /\ e \in 0 .. Epochs /\ Windows \in Nat
  <2>1. Types
    BY DEF Inv
  <2>2. epoch[r] \in Nat /\ epoch[r] >= 1 /\ epoch[r] <= Epochs + 1 /\ Epochs \in Nat
    BY <2>1, RankTypes
  <2> QED
    BY <2>2, SizeAssumption
<1>2. Gathered(r) \in Nat /\ Gathered(r) <= Windows /\ base \in Nat
  BY LaunchedIs DEF Inv, Local
<1>3. j \in base + 1 .. base + Gathered(r)
  BY DEF Launched
<1> HIDE DEF base
<1>4. k \in 1 .. Gathered(r) /\ k \in 1 .. Windows /\ j = base + k
  BY <1>1, <1>2, <1>3
<1> HIDE DEF k, e
<1>5. ASSUME NEW n \in Hot, NEW i \in RowsOfGather(offer, n, j)
      PROVE  i \in WritesIn(table, n, k)
  <2>1. PICK p \in Rank : \E d \in offer[p][j] : d.node = n /\ i = d.row
    BY DEF RowsOfGather
  <2>5. PICK d \in offer[p][j] : d.node = n /\ i = d.row
    BY <2>1
  <2>2. e * Windows + k <= Len(offer[p])
    BY <1>4 DEF Arrived, base
  <2>3. \A f \in offer[p][e * Windows + k] : f.row \in WritesIn(table, f.node, k)
    BY <1>1, <1>4, <2>2 DEF Inv, Local, Offers
  <2>4. offer[p][e * Windows + k] = offer[p][j]
    BY <1>4 DEF base
  <2> QED
    BY <2>3, <2>4, <2>5
<1> QED
  BY <1>4, <1>5

(* finish_shared_ready, finish_shared_async: what was chosen is applied.   *)
LEMMA SyncsFinished ==
    ASSUME Inv, NEW r \in Rank, NEW chosen \in SUBSET syncs[r],
           \A j \in chosen : Arrived(j), FinishSyncs(r, chosen)
    PROVE  /\ syncs'[r] \subseteq Launched(r)
           /\ \A j \in Launched(r) \ syncs'[r] : Arrived(j)
           /\ \A n \in Hot : Refreshed(table, offer, shared'[r][n], n, Launched(r) \ syncs'[r])
           /\ shared' \in [Rank -> [Hot -> GroupOf(table)]]
           /\ syncs' \in [Rank -> SUBSET (Nat \ {0})]
           /\ \A q \in Rank \ {r} : shared'[q] = shared[q] /\ syncs'[q] = syncs[q]
<1> DEFINE js == Launched(r) \ syncs[r]
           after == InOrder(FinishSync, shared[r], chosen)
           m == (epoch[r] - 1) * Windows + Gathered(r)
<1>1. /\ TableOK(table) /\ shared \in [Rank -> [Hot -> Group]]
      /\ syncs \in [Rank -> SUBSET (Nat \ {0})] /\ Group = GroupOf(table)
  BY DEF Inv, Types, TypeOK, Group, GroupOf
<1>2. /\ syncs[r] \subseteq Launched(r) /\ \A j \in js : Arrived(j)
      /\ \A n \in Hot : Refreshed(table, offer, shared[r][n], n, js)
  BY DEF Inv, Replicas
<1>3. \A j \in js \cup chosen : InWindow(j)
  BY <1>2, WindowOf DEF InWindow
<1>4. m \in Nat
  BY LaunchedIs DEF Inv, Local
<1>5. chosen \in SUBSET (1 .. m)
  <2>1. \A j \in Launched(r) : j \in 1 .. m
    <3>1. \A j \in Launched(r) : j \in Nat /\ j >= 1
      BY LaunchedIs DEF Inv, Local
    <3>2. Launched(r) = (epoch[r] - 1) * Windows + 1 .. m
      BY DEF Launched
    <3>3. (epoch[r] - 1) * Windows + 1 \in Int
      BY LaunchedIs DEF Inv, Local
    <3> HIDE DEF m
    <3> QED
      BY <1>4, <3>1, <3>2, <3>3
  <2> QED
    BY <1>2, <2>1
<1>6. shared[r] = [n \in Hot |-> shared[r][n]]
  BY <1>1
<1> HIDE DEF js, m
<1>7. /\ after = [n \in Hot |-> after[n]]
      /\ \A n \in Hot : Refreshed(table, offer, after[n], n, js \cup chosen)
  BY <1>1, <1>2, <1>3, <1>4, <1>5, <1>6, SyncsKeep
<1>8. shared' = [shared EXCEPT ![r] = after] /\ syncs' = [syncs EXCEPT ![r] = @ \ chosen]
  BY DEF FinishSyncs
<1> HIDE DEF after
<1>9. shared'[r] = after /\ syncs'[r] = syncs[r] \ chosen
  BY <1>1, <1>8
<1>10. Launched(r) \ syncs'[r] = js \cup chosen
  BY <1>2, <1>9 DEF js
<1>11. after \in [Hot -> GroupOf(table)]
  BY <1>7 DEF Refreshed
<1>12. shared' \in [Rank -> [Hot -> GroupOf(table)]] /\ syncs' \in [Rank -> SUBSET (Nat \ {0})]
  BY <1>1, <1>8, <1>11
<1>13. \A q \in Rank \ {r} : shared'[q] = shared[q] /\ syncs'[q] = syncs[q]
  BY <1>1, <1>8
<1>14. syncs'[r] \subseteq Launched(r)
  BY <1>2, <1>9
<1>15. \A j \in js \cup chosen : Arrived(j)
  BY <1>2
<1> QED
  BY <1>7, <1>9, <1>10, <1>12, <1>13, <1>14, <1>15

(* A poll: any of the gathers that have arrived.                           *)
LEMMA Polled ==
    ASSUME Inv, NEW r \in Rank, Poll(r)
    PROVE  /\ syncs'[r] \subseteq Launched(r)
           /\ \A j \in Launched(r) \ syncs'[r] : Arrived(j)
           /\ \A n \in Hot : Refreshed(table, offer, shared'[r][n], n, Launched(r) \ syncs'[r])
           /\ shared' \in [Rank -> [Hot -> GroupOf(table)]]
           /\ syncs' \in [Rank -> SUBSET (Nat \ {0})]
           /\ \A q \in Rank \ {r} : shared'[q] = shared[q] /\ syncs'[q] = syncs[q]
<1>1. PICK chosen \in SUBSET {j \in syncs[r] : Arrived(j)} : FinishSyncs(r, chosen)
  BY DEF Poll
<1>2. chosen \in SUBSET syncs[r] /\ \A j \in chosen : Arrived(j)
  OBVIOUS
<1> QED
  BY <1>1, <1>2, SyncsFinished

-----------------------------------------------------------------------------
(* Types, one variable at a time.                                          *)

Places == {"request", "respond", "train", "commit", "push", "gather", "end",
           "reset", "done"}
Here(r) == {m \in Node : ~FromOther(r, m)}
Groups == GroupOf(table)

LEMMA TypesAre ==
    ASSUME Types
    PROVE  /\ pc \in [Rank -> Places] /\ epoch \in [Rank -> 1 .. Epochs + 1]
           /\ requested \in [Rank -> 0 .. Windows] /\ batch \in [Rank -> 0 .. Windows]
           /\ owned \in [Node -> Groups] /\ shared \in [Rank -> [Hot -> Groups]]
           /\ pending \in [Rank -> SUBSET (1 .. Windows)]
           /\ syncs \in [Rank -> SUBSET (Nat \ {0})]
           /\ skipped \in [Rank -> [Hot -> 0 .. MaxSkip]]
           /\ seen \in [Rank -> [Node -> Groups]] /\ entered \in [Rank -> Nat]
           /\ offer \in [Rank -> Seq(SUBSET [node : Hot, row : 1 .. Len(table)])]
           /\ DOMAIN view = Rank /\ \A r \in Rank : view[r] \in Seq([Here(r) -> Groups])
           /\ DOMAIN answer = Rank
           /\ \A p \in Rank : /\ DOMAIN answer[p] = Rank
                              /\ \A r \in Rank : answer[p][r] \in Seq([Owned(p) -> Groups])
<1>1. Group = Groups
  BY DEF Group, Groups, GroupOf
<1> QED
  BY <1>1 DEF Types, TypeOK, Places, Here, Groups

LEMMA TypesKept ==
    ASSUME Types, Const,
           pc' \in [Rank -> Places], epoch' \in [Rank -> 1 .. Epochs + 1],
           requested' \in [Rank -> 0 .. Windows], batch' \in [Rank -> 0 .. Windows],
           owned' \in [Node -> Groups], shared' \in [Rank -> [Hot -> Groups]],
           pending' \in [Rank -> SUBSET (1 .. Windows)],
           syncs' \in [Rank -> SUBSET (Nat \ {0})],
           skipped' \in [Rank -> [Hot -> 0 .. MaxSkip]],
           seen' \in [Rank -> [Node -> Groups]], entered' \in [Rank -> Nat],
           offer' \in [Rank -> Seq(SUBSET [node : Hot, row : 1 .. Len(table)])],
           DOMAIN view' = Rank, \A r \in Rank : view'[r] \in Seq([Here(r) -> Groups]),
           DOMAIN answer' = Rank,
           \A p \in Rank : /\ DOMAIN answer'[p] = Rank
                           /\ \A r \in Rank : answer'[p][r] \in Seq([Owned(p) -> Groups])
    PROVE  Types'
<1>1. Group' = Groups /\ Groups' = Groups /\ GroupOf(table)' = Groups
  BY DEF Group, Groups, GroupOf, Const
<1>2. \A r \in Rank : {m \in Node : ~FromOther(r, m)}' = Here(r)
  BY ConstKept DEF Here
<1>3. table' = table /\ bounded' = bounded /\ [table |-> table', bounded |-> bounded'] \in Runs
  BY DEF Const, Types, TypeOK
<1>4. TypeOK'
  BY <1>1, <1>3 DEF TypeOK, Places
<1>5. TableOK(table)'
  BY <1>3 DEF Types
<1>6. \A r \in Rank : (view[r] \in Seq([{m \in Node : ~FromOther(r, m)} -> GroupOf(table)]))'
  BY <1>1, <1>2
<1>7. /\ (offer \in [Rank -> Seq(SUBSET [node : Hot, row : 1 .. Len(table)])])'
      /\ \A p, r \in Rank : (answer[p][r] \in Seq([Owned(p) -> GroupOf(table)]))'
  BY <1>1, <1>3
<1> QED
  BY <1>4, <1>5, <1>6, <1>7 DEF Types

-----------------------------------------------------------------------------
(* The steps of a rank.                                                    *)

\* The variables a step does not name stay.
LEMMA Unfold ==
    ASSUME Inv, NEW r \in Rank
    PROVE  /\ Types /\ Local(r) /\ Replicas(r)
           /\ Place(r) /\ Calls(r) /\ Commits(r) /\ Views(r) /\ Seen(r) /\ Offers(r)
           /\ \A p \in Rank : Local(p) /\ Place(p) /\ Meet(p, r) /\ Meet(r, p)
           /\ \A p \in Rank : Answers(p, r) /\ Answers(r, p)
BY DEF Inv, Local

LEMMA Numbers ==
    ASSUME Types, NEW r \in Rank
    PROVE  /\ batch[r] \in Nat /\ requested[r] \in Nat /\ entered[r] \in Nat
           /\ Pushed(r) \in Int /\ Within(r) \in Int
           /\ (epoch[r] - 1) * (PerWindow * Windows) \in Int
<1>1. batch[r] \in Nat /\ requested[r] \in Nat /\ entered[r] \in Nat
  BY RankTypes
<1>2. Pushed(r) \in Int
  BY <1>1 DEF Pushed
<1>3. Within(r) \in Int
  BY <1>1, <1>2 DEF Within
<1>4. PerWindow * Windows \in Int
  BY SizeAssumption DEF PerWindow
<1>5. epoch[r] - 1 \in Int
  <2>1. epoch[r] \in Nat
    BY RankTypes
  <2> QED
    BY <2>1
<1> DEFINE x == PerWindow * Windows
           y == epoch[r] - 1
<1> HIDE DEF x, y
<1>6. x \in Int /\ y \in Int => y * x \in Int
  OBVIOUS
<1> QED
  BY <1>1, <1>2, <1>3, <1>4, <1>5, <1>6 DEF x, y

(* The calls a rank has entered stay in step with its place.               *)
LEMMA CallsKept ==
    ASSUME Types, Const, NEW r \in Rank, Calls(r), epoch'[r] = epoch[r],
           NEW d \in Int, Within(r)' = Within(r) + d, entered'[r] = entered[r] + d
    PROVE  Calls(r)'
<1> DEFINE base == (epoch[r] - 1) * (PerWindow * Windows)
<1>1. base' = base /\ entered[r] = base + Within(r)
  BY ConstKept DEF Calls
<1>2. base \in Int /\ Within(r) \in Int
  BY Numbers
<1>3. entered'[r] = base' + Within(r)'
  <2> HIDE DEF base
  <2> QED
    BY <1>1, <1>2
<1> QED
  BY <1>3 DEF Calls

LEMMA CallsSame ==
    ASSUME Const, NEW r \in Rank, Calls(r), epoch'[r] = epoch[r],
           Within(r)' = Within(r), entered'[r] = entered[r]
    PROVE  Calls(r)'
BY ConstKept DEF Calls

(* launch_state_update.                                                    *)
LEMMA CommitKeeps ==
    ASSUME Inv, NEW r \in Rank, Commit(r)
    PROVE  Inv'
<1>1. /\ pc[r] = "commit"
      /\ entered' = [entered EXCEPT ![r] = @ + 1] /\ pc' = [pc EXCEPT ![r] = "push"]
      /\ UNCHANGED <<progress, reads, commits, replicas, publish>>
  BY DEF Commit, EnterCommit, Enter
<1>2. /\ Types /\ Place(r) /\ Calls(r) /\ Commits(r) /\ Views(r) /\ Offers(r)
  BY Unfold
<1>3. pc \in [Rank -> Places] /\ entered \in [Rank -> Nat]
  BY <1>2, TypesAre
<1>4. /\ table' = table /\ bounded' = bounded /\ epoch' = epoch /\ requested' = requested
      /\ batch' = batch /\ view' = view /\ answer' = answer /\ seen' = seen
      /\ owned' = owned /\ pending' = pending /\ shared' = shared /\ syncs' = syncs
      /\ offer' = offer /\ skipped' = skipped
  BY <1>1 DEF progress, reads, commits, replicas, publish
<1>5. Const
  BY <1>4 DEF Const
<1>6. pc'[r] = "push" /\ entered'[r] = entered[r] + 1
  BY <1>1, <1>3
<1>7. \A q \in Rank \ {r} : Same(q)
  BY <1>1, <1>3, <1>4 DEF Same
<1>8. Types'
  <2>1. pc' \in [Rank -> Places] /\ entered' \in [Rank -> Nat]
    BY <1>1, <1>3 DEF Places
  <2> QED
    BY <1>2, <1>4, <1>5, <2>1, TypesAre, TypesKept
<1>9. Pushed(r)' = Pushed(r) /\ Waiting(r)' = 1 /\ Gathered(r)' = Gathered(r)
      /\ Responses(r)' = Responses(r)
  BY <1>1, <1>4, <1>6 DEF Pushed, Waiting, Gathered, Responses
<1>10. Local(r)'
  <2>1. Place(r)'
    <3>1. pc'[r] # "done" /\ epoch[r] # Epochs + 1
      BY <1>1, <1>2, <1>6 DEF Place
    <3> QED
      BY <1>1, <1>2, <1>4, <1>6, <3>1 DEF Place, AtMost
  <2>2. Calls(r)'
    <3>1. Within(r)' = Within(r) + 1
      BY <1>1, <1>2, <1>4, <1>6, <1>9, Numbers DEF Within
    <3> QED
      BY <1>2, <1>4, <1>5, <1>6, <3>1, CallsKept
  <2>3. Commits(r)'
    BY <1>1, <1>2, <1>4, <1>6, <1>9 DEF Commits
  <2>4. Views(r)' /\ Offers(r)'
    BY <1>2, <1>4, <1>5, <1>9, ConstKept DEF Views, Offers
  <2>5. Seen(r)'
    BY <1>6 DEF Seen
  <2> QED
    BY <2>1, <2>2, <2>3, <2>4, <2>5 DEF Local
<1>11. Replicas(r)'
  <2>1. Launched(r)' = Launched(r)
    BY <1>4, <1>9 DEF Launched
  <2>2. \A j : Arrived(j)' = Arrived(j)
    BY <1>4 DEF Arrived
  <2> QED
    BY <1>4, <2>1, <2>2, Unfold DEF Replicas
<1>12. \A p \in Rank : Extends(p)
  <2>1. \A p \in Rank : Len(offer[p]) \in Nat
    BY <1>2, RankTypes
  <2> QED
    BY <1>4, <2>1 DEF Extends
<1>13. \A p \in Rank \ {r} : entered[p] >= entered'[r] - Waiting(r)'
  <2> SUFFICES ASSUME NEW p \in Rank \ {r} PROVE entered[p] >= entered'[r] - 1
    BY <1>9
  <2>1. entered[p] >= entered[r] - Waiting(r) /\ Waiting(r) = 0
    BY <1>1, Unfold DEF Meet, Waiting
  <2> QED
    BY <1>3, <1>6, <2>1
<1>14. \A p, q \in Rank : Answers(p, q)'
  BY <1>4, <1>5, <1>7, <1>9, FrameAnswers
<1> QED
  BY <1>3, <1>5, <1>6, <1>7, <1>8, <1>10, <1>11, <1>12, <1>13, <1>14, StepKeeps

(* What AfterCommit leaves: the rank reads ahead as far as it may.         *)
LEMMA AfterCommitIs ==
    ASSUME Types, NEW r \in Rank
    PROVE  /\ AfterCommit(r) \in Places
           /\ AfterCommit(r) \in {"end", "request", "train"}
           /\ AfterCommit(r) = "end" => batch[r] = Windows
           /\ AfterCommit(r) = "request" => batch[r] < Windows /\ requested[r] < Windows
           /\ AfterCommit(r) = "train" => batch[r] < Windows /\ requested[r] = Windows
<1>1. /\ requested[r] \in Nat /\ requested[r] <= Windows
      /\ batch[r] \in Nat /\ batch[r] <= Windows /\ Windows \in Nat
  BY RankTypes
<1>2. AfterCommit(r) \in {"end", "request", "train"}
  BY DEF AfterCommit
<1>3. AfterCommit(r) \in Places
  BY <1>2, Zenon DEF Places
<1>4. AfterCommit(r) = "end" => batch[r] = Windows
  BY DEF AfterCommit
<1>5. AfterCommit(r) = "request" => batch[r] < Windows /\ requested[r] < Windows
  BY <1>1 DEF AfterCommit
<1>6. AfterCommit(r) = "train" => batch[r] < Windows /\ requested[r] = Windows
  BY <1>1 DEF AfterCommit
<1> QED
  BY <1>2, <1>3, <1>4, <1>5, <1>6

(* launch_shared_sync, once all ranks know the counts.                     *)
LEMMA GatherKeeps ==
    ASSUME Inv, NEW r \in Rank, Gather(r)
    PROVE  Inv'
<1>1. /\ pc[r] = "gather" /\ AllEntered(r)
      /\ syncs' = [syncs EXCEPT ![r] = @ \cup {Len(offer[r])}]
      /\ pc' = [pc EXCEPT ![r] = AfterCommit(r)]
      /\ UNCHANGED <<progress, reads, commits, publish, shared, entered>>
  BY DEF Gather
<1>2. /\ Types /\ Place(r) /\ Calls(r) /\ Commits(r) /\ Views(r) /\ Offers(r)
  BY Unfold
<1>3. pc \in [Rank -> Places] /\ entered \in [Rank -> Nat]
      /\ syncs \in [Rank -> SUBSET (Nat \ {0})]
  BY <1>2, TypesAre
<1>4. /\ table' = table /\ bounded' = bounded /\ epoch' = epoch /\ requested' = requested
      /\ batch' = batch /\ view' = view /\ answer' = answer /\ seen' = seen
      /\ owned' = owned /\ pending' = pending /\ shared' = shared /\ entered' = entered
      /\ offer' = offer /\ skipped' = skipped
  BY <1>1 DEF progress, reads, commits, publish
<1>5. Const
  BY <1>4 DEF Const
<1>6. pc'[r] = AfterCommit(r) /\ syncs'[r] = syncs[r] \cup {Len(offer[r])}
  BY <1>1, <1>3
<1>7. \A q \in Rank \ {r} : Same(q)
  BY <1>1, <1>3, <1>4 DEF Same
<1>15. pc'[r] \in {"end", "request", "train"} /\ bounded /\ batch[r] >= 1
  BY <1>1, <1>2, <1>6, AfterCommitIs DEF Place
<1>16. /\ Len(offer[r]) = (epoch[r] - 1) * Windows + batch[r] /\ Len(offer[r]) \in Nat
       /\ (epoch[r] - 1) * Windows \in Nat /\ batch[r] \in Nat
  BY <1>1, <1>2, <1>15, LaunchedIs, RankTypes DEF Offers, Pushed
<1>17. Len(offer[r]) \in Nat \ {0}
  <2> DEFINE base == (epoch[r] - 1) * Windows
  <2> HIDE DEF base
  <2>1. Len(offer[r]) = base + batch[r] /\ base \in Nat
    BY <1>16 DEF base
  <2> QED
    BY <1>15, <1>16, <2>1
<1>8. Types'
  <2>1. pc' \in [Rank -> Places] /\ syncs' \in [Rank -> SUBSET (Nat \ {0})]
    BY <1>1, <1>2, <1>3, <1>17, AfterCommitIs
  <2> QED
    BY <1>2, <1>4, <1>5, <2>1, TypesAre, TypesKept
<1>9. /\ Pushed(r)' = Pushed(r) /\ Waiting(r)' = 0 /\ Responses(r)' = Responses(r)
      /\ Gathered(r)' = batch[r] /\ Gathered(r) = batch[r] - 1
  BY <1>1, <1>4, <1>15 DEF Pushed, Waiting, Gathered, Responses
<1>10. Local(r)'
  <2>1. Place(r)'
    <3>1. epoch[r] # Epochs + 1
      BY <1>1, <1>2 DEF Place
    <3>2. requested[r] = AtMost(batch[r] + 1) /\ batch[r] \in Nat /\ batch[r] <= Windows
          /\ Windows \in Nat
      BY <1>1, <1>2, <1>15, RankTypes DEF Place
    <3>6. AtMost(batch[r] + 1) = IF batch[r] < Windows THEN batch[r] + 1 ELSE Windows
      BY <3>2 DEF AtMost
    <3>7. AtMost(batch[r] + 2) = IF batch[r] + 2 < Windows THEN batch[r] + 2 ELSE Windows
      BY DEF AtMost
    <3>8. /\ pc'[r] = "end" => batch[r] = Windows
          /\ pc'[r] = "request" => batch[r] < Windows /\ requested[r] < Windows
          /\ pc'[r] = "train" => batch[r] < Windows /\ requested[r] = Windows
      BY <1>2, <1>6, AfterCommitIs
    <3>3. CASE pc'[r] = "end"
      <4>1. batch[r] = Windows /\ requested[r] = Windows
        BY <3>2, <3>3, <3>6, <3>8
      <4> QED
        BY <1>4, <3>1, <3>3, <4>1 DEF Place
    <3>4. CASE pc'[r] = "request"
      <4>1. requested[r] < Windows /\ requested[r] = batch[r] + 1
        BY <3>2, <3>4, <3>6, <3>8
      <4> QED
        BY <1>4, <1>15, <3>1, <3>4, <4>1 DEF Place
    <3>5. CASE pc'[r] = "train"
      <4>1. batch[r] < Windows /\ requested[r] = AtMost(batch[r] + 2)
        BY <3>2, <3>5, <3>6, <3>7, <3>8
      <4> QED
        BY <1>4, <1>15, <3>1, <3>5, <4>1 DEF Place, AtMost
    <3> QED
      BY <1>15, <3>3, <3>4, <3>5
  <2>2. Calls(r)'
    <3>1. Within(r)' = Within(r)
      BY <1>1, <1>4, <1>9, <1>15 DEF Within
    <3> QED
      BY <1>2, <1>4, <1>5, <3>1, CallsSame
  <2>3. Commits(r)'
    BY <1>1, <1>2, <1>4, <1>9, <1>15 DEF Commits
  <2>4. Views(r)' /\ Offers(r)'
    BY <1>2, <1>4, <1>5, <1>9, ConstKept DEF Views, Offers
  <2>5. Seen(r)'
    BY <1>15 DEF Seen
  <2> QED
    BY <2>1, <2>2, <2>3, <2>4, <2>5 DEF Local
<1>11. Replicas(r)'
  <2> DEFINE base == (epoch[r] - 1) * Windows
             new == Len(offer[r])
             b == batch[r]
  <2>1. Launched(r) = base + 1 .. base + (b - 1) /\ Launched(r)' = base + 1 .. base + b
    BY <1>4, <1>9 DEF Launched
  <2>2. new = base + b /\ base \in Nat /\ b \in Nat /\ b >= 1
    BY <1>15, <1>16
  <2> HIDE DEF base, new, b
  <2>3. Launched(r)' = Launched(r) \cup {new} /\ new \notin Launched(r)
    BY <2>1, <2>2
  <2>4. syncs[r] \subseteq Launched(r)
    BY Unfold DEF Replicas
  <2>5. Launched(r)' \ syncs'[r] = Launched(r) \ syncs[r] /\ syncs'[r] \subseteq Launched(r)'
    BY <1>6, <2>3, <2>4 DEF new
  <2>6. \A j : Arrived(j)' = Arrived(j)
    BY <1>4 DEF Arrived
  <2>7. /\ \A j \in Launched(r) \ syncs[r] : Arrived(j)
        /\ \A n \in Hot : Refreshed(table, offer, shared[r][n], n, Launched(r) \ syncs[r])
    BY Unfold DEF Replicas
  <2> QED
    BY <1>4, <2>5, <2>6, <2>7 DEF Replicas
<1>12. \A p \in Rank : Extends(p)
  <2>1. \A p \in Rank : Len(offer[p]) \in Nat
    BY <1>2, RankTypes
  <2> QED
    BY <1>4, <2>1 DEF Extends
<1>13. entered'[r] >= entered[r] /\ \A p \in Rank \ {r} : entered[p] >= entered'[r] - Waiting(r)'
  BY <1>1, <1>3, <1>4, <1>9 DEF AllEntered
<1>14. \A p, q \in Rank : Answers(p, q)'
  BY <1>4, <1>5, <1>7, <1>9, FrameAnswers
<1> QED
  BY <1>5, <1>7, <1>8, <1>10, <1>11, <1>12, <1>13, <1>14, StepKeeps

(* finish_state_update at the end of an epoch.                             *)
LEMMA FinishKeeps ==
    ASSUME Inv, NEW r \in Rank, Finish(r)
    PROVE  Inv'
<1>1. /\ pc[r] = "end" /\ FinishOwner(r) /\ (FinishAll(r) \/ UNCHANGED replicas)
      /\ pc' = [pc EXCEPT ![r] = "reset"]
      /\ UNCHANGED <<progress, reads, publish, entered>>
  BY DEF Finish
<1>2. /\ Types /\ Place(r) /\ Calls(r) /\ Commits(r) /\ Views(r) /\ Offers(r)
  BY Unfold
<1>3. pc \in [Rank -> Places] /\ entered \in [Rank -> Nat]
  BY <1>2, TypesAre
<1>4. /\ table' = table /\ bounded' = bounded /\ epoch' = epoch /\ requested' = requested
      /\ batch' = batch /\ view' = view /\ answer' = answer /\ seen' = seen
      /\ entered' = entered /\ offer' = offer /\ skipped' = skipped
  BY <1>1 DEF progress, reads, publish
<1>5. Const
  BY <1>4 DEF Const
<1>6. pc'[r] = "reset"
  BY <1>1, <1>3
<1>15. /\ \A n \in Owned(r) : Stored(table, owned'[n], n, Pushed(r))
       /\ \A n \in Node \ Owned(r) : owned'[n] = owned[n]
       /\ owned' \in [Node -> GroupOf(table)]
       /\ pending'[r] = {} /\ pending' \in [Rank -> SUBSET (1 .. Windows)]
       /\ \A q \in Rank \ {r} : pending'[q] = pending[q]
  BY <1>1, OwnerFinished
<1>16. /\ syncs'[r] \subseteq Launched(r)
       /\ \A j \in Launched(r) \ syncs'[r] : Arrived(j)
       /\ \A n \in Hot : Refreshed(table, offer, shared'[r][n], n, Launched(r) \ syncs'[r])
       /\ shared' \in [Rank -> [Hot -> GroupOf(table)]]
       /\ syncs' \in [Rank -> SUBSET (Nat \ {0})]
       /\ \A q \in Rank \ {r} : shared'[q] = shared[q] /\ syncs'[q] = syncs[q]
  <2>1. CASE FinishAll(r)
    BY <2>1, SyncsFinished DEF FinishAll
  <2>2. CASE UNCHANGED replicas
    <3>1. shared' = shared /\ syncs' = syncs
      BY <2>2 DEF replicas
    <3>2. shared \in [Rank -> [Hot -> GroupOf(table)]] /\ syncs \in [Rank -> SUBSET (Nat \ {0})]
      BY <1>2, TypesAre DEF Groups
    <3> QED
      BY <3>1, <3>2, Unfold DEF Replicas
  <2> QED
    BY <1>1, <2>1, <2>2
<1>7. \A q \in Rank \ {r} : Same(q)
  <2> SUFFICES ASSUME NEW q \in Rank \ {r} PROVE Same(q)
    OBVIOUS
  <2>1. pc'[q] = pc[q]
    BY <1>1, <1>3
  <2>2. \A n \in Owned(q) : n \in Node \ Owned(r)
    BY DEF Owned
  <2> QED
    BY <1>4, <1>15, <1>16, <2>1, <2>2 DEF Same
<1>8. Types'
  <2>1. pc' \in [Rank -> Places]
    BY <1>1, <1>3 DEF Places
  <2> QED
    BY <1>2, <1>4, <1>5, <1>15, <1>16, <2>1, TypesAre, TypesKept DEF Groups
<1>9. /\ Pushed(r)' = Pushed(r) /\ Waiting(r)' = 0 /\ Responses(r)' = Responses(r)
      /\ Gathered(r)' = Gathered(r) /\ Waiting(r) = 0
  BY <1>1, <1>4, <1>6 DEF Pushed, Waiting, Gathered, Responses
<1>10. Local(r)'
  <2>1. Place(r)'
    BY <1>1, <1>2, <1>4, <1>6 DEF Place
  <2>2. Calls(r)'
    <3>1. Within(r)' = Within(r)
      BY <1>1, <1>4, <1>6, <1>9 DEF Within
    <3> QED
      BY <1>2, <1>4, <1>5, <3>1, CallsSame
  <2>3. Commits(r)'
    <3>3. batch[r] \in Nat
      BY <1>2, RankTypes
    <3>4. Pushed(r) = batch[r]
      BY <1>1 DEF Pushed
    <3>1. Pushed(r) \in Nat /\ Pushed(r) \in 0 .. Pushed(r)
      BY <3>3, <3>4
    <3>2. pending'[r] = (Pushed(r) + 1) .. Pushed(r)
      BY <1>15, <3>1
    <3> QED
      BY <1>4, <1>9, <1>15, <3>1, <3>2 DEF Commits
  <2>4. Views(r)' /\ Offers(r)'
    BY <1>2, <1>4, <1>5, <1>9, ConstKept DEF Views, Offers
  <2>5. Seen(r)'
    BY <1>6 DEF Seen
  <2> QED
    BY <2>1, <2>2, <2>3, <2>4, <2>5 DEF Local
<1>11. Replicas(r)'
  <2>1. Launched(r)' = Launched(r)
    BY <1>4, <1>9 DEF Launched
  <2>2. \A j : Arrived(j)' = Arrived(j)
    BY <1>4 DEF Arrived
  <2> QED
    BY <1>4, <1>16, <2>1, <2>2 DEF Replicas
<1>12. \A p \in Rank : Extends(p)
  <2>1. \A p \in Rank : Len(offer[p]) \in Nat
    BY <1>2, RankTypes
  <2> QED
    BY <1>4, <2>1 DEF Extends
<1>13. entered'[r] >= entered[r] /\ \A p \in Rank \ {r} : entered[p] >= entered'[r] - Waiting(r)'
  <2>1. \A p \in Rank : entered[p] >= entered[r] - Waiting(r)
    BY Unfold DEF Meet
  <2> QED
    BY <1>3, <1>4, <1>9, <2>1
<1>14. \A p, q \in Rank : Answers(p, q)'
  BY <1>4, <1>5, <1>7, <1>9, FrameAnswers
<1> QED
  BY <1>5, <1>7, <1>8, <1>10, <1>11, <1>12, <1>13, <1>14, StepKeeps

(* The gathers of two epochs do not have the same numbers.                 *)
LEMMA SameWindow ==
    ASSUME NEW e \in Nat, NEW f \in Nat, NEW w \in Nat, NEW k \in 1 .. w, NEW b \in 1 .. w,
           e * w + k = f * w + b
    PROVE  k = b
<1>1. e < f => e * w + w <= f * w
  <2> SUFFICES ASSUME e < f PROVE e * w + w <= f * w
    OBVIOUS
  <2>1. e + 1 \in Int /\ e + 1 <= f
    OBVIOUS
  <2>2. (e + 1) * w <= f * w /\ (e + 1) * w = e * w + w
    BY <2>1, Product
  <2> QED
    BY <2>2
<1>2. f < e => f * w + w <= e * w
  <2> SUFFICES ASSUME f < e PROVE f * w + w <= e * w
    OBVIOUS
  <2>1. f + 1 \in Int /\ f + 1 <= e
    OBVIOUS
  <2>2. (f + 1) * w <= e * w /\ (f + 1) * w = f * w + w
    BY <2>1, Product
  <2> QED
    BY <2>2
<1>3. e = f \/ e < f \/ f < e
  OBVIOUS
<1> DEFINE x == e * w
           y == f * w
<1>4. x \in Int /\ y \in Int /\ x + k = y + b /\ (e = f => x = y)
      /\ (e < f => x + w <= y) /\ (f < e => y + w <= x)
  BY <1>1, <1>2
<1> HIDE DEF x, y
<1> QED
  BY <1>3, <1>4

(* submit_commit of a bounded run: what the filter let through is one more *)
(* gather, of the rows of the window just trained.                         *)
LEMMA OffersKept ==
    ASSUME Types, Const, NEW r \in Rank, Place(r), Offers(r), bounded, pc[r] = "push",
           NEW kept \in SUBSET Candidates(r),
           offer' = [offer EXCEPT ![r] = Append(@,
              UNION {{[node |-> n, row |-> i] : i \in WritesBy(r, n, batch[r])} : n \in kept})],
           epoch'[r] = epoch[r], Pushed(r)' = Pushed(r) + 1
    PROVE  /\ Offers(r)' /\ \A p \in Rank : Extends(p)
           /\ \A p \in Rank \ {r} : offer'[p] = offer[p]
           /\ offer' \in [Rank -> Seq(SUBSET [node : Hot, row : 1 .. Len(table)])]
<1> DEFINE new == UNION {{[node |-> n, row |-> i] : i \in WritesBy(r, n, batch[r])} : n \in kept}
           base == (epoch[r] - 1) * Windows
           b == batch[r]
           last == Len(offer[r]) + 1
<1>1. offer \in [Rank -> Seq(SUBSET [node : Hot, row : 1 .. Len(table)])]
  BY TypesAre
<1>2. ASSUME NEW d \in new
      PROVE  /\ d \in [node : Hot, row : 1 .. Len(table)]
             /\ d.row \in WritesIn(table, d.node, b)
  <2>1. PICK n \in kept : \E i \in WritesBy(r, n, b) : d = [node |-> n, row |-> i]
    OBVIOUS
  <2>2. PICK i \in WritesBy(r, n, b) : d = [node |-> n, row |-> i]
    BY <2>1
  <2>3. n \in Hot /\ n \in Node
    BY HotAssumption DEF Candidates
  <2>4. i \in WritesIn(table, n, b)
    BY <2>3, WritesAre DEF WritesBy
  <2>5. i \in 1 .. Len(table)
    <3>1. i \in Nat /\ i >= 1 /\ i <= Len(table) /\ Len(table) \in Nat
      BY <2>4, PastTypes, RowTypes DEF Types
    <3> QED
      BY <3>1
  <2> QED
    BY <2>2, <2>3, <2>4, <2>5
<1>3. new \in SUBSET [node : Hot, row : 1 .. Len(table)]
  BY <1>2
<1>4. /\ b \in Nat /\ b >= 1 /\ b <= Windows /\ Windows \in Nat /\ b \in 1 .. Windows
      /\ base \in Nat /\ epoch[r] - 1 \in Nat
  <2>1. b \in Nat /\ b <= Windows /\ Windows \in Nat /\ epoch[r] \in Nat /\ epoch[r] >= 1
    BY RankTypes
  <2>2. b >= 1
    BY DEF Place
  <2> QED
    BY <2>1, <2>2, LaunchedIs
<1>5. Len(offer[r]) = base + (b - 1) /\ Len(offer[r]) \in Nat
  BY RankTypes DEF Offers, Pushed
<1> HIDE DEF new
<1>6. /\ offer'[r] = Append(offer[r], new) /\ \A p \in Rank \ {r} : offer'[p] = offer[p]
      /\ offer' = [offer EXCEPT ![r] = Append(offer[r], new)]
  BY <1>1 DEF new
<1>7. offer[r] \in Seq(SUBSET [node : Hot, row : 1 .. Len(table)])
  BY <1>1
<1>8. /\ offer'[r] \in Seq(SUBSET [node : Hot, row : 1 .. Len(table)])
      /\ Len(offer'[r]) = last /\ offer'[r][last] = new
      /\ \A j \in 1 .. Len(offer[r]) : offer'[r][j] = offer[r][j]
  BY <1>3, <1>6, <1>7
<1>9. offer' \in [Rank -> Seq(SUBSET [node : Hot, row : 1 .. Len(table)])]
  BY <1>1, <1>6, <1>8
<1>10. \A p \in Rank : Extends(p)
  <2> SUFFICES ASSUME NEW p \in Rank PROVE Extends(p)
    OBVIOUS
  <2>1. Len(offer[p]) \in Nat
    BY RankTypes
  <2>2. CASE p = r
    BY <1>8, <2>1, <2>2 DEF Extends
  <2>3. CASE p # r
    BY <1>6, <2>1, <2>3 DEF Extends
  <2> QED
    BY <2>2, <2>3
<1> DEFINE Rows(e, k) == \A d \in offer'[r][e * Windows + k] : d.row \in WritesIn(table, d.node, k)
<1>11. ASSUME NEW e \in 0 .. Epochs, NEW k \in 1 .. Windows, e * Windows + k <= last
       PROVE  Rows(e, k)
  <2> DEFINE j == e * Windows + k
  <2>1. e \in Nat /\ k \in Nat /\ k >= 1 /\ e * Windows \in Nat /\ j \in Nat /\ j >= 1
    <3>1. e \in Nat /\ k \in Nat /\ k >= 1
      BY <1>4, SizeAssumption
    <3>2. e * Windows \in Nat
      BY <1>4, <3>1
    <3> QED
      BY <3>1, <3>2
  <2>2. CASE j = last
    <3>1. j = (epoch[r] - 1) * Windows + b
      BY <1>4, <1>5, <2>2, SMTT(30)
    <3>2. k = b
      BY <1>4, <2>1, <3>1, SameWindow
    <3>3. offer'[r][j] = new
      BY <1>8, <2>2
    <3> QED
      BY <1>2, <3>2, <3>3
  <2>3. CASE j # last
    <3>0. j <= last
      BY <1>11
    <3> HIDE DEF j
    <3>1. j \in 1 .. Len(offer[r])
      BY <1>5, <2>1, <2>3, <3>0
    <3>2. j <= Len(offer[r])
      BY <3>1
    <3>3. \A d \in offer[r][e * Windows + k] : d.row \in WritesIn(table, d.node, k)
      BY <3>2 DEF Offers, j
    <3>4. offer'[r][j] = offer[r][j]
      BY <1>8, <3>1
    <3> QED
      BY <3>3, <3>4 DEF j
  <2> QED
    BY <2>2, <2>3
<1>12. Len(offer'[r]) = base + Pushed(r)'
  <2>1. Pushed(r)' = b
    BY <1>4 DEF Pushed
  <2> QED
    BY <1>4, <1>5, <1>8, <2>1
<1>13. Offers(r)'
  BY <1>8, <1>11, <1>12 DEF Offers, Const
<1> QED
  BY <1>6, <1>9, <1>10, <1>13

(* submit_commit, once all ranks know what they push to each other.        *)
LEMMA PushKeeps ==
    ASSUME Inv, NEW r \in Rank, Push(r)
    PROVE  Inv'
<1>1. /\ pc[r] = "push" /\ AllEntered(r)
      /\ pending' = [pending EXCEPT ![r] = @ \cup {batch[r]}]
      /\ UNCHANGED <<progress, reads, owned, replicas>>
  BY DEF Push
<1>2. /\ Types /\ Place(r) /\ Calls(r) /\ Commits(r) /\ Views(r) /\ Offers(r) /\ Replicas(r)
  BY Unfold
<1>3. pc \in [Rank -> Places] /\ entered \in [Rank -> Nat]
      /\ pending \in [Rank -> SUBSET (1 .. Windows)]
      /\ skipped \in [Rank -> [Hot -> 0 .. MaxSkip]]
      /\ offer \in [Rank -> Seq(SUBSET [node : Hot, row : 1 .. Len(table)])]
  BY <1>2, TypesAre
<1>4. /\ table' = table /\ bounded' = bounded /\ epoch' = epoch /\ requested' = requested
      /\ batch' = batch /\ view' = view /\ answer' = answer /\ seen' = seen
      /\ owned' = owned /\ shared' = shared /\ syncs' = syncs
  BY <1>1 DEF progress, reads, replicas
<1>5. Const
  BY <1>4 DEF Const
<1>6. /\ batch[r] \in Nat /\ batch[r] >= 1 /\ batch[r] <= Windows /\ Windows \in Nat
      /\ requested[r] \in Nat /\ requested[r] <= Windows
  BY <1>1, <1>2, RankTypes DEF Place
<1>7. /\ pending'[r] = pending[r] \cup {batch[r]} /\ pending' \in [Rank -> SUBSET (1 .. Windows)]
      /\ \A q \in Rank \ {r} : pending'[q] = pending[q]
  <2>1. batch[r] \in 1 .. Windows
    BY <1>6
  <2> QED
    BY <1>1, <1>3, <2>1
<1>8. Pushed(r) = batch[r] - 1 /\ Waiting(r) = 1 /\ Responses(r) = requested[r]
  BY <1>1 DEF Pushed, Waiting, Responses
<1>20. ASSUME Pushed(r)' = batch[r], pc'[r] \notin {"respond", "reset"}
       PROVE  Commits(r)'
  <2>1. PICK w \in 0 .. Pushed(r) : /\ pending[r] = (w + 1) .. Pushed(r)
                                    /\ \A n \in Owned(r) : Stored(table, owned[n], n, w)
    BY <1>2 DEF Commits
  <2>2. w \in Nat /\ w <= batch[r] - 1
    BY <1>6, <1>8, <2>1
  <2>3. pending'[r] = (w + 1) .. batch[r]
    BY <1>6, <1>7, <1>8, <2>1, <2>2
  <2>4. w \in 0 .. batch[r]
    BY <1>6, <2>2
  <2> QED
    BY <1>4, <1>20, <2>1, <2>3, <2>4 DEF Commits
<1>21. Views(r)'
  BY <1>2, <1>4, <1>5, ConstKept DEF Views
<1>22. epoch[r] # Epochs + 1
  BY <1>1, <1>2 DEF Place
<1>23. \A p \in Rank : entered[p] >= entered[r] /\ entered[p] \in Nat
  BY <1>1, <1>3 DEF AllEntered
<1>24. CASE ~bounded
  <2>1. pc' = [pc EXCEPT ![r] = AfterCommit(r)] /\ offer' = offer /\ skipped' = skipped
        /\ entered' = entered
    BY <1>24 DEF Push, publish
  <2>2. pc'[r] = AfterCommit(r) /\ requested[r] = batch[r]
    BY <1>1, <1>2, <1>3, <1>24, <2>1 DEF Place
  <2>3. pc'[r] \in {"end", "request", "train"}
    BY <1>2, <2>2, AfterCommitIs
  <2>4. /\ pc'[r] = "end" => batch[r] = Windows
        /\ pc'[r] = "request" => batch[r] < Windows /\ requested[r] < Windows
        /\ pc'[r] # "train"
    <3>1. /\ pc'[r] = "end" => batch[r] = Windows
          /\ pc'[r] = "request" => batch[r] < Windows /\ requested[r] < Windows
          /\ pc'[r] = "train" => batch[r] < Windows /\ requested[r] = Windows
      BY <1>2, <2>2, AfterCommitIs
    <3> QED
      BY <1>6, <2>2, <3>1
  <2>5. Pushed(r)' = batch[r] /\ Waiting(r)' = 0 /\ Responses(r)' = requested[r]
    BY <1>4, <2>3 DEF Pushed, Waiting, Responses
  <2>6. \A q \in Rank \ {r} : Same(q)
    BY <1>3, <1>4, <1>7, <2>1 DEF Same
  <2>7. Types'
    <3>1. pc' \in [Rank -> Places]
      BY <1>2, <1>3, <2>1, AfterCommitIs
    <3> QED
      BY <1>2, <1>4, <1>5, <1>7, <2>1, <3>1, TypesAre, TypesKept
  <2>8. Place(r)'
    BY <1>4, <1>22, <1>24, <2>2, <2>3, <2>4 DEF Place
  <2>9. Calls(r)'
    <3>1. Within(r)' = Within(r)
      BY <1>1, <1>4, <1>24, <2>3 DEF Within
    <3> QED
      BY <1>2, <1>4, <1>5, <2>1, <3>1, CallsSame
  <2>10. Offers(r)' /\ Seen(r)'
    BY <1>2, <1>4, <1>24, <2>1, <2>3 DEF Offers, Seen
  <2>11. Local(r)'
    BY <1>20, <1>21, <2>3, <2>5, <2>8, <2>9, <2>10 DEF Local
  <2>12. \A p \in Rank : Extends(p) /\ Len(offer'[p]) \in Nat
    <3>1. \A p \in Rank : Len(offer[p]) \in Nat
      BY <1>2, RankTypes
    <3> QED
      BY <2>1, <3>1 DEF Extends
  <2>13. Replicas(r)'
    <3>1. Launched(r)' = Launched(r)
      BY <1>4, <1>24 DEF Launched, Gathered
    <3> QED
      BY <1>2, <1>4, <1>5, <2>12, <3>1, FrameReplicas
  <2>14. entered'[r] >= entered[r] /\ \A p \in Rank \ {r} : entered[p] >= entered'[r] - Waiting(r)'
    BY <1>23, <2>1, <2>5
  <2>15. \A p, q \in Rank : Answers(p, q)'
    BY <1>4, <1>5, <1>8, <2>5, <2>6, FrameAnswers
  <2> QED
    BY <1>5, <2>6, <2>7, <2>11, <2>12, <2>13, <2>14, <2>15, StepKeeps
<1>25. CASE bounded
  <2>1. PICK kept \in SUBSET Candidates(r) :
          /\ \A n \in Candidates(r) : Forced(r, n) => n \in kept
          /\ offer' = [offer EXCEPT ![r] = Append(@,
                UNION {{[node |-> n, row |-> i] :
                           i \in WritesBy(r, n, batch[r])} : n \in kept})]
          /\ skipped' = [skipped EXCEPT ![r] =
                [n \in Hot |-> IF n \notin Candidates(r) THEN @[n]
                               ELSE IF n \in kept THEN 0 ELSE @[n] + 1]]
          /\ EnterGather(r, kept)
          /\ pc' = [pc EXCEPT ![r] = "gather"]
    BY <1>25 DEF Push
  <2>2. entered' = [entered EXCEPT ![r] = @ + 1]
    BY <2>1 DEF EnterGather, Enter
  <2>3. pc'[r] = "gather" /\ entered'[r] = entered[r] + 1
    BY <1>3, <2>1, <2>2
  <2>4. Pushed(r)' = batch[r] /\ Waiting(r)' = 1 /\ Responses(r)' = requested[r]
        /\ Gathered(r)' = Gathered(r)
    BY <1>1, <1>4, <2>3 DEF Pushed, Waiting, Responses, Gathered
  <2>5. Pushed(r)' = Pushed(r) + 1
    BY <1>6, <1>8, <2>4
  <2>6. /\ Offers(r)' /\ \A p \in Rank : Extends(p)
        /\ \A p \in Rank \ {r} : offer'[p] = offer[p]
        /\ offer' \in [Rank -> Seq(SUBSET [node : Hot, row : 1 .. Len(table)])]
    BY <1>1, <1>2, <1>4, <1>5, <1>25, <2>1, <2>5, OffersKept
  <2>7. \A q \in Rank \ {r} : Same(q)
    BY <1>3, <1>4, <1>7, <2>1, <2>2, <2>6 DEF Same
  <2>8. skipped' \in [Rank -> [Hot -> 0 .. MaxSkip]]
    <3> DEFINE row == [n \in Hot |-> IF n \notin Candidates(r) THEN skipped[r][n]
                                     ELSE IF n \in kept THEN 0 ELSE skipped[r][n] + 1]
    <3>1. skipped' = [skipped EXCEPT ![r] = row]
      BY <2>1
    <3>2. ASSUME NEW n \in Hot PROVE row[n] \in 0 .. MaxSkip
      <4>1. skipped[r][n] \in 0 .. MaxSkip /\ MaxSkip \in Nat
        BY <1>3, SizeAssumption
      <4>2. n \in Candidates(r) /\ n \notin kept => ~ (skipped[r][n] >= MaxSkip)
        BY <2>1 DEF Forced
      <4> QED
        BY <4>1, <4>2
    <3>3. row \in [Hot -> 0 .. MaxSkip]
      BY <3>2
    <3> HIDE DEF row
    <3> QED
      BY <1>3, <3>1, <3>3
  <2>9. Types'
    <3>1. pc' \in [Rank -> Places] /\ entered' \in [Rank -> Nat]
      BY <1>3, <2>1, <2>2 DEF Places
    <3> QED
      BY <1>2, <1>4, <1>5, <1>7, <2>6, <2>8, <3>1, TypesAre, TypesKept
  <2>10. Place(r)'
    BY <1>1, <1>2, <1>4, <1>22, <1>25, <2>3 DEF Place, AtMost
  <2>11. Calls(r)'
    <3>1. Within(r)' = requested[r] + batch[r] + Pushed(r)'
      BY <1>4, <1>25, <2>3 DEF Within
    <3>2. Within(r) = requested[r] + batch[r] + Pushed(r)
      BY <1>1, <1>25 DEF Within
    <3>3. Within(r)' = Within(r) + 1
      BY <1>6, <1>8, <2>4, <3>1, <3>2
    <3> QED
      BY <1>2, <1>4, <1>5, <2>3, <3>3, CallsKept
  <2>12. Seen(r)'
    BY <2>3 DEF Seen
  <2>13. Local(r)'
    BY <1>20, <1>21, <2>3, <2>4, <2>6, <2>10, <2>11, <2>12 DEF Local
  <2>14. \A p \in Rank : Len(offer'[p]) \in Nat
    BY <2>6
  <2>15. Replicas(r)'
    <3>1. Launched(r)' = Launched(r)
      BY <1>4, <2>4 DEF Launched
    <3> QED
      BY <1>2, <1>4, <1>5, <2>6, <2>14, <3>1, FrameReplicas
  <2>16. entered'[r] >= entered[r] /\ \A p \in Rank \ {r} : entered[p] >= entered'[r] - Waiting(r)'
    <3>1. entered[r] \in Nat
      BY <1>3
    <3> QED
      BY <1>23, <2>3, <2>4, <3>1
  <2>17. \A p, q \in Rank : Answers(p, q)'
    BY <1>4, <1>5, <1>8, <2>4, <2>7, FrameAnswers
  <2> QED
    BY <1>5, <2>6, <2>7, <2>9, <2>13, <2>15, <2>16, <2>17, StepKeeps
<1> QED
  BY <1>24, <1>25

(* What a rank reads is as old as the lag, its first two windows apart.    *)
LEMMA LagIs ==
    ASSUME Types, NEW r \in Rank, Place(r), NEW n
    PROVE  /\ pc[r] = "request" =>
                PastIn(table, n, requested[r] + 1 - Lag) = PastIn(table, n, batch[r])
           /\ pc[r] = "respond" =>
                PastIn(table, n, requested[r] - Lag) = PastIn(table, n, batch[r])
<1>1. /\ requested[r] \in Nat /\ batch[r] \in Nat /\ bounded \in BOOLEAN
      /\ TableOK(table)
  BY RankTypes DEF Types
<1>2. PastIn(table, n, -1) = PastIn(table, n, 0)
  BY <1>1, PastNone
<1>3. CASE pc[r] = "request"
  <2>1. \/ requested[r] + 1 - Lag = batch[r]
        \/ requested[r] + 1 - Lag = -1 /\ batch[r] = 0
    BY <1>1, <1>3 DEF Place, Lag
  <2> QED
    BY <1>2, <1>3, <2>1
<1>4. CASE pc[r] = "respond"
  <2>1. \/ requested[r] - Lag = batch[r]
        \/ requested[r] - Lag = -1 /\ batch[r] = 0
    BY <1>1, <1>4 DEF Place, Lag
  <2> QED
    BY <1>2, <1>4, <2>1
<1> QED
  BY <1>3, <1>4

(* A replica never holds what its owner has not yet been sent.             *)
LEMMA ReplicaPast ==
    ASSUME Inv, NEW r \in Rank, NEW n \in Hot, NEW js \in SUBSET Launched(r),
           \A j \in js : Arrived(j)
    PROVE  RowsOfGathers(offer, n, js) \subseteq PastIn(table, n, Gathered(r))
<1> SUFFICES ASSUME NEW j \in js, NEW i \in RowsOfGather(offer, n, j)
             PROVE  i \in PastIn(table, n, Gathered(r))
  BY DEF RowsOfGathers
<1>1. PICK k \in 1 .. Gathered(r) :
         \A m \in Hot : RowsOfGather(offer, m, j) \subseteq WritesIn(table, m, k)
  BY WindowOf
<1>2. i \in WritesIn(table, n, k)
  BY <1>1
<1>3. Gathered(r) \in Int
  BY Unfold, LaunchedIs
<1>4. k \in Int /\ k <= Gathered(r)
  BY <1>3
<1>5. TableOK(table)
  BY DEF Inv, Types
<1>6. WritesIn(table, n, k) \subseteq PastIn(table, n, Gathered(r))
  BY <1>3, <1>4, <1>5, PastMonotone
<1> QED
  BY <1>2, <1>6

(* submit_hydrate_state.                                                   *)
LEMMA RequestKeeps ==
    ASSUME Inv, NEW r \in Rank, Request(r)
    PROVE  Inv'
<1> DEFINE new == [n \in {m \in Node : ~FromOther(r, m)} |->
                     IF FromReplica(r, n) THEN shared'[r][n] ELSE owned'[n]]
<1>1. /\ pc[r] = "request" /\ Poll(r) /\ FinishOwner(r)
      /\ view' = [view EXCEPT ![r] = Append(@, new)]
      /\ requested' = [requested EXCEPT ![r] = @ + 1]
      /\ entered' = [entered EXCEPT ![r] = @ + 1] /\ pc' = [pc EXCEPT ![r] = "respond"]
      /\ table' = table /\ bounded' = bounded /\ epoch' = epoch /\ batch' = batch
      /\ answer' = answer /\ seen' = seen /\ offer' = offer /\ skipped' = skipped
  BY DEF Request, DrainBeforeRead, Enter, publish
<1>2. /\ Types /\ Place(r) /\ Calls(r) /\ Commits(r) /\ Views(r) /\ Offers(r)
  BY Unfold
<1>3. /\ pc \in [Rank -> Places] /\ entered \in [Rank -> Nat]
      /\ requested \in [Rank -> 0 .. Windows]
      /\ DOMAIN view = Rank /\ \A q \in Rank : view[q] \in Seq([Here(q) -> Groups])
  BY <1>2, TypesAre
<1>5. Const
  BY <1>1 DEF Const
<1>6. /\ pc'[r] = "respond" /\ entered'[r] = entered[r] + 1
      /\ requested'[r] = requested[r] + 1
  BY <1>1, <1>3
<1>15. /\ \A n \in Owned(r) : Stored(table, owned'[n], n, Pushed(r))
       /\ \A n \in Node \ Owned(r) : owned'[n] = owned[n]
       /\ owned' \in [Node -> GroupOf(table)]
       /\ pending'[r] = {} /\ pending' \in [Rank -> SUBSET (1 .. Windows)]
       /\ \A q \in Rank \ {r} : pending'[q] = pending[q]
  BY <1>1, OwnerFinished
<1>16. /\ syncs'[r] \subseteq Launched(r)
       /\ \A j \in Launched(r) \ syncs'[r] : Arrived(j)
       /\ \A n \in Hot : Refreshed(table, offer, shared'[r][n], n, Launched(r) \ syncs'[r])
       /\ shared' \in [Rank -> [Hot -> GroupOf(table)]]
       /\ syncs' \in [Rank -> SUBSET (Nat \ {0})]
       /\ \A q \in Rank \ {r} : shared'[q] = shared[q] /\ syncs'[q] = syncs[q]
  BY <1>1, Polled
<1>17. /\ batch[r] \in Nat /\ requested[r] \in Nat /\ requested[r] < Windows
       /\ Windows \in Nat /\ bounded \in BOOLEAN /\ TableOK(table)
  BY <1>1, <1>2, RankTypes DEF Place, Types
<1>9. /\ Pushed(r) = batch[r] /\ Pushed(r)' = batch[r]
      /\ Waiting(r) = 0 /\ Waiting(r)' = 1 /\ Gathered(r)' = Gathered(r)
      /\ (bounded => Gathered(r) = batch[r])
  BY <1>1, <1>6 DEF Pushed, Waiting, Gathered
<1>18. Responses(r)' = Responses(r)
  BY <1>1, <1>6, <1>17 DEF Responses
<1>19. /\ new \in [Here(r) -> Groups]
       /\ \A n \in Node : Owner[n] = r => new[n] = owned'[n]
       /\ \A n \in Node : FromReplica(r, n) => new[n] = shared'[r][n]
  BY <1>15, <1>16 DEF Here, Groups, FromReplica, FromOther
<1> HIDE DEF new
<1>20. view'[r] = Append(view[r], new) /\ \A q \in Rank \ {r} : view'[q] = view[q]
  BY <1>1, <1>3
<1>7. \A q \in Rank \ {r} : Same(q)
  <2> SUFFICES ASSUME NEW q \in Rank \ {r} PROVE Same(q)
    OBVIOUS
  <2>1. pc'[q] = pc[q] /\ entered'[q] = entered[q] /\ requested'[q] = requested[q]
    BY <1>1, <1>3
  <2>2. \A n \in Owned(q) : n \in Node \ Owned(r)
    BY DEF Owned
  <2> QED
    BY <1>1, <1>15, <1>16, <1>20, <2>1, <2>2 DEF Same
<1>8. Types'
  <2>1. pc' \in [Rank -> Places] /\ entered' \in [Rank -> Nat]
    BY <1>1, <1>3 DEF Places
  <2>2. requested' \in [Rank -> 0 .. Windows]
    BY <1>1, <1>3, <1>17
  <2>3. DOMAIN view' = Rank
    BY <1>1, <1>3
  <2>4. \A q \in Rank : view'[q] \in Seq([Here(q) -> Groups])
    <3>1. view'[r] \in Seq([Here(r) -> Groups])
      <4>1. view[r] \in Seq([Here(r) -> Groups])
        BY <1>3
      <4> DEFINE G == [Here(r) -> Groups]
      <4>2. view[r] \in Seq(G) /\ new \in G
        BY <1>19, <4>1
      <4> HIDE DEF G
      <4>3. view'[r] \in Seq(G)
        BY <1>20, <4>2, AppendProperties
      <4> QED
        BY <4>3 DEF G
    <3>2. \A q \in Rank \ {r} : view'[q] \in Seq([Here(q) -> Groups])
      BY <1>3, <1>20
    <3> QED
      BY <3>1, <3>2
  <2> QED
    BY <1>1, <1>2, <1>5, <1>15, <1>16, <2>1, <2>2, <2>3, <2>4, TypesAre, TypesKept DEF Groups
<1>21. Views(r)'
  <2> DEFINE last == Len(view[r]) + 1
             Right(i, v) == \A n \in Node :
                /\ Owner[n] = r => Stored(table, v[n], n, batch[r] + i - Lag)
                /\ FromReplica(r, n) =>
                      v[n].memory \in PastIn(table, n, batch[r] + i - Lag) \cup {0}
  <2>1. Len(view[r]) = requested[r] - batch[r] /\ \A i \in 1 .. Len(view[r]) : Right(i, view[r][i])
    BY <1>2 DEF Views
  <2>2. /\ view[r] \in Seq([Here(r) -> Groups]) /\ Len(view[r]) \in Nat
        /\ Len(view'[r]) = last /\ view'[r][last] = new
        /\ \A i \in 1 .. Len(view[r]) : view'[r][i] = view[r][i]
    <3>1. view[r] \in Seq([Here(r) -> Groups]) /\ new \in [Here(r) -> Groups]
      BY <1>3, <1>19
    <3> QED
      BY <3>1, <1>20, AppendProperties
  <2>3. batch[r] + last - Lag = requested[r] + 1 - Lag
    BY <1>17, <2>1, <2>2 DEF Lag
  <2>4. \A n : PastIn(table, n, batch[r] + last - Lag) = PastIn(table, n, batch[r])
    BY <1>1, <1>2, <2>3, LagIs
  <2>5. Right(last, new)
    <3> SUFFICES ASSUME NEW n \in Node
                 PROVE  /\ Owner[n] = r => Stored(table, new[n], n, batch[r] + last - Lag)
                        /\ FromReplica(r, n) =>
                              new[n].memory \in PastIn(table, n, batch[r] + last - Lag) \cup {0}
      OBVIOUS
    <3>1. ASSUME Owner[n] = r PROVE Stored(table, new[n], n, batch[r] + last - Lag)
      <4>1. Stored(table, owned'[n], n, batch[r])
        BY <1>9, <1>15, <3>1 DEF Owned
      <4> QED
        BY <1>19, <2>4, <3>1, <4>1 DEF Stored
    <3>2. ASSUME FromReplica(r, n)
          PROVE  new[n].memory \in PastIn(table, n, batch[r] + last - Lag) \cup {0}
      <4>1. n \in Hot /\ bounded
        BY <3>2 DEF FromReplica
      <4>2. RowsOfGathers(offer, n, Launched(r) \ syncs'[r]) \subseteq PastIn(table, n, Gathered(r))
        BY <1>16, <4>1, ReplicaPast
      <4>3. shared'[r][n].memory \in RowsOfGathers(offer, n, Launched(r) \ syncs'[r]) \cup {0}
        BY <1>16, <4>1 DEF Refreshed
      <4> QED
        BY <1>9, <1>19, <2>4, <3>2, <4>1, <4>2, <4>3
    <3> QED
      BY <3>1, <3>2
  <2> HIDE DEF Right
  <2>6. \A i \in 1 .. Len(view'[r]) : Right(i, view'[r][i])
    <3> SUFFICES ASSUME NEW i \in 1 .. Len(view'[r]) PROVE Right(i, view'[r][i])
      OBVIOUS
    <3>1. i = last \/ i \in 1 .. Len(view[r])
      BY <2>2
    <3> QED
      BY <2>1, <2>2, <2>5, <3>1
  <2>7. Len(view'[r]) = requested'[r] - batch'[r]
    BY <1>1, <1>6, <1>17, <2>1, <2>2, SMTT(30)
  <2> QED
    BY <1>1, <1>5, <2>6, <2>7, ConstKept DEF Views, Right
<1>10. Local(r)'
  <2>1. Place(r)'
    <3>1. epoch[r] # Epochs + 1
      BY <1>1, <1>2 DEF Place
    <3>2. requested[r] = IF bounded /\ (requested[r] # 0 \/ batch[r] # 0)
                         THEN batch[r] + 1 ELSE batch[r]
      BY <1>1, <1>2 DEF Place
    <3>3. requested'[r] = IF bounded /\ (requested'[r] # 1 \/ batch[r] # 0)
                          THEN batch[r] + 2 ELSE batch[r] + 1
      BY <1>6, <1>17, <3>2
    <3> QED
      BY <1>1, <1>6, <3>1, <3>3 DEF Place
  <2>2. Calls(r)'
    <3>1. Within(r)' = Within(r) + 1
      BY <1>1, <1>6, <1>9, <1>17 DEF Within
    <3> QED
      BY <1>1, <1>2, <1>5, <1>6, <3>1, CallsKept
  <2>3. Commits(r)'
    <3>1. batch[r] \in 0 .. batch[r] /\ pending'[r] = (batch[r] + 1) .. batch[r]
      BY <1>15, <1>17
    <3> QED
      BY <1>1, <1>9, <1>15, <3>1 DEF Commits
  <2>4. Offers(r)'
    BY <1>1, <1>2, <1>9 DEF Offers
  <2>5. Seen(r)'
    BY <1>6 DEF Seen
  <2> QED
    BY <1>21, <2>1, <2>2, <2>3, <2>4, <2>5 DEF Local
<1>11. Replicas(r)'
  <2>1. Launched(r)' = Launched(r)
    BY <1>1, <1>9 DEF Launched
  <2>2. \A j : Arrived(j)' = Arrived(j)
    BY <1>1 DEF Arrived
  <2> QED
    BY <1>1, <1>16, <2>1, <2>2 DEF Replicas
<1>12. \A p \in Rank : Extends(p)
  <2>1. \A p \in Rank : Len(offer[p]) \in Nat
    BY <1>2, RankTypes
  <2> QED
    BY <1>1, <2>1 DEF Extends
<1>13. entered'[r] >= entered[r] /\ \A p \in Rank \ {r} : entered[p] >= entered'[r] - Waiting(r)'
  <2>1. \A p \in Rank : entered[p] >= entered[r] - Waiting(r) /\ entered[p] \in Nat
    BY <1>3, Unfold DEF Meet
  <2> QED
    BY <1>6, <1>9, <2>1
<1>14. \A p, q \in Rank : Answers(p, q)'
  BY <1>1, <1>5, <1>7, <1>18, FrameAnswers
<1> QED
  BY <1>5, <1>7, <1>8, <1>10, <1>11, <1>12, <1>13, <1>14, StepKeeps

(* The owner's side of the fetch: every rank asks for the same window.     *)
LEMMA RespondKeeps ==
    ASSUME Inv, NEW r \in Rank, Respond(r)
    PROVE  Inv'
<1> DEFINE new == [n \in Owned(r) |-> owned[n]]
           next == IF bounded /\ batch[r] = 0 /\ requested[r] = 1 /\ Windows > 1
                   THEN "request" ELSE "train"
<1>1. /\ pc[r] = "respond" /\ AllEntered(r)
      /\ answer' = [answer EXCEPT ![r] = [p \in Rank |-> Append(@[p], new)]]
      /\ pc' = [pc EXCEPT ![r] = next]
      /\ UNCHANGED <<progress, view, seen, commits, replicas, publish, entered>>
  BY DEF Respond
<1>2. /\ Types /\ Place(r) /\ Calls(r) /\ Commits(r) /\ Views(r) /\ Offers(r) /\ Replicas(r)
  BY Unfold
<1>3. /\ pc \in [Rank -> Places] /\ entered \in [Rank -> Nat] /\ owned \in [Node -> Groups]
      /\ DOMAIN answer = Rank
      /\ \A p \in Rank : /\ DOMAIN answer[p] = Rank
                         /\ \A q \in Rank : answer[p][q] \in Seq([Owned(p) -> Groups])
  BY <1>2, TypesAre
<1>4. /\ table' = table /\ bounded' = bounded /\ epoch' = epoch /\ requested' = requested
      /\ batch' = batch /\ view' = view /\ seen' = seen /\ owned' = owned
      /\ pending' = pending /\ shared' = shared /\ syncs' = syncs /\ offer' = offer
      /\ skipped' = skipped /\ entered' = entered
  BY <1>1 DEF progress, commits, replicas, publish
<1>5. Const
  BY <1>4 DEF Const
<1>6. /\ batch[r] \in Nat /\ requested[r] \in Nat /\ requested[r] <= Windows
      /\ Windows \in Nat /\ bounded \in BOOLEAN /\ TableOK(table)
  BY <1>2, RankTypes DEF Types
<1>7. requested[r] = IF bounded /\ (requested[r] # 1 \/ batch[r] # 0)
                     THEN batch[r] + 2 ELSE batch[r] + 1
  BY <1>1, <1>2 DEF Place
<1>8. /\ pc'[r] = next /\ pc'[r] \in {"request", "train"}
      /\ \A q \in Rank \ {r} : pc'[q] = pc[q]
  BY <1>1, <1>3
<1>9. /\ Pushed(r)' = Pushed(r) /\ Waiting(r)' = 0 /\ Gathered(r)' = Gathered(r)
      /\ Responses(r) = requested[r] - 1 /\ Responses(r)' = requested[r]
      /\ Pushed(r) = batch[r]
  BY <1>1, <1>4, <1>8 DEF Pushed, Waiting, Gathered, Responses
<1>10. /\ answer'[r] = [p \in Rank |-> Append(answer[r][p], new)]
       /\ \A p \in Rank \ {r} : answer'[p] = answer[p]
       /\ DOMAIN answer' = Rank
  BY <1>1, <1>3
<1>11. new \in [Owned(r) -> Groups]
  BY <1>3 DEF Owned
<1> HIDE DEF new
<1>12. \A q \in Rank \ {r} : Same(q)
  BY <1>4, <1>8 DEF Same
<1>13. Types'
  <2>1. pc' \in [Rank -> Places]
    <3>1. next \in Places
      BY Zenon DEF Places
    <3> QED
      BY <1>1, <1>3, <3>1
  <2> DEFINE G == [Owned(r) -> Groups]
  <2>2. DOMAIN answer'[r] = Rank /\ \A q \in Rank : answer'[r][q] \in Seq([Owned(r) -> Groups])
    <3>1. ASSUME NEW q \in Rank PROVE answer'[r][q] \in Seq(G)
      <4>1. answer'[r][q] = Append(answer[r][q], new)
        BY <1>10
      <4>2. answer[r][q] \in Seq(G) /\ new \in G
        BY <1>3, <1>11
      <4> HIDE DEF G
      <4> QED
        BY <4>1, <4>2, AppendProperties
    <3> QED
      BY <1>10, <3>1
  <2>3. \A p \in Rank : /\ DOMAIN answer'[p] = Rank
                        /\ \A q \in Rank : answer'[p][q] \in Seq([Owned(p) -> Groups])
    <3> SUFFICES ASSUME NEW p \in Rank
                 PROVE  /\ DOMAIN answer'[p] = Rank
                        /\ \A q \in Rank : answer'[p][q] \in Seq([Owned(p) -> Groups])
      OBVIOUS
    <3>1. CASE p = r
      BY <2>2, <3>1
    <3>2. CASE p # r
      <4>1. answer'[p] = answer[p]
        BY <1>10, <3>2
      <4> QED
        BY <1>3, <4>1
    <3> QED
      BY <3>1, <3>2
  <2> QED
    BY <1>2, <1>4, <1>5, <1>10, <2>1, <2>3, TypesAre, TypesKept
<1>14. Local(r)'
  <2>1. Place(r)'
    <3>1. epoch[r] # Epochs + 1
      BY <1>1, <1>2 DEF Place
    <3>2. CASE bounded /\ batch[r] = 0 /\ requested[r] = 1 /\ Windows > 1
      <4>1. pc'[r] = "request"
        BY <1>8, <3>2
      <4>2. requested[r] < Windows /\ requested[r] = batch[r] + 1
        BY <1>6, <3>2
      <4> QED
        BY <1>4, <3>1, <3>2, <4>1, <4>2 DEF Place
    <3>3. CASE ~ (bounded /\ batch[r] = 0 /\ requested[r] = 1 /\ Windows > 1)
      <4>1. pc'[r] = "train"
        BY <1>8, <3>3
      <4>2. AtMost(batch[r] + 2) = IF batch[r] + 2 < Windows THEN batch[r] + 2 ELSE Windows
        BY DEF AtMost
      <4>3. /\ batch[r] < Windows
            /\ requested[r] = IF bounded THEN AtMost(batch[r] + 2) ELSE batch[r] + 1
        <5>1. CASE bounded
          BY <1>6, <1>7, <3>3, <4>2, <5>1
        <5>2. CASE ~bounded
          BY <1>6, <1>7, <5>2
        <5> QED
          BY <5>1, <5>2
      <4> QED
        BY <1>4, <3>1, <4>1, <4>3 DEF Place, AtMost
    <3> QED
      BY <3>2, <3>3
  <2>2. Calls(r)'
    <3>1. Within(r)' = Within(r)
      BY <1>1, <1>4, <1>8, <1>9 DEF Within
    <3> QED
      BY <1>2, <1>4, <1>5, <3>1, CallsSame
  <2>3. Commits(r)'
    BY <1>2, <1>4, <1>8, <1>9 DEF Commits
  <2>4. Views(r)' /\ Offers(r)'
    BY <1>2, <1>4, <1>5, <1>9, ConstKept DEF Views, Offers
  <2>5. Seen(r)'
    BY <1>8 DEF Seen
  <2> QED
    BY <2>1, <2>2, <2>3, <2>4, <2>5 DEF Local
<1>15. \A p \in Rank : Extends(p) /\ Len(offer'[p]) \in Nat
  <2>1. \A p \in Rank : Len(offer[p]) \in Nat
    BY <1>2, RankTypes
  <2> QED
    BY <1>4, <2>1 DEF Extends
<1>16. Replicas(r)'
  <2>1. Launched(r)' = Launched(r)
    BY <1>4, <1>9 DEF Launched
  <2> QED
    BY <1>2, <1>4, <1>5, <1>15, <2>1, FrameReplicas
<1>17. entered'[r] >= entered[r] /\ \A p \in Rank \ {r} : entered[p] >= entered'[r] - Waiting(r)'
  BY <1>1, <1>3, <1>4, <1>9 DEF AllEntered
<1>18. ASSUME NEW q \in Rank PROVE Answers(r, q)'
  <2>1. epoch[q] = epoch[r]
    <3>1. Meet(r, q) /\ Local(r) /\ Local(q)
      BY Unfold
    <3>2. entered[q] >= entered[r]
      BY <1>1 DEF AllEntered
    <3> QED
      BY <1>1, <1>2, <3>1, <3>2, SameEpoch
  <2>2. epoch[q] \in Nat /\ batch[q] \in Nat
    BY <1>2, RankTypes
  <2> DEFINE a == answer[r][q]
             last == Len(a) + 1
  <2>3. /\ Len(a) = requested[r] - 1 - batch[q]
        /\ \A i \in 1 .. Len(a) : \A n \in Owned(r) :
              Stored(table, a[i][n], n, batch[q] + i - Lag)
    <3>1. Answered(r, epoch[q]) = requested[r] - 1
      BY <1>9, <2>1, <2>2 DEF Answered
    <3> QED
      BY <3>1, Unfold DEF Answers
  <2>4. Answered(r, epoch[q])' = requested[r]
    BY <1>4, <1>9, <2>1, <2>2 DEF Answered
  <2>5. /\ answer'[r][q] = Append(a, new) /\ a \in Seq([Owned(r) -> Groups])
        /\ Len(a) \in Nat
    <3> DEFINE G == [Owned(r) -> Groups]
    <3>1. answer'[r][q] = Append(a, new)
      BY <1>10
    <3>2. a \in Seq(G)
      BY <1>3
    <3>3. Len(a) \in Nat
      <4> HIDE DEF G, a
      <4> QED
        BY <3>2
    <3> QED
      BY <3>1, <3>2, <3>3
  <2>6. /\ Len(answer'[r][q]) = last /\ answer'[r][q][last] = new
        /\ \A i \in 1 .. Len(a) : answer'[r][q][i] = a[i]
    BY <1>11, <2>5
  <2>7. batch[q] + last - Lag = requested[r] - Lag
    <3>1. last = requested[r] - batch[q]
      <4> HIDE DEF a
      <4> QED
        BY <1>6, <2>2, <2>3, <2>5
    <3>2. Lag \in Int
      BY DEF Lag
    <3> HIDE DEF last
    <3> QED
      BY <1>6, <2>2, <3>1, <3>2
  <2>8. \A n : PastIn(table, n, batch[q] + last - Lag) = PastIn(table, n, batch[r])
    BY <1>1, <1>2, <2>7, LagIs
  <2>9. ASSUME NEW n \in Owned(r)
        PROVE  Stored(table, new[n], n, batch[q] + last - Lag)
    <3>1. \E w \in 0 .. Pushed(r) : w = Pushed(r) /\ \A m \in Owned(r) : Stored(table, owned[m], m, w)
      BY <1>1, <1>2 DEF Commits
    <3>2. Stored(table, owned[n], n, batch[r])
      BY <1>9, <3>1
    <3>3. new[n] = owned[n]
      BY DEF new
    <3> QED
      BY <2>8, <3>2, <3>3 DEF Stored
  <2>10. Len(answer'[r][q]) = Answered(r, epoch[q])' - batch[q]
    BY <1>6, <2>2, <2>3, <2>4, <2>5, <2>6
  <2>11. \A i \in 1 .. Len(answer'[r][q]) : \A n \in Owned(r) :
            Stored(table, answer'[r][q][i][n], n, batch[q] + i - Lag)
    <3> SUFFICES ASSUME NEW i \in 1 .. Len(answer'[r][q]), NEW n \in Owned(r)
                 PROVE  Stored(table, answer'[r][q][i][n], n, batch[q] + i - Lag)
      OBVIOUS
    <3> HIDE DEF a, last
    <3>1. i = last \/ i \in 1 .. Len(a)
      BY <2>5, <2>6 DEF last
    <3>2. CASE i = last
      BY <2>6, <2>9, <3>2
    <3>3. CASE i \in 1 .. Len(a)
      BY <2>3, <2>6, <3>3
    <3> QED
      BY <3>1, <3>2, <3>3
  <2>12. Lag' = Lag
    BY <1>5, ConstKept
  <2> HIDE DEF a, last
  <2> QED
    BY <1>4, <2>10, <2>11, <2>12 DEF Answers
<1>19. ASSUME NEW p \in Rank, p # r, NEW q \in Rank PROVE Answers(p, q)'
  <2>1. answer'[p] = answer[p] /\ Responses(p)' = Responses(p)
    BY <1>4, <1>8, <1>10, <1>19 DEF Responses
  <2>2. Answered(p, epoch[q])' = Answered(p, epoch[q])
    BY <1>4, <2>1 DEF Answered
  <2>3. Answers(p, q)
    BY Unfold
  <2> QED
    BY <1>4, <1>5, <2>1, <2>2, <2>3, ConstKept DEF Answers
<1>20. \A p, q \in Rank : Answers(p, q)'
  BY <1>18, <1>19
<1> QED
  BY <1>5, <1>12, <1>13, <1>14, <1>15, <1>16, <1>17, <1>20, StepKeeps

(* finish_hydrate_state: the oldest answers and the oldest local rows are  *)
(* of the window in training.                                              *)
LEMMA TrainKeeps ==
    ASSUME Inv, NEW r \in Rank, Train(r)
    PROVE  Inv'
<1> DEFINE state == [n \in Node |-> IF FromOther(r, n) THEN Head(answer[Owner[n]][r])[n]
                                                       ELSE Head(view[r])[n]]
<1>1. /\ pc[r] = "train" /\ Poll(r) /\ \A p \in Rank : answer[p][r] # <<>>
      /\ seen' = [seen EXCEPT ![r] = state]
      /\ view' = [view EXCEPT ![r] = Tail(@)]
      /\ answer' = [p \in Rank |-> [answer[p] EXCEPT ![r] = Tail(@)]]
      /\ batch' = [batch EXCEPT ![r] = @ + 1]
      /\ pc' = [pc EXCEPT ![r] = "commit"]
      /\ table' = table /\ bounded' = bounded /\ epoch' = epoch /\ requested' = requested
      /\ owned' = owned /\ pending' = pending /\ offer' = offer /\ skipped' = skipped
      /\ entered' = entered
  BY DEF Train, commits, publish
<1>2. /\ Types /\ Place(r) /\ Calls(r) /\ Commits(r) /\ Views(r) /\ Offers(r)
  BY Unfold
<1>3. /\ pc \in [Rank -> Places] /\ entered \in [Rank -> Nat]
      /\ batch \in [Rank -> 0 .. Windows] /\ seen \in [Rank -> [Node -> Groups]]
      /\ DOMAIN view = Rank /\ \A q \in Rank : view[q] \in Seq([Here(q) -> Groups])
      /\ DOMAIN answer = Rank
      /\ \A p \in Rank : /\ DOMAIN answer[p] = Rank
                         /\ \A q \in Rank : answer[p][q] \in Seq([Owned(p) -> Groups])
  BY <1>2, TypesAre
<1>5. Const
  BY <1>1 DEF Const
<1>6. /\ batch[r] \in Nat /\ requested[r] \in Nat /\ requested[r] <= Windows
      /\ Windows \in Nat /\ bounded \in BOOLEAN /\ Lag \in Int
  <2>1. Lag \in Int
    BY DEF Lag
  <2> QED
    BY <1>2, <2>1, RankTypes
<1>7. /\ pc'[r] = "commit" /\ batch'[r] = batch[r] + 1
      /\ \A q \in Rank \ {r} : pc'[q] = pc[q] /\ batch'[q] = batch[q] /\ view'[q] = view[q]
                               /\ seen'[q] = seen[q]
  BY <1>1, <1>3
<1>8. /\ batch[r] < Windows
      /\ requested[r] = IF bounded THEN AtMost(batch[r] + 2) ELSE batch[r] + 1
  BY <1>1, <1>2 DEF Place
<1>9. requested[r] = IF bounded THEN (IF batch[r] + 2 < Windows THEN batch[r] + 2 ELSE Windows)
                     ELSE batch[r] + 1
  BY <1>8 DEF AtMost
<1>10. /\ Pushed(r) = batch[r] /\ Pushed(r)' = batch[r]
       /\ Waiting(r) = 0 /\ Waiting(r)' = 0 /\ Gathered(r)' = Gathered(r)
       /\ Responses(r)' = Responses(r)
  BY <1>1, <1>6, <1>7 DEF Pushed, Waiting, Gathered, Responses
<1>11. /\ syncs'[r] \subseteq Launched(r)
       /\ \A j \in Launched(r) \ syncs'[r] : Arrived(j)
       /\ \A n \in Hot : Refreshed(table, offer, shared'[r][n], n, Launched(r) \ syncs'[r])
       /\ shared' \in [Rank -> [Hot -> GroupOf(table)]]
       /\ syncs' \in [Rank -> SUBSET (Nat \ {0})]
       /\ \A q \in Rank \ {r} : shared'[q] = shared[q] /\ syncs'[q] = syncs[q]
  BY <1>1, Polled
<1>12. \A q \in Rank \ {r} : Same(q)
  BY <1>1, <1>7, <1>11 DEF Same
\* The oldest local rows.
<1> DEFINE v == view[r]
           L == [Here(r) -> Groups]
<1>13. /\ v \in Seq(L) /\ Len(v) \in Nat /\ Len(v) = requested[r] - batch[r] /\ Len(v) >= 1
       /\ view'[r] = Tail(v)
  <2>1. v \in Seq(L) /\ view'[r] = Tail(v)
    BY <1>1, <1>3
  <2>2. Len(v) = requested[r] - batch[r]
    BY <1>2 DEF Views
  <2>3. requested[r] - batch[r] \in Nat /\ requested[r] - batch[r] >= 1
    BY <1>6, <1>8, <1>9
  <2> HIDE DEF v, L
  <2> QED
    BY <2>1, <2>2, <2>3
<1>14. /\ Head(v) = v[1] /\ Head(v) \in L /\ Tail(v) \in Seq(L) /\ Len(Tail(v)) = Len(v) - 1
       /\ \A i \in 1 .. Len(Tail(v)) : Tail(v)[i] = v[i + 1] /\ i + 1 \in 1 .. Len(v)
  <2> HIDE DEF v, L
  <2>1. v # <<>>
    BY <1>13
  <2>2. Head(v) = v[1] /\ Head(v) \in L /\ Tail(v) \in Seq(L) /\ Len(Tail(v)) = Len(v) - 1
    BY <1>13, <2>1, HeadTailProperties, ElementOfSeq
  <2>3. \A i \in 1 .. Len(Tail(v)) : Tail(v)[i] = v[i + 1] /\ i + 1 \in 1 .. Len(v)
    BY <1>13, <2>1, <2>2
  <2> QED
    BY <2>2, <2>3
\* The oldest answers.
<1>15. ASSUME NEW p \in Rank
       PROVE  LET a == answer[p][r]
                  G == [Owned(p) -> Groups]
              IN  /\ answer'[p][r] = Tail(a) /\ Len(a) \in Nat /\ Len(a) >= 1
                  /\ Head(a) = a[1] /\ Head(a) \in G /\ Tail(a) \in Seq(G)
                  /\ Len(Tail(a)) = Len(a) - 1
                  /\ \A i \in 1 .. Len(Tail(a)) : Tail(a)[i] = a[i + 1] /\ i + 1 \in 1 .. Len(a)
  <2> DEFINE a == answer[p][r]
             G == [Owned(p) -> Groups]
  <2>1. a \in Seq(G) /\ a # <<>> /\ answer'[p][r] = Tail(a)
    BY <1>1, <1>3
  <2> HIDE DEF a, G
  <2>2. Len(a) \in Nat /\ Len(a) >= 1
    BY <2>1
  <2>3. Head(a) = a[1] /\ Head(a) \in G /\ Tail(a) \in Seq(G) /\ Len(Tail(a)) = Len(a) - 1
    BY <2>1, <2>2, HeadTailProperties, ElementOfSeq
  <2>4. \A i \in 1 .. Len(Tail(a)) : Tail(a)[i] = a[i + 1] /\ i + 1 \in 1 .. Len(a)
    BY <2>1, <2>2, <2>3
  <2> QED
    BY <2>1, <2>2, <2>3, <2>4 DEF a, G
<1>16. state \in [Node -> Groups]
  <2> SUFFICES ASSUME NEW n \in Node PROVE state[n] \in Groups
    OBVIOUS
  <2>1. CASE FromOther(r, n)
    <3>1. Owner[n] \in Rank /\ n \in Owned(Owner[n])
      BY RankAssumption DEF Owned
    <3>2. Head(answer[Owner[n]][r]) \in [Owned(Owner[n]) -> Groups]
      BY <1>15, <3>1
    <3> QED
      BY <2>1, <3>1, <3>2
  <2>2. CASE ~FromOther(r, n)
    <3>1. n \in Here(r)
      BY <2>2 DEF Here
    <3> QED
      BY <1>14, <2>2, <3>1
  <2> QED
    BY <2>1, <2>2
<1>17. DOMAIN answer' = Rank
  BY <1>1
<1>18. ASSUME NEW p \in Rank
       PROVE  DOMAIN answer'[p] = Rank /\ \A q \in Rank \ {r} : answer'[p][q] = answer[p][q]
  BY <1>1, <1>3
<1>19. Types'
  <2>1. pc' \in [Rank -> Places]
    BY <1>1, <1>3 DEF Places
  <2>2. batch' \in [Rank -> 0 .. Windows]
    BY <1>1, <1>3, <1>6, <1>8
  <2>3. seen' \in [Rank -> [Node -> Groups]]
    <3> HIDE DEF state
    <3> QED
      BY <1>1, <1>3, <1>16
  <2>4. DOMAIN view' = Rank
    BY <1>1, <1>3
  <2>5. \A q \in Rank : view'[q] \in Seq([Here(q) -> Groups])
    <3>1. view'[r] \in Seq([Here(r) -> Groups])
      BY <1>13, <1>14
    <3>2. \A q \in Rank \ {r} : view'[q] \in Seq([Here(q) -> Groups])
      BY <1>3, <1>7
    <3> QED
      BY <3>1, <3>2
  <2>6. ASSUME NEW p \in Rank
        PROVE  \A q \in Rank : answer'[p][q] \in Seq([Owned(p) -> Groups])
    <3>1. answer'[p][r] \in Seq([Owned(p) -> Groups])
      BY <1>15
    <3>2. \A q \in Rank \ {r} : answer'[p][q] \in Seq([Owned(p) -> Groups])
      BY <1>3, <1>18
    <3> QED
      BY <3>1, <3>2
  <2> QED
    BY <1>1, <1>2, <1>5, <1>11, <1>17, <1>18, <2>1, <2>2, <2>3, <2>4, <2>5, <2>6,
       TypesAre, TypesKept, ZenonT(30) DEF Groups
<1>20. Views(r)'
  <2> DEFINE Right(i, w) == \A n \in Node :
                /\ Owner[n] = r => Stored(table, w[n], n, i)
                /\ FromReplica(r, n) => w[n].memory \in PastIn(table, n, i) \cup {0}
  <2>1. \A i \in 1 .. Len(v) : Right(batch[r] + i - Lag, v[i])
    BY <1>2 DEF Views
  <2>2. ASSUME NEW i \in 1 .. Len(view'[r]) PROVE Right(batch'[r] + i - Lag, view'[r][i])
    <3> HIDE DEF v, Right
    <3>1. view'[r][i] = v[i + 1] /\ i + 1 \in 1 .. Len(v)
      BY <1>13, <1>14
    <3>2. i \in Int /\ batch'[r] + i - Lag = batch[r] + (i + 1) - Lag
      BY <1>6, <1>7
    <3> QED
      BY <2>1, <3>1, <3>2
  <2>3. Len(view'[r]) = requested'[r] - batch'[r]
    <3> HIDE DEF v
    <3> QED
      BY <1>1, <1>6, <1>7, <1>13, <1>14, SMTT(30)
  <2> HIDE DEF v
  <2> QED
    BY <1>1, <1>5, <2>2, <2>3, ConstKept DEF Views
<1>21. Seen(r)'
  <2>1. ASSUME NEW n \in Node
        PROVE  /\ ~FromReplica(r, n) => Stored(table, state[n], n, batch[r] + 1 - Lag)
               /\ FromReplica(r, n) =>
                     state[n].memory \in PastIn(table, n, batch[r] + 1 - Lag) \cup {0}
    <3>1. CASE FromOther(r, n)
      <4>1. Owner[n] \in Rank /\ n \in Owned(Owner[n])
        BY RankAssumption DEF Owned
      <4>2. /\ Head(answer[Owner[n]][r]) = answer[Owner[n]][r][1]
            /\ 1 \in 1 .. Len(answer[Owner[n]][r])
        <5> DEFINE a == answer[Owner[n]][r]
        <5>1. Head(a) = a[1] /\ Len(a) \in Nat /\ Len(a) >= 1
          BY <1>15, <4>1
        <5> HIDE DEF a
        <5>2. 1 \in 1 .. Len(a)
          BY <5>1
        <5> QED
          BY <5>1, <5>2 DEF a
      <4>3. \A i \in 1 .. Len(answer[Owner[n]][r]) : \A m \in Owned(Owner[n]) :
               Stored(table, answer[Owner[n]][r][i][m], m, batch[r] + i - Lag)
        BY <4>1, Unfold DEF Answers
      <4>4. Stored(table, answer[Owner[n]][r][1][n], n, batch[r] + 1 - Lag)
        BY <4>1, <4>2, <4>3
      <4> QED
        BY <3>1, <4>2, <4>4 DEF FromOther
    <3>2. CASE ~FromOther(r, n)
      <4>1. state[n] = v[1][n] /\ 1 \in 1 .. Len(v)
        BY <1>13, <1>14, <3>2
      <4>2. /\ Owner[n] = r => Stored(table, v[1][n], n, batch[r] + 1 - Lag)
            /\ FromReplica(r, n) => v[1][n].memory \in PastIn(table, n, batch[r] + 1 - Lag) \cup {0}
        BY <1>2, <4>1 DEF Views
      <4>3. ~FromReplica(r, n) => Owner[n] = r
        BY <3>2 DEF FromOther
      <4> HIDE DEF state, v
      <4> QED
        BY <4>1, <4>2, <4>3
    <3> QED
      BY <3>1, <3>2
  <2>2. seen'[r] = state
    BY <1>1, <1>3
  <2> HIDE DEF state
  <2>3. Lag' = Lag /\ \A n : FromReplica(r, n)' = FromReplica(r, n)
    BY <1>5, ConstKept
  <2>4. batch'[r] - Lag' = batch[r] + 1 - Lag
    BY <1>6, <1>7, <2>3
  <2>5. \A n \in Node :
          /\ ~FromReplica(r, n)' => Stored(table', seen'[r][n], n, batch'[r] - Lag')
          /\ FromReplica(r, n)' =>
                seen'[r][n].memory \in PastIn(table', n, batch'[r] - Lag') \cup {0}
    BY <1>1, <2>1, <2>2, <2>3, <2>4
  <2> QED
    BY <2>5 DEF Seen
<1>22. Local(r)'
  <2>1. Place(r)'
    <3>1. epoch[r] # Epochs + 1
      BY <1>1, <1>2 DEF Place
    <3>2. batch'[r] >= 1
      BY <1>6, <1>7
    <3>3. requested'[r] = IF bounded THEN AtMost(batch'[r] + 1) ELSE batch'[r]
      <4>1. requested'[r] = requested[r]
        BY <1>1
      <4>2. AtMost(batch'[r] + 1) = IF batch'[r] + 1 < Windows THEN batch'[r] + 1 ELSE Windows
        BY DEF AtMost
      <4>3. CASE bounded
        BY <1>6, <1>7, <1>8, <1>9, <4>1, <4>2, <4>3
      <4>4. CASE ~bounded
        BY <1>6, <1>7, <1>9, <4>1, <4>4
      <4> QED
        BY <4>3, <4>4
    <3> QED
      BY <1>1, <1>7, <3>1, <3>2, <3>3 DEF Place, AtMost
  <2>2. Calls(r)'
    <3>1. Within(r)' = Within(r)
      <4>1. Within(r) = requested[r] + batch[r] + (IF bounded THEN batch[r] ELSE 0)
        BY <1>1, <1>10 DEF Within
      <4>2. Within(r)' = requested[r] + (batch'[r] - 1) + (IF bounded THEN batch[r] ELSE 0)
        BY <1>1, <1>7, <1>10 DEF Within
      <4> QED
        BY <1>6, <1>7, <4>1, <4>2
    <3> QED
      BY <1>1, <1>2, <1>5, <3>1, CallsSame
  <2>3. Commits(r)'
    BY <1>1, <1>2, <1>7, <1>10 DEF Commits
  <2>4. Offers(r)'
    BY <1>1, <1>2, <1>10 DEF Offers
  <2> QED
    BY <1>20, <1>21, <2>1, <2>2, <2>3, <2>4 DEF Local
<1>23. \A p \in Rank : Extends(p)
  <2>1. \A p \in Rank : Len(offer[p]) \in Nat
    BY <1>2, RankTypes
  <2> QED
    BY <1>1, <2>1 DEF Extends
<1>24. Replicas(r)'
  <2>1. Launched(r)' = Launched(r)
    BY <1>1, <1>10 DEF Launched
  <2>2. \A j : Arrived(j)' = Arrived(j)
    BY <1>1 DEF Arrived
  <2> QED
    BY <1>1, <1>11, <2>1, <2>2 DEF Replicas
<1>25. entered'[r] >= entered[r] /\ \A p \in Rank \ {r} : entered[p] >= entered'[r] - Waiting(r)'
  <2>1. \A p \in Rank : entered[p] >= entered[r] - Waiting(r)
    BY Unfold DEF Meet
  <2> QED
    BY <1>1, <1>3, <1>10, <2>1
<1>26. ASSUME NEW p \in Rank, NEW q \in Rank PROVE Answers(p, q)'
  <2>1. Responses(p)' = Responses(p)
    BY <1>1, <1>7, <1>10 DEF Responses
  <2>2. Answered(p, epoch[q])' = Answered(p, epoch[q])
    BY <1>1, <2>1 DEF Answered
  <2>3. Answers(p, q)
    BY Unfold
  <2>4. CASE q # r
    <3>1. answer'[p][q] = answer[p][q] /\ batch'[q] = batch[q]
      BY <1>7, <1>18, <2>4
    <3> QED
      BY <1>1, <1>5, <2>2, <2>3, <3>1, ConstKept DEF Answers
  <2>5. CASE q = r
    <3> DEFINE a == answer[p][r]
    <3>1. /\ answer'[p][r] = Tail(a) /\ Len(a) \in Nat /\ Len(a) >= 1
          /\ Len(Tail(a)) = Len(a) - 1
          /\ \A i \in 1 .. Len(Tail(a)) : Tail(a)[i] = a[i + 1] /\ i + 1 \in 1 .. Len(a)
      BY <1>15
    <3>2. /\ Len(a) = Answered(p, epoch[r]) - batch[r]
          /\ \A i \in 1 .. Len(a) : \A n \in Owned(p) :
                Stored(table, a[i][n], n, batch[r] + i - Lag)
      BY <2>3, <2>5 DEF Answers
    <3> HIDE DEF a
    <3>5. Answered(p, epoch[r]) \in Int
      <4>1. Responses(p) \in Int
        <5>1. requested[p] \in Nat
          BY <1>2, RankTypes
        <5> QED
          BY <5>1 DEF Responses
      <4> QED
        BY <1>6, <4>1 DEF Answered
    <3>3. Len(answer'[p][r]) = Answered(p, epoch[r])' - batch'[r]
      BY <1>6, <1>7, <2>2, <2>5, <3>1, <3>2, <3>5
    <3>4. ASSUME NEW i \in 1 .. Len(answer'[p][r]), NEW n \in Owned(p)
          PROVE  Stored(table, answer'[p][r][i][n], n, batch'[r] + i - Lag)
      <4>1. answer'[p][r][i] = a[i + 1] /\ i + 1 \in 1 .. Len(a)
        BY <3>1
      <4>2. i \in Int /\ batch'[r] + i - Lag = batch[r] + (i + 1) - Lag
        BY <1>6, <1>7
      <4> QED
        BY <3>2, <4>1, <4>2
    <3> QED
      BY <1>1, <1>5, <2>5, <3>3, <3>4, ConstKept DEF Answers
  <2> QED
    BY <2>4, <2>5
<1>27. \A p, q \in Rank : Answers(p, q)'
  BY <1>26
<1> QED
  BY <1>5, <1>12, <1>19, <1>22, <1>23, <1>24, <1>25, <1>27, StepKeeps

(* A group that was reset is what no window leaves.                        *)
LEMMA ZeroStored ==
    ASSUME NEW t, TableOK(t), NEW n, NEW k \in Int, k <= 0
    PROVE  /\ Zero \in GroupOf(t) /\ Stored(t, Zero, n, k)
           /\ \A o : Refreshed(t, o, Zero, n, {})
<1>1. PastIn(t, n, k) = {}
  BY PastNone
<1>2. 0 \in 0 .. Len(t)
  BY RowTypes
<1>3. Zero \in GroupOf(t) /\ Zero.memory = 0 /\ \A s \in Slot : Zero.mailbox[s] = 0
  BY <1>2 DEF Zero, GroupOf
<1>4. IsLatest(Zero.memory, {}) /\ IsMail(Zero.mailbox, {})
  BY <1>3 DEF IsLatest, IsMail
<1>5. \A o : RowsOfGathers(o, n, {}) = {}
  BY DEF RowsOfGathers
<1> QED
  BY <1>1, <1>3, <1>4, <1>5 DEF Stored, Refreshed

(* When a rank resets, no other waits for an answer of its epoch.          *)
LEMMA NoneAnswered ==
    ASSUME Inv, NEW r \in Rank, pc[r] = "reset", NEW p \in Rank
    PROVE  Len(answer[p][r]) = 0 /\ (p # r => Answered(p, epoch[r] + 1) = 0)
<1>1. /\ Types /\ Place(r) /\ Place(p) /\ Local(p) /\ Local(r) /\ Meet(r, p) /\ Answers(p, r)
  BY Unfold
<1>2. /\ epoch[p] \in Nat /\ epoch[r] \in Nat /\ requested[p] \in Nat /\ requested[p] <= Windows
      /\ Windows \in Nat /\ Windows >= 1
  BY <1>1, RankTypes
<1>3. batch[r] = Windows
  BY <1>1 DEF Place
<1>4. Len(answer[p][r]) = Answered(p, epoch[r]) - Windows
  BY <1>1, <1>3 DEF Answers
<1>5. Len(answer[p][r]) \in Nat
  <2> DEFINE G == [Owned(p) -> Groups]
  <2>1. answer[p][r] \in Seq(G)
    BY <1>1, TypesAre
  <2> HIDE DEF G
  <2> QED
    BY <2>1
<1>6. Responses(p) \in Int /\ Responses(p) <= Windows
  BY <1>2 DEF Responses
<1>7. CASE epoch[p] > epoch[r]
  <2>1. epoch[r] < epoch[p]
    BY <1>2, <1>7
  <2>2. /\ epoch[p] = epoch[r] + 1 /\ requested[p] <= 1
        /\ requested[p] = 1 => pc[p] = "respond"
    BY <1>1, <2>1, Behind
  <2>3. pc[p] = "respond" => requested[p] >= 1
    <3>1. batch[p] \in Nat
      BY <1>1, RankTypes
    <3> QED
      BY <1>1, <1>2, <3>1 DEF Place
  <2>4. Responses(p) = 0
    BY <1>2, <2>2, <2>3 DEF Responses
  <2>5. Answered(p, epoch[r]) = Windows /\ Answered(p, epoch[r] + 1) = 0
    BY <1>2, <2>2, <2>4 DEF Answered
  <2> QED
    BY <1>2, <1>4, <2>5
<1>8. CASE epoch[p] = epoch[r]
  <2>1. Answered(p, epoch[r]) = Responses(p) /\ Answered(p, epoch[r] + 1) = 0
    BY <1>2, <1>8 DEF Answered
  <2> QED
    BY <1>2, <1>4, <1>5, <1>6, <2>1
<1>9. CASE epoch[p] < epoch[r]
  <2>1. Answered(p, epoch[r]) = 0
    BY <1>2, <1>9 DEF Answered
  <2> QED
    BY <1>2, <1>4, <1>5, <2>1
<1> QED
  BY <1>2, <1>7, <1>8, <1>9

(* AsyncMemoryCommitter.reset.                                             *)
LEMMA ResetKeeps ==
    ASSUME Inv, NEW r \in Rank, Reset(r)
    PROVE  Inv'
<1>1. /\ pc[r] = "reset" /\ \A j \in syncs[r] : Arrived(j)
      /\ owned' = [n \in Node |-> IF n \in Owned(r) THEN Zero ELSE owned[n]]
      /\ shared' = [shared EXCEPT ![r] = ClearedReplica(r)]
      /\ syncs' = [syncs EXCEPT ![r] = {}]
      /\ skipped' = [skipped EXCEPT ![r] = [n \in Hot |-> 0]]
      /\ requested' = [requested EXCEPT ![r] = 0]
      /\ batch' = [batch EXCEPT ![r] = 0]
      /\ epoch' = [epoch EXCEPT ![r] = @ + 1]
      /\ pc' = [pc EXCEPT ![r] = IF epoch[r] = Epochs THEN "done" ELSE "request"]
      /\ table' = table /\ bounded' = bounded /\ view' = view /\ answer' = answer
      /\ seen' = seen /\ pending' = pending /\ offer' = offer /\ entered' = entered
  BY DEF Reset, reads
<1>2. /\ Types /\ Place(r) /\ Calls(r) /\ Commits(r) /\ Views(r) /\ Offers(r)
  BY Unfold
<1>3. /\ pc \in [Rank -> Places] /\ entered \in [Rank -> Nat]
      /\ epoch \in [Rank -> 1 .. Epochs + 1] /\ requested \in [Rank -> 0 .. Windows]
      /\ batch \in [Rank -> 0 .. Windows] /\ owned \in [Node -> Groups]
      /\ shared \in [Rank -> [Hot -> Groups]] /\ syncs \in [Rank -> SUBSET (Nat \ {0})]
      /\ skipped \in [Rank -> [Hot -> 0 .. MaxSkip]]
  BY <1>2, TypesAre
<1>4. /\ epoch[r] \in Nat /\ epoch[r] >= 1 /\ epoch[r] <= Epochs /\ Epochs \in Nat
      /\ Windows \in Nat /\ Windows >= 1 /\ batch[r] = Windows /\ requested[r] = Windows
      /\ MaxSkip \in Nat
  <2>1. /\ epoch[r] \in Nat /\ epoch[r] >= 1 /\ epoch[r] <= Epochs + 1 /\ Epochs \in Nat
        /\ Windows \in Nat /\ Windows >= 1
    BY <1>2, RankTypes
  <2>2. epoch[r] # Epochs + 1 /\ batch[r] = Windows /\ requested[r] = Windows
    BY <1>1, <1>2 DEF Place
  <2> QED
    BY <2>1, <2>2, SizeAssumption
<1>5. Const /\ TableOK(table)
  BY <1>1, <1>2 DEF Const, Types
<1>6. /\ pc'[r] = IF epoch[r] = Epochs THEN "done" ELSE "request"
      /\ epoch'[r] = epoch[r] + 1 /\ requested'[r] = 0 /\ batch'[r] = 0 /\ syncs'[r] = {}
      /\ shared'[r] = [n \in Hot |-> Zero]
      /\ \A q \in Rank \ {r} : /\ pc'[q] = pc[q] /\ epoch'[q] = epoch[q]
                               /\ requested'[q] = requested[q] /\ batch'[q] = batch[q]
                               /\ syncs'[q] = syncs[q] /\ shared'[q] = shared[q]
  BY <1>1, <1>3 DEF ClearedReplica
<1>7. \A q \in Rank \ {r} : Same(q)
  <2> SUFFICES ASSUME NEW q \in Rank \ {r} PROVE Same(q)
    OBVIOUS
  <2>1. \A n \in Owned(q) : n \in Node /\ n \notin Owned(r)
    BY DEF Owned
  <2>2. \A n \in Owned(q) : owned'[n] = owned[n]
    BY <1>1, <2>1
  <2> QED
    BY <1>1, <1>6, <2>2 DEF Same
<1>8. Zero \in Groups
  BY <1>5, ZeroStored DEF Groups
<1>9. Types'
  <2>1. pc' \in [Rank -> Places]
    <3>1. (IF epoch[r] = Epochs THEN "done" ELSE "request") \in Places
      BY Zenon DEF Places
    <3> QED
      BY <1>1, <1>3, <3>1
  <2>2. epoch' \in [Rank -> 1 .. Epochs + 1]
    BY <1>1, <1>3, <1>4
  <2>3. requested' \in [Rank -> 0 .. Windows] /\ batch' \in [Rank -> 0 .. Windows]
    <3>1. 0 \in 0 .. Windows
      BY <1>4
    <3> QED
      BY <1>1, <1>3, <3>1
  <2>4. owned' \in [Node -> Groups]
    BY <1>1, <1>3, <1>8
  <2>5. shared' \in [Rank -> [Hot -> Groups]]
    <3>1. ClearedReplica(r) \in [Hot -> Groups]
      BY <1>8 DEF ClearedReplica
    <3> QED
      BY <1>1, <1>3, <3>1
  <2>6. syncs' \in [Rank -> SUBSET (Nat \ {0})]
    BY <1>1, <1>3
  <2>7. skipped' \in [Rank -> [Hot -> 0 .. MaxSkip]]
    <3>1. [n \in Hot |-> 0] \in [Hot -> 0 .. MaxSkip]
      BY <1>4
    <3> QED
      BY <1>1, <1>3, <3>1
  <2> QED
    BY <1>1, <1>2, <1>5, <2>1, <2>2, <2>3, <2>4, <2>5, <2>6, <2>7, TypesAre, TypesKept
<1>10. /\ Pushed(r) = Windows /\ Waiting(r) = 0 /\ Responses(r) = Windows
       /\ Gathered(r) = (IF bounded THEN Windows ELSE 0)
       /\ Pushed(r)' = 0 /\ Waiting(r)' = 0 /\ Responses(r)' = 0 /\ Gathered(r)' = 0
  <2>1. pc'[r] \notin {"commit", "push", "gather", "respond"}
    BY <1>6
  <2> QED
    BY <1>1, <1>4, <1>6, <2>1 DEF Pushed, Waiting, Responses, Gathered
<1>11. Local(r)'
  <2>1. Place(r)'
    <3>1. CASE epoch[r] = Epochs
      BY <1>1, <1>4, <1>6, <3>1 DEF Place
    <3>2. CASE epoch[r] # Epochs
      <4>1. pc'[r] = "request" /\ epoch'[r] # Epochs + 1
        BY <1>4, <1>6, <3>2
      <4> QED
        BY <1>1, <1>4, <1>6, <4>1 DEF Place
    <3> QED
      BY <3>1, <3>2
  <2>2. Calls(r)'
    <3> DEFINE whole == PerWindow * Windows
               a == epoch[r]
    <3>1. entered[r] = (a - 1) * whole + Within(r)
      BY <1>2 DEF Calls
    <3>2. Within(r) = whole
      <4>1. CASE bounded
        <5>1. whole = Windows + Windows + Windows
          BY <1>4, <4>1 DEF PerWindow
        <5>2. Within(r) = Windows + Windows + Windows
          BY <1>1, <1>4, <1>10, <4>1 DEF Within
        <5> QED
          BY <5>1, <5>2
      <4>2. CASE ~bounded
        <5>1. whole = Windows + Windows
          BY <1>4, <4>2 DEF PerWindow
        <5>2. Within(r) = Windows + Windows
          BY <1>1, <1>4, <1>10, <4>2 DEF Within
        <5> QED
          BY <5>1, <5>2
      <4> QED
        BY <4>1, <4>2
    <3>3. whole \in Nat
      <4>1. PerWindow \in Nat
        BY DEF PerWindow
      <4> QED
        BY <1>4, <4>1
    <3>4. Within(r)' = 0
      <4>1. pc'[r] # "commit"
        BY <1>6
      <4> QED
        BY <1>1, <1>6, <1>10, <4>1 DEF Within
    <3> HIDE DEF whole
    <3>5. a - 1 \in Int /\ ((a - 1) + 1) * whole = (a - 1) * whole + whole
      BY <1>4, <3>3, Product
    <3>6. (a - 1) + 1 = epoch'[r] - 1
      BY <1>4, <1>6
    <3>7. entered'[r] = (epoch'[r] - 1) * whole
      BY <1>1, <3>1, <3>2, <3>5, <3>6
    <3>8. whole' = whole
      BY <1>1, <1>5, ConstKept DEF whole
    <3>9. (epoch'[r] - 1) * whole + 0 = (epoch'[r] - 1) * whole
      BY <1>4, <1>6, <3>3
    <3>10. entered'[r] = (epoch'[r] - 1) * whole' + Within(r)'
      BY <3>4, <3>7, <3>8, <3>9
    <3> QED
      BY <3>10 DEF Calls, whole
  <2>3. Commits(r)'
    <3>1. pending'[r] = {}
      <4>1. PICK w \in 0 .. Pushed(r) : w = Pushed(r) /\ pending[r] = (w + 1) .. Pushed(r)
        BY <1>1, <1>2 DEF Commits
      <4> QED
        BY <1>1, <1>4, <1>10, <4>1
    <3>2. pending'[r] = (0 + 1) .. 0 /\ 0 \in 0 .. 0
      BY <3>1
    <3>3. \A n \in Owned(r) : Stored(table, owned'[n], n, 0)
      <4>1. \A n \in Owned(r) : owned'[n] = Zero
        BY <1>1 DEF Owned
      <4> QED
        BY <1>5, <4>1, ZeroStored
    <3> QED
      BY <1>1, <1>6, <1>10, <3>2, <3>3 DEF Commits
  <2>4. Views(r)'
    <3>1. Len(view'[r]) = 0
      BY <1>1, <1>2, <1>4 DEF Views
    <3>2. requested'[r] - batch'[r] = 0 /\ 1 .. 0 = {}
      BY <1>6
    <3> QED
      BY <3>1, <3>2 DEF Views
  <2>5. Seen(r)'
    BY <1>6 DEF Seen
  <2>6. Offers(r)'
    <3>1. Len(offer[r]) = IF bounded THEN (epoch[r] - 1) * Windows + Windows ELSE 0
      BY <1>2, <1>10 DEF Offers
    <3>2. ((epoch[r] - 1) + 1) * Windows = (epoch[r] - 1) * Windows + Windows
      BY <1>4, Product
    <3>3. (epoch[r] - 1) + 1 = epoch'[r] - 1
      BY <1>4, <1>6
    <3>4. (epoch'[r] - 1) * Windows = (epoch'[r] - 1) * Windows + 0
      BY <1>4, <1>6
    <3>5. Len(offer'[r]) = IF bounded' THEN (epoch'[r] - 1) * Windows + Pushed(r)' ELSE 0
      BY <1>1, <1>10, <3>1, <3>2, <3>3, <3>4
    <3> QED
      BY <1>1, <1>2, <3>5 DEF Offers
  <2> QED
    BY <2>1, <2>2, <2>3, <2>4, <2>5, <2>6 DEF Local
<1>12. Replicas(r)'
  <2>1. Launched(r)' = {}
    <3>1. (epoch'[r] - 1) * Windows \in Int
      BY <1>4, <1>6
    <3> DEFINE base == (epoch'[r] - 1) * Windows
    <3> HIDE DEF base
    <3>2. base + 1 .. base + 0 = {}
      BY <3>1 DEF base
    <3> QED
      BY <1>10, <3>2 DEF Launched, base
  <2>2. \A n \in Hot : Refreshed(table', offer', shared'[r][n], n, {})
    <3>1. 0 \in Int /\ 0 <= 0
      OBVIOUS
    <3>2. \A n, o : Refreshed(table, o, Zero, n, {})
      BY <1>5, <3>1, ZeroStored
    <3>3. \A n \in Hot : shared'[r][n] = Zero
      BY <1>6
    <3> QED
      BY <1>1, <3>2, <3>3
  <2> QED
    BY <1>6, <2>1, <2>2 DEF Replicas
<1>13. \A p \in Rank : Extends(p)
  <2>1. \A p \in Rank : Len(offer[p]) \in Nat
    BY <1>2, RankTypes
  <2> QED
    BY <1>1, <2>1 DEF Extends
<1>14. entered'[r] >= entered[r] /\ \A p \in Rank \ {r} : entered[p] >= entered'[r] - Waiting(r)'
  <2>1. \A p \in Rank : entered[p] >= entered[r] - Waiting(r)
    BY Unfold DEF Meet
  <2> QED
    BY <1>1, <1>3, <1>10, <2>1
<1>15. ASSUME NEW p \in Rank PROVE Answers(p, r)'
  <2>1. Len(answer'[p][r]) = 0
    BY <1>1, NoneAnswered
  <2>2. Answered(p, epoch[r])' = 0
    <3>1. CASE p = r
      BY <1>4, <1>6, <1>10, <3>1 DEF Answered
    <3>2. CASE p # r
      <4>1. Responses(p)' = Responses(p) /\ epoch'[p] = epoch[p]
        BY <1>6, <3>2 DEF Responses
      <4>2. Answered(p, epoch[r] + 1) = 0
        BY <1>1, <3>2, NoneAnswered
      <4> QED
        BY <1>6, <4>1, <4>2 DEF Answered
    <3> QED
      BY <3>1, <3>2
  <2>3. 1 .. 0 = {} /\ 0 - batch'[r] = 0
    BY <1>6
  <2> QED
    BY <2>1, <2>2, <2>3 DEF Answers
<1>16. ASSUME NEW p \in Rank, NEW q \in Rank \ {r} PROVE Answers(p, q)'
  <2>1. epoch'[q] = epoch[q] /\ batch'[q] = batch[q] /\ answer' = answer
    BY <1>1, <1>6
  <2>2. Answered(p, epoch[q])' = Answered(p, epoch[q])
    <3>1. CASE p = r
      <4>1. epoch[q] \in Nat
        BY <1>2, RankTypes
      <4> QED
        BY <1>4, <1>6, <1>10, <2>1, <3>1, <4>1 DEF Answered
    <3>2. CASE p # r
      BY <1>6, <2>1, <3>2 DEF Answered, Responses
    <3> QED
      BY <3>1, <3>2
  <2>3. Answers(p, q)
    BY Unfold
  <2> QED
    BY <1>1, <1>5, <2>1, <2>2, <2>3, ConstKept DEF Answers
<1>17. \A p, q \in Rank : Answers(p, q)'
  BY <1>15, <1>16
<1> QED
  BY <1>5, <1>7, <1>9, <1>11, <1>12, <1>13, <1>14, <1>17, StepKeeps

-----------------------------------------------------------------------------
(* The specification.                                                      *)

(* Nothing was requested, pushed or gathered.                              *)
LEMMA InitInv ==
    ASSUME Init
    PROVE  Inv
<1>1. PICK run \in Runs : table = run.table /\ bounded = run.bounded
  BY DEF Init
<1>2. /\ pc = [r \in Rank |-> "request"] /\ epoch = [r \in Rank |-> 1]
      /\ requested = [r \in Rank |-> 0] /\ batch = [r \in Rank |-> 0]
      /\ owned = [n \in Node |-> Zero] /\ shared = [r \in Rank |-> [n \in Hot |-> Zero]]
      /\ pending = [r \in Rank |-> {}] /\ syncs = [r \in Rank |-> {}]
      /\ offer = [r \in Rank |-> <<>>] /\ skipped = [r \in Rank |-> [n \in Hot |-> 0]]
      /\ view = [r \in Rank |-> <<>>] /\ answer = [p \in Rank |-> [r \in Rank |-> <<>>]]
      /\ seen = [r \in Rank |-> [n \in Node |-> Zero]] /\ entered = [r \in Rank |-> 0]
  BY DEF Init
<1>3. /\ run \in [table : Seq([src : Node, dst : Node, rank : Rank, window : 1 .. Windows,
                               ts : Nat]), bounded : BOOLEAN]
      /\ TableOK(run.table)
  BY RunsAssumption DEF TableOK
<1>4. [table |-> table, bounded |-> bounded] = run
  BY <1>1, <1>3
<1>5. TableOK(table) /\ bounded \in BOOLEAN
  BY <1>1, <1>3
<1>6. Windows \in Nat /\ Windows >= 1 /\ Epochs \in Nat /\ Epochs >= 1 /\ MaxSkip \in Nat
  BY SizeAssumption
<1>7. Zero \in Groups
  BY <1>5, ZeroStored DEF Groups
<1>8. TypeOK
  <2>1. Zero \in Group
    BY <1>7 DEF Group, Groups, GroupOf
  <2>2. pc \in [Rank -> {"request", "respond", "train", "commit", "push", "gather", "end",
                         "reset", "done"}]
    BY <1>2
  <2>3. /\ epoch \in [Rank -> 1 .. Epochs + 1] /\ requested \in [Rank -> 0 .. Windows]
        /\ batch \in [Rank -> 0 .. Windows] /\ entered \in [Rank -> Nat]
        /\ skipped \in [Rank -> [Hot -> 0 .. MaxSkip]]
    BY <1>2, <1>6
  <2>4. /\ pending \in [Rank -> SUBSET (1 .. Windows)]
        /\ syncs \in [Rank -> SUBSET (Nat \ {0})]
    BY <1>2
  <2>5. owned \in [Node -> Group] /\ shared \in [Rank -> [Hot -> Group]]
        /\ seen \in [Rank -> [Node -> Group]]
    BY <1>2, <2>1
  <2> QED
    BY <1>1, <1>4, <2>2, <2>3, <2>4, <2>5 DEF TypeOK
<1>9. Types
  <2>1. /\ offer \in [Rank -> Seq(SUBSET [node : Hot, row : 1 .. Len(table)])]
        /\ DOMAIN view = Rank /\ DOMAIN answer = Rank /\ \A p \in Rank : DOMAIN answer[p] = Rank
    BY <1>2
  <2>2. ASSUME NEW r \in Rank
        PROVE  view[r] \in Seq([{m \in Node : ~FromOther(r, m)} -> GroupOf(table)])
    BY <1>2
  <2>3. ASSUME NEW p \in Rank, NEW r \in Rank
        PROVE  answer[p][r] \in Seq([Owned(p) -> GroupOf(table)])
    BY <1>2
  <2> QED
    BY <1>5, <1>8, <2>1, <2>2, <2>3 DEF Types
<1>10. ASSUME NEW r \in Rank
       PROVE  /\ pc[r] = "request" /\ epoch[r] = 1 /\ requested[r] = 0 /\ batch[r] = 0
              /\ pending[r] = {} /\ syncs[r] = {} /\ offer[r] = <<>> /\ view[r] = <<>>
              /\ entered[r] = 0 /\ \A p \in Rank : answer[p][r] = <<>>
              /\ shared[r] = [n \in Hot |-> Zero]
              /\ Pushed(r) = 0 /\ Gathered(r) = 0 /\ Waiting(r) = 0 /\ Responses(r) = 0
  <2>1. pc[r] = "request" /\ batch[r] = 0 /\ requested[r] = 0
    BY <1>2
  <2> QED
    BY <1>2, <2>1 DEF Pushed, Gathered, Waiting, Responses
<1>11. ASSUME NEW r \in Rank PROVE Local(r)
  <2>1. Place(r)
    BY <1>5, <1>6, <1>10 DEF Place
  <2>2. Calls(r)
    <3>1. Within(r) = 0
      BY <1>10 DEF Within
    <3>2. PerWindow \in Nat
      BY DEF PerWindow
    <3>3. (1 - 1) * (PerWindow * Windows) = 0
      <4> DEFINE w == PerWindow * Windows
      <4>1. w \in Nat
        BY <1>6, <3>2
      <4> HIDE DEF w
      <4>2. (1 - 1) * w = 0
        BY <4>1
      <4> QED
        BY <4>2 DEF w
    <3>4. entered[r] = (1 - 1) * (PerWindow * Windows) + Within(r)
      BY <1>10, <3>1, <3>3
    <3> QED
      BY <1>10, <3>4 DEF Calls
  <2>3. Commits(r)
    <3>1. 0 \in 0 .. 0 /\ pending[r] = (0 + 1) .. 0
      BY <1>10
    <3>2. \A n \in Owned(r) : owned[n] = Zero
      BY <1>2 DEF Owned
    <3>3. 0 \in Int /\ 0 <= 0
      OBVIOUS
    <3>4. \A n \in Owned(r) : Stored(table, owned[n], n, 0)
      BY <1>5, <3>2, <3>3, ZeroStored
    <3> QED
      BY <1>10, <3>1, <3>4 DEF Commits
  <2>4. Views(r)
    <3>1. Len(view[r]) = 0 /\ 1 .. 0 = {}
      BY <1>10
    <3> QED
      BY <1>10, <3>1 DEF Views
  <2>5. Seen(r)
    BY <1>10 DEF Seen
  <2>6. Offers(r)
    <3>1. Len(offer[r]) = 0 /\ (1 - 1) * Windows + 0 = 0
      BY <1>6, <1>10
    <3>2. ASSUME NEW e \in 0 .. Epochs, NEW k \in 1 .. Windows PROVE ~ (e * Windows + k <= 0)
      <4>1. e \in Nat /\ k \in Nat /\ k >= 1
        BY <1>6
      <4>2. e * Windows \in Nat
        BY <1>6, <4>1
      <4> QED
        BY <4>1, <4>2
    <3> QED
      BY <1>10, <3>1, <3>2 DEF Offers
  <2> QED
    BY <2>1, <2>2, <2>3, <2>4, <2>5, <2>6 DEF Local
<1>12. ASSUME NEW r \in Rank PROVE Replicas(r)
  <2>1. Launched(r) = {}
    <3>1. (1 - 1) * Windows = 0
      BY <1>6
    <3> QED
      BY <1>10, <3>1 DEF Launched
  <2>2. 0 \in Int /\ 0 <= 0
    OBVIOUS
  <2>3. \A n, o : Refreshed(table, o, Zero, n, {})
    BY <1>5, <2>2, ZeroStored
  <2>4. \A n \in Hot : shared[r][n] = Zero
    BY <1>10
  <2> QED
    BY <1>10, <2>1, <2>3, <2>4 DEF Replicas
<1>13. ASSUME NEW p \in Rank, NEW r \in Rank PROVE Meet(p, r) /\ Answers(p, r)
  <2>1. entered[p] = 0 /\ entered[r] = 0 /\ Waiting(r) = 0
    BY <1>10
  <2>2. Answered(p, epoch[r]) = 0
    BY <1>10 DEF Answered
  <2>3. Len(answer[p][r]) = 0 /\ 1 .. 0 = {} /\ batch[r] = 0
    BY <1>10
  <2> QED
    BY <2>1, <2>2, <2>3 DEF Meet, Answers
<1> QED
  BY <1>9, <1>11, <1>12, <1>13 DEF Inv

LEMMA StutterKeeps ==
    ASSUME Inv, UNCHANGED vars
    PROVE  Inv'
<1>1. /\ table' = table /\ bounded' = bounded /\ pc' = pc /\ epoch' = epoch
      /\ requested' = requested /\ batch' = batch /\ view' = view /\ answer' = answer
      /\ seen' = seen /\ owned' = owned /\ pending' = pending /\ shared' = shared
      /\ syncs' = syncs /\ offer' = offer /\ skipped' = skipped /\ entered' = entered
  BY DEF vars, progress, reads, commits, replicas, publish
<1>2. Types'
  <2>1. \A r, n : FromOther(r, n)' = FromOther(r, n)
    BY <1>1 DEF FromOther, FromReplica
  <2>2. Const
    BY <1>1 DEF Const
  <2>3. Types
    BY DEF Inv
  <2> QED
    BY <1>1, <2>2, <2>3, TypesAre, TypesKept
<1>3. ASSUME NEW r \in Rank PROVE Local(r)' /\ Replicas(r)'
  <2>1. Const /\ Same(r) /\ Local(r) /\ Replicas(r)
    BY <1>1, Unfold DEF Const, Same
  <2>2. Local(r)'
    BY <2>1, FrameLocal
  <2>3. Launched(r)' = Launched(r) /\ \A j : Arrived(j)' = Arrived(j)
    BY <1>1 DEF Launched, Gathered, Arrived
  <2>4. Replicas(r)'
    BY <1>1, <2>1, <2>3 DEF Replicas
  <2> QED
    BY <2>2, <2>4
<1>4. ASSUME NEW p \in Rank, NEW r \in Rank PROVE Meet(p, r)' /\ Answers(p, r)'
  <2>1. Meet(p, r) /\ Answers(p, r) /\ Const
    BY <1>1, Unfold DEF Const
  <2>2. Waiting(r)' = Waiting(r) /\ Answered(p, epoch[r])' = Answered(p, epoch[r])
    BY <1>1 DEF Waiting, Answered, Responses
  <2> QED
    BY <1>1, <2>1, <2>2, ConstKept DEF Meet, Answers
<1> QED
  BY <1>2, <1>3, <1>4 DEF Inv

(* The inductive invariant holds in every reachable state.                 *)
THEOREM Invariance == Spec => []Inv
<1>1. Init => Inv
  BY InitInv
<1>2. Inv /\ [Next]_vars => Inv'
  <2> SUFFICES ASSUME Inv, [Next]_vars PROVE Inv'
    OBVIOUS
  <2>1. ASSUME NEW r \in Rank, Step(r) PROVE Inv'
    BY <2>1, RequestKeeps, RespondKeeps, TrainKeeps, CommitKeeps, PushKeeps, GatherKeeps,
       FinishKeeps, ResetKeeps DEF Step
  <2>2. CASE UNCHANGED vars
    BY <2>2, StutterKeeps
  <2> QED
    BY <2>1, <2>2 DEF Next, Done
<1> QED
  BY <1>1, <1>2, PTL DEF Spec

(* The memory a rank is given is the memory sequential processing leaves.  *)
LEMMA MemoryIs ==
    ASSUME Inv
    PROVE  TypeOK /\ MemoryCurrent /\ ReplicaReadsThePast
<1>1. Types /\ TypeOK /\ TableOK(table)
  BY DEF Inv, Types
<1>2. ASSUME NEW r \in Rank, pc[r] = "commit", NEW n \in Node, ~FromReplica(r, n)
      PROVE  seen[r][n].memory = LastWrite(n, batch[r] - Lag)
  <2>1. Stored(table, seen[r][n], n, batch[r] - Lag)
    BY <1>2, Unfold DEF Seen
  <2>2. IsLatest(seen[r][n].memory, PastIn(table, n, batch[r] - Lag))
    BY <2>1 DEF Stored
  <2> QED
    BY <1>1, <2>2, LastWriteIs
<1>3. ASSUME NEW r \in Rank, pc[r] = "commit", NEW n \in Node, FromReplica(r, n)
      PROVE  seen[r][n].memory \in
                {LastWrite(n, k) : k \in 0 .. (IF batch[r] > Lag THEN batch[r] - Lag ELSE 0)}
  <2> DEFINE k == batch[r] - Lag
  <2>1. seen[r][n].memory \in PastIn(table, n, k) \cup {0}
    BY <1>3, Unfold DEF Seen
  <2>2. batch[r] \in Nat /\ Lag \in Int
    <3>1. Lag \in Int
      BY DEF Lag
    <3> QED
      BY <1>1, <3>1, RankTypes
  <2>3. k \in Int /\ (k > 0 <=> batch[r] > Lag)
    BY <2>2
  <2>4. \E l \in 0 .. (IF k > 0 THEN k ELSE 0) : seen[r][n].memory = LastWrite(n, l)
    <3> HIDE DEF k
    <3> QED
      BY <1>1, <2>1, <2>3, PastWritten
  <2> QED
    BY <2>3, <2>4
<1> QED
  BY <1>1, <1>2, <1>3 DEF MemoryCurrent, ReplicaReadsThePast

LEMMA MailboxIs ==
    ASSUME Inv, Untied(table), Positive(table)
    PROVE  MailCurrent
<1> SUFFICES ASSUME NEW r \in Rank, pc[r] = "commit", NEW n \in Node, ~FromReplica(r, n)
             PROVE  {seen[r][n].mailbox[s] : s \in Slot} = Newest(n, batch[r] - Lag)
  BY DEF MailCurrent
<1>1. Stored(table, seen[r][n], n, batch[r] - Lag)
  BY Unfold DEF Seen
<1>2. IsMail(seen[r][n].mailbox, PastIn(table, n, batch[r] - Lag)) /\ TableOK(table)
  BY <1>1 DEF Stored, Inv, Types
<1> QED
  BY <1>2, MailIs

(* Replicas that applied the same gathers.                                 *)
LEMMA ReplicaIs ==
    ASSUME Inv, Untied(table)
    PROVE  ReplicasAgree
<1> SUFFICES ASSUME NEW p \in Rank, NEW r \in Rank, syncs[p] = {}, syncs[r] = {},
                    {pc[p], pc[r]} = {"reset"}, epoch[p] = epoch[r], NEW n \in Hot
             PROVE  shared[p][n].memory = shared[r][n].memory
  BY DEF ReplicasAgree
<1>1. pc[p] = "reset" /\ pc[r] = "reset"
  OBVIOUS
<1>2. Launched(p) = Launched(r)
  <2>1. batch[p] = Windows /\ batch[r] = Windows
    BY <1>1, Unfold DEF Place
  <2> QED
    BY <1>1, <2>1 DEF Launched, Gathered
<1> DEFINE R == RowsOfGathers(offer, n, Launched(r))
           x == shared[p][n].memory
           y == shared[r][n].memory
<1>3. /\ Refreshed(table, offer, shared[p][n], n, Launched(p) \ syncs[p])
      /\ Refreshed(table, offer, shared[r][n], n, Launched(r) \ syncs[r])
  BY Unfold DEF Replicas
<1>4. /\ Refreshed(table, offer, shared[p][n], n, Launched(r))
      /\ Refreshed(table, offer, shared[r][n], n, Launched(r))
  <2>1. Launched(p) \ syncs[p] = Launched(r) /\ Launched(r) \ syncs[r] = Launched(r)
    BY <1>2
  <2> QED
    BY <1>3, <2>1
<1>5. /\ x \in R \cup {0} /\ y \in R \cup {0} /\ \A i \in R : i <= x /\ i <= y
      /\ shared[p][n] \in GroupOf(table) /\ shared[r][n] \in GroupOf(table)
  BY <1>4 DEF Refreshed
<1>6. x \in Nat /\ y \in Nat
  <2>1. Len(table) \in Nat
    BY RowTypes DEF Inv, Types
  <2> QED
    BY <1>5, <2>1 DEF GroupOf
<1> HIDE DEF R, x, y
<1>7. x <= y /\ y <= x
  BY <1>5, <1>6
<1>8. x = y
  BY <1>6, <1>7
<1> QED
  BY <1>8 DEF x, y

(* In every run of every table in time order, whatever the order in which  *)
(* the ranks get on and the gathers complete: the memory of a node read    *)
(* from its owner is what the windows before would have left one after the *)
(* other, exactly so many windows late as the run allows, and the memory   *)
(* read from a replica is of this epoch and no newer.                      *)
THEOREM MemoryReadsHold == Spec => [](TypeOK /\ MemoryCurrent /\ ReplicaReadsThePast)
<1>1. Inv => TypeOK /\ MemoryCurrent /\ ReplicaReadsThePast
  BY MemoryIs
<1> QED
  BY <1>1, Invariance, PTL

(* The mail read with it is of the same windows, when time tells windows   *)
(* apart: _deduplicate_latest and append know the age of a mail by its     *)
(* time alone, and an empty slot by the time 0.                            *)
THEOREM ReadsCommittedHolds ==
    ASSUME \A run \in Runs : Untied(run.table) /\ Positive(run.table)
    PROVE  Spec => []ReadsCommitted
<1>1. Inv => ReadsCommitted
  <2> SUFFICES ASSUME Inv PROVE ReadsCommitted
    OBVIOUS
  <2>1. [table |-> table, bounded |-> bounded] \in Runs
    BY DEF Inv, Types, TypeOK
  <2>2. Untied(table) /\ Positive(table)
    BY <2>1
  <2> QED
    BY <2>2, MemoryIs, MailboxIs DEF ReadsCommitted
<1> QED
  BY <1>1, Invariance, PTL

(* Ranks that have applied all gathers of an epoch hold the same memory in *)
(* their replicas, though each filtered and polled on its own: time again  *)
(* has to tell the windows apart.                                          *)
THEOREM ReplicasAgreeHolds ==
    ASSUME \A run \in Runs : Untied(run.table)
    PROVE  Spec => []ReplicasAgree
<1>1. Inv => ReplicasAgree
  <2> SUFFICES ASSUME Inv PROVE ReplicasAgree
    OBVIOUS
  <2>1. [table |-> table, bounded |-> bounded] \in Runs
    BY DEF Inv, Types, TypeOK
  <2>2. Untied(table)
    BY <2>1
  <2> QED
    BY <2>2, ReplicaIs
<1> QED
  BY <1>1, Invariance, PTL
=============================================================================
