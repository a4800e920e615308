------------------------- MODULE OwnerHistoryProofs -------------------------
(***************************************************************************)
(* The history of one row (SnapshotHistory) and the bounded owner history  *)
(* of many ranks (SnapshotPush), for any window size, dataset, number of   *)
(* ranks, splits and epochs.                                               *)
(*                                                                         *)
(* The slots.  RowOK says where a packet may stand: the predecessor slot   *)
(* holds nothing newer than the window start, every other slot only its    *)
(* own version of the window.  So no two slots hold one version, and read  *)
(* does not depend on which of the newest slots it picks.                  *)
(*                                                                         *)
(* One row.  Represents relates the slots to the full log of observations. *)
(* It is preserved by install (InstallKeeps) and by advance (AdvanceKeeps),*)
(* and implies that a read at or after the window start finds the latest   *)
(* observation of the log (ReadFindsLatest).                               *)
(*                                                                         *)
(* The ranks.  Inv places every publication: it is on offer at its owner,  *)
(* in flight, or the newest packet of the subscriber's row.  Handshake ties*)
(* the ranks together: the exchange of counts keeps them one push apart at *)
(* most, so that the first push under way is the one the subscriber awaits.*)
(***************************************************************************)
EXTENDS SnapshotHistory, SnapshotPush, SequenceTheorems, WellFoundedInduction, TLAPS

USE WindowSizeAssumption

RowOK(h) ==
    /\ h \in History
    /\ h.valid[0] /\ h.packets[0].version <= h.window_start
    /\ \A i \in 1 .. WindowSize :
          h.valid[i] =>
             /\ h.window_start < h.packets[i].version
             /\ h.packets[i].version <= h.window_start + WindowSize
             /\ SlotOf(h.window_start, h.packets[i].version) = i

Marked(h, mark) ==
    \A i \in Slot : h.valid[i] /\ h.packets[i].version > 0
                      => h.packets[i].mark = mark

UpTo(h, v) == \A i \in Slot : h.valid[i] => h.packets[i].version <= v

\* Slot i holds the newest packet of h that read may show at version v.
IsNewest(h, v, i) ==
    /\ i \in Slot /\ h.valid[i] /\ h.packets[i].version <= v
    /\ \A j \in Slot : h.valid[j] /\ h.packets[j].version <= v
                         => h.packets[j].version <= h.packets[i].version

-----------------------------------------------------------------------------
(* Arithmetic of the slots.                                                *)

(* SlotOf (install): a version of the window gets an output slot, an       *)
(* earlier one the predecessor slot.                                       *)
LEMMA SlotRange ==
    ASSUME NEW s \in Nat, NEW v \in Nat
    PROVE  /\ SlotOf(s, v) \in Slot
           /\ v <= s => SlotOf(s, v) = 0
           /\ v > s => SlotOf(s, v) \in 1 .. WindowSize
<1>1. CASE v <= s
  BY <1>1 DEF SlotOf, Slot
<1>2. CASE v > s
  <2>1. (v - 1) % WindowSize \in 0 .. WindowSize - 1
    BY <1>2
  <2> QED
    BY <1>2, <2>1 DEF SlotOf, Slot
<1> QED
  BY <1>1, <1>2

(* SlotOf: the slot of a version does not move while the window slides.    *)
LEMMA SlotStable ==
    ASSUME NEW s \in Nat, NEW t \in Nat, NEW v \in Nat, v > s, v > t
    PROVE  SlotOf(s, v) = SlotOf(t, v)
BY DEF SlotOf

(* SlotOf: two versions of one window never share a slot.                  *)
LEMMA SlotInjective ==
    ASSUME NEW s \in Nat, NEW u \in Nat, NEW v \in Nat,
           s < u, u <= s + WindowSize, s < v, v <= s + WindowSize,
           SlotOf(s, u) = SlotOf(s, v)
    PROVE  u = v
<1> DEFINE a == u - 1
           b == v - 1
           q == a \div WindowSize
           r == b \div WindowSize
<1>1. a \in Nat /\ b \in Nat /\ q \in Int /\ r \in Int
  OBVIOUS
<1>2. a % WindowSize = b % WindowSize
  BY <1>1 DEF SlotOf
<1>3. /\ a = WindowSize * q + (a % WindowSize)
      /\ b = WindowSize * r + (b % WindowSize)
  BY <1>1
<1>4. a - b = WindowSize * (q - r)
  BY <1>1, <1>2, <1>3
<1>5. a - b < WindowSize /\ b - a < WindowSize
  BY <1>1
<1>6. q - r < 1
  BY <1>1, <1>4, <1>5
<1>7. r - q < 1
  BY <1>1, <1>4, <1>5
<1>8. q = r
  BY <1>1, <1>6, <1>7
<1> QED
  BY <1>1, <1>4, <1>8

Less == {ss \in Nat \X Nat : ss[1] < ss[2]}

(* The order of the naturals as a set of pairs.                            *)
LEMMA LessWellFounded == IsWellFoundedOn(Less, Nat)
BY ONLY NatLessThanWellFounded, Zenon DEF OpToRel, Less

-----------------------------------------------------------------------------
(* Reading.                                                                *)

(* The types a row well formed has.                                        *)
LEMMA RowTypes ==
    ASSUME NEW h, RowOK(h)
    PROVE  /\ h \in History /\ h.window_start \in Nat
           /\ \A i \in Slot : /\ h.packets[i] \in Packet
                              /\ h.packets[i].version \in Nat
                              /\ h.packets[i].count \in Nat
BY DEF RowOK, History, Packet

(* The slots: the predecessor, and those of the window.                    *)
LEMMA Slots == /\ 0 \in Slot
               /\ \A i \in 1 .. WindowSize : i \in Slot /\ i # 0
               /\ \A i \in Slot : i # 0 => i \in 1 .. WindowSize
BY DEF Slot

(* Two slots of a row never hold the same version.                         *)
LEMMA SlotUnique ==
    ASSUME NEW h, RowOK(h), NEW i \in Slot, NEW j \in Slot,
           h.valid[i], h.valid[j], h.packets[i].version = h.packets[j].version
    PROVE  i = j
<1>1. /\ h.window_start \in Nat
      /\ \A k \in Slot : h.packets[k].version \in Nat
  BY RowTypes
<1>2. \A k \in Slot : k = 0 \/ k \in 1 .. WindowSize
  BY Slots
<1>3. \A k \in 1 .. WindowSize :
        h.valid[k] => /\ h.window_start < h.packets[k].version
                      /\ SlotOf(h.window_start, h.packets[k].version) = k
  BY DEF RowOK
<1>4. h.packets[0].version <= h.window_start
  BY DEF RowOK
<1>5. i = 0 <=> j = 0
  BY <1>1, <1>2, <1>3, <1>4
<1> QED
  BY <1>2, <1>3, <1>5

(* read: any slot that holds the newest causal packet is what it shows.    *)
LEMMA ReadIs ==
    ASSUME NEW h, RowOK(h), NEW v \in Nat, NEW i, IsNewest(h, v, i)
    PROVE  Read(h, v) = h.packets[i]
<1> DEFINE C == Causal(h, v)
           n == NewestSlot(h, C)
<1>1. i \in C /\ \A j \in C : h.packets[j].version <= h.packets[i].version
  BY DEF Causal, IsNewest
<1>2. n \in C /\ \A j \in C : h.packets[j].version <= h.packets[n].version
  BY <1>1 DEF NewestSlot
<1>3. /\ n \in Slot /\ i \in Slot /\ h.valid[n] /\ h.valid[i]
      /\ h.packets[i].version <= h.packets[n].version
      /\ h.packets[n].version <= h.packets[i].version
  BY <1>1, <1>2 DEF Causal
<1>4. h.packets[i].version \in Nat /\ h.packets[n].version \in Nat
  BY <1>3 DEF RowOK, History, Packet
<1>5. n = i
  <2> HIDE DEF n
  <2> QED
    BY <1>3, <1>4, SlotUnique
<1> QED
  BY <1>1, <1>5 DEF Read

(* read: at or after the window start some slot holds the newest causal    *)
(* packet.                                                                 *)
LEMMA NewestExists ==
    ASSUME NEW h, RowOK(h), NEW v \in Nat, v >= h.window_start
    PROVE  \E i : IsNewest(h, v, i)
<1> DEFINE T == {n \in Nat : \E i \in Slot :
                     h.valid[i] /\ h.packets[i].version = v - n}
<1>1. /\ h.window_start \in Nat
      /\ \A i \in Slot : h.packets[i].version \in Nat
  BY DEF RowOK, History, Packet
<1>2. 0 \in Slot
  BY DEF Slot
<1>3. T \subseteq Nat /\ v - h.packets[0].version \in T
  BY <1>1, <1>2 DEF RowOK
<1>4. PICK n \in T : \A m \in T : ~ (<<m, n>> \in Less)
  <2> HIDE DEF T
  <2> QED
    BY <1>3, WFMin, LessWellFounded
<1>5. \A m \in T : ~ (m < n)
  BY <1>3, <1>4 DEF Less
<1>6. PICK i \in Slot : h.valid[i] /\ h.packets[i].version = v - n
  OBVIOUS
<1>7. ASSUME NEW j \in Slot, h.valid[j], h.packets[j].version <= v
      PROVE  h.packets[j].version <= h.packets[i].version
  <2>1. v - h.packets[j].version \in T
    BY <1>1, <1>7
  <2> QED
    BY <2>1, <1>1, <1>5, <1>6
<1>8. IsNewest(h, v, i)
  BY <1>1, <1>6, <1>7 DEF IsNewest
<1> QED
  BY <1>8

(* read: what it shows at or after the window start is a packet of a slot. *)
LEMMA ReadFinds ==
    ASSUME NEW h, RowOK(h), NEW v \in Nat, v >= h.window_start
    PROVE  \E i : IsNewest(h, v, i) /\ Read(h, v) = h.packets[i]
BY NewestExists, ReadIs

(* read: every version shows the same packet once none is newer.           *)
LEMMA ReadUpTo ==
    ASSUME NEW h, RowOK(h), NEW u \in Nat, NEW v \in Nat,
           u >= h.window_start, UpTo(h, u), u <= v
    PROVE  Read(h, v) = Read(h, u)
<1>1. PICK i : IsNewest(h, u, i) /\ Read(h, u) = h.packets[i]
  BY ReadFinds
<1>2. IsNewest(h, v, i)
  BY <1>1 DEF IsNewest, UpTo, RowOK, History, Packet
<1> QED
  BY <1>1, <1>2, ReadIs

-----------------------------------------------------------------------------
(* Writing.                                                                *)

(* __init__, reset: the fresh row.                                         *)
LEMMA FreshRow ==
    /\ RowOK(Fresh) /\ Fresh.window_start = 0
    /\ \A mark : Marked(Fresh, mark)
    /\ \A v \in Nat : UpTo(Fresh, v) /\ Read(Fresh, v) = Zero
<1> DEFINE ok == [i \in Slot |-> i = 0]
           ps == [i \in Slot |-> Zero]
<1>1. Zero \in Packet /\ Zero.version = 0 /\ 0 \in Slot
  BY DEF Zero, Packet, Slot
<1>2. Fresh = [window_start |-> 0, valid |-> ok, packets |-> ps]
  BY DEF Fresh
<1>3. /\ ok \in [Slot -> BOOLEAN] /\ ps \in [Slot -> Packet]
      /\ \A i \in Slot : (ok[i] <=> i = 0) /\ ps[i] = Zero
  BY <1>1
<1> HIDE DEF ok, ps
<1>4. \A i \in 1 .. WindowSize : i \in Slot /\ i # 0
  BY DEF Slot
<1>5. /\ Fresh \in History /\ Fresh.window_start = 0
      /\ Fresh.valid = ok /\ Fresh.packets = ps
  BY <1>2, <1>3 DEF History
<1>6. RowOK(Fresh)
  BY <1>1, <1>3, <1>4, <1>5 DEF RowOK
<1>7. \A v \in Nat : UpTo(Fresh, v) /\ IsNewest(Fresh, v, 0)
  BY <1>1, <1>3, <1>5 DEF UpTo, IsNewest
<1>8. \A v \in Nat : Read(Fresh, v) = Zero
  BY <1>1, <1>3, <1>5, <1>6, <1>7, ReadIs
<1> QED
  BY <1>1, <1>3, <1>5, <1>6, <1>7, <1>8 DEF Marked

\* k is h with packet p written to slot i.
Written(h, k, p, i) ==
    /\ k.window_start = h.window_start
    /\ k.valid[i] /\ k.packets[i] = p
    /\ h.valid[i] => h.packets[i].version = p.version
    /\ \A j \in Slot : j # i => /\ k.valid[j] = h.valid[j]
                                /\ k.packets[j] = h.packets[j]

(* install: a packet of the window is written to the slot of its version,  *)
(* whatever stands there already.                                          *)
LEMMA InstallKeepsRow ==
    ASSUME NEW h, RowOK(h), NEW p \in Packet,
           h.window_start < p.version,
           p.version <= h.window_start + WindowSize
    PROVE  /\ RowOK(Install(h, p))
           /\ \E i \in 1 .. WindowSize : Written(h, Install(h, p), p, i)
<1> DEFINE i == SlotOf(h.window_start, p.version)
           k == Install(h, p)
<1>1. h.window_start \in Nat /\ p.version \in Nat /\ h \in History
  BY DEF RowOK, History, Packet
<1>2. i \in 1 .. WindowSize /\ i \in Slot
  BY <1>1, SlotRange
<1>3. h.valid[i] => h.packets[i].version = p.version
  <2> SUFFICES ASSUME h.valid[i] PROVE h.packets[i].version = p.version
    OBVIOUS
  <2>1. /\ h.packets[i].version \in Nat
        /\ h.window_start < h.packets[i].version
        /\ h.packets[i].version <= h.window_start + WindowSize
        /\ SlotOf(h.window_start, h.packets[i].version) = i
    BY <1>1, <1>2 DEF RowOK, History, Packet
  <2> QED
    BY <2>1, <1>1, SlotInjective
<1>4. ~ BeyondWindow(h.window_start, p.version) /\ ~ Supersedes(h, i, p.version)
  BY <1>1, <1>3 DEF BeyondWindow, Supersedes
<1>5. k = [window_start |-> h.window_start,
           valid |-> [h.valid EXCEPT ![i] = TRUE],
           packets |-> [h.packets EXCEPT ![i] = p]]
  BY <1>4 DEF Install
<1>6. SlotOf(h.window_start, p.version) = i
  OBVIOUS
<1>7. k \in History /\ Written(h, k, p, i)
  BY <1>1, <1>2, <1>3, <1>5 DEF History, Written
<1> HIDE DEF k, i
<1>8. RowOK(k)
  <2>1. 0 \in Slot /\ i # 0
    BY <1>2 DEF Slot
  <2>2. k.valid[0] /\ k.packets[0].version <= k.window_start
    BY <1>7, <2>1 DEF Written, RowOK
  <2>3. ASSUME NEW j \in 1 .. WindowSize, k.valid[j]
        PROVE  /\ k.window_start < k.packets[j].version
               /\ k.packets[j].version <= k.window_start + WindowSize
               /\ SlotOf(k.window_start, k.packets[j].version) = j
    <3>1. CASE j = i
      BY <3>1, <1>6, <1>7 DEF Written
    <3>2. CASE j # i
      BY <3>2, <2>3, <1>7 DEF Written, RowOK, Slot
    <3> QED
      BY <3>1, <3>2
  <2> QED
    BY <1>7, <2>2, <2>3 DEF RowOK
<1> QED
  BY <1>2, <1>7, <1>8 DEF k

(* install: a packet newer than all others is what read shows from its     *)
(* version on, and changes nothing before.                                 *)
LEMMA InstallNewest ==
    ASSUME NEW h, RowOK(h), NEW p \in Packet,
           h.window_start < p.version,
           p.version <= h.window_start + WindowSize,
           UpTo(h, p.version - 1)
    PROVE  /\ UpTo(Install(h, p), p.version)
           /\ \A v \in Nat : v >= p.version => Read(Install(h, p), v) = p
           /\ \A v \in h.window_start .. p.version - 1 :
                 Read(Install(h, p), v) = Read(h, v)
<1> DEFINE k == Install(h, p)
<1>1. PICK i \in 1 .. WindowSize : Written(h, k, p, i)
  BY InstallKeepsRow
<1>2. RowOK(k)
  BY InstallKeepsRow
<1> HIDE DEF k
<1>3. /\ i \in Slot /\ p.version \in Nat /\ h.window_start \in Nat
      /\ \A j \in Slot : h.packets[j].version \in Nat
  BY RowTypes, Slots DEF Packet
<1>4. ~ h.valid[i]
  BY <1>1, <1>3 DEF Written, UpTo
<1>5. UpTo(k, p.version)
  BY <1>1, <1>3 DEF UpTo, Written
<1>6. ASSUME NEW v \in Nat, v >= p.version
      PROVE  Read(k, v) = p
  <2>1. IsNewest(k, v, i)
    BY <1>1, <1>3, <1>5, <1>6 DEF IsNewest, Written, UpTo
  <2> QED
    BY <1>1, <1>2, <2>1, ReadIs DEF Written
<1>7. ASSUME NEW v \in h.window_start .. p.version - 1
      PROVE  Read(k, v) = Read(h, v)
  <2>1. v \in Nat /\ v >= h.window_start /\ v < p.version
    BY <1>3
  <2>2. PICK j : IsNewest(h, v, j) /\ Read(h, v) = h.packets[j]
    BY <2>1, ReadFinds
  <2>3. j \in Slot /\ j # i /\ k.packets[j] = h.packets[j]
    BY <1>1, <1>4, <2>2 DEF IsNewest, Written
  <2>4. IsNewest(k, v, j)
    BY <1>1, <2>1, <2>2, <2>3, <1>3 DEF IsNewest, Written
  <2> QED
    BY <1>2, <2>1, <2>2, <2>3, <2>4, ReadIs
<1> QED
  BY <1>5, <1>6, <1>7 DEF k

(* install: the packet shows the mark of the others, if it has it.         *)
LEMMA InstallMarked ==
    ASSUME NEW h, RowOK(h), NEW p \in Packet,
           h.window_start < p.version,
           p.version <= h.window_start + WindowSize,
           Marked(h, p.mark)
    PROVE  Marked(Install(h, p), p.mark)
<1>1. PICK i \in 1 .. WindowSize : Written(h, Install(h, p), p, i)
  BY InstallKeepsRow
<1> QED
  BY <1>1 DEF Marked, Written

(* update: the version computed stands in its slot afterwards.             *)
LEMMA UpdateKeepsRow ==
    ASSUME NEW h, RowOK(h), NEW v \in Nat, NEW mark \in Nat, Active(h, v),
           Marked(h, mark)
    PROVE  /\ RowOK(Update(h, v, mark)) /\ Marked(Update(h, v, mark), mark)
           /\ Update(h, v, mark).window_start = h.window_start
           /\ \E i \in Slot : /\ Update(h, v, mark).valid[i]
                              /\ Update(h, v, mark).packets[i].version = v
<1> DEFINE p == [version |-> v, count |-> Read(h, v - 1).count + 1, mark |-> mark]
<1>1. h.window_start \in Nat /\ v - 1 \in Nat /\ v - 1 >= h.window_start
  BY DEF Active, RowOK, History
<1>2. PICK j : IsNewest(h, v - 1, j) /\ Read(h, v - 1) = h.packets[j]
  BY <1>1, ReadFinds
<1>3. Read(h, v - 1).count \in Nat
  BY <1>2 DEF IsNewest, RowOK, History, Packet
<1>4. p \in Packet /\ p.version = v /\ p.mark = mark
  BY <1>3 DEF Packet
<1>5. Update(h, v, mark) = Install(h, p)
  BY DEF Update, CountedFrom
<1> HIDE DEF p
<1>6. h.window_start < p.version /\ p.version <= h.window_start + WindowSize
  BY <1>4 DEF Active
<1>7. RowOK(Install(h, p)) /\ Marked(Install(h, p), mark)
  BY <1>4, <1>6, InstallKeepsRow, InstallMarked
<1>8. PICK i \in 1 .. WindowSize : Written(h, Install(h, p), p, i)
  BY <1>4, <1>6, InstallKeepsRow
<1> QED
  BY <1>4, <1>5, <1>7, <1>8 DEF Written, Slot

(* advance: the row stays a row, and at or after the new window start read *)
(* shows what it did before.                                               *)
LEMMA AdvanceKeepsRow ==
    ASSUME NEW h, RowOK(h), NEW s \in Nat, s >= h.window_start
    PROVE  /\ RowOK(Advance(h, s)) /\ Advance(h, s).window_start = s
           /\ \A v \in Nat : v >= s => Read(Advance(h, s), v) = Read(h, v)
           /\ \A mark : Marked(h, mark) => Marked(Advance(h, s), mark)
           /\ \A v \in Nat : UpTo(h, v) => UpTo(Advance(h, s), v)
<1> DEFINE k == Advance(h, s)
           ok == [i \in Slot |-> i = 0 \/ StillValid(h, s, i)]
           ps == [h.packets EXCEPT ![0] = Read(h, s)]
<1>1. /\ h \in History /\ h.window_start \in Nat /\ 0 \in Slot
      /\ \A i \in Slot : h.packets[i].version \in Nat
      /\ h.valid \in [Slot -> BOOLEAN] /\ h.packets \in [Slot -> Packet]
  BY SMTT(30) DEF RowOK, History, Packet, Slot
<1>2. PICK x : IsNewest(h, s, x) /\ Read(h, s) = h.packets[x]
  BY ReadFinds
<1>3. x \in Slot /\ Read(h, s) \in Packet /\ Read(h, s).version <= s /\ h.valid[x]
  BY <1>1, <1>2 DEF IsNewest
<1>4. k = [window_start |-> s, valid |-> ok, packets |-> ps]
  BY DEF Advance, Seed
<1>5. /\ ok \in [Slot -> BOOLEAN] /\ ps \in [Slot -> Packet]
      /\ \A i \in Slot : ok[i] <=> i = 0 \/ (h.valid[i] /\ h.packets[i].version > s)
      /\ ps[0] = Read(h, s)
      /\ \A i \in Slot : i # 0 => ps[i] = h.packets[i]
  BY <1>1, <1>3 DEF StillValid
<1> HIDE DEF ok, ps
<1>6. /\ k \in History /\ k.window_start = s
      /\ k.valid = ok /\ k.packets = ps
  BY <1>4, <1>5 DEF History
<1> HIDE DEF k
<1>7. \A i \in 1 .. WindowSize : i \in Slot /\ i # 0
  BY DEF Slot
<1>8. ASSUME NEW i \in 1 .. WindowSize, k.valid[i]
      PROVE  /\ s < k.packets[i].version
             /\ k.packets[i].version <= s + WindowSize
             /\ SlotOf(s, k.packets[i].version) = i
  <2> DEFINE u == h.packets[i].version
  <2>1. k.packets[i].version = u /\ s < u /\ h.valid[i] /\ u \in Nat
    BY <1>1, <1>5, <1>6, <1>7, <1>8
  <2>2. /\ h.window_start < u /\ u <= h.window_start + WindowSize
        /\ SlotOf(h.window_start, u) = i
    BY <2>1 DEF RowOK
  <2>3. SlotOf(s, u) = i
    BY <1>1, <2>1, <2>2, SlotStable
  <2> QED
    BY <1>1, <2>1, <2>2, <2>3
<1>9. RowOK(k)
  BY <1>1, <1>3, <1>5, <1>6, <1>8 DEF RowOK
<1>10. /\ k.valid[0] /\ k.packets[0] = Read(h, s)
       /\ k.packets[0].version \in Nat /\ k.packets[0].version <= s
  <2>1. Read(h, s).version \in Nat
    BY <1>3 DEF Packet
  <2> QED
    BY <2>1, <1>1, <1>3, <1>5, <1>6
<1>11. ASSUME NEW v \in Nat, v >= s
       PROVE  Read(k, v) = Read(h, v)
  <2>1. PICK j : IsNewest(h, v, j) /\ Read(h, v) = h.packets[j]
    BY <1>1, <1>11, ReadFinds
  <2>2. CASE h.packets[j].version > s
    <3>1. j \in Slot /\ j # 0
      BY <1>1, <2>1, <2>2 DEF IsNewest, RowOK
    <3>2. /\ h.valid[j] /\ h.packets[j].version <= v
          /\ k.valid[j] /\ k.packets[j] = h.packets[j]
      BY <1>5, <1>6, <2>1, <2>2, <3>1 DEF IsNewest
    <3>3. ASSUME NEW i \in Slot, k.valid[i], k.packets[i].version <= v
          PROVE  k.packets[i].version <= h.packets[j].version
      <4>1. CASE i = 0
        <5>1. /\ k.packets[0].version \in Nat /\ k.packets[0].version <= s
              /\ h.packets[j].version \in Nat /\ h.packets[j].version > s
          BY <1>1, <1>10, <2>2, <3>1
        <5>2. k.packets[0].version <= h.packets[j].version
          BY <5>1
        <5> QED
          BY <4>1, <5>2
      <4>2. CASE i # 0
        <5>1. h.valid[i] /\ k.packets[i] = h.packets[i]
          BY <4>2, <3>3, <1>5, <1>6
        <5> QED
          BY <5>1, <3>3, <2>1 DEF IsNewest
      <4> QED
        BY <4>1, <4>2
    <3>4. IsNewest(k, v, j)
      BY <3>1, <3>2, <3>3 DEF IsNewest
    <3> QED
      BY <1>9, <3>2, <3>4, <2>1, ReadIs
  <2>3. CASE ~ (h.packets[j].version > s)
    <3>1. IsNewest(h, s, j)
      BY <1>1, <1>11, <2>1, <2>3 DEF IsNewest
    <3>2. Read(h, s) = h.packets[j]
      BY <3>1, ReadIs
    <3>3. \A i \in Slot : i # 0 => ~ (ok[i] /\ ps[i].version <= v)
      BY <1>1, <1>5, <1>11, <2>1, <2>3 DEF IsNewest
    <3>4. IsNewest(k, v, 0)
      <4>1. k.valid[0] /\ k.packets[0].version <= v
        BY <1>1, <1>10, <1>11
      <4>2. \A i \in Slot : k.valid[i] /\ k.packets[i].version <= v => i = 0
        BY <3>3, <1>6
      <4> QED
        BY <4>1, <4>2, <1>1, <1>10 DEF IsNewest
    <3> QED
      BY <1>5, <1>6, <1>9, <2>1, <3>2, <3>4, ReadIs
  <2> QED
    BY <2>2, <2>3
<1>12. ASSUME NEW mark, Marked(h, mark)
       PROVE  Marked(k, mark)
  BY <1>1, <1>2, <1>3, <1>5, <1>6, <1>12 DEF Marked
<1>13. ASSUME NEW v \in Nat, UpTo(h, v)
       PROVE  UpTo(k, v)
  BY <1>1, <1>2, <1>3, <1>5, <1>6, <1>13 DEF UpTo
<1> QED
  BY <1>6, <1>9, <1>11, <1>12, <1>13 DEF k

-----------------------------------------------------------------------------
(* One row and its log.                                                    *)

USE MaxVersionAssumption, MarksAssumption


Log == [Version -> Packet \cup {None}]

Represents(h, l) ==
    /\ h \in History /\ l \in Log
    /\ h.valid[0]
    /\ h.packets[0].version \in Version
    /\ h.packets[0].version <= h.window_start
    /\ l[h.packets[0].version] = h.packets[0]
    /\ \A u \in Version :
          h.packets[0].version < u /\ u <= h.window_start => l[u] = None
    /\ \A i \in 1 .. WindowSize :
          h.valid[i] =>
             /\ h.packets[i].version \in Version
             /\ h.packets[i].version <= h.window_start + WindowSize
             /\ h.window_start < h.packets[i].version
             /\ SlotOf(h.window_start, h.packets[i].version) = i
             /\ l[h.packets[i].version] = h.packets[i]
    /\ \A u \in Version :
          u > h.window_start /\ l[u] # None =>
             /\ h.valid[SlotOf(h.window_start, u)]
             /\ h.packets[SlotOf(h.window_start, u)] = l[u]
    /\ \A u \in Version : l[u] # None => l[u].version = u

-----------------------------------------------------------------------------
(* Reading.                                                                *)

(* A log whose version 0 is present has a latest entry below any version.  *)
LEMMA LatestExists ==
    ASSUME NEW l \in Log, l[0] # None, NEW v \in Version
    PROVE  \E u \in 0 .. v : /\ l[u] # None
                             /\ \A w \in u + 1 .. v : l[w] = None
<1> DEFINE T == {n \in Nat : n <= v /\ l[v - n] # None}
<1>1. T \subseteq Nat /\ v \in T
  BY DEF Version
<1>2. PICK n \in T : \A m \in T : ~ (<<m, n>> \in Less)
  <2> HIDE DEF T
  <2> QED
    BY <1>1, WFMin, LessWellFounded
<1>3. \A m \in T : ~ (m < n)
  BY <1>1, <1>2 DEF Less
<1>4. \A w \in v - n + 1 .. v : l[w] = None
  <2> SUFFICES ASSUME NEW w \in v - n + 1 .. v, l[w] # None
               PROVE  FALSE
    OBVIOUS
  <2>1. v - w \in T /\ v - w < n
    BY DEF Version
  <2> QED
    BY <2>1, <1>3
<1> QED
  BY <1>4 DEF Version

(* read: at or after the window start the slots answer with the latest     *)
(* entry of the log.                                                       *)
LEMMA ReadFindsLatest ==
    ASSUME NEW h, NEW l, Represents(h, l),
           NEW v \in Version, v >= h.window_start
    PROVE  \E u \in 0 .. v : /\ l[u] # None
                             /\ \A w \in u + 1 .. v : l[w] = None
                             /\ Read(h, v) = l[u]
<1> DEFINE old == h.packets[0].version
           C == Causal(h, v)
<1>1. old \in Version /\ old <= h.window_start /\ l[old] = h.packets[0]
  BY DEF Represents
<1>2. h.packets[0] # None /\ h.packets[0] \in Packet
  BY NoneAssumption DEF Represents, History, Slot
<1>3. l[0] # None \/ old > 0
  BY <1>1, <1>2 DEF Version
<1>4. PICK u \in 0 .. v : l[u] # None /\ \A w \in u + 1 .. v : l[w] = None
  <2> DEFINE m == [l EXCEPT ![0] = h.packets[0]]
  <2>1. m \in Log /\ m[0] # None
    BY <1>2 DEF Log, Version, Represents
  <2>2. PICK x \in 0 .. v : m[x] # None /\ \A w \in x + 1 .. v : m[w] = None
    BY <2>1, LatestExists
  <2>3. \A w \in Version : w > 0 => m[w] = l[w]
    BY DEF Log, Version, Represents
  <2>4. CASE x > 0
    BY <2>2, <2>3, <2>4 DEF Version
  <2>5. CASE x = 0
    <3>1. \A w \in 1 .. v : l[w] = None
      BY <2>2, <2>3, <2>5 DEF Version
    <3>2. old = 0
      BY <3>1, <1>1, <1>2 DEF Version, Represents, History
    <3> QED
      BY <3>1, <3>2, <1>1, <1>2 DEF Version
  <2> QED
    BY <2>2, <2>4, <2>5
<1>5. h.window_start \in Nat /\ v \in Nat
  BY DEF Represents, History, Version
<1>6. 0 \in C /\ C \subseteq Slot
  BY <1>1, <1>5 DEF Causal, Represents, Slot, Version
<1>7. \A j \in C : /\ h.packets[j].version \in 0 .. u
                   /\ l[h.packets[j].version] = h.packets[j]
  <2> SUFFICES ASSUME NEW j \in C
               PROVE  /\ h.packets[j].version \in 0 .. u
                      /\ l[h.packets[j].version] = h.packets[j]
    OBVIOUS
  <2>1. /\ h.packets[j].version \in Version
        /\ l[h.packets[j].version] = h.packets[j]
        /\ h.packets[j].version <= v
    BY <1>1, <1>6 DEF Causal, Represents, Slot
  <2>2. h.packets[j] # None
    BY <1>6, NoneAssumption DEF Represents, History
  <2> QED
    BY <2>1, <2>2, <1>4 DEF Version
<1>8. PICK i \in C : h.packets[i].version = u /\ h.packets[i] = l[u]
  <2>1. CASE u <= h.window_start
    <3>1. old = u
      BY <1>1, <1>4, <1>6, <1>7, <2>1, <1>5 DEF Represents, Version
    <3> QED
      BY <3>1, <1>1, <1>6
  <2>2. CASE u > h.window_start
    <3> DEFINE i == SlotOf(h.window_start, u)
    <3>0. u \in Version
      BY <1>5 DEF Version
    <3>1. h.valid[i] /\ h.packets[i] = l[u] /\ l[u].version = u
      BY <1>4, <2>2, <3>0 DEF Represents
    <3>2. i \in Slot
      BY <1>5, SlotRange
    <3> QED
      BY <3>1, <3>2 DEF Causal
  <2> QED
    BY <2>1, <2>2, <1>5
<1>9. \A j \in C : h.packets[j].version <= h.packets[i].version
  BY <1>7, <1>8
<1>10. NewestSlot(h, C) \in C /\ h.packets[NewestSlot(h, C)].version >= u
  BY <1>8, <1>9 DEF NewestSlot
<1>11. h.packets[NewestSlot(h, C)] = l[u]
  BY <1>10, <1>7
<1>12. Read(h, v) = l[u]
  BY <1>11, <1>6 DEF Read
<1> QED
  BY <1>4, <1>12

-----------------------------------------------------------------------------
(* Writing.                                                                *)

Accepted(h, l, p) ==
    IF p.version <= h.window_start + WindowSize
    THEN [l EXCEPT ![p.version] = p] ELSE l

(* install: the slots keep standing for the log whether the packet is      *)
(* ahead of the window, superseded, late or new.                           *)
LEMMA InstallKeeps ==
    ASSUME NEW h, NEW l, Represents(h, l),
           NEW p \in Packet, p.version \in Version
    PROVE  Represents(Install(h, p), Accepted(h, l, p))
<1> DEFINE s == h.window_start
           v == p.version
           i == SlotOf(s, v)
           k == Install(h, p)
           m == Accepted(h, l, p)
<1>1. /\ s \in Nat /\ v \in Nat /\ v \in Version /\ p # None
      /\ h \in History /\ l \in Log
  BY NoneAssumption DEF Represents, History, Version
<1>2. /\ i \in Slot
      /\ v <= s => i = 0
      /\ v > s => i \in 1 .. WindowSize
  BY <1>1, SlotRange
<1>3. CASE v > s + WindowSize
  BY <1>1, <1>3 DEF Install, BeyondWindow, Accepted
<1>4. CASE v <= s + WindowSize /\ Supersedes(h, i, v)
  <2>1. k = h /\ m = [l EXCEPT ![v] = p]
    BY <1>1, <1>4 DEF Install, Accepted
  <2>2. v <= s
    <3> SUFFICES ASSUME v > s PROVE FALSE
      BY <1>1
    <3> DEFINE u == h.packets[i].version
    <3>1. /\ u \in Nat /\ s < u /\ u <= s + WindowSize /\ v < u
          /\ SlotOf(s, u) = i
      BY <1>2, <1>4 DEF Supersedes, Represents, Version
    <3> QED
      BY <3>1, <1>1, <1>4, SlotInjective
  <2>3. v < h.packets[0].version
    BY <2>2, <1>2, <1>4 DEF Supersedes
  <2>4. m \in Log /\ m[v] = p
    BY <1>1, <2>1 DEF Log
  <2>5. \A u \in Version : u # v => m[u] = l[u]
    BY <1>1, <2>1 DEF Log
  <2>6. h.packets[0].version \in Nat
    BY DEF Represents, Version
  <2>7. /\ m[h.packets[0].version] = h.packets[0]
        /\ \A u \in Version :
              h.packets[0].version < u /\ u <= s => m[u] = None
    BY <1>1, <2>3, <2>5, <2>6 DEF Represents
  <2>8. \A j \in 1 .. WindowSize :
          h.valid[j] => m[h.packets[j].version] = h.packets[j]
    BY <1>1, <2>2, <2>5 DEF Represents
  <2>9. \A u \in Version :
          u > s /\ m[u] # None =>
             /\ h.valid[SlotOf(s, u)]
             /\ h.packets[SlotOf(s, u)] = m[u]
    BY <1>1, <2>2, <2>5 DEF Represents
  <2>10. \A u \in Version : m[u] # None => m[u].version = u
    BY <2>4, <2>5 DEF Represents
  <2> HIDE DEF m
  <2>11. Represents(h, m)
    BY <2>4, <2>7, <2>8, <2>9, <2>10 DEF Represents
  <2> QED
    BY <2>1, <2>11 DEF m
<1>5. CASE v <= s + WindowSize /\ ~Supersedes(h, i, v)
  <2>1. /\ k = [window_start |-> s,
                valid |-> [h.valid EXCEPT ![i] = TRUE],
                packets |-> [h.packets EXCEPT ![i] = p]]
        /\ m = [l EXCEPT ![v] = p]
    BY <1>1, <1>5 DEF Install, Accepted, BeyondWindow
  <2>2. k \in History /\ m \in Log /\ k.window_start = s
    BY <1>1, <1>2, <2>1 DEF History, Log
  <2>3. /\ k.valid[i] /\ k.packets[i] = p /\ m[v] = p
        /\ \A j \in Slot : j # i => /\ k.valid[j] = h.valid[j]
                                    /\ k.packets[j] = h.packets[j]
        /\ \A u \in Version : u # v => m[u] = l[u]
    BY <1>1, <1>2, <2>1 DEF History, Log
  <2> HIDE DEF k, m
  <2>4. CASE v <= s
    <3>1. i = 0 /\ v >= h.packets[0].version
      BY <1>1, <1>2, <1>5, <2>4 DEF Supersedes, Represents, Version
    <3>2. \A u \in Version : v < u /\ u <= s => m[u] = None
      BY <1>1, <2>3, <3>1 DEF Represents, Version
    <3>3. \A j \in 1 .. WindowSize :
            k.valid[j] =>
               /\ k.packets[j].version \in Version
               /\ k.packets[j].version <= s + WindowSize
               /\ s < k.packets[j].version
               /\ SlotOf(s, k.packets[j].version) = j
               /\ m[k.packets[j].version] = k.packets[j]
      BY <1>1, <2>3, <2>4, <3>1 DEF Represents, Version, Slot
    <3>4. \A u \in Version :
            u > s /\ m[u] # None =>
               /\ k.valid[SlotOf(s, u)]
               /\ k.packets[SlotOf(s, u)] = m[u]
      <4> SUFFICES ASSUME NEW u \in Version, u > s, m[u] # None
                   PROVE  k.valid[SlotOf(s, u)] /\ k.packets[SlotOf(s, u)] = m[u]
        OBVIOUS
      <4>1. u # v /\ m[u] = l[u]
        BY <2>3, <2>4, <1>1 DEF Version
      <4>2. SlotOf(s, u) \in 1 .. WindowSize
        BY <1>1, SlotRange DEF Version
      <4> QED
        BY <4>1, <4>2, <2>3, <3>1 DEF Represents, Slot
    <3>5. \A u \in Version : m[u] # None => m[u].version = u
      BY <2>3 DEF Represents
    <3>6. /\ k.valid[0] /\ k.packets[0] = p /\ m[v] = p
      BY <2>3, <3>1
    <3>7. Represents(k, m)
      BY <1>1, <2>2, <2>4, <3>2, <3>3, <3>4, <3>5, <3>6 DEF Represents
    <3> QED
      BY <3>7 DEF k, m
  <2>5. CASE v > s
    <3>1. i # 0 /\ i \in 1 .. WindowSize /\ 0 \in Slot
      BY <1>2, <2>5 DEF Slot
    <3>2. /\ k.valid[0] /\ k.packets[0] = h.packets[0]
          /\ h.packets[0].version # v
          /\ h.packets[0].version \in Version
          /\ h.packets[0].version <= s
          /\ m[h.packets[0].version] = h.packets[0]
      BY <1>1, <2>3, <2>5, <3>1 DEF Represents, Version
    <3>3. \A u \in Version :
            h.packets[0].version < u /\ u <= s => m[u] = None
      BY <1>1, <2>3, <2>5 DEF Represents, Version
    <3>4. \A j \in 1 .. WindowSize :
            k.valid[j] =>
               /\ k.packets[j].version \in Version
               /\ k.packets[j].version <= s + WindowSize
               /\ s < k.packets[j].version
               /\ SlotOf(s, k.packets[j].version) = j
               /\ m[k.packets[j].version] = k.packets[j]
      <4> SUFFICES ASSUME NEW j \in 1 .. WindowSize, k.valid[j]
                   PROVE  /\ k.packets[j].version \in Version
                          /\ k.packets[j].version <= s + WindowSize
                          /\ s < k.packets[j].version
                          /\ SlotOf(s, k.packets[j].version) = j
                          /\ m[k.packets[j].version] = k.packets[j]
        OBVIOUS
      <4>1. CASE j = i
        BY <4>1, <1>1, <1>5, <2>3, <2>5
      <4>2. CASE j # i
        <5>1. h.valid[j] /\ k.packets[j] = h.packets[j]
          BY <4>2, <2>3 DEF Slot
        <5>2. h.packets[j].version # v
          BY <4>2, <5>1 DEF Represents
        <5> QED
          BY <5>1, <5>2, <2>3 DEF Represents
      <4> QED
        BY <4>1, <4>2
    <3>5. \A u \in Version :
            u > s /\ m[u] # None =>
               /\ k.valid[SlotOf(s, u)]
               /\ k.packets[SlotOf(s, u)] = m[u]
      <4> SUFFICES ASSUME NEW u \in Version, u > s, m[u] # None
                   PROVE  k.valid[SlotOf(s, u)] /\ k.packets[SlotOf(s, u)] = m[u]
        OBVIOUS
      <4>1. CASE u = v
        BY <4>1, <2>3
      <4>2. CASE u # v
        <5> DEFINE j == SlotOf(s, u)
        <5>1. m[u] = l[u] /\ h.valid[j] /\ h.packets[j] = l[u] /\ l[u].version = u
          BY <4>2, <2>3 DEF Represents
        <5>2. j \in 1 .. WindowSize /\ u \in Nat
          BY <1>1, SlotRange DEF Version
        <5>3. u <= s + WindowSize
          BY <5>1, <5>2 DEF Represents
        <5>4. j # i
          BY <4>2, <5>2, <5>3, <1>1, <1>5, <2>5, SlotInjective
        <5> QED
          BY <5>1, <5>2, <5>4, <2>3 DEF Slot
      <4> QED
        BY <4>1, <4>2
    <3>6. \A u \in Version : m[u] # None => m[u].version = u
      BY <2>3 DEF Represents
    <3>7. Represents(k, m)
      BY <1>1, <2>2, <3>2, <3>3, <3>4, <3>5, <3>6 DEF Represents
    <3> QED
      BY <3>7 DEF k, m
  <2> QED
    BY <2>4, <2>5, <1>1
<1> QED
  BY <1>1, <1>3, <1>4, <1>5

(* advance: promoting the newest causal packet to the predecessor slot and *)
(* dropping the versions behind the new start loses nothing a later read   *)
(* may ask for.                                                            *)
LEMMA AdvanceKeeps ==
    ASSUME NEW h, NEW l, Represents(h, l),
           NEW s \in Version, s > h.window_start
    PROVE  Represents(Advance(h, s), l)
<1> DEFINE k == Advance(h, s)
           r == h.window_start
<1>1. /\ r \in Nat /\ s \in Nat /\ h \in History /\ l \in Log
      /\ 0 \in Slot /\ 1 .. WindowSize \subseteq Slot
  BY DEF Represents, History, Version, Slot
<1>2. PICK u \in 0 .. s : /\ l[u] # None
                          /\ \A w \in u + 1 .. s : l[w] = None
                          /\ Read(h, s) = l[u]
  BY ReadFindsLatest, <1>1
<1>3. u \in Version /\ l[u] \in Packet /\ l[u].version = u
  BY <1>1, <1>2 DEF Represents, Log, Version
<1>4. /\ k = [window_start |-> s,
              valid |-> [i \in Slot |-> i = 0 \/ StillValid(h, s, i)],
              packets |-> [h.packets EXCEPT ![0] = l[u]]]
  BY <1>2 DEF Advance, Seed
<1>5. /\ k \in History /\ k.window_start = s
      /\ k.valid[0] /\ k.packets[0] = l[u]
      /\ \A i \in 1 .. WindowSize :
            /\ k.valid[i] => h.valid[i] /\ h.packets[i].version > s
            /\ h.valid[i] /\ h.packets[i].version > s => k.valid[i]
            /\ k.packets[i] = h.packets[i]
  <2> DEFINE ok == [i \in Slot |-> i = 0 \/ StillValid(h, s, i)]
             ps == [h.packets EXCEPT ![0] = l[u]]
  <2>1. ps \in [Slot -> Packet] /\ h.packets \in [Slot -> Packet]
    BY <1>1, <1>3 DEF History
  <2>2. ok \in [Slot -> BOOLEAN]
    BY DEF StillValid
  <2>3. \A i \in Slot : ok[i] <=> i = 0 \/ StillValid(h, s, i)
    OBVIOUS
  <2>4. \A i \in 1 .. WindowSize : ps[i] = h.packets[i]
    BY <1>1, <2>1
  <2>5. ps[0] = l[u]
    BY <1>1, <2>1
  <2>6. k.window_start = s /\ k.valid = ok /\ k.packets = ps
    BY <1>4
  <2>7. k \in History
    BY <1>1, <1>4, <2>1, <2>2 DEF History
  <2> HIDE DEF ok, ps, k
  <2>8. \A i \in 1 .. WindowSize : k.valid[i] <=> StillValid(h, s, i)
    BY <1>1, <2>3, <2>6
  <2> QED
    BY <1>1, <2>3, <2>4, <2>5, <2>6, <2>7, <2>8 DEF StillValid
<1> HIDE DEF k
<1>6. \A w \in Version : u < w /\ w <= s => l[w] = None
  BY <1>1, <1>2 DEF Version
<1>7. \A i \in 1 .. WindowSize :
        k.valid[i] =>
           /\ k.packets[i].version \in Version
           /\ k.packets[i].version <= s + WindowSize
           /\ s < k.packets[i].version
           /\ SlotOf(s, k.packets[i].version) = i
           /\ l[k.packets[i].version] = k.packets[i]
  <2> SUFFICES ASSUME NEW i \in 1 .. WindowSize, k.valid[i]
               PROVE  /\ k.packets[i].version \in Version
                      /\ k.packets[i].version <= s + WindowSize
                      /\ s < k.packets[i].version
                      /\ SlotOf(s, k.packets[i].version) = i
                      /\ l[k.packets[i].version] = k.packets[i]
    OBVIOUS
  <2> DEFINE x == h.packets[i].version
  <2>1. /\ k.packets[i] = h.packets[i] /\ h.valid[i] /\ s < x
    BY <1>5
  <2>2. /\ x \in Version /\ x <= r + WindowSize /\ r < x
        /\ SlotOf(r, x) = i /\ l[x] = h.packets[i]
    BY <2>1 DEF Represents
  <2>3. SlotOf(s, x) = i
    BY <1>1, <2>1, <2>2, SlotStable DEF Version
  <2> QED
    BY <1>1, <2>1, <2>2, <2>3 DEF Version
<1>8. \A w \in Version :
        w > s /\ l[w] # None =>
           /\ k.valid[SlotOf(s, w)]
           /\ k.packets[SlotOf(s, w)] = l[w]
  <2> SUFFICES ASSUME NEW w \in Version, w > s, l[w] # None
               PROVE  k.valid[SlotOf(s, w)] /\ k.packets[SlotOf(s, w)] = l[w]
    OBVIOUS
  <2>1. w \in Nat /\ w > r
    BY <1>1 DEF Version
  <2>2. SlotOf(s, w) = SlotOf(r, w) /\ SlotOf(s, w) \in 1 .. WindowSize
    BY <1>1, <2>1, SlotStable, SlotRange
  <2>3. /\ h.valid[SlotOf(r, w)] /\ h.packets[SlotOf(r, w)] = l[w]
        /\ l[w].version = w
    BY <2>1 DEF Represents
  <2> QED
    BY <1>5, <2>2, <2>3
<1>9. \A w \in Version : l[w] # None => l[w].version = w
  BY DEF Represents
<1>10. Represents(k, l)
  BY <1>1, <1>2, <1>3, <1>5, <1>6, <1>7, <1>8, <1>9 DEF Represents
<1> QED
  BY <1>10 DEF k

(* __init__ and reset: the fresh slots stand for the empty log.            *)
LEMMA FreshRepresents == Represents(Fresh, Abstract!EmptyLog)
<1> DEFINE l == Abstract!EmptyLog
<1>1. Zero \in Packet /\ 0 \in Version /\ 0 \in Slot
  BY DEF Zero, Packet, Version, Slot
<1>2. l = [v \in Version |-> IF v = 0 THEN Zero ELSE None]
  BY DEF Abstract!EmptyLog, Abstract!Version, Abstract!Zero, Version, Zero
<1>3. l \in Log /\ l[0] = Zero /\ \A v \in Version : v # 0 => l[v] = None
  BY <1>1, <1>2 DEF Log
<1>4. /\ Fresh \in History /\ Fresh.window_start = 0 /\ Fresh.valid[0]
      /\ Fresh.packets[0] = Zero
      /\ \A i \in 1 .. WindowSize : ~ Fresh.valid[i]
  <2> DEFINE ok == [i \in Slot |-> i = 0]
             ps == [i \in Slot |-> Zero]
  <2>1. ok \in [Slot -> BOOLEAN] /\ ps \in [Slot -> Packet]
    BY <1>1
  <2>2. ok[0] /\ ps[0] = Zero /\ \A i \in 1 .. WindowSize : ~ ok[i]
    <3>1. \A i \in Slot : ok[i] <=> i = 0
      OBVIOUS
    <3>2. \A i \in 1 .. WindowSize : i \in Slot /\ i # 0
      BY DEF Slot
    <3>3. ps[0] = Zero
      BY <1>1
    <3> HIDE DEF ok, ps
    <3> QED
      BY <1>1, <3>1, <3>2, <3>3
  <2>3. Fresh = [window_start |-> 0, valid |-> ok, packets |-> ps]
    BY DEF Fresh
  <2> HIDE DEF ok, ps
  <2> QED
    BY <2>1, <2>2, <2>3 DEF History
<1>5. Zero.version = 0
  BY DEF Zero
<1>6. \A u \in Version : ~ (0 < u /\ u <= 0)
  BY DEF Version
<1>7. \A u \in Version : l[u] # None => l[u].version = u
  BY <1>3, <1>5
<1>8. \A u \in Version : u > 0 => l[u] = None
  BY <1>3 DEF Version
<1> HIDE DEF l
<1>9. Represents(Fresh, l)
  BY <1>1, <1>3, <1>4, <1>5, <1>6, <1>7, <1>8 DEF Represents
<1> QED
  BY <1>9 DEF l

-----------------------------------------------------------------------------
(* The invariant: the slots stand for the log, and neither counts a        *)
(* snapshot twice.                                                         *)

Counts(h, l) ==
    /\ \A i \in Slot : /\ h.packets[i].version \in Version
                       /\ h.packets[i].count <= h.packets[i].version
    /\ \A u \in Version : l[u] # None => l[u].count <= u

RowInv ==
    /\ Represents(row, log)
    /\ row.window_start \in Version
    /\ Counts(row, log)

(* read: what the slots answer is the view of the full log.                *)
LEMMA ReadIsView ==
    ASSUME Represents(row, log),
           NEW v \in Version, v >= row.window_start
    PROVE  /\ Read(row, v) = Abstract!View(v)
           /\ \E u \in 0 .. v : /\ log[u] # None
                                /\ u \in Version
                                /\ Read(row, v) = log[u]
<1>1. PICK u \in 0 .. v : /\ log[u] # None
                          /\ \A w \in u + 1 .. v : log[w] = None
                          /\ Read(row, v) = log[u]
  BY ReadFindsLatest
<1>2. u \in Version /\ u \in Abstract!Version /\ Abstract!IsLatest(u, v)
  BY <1>1 DEF Version, Abstract!Version, Abstract!IsLatest
<1>3. \A x \in Abstract!Version : Abstract!IsLatest(x, v) => x = u
  BY <1>1 DEF Version, Abstract!Version, Abstract!IsLatest
<1>4. (CHOOSE x \in Abstract!Version : Abstract!IsLatest(x, v)) = u
  BY <1>2, <1>3
<1> QED
  BY <1>1, <1>2, <1>4 DEF Abstract!View

(* install: a packet that counts no more snapshots than its version keeps  *)
(* every count so bounded.                                                 *)
LEMMA InstallCounts ==
    ASSUME NEW h, NEW l, Represents(h, l), Counts(h, l),
           NEW p \in Packet, p.version \in Version, p.count <= p.version
    PROVE  /\ Counts(Install(h, p), Accepted(h, l, p))
           /\ Install(h, p).window_start = h.window_start
<1> DEFINE i == SlotOf(h.window_start, p.version)
           k == Install(h, p)
           m == Accepted(h, l, p)
<1>1. h \in History /\ l \in Log /\ i \in Slot
  BY SlotRange DEF Represents, History, Packet
<1>2. m = l \/ m = [l EXCEPT ![p.version] = p]
  BY DEF Accepted
<1>3. \A u \in Version : m[u] # None => m[u].count <= u
  BY <1>1, <1>2 DEF Log, Counts
<1>4. \/ k = h
      \/ k = [window_start |-> h.window_start,
              valid |-> [h.valid EXCEPT ![i] = TRUE],
              packets |-> [h.packets EXCEPT ![i] = p]]
  BY DEF Install
<1>5. k.window_start = h.window_start
      /\ \A j \in Slot : k.packets[j] = h.packets[j] \/ k.packets[j] = p
  BY <1>1, <1>4 DEF History
<1> HIDE DEF k, m
<1>6. Counts(k, m)
  BY <1>3, <1>5 DEF Counts
<1> QED
  BY <1>5, <1>6 DEF k, m

(* advance: only the predecessor slot changes, to an entry of the log.     *)
LEMMA AdvanceCounts ==
    ASSUME Represents(row, log), Counts(row, log),
           NEW s \in Version, s > row.window_start
    PROVE  Counts(Advance(row, s), log)
<1>1. PICK u \in 0 .. s : /\ log[u] # None /\ u \in Version
                          /\ Read(row, s) = log[u]
  BY ReadIsView DEF Represents, History, Version
<1>2. log[u].version = u /\ log[u].count <= u
  BY <1>1 DEF Represents, Counts
<1> DEFINE k == Advance(row, s)
<1>3. \A i \in Slot :
        k.packets[i] = row.packets[i] \/ k.packets[i] = log[u]
  BY <1>1 DEF Advance, Seed, Represents, History
<1> HIDE DEF k
<1>4. Counts(k, log)
  BY <1>1, <1>2, <1>3 DEF Counts
<1> QED
  BY <1>4 DEF k

(* update: the packet of a version inside the window is the one Compute of *)
(* the abstract log adds.                                                  *)
LEMMA UpdateInstalls ==
    ASSUME RowInv, NEW v \in Version, NEW mark \in Marks, Active(row, v)
    PROVE  LET p == [version |-> v,
                     count |-> Abstract!View(v - 1).count + 1,
                     mark |-> mark]
           IN  /\ p \in Packet /\ p.version = v /\ p.count <= v
               /\ v <= row.window_start + WindowSize
               /\ Read(row, CountedFrom(v)).count + 1 = p.count
               /\ Update(row, v, mark) = Install(row, p)
<1> DEFINE p == [version |-> v,
                 count |-> Abstract!View(v - 1).count + 1,
                 mark |-> mark]
<1>1. /\ v \in Nat /\ row.window_start \in Nat
      /\ v - 1 \in Version /\ v - 1 >= row.window_start
      /\ v <= row.window_start + WindowSize
  BY DEF Active, RowInv, Version
<1>2. PICK u \in 0 .. v - 1 : /\ log[u] # None /\ u \in Version
                              /\ Read(row, v - 1) = log[u]
                              /\ Read(row, v - 1) = Abstract!View(v - 1)
  BY <1>1, ReadIsView DEF RowInv
<1>3. log[u] \in Packet /\ log[u].count \in Nat /\ log[u].count <= u
  BY <1>2 DEF RowInv, Represents, Counts, Log, Packet
<1>4. p \in Packet /\ p.version = v /\ p.count <= v
  BY <1>1, <1>2, <1>3 DEF Packet
<1> QED
  BY <1>1, <1>2, <1>4 DEF Update, CountedFrom

(* The fresh history satisfies the invariant.                              *)
LEMMA FreshInv ==
    /\ Represents(Fresh, Abstract!EmptyLog)
    /\ Fresh.window_start \in Version
    /\ Counts(Fresh, Abstract!EmptyLog)
<1>1. Fresh.window_start \in Version
  BY DEF Fresh, Version
<1>2. \A i \in Slot : Fresh.packets[i] = Zero
  BY DEF Fresh
<1>3. \A u \in Version : Abstract!EmptyLog[u] # None =>
        u = 0 /\ Abstract!EmptyLog[u] = Zero
  BY DEF Abstract!EmptyLog, Abstract!Version, Abstract!Zero, Version, Zero
<1>4. Zero.version \in Version /\ Zero.version = 0 /\ Zero.count = 0
  BY DEF Zero, Version
<1> QED
  BY <1>1, <1>2, <1>3, <1>4, FreshRepresents DEF Counts

LEMMA RowInitInv == RowInit => RowInv
BY FreshInv DEF RowInit, RowInv

(* Every step keeps the invariant and is a step of the abstract log, or a  *)
(* stutter when a packet is ahead of the window.                           *)
LEMMA RowStepInv ==
    ASSUME RowInv, [RowNext]_rowvars
    PROVE  RowInv' /\ [Abstract!Next]_<<log, row.window_start>>
<1>1. ASSUME NEW s \in Version, AdvanceWindow(s)
      PROVE  RowInv' /\ Abstract!Next
  <2>1. /\ s > row.window_start /\ log' = log
        /\ row' = Advance(row, s)
    BY <1>1 DEF AdvanceWindow
  <2>2. row.window_start' = s
    BY <2>1 DEF Advance
  <2>3. RowInv'
    BY <2>1, <2>2, AdvanceKeeps, AdvanceCounts DEF RowInv
  <2>4. Abstract!Advance(s)
    BY <2>1, <2>2 DEF Abstract!Advance
  <2> QED
    BY <2>3, <2>4 DEF Abstract!Next, Abstract!Version, Version
<1>2. ASSUME NEW v \in Version, NEW mark \in Marks, UpdateRow(v, mark)
      PROVE  RowInv' /\ Abstract!Next
  <2> DEFINE p == [version |-> v,
                   count |-> Abstract!View(v - 1).count + 1,
                   mark |-> mark]
  <2>1. /\ Active(row, v) /\ p \in Packet /\ p.version = v /\ p.count <= v
        /\ v <= row.window_start + WindowSize
        /\ row' = Install(row, p)
        /\ log' = [log EXCEPT ![v] = p]
    BY <1>2, UpdateInstalls DEF UpdateRow
  <2> HIDE DEF p
  <2>2. log' = Accepted(row, log, p)
    BY <2>1 DEF Accepted
  <2>3. /\ Represents(Install(row, p), Accepted(row, log, p))
        /\ Counts(Install(row, p), Accepted(row, log, p))
        /\ Install(row, p).window_start = row.window_start
    BY <2>1, InstallKeeps, InstallCounts DEF RowInv
  <2>4. RowInv' /\ row.window_start' = row.window_start
    BY <2>1, <2>2, <2>3 DEF RowInv
  <2>5. Abstract!Compute(v, mark)
    BY <2>1, <2>4 DEF Abstract!Compute, Abstract!Observe, Active, p
  <2> QED
    BY <2>4, <2>5 DEF Abstract!Next, Abstract!Version, Version
<1>3. ASSUME NEW v \in 1 .. MaxVersion, NEW mark \in PeerMarks,
             NEW n \in 1 .. v, InstallPacket(v, n, mark)
      PROVE  RowInv' /\ (Abstract!Next \/ UNCHANGED <<log, row.window_start>>)
  <2> DEFINE p == [version |-> v, count |-> n, mark |-> mark]
  <2>1. /\ v \in Version /\ p \in Packet /\ p.version = v /\ p.count <= v
        /\ p \in Abstract!Packet /\ p.mark \in PeerMarks /\ v > 0
    BY DEF Packet, Version, Abstract!Packet, Abstract!Version
  <2>2. /\ row' = Install(row, p)
        /\ log' = Accepted(row, log, p)
    BY <1>3 DEF InstallPacket, Accepted
  <2> HIDE DEF p
  <2>3. /\ Represents(Install(row, p), Accepted(row, log, p))
        /\ Counts(Install(row, p), Accepted(row, log, p))
        /\ Install(row, p).window_start = row.window_start
    BY <2>1, InstallKeeps, InstallCounts DEF RowInv
  <2>4. RowInv' /\ row.window_start' = row.window_start
    BY <2>2, <2>3 DEF RowInv
  <2>5. CASE v <= row.window_start + WindowSize
    <3>1. Abstract!Observe(p)
      BY <2>1, <2>2, <2>4, <2>5 DEF Abstract!Observe, Accepted
    <3> QED
      BY <2>1, <2>4, <3>1 DEF Abstract!Next
  <2>6. CASE ~ (v <= row.window_start + WindowSize)
    BY <2>1, <2>2, <2>4, <2>6 DEF Accepted
  <2> QED
    BY <2>5, <2>6
<1>4. CASE ResetRow
  <2>1. row' = Fresh /\ log' = Abstract!EmptyLog
    BY <1>4 DEF ResetRow
  <2>2. RowInv'
    BY <2>1, FreshInv DEF RowInv
  <2>3. Abstract!Reset
    BY <2>1 DEF Abstract!Reset, Fresh
  <2> QED
    BY <2>2, <2>3 DEF Abstract!Next
<1>5. CASE UNCHANGED rowvars
  BY <1>5 DEF rowvars, RowInv
<1> QED
  BY <1>1, <1>2, <1>3, <1>4, <1>5 DEF RowNext

LEMMA RowInvariance == RowSpec => []RowInv
BY RowInitInv, RowStepInv, PTL DEF RowSpec

-----------------------------------------------------------------------------
(* The results.                                                            *)

(* Type correctness, for every window size, dataset length and data: no    *)
(* packet counts more observations than the dataset has snapshots.         *)
THEOREM RowTypeCorrect == RowSpec => []RowTypeOK
<1>1. RowInv => RowTypeOK
  BY DEF RowInv, RowTypeOK, Represents, Counts, Log, History, Packet, Version
<1> QED
  BY <1>1, RowInvariance, PTL

(* read never shows a reused slot, a late packet or a wrong predecessor at *)
(* or after the window start.                                              *)
THEOREM ReadsTheLogHolds == RowSpec => []ReadsTheLog
<1>1. RowInv => ReadsTheLog
  <2> SUFFICES ASSUME RowInv, NEW v \in row.window_start .. MaxVersion
               PROVE  Read(row, v) = Abstract!View(v)
    BY DEF ReadsTheLog
  <2>1. v \in Version /\ v >= row.window_start
    BY DEF RowInv, Version
  <2> QED
    BY <2>1, ReadIsView DEF RowInv
<1> QED
  BY <1>1, RowInvariance, PTL

(* update never counts a snapshot twice, however often windows overlap.    *)
THEOREM CountsOnceHolds == RowSpec => []CountsOnce
<1>1. RowInv => CountsOnce
  BY DEF RowInv, Counts, CountsOnce
<1> QED
  BY <1>1, RowInvariance, PTL

(* The window of slots implements the full log.                            *)
THEOREM LogRefinement == RowSpec => ImplementsLog
<1>1. RowInit => Abstract!Init
  BY DEF RowInit, Abstract!Init, Fresh
<1> QED
  BY <1>1, RowInitInv, RowStepInv, PTL DEF RowSpec, ImplementsLog, Abstract!Spec

HIDE MaxVersionAssumption

HIDE MarksAssumption

-----------------------------------------------------------------------------
(* The bounded owner history of many ranks.                                *)

USE MaxSkipAssumption

-----------------------------------------------------------------------------
(* The inductive invariant.                                                *)

\* Pushes that a rank has launched since the program started.
Pushed(r) == IF pc[r] = "counts" THEN entered[r] - 1 ELSE entered[r]

\* The version of the newest push that a rank has finished receiving.
Seen(r) == batch[r] - pending[r]

Between(r) == pc[r] \in {"poll", "hydrate", "end", "reset", "done"}

Newest(h) == Read(h, Snapshots)

Types ==
    /\ pc \in [Rank -> {"poll", "hydrate", "encode", "commit", "launch", "counts",
                        "end", "reset", "done"}]
    /\ epoch \in [Rank -> 1 .. Epochs]
    /\ batch \in [Rank -> 0 .. Snapshots]
    /\ split \in [Rank -> 1 .. Len(Splits)]
    /\ history \in [Rank -> [Rank -> History]]
    /\ version \in [Rank -> 0 .. Snapshots]
    /\ filter \in [Rank -> [count : 0 .. MaxSkip, historical : Packet]]
    /\ entered \in [Rank -> Nat]
    /\ offer \in [Rank -> Packet]
    /\ pending \in [Rank -> Nat]
    /\ channel \in [Rank -> [Rank -> Seq(Packet)]]

\* No rank is more than the exchange it waits in ahead of another.
Handshake == \A p, r \in Rank : Pushed(p) <= entered[r]

\* Where run_epoch stands in the splits and epochs.
Progress(r) ==
    /\ Pushed(r) = (epoch[r] - 1) * Snapshots + batch[r]
    /\ SplitStart(split[r]) <= batch[r]
    /\ IF pc[r] \in {"end", "reset", "done"} THEN batch[r] = Splits[split[r]]
                                             ELSE batch[r] < Splits[split[r]]
    /\ pc[r] \in {"reset", "done"} => split[r] = Len(Splits)
    /\ pc[r] = "reset" => epoch[r] < Epochs
    /\ Between(r) \/ pc[r] = "encode" => version[r] = batch[r]
    /\ pc[r] = "commit" => First(r) < version[r] /\ version[r] <= batch[r]
    /\ pc[r] \in {"launch", "counts"} => version[r] = batch[r] + 1

Sending(r) ==
    /\ pending[r] <= 1 /\ pending[r] <= batch[r]
    /\ ~ Between(r) => pending[r] = 0
    /\ offer[r] # Nothing => /\ pc[r] = "counts"
                             /\ offer[r].version = batch[r] + 1
                             /\ offer[r].mark = epoch[r]

\* The window lies where hydrate put it for this batch or the one before.
RowAt(r, h) ==
    /\ RowOK(h) /\ Marked(h, epoch[r])
    /\ ~ Between(r) => h.window_start = First(r)
    /\ Between(r) => /\ batch[r] <= h.window_start + WindowSize
                     /\ h.window_start <= First(r)
                     /\ h.window_start <= Seen(r)

Rows(r) ==
    /\ \A p \in Rank : RowAt(r, history[r][p])
    /\ \A p \in Others(r) : UpTo(history[r][p], Seen(r))
    /\ pc[r] = "launch" =>
          \E i \in Slot : /\ history[r][r].valid[i]
                          /\ history[r][r].packets[i].version = version[r]

\* Omissions in a row, since the last publication.
Filters(r) ==
    /\ filter[r].count + filter[r].historical.version
          = IF pc[r] = "counts" THEN batch[r] + 1 ELSE batch[r]
    /\ filter[r].historical.version = 0 => filter[r].historical = Zero
    /\ IF offer[r] = Nothing THEN filter[r].historical.version <= batch[r]
                             ELSE filter[r].historical = offer[r]

Local(r) == Progress(r) /\ Sending(r) /\ Rows(r) /\ Filters(r)

\* The pushes c in flight carry the versions after seen, of one epoch.
Sent(c, seen, mark) ==
    \A i \in 1 .. Len(c) :
       c[i] # Nothing => c[i].version = seen + i /\ c[i].mark = mark

\* packet is the last publication, in flight or received.
Latest(c, h, packet) ==
    \/ \E i \in 1 .. Len(c) : /\ c[i] # Nothing /\ packet = c[i]
                              /\ \A j \in i + 1 .. Len(c) : c[j] = Nothing
    \/ (\A i \in 1 .. Len(c) : c[i] = Nothing) /\ packet = Newest(h)

\* No version, received or in flight, is more than MaxSkip from the
\* publication it will be read with.
Timely(c, h, seen) ==
    /\ \A s \in h.window_start .. seen : s - Read(h, s).version <= MaxSkip
    /\ \A i \in 1 .. Len(c) :
          \/ seen + i - Newest(h).version <= MaxSkip
          \/ \E j \in 1 .. i : /\ c[j] # Nothing
                               /\ seen + i - c[j].version <= MaxSkip

Pair(p, r) ==
    LET c == channel[p][r]
        h == history[r][p]
    IN  /\ Len(c) = Pushed(p) - Pushed(r) + pending[r]
        /\ Sent(c, Seen(r), epoch[r])
        /\ Timely(c, h, Seen(r))
        /\ batch[r] = 0 => Newest(h) = Zero
        /\ epoch[p] = epoch[r] /\ offer[p] = Nothing
              => Latest(c, h, filter[p].historical)

Inv == /\ Types /\ Handshake
       /\ \A r \in Rank : Local(r)
       /\ \A r \in Rank : \A p \in Others(r) : Pair(p, r)

-----------------------------------------------------------------------------
(* Receiving folds over at most one push.                                  *)

(* FoldLeft (finish_snapshot_pushes): no push.                             *)
LEMMA FoldNone ==
    ASSUME NEW h, NEW s, DOMAIN s = {}
    PROVE  FoldLeft(InstallIfSent, h, s) = h
<1> DEFINE F(it) == [t \in SUBSET DOMAIN s |->
               IF t = {} THEN h
               ELSE InstallIfSent(it[t \ {Max(t)}], s[Max(t)])]
           g == [t \in SUBSET DOMAIN s |-> h]
<1>1. g = F(g)
  OBVIOUS
<1>2. (CHOOSE it : it = F(it)) = F(CHOOSE it : it = F(it))
  BY <1>1
<1>3. F(CHOOSE it : it = F(it))[DOMAIN s] = h
  OBVIOUS
<1> QED
  BY <1>2, <1>3 DEF FoldLeft, MapThenFoldSet

(* FoldLeft (finish_snapshot_pushes): one push.                            *)
LEMMA FoldOne ==
    ASSUME NEW h, NEW x
    PROVE  FoldLeft(InstallIfSent, h, <<x>>) = InstallIfSent(h, x)
<1> DEFINE s == <<x>>
           F(it) == [t \in SUBSET DOMAIN s |->
               IF t = {} THEN h
               ELSE InstallIfSent(it[t \ {Max(t)}], s[Max(t)])]
           g == [t \in SUBSET DOMAIN s |->
                   IF t = {} THEN h ELSE InstallIfSent(h, x)]
           it == CHOOSE it : it = F(it)
<1>1. DOMAIN s = {1} /\ s[1] = x
  OBVIOUS
<1>2. Max({1}) = 1
  BY DEF Max
<1>3. \A t \in SUBSET {1} : t = {} \/ t = {1}
  OBVIOUS
<1>4. g = F(g)
  <2> SUFFICES ASSUME NEW t \in SUBSET DOMAIN s
               PROVE  g[t] = F(g)[t]
    OBVIOUS
  <2>1. CASE t = {}
    BY <2>1
  <2>2. CASE t = {1}
    BY <2>2, <1>1, <1>2
  <2> QED
    BY <1>1, <1>3, <2>1, <2>2
<1>5. it = F(it)
  BY <1>4
<1>6. it[{}] = h
  <2>1. F(it)[{}] = h
    OBVIOUS
  <2> QED
    BY <1>5, <2>1
<1>7. F(it)[{1}] = InstallIfSent(it[{1} \ {Max({1})}], s[Max({1})])
  BY <1>1
<1>8. it[{1}] = InstallIfSent(h, x)
  <2>1. {1} \ {Max({1})} = {}
    BY <1>2
  <2> QED
    BY <1>1, <1>2, <1>5, <1>6, <1>7, <2>1
<1> HIDE DEF it
<1> QED
  BY <1>1, <1>8 DEF it, FoldLeft, MapThenFoldSet

(* _finish_snapshot_push of no or one push.                                *)
LEMMA ReceivedIs ==
    ASSUME Types, NEW r \in Rank, NEW n \in {0, 1}, Arrived(r, n), NEW p \in Rank
    PROVE  Received(r, n)[p] =
              IF p = r \/ n = 0 THEN history[r][p]
              ELSE InstallIfSent(history[r][p], channel[p][r][1])
<1> DEFINE c == channel[p][r]
<1>1. c \in Seq(Packet)
  BY DEF Types
<1>2. CASE p = r
  BY <1>2 DEF Received
<1>3. CASE p # r /\ n = 0
  <2>1. DOMAIN SubSeq(c, 1, 0) = {}
    BY <1>1
  <2>2. FoldLeft(InstallIfSent, history[r][p], SubSeq(c, 1, 0)) = history[r][p]
    BY <2>1, FoldNone
  <2> QED
    BY <1>3, <2>2 DEF Received
<1>4. CASE p # r /\ n = 1
  <2>1. Len(c) \in Nat /\ Len(c) >= 1
    BY <1>1, <1>4 DEF Arrived, Others
  <2>2. SubSeq(c, 1, 1) = <<c[1]>>
    <3>1. c[1] \in Packet
      BY <1>1, <2>1
    <3>2. /\ SubSeq(c, 1, 1) \in Seq(Packet) /\ Len(SubSeq(c, 1, 1)) = 1
          /\ SubSeq(c, 1, 1)[1] = c[1]
      BY <3>1, SubSeqProperties
    <3>3. <<c[1]>> \in Seq(Packet) /\ Len(<<c[1]>>) = 1 /\ <<c[1]>>[1] = c[1]
      BY <3>1
    <3> DEFINE a == SubSeq(c, 1, 1)
               b == <<c[1]>>
    <3> HIDE DEF a, b
    <3>4. Len(a) = Len(b) /\ \A i \in 1 .. Len(a) : a[i] = b[i]
      BY <3>2, <3>3 DEF a, b
    <3>5. a \in Seq(Packet) /\ b \in Seq(Packet)
      BY <3>2, <3>3 DEF a, b
    <3>6. a = b
      BY <3>4, <3>5, SeqEqual, Zenon
    <3> QED
      BY <3>6 DEF a, b
  <2>3. FoldLeft(InstallIfSent, history[r][p], SubSeq(c, 1, 1))
           = InstallIfSent(history[r][p], c[1])
    BY <2>2, FoldOne
  <2>4. Received(r, 1)[p]
           = FoldLeft(InstallIfSent, history[r][p], SubSeq(c, 1, 1))
    BY <1>4, Zenon DEF Received
  <2>5. n = 1 /\ ~ (p = r \/ n = 0)
    BY <1>4
  <2> QED
    BY <2>3, <2>4, <2>5, Zenon
<1> QED
  BY <1>2, <1>3, <1>4

-----------------------------------------------------------------------------
(* One row and the pushes in flight to it.                                 *)

(* The number of snapshots.                                                *)
LEMMA SnapshotsNat == Snapshots \in Nat \ {0}
BY SplitsAssumption DEF Snapshots

(* Newest is the newest packet of the row.                                 *)
LEMMA NewestIs ==
    ASSUME NEW h, RowOK(h), NEW seen \in Nat, seen >= h.window_start,
           UpTo(h, seen), seen <= Snapshots
    PROVE  /\ Newest(h) = Read(h, seen) /\ Newest(h) \in Packet
           /\ Newest(h).version \in Nat /\ Newest(h).version <= seen
<1>1. Newest(h) = Read(h, seen)
  BY ReadUpTo, SnapshotsNat DEF Newest
<1>2. PICK i : IsNewest(h, seen, i) /\ Read(h, seen) = h.packets[i]
  BY ReadFinds
<1> QED
  BY <1>1, <1>2, RowTypes DEF IsNewest

(* finish_push: what remains in flight after one push.                     *)
LEMMA TailOf ==
    ASSUME NEW c \in Seq(Packet), Len(c) >= 1
    PROVE  /\ SubSeq(c, 2, Len(c)) \in Seq(Packet)
           /\ Len(SubSeq(c, 2, Len(c))) = Len(c) - 1
           /\ \A i \in 1 .. Len(c) - 1 : SubSeq(c, 2, Len(c))[i] = c[i + 1]
<1>1. Len(c) \in Nat /\ Len(c) \in 1 .. Len(c)
  OBVIOUS
<1>2. \A i \in 2 .. Len(c) : c[i] \in Packet
  BY <1>1
<1> DEFINE d == SubSeq(c, 2, Len(c))
<1>3. /\ d \in Seq(Packet)
      /\ Len(d) = IF 2 <= Len(c) THEN Len(c) - 2 + 1 ELSE 0
      /\ \A i \in 1 .. Len(c) - 2 + 1 : d[i] = c[2 + i - 1]
  BY <1>1, <1>2, SubSeqProperties
<1> HIDE DEF d
<1>4. Len(d) = Len(c) - 1
  <2>1. CASE Len(c) = 1
    BY <2>1, <1>3
  <2>2. CASE Len(c) # 1
    <3> DEFINE n == Len(c)
    <3>1. n \in Nat /\ n \in 1 .. n /\ n # 1
      BY <1>1, <2>2
    <3> HIDE DEF n
    <3>2. 2 <= n
      BY <3>1
    <3> QED
      BY <3>1, <3>2, <1>3 DEF n
  <2> QED
    BY <2>1, <2>2
<1>5. ASSUME NEW i \in 1 .. Len(c) - 1
      PROVE  d[i] = c[i + 1]
  <2>1. i \in 1 .. Len(c) - 2 + 1 /\ 2 + i - 1 = i + 1
    BY <1>1
  <2> QED
    BY <2>1, <1>3
<1> QED
  BY <1>3, <1>4, <1>5 DEF d

(* _finish_snapshot_push: the row takes the oldest push in flight; nothing *)
(* published is lost, and no version gets older than MaxSkip.              *)
LEMMA TakeOne ==
    ASSUME NEW c \in Seq(Packet), Len(c) >= 1, NEW h, NEW seen \in Nat,
           NEW mark, RowOK(h), Marked(h, mark), UpTo(h, seen),
           h.window_start <= seen, seen + 1 <= h.window_start + WindowSize,
           seen + 1 <= Snapshots, Sent(c, seen, mark), Timely(c, h, seen)
    PROVE  LET k == InstallIfSent(h, c[1])
               d == SubSeq(c, 2, Len(c))
           IN  /\ RowOK(k) /\ Marked(k, mark) /\ UpTo(k, seen + 1)
               /\ k.window_start = h.window_start
               /\ Sent(d, seen + 1, mark) /\ Timely(d, k, seen + 1)
               /\ \A x : Latest(c, h, x) => Latest(d, k, x)
<1> DEFINE k == InstallIfSent(h, c[1])
           d == SubSeq(c, 2, Len(c))
           x1 == c[1]
<1>1. /\ d \in Seq(Packet) /\ Len(d) = Len(c) - 1
      /\ \A i \in 1 .. Len(d) : d[i] = c[i + 1] /\ i + 1 \in 1 .. Len(c)
  BY TailOf
<1> HIDE DEF d
<1>2. /\ x1 = c[1] /\ x1 \in Packet /\ x1.version \in Nat /\ h.window_start \in Nat /\ 1 \in 1 .. Len(c)
      /\ Len(c) \in Nat /\ Len(d) \in Nat /\ Snapshots \in Nat
  <2>1. Len(c) \in Nat /\ 1 \in 1 .. Len(c) /\ x1 \in Packet
    OBVIOUS
  <2>2. x1.version \in Nat
    BY <2>1 DEF Packet
  <2>3. h.window_start \in Nat
    BY RowTypes
  <2> QED
    BY <1>1, <2>1, <2>2, <2>3, SnapshotsNat
<1> HIDE DEF x1
<1>3. Sent(d, seen + 1, mark)
  <2> SUFFICES ASSUME NEW i \in 1 .. Len(d), d[i] # Nothing
               PROVE  d[i].version = seen + 1 + i /\ d[i].mark = mark
    BY DEF Sent
  <2>1. i \in Nat /\ i + 1 \in 1 .. Len(c) /\ d[i] = c[i + 1]
    BY <1>1, <1>2
  <2>2. c[i + 1].version = seen + (i + 1) /\ c[i + 1].mark = mark
    BY <2>1 DEF Sent
  <2> QED
    BY <2>1, <2>2
<1>4. Newest(h) = Read(h, seen) /\ Newest(h).version \in Nat
      /\ Newest(h).version <= seen
  BY <1>2, NewestIs
<1>5. /\ k = InstallIfSent(h, x1)
      /\ x1 # Nothing => x1.version = seen + 1 /\ x1.mark = mark
  BY <1>2 DEF Sent
<1>6. /\ RowOK(k) /\ Marked(k, mark) /\ UpTo(k, seen + 1)
      /\ k.window_start = h.window_start
      /\ Newest(k) = IF x1 = Nothing THEN Newest(h) ELSE x1
      /\ Read(k, seen + 1) = Newest(k)
      /\ Newest(k).version \in Nat
      /\ \A s \in h.window_start .. seen : Read(k, s) = Read(h, s)
  <2>1. CASE x1 = Nothing
    <3>1. k = h
      BY <2>1, <1>5 DEF InstallIfSent
    <3>2. UpTo(h, seen + 1)
      BY RowTypes DEF UpTo
    <3>3. Newest(h) = Read(h, seen + 1)
      BY <1>2, <3>2, NewestIs
    <3> QED
      BY <1>4, <2>1, <3>1, <3>2, <3>3
  <2>2. CASE x1 # Nothing
    <3>1. k = Install(h, x1) /\ x1.version = seen + 1 /\ x1.mark = mark
      BY <1>5, <2>2 DEF InstallIfSent
    <3> HIDE DEF k
    <3>2. /\ h.window_start < x1.version
          /\ x1.version <= h.window_start + WindowSize
          /\ x1.version - 1 = seen
          /\ UpTo(h, x1.version - 1) /\ Marked(h, x1.mark)
      <4>1. x1.version - 1 = seen
        BY <3>1
      <4> QED
        BY <1>2, <3>1, <4>1
    <3>3. PICK i \in 1 .. WindowSize : Written(h, k, x1, i)
      BY <1>2, <3>1, <3>2, InstallKeepsRow
    <3>4. RowOK(k)
      BY <1>2, <3>1, <3>2, InstallKeepsRow
    <3>5. Marked(k, mark)
      BY <1>2, <3>1, <3>2, InstallMarked
    <3>6. /\ UpTo(k, x1.version)
          /\ \A v \in Nat : v >= x1.version => Read(k, v) = x1
          /\ \A v \in h.window_start .. x1.version - 1 : Read(k, v) = Read(h, v)
      BY <1>2, <3>1, <3>2, InstallNewest
    <3>7. k.window_start = h.window_start
      BY <3>3 DEF Written
    <3>8. UpTo(k, seen + 1)
      BY <3>1, <3>6
    <3>9. Newest(k) = x1 /\ Read(k, seen + 1) = x1
      <4>1. x1.version <= Snapshots /\ Snapshots \in Nat /\ seen + 1 \in Nat
        BY <1>2, <3>1
      <4>2. Read(k, Snapshots) = x1 /\ Read(k, seen + 1) = x1
        BY <4>1, <3>1, <3>6
      <4> QED
        BY <4>2 DEF Newest
    <3>10. \A s \in h.window_start .. seen : Read(k, s) = Read(h, s)
      BY <3>2, <3>6
    <3> QED
      BY <1>2, <2>2, <3>4, <3>5, <3>7, <3>8, <3>9, <3>10
  <2> QED
    BY <2>1, <2>2
<1> HIDE DEF k
<1>7. Timely(d, k, seen + 1)
  <2>1. \A s \in h.window_start .. seen : s - Read(h, s).version <= MaxSkip
    BY DEF Timely
  <2>2. \A i \in 1 .. Len(c) :
          \/ seen + i - Newest(h).version <= MaxSkip
          \/ \E j \in 1 .. i : /\ c[j] # Nothing
                               /\ seen + i - c[j].version <= MaxSkip
    BY DEF Timely
  <2>3. seen + 1 - Newest(k).version <= MaxSkip
    <3>1. CASE x1 # Nothing
      BY <3>1, <1>5, <1>6
    <3>2. CASE x1 = Nothing
      <4>1. c[1] = Nothing /\ Newest(k) = Newest(h)
        BY <3>2, <1>2, <1>6
      <4>2. \A j \in 1 .. 1 : c[j] = Nothing
        BY <4>1
      <4> QED
        BY <4>1, <4>2, <1>2, <2>2
    <3> QED
      BY <3>1, <3>2
  <2>4. ASSUME NEW s \in k.window_start .. seen + 1
        PROVE  s - Read(k, s).version <= MaxSkip
    <3>1. CASE s = seen + 1
      <4>1. Read(k, s) = Newest(k)
        BY <3>1, <1>6
      <4> QED
        BY <3>1, <4>1, <2>3, <1>6
    <3>2. CASE s # seen + 1
      <4>1. s \in h.window_start .. seen
        BY <3>2, <1>2, <1>6
      <4> QED
        BY <4>1, <1>6, <2>1
    <3> QED
      BY <3>1, <3>2
  <2>5. ASSUME NEW i \in 1 .. Len(d)
        PROVE  \/ seen + 1 + i - Newest(k).version <= MaxSkip
               \/ \E j \in 1 .. i : /\ d[j] # Nothing
                                    /\ seen + 1 + i - d[j].version <= MaxSkip
    <3>1. i \in Nat /\ i >= 1 /\ i + 1 \in 1 .. Len(c)
      BY <1>1, <1>2
    <3>2. CASE seen + (i + 1) - Newest(h).version <= MaxSkip
      <4>1. Newest(k).version \in Nat /\ Newest(h).version <= Newest(k).version
        BY <1>2, <1>4, <1>5, <1>6
      <4> QED
        BY <3>1, <3>2, <4>1, <1>4
    <3>3. ASSUME NEW j \in 1 .. i + 1, c[j] # Nothing,
                 seen + (i + 1) - c[j].version <= MaxSkip
          PROVE  \/ seen + 1 + i - Newest(k).version <= MaxSkip
                 \/ \E m \in 1 .. i : /\ d[m] # Nothing
                                      /\ seen + 1 + i - d[m].version <= MaxSkip
      <4>1. CASE j = 1
        <5>1. x1 # Nothing /\ x1 = c[j]
          BY <4>1, <1>2, <3>3
        <5>2. Newest(k) = c[j]
          BY <5>1, <1>6
        <5>3. seen + (i + 1) = seen + 1 + i
          BY <3>1
        <5>4. seen + (i + 1) - Newest(k).version <= MaxSkip
          BY <5>2, <3>3
        <5>5. seen + 1 + i - Newest(k).version <= MaxSkip
          BY <5>3, <5>4, <1>6, <3>1, SMTT(30)
        <5> QED
          BY <5>5
      <4>2. CASE j # 1
        <5>1. /\ j - 1 \in 1 .. i /\ j - 1 \in 1 .. Len(d)
              /\ (j - 1) + 1 = j
          BY <4>2, <3>1, <1>1, <1>2
        <5>2. c[j] = d[j - 1]
          BY <5>1, <1>1
        <5>3. seen + (i + 1) = seen + 1 + i
          BY <3>1
        <5>4. c[j].version \in Nat
          <6>1. j \in 1 .. Len(c)
            BY <3>1, <1>2
          <6>2. c[j] \in Packet
            BY <6>1
          <6> QED
            BY <6>2 DEF Packet
        <5>5. seen + 1 + i - c[j].version <= MaxSkip
          BY <5>3, <5>4, <3>1, <3>3
        <5> QED
          BY <5>1, <5>2, <5>5, <3>3
      <4> QED
        BY <4>1, <4>2
    <3> QED
      BY <3>1, <3>2, <3>3, <2>2
  <2> QED
    BY <1>6, <2>4, <2>5 DEF Timely
<1>8. ASSUME NEW x, Latest(c, h, x)
      PROVE  Latest(d, k, x)
  <2>1. ASSUME NEW i \in 1 .. Len(c), c[i] # Nothing, x = c[i],
               \A j \in i + 1 .. Len(c) : c[j] = Nothing
        PROVE  Latest(d, k, x)
    <3>1. CASE i = 1
      <4>1. ASSUME NEW j \in 1 .. Len(d)
            PROVE  d[j] = Nothing
        <5>1. j + 1 \in i + 1 .. Len(c) /\ d[j] = c[j + 1]
          BY <3>1, <1>1, <1>2
        <5> QED
          BY <5>1, <2>1
      <4>2. x1 # Nothing /\ x = x1
        BY <1>2, <2>1, <3>1
      <4>3. x = Newest(k)
        BY <4>2, <1>6
      <4> QED
        BY <4>1, <4>3 DEF Latest
    <3>2. CASE i # 1
      <4>0. i - 1 \in 1 .. Len(d) /\ (i - 1) + 1 = i
        BY <1>1, <1>2, <3>2
      <4>1. i - 1 \in 1 .. Len(d) /\ d[i - 1] = c[i]
        BY <1>1, <4>0
      <4>2. ASSUME NEW j \in (i - 1) + 1 .. Len(d)
            PROVE  d[j] = Nothing
        <5>1. j \in 1 .. Len(d) /\ j + 1 \in i + 1 .. Len(c)
          BY <4>0, <1>1, <1>2
        <5> QED
          BY <5>1, <1>1, <2>1
      <4> QED
        BY <4>1, <4>2, <2>1 DEF Latest
    <3> QED
      BY <3>1, <3>2
  <2>2. ASSUME \A i \in 1 .. Len(c) : c[i] = Nothing, x = Newest(h)
        PROVE  Latest(d, k, x)
    BY <1>1, <1>2, <1>6, <2>2 DEF Latest
  <2> QED
    BY <1>8, <2>1, <2>2 DEF Latest
<1> QED
  BY <1>3, <1>6, <1>7, <1>8 DEF k, d

(* advance: the window slides over nothing that will be read.              *)
LEMMA Slide ==
    ASSUME NEW c, NEW h, NEW seen \in Nat, RowOK(h), NEW s \in Nat,
           h.window_start <= s, s <= seen, seen <= Snapshots, Timely(c, h, seen)
    PROVE  LET k == Advance(h, s)
           IN  /\ Timely(c, k, seen) /\ Newest(k) = Newest(h)
               /\ \A x : Latest(c, h, x) => Latest(c, k, x)
<1> DEFINE k == Advance(h, s)
<1>1. /\ k.window_start = s /\ h.window_start \in Nat
      /\ \A v \in Nat : v >= s => Read(k, v) = Read(h, v)
  BY AdvanceKeepsRow, RowTypes
<1> HIDE DEF k
<1>2. Newest(k) = Newest(h)
  BY <1>1, SnapshotsNat DEF Newest
<1>3. Timely(c, k, seen)
  BY <1>1, <1>2 DEF Timely
<1> QED
  BY <1>2, <1>3 DEF Latest, k

(* launch_push: one more push in flight.                                   *)
LEMMA SendOne ==
    ASSUME NEW c \in Seq(Packet), NEW h, NEW seen \in Nat, NEW mark,
           NEW o \in Packet, NEW x \in Packet,
           o # Nothing => /\ o.version = seen + Len(c) + 1
                          /\ o.mark = mark /\ x = o,
           o = Nothing => Latest(c, h, x),
           seen + Len(c) + 1 - x.version <= MaxSkip,
           Sent(c, seen, mark), Timely(c, h, seen)
    PROVE  LET d == Append(c, o)
           IN  /\ d \in Seq(Packet) /\ Len(d) = Len(c) + 1
               /\ Sent(d, seen, mark) /\ Timely(d, h, seen) /\ Latest(d, h, x)
<1> DEFINE d == Append(c, o)
           n == Len(c)
<1>1. /\ d \in Seq(Packet) /\ n \in Nat /\ Len(d) = n + 1 /\ d[n + 1] = o
      /\ \A i \in 1 .. n : d[i] = c[i]
      /\ \A i \in 1 .. n + 1 : i \in 1 .. n \/ i = n + 1
  OBVIOUS
<1> HIDE DEF d, n
<1>2. Sent(d, seen, mark)
  <2>1. \A i \in 1 .. n : c[i] # Nothing => c[i].version = seen + i /\ c[i].mark = mark
    BY DEF Sent, n
  <2>2. o # Nothing => o.version = seen + (n + 1) /\ o.mark = mark
    BY <1>1 DEF n
  <2> QED
    BY <1>1, <2>1, <2>2 DEF Sent
<1>3. Latest(d, h, x)
  <2>1. CASE o # Nothing
    <3>1. n + 1 \in 1 .. Len(d) /\ \A j \in n + 1 + 1 .. Len(d) : FALSE
      BY <1>1
    <3> QED
      BY <1>1, <2>1, <3>1 DEF Latest
  <2>2. ASSUME o = Nothing, NEW i \in 1 .. n, c[i] # Nothing, x = c[i],
               \A j \in i + 1 .. n : c[j] = Nothing
        PROVE  Latest(d, h, x)
    <3>1. i \in 1 .. Len(d) /\ d[i] # Nothing /\ x = d[i]
      BY <1>1, <2>2
    <3>2. ASSUME NEW j \in i + 1 .. Len(d)
          PROVE  d[j] = Nothing
      <4>1. j \in 1 .. n + 1
        BY <1>1
      <4>2. CASE j = n + 1
        BY <4>2, <1>1, <2>2
      <4>3. CASE j # n + 1
        <5>1. j \in 1 .. n /\ j \in i + 1 .. n
          BY <4>1, <4>3, <1>1
        <5> QED
          BY <5>1, <1>1, <2>2
      <4> QED
        BY <4>2, <4>3
    <3> QED
      BY <3>1, <3>2 DEF Latest
  <2>3. ASSUME o = Nothing, \A i \in 1 .. n : c[i] = Nothing, x = Newest(h)
        PROVE  Latest(d, h, x)
    BY <1>1, <2>3 DEF Latest
  <2> QED
    BY <2>1, <2>2, <2>3 DEF Latest, n
<1>4. Timely(d, h, seen)
  <2>1. ASSUME NEW i \in 1 .. n
        PROVE  \/ seen + i - Newest(h).version <= MaxSkip
               \/ \E j \in 1 .. i : /\ d[j] # Nothing
                                    /\ seen + i - d[j].version <= MaxSkip
    <3>1. \/ seen + i - Newest(h).version <= MaxSkip
          \/ \E j \in 1 .. i : /\ c[j] # Nothing
                               /\ seen + i - c[j].version <= MaxSkip
      BY DEF Timely, n
    <3>2. \A j \in 1 .. i : d[j] = c[j]
      BY <1>1
    <3> QED
      BY <3>1, <3>2
  <2>2. \/ seen + (n + 1) - Newest(h).version <= MaxSkip
        \/ \E j \in 1 .. n + 1 : /\ d[j] # Nothing
                                 /\ seen + (n + 1) - d[j].version <= MaxSkip
    <3>1. seen + (n + 1) - x.version <= MaxSkip
      BY <1>1 DEF n, Packet
    <3> QED
      BY <3>1, <1>1, <1>3 DEF Latest
  <2>3. \A s \in h.window_start .. seen : s - Read(h, s).version <= MaxSkip
    BY DEF Timely
  <2> QED
    BY <1>1, <2>1, <2>2, <2>3 DEF Timely
<1> QED
  BY <1>1, <1>2, <1>3, <1>4 DEF d, n

-----------------------------------------------------------------------------
(* The schedule.                                                           *)

(* evaluate, run_epoch: the ends of the splits increase, up to Snapshots.  *)
LEMMA SplitEnds ==
    /\ Len(Splits) \in Nat \ {0}
    /\ \A i \in 1 .. Len(Splits) : /\ Splits[i] \in Nat \ {0}
                                   /\ Splits[i] <= Snapshots
                                   /\ SplitStart(i) \in Nat
    /\ \A i \in 1 .. Len(Splits) - 1 :
          /\ SplitStart(i + 1) = Splits[i] /\ Splits[i] < Splits[i + 1]
          /\ SplitStart(i) <= Splits[i]
    /\ SplitStart(1) = 0
<1>1. Splits \in Seq(Nat \ {0}) /\ Len(Splits) \in Nat /\ Splits # <<>>
  BY SplitsAssumption
<1>2. Len(Splits) # 0
  BY <1>1
<1>3. \A i \in 1 .. Len(Splits) : Splits[i] \in Nat \ {0}
  BY <1>1
<1>4. \A i, j \in 1 .. Len(Splits) : i < j => Splits[i] < Splits[j]
  BY SplitsAssumption
<1> DEFINE n == Len(Splits)
<1>5. n \in Nat /\ n # 0 /\ n \in 1 .. n /\ Snapshots = Splits[n]
  BY <1>1, <1>2 DEF Snapshots
<1> HIDE DEF n
<1>6. \A i \in 1 .. n : Splits[i] \in Nat \ {0}
  BY <1>3 DEF n
<1>7. \A i, j \in 1 .. n : i < j => Splits[i] < Splits[j]
  BY <1>4 DEF n
<1>8. ASSUME NEW i \in 1 .. n
      PROVE  Splits[i] <= Snapshots /\ SplitStart(i) \in Nat
  <2>1. Splits[i] <= Snapshots
    <3>1. CASE i = n
      BY <3>1, <1>5, <1>6
    <3>2. CASE i # n
      <4>1. i < n
        BY <3>2, <1>5
      <4> QED
        BY <4>1, <1>5, <1>6, <1>7
    <3> QED
      BY <3>1, <3>2
  <2>2. SplitStart(i) \in Nat
    <3>1. CASE i = 1
      BY <3>1 DEF SplitStart
    <3>2. CASE i # 1
      <4>1. i - 1 \in 1 .. n
        BY <3>2, <1>5
      <4> QED
        BY <3>2, <4>1, <1>6 DEF SplitStart
    <3> QED
      BY <3>1, <3>2
  <2> QED
    BY <2>1, <2>2
<1>9. ASSUME NEW i \in 1 .. n - 1
      PROVE  /\ SplitStart(i + 1) = Splits[i] /\ Splits[i] < Splits[i + 1]
             /\ SplitStart(i) <= Splits[i]
  <2>1. i \in 1 .. n /\ i + 1 \in 1 .. n /\ i < i + 1 /\ i + 1 # 1 /\ (i + 1) - 1 = i
    BY <1>5
  <2>2. SplitStart(i + 1) = Splits[i] /\ Splits[i] < Splits[i + 1]
    BY <2>1, <1>7 DEF SplitStart
  <2>3. SplitStart(i) <= Splits[i]
    <3>1. CASE i = 1
      BY <3>1, <2>1, <1>6 DEF SplitStart
    <3>2. CASE i # 1
      <4>1. i - 1 \in 1 .. n /\ i - 1 < i
        BY <3>2, <1>5
      <4>2. Splits[i - 1] < Splits[i]
        BY <4>1, <2>1, <1>7
      <4> QED
        BY <3>2, <4>1, <4>2, <2>1, <1>6 DEF SplitStart
    <3> QED
      BY <3>1, <3>2
  <2> QED
    BY <2>2, <2>3
<1>10. SplitStart(1) = 0
  BY DEF SplitStart
<1> QED
  BY <1>5, <1>6, <1>8, <1>9, <1>10 DEF n

(* A product grows by the factor.                                          *)
LEMMA OneMoreTime ==
    ASSUME NEW i \in Int, NEW j \in Int
    PROVE  (i - 1) * j + j = i * j /\ i * j \in Int
OBVIOUS

(* Pushes are numbered through: the number tells epoch and batch, but for  *)
(* the end of an epoch and the start of the next.                          *)
LEMMA Position ==
    ASSUME NEW S \in Nat \ {0}, NEW e \in Nat, NEW f \in Nat,
           NEW b \in 0 .. S, NEW c \in 0 .. S, e * S + b = f * S + c
    PROVE  \/ e = f /\ b = c
           \/ e = f + 1 /\ b = 0 /\ c = S
           \/ f = e + 1 /\ c = 0 /\ b = S
<1>1. CASE e = f
  BY <1>1
<1>2. CASE e > f
  <2>1. e * S = f * S + (e - f) * S
    OBVIOUS
  <2>2. (e - f) * S + b = c
    BY <2>1
  <2>3. e - f = 1
    <3> SUFFICES ASSUME e - f >= 2 PROVE FALSE
      BY <1>2
    <3>1. (e - f) * S >= 2 * S
      OBVIOUS
    <3> QED
      BY <2>2, <3>1
  <2> QED
    BY <2>2, <2>3
<1>3. CASE f > e
  <2>1. f * S = e * S + (f - e) * S
    OBVIOUS
  <2>2. (f - e) * S + c = b
    BY <2>1
  <2>3. f - e = 1
    <3> SUFFICES ASSUME f - e >= 2 PROVE FALSE
      BY <1>3
    <3>1. (f - e) * S >= 2 * S
      OBVIOUS
    <3> QED
      BY <2>2, <3>1
  <2> QED
    BY <2>2, <2>3
<1> QED
  BY <1>1, <1>2, <1>3

(* The types of one rank.                                                  *)
LEMMA LocalTypes ==
    ASSUME Types, NEW r \in Rank
    PROVE  /\ epoch[r] \in Nat \ {0} /\ batch[r] \in 0 .. Snapshots
           /\ batch[r] \in Nat /\ version[r] \in Nat
           /\ split[r] \in 1 .. Len(Splits) /\ entered[r] \in Nat
           /\ pending[r] \in Nat /\ offer[r] \in Packet
           /\ filter[r].count \in 0 .. MaxSkip /\ filter[r].historical \in Packet
           /\ filter[r].historical.version \in Nat
           /\ Pushed(r) \in Int /\ Seen(r) \in Int
           /\ \A p \in Rank : /\ channel[p][r] \in Seq(Packet)
                              /\ Len(channel[p][r]) \in Nat
                              /\ history[r][p] \in History
                              /\ history[r][p].window_start \in Nat
<1>1. /\ epoch[r] \in 1 .. Epochs /\ batch[r] \in 0 .. Snapshots
      /\ version[r] \in 0 .. Snapshots
      /\ split[r] \in 1 .. Len(Splits) /\ entered[r] \in Nat
      /\ pending[r] \in Nat /\ offer[r] \in Packet
      /\ filter[r] \in [count : 0 .. MaxSkip, historical : Packet]
  BY DEF Types
<1>2. \A p \in Rank : channel[p][r] \in Seq(Packet) /\ history[r][p] \in History
  BY DEF Types
<1>3. \A p \in Rank : Len(channel[p][r]) \in Nat
  BY <1>2
<1>4. \A p \in Rank : history[r][p].window_start \in Nat
  BY <1>2 DEF History
<1>5. /\ filter[r].count \in 0 .. MaxSkip /\ filter[r].historical \in Packet
      /\ filter[r].historical.version \in Nat
  BY <1>1 DEF Packet
<1>6. epoch[r] \in Nat \ {0} /\ batch[r] \in Nat /\ version[r] \in Nat
  BY <1>1, SnapshotsNat
<1>7. Pushed(r) \in Int /\ Seen(r) \in Int
  BY <1>1, <1>6 DEF Pushed, Seen
<1> QED
  BY <1>1, <1>2, <1>3, <1>4, <1>5, <1>6, <1>7

(* _input_window: the window start lies in the split, and the window it    *)
(* starts holds the newest snapshot and the one computed from it.          *)
LEMMA FirstRange ==
    ASSUME Types, NEW r \in Rank, SplitStart(split[r]) <= batch[r]
    PROVE  /\ First(r) \in Nat /\ First(r) <= batch[r]
           /\ batch[r] + 1 <= First(r) + WindowSize
           /\ SplitStart(split[r]) \in Nat /\ SplitStart(split[r]) <= First(r)
           /\ batch[r] - WindowSize + 1 <= First(r)
<1>1. batch[r] \in Nat /\ SplitStart(split[r]) \in Nat
  BY LocalTypes, SplitEnds
<1> QED
  BY <1>1 DEF First, Larger

(* run_epoch: a batch that is not over leaves a snapshot of its split.     *)
LEMMA BeforeEnd ==
    ASSUME Types, NEW r \in Rank, Progress(r),
           pc[r] \notin {"end", "reset", "done"}
    PROVE  /\ batch[r] + 1 <= Splits[split[r]] /\ batch[r] + 1 <= Snapshots
           /\ batch[r] \in Nat /\ batch[r] < Snapshots
<1>1. batch[r] \in Nat /\ split[r] \in 1 .. Len(Splits)
  BY LocalTypes
<1>2. /\ Splits[split[r]] \in Nat /\ Splits[split[r]] <= Snapshots
      /\ Snapshots \in Nat
  BY <1>1, SplitEnds, SnapshotsNat
<1>3. batch[r] < Splits[split[r]]
  BY Zenon DEF Progress
<1> QED
  BY <1>1, <1>2, <1>3

-----------------------------------------------------------------------------
(* What a step of one rank leaves alone.                                   *)

Frame(x) ==
    /\ \A r \in Others(x) :
          /\ pc'[r] = pc[r] /\ epoch'[r] = epoch[r] /\ batch'[r] = batch[r]
          /\ split'[r] = split[r] /\ history'[r] = history[r]
          /\ version'[r] = version[r] /\ filter'[r] = filter[r]
          /\ entered'[r] = entered[r] /\ offer'[r] = offer[r]
          /\ pending'[r] = pending[r]
    /\ \A p, r \in Others(x) : channel'[p][r] = channel[p][r]

(* A step of one rank keeps what concerns another rank alone.              *)
LEMMA FrameLocal ==
    ASSUME Inv, NEW x \in Rank, Frame(x), NEW r \in Others(x)
    PROVE  /\ Local(r)' /\ Pushed(r)' = Pushed(r) /\ Seen(r)' = Seen(r)
<1>1. r \in Rank /\ Local(r)
  BY DEF Inv, Others
<1>2. /\ pc'[r] = pc[r] /\ epoch'[r] = epoch[r] /\ batch'[r] = batch[r]
      /\ split'[r] = split[r] /\ history'[r] = history[r]
      /\ version'[r] = version[r] /\ filter'[r] = filter[r]
      /\ entered'[r] = entered[r] /\ offer'[r] = offer[r]
      /\ pending'[r] = pending[r]
  BY DEF Frame
<1>3. /\ Pushed(r)' = Pushed(r) /\ Seen(r)' = Seen(r)
      /\ Between(r)' = Between(r) /\ First(r)' = First(r)
  BY <1>2 DEF Pushed, Seen, Between, First
<1>4. Progress(r)'
  BY <1>1, <1>2, <1>3 DEF Local, Progress
<1>5. Sending(r)'
  BY <1>1, <1>2, <1>3 DEF Local, Sending
<1>6. Rows(r)'
  BY <1>1, <1>2, <1>3 DEF Local, Rows, RowAt, Others
<1>7. Filters(r)'
  BY <1>1, <1>2 DEF Local, Filters
<1> QED
  BY <1>3, <1>4, <1>5, <1>6, <1>7 DEF Local

(* A step of one rank keeps what concerns two others.                      *)
LEMMA FramePair ==
    ASSUME Inv, NEW x \in Rank, Frame(x), NEW r \in Others(x),
           NEW p \in Others(x), p # r
    PROVE  Pair(p, r)'
<1>1. Pair(p, r)
  BY DEF Inv, Others
<1>2. /\ Pushed(r)' = Pushed(r) /\ Seen(r)' = Seen(r) /\ Pushed(p)' = Pushed(p)
  BY FrameLocal
<1>3. /\ epoch'[r] = epoch[r] /\ batch'[r] = batch[r] /\ history'[r] = history[r]
      /\ pending'[r] = pending[r] /\ channel'[p][r] = channel[p][r]
      /\ epoch'[p] = epoch[p] /\ offer'[p] = offer[p] /\ filter'[p] = filter[p]
  BY DEF Frame
<1> QED
  BY <1>1, <1>2, <1>3 DEF Pair

(* The invariant, from what a step of one rank has to keep.                *)
LEMMA InvKept ==
    ASSUME Inv, NEW x \in Rank, Frame(x), Types', Local(x)',
           \A r \in Others(x) : /\ Pair(r, x)' /\ Pair(x, r)'
                                /\ Pushed(x)' <= entered'[r]
                                /\ Pushed(r) <= entered'[x],
           Pushed(x)' <= entered'[x]
    PROVE  Inv'
<1>1. \A r \in Rank : r # x => r \in Others(x)
  BY DEF Others
<1>2. \A r \in Rank : Local(r)'
  BY <1>1, FrameLocal
<1>3. ASSUME NEW r \in Rank, NEW p \in Others(r)
      PROVE  Pair(p, r)'
  <2>1. p \in Rank /\ p # r
    BY DEF Others
  <2> QED
    BY <1>1, <2>1, FramePair
<1>4. Handshake'
  <2> SUFFICES ASSUME NEW p \in Rank, NEW r \in Rank
               PROVE  Pushed(p)' <= entered'[r]
    BY DEF Handshake
  <2>1. CASE p = x /\ r = x
    BY <2>1
  <2>2. CASE p = x /\ r # x
    BY <1>1, <2>2
  <2>3. CASE p # x /\ r = x
    BY <1>1, <2>3, FrameLocal
  <2>4. CASE p # x /\ r # x
    <3>1. Pushed(p)' = Pushed(p) /\ entered'[r] = entered[r]
      BY <1>1, <2>4, FrameLocal DEF Frame
    <3> QED
      BY <3>1 DEF Inv, Handshake
  <2> QED
    BY <2>1, <2>2, <2>3, <2>4
<1> QED
  BY <1>2, <1>3, <1>4 DEF Inv

(* A step that neither publishes nor pushes keeps what concerns the rank   *)
(* as an owner.                                                            *)
LEMMA OwnerKept ==
    ASSUME Inv, NEW x \in Rank, Frame(x), Pushed(x)' = Pushed(x),
           channel'[x] = channel[x], epoch'[x] = epoch[x],
           offer'[x] = offer[x], filter'[x] = filter[x], NEW r \in Others(x)
    PROVE  Pair(x, r)'
<1>1. Pair(x, r)
  BY DEF Inv, Others
<1>2. Pushed(r)' = Pushed(r) /\ Seen(r)' = Seen(r)
  BY FrameLocal
<1>3. /\ epoch'[r] = epoch[r] /\ batch'[r] = batch[r] /\ history'[r] = history[r]
      /\ pending'[r] = pending[r]
  BY DEF Frame
<1> QED
  BY <1>1, <1>2, <1>3 DEF Pair

(* A step that receives nothing keeps what concerns the rank as subscriber.*)
LEMMA SubscriberKept ==
    ASSUME Inv, NEW x \in Rank, Frame(x), Pushed(x)' = Pushed(x),
           epoch'[x] = epoch[x], batch'[x] = batch[x], pending'[x] = pending[x],
           NEW p \in Others(x), channel'[p][x] = channel[p][x],
           history'[x][p] = history[x][p]
    PROVE  Pair(p, x)'
<1>1. Pair(p, x)
  BY DEF Inv
<1>2. Pushed(p)' = Pushed(p) /\ Seen(x)' = Seen(x)
  BY FrameLocal DEF Seen
<1>3. epoch'[p] = epoch[p] /\ offer'[p] = offer[p] /\ filter'[p] = filter[p]
  BY DEF Frame
<1> QED
  BY <1>1, <1>2, <1>3 DEF Pair

(* Handshake, while a rank neither enters an exchange nor pushes.          *)
LEMMA HandshakeKept ==
    ASSUME Inv, NEW x \in Rank, Frame(x), Pushed(x)' = Pushed(x),
           entered'[x] = entered[x]
    PROVE  /\ \A r \in Others(x) : /\ Pushed(x)' <= entered'[r]
                                   /\ Pushed(r) <= entered'[x]
           /\ Pushed(x)' <= entered'[x]
BY DEF Inv, Handshake, Frame, Others

-----------------------------------------------------------------------------
(* Receiving.                                                              *)

(* What finish_push leaves in flight.                                      *)
LEMMA ConsumeIs ==
    ASSUME Types, NEW x \in Rank, NEW n \in {0, 1}, Arrived(x, n), Consume(x, n)
    PROVE  /\ channel' \in [Rank -> [Rank -> Seq(Packet)]]
           /\ channel'[x] = channel[x]
           /\ \A p, r \in Others(x) : channel'[p][r] = channel[p][r]
           /\ \A p \in Others(x) :
                 /\ channel'[p][x] = IF n = 0 THEN channel[p][x]
                                     ELSE SubSeq(channel[p][x], 2, Len(channel[p][x]))
                 /\ Len(channel'[p][x]) = Len(channel[p][x]) - n
<1> DEFINE d(p) == SubSeq(channel[p][x], n + 1, Len(channel[p][x]))
<1>1. channel' = [p \in Rank |-> IF p = x THEN channel[p]
                                 ELSE [channel[p] EXCEPT ![x] = d(p)]]
  BY DEF Consume
<1>2. channel \in [Rank -> [Rank -> Seq(Packet)]]
  BY DEF Types
<1>3. ASSUME NEW p \in Others(x)
      PROVE  /\ d(p) \in Seq(Packet) /\ Len(d(p)) = Len(channel[p][x]) - n
             /\ d(p) = IF n = 0 THEN channel[p][x]
                       ELSE SubSeq(channel[p][x], 2, Len(channel[p][x]))
  <2>1. p \in Rank /\ p # x /\ channel[p][x] \in Seq(Packet)
    BY <1>2 DEF Others
  <2>2. CASE n = 0
    <3>1. d(p) = channel[p][x]
      BY <2>1, <2>2
    <3> QED
      BY <2>1, <2>2, <3>1
  <2>3. CASE n = 1
    <3>1. Len(channel[p][x]) >= 1
      BY <2>3 DEF Arrived
    <3>2. d(p) = SubSeq(channel[p][x], 2, Len(channel[p][x]))
      BY <2>3
    <3> QED
      BY <2>1, <2>3, <3>1, <3>2, TailOf
  <2> QED
    BY <2>2, <2>3
<1> HIDE DEF d
<1>4. \A p \in Others(x) : p \in Rank /\ p # x
  BY DEF Others
<1>5. \A p \in Rank : p # x => p \in Others(x)
  BY DEF Others
<1>6. channel'[x] = channel[x]
  BY <1>1
<1>7. \A p \in Others(x) : /\ channel'[p] = [channel[p] EXCEPT ![x] = d(p)]
                           /\ channel[p] \in [Rank -> Seq(Packet)]
  BY <1>1, <1>2, <1>4
<1>8. \A p \in Others(x) : channel'[p][x] = d(p)
  BY <1>7, ZenonT(30)
<1>9. \A p, r \in Others(x) : channel'[p][r] = channel[p][r]
  BY <1>4, <1>7
<1>10. channel' \in [Rank -> [Rank -> Seq(Packet)]]
  <2>1. ASSUME NEW p \in Rank
        PROVE  channel'[p] \in [Rank -> Seq(Packet)]
    <3>1. CASE p = x
      BY <1>2, <1>6, <3>1
    <3>2. ASSUME p # x
          PROVE  channel'[p] \in [Rank -> Seq(Packet)]
      <4>1. p \in Others(x)
        BY <1>5, <3>2
      <4> DEFINE e == d(p)
      <4>2. e \in Seq(Packet)
        BY <1>3, <4>1
      <4>3. channel'[p] = [channel[p] EXCEPT ![x] = e] /\ channel[p] \in [Rank -> Seq(Packet)]
        BY <1>7, <4>1
      <4> HIDE DEF e
      <4> QED
        BY <4>2, <4>3
    <3> QED
      BY <3>1, <3>2
  <2> QED
    BY <1>1, <2>1
<1> QED
  BY <1>3, <1>6, <1>8, <1>9, <1>10

\* The row h of rank p at rank x, and the pushes d in flight to it, after rank
\* x has finished the n oldest pushes.
Taken(x, p, n, h, d) ==
    /\ RowOK(h) /\ Marked(h, epoch[x])
    /\ h.window_start = history[x][p].window_start
    /\ batch[x] = 0 => h = history[x][p]
    /\ p # x => /\ UpTo(h, Seen(x) + n)
                /\ Sent(d, Seen(x) + n, epoch[x])
                /\ Timely(d, h, Seen(x) + n)
                /\ \A y : Latest(channel[p][x], history[x][p], y) => Latest(d, h, y)

InFlight(x, p, n) == IF n = 0 THEN channel[p][x]
                     ELSE SubSeq(channel[p][x], 2, Len(channel[p][x]))

(* finish_snapshot_pushes: every row takes what its owner pushed.          *)
LEMMA Delivered ==
    ASSUME Inv, NEW x \in Rank, Between(x), NEW n \in 0 .. pending[x],
           Arrived(x, n), NEW p \in Rank
    PROVE  Taken(x, p, n, Received(x, n)[p], InFlight(x, p, n))
<1> DEFINE h == Received(x, n)[p]
           c == channel[p][x]
           d == InFlight(x, p, n)
           g == history[x][p]
<1>1. /\ Types /\ Local(x) /\ Progress(x) /\ Sending(x) /\ Rows(x)
      /\ RowOK(g) /\ Marked(g, epoch[x])
      /\ p # x => UpTo(g, Seen(x)) /\ Pair(p, x)
  BY DEF Inv, Local, Rows, RowAt, Others
<1>2. /\ pending[x] \in Nat /\ batch[x] \in Nat /\ c \in Seq(Packet)
      /\ batch[x] <= Snapshots /\ Snapshots \in Nat
      /\ pending[x] <= 1 /\ pending[x] <= batch[x]
  BY <1>1, LocalTypes, SnapshotsNat DEF Sending
<1>3. n \in {0, 1} /\ (batch[x] = 0 => n = 0)
  BY <1>2
<1>4. h = IF p = x \/ n = 0 THEN g ELSE InstallIfSent(g, c[1])
  BY <1>1, <1>3, ReceivedIs
<1>5. ASSUME p = x
      PROVE  Taken(x, p, n, h, d)
  <2> HIDE DEF h, d
  <2>1. h = g
    BY <1>4, <1>5
  <2> QED
    BY <1>1, <1>5, <2>1 DEF Taken
<1>6. ASSUME p # x, n = 0
      PROVE  Taken(x, p, n, h, d)
  <2>1. h = g /\ d = c /\ Seen(x) + n = Seen(x)
    BY <1>2, <1>4, <1>6 DEF Seen, InFlight
  <2> HIDE DEF h, d
  <2>2. UpTo(g, Seen(x)) /\ Sent(c, Seen(x), epoch[x]) /\ Timely(c, g, Seen(x))
    BY <1>1, <1>6 DEF Pair
  <2> QED
    BY <1>1, <1>6, <2>1, <2>2 DEF Taken
<1>7. ASSUME p # x, n = 1
      PROVE  Taken(x, p, n, h, d)
  <2>1. Len(c) >= 1
    BY <1>7 DEF Arrived, Others
  <2>2. /\ Seen(x) \in Nat /\ Seen(x) + 1 = batch[x] /\ batch[x] # 0
        /\ pending[x] = 1
    BY <1>2, <1>7 DEF Seen
  <2>3. g.window_start <= Seen(x) /\ batch[x] <= g.window_start + WindowSize
    BY <1>1 DEF Rows, RowAt
  <2>4. Sent(c, Seen(x), epoch[x]) /\ Timely(c, g, Seen(x))
    BY <1>1, <1>7 DEF Pair
  <2>5. UpTo(g, Seen(x))
    BY <1>1, <1>7
  <2>6. h = InstallIfSent(g, c[1]) /\ d = SubSeq(c, 2, Len(c))
    BY <1>4, <1>7 DEF InFlight
  <2> DEFINE seen == Seen(x)
             mark == epoch[x]
  <2>7. /\ seen \in Nat /\ seen + 1 <= g.window_start + WindowSize
        /\ seen + 1 <= Snapshots
    BY <1>2, <2>2, <2>3
  <2> HIDE DEF h, d, c, g, seen, mark
  <2>8. /\ RowOK(h) /\ Marked(h, mark) /\ UpTo(h, seen + 1)
        /\ h.window_start = g.window_start
        /\ Sent(d, seen + 1, mark) /\ Timely(d, h, seen + 1)
        /\ \A y : Latest(c, g, y) => Latest(d, h, y)
    BY <1>1, <1>2, <2>1, <2>3, <2>4, <2>5, <2>6, <2>7, TakeOne DEF seen, mark
  <2>9. UpTo(h, seen + n) /\ Sent(d, seen + n, mark) /\ Timely(d, h, seen + n)
    BY <1>7, <2>8
  <2> QED
    BY <1>7, <2>2, <2>8, <2>9 DEF Taken, seen, mark, c, g
<1> QED
  <2> HIDE DEF h, d
  <2>1. Taken(x, p, n, h, d)
    BY <1>3, <1>5, <1>6, <1>7
  <2> QED
    BY <2>1 DEF h, d

(* A subscriber that finishes pushes loses no publication.                 *)
LEMMA ReceivePair ==
    ASSUME Inv, NEW x \in Rank, Frame(x), NEW n \in 0 .. pending[x],
           n \in {0, 1}, Arrived(x, n), Consume(x, n),
           pending'[x] = pending[x] - n, Pushed(x)' = Pushed(x),
           epoch'[x] = epoch[x], batch'[x] = batch[x], NEW p \in Others(x),
           Sent(InFlight(x, p, n), Seen(x) + n, epoch[x]),
           Timely(InFlight(x, p, n), history'[x][p], Seen(x) + n),
           \A y : Latest(channel[p][x], history[x][p], y)
                    => Latest(InFlight(x, p, n), history'[x][p], y),
           batch[x] = 0 => Newest(history'[x][p]) = Newest(history[x][p])
    PROVE  Pair(p, x)'
<1>1. Types /\ Pair(p, x) /\ p \in Rank /\ p # x
  BY DEF Inv, Others
<1>2. /\ channel'[p][x] = InFlight(x, p, n)
      /\ Len(channel'[p][x]) = Len(channel[p][x]) - n
  BY <1>1, ConsumeIs DEF InFlight
<1>3. /\ pending[x] \in Nat /\ batch[x] \in Nat /\ Pushed(p) \in Int
      /\ Pushed(x) \in Int /\ Len(channel[p][x]) \in Nat
  BY <1>1, LocalTypes
<1>4. Seen(x)' = Seen(x) + n
  BY <1>3 DEF Seen
<1>5. /\ Pushed(p)' = Pushed(p) /\ epoch'[p] = epoch[p] /\ offer'[p] = offer[p]
      /\ filter'[p] = filter[p]
  BY FrameLocal DEF Frame
<1> DEFINE c == channel[p][x]
           d == channel'[p][x]
           g == history[x][p]
           h == history'[x][p]
<1>6. /\ Len(c) = Pushed(p) - Pushed(x) + pending[x]
      /\ batch[x] = 0 => Newest(g) = Zero
      /\ epoch[p] = epoch[x] /\ offer[p] = Nothing => Latest(c, g, filter[p].historical)
  BY <1>1 DEF Pair
<1>7. /\ Len(d) = Len(c) - n /\ Sent(d, Seen(x)', epoch'[x]) /\ Timely(d, h, Seen(x)')
      /\ \A y : Latest(c, g, y) => Latest(d, h, y)
      /\ batch[x] = 0 => Newest(h) = Newest(g)
  BY <1>2, <1>4
<1>8. Len(d) = Pushed(p)' - Pushed(x)' + pending'[x]
  <2> HIDE DEF c, d
  <2>1. Len(c) \in Nat
    BY <1>3 DEF c
  <2> QED
    BY <2>1, <1>3, <1>5, <1>6, <1>7
<1> HIDE DEF c, d, g, h
<1>9. /\ batch'[x] = 0 => Newest(h) = Zero
      /\ epoch'[p] = epoch'[x] /\ offer'[p] = Nothing => Latest(d, h, filter'[p].historical)
  BY <1>5, <1>6, <1>7
<1> QED
  BY <1>7, <1>8, <1>9 DEF Pair, d, h

(* A step between two batches that may receive pushes.                     *)
LEMMA ReceiveStep ==
    ASSUME Inv, NEW x \in Rank, Between(x), NEW n \in 0 .. pending[x],
           Arrived(x, n), history' = [history EXCEPT ![x] = Received(x, n)],
           pending' = [pending EXCEPT ![x] = @ - n], Consume(x, n),
           NEW s \in {"poll", "hydrate", "end", "reset", "done"},
           pc' = [pc EXCEPT ![x] = s],
           NEW t \in 1 .. Len(Splits), split' = [split EXCEPT ![x] = t],
           UNCHANGED <<epoch, batch, version, filter, entered, offer>>,
           First(x) <= First(x)', Progress(x)'
    PROVE  Inv'
<1>1. /\ Types /\ Progress(x) /\ Sending(x) /\ Rows(x) /\ Filters(x)
      /\ SplitStart(split[x]) <= batch[x]
  BY DEF Inv, Local, Progress
<1>2. /\ pending[x] \in Nat /\ batch[x] \in Nat /\ pending[x] <= 1 /\ pending[x] <= batch[x]
      /\ n \in {0, 1} /\ First(x) \in Nat /\ Pushed(x) \in Int
  <2>1. pending[x] \in Nat /\ batch[x] \in Nat /\ First(x) \in Nat /\ Pushed(x) \in Int
    BY <1>1, LocalTypes, FirstRange
  <2>2. pending[x] <= 1 /\ pending[x] <= batch[x]
    BY <1>1 DEF Sending
  <2> QED
    BY <2>1, <2>2
<1>3. /\ channel' \in [Rank -> [Rank -> Seq(Packet)]]
      /\ channel'[x] = channel[x]
      /\ \A p, r \in Others(x) : channel'[p][r] = channel[p][r]
  BY <1>1, <1>2, ConsumeIs
<1>4. /\ pc'[x] = s /\ split'[x] = t /\ history'[x] = Received(x, n)
      /\ pending'[x] = pending[x] - n
      /\ epoch'[x] = epoch[x] /\ batch'[x] = batch[x] /\ version'[x] = version[x]
      /\ filter'[x] = filter[x] /\ entered'[x] = entered[x] /\ offer'[x] = offer[x]
  BY <1>1 DEF Types
<1>5. Frame(x)
  BY <1>1, <1>3 DEF Frame, Types, Others
<1>6. Pushed(x)' = Pushed(x) /\ Between(x)' /\ pc[x] # "counts" /\ pc'[x] # "counts"
  BY <1>4 DEF Pushed, Between
<1>7. \A p \in Rank : Taken(x, p, n, Received(x, n)[p], InFlight(x, p, n))
  BY Delivered
<1>8. ASSUME NEW p \in Rank
      PROVE  /\ history'[x][p] = Received(x, n)[p]
             /\ RowOK(history'[x][p]) /\ Marked(history'[x][p], epoch[x])
             /\ history'[x][p].window_start = history[x][p].window_start
             /\ history'[x][p] \in History
  <2> DEFINE h == Received(x, n)[p]
  <2>1. history'[x][p] = h
    BY <1>4
  <2>2. RowOK(h) /\ Marked(h, epoch[x]) /\ h.window_start = history[x][p].window_start
    BY <1>7 DEF Taken
  <2> HIDE DEF h
  <2>3. h \in History
    BY <2>2 DEF RowOK
  <2> QED
    BY <2>1, <2>2, <2>3 DEF h
<1>9. Types'
  <2>1. history'[x] \in [Rank -> History]
    <3>1. history'[x] = [p \in Rank |-> history'[x][p]]
      BY <1>4 DEF Received
    <3> QED
      BY <3>1, <1>8
  <2>2. history' \in [Rank -> [Rank -> History]]
    BY <2>1, <1>1 DEF Types
  <2>3. pending' \in [Rank -> Nat]
    BY <1>1, <1>2, SMTT(30) DEF Types
  <2> QED
    BY <2>2, <2>3, <1>1, <1>3 DEF Types
<1>10. Local(x)'
  <2>1. Seen(x)' = Seen(x) + n /\ Seen(x) \in Int
    BY <1>2, <1>4 DEF Seen
  <2>2. Sending(x)'
    BY <1>1, <1>2, <1>4, <1>6 DEF Sending
  <2>3. ASSUME NEW p \in Rank
        PROVE  RowAt(x, history[x][p])' /\ (p # x => UpTo(history'[x][p], Seen(x)'))
    <3> DEFINE h == history'[x][p]
    <3>1. RowAt(x, history[x][p])
      BY <1>1 DEF Rows
    <3>2. /\ batch[x] <= history[x][p].window_start + WindowSize
          /\ history[x][p].window_start <= First(x)
          /\ history[x][p].window_start <= Seen(x)
          /\ history[x][p].window_start \in Nat
      BY <3>1, <1>1, LocalTypes DEF RowAt
    <3>3. First(x)' \in Int
      BY <1>4, <1>2, SplitEnds DEF First, Larger
    <3>4. p # x => UpTo(h, Seen(x)')
      BY <1>7, <1>8, <2>1 DEF Taken
    <3>5. /\ batch'[x] <= h.window_start + WindowSize
          /\ h.window_start <= First(x)' /\ h.window_start <= Seen(x)'
      <4> DEFINE w == history[x][p].window_start
      <4>1. h.window_start = w /\ batch'[x] = batch[x]
        BY <1>4, <1>8
      <4>2. First(x) \in Nat /\ Seen(x) \in Int /\ n \in Nat
        BY <1>2, <2>1
      <4> HIDE DEF h, w
      <4>3. w \in Nat /\ batch[x] <= w + WindowSize /\ w <= First(x) /\ w <= Seen(x)
        BY <3>2 DEF w
      <4>4. w <= First(x)'
        BY <4>2, <4>3, <3>3
      <4>5. w <= Seen(x)'
        BY <4>2, <4>3, <2>1
      <4> QED
        BY <4>1, <4>3, <4>4, <4>5
    <3>6. RowOK(h) /\ Marked(h, epoch'[x])
      BY <1>4, <1>8
    <3> QED
      BY <3>4, <3>5, <3>6, <1>6 DEF RowAt
  <2>4. Rows(x)'
    BY <2>3, <1>4 DEF Rows, Others
  <2>5. Filters(x)'
    BY <1>1, <1>4, <1>6 DEF Filters
  <2> QED
    BY <2>2, <2>4, <2>5 DEF Local
<1>11. ASSUME NEW p \in Others(x)
       PROVE  Pair(p, x)' /\ Pair(x, p)'
  <2> DEFINE h == Received(x, n)[p]
             d == InFlight(x, p, n)
  <2>1. /\ Sent(d, Seen(x) + n, epoch[x]) /\ Timely(d, h, Seen(x) + n)
        /\ \A y : Latest(channel[p][x], history[x][p], y) => Latest(d, h, y)
        /\ batch[x] = 0 => h = history[x][p]
        /\ history'[x][p] = h
    BY <1>7, <1>8 DEF Taken, Others
  <2> HIDE DEF h, d
  <2>2. /\ Sent(d, Seen(x) + n, epoch[x]) /\ Timely(d, history'[x][p], Seen(x) + n)
        /\ \A y : Latest(channel[p][x], history[x][p], y) => Latest(d, history'[x][p], y)
        /\ batch[x] = 0 => Newest(history'[x][p]) = Newest(history[x][p])
    BY <2>1
  <2>3. Pair(p, x)'
    BY <2>2, <1>2, <1>4, <1>5, <1>6, ReceivePair DEF d
  <2>4. Pair(x, p)'
    BY <1>3, <1>4, <1>5, <1>6, OwnerKept
  <2> QED
    BY <2>3, <2>4
<1> QED
  BY <1>4, <1>5, <1>6, <1>9, <1>10, <1>11, HandshakeKept, InvKept

(* A wait for no push receives nothing.                                    *)
LEMMA KeepIsNone ==
    ASSUME Inv, NEW x \in Rank, KeepInFlight
    PROVE  /\ 0 \in 0 .. pending[x] /\ Arrived(x, 0) /\ Consume(x, 0)
           /\ history' = [history EXCEPT ![x] = Received(x, 0)]
           /\ pending' = [pending EXCEPT ![x] = @ - 0]
<1>1. Types /\ UNCHANGED <<history, pending, channel>>
  BY DEF Inv, KeepInFlight
<1>2. Arrived(x, 0) /\ 0 \in 0 .. pending[x]
  BY <1>1, LocalTypes DEF Arrived, Others
<1>3. history[x] = Received(x, 0)
  <2>1. \A p \in Rank : Received(x, 0)[p] = history[x][p]
    BY <1>1, <1>2, ReceivedIs
  <2>2. /\ Received(x, 0) = [p \in Rank |-> Received(x, 0)[p]]
        /\ history[x] = [p \in Rank |-> history[x][p]]
    BY <1>1 DEF Received, Types
  <2> QED
    BY <2>1, <2>2
<1>4. history' = [history EXCEPT ![x] = Received(x, 0)]
  BY <1>1, <1>3 DEF Types
<1>5. pending' = [pending EXCEPT ![x] = @ - 0]
  BY <1>1 DEF Types
<1>6. Consume(x, 0)
  <2> DEFINE f(p) == SubSeq(channel[p][x], 0 + 1, Len(channel[p][x]))
  <2>1. ASSUME NEW p \in Rank
        PROVE  [channel[p] EXCEPT ![x] = f(p)] = channel[p]
    <3>1. channel[p] \in [Rank -> Seq(Packet)] /\ channel[p][x] \in Seq(Packet)
      BY <1>1 DEF Types
    <3>2. f(p) = channel[p][x]
      BY <3>1
    <3> HIDE DEF f
    <3> QED
      BY <3>1, <3>2
  <2>2. channel = [p \in Rank |-> channel[p]]
    BY <1>1 DEF Types
  <2> HIDE DEF f
  <2>3. channel = [p \in Rank |-> IF p = x THEN channel[p]
                                  ELSE [channel[p] EXCEPT ![x] = f(p)]]
    BY <2>1, <2>2
  <2> QED
    BY <1>1, <2>3 DEF Consume, f
<1> QED
  BY <1>2, <1>4, <1>5, <1>6

(* finish_shared_ready.                                                    *)
LEMMA PollKeeps ==
    ASSUME Inv, NEW x \in Rank, Poll(x)
    PROVE  Inv'
<1>1. PICK n \in ReadyOnly(x) :
         /\ history' = [history EXCEPT ![x] = Received(x, n)]
         /\ pending' = [pending EXCEPT ![x] = @ - n]
         /\ Consume(x, n)
  BY DEF Poll
<1>2. n \in 0 .. pending[x] /\ Arrived(x, n)
  BY DEF ReadyOnly
<1>3. /\ pc[x] = "poll" /\ pc' = [pc EXCEPT ![x] = "hydrate"] /\ Between(x)
      /\ UNCHANGED <<epoch, batch, split, version, filter, entered, offer>>
  BY DEF Poll, Between
<1>4. /\ Types /\ Progress(x) /\ split[x] \in 1 .. Len(Splits)
      /\ split' = [split EXCEPT ![x] = split[x]] /\ pc'[x] = "hydrate"
  BY <1>3 DEF Inv, Local, Types
<1>5. First(x)' = First(x) /\ First(x) \in Nat
  <2>1. First(x) \in Nat
    BY <1>4, FirstRange DEF Progress
  <2> QED
    BY <1>3, <2>1 DEF First
<1>6. Progress(x)'
  BY <1>3, <1>4 DEF Progress, Pushed, Between
<1>7. /\ First(x) <= First(x)'
      /\ "hydrate" \in {"poll", "hydrate", "end", "reset", "done"}
  BY <1>5
<1> QED
  BY <1>1, <1>2, <1>3, <1>4, <1>6, <1>7, ReceiveStep

(* run_epoch ends a split, and with it what its window may reach into.     *)
LEMMA EndKeeps ==
    ASSUME Inv, NEW x \in Rank, NextSplit(x) \/ LastSplit(x)
    PROVE  Inv'
<1>1. /\ Types /\ Progress(x) /\ Sending(x) /\ pc[x] = "end" /\ Between(x)
      /\ Flush(x) \/ KeepInFlight
      /\ UNCHANGED <<epoch, batch, version, filter, entered, offer>>
  BY DEF Inv, Local, NextSplit, LastSplit, Between
<1>2. PICK n \in 0 .. pending[x] :
         /\ Arrived(x, n) /\ Consume(x, n)
         /\ history' = [history EXCEPT ![x] = Received(x, n)]
         /\ pending' = [pending EXCEPT ![x] = @ - n]
  <2>1. CASE Flush(x)
    <3>1. PICK n \in AllPushes(x) :
             /\ history' = [history EXCEPT ![x] = Received(x, n)]
             /\ pending' = [pending EXCEPT ![x] = @ - n]
             /\ Consume(x, n)
      BY <2>1 DEF Flush
    <3>2. n \in 0 .. pending[x] /\ Arrived(x, n)
      BY <1>1, LocalTypes DEF AllPushes
    <3> QED
      BY <3>1, <3>2
  <2>2. CASE KeepInFlight
    BY <2>2, KeepIsNone
  <2> QED
    BY <1>1, <2>1, <2>2
<1>3. /\ First(x) \in Nat /\ batch[x] \in Nat /\ batch[x] <= Snapshots
      /\ split[x] \in 1 .. Len(Splits) /\ batch[x] = Splits[split[x]]
  BY <1>1, LocalTypes, FirstRange DEF Progress
<1>4. ASSUME NextSplit(x)
      PROVE  Inv'
  <2> DEFINE t == split[x] + 1
  <2>1. /\ split[x] < Len(Splits) /\ split' = [split EXCEPT ![x] = t]
        /\ pc' = [pc EXCEPT ![x] = "poll"]
    BY <1>4 DEF NextSplit
  <2>2. split[x] \in 1 .. Len(Splits) - 1 /\ t \in 1 .. Len(Splits)
    BY <1>3, <2>1, SplitEnds
  <2>3. /\ SplitStart(t) = batch[x] /\ batch[x] < Splits[t]
        /\ SplitStart(split[x]) <= SplitStart(t)
        /\ SplitStart(split[x]) \in Nat /\ SplitStart(t) \in Nat
    BY <1>3, <2>2, SplitEnds
  <2>4. split'[x] = t /\ pc'[x] = "poll" /\ batch'[x] = batch[x]
    BY <1>1, <2>1 DEF Types
  <2> HIDE DEF t
  <2>5. First(x) <= First(x)'
    BY <1>3, <2>3, <2>4 DEF First, Larger
  <2>6. Progress(x)'
    BY <1>1, <2>3, <2>4 DEF Progress, Pushed, Between
  <2> QED
    BY <1>1, <1>2, <2>1, <2>2, <2>5, <2>6, ReceiveStep
<1>5. ASSUME LastSplit(x)
      PROVE  Inv'
  <2> DEFINE s == IF epoch[x] < Epochs THEN "reset" ELSE "done"
  <2>1. /\ split[x] = Len(Splits) /\ pc' = [pc EXCEPT ![x] = s] /\ split' = split
    BY <1>5 DEF LastSplit
  <2>2. s \in {"reset", "done"} /\ (s = "reset" => epoch[x] < Epochs)
    OBVIOUS
  <2> HIDE DEF s
  <2>3. pc'[x] = s /\ split'[x] = split[x] /\ split' = [split EXCEPT ![x] = split[x]]
    BY <1>1, <2>1 DEF Types
  <2>4. First(x) <= First(x)'
    BY <1>1, <1>3, <2>3 DEF First
  <2>5. epoch'[x] = epoch[x] /\ batch'[x] = batch[x] /\ version'[x] = version[x]
    BY <1>1
  <2>6. Pushed(x)' = Pushed(x) /\ Between(x)'
    BY <1>1, <2>2, <2>3 DEF Pushed, Between
  <2>7. Progress(x)'
    BY <1>1, <2>1, <2>2, <2>3, <2>5, <2>6 DEF Progress
  <2> QED
    BY <1>1, <1>2, <1>3, <2>1, <2>2, <2>3, <2>4, <2>7, ReceiveStep
<1> QED
  BY <1>4, <1>5

(* hydrate_snapshot_history: every push is in, and the window slides to    *)
(* the first snapshot of the batch.                                        *)
LEMMA HydrateKeeps ==
    ASSUME Inv, NEW x \in Rank, Hydrate(x)
    PROVE  Inv'
<1> DEFINE n == pending[x]
           h(p) == Received(x, n)[p]
           k(p) == IF First(x) = h(p).window_start THEN h(p)
                   ELSE Advance(h(p), First(x))
<1>1. /\ pc[x] = "hydrate" /\ pc' = [pc EXCEPT ![x] = "encode"] /\ Between(x)
      /\ UNCHANGED <<epoch, batch, split, version, filter, entered, offer>>
      /\ Arrived(x, n) /\ Consume(x, n)
      /\ pending' = [pending EXCEPT ![x] = @ - n]
      /\ history' = [history EXCEPT ![x] = [p \in Rank |-> k(p)]]
  BY DEF Hydrate, Awaited, AllPushes, Between
<1>2. /\ Types /\ Progress(x) /\ Sending(x) /\ Rows(x) /\ Filters(x)
      /\ SplitStart(split[x]) <= batch[x]
  BY DEF Inv, Local, Progress
<1>3. /\ pending[x] \in Nat /\ batch[x] \in Nat /\ pending[x] <= 1
      /\ n \in {0, 1} /\ n \in 0 .. pending[x]
      /\ First(x) \in Nat /\ First(x) <= batch[x]
      /\ batch[x] <= Snapshots /\ Seen(x) + n = batch[x]
  <2>1. pending[x] \in Nat /\ batch[x] \in Nat /\ batch[x] <= Snapshots
    BY <1>2, LocalTypes
  <2>2. First(x) \in Nat /\ First(x) <= batch[x]
    BY <1>2, FirstRange
  <2>3. pending[x] <= 1
    BY <1>2 DEF Sending
  <2> QED
    BY <2>1, <2>2, <2>3 DEF Seen
<1>4. /\ channel' \in [Rank -> [Rank -> Seq(Packet)]]
      /\ channel'[x] = channel[x]
      /\ \A p, r \in Others(x) : channel'[p][r] = channel[p][r]
  BY <1>1, <1>2, <1>3, ConsumeIs
<1>5. /\ pc'[x] = "encode" /\ split'[x] = split[x] /\ pending'[x] = 0
      /\ epoch'[x] = epoch[x] /\ batch'[x] = batch[x] /\ version'[x] = version[x]
      /\ filter'[x] = filter[x] /\ entered'[x] = entered[x] /\ offer'[x] = offer[x]
      /\ First(x)' = First(x) /\ pending'[x] = pending[x] - n
  BY <1>1, <1>2, <1>3 DEF Types, First
<1>6. Frame(x)
  BY <1>1, <1>2, <1>4 DEF Frame, Types, Others
<1>7. /\ Pushed(x)' = Pushed(x) /\ ~ Between(x)' /\ pc[x] # "counts"
      /\ pc'[x] # "counts" /\ Seen(x)' = batch[x]
  BY <1>1, <1>3, <1>5 DEF Pushed, Between, Seen
<1>8. ASSUME NEW p \in Rank
      PROVE  /\ history'[x][p] = k(p)
             /\ RowOK(k(p)) /\ k(p) \in History /\ Marked(k(p), epoch[x])
             /\ k(p).window_start = First(x)
             /\ p # x => /\ UpTo(k(p), batch[x])
                         /\ Timely(InFlight(x, p, n), k(p), batch[x])
                         /\ Sent(InFlight(x, p, n), batch[x], epoch[x])
                         /\ \A y : Latest(channel[p][x], history[x][p], y)
                                     => Latest(InFlight(x, p, n), k(p), y)
                         /\ batch[x] = 0 => Newest(k(p)) = Newest(history[x][p])
  <2> DEFINE g == history[x][p]
             a == h(p)
             b == k(p)
             d == InFlight(x, p, n)
  <2>1. history'[x][p] = b
    BY <1>1, <1>2 DEF Types
  <2>2. Taken(x, p, n, a, d)
    BY <1>1, <1>3, Delivered
  <2>3. b = IF First(x) = a.window_start THEN a ELSE Advance(a, First(x))
    OBVIOUS
  <2> HIDE DEF h, k, n, a, b, g
  <2>4. g.window_start \in Nat /\ g.window_start <= First(x)
    BY <1>1, <1>2, LocalTypes DEF Rows, RowAt, g
  <2>5. /\ RowOK(a) /\ Marked(a, epoch[x]) /\ a.window_start = g.window_start
        /\ batch[x] = 0 => a = g
        /\ p # x => /\ UpTo(a, batch[x]) /\ Sent(d, batch[x], epoch[x])
                    /\ Timely(d, a, batch[x])
                    /\ \A y : Latest(channel[p][x], g, y) => Latest(d, a, y)
    BY <1>3, <2>2 DEF Taken, g
  <2> HIDE DEF d
  <2>6. /\ RowOK(b) /\ Marked(b, epoch[x]) /\ b.window_start = First(x)
        /\ p # x => /\ UpTo(b, batch[x]) /\ Timely(d, b, batch[x])
                    /\ Newest(b) = Newest(a)
                    /\ \A y : Latest(d, a, y) => Latest(d, b, y)
    <3>1. CASE First(x) = a.window_start
      BY <2>3, <2>5, <3>1
    <3>2. CASE First(x) # a.window_start
      <4>1. b = Advance(a, First(x)) /\ First(x) >= a.window_start
        BY <1>3, <2>3, <2>4, <2>5, <3>2
      <4>2. /\ RowOK(b) /\ b.window_start = First(x) /\ Marked(b, epoch[x])
            /\ p # x => UpTo(b, batch[x])
        BY <1>3, <2>5, <4>1, AdvanceKeepsRow
      <4>3. p # x => /\ Timely(d, b, batch[x]) /\ Newest(b) = Newest(a)
                     /\ \A y : Latest(d, a, y) => Latest(d, b, y)
        BY <1>3, <2>4, <2>5, <4>1, Slide
      <4> QED
        BY <4>2, <4>3
    <3> QED
      BY <3>1, <3>2
  <2>7. b \in History
    BY <2>6 DEF RowOK
  <2>8. /\ p # x => /\ Sent(d, batch[x], epoch[x])
                    /\ \A y : Latest(channel[p][x], g, y) => Latest(d, b, y)
                    /\ batch[x] = 0 => Newest(b) = Newest(g)
    BY <2>5, <2>6
  <2> QED
    BY <2>1, <2>6, <2>7, <2>8 DEF b, d, g
<1> HIDE DEF k, h, n
<1>9. Types'
  <2>1. history'[x] = [p \in Rank |-> k(p)]
    BY <1>1, <1>2 DEF Types
  <2>2. history'[x] \in [Rank -> History]
    BY <2>1, <1>8
  <2>3. history' \in [Rank -> [Rank -> History]]
    BY <1>1, <1>2, <2>2 DEF Types
  <2>4. pending' \in [Rank -> Nat]
    BY <1>1, <1>2, <1>5 DEF Types
  <2> QED
    BY <2>3, <2>4, <1>1, <1>2, <1>4 DEF Types
<1>10. Local(x)'
  <2>1. Progress(x)'
    BY <1>1, <1>2, <1>5, <1>7 DEF Progress, Between
  <2>2. Sending(x)'
    BY <1>1, <1>2, <1>3, <1>5 DEF Sending
  <2>3. ASSUME NEW p \in Rank
        PROVE  RowAt(x, history[x][p])' /\ (p # x => UpTo(history'[x][p], Seen(x)'))
    <3> DEFINE b == history'[x][p]
    <3>1. RowOK(b) /\ Marked(b, epoch'[x]) /\ b.window_start = First(x)'
          /\ (p # x => UpTo(b, Seen(x)'))
      BY <1>5, <1>7, <1>8
    <3> QED
      BY <3>1, <1>7 DEF RowAt
  <2>4. Rows(x)'
    BY <2>3, <1>5 DEF Rows, Others
  <2>5. Filters(x)'
    BY <1>2, <1>5, <1>7 DEF Filters
  <2> QED
    BY <2>1, <2>2, <2>4, <2>5 DEF Local
<1>11. ASSUME NEW p \in Others(x)
       PROVE  Pair(p, x)' /\ Pair(x, p)'
  <2>1. p \in Rank /\ p # x
    BY DEF Others
  <2> DEFINE d == InFlight(x, p, n)
  <2> HIDE DEF d
  <2>2. /\ Sent(d, Seen(x) + n, epoch[x]) /\ Timely(d, history'[x][p], Seen(x) + n)
        /\ \A y : Latest(channel[p][x], history[x][p], y) => Latest(d, history'[x][p], y)
        /\ batch[x] = 0 => Newest(history'[x][p]) = Newest(history[x][p])
    BY <1>3, <1>8, <2>1 DEF d
  <2>3. Pair(p, x)'
    BY <2>2, <1>1, <1>3, <1>5, <1>6, <1>7, ReceivePair DEF d
  <2>4. Pair(x, p)'
    BY <1>4, <1>5, <1>6, <1>7, OwnerKept
  <2> QED
    BY <2>3, <2>4
<1> QED
  BY <1>5, <1>6, <1>7, <1>9, <1>10, <1>11, HandshakeKept, InvKept

-----------------------------------------------------------------------------
(* Computing and publishing.                                               *)

(* commit_snapshot_history writes versions of the window to its own row.   *)
LEMMA CommitKeeps ==
    ASSUME Inv, NEW x \in Rank, Commit(x)
    PROVE  Inv'
<1>1. /\ Types /\ Progress(x) /\ Sending(x) /\ Rows(x) /\ Filters(x)
      /\ SplitStart(split[x]) <= batch[x]
  BY DEF Inv, Local, Progress
<1>2. PICK v \in Uncommitted(x) :
         /\ history' = [history EXCEPT ![x][x] = Update(@, v, epoch[x])]
         /\ version' = [version EXCEPT ![x] = v]
         /\ pc' = [pc EXCEPT ![x] = IF v = batch[x] + 1 THEN "launch" ELSE "commit"]
  BY DEF Commit
<1>3. /\ pc[x] \in {"encode", "commit"}
      /\ UNCHANGED <<epoch, batch, split, filter, entered, offer, pending, channel>>
  BY DEF Commit
<1>4. /\ batch[x] \in Nat /\ First(x) \in Nat /\ version[x] \in Nat
      /\ batch[x] + 1 <= First(x) + WindowSize /\ batch[x] + 1 <= Snapshots
      /\ epoch[x] \in Nat /\ Snapshots \in Nat
  <2>1. /\ batch[x] \in Nat /\ First(x) \in Nat /\ version[x] \in Nat
        /\ batch[x] + 1 <= First(x) + WindowSize /\ epoch[x] \in Nat
    BY <1>1, LocalTypes, FirstRange
  <2>2. batch[x] + 1 <= Snapshots /\ Snapshots \in Nat
    BY <1>1, <1>3, BeforeEnd, SnapshotsNat
  <2> QED
    BY <2>1, <2>2
<1>5. /\ v \in Nat /\ First(x) < v /\ v <= batch[x] + 1
      /\ v \in 0 .. Snapshots
  <2>1. pc[x] = "commit" => First(x) < version[x] /\ version[x] <= batch[x]
    BY <1>1, Zenon DEF Progress
  <2> QED
    BY <2>1, <1>3, <1>4 DEF Uncommitted
<1> DEFINE g == history[x][x]
           u == Update(g, v, epoch[x])
<1>6. g.window_start = First(x) /\ RowOK(g) /\ Marked(g, epoch[x]) /\ g \in History
  BY <1>1, <1>3 DEF Rows, RowAt, Between, RowOK
<1>7. Active(g, v)
  <2> HIDE DEF g
  <2> QED
    BY <1>4, <1>5, <1>6 DEF Active
<1> HIDE DEF g, u
<1>8. /\ RowOK(u) /\ Marked(u, epoch[x]) /\ u.window_start = First(x)
      /\ \E i \in Slot : u.valid[i] /\ u.packets[i].version = v
      /\ u \in History
  <2>1. /\ RowOK(u) /\ Marked(u, epoch[x]) /\ u.window_start = g.window_start
        /\ \E i \in Slot : u.valid[i] /\ u.packets[i].version = v
    BY <1>4, <1>5, <1>6, <1>7, UpdateKeepsRow DEF u
  <2> QED
    BY <2>1, <1>6 DEF RowOK
<1>9. /\ history'[x] = [history[x] EXCEPT ![x] = u] /\ history[x] \in [Rank -> History]
      /\ history' = [history EXCEPT ![x] = [history[x] EXCEPT ![x] = u]]
  BY <1>1, <1>2 DEF Types, u, g
<1>10. /\ history'[x][x] = u
       /\ \A p \in Others(x) : history'[x][p] = history[x][p]
  BY <1>9 DEF Others
<1>11. /\ pc'[x] = IF v = batch[x] + 1 THEN "launch" ELSE "commit"
       /\ version'[x] = v /\ split'[x] = split[x] /\ pending'[x] = pending[x]
       /\ epoch'[x] = epoch[x] /\ batch'[x] = batch[x] /\ filter'[x] = filter[x]
       /\ entered'[x] = entered[x] /\ offer'[x] = offer[x] /\ First(x)' = First(x)
       /\ channel' = channel
  BY <1>1, <1>2, <1>3 DEF Types, First
<1>12. Frame(x)
  BY <1>1, <1>2, <1>3, <1>9 DEF Frame, Types, Others
<1>13. /\ Pushed(x)' = Pushed(x) /\ Seen(x)' = Seen(x)
       /\ ~ Between(x) /\ ~ Between(x)' /\ pc[x] # "counts" /\ pc'[x] # "counts"
  BY <1>3, <1>11 DEF Pushed, Seen, Between
<1>14. Types'
  <2>1. history'[x] \in [Rank -> History]
    BY <1>8, <1>9
  <2>2. history' \in [Rank -> [Rank -> History]]
    BY <1>1, <1>9, <2>1 DEF Types
  <2> QED
    BY <2>2, <1>1, <1>2, <1>3, <1>5 DEF Types
<1>15. Local(x)'
  <2>1. Progress(x)'
    BY <1>1, <1>3, <1>4, <1>5, <1>11, <1>13 DEF Progress, Between
  <2>2. Sending(x)'
    BY <1>1, <1>3, <1>11, <1>13 DEF Sending, Between
  <2>3. ASSUME NEW p \in Rank
        PROVE  RowAt(x, history[x][p])' /\ (p # x => UpTo(history'[x][p], Seen(x)'))
    <3>1. CASE p = x
      BY <3>1, <1>8, <1>10, <1>11, <1>13 DEF RowAt
    <3>2. CASE p # x
      <4>1. /\ history'[x][p] = history[x][p]
            /\ RowAt(x, history[x][p]) /\ UpTo(history[x][p], Seen(x))
        BY <3>2, <1>1, <1>10 DEF Others, Rows
      <4> QED
        BY <4>1, <1>11, <1>13 DEF RowAt
    <3> QED
      BY <3>1, <3>2
  <2>4. pc'[x] = "launch" => version'[x] = v
    BY <1>11
  <2>5. Rows(x)'
    BY <2>3, <2>4, <1>8, <1>10 DEF Rows, Others
  <2>6. Filters(x)'
    BY <1>1, <1>11, <1>13 DEF Filters
  <2> QED
    BY <2>1, <2>2, <2>5, <2>6 DEF Local
<1>16. ASSUME NEW p \in Others(x)
       PROVE  Pair(p, x)' /\ Pair(x, p)'
  BY <1>10, <1>11, <1>12, <1>13, SubscriberKept, OwnerKept
<1> QED
  BY <1>11, <1>12, <1>13, <1>14, <1>15, <1>16, HandshakeKept, InvKept

(* launch_snapshot_push offers what the rank has just computed, or counts  *)
(* one omission more.                                                      *)
LEMMA LaunchKeeps ==
    ASSUME Inv, NEW x \in Rank, NEW keep \in BOOLEAN, Launch(x, keep)
    PROVE  Inv'
<1> DEFINE packet == Read(history[x][x], version[x])
<1>1. /\ Types /\ Progress(x) /\ Sending(x) /\ Rows(x) /\ Filters(x) /\ Handshake
      /\ SplitStart(split[x]) <= batch[x]
  BY DEF Inv, Local, Progress
<1>2. /\ pc[x] = "launch" /\ (Forced(x) => keep)
      /\ offer' = [offer EXCEPT ![x] = IF keep THEN packet ELSE Nothing]
      /\ filter' = [filter EXCEPT ![x] =
                      IF keep THEN [count |-> 0, historical |-> packet]
                      ELSE [count |-> @.count + 1,
                            historical |-> @.historical]]
      /\ entered' = [entered EXCEPT ![x] = @ + 1]
      /\ pc' = [pc EXCEPT ![x] = "counts"]
      /\ UNCHANGED <<epoch, batch, split, history, version, pending, channel>>
  BY DEF Launch, Enter
<1>3. /\ batch[x] \in Nat /\ version[x] = batch[x] + 1 /\ entered[x] \in Nat
      /\ version[x] \in Nat /\ filter[x].count \in 0 .. MaxSkip
      /\ filter[x].historical.version \in Nat /\ offer[x] = Nothing
  BY <1>1, <1>2, LocalTypes DEF Progress, Sending
<1>4. packet \in Packet /\ packet.version = batch[x] + 1 /\ packet.mark = epoch[x]
  <2> DEFINE h == history[x][x]
  <2>1. RowOK(h) /\ Marked(h, epoch[x])
    BY <1>1 DEF Rows, RowAt
  <2>2. PICK i \in Slot : h.valid[i] /\ h.packets[i].version = version[x]
    BY <1>1, <1>2 DEF Rows
  <2> HIDE DEF h
  <2>3. IsNewest(h, version[x], i)
    BY <1>3, <2>2 DEF IsNewest
  <2>4. Read(h, version[x]) = h.packets[i]
    BY <1>3, <2>1, <2>3, ReadIs
  <2>5. h.packets[i] \in Packet /\ h.packets[i].mark = epoch[x]
    BY <1>3, <2>1, <2>2, RowTypes DEF Marked
  <2> QED
    BY <1>3, <2>2, <2>4, <2>5 DEF h
<1> HIDE DEF packet
<1>5. /\ pc'[x] = "counts" /\ entered'[x] = entered[x] + 1
      /\ offer'[x] = IF keep THEN packet ELSE Nothing
      /\ epoch'[x] = epoch[x] /\ batch'[x] = batch[x] /\ version'[x] = version[x]
      /\ split'[x] = split[x] /\ pending'[x] = pending[x] /\ history'[x] = history[x]
      /\ First(x)' = First(x) /\ channel' = channel /\ history' = history
  BY <1>1, <1>2 DEF Types, First
<1>6. filter[x] \in [count : 0 .. MaxSkip, historical : Packet] /\ x \in DOMAIN filter
  BY <1>1 DEF Types
<1>7. /\ keep => filter'[x] = [count |-> 0, historical |-> packet]
      /\ ~ keep => filter'[x] = [count |-> filter[x].count + 1,
                                 historical |-> filter[x].historical]
  BY <1>2, <1>6
<1>8. ~ keep => filter[x].count + 1 \in 0 .. MaxSkip
  BY <1>2, <1>3 DEF Forced
<1>9. /\ keep => filter'[x].count = 0 /\ filter'[x].historical = packet
      /\ ~ keep => /\ filter'[x].count = filter[x].count + 1
                   /\ filter'[x].historical = filter[x].historical
      /\ filter'[x] \in [count : 0 .. MaxSkip, historical : Packet]
  BY <1>4, <1>6, <1>7, <1>8
<1>10. packet # Nothing /\ packet.version # 0 /\ Nothing \in Packet
  BY <1>3, <1>4 DEF Nothing, Packet
<1>11. Frame(x)
  BY <1>1, <1>2 DEF Frame, Types, Others
<1>12. /\ Pushed(x)' = Pushed(x) /\ Seen(x)' = Seen(x) /\ ~ Between(x) /\ ~ Between(x)'
       /\ pc[x] # "counts"
  BY <1>2, <1>3, <1>5 DEF Pushed, Seen, Between
<1>13. Types'
  <2>1. filter' \in [Rank -> [count : 0 .. MaxSkip, historical : Packet]]
    <3>1. /\ \E e : filter' = [filter EXCEPT ![x] = e]
          /\ filter \in [Rank -> [count : 0 .. MaxSkip, historical : Packet]]
      BY <1>1, <1>2 DEF Types
    <3> QED
      BY <3>1, <1>9
  <2>2. offer' \in [Rank -> Packet] /\ entered' \in [Rank -> Nat]
    BY <1>1, <1>2, <1>4, <1>10 DEF Types
  <2> QED
    BY <2>1, <2>2, <1>1, <1>2 DEF Types
<1>14. Local(x)'
  <2>1. Progress(x)'
    BY <1>1, <1>2, <1>5, <1>12 DEF Progress
  <2>2. Sending(x)'
    BY <1>1, <1>4, <1>5, <1>12 DEF Sending
  <2>3. Rows(x)'
    BY <1>1, <1>5, <1>12 DEF Rows, RowAt
  <2>4. Filters(x)'
    BY <1>1, <1>2, <1>3, <1>4, <1>5, <1>9, <1>10 DEF Filters
  <2> QED
    BY <2>1, <2>2, <2>3, <2>4 DEF Local
<1>15. ASSUME NEW r \in Others(x)
       PROVE  /\ Pair(r, x)' /\ Pair(x, r)' /\ Pushed(x)' <= entered'[r]
              /\ Pushed(r) <= entered'[x]
  <2>1. Pair(r, x)'
    BY <1>5, <1>11, <1>12, SubscriberKept
  <2>2. Pair(x, r) /\ r \in Rank
    BY DEF Inv, Others
  <2>3. /\ Pushed(r)' = Pushed(r) /\ Seen(r)' = Seen(r) /\ epoch'[r] = epoch[r]
        /\ batch'[r] = batch[r] /\ pending'[r] = pending[r] /\ entered'[r] = entered[r]
    BY <1>11, FrameLocal DEF Frame
  <2>4. offer'[x] = Nothing => offer[x] = Nothing /\ filter'[x].historical = filter[x].historical
    BY <1>3, <1>5, <1>9, <1>10
  <2>5. Pair(x, r)'
    BY <2>2, <2>3, <2>4, <1>5, <1>12 DEF Pair
  <2>6. Pushed(x) <= entered[r] /\ Pushed(r) <= entered[x] /\ Pushed(r) \in Int
    BY <1>1, <2>2, LocalTypes DEF Handshake
  <2> QED
    BY <2>1, <2>3, <2>5, <2>6, <1>3, <1>5, <1>12
<1>16. Pushed(x)' <= entered'[x]
  BY <1>2, <1>3, <1>5, <1>12 DEF Pushed
<1> QED
  BY <1>11, <1>13, <1>14, <1>15, <1>16, InvKept

(* all_to_all_counts: the ranks that have entered the exchange of rank x   *)
(* are in its epoch, and await its push.                                   *)
LEMMA Matched ==
    ASSUME Inv, NEW x \in Rank, pc[x] = "counts", NEW r \in Others(x),
           entered[r] >= entered[x]
    PROVE  /\ epoch[r] = epoch[x]
           /\ Seen(r) + Len(channel[x][r]) = batch[x]
<1>1. /\ r \in Rank /\ Types /\ Handshake /\ Progress(x) /\ Progress(r) /\ Sending(r)
      /\ Pair(x, r)
  BY DEF Inv, Local, Others
<1> DEFINE n == Len(channel[x][r])
           e == epoch[x] - 1
           f == epoch[r] - 1
           S == Snapshots
<1>2. /\ e \in Nat /\ f \in Nat /\ batch[x] \in 0 .. S /\ batch[r] \in 0 .. S
      /\ S \in Nat \ {0} /\ n \in Nat /\ entered[x] \in Nat /\ entered[r] \in Nat
      /\ pending[r] \in Nat /\ epoch[x] \in Nat /\ epoch[r] \in Nat
      /\ Pushed(x) \in Int /\ Pushed(r) \in Int
  <2>1. \A p \in {x, r} : /\ epoch[p] \in Nat \ {0} /\ batch[p] \in 0 .. S /\ entered[p] \in Nat
                          /\ pending[p] \in Nat /\ Pushed(p) \in Int
    BY <1>1, LocalTypes
  <2>2. n \in Nat
    <3>1. channel[x][r] \in Seq(Packet)
      BY <1>1 DEF Types
    <3> QED
      BY <3>1
  <2>3. S \in Nat \ {0}
    BY SnapshotsNat
  <2> HIDE DEF n, S
  <2>4. e \in Nat /\ f \in Nat
    BY <2>1
  <2> QED
    BY <2>1, <2>2, <2>3, <2>4
<1>3. n = Pushed(x) - Pushed(r) + pending[r]
  BY <1>1 DEF Pair
<1>4. Pushed(x) = entered[x] - 1 /\ Pushed(r) <= entered[x]
  BY <1>1 DEF Handshake, Pushed
<1>5. pending[r] <= 1 /\ pending[r] <= batch[r]
  BY <1>1 DEF Sending
<1>6. Pushed(x) = e * S + batch[x] /\ Pushed(r) = f * S + batch[r]
  BY <1>1 DEF Progress
<1>7. batch[x] < S
  BY <1>1, BeforeEnd
<1>8. Pushed(r) = Pushed(x) \/ Pushed(r) = Pushed(x) + 1
  BY <1>2, <1>4, SMTT(30) DEF Pushed
<1> HIDE DEF n, S, e, f
<1>9. CASE Pushed(r) = Pushed(x)
  <2>1. pc[r] = "counts"
    BY <1>2, <1>4, <1>9 DEF Pushed
  <2>2. batch[r] < S
    BY <2>1, <1>1, BeforeEnd DEF S
  <2>3. e * S + batch[x] = f * S + batch[r]
    BY <1>6, <1>9
  <2>4. e = f /\ batch[x] = batch[r]
    <3>1. \/ e = f /\ batch[x] = batch[r]
          \/ e = f + 1 /\ batch[x] = 0 /\ batch[r] = S
          \/ f = e + 1 /\ batch[r] = 0 /\ batch[x] = S
      <4>1. S \in Nat \ {0} /\ e \in Nat /\ f \in Nat
        BY <1>2
      <4>2. batch[x] \in 0 .. S /\ batch[r] \in 0 .. S
        BY <1>2
      <4> QED
        BY ONLY <2>3, <4>1, <4>2, Position
    <3> QED
      BY <3>1, <2>2, <1>2, <1>7
  <2> QED
    BY <2>4, <1>2, <1>3, <1>9, SMTT(30) DEF e, f, n, Seen
<1>10. CASE Pushed(r) = Pushed(x) + 1
  <2> DEFINE b == batch[x] + 1
  <2>1. e * S + b = f * S + batch[r] /\ b \in 0 .. S /\ b # 0
    <3> DEFINE y == e * S
               z == f * S
    <3>1. y \in Int /\ z \in Int
      BY <1>2
    <3> HIDE DEF y, z
    <3>2. y + batch[x] + 1 = z + batch[r]
      BY <1>6, <1>10 DEF y, z
    <3>3. y + b = z + batch[r] /\ b \in 0 .. S /\ b # 0
      BY <3>1, <3>2, <1>2, <1>7
    <3> QED
      BY <3>3 DEF y, z
  <2>2. batch[r] # 0
    BY <1>2, <1>3, <1>5, <1>10
  <2> HIDE DEF b
  <2>3. e = f /\ b = batch[r]
    BY <2>1, <2>2, <1>2, Position
  <2>4. epoch[x] = epoch[r] /\ batch[r] = batch[x] + 1
    BY <2>3, <1>2 DEF e, f, b
  <2>5. n = pending[r] - 1
    BY <1>2, <1>3, <1>10
  <2>6. batch[x] \in Nat /\ Seen(r) + n = batch[x]
    BY <2>4, <2>5, <1>2 DEF Seen
  <2> QED
    BY <2>4, <2>6 DEF n
<1> QED
  BY <1>8, <1>9, <1>10

(* launch_snapshot_push, once the counts are exchanged: the push goes to   *)
(* subscribers of the epoch it was computed in.                            *)
LEMMA PushKeeps ==
    ASSUME Inv, NEW x \in Rank, Push(x)
    PROVE  Inv'
<1>1. /\ Types /\ Progress(x) /\ Sending(x) /\ Rows(x) /\ Filters(x) /\ Handshake
      /\ SplitStart(split[x]) <= batch[x]
  BY DEF Inv, Local, Progress
<1>2. /\ pc[x] = "counts" /\ \A p \in Others(x) : entered[p] >= entered[x]
      /\ channel' = [channel EXCEPT ![x] =
                       [p \in Rank |-> IF p = x THEN @[p] ELSE Append(@[p], offer[x])]]
      /\ offer' = [offer EXCEPT ![x] = Nothing]
      /\ pending' = [pending EXCEPT ![x] = @ + 1]
      /\ batch' = [batch EXCEPT ![x] = @ + 1]
      /\ pc' = [pc EXCEPT ![x] = IF batch[x] + 1 = Splits[split[x]] THEN "end" ELSE "poll"]
      /\ UNCHANGED <<epoch, split, history, version, filter, entered>>
  BY DEF Push
<1>3. /\ batch[x] \in Nat /\ batch[x] + 1 <= Snapshots /\ entered[x] \in Nat
      /\ batch[x] + 1 <= Splits[split[x]] /\ First(x) \in Nat /\ First(x) <= batch[x]
      /\ batch[x] + 1 <= First(x) + WindowSize /\ Snapshots \in Nat
      /\ SplitStart(split[x]) \in Nat /\ offer[x] \in Packet
      /\ filter[x].count \in 0 .. MaxSkip /\ filter[x].historical \in Packet
      /\ filter[x].historical.version \in Nat /\ epoch[x] \in Nat
      /\ Splits[split[x]] \in Nat
  <2>1. /\ batch[x] \in Nat /\ entered[x] \in Nat /\ offer[x] \in Packet
        /\ filter[x].count \in 0 .. MaxSkip /\ filter[x].historical \in Packet
        /\ filter[x].historical.version \in Nat /\ epoch[x] \in Nat
        /\ Splits[split[x]] \in Nat
    BY <1>1, LocalTypes, SplitEnds
  <2>2. batch[x] + 1 <= Snapshots /\ batch[x] + 1 <= Splits[split[x]]
    BY <1>1, <1>2, BeforeEnd
  <2> QED
    BY <1>1, <2>1, <2>2, FirstRange, SnapshotsNat
<1>4. pending[x] = 0 /\ Seen(x) = batch[x]
  <2>1. pending[x] = 0
    BY <1>1, <1>2 DEF Sending, Between
  <2> QED
    BY <2>1, <1>3 DEF Seen
<1>5. /\ pc'[x] = IF batch[x] + 1 = Splits[split[x]] THEN "end" ELSE "poll"
      /\ batch'[x] = batch[x] + 1 /\ pending'[x] = 1 /\ offer'[x] = Nothing
      /\ epoch'[x] = epoch[x] /\ version'[x] = version[x] /\ split'[x] = split[x]
      /\ history'[x] = history[x] /\ filter'[x] = filter[x] /\ entered'[x] = entered[x]
  BY <1>1, <1>2, <1>4 DEF Types
<1>6. /\ \A p \in Others(x) : channel'[p] = channel[p]
      /\ \A r \in Others(x) : channel'[x][r] = Append(channel[x][r], offer[x])
      /\ channel'[x][x] = channel[x][x]
      /\ channel' \in [Rank -> [Rank -> Seq(Packet)]]
  <2> DEFINE a == [p \in Rank |-> IF p = x THEN channel[x][p]
                                  ELSE Append(channel[x][p], offer[x])]
  <2>1. channel' = [channel EXCEPT ![x] = a]
    BY <1>2
  <2>2. channel \in [Rank -> [Rank -> Seq(Packet)]]
    BY <1>1 DEF Types
  <2>3. ASSUME NEW p \in Rank
        PROVE  Append(channel[x][p], offer[x]) \in Seq(Packet) /\ channel[x][p] \in Seq(Packet)
    BY <1>3, <2>2
  <2>4. a \in [Rank -> Seq(Packet)]
    BY <2>3
  <2>5. \A r \in Others(x) : a[r] = Append(channel[x][r], offer[x])
    BY DEF Others
  <2>6. a[x] = channel[x][x]
    OBVIOUS
  <2> HIDE DEF a
  <2> QED
    BY <2>1, <2>2, <2>4, <2>5, <2>6 DEF Others
<1>7. Frame(x)
  <2>1. \A p \in Others(x) : p \in Rank /\ p # x
    BY DEF Others
  <2> QED
    BY <1>1, <1>2, <1>6, <2>1 DEF Frame, Types
<1>8. /\ Pushed(x)' = Pushed(x) + 1 /\ Pushed(x) = entered[x] - 1
      /\ Seen(x)' = Seen(x) /\ ~ Between(x) /\ Between(x)' /\ pc'[x] # "counts"
  BY <1>2, <1>3, <1>4, <1>5, SMTT(30) DEF Pushed, Seen, Between
<1>9. First(x)' \in Nat /\ First(x) <= First(x)'
  BY <1>3, <1>5 DEF First, Larger
<1>10. Types'
  <2>1. Nothing \in Packet
    BY DEF Nothing, Packet
  <2>2. offer' \in [Rank -> Packet]
    BY <1>1, <1>2, <2>1 DEF Types
  <2>3. batch' \in [Rank -> 0 .. Snapshots] /\ pending' \in [Rank -> Nat]
    <3>1. batch[x] + 1 \in 0 .. Snapshots /\ pending[x] + 1 \in Nat
      BY <1>3, <1>4
    <3>2. batch \in [Rank -> 0 .. Snapshots] /\ pending \in [Rank -> Nat]
      BY <1>1 DEF Types
    <3> QED
      BY <3>1, <3>2, <1>2
  <2> QED
    BY <1>1, <1>2, <1>6, <2>2, <2>3 DEF Types
<1>11. Local(x)'
  <2>1. Progress(x)'
    <3> DEFINE y == (epoch[x] - 1) * Snapshots
    <3>1. Pushed(x) = y + batch[x] /\ version[x] = batch[x] + 1
      BY <1>1, <1>2 DEF Progress
    <3>2. y \in Int
      BY <1>3
    <3> HIDE DEF y
    <3>3. Pushed(x)' = y + batch'[x]
      BY <3>1, <3>2, <1>3, <1>5, <1>8
    <3>4. Pushed(x)' = (epoch'[x] - 1) * Snapshots' + batch'[x]
      BY <3>3, <1>5 DEF y, Snapshots
    <3>5. SplitStart(split[x])' <= batch'[x]
      BY <1>1, <1>3, <1>5 DEF SplitStart
    <3>6. /\ pc'[x] \in {"end", "poll"}
          /\ IF pc'[x] = "end" THEN batch'[x] = Splits[split'[x]]
             ELSE batch'[x] < Splits[split'[x]]
      BY <1>3, <1>5
    <3> QED
      BY <3>1, <3>4, <3>5, <3>6, <1>5 DEF Progress
  <2>2. Sending(x)'
    BY <1>3, <1>5, <1>8 DEF Sending
  <2>3. ASSUME NEW p \in Rank
        PROVE  RowAt(x, history[x][p])' /\ (p # x => UpTo(history'[x][p], Seen(x)'))
    <3> DEFINE h == history[x][p]
    <3>1. /\ RowOK(h) /\ Marked(h, epoch[x]) /\ h.window_start = First(x)
          /\ p # x => UpTo(h, Seen(x))
      BY <1>1, <1>8 DEF Rows, RowAt, Others
    <3>2. history'[x][p] = h
      BY <1>5
    <3> HIDE DEF h
    <3>3. /\ batch'[x] <= h.window_start + WindowSize
          /\ h.window_start <= First(x)' /\ h.window_start <= Seen(x)'
      BY <3>1, <1>3, <1>4, <1>5, <1>8, <1>9
    <3> QED
      BY <3>1, <3>2, <3>3, <1>5, <1>8 DEF RowAt
  <2>4. Rows(x)'
    BY <2>3, <1>5 DEF Rows, Others
  <2>5. Filters(x)'
    <3>1. /\ filter[x].count + filter[x].historical.version = batch[x] + 1
          /\ filter[x].historical.version = 0 => filter[x].historical = Zero
      BY <1>1, <1>2 DEF Filters
    <3>2. /\ filter'[x] = filter[x] /\ batch'[x] = batch[x] + 1 /\ pc'[x] # "counts"
          /\ offer'[x] = Nothing
      BY <1>5, <1>8
    <3>3. filter[x].historical.version <= batch[x] + 1
      BY <3>1, <1>3
    <3> QED
      BY ONLY <3>1, <3>2, <3>3 DEF Filters
  <2> QED
    BY <2>1, <2>2, <2>4, <2>5 DEF Local
<1>12. ASSUME NEW r \in Others(x)
       PROVE  Pair(r, x)'
  <2>1. Pair(r, x) /\ r \in Rank
    BY DEF Inv, Others
  <2>2. /\ Pushed(r)' = Pushed(r) /\ epoch'[r] = epoch[r] /\ offer'[r] = offer[r]
        /\ filter'[r] = filter[r] /\ Pushed(r) \in Int /\ Pushed(x) \in Int
    BY <1>1, <1>7, <2>1, FrameLocal, LocalTypes DEF Frame
  <2>3. channel'[r][x] = channel[r][x] /\ history'[x][r] = history[x][r]
    BY <1>5, <1>6
  <2>4. Len(channel'[r][x]) = Pushed(r)' - Pushed(x)' + pending'[x]
    <3>1. Len(channel[r][x]) = Pushed(r) - Pushed(x) + pending[x]
      BY <2>1 DEF Pair
    <3> QED
      BY <3>1, <2>2, <2>3, <1>4, <1>5, <1>8
  <2>5. batch'[x] # 0
    BY <1>3, <1>5
  <2> QED
    BY <2>1, <2>2, <2>3, <2>4, <2>5, <1>5, <1>8 DEF Pair
<1>13. ASSUME NEW r \in Others(x)
       PROVE  Pair(x, r)'
  <2> DEFINE c == channel[x][r]
             h == history[r][x]
             o == offer[x]
             last == filter[x].historical
             seen == Seen(r)
             mark == epoch[r]
             d == Append(c, o)
  <2>1. Pair(x, r) /\ r \in Rank /\ Progress(r) /\ Sending(r)
    BY DEF Inv, Local, Others
  <2>2. /\ c \in Seq(Packet) /\ Len(c) \in Nat /\ pending[r] \in Nat /\ batch[r] \in Nat
        /\ Pushed(r) \in Int /\ Pushed(x) \in Int
    BY <1>1, <2>1, LocalTypes
  <2>3. epoch[r] = epoch[x] /\ seen + Len(c) = batch[x]
    BY <1>2, Matched
  <2>4. seen \in Nat
    <3>1. pending[r] <= batch[r]
      BY <2>1 DEF Sending
    <3> QED
      BY <3>1, <2>2 DEF Seen
  <2>5. /\ o # Nothing => o.version = batch[x] + 1 /\ o.mark = mark /\ last = o
        /\ o = Nothing => Latest(c, h, last)
    BY <1>1, <2>1, <2>3 DEF Sending, Filters, Pair
  <2>6. seen + Len(c) + 1 - last.version <= MaxSkip
    <3>1. filter[x].count + last.version = batch[x] + 1
      BY <1>1, <1>2 DEF Filters
    <3>2. last.version \in Nat /\ filter[x].count \in 0 .. MaxSkip
      BY <1>3
    <3> DEFINE m == seen + Len(c) + 1
    <3>3. m = batch[x] + 1
      BY <2>3
    <3> HIDE DEF last, m
    <3>4. m - last.version <= MaxSkip
      BY <3>1, <3>2, <3>3, <1>3
    <3>5. Len(c) \in Nat /\ seen \in Nat /\ last.version \in Nat
      BY <2>2, <2>4, <3>2
    <3> HIDE DEF c, seen
    <3> QED
      BY <3>4, <3>5 DEF m
  <2>7. /\ Len(c) = Pushed(x) - Pushed(r) + pending[r]
        /\ Sent(c, seen, mark) /\ Timely(c, h, seen)
        /\ batch[r] = 0 => Newest(h) = Zero
    BY <2>1 DEF Pair
  <2>8. o \in Packet /\ last \in Packet /\ h = h
    BY <1>3
  <2>9. /\ Pushed(r)' = Pushed(r) /\ seen' = seen /\ mark' = mark
        /\ batch'[r] = batch[r] /\ pending'[r] = pending[r] /\ h' = h
        /\ last' = last /\ channel'[x][r] = d
    BY <1>5, <1>6, <1>7, FrameLocal DEF Frame
  <2> HIDE DEF h, o, last, seen, mark, c
  <2>10. o # Nothing => o.version = seen + Len(c) + 1
    BY <2>3, <2>5
  <2>11. /\ Len(d) = Len(c) + 1
         /\ Sent(d, seen, mark) /\ Timely(d, h, seen) /\ Latest(d, h, last)
    <3>1. /\ o # Nothing => /\ o.version = seen + Len(c) + 1
                            /\ o.mark = mark /\ last = o
          /\ o = Nothing => Latest(c, h, last)
      BY <2>5, <2>10
    <3>2. Sent(c, seen, mark) /\ Timely(c, h, seen)
      BY <2>7
    <3> QED
      BY <2>2, <2>4, <2>6, <2>8, <3>1, <3>2, SendOne, SMTT(30)
  <2> HIDE DEF d
  <2>12. Len(d) = Pushed(x)' - Pushed(r)' + pending'[r]
    BY <2>2, <2>7, <2>9, <2>11, <1>8
  <2> QED
    BY <2>7, <2>9, <2>11, <2>12 DEF Pair, h, last, seen, mark
<1>14. /\ \A r \in Others(x) : Pushed(x)' <= entered'[r] /\ Pushed(r) <= entered'[x]
       /\ Pushed(x)' <= entered'[x]
  <2>1. \A r \in Others(x) : r \in Rank /\ entered[r] >= entered[x] /\ entered[r] \in Nat
    BY <1>1, <1>2, LocalTypes DEF Others
  <2>2. \A r \in Rank : Pushed(r) <= entered[x]
    BY <1>1 DEF Handshake
  <2> QED
    BY <2>1, <2>2, <1>2, <1>3, <1>8
<1> QED
  BY <1>7, <1>10, <1>11, <1>12, <1>13, <1>14, InvKept

-----------------------------------------------------------------------------
(* Starting, and starting over.                                            *)

(* reset: the pushes still in flight are of the epoch that ends, and every *)
(* rank that is in the next one starts as empty.                           *)
LEMMA ResetKeeps ==
    ASSUME Inv, NEW x \in Rank, Reset(x)
    PROVE  Inv'
<1> DEFINE n == pending[x]
<1>1. /\ Types /\ Progress(x) /\ Sending(x) /\ Handshake
  BY DEF Inv, Local
<1>2. /\ pc[x] = "reset" /\ Arrived(x, n) /\ Consume(x, n)
      /\ pending' = [pending EXCEPT ![x] = @ - n]
      /\ history' = [history EXCEPT ![x] = [p \in Rank |-> Fresh]]
      /\ filter' = [filter EXCEPT ![x] = ClearFilter]
      /\ version' = [version EXCEPT ![x] = 0]
      /\ epoch' = [epoch EXCEPT ![x] = @ + 1]
      /\ batch' = [batch EXCEPT ![x] = 0]
      /\ split' = [split EXCEPT ![x] = 1]
      /\ pc' = [pc EXCEPT ![x] = "poll"]
      /\ UNCHANGED <<entered, offer>>
  BY DEF Reset, AllPushes, Cleared
<1>3. /\ n \in {0, 1} /\ n \in 0 .. pending[x] /\ pending[x] \in Nat
      /\ batch[x] = Snapshots /\ Snapshots \in Nat \ {0} /\ epoch[x] \in Nat \ {0}
      /\ epoch[x] < Epochs /\ offer[x] = Nothing /\ entered[x] \in Nat
  <2>1. /\ pending[x] \in Nat /\ Snapshots \in Nat \ {0} /\ epoch[x] \in Nat \ {0}
        /\ entered[x] \in Nat
    BY <1>1, LocalTypes, SnapshotsNat
  <2>2. pending[x] <= 1 /\ offer[x] = Nothing
    BY <1>1, <1>2 DEF Sending
  <2>3. batch[x] = Splits[split[x]] /\ split[x] = Len(Splits) /\ epoch[x] < Epochs
    BY <1>1, <1>2, Zenon DEF Progress
  <2> QED
    BY <2>1, <2>2, <2>3 DEF Snapshots
<1>4. /\ channel' \in [Rank -> [Rank -> Seq(Packet)]]
      /\ channel'[x] = channel[x]
      /\ \A p, r \in Others(x) : channel'[p][r] = channel[p][r]
      /\ \A p \in Others(x) : Len(channel'[p][x]) = Len(channel[p][x]) - n
  BY <1>1, <1>2, <1>3, ConsumeIs
<1>5. /\ pc'[x] = "poll" /\ split'[x] = 1 /\ pending'[x] = 0
      /\ epoch'[x] = epoch[x] + 1 /\ batch'[x] = 0 /\ version'[x] = 0
      /\ filter'[x] = ClearFilter /\ entered'[x] = entered[x] /\ offer'[x] = offer[x]
      /\ \A p \in Rank : history'[x][p] = Fresh
  BY <1>1, <1>2, <1>3 DEF Types
<1>6. Frame(x)
  BY <1>1, <1>2, <1>4 DEF Frame, Types, Others
<1>7. /\ Pushed(x)' = Pushed(x) /\ Pushed(x) = entered[x] /\ Between(x)'
      /\ pc'[x] # "counts" /\ Seen(x)' = 0
  BY <1>2, <1>3, <1>5 DEF Pushed, Between, Seen
<1>8. /\ ClearFilter.count = 0 /\ ClearFilter.historical = Zero /\ Zero.version = 0
      /\ ClearFilter \in [count : 0 .. MaxSkip, historical : Packet]
  BY DEF ClearFilter, Zero, Packet
<1>9. /\ RowOK(Fresh) /\ Fresh.window_start = 0 /\ Fresh \in History
      /\ \A mark : Marked(Fresh, mark)
      /\ \A v \in Nat : UpTo(Fresh, v) /\ Read(Fresh, v) = Zero
      /\ Newest(Fresh) = Zero
  <2>1. /\ RowOK(Fresh) /\ Fresh.window_start = 0
        /\ \A mark : Marked(Fresh, mark)
        /\ \A v \in Nat : UpTo(Fresh, v) /\ Read(Fresh, v) = Zero
    BY FreshRow
  <2> QED
    BY <2>1, <1>3 DEF Newest, RowOK
<1>10. First(x)' = 0
  <2>1. SplitStart(split[x])' = 0
    BY <1>5 DEF SplitStart
  <2> QED
    BY <2>1, <1>5 DEF First, Larger
<1>11. Types'
  <2>1. epoch[x] + 1 \in 1 .. Epochs
    BY <1>3, EpochsAssumption
  <2>2. epoch' \in [Rank -> 1 .. Epochs]
    BY <1>1, <1>2, <2>1 DEF Types
  <2>3. /\ batch' \in [Rank -> 0 .. Snapshots] /\ version' \in [Rank -> 0 .. Snapshots]
        /\ pending' \in [Rank -> Nat]
    <3>1. 0 \in 0 .. Snapshots /\ pending[x] - n \in Nat
      BY <1>3
    <3> QED
      BY <1>1, <1>2, <3>1 DEF Types
  <2>4. 1 \in 1 .. Len(Splits)
    BY SplitEnds
  <2>5. split' \in [Rank -> 1 .. Len(Splits)]
    BY <1>1, <1>2, <2>4 DEF Types
  <2>6. history' \in [Rank -> [Rank -> History]]
    BY <1>1, <1>2, <1>9 DEF Types
  <2>7. filter' \in [Rank -> [count : 0 .. MaxSkip, historical : Packet]]
    BY <1>1, <1>2, <1>8 DEF Types
  <2> QED
    BY <1>1, <1>2, <1>4, <2>2, <2>3, <2>5, <2>6, <2>7 DEF Types
<1>12. Local(x)'
  <2>1. Progress(x)'
    <3>1. Pushed(x) = (epoch[x] - 1) * Snapshots + Snapshots
      BY <1>1, <1>3 DEF Progress
    <3>2. /\ (epoch[x] - 1) * Snapshots + Snapshots = epoch[x] * Snapshots
          /\ epoch'[x] - 1 = epoch[x] /\ epoch[x] * Snapshots \in Int
      <4>1. epoch[x] \in Int /\ Snapshots \in Int
        BY <1>3
      <4>2. epoch'[x] = epoch[x] + 1
        BY <1>5
      <4>3. (epoch[x] - 1) * Snapshots + Snapshots = epoch[x] * Snapshots /\ epoch[x] * Snapshots \in Int
        BY ONLY <4>1, OneMoreTime, Zenon
      <4>4. epoch'[x] - 1 = epoch[x]
        BY ONLY <4>1, <4>2
      <4> QED
        BY ONLY <4>3, <4>4, Zenon
    <3> DEFINE y == epoch[x] * Snapshots
    <3> HIDE DEF y
    <3>3. Pushed(x)' = y + batch'[x]
      BY <3>1, <3>2, <1>5, <1>7 DEF y
    <3>4. y = (epoch'[x] - 1) * Snapshots
      BY <3>2 DEF y
    <3>5. Pushed(x)' = (epoch'[x] - 1) * Snapshots' + batch'[x]
      BY <3>3, <3>4 DEF Snapshots
    <3>6. /\ SplitStart(split[x])' <= batch'[x] /\ batch'[x] < Splits[split'[x]]
      BY <1>5, SplitEnds DEF SplitStart
    <3> QED
      BY <3>5, <3>6, <1>5 DEF Progress
  <2>2. Sending(x)'
    BY <1>3, <1>5, <1>7 DEF Sending
  <2>3. ASSUME NEW p \in Rank
        PROVE  RowAt(x, history[x][p])' /\ UpTo(history'[x][p], Seen(x)')
    BY <1>5, <1>7, <1>9, <1>10 DEF RowAt
  <2>4. Rows(x)'
    BY <2>3, <1>5 DEF Rows, Others
  <2>5. Filters(x)'
    BY <1>3, <1>5, <1>8 DEF Filters
  <2> QED
    BY <2>1, <2>2, <2>4, <2>5 DEF Local
<1> HIDE DEF n
<1>13. ASSUME NEW r \in Others(x)
       PROVE  Pair(r, x)' /\ Pair(x, r)'
  <2>1. /\ Pair(r, x) /\ Pair(x, r) /\ r \in Rank /\ r # x
        /\ Progress(r) /\ Sending(r) /\ Filters(r)
    BY DEF Inv, Local, Others
  <2>2. /\ Pushed(r) \in Int /\ Pushed(x) \in Int /\ batch[r] \in 0 .. Snapshots
        /\ epoch[r] \in Nat \ {0} /\ pending[r] \in Nat
        /\ Len(channel[r][x]) \in Nat /\ Len(channel[x][r]) \in Nat
        /\ filter[r].count \in 0 .. MaxSkip /\ filter[r].historical.version \in Nat
    BY <1>1, <2>1, LocalTypes
  <2>3. /\ Pushed(r)' = Pushed(r) /\ Seen(r)' = Seen(r) /\ epoch'[r] = epoch[r]
        /\ batch'[r] = batch[r] /\ pending'[r] = pending[r] /\ history'[r] = history[r]
        /\ offer'[r] = offer[r] /\ filter'[r] = filter[r]
    BY <1>6, FrameLocal DEF Frame
  <2>4. Pushed(r) <= Pushed(x)
    BY <1>1, <1>7, <2>1 DEF Handshake
  <2>5. /\ Len(channel[r][x]) = Pushed(r) - Pushed(x) + pending[x]
        /\ Len(channel[x][r]) = Pushed(x) - Pushed(r) + pending[r]
    BY <2>1 DEF Pair
  <2> DEFINE e == epoch[x] - 1
             f == epoch[r] - 1
             S == Snapshots
  <2>6. Pushed(x) = e * S + S /\ Pushed(r) = f * S + batch[r]
    BY <1>1, <1>3, <2>1 DEF Progress
  <2>7. e \in Nat /\ f \in Nat /\ S \in Nat \ {0} /\ S \in 0 .. S /\ batch[r] \in 0 .. S
    <3>1. e \in Nat /\ f \in Nat
      <4>1. epoch[x] \in Nat \ {0} /\ epoch[r] \in Nat \ {0}
        BY <1>3, <2>2
      <4> QED
        BY <4>1
    <3>2. S \in Nat \ {0} /\ batch[r] \in 0 .. S
      BY <1>3, <2>2
    <3> HIDE DEF S
    <3>3. S \in 0 .. S
      BY <3>2
    <3> QED
      BY <3>1, <3>2, <3>3
  <2> HIDE DEF e, f, S
  <2>8. Pair(r, x)'
    <3> DEFINE d == channel'[r][x]
               h == history'[x][r]
    <3>1. d \in Seq(Packet) /\ Len(d) = Pushed(r) - Pushed(x)
      <4> DEFINE m == Len(d)
                 l == Len(channel[r][x])
      <4>1. m = l - n /\ l = Pushed(r) - Pushed(x) + pending[x] /\ l \in Nat
        BY <1>4, <2>2, <2>5
      <4> HIDE DEF m, l
      <4>2. m = Pushed(r) - Pushed(x)
        BY <4>1, <2>2, <1>3 DEF n
      <4>3. d \in Seq(Packet)
        BY <1>4, <2>1
      <4> QED
        BY <4>2, <4>3 DEF m
    <3>2. h = Fresh
      BY <1>5, <2>1
    <3> HIDE DEF d, h
    <3>3. Len(d) \in Nat
      BY <3>1
    <3>4. Len(d) = 0 /\ Pushed(r) = Pushed(x)
      BY <3>1, <3>3, <2>2, <2>4
    <3>5. Sent(d, Seen(x)', epoch'[x])
      BY <3>4 DEF Sent
    <3>6. Timely(d, h, Seen(x)')
      <4>1. \A s \in h.window_start .. Seen(x)' : s = 0 /\ Read(h, s).version = 0
        BY <3>2, <1>7, <1>8, <1>9
      <4> QED
        BY <4>1, <3>4 DEF Timely
    <3>7. Newest(h) = Zero
      BY <3>2, <1>9
    <3>8. ASSUME epoch[r] = epoch[x] + 1, offer[r] = Nothing
          PROVE  Latest(d, h, filter[r].historical)
      <4>1. f * S + batch[r] = e * S + S
        BY <2>6, <3>4
      <4>2. f = e + 1
        BY <3>8, <1>3, <2>2 DEF e, f
      <4>3. batch[r] = 0
        <5>1. \/ f = e /\ batch[r] = S
              \/ f = e + 1 /\ batch[r] = 0 /\ S = S
              \/ e = f + 1 /\ S = 0 /\ batch[r] = S
          BY <4>1, <2>7, Position
        <5> QED
          BY <5>1, <4>2, <2>7
      <4>4. filter[r].historical.version = 0
        BY <2>1, <2>2, <3>8, <4>3 DEF Filters
      <4>5. filter[r].historical = Zero
        BY <2>1, <4>4 DEF Filters
      <4> QED
        BY <3>4, <3>7, <4>5 DEF Latest
    <3>9. Len(d) = Pushed(r)' - Pushed(x)' + pending'[x]
      BY <3>4, <2>2, <2>3, <1>5, <1>7
    <3> QED
      BY <3>5, <3>6, <3>7, <3>8, <3>9, <1>5, <2>3 DEF Pair, d, h
  <2>9. Pair(x, r)'
    <3> DEFINE c == channel[x][r]
               h == history[r][x]
    <3>1. /\ Sent(c, Seen(r), epoch[r]) /\ Timely(c, h, Seen(r))
          /\ batch[r] = 0 => Newest(h) = Zero
      BY <2>1 DEF Pair
    <3>2. channel'[x][r] = c /\ history'[r][x] = h
      BY <1>4, <2>3
    <3>3. ASSUME epoch'[x] = epoch'[r]
          PROVE  Latest(c, h, filter'[x].historical)
      <4>1. f = e + 1
        <5>1. epoch[r] = epoch[x] + 1
          BY <3>3, <1>5, <2>3
        <5> QED
          BY <5>1, <1>3 DEF e, f
      <4>2. Pushed(r) = Pushed(x) + batch[r]
        <5>1. f * S = e * S + S
          BY <4>1, <2>7
        <5>2. e * S \in Int /\ f * S \in Int
          BY <2>7
        <5> QED
          BY <5>1, <5>2, <2>6, <2>7
      <4>3. batch[r] = 0 /\ Pushed(r) = Pushed(x)
        BY <4>2, <2>2, <2>4, <1>3
      <4>4. pending[r] = 0
        BY <4>3, <2>1, <2>2 DEF Sending
      <4>5. Len(c) = 0
        BY <4>3, <4>4, <2>2, <2>5
      <4>6. filter'[x].historical = Zero /\ Newest(h) = Zero
        BY <4>3, <3>1, <1>5, <1>8
      <4> HIDE DEF c, h
      <4> QED
        BY <4>5, <4>6 DEF Latest
    <3>4. Len(c) = Pushed(x)' - Pushed(r)' + pending'[r]
      BY <2>3, <2>5, <1>7
    <3> HIDE DEF c, h
    <3> QED
      BY <3>1, <3>2, <3>3, <3>4, <2>3 DEF Pair
  <2> QED
    BY <2>8, <2>9
<1> QED
  BY <1>5, <1>6, <1>7, <1>11, <1>12, <1>13, HandshakeKept, InvKept

(* __init__: every row, filter and window starts empty.                    *)
LEMMA InitInv == Init => Inv
<1> SUFFICES ASSUME Init PROVE Inv
  OBVIOUS
<1>1. /\ RowOK(Fresh) /\ Fresh.window_start = 0 /\ Fresh \in History
      /\ \A mark : Marked(Fresh, mark)
      /\ \A v \in Nat : UpTo(Fresh, v) /\ Read(Fresh, v) = Zero
      /\ Newest(Fresh) = Zero
  BY FreshRow, SnapshotsNat DEF Newest, RowOK
<1>2. /\ ClearFilter.count = 0 /\ ClearFilter.historical = Zero /\ Zero.version = 0
      /\ ClearFilter \in [count : 0 .. MaxSkip, historical : Packet]
      /\ Nothing \in Packet
  BY DEF ClearFilter, Zero, Packet, Nothing
<1>3. /\ 0 \in 0 .. Snapshots /\ 1 \in 1 .. Len(Splits) /\ 1 \in 1 .. Epochs
      /\ Splits[1] \in Nat \ {0} /\ SplitStart(1) = 0 /\ Snapshots \in Nat
      /\ <<>> \in Seq(Packet) /\ Len(<<>>) = 0
  BY SplitEnds, SnapshotsNat, EpochsAssumption
<1>4. Types
  BY <1>1, <1>2, <1>3 DEF Init, Types
<1>5. ASSUME NEW r \in Rank
      PROVE  /\ pc[r] = "poll" /\ epoch[r] = 1 /\ batch[r] = 0 /\ split[r] = 1
             /\ version[r] = 0 /\ filter[r] = ClearFilter /\ entered[r] = 0
             /\ offer[r] = Nothing /\ pending[r] = 0
             /\ \A p \in Rank : history[r][p] = Fresh /\ channel[p][r] = <<>>
             /\ Pushed(r) = 0 /\ Seen(r) = 0 /\ Between(r) /\ First(r) = 0
  <2>1. /\ pc[r] = "poll" /\ epoch[r] = 1 /\ batch[r] = 0 /\ split[r] = 1
        /\ version[r] = 0 /\ filter[r] = ClearFilter /\ entered[r] = 0
        /\ offer[r] = Nothing /\ pending[r] = 0
        /\ \A p \in Rank : history[r][p] = Fresh /\ channel[p][r] = <<>>
    BY DEF Init
  <2> QED
    BY <2>1, <1>3 DEF Pushed, Seen, Between, First, Larger
<1>6. ASSUME NEW r \in Rank
      PROVE  Local(r)
  <2>1. Progress(r)
    BY <1>3, <1>5 DEF Progress
  <2>2. Sending(r)
    BY <1>5 DEF Sending
  <2>3. Rows(r)
    BY <1>1, <1>5 DEF Rows, RowAt, Others
  <2>4. Filters(r)
    BY <1>2, <1>5 DEF Filters
  <2> QED
    BY <2>1, <2>2, <2>3, <2>4 DEF Local
<1>7. ASSUME NEW r \in Rank, NEW p \in Others(r)
      PROVE  Pair(p, r)
  <2>1. p \in Rank /\ channel[p][r] = <<>> /\ history[r][p] = Fresh
    BY <1>5 DEF Others
  <2>2. Sent(<<>>, 0, 1) /\ Timely(<<>>, Fresh, 0) /\ Latest(<<>>, Fresh, Zero)
    <3>1. \A s \in Fresh.window_start .. 0 : s = 0 /\ Read(Fresh, s).version = 0
      BY <1>1, <1>2
    <3> QED
      BY <3>1, <1>1, <1>3 DEF Sent, Timely, Latest
  <2>3. Pushed(p) = 0 /\ Seen(r) = 0 /\ Pushed(r) = 0 /\ pending[r] = 0 /\ epoch[r] = 1
        /\ filter[p].historical = Zero
    BY <1>2, <1>5, <2>1
  <2> QED
    BY <2>1, <2>2, <2>3, <1>1, <1>3 DEF Pair
<1>8. Handshake
  BY <1>5 DEF Handshake
<1> QED
  BY <1>4, <1>6, <1>7, <1>8 DEF Inv

(* run_epoch on every rank, from its start.                                *)
THEOREM Invariance == Spec => []Inv
<1>1. Inv /\ [Next]_vars => Inv'
  <2> SUFFICES ASSUME Inv, [Next]_vars PROVE Inv'
    OBVIOUS
  <2>1. ASSUME NEW x \in Rank, Step(x)
        PROVE  Inv'
    BY <2>1, PollKeeps, HydrateKeeps, CommitKeeps, LaunchKeeps, PushKeeps, EndKeeps,
       ResetKeeps DEF Step
  <2>2. CASE UNCHANGED vars
    BY <2>2 DEF vars, Inv, Types, Handshake, Local, Progress, Sending, Rows, RowAt,
       Filters, Pair, Pushed, Seen, Between, First, Newest
  <2> QED
    BY <2>1, <2>2 DEF Next, Finished
<1> QED
  BY <1>1, InitInv, PTL DEF Spec

-----------------------------------------------------------------------------
(* What the invariant says of the runs.                                    *)

(* No check of hydrate, advance or update raises, in any split or epoch.   *)
THEOREM NothingRaisesHolds == Spec => []NothingRaises
<1>1. Inv => NothingRaises
  <2> SUFFICES ASSUME Inv, NEW r \in Rank
               PROVE  /\ pc[r] = "hydrate" =>
                            /\ batch[r] = version[r]
                            /\ \A p \in Rank : history[r][p].window_start <= First(r)
                      /\ pc[r] \in {"encode", "commit"} =>
                            \A v \in Uncommitted(r) : Active(history[r][r], v)
    BY DEF NothingRaises
  <2>1. Types /\ Progress(r) /\ \A p \in Rank : RowAt(r, history[r][p])
    BY DEF Inv, Local, Rows
  <2>2. ASSUME pc[r] = "hydrate"
        PROVE  /\ batch[r] = version[r]
               /\ \A p \in Rank : history[r][p].window_start <= First(r)
    BY <2>1, <2>2 DEF Progress, RowAt, Between
  <2>3. ASSUME pc[r] \in {"encode", "commit"}, NEW v \in Uncommitted(r)
        PROVE  Active(history[r][r], v)
    <3>1. history[r][r].window_start = First(r)
      BY <2>1, <2>3 DEF RowAt, Between
    <3>2. pc[r] = "commit" => First(r) < version[r]
      BY <2>1, Zenon DEF Progress
    <3>3. /\ batch[r] \in Nat /\ First(r) \in Nat /\ version[r] \in Nat
          /\ batch[r] + 1 <= First(r) + WindowSize
      <4>1. SplitStart(split[r]) <= batch[r]
        BY <2>1 DEF Progress
      <4> QED
        BY <2>1, <4>1, LocalTypes, FirstRange
    <3>4. v \in Int /\ First(r) < v /\ v <= batch[r] + 1
      BY <2>3, <3>2, <3>3 DEF Uncommitted
    <3> QED
      BY <3>1, <3>3, <3>4 DEF Active
  <2> QED
    BY <2>2, <2>3
<1> QED
  BY <1>1, Invariance, PTL

(* The K bound: a rank never reads a row of another more than MaxSkip      *)
(* versions behind the snapshot it reads it for.                           *)
THEOREM AgeBoundHolds == Spec => []AgeBound
<1>1. Inv => AgeBound
  <2> SUFFICES ASSUME Inv, NEW r \in Rank, pc[r] = "encode", NEW p \in Others(r),
                      NEW s \in First(r) .. batch[r]
               PROVE  s - Read(history[r][p], s).version <= MaxSkip
    BY DEF AgeBound
  <2>1. Types /\ Sending(r) /\ RowAt(r, history[r][p]) /\ Pair(p, r)
    BY DEF Inv, Local, Rows, Others
  <2>2. history[r][p].window_start = First(r)
    BY <2>1 DEF RowAt, Between
  <2>3. Seen(r) = batch[r]
    <3>1. pending[r] = 0
      BY <2>1 DEF Sending, Between
    <3> QED
      BY <2>1, <3>1, LocalTypes DEF Seen
  <2>4. Timely(channel[p][r], history[r][p], Seen(r))
    BY <2>1 DEF Pair
  <2> QED
    BY <2>2, <2>3, <2>4 DEF Timely
<1> QED
  BY <1>1, Invariance, PTL

(* A rank that starts a batch has received what the others published last. *)
LEMMA Current == Inv => SubscriberCurrent
<1> SUFFICES ASSUME Inv, NEW r \in Rank, pc[r] = "encode", NEW p \in Others(r),
                    filter[p].historical.version <= batch[r]
             PROVE  Read(history[r][p], batch[r]) = filter[p].historical
  BY DEF SubscriberCurrent
<1> DEFINE h == history[r][p]
           c == channel[p][r]
           e == epoch[p] - 1
           f == epoch[r] - 1
           S == Snapshots
<1>1. /\ Types /\ Handshake /\ p \in Rank
      /\ Progress(r) /\ Sending(r) /\ Progress(p) /\ Sending(p) /\ Filters(p)
      /\ RowAt(r, h) /\ UpTo(h, Seen(r)) /\ Pair(p, r)
  BY DEF Inv, Local, Rows, Others
<1>2. /\ batch[r] \in Nat /\ batch[r] \in 0 .. S /\ batch[p] \in 0 .. S
      /\ e \in Nat /\ f \in Nat /\ S \in Nat \ {0} /\ Len(c) \in Nat
      /\ Pushed(p) \in Int /\ Pushed(r) \in Int /\ batch[r] < S
      /\ filter[p].historical.version \in Nat
      /\ epoch[p] \in Nat /\ epoch[r] \in Nat
  <2>1. /\ batch[r] \in Nat /\ batch[r] \in 0 .. S /\ batch[p] \in 0 .. S
        /\ epoch[p] \in Nat \ {0} /\ epoch[r] \in Nat \ {0} /\ Len(c) \in Nat
        /\ Pushed(p) \in Int /\ Pushed(r) \in Int
        /\ filter[p].historical.version \in Nat
    BY <1>1, LocalTypes
  <2>2. S \in Nat \ {0} /\ batch[r] < S
    BY <1>1, BeforeEnd, SnapshotsNat
  <2>3. e \in Nat /\ f \in Nat
    BY <2>1
  <2> HIDE DEF e, f, S, c
  <2> QED
    BY <2>1, <2>2, <2>3
<1>3. Seen(r) = batch[r] /\ pending[r] = 0
  <2>1. pending[r] = 0
    BY <1>1 DEF Sending, Between
  <2> QED
    BY <2>1, <1>2 DEF Seen
<1>4. Read(h, batch[r]) = Newest(h)
  <2>1. h.window_start = First(r) /\ RowOK(h)
    BY <1>1 DEF RowAt, Between
  <2>2. First(r) \in Nat /\ First(r) <= batch[r] /\ batch[r] <= Snapshots
    <3>1. SplitStart(split[r]) <= batch[r]
      BY <1>1 DEF Progress
    <3> QED
      BY <1>1, <1>2, <3>1, FirstRange, LocalTypes, SMTT(30)
  <2>3. UpTo(h, batch[r])
    BY <1>1, <1>3
  <2> HIDE DEF h
  <2> QED
    BY <1>2, <2>1, <2>2, <2>3, NewestIs
<1>5. Len(c) = 0 /\ Pushed(p) = Pushed(r)
  <2> DEFINE m == Len(c)
  <2>1. m \in Nat /\ m = Pushed(p) - Pushed(r) + pending[r]
    BY <1>1, <1>2 DEF Pair
  <2>2. Pushed(p) <= Pushed(r)
    BY <1>1 DEF Handshake, Pushed
  <2> HIDE DEF m
  <2>3. m = 0 /\ Pushed(p) = Pushed(r)
    BY <2>1, <2>2, <1>2, <1>3
  <2> QED
    BY <2>3 DEF m
<1>6. Pushed(p) = e * S + batch[p] /\ Pushed(r) = f * S + batch[r]
  BY <1>1 DEF Progress
<1>7. /\ batch[r] = 0 => Newest(h) = Zero
      /\ epoch[p] = epoch[r] /\ offer[p] = Nothing => filter[p].historical = Newest(h)
  <2>1. /\ batch[r] = 0 => Newest(h) = Zero
        /\ epoch[p] = epoch[r] /\ offer[p] = Nothing => Latest(c, h, filter[p].historical)
    BY <1>1 DEF Pair
  <2> HIDE DEF c, h
  <2> QED
    BY <2>1, <1>5 DEF Latest
<1>8. CASE epoch[p] = epoch[r] /\ batch[p] = batch[r]
  <2>1. offer[p] = Nothing
    <3> SUFFICES ASSUME offer[p] # Nothing PROVE FALSE
      OBVIOUS
    <3>1. filter[p].historical = offer[p] /\ offer[p].version = batch[p] + 1
      BY <1>1 DEF Filters, Sending
    <3> QED
      BY <3>1, <1>2, <1>8
  <2> QED
    BY <2>1, <1>4, <1>7, <1>8
<1>9. CASE batch[r] = 0
  <2>1. filter[p].historical.version = 0
    BY <1>2, <1>9
  <2>2. filter[p].historical = Zero
    BY <1>1, <2>1 DEF Filters
  <2> QED
    BY <2>2, <1>4, <1>7, <1>9
<1>10. (epoch[p] = epoch[r] /\ batch[p] = batch[r]) \/ batch[r] = 0
  <2>1. e * S + batch[p] = f * S + batch[r]
    BY <1>5, <1>6
  <2>2. e = f => epoch[p] = epoch[r]
    BY <1>2
  <2> HIDE DEF e, f, S
  <2>3. \/ e = f /\ batch[p] = batch[r]
        \/ e = f + 1 /\ batch[p] = 0 /\ batch[r] = S
        \/ f = e + 1 /\ batch[r] = 0 /\ batch[p] = S
    <3> DEFINE b == batch[p]
               d == batch[r]
    <3>1. /\ e \in Nat /\ f \in Nat /\ S \in Nat \ {0}
          /\ b \in 0 .. S /\ d \in 0 .. S
      BY <1>2
    <3>2. e * S + b = f * S + d
      BY <2>1
    <3> HIDE DEF b, d
    <3>3. \/ e = f /\ b = d
          \/ e = f + 1 /\ b = 0 /\ d = S
          \/ f = e + 1 /\ d = 0 /\ b = S
      BY <3>1, <3>2, Position
    <3> QED
      BY <3>3 DEF b, d
  <2> QED
    BY <2>2, <2>3, <1>2
<1> QED
  BY <1>8, <1>9, <1>10

(* What an owner publishes reaches its subscribers before they read again, *)
(* in its own epoch; every value keeps its type, and no push waits for     *)
(* another.                                                                *)
THEOREM PublicationsArriveHolds == Spec => []PublicationsArrive
<1>1. Inv => TypeOK
  <2> SUFFICES ASSUME Inv PROVE TypeOK
    OBVIOUS
  <2>1. Types
    BY DEF Inv
  <2>2. ASSUME NEW p \in Rank, NEW r \in Rank, NEW i \in 1 .. Len(channel[p][r])
        PROVE  channel[p][r][i] \in Packet
    <3>1. channel[p][r] \in Seq(Packet)
      BY <2>1 DEF Types
    <3> QED
      BY <3>1
  <2> QED
    BY <2>1, <2>2 DEF Types, TypeOK
<1>2. Inv => NoOldEpoch
  BY DEF Inv, Local, Rows, RowAt, Marked, NoOldEpoch
<1>3. Inv => OneInFlight
  BY DEF Inv, Local, Sending, Between, OneInFlight
<1>4. Inv => PublicationsArrive
  BY <1>1, <1>2, <1>3, Current DEF PublicationsArrive
<1> QED
  BY <1>4, Invariance, PTL
=============================================================================
