--------------------------- MODULE OwnerRouteProofs ---------------------------
(* The lists that requests to owners are made of, for every length: the order *)
(* of a request is a permutation that groups the ids by owner, what comes     *)
(* back is put where it belongs, distinct ids are enumerated in order, and    *)
(* the parts that all_to_all_single cuts and joins are those that were sent.  *)
(*                                                                            *)
(* Sorting and unique rest on one fact, Ranking: under a strict total order   *)
(* the number of predecessors numbers a finite set 0, 1, 2, ..., and each     *)
(* CHOOSE of OwnerRoute picks the element of a number. Cuts rest on sums of   *)
(* sizes, each counted by the dots of a diagram, so that no induction over    *)
(* the list is needed: where one is, it is by a least counterexample.         *)
EXTENDS OwnerRoute, SequencesExt, FiniteSetTheorems, SequenceTheorems, WellFoundedInduction, TLAPS

Below(S, R, x) == {y \in S : <<y, x>> \in R}

IsStrictOrder(S, R) ==
    /\ \A x \in S : <<x, x>> \notin R
    /\ \A x, y, z \in S : <<x, y>> \in R /\ <<y, z>> \in R => <<x, z>> \in R
    /\ \A x, y \in S : x # y => <<x, y>> \in R \/ <<y, x>> \in R

(* The numbers of predecessors are 0 .. Cardinality(S) - 1, each once.        *)
Numbered(S, R) ==
    LET count(x) == Cardinality(Below(S, R, x))
    IN  /\ \A x \in S : count(x) \in 0..(Cardinality(S) - 1)
        /\ \A x, y \in S : count(x) = count(y) => x = y
        /\ \A k \in 0..(Cardinality(S) - 1) : \E x \in S : count(x) = k

(* An element has strictly more predecessors than each of its predecessors.   *)
LEMMA BelowGrows ==
    ASSUME NEW S, IsFiniteSet(S), NEW R, IsStrictOrder(S, R),
           NEW x \in S, NEW y \in S, <<x, y>> \in R
    PROVE  Cardinality(Below(S, R, x)) < Cardinality(Below(S, R, y))
<1>1. Below(S, R, x) \subseteq Below(S, R, y)
  BY DEF Below, IsStrictOrder
<1>2. x \in Below(S, R, y) /\ x \notin Below(S, R, x)
  BY DEF Below, IsStrictOrder
<1>3. IsFiniteSet(Below(S, R, y))
  BY FS_Subset DEF Below
<1>4. /\ Cardinality(Below(S, R, y)) \in Nat
      /\ Cardinality(Below(S, R, x)) \in Nat
      /\ Cardinality(Below(S, R, x)) <= Cardinality(Below(S, R, y))
  <2>1. IsFiniteSet(Below(S, R, x))
    BY <1>1, <1>3, FS_Subset
  <2> QED
    BY <1>1, <1>3, <2>1, FS_Subset, FS_CardinalityType
<1>5. Cardinality(Below(S, R, x)) # Cardinality(Below(S, R, y))
  BY <1>1, <1>2, <1>3, FS_Subset
<1> QED
  BY <1>4, <1>5

(* Under a strict total order the numbers of predecessors number the set.     *)
LEMMA Ranking ==
    ASSUME NEW S, IsFiniteSet(S), NEW R, IsStrictOrder(S, R)
    PROVE  Numbered(S, R)
<1> DEFINE count == [x \in S |-> Cardinality(Below(S, R, x))]
           target == 0..(Cardinality(S) - 1)
<1>0. Cardinality(S) \in Nat
  BY FS_CardinalityType
<1>1. ASSUME NEW x \in S
      PROVE  Cardinality(Below(S, R, x)) \in target
  <2>1. Below(S, R, x) \subseteq S /\ x \notin Below(S, R, x)
    BY DEF Below, IsStrictOrder
  <2>2. IsFiniteSet(Below(S, R, x)) /\ Cardinality(Below(S, R, x)) <= Cardinality(S)
    BY <2>1, FS_Subset
  <2>3. Cardinality(Below(S, R, x)) # Cardinality(S)
    BY <2>1, FS_Subset
  <2>4. Cardinality(Below(S, R, x)) \in Nat
    BY <2>2, FS_CardinalityType
  <2> QED
    BY <1>0, <2>2, <2>3, <2>4
<1>2. ASSUME NEW x \in S, NEW y \in S, x # y
      PROVE  Cardinality(Below(S, R, x)) # Cardinality(Below(S, R, y))
  <2>1. Cardinality(Below(S, R, x)) \in Int /\ Cardinality(Below(S, R, y)) \in Int
    BY <1>0, <1>1
  <2>2. CASE <<x, y>> \in R
    BY <2>1, <2>2, BelowGrows
  <2>3. CASE <<y, x>> \in R
    BY <2>1, <2>3, BelowGrows
  <2> QED
    BY <1>2, <2>2, <2>3 DEF IsStrictOrder
<1>3. count \in Injection(S, target)
  <2>1. count \in [S -> target]
    BY <1>1
  <2>2. \A x, y \in S : count[x] = count[y] => x = y
    BY <1>2
  <2> QED
    BY <2>1, <2>2 DEF Injection, IsInjective
<1>4. IsFiniteSet(target) /\ Cardinality(target) = Cardinality(S)
  <2>1. 0 \in Int /\ Cardinality(S) - 1 \in Int
    BY <1>0
  <2>2. /\ IsFiniteSet(target)
        /\ Cardinality(target) = IF 0 > Cardinality(S) - 1 THEN 0
                                 ELSE Cardinality(S) - 1 - 0 + 1
    BY <2>1, FS_Interval
  <2> QED
    BY <1>0, <2>2
<1>5. count \in Surjection(S, target)
  BY <1>3, <1>4, FS_Injection
<1>6. \A k \in target : \E x \in S : count[x] = k
  BY <1>5 DEF Surjection
<1> QED
  BY <1>1, <1>2, <1>6 DEF Numbered
-----------------------------------------------------------------------------
(* The order of a stable sort on the places of a list of n keys.              *)
SortOrder(keys) ==
    {p \in (DOMAIN keys) \X (DOMAIN keys) :
        \/ keys[p[1]] < keys[p[2]]
        \/ keys[p[1]] = keys[p[2]] /\ p[1] < p[2]}

(* argsort(stable=True): keys first, ties by place, is a strict total order.  *)
LEMMA SortOrderIsStrict ==
    ASSUME NEW n \in Nat, NEW keys \in [1..n -> Int]
    PROVE  /\ IsStrictOrder(1..n, SortOrder(keys))
           /\ \A i \in 1..n : Earlier(keys, i) = Below(1..n, SortOrder(keys), i)
<1>1. DOMAIN keys = 1..n /\ \A i \in 1..n : keys[i] \in Int /\ i \in Int
  OBVIOUS
<1>2. \A i, j \in 1..n : <<i, j>> \in SortOrder(keys) <=>
          keys[i] < keys[j] \/ (keys[i] = keys[j] /\ i < j)
  BY <1>1 DEF SortOrder
<1>3. \A i \in 1..n : Earlier(keys, i) = Below(1..n, SortOrder(keys), i)
  BY <1>1, <1>2 DEF Earlier, Below
<1>4. \A i \in 1..n : <<i, i>> \notin SortOrder(keys)
  BY <1>1, <1>2
<1>5. \A i, j, k \in 1..n :
          <<i, j>> \in SortOrder(keys) /\ <<j, k>> \in SortOrder(keys)
             => <<i, k>> \in SortOrder(keys)
  BY <1>1, <1>2
<1>6. \A i, j \in 1..n : i # j => <<i, j>> \in SortOrder(keys) \/ <<j, i>> \in SortOrder(keys)
  BY <1>1, <1>2
<1> QED
  BY <1>3, <1>4, <1>5, <1>6 DEF IsStrictOrder

(* owner_route: the order of a request visits every place of the list once,   *)
(* whatever the owners are, so no id is lost and none is asked for twice.     *)
THEOREM ArgsortPermutes ==
    ASSUME NEW n \in Nat, NEW keys \in [1..n -> Int]
    PROVE  /\ Argsort(keys) \in [1..n -> 1..n]
           /\ \A q, w \in 1..n : Argsort(keys)[q] = Argsort(keys)[w] => q = w
           /\ \A i \in 1..n : \E q \in 1..n : Argsort(keys)[q] = i
           /\ \A q \in 1..n : Cardinality(Earlier(keys, Argsort(keys)[q])) = q - 1
<1> DEFINE count(i) == Cardinality(Earlier(keys, i))
<1>1. DOMAIN keys = 1..n /\ IsFiniteSet(1..n) /\ Cardinality(1..n) = n
  BY FS_Interval
<1>2. /\ \A i \in 1..n : count(i) \in 0..(n - 1)
      /\ \A i, j \in 1..n : count(i) = count(j) => i = j
      /\ \A k \in 0..(n - 1) : \E i \in 1..n : count(i) = k
  <2>1. IsStrictOrder(1..n, SortOrder(keys))
    BY SortOrderIsStrict
  <2>2. \A i \in 1..n : count(i) = Cardinality(Below(1..n, SortOrder(keys), i))
    BY SortOrderIsStrict
  <2>3. Numbered(1..n, SortOrder(keys))
    BY <1>1, <2>1, Ranking
  <2>4. 0..(Cardinality(1..n) - 1) = 0..(n - 1)
    BY <1>1
  <2> HIDE DEF count
  <2>5. \A i \in 1..n : count(i) \in 0..(n - 1)
    <3> TAKE i \in 1..n
    <3>1. Cardinality(Below(1..n, SortOrder(keys), i)) \in 0..(Cardinality(1..n) - 1)
      BY <2>3 DEF Numbered
    <3>2. count(i) = Cardinality(Below(1..n, SortOrder(keys), i))
      BY <2>2
    <3> QED
      BY <2>4, <3>1, <3>2
  <2>6. \A i, j \in 1..n : count(i) = count(j) => i = j
    BY <2>2, <2>3, Zenon DEF Numbered
  <2>7. \A k \in 0..(n - 1) : \E i \in 1..n : count(i) = k
    BY <2>2, <2>3, <2>4, Zenon DEF Numbered
  <2> QED
    BY <2>5, <2>6, <2>7
<1> HIDE DEF count
<1>3. Argsort(keys) = [q \in 1..n |-> CHOOSE i \in 1..n : count(i) = q - 1]
  BY <1>1 DEF Argsort, count
<1>4. \A q \in 1..n : Argsort(keys)[q] \in 1..n /\ count(Argsort(keys)[q]) = q - 1
  <2> TAKE q \in 1..n
  <2>1. q - 1 \in 0..(n - 1)
    OBVIOUS
  <2>2. \E i \in 1..n : count(i) = q - 1
    BY <1>2, <2>1
  <2> QED
    BY <1>3, <2>2
<1>5. Argsort(keys) \in [1..n -> 1..n]
  BY <1>3, <1>4
<1>6. ASSUME NEW q \in 1..n, NEW w \in 1..n, Argsort(keys)[q] = Argsort(keys)[w]
      PROVE  q = w
  <2>1. q - 1 = w - 1
    BY <1>4, <1>6
  <2> QED
    BY <2>1
<1>7. ASSUME NEW i \in 1..n
      PROVE  \E q \in 1..n : Argsort(keys)[q] = i
  <2>1. count(i) \in 0..(n - 1)
    BY <1>2
  <2>2. count(i) + 1 \in 1..n /\ (count(i) + 1) - 1 = count(i)
    BY <2>1
  <2>3. Argsort(keys)[count(i) + 1] = i
    BY <1>2, <1>4, <2>2
  <2> QED
    BY <2>2, <2>3
<1> QED
  BY <1>4, <1>5, <1>6, <1>7 DEF count

(* owner_route and the split of all_to_all_single: the ids leave grouped by   *)
(* owner, so the part cut off for a peer holds ids of this peer only.         *)
THEOREM ArgsortGroups ==
    ASSUME NEW n \in Nat, NEW keys \in [1..n -> Int],
           NEW q \in 1..n, NEW w \in 1..n, q < w
    PROVE  keys[Argsort(keys)[q]] <= keys[Argsort(keys)[w]]
<1> DEFINE i == Argsort(keys)[q]
           j == Argsort(keys)[w]
<1>1. i \in 1..n /\ j \in 1..n /\ i # j
  <2>1. Argsort(keys) \in [1..n -> 1..n]
    BY ArgsortPermutes
  <2>2. Argsort(keys)[q] = Argsort(keys)[w] => q = w
    BY ArgsortPermutes
  <2> QED
    BY <2>1, <2>2
<1>2. Cardinality(Earlier(keys, i)) = q - 1 /\ Cardinality(Earlier(keys, j)) = w - 1
  BY ArgsortPermutes
<1>3. IsFiniteSet(1..n)
  BY FS_Interval
<1>4. <<j, i>> \notin SortOrder(keys)
  <2> SUFFICES ASSUME <<j, i>> \in SortOrder(keys)
               PROVE  FALSE
    OBVIOUS
  <2>1. Cardinality(Earlier(keys, j)) < Cardinality(Earlier(keys, i))
    BY <1>1, <1>3, SortOrderIsStrict, BelowGrows, ZenonT(30)
  <2> QED
    BY <1>2, <2>1
<1>5. keys[i] \in Int /\ keys[j] \in Int /\ ~(keys[j] < keys[i])
  BY <1>1, <1>4 DEF SortOrder
<1> QED
  BY <1>5

(* _restore_order: the answer that arrives at place q, the row of the q-th id *)
(* of the order, ends at the place of that id in the list.                    *)
THEOREM RestoreInvertsOrder ==
    ASSUME NEW n \in Nat, NEW keys \in [1..n -> Int], NEW V, NEW rows \in [1..n -> V]
    PROVE  Restore(Pick(rows, Argsort(keys)), Argsort(keys)) = rows
<1> DEFINE order == Argsort(keys)
<1>1. /\ order \in [1..n -> 1..n]
      /\ \A q, w \in 1..n : order[q] = order[w] => q = w
      /\ \A i \in 1..n : \E q \in 1..n : order[q] = i
  BY ArgsortPermutes
<1> HIDE DEF order
<1>2. DOMAIN order = 1..n /\ Pick(rows, order) = [q \in 1..n |-> rows[order[q]]]
  BY <1>1 DEF Pick
<1>3. ASSUME NEW i \in 1..n
      PROVE  Pick(rows, order)[CHOOSE q \in DOMAIN order : order[q] = i] = rows[i]
  <2> DEFINE place == CHOOSE q \in DOMAIN order : order[q] = i
  <2>1. place \in 1..n /\ order[place] = i
    BY <1>1, <1>2
  <2> QED
    BY <1>2, <2>1
<1> DEFINE back == Pick(rows, order)
           Placed(i) == back[CHOOSE q \in DOMAIN order : order[q] = i]
<1>4. \A i \in 1..n : Placed(i) = rows[i]
  BY <1>3
<1>5. Restore(back, order) = [i \in 1..n |-> Placed(i)]
  <2> HIDE DEF back
  <2> QED
    BY <1>2, Zenon DEF Restore
<1> HIDE DEF Placed
<1>6. [i \in 1..n |-> Placed(i)] = rows
  BY <1>4
<1> QED
  BY <1>5, <1>6 DEF order, back
-----------------------------------------------------------------------------
(* unique(sorted=True): distinct ids are ordered by their value.              *)
LEMMA LessIsStrict ==
    ASSUME NEW S \in SUBSET Int
    PROVE  LET R == {p \in S \X S : p[1] < p[2]}
           IN  /\ IsStrictOrder(S, R)
               /\ \A x \in S : {y \in S : y < x} = Below(S, R, x)
<1> DEFINE R == {p \in S \X S : p[1] < p[2]}
<1>1. \A x, y \in S : <<x, y>> \in R <=> x < y
  OBVIOUS
<1> HIDE DEF R
<1>2. IsStrictOrder(S, R)
  BY <1>1 DEF IsStrictOrder
<1>3. \A x \in S : {y \in S : y < x} = Below(S, R, x)
  BY <1>1 DEF Below
<1> QED
  BY <1>2, <1>3 DEF R

(* The missing places of _launch, and torch.unique: increasing, and complete. *)
THEOREM IncreasingEnumerates ==
    ASSUME NEW S \in SUBSET Int, IsFiniteSet(S)
    PROVE  /\ Increasing(S) \in [1..Cardinality(S) -> S]
           /\ Elements(Increasing(S)) = S
           /\ \A k, l \in 1..Cardinality(S) : k < l => Increasing(S)[k] < Increasing(S)[l]
<1> DEFINE n == Cardinality(S)
           R == {p \in S \X S : p[1] < p[2]}
           count(x) == Cardinality({y \in S : y < x})
<1>0. n \in Nat
  BY FS_CardinalityType
<1>1. IsStrictOrder(S, R) /\ \A x \in S : {y \in S : y < x} = Below(S, R, x)
  BY LessIsStrict
<1>2. /\ \A x \in S : count(x) \in 0..(n - 1)
      /\ \A x, y \in S : count(x) = count(y) => x = y
      /\ \A k \in 0..(n - 1) : \E x \in S : count(x) = k
  <2>1. \A x \in S : count(x) = Cardinality(Below(S, R, x))
    BY <1>1
  <2>2. Numbered(S, R)
    BY <1>1, Ranking
  <2> HIDE DEF count, R
  <2> QED
    BY <2>1, <2>2 DEF Numbered
<1>3. \A x, y \in S : x < y => count(x) < count(y)
  <2> SUFFICES ASSUME NEW x \in S, NEW y \in S, x < y
               PROVE  count(x) < count(y)
    OBVIOUS
  <2>1. <<x, y>> \in R
    OBVIOUS
  <2>2. Cardinality(Below(S, R, x)) < Cardinality(Below(S, R, y))
    BY <1>1, <2>1, BelowGrows
  <2> QED
    BY <1>1, <2>2
<1> HIDE DEF n, R, count
<1>4. Increasing(S) = [k \in 1..n |-> CHOOSE x \in S : count(x) = k - 1]
  BY DEF Increasing, n, count
<1>5. \A k \in 1..n : Increasing(S)[k] \in S /\ count(Increasing(S)[k]) = k - 1
  <2> TAKE k \in 1..n
  <2>1. k - 1 \in 0..(n - 1)
    BY <1>0
  <2>2. \E x \in S : count(x) = k - 1
    BY <1>2, <2>1
  <2> QED
    BY <1>4, <2>2
<1>6. Increasing(S) \in [1..n -> S]
  BY <1>4, <1>5
<1>7. Elements(Increasing(S)) = S
  <2>1. ASSUME NEW x \in S
        PROVE  \E k \in 1..n : Increasing(S)[k] = x
    <3>1. count(x) \in 0..(n - 1)
      BY <1>2
    <3>2. count(x) + 1 \in 1..n /\ (count(x) + 1) - 1 = count(x)
      BY <1>0, <3>1
    <3>3. Increasing(S)[count(x) + 1] = x
      BY <1>2, <1>5, <3>2
    <3> QED
      BY <3>2, <3>3
  <2> QED
    BY <1>6, <2>1 DEF Elements
<1>8. ASSUME NEW k \in 1..n, NEW l \in 1..n, k < l
      PROVE  Increasing(S)[k] < Increasing(S)[l]
  <2> DEFINE x == Increasing(S)[k]
             y == Increasing(S)[l]
  <2>1. x \in S /\ y \in S /\ count(x) = k - 1 /\ count(y) = l - 1
    BY <1>5
  <2>2. x \in Int /\ y \in Int
    BY <2>1
  <2>3. k \in Int /\ l \in Int
    BY <1>0
  <2>4. x # y
    BY <1>8, <2>1, <2>3
  <2>5. ~(y < x)
    <3> SUFFICES ASSUME y < x
                 PROVE  FALSE
      OBVIOUS
    <3>1. count(y) < count(x)
      BY <1>3, <2>1
    <3> QED
      BY <1>8, <2>1, <2>3, <3>1
  <2> QED
    BY <2>2, <2>4, <2>5
<1> QED
  BY <1>6, <1>7, <1>8 DEF n

(* _restore_duplicates and finish_remote_fetch: the rows of the distinct      *)
(* elements, expanded by the inverse, are the rows of the list.               *)
THEOREM InverseExpandsUnique ==
    ASSUME NEW n \in Nat, NEW s \in [1..n -> Int]
    PROVE  /\ Elements(Unique(s)) = Elements(s)
           /\ InverseOf(s) \in [1..n -> DOMAIN Unique(s)]
           /\ Pick(Unique(s), InverseOf(s)) = s
<1>1. DOMAIN s = 1..n /\ Elements(s) \subseteq Int
  BY DEF Elements
<1>2. IsFiniteSet(Elements(s))
  <2>1. s \in Surjection(1..n, Elements(s))
    BY <1>1 DEF Surjection, Elements
  <2>2. IsFiniteSet(1..n)
    BY FS_Interval
  <2> QED
    BY <2>1, <2>2, FS_Surjection
<1>3. Elements(Unique(s)) = Elements(s)
  BY <1>1, <1>2, IncreasingEnumerates DEF Unique
<1>4. \A i \in 1..n : \E k \in DOMAIN Unique(s) : Unique(s)[k] = s[i]
  <2>1. \A i \in 1..n : s[i] \in Elements(Unique(s))
    BY <1>1, <1>3 DEF Elements
  <2> QED
    BY <2>1 DEF Elements
<1>5. \A i \in 1..n : InverseOf(s)[i] \in DOMAIN Unique(s) /\ Unique(s)[InverseOf(s)[i]] = s[i]
  BY <1>1, <1>4 DEF InverseOf
<1>6. InverseOf(s) \in [1..n -> DOMAIN Unique(s)]
  BY <1>1, <1>5 DEF InverseOf
<1>7. Pick(Unique(s), InverseOf(s)) = [i \in 1..n |-> s[i]]
  BY <1>5, <1>6 DEF Pick
<1> QED
  BY <1>3, <1>6, <1>7
-----------------------------------------------------------------------------
(* Numbers and sums.                                                          *)

Less == {ss \in Nat \X Nat : ss[1] < ss[2]}

(* The order of the naturals as a set of pairs.                               *)
LEMMA LessWellFounded == IsWellFoundedOn(Less, Nat)
BY ONLY NatLessThanWellFounded, Zenon DEF OpToRel, Less

(* Every set of numbers that is not empty has a least one.                    *)
LEMMA Least ==
    ASSUME NEW T \in SUBSET Nat, T # {}
    PROVE  \E x \in T : \A y \in T : x <= y
<1>1. PICK x \in T : \A y \in T : <<y, x>> \notin Less
  BY WFMin, LessWellFounded
<1>2. \A y \in T : ~ (y < x)
  BY <1>1, Zenon DEF Less
<1>3. x \in Nat /\ \A y \in T : y \in Nat
  OBVIOUS
<1> QED
  BY <1>2, <1>3

(* A sum of sizes counts the dots of a diagram with a row for each.           *)
Dots(f, S) == {d \in S \X Nat : 1 <= d[2] /\ d[2] <= f[d[1]]}

(* One more row.                                                              *)
LEMMA DotsOfOneMore ==
    ASSUME NEW D, NEW f \in [D -> Nat], NEW S \in SUBSET D, NEW x \in S,
           IsFiniteSet(Dots(f, S \ {x}))
    PROVE  /\ IsFiniteSet(Dots(f, S))
           /\ Cardinality(Dots(f, S)) = f[x] + Cardinality(Dots(f, S \ {x}))
<1> DEFINE T == {x} \X (1 .. f[x])
           rest == Dots(f, S \ {x})
           b == [k \in 1 .. f[x] |-> <<x, k>>]
<1>1. f[x] \in Nat
  OBVIOUS
<1>2. IsFiniteSet(T) /\ Cardinality(T) = f[x]
  <2>1. IsFiniteSet(1 .. f[x]) /\ Cardinality(1 .. f[x]) = f[x]
    BY <1>1, FS_Interval
  <2>2. b \in [1 .. f[x] -> T]
    OBVIOUS
  <2>3. \A i, j \in 1 .. f[x] : b[i] = b[j] => i = j
    OBVIOUS
  <2>4. \A d \in T : \E i \in 1 .. f[x] : b[i] = d
    <3> TAKE d \in T
    <3>1. d[1] = x /\ d[2] \in 1 .. f[x] /\ d = <<d[1], d[2]>>
      OBVIOUS
    <3>2. b[d[2]] = d
      BY <3>1
    <3> QED
      BY <3>1, <3>2
  <2> HIDE DEF T, b
  <2>5. b \in Surjection(1 .. f[x], T) /\ b \in Bijection(1 .. f[x], T)
    BY <2>2, <2>3, <2>4 DEF Bijection, Injection, Surjection, IsInjective
  <2>6. IsFiniteSet(T)
    BY <2>1, <2>5, FS_Surjection
  <2> QED
    BY <2>1, <2>5, <2>6, FS_Bijection DEF ExistsBijection
<1>3. Dots(f, S) = T \cup rest
  <2>1. ASSUME NEW d \in Dots(f, S) PROVE d \in T \cup rest
    <3>1. d \in S \X Nat /\ 1 <= d[2] /\ d[2] <= f[d[1]]
      BY DEF Dots
    <3>2. CASE d[1] = x
      BY <1>1, <3>1, <3>2
    <3>3. CASE d[1] # x
      BY <3>1, <3>3 DEF Dots
    <3> QED
      BY <3>2, <3>3
  <2>2. ASSUME NEW d \in T PROVE d \in Dots(f, S)
    <3>1. d[1] = x /\ d[2] \in 1 .. f[x] /\ d = <<d[1], d[2]>>
      OBVIOUS
    <3> QED
      BY <1>1, <3>1 DEF Dots
  <2>3. rest \subseteq Dots(f, S)
    BY DEF Dots
  <2> HIDE DEF T, rest
  <2> QED
    BY <2>1, <2>2, <2>3
<1>4. T \cap rest = {}
  BY DEF Dots
<1> HIDE DEF T
<1>5. IsFiniteSet(T \cup rest) /\ Cardinality(T \cup rest) = Cardinality(T) + Cardinality(rest) - Cardinality(T \cap rest)
  BY <1>2, FS_Union
<1>6. Cardinality(T \cap rest) = 0
  BY <1>4, FS_EmptySet
<1>7. Cardinality(rest) \in Nat
  BY FS_CardinalityType
<1> QED
  BY <1>1, <1>2, <1>3, <1>5, <1>6, <1>7

SumSteps(f, it, S) ==
    IF S = {} THEN 0 ELSE LET x == CHOOSE x \in S : TRUE IN f[x] + it[S \ {x}]

(* One less.                                                                  *)
LEMMA OneLess ==
    ASSUME NEW S, IsFiniteSet(S), S # {}
    PROVE  LET x == CHOOSE x \in S : TRUE
           IN  /\ x \in S
               /\ IsFiniteSet(S \ {x})
               /\ Cardinality(S) \in Nat /\ Cardinality(S) # 0
               /\ Cardinality(S \ {x}) = Cardinality(S) - 1
<1> DEFINE x == CHOOSE x \in S : TRUE
<1>1. x \in S
  OBVIOUS
<1>2. Cardinality(S) \in Nat /\ Cardinality(S) # 0
  BY FS_CardinalityType, FS_EmptySet
<1> QED
  BY <1>1, <1>2, FS_RemoveElement

(* The fold has a value on every finite set.                                  *)
LEMMA SumExists ==
    ASSUME NEW f, NEW S, IsFiniteSet(S)
    PROVE  \E it : it = [T \in SUBSET S |-> SumSteps(f, it, T)]
<1> DEFINE Level(l) == {T \in SUBSET S : Cardinality(T) <= l}
           Good(l) == \E it : it = [T \in Level(l) |-> SumSteps(f, it, T)]
           Bad == {l \in Nat : ~Good(l)}
<1>0. \A T \in SUBSET S : IsFiniteSet(T) /\ Cardinality(T) \in Nat /\ Cardinality(T) <= Cardinality(S)
  BY FS_Subset, FS_CardinalityType
<1>1. Good(0)
  <2> DEFINE it == [T \in Level(0) |-> 0]
  <2>1. \A T \in Level(0) : T = {}
    BY <1>0, FS_EmptySet
  <2>2. it = [T \in Level(0) |-> SumSteps(f, it, T)]
    BY <2>1 DEF SumSteps
  <2> QED
    BY <2>2
<1>2. ASSUME NEW l \in Nat, Good(l) PROVE Good(l + 1)
  <2>1. PICK it : it = [T \in Level(l) |-> SumSteps(f, it, T)]
    BY <1>2
  <2> DEFINE jt == [T \in Level(l + 1) |-> SumSteps(f, it, T)]
  <2>2. ASSUME NEW T \in Level(l + 1) PROVE SumSteps(f, it, T) = SumSteps(f, jt, T)
    <3>1. CASE T = {}
      BY <3>1 DEF SumSteps
    <3>2. CASE T # {}
      <4> DEFINE x == CHOOSE x \in T : TRUE
      <4>1. x \in T /\ Cardinality(T \ {x}) = Cardinality(T) - 1 /\ Cardinality(T) \in Nat
        BY <1>0, <3>2, OneLess
      <4>2. T \ {x} \in Level(l) /\ T \ {x} \in Level(l + 1)
        <5>1. T \ {x} \in SUBSET S
          OBVIOUS
        <5>2. Cardinality(T) <= l + 1
          BY <2>2
        <5>3. Cardinality(T \ {x}) <= l /\ Cardinality(T \ {x}) <= l + 1
          BY <4>1, <5>2
        <5> HIDE DEF x
        <5> QED
          BY <5>1, <5>3
      <4>3. jt[T \ {x}] = SumSteps(f, it, T \ {x}) /\ it[T \ {x}] = SumSteps(f, it, T \ {x})
        BY <2>1, <4>2
      <4> QED
        BY <3>2, <4>3 DEF SumSteps
    <3> QED
      BY <3>1, <3>2
  <2>3. jt = [T \in Level(l + 1) |-> SumSteps(f, jt, T)]
    BY <2>2
  <2> HIDE DEF jt
  <2> QED
    BY <2>3
<1>3. Level(Cardinality(S)) = SUBSET S
  BY <1>0
<1> HIDE DEF Good
<1>4. Cardinality(S) \in Nat
  BY FS_CardinalityType
<1>5. ASSUME Bad # {} PROVE FALSE
  <2>1. PICK x \in Bad : \A y \in Bad : x <= y
    BY <1>5, Least
  <2>2. x \in Nat /\ x # 0 /\ ~Good(x)
    BY <1>1, <2>1
  <2>3. x - 1 \in Nat /\ x - 1 \notin Bad
    BY <2>1, <2>2
  <2>4. Good(x - 1)
    BY <2>3
  <2>5. Good((x - 1) + 1)
    BY <1>2, <2>3, <2>4
  <2> QED
    BY <2>2, <2>5
<1>6. Good(Cardinality(S))
  BY <1>4, <1>5
<1> QED
  BY <1>3, <1>6 DEF Good

(* SumFunctionOnSet adds up the sizes, in whichever order it takes them.      *)
LEMMA SumIs ==
    ASSUME NEW D, NEW f \in [D -> Nat], NEW S \in SUBSET D, IsFiniteSet(S)
    PROVE  IsFiniteSet(Dots(f, S)) /\ SumFunctionOnSet(f, S) = Cardinality(Dots(f, S))
<1> DEFINE it == CHOOSE it : it = [T \in SUBSET S |-> SumSteps(f, it, T)]
           Good(T) == IsFiniteSet(Dots(f, T)) /\ it[T] = Cardinality(Dots(f, T))
           Bad == {Cardinality(T) : T \in {T \in SUBSET S : ~Good(T)}}
<1>1. it = [T \in SUBSET S |-> SumSteps(f, it, T)]
  BY SumExists
<1>2. SumFunctionOnSet(f, S) = it[S]
  BY Zenon DEF SumFunctionOnSet, FoldFunctionOnSet, MapThenFoldSet, SumSteps
<1> HIDE DEF it
<1>3. \A T \in SUBSET S : IsFiniteSet(T) /\ Cardinality(T) \in Nat
  BY FS_Subset, FS_CardinalityType
<1>4. ASSUME NEW T \in SUBSET S, ~Good(T), \A U \in SUBSET S : ~Good(U) => Cardinality(T) <= Cardinality(U)
      PROVE  FALSE
  <2>1. it[T] = SumSteps(f, it, T)
    BY <1>1
  <2>2. CASE T = {}
    <3>1. Dots(f, T) = {}
      BY <2>2 DEF Dots
    <3>2. IsFiniteSet(Dots(f, T)) /\ Cardinality(Dots(f, T)) = 0
      BY <3>1, FS_EmptySet
    <3>3. it[T] = 0
      BY <2>1, <2>2 DEF SumSteps
    <3> QED
      BY <1>4, <3>2, <3>3
  <2>3. CASE T # {}
    <3> DEFINE x == CHOOSE x \in T : TRUE
    <3>1. /\ x \in T
          /\ Cardinality(T) \in Nat /\ Cardinality(T) # 0
          /\ Cardinality(T \ {x}) = Cardinality(T) - 1
      BY <1>3, <2>3, OneLess
    <3>2. it[T] = f[x] + it[T \ {x}]
      BY <2>1, <2>3 DEF SumSteps
    <3> HIDE DEF x
    <3>3. Good(T \ {x})
      <4>1. T \ {x} \in SUBSET S
        OBVIOUS
      <4>2. ~(Cardinality(T) <= Cardinality(T \ {x}))
        BY <3>1
      <4> HIDE DEF Good
      <4> QED
        BY <1>4, <4>1, <4>2
    <3>4. T \in SUBSET D
      OBVIOUS
    <3>5. IsFiniteSet(Dots(f, T)) /\ Cardinality(Dots(f, T)) = f[x] + Cardinality(Dots(f, T \ {x}))
      BY <3>1, <3>3, <3>4, DotsOfOneMore
    <3> QED
      BY <1>4, <3>2, <3>3, <3>5
  <2> QED
    BY <2>2, <2>3
<1> HIDE DEF Good
<1>5. Bad = {}
  <2> SUFFICES ASSUME Bad # {} PROVE FALSE
    OBVIOUS
  <2>1. Bad \in SUBSET Nat
    BY <1>3
  <2>2. PICK c \in Bad : \A y \in Bad : c <= y
    BY <2>1, Least
  <2>3. PICK T \in SUBSET S : ~Good(T) /\ c = Cardinality(T)
    BY <2>2
  <2>4. \A U \in SUBSET S : ~Good(U) => Cardinality(T) <= Cardinality(U)
    BY <2>2, <2>3
  <2> QED
    BY <1>4, <2>3, <2>4
<1>6. Good(S)
  BY <1>5
<1> QED
  BY <1>2, <1>6 DEF Good

Upto(f, p) == SumFunctionOnSet(f, 1 .. p)

(* The sum of the first p sizes grows by one size at a time.                  *)
LEMMA UptoIs ==
    ASSUME NEW n \in Nat, NEW f \in [1 .. n -> Nat]
    PROVE  /\ \A p \in 0 .. n : Upto(f, p) \in Nat
           /\ Upto(f, 0) = 0
           /\ \A p \in 1 .. n : Upto(f, p) = Upto(f, p - 1) + f[p]
<1>1. ASSUME NEW p \in 0 .. n
      PROVE  /\ IsFiniteSet(Dots(f, 1 .. p)) /\ Upto(f, p) = Cardinality(Dots(f, 1 .. p))
             /\ Upto(f, p) \in Nat
  <2>1. IsFiniteSet(1 .. p) /\ 1 .. p \in SUBSET (1 .. n)
    BY FS_Interval
  <2>2. IsFiniteSet(Dots(f, 1 .. p)) /\ Upto(f, p) = Cardinality(Dots(f, 1 .. p))
    BY <2>1, SumIs DEF Upto
  <2> QED
    BY <2>2, FS_CardinalityType
<1>2. Upto(f, 0) = 0
  <2>1. Dots(f, 1 .. 0) = {}
    BY DEF Dots
  <2> QED
    BY <1>1, <2>1, FS_EmptySet
<1>3. ASSUME NEW p \in 1 .. n
      PROVE  Upto(f, p) = Upto(f, p - 1) + f[p]
  <2>1. (1 .. p) \ {p} = 1 .. (p - 1) /\ p \in 1 .. p /\ 1 .. p \in SUBSET (1 .. n)
    OBVIOUS
  <2>2. p - 1 \in 0 .. n /\ p \in 0 .. n
    OBVIOUS
  <2>3. Cardinality(Dots(f, 1 .. p)) = f[p] + Cardinality(Dots(f, 1 .. (p - 1)))
    <3> DEFINE S == 1 .. p
    <3>1. S \ {p} = 1 .. (p - 1) /\ p \in S /\ S \in SUBSET (1 .. n)
      BY <2>1
    <3>2. IsFiniteSet(Dots(f, 1 .. (p - 1)))
      BY <1>1, <2>2
    <3> HIDE DEF S
    <3>3. IsFiniteSet(Dots(f, S \ {p}))
      BY <3>1, <3>2
    <3>4. Cardinality(Dots(f, S)) = f[p] + Cardinality(Dots(f, S \ {p}))
      BY <3>1, <3>3, DotsOfOneMore
    <3> QED
      BY <3>1, <3>4 DEF S
  <2>4. f[p] \in Nat /\ Upto(f, p - 1) \in Nat
    BY <1>1, <2>2
  <2> QED
    BY <1>1, <2>2, <2>3, <2>4
<1> QED
  BY <1>1, <1>2, <1>3

(* A place of the whole lies in one of the parts.                             *)
LEMMA InPart ==
    ASSUME NEW n \in Nat, NEW f \in [1 .. n -> Nat], NEW q \in 1 .. Upto(f, n)
    PROVE  \E p \in 1 .. n : \E j \in 1 .. f[p] : q = Upto(f, p - 1) + j
<1> DEFINE Far == {p \in 0 .. n : q <= Upto(f, p)}
<1>0. Upto(f, n) \in Nat /\ q \in Nat /\ q # 0
  <2>1. n \in 0 .. n
    OBVIOUS
  <2>2. Upto(f, n) \in Nat
    BY <2>1, UptoIs
  <2> QED
    BY <2>2
<1>1. Far \in SUBSET Nat /\ Far # {}
  <2>1. n \in Far
    BY <1>0
  <2>2. Far \in SUBSET Nat
    OBVIOUS
  <2> HIDE DEF Far
  <2> QED
    BY <2>1, <2>2
<1>2. PICK p \in Far : \A y \in Far : p <= y
  BY <1>1, Least
<1>3. p \in 0 .. n /\ q <= Upto(f, p)
  BY <1>2
<1>4. p # 0
  BY <1>0, <1>3, UptoIs
<1>5. p \in 1 .. n /\ p - 1 \in 0 .. n
  BY <1>3, <1>4
<1>6. ~(q <= Upto(f, p - 1))
  <2>1. p - 1 \notin Far
    BY <1>2, <1>5
  <2> QED
    BY <2>1, <1>5
<1>7. Upto(f, p - 1) \in Nat /\ f[p] \in Nat /\ Upto(f, p) = Upto(f, p - 1) + f[p]
  BY <1>5, UptoIs
<1> HIDE DEF Far
<1>8. q - Upto(f, p - 1) \in 1 .. f[p] /\ q = Upto(f, p - 1) + (q - Upto(f, p - 1))
  BY <1>0, <1>3, <1>6, <1>7
<1> QED
  BY <1>5, <1>8

(* And a place of a part lies before the next part, and in the whole.         *)
LEMMA UptoGrows ==
    ASSUME NEW n \in Nat, NEW f \in [1 .. n -> Nat], NEW p \in 0 .. n, NEW q \in 0 .. n, p <= q
    PROVE  Upto(f, p) <= Upto(f, q)
<1> DEFINE Bad == {k \in Nat : p <= k /\ k <= n /\ ~(Upto(f, p) <= Upto(f, k))}
<1>1. /\ \A k \in 0 .. n : Upto(f, k) \in Nat
      /\ \A k \in 1 .. n : Upto(f, k) = Upto(f, k - 1) + f[k] /\ f[k] \in Nat
  BY UptoIs
<1>2. Bad = {}
  <2> SUFFICES ASSUME Bad # {} PROVE FALSE
    OBVIOUS
  <2>1. PICK k \in Bad : \A y \in Bad : k <= y
    BY Least
  <2>2. p <= k /\ ~(Upto(f, p) <= Upto(f, k)) /\ k \in 0 .. n
    BY <2>1
  <2>3. k # p
    BY <1>1, <2>2
  <2>4. k - 1 \in Nat /\ p <= k - 1 /\ k - 1 <= n /\ k - 1 \notin Bad /\ k \in 1 .. n /\ k - 1 \in 0 .. n
    BY <2>1, <2>2, <2>3
  <2>5. Upto(f, p) <= Upto(f, k - 1)
    BY <2>4
  <2>6. Upto(f, k) = Upto(f, k - 1) + f[k] /\ f[k] \in Nat /\ Upto(f, k - 1) \in Nat /\ Upto(f, p) \in Nat
    BY <1>1, <2>2, <2>4
  <2> QED
    BY <2>2, <2>5, <2>6
<1> QED
  BY <1>2

LEMMA PartWithin ==
    ASSUME NEW n \in Nat, NEW f \in [1 .. n -> Nat], NEW p \in 1 .. n, NEW q \in 0 .. n, p <= q,
           NEW j \in 1 .. f[p]
    PROVE  Upto(f, p - 1) + j \in 1 .. Upto(f, q)
<1>1. Upto(f, p) <= Upto(f, q)
  <2>1. p \in 0 .. n
    OBVIOUS
  <2> QED
    BY <2>1, UptoGrows
<1>2. Upto(f, p) = Upto(f, p - 1) + f[p] /\ Upto(f, p - 1) \in Nat /\ Upto(f, q) \in Nat /\ f[p] \in Nat
  <2>1. p - 1 \in 0 .. n
    OBVIOUS
  <2> QED
    BY <2>1, UptoIs
<1> QED
  BY <1>1, <1>2
-----------------------------------------------------------------------------
(* Lists cut into parts and put together.                                     *)

Lists(I, V) == [I -> Seq(V)]
Lens(ss) == [p \in DOMAIN ss |-> Len(ss[p])]

FlatSteps(ss, it, i) == IF i = 1 THEN ss[i] ELSE it[i - 1] \o ss[i]

(* The recursion of FlattenSeq has a value.                                   *)
LEMMA FlatExists ==
    ASSUME NEW n \in Nat, NEW ss
    PROVE  \E it : it = [i \in 1 .. n |-> FlatSteps(ss, it, i)]
<1> DEFINE Good(l) == \E it : it = [i \in 1 .. l |-> FlatSteps(ss, it, i)]
           Bad == {l \in Nat : ~Good(l)}
<1>1. Good(0)
  <2> DEFINE it == [i \in 1 .. 0 |-> 0]
  <2>1. it = [i \in 1 .. 0 |-> FlatSteps(ss, it, i)]
    OBVIOUS
  <2> QED
    BY <2>1
<1>2. ASSUME NEW l \in Nat, Good(l) PROVE Good(l + 1)
  <2>1. PICK it : it = [i \in 1 .. l |-> FlatSteps(ss, it, i)]
    BY <1>2
  <2> DEFINE jt == [i \in 1 .. l + 1 |-> FlatSteps(ss, it, i)]
  <2>2. ASSUME NEW i \in 1 .. l + 1 PROVE FlatSteps(ss, it, i) = FlatSteps(ss, jt, i)
    <3>1. CASE i = 1
      BY <3>1 DEF FlatSteps
    <3>2. CASE i # 1
      <4>1. i - 1 \in 1 .. l /\ i - 1 \in 1 .. l + 1
        BY <3>2
      <4>2. jt[i - 1] = it[i - 1]
        BY <2>1, <4>1
      <4> QED
        BY <3>2, <4>2 DEF FlatSteps
    <3> QED
      BY <3>1, <3>2
  <2>3. jt = [i \in 1 .. l + 1 |-> FlatSteps(ss, jt, i)]
    BY <2>2
  <2> HIDE DEF jt
  <2> QED
    BY <2>3
<1> HIDE DEF Good
<1>3. ASSUME Bad # {} PROVE FALSE
  <2>1. PICK x \in Bad : \A y \in Bad : x <= y
    BY <1>3, Least
  <2>2. x \in Nat /\ x # 0 /\ ~Good(x)
    BY <1>1, <2>1
  <2>3. x - 1 \in Nat /\ x - 1 \notin Bad
    BY <2>1, <2>2
  <2>4. Good(x - 1)
    BY <2>3
  <2>5. Good((x - 1) + 1)
    BY <1>2, <2>3, <2>4
  <2> QED
    BY <2>2, <2>5
<1>4. Good(n)
  BY <1>3
<1> QED
  BY <1>4 DEF Good

(* The lists one behind the other: each part begins where the sizes of the    *)
(* earlier ones say.                                                          *)
LEMMA FlattenIs ==
    ASSUME NEW V, NEW n \in Nat, NEW ss \in Lists(1 .. n, V)
    PROVE  /\ Lens(ss) \in [1 .. n -> Nat]
           /\ FlattenSeq(ss) \in Seq(V)
           /\ Len(FlattenSeq(ss)) = Upto(Lens(ss), n)
           /\ \A p \in 1 .. n : \A j \in 1 .. Len(ss[p]) :
                 FlattenSeq(ss)[Upto(Lens(ss), p - 1) + j] = ss[p][j]
<1> DEFINE it == CHOOSE it : it = [i \in 1 .. Len(ss) |-> FlatSteps(ss, it, i)]
           f == Lens(ss)
           Good(i) == /\ it[i] \in Seq(V)
                      /\ Len(it[i]) = Upto(f, i)
                      /\ \A p \in 1 .. i : \A j \in 1 .. Len(ss[p]) :
                            it[i][Upto(f, p - 1) + j] = ss[p][j]
           Bad == {i \in Nat : i \in 1 .. n /\ ~Good(i)}
<1>0. /\ DOMAIN ss = 1 .. n /\ ss \in Seq(Seq(V)) /\ Len(ss) = n
      /\ \A p \in 1 .. n : ss[p] \in Seq(V)
  BY DEF Lists
<1>1. f \in [1 .. n -> Nat] /\ \A p \in 1 .. n : f[p] = Len(ss[p])
  BY <1>0 DEF Lens
<1> HIDE DEF f
<1>2. it = [i \in 1 .. Len(ss) |-> FlatSteps(ss, it, i)]
  BY <1>0, FlatExists
<1>3. FlattenSeq(ss) = IF Len(ss) = 0 THEN ss ELSE it[Len(ss)]
  BY Zenon DEF FlattenSeq, FlatSteps
<1> HIDE DEF it
<1>4. ASSUME NEW i \in 1 .. n, i = 1 \/ Good(i - 1) PROVE Good(i)
  <2>1. it[i] = FlatSteps(ss, it, i) /\ ss[i] \in Seq(V) /\ f[i] = Len(ss[i]) /\ i - 1 \in 0 .. n
    <3>1. i \in 1 .. Len(ss)
      BY <1>0
    <3>2. it[i] = FlatSteps(ss, it, i)
      BY <1>2, <3>1
    <3> QED
      BY <1>0, <1>1, <3>2
  <2>2. Upto(f, i) = Upto(f, i - 1) + f[i] /\ Upto(f, 0) = 0 /\ Upto(f, i - 1) \in Nat /\ f[i] \in Nat
    BY <1>1, <2>1, UptoIs
  <2>3. CASE i = 1
    <3>1. it[i] = ss[i]
      BY <2>1, <2>3 DEF FlatSteps
    <3>2. Upto(f, i) = f[i]
      BY <2>2, <2>3
    <3>3. ASSUME NEW p \in 1 .. i, NEW j \in 1 .. Len(ss[p])
          PROVE  it[i][Upto(f, p - 1) + j] = ss[p][j]
      <4>1. p = i /\ Upto(f, p - 1) + j = j
        BY <2>2, <2>3
      <4> QED
        BY <3>1, <4>1
    <3> QED
      BY <2>1, <3>1, <3>2, <3>3
  <2>4. CASE i # 1
    <3> DEFINE a == it[i - 1]
               b == ss[i]
    <3>1. /\ a \in Seq(V) /\ Len(a) = Upto(f, i - 1)
          /\ \A p \in 1 .. i - 1 : \A j \in 1 .. Len(ss[p]) : a[Upto(f, p - 1) + j] = ss[p][j]
      BY <1>4, <2>4
    <3>2. it[i] = a \o b /\ b \in Seq(V)
      BY <2>1, <2>4 DEF FlatSteps
    <3> HIDE DEF a, Good
    <3>3. it[i] \in Seq(V) /\ Len(it[i]) = Upto(f, i)
      <4>1. a \o b \in Seq(V) /\ Len(a \o b) = Len(a) + Len(b)
        BY <3>1, <3>2, ConcatProperties
      <4> QED
        BY <2>1, <2>2, <3>1, <3>2, <4>1
    <3>4. ASSUME NEW p \in 1 .. i, NEW j \in 1 .. Len(ss[p])
          PROVE  it[i][Upto(f, p - 1) + j] = ss[p][j]
      <4>1. CASE p = i
        <5>1. j \in Nat /\ Len(a) \in Nat /\ j \in 1 .. Len(b) /\ Len(b) \in Nat
          BY <2>1, <3>1, <3>2, <4>1
        <5> DEFINE k == Len(a) + j
        <5>2. k \in 1 .. Len(a) + Len(b) /\ ~(k <= Len(a)) /\ k - Len(a) = j
          BY <5>1
        <5> HIDE DEF b, k
        <5>3. (a \o b)[k] = b[k - Len(a)]
          BY <3>1, <3>2, <5>2, ConcatProperties
        <5>4. (a \o b)[Len(a) + j] = b[j]
          BY <5>2, <5>3 DEF k
        <5> QED
          BY <3>1, <3>2, <4>1, <5>4 DEF b
      <4>2. CASE p # i
        <5>1. p \in 1 .. i - 1 /\ p \in 1 .. n /\ i - 1 \in Nat
          BY <4>2
        <5>2. f[p] = Len(ss[p])
          BY <1>1, <5>1
        <5>3. Upto(f, p - 1) + j \in 1 .. Len(a)
          <6>1. j \in 1 .. f[p] /\ p <= i - 1 /\ i - 1 \in 0 .. n
            BY <5>1, <5>2
          <6>4. Upto(f, p - 1) + j \in 1 .. Upto(f, i - 1)
            BY <1>1, <5>1, <6>1, PartWithin
          <6> QED
            BY <3>1, <6>4
        <5>4. a[Upto(f, p - 1) + j] = ss[p][j]
          BY <3>1, <5>1
        <5> HIDE DEF b
        <5>5. (a \o b)[Upto(f, p - 1) + j] = a[Upto(f, p - 1) + j]
          BY <3>1, <3>2, <5>3, ConcatProperties
        <5> QED
          BY <3>2, <5>4, <5>5
      <4> QED
        BY <4>1, <4>2
    <3> QED
      BY <3>3, <3>4 DEF Good
  <2> QED
    BY <2>3, <2>4
<1> HIDE DEF Good
<1>5. ASSUME Bad # {} PROVE FALSE
  <2>1. PICK x \in Bad : \A y \in Bad : x <= y
    BY <1>5, Least
  <2>2. x \in 1 .. n /\ ~Good(x)
    BY <2>1
  <2>3. CASE x = 1
    BY <1>4, <2>2, <2>3
  <2>4. CASE x # 1
    <3>1. x - 1 \in Nat /\ x - 1 \in 1 .. n /\ x - 1 \notin Bad
      BY <2>1, <2>2, <2>4
    <3>2. Good(x - 1)
      BY <3>1
    <3> QED
      BY <1>4, <2>2, <3>2
  <2> QED
    BY <2>3, <2>4
<1>6. CASE n = 0
  <2>1. FlattenSeq(ss) = ss /\ ss = << >>
    BY <1>0, <1>3, <1>6
  <2>2. Upto(f, n) = 0
    BY <1>1, <1>6, UptoIs
  <2> QED
    BY <1>1, <1>6, <2>1, <2>2 DEF f
<1>7. CASE n # 0
  <2>1. Good(n)
    BY <1>5, <1>7
  <2>2. FlattenSeq(ss) = it[n]
    BY <1>0, <1>3, <1>7
  <2> QED
    BY <1>1, <2>1, <2>2 DEF f, Good
<1> QED
  BY <1>6, <1>7

(* Two lists with the same parts are the same.                                *)
LEMMA SameParts ==
    ASSUME NEW V, NEW n \in Nat, NEW f \in [1 .. n -> Nat],
           NEW s \in Seq(V), NEW t \in Seq(V), Len(s) = Upto(f, n), Len(t) = Upto(f, n),
           \A p \in 1 .. n : \A j \in 1 .. f[p] : s[Upto(f, p - 1) + j] = t[Upto(f, p - 1) + j]
    PROVE  s = t
<1>1. ASSUME NEW q \in 1 .. Len(s) PROVE s[q] = t[q]
  <2>1. \E p \in 1 .. n : \E j \in 1 .. f[p] : q = Upto(f, p - 1) + j
    BY <1>1, InPart
  <2> QED
    BY <2>1
<1> QED
  BY <1>1, SeqEqual

LEMMA ListOf ==
    ASSUME NEW V, NEW n \in Nat, NEW s \in [1 .. n -> V]
    PROVE  s \in Seq(V) /\ Len(s) = n /\ DOMAIN s = 1 .. n
OBVIOUS
===============================================================================
