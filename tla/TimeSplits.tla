------------------------------ MODULE TimeSplits ------------------------------
(* How the events, in the order of time, are cut into train, validation and   *)
(* test events, and each of those into windows (prepare/split.py). A window   *)
(* [begin, end] holds the events of rows begin to end - 1, rows counting from *)
(* 0; ts[i] is the time of row i - 1.                                         *)
EXTENDS Integers, Sequences, FiniteSets

Window == [begin: Nat, end: Nat]
Cut(begin, end) == [begin |-> begin, end |-> end]
Rows(w) == (w.begin + 1)..w.end

(* Bounds into the windows between them.                                      *)
Between(bounds) == [k \in 1..(Len(bounds) - 1) |-> Cut(bounds[k], bounds[k + 1])]
-----------------------------------------------------------------------------
(* Variant: a boundary stays where the ratio put it. *)
StayPut(ts, boundary, low, high) == boundary

(* A boundary between equal times goes to the nearer end of them, unless that *)
(* end would leave one side without events.                                   *)
MoveBoundary(ts, boundary, low, high) ==
    LET value == ts[boundary + 1]
        left == low + Cardinality({i \in (low + 1)..high : ts[i] < value})
        right == low + Cardinality({i \in (low + 1)..high : ts[i] <= value})
    IN  IF boundary <= low THEN low
        ELSE IF boundary >= high THEN high
        ELSE IF ts[boundary] # value THEN boundary
        ELSE IF left = low THEN right
        ELSE IF right = high \/ boundary - left <= right - boundary THEN left
        ELSE right

(* resolve_split_ranges: from ratios, which round to any two rows in order,   *)
(* or from labels that come in order.                                         *)
FromRatios(ts, first, second) ==
    LET moved == MoveBoundary(ts, first, 0, Len(ts))
        ended == MoveBoundary(ts, second, moved, Len(ts))
    IN  [train |-> Cut(0, moved), val |-> Cut(moved, ended), test |-> Cut(ended, Len(ts))]

InOrderLabels(labels) == \A i, j \in DOMAIN labels : i < j => labels[i] <= labels[j]

FromLabels(labels) ==
    LET upto(k) == Cardinality({i \in DOMAIN labels : labels[i] <= k})
    IN  [train |-> Cut(0, upto(0)), val |-> Cut(upto(0), upto(1)), test |-> Cut(upto(1), Len(labels))]
-----------------------------------------------------------------------------
(* torch.linspace(0, n, slices + 1).round(): a half goes to the even side.    *)
RoundHalfEven(a, b) ==
    LET q == a \div b
        twice == 2 * (a % b)
    IN  IF twice > b \/ (twice = b /\ q % 2 = 1) THEN q + 1 ELSE q

EqualEdges(n, slices) ==
    Between([k \in 1..(slices + 1) |-> RoundHalfEven((k - 1) * n, slices)])

(* Every target_batch_size events.                                            *)
Batched(n, size) ==
    LET full == (n + size - 1) \div size
    IN  Between([k \in 1..(full + 1) |-> IF k <= full THEN (k - 1) * size ELSE n])

(* The end of a window of about that size that does not part equal times.     *)
AdaptiveEnd(ts, begin, size) ==
    LET target == IF begin + size < Len(ts) THEN begin + size ELSE Len(ts)
        left == CHOOSE l \in begin..target :
                    /\ l > begin => ts[l] # ts[l + 1]
                    /\ \A m \in (l + 1)..target : ts[m] = ts[m + 1]
        right == CHOOSE r \in target..Len(ts) :
                    /\ r < Len(ts) => ts[r] # ts[r + 1]
                    /\ \A m \in target..(r - 1) : ts[m] = ts[m + 1]
    IN  IF target = Len(ts) THEN target
        ELSE IF left = begin THEN right
        ELSE IF right = Len(ts) \/ target - left < right - target THEN left
        ELSE right

Adaptive(ts, size) ==
    LET from[begin \in 0..Len(ts)] ==
            IF begin = Len(ts) THEN <<>>
            ELSE <<Cut(begin, AdaptiveEnd(ts, begin, size))>> \o from[AdaptiveEnd(ts, begin, size)]
    IN  from[0]

(* _resolve_range_time_ptr_2, of one of the three ranges. cut is the time     *)
(* split of the configuration and its size: windows or events of a window.    *)
Shift(windows, by) == [k \in DOMAIN windows |-> Cut(windows[k].begin + by, windows[k].end + by)]

RangeWindows(name, range, ts, cut) ==
    LET n == range.end - range.begin
        here == [i \in 1..n |-> ts[range.begin + i]]
        by == IF cut.by = "adaptive_batch" /\ name # "train" THEN "batch" ELSE cut.by
        local == CASE n = 0 -> <<>>
                   [] n > 0 /\ by = "adaptive_batch" -> Adaptive(here, cut.size)
                   [] n > 0 /\ by = "batch" -> Batched(n, cut.size)
                   [] n > 0 /\ by = "equal_edges" -> EqualEdges(n, cut.size)
    IN  Shift(local, range.begin)

(* resolve_split_time_ptr_2: windows that are given are only dealt out.       *)
SplitWindows(ranges, ts, cut) ==
    [name \in {"train", "val", "test"} |-> RangeWindows(name, ranges[name], ts, cut)]

DealtOut(windows, first, second) ==
    [train |-> SubSeq(windows, 1, first), val |-> SubSeq(windows, first + 1, second),
     test |-> SubSeq(windows, second + 1, Len(windows))]

(* concat_time_ptr_2, and where each of the three begins and ends in it.      *)
AllWindows(split) == split.train \o split.val \o split.test

Scopes(split) ==
    LET train == Len(split.train)
        val == train + Len(split.val)
    IN  <<Cut(0, train), Cut(train, val), Cut(val, val + Len(split.test))>>
=============================================================================
