------------------------------ MODULE TaskTables ------------------------------
(* prepare/task.py: what a rank is to predict in each window: the edges it    *)
(* owns, of the window itself or, over snapshots, of the next one; or the     *)
(* labels of the nodes it owns, in the window they belong to by their time.   *)
EXTENDS PartitionPlan, TimeSplits

(* Variant: the windows of all splits in one row. *)
NextOfAll(split, k) == IF k < Len(AllWindows(split)) THEN k + 1 ELSE 0

(* The window whose edges are predicted from window k, 0 for none: never one  *)
(* of another split.                                                          *)
NextInScope(split, k) ==
    LET scope == CHOOSE i \in 1..3 : k \in Rows(Scopes(split)[i])
    IN  IF k < Scopes(split)[scope].end THEN k + 1 ELSE 0

EdgeTargets(rank, split, snapshot) ==
    LET windows == AllWindows(split)
        target(k) == IF snapshot THEN NextInScope(split, k) ELSE k
        rows(w) == Increasing({e \in Rows(w) : Owner(e) = rank})
    IN  [k \in DOMAIN windows |-> IF target(k) = 0 THEN <<>> ELSE rows(windows[target(k)])]
-----------------------------------------------------------------------------
(* _label_windows: the first window, among those that hold events, whose last *)
(* event is not earlier than the label; past them all, the last. With splits  *)
(* given, only among the windows of its own.                                  *)
Filled(split, scope) ==
    Increasing({k \in Rows(scope) : AllWindows(split)[k].end > AllWindows(split)[k].begin})

LabelWindow(split, scope, ts) ==
    LET held == Filled(split, scope)
        ends == [i \in DOMAIN held |-> events[AllWindows(split)[held[i]].end].ts]
        place == 1 + Cardinality({i \in DOMAIN ends : ends[i] < ts})
    IN  IF held = <<>> THEN 0 ELSE held[IF place > Len(held) THEN Len(held) ELSE place]

(* _node_label_splits: labels that come by their time alone get the split of  *)
(* the events, if those are labelled, that began up to one before them and    *)
(* are not over; the last such one, or test. Splits count from 1, 0 is none.  *)
LabelSplits(labels, edge_split) ==
    LET times(k) == {events[e].ts : e \in {e \in DOMAIN edge_split : edge_split[e] = k}}
        covers(k, ts) == \E t, u \in times(k) : t <= ts + 1 /\ ts < u
        found(i) == {k \in 0..2 : covers(k, labels[i].ts)}
    IN  [i \in DOMAIN labels |->
            IF \A j \in DOMAIN labels : found(j) = {} THEN 0
            ELSE IF found(i) = {} THEN 3
            ELSE 1 + CHOOSE k \in found(i) : \A other \in found(i) : other <= k]

(* _node_table: with a horizon, the last windows of a split predict nothing.  *)
Predicts(split, k, horizon, snapshot) ==
    snapshot => \A i \in 1..3 :
        k \in Rows(Scopes(split)[i]) => k <= Scopes(split)[i].end - horizon

LabelTargets(rank, split, labels, label_split, horizon, snapshot) ==
    LET windows == AllWindows(split)
        scope(i) == IF \A j \in DOMAIN labels : label_split[j] = 0 THEN Cut(0, Len(windows))
                    ELSE Scopes(split)[label_split[i]]
    IN  [k \in DOMAIN windows |->
            {i \in DOMAIN labels :
                /\ Master(labels[i].node) = rank
                /\ Predicts(split, k, horizon, snapshot)
                /\ LabelWindow(split, scope(i), labels[i].ts) = k}]
=============================================================================
