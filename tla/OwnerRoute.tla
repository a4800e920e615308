----------------------------- MODULE OwnerRoute -----------------------------
(* The index arithmetic of an owner request: which order the ids travel in,   *)
(* how the answers are put back, and how a list with repetitions is asked for *)
(* once and expanded. Lists are sequences; positions count from 1.            *)
EXTENDS Integers, Sequences, FiniteSets

Elements(s) == {s[i] : i \in DOMAIN s}

(* The elements of a finite set of integers in increasing order. *)
Increasing(S) ==
    [k \in 1..Cardinality(S) |->
        CHOOSE x \in S : Cardinality({y \in S : y < x}) = k - 1]

(* The positions that a stable sort of keys puts before position i. *)
Earlier(keys, i) ==
    {j \in DOMAIN keys : keys[j] < keys[i] \/ (keys[j] = keys[i] /\ j < i)}

(* torch.argsort(keys, stable=True). *)
Argsort(keys) ==
    [q \in DOMAIN keys |->
        CHOOSE i \in DOMAIN keys : Cardinality(Earlier(keys, i)) = q - 1]

Pick(s, order) == [q \in DOMAIN order |-> s[order[q]]]

(* s[mask]: what a mask leaves of a list, in its order. *)
Masked(s, places) == Pick(s, Increasing(places))

(* Variant: the answers are taken in the order they arrive. *)
RestoreNothing(s, order) == s

(* _restore_order: what arrived at place q belongs to position order[q]. *)
Restore(s, order) ==
    [i \in DOMAIN order |-> s[CHOOSE q \in DOMAIN order : order[q] = i]]

(* torch.unique(s, sorted=True, return_inverse=True). *)
Unique(s) == Increasing(Elements(s))

InverseOf(s) ==
    [i \in DOMAIN s |-> CHOOSE k \in DOMAIN Unique(s) : Unique(s)[k] = s[i]]
=============================================================================
