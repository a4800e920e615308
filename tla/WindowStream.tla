---------------------------- MODULE WindowStream ----------------------------
(***************************************************************************)
(* What iterating a DataLoader promises the training loop, whatever the    *)
(* threads behind it do: every window once, in the order of the source     *)
(* binding, then one way of ending.  An iteration ends as exhausted only   *)
(* after the last window, and raises only if something in it raised.       *)
(***************************************************************************)
EXTENDS Integers

CONSTANTS Windows, MayFail, MayClose

VARIABLES yielded, outcome

vars == <<yielded, outcome>>

Init == yielded = 0 /\ outcome = "running"

Yield ==
    /\ outcome = "running"
    /\ yielded < Windows
    /\ yielded' = yielded + 1
    /\ UNCHANGED outcome

Exhaust ==
    /\ outcome = "running"
    /\ yielded = Windows
    /\ outcome' = "exhausted"
    /\ UNCHANGED yielded

Raise ==
    /\ outcome = "running"
    /\ MayFail
    /\ outcome' = "raised"
    /\ UNCHANGED yielded

Close ==
    /\ outcome = "running"
    /\ MayClose
    /\ yielded > 0
    /\ outcome' = "closed"
    /\ UNCHANGED yielded

Next == Yield \/ Exhaust \/ Raise \/ Close

Safety == Init /\ [][Next]_vars

\* The loop body returns, so the stream never stalls.
Spec == Safety /\ WF_vars(Next)
=============================================================================
