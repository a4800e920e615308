--------------------------- MODULE MCEventMemory ---------------------------
(* Two ranks; r1 owns node a, r2 owns b and c.  Every table has windows    *)
(* where both ranks hold an event of the same node, and a window where a   *)
(* rank has none.                                                          *)
EXTENDS EventMemory

CONSTANTS r1, r2, a, b, c

OwnerOf == (a :> r1) @@ (b :> r2) @@ (c :> r2)

Event(src, dst, rank, window, ts) ==
    [src |-> src, dst |-> dst, rank |-> rank, window |-> window, ts |-> ts]

\* Every way to spread three windows over the ranks and over three endpoints.
ExactTables ==
    {<<Event(a, b, p, 1, 1), Event(b, c, q, 1, 2), Event(x, a, p, 2, 3),
       Event(a, x, r1, 3, 4), Event(y, c, q, 3, 5)>> :
       p, q \in {r1, r2}, x, y \in {a, b, c}}

\* Ties within a window, none between windows; self-loops.
HotTables ==
    {<<Event(a, b, r1, 1, 1), Event(b, a, r2, 1, 1), Event(a, x, r1, 2, 2),
       Event(x, a, r2, 3, 3)>> : x \in {a, b}}

\* Exact runs over the first, bounded-stale runs over the second.
BothRuns == [table : ExactTables, bounded : {FALSE}]
              \cup [table : HotTables, bounded : {TRUE}]

\* The hot node is written in every window.
BusyTables ==
    {<<Event(a, b, r1, 1, 1), Event(a, b, r2, 2, 2), Event(b, a, r1, 3, 3),
       Event(a, b, r1, 4, 4), Event(a, b, r1, 5, 5)>>}
BusyRuns == [table : BusyTables, bounded : {TRUE}]
=============================================================================
