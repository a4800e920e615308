------------------------------ MODULE CausalLog ------------------------------
(***************************************************************************)
(* What SnapshotHistory promises for one row: the log of all observations  *)
(* it was given, one per version, read causally.  A version observed again *)
(* replaces the earlier observation; an observation that is ahead of the   *)
(* window is refused; nothing is ever forgotten but by a reset.            *)
(***************************************************************************)
EXTENDS Integers

CONSTANTS WindowSize, MaxVersion, Marks, PeerMarks, None

VARIABLES log, window_start

Version == 0 .. MaxVersion
Packet == [version : Version, count : Version,
           mark : Marks \cup PeerMarks \cup {0}]

Zero == [version |-> 0, count |-> 0, mark |-> 0]

EmptyLog == [v \in Version |-> IF v = 0 THEN Zero ELSE None]

IsLatest(u, version) ==
    /\ u \in 0 .. version /\ log[u] # None
    /\ \A v \in u + 1 .. version : log[v] = None

\* The value a reader of this version may use.
View(version) == log[CHOOSE u \in Version : IsLatest(u, version)]

Init == log = EmptyLog /\ window_start = 0

Observe(packet) ==
    /\ packet.version <= window_start + WindowSize
    /\ log' = [log EXCEPT ![packet.version] = packet]
    /\ UNCHANGED window_start

\* A version computed from the latest earlier one counts one more step.
Compute(version, mark) ==
    /\ window_start < version
    /\ Observe([version |-> version,
                count |-> View(version - 1).count + 1,
                mark |-> mark])

Advance(start) ==
    /\ start > window_start
    /\ window_start' = start
    /\ UNCHANGED log

Reset == log' = EmptyLog /\ window_start' = 0

Next == \/ \E packet \in Packet :
              packet.version > 0 /\ packet.mark \in PeerMarks /\ Observe(packet)
        \/ \E version \in Version, mark \in Marks : Compute(version, mark)
        \/ \E start \in Version : Advance(start)
        \/ Reset

Spec == Init /\ [][Next]_<<log, window_start>>
=============================================================================
