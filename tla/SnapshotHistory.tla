--------------------------- MODULE SnapshotHistory ---------------------------
(***************************************************************************)
(* The life of one row of a SnapshotHistory: a window that slides forward, *)
(* versions computed locally and computed again while the window still     *)
(* covers them, packets of other ranks that arrive late, twice or ahead of *)
(* the window, and resets between epochs.                                  *)
(*                                                                         *)
(* `log` is no part of the class: it records what was accepted, so that    *)
(* the WindowSize + 1 slots can be compared with the full log they stand   *)
(* for (module CausalLog).                                                 *)
(***************************************************************************)
EXTENDS HistorySlots

CONSTANTS
    MaxVersion,     \* bound: snapshots of the dataset
    Marks,          \* different values a version may be computed to
    PeerMarks,      \* different values the packets of other ranks carry
    None            \* no observation of a version

ASSUME MaxVersionAssumption == MaxVersion \in Nat
ASSUME MarksAssumption == Marks \subseteq Nat /\ PeerMarks \subseteq Nat
ASSUME NoneAssumption == None \notin Packet

VARIABLES row, log

rowvars == <<row, log>>

Version == 0 .. MaxVersion

Abstract == INSTANCE CausalLog WITH window_start <- row.window_start

RowInit == row = Fresh /\ log = Abstract!EmptyLog

AdvanceWindow(start) ==
    /\ start > row.window_start         \* equal: returns, smaller: raises
    /\ row' = Advance(row, start)
    /\ UNCHANGED log

UpdateRow(version, mark) ==
    /\ Active(row, version)             \* otherwise raises
    /\ row' = Update(row, version, mark)
    /\ log' = [log EXCEPT ![version] =
                 [version |-> version,
                  count |-> Read(row, CountedFrom(version)).count + 1,
                  mark |-> mark]]

\* A packet of the owner's history: as many observations as its version
\* at most.
InstallPacket(version, count, mark) ==
    LET packet == [version |-> version, count |-> count, mark |-> mark]
    IN  /\ row' = Install(row, packet)
        /\ log' = IF version <= row.window_start + WindowSize
                  THEN [log EXCEPT ![version] = packet] ELSE log

ResetRow == row' = Fresh /\ log' = Abstract!EmptyLog

RowNext ==
    \/ \E start \in Version : AdvanceWindow(start)
    \/ \E version \in Version, mark \in Marks : UpdateRow(version, mark)
    \/ \E version \in 1 .. MaxVersion, mark \in PeerMarks :
          \E count \in 1 .. version : InstallPacket(version, count, mark)
    \/ ResetRow

RowSpec == RowInit /\ [][RowNext]_rowvars

-----------------------------------------------------------------------------
(* Type correctness.  No packet counts more observations than the dataset  *)
(* has snapshots, however often overlapping windows compute a version.     *)
RowTypeOK ==
    /\ row \in History
    /\ row.window_start \in Version
    /\ \A i \in Slot : /\ row.packets[i].version \in Version
                       /\ row.packets[i].count \in Version
    /\ log \in [Version -> Packet \cup {None}]

(* A read of any version at or after the window start, the only versions   *)
(* hydrate_snapshot_history asks for, returns what the full log would: no  *)
(* slot that was reused, no late packet and no promotion of the            *)
(* predecessor is ever visible.                                            *)
ReadsTheLog ==
    \A version \in row.window_start .. MaxVersion :
        Read(row, version) = Abstract!View(version)

(* The cumulative mean is taken over distinct snapshots: an observation    *)
(* count never exceeds the version, so a snapshot that overlapping windows *)
(* compute again does not weigh twice.                                     *)
CountsOnce ==
    \A i \in Slot : row.packets[i].count <= row.packets[i].version

(* The slots implement the log: what update derives from the slots is what *)
(* it would derive from everything ever observed.                          *)
ImplementsLog == Abstract!Spec
=============================================================================
