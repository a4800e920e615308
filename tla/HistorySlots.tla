---------------------------- MODULE HistorySlots ----------------------------
(***************************************************************************)
(* SnapshotHistory (store/snapshot_history.py) as operators on the history *)
(* of one row.  The tensors of the class hold one such history per node,   *)
(* and every method acts on each row it is given independently.            *)
(*                                                                         *)
(* WindowSize circular slots 1 .. WindowSize hold the versions of the      *)
(* active window (window_start, window_start + WindowSize]; slot 0 holds   *)
(* the predecessor.  Of a packet's columns the version and the observation *)
(* count are kept, and `mark` stands for state and mean increment.         *)
(***************************************************************************)
EXTENDS Integers

CONSTANT WindowSize

ASSUME WindowSizeAssumption == WindowSize \in Nat \ {0}

Slot == 0 .. WindowSize

Packet == [version : Nat, count : Nat, mark : Nat]

Zero == [version |-> 0, count |-> 0, mark |-> 0]

History == [window_start : Nat, valid : [Slot -> BOOLEAN],
            packets : [Slot -> Packet]]

\* __init__ and reset
Fresh == [window_start |-> 0,
          valid |-> [i \in Slot |-> i = 0],
          packets |-> [i \in Slot |-> Zero]]

-----------------------------------------------------------------------------
(* read: the newest valid packet no newer than version.                    *)

Causal(h, version) ==
    {i \in Slot : h.valid[i] /\ h.packets[i].version <= version}

NewestSlot(h, slots) ==
    CHOOSE i \in slots :
        \A j \in slots : h.packets[j].version <= h.packets[i].version

Read(h, version) ==
    LET slots == Causal(h, version)
    IN  IF slots = {} THEN Zero ELSE h.packets[NewestSlot(h, slots)]

-----------------------------------------------------------------------------
(* advance, install, update.                                               *)

OldSeed(h, start) == h.packets[0]
Seed(h, start) == Read(h, start)

StillValid(h, start, i) == h.valid[i] /\ h.packets[i].version > start

Advance(h, start) ==
    [window_start |-> start,
     valid |-> [i \in Slot |-> i = 0 \/ StillValid(h, start, i)],
     packets |-> [h.packets EXCEPT ![0] = Seed(h, start)]]

\* version % window_size puts window_size on slot 1 as well.
SlotOf(start, version) ==
    IF version <= start THEN 0 ELSE 1 + ((version - 1) % WindowSize)

OutrunsWindow(start, version) == FALSE
BeyondWindow(start, version) == version > start + WindowSize

Supersedes(h, i, version) ==
    h.valid[i] /\ version < h.packets[i].version

Install(h, packet) ==
    LET i == SlotOf(h.window_start, packet.version)
    IN  IF \/ BeyondWindow(h.window_start, packet.version)
           \/ Supersedes(h, i, packet.version)
        THEN h
        ELSE [window_start |-> h.window_start,
              valid |-> [h.valid EXCEPT ![i] = TRUE],
              packets |-> [h.packets EXCEPT ![i] = packet]]

CountFromSelf(version) == version
CountedFrom(version) == version - 1

Active(h, version) ==
    /\ h.window_start < version
    /\ version <= h.window_start + WindowSize

\* update, in the window: a version computed again is counted once.
Update(h, version, mark) ==
    LET previous == Read(h, CountedFrom(version))
    IN  Install(h, [version |-> version,
                    count |-> previous.count + 1,
                    mark |-> mark])
=============================================================================
