---------------------------- MODULE SnapshotPush ----------------------------
(***************************************************************************)
(* Bounded owner history (runtime/memory/snapshot.py) as run_epoch drives  *)
(* it: every rank computes the rows it owns, publishes them to the ranks   *)
(* that subscribe to them once per batch unless the change is small, and   *)
(* reads the rows of the others from its own history.                      *)
(*                                                                         *)
(* Every rank owns one boundary row, named like the rank, and subscribes   *)
(* to the rows of all other ranks.  A publication is two steps: a blocking *)
(* exchange of counts, which every rank enters, and a push that arrives    *)
(* some time later; pushes between two ranks arrive in order.  `mark`      *)
(* holds the epoch that computed a packet.                                 *)
(***************************************************************************)
EXTENDS HistorySlots, Sequences, SequencesExt

CONSTANTS
    Rank,
    Splits,         \* the time splits in order: the end of each, in snapshots
    Epochs,         \* bound: number of resets
    MaxSkip         \* publications the filter may omit in a row

ASSUME RankAssumption == Rank # {}
ASSUME SplitsAssumption ==
    Splits \in Seq(Nat \ {0}) /\ Splits # <<>>
    /\ \A i, j \in 1 .. Len(Splits) : i < j => Splits[i] < Splits[j]
ASSUME EpochsAssumption == Epochs \in Nat \ {0}
ASSUME MaxSkipAssumption == MaxSkip \in Nat

VARIABLES
    pc,             \* where run_epoch and its caller stand
    epoch,
    batch,          \* the newest snapshot of the batch
    split,          \* the time split run_epoch is called for
    history,        \* snapshot_history: one row per rank
    version,        \* snapshot_version
    filter,         \* change_filter: omissions in a row, last publication
    entered,        \* exchanges of counts entered: the n-th calls match
    offer,          \* what launch_snapshot_push sends next
    pending,        \* pending_snapshot_pushes: how many
    channel         \* channel[p][r]: pushed by p, not received by r

vars == <<pc, epoch, batch, split, history, version, filter, entered,
          offer, pending, channel>>

Nothing == [version |-> 0, count |-> 0, mark |-> 0]

Snapshots == Splits[Len(Splits)]
SplitStart(i) == IF i = 1 THEN 0 ELSE Splits[i - 1]
Larger(x, y) == IF x < y THEN y ELSE x

\* _input_window: never reaches into the previous split.
FirstOfWider(r) == Larger(SplitStart(split[r]), batch[r] - WindowSize)
First(r) == Larger(SplitStart(split[r]), batch[r] - WindowSize + 1)

Others(r) == Rank \ {r}

ClearFilter == [count |-> 0, historical |-> Zero]

Init == /\ pc = [r \in Rank |-> "poll"]
        /\ epoch = [r \in Rank |-> 1]
        /\ batch = [r \in Rank |-> 0]
        /\ split = [r \in Rank |-> 1]
        /\ history = [r \in Rank |-> [p \in Rank |-> Fresh]]
        /\ version = [r \in Rank |-> 0]
        /\ filter = [r \in Rank |-> ClearFilter]
        /\ entered = [r \in Rank |-> 0]
        /\ offer = [r \in Rank |-> Nothing]
        /\ pending = [r \in Rank |-> 0]
        /\ channel = [p \in Rank |-> [r \in Rank |-> <<>>]]

-----------------------------------------------------------------------------
(* Receiving.                                                              *)

Arrived(r, n) == \A p \in Others(r) : Len(channel[p][r]) >= n

InstallIfSent(h, packet) == IF packet = Nothing THEN h ELSE Install(h, packet)

\* _finish_snapshot_push of the n oldest pushes.
Received(r, n) ==
    [p \in Rank |->
       IF p = r THEN history[r][p]
       ELSE FoldLeft(InstallIfSent, history[r][p], SubSeq(channel[p][r], 1, n))]

Consume(r, n) ==
    channel' = [p \in Rank |->
                 IF p = r THEN channel[p]
                 ELSE [channel[p] EXCEPT ![r] = SubSeq(@, n + 1, Len(@))]]

\* finish_snapshot_pushes(ready_only=False) waits for every push.
ReadyOnly(r) == {n \in 0 .. pending[r] : Arrived(r, n)}
AllPushes(r) == {n \in {pending[r]} : Arrived(r, n)}

\* finish_shared_ready: finishes what has arrived, if ready() says so yet.
Poll(r) ==
    /\ pc[r] = "poll"
    /\ \E n \in ReadyOnly(r) :
          /\ history' = [history EXCEPT ![r] = Received(r, n)]
          /\ pending' = [pending EXCEPT ![r] = @ - n]
          /\ Consume(r, n)
    /\ pc' = [pc EXCEPT ![r] = "hydrate"]
    /\ UNCHANGED <<epoch, batch, split, version, filter, entered, offer>>

Awaited(r) == AllPushes(r)

\* The checks before the wait hold: NothingRaises.
Hydrate(r) ==
    /\ pc[r] = "hydrate"
    /\ \E n \in Awaited(r) :
          /\ history' = [history EXCEPT ![r] =
                [p \in Rank |->
                   IF First(r) = Received(r, n)[p].window_start
                   THEN Received(r, n)[p]
                   ELSE Advance(Received(r, n)[p], First(r))]]
          /\ pending' = [pending EXCEPT ![r] = @ - n]
          /\ Consume(r, n)
    /\ pc' = [pc EXCEPT ![r] = "encode"]
    /\ UNCHANGED <<epoch, batch, split, version, filter, entered, offer>>

-----------------------------------------------------------------------------
(* Computing and publishing.                                               *)

\* commit_snapshot_history, one version after the other: the chunk limits of
\* older snapshots may leave the row out, the newest snapshot is complete.
Uncommitted(r) ==
    (IF pc[r] = "encode" THEN First(r) ELSE version[r]) + 1 .. batch[r] + 1

Commit(r) ==
    /\ pc[r] \in {"encode", "commit"}
    /\ \E v \in Uncommitted(r) :
          /\ history' = [history EXCEPT ![r][r] = Update(@, v, epoch[r])]
          /\ version' = [version EXCEPT ![r] = v]
          /\ pc' = [pc EXCEPT ![r] = IF v = batch[r] + 1 THEN "launch"
                                      ELSE "commit"]
    /\ UNCHANGED <<epoch, batch, split, filter, entered,
                   offer, pending, channel>>

Forced(r) == filter[r].count >= MaxSkip

\* Nothing to send is no reason to stay away.
EnterIfKept(keep) == IF keep THEN 1 ELSE 0
Enter(keep) == 1

\* launch_snapshot_push up to the exchange of counts, which it enters.
\* pending_snapshot_pushes never holds two here: OneInFlight.
Launch(r, keep) ==
    /\ pc[r] = "launch"
    /\ Forced(r) => keep
    /\ LET packet == Read(history[r][r], version[r])
       IN  /\ offer' = [offer EXCEPT ![r] = IF keep THEN packet ELSE Nothing]
           /\ filter' = [filter EXCEPT ![r] =
                           IF keep THEN [count |-> 0, historical |-> packet]
                           ELSE [count |-> @.count + 1,
                                 historical |-> @.historical]]
    /\ entered' = [entered EXCEPT ![r] = @ + Enter(keep)]
    /\ pc' = [pc EXCEPT ![r] = "counts"]
    /\ UNCHANGED <<epoch, batch, split, history, version, pending, channel>>

\* all_to_all_counts returns once every rank has entered it; the push follows.
Push(r) ==
    /\ pc[r] = "counts"
    /\ \A p \in Others(r) : entered[p] >= entered[r]
    /\ channel' = [channel EXCEPT ![r] =
                     [p \in Rank |-> IF p = r THEN @[p]
                                     ELSE Append(@[p], offer[r])]]
    /\ offer' = [offer EXCEPT ![r] = Nothing]
    /\ pending' = [pending EXCEPT ![r] = @ + 1]
    /\ batch' = [batch EXCEPT ![r] = @ + 1]
    /\ pc' = [pc EXCEPT ![r] =
                IF batch[r] + 1 = Splits[split[r]] THEN "end" ELSE "poll"]
    /\ UNCHANGED <<epoch, split, history, version, filter, entered>>

-----------------------------------------------------------------------------
(* The end of run_epoch, and the next call.                                *)

\* finish_state_update with final_shared_flush, then without it.
Flush(r) ==
    \E n \in AllPushes(r) :
       /\ history' = [history EXCEPT ![r] = Received(r, n)]
       /\ pending' = [pending EXCEPT ![r] = @ - n]
       /\ Consume(r, n)

KeepInFlight == UNCHANGED <<history, pending, channel>>

\* evaluate continues with the next split.
NextSplit(r) ==
    /\ pc[r] = "end"
    /\ Flush(r) \/ KeepInFlight
    /\ split[r] < Len(Splits)
    /\ split' = [split EXCEPT ![r] = @ + 1]
    /\ pc' = [pc EXCEPT ![r] = "poll"]
    /\ UNCHANGED <<epoch, batch, version, filter, entered, offer>>

LastSplit(r) ==
    /\ pc[r] = "end"
    /\ Flush(r) \/ KeepInFlight
    /\ split[r] = Len(Splits)
    /\ pc' = [pc EXCEPT ![r] = IF epoch[r] < Epochs THEN "reset" ELSE "done"]
    /\ UNCHANGED <<epoch, batch, split, version, filter, entered, offer>>

\* AsyncMemoryCommitter.reset: handle_last_async, then every history.
ClearedWindow(h) == [h EXCEPT !.window_start = 0]
Cleared(h) == Fresh

Reset(r) ==
    /\ pc[r] = "reset"
    /\ \E n \in AllPushes(r) :
          /\ pending' = [pending EXCEPT ![r] = @ - n]
          /\ Consume(r, n)
    /\ history' = [history EXCEPT ![r] = [p \in Rank |-> Cleared(history[r][p])]]
    /\ filter' = [filter EXCEPT ![r] = ClearFilter]
    /\ version' = [version EXCEPT ![r] = 0]
    /\ epoch' = [epoch EXCEPT ![r] = @ + 1]
    /\ batch' = [batch EXCEPT ![r] = 0]
    /\ split' = [split EXCEPT ![r] = 1]
    /\ pc' = [pc EXCEPT ![r] = "poll"]
    /\ UNCHANGED <<entered, offer>>

Step(r) == \/ Poll(r) \/ Hydrate(r) \/ Commit(r)
           \/ \E keep \in BOOLEAN : Launch(r, keep)
           \/ Push(r) \/ NextSplit(r) \/ LastSplit(r) \/ Reset(r)

Finished == (\A r \in Rank : pc[r] = "done") /\ UNCHANGED vars

Next == (\E r \in Rank : Step(r)) \/ Finished

Spec == Init /\ [][Next]_vars

\* A rank that can go on does, and what is pushed arrives.
FairSpec == Spec /\ \A r \in Rank : WF_vars(Step(r))

-----------------------------------------------------------------------------
(* Type correctness; the filter never omits more than MaxSkip publications *)
(* in a row.                                                               *)
TypeOK ==
    /\ pc \in [Rank -> {"poll", "hydrate", "encode", "commit", "launch", "counts",
                        "end", "reset", "done"}]
    /\ epoch \in [Rank -> 1 .. Epochs]
    /\ batch \in [Rank -> 0 .. Snapshots]
    /\ split \in [Rank -> 1 .. Len(Splits)]
    /\ history \in [Rank -> [Rank -> History]]
    /\ version \in [Rank -> 0 .. Snapshots]
    /\ filter \in [Rank -> [count : 0 .. MaxSkip, historical : Packet]]
    /\ entered \in [Rank -> Nat]
    /\ offer \in [Rank -> Packet]
    /\ pending \in [Rank -> Nat]
    /\ \A p, r \in Rank : \A i \in 1 .. Len(channel[p][r]) :
          channel[p][r][i] \in Packet

(* No check of hydrate_snapshot_history, advance or update ever raises:    *)
(* batches stay consecutive across splits and epochs, the window never     *)
(* moves back, and every version computed is inside it.                    *)
NothingRaises ==
    \A r \in Rank :
       /\ pc[r] = "hydrate" =>
             /\ batch[r] = version[r]
             /\ \A p \in Rank : history[r][p].window_start <= First(r)
       /\ pc[r] \in {"encode", "commit"} =>
             \A v \in Uncommitted(r) : Active(history[r][r], v)

(* The K bound of the bounded history: for every snapshot s of its window, *)
(* a rank reads the rows of the others at most MaxSkip versions old, while *)
(* the owner omits publications, pushes are late and windows slide.        *)
AgeBound ==
    \A r \in Rank : pc[r] = "encode" =>
       \A p \in Others(r) : \A s \in First(r) .. batch[r] :
          s - Read(history[r][p], s).version <= MaxSkip

(* What a rank reads for the newest snapshot is exactly the last thing the *)
(* owner published before this batch: the wait at the batch boundary loses *)
(* nothing, and the window refuses no publication.                         *)
SubscriberCurrent ==
    \A r \in Rank : pc[r] = "encode" =>
       \A p \in Others(r) :
          filter[p].historical.version <= batch[r] =>
             Read(history[r][p], batch[r]) = filter[p].historical

(* A publication of an earlier epoch never survives a reset, even when it  *)
(* was still in flight.                                                    *)
NoOldEpoch ==
    \A r \in Rank : pc[r] = "encode" =>
       \A p \in Rank : \A i \in Slot :
          LET packet == history[r][p].packets[i]
          IN  history[r][p].valid[i] /\ packet.version > 0
                => packet.mark = epoch[r]

(* At most one push of a rank is in flight, and none when it launches the  *)
(* next one: the backpressure branch of launch_snapshot_push never waits.  *)
OneInFlight ==
    \A r \in Rank : /\ pending[r] <= 1
                     /\ pc[r] = "launch" => pending[r] = 0

(* What an owner publishes reaches its subscribers before they read again, *)
(* in the epoch it belongs to and no other, with one push under way at     *)
(* most: hydrate_snapshot_history waits, reset drains.                     *)
PublicationsArrive == TypeOK /\ SubscriberCurrent /\ NoOldEpoch /\ OneInFlight

(* Every rank gets through every epoch: the exchanges of counts match up   *)
(* whatever the filters keep.                                              *)
Terminates == <>(\A r \in Rank : pc[r] = "done")
=============================================================================
