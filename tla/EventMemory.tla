---------------------------- MODULE EventMemory ----------------------------
(***************************************************************************)
(* Node memory and mailbox of event models (runtime/memory, store/state.py *)
(* and store/mailbox.py) over one epoch after another.  Every rank trains  *)
(* on the events it is master of; what it computes for a node is pushed to *)
(* the owner of the node, and read back from there by every rank.          *)
(*                                                                         *)
(* A value is the row of the event that wrote it, 0 before any did.  Exact *)
(* runs finish the previous commit before they read.  Bounded-stale runs   *)
(* read one window ahead of the training loop, and read hot nodes they do  *)
(* not own from a local replica refreshed by gathers that complete late.   *)
(* The ranks issue the same calls in the same order: `entered` counts the  *)
(* blocking ones, of which one stands for the consecutive ones of a phase. *)
(***************************************************************************)
EXTENDS Integers, Sequences, FiniteSets, SequencesExt

CONSTANTS
    Rank, Node,
    Owner,          \* node_master
    Hot,            \* the nodes every rank keeps a shared replica of
    Runs,           \* what may be run: a prepared event table in time order, and
                    \* whether consistency = "bounded_stale"
    Windows,
    Slots,          \* mailbox_size
    MaxSkip,        \* refreshes the filter may omit in a row; 0: no filter
    Epochs          \* bound: number of resets

ASSUME RankAssumption == Rank # {} /\ Owner \in [Node -> Rank]
ASSUME HotAssumption == Hot \subseteq Node
ASSUME SizeAssumption ==
    Windows \in Nat \ {0} /\ Slots \in Nat \ {0} /\ Epochs \in Nat \ {0}
    /\ MaxSkip \in Nat
ASSUME RunsAssumption ==
    /\ Runs \subseteq [table : Seq([src : Node, dst : Node, rank : Rank,
                                   window : 1 .. Windows, ts : Nat]),
                       bounded : BOOLEAN]
    /\ \A run \in Runs : \A i, j \in DOMAIN run.table : i < j =>
          /\ run.table[i].window <= run.table[j].window
          /\ run.table[i].ts <= run.table[j].ts

VARIABLES
    table,          \* the prepared events
    bounded,        \* bounded_stale_reads
    pc,             \* where the training loop of a rank stands
    epoch,
    requested,      \* windows whose state has been requested
    batch,          \* windows trained
    owned,          \* the authoritative memory and mailbox of every node
    shared,         \* the replica of the hot nodes on every rank
    pending,        \* windows whose owner commit is not finished
    syncs,          \* pending_shared_sync: gathers launched and not finished
    offer,          \* offer[r][j]: what r put into its j-th gather
    skipped,        \* change_filter.count
    view,           \* local rows of the windows requested and not trained
    answer,         \* answer[p][r]: rows p sent to r, not taken yet
    seen,           \* the state the window in training was given
    entered         \* blocking calls entered: the n-th calls match

progress == <<table, bounded, epoch, requested, batch>>
reads == <<view, answer, seen>>
commits == <<owned, pending>>
replicas == <<shared, syncs>>
publish == <<offer, skipped>>
vars == <<progress, pc, reads, commits, replicas, publish, entered>>

Owned(r) == {n \in Node : Owner[n] = r}

-----------------------------------------------------------------------------
(* Prepared events: who writes what.                                       *)

RowsOf(k) == {i \in DOMAIN table : table[i].window = k}
Endpoints(i) == {table[i].src, table[i].dst}
Ts(i) == IF i = 0 THEN 0 ELSE table[i].ts


\* The endpoints whose last event in its window is event i, over all ranks.
StateWriteMask(i) ==
    {n \in Endpoints(i) :
       \A j \in RowsOf(table[i].window) : n \in Endpoints(j) => j <= i}

\* The rows that reach the owner of n from all ranks in window k, and those
\* of one rank.
Writes(n, k) == {i \in RowsOf(k) : n \in StateWriteMask(i)}
WritesBy(r, n, k) == {i \in Writes(n, k) : table[i].rank = r}

-----------------------------------------------------------------------------
(* Applying a commit to the memory and the mailbox of one node.            *)

Slot == 1 .. Slots
Zero == [memory |-> 0, mailbox |-> [s \in Slot |-> 0]]

AnyRow(old, rows) == IF rows = {} THEN {old} ELSE rows

\* index_copy_ of the rows not older than the memory; with several of them
\* the outcome is unspecified.
StateCommits(old, rows) ==
    LET kept == {i \in rows : Ts(i) >= Ts(old)}
    IN  IF kept = {} THEN {old} ELSE kept

\* _deduplicate_latest, latest_by_node: the latest time, the last position.
Latest(rows) ==
    CHOOSE i \in rows :
       \A j \in rows : Ts(j) < Ts(i) \/ (Ts(j) = Ts(i) /\ j <= i)

OldestSlot(box) ==
    CHOOSE s \in Slot : \A t \in Slot :
       Ts(box[s]) < Ts(box[t]) \/ (Ts(box[s]) = Ts(box[t]) /\ s <= t)
AppendMail(box, rows) ==
    IF rows = {} THEN box ELSE [box EXCEPT ![OldestSlot(box)] = Latest(rows)]

CommitLocal(group, rows) ==
    {[memory |-> m, mailbox |-> AppendMail(group.mailbox, rows)] :
       m \in StateCommits(group.memory, rows)}

\* What is under way is known by its number: it is finished in that order.
InOrder(finish(_, _), state, numbers) ==
    MapThenFoldSet(finish, state, LAMBDA j : j, LAMBDA js : Max(js), numbers)

\* The outcomes of the unfinished commits of the owner of n, oldest first.
Outcomes(n, windows) ==
    InOrder(LAMBDA k, groups :
               UNION {CommitLocal(group, Writes(n, k)) : group \in groups},
            {owned[n]}, windows)

-----------------------------------------------------------------------------
(* Finishing what is under way.                                            *)

\* handle_owner_async: wait for the pushes to this rank and apply them.
FinishOwner(r) ==
    /\ \E result \in [Owned(r) -> UNION {Outcomes(n, pending[r]) : n \in Owned(r)}] :
          /\ \A n \in Owned(r) : result[n] \in Outcomes(n, pending[r])
          /\ owned' = [n \in Node |-> IF n \in Owned(r) THEN result[n] ELSE owned[n]]
    /\ pending' = [pending EXCEPT ![r] = {}]

Arrived(j) == \A p \in Rank : Len(offer[p]) >= j

\* finish_shared_sync: the rows all ranks gathered, the latest of each node.
FinishSync(j, replica) ==
    [n \in Hot |->
       LET rows == {d.row : d \in {e \in UNION {offer[p][j] : p \in Rank} :
                                     e.node = n}}
       IN  CHOOSE g \in CommitLocal(replica[n],
                                    IF rows = {} THEN {} ELSE {Latest(rows)}) :
              TRUE]

\* Finish the chosen gathers, in the order they were launched.
FinishSyncs(r, chosen) ==
    /\ shared' = [shared EXCEPT ![r] = InOrder(FinishSync, @, chosen)]
    /\ syncs' = [syncs EXCEPT ![r] = @ \ chosen]

\* finish_shared_ready asks one gather after the other and keeps those that
\* are not complete: a later one may complete while it walks the list.
Poll(r) == \E chosen \in SUBSET {j \in syncs[r] : Arrived(j)} :
              FinishSyncs(r, chosen)

\* finish_shared_async waits for all of them.
FinishAll(r) == /\ \A j \in syncs[r] : Arrived(j)
                /\ FinishSyncs(r, syncs[r])

-----------------------------------------------------------------------------
(* Reading.                                                                *)

\* A call blocks until every rank has entered it.
Enter(r) == entered' = [entered EXCEPT ![r] = @ + 1]
AllEntered(r) == \A p \in Rank : entered[p] >= entered[r]

FromReplica(r, n) == bounded /\ n \in Hot /\ Owner[n] # r
FromOther(r, n) == ~FromReplica(r, n) /\ Owner[n] # r

ReadUndrained(r) == UNCHANGED commits
DrainBeforeRead(r) == FinishOwner(r)

\* submit_hydrate_state: poll, finish the owner commits, take the local rows
\* and ask the owners for the rest.
Request(r) ==
    /\ pc[r] = "request"
    /\ Poll(r)
    /\ DrainBeforeRead(r)
    /\ view' = [view EXCEPT ![r] = Append(@,
          [n \in {m \in Node : ~FromOther(r, m)} |->
             IF FromReplica(r, n) THEN shared'[r][n] ELSE owned'[n]])]
    /\ requested' = [requested EXCEPT ![r] = @ + 1]
    /\ Enter(r)
    /\ pc' = [pc EXCEPT ![r] = "respond"]
    /\ UNCHANGED <<table, bounded, epoch, batch, answer, seen, publish>>

\* The owner's side of the fetch.  The prefetched window 2 is requested
\* before the training loop is given window 1.
Respond(r) ==
    /\ pc[r] = "respond"
    /\ AllEntered(r)
    /\ answer' = [answer EXCEPT ![r] =
          [p \in Rank |-> Append(@[p], [n \in Owned(r) |-> owned[n]])]]
    /\ pc' = [pc EXCEPT ![r] =
          IF bounded /\ batch[r] = 0 /\ requested[r] = 1 /\ Windows > 1
          THEN "request" ELSE "train"]
    /\ UNCHANGED <<progress, view, seen, commits, replicas, publish, entered>>

\* finish_hydrate_state, and run_epoch up to model.state_update.
Train(r) ==
    /\ pc[r] = "train"
    /\ \A p \in Rank : answer[p][r] # <<>>
    /\ Poll(r)
    /\ seen' = [seen EXCEPT ![r] =
          [n \in Node |-> IF FromOther(r, n) THEN Head(answer[Owner[n]][r])[n]
                                             ELSE Head(view[r])[n]]]
    /\ view' = [view EXCEPT ![r] = Tail(@)]
    /\ answer' = [p \in Rank |-> [answer[p] EXCEPT ![r] = Tail(@)]]
    /\ batch' = [batch EXCEPT ![r] = @ + 1]
    /\ pc' = [pc EXCEPT ![r] = "commit"]
    /\ UNCHANGED <<table, bounded, epoch, requested, commits, publish, entered>>

-----------------------------------------------------------------------------
(* Committing.                                                             *)


\* needs_empty_state_commit: a rank without an event commits an empty delta.
EnterCommit(r) == Enter(r)

\* launch_state_update.
Commit(r) ==
    /\ pc[r] = "commit"
    /\ EnterCommit(r)
    /\ pc' = [pc EXCEPT ![r] = "push"]
    /\ UNCHANGED <<progress, reads, commits, replicas, publish>>

AfterCommit(r) ==
    IF batch[r] = Windows THEN "end"
    ELSE IF requested[r] < Windows THEN "request" ELSE "train"

\* The filter keeps what changed enough, and what it omitted MaxSkip times.
Candidates(r) == {n \in Hot : WritesBy(r, n, batch[r]) # {}}
Forced(r, n) == skipped[r][n] >= MaxSkip

GatherIfKept(r, kept) == IF kept # {} THEN Enter(r) ELSE UNCHANGED entered
EnterGather(r, kept) == Enter(r)

\* submit_commit: push to the owners, filter what goes to the replicas.
Push(r) ==
    /\ pc[r] = "push"
    /\ AllEntered(r)
    /\ pending' = [pending EXCEPT ![r] = @ \cup {batch[r]}]
    /\ IF bounded
       THEN \E kept \in SUBSET Candidates(r) :
               /\ \A n \in Candidates(r) : Forced(r, n) => n \in kept
               /\ offer' = [offer EXCEPT ![r] = Append(@,
                     UNION {{[node |-> n, row |-> i] :
                                i \in WritesBy(r, n, batch[r])} : n \in kept})]
               /\ skipped' = [skipped EXCEPT ![r] =
                     [n \in Hot |-> IF n \notin Candidates(r) THEN @[n]
                                    ELSE IF n \in kept THEN 0 ELSE @[n] + 1]]
               /\ EnterGather(r, kept)
               /\ pc' = [pc EXCEPT ![r] = "gather"]
       ELSE /\ pc' = [pc EXCEPT ![r] = AfterCommit(r)]
            /\ UNCHANGED <<publish, entered>>
    /\ UNCHANGED <<progress, reads, owned, replicas>>

\* launch_shared_sync: the counts block, the payload completes later.
Gather(r) ==
    /\ pc[r] = "gather"
    /\ AllEntered(r)
    /\ syncs' = [syncs EXCEPT ![r] = @ \cup {Len(offer[r])}]
    /\ pc' = [pc EXCEPT ![r] = AfterCommit(r)]
    /\ UNCHANGED <<progress, reads, commits, publish, shared, entered>>

-----------------------------------------------------------------------------
(* The end of an epoch.                                                    *)

\* finish_state_update(final): final_shared_flush is an option.
Finish(r) ==
    /\ pc[r] = "end"
    /\ FinishOwner(r)
    /\ FinishAll(r) \/ UNCHANGED replicas
    /\ pc' = [pc EXCEPT ![r] = "reset"]
    /\ UNCHANGED <<progress, reads, publish, entered>>

ClearedReplica(r) == [n \in Hot |-> Zero]

\* AsyncMemoryCommitter.reset: drain, then clear.
Reset(r) ==
    /\ pc[r] = "reset"
    /\ \A j \in syncs[r] : Arrived(j)
    /\ owned' = [n \in Node |-> IF n \in Owned(r) THEN Zero ELSE owned[n]]
    /\ shared' = [shared EXCEPT ![r] = ClearedReplica(r)]
    /\ syncs' = [syncs EXCEPT ![r] = {}]
    /\ skipped' = [skipped EXCEPT ![r] = [n \in Hot |-> 0]]
    /\ requested' = [requested EXCEPT ![r] = 0]
    /\ batch' = [batch EXCEPT ![r] = 0]
    /\ epoch' = [epoch EXCEPT ![r] = @ + 1]
    /\ pc' = [pc EXCEPT ![r] = IF epoch[r] = Epochs THEN "done" ELSE "request"]
    /\ UNCHANGED <<table, bounded, reads, pending, offer, entered>>

-----------------------------------------------------------------------------
Init == /\ \E run \in Runs : table = run.table /\ bounded = run.bounded
        /\ pc = [r \in Rank |-> "request"]
        /\ epoch = [r \in Rank |-> 1]
        /\ requested = [r \in Rank |-> 0]
        /\ batch = [r \in Rank |-> 0]
        /\ owned = [n \in Node |-> Zero]
        /\ shared = [r \in Rank |-> [n \in Hot |-> Zero]]
        /\ pending = [r \in Rank |-> {}]
        /\ syncs = [r \in Rank |-> {}]
        /\ offer = [r \in Rank |-> <<>>]
        /\ skipped = [r \in Rank |-> [n \in Hot |-> 0]]
        /\ view = [r \in Rank |-> <<>>]
        /\ answer = [p \in Rank |-> [r \in Rank |-> <<>>]]
        /\ seen = [r \in Rank |-> [n \in Node |-> Zero]]
        /\ entered = [r \in Rank |-> 0]

Step(r) == \/ Request(r) \/ Respond(r) \/ Train(r)
           \/ Commit(r) \/ Push(r) \/ Gather(r)
           \/ Finish(r) \/ Reset(r)

Done == (\A r \in Rank : pc[r] = "done") /\ UNCHANGED vars

Next == (\E r \in Rank : Step(r)) \/ Done

Spec == Init /\ [][Next]_vars

\* A rank that can go on does.
FairSpec == Spec /\ \A r \in Rank : WF_vars(Step(r))

-----------------------------------------------------------------------------
(* What sequential processing of the windows would have stored.            *)

\* The events up to window k that are the last of their window to touch n.
Past(n, k) ==
    {i \in DOMAIN table :
       /\ table[i].window <= k /\ n \in Endpoints(i)
       /\ \A j \in RowsOf(table[i].window) : n \in Endpoints(j) => j <= i}
LastWrite(n, k) == CHOOSE i \in Past(n, k) \cup {0} : \A j \in Past(n, k) : j <= i
Newest(n, k) ==
    {i \in Past(n, k) : Cardinality({j \in Past(n, k) : j > i}) < Slots}
      \cup (IF Cardinality(Past(n, k)) < Slots THEN {0} ELSE {})

-----------------------------------------------------------------------------
\* No two windows share a time, so that time tells their commits apart; and
\* no event has the time of a slot that was never written.
Untied(t) == \A i, j \in DOMAIN t : t[i].window < t[j].window => t[i].ts < t[j].ts
Positive(t) == \A i \in DOMAIN t : t[i].ts > 0

(* Type correctness.                                                       *)
Group == [memory : 0 .. Len(table), mailbox : [Slot -> 0 .. Len(table)]]
TypeOK ==
    /\ [table |-> table, bounded |-> bounded] \in Runs
    /\ pc \in [Rank -> {"request", "respond", "train", "commit", "push",
                        "gather", "end", "reset", "done"}]
    /\ epoch \in [Rank -> 1 .. Epochs + 1]
    /\ requested \in [Rank -> 0 .. Windows]
    /\ batch \in [Rank -> 0 .. Windows]
    /\ owned \in [Node -> Group]
    /\ shared \in [Rank -> [Hot -> Group]]
    /\ pending \in [Rank -> SUBSET (1 .. Windows)]
    /\ syncs \in [Rank -> SUBSET (Nat \ {0})]
    /\ skipped \in [Rank -> [Hot -> 0 .. MaxSkip]]
    /\ seen \in [Rank -> [Node -> Group]]
    /\ entered \in [Rank -> Nat]

(* A rank that trains window k is given, for every node it reads from an   *)
(* owner (its own rows included), the memory and the mailbox sequential    *)
(* processing leaves after window k - 1 in exact runs and after window     *)
(* k - 2 in bounded-stale runs: never more, never less, never the memory   *)
(* of one window with the mail of another, whatever ranks wrote it.        *)
Lag == IF bounded THEN 2 ELSE 1
MemoryCurrent ==
    \A r \in Rank : pc[r] = "commit" =>
       \A n \in Node : ~FromReplica(r, n) =>
          seen[r][n].memory = LastWrite(n, batch[r] - Lag)
MailCurrent ==
    \A r \in Rank : pc[r] = "commit" =>
       \A n \in Node : ~FromReplica(r, n) =>
          {seen[r][n].mailbox[s] : s \in Slot} = Newest(n, batch[r] - Lag)

(* The memory of a hot node read from a replica is one its owner committed *)
(* in this epoch, and no newer than what the owner's own readers are given.*)
ReplicaReadsThePast ==
    \A r \in Rank : pc[r] = "commit" =>
       \A n \in Node : FromReplica(r, n) =>
          seen[r][n].memory \in
             {LastWrite(n, k) : k \in 0 .. (IF batch[r] > Lag THEN batch[r] - Lag ELSE 0)}

(* What a rank trains on was committed, whether it asked the owner or its   *)
(* own replica, and is as old as the run allows: finish_pair after the      *)
(* drain, _fill_shared_pair after a reset that clears the replicas.         *)
ReadsCommitted == TypeOK /\ MemoryCurrent /\ MailCurrent /\ ReplicaReadsThePast

(* Once nothing is in flight, the replicas of any two ranks hold the same  *)
(* memory: the filters of the ranks decide apart what is sent, but all     *)
(* ranks apply the same.                                                   *)
ReplicasAgree ==
    \A p, r \in Rank :
       /\ syncs[p] = {} /\ syncs[r] = {}
       /\ {pc[p], pc[r]} = {"reset"} /\ epoch[p] = epoch[r]
       => \A n \in Hot : shared[p][n].memory = shared[r][n].memory

(* The memory and the mail a rank reads for a node come from one commit    *)
(* (mailboxes of one slot).                                                *)
GroupAtomic ==
    \A r \in Rank : pc[r] = "commit" =>
       \A n \in Node : seen[r][n].mailbox[1] = seen[r][n].memory

(* Every rank gets through every epoch: the blocking calls match up.       *)
Terminates == <>(\A r \in Rank : pc[r] = "done")
=============================================================================
