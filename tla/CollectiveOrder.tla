-------------------------- MODULE CollectiveOrder --------------------------
(***************************************************************************)
(* run_epoch (runtime/loop.py) on every rank.  A collective call returns   *)
(* when every rank is in it, so all ranks have to make the same calls in   *)
(* the same order, although each of them looks only at its own batch: a    *)
(* rank without targets decides alone whether it skips the batch.          *)
(*                                                                         *)
(* A call is its kind and the batch it is made for.  Calls that the        *)
(* configuration alone decides (chunk order, regression scales, feature    *)
(* fetch) are left out; the calls one phase makes in a row are one call.   *)
(***************************************************************************)
EXTENDS Naturals, FiniteSets

CONSTANTS
    Rank,
    Batches,        \* windows of the split, the same number on every rank
    Workloads       \* the configurations an epoch is run with

States == {"none", "node_recurrent", "neighbor_recurrent", "node_memory",
           "model_recurrent"}

Workload == [training : BOOLEAN, gradient_sync : BOOLEAN, prepared : BOOLEAN,
             mode : {"snapshot", "event"}, task : {"node", "edge"},
             state : States, commit_state : BOOLEAN]

ASSUME RankAssumption == Rank # {}
ASSUME BatchesAssumption == Batches \in Nat \ {0}
ASSUME WorkloadsAssumption == Workloads \subseteq Workload

VARIABLES
    workload,
    supervised,     \* supervised[r]: the batches in which r has targets
    events,         \* events[r]: the batches in which r has state events
    pc,
    batch,
    call,           \* the collective call a rank is blocked in
    known,          \* known[r]: batches r was told some rank has targets in
    stepped,        \* stepped[r]: batches after which r took optimizer.step
    commits         \* commit_count of the model_recurrent state

data == <<workload, supervised, events>>
vars == <<data, pc, batch, call, known, stepped, commits>>

Batch == 1 .. Batches
NoCall == [kind |-> "none", batch |-> 0]

Init == /\ workload \in Workloads
        /\ supervised \in [Rank -> SUBSET Batch]
        /\ events \in [Rank -> IF workload.mode = "event"
                               THEN SUBSET Batch ELSE {{}}]
        /\ pc = [r \in Rank |-> "start"]
        /\ batch = [r \in Rank |-> 1]
        /\ call = [r \in Rank |-> NoCall]
        /\ known = [r \in Rank |-> {}]
        /\ stepped = [r \in Rank |-> {}]
        /\ commits = [r \in Rank |-> 0]

(* What the configuration decides.                                         *)

Synchronised == workload.training /\ workload.gradient_sync

\* _batch_local_snapshot_state: training keeps the state inside the batch.
BatchLocal == /\ workload.training /\ workload.mode = "snapshot"
              /\ workload.state # "neighbor_recurrent"

State == IF BatchLocal THEN "none" ELSE workload.state
OwnerState == State \notin {"none", "model_recurrent"}
Commits == (workload.training \/ workload.commit_state) /\ State # "none"

\* _prepared_supervision_schedule: one reduction stands for one per batch.
Scheduled ==
    /\ Synchronised /\ workload.prepared
    /\ <<workload.task, workload.mode>> \in
           {<<"node", "snapshot">>, <<"edge", "event">>}

Exchanges == workload.mode = "snapshot"
Collects == workload.mode = "snapshot" /\ workload.task = "edge"

NeverForced == FALSE
ForceEmptyStep == Synchronised

(* What a rank sees of its own batch.                                      *)

Supervised(r) == batch[r] \in supervised[r]

\* batch.state: the model's own state is not hydrated before a first commit.
HasState(r) == \/ OwnerState
               \/ State = "model_recurrent" /\ commits[r] > 0

SkipEmptyBatch(r) ==
    /\ ~Supervised(r)
    /\ ~Collects
    /\ ~(workload.mode = "event" /\ batch[r] \in events[r])
    /\ ~(workload.mode = "snapshot" /\ HasState(r))

\* From `here` to `next`, through a call of `kind` if one is needed.
GoThrough(r, here, needed, kind, next) ==
    /\ pc[r] = here /\ call[r] = NoCall
    /\ pc' = [pc EXCEPT ![r] = next]
    /\ call' = [call EXCEPT ![r] = IF needed
                    THEN [kind |-> kind, batch |-> batch[r]] ELSE NoCall]

Start(r) ==
    /\ GoThrough(r, "start", Synchronised, "parameters", "schedule")
    /\ UNCHANGED <<data, batch, known, stepped, commits>>

Schedule(r) ==
    /\ GoThrough(r, "schedule", Scheduled, "prepared_supervision", "hydrate")
    /\ UNCHANGED <<data, batch, known, stepped, commits>>

Hydrate(r) ==
    /\ GoThrough(r, "hydrate", OwnerState, "hydrate", "encode")
    /\ UNCHANGED <<data, batch, known, stepped, commits>>

\* launch_state_update: owners commit together, with rows or without.
CommitIfSupervised(r) == Commits /\ OwnerState /\ Supervised(r)
CommitCall(r) == Commits /\ OwnerState

Finished(r) == batch[r] = Batches

EndBatch(r, here) ==
    /\ GoThrough(r, here, CommitCall(r), "commit",
                 IF Finished(r) THEN "result" ELSE "hydrate")
    /\ batch' = [batch EXCEPT ![r] = IF Finished(r) THEN @ ELSE @ + 1]

Skip(r) ==
    /\ SkipEmptyBatch(r) /\ ~ForceEmptyStep
    /\ EndBatch(r, "encode")
    /\ UNCHANGED <<data, known, stepped, commits>>

Encode(r) ==
    /\ ~SkipEmptyBatch(r) \/ ForceEmptyStep
    /\ GoThrough(r, "encode", Exchanges, "encode", "endpoint")
    /\ UNCHANGED <<data, batch, known, stepped, commits>>

Endpoint(r) ==
    /\ GoThrough(r, "endpoint", Collects, "endpoint",
                 IF workload.training THEN "backward" ELSE "commit")
    /\ UNCHANGED <<data, batch, known, stepped, commits>>

\* zero_output_loss ties the backward of a rank without targets to every
\* exchange of the forward pass.  The context reduction has no backward.
PullsBoundary == Exchanges /\ workload.state # "model_recurrent"
Reverse(r) == Collects \/ PullsBoundary

Backward(r) ==
    /\ GoThrough(r, "backward", Reverse(r), "reverse", "gradients")
    /\ UNCHANGED <<data, batch, known, stepped, commits>>

SyncGradients(r) ==
    /\ GoThrough(r, "gradients", Synchronised, "gradients", "flag")
    /\ UNCHANGED <<data, batch, known, stepped, commits>>

ReduceSupervision(r) ==
    /\ GoThrough(r, "flag", Synchronised /\ ~Scheduled,
                 "optimizer_supervision", "step")
    /\ UNCHANGED <<data, batch, known, stepped, commits>>

\* step_optimizer: the answer of the reduction, or of the schedule.
HasOwnSupervision(r) == Supervised(r)
HasSupervision(r) ==
    IF Synchronised THEN batch[r] \in known[r] ELSE Supervised(r)

StepOptimizer(r) ==
    /\ GoThrough(r, "step", FALSE, "none", "commit")
    /\ stepped' = IF HasSupervision(r)
                  THEN [stepped EXCEPT ![r] = @ \cup {batch[r]}]
                  ELSE stepped
    /\ UNCHANGED <<data, batch, known, commits>>

\* A rank without targets commits what the model returns like any other.
Counts(r) == Commits /\ State = "model_recurrent"

Commit(r) ==
    /\ EndBatch(r, "commit")
    /\ commits' = IF Counts(r)
                  THEN [commits EXCEPT ![r] = @ + 1] ELSE commits
    /\ UNCHANGED <<data, known, stepped>>

Result(r) ==
    /\ GoThrough(r, "result", TRUE, "result", "done")
    /\ UNCHANGED <<data, batch, known, stepped, commits>>

\* What a MAX reduction over the flags of the ranks says.
Reduced(kind, r) ==
    CASE kind = "prepared_supervision" -> UNION {supervised[p] : p \in Rank}
      [] kind = "optimizer_supervision" ->
             {b \in {batch[r]} : \E p \in Rank : Supervised(p)}
      [] OTHER -> {}

Collective ==
    /\ \A r \in Rank : call[r] # NoCall
    /\ \A p, r \in Rank : call[p] = call[r]
    /\ known' = [r \in Rank |-> known[r] \cup Reduced(call[r].kind, r)]
    /\ call' = [r \in Rank |-> NoCall]
    /\ UNCHANGED <<data, pc, batch, stepped, commits>>

Step(r) ==
    \/ Start(r) \/ Schedule(r) \/ Hydrate(r) \/ Skip(r) \/ Encode(r)
    \/ Endpoint(r) \/ Backward(r) \/ SyncGradients(r) \/ ReduceSupervision(r)
    \/ StepOptimizer(r) \/ Commit(r) \/ Result(r)

Done == /\ \A r \in Rank : pc[r] = "done" /\ call[r] = NoCall
        /\ UNCHANGED vars

Next == (\E r \in Rank : Step(r)) \/ Collective \/ Done

Spec == Init /\ [][Next]_vars

\* A rank runs on unless it is blocked; a matched call returns.
FairSpec ==
    Spec /\ (\A r \in Rank : WF_vars(Step(r))) /\ WF_vars(Collective)

-----------------------------------------------------------------------------

\* The combinations the runtime builds: node memory belongs to event mode
\* (_state_kind of plan.py), evaluation has no gradients to synchronise.
Built(w) == /\ w.state = "node_memory" => w.mode = "event"
            /\ w.mode = "event" => w.state \in {"none", "node_memory"}
            /\ w.training => ~w.commit_state
            /\ ~w.training => ~w.gradient_sync
            /\ w.prepared => w.gradient_sync

\* What keeps a rank without targets in the exchanges of a snapshot:
\* synchronised training, owner state, or endpoints to collect.
KeptIn(w) == \/ w.mode = "event" \/ w.task = "edge"
             \/ w.training /\ w.gradient_sync
             \/ w.state = "neighbor_recurrent"
             \/ ~w.training /\ w.state = "node_recurrent"

Places == {"start", "schedule", "hydrate", "encode", "endpoint", "backward",
           "gradients", "flag", "step", "commit", "result", "done"}
Kinds == {"parameters", "prepared_supervision", "hydrate", "encode",
          "endpoint", "reverse", "gradients", "optimizer_supervision",
          "commit", "result"}

\* The types of the variables: no batch index leaves the split.
TypeOK ==
    /\ workload \in Workloads
    /\ supervised \in [Rank -> SUBSET Batch]
    /\ events \in [Rank -> SUBSET Batch]
    /\ pc \in [Rank -> Places]
    /\ batch \in [Rank -> Batch]
    /\ call \in [Rank -> [kind : Kinds, batch : Batch] \cup {NoCall}]
    /\ known \in [Rank -> SUBSET Batch]
    /\ stepped \in [Rank -> SUBSET Batch]
    /\ commits \in [Rank -> 0 .. Batches]

\* Once every rank is in a collective call it is the same call for the same
\* batch: no rank waits for a call a peer left out, none is given the rows or
\* the gradients of another batch.  _skip_empty_batch is what could break it.
CallsAgree ==
    (\A r \in Rank : call[r] # NoCall) => \A p, r \in Rank : call[p] = call[r]

\* The batches rank r is through with.
Behind(r) == {b \in Batch : b < batch[r]}
             \cup IF pc[r] \in {"result", "done"} THEN {batch[r]} ELSE {}

\* Parameters do not diverge: with synchronised gradients every rank has
\* taken the optimizer steps of exactly the batches in which some rank had
\* targets; a globally empty batch takes none (step_optimizer).
StepsFollowSupervision ==
    Synchronised =>
        \A r \in Rank :
            stepped[r] \cap Behind(r)
                = Behind(r) \cap UNION {supervised[p] : p \in Rank}

\* The model's own state is a replica on every rank: when the ranks meet,
\* each has committed it equally often.
ReplicasAgree ==
    (\A r \in Rank : call[r] # NoCall)
        => \A p, r \in Rank : commits[p] = commits[r]

\* The replicas of the parameters and of the model's own state stay equal:
\* sync_gradients, step_optimizer and the commit of a rank without targets.
StepsAgree == TypeOK /\ StepsFollowSupervision /\ ReplicasAgree

\* Every epoch ends on every rank.
Terminates == <>(\A r \in Rank : pc[r] = "done")
=============================================================================
