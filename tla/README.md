# StarryGL runtime in TLA+

StarryGL trains temporal graph networks on several ranks. Its arithmetic is
PyTorch; what is hard about it is coordination: three threads build batches
ahead of the training loop, ranks meet in collectives that are matched only by
the order in which each rank enters them, and historical state is read while
newer state is still on its way. What the ranks read is prepared before: a graph
is partitioned, cut into windows and turned into views whose two halves, what
one rank sends and another expects, are computed apart; and the neighbours of a
batch are drawn by a native sampler whose threads share one adjacency. This
directory specifies all three, model-checks them on small instances and proves
part of it for every instance.

Paths of Python files below are relative to `src/src/starrygl/` of the
repository, those of C++ files to
`src/csrc/ctdg_sampler/bts_sampler/sampler/`, unless they start with `docs/`.

## 1. The system

### How a batch travels

```
Stage C  source worker   access(window)              -> request_queue (1)
Stage B  stage worker    launch: features, state     -> ready_queue (1)
                         finish: wait for the answers
Stage A  training loop   hydrate, encode, endpoints, loss, backward,
                         gradient reduction, optimizer step, state commit
```

One process runs the three stages in three threads. Stages B and A issue
collectives, C does not. The collectives of a batch go through one process group
(`CommScheduler.group`, the default group in the runtime), so the
order of launch(k+1) and Stage A(k) must be the same on every rank. A collective
matches the n-th call of one rank with the n-th call of every other: a rank
that leaves one out does not fail, it hands a peer the wrong tensor or waits
forever.

### Components

| Component | State it keeps | Operations | What makes it correct |
|---|---|---|---|
| DataLoader pipeline (`runtime/dataloader/loader.py`) | two queues, two semaphores, a condition, a stop event, `progress` | `_acquire`, `_get`, `_put`, launch, finish, yield, teardown | batches in order, launch(k+1) has returned before Stage A(k) begins, nothing launched after a stop, workers joined, failures reported |
| Epoch loop (`runtime/loop.py`, `epoch.py`) | batch index, supervision schedule | skip, encode, collect, backward, `sync_gradients`, `step_optimizer`, commit | all ranks make the same calls for the same batch and take the same steps |
| Snapshot history (`store/snapshot_history.py`) | per row `window_size` + 1 slots, window start | advance, install, update, read, reset | a read finds the latest observation although only the slots are kept |
| Bounded owner history (`runtime/memory/snapshot.py`) | histories, versions, filter, pending pushes | hydrate, commit, launch and finish a push, reset | rows read from peers are at most K versions old, none is lost, no epoch leaks into the next |
| Event memory and mailbox (`runtime/memory`, `store/state.py`, `store/mailbox.py`) | owner memory and mail, hot replicas, pending commits and gathers | hydrate, commit, drain, shared sync, reset | an owner read is what sequential processing leaves, replicas only move forward |
| Owner fetch and endpoints (`runtime/exchange.py`, `store/remote_fetch.py`, `runtime/memory/access.py`, `runtime/endpoint.py`) | requests, response handles | ask, answer, restore, expand | every list of rows comes back in its places, in matched calls |
| Layerwise scan (`runtime/snapshot`, `runtime/state/recurrent.py`) | coroutines, exchanges in flight, carried state, the autograd tape | compute, resume, update, backward | the boundary rows and gradients of a snapshot are its own, the recurrent state follows the node |
| Neighbour sampling (`include/sampler.h`, `include/neighbors.h`, `native/sampling.py`) | adjacency blocks by name, the layers of a call, the edge cache of a sampler | build, pickle and reweigh a block, sample by threads, five output builders | no neighbour from the future, the newest under "recent", a result that depends on no thread and on no earlier call |
| Partitioning (`speed_partition.cpp`, `partition/build.py`) | parts of every node, owner of every edge, masters, load of the masters | place or drop an edge, choose a master, assign chunks | a cold node lies on its master only and its edges with it, masters are spread |
| Preparation (`prepare/`, `utils/route.py`, `store/feature.py`) | windows, views, routes, shards, task tables | one step of `materialize_graph_views` each | every event once, routes of two ranks pair up, slices read back, one write per node and window |
| Tasks, models, trainer, tools, other native code | see section 7 | | |

Interactions. The stage worker calls the fetches of `exchange.py` and the
prefetch of the event memory; `run_epoch` calls `hydrate`, the layerwise scan,
the endpoint collection and the state commit. All of them enter collectives
through `CommScheduler` (`runtime/comm.py`), whose pushes complete later: the
handle is waited for at a place fixed by the code, or polled (`ready()`).

### Behaviours a test hardly reaches

* a stop, an exception or an early exit between any two waits of the threads;
* a rank without targets, rows or events, whose peers have some;
* pushes and gathers that complete at different times on different ranks;
* windows that slide while older versions arrive, are computed again or omitted;
* requests that mix own, replicated, remote and repeated nodes;
* a backward walk whose exchanges depend on which snapshots the loss reaches;
* a call of the sampler after another of a different mode, on the same cache;
* several events of one time at the boundary of a split, a window or a sample.

`PROJECT.json` lists them as hazards, each at its line.

## 2. Modules

| Module | What it is | Source |
|---|---|---|
| `WindowStream` | abstract: what iterating a `DataLoader` promises | `loader.py`, `__iter__` without pipeline |
| `DataLoaderPipeline` | the three threads; implements `WindowStream` | `loader.py` |
| `HistorySlots` | operators on the slots of one row | `store/snapshot_history.py` |
| `CausalLog` | abstract: the log of all observations | the promise of `read` |
| `SnapshotHistory` | the life of one row; implements `CausalLog` | `store/snapshot_history.py` |
| `SnapshotPush` | ranks publishing such histories; composes `HistorySlots` | `runtime/memory/snapshot.py`, `memory/__init__.py` |
| `CollectiveOrder` | `run_epoch` on every rank, as the calls it makes | `runtime/loop.py`, `epoch.py`, `state/access.py` |
| `EventMemory` | memory, mailbox, hot replicas | `runtime/memory`, `store/state.py`, `store/mailbox.py` |
| `LayerwiseScan` | a training batch of the decoupled scan, forward and backward | `runtime/snapshot`, `runtime/state/recurrent.py` |
| `OwnerRoute` | argsort, restore, unique, inverse | `store/remote_fetch.py`, `runtime/exchange.py` |
| `OwnerFetch` | the reads of a batch; composes `OwnerRoute` | `runtime/exchange.py`, `memory/access.py`, `endpoint.py`, `comm.py` |
| `NeighborBlock` | the adjacency: building, weights, pickling | `include/neighbors.h` |
| `TemporalSampling` | the threads of one call, layer after layer | `include/sampler.h`, `include/head.h` |
| `SamplingOutput` | the five output builders, edge reads (operators) | `include/sampler.h` |
| `SamplerSession` | a process that opens, reweighs, calls; composes the three above | `native/sampling.py`, `runtime/sample`, `export.cpp` |
| `SpeedPartition` | edges and masters placed one by one | `speed_partition.cpp` |
| `PartitionPlan` | owners, chunks, distributed index, rows of shards | `partition/build.py`, `prepare/partition_index.py`, `store/feature.py` |
| `TimeSplits` | splits and windows (operators) | `prepare/split.py` |
| `SnapshotViews`, `EventViews`, `TaskTables` | what a rank reads, sends, expects, predicts (operators on a plan) | `prepare/snapshot_csc.py`, `prepare/event.py`, `utils/route.py`, `prepare/task.py` |
| `Preparation` | the steps of a preparation; composes the six above | `prepare/build_part_graph.py`, `runtime/trainer.py` |
| `OwnerHistoryProofs` | theorems about `SnapshotHistory` and `SnapshotPush`, which share the slots | |
| `PreparationProofs` | theorems about `SpeedPartition` and `Preparation`, which starts from a plan | |
| other `*Proofs` | theorems about the module they are named after | |
| `MC*` | instances for TLC | |

How state and actions correspond to code:

* **DataLoaderPipeline.** A thread is a program counter and the item it holds.
  Each bounded wait is two steps, the look at `stop` and the wait, as in the
  loops of `_acquire`, `_get` and `_put`; a stop may fall between them. The
  main thread's part goes from `ready_queue.get` through the acknowledgement,
  `changed.wait_for` and the yield to the `finally` block, one step per
  statement that another thread can see.
* **SnapshotHistory, SnapshotPush.** Rows are independent, so one row stands for
  all. State and mean increment are an opaque `mark`. A publication is two
  steps, the blocking exchange of counts and the push that arrives later.
  `hydrate_snapshot_history` waits for every push, `finish_shared_ready` for
  those that have arrived, any prefix of them. Whether the end of a run waits
  (`final_shared_flush`) is left open, so both settings are covered. A commit
  adds the one version that the step computed. The backpressure branch of `launch_snapshot_push` is not modelled because
  `OneInFlight`, a part of `PublicationsArrive`, shows it unreachable.
* **CollectiveOrder.** A call is its kind and its batch; `Collective` completes
  it when all ranks are in the same. One call stands for the consecutive ones
  of a phase. Calls that the configuration alone decides are left out, being
  the same on all ranks by construction.
* **EventMemory.** A value is the row of the event that wrote it, so "which
  commits does this read contain" can be asked of it. Exact runs drain the
  commit before they read; bounded-stale runs launch window k+1 before window
  k is given to the training loop (`DataLoaderPipeline`, Lookahead), hence the
  lag of two. Calls under way are known by their numbers and finished in that
  order, commits and gathers alike; gathers of the replicas may be found complete
  in any subset.
  `MaxSkip` = 0 is a run without filter.
* **LayerwiseScan.** A row is the node it belongs to and the snapshot that
  computed it. Autograd is modelled by what it does: it runs the recorded
  operations that the loss reaches in reverse order of creation. A call of one
  rank receives what its peers send in their call of the same number.
* **OwnerFetch.** Every step of a rank up to its next collective is one action.
  A collective completes when every rank has entered it with the same kind of
  call; it then delivers, by position, what each peer cut off for this rank.
  Values are the row they come from.

* **TemporalSampling, SamplerSession.** A thread takes the roots of its share one
  by one, in any order against the others; the join of a layer is a step of its
  own. A random number is a function of seed, layer, root and draw (`Bits`), as
  splitmix64 is, or of the thread (`ThreadDraw`) under "weighted". Each policy
  is one branch of `Positions`. A session keeps what the process keeps: blocks by
  name and, per sampler, the cache from edge id to row (`dense`), which each
  output builder fills and cleans.
* **SamplingOutput.** A builder is a fold over the layers, as the code's loop is;
  tables of first occurrences replace the hash maps. The parallel builder is
  written as the code writes it, from positions of occurrences and per-thread
  offsets, so that it can be compared with the serial one.
* **SpeedPartition.** One action per edge and one per master. The score of a part
  is floating point over loads and times; the model lets any part of the allowed
  ones win, so a property of the model holds of every score. The score of a
  master is rational and is compared exactly.
* **Preparation.** One action per stage of `materialize_graph_views`, in its
  order; the actions carry the result of one pure operator each, for all ranks.
  The configuration is chosen in `ResolveSplits`.

An operator or action that is called a variant, or stands just before the
definition it differs from (`GetIgnoresStop` before `GetRaises`), is not part
of a specification. It is a plausible mistake in the code, used to confirm that
a property would notice it (`mutants` in `PROJECT.json`).

## 3. Runs

| Run | Instance | What it shows |
|---|---|---|
| `sampling` | 2 threads, 3 graphs of 3 nodes (two both ways, one without times), read from the block of the process or from a pickle of it, "recent", "uniform", two of the three boundary policies and the slice calls, two layers, two calls of a session | `SampledFromThePast`, `RecentIsNewest`; the interleaving of threads never shows (`ThreadsAgree`); every output, those of the slices of one call too, describes the sample whatever ran before (`OutputDescribesSample`) |
| `prepare` | 4 nodes, 3 ranks, 2 graphs of 5 events with ties in time, a self loop, a node without events and a dropped edge; 4 ways to split, 2 to cut, 3 kinds of views | partitions keep edges with their nodes and spread masters; windows tile; slices, routes, writes, tasks and shards of all ranks fit together |
| `loader` | 4 windows; any access, launch or finish may raise; the loop may leave at any batch | `Handshake`, `Lookahead`, `NoLaunchAfterStop`; refinement of `WindowStream`; both workers are joined and failures reported |
| `history` | window 2, 5 snapshots | the three slots answer every read the runtime makes as the full log would; overlapping windows count a snapshot once |
| `push` | 2 ranks, 2 epochs over 2 splits of 6 snapshots, window 3, at most 2 omissions | the K bound (`AgeBound`), no lost publication and no leak between epochs (`PublicationsArrive`), no check of the code raises (`NothingRaises`), no hang |
| `collectives` | 2 ranks, 2 batches, every placement of targets and events, every configuration that keeps a rank without targets in the exchanges | the ranks make the same calls (`CallsAgree`) and take the optimizer steps the supervision asks for (`StepsAgree`) |
| `event_memory` | 2 ranks, 3 nodes, 3 windows, mailboxes of 2, 2 epochs; 36 exact and 2 bounded-stale tables | owner reads equal sequential processing with the documented lag and replicas read a committed past (`ReadsCommitted`); replicas agree |
| `layerwise` | 2 ranks, up to 3 snapshots, 3 layers, every loop, layout, chunk order and loss | exchanges match forward and backward (`ExchangesMatch`), recurrent state follows the node, no hang |
| `fetch` | 3 ranks, 5 nodes, 2 batches of 26 kinds | rows come back in their places and calls fit (`FetchesMatch`, `StateMatches`); every rank gets through |
| `replay`, `event_atomic`, `fetch_reuse` | smallest instance that shows it | disagreements, see section 4 |

### Bounds, and why they are enough

* Four windows: one in each of Stage A, the ready place, Stage B and Stage C.
  With four, every queue is full at once and the pipeline also drains.
* Window 2 over 5 snapshots: each slot is reused twice, and a packet can be
  before, in or ahead of the window. The proof removes this bound.
* Two ranks show every disagreement between a rank and a peer; a third adds
  another rank like one of the two. `fetch` has three because a split of a list
  by owner needs an owner before, at and after the asking rank.
* Two epochs: the second begins from a reset with calls of the first still in
  flight. Two omissions in a row make the forced publication the third.
* Three snapshots and three layers: a decayed prefix, a decayed snapshot that is
  still complete, and a full one; an exchange in two consecutive layers.
* Two calls of the sampler after each other, with any of the five outputs or a
  change of weights or of the graph between: what one call leaves behind is seen
  by the next. Fanouts 2 and 1 leave neighbours out in both layers; two events of
  one time stand at the cut. `Bits`, `Keep` and `ThreadDraw` are fixed functions
  that vary with each argument; `Printed` is the identity on weights of up to six
  digits, which is what printing them leaves.
* Three ranks in `prepare` give a route two peers, so an order among them; with
  four nodes one rank has two of its own. Five events make windows of one, two
  and three events, empty splits, and boundaries before, in and after ties.
* Counters (`entered`, `sent`, `calls`) grow with the batches and need no bound
  of their own.
* The prefetch workloads of `fetch` are sorted, repeat a node or have two
  layers. Lists of one layer in order of first visit are left to `fetch_reuse`,
  where the property fails.

## 4. Disagreements between code and documentation

* **`replay`** (`runtime/state/access.py:296`). In evaluation of an EvolveGCN
  node task, a rank without targets in the first batches skips the reduction
  that `runtime/state/CONTRACT.md:138` puts at fixed points on all ranks. It
  then meets its peers in a reduction of another batch.
* **`event_atomic`** (`runtime/memory/__init__.py:350`). A hot replica can hold
  the memory of one commit and the mail of an older one, because
  `finish_shared_ready` applies whichever gathers are complete and only the
  memory is guarded by its timestamp. `CONTRACT.md:32-33` asks for one atomic
  payload.
* **`fetch_reuse`** (`runtime/memory/access.py:124`).
  `docs/migration/status_log.md:3828` says the state prefetch can reuse the
  request of the feature fetch. That request keeps the order of the list when
  no node repeats; the state read applies the inverse of the sorted list. The
  rows of two remote nodes are exchanged when the list is not sorted.

### Observations

Behaviour met while modelling that no run states as a disagreement, either
because nothing documents the opposite or because the configuration is unusual:

* With an explicit `chunk_decay` that grows with age (`runtime/state/recurrent.py:43`)
  a rank whose prefix is empty starts a fresh state and its backward does not
  enter exchanges its peers wait in; `runtime/snapshot/CONTRACT.md:75-76` forbids
  this. The text form of the option is checked (`runtime/trainer_options.py:362`),
  a sequence or tensor is taken as it is (`:166-177`). A `full_snapshot_chunk_limit`
  below a decay that takes all chunks does the same. With `Decay` growing in
  `MCLayerwiseScan`, TLC refutes `Terminates`.
* A rank that owns no node at all behaves like that rank in every snapshot: in
  the rolling layout, its empty full snapshot after a complete decayed one is not
  of the same layout, the empty carried state does not connect them, and its
  backward skips the exchange of the older one. With no rows for `b` in
  `MCLayerwiseScan` TLC refutes `Terminates`. Partitions of
  fewer nodes than ranks make such a rank.
* `update_edge_weight` and `update_node_weight` look an edge up in
  `inverted_index`, which `get_neighbors` fills after the lists are complete
  (`include/neighbors.h:256-262`): every key of a node leads to its last
  position, and that weight alone is changed. Weights of a block that is not
  pickled also stay changed when its name is opened again, since
  `native/sampling.py:91` is given a reference to the block of the process. The
  model does both (`UpdateEdgeWeight`, `Reweigh`), but no property is about
  weights: `from_graph` builds blocks without them, no Python code calls the
  three changes, and a change of all weights is one assignment.
* `from_graph` with `add_reverse_edges` puts the reverses behind all edges, with
  their times (`native/sampling.py:82-88`), so that lists are out of the order of
  time that the cut needs. The runtime does so only for a graph without times,
  which is what the model does (`Topology`); with times it passes the sorted and
  interleaved events of `_temporal_event_topology`. A test calls it with times
  (`tests/test_runtime_graph_blocks.py:90`).
* The mailbox orders events by their time alone. Where two windows share a time,
  or an event has time 0 (the time of a slot never written), it may replace the
  newer mail, and replicas of two ranks that applied their gathers in different
  portions may end up different. TLC refutes `MailCurrent` and `ReplicasAgree`
  on such tables, so the two are claimed under `Untied` and `Positive`. The memory
  of an owner is right for every table in time order.
* The policy "weighted" draws from all edges of a node, whatever their times, so
  `SampledFromThePast` is not claimed of it and no run uses it. Sampling without times under a policy
  other than "uniform" and "weighted" reads a variable that was never set.
* Sampling without times and with `part_unique` leaves fewer nodes than edges in
  a block; the output builders, which read one node per edge, then describe
  another sample (`Uniques = {TRUE}` refutes `OutputDescribesSample`). Python
  asks for an output only of samples with times.
* `get_neighbors` returns the block built first under a name, whatever edges
  come with the call, as a reference into a map that lives as long as the
  process.
* The parallel builder lists, for every layer, the sources up to the end of the
  table of nodes, where the serial one stops at the nodes met so far.
* A label that lies at the last time of the training events, when the next event
  is more than one later, counts as a label of the test split
  (`prepare/data.py:326-338`).
* `torch.linspace` works in single precision: beyond 2^24 events the windows of
  `equal_edges` are off by the rounding, still in order.
* The routes of state writes are built and stored; no reader of them was found in
  the runtime, which routes commits by the index itself.
* `prepare.pt` carries the signature and is written before the shards
  (`store/feature.py:104`). After a crash in between, the next start takes old
  shards for those of the new configuration (`runtime/trainer.py:254-292`).

## 5. Fairness

* `DataLoaderPipeline`: weak fairness of each thread. A thread that can run is
  scheduled; every wait of a worker is bounded (0.05 s), so looking again is a
  step of its own. Calls into the sampler, a collective or the training loop are
  taken to return. Nothing is assumed about when the training loop leaves.
* `SnapshotPush`, `EventMemory`, `LayerwiseScan`: weak fairness of each rank. A
  wait is enabled once what it waits for has arrived, so this also says that a
  push arrives after all ranks have entered it.
* `CollectiveOrder`: weak fairness of each rank and of the collective: a call
  that all ranks are in returns.
* `OwnerFetch`: the same per rank, written as `FairStep`: a rank is infinitely
  often not `Ready`, or takes infinitely many steps. `Ready` is the guard every
  action of the rank has in common, and every action moves `at[r]`, so this is
  weak fairness of the rank's step; TLC evaluates it much faster than `ENABLED`.

No fairness is assumed of a failure, of a filter's decision, or of a gather
being found complete by a poll.

## 6. Proofs

TLAPS checks, for every value of the constants:

* **`DataLoaderPipelineProofs`**: type correctness, `Handshake`,
  `NoLaunchAfterStop`, `Lookahead`, and the safety part of the refinement of
  `WindowStream`, for every number of windows and every set of steps that may
  raise. `Handshake` is not inductive: it depends on where each semaphore's
  token is. `IInv` says that, until the `finally` block releases them, each
  token has exactly one holder (a thread at certain statements, or an item in a
  queue), how far `launched` and `consumed` can differ, and in which order
  windows, sentinel and failure travel. One lemma per thread, one case per
  action.
* **`OwnerHistoryProofs`**, in three parts.
  *The slots*: what read, advance, install and update do to the slots of a row,
  for every window size. `RowOK` says where a packet may stand, so that no two
  slots hold one version; `ReadFinds` says which of them a read returns.
  *One row* (`SnapshotHistory`): type correctness, `ReadsTheLog`, `CountsOnce` and
  the refinement of `CausalLog`, for every window size, dataset length and data.
  `Represents` relates slots and log: slot 0 holds the latest entry at or before
  the window start, the other slots hold exactly the entries after it.
  `InstallKeeps` and `AdvanceKeeps` carry it through the two operations that
  move packets; `ReadFindsLatest` concludes.
  *The ranks* (`SnapshotPush`): `NothingRaises`, `AgeBound` and `PublicationsArrive`,
  for any number of ranks, splits, epochs and omissions. None is inductive: all
  speak of a subscriber's row, which other ranks fill. The invariant places every
  publication: it is on offer at its owner, in flight in the channel, or the
  newest packet of the subscriber's row. `Handshake` says how far two ranks can
  be apart: the exchange of counts keeps them within one push of each other, so
  the first push in a channel is always the one its subscriber awaits
  (`Matched`). `Position` counts the pushes of an epoch from a rank's place, so
  that a reset finds every channel empty and no packet of the old epoch arrives
  after it. `AgeBound` then follows from the number of omissions the filter of
  the owner has counted since its last publication.
* **`EventMemoryProofs`**: for any number of ranks, nodes, windows, slots and
  epochs: `MemoryReadsHold` (types, owner memory is what sequential processing
  leaves, replicas hold a committed past) for every table in time order;
  `ReadsCommittedHolds` and `ReplicasAgreeHolds`, which add mail and
  the agreement of replicas, for tables where no two windows share a time and no
  event has time 0 (section 4 says why). The argument has two halves. Of
  the data: `CommitIs` and `SyncKeeps` carry `Stored` and `Refreshed` (what a
  group holds after the commits, or gathers, of some windows) through every
  outcome the unordered writes of a window may have. Of the ranks: `Calls` counts
  the blocking calls from the place of a rank, `Behind` bounds how far a peer can
  be away, `SameEpoch` says that ranks that wait for each other are in the same
  epoch; so what a rank is sent was stored exactly one window ago, or two in a
  bounded-stale run.
* **`OwnerFetchProofs`**: `FetchesMatch` and `StateMatches`, for any number of
  ranks, any partition and replicas, and batches that want any lists, with
  repetitions or empty. Ranks may be several batches apart, and a rank reads from
  the call of a peer that moved on long ago; so the invariant speaks of all calls
  entered. `Call(w, o, r)` is the `o`-th call of rank `r` in a batch that wants
  `w`, a function of the plan alone; `Cost(w)`, the number of calls, is the same
  on every rank, although each decides from its own missing rows, because the
  ranks exchange `needed` first (`NeededArrive`). Hence the `k`-th calls of all
  ranks are the same call of the same batch (`PlaceOf`, `PeersCall`), their
  lengths fit (`CallsMatch`), and what arrives is known leg by leg: counts, the
  ids asked of a rank, rows (`CountsArrive`, `NodesArrive`, `RowsArrive`).
  The rest is lists, which `OwnerRouteProofs` is about.
  `StateMatchesHolds` assumes `SortedPrefetches`: where a prefetch reads one block
  in which no node repeats, its nodes come sorted. Then the request of the feature
  fetch asks for the nodes `finish_pair` expects (`PrefetchAsksUnique`). Without
  it the property fails, which is what `fetch_reuse` shows.
* **`OwnerRouteProofs`**: what the list operators return, for lists of every
  length: the order of a request is a permutation that groups the ids by owner,
  answers put back by it end where they belong, missing places and unique ids are
  enumerated increasingly and completely, expanding unique rows by the inverse
  gives back the list. These rest on `Ranking`: under a strict total order the
  numbers of predecessors number a finite set. That the cuts of an exchange fit
  what was sent rests on `SumIs`: a sum of sizes counts the dots of a diagram with
  a row for each. `OwnerFetchProofs`,
  `LayerwiseScanProofs` and `PreparationProofs` use these lemmas.
* **`LayerwiseScanProofs`**: `ExchangesMatch` and `StateFollowsNode`, for any number
  of ranks, layers and snapshots, any rows, every loop, layout, chunk order and
  loss. `Number` gives each pull its place among the calls of a rank, from the
  configuration alone; the gradient of pull `n` of `Total` is call
  `2 * Total + 1 - n`. The invariant says that every rank enters its calls with
  these numbers (`CallsOK`), so the `n`-th calls of two ranks are the same call,
  wherever the two stand. That a rank does so is a matter of its own state.
  Forward, suspended coroutines leave in the order they came in (`QueueOK`), each
  waits for the number of its own pull (`WaitOK`), and the number of calls follows
  from the coroutines that have started (`CountOK`). Backward, a receive stands
  on the tape after the send of its snapshot and layer, and receives stand in the
  order of their numbers (`TapeOK`); the walk therefore reaches a send with the
  gradient it waits for already asked for (`BackOK`). `BoundaryOK` records whose
  rows a snapshot was computed from. For the recurrent state, `CellOK` says that
  what is carried is the state of the snapshot before in its row order; where
  `previous_state` reads by position, `SameLayout` must mean that a node keeps its
  position: two prefixes of one chunk order, or two whole snapshots.
  Two hypotheses. `OwnsRows`: every rank owns a node. `Widening`: a complete
  snapshot is followed by complete ones. `OptionsWiden` derives the second from
  the options: a decay that does not rise with age, which `_parse_chunk_decay`
  enforces on the text form (`runtime/trainer_options.py:362`), and full snapshots
  that are complete, or else no complete decayed ones. Without either the
  gradient of a rank does not reach all snapshots its peers exchange, and TLC
  finds them waiting for it (section 4). The loss keeps every exchanged snapshot
  on the walk because the carried state connects it to the last one; that is
  where both are used.
* **`PreparationProofs`**, first part, the partition: type correctness,
  `EdgesWithTheirNodes` and `MastersSpread`, for every graph, number of nodes and
  number of parts, and so whichever part the score prefers for an edge.
  `EdgesWithTheirNodes` is about the end and is not inductive. The invariant says,
  of every moment, that a cold node has at most one part and, once it has one, that
  every edge placed between cold ends on that part is there; while masters are
  chosen, that no cold node waits and each has the part it was given first.
  `MastersSpread` follows from it and from arithmetic: the affinity of a node to a
  part is at most its weight (`WeightAndAffinity`), so a part whose score is not
  lower cannot be ahead of another by more than an even share of the whole load
  (`BetterMeansLighter`).
* **`PreparationProofs`**, second part, what is built from a plan: `WindowsTile`,
  `FeaturesWherePlaced`, `SlicesReadBack`, `RoutesPairUp`, `TasksOnce` and
  `WritesOnce`, for every graph in order of time, any number of nodes and ranks,
  any hot nodes, chunks, splits, windows, labels and layouts. A preparation builds each thing once, so the invariant is
  plain: `StageInv` says what is settled when a stage is reached, `ViewsInv` that
  what the slices name has a row (shards are made from those names two stages
  later), `ReadsInv`, `RoutesInv`, `TasksInv` and `WriteInv` that views and tables
  are right from the step that builds them. The work is in the operators, on lists of any length:
  * windows. `Tiled(w, lo, hi)` is closed under joining and shifting (`TilesJoin`,
    `ShiftTiles`); `MovedOffEqual` is the arithmetic of
    `_move_boundary_off_equal_ts`, `RoundingGrows` that of rounding half to even,
    and `AdaptiveAdvances` is why the recursion of the adaptive cut ends;
  * places. A mask or a sort of a list without repetition has none
    (`MaskedIs`, `SortedList`); the number a node gets in the index and the row
    it gets in a shard are both the number of smaller nodes of its owner
    (`RankedList`), which is why two pieces of code agree;
  * slices. Three stable sorts permute the edges and leave them in order of column
    (`CompressedIs`), so the counts in `indptr` cut them where columns change
    (`IndptrIs`); sources and feature rows are found behind their offsets
    (`SrcRowIs`, `FeatureRowIs`);
  * routes. Lists joined rank after rank are found again by their sizes
    (`PartsOfWhole`, `SlotIs`); what `b` expects of `a` is looked up by `a` in its
    own sources, where `Fits` says it is among the nodes it computes;
  * targets. The scopes of the splits part the windows (`ScopesAre`), and over
    snapshots the target of a window is the next that follows it in its scope, so
    every event has one asker, or none if its window is the first of its scope
    (`EventsPredictedOnce`). The window of a label is found by a search over the
    ends of the windows that hold events, which never fall (`LabelWindowIs`);
  * state writes. The bounds of a window, localized, cut out of a rank's own list
    what it owns of the window (`LocalizedIs`). A stable sort by rank puts the places
    of each rank one behind the other (`SortedByRank`), so the sender's slot for a
    peer lists the writes bound for it in their order, and so does the layout the peer
    works out from the global table (`SendIs`, `RecvIs`). The mask selects the last
    touch of each node (`MaskDecides`), under one hypothesis, `GivenWindowsApart`:
    windows given as a tensor share no event. `prepare/split.py` checks only their
    shape, and where two overlap the later one overwrites the mask of the earlier;
    the sampling side demands "ordered non-overlapping snapshot ranges"
    (`runtime/sample/__init__.py:149`). Windows that are cut satisfy it, by
    `WindowsTile`.

* **`CollectiveOrderProofs`**: `CallsAgree` and `StepsAgree`, with the types, for
  any number of ranks and windows and every placement of targets and events,
  under the hypothesis `KeepsAllIn`: each configuration is one the runtime builds
  (`Built`) and keeps a rank without targets in the exchanges of a snapshot
  (`KeptIn`). The hypothesis is needed: `replay` violates it and `CallsAgree`.
  Ranks between two collectives are at different places, so no invariant over
  places relates them. What they share is the call each of them meets its peers
  in next; `AheadOf` computes it from the configuration, the place and the batch
  alone. A step of a rank leaves it as it is, whatever the rank decides from its
  own targets (`WithinBatch`, `BatchEnds`), and a collective moves all ranks at
  once. `SkipsOnlyEvents` is where `KeptIn` enters: a rank that skips a batch is
  in event mode, where the batch has no exchange. `Told` says what a rank knows
  when it steps the optimizer.

Assumptions used: those named in the modules (`WindowsAssumption`,
`WindowSizeAssumption`, `MarksAssumption`, ...), all evaluated by TLC in the runs.
Those of the preparation say that events come sorted by time, `topk` is at most the
number of nodes, the options are ones `split.py` accepts, labels name a node and a time
(`PrepareAssumption`) and
METIS gives chunks in their range (`PlanAssumption`).

Only model-checked:

* liveness (`Terminates` of every module, the progress half of `WindowStream`),
  which is out of the prover's reach;
* what the three runs of section 4 refute;
* sampling (the invariants of `SamplerSession`): `SamplingOutput` and `TemporalSampling` compute by recursion over
  the data, so what they return for every input is beyond these provers.

## 7. What is not modelled

* Numerical work: layers, losses, gradients, filter distances, negative
  sampling. Where a decision depends on a number (the filter), every outcome is
  allowed.
* Batch and block materialization, reading and writing of artifacts: copies of
  tensors, and files.
* In the sampler: `update_neighbors_with_time` and `sample_unique`, which Python
  does not call; the draw `part_unique` adds for every distinct neighbour in a
  block with sets of them (`sampler.h:527`; Python never asks for the sets);
  counters of a profile and of local and remote samples; the Python objects
  around an output.
* In partitioning: the score of a part for an edge (any may win), METIS (a constant
  operator), `assign_chunks_temporal_balance` (a second, randomised chunking that
  `partition_graph` does not use), the lists of local, owned and shadow nodes
  read off the result.
* In preparation: the `temporal_csr` view, normalisation weights, labels without
  a time, temporal features.
* Other native code of the project: `native_utils.cpp` (faster versions of index
  operations whose results the models state directly), `time_split.cpp`,
  `tppr.h` and `temporal_utils.h` (exported, never called from Python).
* Vendored code: of 36 000 lines of C++ under `src/csrc`, 31 000 are containers
  and queues of third parties (`parallel_hashmap`, `dmlc`). The models take their
  contract, a map and a set, and leave their code aside; so the share of all
  C++ lines that the models stand for is small, although the sampler, the
  adjacency and the partitioner are modelled almost line for line. The
  runtime, which the other modules model, is Python.
* In `SnapshotPush`: exact mode (which pushes nothing), the cache channels (in
  the same packets), the subscription exchange at start-up.
* In `EventMemory`: managers without a mailbox, replica fallback on a miss,
  commits on an executor thread, flush intervals above one.
* In `LayerwiseScan`: evaluation with persisted state, the coupled and the
  model-recurrent scan, models with their own encode.
* In `OwnerFetch`: edge features (the same `_launch` on sorted rows), tables
  without a row map, the owner pushes of commits (their effect is in
  `EventMemory`), and the launch of batch k+1 before Stage A of batch k, a
  handshake of its own in `DataLoaderPipeline`.

## 8. Plan

Written, in this order: the pipeline and its proof, the history and its proof,
its publication, the order of collectives, the event memory, the layerwise scan,
the owner fetch and its proof, the sampler, the preparation, and
the partitioner with its proof.

Left, the behaviour that matters most first:

1. **Evaluation paths.** Scans that read persisted state, the coupled and
   model-recurrent scans in `LayerwiseScan`; the sequences of fit, evaluate and
   predict over one state manager (`runtime/train.py`), including evaluation
   without commits over a bounded history.
2. **Artifacts.** Writing, crash and restart of a preparation, with the readiness
   check of the trainer.
3. **Abstract specifications.** A sequential memory that `EventMemory`
   implements with its lag; a matched-collectives specification that
   `CollectiveOrder` and `OwnerFetch` implement.
