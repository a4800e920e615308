----------------------------- MODULE OwnerFetch -----------------------------
(* What a rank does to read rows it does not hold: the feature fetches of     *)
(* Stage B, the combined read of memory and mailbox, and the collection of    *)
(* endpoint embeddings after the encoder. Each is a request to the owners and *)
(* an answer, made of collectives that every rank enters whether or not it    *)
(* misses anything; ranks meet in them by position, not by name.              *)
EXTENDS OwnerRoute, SequencesExt

CONSTANTS
    N,          \* number of ranks
    Node,       \* node ids, integers
    Owner,      \* Node -> 1..N, the partition index
    Hot,        \* nodes every rank holds a copy of
    Batches,    \* batches of a run
    Workloads   \* what the ranks may want in a batch

Rank == 1..N

(* A batch of events reads the nodes of its sampled layers (blocks), and      *)
(* their memory, exactly or prefetched from the last commit it can see; a     *)
(* batch of snapshots reads one block per snapshot, and an edge task collects *)
(* the embeddings of its endpoints.                                           *)
Wants == [mode: {"event", "snapshot"}, state: {"none", "exact", "prefetch"},
          collect: BOOLEAN, blocks: [Rank -> Seq(Seq(Node))], ends: [Rank -> Seq(Node)]]

ASSUME FetchAssumption ==
    /\ N \in Nat \ {0}
    /\ Node \subseteq Int
    /\ Owner \in [Node -> Rank]
    /\ Hot \subseteq Node
    /\ Batches \in Nat \ {0}
    /\ Workloads \subseteq Wants

(* A batch of snapshots has a block for each of its snapshots, the same ones  *)
(* on every rank, and no memory to read.                                      *)
ASSUME SnapshotsAssumption ==
    \A want \in Workloads : want.mode = "snapshot" =>
        /\ want.state = "none"
        /\ \A r, p \in Rank : Len(want.blocks[r]) = Len(want.blocks[p])
        /\ \A r \in Rank : want.blocks[r] # <<>>

VARIABLES
    plan,       \* what is wanted in each batch
    at,         \* batch and phase of each rank
    sent,       \* the collectives each rank entered, in order
    request,    \* the OwnerRequest made last, and the feature fetch's
    pending,    \* feature fetches launched and not finished, a queue
    reply,      \* position in sent of the answer to the state or endpoint read
    read        \* lists of rows obtained in this batch, by kind

vars == <<plan, at, sent, request, pending, reply, read>>
-----------------------------------------------------------------------------
Kinds == {"feature", "state", "endpoint"}
Row(kind, n) == <<kind, n>>
Rows(kind, ids) == [i \in DOMAIN ids |-> Row(kind, ids[i])]
Own(r) == {n \in Node : Owner[n] = r}

Want(r) == plan[at[r].batch]
Nodes(want, r) == FlattenSeq(want.blocks[r])

(* The lists whose features a batch reads: each snapshot's nodes; of events,  *)
(* the nodes of the only block, or of all blocks sorted without repetition.   *)
FeatureLists(want, r) ==
    IF want.mode = "snapshot" THEN want.blocks[r]
    ELSE IF Len(want.blocks[r]) = 1 THEN <<Nodes(want, r)>> ELSE <<Unique(Nodes(want, r))>>

(* The list the state read is asked for: one block as it is, several sorted.  *)
(* A node may stand in it several times, at different times.                  *)
StateNodes(want, r) ==
    IF Len(want.blocks[r]) = 1 THEN Nodes(want, r)
    ELSE Pick(Nodes(want, r), Argsort(Nodes(want, r)))

Repeats(ids) == Cardinality(Elements(ids)) < Len(ids)
Distinct(ids) == IF Repeats(ids) THEN Unique(ids) ELSE ids

(* Rows present without asking. The prefetch of bounded-stale runs also takes *)
(* the replicas of hot nodes; an exact read goes to the owner.                *)
FeatureRows(r) == Own(r) \cup Hot
StateRows(want, r) == IF want.state = "prefetch" THEN Own(r) \cup Hot ELSE Own(r)

MissingPos(ids, present) == Increasing({i \in DOMAIN ids : ids[i] \notin present})
Missing(ids, present) == Pick(ids, MissingPos(ids, present))
MissingState(want, r) == Missing(StateNodes(want, r), StateRows(want, r))

(* Local rows in their places, the others where they were missing. *)
Fill(kind, ids, present, got) ==
    LET pos == MissingPos(ids, present)
    IN  [i \in DOMAIN ids |->
            IF ids[i] \in present THEN Row(kind, ids[i])
            ELSE got[CHOOSE j \in DOMAIN pos : pos[j] = i]]
-----------------------------------------------------------------------------
(* A call carries a part for every peer and the length expected from each;    *)
(* the k-th calls of all ranks are one collective.                            *)
Enter(r, kind, to, want) ==
    sent' = [sent EXCEPT ![r] = Append(@, [kind |-> kind, to |-> to, want |-> want])]

Entered(r) == Len(sent[r])

(* Ranks that meet in different calls wait for each other forever. *)
Complete(k) ==
    /\ \A p \in Rank : Entered(p) >= k
    /\ k > 0 => \A p \in Rank : sent[p][k].kind = sent[1][k].kind

Received(r, k) == FlattenSeq([p \in Rank |-> sent[p][k].to[r]])
ReceivedEach(r, k) == [p \in Rank |-> sent[p][k].to[r][1]]

Split(s, counts) ==
    LET begin(p) == SumFunctionOnSet(counts, 1..(p - 1))
    IN  [p \in Rank |-> SubSeq(s, begin(p) + 1, begin(p) + counts[p])]

ToAll(values) == [p \in Rank |-> <<values[p]>>]
OneEach == [p \in Rank |-> 1]

(* owner_route: the places of the list in owner order, and how many go where. *)
OwnerOrder(ids) == Argsort([i \in DOMAIN ids |-> Owner[ids[i]]])
SendCounts(ids) == [p \in Rank |-> Cardinality({i \in DOMAIN ids : Owner[ids[i]] = p})]

NoCounts == [p \in Rank |-> 0]
NoRequest == [ids |-> <<>>, order |-> <<>>, send |-> NoCounts, recv |-> NoCounts, nodes |-> <<>>]
AskedFor(ids) ==
    [ids |-> ids, order |-> OwnerOrder(ids), send |-> SendCounts(ids), recv |-> NoCounts,
     nodes |-> <<>>]

(* submit_owner_request up to the exchange of counts. *)
Ask(r, ids) ==
    /\ request' = [request EXCEPT ![r] = AskedFor(ids)]
    /\ Enter(r, "counts", ToAll(SendCounts(ids)), OneEach)

(* submit_owner_responses: the rows of the nodes the peers asked for. *)
Answer(r, kind, req) ==
    Enter(r, kind, Split(Rows(kind, req.nodes), req.recv), req.send)

Move(r, phase) == at' = [at EXCEPT ![r].phase = phase]

(* Where a request waits for counts, for ids, and for its answer.             *)
CountsOf == [feature |-> "feature_counts", state |-> "state_counts", endpoint |-> "endpoint_counts"]
NodesOf == [feature |-> "feature_nodes", state |-> "state_nodes", endpoint |-> "endpoint_nodes"]
FinishOf == [feature |-> "feature_finish", state |-> "state_finish", endpoint |-> "endpoint_finish"]

(* The collective a rank waits for before its next step: a finish waits for   *)
(* the answers it reads, the steps of a request for the call just entered.    *)
Awaited(r) ==
    CASE at[r].phase \in {"features", "state", "endpoints", "use"} -> 0
      [] at[r].phase = "feature_finish" -> Last(pending[r]).reply
      [] at[r].phase \in {"state_finish", "endpoint_finish"} -> reply[r]
      [] OTHER -> Entered(r)

Ready(r) == at[r].phase # "done" /\ Complete(Awaited(r))
-----------------------------------------------------------------------------
Init ==
    /\ plan \in [1..Batches -> Workloads]
    /\ at = [r \in Rank |-> [batch |-> 1, phase |-> "features"]]
    /\ sent = [r \in Rank |-> <<>>]
    /\ request = [r \in Rank |-> NoRequest]
    /\ pending = [r \in Rank |-> <<>>]
    /\ reply = [r \in Rank |-> 0]
    /\ read = [r \in Rank |-> [k \in Kinds |-> <<>>]]

(* launch_node_feature_fetch of the next list; the launches of a batch are    *)
(* made one after the other, their answers are waited for later.              *)
FetchedIds(r) == Distinct(FeatureLists(Want(r), r)[Len(pending[r]) + 1])

LaunchFeatures(r) ==
    /\ at[r].phase = "features"
    /\ Ask(r, Missing(FetchedIds(r), FeatureRows(r)))
    /\ Move(r, "feature_counts")
    /\ UNCHANGED <<plan, pending, reply, read>>

(* The counts are known: the ids go out in owner order. *)
SendIds(r, kind) ==
    /\ at[r].phase = CountsOf[kind]
    /\ LET recv == ReceivedEach(r, Entered(r))
       IN  /\ request' = [request EXCEPT ![r].recv = recv]
           /\ Enter(r, "nodes",
                    Split(Pick(request[r].ids, request[r].order), request[r].send), recv)
    /\ Move(r, NodesOf[kind])
    /\ UNCHANGED <<plan, pending, reply, read>>

(* The ids asked of this rank are here: it reads its rows and launches them.  *)
Requested(r) == [request[r] EXCEPT !.nodes = Received(r, Entered(r))]

AnswerFeatures(r) ==
    /\ at[r].phase = "feature_nodes"
    /\ request' = [request EXCEPT ![r] = Requested(r)]
    /\ Answer(r, "feature", Requested(r))
    /\ pending' = [pending EXCEPT ![r] =
            Append(@, [ids |-> FetchedIds(r), order |-> request[r].order,
                       reply |-> Entered(r) + 1])]
    /\ Move(r, IF Len(pending[r]) + 1 < Len(FeatureLists(Want(r), r)) THEN "features"
               ELSE IF Want(r).state = "prefetch" THEN "state" ELSE "feature_finish")
    /\ UNCHANGED <<plan, reply, read>>

(* finish_node_feature_fetch of every list of the batch. *)
Fetched(r, k) ==
    LET fetch == pending[r][k]
        list == FeatureLists(Want(r), r)[k]
        rows == Fill("feature", fetch.ids, FeatureRows(r),
                     Restore(Received(r, fetch.reply), fetch.order))
    IN  IF Repeats(list) THEN Pick(rows, InverseOf(list)) ELSE rows

FinishFeatures(r) ==
    /\ at[r].phase = "feature_finish"
    /\ read' = [read EXCEPT ![r]["feature"] = [k \in DOMAIN pending[r] |-> Fetched(r, k)]]
    /\ pending' = [pending EXCEPT ![r] = <<>>]
    /\ Move(r, CASE Want(r).state = "prefetch" -> "state_finish"
                 [] Want(r).state = "exact" -> "state"
                 [] OTHER -> "endpoints")
    /\ UNCHANGED <<plan, sent, request, reply>>

(* Variant: a rank that holds all its rows does not ask the others. *)
SubmitWhenMissing(r) ==
    /\ at[r].phase = "state"
    /\ LET missing == MissingState(Want(r), r) # <<>>
       IN  \/ /\ missing
              /\ Enter(r, "needed", ToAll([p \in Rank |-> missing]), OneEach)
              /\ Move(r, "state_needed")
           \/ /\ ~missing
              /\ Move(r, IF Want(r).state = "prefetch" THEN "feature_finish" ELSE "state_finish")
              /\ UNCHANGED sent
    /\ UNCHANGED <<plan, request, pending, reply, read>>

(* _submit_remote_pair: the ranks agree on whether anyone misses a row. *)
SubmitState(r) ==
    /\ at[r].phase = "state"
    /\ LET missing == MissingState(Want(r), r) # <<>>
       IN  Enter(r, "needed", ToAll([p \in Rank |-> missing]), OneEach)
    /\ Move(r, "state_needed")
    /\ UNCHANGED <<plan, request, pending, reply, read>>

Needed(r) == \E p \in Rank : ReceivedEach(r, Entered(r))[p]

(* _request_nodes: the prefetch reuses the request of the feature fetch.      *)
ReuseRequest(r) ==
    /\ Want(r).state = "prefetch"
    /\ Answer(r, "state", request[r])
    /\ reply' = [reply EXCEPT ![r] = Entered(r) + 1]
    /\ Move(r, "feature_finish")
    /\ UNCHANGED request

(* Variant: repetitions are asked for, and then expanded once more. *)
RequestRepeated(r) ==
    /\ at[r].phase = "state_needed"
    /\ \/ /\ ~Needed(r)
          /\ Move(r, IF Want(r).state = "prefetch" THEN "feature_finish" ELSE "state_finish")
          /\ UNCHANGED <<sent, request, reply>>
       \/ /\ Needed(r)
          /\ ReuseRequest(r)
       \/ /\ Needed(r)
          /\ Want(r).state = "exact"
          /\ Ask(r, MissingState(Want(r), r))
          /\ Move(r, "state_counts")
          /\ UNCHANGED reply
    /\ UNCHANGED <<plan, pending, read>>

RequestState(r) ==
    /\ at[r].phase = "state_needed"
    /\ \/ /\ ~Needed(r)
          /\ Move(r, IF Want(r).state = "prefetch" THEN "feature_finish" ELSE "state_finish")
          /\ UNCHANGED <<sent, request, reply>>
       \/ /\ Needed(r)
          /\ ReuseRequest(r)
       \/ /\ Needed(r)
          /\ Want(r).state = "exact"
          /\ Ask(r, Unique(MissingState(Want(r), r)))
          /\ Move(r, "state_counts")
          /\ UNCHANGED reply
    /\ UNCHANGED <<plan, pending, read>>

(* The owner's side of an exact state read and of the endpoint collection.    *)
AnswerIds(r, kind) ==
    /\ at[r].phase = NodesOf[kind]
    /\ request' = [request EXCEPT ![r] = Requested(r)]
    /\ Answer(r, kind, Requested(r))
    /\ reply' = [reply EXCEPT ![r] = Entered(r) + 1]
    /\ Move(r, FinishOf[kind])
    /\ UNCHANGED <<plan, pending, read>>

(* finish_pair: restored to the order of the request, then spread over the    *)
(* missing positions by the inverse of their sorted list.                     *)
FinishState(r) ==
    /\ at[r].phase = "state_finish"
    /\ LET missing == MissingState(Want(r), r)
           restored == Restore(Received(r, reply[r]), request[r].order)
           got == IF reply[r] = 0 THEN <<>> ELSE Pick(restored, InverseOf(missing))
       IN  read' = [read EXCEPT ![r]["state"] = Fill("state", StateNodes(Want(r), r), StateRows(Want(r), r), got)]
    /\ Move(r, "endpoints")
    /\ UNCHANGED <<plan, sent, request, pending, reply>>

NextBatch(r) ==
    /\ at' = [at EXCEPT ![r] = [batch |-> @.batch + 1,
            phase |-> IF @.batch = Batches THEN "done" ELSE "features"]]
    /\ request' = [request EXCEPT ![r] = NoRequest]
    /\ reply' = [reply EXCEPT ![r] = 0]
    /\ read' = [read EXCEPT ![r] = [k \in Kinds |-> <<>>]]

(* _collect_remote: endpoints outside this rank's output are asked for.       *)
CollectEndpoints(r) ==
    /\ at[r].phase = "endpoints"
    /\ Want(r).collect
    /\ Ask(r, Missing(Want(r).ends[r], Own(r)))
    /\ Move(r, "endpoint_counts")
    /\ UNCHANGED <<plan, pending, reply, read>>

FinishEndpoints(r) ==
    /\ at[r].phase = "endpoint_finish"
    /\ LET got == Restore(Received(r, reply[r]), request[r].order)
       IN  read' = [read EXCEPT ![r]["endpoint"] = Fill("endpoint", Want(r).ends[r], Own(r), got)]
    /\ Move(r, "use")
    /\ UNCHANGED <<plan, sent, request, pending, reply>>

(* The batch is used and dropped; the next one is launched. *)
Use(r) ==
    /\ at[r].phase = "use" \/ (at[r].phase = "endpoints" /\ ~Want(r).collect)
    /\ NextBatch(r)
    /\ UNCHANGED <<plan, sent, pending>>

Step(r) ==
    /\ Ready(r)
    /\ \/ LaunchFeatures(r) \/ AnswerFeatures(r) \/ FinishFeatures(r)
       \/ SubmitState(r) \/ RequestState(r) \/ FinishState(r)
       \/ CollectEndpoints(r) \/ FinishEndpoints(r)
       \/ \E kind \in Kinds : SendIds(r, kind)
       \/ \E kind \in {"state", "endpoint"} : AnswerIds(r, kind)
       \/ Use(r)

AllDone == \A r \in Rank : at[r].phase = "done"
Done == AllDone /\ UNCHANGED vars

Next == (\E r \in Rank : Step(r)) \/ Done

Spec == Init /\ [][Next]_vars

(* A rank is one process and a collective completes once all ranks entered    *)
(* it: a rank that stays ready takes its next step. This is WF_vars(Step(r)), *)
(* with Ready(r) for ENABLED Step(r), as every step of r moves at[r].         *)
FairStep(r) == []<>(~Ready(r)) \/ []<><<at'[r] # at[r]>>_vars
FairSpec == Spec /\ \A r \in Rank : FairStep(r)
-----------------------------------------------------------------------------
Request == [ids: Seq(Node), order: Seq(Nat), send: [Rank -> Nat], recv: [Rank -> Nat],
            nodes: Seq(Node)]

IsList(s) == DOMAIN s = 1..Len(s)
IsIds(s) == IsList(s) /\ Elements(s) \subseteq Node

(* Type correctness; the order of a request visits all its ids, and an answer *)
(* is awaited only after its call was entered.                                *)
TypeOK ==
    /\ plan \in [1..Batches -> Workloads]
    /\ \A r \in Rank :
        /\ at[r].batch \in 1..(Batches + 1)
        /\ IsIds(request[r].ids) /\ IsIds(request[r].nodes)
        /\ Elements(request[r].order) = DOMAIN request[r].ids
        /\ request[r].send \in [Rank -> Nat] /\ request[r].recv \in [Rank -> Nat]
        /\ \A k \in DOMAIN pending[r] : pending[r][k].reply \in 1..Entered(r)
        /\ reply[r] \in 0..Entered(r)

(* Every list of features a batch was given holds, at each place, the row of  *)
(* the node at that place: the owner order, the repetitions, the mixture of   *)
(* local and remote rows and the other fetches in flight cancel out.          *)
FeaturesMatch ==
    \A r \in Rank : \A k \in DOMAIN read[r]["feature"] :
        read[r]["feature"][k] = Rows("feature", FeatureLists(Want(r), r)[k])

(* The same for memory and mailbox, read on their own request or on the one   *)
(* of the feature fetch.                                                      *)
StateMatches ==
    \A r \in Rank : read[r]["state"] # <<>> =>
        read[r]["state"] = Rows("state", StateNodes(Want(r), r))

(* The same for the endpoints of an edge task, which a node may be several of.*)
EndpointsMatch ==
    \A r \in Rank : read[r]["endpoint"] # <<>> =>
        read[r]["endpoint"] = Rows("endpoint", Want(r).ends[r])

(* Ranks that meet in a collective make the same call, and each sends as many *)
(* rows as its peer has made room for: what all_to_all_single relies on.      *)
CallsFit ==
    \A r, p \in Rank : \A k \in 1..Entered(r) : k <= Entered(p) =>
        /\ sent[r][k].kind = sent[p][k].kind
        /\ Len(sent[r][k].to[p]) = sent[p][k].want[r]

(* A rank is asked for nodes it owns: the index of an owner has no other.     *)
AskedOfOwners == \A r \in Rank : Elements(request[r].nodes) \subseteq Own(r)

(* Whatever a batch fetches comes back in its places, in calls that match:    *)
(* _restore_order, finish_node_feature_fetch, _materialize.                   *)
FetchesMatch == TypeOK /\ CallsFit /\ AskedOfOwners /\ FeaturesMatch /\ EndpointsMatch

(* Every rank gets through all its batches, whatever it and the others miss.  *)
Terminates == <>AllDone
=============================================================================
