------------------------ MODULE CollectiveOrderProofs ------------------------
(* In every configuration that keeps a rank without targets in the exchanges, *)
(* any number of ranks make the same collective calls for the same batches,   *)
(* and take the same optimizer steps, wherever targets and events lie.        *)
(*                                                                            *)
(* What two ranks have in common is not where they stand but the call they    *)
(* block in next: AheadOf computes it from the configuration, the place and   *)
(* the batch alone. A step of a rank leaves it as it is, whatever the rank    *)
(* decides from its own targets; a collective call moves all ranks at once.   *)
EXTENDS CollectiveOrder, TLAPS

USE RankAssumption, BatchesAssumption, WorkloadsAssumption

(* What the configuration decides about the calls of a batch.                 *)
Course == [training |-> workload.training, synchronised |-> Synchronised,
           scheduled |-> Scheduled, owner |-> OwnerState,
           committing |-> Commits /\ OwnerState, exchanges |-> Exchanges,
           collects |-> Collects, reverse |-> Collects \/ PullsBoundary]

(* Blocked in a call for batch b, to go on at a place with batch after.       *)
At(kind, b, place, after) == <<[kind |-> kind, batch |-> b], place, after>>

AtResult(b) == At("result", b, "done", b)

(* The next call of a rank that stands before a call of batch b, from the     *)
(* last one of the batch to the first. A batch may make no call at all; then  *)
(* no batch does, and the next call is the last one of the epoch.             *)
FromHydrate(c, b) ==
    IF c.owner THEN At("hydrate", b, "encode", b)
    ELSE IF c.exchanges THEN At("encode", b, "endpoint", b)
    ELSE IF c.synchronised THEN At("gradients", b, "flag", b)
    ELSE AtResult(Batches)

FromCommit(c, b) ==
    IF c.committing
    THEN At("commit", b, IF b = Batches THEN "result" ELSE "hydrate",
                         IF b = Batches THEN b ELSE b + 1)
    ELSE IF b = Batches THEN AtResult(b) ELSE FromHydrate(c, b + 1)

FromFlag(c, b) ==
    IF c.synchronised /\ ~c.scheduled THEN At("optimizer_supervision", b, "step", b)
    ELSE FromCommit(c, b)

FromGradients(c, b) ==
    IF c.synchronised THEN At("gradients", b, "flag", b) ELSE FromFlag(c, b)

FromBackward(c, b) ==
    IF c.reverse THEN At("reverse", b, "gradients", b) ELSE FromGradients(c, b)

FromEndpoint(c, b) ==
    IF c.collects THEN At("endpoint", b, IF c.training THEN "backward" ELSE "commit", b)
    ELSE IF c.training THEN FromBackward(c, b) ELSE FromCommit(c, b)

FromEncode(c, b) ==
    IF c.exchanges THEN At("encode", b, "endpoint", b) ELSE FromEndpoint(c, b)

FromSchedule(c, b) ==
    IF c.scheduled THEN At("prepared_supervision", b, "hydrate", b) ELSE FromHydrate(c, b)

FromStart(c, b) ==
    IF c.synchronised THEN At("parameters", b, "schedule", b) ELSE FromSchedule(c, b)

AheadOf(c, place, b) ==
    CASE place = "start" -> FromStart(c, b)
      [] place = "schedule" -> FromSchedule(c, b)
      [] place = "hydrate" -> FromHydrate(c, b)
      [] place = "encode" -> FromEncode(c, b)
      [] place = "endpoint" -> FromEndpoint(c, b)
      [] place = "backward" -> FromBackward(c, b)
      [] place = "gradients" -> FromGradients(c, b)
      [] place = "flag" -> FromFlag(c, b)
      [] place \in {"step", "commit"} -> FromCommit(c, b)
      [] place = "result" -> AtResult(b)
      [] OTHER -> <<NoCall, "done", b>>

(* The call a rank is blocked in, or will be blocked in next.                 *)
Meeting(r) ==
    IF call[r] = NoCall THEN AheadOf(Course, pc[r], batch[r])
    ELSE <<call[r], pc[r], batch[r]>>

SameMeeting == \A p, r \in Rank : Meeting(p) = Meeting(r)

(* The batches in which some rank has targets.                                *)
Wanted == UNION {supervised[p] : p \in Rank}

(* A rank that steps the optimizer was told what it needs.                    *)
Told(r) ==
    /\ known[r] \subseteq Wanted
    /\ pc[r] = "step" /\ call[r] # NoCall => call[r].kind = "optimizer_supervision"
    /\ Scheduled =>
         (pc[r] \in {"start", "schedule"} \/ call[r].kind = "prepared_supervision"
             \/ Wanted \subseteq known[r])
    /\ ~Scheduled /\ pc[r] = "step" /\ call[r] = NoCall =>
         (batch[r] \in Wanted => batch[r] \in known[r])

(* The batches whose optimizer step is behind rank r.                         *)
Passed(r) == {b \in Batch : b < batch[r]}
             \cup IF pc[r] \in {"commit", "result", "done"} THEN {batch[r]} ELSE {}

SteppedSoFar(r) == stepped[r] \subseteq Wanted /\ Wanted \cap Passed(r) \subseteq stepped[r]

(* A commit of the model's own state for every batch that is through.         *)
CommittedSoFar(r) ==
    commits[r] = IF Counts(r)
                 THEN (IF pc[r] \in {"result", "done"} THEN batch[r] ELSE batch[r] - 1)
                 ELSE 0

IInv == /\ TypeOK
        /\ SameMeeting
        /\ Synchronised => \A r \in Rank : Told(r) /\ SteppedSoFar(r)
        /\ \A r \in Rank : CommittedSoFar(r)

(* The configurations the theorems are about.                                 *)
KeepsAllIn == \A w \in Workloads : Built(w) /\ KeptIn(w)
-----------------------------------------------------------------------------
(* run_epoch keeps its configuration.                                         *)
LEMMA CourseStays ==
    ASSUME workload' = workload
    PROVE  Course' = Course /\ Synchronised' = Synchronised /\ Scheduled' = Scheduled
  BY DEF Course, Synchronised, Scheduled, OwnerState, Commits, State, BatchLocal,
         Exchanges, Collects, PullsBoundary

(* What holds of every configuration.                                         *)
LEMMA CourseFacts ==
    ASSUME TypeOK
    PROVE  /\ Course.synchronised => Course.training
           /\ Course.scheduled => Course.synchronised
           /\ Course.collects => Course.exchanges
           /\ Course.reverse => Course.exchanges
           /\ Course.committing => Course.owner
  BY DEF TypeOK, Workload, Course, Synchronised, Scheduled, Exchanges, Collects, PullsBoundary

(* _skip_empty_batch leaves out no exchange of a snapshot.                    *)
LEMMA SkipsOnlyEvents ==
    ASSUME TypeOK, KeepsAllIn, NEW r \in Rank, Skip(r)
    PROVE  workload.mode = "event" /\ ~Synchronised
<1>1. workload \in Workload /\ KeptIn(workload)
  BY DEF TypeOK, KeepsAllIn
<1>2. ~Synchronised /\ ~Collects /\ ~(workload.mode = "snapshot" /\ HasState(r))
  BY DEF Skip, SkipEmptyBatch, ForceEmptyStep
<1>3. workload.mode \in {"snapshot", "event"} /\ workload.task \in {"node", "edge"}
  BY <1>1 DEF Workload
<1> QED
  BY <1>1, <1>2, <1>3
  DEF KeptIn, HasState, OwnerState, State, BatchLocal, Collects, Synchronised

(* A batch that begins makes the first call that is not left out.             *)
LEMMA FirstCall ==
    ASSUME TypeOK, NEW b \in Batch
    PROVE  /\ ~Course.owner => FromHydrate(Course, b) = FromEncode(Course, b)
           /\ ~Course.exchanges /\ ~Course.synchronised => FromEncode(Course, b) = FromCommit(Course, b)
<1>1. CASE Course.exchanges
  BY <1>1 DEF FromHydrate, FromEncode
<1>2. CASE ~Course.exchanges /\ Course.synchronised
  BY <1>2, CourseFacts DEF FromHydrate, FromEncode, FromEndpoint, FromBackward, FromGradients
<1>3. CASE ~Course.exchanges /\ ~Course.synchronised
  <2>1. FromEncode(Course, b) = FromCommit(Course, b)
    BY <1>3, CourseFacts DEF FromEncode, FromEndpoint, FromBackward, FromGradients, FromFlag
  <2>2. ~Course.owner => FromCommit(Course, b) = AtResult(Batches)
    BY <1>3, CourseFacts DEF FromCommit, FromHydrate
  <2>3. ~Course.owner => FromHydrate(Course, b) = AtResult(Batches)
    BY <1>3 DEF FromHydrate
  <2> QED
    BY <2>1, <2>2, <2>3
<1> QED
  BY <1>1, <1>2, <1>3
-----------------------------------------------------------------------------
(* GoThrough: where a rank is once it went through a call or past it.         *)
LEMMA GoesThrough ==
    ASSUME TypeOK, NEW r \in Rank, NEW here, NEW needed, NEW kind \in Kinds \cup {"none"},
           NEW next \in Places, GoThrough(r, here, needed, kind, next),
           needed => kind \in Kinds,
           workload' = workload, batch' \in [Rank -> Batch],
           \A p \in Rank \ {r} : batch'[p] = batch[p]
    PROVE  /\ pc[r] = here /\ call[r] = NoCall /\ pc'[r] = next
           /\ call'[r] = IF needed THEN [kind |-> kind, batch |-> batch[r]] ELSE NoCall
           /\ pc' \in [Rank -> Places]
           /\ call' \in [Rank -> [kind : Kinds, batch : Batch] \cup {NoCall}]
           /\ \A p \in Rank \ {r} : /\ pc'[p] = pc[p] /\ call'[p] = call[p]
                                    /\ Meeting(p)' = Meeting(p)
           /\ Meeting(r) = AheadOf(Course, here, batch[r])
           /\ Meeting(r)' = IF needed THEN At(kind, batch[r], next, batch'[r])
                            ELSE AheadOf(Course, next, batch'[r])
<1>1. /\ pc \in [Rank -> Places] /\ batch \in [Rank -> Batch]
      /\ call \in [Rank -> [kind : Kinds, batch : Batch] \cup {NoCall}]
  BY DEF TypeOK
<1>2. /\ pc[r] = here /\ call[r] = NoCall
      /\ pc' = [pc EXCEPT ![r] = next]
      /\ call' = [call EXCEPT ![r] = IF needed THEN [kind |-> kind, batch |-> batch[r]] ELSE NoCall]
  BY DEF GoThrough
<1>3. Course' = Course
  BY CourseStays
<1>4. needed => [kind |-> kind, batch |-> batch[r]] \in [kind : Kinds, batch : Batch]
  BY <1>1
<1>5. needed => [kind |-> kind, batch |-> batch[r]] # NoCall
  BY DEF NoCall, Kinds
<1>6. /\ pc'[r] = next
      /\ call'[r] = IF needed THEN [kind |-> kind, batch |-> batch[r]] ELSE NoCall
      /\ pc' \in [Rank -> Places]
      /\ call' \in [Rank -> [kind : Kinds, batch : Batch] \cup {NoCall}]
      /\ \A p \in Rank \ {r} : pc'[p] = pc[p] /\ call'[p] = call[p]
  BY <1>1, <1>2, <1>4
<1>7. \A p \in Rank \ {r} : Meeting(p)' = Meeting(p)
  BY <1>3, <1>6 DEF Meeting
<1>8. Meeting(r) = AheadOf(Course, here, batch[r])
  BY <1>2 DEF Meeting
<1>9. Meeting(r)' = IF needed THEN At(kind, batch[r], next, batch'[r])
                    ELSE AheadOf(Course, next, batch'[r])
  BY <1>3, <1>5, <1>6 DEF Meeting, At
<1> QED
  BY <1>2, <1>6, <1>7, <1>8, <1>9
(* A rank goes on towards the call it was to meet its peers in if the call it *)
(* makes, or else the next one from where it gets to, is that call.           *)
LEMMA GoesTowards ==
    ASSUME TypeOK, NEW r \in Rank, NEW here, NEW needed, NEW kind \in Kinds \cup {"none"},
           NEW next \in Places, GoThrough(r, here, needed, kind, next),
           needed => kind \in Kinds,
           workload' = workload, batch' \in [Rank -> Batch],
           \A p \in Rank \ {r} : batch'[p] = batch[p],
           AheadOf(Course, here, batch[r])
               = IF needed THEN At(kind, batch[r], next, batch'[r])
                 ELSE AheadOf(Course, next, batch'[r])
    PROVE  /\ pc' \in [Rank -> Places]
           /\ call' \in [Rank -> [kind : Kinds, batch : Batch] \cup {NoCall}]
           /\ \A p \in Rank : Meeting(p)' = Meeting(p)
<1>1. /\ pc' \in [Rank -> Places]
      /\ call' \in [Rank -> [kind : Kinds, batch : Batch] \cup {NoCall}]
      /\ \A p \in Rank \ {r} : Meeting(p)' = Meeting(p)
      /\ Meeting(r) = AheadOf(Course, here, batch[r])
      /\ Meeting(r)' = IF needed THEN At(kind, batch[r], next, batch'[r])
                       ELSE AheadOf(Course, next, batch'[r])
  BY GoesThrough
<1> QED
  BY <1>1
-----------------------------------------------------------------------------
(* A step of a rank within its batch leaves the call ahead of it the same.    *)
LEMMA WithinBatch ==
    ASSUME TypeOK, NEW r \in Rank,
           \/ Start(r) \/ Schedule(r) \/ Hydrate(r) \/ Encode(r) \/ Endpoint(r)
           \/ Backward(r) \/ SyncGradients(r) \/ ReduceSupervision(r)
           \/ StepOptimizer(r) \/ Result(r)
    PROVE  /\ pc' \in [Rank -> Places]
           /\ call' \in [Rank -> [kind : Kinds, batch : Batch] \cup {NoCall}]
           /\ \A p \in Rank : Meeting(p)' = Meeting(p)
<1>1. batch \in [Rank -> Batch] /\ batch[r] \in Batch
  BY DEF TypeOK
<1>2. CASE Start(r)
  <2>1. /\ GoThrough(r, "start", Synchronised, "parameters", "schedule")
        /\ workload' = workload /\ batch' = batch
    BY <1>2 DEF Start, data
  <2>2. AheadOf(Course, "start", batch[r])
            = IF Synchronised THEN At("parameters", batch[r], "schedule", batch[r])
              ELSE AheadOf(Course, "schedule", batch[r])
    BY <1>1 DEF AheadOf, FromStart, Course
  <2>3. /\ "schedule" \in Places /\ "parameters" \in Kinds \cup {"none"}
        /\ Synchronised => "parameters" \in Kinds
    BY DEF Places, Kinds
  <2> QED
    BY <1>1, <2>1, <2>2, <2>3, GoesTowards
<1>3. CASE Schedule(r)
  <2>1. /\ GoThrough(r, "schedule", Scheduled, "prepared_supervision", "hydrate")
        /\ workload' = workload /\ batch' = batch
    BY <1>3 DEF Schedule, data
  <2>2. AheadOf(Course, "schedule", batch[r])
            = IF Scheduled THEN At("prepared_supervision", batch[r], "hydrate", batch[r])
              ELSE AheadOf(Course, "hydrate", batch[r])
    BY <1>1 DEF AheadOf, FromSchedule, Course
  <2>3. /\ "hydrate" \in Places /\ "prepared_supervision" \in Kinds \cup {"none"}
        /\ Scheduled => "prepared_supervision" \in Kinds
    BY DEF Places, Kinds
  <2> QED
    BY <1>1, <2>1, <2>2, <2>3, GoesTowards
<1>4. CASE Hydrate(r)
  <2>1. /\ GoThrough(r, "hydrate", OwnerState, "hydrate", "encode")
        /\ workload' = workload /\ batch' = batch
    BY <1>4 DEF Hydrate, data
  <2>2. AheadOf(Course, "hydrate", batch[r])
            = IF OwnerState THEN At("hydrate", batch[r], "encode", batch[r])
              ELSE AheadOf(Course, "encode", batch[r])
    BY <1>1, FirstCall DEF AheadOf, FromHydrate, Course
  <2>3. /\ "encode" \in Places /\ "hydrate" \in Kinds \cup {"none"}
        /\ OwnerState => "hydrate" \in Kinds
    BY DEF Places, Kinds
  <2> QED
    BY <1>1, <2>1, <2>2, <2>3, GoesTowards
<1>5. CASE Encode(r)
  <2>1. /\ GoThrough(r, "encode", Exchanges, "encode", "endpoint")
        /\ workload' = workload /\ batch' = batch
    BY <1>5 DEF Encode, data
  <2>2. AheadOf(Course, "encode", batch[r])
            = IF Exchanges THEN At("encode", batch[r], "endpoint", batch[r])
              ELSE AheadOf(Course, "endpoint", batch[r])
    BY <1>1 DEF AheadOf, FromEncode, Course
  <2>3. /\ "endpoint" \in Places /\ "encode" \in Kinds \cup {"none"}
        /\ Exchanges => "encode" \in Kinds
    BY DEF Places, Kinds
  <2> QED
    BY <1>1, <2>1, <2>2, <2>3, GoesTowards
<1>6. CASE Endpoint(r)
  <2>1. /\ GoThrough(r, "endpoint", Collects, "endpoint", IF workload.training THEN "backward" ELSE "commit")
        /\ workload' = workload /\ batch' = batch
    BY <1>6 DEF Endpoint, data
  <2>2. AheadOf(Course, "endpoint", batch[r])
            = IF Collects THEN At("endpoint", batch[r], IF workload.training THEN "backward" ELSE "commit", batch[r])
              ELSE AheadOf(Course, IF workload.training THEN "backward" ELSE "commit", batch[r])
    BY <1>1 DEF AheadOf, FromEndpoint, Course
  <2>3. /\ (IF workload.training THEN "backward" ELSE "commit") \in Places /\ "endpoint" \in Kinds \cup {"none"}
        /\ Collects => "endpoint" \in Kinds
    BY DEF Places, Kinds
  <2> QED
    BY <1>1, <2>1, <2>2, <2>3, GoesTowards
<1>7. CASE Backward(r)
  <2>1. /\ GoThrough(r, "backward", Reverse(r), "reverse", "gradients")
        /\ workload' = workload /\ batch' = batch
    BY <1>7 DEF Backward, data
  <2>2. AheadOf(Course, "backward", batch[r])
            = IF Reverse(r) THEN At("reverse", batch[r], "gradients", batch[r])
              ELSE AheadOf(Course, "gradients", batch[r])
    BY <1>1, CourseFacts DEF AheadOf, FromBackward, Course, Reverse
  <2>3. /\ "gradients" \in Places /\ "reverse" \in Kinds \cup {"none"}
        /\ Reverse(r) => "reverse" \in Kinds
    BY DEF Places, Kinds
  <2> QED
    BY <1>1, <2>1, <2>2, <2>3, GoesTowards
<1>8. CASE SyncGradients(r)
  <2>1. /\ GoThrough(r, "gradients", Synchronised, "gradients", "flag")
        /\ workload' = workload /\ batch' = batch
    BY <1>8 DEF SyncGradients, data
  <2>2. AheadOf(Course, "gradients", batch[r])
            = IF Synchronised THEN At("gradients", batch[r], "flag", batch[r])
              ELSE AheadOf(Course, "flag", batch[r])
    BY <1>1 DEF AheadOf, FromGradients, Course
  <2>3. /\ "flag" \in Places /\ "gradients" \in Kinds \cup {"none"}
        /\ Synchronised => "gradients" \in Kinds
    BY DEF Places, Kinds
  <2> QED
    BY <1>1, <2>1, <2>2, <2>3, GoesTowards
<1>9. CASE ReduceSupervision(r)
  <2>1. /\ GoThrough(r, "flag", Synchronised /\ ~Scheduled, "optimizer_supervision", "step")
        /\ workload' = workload /\ batch' = batch
    BY <1>9 DEF ReduceSupervision, data
  <2>2. AheadOf(Course, "flag", batch[r])
            = IF Synchronised /\ ~Scheduled THEN At("optimizer_supervision", batch[r], "step", batch[r])
              ELSE AheadOf(Course, "step", batch[r])
    BY <1>1 DEF AheadOf, FromFlag, Course
  <2>3. /\ "step" \in Places /\ "optimizer_supervision" \in Kinds \cup {"none"}
        /\ Synchronised /\ ~Scheduled => "optimizer_supervision" \in Kinds
    BY DEF Places, Kinds
  <2> QED
    BY <1>1, <2>1, <2>2, <2>3, GoesTowards
<1>10. CASE StepOptimizer(r)
  <2>1. /\ GoThrough(r, "step", FALSE, "none", "commit")
        /\ workload' = workload /\ batch' = batch
    BY <1>10 DEF StepOptimizer, data
  <2>2. AheadOf(Course, "step", batch[r])
            = IF FALSE THEN At("none", batch[r], "commit", batch[r])
              ELSE AheadOf(Course, "commit", batch[r])
    BY <1>1 DEF AheadOf, FromCommit, Course
  <2>3. /\ "commit" \in Places /\ "none" \in Kinds \cup {"none"}
        /\ FALSE => "none" \in Kinds
    BY DEF Places, Kinds
  <2> QED
    BY <1>1, <2>1, <2>2, <2>3, GoesTowards
<1>11. CASE Result(r)
  <2>1. /\ GoThrough(r, "result", TRUE, "result", "done")
        /\ workload' = workload /\ batch' = batch
    BY <1>11 DEF Result, data
  <2>2. AheadOf(Course, "result", batch[r])
            = IF TRUE THEN At("result", batch[r], "done", batch[r])
              ELSE AheadOf(Course, "done", batch[r])
    BY <1>1 DEF AheadOf, AtResult, Course
  <2>3. /\ "done" \in Places /\ "result" \in Kinds \cup {"none"}
        /\ TRUE => "result" \in Kinds
    BY DEF Places, Kinds
  <2> QED
    BY <1>1, <2>1, <2>2, <2>3, GoesTowards
<1> QED
  BY <1>2, <1>3, <1>4, <1>5, <1>6, <1>7, <1>8, <1>9, <1>10, <1>11
(* EndBatch: the next batch, or the end of the epoch.                         *)
LEMMA BatchEnds ==
    ASSUME TypeOK, NEW r \in Rank, NEW here, EndBatch(r, here), workload' = workload,
           AheadOf(Course, here, batch[r]) = FromCommit(Course, batch[r])
    PROVE  /\ pc' \in [Rank -> Places] /\ batch' \in [Rank -> Batch]
           /\ call' \in [Rank -> [kind : Kinds, batch : Batch] \cup {NoCall}]
           /\ \A p \in Rank : Meeting(p)' = Meeting(p)
           /\ pc[r] = here
           /\ IF batch[r] = Batches THEN pc'[r] = "result" /\ batch'[r] = batch[r]
              ELSE pc'[r] = "hydrate" /\ batch'[r] = batch[r] + 1
           /\ \A p \in Rank \ {r} : pc'[p] = pc[p] /\ batch'[p] = batch[p] /\ call'[p] = call[p]
           /\ call'[r].kind \in {"commit", "none"}
<1> DEFINE next == IF batch[r] = Batches THEN "result" ELSE "hydrate"
           after == IF batch[r] = Batches THEN batch[r] ELSE batch[r] + 1
<1>1. batch \in [Rank -> Batch] /\ batch[r] \in 1 .. Batches
  BY DEF TypeOK, Batch
<1>2. /\ GoThrough(r, here, CommitCall(r), "commit", next)
      /\ batch' = [batch EXCEPT ![r] = after]
  BY DEF EndBatch, Finished
<1>3. after \in Batch
  BY <1>1 DEF Batch
<1>4. /\ batch' \in [Rank -> Batch] /\ batch'[r] = after
      /\ \A p \in Rank \ {r} : batch'[p] = batch[p]
  BY <1>1, <1>2, <1>3
<1>5. next \in Places /\ "commit" \in Kinds
  BY DEF Places, Kinds
<1>6. FromCommit(Course, batch[r])
          = IF CommitCall(r) THEN At("commit", batch[r], next, after)
            ELSE AheadOf(Course, next, after)
  BY <1>1 DEF FromCommit, CommitCall, Course, AheadOf
<1>7. /\ pc' \in [Rank -> Places]
      /\ call' \in [Rank -> [kind : Kinds, batch : Batch] \cup {NoCall}]
      /\ \A p \in Rank : Meeting(p)' = Meeting(p)
  <2> HIDE DEF next, after
  <2> QED
    BY <1>2, <1>4, <1>5, <1>6, GoesTowards
<1>8. /\ pc[r] = here /\ pc'[r] = next
      /\ call'[r] = IF CommitCall(r) THEN [kind |-> "commit", batch |-> batch[r]] ELSE NoCall
      /\ \A p \in Rank \ {r} : pc'[p] = pc[p] /\ call'[p] = call[p]
  <2>1. /\ pc \in [Rank -> Places]
        /\ call \in [Rank -> [kind : Kinds, batch : Batch] \cup {NoCall}]
    BY DEF TypeOK
  <2> HIDE DEF next, after
  <2> QED
    BY <1>2, <2>1 DEF GoThrough
<1>9. call'[r].kind \in {"commit", "none"}
  BY <1>8 DEF NoCall
<1> QED
  BY <1>4, <1>7, <1>8, <1>9

(* A rank that commits or skips ends its batch.                               *)
LEMMA CommitEnds ==
    ASSUME TypeOK, KeepsAllIn, NEW r \in Rank, NEW here,
           \/ here = "commit" /\ Commit(r)
           \/ here = "encode" /\ Skip(r)
    PROVE  EndBatch(r, here) /\ workload' = workload
           /\ AheadOf(Course, here, batch[r]) = FromCommit(Course, batch[r])
<1>1. CASE here = "commit" /\ Commit(r)
  BY <1>1 DEF Commit, data, AheadOf
<1>2. CASE here = "encode" /\ Skip(r)
  <2>1. batch[r] \in Batch
    BY DEF TypeOK
  <2>2. ~Course.exchanges /\ ~Course.synchronised
    BY <1>2, SkipsOnlyEvents DEF Course, Exchanges
  <2>3. AheadOf(Course, here, batch[r]) = FromEncode(Course, batch[r])
    BY <1>2 DEF AheadOf
  <2> QED
    BY <1>2, <2>1, <2>2, <2>3, FirstCall DEF Skip, data
<1> QED
  BY <1>1, <1>2

(* Every step of a rank.                                                      *)
LEMMA StepKeepsMeeting ==
    ASSUME TypeOK, KeepsAllIn, NEW r \in Rank, Step(r)
    PROVE  /\ data' = data
           /\ pc' \in [Rank -> Places] /\ batch' \in [Rank -> Batch]
           /\ call' \in [Rank -> [kind : Kinds, batch : Batch] \cup {NoCall}]
           /\ \A p \in Rank : Meeting(p)' = Meeting(p)
           /\ \A p \in Rank \ {r} : pc'[p] = pc[p] /\ batch'[p] = batch[p] /\ call'[p] = call[p]
<1>1. CASE Skip(r)
  BY <1>1, CommitEnds, BatchEnds DEF Skip
<1>2. CASE Commit(r)
  BY <1>2, CommitEnds, BatchEnds DEF Commit
<1>3. CASE ~Skip(r) /\ ~Commit(r)
  <2>1. \/ Start(r) \/ Schedule(r) \/ Hydrate(r) \/ Encode(r) \/ Endpoint(r)
        \/ Backward(r) \/ SyncGradients(r) \/ ReduceSupervision(r)
        \/ StepOptimizer(r) \/ Result(r)
    BY <1>3 DEF Step
  <2>2. /\ data' = data /\ batch' = batch
        /\ \A p \in Rank \ {r} : pc'[p] = pc[p] /\ call'[p] = call[p]
    BY <2>1 DEF Start, Schedule, Hydrate, Encode, Endpoint, Backward, SyncGradients,
                ReduceSupervision, StepOptimizer, Result, GoThrough, TypeOK
  <2> QED
    BY <2>1, <2>2, WithinBatch DEF TypeOK
<1> QED
  BY <1>1, <1>2, <1>3-----------------------------------------------------------------------------
(* The model's own state is committed once for every batch that is through.   *)
LEMMA StepCounts ==
    ASSUME TypeOK, KeepsAllIn, NEW r \in Rank, Step(r), \A p \in Rank : CommittedSoFar(p)
    PROVE  (\A p \in Rank : CommittedSoFar(p)') /\ commits' \in [Rank -> 0 .. Batches]
<1> DEFINE Owed(place, b, counts) ==
              IF counts THEN (IF place \in {"result", "done"} THEN b ELSE b - 1) ELSE 0
           Counting == Commits /\ State = "model_recurrent"
<1>1. /\ batch \in [Rank -> 1 .. Batches] /\ commits \in [Rank -> 0 .. Batches]
      /\ pc \in [Rank -> Places]
  BY DEF TypeOK, Batch
<1>2. /\ data' = data /\ pc' \in [Rank -> Places] /\ batch' \in [Rank -> 1 .. Batches]
      /\ \A p \in Rank \ {r} : pc'[p] = pc[p] /\ batch'[p] = batch[p]
  BY StepKeepsMeeting DEF Batch
<1>3. Counting' = Counting
  BY <1>2 DEF data, Commits, State, BatchLocal
<1>4. \A p \in Rank : commits[p] = Owed(pc[p], batch[p], Counting)
  BY DEF CommittedSoFar, Counts
<1>5. CASE Commit(r)
  <2>1. /\ pc[r] = "commit"
        /\ IF batch[r] = Batches THEN pc'[r] = "result" /\ batch'[r] = batch[r]
           ELSE pc'[r] = "hydrate" /\ batch'[r] = batch[r] + 1
    BY <1>5, CommitEnds, BatchEnds
  <2>2. commits' = IF Counting THEN [commits EXCEPT ![r] = @ + 1] ELSE commits
    BY <1>5 DEF Commit, Counts
  <2>3. commits[r] = IF Counting THEN batch[r] - 1 ELSE 0
    BY <1>4, <2>1
  <2>4. commits'[r] = IF Counting THEN batch[r] ELSE 0
    BY <1>1, <2>2, <2>3
  <2>5. commits'[r] = Owed(pc'[r], batch'[r], Counting)
    BY <1>1, <2>1, <2>4
  <2>6. commits' \in [Rank -> 0 .. Batches] /\ \A p \in Rank \ {r} : commits'[p] = commits[p]
    BY <1>1, <2>2, <2>3
  <2>7. \A p \in Rank : commits'[p] = Owed(pc'[p], batch'[p], Counting)
    BY <1>2, <1>4, <2>5, <2>6
  <2> QED
    BY <1>3, <2>6, <2>7 DEF CommittedSoFar, Counts
<1>6. CASE Skip(r)
  <2>1. ~Counting
    <3>1. workload \in Workload /\ Built(workload) /\ workload.mode = "event"
      BY <1>6, SkipsOnlyEvents DEF TypeOK, KeepsAllIn
    <3> QED
      BY <3>1 DEF Built, State
  <2>2. commits' = commits
    BY <1>6 DEF Skip
  <2> QED
    BY <1>1, <1>3, <1>4, <2>1, <2>2 DEF CommittedSoFar, Counts
<1>7. CASE ~Commit(r) /\ ~Skip(r)
  <2>1. commits' = commits /\ batch' = batch
    BY <1>7 DEF Step, Start, Schedule, Hydrate, Encode, Endpoint, Backward, SyncGradients,
                ReduceSupervision, StepOptimizer, Result
  <2>2. pc[r] \in {"result", "done"} <=> pc'[r] \in {"result", "done"}
    BY <1>1, <1>7 DEF Step, Start, Schedule, Hydrate, Encode, Endpoint, Backward, SyncGradients,
                      ReduceSupervision, StepOptimizer, Result, GoThrough
  <2>3. \A p \in Rank : commits'[p] = Owed(pc'[p], batch'[p], Counting)
    BY <1>2, <1>4, <2>1, <2>2
  <2> QED
    BY <1>1, <1>3, <2>1, <2>3 DEF CommittedSoFar, Counts
<1> QED
  BY <1>5, <1>6, <1>7
(* With synchronised gradients the optimizer steps of a rank follow from what *)
(* it was told, and it was told whether any rank has targets.                 *)
LEMMA StepFollows ==
    ASSUME TypeOK, KeepsAllIn, Synchronised, NEW r \in Rank, Step(r),
           \A p \in Rank : Told(p) /\ SteppedSoFar(p)
    PROVE  /\ \A p \in Rank : Told(p)' /\ SteppedSoFar(p)'
           /\ known' = known /\ stepped' \in [Rank -> SUBSET Batch]
<1>1. /\ batch \in [Rank -> 1 .. Batches] /\ pc \in [Rank -> Places]
      /\ stepped \in [Rank -> SUBSET Batch] /\ Batch = 1 .. Batches
  BY DEF TypeOK, Batch
<1>2. /\ data' = data /\ pc' \in [Rank -> Places] /\ batch' \in [Rank -> 1 .. Batches]
      /\ \A p \in Rank \ {r} : pc'[p] = pc[p] /\ batch'[p] = batch[p] /\ call'[p] = call[p]
  BY StepKeepsMeeting DEF Batch
<1>3. Scheduled' = Scheduled /\ Wanted' = Wanted
  BY <1>2, CourseStays DEF data, Wanted
<1>4. known' = known
  BY DEF Step, Start, Schedule, Hydrate, Skip, Encode, Endpoint, Backward, SyncGradients,
         ReduceSupervision, StepOptimizer, Commit, Result
<1>5. ~Skip(r)
  BY SkipsOnlyEvents
<1>6. Told(r) /\ SteppedSoFar(r)
  OBVIOUS
<1>7. NoCall.kind = "none"
  BY DEF NoCall
<1>8. CASE StepOptimizer(r)
  <2>1. /\ pc[r] = "step" /\ call[r] = NoCall
        /\ pc' = [pc EXCEPT ![r] = "commit"] /\ call' = [call EXCEPT ![r] = NoCall]
        /\ batch' = batch
        /\ stepped' = IF HasSupervision(r) THEN [stepped EXCEPT ![r] = @ \cup {batch[r]}]
                      ELSE stepped
    BY <1>8 DEF StepOptimizer, GoThrough
  <2>2. HasSupervision(r) <=> batch[r] \in Wanted
    <3>1. Scheduled => Wanted \subseteq known[r]
      BY <1>6, <1>7, <2>1 DEF Told
    <3>2. ~Scheduled => (batch[r] \in Wanted => batch[r] \in known[r])
      BY <1>6, <2>1 DEF Told
    <3>3. known[r] \subseteq Wanted
      BY <1>6 DEF Told
    <3> QED
      BY <3>1, <3>2, <3>3 DEF HasSupervision
  <2>3. stepped' \in [Rank -> SUBSET Batch]
    BY <1>1, <2>1
  <2>4. stepped'[r] \subseteq Wanted /\ \A p \in Rank \ {r} : stepped'[p] = stepped[p]
    BY <1>1, <1>6, <2>1, <2>2 DEF SteppedSoFar
  <2>5. Passed(r)' = Passed(r) \cup {batch[r]}
    BY <1>1, <2>1 DEF Passed
  <2>6. Wanted \cap Passed(r)' \subseteq stepped'[r]
    BY <1>1, <1>6, <2>1, <2>2, <2>5 DEF SteppedSoFar
  <2>7. Told(r)' /\ SteppedSoFar(r)'
    BY <1>1, <1>3, <1>4, <1>6, <1>7, <2>1, <2>4, <2>6, TypeOK DEF Told, SteppedSoFar, TypeOK
  <2>8. \A p \in Rank \ {r} : Told(p)' /\ SteppedSoFar(p)'
    BY <1>2, <1>3, <1>4, <2>4 DEF Told, SteppedSoFar, Passed
  <2> QED
    BY <1>4, <2>3, <2>7, <2>8
<1>9. CASE ~StepOptimizer(r)
  <2>1. stepped' = stepped
    BY <1>9 DEF Step, Start, Schedule, Hydrate, Skip, Encode, Endpoint, Backward,
                SyncGradients, ReduceSupervision, Commit, Result
  <2>2. ASSUME Commit(r) PROVE Told(r)' /\ SteppedSoFar(r)'
    <3>1. /\ pc[r] = "commit" /\ call'[r].kind \in {"commit", "none"}
          /\ IF batch[r] = Batches THEN pc'[r] = "result" /\ batch'[r] = batch[r]
             ELSE pc'[r] = "hydrate" /\ batch'[r] = batch[r] + 1
      BY <2>2, CommitEnds, BatchEnds
    <3>2. call[r] = NoCall
      BY <2>2 DEF Commit, EndBatch, GoThrough
    <3>3. Passed(r)' \subseteq Passed(r)
      BY <1>1, <1>2, <3>1 DEF Passed
    <3>4. known[r] \subseteq Wanted /\ (Scheduled => Wanted \subseteq known[r])
      BY <1>6, <1>7, <3>1, <3>2 DEF Told
    <3>5. pc'[r] \in {"result", "hydrate"}
      BY <3>1
    <3>6. Told(r)'
      BY <1>3, <1>4, <3>4, <3>5 DEF Told
    <3>7. SteppedSoFar(r)'
      BY <1>3, <1>6, <2>1, <3>3 DEF SteppedSoFar
    <3> QED
      BY <3>6, <3>7
  <2>3. ASSUME ~Commit(r) PROVE Told(r)' /\ SteppedSoFar(r)'
    <3>1. /\ batch' = batch /\ call[r] = NoCall
          /\ pc[r] \in {"result", "done"} <=> pc'[r] \in {"result", "done"}
          /\ pc[r] # "commit" /\ pc'[r] # "commit"
      <4>1. workload.training
        BY DEF Synchronised
      <4> QED
        BY <1>1, <1>5, <1>9, <2>3, <4>1
        DEF Step, Start, Schedule, Hydrate, Encode, Endpoint, Backward, SyncGradients,
            ReduceSupervision, Result, GoThrough
    <3>2. Passed(r)' = Passed(r)
      BY <1>1, <3>1 DEF Passed
    <3>3. /\ pc'[r] = "step" => \/ Scheduled
                                \/ call'[r].kind = "optimizer_supervision" /\ call'[r] # NoCall
          /\ pc'[r] = "step" /\ call'[r] # NoCall => call'[r].kind = "optimizer_supervision"
          /\ \/ pc'[r] \in {"start", "schedule"}
             \/ Scheduled => call'[r].kind = "prepared_supervision"
             \/ pc[r] \notin {"start", "schedule"}
      BY <1>1, <1>5, <1>7, <1>9, <2>3
      DEF Step, Start, Schedule, Hydrate, Encode, Endpoint, Backward, SyncGradients,
          ReduceSupervision, Result, GoThrough, TypeOK
    <3>4. Told(r)'
      <4>1. /\ known[r] \subseteq Wanted
            /\ Scheduled /\ pc[r] \notin {"start", "schedule"} => Wanted \subseteq known[r]
        BY <1>6, <1>7, <3>1 DEF Told
      <4> QED
        BY <1>3, <1>4, <1>7, <3>3, <4>1 DEF Told
    <3>5. SteppedSoFar(r)'
      BY <1>3, <1>6, <2>1, <3>2 DEF SteppedSoFar
    <3> QED
      BY <3>4, <3>5
  <2>4. Told(r)' /\ SteppedSoFar(r)'
    BY <2>2, <2>3
  <2>5. \A p \in Rank \ {r} : Told(p)' /\ SteppedSoFar(p)'
    BY <1>2, <1>3, <1>4, <2>1 DEF Told, SteppedSoFar, Passed
  <2> QED
    BY <1>1, <1>4, <2>1, <2>4, <2>5
<1> QED
  BY <1>8, <1>9-----------------------------------------------------------------------------
(* Ranks that are all blocked are so at one place, in one batch.              *)
LEMMA BlockedTogether ==
    ASSUME SameMeeting, \A r \in Rank : call[r] # NoCall
    PROVE  \A p, r \in Rank : call[p] = call[r] /\ pc[p] = pc[r] /\ batch[p] = batch[r]
  BY DEF SameMeeting, Meeting

(* A reduction tells a rank of no batch without targets.                      *)
LEMMA ReducedIsWanted ==
    ASSUME TypeOK, SameMeeting, \A q \in Rank : call[q] # NoCall,
           NEW kind, NEW r \in Rank
    PROVE  /\ Reduced(kind, r) \subseteq Wanted
           /\ Wanted \subseteq Batch /\ Reduced(kind, r) \subseteq Batch
           /\ kind = "prepared_supervision" => Reduced(kind, r) = Wanted
           /\ kind = "optimizer_supervision" /\ batch[r] \in Wanted => batch[r] \in Reduced(kind, r)
<1>1. Wanted \subseteq Batch
  BY DEF TypeOK, Wanted
<1>2. \A p \in Rank : batch[p] = batch[r]
  BY BlockedTogether
<1>3. CASE kind = "prepared_supervision"
  BY <1>1, <1>3 DEF Reduced, Wanted
<1>4. CASE kind = "optimizer_supervision"
  <2>1. Reduced(kind, r) = {b \in {batch[r]} : \E p \in Rank : batch[p] \in supervised[p]}
    BY <1>4 DEF Reduced, Supervised
  <2> QED
    BY <1>1, <1>2, <1>4, <2>1 DEF Wanted
<1>5. CASE kind \notin {"prepared_supervision", "optimizer_supervision"}
  BY <1>1, <1>5 DEF Reduced
<1> QED
  BY <1>3, <1>4, <1>5

LEMMA CollectiveStep ==
    ASSUME IInv, KeepsAllIn, Collective
    PROVE  IInv'
<1>1. TypeOK /\ SameMeeting
  BY DEF IInv
<1>2. /\ \A r \in Rank : call[r] # NoCall
      /\ known' = [r \in Rank |-> known[r] \cup Reduced(call[r].kind, r)]
      /\ call' = [r \in Rank |-> NoCall]
      /\ data' = data /\ pc' = pc /\ batch' = batch /\ stepped' = stepped /\ commits' = commits
  BY DEF Collective
<1>3. /\ Course' = Course /\ Synchronised' = Synchronised /\ Scheduled' = Scheduled
      /\ Wanted' = Wanted
  BY <1>2, CourseStays DEF data, Wanted
<1>4. TypeOK'
  <2>1. \A r \in Rank : known[r] \cup Reduced(call[r].kind, r) \subseteq Batch
    BY <1>1, <1>2, ReducedIsWanted DEF TypeOK
  <2> QED
    BY <1>1, <1>2, <2>1 DEF TypeOK, data
<1>5. SameMeeting'
  BY <1>1, <1>2, <1>3, BlockedTogether DEF SameMeeting, Meeting
<1>6. ASSUME Synchronised, NEW r \in Rank
      PROVE  Told(r)' /\ SteppedSoFar(r)'
  <2>1. Told(r) /\ SteppedSoFar(r)
    BY <1>6 DEF IInv
  <2>2. known'[r] = known[r] \cup Reduced(call[r].kind, r) /\ call'[r] = NoCall
    BY <1>2
  <2>3. NoCall.kind = "none"
    BY DEF NoCall
  <2>4. known'[r] \subseteq Wanted
    BY <1>1, <1>2, <2>1, <2>2, ReducedIsWanted DEF Told
  <2>5. Scheduled => pc[r] \in {"start", "schedule"} \/ Wanted \subseteq known'[r]
    BY <1>1, <1>2, <2>1, <2>2, ReducedIsWanted DEF Told
  <2>6. pc[r] = "step" /\ batch[r] \in Wanted => batch[r] \in known'[r]
    BY <1>1, <1>2, <2>1, <2>2, ReducedIsWanted DEF Told
  <2>7. Told(r)'
    BY <1>2, <1>3, <2>2, <2>4, <2>5, <2>6 DEF Told
  <2>8. SteppedSoFar(r)'
    BY <1>2, <1>3, <2>1 DEF SteppedSoFar, Passed
  <2> QED
    BY <2>7, <2>8
<1>7. \A r \in Rank : CommittedSoFar(r)'
  BY <1>2 DEF IInv, CommittedSoFar, Counts, Commits, State, BatchLocal, data
<1> QED
  BY <1>3, <1>4, <1>5, <1>6, <1>7 DEF IInv
-----------------------------------------------------------------------------
LEMMA InitHolds ==
    ASSUME Init
    PROVE  IInv
<1>1. /\ workload \in Workloads /\ supervised \in [Rank -> SUBSET Batch]
      /\ events \in [Rank -> SUBSET Batch]
      /\ pc = [r \in Rank |-> "start"] /\ batch = [r \in Rank |-> 1]
      /\ call = [r \in Rank |-> NoCall] /\ known = [r \in Rank |-> {}]
      /\ stepped = [r \in Rank |-> {}] /\ commits = [r \in Rank |-> 0]
  <2>1. events \in [Rank -> SUBSET Batch]
    <3>1. events \in [Rank -> SUBSET Batch] \/ events \in [Rank -> {{}}]
      BY DEF Init
    <3> QED
      BY <3>1
  <2> QED
    BY <2>1 DEF Init
<1>2. 1 \in Batch /\ 0 \in 0 .. Batches
  BY DEF Batch
<1>3. TypeOK
  BY <1>1, <1>2 DEF TypeOK, Places
<1>4. SameMeeting
  BY <1>1 DEF SameMeeting, Meeting
<1>5. \A r \in Rank : Told(r) /\ SteppedSoFar(r)
  BY <1>1 DEF Told, SteppedSoFar, Passed, Batch
<1>6. \A r \in Rank : CommittedSoFar(r)
  BY <1>1 DEF CommittedSoFar
<1> QED
  BY <1>3, <1>4, <1>5, <1>6 DEF IInv

LEMMA NextKeeps ==
    ASSUME IInv, KeepsAllIn, [Next]_vars
    PROVE  IInv'
<1>1. ASSUME NEW r \in Rank, Step(r)
      PROVE  IInv'
  <2>1. TypeOK /\ SameMeeting /\ \A p \in Rank : CommittedSoFar(p)
    BY DEF IInv
  <2>2. /\ data' = data
        /\ pc' \in [Rank -> Places] /\ batch' \in [Rank -> Batch]
        /\ call' \in [Rank -> [kind : Kinds, batch : Batch] \cup {NoCall}]
        /\ \A p \in Rank : Meeting(p)' = Meeting(p)
    BY <1>1, <2>1, StepKeepsMeeting
  <2>3. SameMeeting'
    BY <2>1, <2>2 DEF SameMeeting
  <2>4. (\A p \in Rank : CommittedSoFar(p)') /\ commits' \in [Rank -> 0 .. Batches]
    BY <1>1, <2>1, StepCounts
  <2>5. Synchronised' = Synchronised
    BY <2>2, CourseStays DEF data
  <2>6. Synchronised => \A p \in Rank : Told(p)' /\ SteppedSoFar(p)'
    BY <1>1, <2>1, StepFollows DEF IInv
  <2>7. known' \in [Rank -> SUBSET Batch] /\ stepped' \in [Rank -> SUBSET Batch]
    <3>1. known' = known
      BY <1>1 DEF Step, Start, Schedule, Hydrate, Skip, Encode, Endpoint, Backward,
                  SyncGradients, ReduceSupervision, StepOptimizer, Commit, Result
    <3>2. stepped' = stepped \/ stepped' = [stepped EXCEPT ![r] = @ \cup {batch[r]}]
      BY <1>1 DEF Step, Start, Schedule, Hydrate, Skip, Encode, Endpoint, Backward,
                  SyncGradients, ReduceSupervision, StepOptimizer, Commit, Result
    <3> QED
      BY <2>1, <3>1, <3>2 DEF TypeOK
  <2>8. TypeOK'
    BY <2>1, <2>2, <2>4, <2>7 DEF TypeOK, data
  <2> QED
    BY <2>3, <2>4, <2>5, <2>6, <2>8 DEF IInv
<1>2. CASE Collective
  BY <1>2, CollectiveStep
<1>3. CASE UNCHANGED vars
  <2>1. TypeOK' /\ SameMeeting' /\ Synchronised' = Synchronised
    BY <1>3, CourseStays DEF IInv, TypeOK, SameMeeting, Meeting, vars, data
  <2>2. \A r \in Rank : Told(r) /\ SteppedSoFar(r) => Told(r)' /\ SteppedSoFar(r)'
    <3>1. Scheduled' = Scheduled /\ Wanted' = Wanted
      BY <1>3, CourseStays DEF vars, data, Wanted
    <3> QED
      BY <1>3, <3>1 DEF Told, SteppedSoFar, Passed, vars
  <2>3. \A r \in Rank : CommittedSoFar(r)'
    BY <1>3 DEF IInv, CommittedSoFar, Counts, Commits, State, BatchLocal, vars, data
  <2> QED
    BY <2>1, <2>2, <2>3 DEF IInv
<1> QED
  BY <1>1, <1>2, <1>3 DEF Next, Done

(* Blocked ranks are blocked together; steps follow targets.                  *)
LEMMA IInvImplies ==
    ASSUME IInv
    PROVE  CallsAgree /\ StepsAgree
<1>1. TypeOK /\ SameMeeting
  BY DEF IInv
<1>2. CallsAgree
  BY <1>1, BlockedTogether DEF CallsAgree
<1>3. StepsFollowSupervision
  <2>1. ASSUME Synchronised, NEW r \in Rank
        PROVE  stepped[r] \cap Behind(r) = Behind(r) \cap Wanted
    <3>1. stepped[r] \subseteq Wanted /\ Wanted \cap Passed(r) \subseteq stepped[r]
      BY <2>1 DEF IInv, SteppedSoFar
    <3>2. Behind(r) \subseteq Passed(r)
      BY DEF Behind, Passed
    <3> QED
      BY <3>1, <3>2
  <2> QED
    BY <2>1 DEF StepsFollowSupervision, Wanted
<1>4. ReplicasAgree
  <2>1. \A r \in Rank : CommittedSoFar(r)
    BY DEF IInv
  <2> QED
    BY <1>1, <2>1, BlockedTogether DEF ReplicasAgree, CommittedSoFar, Counts
<1> QED
  BY <1>1, <1>2, <1>3, <1>4 DEF StepsAgree

(* In every configuration that keeps a rank without targets in the exchanges, *)
(* ranks that wait for each other wait in the same call for the same batch:   *)
(* run_epoch on any number of ranks, over any number of windows, wherever     *)
(* targets and events lie.                                                    *)
THEOREM RanksMeet ==
    ASSUME KeepsAllIn
    PROVE  Spec => []CallsAgree
<1>1. Init => IInv
  BY InitHolds
<1>2. IInv /\ [Next]_vars => IInv'
  BY NextKeeps
<1>3. IInv => CallsAgree
  BY IInvImplies
<1> QED
  BY <1>1, <1>2, <1>3, PTL DEF Spec

(* And their replicas stay equal: all take the optimizer steps of the batches *)
(* in which some rank has targets, and commit the model's own state equally   *)
(* often. step_optimizer, _prepared_supervision_schedule, launch_state_update.*)
THEOREM ReplicasStep ==
    ASSUME KeepsAllIn
    PROVE  Spec => []StepsAgree
<1>1. Init => IInv
  BY InitHolds
<1>2. IInv /\ [Next]_vars => IInv'
  BY NextKeeps
<1>3. IInv => StepsAgree
  BY IInvImplies
<1> QED
  BY <1>1, <1>2, <1>3, PTL DEF Spec
=============================================================================
