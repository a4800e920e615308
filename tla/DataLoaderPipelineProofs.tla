----------------------- MODULE DataLoaderPipelineProofs -----------------------
(***************************************************************************)
(* Proofs about DataLoaderPipeline for every number of windows and every   *)
(* choice of what may raise.  IInv is inductive (one lemma per thread, one *)
(* case per action); the safety properties the runs check follow from it.  *)
(***************************************************************************)
EXTENDS DataLoaderPipeline, SequenceTheorems, TLAPS

\* Queue(maxsize=1): a queue with room is empty.
LEMMA RoomIsEmpty ==
    ASSUME NEW queue \in Seq(Item), Room(queue), NEW item \in Item
    PROVE  queue = <<>> /\ Append(queue, item) = <<item>>
  <1>1. Len(queue) = 0
    BY DEF Room
  <1>2. queue = <<>>
    BY <1>1
  <1> QED BY <1>2

\* Queue(maxsize=1): a queue holds its last item alone.
LEMMA OneItem ==
    ASSUME NEW queue \in Seq(Item), Len(queue) <= 1, queue # <<>>
    PROVE  Tail(queue) = <<>> /\ queue = <<Head(queue)>>
  <1>1. Len(queue) = 1
    BY EmptySeq
  <1>2. Tail(queue) \in Seq(Item) /\ Len(Tail(queue)) = 0
    BY <1>1, HeadTailProperties
  <1>3. Tail(queue) = <<>>
    BY <1>2, EmptySeq
  <1>4. <<Head(queue)>> \in Seq(Item) /\ Len(<<Head(queue)>>) = 1
    BY HeadTailProperties
  <1>5. queue = <<Head(queue)>>
    BY <1>1, <1>4, SeqEqual
  <1> QED BY <1>3, <1>5

\* A step of the source worker preserves the invariant.
LEMMA SourceStep == IInv /\ Source => IInv'
  <1> SUFFICES ASSUME IInv, Source PROVE IInv'
    OBVIOUS
  <1> USE WindowsAssumption, ItemAssumption
       DEF IInv, Window, Item, TypeOK, SourcePc, StagePc, MainPc, MainInv,
           TearingDown, ReadyInv, RequestInv, AtMostOne, StageHoldsReady,
           ReadyHeld, BeforeLaunch, SourceHolds, SourceFailed, RequestHeld,
           StageTook, StageInv, LaunchInv, OrderInv, Accepted, InHand,
           SentinelInv, SamplingInv, SampledOrSampling, CauseInv,
           sourceVars, stageVars, mainVars, others, mainData, progress,
           slots, queues
  <1>1. CASE SourceAcquirePoll
    BY <1>1, SMTT(30) DEF SourceAcquirePoll
  <1>2. CASE SourceAcquire
    BY <1>2, SMTT(30) DEF SourceAcquire, Taken
  <1>3. CASE SourceAccess
    BY <1>3, SMTT(30) DEF SourceAccess
  <1>4. CASE SourcePutPoll
    BY <1>4, SMTT(30) DEF SourcePutPoll, PutGivesUp
  <1>5. CASE SourcePut
    <2> USE <1>5 DEF SourcePut
    <2>1. CASE Room(request_queue)
      <3>1. request_queue = <<>> /\ request_queue' = <<sourceItem>>
        BY <2>1, RoomIsEmpty
      <3>2. Head(request_queue') = sourceItem /\ Len(request_queue') = 1
        BY <3>1
      <3> QED BY <3>1, <3>2, SMTT(60)
    <2>2. CASE ~Room(request_queue)
      BY <2>2, SMTT(30) DEF Room
    <2> QED BY <2>1, <2>2
  <1> QED BY <1>1, <1>2, <1>3, <1>4, <1>5 DEF Source

\* A step of the stage worker preserves the invariant.
LEMMA StageStep == IInv /\ Stage => IInv'
  <1> SUFFICES ASSUME IInv, Stage PROVE IInv'
    OBVIOUS
  <1> USE WindowsAssumption, ItemAssumption
       DEF IInv, Window, Item, TypeOK, SourcePc, StagePc, MainPc, MainInv,
           TearingDown, ReadyInv, RequestInv, AtMostOne, StageHoldsReady,
           ReadyHeld, BeforeLaunch, SourceHolds, SourceFailed, RequestHeld,
           StageTook, StageInv, LaunchInv, OrderInv, Accepted, InHand,
           SentinelInv, SamplingInv, SampledOrSampling, CauseInv,
           sourceVars, stageVars, mainVars, others, mainData, progress,
           slots, queues
  <1>1. CASE StageAcquirePoll
    BY <1>1, SMTT(30) DEF StageAcquirePoll
  <1>2. CASE StageAcquire
    BY <1>2, SMTT(30) DEF StageAcquire, Taken
  <1>3. CASE StageGetPoll
    BY <1>3, SMTT(30) DEF StageGetPoll, GetRaises
  <1>4. CASE StageGet
    <2> USE <1>4 DEF StageGet
    <2>1. CASE request_queue # <<>>
      <3>1. request_queue' = <<>> /\ stageItem' = Head(request_queue)
        BY <2>1, OneItem
      <3>2. request_queue = <<Head(request_queue)>>
        BY <2>1, OneItem
      <3> QED BY <2>1, <3>1, <3>2, SMTT(60)
    <2>2. CASE request_queue = <<>>
      BY <2>2
    <2> QED BY <2>1, <2>2
  <1>5. CASE StageSentinel
    BY <1>5, SMTT(30) DEF StageSentinel
  <1>6. CASE StageReraise
    BY <1>6, SMTT(30) DEF StageReraise
  <1>7. CASE StageAccept
    BY <1>7, SMTT(30) DEF StageAccept
  <1>8. CASE StageLaunch
    BY <1>8, SMTT(30) DEF StageLaunch
  <1>9. CASE StageFinish
    BY <1>9, SMTT(30) DEF StageFinish
  <1>10. CASE StageFail
    BY <1>10, SMTT(30) DEF StageFail
  <1>11. CASE StagePutPoll
    BY <1>11, SMTT(30) DEF StagePutPoll, PutGivesUp
  <1>12. CASE StagePut
    <2> USE <1>12 DEF StagePut
    <2>1. CASE Room(ready_queue)
      <3>1. ready_queue = <<>> /\ ready_queue' = <<stageItem>>
        BY <2>1, RoomIsEmpty
      <3>2. Head(ready_queue') = stageItem /\ Len(ready_queue') = 1
        BY <3>1
      <3>3. TypeOK' BY <2>1, <3>1, <3>2
      <3>4. MainInv' BY <2>1, <3>1, <3>2
      <3>5. ReadyInv' BY <2>1, <3>1, <3>2
      <3>6. RequestInv' BY <2>1, <3>1, <3>2
      <3>7. StageInv' BY <2>1, <3>1, <3>2
      <3>8. LaunchInv' BY <2>1, <3>1, <3>2
      <3>9. OrderInv' BY <2>1, <3>1, <3>2
      <3>10. SentinelInv' BY <2>1, <3>1, <3>2
      <3>11. SamplingInv' BY <2>1, <3>1, <3>2
      <3>12. CauseInv' BY <2>1, <3>1, <3>2
      <3> QED BY <3>3, <3>4, <3>5, <3>6, <3>7, <3>8, <3>9, <3>10, <3>11,
                 <3>12
    <2>2. CASE ~Room(ready_queue)
      BY <2>2, SMTT(30) DEF Room
    <2> QED BY <2>1, <2>2
  <1> QED BY <1>1, <1>2, <1>3, <1>4, <1>5, <1>6, <1>7, <1>8, <1>9, <1>10,
             <1>11, <1>12 DEF Stage

\* A step of the main thread preserves the invariant.
LEMMA MainStep == IInv /\ Main => IInv'
  <1> SUFFICES ASSUME IInv, Main PROVE IInv'
    OBVIOUS
  <1> USE WindowsAssumption, ItemAssumption
       DEF IInv, Window, Item, TypeOK, SourcePc, StagePc, MainPc, MainInv,
           TearingDown, ReadyInv, RequestInv, AtMostOne, StageHoldsReady,
           ReadyHeld, BeforeLaunch, SourceHolds, SourceFailed, RequestHeld,
           StageTook, StageInv, LaunchInv, OrderInv, Accepted, InHand,
           SentinelInv, SamplingInv, SampledOrSampling, CauseInv,
           sourceVars, stageVars, mainVars, others, mainData, progress,
           slots, queues
  <1>1. CASE MainGet
    BY <1>1, SMTT(30) DEF MainGet
  <1>2. CASE MainAck
    BY <1>2, SMTT(30) DEF MainAck
  <1>3. CASE MainWait
    BY <1>3, SMTT(30) DEF MainWait, NextIsLaunched
  <1>4. CASE MainResume
    BY <1>4, SMTT(30) DEF MainResume
  <1>5. CASE MainStop
    BY <1>5, SMTT(30) DEF MainStop
  <1>6. CASE MainReleaseRequest
    BY <1>6, SMTT(30) DEF MainReleaseRequest
  <1>7. CASE MainReleaseReady
    BY <1>7, SMTT(30) DEF MainReleaseReady
  <1>8. CASE MainDrainRequest
    BY <1>8, SMTT(30) DEF MainDrainRequest, PutNowait, Room
  <1>9. CASE MainDrainReady
    BY <1>9, SMTT(30) DEF MainDrainReady, PutNowait, Room
  <1>10. CASE MainJoin
    BY <1>10, SMTT(30) DEF MainJoin
  <1> QED BY <1>1, <1>2, <1>3, <1>4, <1>5, <1>6, <1>7, <1>8, <1>9, <1>10 DEF Main

\* __iter__ starts with both slots free, empty queues and the workers idle.
LEMMA InitIInv == Init => IInv
  <1> SUFFICES ASSUME Init PROVE IInv
    OBVIOUS
  <1> USE WindowsAssumption, ItemAssumption
  <1>1. TypeOK
    <2>1. /\ request_queue \in Seq(Item) /\ Len(request_queue) <= 1
          /\ ready_queue \in Seq(Item) /\ Len(ready_queue) <= 1
      BY EmptySeq DEF Init
    <2>2. done \in BOOLEAN /\ error \in BOOLEAN /\ stop \in BOOLEAN
      BY DEF Init
    <2> QED BY <2>1, <2>2 DEF Init, TypeOK, SourcePc, StagePc, MainPc, Item
  <1>2. MainInv /\ ReadyInv /\ RequestInv
    BY DEF Init, MainInv, TearingDown, ReadyInv, RequestInv, AtMostOne,
           StageHoldsReady, ReadyHeld, BeforeLaunch, SourceHolds,
           SourceFailed, RequestHeld, StageTook
  <1>3. StageInv /\ LaunchInv /\ SentinelInv /\ SamplingInv /\ CauseInv
    BY DEF Init, StageInv, LaunchInv, SentinelInv, SamplingInv, CauseInv, ReadyHeld,
           BeforeLaunch
  <1>4. OrderInv
    BY DEF Init, OrderInv, Accepted, InHand, SourceHolds, RequestHeld,
           StageTook
  <1> QED BY <1>1, <1>2, <1>3, <1>4 DEF IInv

\* No step of the three threads, nor stuttering, breaks the invariant.
LEMMA StepIInv == IInv /\ [Next]_vars => IInv'
  <1> SUFFICES ASSUME IInv, [Next]_vars PROVE IInv'
    OBVIOUS
  <1>1. CASE Source
    BY <1>1, SourceStep
  <1>2. CASE Stage
    BY <1>2, StageStep
  <1>3. CASE Main
    BY <1>3, MainStep
  <1>4. CASE UNCHANGED vars
    BY <1>4 DEF vars, sourceVars, stageVars, mainVars, progress, mainData,
                slots, queues, IInv, TypeOK, MainInv,
                ReadyInv, RequestInv, AtMostOne, StageHoldsReady, ReadyHeld,
                SourceHolds, SourceFailed, RequestHeld, StageTook, StageInv,
                LaunchInv, OrderInv, Accepted, InHand, SentinelInv,
                SamplingInv, SampledOrSampling, CauseInv
  <1> QED BY <1>1, <1>2, <1>3, <1>4 DEF Next, Terminated

\* The strengthened invariant holds in every state of every run of the loader.
THEOREM Invariance == Spec => []IInv
  <1> QED BY InitIInv, StepIInv, PTL DEF Spec

\* Every variable keeps its type and no queue exceeds maxsize=1.
THEOREM TypeCorrect == Spec => []TypeOK
  <1>1. IInv => TypeOK
    BY DEF IInv
  <1> QED BY <1>1, Invariance, PTL

\* While the training loop is inside Stage A of window k, launch(k+1) has
\* returned (or no window is left to launch) and no launch is in progress.
THEOREM HandshakeHolds == Spec => []Handshake
  <1>1. IInv => Handshake
    BY DEF IInv, Handshake, TypeOK, StageInv, LaunchInv, BeforeLaunch
  <1> QED BY <1>1, Invariance, PTL

\* No prefetch is launched once the iteration is torn down.
THEOREM NoLaunchAfterStopHolds == Spec => []NoLaunchAfterStop
  <1>1. IInv => NoLaunchAfterStop
    BY DEF IInv, NoLaunchAfterStop, StageInv, BeforeLaunch
  <1> QED BY <1>1, Invariance, PTL

\* Nothing is sampled beyond k+2 or launched beyond k+1, whatever the schedule.
THEOREM LookaheadHolds == Spec => []Lookahead
  <1>1. ASSUME IInv, ~stop PROVE SampledOrSampling <= consumed + 2
    <2>1. sourcePc = "access" => ~InHand
      BY <1>1 DEF IInv, RequestInv, AtMostOne, InHand, SourceHolds
    <2> QED BY <1>1, <2>1 DEF IInv, OrderInv, SampledOrSampling, TypeOK
  <1>2. ASSUME IInv, stop PROVE SampledOrSampling <= consumed + 3
    BY <1>2 DEF IInv, SamplingInv, SampledOrSampling, TypeOK
  <1>3. IInv => Lookahead
    BY <1>1, <1>2 DEF IInv, LaunchInv, Lookahead, SampledOrSampling, TypeOK
  <1> QED BY <1>3, Invariance, PTL

-----------------------------------------------------------------------------
(* The loader implements WindowStream (safety).                            *)

\* Nothing is yielded before the first get.
LEMMA StreamInit == Init => Stream!Init
  BY DEF Init, Stream!Init

\* A yield or an end of the generator is a step of WindowStream; every other
\* step of the threads is invisible to the training loop.
LEMMA StreamStep == IInv /\ [Next]_vars => [Stream!Next]_(Stream!vars)
  <1> SUFFICES ASSUME IInv, [Next]_vars PROVE [Stream!Next]_(Stream!vars)
    OBVIOUS
  <1> USE WindowsAssumption, ItemAssumption DEF Stream!Next, Stream!vars
  <1>1. CASE UNCHANGED <<yielded, outcome>>
    BY <1>1
  <1>2. CASE MainWait
    <2>1. ~stop /\ yielded = consumed - 1 /\ mainItem = consumed
          /\ outcome = "running" /\ consumed \in 0 .. Windows
      BY <1>2 DEF MainWait, IInv, MainInv, TypeOK, TearingDown
    <2>2. CASE error
      <3>1. MayRaise # {}
        BY <2>1, <2>2 DEF IInv, CauseInv
      <3> QED BY <1>2, <2>1, <2>2, <3>1 DEF MainWait, Stream!Raise
    <2>3. CASE ~error
      BY <1>2, <2>1, <2>3 DEF MainWait, Stream!Yield
    <2> QED BY <2>2, <2>3
  <1>3. CASE MainGet
    <2>1. ~stop /\ yielded = consumed /\ outcome = "running"
      BY <1>3 DEF MainGet, IInv, MainInv, TearingDown
    <2>2. ready_queue = <<Head(ready_queue)>>
      BY <1>3, OneItem DEF MainGet, IInv, TypeOK
    <2>3. CASE mainItem' = Sentinel
      <3>1. consumed = Windows
        BY <1>3, <2>1, <2>2, <2>3 DEF MainGet, IInv, SentinelInv
      <3> QED BY <1>3, <2>1, <2>3, <3>1 DEF MainGet, Stream!Exhaust, Window
    <2>4. CASE mainItem' = Failure
      <3>1. MayRaise # {}
        BY <1>3, <2>1, <2>2, <2>4 DEF MainGet, IInv, CauseInv
      <3> QED BY <1>3, <2>1, <2>4, <3>1 DEF MainGet, Stream!Raise, Window
    <2>5. CASE mainItem' \in Window
      BY <1>3, <2>5 DEF MainGet, Window
    <2> QED BY <1>3, <2>3, <2>4, <2>5 DEF MainGet
  <1>4. CASE MainResume
    <2>1. ~stop /\ yielded = consumed /\ outcome = "running" /\ yielded > 0
      BY <1>4 DEF MainResume, IInv, MainInv, TearingDown, TypeOK
    <2> QED BY <1>4, <2>1 DEF MainResume, Stream!Close
  <1>5. CASE Source
    BY <1>5, <1>1 DEF Source, SourceAcquirePoll, SourceAcquire, SourceAccess,
                      SourcePutPoll, SourcePut, mainVars, mainData
  <1>6. CASE Stage
    BY <1>6, <1>1 DEF Stage, StageAcquirePoll, StageAcquire, StageGetPoll,
                      StageGet, StageSentinel, StageReraise, StageAccept,
                      StageLaunch, StageFinish, StageFail, StagePutPoll,
                      StagePut, mainVars, mainData
  <1>7. CASE UNCHANGED vars
    BY <1>7, <1>1 DEF vars, mainVars, mainData
  <1>8. CASE Main /\ ~MainGet /\ ~MainWait /\ ~MainResume
    BY <1>8, <1>1 DEF Main, MainAck, MainStop, MainReleaseRequest,
                      MainReleaseReady, MainDrainRequest, MainDrainReady,
                      MainJoin, mainData
  <1> QED BY <1>2, <1>3, <1>4, <1>5, <1>6, <1>7, <1>8 DEF Next, Terminated

\* Every window reaches the training loop once and in order; the iteration
\* ends as exhausted only after the last one and raises only if a step may.
THEOREM StreamSafetyHolds == Spec => StreamSafety
  <1> QED BY StreamInit, StreamStep, Invariance, PTL
          DEF Spec, StreamSafety, Stream!Safety

=============================================================================
