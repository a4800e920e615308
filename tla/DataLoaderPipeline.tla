------------------------- MODULE DataLoaderPipeline -------------------------
(***************************************************************************)
(* One iteration of DataLoader (runtime/dataloader/loader.py, __iter__     *)
(* with the pipeline enabled): three threads of one process joined by two  *)
(* depth-one queues.                                                       *)
(*                                                                         *)
(*   source worker --request_queue--> stage worker --ready_queue--> main   *)
(*   (Stage C)                        (Stage B)                  (Stage A) *)
(*                                                                         *)
(* A semaphore in front of each queue is taken before the work is begun,   *)
(* so no thread builds a batch it has no place for.  Every bounded wait of *)
(* a worker is a loop that looks at the stop event, then waits at most     *)
(* 0.05 s; both halves are steps here, so that a stop may fall between     *)
(* them.  Windows are numbered from 1 in the order next(accessed) yields.  *)
(***************************************************************************)
EXTENDS Integers, Sequences

CONSTANTS
    Windows,    \* how many windows the source binding yields
    MayRaise,   \* which of "access", "launch", "finish" may raise
    MayClose,   \* whether the training loop may abandon the iteration
    Sentinel,   \* the object that ends a queue
    Failure     \* an exception travelling through a queue

ASSUME WindowsAssumption == Windows \in Nat
ASSUME MayRaiseAssumption == MayRaise \subseteq {"access", "launch", "finish"}
ASSUME MayCloseAssumption == MayClose \in BOOLEAN
ASSUME ItemAssumption ==
    Sentinel \notin Int /\ Failure \notin Int /\ Sentinel # Failure

VARIABLES
    sourcePc, sourceItem,           \* source worker
    stagePc, stageItem,             \* stage worker
    mainPc, mainItem, consumed,     \* the generator itself
    accessed,                       \* windows next(accessed) has begun to yield
    request_slot, ready_slot,       \* semaphores
    request_queue, ready_queue,     \* Queue(maxsize=1)
    launched, done, error,          \* the fields of progress
    stop,                           \* Event
    yielded,                        \* windows handed to the training loop
    outcome                         \* how the iteration ended

sourceVars == <<sourcePc, sourceItem, accessed>>
progress == <<launched, done, error>>
stageVars == <<stagePc, stageItem, progress>>
mainData == <<mainItem, consumed, yielded, outcome>>
mainVars == <<mainPc, mainData, stop>>
others == <<sourceVars, stageVars>>
slots == <<request_slot, ready_slot>>
queues == <<request_queue, ready_queue>>
vars == <<sourceVars, stageVars, mainVars, slots, queues>>

Window == 1 .. Windows
Item == Window \cup {Sentinel, Failure}

SourcePc == {"poll", "acquire", "access", "putPoll", "put", "end"}
StagePc == {"poll", "acquire", "getPoll", "get", "dispatch", "launch",
            "finish", "fail", "putPoll", "put", "end"}
MainPc == {"get", "ack", "wait", "stageA", "stop", "releaseRequest",
           "releaseReady", "drainRequest", "drainReady", "join", "end"}

Init ==
    /\ sourcePc = "poll" /\ sourceItem = Sentinel /\ accessed = 0
    /\ stagePc = "poll" /\ stageItem = Sentinel
    /\ launched = 0 /\ done = FALSE /\ error = FALSE
    /\ mainPc = "get" /\ mainItem = Sentinel /\ consumed = 0
    /\ stop = FALSE /\ yielded = 0 /\ outcome = "running"
    /\ request_slot = 1 /\ ready_slot = 1
    /\ request_queue = <<>> /\ ready_queue = <<>>

-----------------------------------------------------------------------------
(* Queue(maxsize=1), the polling loops, the condition.                     *)

TwoRooms(queue) == Len(queue) < 2
Room(queue) == Len(queue) < 1

NotTaken(slot) == slot
Taken(slot) == slot - 1

\* _put gives up once stop is seen.
NeverGivesUp == FALSE
PutGivesUp == stop

\* _get raises RuntimeError once stop is seen.
GetIgnoresStop == FALSE
GetRaises == stop

\* The predicate of changed.wait_for.
NoWait == TRUE
NextIsLaunched == launched > consumed \/ done

-----------------------------------------------------------------------------
(* Source worker: _acquire(request_slot), next(accessed), _put.            *)

SourceAcquirePoll ==
    /\ sourcePc = "poll"
    /\ sourcePc' = IF stop THEN "end" ELSE "acquire"
    /\ UNCHANGED <<sourceItem, accessed, stageVars, mainVars, slots, queues>>

SourceAcquire ==
    /\ sourcePc = "acquire"
    /\ \/ /\ request_slot > 0
          /\ request_slot' = Taken(request_slot)
          /\ sourcePc' = "access"
       \/ /\ request_slot = 0          \* acquire(timeout=0.05) gave up
          /\ sourcePc' = "poll"
          /\ UNCHANGED request_slot
    /\ UNCHANGED <<sourceItem, accessed, stageVars, mainVars, ready_slot,
                   queues>>

SourceAccess ==
    /\ sourcePc = "access"
    /\ \/ /\ accessed < Windows
          /\ accessed' = accessed + 1
          /\ sourceItem' = accessed + 1
          /\ UNCHANGED request_slot
       \/ /\ accessed = Windows        \* StopIteration
          /\ sourceItem' = Sentinel
          /\ request_slot' = request_slot + 1
          /\ UNCHANGED accessed
       \/ /\ "access" \in MayRaise     \* the slot stays taken
          /\ accessed < Windows
          /\ sourceItem' = Failure
          /\ UNCHANGED <<accessed, request_slot>>
    /\ sourcePc' = "putPoll"
    /\ UNCHANGED <<stageVars, mainVars, ready_slot, queues>>

SourcePutPoll ==
    /\ sourcePc = "putPoll"
    /\ sourcePc' = IF PutGivesUp THEN "end" ELSE "put"
    /\ request_slot' = IF PutGivesUp /\ sourceItem \in Window
                       THEN request_slot + 1 ELSE request_slot
    /\ UNCHANGED <<sourceItem, accessed, stageVars, mainVars, ready_slot,
                   queues>>

SourcePut ==
    /\ sourcePc = "put"
    /\ \/ /\ request_queue = <<>>
          /\ request_queue' = <<sourceItem>>
          /\ sourcePc' = IF sourceItem \in Window THEN "poll" ELSE "end"
       \/ /\ ~Room(request_queue)      \* put(timeout=0.05) raised Full
          /\ sourcePc' = "putPoll"
          /\ UNCHANGED request_queue
    /\ UNCHANGED <<sourceItem, accessed, stageVars, mainVars, slots,
                   ready_queue>>

Source == SourceAcquirePoll \/ SourceAcquire \/ SourceAccess
          \/ SourcePutPoll \/ SourcePut

-----------------------------------------------------------------------------
(* Stage worker: _acquire(ready_slot), _get, _launch, _finish, _put.       *)

StageAcquirePoll ==
    /\ stagePc = "poll"
    /\ stagePc' = IF stop THEN "end" ELSE "acquire"
    /\ UNCHANGED <<stageItem, progress, sourceVars, mainVars, slots, queues>>

StageAcquire ==
    /\ stagePc = "acquire"
    /\ \/ /\ ready_slot > 0
          /\ ready_slot' = Taken(ready_slot)
          /\ stagePc' = "getPoll"
       \/ /\ ready_slot = 0
          /\ stagePc' = "poll"
          /\ UNCHANGED ready_slot
    /\ UNCHANGED <<stageItem, progress, sourceVars, mainVars, request_slot,
                   queues>>

StageGetPoll ==
    /\ stagePc = "getPoll"
    /\ stagePc' = IF GetRaises THEN "fail" ELSE "get"
    /\ UNCHANGED <<stageItem, progress, sourceVars, mainVars, slots, queues>>

StageGet ==
    /\ stagePc = "get"
    /\ \/ /\ request_queue # <<>>
          /\ stageItem' = Head(request_queue)
          /\ request_queue' = Tail(request_queue)
          /\ stagePc' = "dispatch"
       \/ /\ request_queue = <<>>
          /\ stagePc' = "getPoll"
          /\ UNCHANGED <<stageItem, request_queue>>
    /\ UNCHANGED <<progress, sourceVars, mainVars, slots, ready_queue>>

StageSentinel ==
    /\ stagePc = "dispatch"
    /\ stageItem = Sentinel
    /\ ready_slot' = ready_slot + 1
    /\ done' = TRUE
    /\ stagePc' = "putPoll"
    /\ UNCHANGED <<stageItem, launched, error, sourceVars, mainVars,
                   request_slot, queues>>

StageReraise ==
    /\ stagePc = "dispatch"
    /\ stageItem = Failure
    /\ stagePc' = "fail"
    /\ UNCHANGED <<stageItem, progress, sourceVars, mainVars, slots, queues>>

StageAccept ==
    /\ stagePc = "dispatch"
    /\ stageItem \in Window
    /\ request_slot' = request_slot + 1
    /\ stagePc' = "launch"
    /\ UNCHANGED <<stageItem, progress, sourceVars, mainVars, ready_slot,
                   queues>>

\* _launch issues every collective of the window's prefetch, then announces.
StageLaunch ==
    /\ stagePc = "launch"
    /\ \/ /\ launched' = launched + 1
          /\ stagePc' = "finish"
       \/ /\ "launch" \in MayRaise
          /\ stagePc' = "fail"
          /\ UNCHANGED launched
    /\ UNCHANGED <<stageItem, done, error, sourceVars, mainVars, slots,
                   queues>>

StageFinish ==
    /\ stagePc = "finish"
    /\ \/ stagePc' = "putPoll"
       \/ "finish" \in MayRaise /\ stagePc' = "fail"
    /\ UNCHANGED <<stageItem, progress, sourceVars, mainVars, slots, queues>>

StageFailQuietly ==
    /\ stagePc = "fail"
    /\ error' = FALSE
    /\ done' = TRUE
    /\ stageItem' = Sentinel
    /\ stagePc' = "putPoll"
    /\ UNCHANGED <<launched, sourceVars, mainVars, slots, queues>>

StageFailUnqueued ==
    /\ stagePc = "fail"
    /\ error' = TRUE
    /\ done' = TRUE
    /\ stagePc' = "end"
    /\ UNCHANGED <<stageItem, launched, sourceVars, mainVars, slots, queues>>

StageFail ==
    /\ stagePc = "fail"
    /\ error' = TRUE
    /\ done' = TRUE
    /\ stageItem' = Failure
    /\ stagePc' = "putPoll"
    /\ UNCHANGED <<launched, sourceVars, mainVars, slots, queues>>

StagePutPoll ==
    /\ stagePc = "putPoll"
    /\ stagePc' = IF PutGivesUp THEN "end" ELSE "put"
    /\ ready_slot' = IF PutGivesUp /\ stageItem \in Window
                     THEN ready_slot + 1 ELSE ready_slot
    /\ UNCHANGED <<stageItem, progress, sourceVars, mainVars, request_slot,
                   queues>>

StagePut ==
    /\ stagePc = "put"
    /\ \/ /\ ready_queue = <<>>
          /\ ready_queue' = <<stageItem>>
          /\ stagePc' = IF stageItem \in Window THEN "poll" ELSE "end"
       \/ /\ ~Room(ready_queue)
          /\ stagePc' = "putPoll"
          /\ UNCHANGED ready_queue
    /\ UNCHANGED <<stageItem, progress, sourceVars, mainVars, slots,
                   request_queue>>

Stage == StageAcquirePoll \/ StageAcquire \/ StageGetPoll \/ StageGet
         \/ StageSentinel \/ StageReraise \/ StageAccept \/ StageLaunch
         \/ StageFinish \/ StageFail \/ StagePutPoll \/ StagePut

-----------------------------------------------------------------------------
(* Main thread.  Only this thread sets stop, and only on its way out, so   *)
(* its own _get never sees it and is a plain blocking get.                 *)

MainGet ==
    /\ mainPc = "get"
    /\ ready_queue # <<>>
    /\ mainItem' = Head(ready_queue)
    /\ ready_queue' = Tail(ready_queue)
    /\ \/ /\ mainItem' = Sentinel
          /\ outcome' = "exhausted"
          /\ mainPc' = "stop"
          /\ UNCHANGED consumed
       \/ /\ mainItem' = Failure
          /\ outcome' = "raised"
          /\ mainPc' = "stop"
          /\ UNCHANGED consumed
       \/ /\ mainItem' \in Window
          /\ consumed' = consumed + 1
          /\ mainPc' = "ack"
          /\ UNCHANGED outcome
    /\ UNCHANGED <<stop, yielded, others, slots, request_queue>>

\* Stage A of the previous window is over: the next launch is authorised.
MainAck ==
    /\ mainPc = "ack"
    /\ ready_slot' = ready_slot + 1
    /\ mainPc' = "wait"
    /\ UNCHANGED <<mainData, stop, others, request_slot, queues>>

\* changed.wait_for, the error read under the same lock, then yield or raise.
MainWait ==
    /\ mainPc = "wait"
    /\ NextIsLaunched
    /\ \/ /\ error
          /\ outcome' = "raised"
          /\ mainPc' = "stop"
          /\ UNCHANGED yielded
       \/ /\ ~error
          /\ yielded' = mainItem
          /\ mainPc' = "stageA"
          /\ UNCHANGED outcome
    /\ UNCHANGED <<mainItem, consumed, stop, others, slots, queues>>

\* The training loop asks for the next batch, or drops the generator.
MainResume ==
    /\ mainPc = "stageA"
    /\ \/ /\ mainPc' = "get"
          /\ UNCHANGED outcome
       \/ /\ MayClose
          /\ mainPc' = "stop"
          /\ outcome' = "closed"
    /\ UNCHANGED <<mainItem, consumed, stop, yielded, others, slots, queues>>

MainStop ==
    /\ mainPc = "stop"
    /\ stop' = TRUE
    /\ mainPc' = "releaseRequest"
    /\ UNCHANGED <<mainData, others, slots, queues>>

MainReleaseRequest ==
    /\ mainPc = "releaseRequest"
    /\ request_slot' = request_slot + 1
    /\ mainPc' = "releaseReady"
    /\ UNCHANGED <<mainData, stop, others, ready_slot, queues>>

MainReleaseReady ==
    /\ mainPc = "releaseReady"
    /\ ready_slot' = ready_slot + 1
    /\ mainPc' = "drainRequest"
    /\ UNCHANGED <<mainData, stop, others, request_slot, queues>>

PutNowait(queue) == IF Room(queue) THEN Append(queue, Sentinel) ELSE queue

MainDrainRequest ==
    /\ mainPc = "drainRequest"
    /\ request_queue' = PutNowait(request_queue)
    /\ mainPc' = "drainReady"
    /\ UNCHANGED <<mainData, stop, others, slots, ready_queue>>

MainDrainReady ==
    /\ mainPc = "drainReady"
    /\ ready_queue' = PutNowait(ready_queue)
    /\ mainPc' = "join"
    /\ UNCHANGED <<mainData, stop, others, slots, request_queue>>

MainJoin ==
    /\ mainPc = "join"
    /\ sourcePc = "end" /\ stagePc = "end"
    /\ mainPc' = "end"
    /\ UNCHANGED <<mainData, stop, others, slots, queues>>

Main == MainGet \/ MainAck \/ MainWait \/ MainResume \/ MainStop
        \/ MainReleaseRequest \/ MainReleaseReady \/ MainDrainRequest
        \/ MainDrainReady \/ MainJoin

-----------------------------------------------------------------------------
Terminated == mainPc = "end" /\ UNCHANGED vars

Next == Source \/ Stage \/ Main \/ Terminated

Spec == Init /\ [][Next]_vars

\* Python schedules every runnable thread; a call into the sampler, into a
\* collective or into the training loop is taken to return.
FairSpec == Spec /\ WF_vars(Source) /\ WF_vars(Stage) /\ WF_vars(Main)

-----------------------------------------------------------------------------
(* Properties.                                                             *)

\* Every variable has its type, and a queue never holds more than maxsize=1,
\* the item the finally block forces into it included.
TypeOK ==
    /\ sourcePc \in SourcePc /\ sourceItem \in Item
    /\ stagePc \in StagePc /\ stageItem \in Item
    /\ mainPc \in MainPc /\ mainItem \in Item
    /\ consumed \in 0 .. Windows /\ accessed \in 0 .. Windows
    /\ launched \in 0 .. Windows /\ yielded \in 0 .. Windows
    /\ request_slot \in Nat /\ ready_slot \in Nat
    /\ request_queue \in Seq(Item) /\ Len(request_queue) <= 1
    /\ ready_queue \in Seq(Item) /\ Len(ready_queue) <= 1
    /\ done \in BOOLEAN /\ error \in BOOLEAN /\ stop \in BOOLEAN
    /\ outcome \in {"running", "exhausted", "raised", "closed"}

\* The handshake of the DataLoader contract: while the training loop is inside
\* Stage A of window k, the stage worker is not inside _launch, and _launch of
\* k+1 has returned unless no further window will be launched.  One process
\* then issues its collectives in the one order launch(k+1), Stage A(k).
Handshake ==
    mainPc = "stageA" =>
        /\ stagePc # "launch"
        /\ launched = consumed + 1 \/ (launched = consumed /\ done)

\* The lookahead of the contract: while k windows were consumed, nothing past
\* k+1 has been launched and nothing past k+2 has been sampled or is being
\* sampled.  After stop the source worker may sample one window more: the
\* finally block releases request_slot under a worker already waiting for it.
SampledOrSampling ==
    accessed + (IF sourcePc = "access" /\ accessed < Windows THEN 1 ELSE 0)
Lookahead ==
    /\ launched <= consumed + 1
    /\ SampledOrSampling <= consumed + 2 + (IF stop THEN 1 ELSE 0)

\* Once the iteration is being torn down no prefetch is launched any more, so
\* an early exit leaves no collective for a peer to wait on.  The worker reads
\* stop only between its bounded waits, so this is not the guard of a step.
NoLaunchAfterStop == stop => stagePc # "launch"

\* The training loop sees the windows of WindowStream.
Stream == INSTANCE WindowStream WITH MayFail <- MayRaise # {}
StreamSafety == Stream!Safety
ImplementsStream == Stream!Spec

\* Every iteration ends with both workers joined, however it ends.
WorkersJoin == <>(mainPc = "end")

\* A failure of a worker that happens before the teardown reaches the training
\* loop as an exception unless the loop has left by itself.
FailureIsReported ==
    (stagePc = "fail" /\ ~stop) ~> (outcome \in {"raised", "closed"})

-----------------------------------------------------------------------------
(* The inductive invariant behind Handshake, NoLaunchAfterStop, Lookahead  *)
(* and the safety part of ImplementsStream.  Until the finally block frees *)
(* both semaphores, each of them is one token with exactly one holder.     *)

TearingDown == {"releaseRequest", "releaseReady", "drainRequest",
                "drainReady", "join", "end"}
BeforeLaunch == {"getPoll", "get", "dispatch", "launch"}

\* Who holds a window between ready_slot and the training loop.
StageHoldsReady ==
    \/ stagePc \in BeforeLaunch \cup {"finish", "fail"}
    \/ stagePc \in {"putPoll", "put"} /\ stageItem # Sentinel
    \/ stagePc = "end" /\ stageItem = Failure
ReadyHeld == ready_queue # <<>> /\ Head(ready_queue) \in Window

\* Who holds a window between request_slot and the stage worker.
SourceHolds == sourcePc \in {"putPoll", "put"} /\ sourceItem \in Window
RequestHeld == request_queue # <<>> /\ Head(request_queue) \in Window
StageTook == stagePc = "dispatch" /\ stageItem \in Window
SourceFailed == sourcePc \in {"putPoll", "put", "end"} /\ sourceItem = Failure

AtMostOne(P, Q, R) == ~(P /\ Q) /\ ~(P /\ R) /\ ~(Q /\ R)

MainInv ==
    /\ stop <=> mainPc \in TearingDown
    /\ mainPc \in {"ack", "wait", "stageA"} =>
           mainItem = consumed /\ consumed > 0
    /\ outcome = "running" <=> mainPc \in {"get", "ack", "wait", "stageA"}
    /\ outcome = "running" =>
           yielded = IF mainPc \in {"ack", "wait"} THEN consumed - 1 ELSE consumed

ReadyInv ==
    mainPc \notin {"drainRequest", "drainReady", "join", "end"} =>
        /\ ready_slot = 0 <=> \/ StageHoldsReady
                              \/ ReadyHeld
                              \/ mainPc = "ack"
        /\ ready_slot <= 1
        /\ AtMostOne(StageHoldsReady, ReadyHeld, mainPc = "ack")

RequestInv ==
    ~stop =>
        /\ request_slot = 0 <=> \/ sourcePc = "access"
                                \/ SourceHolds \/ SourceFailed
                                \/ RequestHeld \/ StageTook
        /\ request_slot <= 1
        /\ AtMostOne(sourcePc = "access" \/ SourceHolds \/ SourceFailed,
                     RequestHeld, StageTook)

StageInv ==
    /\ done => stagePc \in {"putPoll", "put", "end"}
    /\ stagePc \in {"putPoll", "put"} =>
           (done <=> stageItem \in {Sentinel, Failure})
    /\ error => done /\ stageItem = Failure
    /\ stagePc \in {"launch", "finish"} => stageItem \in Window
    /\ ~stop /\ ready_queue # <<>> /\ ~ReadyHeld => stagePc = "end" /\ done
    /\ stop => stagePc \notin BeforeLaunch \ {"getPoll"}
    /\ mainPc \in {"stageA", "stop", "releaseRequest", "releaseReady"} =>
           /\ stagePc \notin BeforeLaunch
           /\ stagePc \in {"poll", "acquire"} => ready_slot = 0

\* launched is one ahead of consumed exactly while a launched window is
\* between the stage worker and the training loop.
LaunchInv ==
    /\ consumed <= launched /\ launched <= consumed + 1
    /\ ~stop /\ stagePc \in BeforeLaunch \cup {"poll", "acquire"} /\ ~ReadyHeld =>
           launched = consumed
    /\ stagePc = "launch" => stageItem = launched + 1
    /\ stagePc = "finish" \/ (stagePc \in {"putPoll", "put"} /\ stageItem \in Window) =>
           stageItem = launched /\ launched = consumed + 1
    /\ ~stop /\ ReadyHeld => Head(ready_queue) = launched /\ launched = consumed + 1
    /\ mainPc = "stageA" /\ ~done => launched = consumed + 1

\* Windows travel in the order of the source binding, the sentinel last.
Accepted == IF stagePc = "launch" THEN launched + 1 ELSE launched
InHand == SourceHolds \/ RequestHeld \/ StageTook
OrderInv ==
    ~stop =>
        /\ stagePc # "fail" /\ ~error =>
               accessed = Accepted + (IF InHand THEN 1 ELSE 0)
        /\ accessed <= consumed + 1 + (IF InHand THEN 1 ELSE 0)
        /\ SourceHolds => sourceItem = accessed
        /\ RequestHeld => Head(request_queue) = accessed
        /\ StageTook => stageItem = accessed

SentinelInv ==
    ~stop =>
        /\ sourcePc \in {"putPoll", "put"} /\ sourceItem = Sentinel =>
               accessed = Windows
        /\ request_queue = <<Sentinel>> => accessed = Windows
        /\ request_queue \in {<<Sentinel>>, <<Failure>>} => sourcePc = "end"
        /\ stagePc = "dispatch" /\ stageItem = Sentinel =>
               accessed = Windows /\ sourcePc = "end" /\ request_queue = <<>>
        /\ stagePc \in {"putPoll", "put"} /\ stageItem = Sentinel =>
               consumed = Windows
        /\ ready_queue = <<Sentinel>> => consumed = Windows

SamplingInv ==
    stop => SampledOrSampling <=
                consumed + 2 +
                (IF sourcePc \in {"access", "putPoll", "end"} THEN 1 ELSE 0)

CauseInv ==
    ~stop /\ MayRaise = {} =>
        /\ sourceItem # Failure /\ request_queue # <<Failure>>
        /\ stageItem # Failure /\ stagePc # "fail" /\ ~error
        /\ ready_queue # <<Failure>>

IInv == /\ TypeOK /\ MainInv /\ ReadyInv /\ RequestInv /\ StageInv
        /\ LaunchInv /\ OrderInv /\ SentinelInv /\ SamplingInv
        /\ CauseInv
=============================================================================
