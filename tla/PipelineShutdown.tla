-------------------------- MODULE PipelineShutdown --------------------------
(***************************************************************************)
(* The goroutines that run() of domains/workflows/service/workflows.go     *)
(* starts, the channels and wait groups that join them, and how they end   *)
(* when Stop or a signal cancels their context.  What the channels carry   *)
(* is left to IngestPipeline: here they have a length and may be closed,   *)
(* and a send on a closed channel panics.                                  *)
(***************************************************************************)
EXTENDS Naturals, FiniteSets

CONSTANTS
    Listers,       \* the metadata loops
    DataWorkers,   \* goroutines of fetchWorkflowData
    IndexWorkers,  \* goroutines of indexBatches
    MetadataCap, WorkflowsCap, BatchesCap,  \* channel capacities
    PageSize,      \* bound on the executions of a listing page
    ShardCount,    \* bound on the shards the batcher holds documents of
    MaxJobs        \* bound on the retention jobs that run at a time

ASSUME ShutdownAssumption ==
    /\ {MetadataCap, WorkflowsCap, BatchesCap} \subseteq Nat \ {0}
    /\ {PageSize, ShardCount, MaxJobs} \subseteq Nat \ {0}
    /\ IndexWorkers # {}

VARIABLES
    service,        \* the Service: new, running, being stopped, or how Stop returned
    lister,         \* where each listing loop is
    pageLeft,       \* executions of its page each loop has still to send
    metadata,       \* length of the metadata channel, and if it is closed
    dataWorker,     \* where each data worker is
    workflows,      \* length of the workflows channel, and if it is closed
    batcher,        \* where batchWorkflows is
    shards,         \* how many shards the batcher holds documents of
    batches,        \* length of the batches channel, and if it is closed
    indexWorker,    \* where each index worker is
    retention,      \* where deleteExpiredShardsLoop is
    jobs,           \* retention jobs the cron scheduler runs now
    flusher,        \* flushProgressLoop
    unsaved,        \* terminalProgress.dirty: the file lacks some completions
    saveFailed,     \* the save at the end of run() failed
    runStep,        \* what run() waits for
    panicked        \* a goroutine sent on a closed channel

stages == <<lister, pageLeft, metadata, dataWorker, workflows, batcher, shards, batches,
            indexWorker, retention, jobs, flusher>>
shutdownVars == <<service, stages, unsaved, saveFailed, runStep, panicked>>

Channel(cap) == [len : 0 .. cap, closed : BOOLEAN]

ShutdownTypeOK ==
    /\ service \in {"new", "unused", "running", "stopping", "stopped", "timedOut"}
    /\ lister \in [Listers -> {"list", "send", "wait", "done"}]
    /\ pageLeft \in [Listers -> 0 .. PageSize]
    /\ metadata \in Channel(MetadataCap)
    /\ dataWorker \in [DataWorkers -> {"receive", "fetch", "send", "done"}]
    /\ workflows \in Channel(WorkflowsCap)
    /\ batcher \in {"receive", "flushOne", "flushAll", "flushLast", "done"}
    /\ shards \in 0 .. ShardCount
    /\ batches \in Channel(BatchesCap)
    /\ indexWorker \in [IndexWorkers -> {"receive", "write", "done"}]
    /\ retention \in {"first", "scheduled", "stopping", "done"}
    /\ jobs \in 0 .. MaxJobs
    /\ flusher \in {"running", "done"}
    /\ unsaved \in BOOLEAN
    /\ saveFailed \in BOOLEAN
    /\ runStep \in {"indexWorkers", "batcher", "retention", "flusher", "save", "done"}
    /\ panicked \in BOOLEAN

Empty == [len |-> 0, closed |-> FALSE]

ShutdownInit ==
    /\ service = "new"
    /\ lister = [l \in Listers |-> "list"]
    /\ pageLeft = [l \in Listers |-> 0]
    /\ metadata = Empty /\ workflows = Empty /\ batches = Empty
    /\ dataWorker = [w \in DataWorkers |-> "receive"]
    /\ batcher = "receive"
    /\ shards = 0
    /\ indexWorker = [w \in IndexWorkers |-> "receive"]
    /\ retention = "first"
    /\ jobs = 0
    /\ flusher = "running"
    /\ unsaved = FALSE
    /\ saveFailed = FALSE
    /\ runStep = "indexWorkers"
    /\ panicked = FALSE

Started == service \notin {"new", "unused"} /\ ~panicked
cancelled == service \in {"stopping", "stopped", "timedOut"}

(* Channels                                                                *)
Sent(channel) == [channel EXCEPT !.len = @ + 1]
Received(channel) == [channel EXCEPT !.len = @ - 1]
Closed(channel) == [channel EXCEPT !.closed = TRUE]
Drained(channel) == channel.closed /\ channel.len = 0

control == <<service, unsaved, saveFailed, runStep>>
-----------------------------------------------------------------------------
(* Start and Stop.  A signal cancels the parent context before the process *)
(* manager calls Stop; the pipeline sees no difference.                    *)
Start ==
    /\ service = "new"
    /\ service' = "running"
    /\ UNCHANGED <<stages, unsaved, saveFailed, runStep, panicked>>

Stop ==
    /\ service = "running" /\ ~panicked
    /\ service' = "stopping"
    /\ UNCHANGED <<stages, unsaved, saveFailed, runStep, panicked>>

(* A service that was never started has nothing to cancel.                 *)
StopUnstarted ==
    /\ service = "new"
    /\ service' = "unused"
    /\ UNCHANGED <<stages, unsaved, saveFailed, runStep, panicked>>

StopReturns ==
    /\ service = "stopping"
    /\ runStep = "done"
    /\ service' = "stopped"
    /\ UNCHANGED <<stages, unsaved, saveFailed, runStep, panicked>>

StopTimesOut ==
    /\ service = "stopping"
    /\ service' = "timedOut"
    /\ UNCHANGED <<stages, unsaved, saveFailed, runStep, panicked>>
-----------------------------------------------------------------------------
(* listWorkflowMetadata.  The limiter and the request refuse a cancelled   *)
(* context; what is left of a page is still sent.                          *)
Goto(l, step) == lister' = [lister EXCEPT ![l] = step]

listerOnly == <<control, dataWorker, workflows, batcher, shards, batches, indexWorker,
                retention, jobs, flusher>>

ListPage(l) ==
    /\ Started /\ lister[l] = "list"
    /\ \E n \in 0 .. PageSize :
          /\ cancelled => n = 0
          /\ pageLeft' = [pageLeft EXCEPT ![l] = n]
          /\ Goto(l, IF n = 0 THEN "wait" ELSE "send")
    /\ UNCHANGED <<listerOnly, metadata, panicked>>

SendMetadata(l) ==
    /\ Started /\ lister[l] = "send"
    /\ metadata.closed \/ metadata.len < MetadataCap
    /\ panicked' = metadata.closed
    /\ metadata' = IF metadata.closed THEN metadata ELSE Sent(metadata)
    /\ pageLeft' = [pageLeft EXCEPT ![l] = @ - 1]
    /\ Goto(l, IF pageLeft[l] = 1 THEN "list" ELSE "send")
    /\ UNCHANGED listerOnly

ScanAgain(l) ==
    /\ Started /\ lister[l] = "wait"
    /\ Goto(l, "list")
    /\ UNCHANGED <<listerOnly, pageLeft, metadata, panicked>>

EndLister(l) ==
    /\ Started /\ cancelled
    /\ lister[l] \in {"send", "wait"}
    /\ Goto(l, "done")
    /\ pageLeft' = [pageLeft EXCEPT ![l] = 0]
    /\ UNCHANGED <<listerOnly, metadata, panicked>>

(* Mutant of CloseMetadata: the first loop that ends closes the channel.   *)
CloseMetadataEarly ==
    /\ Started /\ ~metadata.closed
    /\ \E l \in Listers : lister[l] = "done"
    /\ metadata' = Closed(metadata)
    /\ UNCHANGED <<listerOnly, lister, pageLeft, panicked>>

(* go func() { listers.Wait(); close(metadata) }()                         *)
CloseMetadata ==
    /\ Started /\ ~metadata.closed
    /\ \A l \in Listers : lister[l] = "done"
    /\ metadata' = Closed(metadata)
    /\ UNCHANGED <<listerOnly, lister, pageLeft, panicked>>
-----------------------------------------------------------------------------
(* fetchWorkflowData                                                       *)
workerOnly == <<control, lister, pageLeft, batcher, shards, batches, indexWorker,
                retention, jobs, flusher>>

ReceiveMetadata(w) ==
    /\ Started /\ dataWorker[w] = "receive"
    /\ metadata.len > 0
    /\ metadata' = Received(metadata)
    /\ \E step \in {"fetch", "receive"} : dataWorker' = [dataWorker EXCEPT ![w] = step]
    /\ UNCHANGED <<workerOnly, workflows, panicked>>

Fetch(w) ==
    /\ Started /\ dataWorker[w] = "fetch"
    /\ \E step \in {"send", "receive"} : dataWorker' = [dataWorker EXCEPT ![w] = step]
    /\ UNCHANGED <<workerOnly, metadata, workflows, panicked>>

SendWorkflow(w) ==
    /\ Started /\ dataWorker[w] = "send"
    /\ workflows.closed \/ workflows.len < WorkflowsCap
    /\ panicked' = workflows.closed
    /\ workflows' = IF workflows.closed THEN workflows ELSE Sent(workflows)
    /\ dataWorker' = [dataWorker EXCEPT ![w] = "receive"]
    /\ UNCHANGED <<workerOnly, metadata>>

EndDataWorker(w) ==
    /\ Started
    /\ \/ dataWorker[w] = "send" /\ cancelled
       \/ dataWorker[w] = "receive" /\ Drained(metadata)
    /\ dataWorker' = [dataWorker EXCEPT ![w] = "done"]
    /\ UNCHANGED <<workerOnly, metadata, workflows, panicked>>

(* go func() { dataWorkers.Wait(); close(workflows) }()                    *)
CloseWorkflows ==
    /\ Started /\ ~workflows.closed
    /\ \A w \in DataWorkers : dataWorker[w] = "done"
    /\ workflows' = Closed(workflows)
    /\ UNCHANGED <<workerOnly, metadata, dataWorker, panicked>>
-----------------------------------------------------------------------------
(* batchWorkflows.  A document may open a shard of its own and may fill    *)
(* one; a flush sends one batch for each shard.                            *)
batcherOnly == <<control, lister, pageLeft, metadata, dataWorker, indexWorker, retention,
                 jobs, flusher>>

GroupWorkflow ==
    /\ Started /\ batcher = "receive"
    /\ workflows.len > 0
    /\ workflows' = Received(workflows)
    /\ shards' \in {shards, shards + 1} \cap 1 .. ShardCount
    /\ batcher' \in {"receive", "flushOne"}
    /\ UNCHANGED <<batcherOnly, batches, panicked>>

FlushTick ==
    /\ Started /\ batcher = "receive"
    /\ batcher' = IF shards = 0 THEN "receive" ELSE "flushAll"
    /\ UNCHANGED <<batcherOnly, workflows, shards, batches, panicked>>

LastFlush ==
    /\ Started /\ batcher = "receive"
    /\ Drained(workflows)
    /\ batcher' = "flushLast"
    /\ UNCHANGED <<batcherOnly, workflows, shards, batches, panicked>>

FlushBatch ==
    /\ Started /\ batcher \in {"flushOne", "flushAll", "flushLast"}
    /\ shards > 0
    /\ batches.len < BatchesCap
    /\ batches' = Sent(batches)
    /\ shards' = shards - 1
    /\ batcher' = IF batcher = "flushOne" \/ (batcher = "flushAll" /\ shards = 1)
                  THEN "receive" ELSE batcher
    /\ UNCHANGED <<batcherOnly, workflows, panicked>>

(* Mutant of EndBatcher: an early return leaves the channel open.          *)
EndBatcherUnclosed ==
    /\ Started
    /\ \/ cancelled /\ batcher # "done"
       \/ batcher = "flushLast" /\ shards = 0
    /\ batcher' = "done"
    /\ batches' = IF cancelled THEN batches ELSE Closed(batches)
    /\ UNCHANGED <<batcherOnly, workflows, shards, panicked>>

(* defer close(batches)                                                    *)
EndBatcher ==
    /\ Started
    /\ \/ cancelled /\ batcher # "done"
       \/ batcher = "flushLast" /\ shards = 0
    /\ batcher' = "done"
    /\ batches' = Closed(batches)
    /\ UNCHANGED <<batcherOnly, workflows, shards, panicked>>
-----------------------------------------------------------------------------
(* indexBatches: takes batches until the channel is closed and empty, also *)
(* after the cancellation.                                                 *)
indexOnly == <<service, runStep, saveFailed, lister, pageLeft, metadata,
               dataWorker, workflows, batcher, shards, retention, jobs, flusher>>

TakeBatch(w) ==
    /\ Started /\ indexWorker[w] = "receive"
    /\ batches.len > 0
    /\ batches' = Received(batches)
    /\ indexWorker' = [indexWorker EXCEPT ![w] = "write"]
    /\ UNCHANGED <<indexOnly, unsaved, panicked>>

WriteBatch(w) ==
    /\ Started /\ indexWorker[w] = "write"
    /\ indexWorker' = [indexWorker EXCEPT ![w] = "receive"]
    /\ unsaved' \in {unsaved, TRUE}
    /\ UNCHANGED <<indexOnly, batches, panicked>>

(* Mutant of EndIndexWorker: the workers end with the context.             *)
EndIndexWorkerCancelled(w) ==
    /\ Started /\ indexWorker[w] = "receive"
    /\ cancelled \/ Drained(batches)
    /\ indexWorker' = [indexWorker EXCEPT ![w] = "done"]
    /\ UNCHANGED <<indexOnly, batches, unsaved, panicked>>

EndIndexWorker(w) ==
    /\ Started /\ indexWorker[w] = "receive"
    /\ Drained(batches)
    /\ indexWorker' = [indexWorker EXCEPT ![w] = "done"]
    /\ UNCHANGED <<indexOnly, batches, unsaved, panicked>>
-----------------------------------------------------------------------------
(* deleteExpiredShardsLoop: a first cleanup, then the cron scheduler, whose *)
(* jobs Stop waits for.                                                     *)
retentionOnly == <<control, lister, pageLeft, metadata, dataWorker, workflows, batcher,
                   shards, batches, indexWorker, flusher, panicked>>

FirstCleanup ==
    /\ Started /\ retention = "first"
    /\ retention' = "scheduled"
    /\ UNCHANGED <<retentionOnly, jobs>>

StartJob ==
    /\ Started /\ retention = "scheduled"
    /\ jobs < MaxJobs
    /\ jobs' = jobs + 1
    /\ UNCHANGED <<retentionOnly, retention>>

EndJob ==
    /\ Started /\ jobs > 0
    /\ jobs' = jobs - 1
    /\ UNCHANGED <<retentionOnly, retention>>

StopScheduler ==
    /\ Started /\ cancelled /\ retention = "scheduled"
    /\ retention' = "stopping"
    /\ UNCHANGED <<retentionOnly, jobs>>

(* Mutant of EndRetention: the scheduler is stopped and not awaited.       *)
EndRetentionAtOnce ==
    /\ Started /\ retention = "stopping"
    /\ retention' = "done"
    /\ UNCHANGED <<retentionOnly, jobs>>

EndRetention ==
    /\ Started /\ retention = "stopping" /\ jobs = 0
    /\ retention' = "done"
    /\ UNCHANGED <<retentionOnly, jobs>>
-----------------------------------------------------------------------------
(* flushProgressLoop and the save at the end of run()                      *)
flusherOnly == <<service, lister, pageLeft, metadata, dataWorker,
                 workflows, batcher, shards, batches, indexWorker, retention, jobs, panicked>>

FlushProgress ==
    /\ Started /\ flusher = "running"
    /\ unsaved' \in {unsaved, FALSE}
    /\ UNCHANGED <<flusherOnly, flusher, saveFailed, runStep>>

EndFlusher ==
    /\ Started /\ cancelled /\ flusher = "running"
    /\ flusher' = "done"
    /\ UNCHANGED <<flusherOnly, unsaved, saveFailed, runStep>>

(* run() waits for the stages that write, one after the other.             *)
Await(step, next, condition) ==
    /\ Started /\ runStep = step
    /\ condition
    /\ runStep' = next
    /\ UNCHANGED <<flusherOnly, flusher, unsaved, saveFailed>>

AwaitStages ==
    \/ Await("indexWorkers", "batcher", \A w \in IndexWorkers : indexWorker[w] = "done")
    \/ Await("batcher", "retention", batcher = "done")
    \/ Await("retention", "flusher", retention = "done")
    \/ Await("flusher", "save", flusher = "done")

FinalSave ==
    /\ Started /\ runStep = "save"
    /\ \E failed \in {FALSE, unsaved} : saveFailed' = failed /\ unsaved' = failed
    /\ runStep' = "done"
    /\ UNCHANGED <<flusherOnly, flusher>>

ListerStep(l) ==
    ListPage(l) \/ SendMetadata(l) \/ ScanAgain(l) \/ EndLister(l)

DataWorkerStep(w) == ReceiveMetadata(w) \/ Fetch(w) \/ SendWorkflow(w) \/ EndDataWorker(w)

IndexWorkerStep(w) == TakeBatch(w) \/ WriteBatch(w) \/ EndIndexWorker(w)

ShutdownNext ==
    \/ Start \/ Stop \/ StopUnstarted \/ StopReturns \/ StopTimesOut
    \/ \E l \in Listers : ListerStep(l)
    \/ CloseMetadata
    \/ \E w \in DataWorkers : DataWorkerStep(w)
    \/ CloseWorkflows
    \/ GroupWorkflow \/ FlushTick \/ LastFlush \/ FlushBatch \/ EndBatcher
    \/ \E w \in IndexWorkers : IndexWorkerStep(w)
    \/ FirstCleanup \/ StartJob \/ EndJob \/ StopScheduler \/ EndRetention
    \/ FlushProgress \/ EndFlusher
    \/ AwaitStages \/ FinalSave

ShutdownSpec == ShutdownInit /\ [][ShutdownNext]_shutdownVars

(* Goroutines run, calls on a cancelled context return, and a select that  *)
(* has ctx.Done() ready does not pass over it for ever.  After the         *)
(* cancellation each listing loop ends once and the ending steps are taken *)
(* finitely often, so that fairness of their disjunction is all it takes   *)
(* and asks less of the scheduler than fairness to every goroutine.  None  *)
(* is asked for before the cancellation.                                   *)
EndingSteps ==
    \/ CloseMetadata \/ CloseWorkflows \/ EndBatcher
    \/ \E w \in DataWorkers : DataWorkerStep(w)
    \/ \E w \in IndexWorkers : IndexWorkerStep(w)
    \/ FirstCleanup \/ StopScheduler \/ EndRetention \/ EndFlusher
    \/ AwaitStages \/ FinalSave \/ StopReturns

ShutdownFairness ==
    /\ WF_shutdownVars(cancelled /\ \E l \in Listers : ListerStep(l))
    /\ SF_shutdownVars(\E l \in Listers : EndLister(l))
    /\ WF_shutdownVars(cancelled /\ EndJob)
    /\ WF_shutdownVars(cancelled /\ EndingSteps)

FairShutdown == ShutdownSpec /\ ShutdownFairness
-----------------------------------------------------------------------------
(* Each channel is closed only after everything that sends on it has       *)
(* ended, in every order in which the stages notice the cancellation.      *)
NoSendOnClosed == ~panicked

ProducersEnded ==
    /\ \A l \in Listers : lister[l] = "done"
    /\ \A w \in DataWorkers : dataWorker[w] = "done"

ConsumersEnded ==
    /\ \A w \in IndexWorkers : indexWorker[w] = "done"
    /\ batcher = "done" /\ retention = "done" /\ jobs = 0 /\ flusher = "done"

(* Stop returning nil means that nothing writes to OpenSearch any more:    *)
(* the repository is closed next.                                          *)
RepositoryIdleWhenStopped == service = "stopped" => ConsumersEnded

(* No batch the index workers were given is left behind, and the last save *)
(* comes after the last completion: what it wrote is all there was.        *)
NothingUnsaved ==
    runStep = "done" => batches.len = 0 /\ (unsaved => saveFailed)

(* "Stop cancels background work and waits for all pipeline stages to      *)
(* finish" (domains/workflows/service/workflows.go:166)                    *)
StopWaitsForAllStages == service = "stopped" => ProducersEnded /\ ConsumersEnded

(* A cancelled pipeline ends: no stage waits for ever on a full or an      *)
(* empty channel whose other side has gone.  It stays cancelled, and stays *)
(* ended.                                                                  *)
CancelledEnds == []<>(cancelled => ProducersEnded /\ ConsumersEnded /\ runStep = "done")
=============================================================================
