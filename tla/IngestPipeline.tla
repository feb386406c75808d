--------------------------- MODULE IngestPipeline ---------------------------
(***************************************************************************)
(* The ingestion pipeline of domains/workflows/service/workflows.go:       *)
(* listing loops read snapshots of Temporal executions, data workers fetch *)
(* their histories, one batcher coalesces and groups the documents by      *)
(* daily shard, index workers write each batch to OpenSearch and tell the  *)
(* progress tracker.  The stages are joined by bounded channels.  Temporal *)
(* advances and closes executions meanwhile, calls fail or lose their      *)
(* answer, and the process dies and starts again.                          *)
(* The end of the goroutines on cancellation is in PipelineShutdown.       *)
(***************************************************************************)
EXTENDS Naturals, Sequences, FiniteSets

CONSTANTS
    Runs,             \* workflow executions, named by their document id
    ShardOf,          \* [Runs -> shard]: the daily index of the start time
    OpenLoops,        \* metadata loops that list open executions
    ClosedLoops,      \* metadata loops that list closed executions
    DataWorkers,      \* goroutines of fetchWorkflowData
    IndexWorkers,     \* goroutines of indexBatches
    BatchSize,        \* indexBatchSize
    BufferMultiplier, \* pipelineBufferMultiplier
    Poison,           \* runs whose document OpenSearch always rejects
    TrackProgress,    \* a progress file is configured (s.progress # nil)
    Stamp,            \* what this release stamps the progress file with
    MaxRevision,      \* bound on StateTransitionCount
    MaxRestarts,      \* bound on the times the process dies
    None              \* nothing: an idle worker, a missing document or file

ASSUME PipelineAssumption ==
    /\ OpenLoops \cap ClosedLoops = {}
    /\ IsFiniteSet(DataWorkers) /\ DataWorkers # {}
    /\ IsFiniteSet(IndexWorkers) /\ IndexWorkers # {}
    /\ BatchSize \in Nat \ {0}
    /\ BufferMultiplier \in Nat \ {0}
    /\ Poison \subseteq Runs
    /\ TrackProgress \in BOOLEAN
    /\ MaxRevision \in Nat \ {0, 1}
    /\ MaxRestarts \in Nat

Shards == {ShardOf[r] : r \in Runs}
Loops == OpenLoops \cup ClosedLoops
Revisions == 0 .. MaxRevision

(* models.WorkflowMetadata: the listed revision, and whether EndTime is set *)
Metadata == [run : Runs, rev : Revisions, closed : BOOLEAN]

(* models.Workflow: IndexVersion, which "must be positive for OpenSearch", *)
(* EndTime # nil, and the revision up to which the fetched history reaches *)
Workflow == [run : Runs, version : 1 .. MaxRevision, closed : BOOLEAN, data : Revisions]

(* An index worker's batch: where the worker is, what is left, the outcome *)
Job == [step : {"create", "add", "settle"}, docs : SUBSET Workflow, ok : BOOLEAN]

ASSUME NoneAssumption ==
    /\ None \notin Metadata
    /\ None \notin Workflow
    /\ None \notin Job
    /\ None \notin [stamp : {Stamp}, completed : SUBSET Runs]

VARIABLES
    execution,  \* Temporal: revision and closed flag of each run
    page,       \* the listed metadata each loop has still to send
    metadata,   \* channel: listing loops to data workers
    fetching,   \* the metadata each data worker fetches the history of
    sending,    \* the document each data worker waits to send
    workflows,  \* channel: data workers to batcher
    grouped,    \* the batcher's pending map: the latest document of each id
    flushing,   \* the shards the batcher is sending before it reads again
    batches,    \* channel: batcher to index workers
    indexing,   \* the job of each index worker
    index,      \* OpenSearch: the document of each run
    stamp, completed, pending, dirty, file,  \* the progress tracker
    restarts    \* history: how often the process died

sourceVars == <<execution>>
listVars   == <<page, metadata>>
fetchVars  == <<fetching, sending, workflows>>
batchVars  == <<grouped, flushing, batches>>
indexVars  == <<indexing, index>>
tracker    == <<stamp, completed, pending, dirty, file>>
vars == <<sourceVars, listVars, fetchVars, batchVars, indexVars, tracker, restarts>>

Tracker == INSTANCE ProgressTracker WITH
    Ids <- Runs, Stamps <- {Stamp}, NoFile <- None

(* Channel capacities of run()                                             *)
MetadataCap == Cardinality(DataWorkers) * BufferMultiplier
WorkflowsCap == Cardinality(IndexWorkers) * BatchSize
BatchesCap == Cardinality(IndexWorkers) * BufferMultiplier

TypeOK ==
    /\ execution \in [Runs -> [rev : Revisions, closed : BOOLEAN]]
    /\ page \in [Loops -> SUBSET Metadata]
    /\ metadata \in Seq(Metadata) /\ Len(metadata) <= MetadataCap
    /\ fetching \in [DataWorkers -> Metadata \cup {None}]
    /\ sending \in [DataWorkers -> Workflow \cup {None}]
    /\ workflows \in Seq(Workflow) /\ Len(workflows) <= WorkflowsCap
    /\ grouped \in [Runs -> Workflow \cup {None}]
    /\ flushing \subseteq Shards
    /\ batches \in Seq(SUBSET Workflow) /\ Len(batches) <= BatchesCap
    /\ indexing \in [IndexWorkers -> Job \cup {None}]
    /\ index \in [Runs -> Workflow \cup {None}]
    /\ Tracker!TypeOK
    /\ restarts \in 0 .. MaxRestarts

NoPages == [l \in Loops |-> {}]
NoFetch == [w \in DataWorkers |-> None]
NoDocuments == [r \in Runs |-> None]
NoJobs == [w \in IndexWorkers |-> None]

Init ==
    /\ execution = [r \in Runs |-> [rev |-> 0, closed |-> FALSE]]
    /\ page = NoPages /\ metadata = <<>>
    /\ fetching = NoFetch /\ sending = NoFetch /\ workflows = <<>>
    /\ grouped = NoDocuments /\ flushing = {} /\ batches = <<>>
    /\ indexing = NoJobs
    /\ index = NoDocuments
    /\ Tracker!Init
    /\ restarts = 0
-----------------------------------------------------------------------------
(* Temporal.  The revision of a run grows with every transition, and none  *)
(* follows the one that closes it.  A closed run has made two at least:    *)
(* it started and it closed.                                               *)
Advance(r) ==
    /\ ~execution[r].closed
    /\ execution[r].rev + 1 < MaxRevision
    /\ execution' = [execution EXCEPT ![r].rev = @ + 1]
    /\ UNCHANGED <<listVars, fetchVars, batchVars, indexVars, tracker, restarts>>

Close(r) ==
    /\ ~execution[r].closed
    /\ execution[r].rev \in 1 .. MaxRevision - 1
    /\ execution' = [execution EXCEPT ![r] = [rev |-> @.rev + 1, closed |-> TRUE]]
    /\ UNCHANGED <<listVars, fetchVars, batchVars, indexVars, tracker, restarts>>
-----------------------------------------------------------------------------
(* listWorkflowMetadata: a page of some of the runs the loop asks for.  The *)
(* next page, scan or retry after an error comes when the page is sent.     *)
Listed(r) == [run |-> r, rev |-> execution[r].rev, closed |-> execution[r].closed]

ListPage(l, R) ==
    /\ page[l] = {}
    /\ \A r \in R : execution[r].closed <=> l \in ClosedLoops
    /\ page' = [page EXCEPT ![l] = {Listed(r) : r \in R}]
    /\ UNCHANGED <<sourceVars, metadata, fetchVars, batchVars, indexVars, tracker, restarts>>

SendMetadata(l, m) ==
    /\ m \in page[l]
    /\ Len(metadata) < MetadataCap
    /\ metadata' = Append(metadata, m)
    /\ page' = [page EXCEPT ![l] = @ \ {m}]
    /\ UNCHANGED <<sourceVars, fetchVars, batchVars, indexVars, tracker, restarts>>
-----------------------------------------------------------------------------
(* fetchOneWorkflowData.  A terminal execution needs a reservation.         *)
Terminal(doc) == TrackProgress /\ doc.closed

Receives(w) == metadata # <<>> /\ fetching[w] = None /\ sending[w] = None

SkipReserved(w) ==
    /\ Receives(w)
    /\ Terminal(Head(metadata))
    /\ ~Tracker!CanReserve(Head(metadata).run)
    /\ metadata' = Tail(metadata)
    /\ UNCHANGED <<sourceVars, page, fetchVars, batchVars, indexVars, tracker, restarts>>

BeginFetch(w) ==
    /\ Receives(w)
    /\ IF Terminal(Head(metadata)) THEN Tracker!Reserve(Head(metadata).run)
       ELSE UNCHANGED tracker
    /\ fetching' = [fetching EXCEPT ![w] = Head(metadata)]
    /\ metadata' = Tail(metadata)
    /\ UNCHANGED <<sourceVars, page, sending, workflows, batchVars, indexVars, restarts>>

(* Mutant of FetchFails: the error path forgets the reservation.           *)
FetchFailsUnreleased(w) ==
    /\ fetching[w] # None
    /\ fetching' = [fetching EXCEPT ![w] = None]
    /\ UNCHANGED <<sourceVars, listVars, sending, workflows, batchVars, indexVars, tracker, restarts>>

(* An error, or no data: the deferred release gives the reservation back.  *)
FetchFails(w) ==
    /\ fetching[w] # None
    /\ IF Terminal(fetching[w]) THEN Tracker!Release(fetching[w].run)
       ELSE UNCHANGED tracker
    /\ fetching' = [fetching EXCEPT ![w] = None]
    /\ UNCHANGED <<sourceVars, listVars, sending, workflows, batchVars, indexVars, restarts>>

IndexVersion(m) == IF m.rev > 1 THEN m.rev ELSE 1

(* Mutant of FetchSucceeds: the version is that of the fetched history.    *)
FetchSucceedsVersioned(w) ==
    /\ fetching[w] # None
    /\ LET m == fetching[w]
           now == execution[m.run].rev
       IN sending' = [sending EXCEPT ![w] =
              [run |-> m.run, version |-> IndexVersion([rev |-> now]), closed |-> m.closed,
               data |-> now]]
    /\ fetching' = [fetching EXCEPT ![w] = None]
    /\ UNCHANGED <<sourceVars, listVars, workflows, batchVars, indexVars, tracker, restarts>>

(* The history is read now, later than the metadata was.                   *)
FetchSucceeds(w) ==
    /\ fetching[w] # None
    /\ LET m == fetching[w] IN
       sending' = [sending EXCEPT ![w] =
           [run |-> m.run, version |-> IndexVersion(m), closed |-> m.closed,
            data |-> execution[m.run].rev]]
    /\ fetching' = [fetching EXCEPT ![w] = None]
    /\ UNCHANGED <<sourceVars, listVars, workflows, batchVars, indexVars, tracker, restarts>>

SendWorkflow(w) ==
    /\ sending[w] # None
    /\ Len(workflows) < WorkflowsCap
    /\ workflows' = Append(workflows, sending[w])
    /\ sending' = [sending EXCEPT ![w] = None]
    /\ UNCHANGED <<sourceVars, listVars, fetching, batchVars, indexVars, tracker, restarts>>
-----------------------------------------------------------------------------
(* batchWorkflows                                                          *)
IsNewer(candidate, existing) ==
    IF candidate.version # existing.version THEN candidate.version > existing.version
    ELSE candidate.closed /\ ~existing.closed

Group(shard, docs) == {docs[r] : r \in {q \in Runs : ShardOf[q] = shard /\ docs[q] # None}}

GroupWorkflow ==
    /\ workflows # <<>>
    /\ flushing = {}
    /\ LET doc == Head(workflows)
           old == grouped[doc.run]
           shard == ShardOf[doc.run]
       IN /\ grouped' = IF old = None \/ IsNewer(doc, old)
                        THEN [grouped EXCEPT ![doc.run] = doc] ELSE grouped
          /\ flushing' = IF Cardinality(Group(shard, grouped')) >= BatchSize
                         THEN {shard} ELSE {}
    /\ workflows' = Tail(workflows)
    /\ UNCHANGED <<sourceVars, listVars, fetching, sending, batches, indexVars, tracker, restarts>>

(* The flush ticker: every shard with a document is flushed.               *)
FlushTick ==
    /\ flushing = {}
    /\ flushing' = {s \in Shards : Group(s, grouped) # {}}
    /\ UNCHANGED <<sourceVars, listVars, fetchVars, grouped, batches, indexVars, tracker, restarts>>

(* flushWorkflowBatch: removed from the map only when the send is accepted *)
FlushBatch(s) ==
    /\ s \in flushing
    /\ Len(batches) < BatchesCap
    /\ batches' = Append(batches, Group(s, grouped))
    /\ grouped' = [r \in Runs |-> IF ShardOf[r] = s THEN None ELSE grouped[r]]
    /\ flushing' = flushing \ {s}
    /\ UNCHANGED <<sourceVars, listVars, fetchVars, indexVars, tracker, restarts>>
-----------------------------------------------------------------------------
(* indexBatches: create the shard, write the batch, then settle with the   *)
(* tracker document by document.                                           *)
TakeBatch(w) ==
    /\ indexing[w] = None
    /\ batches # <<>>
    /\ indexing' = [indexing EXCEPT ![w] =
           [step |-> "create", docs |-> Head(batches), ok |-> FALSE]]
    /\ batches' = Tail(batches)
    /\ UNCHANGED <<sourceVars, listVars, fetchVars, grouped, flushing, index, tracker, restarts>>

AtStep(w, step) == indexing[w] # None /\ indexing[w].step = step

(* An index that exists already is no error; any other error gives up.     *)
EnsureIndex(w) ==
    /\ AtStep(w, "create")
    /\ \E next \in {"add", "settle"} : indexing' = [indexing EXCEPT ![w].step = next]
    /\ UNCHANGED <<sourceVars, listVars, fetchVars, batchVars, index, tracker, restarts>>

(* Mutant of Accepts: a bulk request without external versions.            *)
AcceptsAnyVersion(doc) == doc.run \notin Poison

(* external_gte: OpenSearch refuses a version lower than the stored one.   *)
Accepts(doc) ==
    /\ doc.run \notin Poison
    /\ index[doc.run] = None \/ doc.version >= index[doc.run].version

Written(docs) ==
    [r \in Runs |-> IF \E d \in docs : d.run = r THEN CHOOSE d \in docs : d.run = r
                    ELSE index[r]]

(* The bulk request writes some of the documents it may.  Add answers nil  *)
(* only when all were written and the answer arrived.                      *)
Add(w) ==
    /\ AtStep(w, "add")
    /\ \E docs \in SUBSET {d \in indexing[w].docs : Accepts(d)} :
          /\ index' = Written(docs)
          /\ \E ok \in {FALSE, docs = indexing[w].docs} :
                indexing' = [indexing EXCEPT ![w].step = "settle", ![w].ok = ok]
    /\ UNCHANGED <<sourceVars, listVars, fetchVars, batchVars, tracker, restarts>>

Without(job, doc) ==
    IF job.docs = {doc} THEN None ELSE [job EXCEPT !.docs = job.docs \ {doc}]

(* Mutants of Settle: a failed batch is completed, or is not released.     *)
SettleAlwaysCompletes(w, doc) ==
    /\ AtStep(w, "settle")
    /\ doc \in indexing[w].docs
    /\ IF Terminal(doc) THEN Tracker!Complete(doc.run) ELSE UNCHANGED tracker
    /\ indexing' = [indexing EXCEPT ![w] = Without(indexing[w], doc)]
    /\ UNCHANGED <<sourceVars, listVars, fetchVars, batchVars, index, restarts>>

SettleUnreleased(w, doc) ==
    /\ AtStep(w, "settle")
    /\ doc \in indexing[w].docs
    /\ IF Terminal(doc) /\ indexing[w].ok THEN Tracker!Complete(doc.run) ELSE UNCHANGED tracker
    /\ indexing' = [indexing EXCEPT ![w] = Without(indexing[w], doc)]
    /\ UNCHANGED <<sourceVars, listVars, fetchVars, batchVars, index, restarts>>

(* completeTerminalProgress or releaseTerminalProgress, one document       *)
Settle(w, doc) ==
    /\ AtStep(w, "settle")
    /\ doc \in indexing[w].docs
    /\ IF ~Terminal(doc) THEN UNCHANGED tracker
       ELSE IF indexing[w].ok THEN Tracker!Complete(doc.run)
       ELSE Tracker!Release(doc.run)
    /\ indexing' = [indexing EXCEPT ![w] = Without(indexing[w], doc)]
    /\ UNCHANGED <<sourceVars, listVars, fetchVars, batchVars, index, restarts>>
-----------------------------------------------------------------------------
(* saveProgress on the ticker of flushProgressLoop                         *)
SaveProgress ==
    /\ TrackProgress
    /\ Tracker!Save
    /\ UNCHANGED <<sourceVars, listVars, fetchVars, batchVars, indexVars, restarts>>

(* The process dies and starts again with the progress file it left.       *)
Restart ==
    /\ restarts < MaxRestarts
    /\ restarts' = restarts + 1
    /\ page' = NoPages /\ metadata' = <<>>
    /\ fetching' = NoFetch /\ sending' = NoFetch /\ workflows' = <<>>
    /\ grouped' = NoDocuments /\ flushing' = {} /\ batches' = <<>>
    /\ indexing' = NoJobs
    /\ Tracker!Restart(Stamp)
    /\ UNCHANGED <<sourceVars, index>>

Next ==
    \/ \E r \in Runs : Advance(r) \/ Close(r)
    \/ \E l \in Loops, R \in SUBSET Runs \ {{}} : ListPage(l, R)
    \/ \E l \in Loops, m \in Metadata : SendMetadata(l, m)
    \/ \E w \in DataWorkers :
          SkipReserved(w) \/ BeginFetch(w) \/ FetchFails(w) \/ FetchSucceeds(w) \/ SendWorkflow(w)
    \/ GroupWorkflow
    \/ FlushTick
    \/ \E s \in Shards : FlushBatch(s)
    \/ \E w \in IndexWorkers : TakeBatch(w) \/ EnsureIndex(w) \/ Add(w)
    \/ \E w \in IndexWorkers, doc \in Workflow : Settle(w, doc)
    \/ SaveProgress
    \/ Restart

Spec == Init /\ [][Next]_vars

(* Goroutines and tickers run.  A scan of closed runs, a history fetch, an *)
(* index creation and a bulk write of a run that OpenSearch accepts succeed *)
(* if they are tried for ever; a channel gives room to its waiting senders *)
(* in turn, and the batcher's select does not ignore its ticker for ever.  *)
ListsRun(l, r) == \E R \in SUBSET Runs : r \in R /\ ListPage(l, R)
FetchesRun(r) == \E w \in DataWorkers : FetchSucceeds(w) /\ fetching[w].run = r
CreatesFor(r) ==
    \E w \in IndexWorkers :
        EnsureIndex(w) /\ indexing'[w].step = "add" /\ \E doc \in indexing[w].docs : doc.run = r
WritesRun(r) ==
    \E w \in IndexWorkers : Add(w) /\ \E doc \in indexing[w].docs : doc.run = r /\ index'[r] = doc

Fairness ==
    /\ \A l \in OpenLoops : WF_vars(\E m \in Metadata : SendMetadata(l, m))
    /\ \A l \in ClosedLoops : SF_vars(\E m \in Metadata : SendMetadata(l, m))
    /\ \A l \in ClosedLoops, r \in Runs \ Poison : SF_vars(ListsRun(l, r))
    /\ \A w \in DataWorkers :
          /\ WF_vars(SkipReserved(w) \/ BeginFetch(w))
          /\ WF_vars(FetchSucceeds(w) \/ FetchFails(w))
          /\ WF_vars(SendWorkflow(w))
    /\ WF_vars(GroupWorkflow)
    /\ SF_vars(FlushTick)
    /\ \A s \in Shards : WF_vars(FlushBatch(s))
    /\ \A w \in IndexWorkers :
          /\ WF_vars(TakeBatch(w))
          /\ WF_vars(EnsureIndex(w)) /\ WF_vars(Add(w))
          /\ WF_vars(\E doc \in Workflow : Settle(w, doc))
    /\ \A r \in Runs \ Poison :
          SF_vars(FetchesRun(r)) /\ SF_vars(CreatesFor(r)) /\ SF_vars(WritesRun(r))

FairSpec == Spec /\ Fairness
-----------------------------------------------------------------------------
(* The places where the metadata or document of a terminal run can be      *)
(* after it was reserved.                                                  *)
Carries(doc, r) == doc # None /\ doc.run = r /\ doc.closed

Holders(r) ==
    {<<"fetching", w>> : w \in {v \in DataWorkers : Carries(fetching[v], r)}}
    \cup {<<"sending", w>> : w \in {v \in DataWorkers : Carries(sending[v], r)}}
    \cup {<<"workflows", i>> : i \in {j \in DOMAIN workflows : Carries(workflows[j], r)}}
    \cup {<<"grouped", r>> : x \in {y \in {r} : Carries(grouped[y], r)}}
    \cup {<<"batches", i>> : i \in {j \in DOMAIN batches : \E d \in batches[j] : Carries(d, r)}}
    \cup {<<"indexing", w>> : w \in {v \in IndexWorkers :
             indexing[v] # None /\ \E d \in indexing[v].docs : Carries(d, r)}}

(* A reserved run is on its way in exactly one place, and a terminal       *)
(* document on its way is reserved.  So no early return of the stages      *)
(* loses a reservation, which would hide the run from every later scan,    *)
(* and no two workers fetch or write one terminal run at a time.           *)
ReservationIsHeld ==
    TrackProgress =>
        \A r \in Runs : IF r \in pending THEN \E h \in Holders(r) : Holders(r) = {h}
                        ELSE Holders(r) = {}

(* What the tracker or its file calls completed is never scanned again, so *)
(* the index holds its terminal document, whatever failed or crashed since *)
(* and whatever stale snapshot was written after it.                       *)
Recorded == completed \cup (IF file = None THEN {} ELSE file.completed)

CompletedIsIndexed ==
    \A r \in Recorded : index[r] # None /\ index[r].closed

(* A terminal document, on its way or indexed, holds the whole history of  *)
(* its run and the version of its last revision; an open one has a lower   *)
(* version, so it cannot replace the terminal one in any order of writes.  *)
InFlight ==
    {sending[w] : w \in DataWorkers} \cup {workflows[i] : i \in DOMAIN workflows}
    \cup {grouped[r] : r \in Runs} \cup (UNION {batches[i] : i \in DOMAIN batches})
    \cup (UNION {indexing[w].docs : w \in {v \in IndexWorkers : indexing[v] # None}})
    \cup {index[r] : r \in Runs}

Faithful(doc) ==
    LET now == execution[doc.run] IN
    /\ doc.data <= now.rev
    /\ doc.closed => now.closed /\ doc.version = now.rev /\ doc.data = now.rev
    /\ ~doc.closed /\ now.closed => doc.version < now.rev

DocumentsAreFaithful == \A doc \in InFlight \ {None} : Faithful(doc)

(* The document a reader finds never goes back to an earlier revision and  *)
(* a closed execution never appears open again.                            *)
IndexNeverRegresses ==
    [][\A r \in Runs : index[r] # None =>
           /\ index'[r] # None
           /\ index'[r].version >= index[r].version
           /\ index[r].closed => index'[r].closed]_index

(* Every closed execution OpenSearch accepts is indexed in its final state *)
(* eventually, over failed calls, lost answers, full channels and deaths.  *)
ClosedIsIndexed ==
    \A r \in Runs \ Poison : execution[r].closed ~> index[r] # None /\ index[r].closed

(* No reservation is kept for ever: the stages never wait on one another   *)
(* in a circle, and every failure gives the run back to the next scan.     *)
ReservationEnds == \A r \in Runs : r \in pending ~> r \notin pending
=============================================================================
