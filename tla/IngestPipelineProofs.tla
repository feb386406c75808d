------------------------ MODULE IngestPipelineProofs ------------------------
(***************************************************************************)
(* What IngestPipeline keeps true for every set of runs, loops, workers    *)
(* and shards, every batch size and every bound: its types, the            *)
(* faithfulness of documents, that the index never goes back, that nothing *)
(* is recorded as complete which is not indexed, and that a reservation of *)
(* the tracker is in the hands of exactly one stage at a time.             *)
(***************************************************************************)
EXTENDS IngestPipeline, FiniteSetTheorems, SequenceTheorems, TLAPS

(* The inductive invariant.  A snapshot m in the pipeline is of a revision *)
(* its run has had when the executions are at x; it says closed only of a  *)
(* run that is, and an open one is of an earlier revision than the last.   *)
SnapshotOf(x, m) ==
    /\ m.rev <= x[m.run].rev
    /\ m.closed => x[m.run].closed /\ m.rev = x[m.run].rev
    /\ ~m.closed /\ x[m.run].closed => m.rev < x[m.run].rev

(* A document is faithful in the sense of DocumentsAreFaithful and has no  *)
(* version beyond the revision of its run, which may close at any time.    *)
DocumentOf(x, doc) ==
    /\ doc.data <= x[doc.run].rev
    /\ doc.closed => /\ x[doc.run].closed
                     /\ doc.version = x[doc.run].rev /\ doc.data = x[doc.run].rev
    /\ ~doc.closed /\ x[doc.run].closed => doc.version < x[doc.run].rev
    /\ doc.version <= 1 \/ doc.version <= x[doc.run].rev

(* A closed run has made two transitions.                                  *)
ClosedRunsMoved == \A r \in Runs : execution[r].closed => execution[r].rev >= 2

ListedIsFaithful ==
    /\ \A l \in Loops : \A m \in page[l] : SnapshotOf(execution, m)
    /\ \A i \in 1 .. Len(metadata) : SnapshotOf(execution, metadata[i])
    /\ \A w \in DataWorkers : fetching[w] # None => SnapshotOf(execution, fetching[w])
FetchedIsFaithful ==
    /\ \A w \in DataWorkers : sending[w] # None => DocumentOf(execution, sending[w])
    /\ \A i \in 1 .. Len(workflows) : DocumentOf(execution, workflows[i])
BatchedIsFaithful ==
    /\ \A r \in Runs : grouped[r] # None => DocumentOf(execution, grouped[r])
    /\ \A i \in 1 .. Len(batches) : \A d \in batches[i] : DocumentOf(execution, d)
IndexedIsFaithful ==
    /\ \A w \in IndexWorkers : indexing[w] # None =>
          \A d \in indexing[w].docs : DocumentOf(execution, d)
    /\ \A r \in Runs : index[r] # None => DocumentOf(execution, index[r])

(* Documents are kept under the id of their run, so a batch and a job have *)
(* at most one of each run.                                                *)
KeyedByRun ==
    /\ \A r \in Runs : grouped[r] # None => grouped[r].run = r
    /\ \A r \in Runs : index[r] # None => index[r].run = r
    /\ \A i \in 1 .. Len(batches) : \A d, e \in batches[i] : d.run = e.run => d = e
    /\ \A w \in IndexWorkers : indexing[w] # None =>
          \A d, e \in indexing[w].docs : d.run = e.run => d = e

(* A job is only successful once its terminal documents are indexed.       *)
IndexedClosed(r) == index[r] # None /\ index[r].closed
SuccessIsIndexed ==
    \A w \in IndexWorkers : indexing[w] # None /\ indexing[w].ok =>
        \A d \in indexing[w].docs : d.closed => IndexedClosed(d.run)

IInv ==
    /\ TypeOK
    /\ ClosedRunsMoved
    /\ ListedIsFaithful /\ FetchedIsFaithful /\ BatchedIsFaithful /\ IndexedIsFaithful
    /\ KeyedByRun
    /\ SuccessIsIndexed
    /\ CompletedIsIndexed

-----------------------------------------------------------------------------
(* Lemmas about types and channels.                                        *)
LEMMA Capacities ==
    MetadataCap \in Nat /\ WorkflowsCap \in Nat /\ BatchesCap \in Nat
<1>1. Cardinality(DataWorkers) \in Nat /\ Cardinality(IndexWorkers) \in Nat
  BY PipelineAssumption, FS_CardinalityType
<1> QED
  BY <1>1, PipelineAssumption DEF MetadataCap, WorkflowsCap, BatchesCap

LEMMA VersionType ==
    ASSUME NEW m \in Metadata
    PROVE  IndexVersion(m) \in 1 .. MaxRevision
  BY PipelineAssumption DEF IndexVersion, Metadata, Revisions

LEMMA AppendKeeps ==
    ASSUME NEW S, NEW s \in Seq(S), NEW x \in S
    PROVE  /\ Append(s, x) \in Seq(S)
           /\ Len(Append(s, x)) = Len(s) + 1
           /\ \A i \in 1 .. Len(s) : Append(s, x)[i] = s[i]
           /\ Append(s, x)[Len(s) + 1] = x
  OBVIOUS

LEMMA TailKeeps ==
    ASSUME NEW S, NEW s \in Seq(S), s # <<>>
    PROVE  /\ Head(s) \in S /\ Head(s) = s[1] /\ Len(s) >= 1
           /\ Tail(s) \in Seq(S)
           /\ Len(Tail(s)) = Len(s) - 1
           /\ \A i \in 1 .. Len(Tail(s)) : Tail(s)[i] = s[i + 1]
  OBVIOUS

-----------------------------------------------------------------------------
(* Type correctness.                                                       *)

(* What the state and the channels beside the tracker look like.           *)
StageTypes ==
    /\ execution \in [Runs -> [rev : Revisions, closed : BOOLEAN]]
    /\ page \in [Loops -> SUBSET Metadata]
    /\ metadata \in Seq(Metadata) /\ Len(metadata) <= MetadataCap
    /\ fetching \in [DataWorkers -> Metadata \cup {None}]
    /\ sending \in [DataWorkers -> Workflow \cup {None}]
    /\ workflows \in Seq(Workflow) /\ Len(workflows) <= WorkflowsCap
    /\ grouped \in [Runs -> Workflow \cup {None}]
    /\ flushing \subseteq Shards
    /\ batches \in Seq(SUBSET Workflow) /\ Len(batches) <= BatchesCap
    /\ indexing \in [IndexWorkers -> Job \cup {None}]
    /\ index \in [Runs -> Workflow \cup {None}]
    /\ restarts \in 0 .. MaxRestarts

LEMMA TypeParts == TypeOK <=> StageTypes /\ Tracker!TypeOK
  BY DEF TypeOK, StageTypes

LEMMA InitType == Init => TypeOK
<1> SUFFICES ASSUME Init
             PROVE  TypeOK
  OBVIOUS
<1>1. Tracker!TypeOK
  BY DEF Init, Tracker!Init, Tracker!TypeOK
<1>2. StageTypes
  BY Capacities, PipelineAssumption
     DEF Init, StageTypes, NoPages, NoFetch, NoDocuments, NoJobs, Revisions
<1> QED
  BY <1>1, <1>2, TypeParts

(* The operations of the tracker keep its types.                           *)
LEMMA TrackerType ==
    ASSUME Tracker!TypeOK, NEW r \in Runs,
           \/ Tracker!Reserve(r) \/ Tracker!Release(r) \/ Tracker!Complete(r)
           \/ Tracker!Save \/ Tracker!Restart(Stamp) \/ UNCHANGED tracker
    PROVE  Tracker!TypeOK'
<1> USE DEF Tracker!TypeOK, Tracker!SavedProgress
<1>1. CASE Tracker!Reserve(r) \/ Tracker!Release(r) \/ Tracker!Complete(r)
  BY <1>1 DEF Tracker!Reserve, Tracker!Release, Tracker!Complete
<1>2. CASE Tracker!Save
  BY <1>2 DEF Tracker!Save
<1>3. CASE Tracker!Restart(Stamp)
  BY <1>3 DEF Tracker!Restart, Tracker!Load
<1>4. CASE UNCHANGED tracker
  BY <1>4 DEF tracker
<1> QED
  BY <1>1, <1>2, <1>3, <1>4

LEMMA ListType ==
    ASSUME StageTypes,
           \/ \E r \in Runs : Advance(r) \/ Close(r)
           \/ \E l \in Loops, R \in SUBSET Runs : ListPage(l, R)
           \/ \E l \in Loops, m \in Metadata : SendMetadata(l, m)
    PROVE  StageTypes'
<1> USE DEF StageTypes, vars, fetchVars, batchVars, indexVars, listVars, sourceVars
<1>1. ASSUME NEW r \in Runs, Advance(r) \/ Close(r)
      PROVE  StageTypes'
  <2>1. execution[r].rev \in 0 .. MaxRevision
    BY DEF Revisions
  <2>2. execution[r].rev + 1 \in Revisions
    BY <1>1, <2>1, PipelineAssumption DEF Advance, Close, Revisions
  <2>3. execution' \in [Runs -> [rev : Revisions, closed : BOOLEAN]]
    <3>1. [execution[r] EXCEPT !.rev = execution[r].rev + 1] \in [rev : Revisions, closed : BOOLEAN]
      BY <2>2
    <3>2. [rev |-> execution[r].rev + 1, closed |-> TRUE] \in [rev : Revisions, closed : BOOLEAN]
      BY <2>2
    <3> QED
      BY <1>1, <3>1, <3>2 DEF Advance, Close
  <2> QED
    BY <1>1, <2>3 DEF Advance, Close
<1>2. ASSUME NEW l \in Loops, NEW R \in SUBSET Runs, ListPage(l, R)
      PROVE  StageTypes'
  <2>1. {Listed(r) : r \in R} \subseteq Metadata
    BY DEF Listed, Metadata
  <2> QED
    BY <1>2, <2>1 DEF ListPage
<1>3. ASSUME NEW l \in Loops, NEW m \in Metadata, SendMetadata(l, m)
      PROVE  StageTypes'
  BY <1>3, Capacities DEF SendMetadata
<1> QED
  BY <1>1, <1>2, <1>3

LEMMA FetchType ==
    ASSUME StageTypes, NEW w \in DataWorkers,
           SkipReserved(w) \/ BeginFetch(w) \/ FetchFails(w) \/ FetchSucceeds(w) \/ SendWorkflow(w)
    PROVE  StageTypes'
<1> USE DEF StageTypes, vars, fetchVars, batchVars, indexVars, listVars, sourceVars
<1>1. CASE SkipReserved(w)
  BY <1>1, Capacities DEF SkipReserved, Receives
<1>2. CASE BeginFetch(w)
  BY <1>2, Capacities DEF BeginFetch, Receives
<1>3. CASE FetchFails(w)
  BY <1>3 DEF FetchFails
<1>4. CASE FetchSucceeds(w)
  <2>1. fetching[w] \in Metadata
    BY <1>4 DEF FetchSucceeds
  <2>2. IndexVersion(fetching[w]) \in 1 .. MaxRevision
    BY <2>1, VersionType
  <2>3. [run |-> fetching[w].run, version |-> IndexVersion(fetching[w]),
         closed |-> fetching[w].closed, data |-> execution[fetching[w].run].rev] \in Workflow
    BY <2>1, <2>2 DEF Workflow, Metadata
  <2> QED
    BY <1>4, <2>3 DEF FetchSucceeds
<1>5. CASE SendWorkflow(w)
  BY <1>5, Capacities DEF SendWorkflow
<1> QED
  BY <1>1, <1>2, <1>3, <1>4, <1>5

LEMMA BatchType ==
    ASSUME StageTypes,
           GroupWorkflow \/ FlushTick \/ \E s \in Shards : FlushBatch(s)
    PROVE  StageTypes'
<1> USE DEF StageTypes, vars, fetchVars, batchVars, indexVars, listVars, sourceVars
<1>1. CASE GroupWorkflow
  <2>1. Head(workflows) \in Workflow /\ ShardOf[Head(workflows).run] \in Shards
    <3>1. Head(workflows) \in Workflow
      BY <1>1, TailKeeps DEF GroupWorkflow
    <3>2. Head(workflows).run \in Runs
      BY <3>1 DEF Workflow
    <3> QED
      BY <3>1, <3>2 DEF Shards
  <2>2. grouped' \in [Runs -> Workflow \cup {None}] /\ flushing' \subseteq Shards
    BY <1>1, <2>1 DEF GroupWorkflow
  <2>3. workflows' \in Seq(Workflow) /\ Len(workflows') <= WorkflowsCap
    BY <1>1, TailKeeps, Capacities DEF GroupWorkflow
  <2> QED
    BY <1>1, <2>2, <2>3 DEF GroupWorkflow
<1>2. CASE FlushTick
  BY <1>2 DEF FlushTick
<1>3. ASSUME NEW s \in Shards, FlushBatch(s)
      PROVE  StageTypes'
  <2>1. Group(s, grouped) \in SUBSET Workflow
    BY DEF Group
  <2>2. batches' \in Seq(SUBSET Workflow) /\ Len(batches') <= BatchesCap
    BY <1>3, <2>1, Capacities DEF FlushBatch
  <2> QED
    BY <1>3, <2>2 DEF FlushBatch
<1> QED
  BY <1>1, <1>2, <1>3

(* What a bulk request leaves in the index: its documents, or what was     *)
(* there.                                                                  *)
LEMMA WrittenType ==
    ASSUME StageTypes, NEW docs \in SUBSET Workflow
    PROVE  /\ Written(docs) \in [Runs -> Workflow \cup {None}]
           /\ \A r \in Runs : \/ Written(docs)[r] \in docs /\ Written(docs)[r].run = r
                              \/ Written(docs)[r] = index[r] /\ ~\E d \in docs : d.run = r
<1> USE DEF Written
<1>1. ASSUME NEW r \in Runs
      PROVE  \/ Written(docs)[r] \in docs /\ Written(docs)[r].run = r
             \/ Written(docs)[r] = index[r] /\ ~\E d \in docs : d.run = r
  OBVIOUS
<1>2. Written(docs) = [r \in Runs |-> Written(docs)[r]]
  OBVIOUS
<1> QED
  BY <1>1, <1>2 DEF StageTypes

LEMMA IndexType ==
    ASSUME StageTypes, NEW w \in IndexWorkers,
           \/ TakeBatch(w) \/ EnsureIndex(w) \/ Add(w)
           \/ \E doc \in Workflow : Settle(w, doc)
    PROVE  StageTypes'
<1> USE DEF StageTypes, vars, fetchVars, batchVars, indexVars, listVars, sourceVars
<1>1. CASE TakeBatch(w)
  <2>1. Head(batches) \in SUBSET Workflow
    BY <1>1, TailKeeps DEF TakeBatch
  <2>2. [step |-> "create", docs |-> Head(batches), ok |-> FALSE] \in Job
    BY <2>1 DEF Job
  <2>3. batches' \in Seq(SUBSET Workflow) /\ Len(batches') <= BatchesCap
    BY <1>1, TailKeeps, Capacities DEF TakeBatch
  <2> QED
    BY <1>1, <2>2, <2>3 DEF TakeBatch
<1>2. CASE EnsureIndex(w)
  BY <1>2 DEF EnsureIndex, AtStep, Job
<1>3. CASE Add(w)
  <2>1. indexing[w] \in Job
    BY <1>3 DEF Add, AtStep
  <2>2. PICK docs \in SUBSET {d \in indexing[w].docs : Accepts(d)} :
          /\ index' = Written(docs)
          /\ \E ok \in {FALSE, docs = indexing[w].docs} :
                indexing' = [indexing EXCEPT ![w].step = "settle", ![w].ok = ok]
    BY <1>3 DEF Add
  <2>3. docs \in SUBSET Workflow
    BY <2>1 DEF Job
  <2>4. index' \in [Runs -> Workflow \cup {None}]
    BY <2>2, <2>3, WrittenType
  <2>5. indexing' \in [IndexWorkers -> Job \cup {None}]
    <3>1. PICK ok \in BOOLEAN : indexing' = [indexing EXCEPT ![w].step = "settle", ![w].ok = ok]
      BY <2>2
    <3>2. [indexing[w] EXCEPT !.step = "settle", !.ok = ok] \in Job
      BY <2>1 DEF Job
    <3> QED
      BY <3>1, <3>2
  <2> QED
    BY <1>3, <2>4, <2>5 DEF Add
<1>4. ASSUME NEW doc \in Workflow, Settle(w, doc)
      PROVE  StageTypes'
  <2>1. indexing[w] \in Job
    BY <1>4 DEF Settle, AtStep
  <2>2. Without(indexing[w], doc) \in Job \cup {None}
    BY <2>1 DEF Job, Without
  <2> QED
    BY <1>4, <2>2 DEF Settle
<1> QED
  BY <1>1, <1>2, <1>3, <1>4

(* Every step keeps the types.                                             *)
LEMMA NextType == TypeOK /\ [Next]_vars => TypeOK'
<1> SUFFICES ASSUME TypeOK, [Next]_vars
             PROVE  TypeOK'
  OBVIOUS
<1> USE DEF fetchVars, batchVars, indexVars, listVars, sourceVars
<1>1. StageTypes /\ Tracker!TypeOK
  BY TypeParts
<1>0. StageTypes' /\ Tracker!TypeOK' => TypeOK'
  BY DEF TypeOK, StageTypes
<1>2. CASE \/ \E r \in Runs : Advance(r) \/ Close(r)
           \/ \E l \in Loops, R \in SUBSET Runs \ {{}} : ListPage(l, R)
           \/ \E l \in Loops, m \in Metadata : SendMetadata(l, m)
  <2>1. StageTypes'
    BY <1>1, <1>2, ListType
  <2>2. UNCHANGED tracker
    BY <1>2 DEF Advance, Close, ListPage, SendMetadata
  <2> QED
    BY <1>0, <1>1, <2>1, <2>2 DEF Tracker!TypeOK, tracker
<1>3. ASSUME NEW w \in DataWorkers,
             \/ SkipReserved(w) \/ BeginFetch(w) \/ FetchFails(w)
             \/ FetchSucceeds(w) \/ SendWorkflow(w)
      PROVE  TypeOK'
  <2>1. StageTypes'
    BY <1>1, <1>3, FetchType
  <2>2. CASE BeginFetch(w) \/ FetchFails(w)
    <3>1. \A m \in Metadata : m.run \in Runs
      BY DEF Metadata
    <3>2. Head(metadata).run \in Runs \/ ~BeginFetch(w)
      <4>1. BeginFetch(w) => Head(metadata) \in Metadata
        BY <1>1, TailKeeps DEF BeginFetch, Receives, StageTypes
      <4> QED
        BY <4>1, <3>1
    <3>3. FetchFails(w) => fetching[w].run \in Runs
      BY <1>1, <3>1 DEF FetchFails, StageTypes
    <3>4. CASE BeginFetch(w)
      BY <1>0, <1>1, <2>1, <3>2, <3>4, TrackerType DEF BeginFetch, Tracker!TypeOK, tracker
    <3>5. CASE FetchFails(w)
      BY <1>0, <1>1, <2>1, <3>3, <3>5, TrackerType DEF FetchFails, Tracker!TypeOK, tracker
    <3> QED
      BY <2>2, <3>4, <3>5
  <2>3. CASE SkipReserved(w) \/ FetchSucceeds(w) \/ SendWorkflow(w)
    BY <1>0, <1>1, <2>1, <2>3 DEF SkipReserved, FetchSucceeds, SendWorkflow, Tracker!TypeOK, tracker
  <2> QED
    BY <1>3, <2>2, <2>3
<1>4. CASE GroupWorkflow \/ FlushTick \/ \E s \in Shards : FlushBatch(s)
  <2>1. StageTypes'
    BY <1>1, <1>4, BatchType
  <2>2. UNCHANGED tracker
    BY <1>4 DEF GroupWorkflow, FlushTick, FlushBatch
  <2> QED
    BY <1>0, <1>1, <2>1, <2>2 DEF Tracker!TypeOK, tracker
<1>5. ASSUME NEW w \in IndexWorkers, TakeBatch(w) \/ EnsureIndex(w) \/ Add(w)
      PROVE  TypeOK'
  <2>1. StageTypes'
    BY <1>1, <1>5, IndexType
  <2>2. UNCHANGED tracker
    BY <1>5 DEF TakeBatch, EnsureIndex, Add
  <2> QED
    BY <1>0, <1>1, <2>1, <2>2 DEF Tracker!TypeOK, tracker
<1>6. ASSUME NEW w \in IndexWorkers, NEW doc \in Workflow, Settle(w, doc)
      PROVE  TypeOK'
  <2>1. StageTypes'
    BY <1>1, <1>6, IndexType
  <2>2. doc.run \in Runs
    BY DEF Workflow
  <2>3. Tracker!TypeOK'
    BY <1>1, <1>6, <2>2, TrackerType DEF Settle
  <2> QED
    BY <1>0, <2>1, <2>3
<1>7. CASE SaveProgress
  <2>1. StageTypes'
    BY <1>1, <1>7 DEF SaveProgress, StageTypes
  <2>2. Tracker!TypeOK'
    BY <1>1, <1>7 DEF SaveProgress, Tracker!Save, Tracker!TypeOK, Tracker!SavedProgress
  <2> QED
    BY <1>0, <2>1, <2>2
<1>8. CASE Restart
  <2>1. StageTypes'
    BY <1>1, <1>8, Capacities, PipelineAssumption
       DEF Restart, StageTypes, NoPages, NoFetch, NoDocuments, NoJobs
  <2>2. Tracker!TypeOK'
    BY <1>1, <1>8
       DEF Restart, Tracker!Restart, Tracker!Load, Tracker!TypeOK, Tracker!SavedProgress
  <2> QED
    BY <1>0, <2>1, <2>2
<1>9. CASE UNCHANGED vars
  BY <1>0, <1>1, <1>9 DEF vars, StageTypes, Tracker!TypeOK, tracker
<1> QED
  BY <1>2, <1>3, <1>4, <1>5, <1>6, <1>7, <1>8, <1>9 DEF Next

(* Everything is of its type, and no channel holds more than its capacity. *)
THEOREM PipelineTypes == Spec => []TypeOK
<1>1. Init => TypeOK
  BY InitType
<1>2. TypeOK /\ [Next]_vars => TypeOK'
  BY NextType
<1> QED
  BY <1>1, <1>2, PTL DEF Spec

-----------------------------------------------------------------------------
(* The inductive invariant.                                                *)

LEMMA InitIInv == Init => IInv
<1> SUFFICES ASSUME Init
             PROVE  IInv
  OBVIOUS
<1>1. TypeOK
  BY InitType
<1>2. Recorded = {}
  BY DEF Init, Tracker!Init, Recorded
<1> QED
  BY <1>1, <1>2
     DEF Init, NoPages, NoFetch, NoDocuments, NoJobs, IInv, ClosedRunsMoved, ListedIsFaithful,
         FetchedIsFaithful, BatchedIsFaithful, IndexedIsFaithful, KeyedByRun,
         SuccessIsIndexed, CompletedIsIndexed

(* What is true of snapshots and documents stays true as their runs go on. *)
LEMMA ExecutionGrows ==
    ASSUME StageTypes, ClosedRunsMoved, NEW r \in Runs, Advance(r) \/ Close(r)
    PROVE  /\ ClosedRunsMoved'
           /\ \A m \in Metadata : SnapshotOf(execution, m) => SnapshotOf(execution', m)
           /\ \A d \in Workflow : DocumentOf(execution, d) => DocumentOf(execution', d)
<1> DEFINE Execution == [rev : Revisions, closed : BOOLEAN]
<1>1. execution \in [Runs -> Execution] /\ execution[r].rev \in Nat
  BY DEF StageTypes, Revisions
<1>2. /\ ~execution[r].closed
      /\ execution'[r].rev = execution[r].rev + 1
      /\ execution'[r].closed => execution[r].rev >= 1
      /\ \A q \in Runs : q # r => execution'[q] = execution[q]
  <2>1. CASE Advance(r)
    BY <1>1, <2>1 DEF Advance
  <2>2. CASE Close(r)
    BY <1>1, <2>2 DEF Close
  <2> QED
    BY <2>1, <2>2
<1>3. ClosedRunsMoved'
  BY <1>1, <1>2 DEF ClosedRunsMoved
<1>4. ASSUME NEW m \in Metadata, SnapshotOf(execution, m)
      PROVE  SnapshotOf(execution', m)
  <2>1. m.run \in Runs /\ m.rev \in Nat
    BY DEF Metadata, Revisions
  <2> QED
    BY <1>1, <1>2, <1>4, <2>1 DEF SnapshotOf
<1>5. ASSUME NEW d \in Workflow, DocumentOf(execution, d)
      PROVE  DocumentOf(execution', d)
  <2>1. d.run \in Runs /\ d.version \in Nat /\ d.data \in Nat
    BY DEF Workflow, Revisions
  <2> QED
    BY <1>1, <1>2, <1>5, <2>1 DEF DocumentOf
<1> QED
  BY <1>3, <1>4, <1>5

(* Temporal: what is on its way stays faithful, and what is recorded stays *)
(* indexed.                                                                *)
LEMMA SourceIInv ==
    ASSUME IInv, TypeOK', NEW r \in Runs, Advance(r) \/ Close(r)
    PROVE  IInv'
<1>1. StageTypes /\ ClosedRunsMoved
  BY TypeParts DEF IInv
<1>2. /\ ClosedRunsMoved'
      /\ \A m \in Metadata : SnapshotOf(execution, m) => SnapshotOf(execution', m)
      /\ \A d \in Workflow : DocumentOf(execution, d) => DocumentOf(execution', d)
  BY <1>1, ExecutionGrows
<1>3. /\ page' = page /\ metadata' = metadata /\ fetching' = fetching /\ sending' = sending
      /\ workflows' = workflows /\ grouped' = grouped /\ batches' = batches
      /\ indexing' = indexing /\ index' = index /\ completed' = completed /\ file' = file
  BY DEF Advance, Close, listVars, fetchVars, batchVars, indexVars, tracker
<1>4. ListedIsFaithful'
  <2>1. \A l \in Loops : \A m \in page[l] : m \in Metadata
    BY <1>1 DEF StageTypes
  <2>2. \A i \in 1 .. Len(metadata) : metadata[i] \in Metadata
    BY <1>1 DEF StageTypes
  <2>3. \A w \in DataWorkers : fetching[w] # None => fetching[w] \in Metadata
    BY <1>1 DEF StageTypes
  <2> QED
    BY <1>2, <1>3, <2>1, <2>2, <2>3 DEF IInv, ListedIsFaithful
<1>5. FetchedIsFaithful'
  <2>1. \A w \in DataWorkers : sending[w] # None => sending[w] \in Workflow
    BY <1>1 DEF StageTypes
  <2>2. \A i \in 1 .. Len(workflows) : workflows[i] \in Workflow
    BY <1>1 DEF StageTypes
  <2> QED
    BY <1>2, <1>3, <2>1, <2>2 DEF IInv, FetchedIsFaithful
<1>6. BatchedIsFaithful'
  <2>1. \A q \in Runs : grouped[q] # None => grouped[q] \in Workflow
    BY <1>1 DEF StageTypes
  <2>2. \A i \in 1 .. Len(batches) : \A d \in batches[i] : d \in Workflow
    BY <1>1 DEF StageTypes
  <2> QED
    BY <1>2, <1>3, <2>1, <2>2 DEF IInv, BatchedIsFaithful
<1>7. IndexedIsFaithful'
  <2>1. \A w \in IndexWorkers : indexing[w] # None =>
          \A d \in indexing[w].docs : d \in Workflow
    BY <1>1 DEF StageTypes, Job
  <2>2. \A q \in Runs : index[q] # None => index[q] \in Workflow
    BY <1>1 DEF StageTypes
  <2> QED
    BY <1>2, <1>3, <2>1, <2>2 DEF IInv, IndexedIsFaithful
<1> QED
  BY <1>2, <1>3, <1>4, <1>5, <1>6, <1>7
     DEF IInv, KeyedByRun, SuccessIsIndexed, IndexedClosed, CompletedIsIndexed, Recorded

(* What the listing, fetching and batching stages do not touch.            *)
IndexSide ==
    /\ IndexedIsFaithful
    /\ \A r \in Runs : index[r] # None => index[r].run = r
    /\ \A w \in IndexWorkers : indexing[w] # None =>
          \A d, e \in indexing[w].docs : d.run = e.run => d = e
    /\ SuccessIsIndexed
    /\ CompletedIsIndexed
BatchSide ==
    /\ BatchedIsFaithful
    /\ \A r \in Runs : grouped[r] # None => grouped[r].run = r
    /\ \A i \in 1 .. Len(batches) : \A d, e \in batches[i] : d.run = e.run => d = e

LEMMA Sides ==
    IInv <=> /\ TypeOK /\ ClosedRunsMoved
             /\ ListedIsFaithful /\ FetchedIsFaithful /\ BatchSide /\ IndexSide
  BY DEF IInv, BatchSide, IndexSide, KeyedByRun

LEMMA IndexSideStays ==
    ASSUME IndexSide, UNCHANGED <<execution, index, indexing, completed, file>>
    PROVE  IndexSide'
  BY DEF IndexSide, IndexedIsFaithful, SuccessIsIndexed, IndexedClosed, CompletedIsIndexed,
         Recorded

LEMMA BatchSideStays ==
    ASSUME BatchSide, UNCHANGED <<execution, grouped, batches>>
    PROVE  BatchSide'
  BY DEF BatchSide, BatchedIsFaithful

(* A listing says what the execution is at that moment.                    *)
LEMMA ListIInv ==
    ASSUME IInv, TypeOK',
           \/ \E l \in Loops, R \in SUBSET Runs : ListPage(l, R)
           \/ \E l \in Loops, m \in Metadata : SendMetadata(l, m)
    PROVE  IInv'
<1>1. StageTypes
  BY TypeParts DEF IInv
<1>2. UNCHANGED <<execution, fetching, sending, workflows, grouped, batches, index, indexing,
                  completed, file>>
  BY DEF ListPage, SendMetadata, sourceVars, fetchVars, batchVars, indexVars, tracker
<1>3. ListedIsFaithful'
  <2>1. ASSUME NEW l \in Loops, NEW R \in SUBSET Runs, ListPage(l, R)
        PROVE  ListedIsFaithful'
    <3>1. \A r \in R : SnapshotOf(execution, Listed(r))
      BY <1>1 DEF Listed, SnapshotOf, StageTypes, Revisions
    <3> QED
      BY <1>1, <1>2, <2>1, <3>1 DEF ListPage, IInv, ListedIsFaithful, StageTypes
  <2>2. ASSUME NEW l \in Loops, NEW m \in Metadata, SendMetadata(l, m)
        PROVE  ListedIsFaithful'
    <3>1. SnapshotOf(execution, m)
      BY <2>2 DEF SendMetadata, IInv, ListedIsFaithful
    <3>2. \A i \in 1 .. Len(metadata') : SnapshotOf(execution, metadata'[i])
      BY <1>1, <2>2, <3>1 DEF SendMetadata, IInv, ListedIsFaithful, StageTypes
    <3>3. \A k \in Loops : page'[k] \subseteq page[k]
      BY <1>1, <2>2 DEF SendMetadata, StageTypes
    <3> QED
      BY <1>2, <3>2, <3>3 DEF IInv, ListedIsFaithful
  <2> QED
    BY <2>1, <2>2
<1>4. BatchSide' /\ IndexSide'
  BY <1>2, Sides, IndexSideStays, BatchSideStays
<1>5. ClosedRunsMoved' /\ FetchedIsFaithful'
  BY <1>2 DEF IInv, ClosedRunsMoved, FetchedIsFaithful
<1> QED
  BY <1>3, <1>4, <1>5 DEF IInv, BatchSide, IndexSide, KeyedByRun

(* A fetched document takes version and status from the snapshot and its   *)
(* data from the execution as it is now.                                   *)
LEMMA FetchedDocument ==
    ASSUME StageTypes, ClosedRunsMoved, NEW m \in Metadata, SnapshotOf(execution, m)
    PROVE  DocumentOf(execution, [run |-> m.run, version |-> IndexVersion(m),
                                  closed |-> m.closed, data |-> execution[m.run].rev])
<1>1. m.run \in Runs /\ m.rev \in Nat /\ execution[m.run].rev \in Nat
  BY DEF Metadata, Revisions, StageTypes
<1> QED
  BY <1>1 DEF SnapshotOf, DocumentOf, IndexVersion, ClosedRunsMoved

LEMMA FetchIInv ==
    ASSUME IInv, TypeOK', NEW w \in DataWorkers,
           SkipReserved(w) \/ BeginFetch(w) \/ FetchFails(w) \/ FetchSucceeds(w) \/ SendWorkflow(w)
    PROVE  IInv'
<1>1. StageTypes
  BY TypeParts DEF IInv
<1>2. UNCHANGED <<execution, page, grouped, batches, index, indexing, completed, file>>
  BY DEF SkipReserved, BeginFetch, FetchFails, FetchSucceeds, SendWorkflow, sourceVars,
         batchVars, indexVars, listVars, tracker, Tracker!Reserve, Tracker!Release
<1>3. BatchSide' /\ IndexSide' /\ ClosedRunsMoved'
  BY <1>2, Sides, IndexSideStays, BatchSideStays DEF ClosedRunsMoved
<1>4. ListedIsFaithful'
  <2>1. CASE SkipReserved(w) \/ BeginFetch(w)
    <3>1. metadata # <<>> /\ metadata' = Tail(metadata)
      BY <2>1 DEF SkipReserved, BeginFetch, Receives
    <3>2. \A i \in 1 .. Len(metadata') : SnapshotOf(execution, metadata'[i])
      BY <1>1, <3>1, TailKeeps DEF IInv, ListedIsFaithful, StageTypes
    <3>3. SnapshotOf(execution, Head(metadata))
      BY <1>1, <3>1, TailKeeps DEF IInv, ListedIsFaithful, StageTypes
    <3>4. \A v \in DataWorkers : fetching'[v] # None => SnapshotOf(execution, fetching'[v])
      BY <1>1, <2>1, <3>3
         DEF SkipReserved, BeginFetch, fetchVars, IInv, ListedIsFaithful, StageTypes
    <3> QED
      BY <1>2, <3>2, <3>4 DEF IInv, ListedIsFaithful
  <2>2. CASE FetchFails(w) \/ FetchSucceeds(w) \/ SendWorkflow(w)
    <3>1. metadata' = metadata
      BY <2>2 DEF FetchFails, FetchSucceeds, SendWorkflow, listVars
    <3>2. \A v \in DataWorkers : fetching'[v] # None => fetching'[v] = fetching[v]
      BY <1>1, <2>2 DEF FetchFails, FetchSucceeds, SendWorkflow, StageTypes
    <3> QED
      BY <1>2, <3>1, <3>2 DEF IInv, ListedIsFaithful
  <2> QED
    BY <2>1, <2>2
<1>5. FetchedIsFaithful'
  <2>1. CASE SkipReserved(w) \/ BeginFetch(w) \/ FetchFails(w)
    BY <1>2, <2>1 DEF SkipReserved, BeginFetch, FetchFails, fetchVars, IInv, FetchedIsFaithful
  <2>2. CASE FetchSucceeds(w)
    <3>1. fetching[w] \in Metadata /\ SnapshotOf(execution, fetching[w])
      BY <1>1, <2>2 DEF FetchSucceeds, StageTypes, IInv, ListedIsFaithful
    <3>2. DocumentOf(execution, sending'[w])
      BY <1>1, <2>2, <3>1, FetchedDocument DEF FetchSucceeds, StageTypes, IInv
    <3>3. \A v \in DataWorkers : v # w => sending'[v] = sending[v]
      BY <1>1, <2>2 DEF FetchSucceeds, StageTypes
    <3> QED
      BY <1>2, <2>2, <3>2, <3>3 DEF FetchSucceeds, IInv, FetchedIsFaithful
  <2>3. CASE SendWorkflow(w)
    <3>1. DocumentOf(execution, sending[w]) /\ sending[w] \in Workflow
      BY <1>1, <2>3 DEF SendWorkflow, StageTypes, IInv, FetchedIsFaithful
    <3>2. \A i \in 1 .. Len(workflows') : DocumentOf(execution, workflows'[i])
      BY <1>1, <2>3, <3>1 DEF SendWorkflow, StageTypes, IInv, FetchedIsFaithful
    <3>3. \A v \in DataWorkers : sending'[v] # None => sending'[v] = sending[v]
      BY <1>1, <2>3 DEF SendWorkflow, StageTypes
    <3> QED
      BY <1>2, <3>2, <3>3 DEF IInv, FetchedIsFaithful
  <2> QED
    BY <2>1, <2>2, <2>3
<1> QED
  BY <1>3, <1>4, <1>5 DEF IInv, BatchSide, IndexSide, KeyedByRun

(* The batcher keeps each document under its id and hands on what it has.  *)
LEMMA BatchIInv ==
    ASSUME IInv, TypeOK',
           GroupWorkflow \/ FlushTick \/ \E s \in Shards : FlushBatch(s)
    PROVE  IInv'
<1>1. StageTypes
  BY TypeParts DEF IInv
<1>2. UNCHANGED <<execution, page, metadata, fetching, sending, index, indexing, completed, file>>
  BY DEF GroupWorkflow, FlushTick, FlushBatch, sourceVars, listVars, fetchVars, indexVars, tracker
<1>3. IndexSide' /\ ClosedRunsMoved' /\ ListedIsFaithful'
  BY <1>2, Sides, IndexSideStays DEF ClosedRunsMoved, ListedIsFaithful
<1>4. FetchedIsFaithful' /\ BatchSide'
  <2>1. CASE GroupWorkflow
    <3>1. /\ workflows # <<>> /\ workflows' = Tail(workflows) /\ batches' = batches
          /\ Head(workflows) \in Workflow
      BY <1>1, <2>1, TailKeeps DEF GroupWorkflow, StageTypes
    <3>2. /\ DocumentOf(execution, Head(workflows))
          /\ \A i \in 1 .. Len(workflows') : DocumentOf(execution, workflows'[i])
      BY <1>1, <3>1, TailKeeps DEF StageTypes, IInv, FetchedIsFaithful
    <3>3. \A r \in Runs : \/ grouped'[r] = grouped[r]
                          \/ grouped'[r] = Head(workflows) /\ Head(workflows).run = r
      BY <1>1, <2>1 DEF GroupWorkflow, StageTypes
    <3>4. FetchedIsFaithful'
      BY <1>2, <3>2 DEF IInv, FetchedIsFaithful
    <3>5. \A r \in Runs : grouped'[r] # None =>
            DocumentOf(execution, grouped'[r]) /\ grouped'[r].run = r
      BY <3>2, <3>3, Sides DEF BatchSide, BatchedIsFaithful
    <3> QED
      BY <1>2, <3>1, <3>4, <3>5, Sides DEF BatchSide, BatchedIsFaithful
  <2>2. CASE FlushTick
    BY <1>2, <2>2, Sides, BatchSideStays DEF FlushTick, fetchVars, FetchedIsFaithful
  <2>3. ASSUME NEW s \in Shards, FlushBatch(s)
        PROVE  FetchedIsFaithful' /\ BatchSide'
    <3>1. FetchedIsFaithful'
      BY <1>2, <2>3 DEF FlushBatch, fetchVars, IInv, FetchedIsFaithful
    <3>2. /\ Group(s, grouped) \in SUBSET Workflow
          /\ \A d \in Group(s, grouped) : DocumentOf(execution, d)
          /\ \A d, e \in Group(s, grouped) : d.run = e.run => d = e
      BY <1>1, Sides DEF Group, StageTypes, BatchSide, BatchedIsFaithful
    <3>3. \A i \in 1 .. Len(batches') :
            \/ batches'[i] = Group(s, grouped)
            \/ i \in 1 .. Len(batches) /\ batches'[i] = batches[i]
      BY <1>1, <2>3, <3>2 DEF FlushBatch, StageTypes
    <3>4. \A r \in Runs : grouped'[r] # None => grouped'[r] = grouped[r]
      BY <1>1, <2>3 DEF FlushBatch, StageTypes
    <3>5. BatchedIsFaithful'
      BY <1>2, <3>2, <3>3, <3>4 DEF IInv, BatchedIsFaithful
    <3> QED
      BY <3>1, <3>2, <3>3, <3>4, <3>5, Sides DEF BatchSide
  <2> QED
    BY <2>1, <2>2, <2>3
<1> QED
  BY <1>3, <1>4 DEF IInv, BatchSide, IndexSide, KeyedByRun

(* A write never replaces a terminal document by an open one and never     *)
(* lowers a version: external versions order every two documents of a run. *)
LEMMA WriteKeepsIndex ==
    ASSUME StageTypes, NEW docs \in SUBSET Workflow,
           \A d \in docs : Accepts(d) /\ DocumentOf(execution, d),
           \A r \in Runs : index[r] # None => DocumentOf(execution, index[r]) /\ index[r].run = r
    PROVE  \A r \in Runs : index[r] # None =>
             /\ Written(docs)[r] # None
             /\ Written(docs)[r].version >= index[r].version
             /\ index[r].closed => Written(docs)[r].closed
<1> SUFFICES ASSUME NEW r \in Runs, index[r] # None
             PROVE  /\ Written(docs)[r] # None
                    /\ Written(docs)[r].version >= index[r].version
                    /\ index[r].closed => Written(docs)[r].closed
  OBVIOUS
<1>1. index[r] \in Workflow /\ index[r].version \in Nat
  BY DEF StageTypes, Workflow
<1>2. CASE Written(docs)[r] = index[r]
  BY <1>1, <1>2
<1>3. CASE Written(docs)[r] \in docs /\ Written(docs)[r].run = r
  <2> DEFINE d == Written(docs)[r]
  <2>1. d \in Workflow /\ d.version \in Nat /\ d # None
    BY <1>3, NoneAssumption DEF Workflow
  <2>2. d.version >= index[r].version
    BY <1>3, <2>1 DEF Accepts
  <2>3. index[r].closed => d.closed
    <3> SUFFICES ASSUME index[r].closed, ~d.closed
                 PROVE  FALSE
      BY DEF Workflow
    <3>1. execution[r].closed /\ index[r].version = execution[r].rev
      BY DEF DocumentOf
    <3>2. d.version < execution[r].rev
      BY <1>3, <3>1 DEF DocumentOf
    <3>3. execution[r].rev \in Nat
      BY DEF StageTypes, Revisions
    <3> QED
      BY <1>1, <2>1, <2>2, <3>1, <3>2, <3>3
  <2> QED
    BY <2>1, <2>2, <2>3
<1> QED
  BY <1>2, <1>3, WrittenType

(* A successful job has written every one of its documents.                *)
LEMMA AddIInv ==
    ASSUME IInv, TypeOK', NEW w \in IndexWorkers, Add(w)
    PROVE  IndexSide'
<1>1. StageTypes /\ IndexSide /\ IndexedIsFaithful
  BY TypeParts, Sides DEF IInv
<1>2. UNCHANGED <<execution, completed, file>>
  BY DEF Add, sourceVars, tracker
<1>3. indexing[w] \in Job
  BY <1>1 DEF Add, AtStep, StageTypes
<1>4. PICK docs \in SUBSET {d \in indexing[w].docs : Accepts(d)} :
        /\ index' = Written(docs)
        /\ \E ok \in {FALSE, docs = indexing[w].docs} :
              indexing' = [indexing EXCEPT ![w].step = "settle", ![w].ok = ok]
  BY DEF Add
<1>5. PICK ok \in {FALSE, docs = indexing[w].docs} :
        indexing' = [indexing EXCEPT ![w].step = "settle", ![w].ok = ok]
  BY <1>4
<1>6. /\ docs \in SUBSET Workflow
      /\ \A d \in docs : Accepts(d) /\ DocumentOf(execution, d) /\ d.run \in Runs
  BY <1>1, <1>3 DEF Add, AtStep, Job, Workflow, IndexedIsFaithful
<1>7. /\ \A v \in IndexWorkers : v # w => indexing'[v] = indexing[v]
      /\ indexing'[w].docs = indexing[w].docs /\ indexing'[w].ok = ok
      /\ indexing[w] # None
  BY <1>1, <1>3, <1>5 DEF StageTypes, Job, Add, AtStep
<1>8. \A r \in Runs : index[r] # None => DocumentOf(execution, index[r]) /\ index[r].run = r
  BY <1>1 DEF IndexSide, IndexedIsFaithful
<1>9. \A r \in Runs : IndexedClosed(r) => IndexedClosed(r)'
  BY <1>1, <1>4, <1>6, <1>8, WriteKeepsIndex DEF IndexedClosed
<1>10. \A r \in Runs : \/ index'[r] \in docs /\ index'[r].run = r
                       \/ index'[r] = index[r] /\ ~\E d \in docs : d.run = r
  BY <1>1, <1>4, <1>6, WrittenType
<1>11. IndexedIsFaithful' /\ \A r \in Runs : index'[r] # None => index'[r].run = r
  BY <1>1, <1>2, <1>6, <1>7, <1>8, <1>10 DEF IndexedIsFaithful
<1>12. \A v \in IndexWorkers : indexing'[v] # None =>
         \A d, e \in indexing'[v].docs : d.run = e.run => d = e
  BY <1>1, <1>7 DEF IndexSide
<1>13. SuccessIsIndexed'
  <2> SUFFICES ASSUME NEW v \in IndexWorkers, indexing'[v] # None, indexing'[v].ok,
                      NEW d \in indexing'[v].docs, d.closed
               PROVE  IndexedClosed(d.run)'
    BY DEF SuccessIsIndexed
  <2>1. CASE v # w
    <3>1. IndexedClosed(d.run)
      BY <1>1, <1>7, <2>1 DEF IndexSide, SuccessIsIndexed
    <3>2. d.run \in Runs
      BY <1>1, <1>7, <2>1 DEF StageTypes, Job, Workflow
    <3> QED
      BY <1>9, <3>1, <3>2
  <2>2. CASE v = w
    <3>1. d \in docs /\ d.run \in Runs
      BY <1>5, <1>6, <1>7, <2>2
    <3>2. index'[d.run] = d
      BY <1>1, <1>6, <1>7, <1>10, <2>2, <3>1 DEF IndexSide
    <3>3. d # None
      BY <1>6, <3>1, NoneAssumption
    <3> QED
      BY <3>2, <3>3 DEF IndexedClosed
  <2> QED
    BY <2>1, <2>2
<1>14. CompletedIsIndexed'
  <2>1. Recorded' = Recorded /\ Recorded \subseteq Runs
    BY <1>2, TypeParts DEF Recorded, IInv, Tracker!TypeOK, Tracker!SavedProgress
  <2> QED
    BY <1>1, <1>9, <2>1 DEF IndexSide, CompletedIsIndexed, IndexedClosed
<1> QED
  BY <1>11, <1>12, <1>13, <1>14 DEF IndexSide

(* A job is settled with the outcome of its write; only then is a terminal *)
(* run recorded as complete.                                               *)
LEMMA SettleIInv ==
    ASSUME IInv, TypeOK', NEW w \in IndexWorkers, NEW doc \in Workflow, Settle(w, doc)
    PROVE  IndexSide'
<1>1. StageTypes /\ IndexSide /\ IndexedIsFaithful
  BY TypeParts, Sides DEF IInv
<1>2. UNCHANGED <<execution, index, file>>
  BY DEF Settle, sourceVars, tracker, Tracker!Complete, Tracker!Release
<1>3. indexing[w] \in Job /\ indexing[w] # None /\ doc \in indexing[w].docs
  BY <1>1 DEF Settle, AtStep, StageTypes
<1>4. \A v \in IndexWorkers : indexing'[v] # None =>
        /\ indexing[v] # None
        /\ indexing'[v].docs \subseteq indexing[v].docs
        /\ indexing'[v].ok = indexing[v].ok
  <2>1. Without(indexing[w], doc) # None =>
          /\ Without(indexing[w], doc).docs \subseteq indexing[w].docs
          /\ Without(indexing[w], doc).ok = indexing[w].ok
    BY <1>3 DEF Without, Job
  <2> QED
    BY <1>1, <1>3, <2>1 DEF Settle, StageTypes
<1>5. completed' = completed \/ (completed' = completed \cup {doc.run} /\ IndexedClosed(doc.run))
  <2>1. CASE Terminal(doc) /\ indexing[w].ok
    <3>1. completed' = completed \cup {doc.run}
      BY <2>1 DEF Settle, Tracker!Complete
    <3>2. IndexedClosed(doc.run)
      BY <1>1, <1>3, <2>1 DEF IndexSide, SuccessIsIndexed, Terminal
    <3> QED
      BY <3>1, <3>2
  <2>2. CASE ~(Terminal(doc) /\ indexing[w].ok)
    BY <2>2 DEF Settle, Tracker!Release, tracker
  <2> QED
    BY <2>1, <2>2
<1>6. CompletedIsIndexed'
  BY <1>1, <1>2, <1>5 DEF IndexSide, CompletedIsIndexed, Recorded, IndexedClosed
<1> QED
  BY <1>1, <1>2, <1>4, <1>6 DEF IndexSide, IndexedIsFaithful, SuccessIsIndexed, IndexedClosed

LEMMA IndexIInv ==
    ASSUME IInv, TypeOK', NEW w \in IndexWorkers,
           \/ TakeBatch(w) \/ EnsureIndex(w) \/ Add(w)
           \/ \E doc \in Workflow : Settle(w, doc)
    PROVE  IInv'
<1>1. StageTypes /\ IndexSide /\ BatchSide
  BY TypeParts, Sides DEF IInv
<1>2. UNCHANGED <<execution, page, metadata, fetching, sending, workflows, grouped>>
  BY DEF TakeBatch, EnsureIndex, Add, Settle, sourceVars, listVars, fetchVars, batchVars
<1>3. ClosedRunsMoved' /\ ListedIsFaithful' /\ FetchedIsFaithful'
  BY <1>2 DEF IInv, ClosedRunsMoved, ListedIsFaithful, FetchedIsFaithful
<1>4. BatchSide' /\ IndexSide'
  <2>1. CASE TakeBatch(w)
    <3>1. /\ batches # <<>> /\ batches' = Tail(batches) /\ indexing[w] = None
          /\ UNCHANGED <<index, completed, file>>
      BY <2>1 DEF TakeBatch, tracker
    <3>2. /\ Head(batches) = batches[1] /\ Len(batches) >= 1
          /\ \A i \in 1 .. Len(batches') : i + 1 \in 1 .. Len(batches) /\ batches'[i] = batches[i + 1]
      BY <1>1, <3>1, TailKeeps DEF StageTypes
    <3>3. BatchSide'
      BY <1>1, <1>2, <3>2 DEF BatchSide, BatchedIsFaithful
    <3>4. /\ \A d \in Head(batches) : DocumentOf(execution, d)
          /\ \A d, e \in Head(batches) : d.run = e.run => d = e
      BY <1>1, <3>2 DEF BatchSide, BatchedIsFaithful, StageTypes
    <3>5. \A v \in IndexWorkers :
            \/ indexing'[v] = indexing[v]
            \/ indexing'[v].docs = Head(batches) /\ indexing'[v].ok = FALSE
      BY <1>1, <2>1 DEF TakeBatch, StageTypes
    <3> QED
      BY <1>1, <1>2, <3>1, <3>3, <3>4, <3>5
         DEF IndexSide, IndexedIsFaithful, SuccessIsIndexed, IndexedClosed,
             CompletedIsIndexed, Recorded
  <2>2. CASE EnsureIndex(w)
    <3>1. UNCHANGED <<batches, index, completed, file>>
      BY <2>2 DEF EnsureIndex, batchVars, tracker
    <3>2. \A v \in IndexWorkers : indexing'[v] # None =>
            /\ indexing[v] # None
            /\ indexing'[v].docs = indexing[v].docs /\ indexing'[v].ok = indexing[v].ok
      BY <1>1, <2>2 DEF EnsureIndex, AtStep, StageTypes, Job
    <3> QED
      BY <1>1, <1>2, <3>1, <3>2, BatchSideStays
         DEF IndexSide, IndexedIsFaithful, SuccessIsIndexed, IndexedClosed,
             CompletedIsIndexed, Recorded
  <2>3. CASE Add(w)
    BY <1>1, <1>2, <2>3, AddIInv, BatchSideStays DEF Add, batchVars
  <2>4. ASSUME NEW doc \in Workflow, Settle(w, doc)
        PROVE  BatchSide' /\ IndexSide'
    BY <1>1, <1>2, <2>4, SettleIInv, BatchSideStays DEF Settle, batchVars
  <2> QED
    BY <2>1, <2>2, <2>3, <2>4
<1> QED
  BY <1>3, <1>4 DEF IInv, BatchSide, IndexSide, KeyedByRun

(* A save writes what is complete; a restart forgets everything that was   *)
(* on its way and trusts the file.                                         *)
LEMMA ProcessIInv ==
    ASSUME IInv, TypeOK', SaveProgress \/ Restart
    PROVE  IInv'
<1>1. CASE SaveProgress
  <2>1. UNCHANGED <<execution, page, metadata, fetching, sending, workflows, grouped, batches,
                    index, indexing, completed>>
    BY <1>1 DEF SaveProgress, sourceVars, listVars, fetchVars, batchVars, indexVars, Tracker!Save
  <2>2. Recorded' \subseteq completed
    BY <1>1 DEF SaveProgress, Tracker!Save, Recorded
  <2>3. CompletedIsIndexed'
    BY <2>1, <2>2 DEF IInv, CompletedIsIndexed, Recorded
  <2> QED
    BY <2>1, <2>3
       DEF IInv, ClosedRunsMoved, ListedIsFaithful, FetchedIsFaithful, BatchedIsFaithful,
           IndexedIsFaithful, KeyedByRun, SuccessIsIndexed, IndexedClosed
<1>2. CASE Restart
  <2>1. UNCHANGED <<execution, index, file>>
    BY <1>2 DEF Restart, sourceVars, Tracker!Restart
  <2>2. Recorded' \subseteq Recorded
    BY <1>2 DEF Restart, Tracker!Restart, Tracker!Load, Recorded
  <2>3. CompletedIsIndexed'
    BY <2>1, <2>2 DEF IInv, CompletedIsIndexed
  <2> QED
    BY <1>2, <2>1, <2>3
       DEF Restart, NoPages, NoFetch, NoDocuments, NoJobs, IInv, ClosedRunsMoved,
           ListedIsFaithful, FetchedIsFaithful, BatchedIsFaithful, IndexedIsFaithful,
           KeyedByRun, SuccessIsIndexed
<1> QED
  BY <1>1, <1>2

LEMMA NextIInv == IInv /\ [Next]_vars => IInv'
<1> SUFFICES ASSUME IInv, [Next]_vars
             PROVE  IInv'
  OBVIOUS
<1>1. TypeOK'
  BY NextType DEF IInv
<1>2. ASSUME NEW r \in Runs, Advance(r) \/ Close(r)
      PROVE  IInv'
  BY <1>1, <1>2, SourceIInv
<1>3. CASE \/ \E l \in Loops, R \in SUBSET Runs \ {{}} : ListPage(l, R)
           \/ \E l \in Loops, m \in Metadata : SendMetadata(l, m)
  BY <1>1, <1>3, ListIInv
<1>4. ASSUME NEW w \in DataWorkers,
             \/ SkipReserved(w) \/ BeginFetch(w) \/ FetchFails(w)
             \/ FetchSucceeds(w) \/ SendWorkflow(w)
      PROVE  IInv'
  BY <1>1, <1>4, FetchIInv
<1>5. CASE GroupWorkflow \/ FlushTick \/ \E s \in Shards : FlushBatch(s)
  BY <1>1, <1>5, BatchIInv
<1>6. ASSUME NEW w \in IndexWorkers,
             \/ TakeBatch(w) \/ EnsureIndex(w) \/ Add(w)
             \/ \E doc \in Workflow : Settle(w, doc)
      PROVE  IInv'
  BY <1>1, <1>6, IndexIInv
<1>7. CASE SaveProgress \/ Restart
  BY <1>1, <1>7, ProcessIInv
<1>8. CASE UNCHANGED vars
  <2>1. UNCHANGED <<execution, page, metadata, fetching, sending, workflows, grouped, batches,
                    index, indexing, completed, file>>
    BY <1>8 DEF vars, sourceVars, listVars, fetchVars, batchVars, indexVars, tracker
  <2> QED
    BY <1>1, <2>1
       DEF IInv, ClosedRunsMoved, ListedIsFaithful, FetchedIsFaithful, BatchedIsFaithful,
           IndexedIsFaithful, KeyedByRun, SuccessIsIndexed, IndexedClosed,
           CompletedIsIndexed, Recorded
<1> QED
  BY <1>2, <1>3, <1>4, <1>5, <1>6, <1>7, <1>8 DEF Next

-----------------------------------------------------------------------------
LEMMA PipelineInvariant == Spec => []IInv
<1>1. Init => IInv
  BY InitIInv
<1>2. IInv /\ [Next]_vars => IInv'
  BY NextIInv
<1> QED
  BY <1>1, <1>2, PTL DEF Spec

(* A document on its way or in the index tells the truth about its run.    *)
THEOREM PipelineDocuments == Spec => []DocumentsAreFaithful
<1>1. IInv => DocumentsAreFaithful
  <2> SUFFICES ASSUME IInv, NEW doc \in InFlight \ {None}
               PROVE  Faithful(doc)
    BY DEF DocumentsAreFaithful
  <2>1. StageTypes
    BY TypeParts DEF IInv
  <2>2. DOMAIN workflows = 1 .. Len(workflows) /\ DOMAIN batches = 1 .. Len(batches)
    BY <2>1 DEF StageTypes
  <2>3. CASE \E w \in DataWorkers : doc = sending[w]
    BY <2>3 DEF IInv, FetchedIsFaithful, DocumentOf, Faithful
  <2>4. CASE \E i \in DOMAIN workflows : doc = workflows[i]
    BY <2>2, <2>4 DEF IInv, FetchedIsFaithful, DocumentOf, Faithful
  <2>5. CASE \E r \in Runs : doc = grouped[r]
    BY <2>5 DEF IInv, BatchedIsFaithful, DocumentOf, Faithful
  <2>6. CASE \E i \in DOMAIN batches : doc \in batches[i]
    BY <2>2, <2>6 DEF IInv, BatchedIsFaithful, DocumentOf, Faithful
  <2>7. CASE \E w \in IndexWorkers : indexing[w] # None /\ doc \in indexing[w].docs
    BY <2>7 DEF IInv, IndexedIsFaithful, DocumentOf, Faithful
  <2>8. CASE \E r \in Runs : doc = index[r]
    BY <2>8 DEF IInv, IndexedIsFaithful, DocumentOf, Faithful
  <2> QED
    BY <2>3, <2>4, <2>5, <2>6, <2>7, <2>8 DEF InFlight
<1> QED
  BY <1>1, PipelineInvariant, PTL

(* What is recorded as complete is indexed in its final state, whatever    *)
(* failed, was lost, was reordered or crashed.                             *)
THEOREM PipelineCompletion == Spec => []CompletedIsIndexed
<1>1. IInv => CompletedIsIndexed
  BY DEF IInv
<1> QED
  BY <1>1, PipelineInvariant, PTL

(* No write takes a document of the index back to an earlier revision or a *)
(* closed execution back to open.                                          *)
THEOREM PipelineIndexGrows == Spec => IndexNeverRegresses
<1> DEFINE Grows == \A r \in Runs : index[r] # None =>
                      /\ index'[r] # None
                      /\ index'[r].version >= index[r].version
                      /\ index[r].closed => index'[r].closed
<1>1. IInv /\ [Next]_vars => [Grows]_index
  <2> SUFFICES ASSUME IInv, [Next]_vars, index' # index
               PROVE  Grows
    OBVIOUS
  <2>1. PICK w \in IndexWorkers : Add(w)
    BY DEF Next, vars, Advance, Close, ListPage, SendMetadata, SkipReserved, BeginFetch,
           FetchFails, FetchSucceeds, SendWorkflow, GroupWorkflow, FlushTick, FlushBatch,
           TakeBatch, EnsureIndex, Settle, SaveProgress, Restart, indexVars
  <2>2. StageTypes /\ IndexedIsFaithful /\ KeyedByRun
    BY TypeParts DEF IInv
  <2>3. PICK docs \in SUBSET {d \in indexing[w].docs : Accepts(d)} : index' = Written(docs)
    BY <2>1 DEF Add
  <2>4. indexing[w] \in Job /\ indexing[w] # None
    BY <2>1, <2>2 DEF Add, AtStep, StageTypes
  <2>5. docs \in SUBSET Workflow /\ \A d \in docs : Accepts(d) /\ DocumentOf(execution, d)
    BY <2>2, <2>4 DEF Job, IndexedIsFaithful
  <2>6. \A r \in Runs : index[r] # None => DocumentOf(execution, index[r]) /\ index[r].run = r
    BY <2>2 DEF IndexedIsFaithful, KeyedByRun
  <2> QED
    BY <2>2, <2>3, <2>5, <2>6, WriteKeepsIndex
<1> QED
  BY <1>1, PipelineInvariant, PTL DEF Spec, IndexNeverRegresses

-----------------------------------------------------------------------------
(* Reservations.                                                           *)

(* The inductive invariant: the places of a run are one at most, there is  *)
(* one if it is reserved, and a worker that fetches has nothing to send.   *)
HeldFor(r) ==
    /\ \A g, h \in Holders(r) : g = h
    /\ r \in pending <=> Holders(r) # {}

HeldInv ==
    /\ \A w \in DataWorkers : fetching[w] = None \/ sending[w] = None
    /\ TrackProgress => \A r \in Runs : HeldFor(r)

-----------------------------------------------------------------------------
(* Holders by its members.                                                 *)
InBatch(docs, r) == \E d \in docs : Carries(d, r)
InJob(job, r) == job # None /\ \E d \in job.docs : Carries(d, r)

Place(h, r, f, s, ws, g, b, x) ==
    \/ \E w \in DataWorkers : h = <<"fetching", w>> /\ Carries(f[w], r)
    \/ \E w \in DataWorkers : h = <<"sending", w>> /\ Carries(s[w], r)
    \/ \E i \in DOMAIN ws : h = <<"workflows", i>> /\ Carries(ws[i], r)
    \/ h = <<"grouped", r>> /\ Carries(g[r], r)
    \/ \E i \in DOMAIN b : h = <<"batches", i>> /\ InBatch(b[i], r)
    \/ \E w \in IndexWorkers : h = <<"indexing", w>> /\ InJob(x[w], r)

LEMMA HoldersNow ==
    ASSUME NEW r
    PROVE  \A h : h \in Holders(r) <=>
               Place(h, r, fetching, sending, workflows, grouped, batches, indexing)
BY DEF Holders, Place, InBatch, InJob

LEMMA HoldersNext ==
    ASSUME NEW r
    PROVE  \A h : h \in Holders(r)' <=>
               Place(h, r, fetching', sending', workflows', grouped', batches', indexing')
BY DEF Holders, Place, InBatch, InJob

(* A run whose places stay, go, or are exchanged for another one.          *)
LEMMA PlacesStay ==
    ASSUME NEW r, HeldFor(r), r \in pending' <=> r \in pending,
           \A h : h \in Holders(r)' <=> h \in Holders(r)
    PROVE  HeldFor(r)'
BY DEF HeldFor

LEMMA PlaceMoves ==
    ASSUME NEW r, HeldFor(r), r \in pending' <=> r \in pending,
           NEW a \in Holders(r), NEW b \in Holders(r)',
           \A h \in Holders(r)' : h = b \/ (h \in Holders(r) /\ h # a)
    PROVE  HeldFor(r)'
BY DEF HeldFor

LEMMA PlaceGoes ==
    ASSUME NEW r, HeldFor(r), r \notin pending', NEW a \in Holders(r),
           \A h \in Holders(r)' : h \in Holders(r) /\ h # a
    PROVE  HeldFor(r)'
BY DEF HeldFor

LEMMA PlacesShift ==
    ASSUME NEW r, HeldFor(r), r \in pending' <=> r \in pending, NEW name,
           \A h \in Holders(r)' :
              \/ h \in Holders(r) /\ \A i \in Nat : h # <<name, i>>
              \/ \E i \in Nat : h = <<name, i>> /\ <<name, i + 1>> \in Holders(r),
           \A h \in Holders(r) :
              \/ h \in Holders(r)'
              \/ \E i \in Nat : <<name, i>> \in Holders(r)'
    PROVE  HeldFor(r)'
<1>1. ASSUME NEW g \in Holders(r)', NEW h \in Holders(r)'
      PROVE  g = h
  <2>1. CASE g \in Holders(r) /\ h \in Holders(r)
    BY <2>1 DEF HeldFor
  <2>2. ASSUME NEW i \in Nat, g = <<name, i>>, <<name, i + 1>> \in Holders(r),
               NEW j \in Nat, h = <<name, j>>, <<name, j + 1>> \in Holders(r)
        PROVE  g = h
    <3>1. <<name, i + 1>> = <<name, j + 1>>
      BY <2>2 DEF HeldFor
    <3> QED
      BY <2>2, <3>1
  <2>3. ASSUME NEW k \in Holders(r), \A i \in Nat : k # <<name, i>>,
               NEW j \in Nat, <<name, j + 1>> \in Holders(r)
        PROVE  FALSE
    BY <2>3 DEF HeldFor
  <2> QED
    BY <2>1, <2>2, <2>3
<1>2. Holders(r)' # {} <=> Holders(r) # {}
  OBVIOUS
<1> QED
  BY <1>1, <1>2 DEF HeldFor

-----------------------------------------------------------------------------
(* The steps, for one run.                                                 *)
LEMMA QuietHeld ==
    ASSUME NEW r, HeldFor(r),
           UNCHANGED <<fetching, sending, workflows, grouped, batches, indexing, pending>>
    PROVE  HeldFor(r)'
<1>1. \A h : h \in Holders(r)' <=> h \in Holders(r)
  BY HoldersNow, HoldersNext
<1> QED
  BY <1>1, PlacesStay

LEMMA BeginFetchHeld ==
    ASSUME StageTypes, TrackProgress, NEW r \in Runs, HeldFor(r),
           NEW w \in DataWorkers, BeginFetch(w)
    PROVE  HeldFor(r)'
<1> DEFINE m == Head(metadata)
<1>1. /\ m \in Metadata /\ m # None
      /\ fetching[w] = None
      /\ fetching' = [fetching EXCEPT ![w] = m]
      /\ UNCHANGED <<sending, workflows, grouped, batches, indexing>>
  BY TailKeeps, NoneAssumption DEF BeginFetch, Receives, StageTypes, batchVars, indexVars
<1>2. /\ fetching'[w] = m /\ ~Carries(fetching[w], r)
      /\ \A v \in DataWorkers : v # w => fetching'[v] = fetching[v]
  BY <1>1 DEF StageTypes, Carries
<1> HIDE DEF m
<1>3. CASE Carries(m, r)
  <2>1. m.closed /\ m.run = r
    BY <1>3 DEF Carries
  <2>2. r \notin pending /\ r \in pending'
    BY <2>1 DEF BeginFetch, Terminal, Tracker!Reserve, Tracker!CanReserve, m
  <2>3. Holders(r) = {}
    BY <2>2 DEF HeldFor
  <2>4. \A h : h \in Holders(r)' <=> h = <<"fetching", w>>
    BY <1>1, <1>2, <1>3, <2>3, HoldersNow, HoldersNext DEF Place
  <2> QED
    <3>1. \A g, h \in Holders(r)' : g = h
      BY <2>4
    <3>2. r \in pending' <=> Holders(r)' # {}
      <4>1. <<"fetching", w>> \in Holders(r)'
        BY <2>4
      <4> QED
        BY <2>2, <4>1
    <3> QED
      BY <3>1, <3>2 DEF HeldFor
<1>4. CASE ~Carries(m, r)
  <2>1. r \in pending' <=> r \in pending
    BY <1>1, <1>4 DEF BeginFetch, Terminal, Carries, Tracker!Reserve, tracker, m
  <2>2. \A h : h \in Holders(r)' <=> h \in Holders(r)
    BY <1>1, <1>2, <1>4, HoldersNow, HoldersNext DEF Place
  <2> QED
    BY <2>1, <2>2, PlacesStay
<1> QED
  BY <1>3, <1>4

LEMMA FetchFailsHeld ==
    ASSUME StageTypes, TrackProgress, NEW r \in Runs, HeldFor(r),
           NEW w \in DataWorkers, FetchFails(w)
    PROVE  HeldFor(r)'
<1>1. /\ fetching[w] # None
      /\ fetching' = [fetching EXCEPT ![w] = None]
      /\ UNCHANGED <<sending, workflows, grouped, batches, indexing>>
  BY DEF FetchFails, batchVars, indexVars
<1>2. /\ ~Carries(fetching'[w], r)
      /\ \A v \in DataWorkers : v # w => fetching'[v] = fetching[v]
  BY <1>1 DEF StageTypes, Carries
<1>3. CASE Carries(fetching[w], r)
  <2>1. r \notin pending'
    BY <1>3 DEF FetchFails, Terminal, Carries, Tracker!Release
  <2>2. <<"fetching", w>> \in Holders(r)
    BY <1>3, HoldersNow DEF Place
  <2>3. \A h \in Holders(r)' : h \in Holders(r) /\ h # <<"fetching", w>>
    BY <1>1, <1>2, HoldersNow, HoldersNext DEF Place
  <2> QED
    BY <2>1, <2>2, <2>3, PlaceGoes
<1>4. CASE ~Carries(fetching[w], r)
  <2>1. r \in pending' <=> r \in pending
    BY <1>1, <1>4 DEF FetchFails, Terminal, Carries, Tracker!Release, tracker
  <2>2. \A h : h \in Holders(r)' <=> h \in Holders(r)
    BY <1>1, <1>2, <1>4, HoldersNow, HoldersNext DEF Place
  <2> QED
    BY <2>1, <2>2, PlacesStay
<1> QED
  BY <1>3, <1>4

LEMMA FetchSucceedsHeld ==
    ASSUME StageTypes, NEW r \in Runs, HeldFor(r),
           NEW w \in DataWorkers, FetchSucceeds(w), sending[w] = None
    PROVE  HeldFor(r)'
<1> DEFINE m == fetching[w]
           doc == [run |-> m.run, version |-> IndexVersion(m), closed |-> m.closed,
                   data |-> execution[m.run].rev]
<1>1. /\ m \in Metadata /\ m # None
      /\ fetching' = [fetching EXCEPT ![w] = None]
      /\ sending' = [sending EXCEPT ![w] = doc]
      /\ UNCHANGED <<workflows, grouped, batches, indexing, pending>>
  BY DEF FetchSucceeds, StageTypes, batchVars, indexVars, tracker
<1>2. doc \in Workflow /\ doc # None
  <2>1. IndexVersion(m) \in 1 .. MaxRevision
    BY <1>1, VersionType
  <2> QED
    BY <1>1, <2>1, NoneAssumption DEF Workflow, Metadata, StageTypes
<1>3. /\ ~Carries(fetching'[w], r) /\ ~Carries(sending[w], r) /\ sending'[w] = doc
      /\ \A v \in DataWorkers : v # w => fetching'[v] = fetching[v] /\ sending'[v] = sending[v]
  BY <1>1 DEF StageTypes, Carries
<1>4. Carries(doc, r) <=> Carries(m, r)
  BY <1>1, <1>2 DEF Carries
<1> HIDE DEF doc
<1>5. CASE Carries(m, r)
  <2>1. <<"fetching", w>> \in Holders(r) /\ <<"sending", w>> \in Holders(r)'
    BY <1>3, <1>4, <1>5, HoldersNow, HoldersNext DEF Place
  <2>2. \A h \in Holders(r)' :
            h = <<"sending", w>> \/ (h \in Holders(r) /\ h # <<"fetching", w>>)
    BY <1>1, <1>3, HoldersNow, HoldersNext DEF Place
  <2> QED
    BY <1>1, <2>1, <2>2, PlaceMoves
<1>6. CASE ~Carries(m, r)
  <2>1. \A h : h \in Holders(r)' <=> h \in Holders(r)
    BY <1>1, <1>3, <1>4, <1>6, HoldersNow, HoldersNext DEF Place
  <2> QED
    BY <1>1, <2>1, PlacesStay
<1> QED
  BY <1>5, <1>6

LEMMA SendWorkflowHeld ==
    ASSUME StageTypes, NEW r \in Runs, HeldFor(r),
           NEW w \in DataWorkers, SendWorkflow(w)
    PROVE  HeldFor(r)'
<1> DEFINE doc == sending[w]
           n == Len(workflows)
<1>1. /\ doc \in Workflow
      /\ sending' = [sending EXCEPT ![w] = None]
      /\ UNCHANGED <<fetching, grouped, batches, indexing, pending>>
  BY DEF SendWorkflow, StageTypes, batchVars, indexVars, tracker
<1>2. /\ DOMAIN workflows = 1 .. n /\ DOMAIN workflows' = 1 .. n + 1 /\ n \in Nat
      /\ \A i \in 1 .. n : workflows'[i] = workflows[i]
      /\ workflows'[n + 1] = doc
  BY <1>1, AppendKeeps DEF SendWorkflow, StageTypes
<1>3. /\ ~Carries(sending'[w], r)
      /\ \A v \in DataWorkers : v # w => sending'[v] = sending[v]
  BY <1>1 DEF StageTypes, Carries
<1>4. \A i \in 1 .. n + 1 : i \in 1 .. n \/ i = n + 1
  BY <1>2
<1>5. \A i \in 1 .. n : i \in 1 .. n + 1
  BY <1>2
<1>6. n + 1 \in 1 .. n + 1
  BY <1>2
<1> HIDE DEF doc, n
<1>7. CASE Carries(doc, r)
  <2>1. <<"sending", w>> \in Holders(r) /\ <<"workflows", n + 1>> \in Holders(r)'
    BY <1>2, <1>6, <1>7, HoldersNow, HoldersNext DEF Place, doc
  <2>2. \A h \in Holders(r)' :
            h = <<"workflows", n + 1>> \/ (h \in Holders(r) /\ h # <<"sending", w>>)
    BY <1>1, <1>2, <1>3, <1>4, HoldersNow, HoldersNext DEF Place
  <2> QED
    BY <1>1, <2>1, <2>2, PlaceMoves
<1>8. CASE ~Carries(doc, r)
  <2>1. \A h : h \in Holders(r)' <=> h \in Holders(r)
    BY <1>1, <1>2, <1>3, <1>4, <1>5, <1>8, HoldersNow, HoldersNext DEF Place, doc
  <2> QED
    BY <1>1, <2>1, PlacesStay
<1> QED
  BY <1>7, <1>8

(* Of a run on its way to the batcher nothing closed is grouped yet, and an *)
(* open document never takes the place of a closed one.                    *)
LEMMA GroupWorkflowHeld ==
    ASSUME IInv, StageTypes, NEW r \in Runs, HeldFor(r), GroupWorkflow
    PROVE  HeldFor(r)'
<1> DEFINE doc == Head(workflows)
           n == Len(workflows)
<1>1. /\ doc \in Workflow /\ doc = workflows[1] /\ n \in Nat /\ n >= 1
      /\ DOMAIN workflows = 1 .. n /\ DOMAIN workflows' = 1 .. n - 1
      /\ \A i \in 1 .. n - 1 : workflows'[i] = workflows[i + 1]
  BY TailKeeps DEF GroupWorkflow, StageTypes
<1>2. UNCHANGED <<fetching, sending, batches, indexing, pending>>
  BY DEF GroupWorkflow, indexVars, tracker
<1>3. grouped' = IF grouped[doc.run] = None \/ IsNewer(doc, grouped[doc.run])
                 THEN [grouped EXCEPT ![doc.run] = doc] ELSE grouped
  BY DEF GroupWorkflow
<1>4. doc # None /\ doc.run \in Runs /\ doc.version \in Nat /\ doc.closed \in BOOLEAN
  <2>1. doc # None
    BY <1>1, NoneAssumption
  <2>2. doc.run \in Runs /\ doc.version \in Nat /\ doc.closed \in BOOLEAN
    BY <1>1 DEF Workflow
  <2> QED
    BY <2>1, <2>2
<1>5. DocumentOf(execution, doc)
  BY <1>1 DEF IInv, FetchedIsFaithful
<1>6. grouped[r] # None =>
        /\ grouped[r].run = r /\ DocumentOf(execution, grouped[r])
        /\ grouped[r].version \in Nat /\ grouped[r].closed \in BOOLEAN
  BY DEF IInv, KeyedByRun, BatchedIsFaithful, StageTypes, Workflow
<1>7. <<"workflows", 1>> \in Holders(r) <=> Carries(doc, r)
  BY <1>1, HoldersNow DEF Place
<1>8. /\ \A i \in 1 .. n - 1 : i \in Nat /\ i + 1 \in 1 .. n /\ i + 1 # 1
      /\ \A j \in 1 .. n : j = 1 \/ \E i \in 1 .. n - 1 : j = i + 1
  <2>1. ASSUME NEW j \in 1 .. n, j # 1
        PROVE  \E i \in 1 .. n - 1 : j = i + 1
    <3>1. j - 1 \in 1 .. n - 1 /\ j = (j - 1) + 1
      BY <1>1, <2>1
    <3> QED
      BY <3>1
  <2>2. ASSUME NEW i \in 1 .. n - 1
        PROVE  i \in Nat /\ i + 1 \in 1 .. n /\ i + 1 # 1
    BY <1>1
  <2> QED
    BY <2>1, <2>2
<1> HIDE DEF doc, n
<1>9. CASE Carries(doc, r)
  <2>1. doc.run = r /\ doc.closed
    BY <1>9 DEF Carries
  <2>2. ~Carries(grouped[r], r)
    <3>1. <<"grouped", r>> \notin Holders(r)
      BY <1>7, <1>9 DEF HeldFor
    <3> QED
      BY <3>1, HoldersNow DEF Place
  <2>3. grouped[r] # None => ~grouped[r].closed
    BY <1>6, <2>2 DEF Carries
  <2>4. grouped[r] # None => IsNewer(doc, grouped[r])
    <3>1. grouped[r] # None => grouped[r].version < execution[r].rev /\ doc.version = execution[r].rev
      BY <1>5, <1>6, <2>1, <2>3 DEF DocumentOf
    <3> QED
      BY <1>4, <1>6, <2>1, <2>3, <3>1 DEF IsNewer
  <2>5. grouped'[r] = doc
    BY <1>3, <2>1, <2>4 DEF StageTypes
  <2>6. <<"grouped", r>> \in Holders(r)'
    BY <1>9, <2>5, HoldersNext DEF Place
  <2>7. \A i \in 1 .. n - 1 : ~Carries(workflows'[i], r)
    <3>1. ASSUME NEW i \in 1 .. n - 1, Carries(workflows'[i], r)
          PROVE  FALSE
      <4>1. <<"workflows", i + 1>> \in Holders(r)
        BY <1>1, <1>8, <3>1, HoldersNow DEF Place
      <4> QED
        BY <1>7, <1>8, <1>9, <4>1 DEF HeldFor
    <3> QED
      BY <3>1
  <2>8. \A h \in Holders(r)' :
            h = <<"grouped", r>> \/ (h \in Holders(r) /\ h # <<"workflows", 1>>)
    BY <1>1, <1>2, <2>7, HoldersNow, HoldersNext DEF Place
  <2> QED
    BY <1>2, <1>7, <1>9, <2>6, <2>8, PlaceMoves
<1>10. CASE ~Carries(doc, r)
  <2>1. Carries(grouped'[r], r) <=> Carries(grouped[r], r)
    <3>1. CASE doc.run # r
      BY <1>3, <3>1 DEF StageTypes
    <3>2. CASE doc.run = r
      <4>1. ~doc.closed
        BY <1>4, <1>10, <3>2 DEF Carries
      <4>2. CASE Carries(grouped[r], r)
        <5>1. grouped[r] # None /\ grouped[r].closed
          BY <4>2 DEF Carries
        <5>2. doc.version < execution[r].rev /\ grouped[r].version = execution[r].rev
          BY <1>5, <1>6, <3>2, <4>1, <5>1 DEF DocumentOf
        <5>3. ~IsNewer(doc, grouped[r])
          BY <1>4, <1>6, <4>1, <5>1, <5>2 DEF IsNewer
        <5> QED
          BY <1>3, <3>2, <5>1, <5>3
      <4>3. CASE ~Carries(grouped[r], r)
        <5>1. grouped'[r] = doc \/ grouped'[r] = grouped[r]
          BY <1>3, <3>2 DEF StageTypes
        <5> QED
          BY <1>10, <4>3, <5>1
      <4> QED
        BY <4>2, <4>3
    <3> QED
      BY <3>1, <3>2
  <2>2. \A h \in Holders(r)' :
            \/ h \in Holders(r) /\ \A i \in Nat : h # <<"workflows", i>>
            \/ \E i \in Nat : h = <<"workflows", i>> /\ <<"workflows", i + 1>> \in Holders(r)
    <3> SUFFICES ASSUME NEW h \in Holders(r)'
                 PROVE  \/ h \in Holders(r) /\ \A i \in Nat : h # <<"workflows", i>>
                        \/ \E i \in Nat : h = <<"workflows", i>> /\ <<"workflows", i + 1>> \in Holders(r)
      OBVIOUS
    <3>1. ASSUME NEW i \in 1 .. n - 1, h = <<"workflows", i>>, Carries(workflows'[i], r)
          PROVE  i \in Nat /\ <<"workflows", i + 1>> \in Holders(r)
      BY <1>1, <1>8, <3>1, HoldersNow DEF Place
    <3>2. CASE \A i \in 1 .. n - 1 : ~(h = <<"workflows", i>> /\ Carries(workflows'[i], r))
      <4>1. h \in Holders(r) /\ h[1] # "workflows"
        BY <1>1, <1>2, <1>8, <2>1, <3>2, HoldersNow, HoldersNext DEF Place
      <4>2. \A i : <<"workflows", i>>[1] = "workflows"
        OBVIOUS
      <4> QED
        BY <4>1, <4>2
    <3> QED
      BY <3>1, <3>2
  <2>3. \A h \in Holders(r) :
            \/ h \in Holders(r)'
            \/ \E i \in Nat : <<"workflows", i>> \in Holders(r)'
    <3> SUFFICES ASSUME NEW h \in Holders(r)
                 PROVE  h \in Holders(r)' \/ \E i \in Nat : <<"workflows", i>> \in Holders(r)'
      OBVIOUS
    <3>1. ASSUME NEW j \in 1 .. n, Carries(workflows[j], r)
          PROVE  \E i \in Nat : <<"workflows", i>> \in Holders(r)'
      <4>1. PICK i \in 1 .. n - 1 : j = i + 1
        BY <1>1, <1>8, <1>10, <3>1
      <4>2. <<"workflows", i>> \in Holders(r)'
        BY <1>1, <3>1, <4>1, HoldersNext DEF Place
      <4> QED
        BY <1>8, <4>2
    <3>2. CASE \A j \in 1 .. n : ~Carries(workflows[j], r)
      BY <1>1, <1>2, <1>8, <1>10, <2>1, <3>2, HoldersNow, HoldersNext DEF Place
    <3> QED
      BY <3>1, <3>2
  <2> QED
    BY <1>2, <2>2, <2>3, PlacesShift
<1> QED
  BY <1>9, <1>10

(* A flushed group takes the documents of its shard out of the map.        *)
LEMMA FlushBatchHeld ==
    ASSUME IInv, StageTypes, NEW r \in Runs, HeldFor(r), NEW s \in Shards, FlushBatch(s)
    PROVE  HeldFor(r)'
<1> DEFINE docs == Group(s, grouped)
           n == Len(batches)
<1>1. /\ UNCHANGED <<fetching, sending, workflows, indexing, pending>>
      /\ grouped'[r] = IF ShardOf[r] = s THEN None ELSE grouped[r]
  BY DEF FlushBatch, fetchVars, indexVars, tracker
<1>2. docs \in SUBSET Workflow
  BY DEF Group, StageTypes
<1>3. /\ DOMAIN batches = 1 .. n /\ DOMAIN batches' = 1 .. n + 1 /\ n \in Nat
      /\ \A i \in 1 .. n : batches'[i] = batches[i]
      /\ batches'[n + 1] = docs
  BY <1>2, AppendKeeps DEF FlushBatch, StageTypes
<1>4. InBatch(docs, r) <=> ShardOf[r] = s /\ Carries(grouped[r], r)
  <2>1. \A q \in Runs : Carries(grouped[q], r) => q = r
    BY DEF IInv, KeyedByRun, Carries
  <2>2. \A d : d \in docs <=> \E q \in Runs : ShardOf[q] = s /\ grouped[q] # None /\ d = grouped[q]
    BY DEF Group
  <2> HIDE DEF docs
  <2> QED
    BY <2>1, <2>2 DEF InBatch, Carries
<1>5. /\ \A i \in 1 .. n + 1 : i \in 1 .. n \/ i = n + 1
      /\ \A i \in 1 .. n : i \in 1 .. n + 1
      /\ n + 1 \in 1 .. n + 1
  BY <1>3
<1> HIDE DEF docs, n
<1>6. CASE InBatch(docs, r)
  <2>1. <<"grouped", r>> \in Holders(r) /\ <<"batches", n + 1>> \in Holders(r)'
    BY <1>3, <1>4, <1>5, <1>6, HoldersNow, HoldersNext DEF Place
  <2>2. ~Carries(grouped'[r], r)
    BY <1>1, <1>4, <1>6 DEF Carries
  <2>3. \A h \in Holders(r)' :
            h = <<"batches", n + 1>> \/ (h \in Holders(r) /\ h # <<"grouped", r>>)
    BY <1>1, <1>3, <1>5, <2>2, HoldersNow, HoldersNext DEF Place
  <2> QED
    BY <1>1, <2>1, <2>3, PlaceMoves
<1>7. CASE ~InBatch(docs, r)
  <2>1. Carries(grouped'[r], r) <=> Carries(grouped[r], r)
    BY <1>1, <1>4, <1>7 DEF Carries
  <2>2. \A h : h \in Holders(r)' <=> h \in Holders(r)
    BY <1>1, <1>3, <1>5, <1>7, <2>1, HoldersNow, HoldersNext DEF Place
  <2> QED
    BY <1>1, <2>2, PlacesStay
<1> QED
  BY <1>6, <1>7

LEMMA TakeBatchHeld ==
    ASSUME StageTypes, NEW r \in Runs, HeldFor(r), NEW w \in IndexWorkers, TakeBatch(w)
    PROVE  HeldFor(r)'
<1> DEFINE docs == Head(batches)
           job == [step |-> "create", docs |-> docs, ok |-> FALSE]
           n == Len(batches)
<1>1. /\ docs \in SUBSET Workflow /\ docs = batches[1] /\ n \in Nat /\ n >= 1
      /\ DOMAIN batches = 1 .. n /\ DOMAIN batches' = 1 .. n - 1
      /\ \A i \in 1 .. n - 1 : batches'[i] = batches[i + 1]
  BY TailKeeps DEF TakeBatch, StageTypes
<1>2. /\ UNCHANGED <<fetching, sending, workflows, grouped, pending>>
      /\ indexing[w] = None
      /\ indexing' = [indexing EXCEPT ![w] = job]
  BY DEF TakeBatch, fetchVars, tracker
<1>3. job \in Job /\ job # None
  <2>1. job \in Job
    BY <1>1 DEF Job
  <2> QED
    BY <2>1, NoneAssumption
<1>4. /\ InJob(indexing'[w], r) <=> InBatch(docs, r)
      /\ ~InJob(indexing[w], r)
      /\ \A v \in IndexWorkers : v # w => indexing'[v] = indexing[v]
  BY <1>2, <1>3 DEF InJob, InBatch, StageTypes
<1>5. <<"batches", 1>> \in Holders(r) <=> InBatch(docs, r)
  BY <1>1, HoldersNow DEF Place
<1>6. /\ \A i \in 1 .. n - 1 : i \in Nat /\ i + 1 \in 1 .. n /\ i + 1 # 1
      /\ \A j \in 1 .. n : j = 1 \/ \E i \in 1 .. n - 1 : j = i + 1
  <2>1. ASSUME NEW j \in 1 .. n, j # 1
        PROVE  \E i \in 1 .. n - 1 : j = i + 1
    <3>1. j - 1 \in 1 .. n - 1 /\ j = (j - 1) + 1
      BY <1>1, <2>1
    <3> QED
      BY <3>1
  <2>2. ASSUME NEW i \in 1 .. n - 1
        PROVE  i \in Nat /\ i + 1 \in 1 .. n /\ i + 1 # 1
    BY <1>1
  <2> QED
    BY <2>1, <2>2
<1> HIDE DEF docs, job, n
<1>7. CASE InBatch(docs, r)
  <2>1. <<"indexing", w>> \in Holders(r)'
    BY <1>4, <1>7, HoldersNext DEF Place
  <2>2. ASSUME NEW i \in 1 .. n - 1, InBatch(batches'[i], r)
        PROVE  FALSE
    <3>1. <<"batches", i + 1>> \in Holders(r)
      BY <1>1, <1>6, <2>2, HoldersNow DEF Place
    <3> QED
      BY <1>5, <1>6, <1>7, <3>1 DEF HeldFor
  <2>3. \A h \in Holders(r)' :
            h = <<"indexing", w>> \/ (h \in Holders(r) /\ h # <<"batches", 1>>)
    BY <1>1, <1>2, <1>4, <2>2, HoldersNow, HoldersNext DEF Place
  <2> QED
    BY <1>2, <1>5, <1>7, <2>1, <2>3, PlaceMoves
<1>8. CASE ~InBatch(docs, r)
  <2>1. \A h \in Holders(r)' :
            \/ h \in Holders(r) /\ \A i \in Nat : h # <<"batches", i>>
            \/ \E i \in Nat : h = <<"batches", i>> /\ <<"batches", i + 1>> \in Holders(r)
    <3> SUFFICES ASSUME NEW h \in Holders(r)'
                 PROVE  \/ h \in Holders(r) /\ \A i \in Nat : h # <<"batches", i>>
                        \/ \E i \in Nat : h = <<"batches", i>> /\ <<"batches", i + 1>> \in Holders(r)
      OBVIOUS
    <3>1. ASSUME NEW i \in 1 .. n - 1, h = <<"batches", i>>, InBatch(batches'[i], r)
          PROVE  i \in Nat /\ <<"batches", i + 1>> \in Holders(r)
      BY <1>1, <1>6, <3>1, HoldersNow DEF Place
    <3>2. CASE \A i \in 1 .. n - 1 : ~(h = <<"batches", i>> /\ InBatch(batches'[i], r))
      <4>1. h \in Holders(r) /\ h[1] # "batches"
        BY <1>1, <1>2, <1>4, <1>6, <1>8, <3>2, HoldersNow, HoldersNext DEF Place
      <4>2. \A i : <<"batches", i>>[1] = "batches"
        OBVIOUS
      <4> QED
        BY <4>1, <4>2
    <3> QED
      BY <3>1, <3>2
  <2>2. \A h \in Holders(r) :
            \/ h \in Holders(r)'
            \/ \E i \in Nat : <<"batches", i>> \in Holders(r)'
    <3> SUFFICES ASSUME NEW h \in Holders(r)
                 PROVE  h \in Holders(r)' \/ \E i \in Nat : <<"batches", i>> \in Holders(r)'
      OBVIOUS
    <3>1. ASSUME NEW j \in 1 .. n, InBatch(batches[j], r)
          PROVE  \E i \in Nat : <<"batches", i>> \in Holders(r)'
      <4>1. PICK i \in 1 .. n - 1 : j = i + 1
        BY <1>1, <1>6, <1>8, <3>1
      <4>2. <<"batches", i>> \in Holders(r)'
        BY <1>1, <3>1, <4>1, HoldersNext DEF Place
      <4> QED
        BY <1>6, <4>2
    <3>2. CASE \A j \in 1 .. n : ~InBatch(batches[j], r)
      BY <1>1, <1>2, <1>4, <1>6, <1>8, <3>2, HoldersNow, HoldersNext DEF Place
    <3> QED
      BY <3>1, <3>2
  <2> QED
    BY <1>2, <2>1, <2>2, PlacesShift
<1> QED
  BY <1>7, <1>8

(* A job keeps its documents while it is worked on.                        *)
LEMMA WriteHeld ==
    ASSUME StageTypes, NEW r \in Runs, HeldFor(r),
           NEW w \in IndexWorkers, EnsureIndex(w) \/ Add(w)
    PROVE  HeldFor(r)'
<1>1. UNCHANGED <<fetching, sending, workflows, grouped, batches, pending>>
  BY DEF EnsureIndex, Add, fetchVars, batchVars, tracker
<1>2. indexing[w] \in Job /\ indexing[w] # None
  BY DEF EnsureIndex, Add, AtStep, StageTypes
<1>3. /\ indexing'[w] \in Job /\ indexing'[w].docs = indexing[w].docs
      /\ \A v \in IndexWorkers : v # w => indexing'[v] = indexing[v]
  <2>1. CASE EnsureIndex(w)
    <3>1. PICK next \in {"add", "settle"} : indexing' = [indexing EXCEPT ![w].step = next]
      BY <2>1 DEF EnsureIndex
    <3>2. [indexing[w] EXCEPT !.step = next] \in Job
      BY <1>2 DEF Job
    <3> QED
      BY <1>2, <3>1, <3>2 DEF StageTypes, Job
  <2>2. CASE Add(w)
    <3>1. PICK ok \in BOOLEAN : indexing' = [indexing EXCEPT ![w].step = "settle", ![w].ok = ok]
      BY <2>2 DEF Add
    <3>2. [indexing[w] EXCEPT !.step = "settle", !.ok = ok] \in Job
      BY <1>2 DEF Job
    <3> QED
      BY <1>2, <3>1, <3>2 DEF StageTypes, Job
  <2> QED
    BY <2>1, <2>2
<1>4. \A v \in IndexWorkers : InJob(indexing'[v], r) <=> InJob(indexing[v], r)
  BY <1>2, <1>3, NoneAssumption DEF InJob
<1>5. \A h : h \in Holders(r)' <=> h \in Holders(r)
  BY <1>1, <1>4, HoldersNow, HoldersNext DEF Place
<1> QED
  BY <1>1, <1>5, PlacesStay

(* The reservation ends with the one document of the run in the job.       *)
LEMMA SettleHeld ==
    ASSUME IInv, StageTypes, TrackProgress, NEW r \in Runs, HeldFor(r),
           NEW w \in IndexWorkers, NEW doc \in Workflow, Settle(w, doc)
    PROVE  HeldFor(r)'
<1>1. /\ indexing[w] \in Job /\ indexing[w] # None /\ doc \in indexing[w].docs
      /\ indexing' = [indexing EXCEPT ![w] = Without(indexing[w], doc)]
      /\ UNCHANGED <<fetching, sending, workflows, grouped, batches>>
  BY DEF Settle, AtStep, StageTypes, fetchVars, batchVars
<1>2. doc # None
  BY NoneAssumption
<1>3. /\ InJob(indexing'[w], r) <=> \E d \in indexing[w].docs : d # doc /\ Carries(d, r)
      /\ \A v \in IndexWorkers : v # w => indexing'[v] = indexing[v]
  <2>1. indexing'[w] = Without(indexing[w], doc)
    BY <1>1 DEF StageTypes
  <2>2. CASE indexing[w].docs = {doc}
    BY <1>1, <2>1, <2>2 DEF Without, InJob, StageTypes
  <2>3. CASE indexing[w].docs # {doc}
    <3>1. indexing'[w] \in Job /\ indexing'[w].docs = indexing[w].docs \ {doc}
      BY <1>1, <2>1, <2>3 DEF Without, Job
    <3> QED
      BY <1>1, <3>1, NoneAssumption DEF InJob, StageTypes
  <2> QED
    BY <2>2, <2>3
<1>4. CASE Carries(doc, r)
  <2>1. r \notin pending'
    BY <1>4 DEF Settle, Terminal, Carries, Tracker!Complete, Tracker!Release
  <2>2. <<"indexing", w>> \in Holders(r)
    BY <1>1, <1>4, HoldersNow DEF Place, InJob
  <2>3. ~InJob(indexing'[w], r)
    BY <1>1, <1>3, <1>4 DEF IInv, KeyedByRun, Carries
  <2>4. \A h \in Holders(r)' : h \in Holders(r) /\ h # <<"indexing", w>>
    BY <1>1, <1>3, <2>3, HoldersNow, HoldersNext DEF Place
  <2> QED
    BY <2>1, <2>2, <2>4, PlaceGoes
<1>5. CASE ~Carries(doc, r)
  <2>1. r \in pending' <=> r \in pending
    BY <1>2, <1>5 DEF Settle, Terminal, Carries, Tracker!Complete, Tracker!Release, tracker
  <2>2. InJob(indexing'[w], r) <=> InJob(indexing[w], r)
    BY <1>1, <1>3, <1>5 DEF InJob
  <2>3. \A h : h \in Holders(r)' <=> h \in Holders(r)
    BY <1>1, <1>3, <2>2, HoldersNow, HoldersNext DEF Place
  <2> QED
    BY <2>1, <2>3, PlacesStay
<1> QED
  BY <1>4, <1>5

(* The process starts with empty hands and without reservations.           *)
LEMMA RestartHeld ==
    ASSUME NEW r \in Runs, Restart
    PROVE  HeldFor(r)'
<1>1. /\ fetching' = NoFetch /\ sending' = NoFetch /\ workflows' = <<>>
      /\ grouped' = NoDocuments /\ batches' = <<>> /\ indexing' = NoJobs /\ pending' = {}
  BY DEF Restart, Tracker!Restart
<1>2. /\ \A w \in DataWorkers : fetching'[w] = None /\ sending'[w] = None
      /\ grouped'[r] = None
      /\ \A w \in IndexWorkers : indexing'[w] = None
      /\ DOMAIN workflows' = {} /\ DOMAIN batches' = {}
  BY <1>1 DEF NoFetch, NoDocuments, NoJobs
<1>3. \A h : h \notin Holders(r)'
  BY <1>2, HoldersNext DEF Place, Carries, InJob
<1> QED
  BY <1>1, <1>3 DEF HeldFor

-----------------------------------------------------------------------------
LEMMA InitHeld == Init => HeldInv
<1> SUFFICES ASSUME Init
             PROVE  HeldInv
  OBVIOUS
<1>1. \A w \in DataWorkers : fetching[w] = None /\ sending[w] = None
  BY DEF Init, NoFetch
<1>2. ASSUME NEW r \in Runs
      PROVE  HeldFor(r)
  <2>1. /\ grouped[r] = None /\ \A w \in IndexWorkers : indexing[w] = None
        /\ DOMAIN workflows = {} /\ DOMAIN batches = {}
    BY DEF Init, NoDocuments, NoJobs
  <2>2. \A h : h \notin Holders(r)
    BY <1>1, <2>1, HoldersNow DEF Place, Carries, InJob
  <2> QED
    BY <2>2 DEF HeldFor, Init, Tracker!Init
<1> QED
  BY <1>1, <1>2 DEF HeldInv

(* A data worker takes metadata only with empty hands.                     *)
LEMMA OneAtATime ==
    ASSUME StageTypes, HeldInv, [Next]_vars
    PROVE  \A w \in DataWorkers : fetching'[w] = None \/ sending'[w] = None
<1> SUFFICES ASSUME NEW w \in DataWorkers
             PROVE  fetching'[w] = None \/ sending'[w] = None
  OBVIOUS
<1>1. fetching[w] = None \/ sending[w] = None
  BY DEF HeldInv
<1>2. ASSUME NEW v \in DataWorkers,
             \/ SkipReserved(v) \/ BeginFetch(v) \/ FetchFails(v)
             \/ FetchSucceeds(v) \/ SendWorkflow(v)
      PROVE  fetching'[w] = None \/ sending'[w] = None
  BY <1>1, <1>2
     DEF SkipReserved, BeginFetch, FetchFails, FetchSucceeds, SendWorkflow, Receives, fetchVars,
         StageTypes
<1>3. CASE Restart
  BY <1>3 DEF Restart, NoFetch
<1>4. CASE UNCHANGED <<fetching, sending>>
  BY <1>1, <1>4
<1> QED
  BY <1>2, <1>3, <1>4
     DEF Next, vars, fetchVars, Advance, Close, ListPage, SendMetadata, GroupWorkflow, FlushTick,
         FlushBatch, TakeBatch, EnsureIndex, Add, Settle, SaveProgress

LEMMA NextHeld == IInv /\ HeldInv /\ [Next]_vars => HeldInv'
<1> SUFFICES ASSUME IInv, HeldInv, [Next]_vars
             PROVE  HeldInv'
  OBVIOUS
<1>1. StageTypes
  BY TypeParts DEF IInv
<1>2. \A w \in DataWorkers : fetching'[w] = None \/ sending'[w] = None
  BY <1>1, OneAtATime
<1>3. ASSUME TrackProgress, NEW r \in Runs
      PROVE  HeldFor(r)'
  <2>1. HeldFor(r)
    BY <1>3 DEF HeldInv
  <2>2. ASSUME UNCHANGED <<fetching, sending, workflows, grouped, batches, indexing, pending>>
        PROVE  HeldFor(r)'
    BY <2>1, <2>2, QuietHeld
  <2>3. ASSUME NEW w \in DataWorkers, FetchSucceeds(w)
        PROVE  HeldFor(r)'
    <3>1. sending[w] = None
      BY <2>3 DEF FetchSucceeds, HeldInv
    <3> QED
      BY <1>1, <2>1, <2>3, <3>1, FetchSucceedsHeld
  <2>4. ASSUME NEW w \in DataWorkers, BeginFetch(w) \/ FetchFails(w) \/ SendWorkflow(w)
        PROVE  HeldFor(r)'
    BY <1>1, <1>3, <2>1, <2>4, BeginFetchHeld, FetchFailsHeld, SendWorkflowHeld
  <2>5. CASE GroupWorkflow \/ \E s \in Shards : FlushBatch(s)
    BY <1>1, <2>1, <2>5, GroupWorkflowHeld, FlushBatchHeld
  <2>6. ASSUME NEW w \in IndexWorkers, TakeBatch(w) \/ EnsureIndex(w) \/ Add(w)
        PROVE  HeldFor(r)'
    BY <1>1, <2>1, <2>6, TakeBatchHeld, WriteHeld
  <2>7. ASSUME NEW w \in IndexWorkers, NEW doc \in Workflow, Settle(w, doc)
        PROVE  HeldFor(r)'
    BY <1>1, <1>3, <2>1, <2>7, SettleHeld
  <2>8. CASE Restart
    BY <2>8, RestartHeld
  <2> QED
    BY <2>2, <2>3, <2>4, <2>5, <2>6, <2>7, <2>8
       DEF Next, vars, fetchVars, batchVars, indexVars, tracker, Advance, Close, ListPage,
           SendMetadata, SkipReserved, FlushTick, SaveProgress, Tracker!Save
<1> QED
  BY <1>2, <1>3 DEF HeldInv

(* A reserved run is in the hands of exactly one stage, and a terminal     *)
(* document anywhere in the pipeline is reserved: over failed fetches and  *)
(* writes, documents that overtake each other, and restarts no reservation *)
(* is lost and none is used twice.                                         *)
THEOREM PipelineReservations == Spec => []ReservationIsHeld
<1>1. HeldInv => ReservationIsHeld
  <2> SUFFICES ASSUME HeldInv, TrackProgress, NEW r \in Runs
               PROVE  IF r \in pending THEN \E h \in Holders(r) : Holders(r) = {h}
                      ELSE Holders(r) = {}
    BY DEF ReservationIsHeld
  <2> QED
    BY DEF HeldInv, HeldFor
<1>2. Spec => []IInv
  BY PipelineInvariant
<1> QED
  BY <1>1, <1>2, InitHeld, NextHeld, PTL DEF Spec
=============================================================================
