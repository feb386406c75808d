--------------------------- MODULE ServiceProofs ----------------------------
(***************************************************************************)
(* Two parts of the workflow service on their own: the progress tracker    *)
(* with its file, for every set of ids, formats and generations and every  *)
(* bound on the crashes, and the order in which the stages of the pipeline *)
(* end, for every number of goroutines and every channel capacity.         *)
(***************************************************************************)
EXTENDS TerminalProgress, PipelineShutdown, TLAPS
-----------------------------------------------------------------------------
(* The progress tracker                                                    *)
(* A progress record is what its two fields are.                           *)
LEMMA SavedRecord ==
    ASSUME NEW f \in SavedProgress
    PROVE  /\ f.stamp \in Stamps
           /\ f.completed \subseteq Ids
           /\ f = [stamp |-> f.stamp, completed |-> f.completed]
  BY DEF SavedProgress

(* The invariant of the tracker and its file holds when nothing is saved.  *)
LEMMA InitIInv == Init => IInv
<1> SUFFICES ASSUME Init
             PROVE  IInv
  OBVIOUS
<1> USE DistinctFiles DEF Init
<1>1. TypeOK
  <2>1. acknowledged \in [Stamps -> SUBSET Ids]
    OBVIOUS
  <2>2. crashes \in 0 .. MaxCrashes
    BY MaxCrashesIsNat
  <2> QED
    BY <2>1, <2>2 DEF TypeOK
<1>2. TrustsOwnGeneration
  BY DEF TrustsOwnGeneration
<1> QED
  BY <1>1, <1>2
     DEF IInv, FileAlwaysLoads, CleanMeansSaved, ReservedNotCompleted, SaveInProgress,
         FileBehindTracker, DownIsEmpty

(* newTerminalProgress establishes the invariant from any file it decodes. *)
LEMMA LoadIInv ==
    ASSUME IInv, NEW s \in Stamps, Load(s)
    PROVE  IInv'
<1> USE DistinctFiles DEF IInv, Load
<1>1. file = NoFile \/ file \in SavedProgress
  BY DEF TypeOK
<1>2. CASE file \in SavedProgress /\ file.stamp = s
  <2>1. completed' = file.completed /\ file = [stamp |-> s, completed |-> file.completed]
    BY <1>2, SavedRecord
  <2>2. completed' \subseteq Ids
    BY <2>1, <1>2, SavedRecord
  <2>3. TypeOK'
    BY <2>2 DEF TypeOK
  <2>4. TrustsOwnGeneration'
    BY <2>1, <1>2 DEF TrustsOwnGeneration
  <2> QED
    BY <2>1, <2>3, <2>4, <1>2
       DEF FileAlwaysLoads, CleanMeansSaved, ReservedNotCompleted, SaveInProgress,
           FileBehindTracker, DownIsEmpty, TypeOK
<1>3. CASE ~(file \in SavedProgress /\ file.stamp = s)
  <2>1. completed' = {}
    BY <1>1, <1>3
  <2> QED
    BY <2>1, <1>1, <1>3
       DEF TypeOK, FileAlwaysLoads, CleanMeansSaved, TrustsOwnGeneration,
           ReservedNotCompleted, SaveInProgress, FileBehindTracker, DownIsEmpty
<1> QED
  BY <1>2, <1>3

(* reserve, release and complete run under the mutex, so never between the *)
(* steps of save(): they preserve the invariant.                           *)
LEMMA OperationIInv ==
    ASSUME IInv, NEW id \in Ids, Reserve(id) \/ Release(id) \/ Complete(id)
    PROVE  IInv'
<1> USE DEF IInv, MutexFree
<1>1. CASE Reserve(id)
  BY <1>1 DEF Reserve, TypeOK, FileAlwaysLoads, CleanMeansSaved, TrustsOwnGeneration,
              ReservedNotCompleted, SaveInProgress, FileBehindTracker, DownIsEmpty
<1>2. CASE Release(id)
  BY <1>2 DEF Release, TypeOK, FileAlwaysLoads, CleanMeansSaved, TrustsOwnGeneration,
              ReservedNotCompleted, SaveInProgress, FileBehindTracker, DownIsEmpty
<1>3. CASE Complete(id)
  <2> USE <1>3 DEF Complete
  <2>1. TypeOK'
    BY DEF TypeOK
  <2>2. TrustsOwnGeneration'
    <3>1. \A s \in Stamps : acknowledged[s] \subseteq acknowledged'[s]
      BY DEF TypeOK
    <3>2. acknowledged'[stamp] = acknowledged[stamp] \cup {id}
      BY DEF TypeOK
    <3> QED
      BY <3>1, <3>2, SavedRecord DEF TrustsOwnGeneration
  <2> QED
    BY <2>1, <2>2
       DEF FileAlwaysLoads, CleanMeansSaved, ReservedNotCompleted, SaveInProgress,
           FileBehindTracker, DownIsEmpty, TypeOK
<1> QED
  BY <1>1, <1>2, <1>3

(* Each step of save() preserves the invariant, and so does its failure.   *)
LEMMA SaveIInv ==
    ASSUME IInv,
           CreateTemporary \/ EncodeTemporary \/ CloseTemporary \/ RenameTemporary \/ SaveFails
    PROVE  IInv'
<1> USE DEF IInv
<1>1. CASE CreateTemporary
  BY <1>1 DEF CreateTemporary, MutexFree, TypeOK, FileAlwaysLoads, CleanMeansSaved,
              TrustsOwnGeneration, ReservedNotCompleted, SaveInProgress,
              FileBehindTracker, DownIsEmpty
<1>2. CASE EncodeTemporary
  <2>1. [stamp |-> stamp, completed |-> completed] \in SavedProgress
    BY DEF TypeOK, SavedProgress
  <2> QED
    BY <1>2, <2>1
       DEF EncodeTemporary, TypeOK, FileAlwaysLoads, CleanMeansSaved, TrustsOwnGeneration,
           ReservedNotCompleted, SaveInProgress, FileBehindTracker, DownIsEmpty
<1>3. CASE CloseTemporary
  BY <1>3 DEF CloseTemporary, TypeOK, FileAlwaysLoads, CleanMeansSaved,
              TrustsOwnGeneration, ReservedNotCompleted, SaveInProgress,
              FileBehindTracker, DownIsEmpty
<1>4. CASE RenameTemporary
  <2>1. /\ file' = [stamp |-> stamp, completed |-> completed]
        /\ file' \in SavedProgress
    BY <1>4 DEF RenameTemporary, SaveInProgress, TypeOK, SavedProgress
  <2>2. /\ file' # Truncated
        /\ file'.stamp = stamp
        /\ file'.completed = completed
    BY <2>1, DistinctFiles
  <2>3. TypeOK'
    BY <1>4, <2>1 DEF RenameTemporary, TypeOK
  <2>4. TrustsOwnGeneration'
    BY <1>4, <2>2 DEF RenameTemporary, TrustsOwnGeneration
  <2>5. CleanMeansSaved' /\ FileBehindTracker' /\ SaveInProgress'
    BY <1>4, <2>1, <2>2
       DEF RenameTemporary, CleanMeansSaved, FileBehindTracker, SaveInProgress
  <2> QED
    BY <1>4, <2>2, <2>3, <2>4, <2>5
       DEF RenameTemporary, FileAlwaysLoads, ReservedNotCompleted, DownIsEmpty
<1>5. CASE SaveFails
  BY <1>5 DEF SaveFails, TypeOK, FileAlwaysLoads, CleanMeansSaved,
              TrustsOwnGeneration, ReservedNotCompleted, SaveInProgress,
              FileBehindTracker, DownIsEmpty
<1> QED
  BY <1>1, <1>2, <1>3, <1>4, <1>5

(* The process may die anywhere, also between two steps of save().         *)
LEMMA CrashIInv ==
    ASSUME IInv, Crash
    PROVE  IInv'
<1> USE DEF IInv, Crash
<1>1. TypeOK'
  <2>1. crashes' \in 0 .. MaxCrashes
    BY MaxCrashesIsNat DEF TypeOK
  <2> QED
    BY <2>1 DEF TypeOK
<1>2. TrustsOwnGeneration'
  BY DEF TrustsOwnGeneration
<1> QED
  BY <1>1, <1>2
     DEF FileAlwaysLoads, CleanMeansSaved, ReservedNotCompleted, SaveInProgress,
         FileBehindTracker, DownIsEmpty

(* Every step keeps the invariant.                                         *)
LEMMA NextIInv == IInv /\ [Next]_vars => IInv'
<1> SUFFICES ASSUME IInv, [Next]_vars
             PROVE  IInv'
  OBVIOUS
<1>1. ASSUME NEW s \in Stamps, Load(s) PROVE IInv'
  BY <1>1, LoadIInv
<1>2. ASSUME NEW id \in Ids, Reserve(id) PROVE IInv'
  BY <1>2, OperationIInv
<1>3. ASSUME NEW id \in pending, Release(id) \/ Complete(id) PROVE IInv'
  BY <1>3, OperationIInv DEF IInv, TypeOK
<1>4. CASE CreateTemporary \/ EncodeTemporary \/ CloseTemporary \/ RenameTemporary \/ SaveFails
  BY <1>4, SaveIInv
<1>5. CASE Crash
  BY <1>5, CrashIInv
<1>6. CASE UNCHANGED vars
  BY <1>6 DEF vars, IInv, TypeOK, FileAlwaysLoads, CleanMeansSaved, TrustsOwnGeneration,
              ReservedNotCompleted, SaveInProgress, FileBehindTracker, DownIsEmpty
<1> QED
  BY <1>1, <1>2, <1>3, <1>4, <1>5, <1>6 DEF Next

(* terminalProgress and its file: a file that always loads, no completion  *)
(* that a clean tracker has not saved, no id trusted across generations    *)
(* and none both reserved and completed, in every reachable state.         *)
THEOREM TrackerInvariant == Spec => []IInv
  BY InitIInv, NextIInv, PTL DEF Spec

(* A tracker that has nothing left to save has its completions in the file, *)
(* a save in progress or none: the file always loads, and no id is both    *)
(* reserved and completed.                                                 *)
THEOREM TrackerSafety ==
    Spec => [](TypeOK /\ FileAlwaysLoads /\ CleanMeansSaved /\ ReservedNotCompleted)
<1>1. IInv => TypeOK /\ FileAlwaysLoads /\ CleanMeansSaved /\ ReservedNotCompleted
  BY DEF IInv
<1> QED
  BY <1>1, TrackerInvariant, PTL

(* Whatever file a restart finds, of this release or of another, the ids   *)
(* taken for completed were completed under the stamp that is running.     *)
THEOREM TrackerGeneration == Spec => []TrustsOwnGeneration
<1>1. IInv => TrustsOwnGeneration
  BY DEF IInv
<1> QED
  BY <1>1, TrackerInvariant, PTL
-----------------------------------------------------------------------------
(* No step forgets an id the file of the running generation records.       *)
LEMMA SavedStep ==
    ASSUME IInv, [Next]_vars,
           file \in SavedProgress, file' \in SavedProgress, file'.stamp = file.stamp
    PROVE  file.completed \subseteq file'.completed
<1>1. CASE RenameTemporary
  <2>1. up /\ file' = [stamp |-> stamp, completed |-> completed]
    BY <1>1 DEF RenameTemporary, IInv, SaveInProgress
  <2>2. file'.stamp = stamp /\ file'.completed = completed
    BY <2>1
  <2> QED
    BY <2>1, <2>2 DEF IInv, FileBehindTracker
<1>2. CASE ~RenameTemporary
  <2>1. file' = file
    BY <1>2 DEF Next, vars, Load, Reserve, Release, Complete, CreateTemporary,
                EncodeTemporary, CloseTemporary, SaveFails, Crash
  <2> QED
    BY <2>1
<1> QED
  BY <1>1, <1>2

(* The progress file of a generation only grows, across failures, crashes  *)
(* and restarts.                                                           *)
THEOREM SavedOnlyGrows == Spec => SavedNeverForgets
<1>1. IInv /\ [Next]_vars =>
         [(file \in SavedProgress /\ file' \in SavedProgress /\ file'.stamp = file.stamp)
            => file.completed \subseteq file'.completed]_vars
  BY SavedStep
<1> QED
  BY <1>1, TrackerInvariant, PTL DEF Spec, SavedNeverForgets
-----------------------------------------------------------------------------
(* A step of the tracker is a step of the abstract one or changes nothing  *)
(* of what it shows: only the rename saves, and a crash is a restart.      *)
LEMMA StepRefines ==
    ASSUME IInv, [Next]_vars
    PROVE  [Abstract!Next]_(Abstract!tracker)
<1> USE DEF IInv
<1>1. ASSUME NEW s \in Stamps, Load(s)
      PROVE  Abstract!Restart(s)
  BY <1>1 DEF Load, Abstract!Restart, Abstract!Load
<1>2. ASSUME NEW id \in Ids, Reserve(id)
      PROVE  Abstract!Reserve(id)
  BY <1>2 DEF Reserve, MutexFree, Abstract!Reserve, Abstract!CanReserve
<1>3. ASSUME NEW id \in pending, Release(id)
      PROVE  Abstract!Release(id)
  BY <1>3 DEF Release, MutexFree, Abstract!Release
<1>4. ASSUME NEW id \in pending, Complete(id)
      PROVE  Abstract!Complete(id)
  BY <1>4 DEF Complete, MutexFree, Abstract!Complete
<1>5. CASE RenameTemporary
  <2>1. file' = [stamp |-> stamp, completed |-> completed] /\ dirty
    BY <1>5 DEF RenameTemporary, SaveInProgress
  <2> QED
    BY <1>5, <2>1 DEF RenameTemporary, Abstract!Next, Abstract!Save
<1>6. CASE Crash
  <2>1. Abstract!Restart(stamp)
    BY <1>6 DEF Crash, Abstract!Restart, Abstract!Load
  <2> QED
    BY <2>1 DEF Abstract!Next, TypeOK
<1>7. CASE CreateTemporary \/ EncodeTemporary \/ CloseTemporary \/ SaveFails \/ UNCHANGED vars
  BY <1>7 DEF CreateTemporary, EncodeTemporary, CloseTemporary, SaveFails, vars, MutexFree,
              Abstract!tracker
<1> QED
  BY <1>1, <1>2, <1>3, <1>4, <1>5, <1>6, <1>7 DEF Next, Abstract!Next, TypeOK

(* terminalProgress implements the tracker the pipeline is modelled with.  *)
THEOREM TrackerRefinement == Spec => RefinesTracker
<1>1. Init => Abstract!Init
  BY DEF Init, Abstract!Init
<1>2. IInv /\ [Next]_vars => [Abstract!Next]_(Abstract!tracker)
  BY StepRefines
<1> QED
  BY <1>1, <1>2, TrackerInvariant, PTL DEF Spec, RefinesTracker, Abstract!Spec
-----------------------------------------------------------------------------
(* The end of the pipeline                                                 *)
(* A channel that is closed has no sender left, and a listing loop that is *)
(* sending has something to send.                                          *)
SendersEnded ==
    /\ ~panicked
    /\ metadata.closed => \A l \in Listers : lister[l] = "done"
    /\ workflows.closed => \A w \in DataWorkers : dataWorker[w] = "done"
    /\ \A l \in Listers : lister[l] = "send" => pageLeft[l] > 0

(* Index workers end on a channel that is closed and empty, which it stays *)
(* as the batcher, the only sender, has closed it at its own end.          *)
BatchesTaken ==
    /\ batches.closed => batcher = "done"
    /\ \A w \in IndexWorkers : indexWorker[w] = "done" => Drained(batches)
    /\ retention = "done" => jobs = 0

(* What run() has waited for                                               *)
Awaited ==
    /\ runStep # "indexWorkers" => \A w \in IndexWorkers : indexWorker[w] = "done"
    /\ runStep \in {"retention", "flusher", "save", "done"} => batcher = "done"
    /\ runStep \in {"flusher", "save", "done"} => retention = "done"
    /\ runStep \in {"save", "done"} => flusher = "done"
    /\ runStep = "done" => (unsaved => saveFailed)
    /\ service = "stopped" => runStep = "done"

ShutdownIInv == ShutdownTypeOK /\ SendersEnded /\ BatchesTaken /\ Awaited

-----------------------------------------------------------------------------
LEMMA Bounds ==
    /\ MetadataCap \in Nat /\ MetadataCap > 0
    /\ WorkflowsCap \in Nat /\ WorkflowsCap > 0
    /\ BatchesCap \in Nat /\ BatchesCap > 0
    /\ PageSize \in Nat /\ ShardCount \in Nat /\ MaxJobs \in Nat
BY ShutdownAssumption

LEMMA ChannelClosed ==
    ASSUME NEW cap, NEW channel \in Channel(cap)
    PROVE  /\ Closed(channel) \in Channel(cap)
           /\ Closed(channel).closed /\ Closed(channel).len = channel.len
BY DEF Channel, Closed

LEMMA ShutdownInitIInv == ShutdownInit => ShutdownIInv
<1> SUFFICES ASSUME ShutdownInit
             PROVE  ShutdownIInv
  OBVIOUS
<1>1. Empty \in Channel(MetadataCap) \cap Channel(WorkflowsCap) \cap Channel(BatchesCap)
      /\ ~Empty.closed
  BY Bounds DEF Channel, Empty
<1>2. ShutdownTypeOK
  <2>1. unsaved \in BOOLEAN /\ saveFailed \in BOOLEAN /\ panicked \in BOOLEAN
    BY Zenon DEF ShutdownInit
  <2> QED
    BY <1>1, <2>1, Bounds DEF ShutdownInit, ShutdownTypeOK
<1>3. SendersEnded /\ BatchesTaken /\ Awaited
  BY <1>1 DEF ShutdownInit, SendersEnded, BatchesTaken, Awaited
<1> QED
  BY <1>2, <1>3 DEF ShutdownIInv

(* Start, Stop and its return.                                             *)
LEMMA ServiceIInv ==
    ASSUME ShutdownIInv, Start \/ Stop \/ StopUnstarted \/ StopReturns \/ StopTimesOut
    PROVE  ShutdownIInv'
BY DEF ShutdownIInv, ShutdownTypeOK, SendersEnded, BatchesTaken, Awaited, Drained, stages,
       Start, Stop, StopUnstarted, StopReturns, StopTimesOut

(* The listing loops and the goroutine that closes their channel.          *)
LEMMA ListerIInv ==
    ASSUME ShutdownIInv, CloseMetadata \/ \E l \in Listers : ListerStep(l)
    PROVE  ShutdownIInv'
<1> USE DEF ShutdownIInv, ShutdownTypeOK, Channel
<1>1. UNCHANGED <<control, dataWorker, workflows, batcher, shards, batches, indexWorker,
                  retention, jobs, flusher>>
  BY DEF CloseMetadata, ListerStep, ListPage, SendMetadata, ScanAgain, EndLister, listerOnly
<1>2. BatchesTaken' /\ Awaited'
  BY <1>1 DEF BatchesTaken, Awaited, Drained, control
<1>3. ASSUME NEW l \in Listers, ListerStep(l)
      PROVE  ShutdownTypeOK' /\ SendersEnded'
  <2>1. CASE ListPage(l)
    BY <1>1, <2>1, Bounds DEF ListPage, Goto, SendersEnded, control
  <2>2. CASE SendMetadata(l)
    BY <1>1, <2>2, Bounds DEF SendMetadata, Goto, Sent, SendersEnded, control
  <2>3. CASE ScanAgain(l) \/ EndLister(l)
    BY <1>1, <2>3, Bounds DEF ScanAgain, EndLister, Goto, SendersEnded, control
  <2> QED
    BY <1>3, <2>1, <2>2, <2>3 DEF ListerStep
<1>4. CASE CloseMetadata
  <2>1. metadata' \in Channel(MetadataCap)
    BY <1>4, ChannelClosed DEF CloseMetadata
  <2>2. SendersEnded'
    BY <1>1, <1>4 DEF CloseMetadata, SendersEnded
  <2>3. ShutdownTypeOK'
    BY <1>1, <1>4, <2>1 DEF CloseMetadata, control
  <2> QED
    BY <1>2, <2>2, <2>3
<1> QED
  BY <1>2, <1>3, <1>4

(* The data workers and the goroutine that closes their channel.           *)
LEMMA DataWorkerIInv ==
    ASSUME ShutdownIInv, CloseWorkflows \/ \E w \in DataWorkers : DataWorkerStep(w)
    PROVE  ShutdownIInv'
<1> USE DEF ShutdownIInv, ShutdownTypeOK, Channel
<1>1. UNCHANGED <<control, lister, pageLeft, batcher, shards, batches, indexWorker,
                  retention, jobs, flusher>>
  BY DEF CloseWorkflows, DataWorkerStep, ReceiveMetadata, Fetch, SendWorkflow, EndDataWorker,
         workerOnly
<1>2. BatchesTaken' /\ Awaited'
  BY <1>1 DEF BatchesTaken, Awaited, Drained, control
<1>3. ASSUME NEW w \in DataWorkers, DataWorkerStep(w)
      PROVE  ShutdownTypeOK' /\ SendersEnded'
  <2>1. CASE ReceiveMetadata(w)
    BY <1>1, <2>1, Bounds DEF ReceiveMetadata, Received, SendersEnded, control
  <2>2. CASE SendWorkflow(w)
    BY <1>1, <2>2, Bounds DEF SendWorkflow, Sent, SendersEnded, control
  <2>3. CASE Fetch(w) \/ EndDataWorker(w)
    BY <1>1, <2>3 DEF Fetch, EndDataWorker, SendersEnded, control
  <2> QED
    BY <1>3, <2>1, <2>2, <2>3 DEF DataWorkerStep
<1>4. CASE CloseWorkflows
  <2>1. workflows' \in Channel(WorkflowsCap)
    BY <1>4, ChannelClosed DEF CloseWorkflows
  <2>2. SendersEnded'
    BY <1>1, <1>4 DEF CloseWorkflows, SendersEnded
  <2>3. ShutdownTypeOK'
    BY <1>1, <1>4, <2>1 DEF CloseWorkflows, control
  <2> QED
    BY <1>2, <2>2, <2>3
<1> QED
  BY <1>2, <1>3, <1>4

(* The batcher.  While it runs no index worker has ended.                  *)
LEMMA BatcherIInv ==
    ASSUME ShutdownIInv, GroupWorkflow \/ FlushTick \/ LastFlush \/ FlushBatch \/ EndBatcher
    PROVE  ShutdownIInv'
<1> USE DEF ShutdownIInv, ShutdownTypeOK, Channel
<1>1. UNCHANGED <<control, lister, pageLeft, metadata, dataWorker, indexWorker, retention,
                  jobs, flusher, panicked>>
  BY DEF GroupWorkflow, FlushTick, LastFlush, FlushBatch, EndBatcher, batcherOnly
<1>2. batcher # "done"
  BY DEF GroupWorkflow, FlushTick, LastFlush, FlushBatch, EndBatcher
<1>3. /\ ~batches.closed /\ \A w \in IndexWorkers : indexWorker[w] # "done"
      /\ runStep = "indexWorkers"
  BY <1>2, ShutdownAssumption DEF BatchesTaken, Awaited, Drained
<1>4. Awaited'
  BY <1>1, <1>3 DEF Awaited, control
<1>5. CASE GroupWorkflow
  BY <1>1, <1>3, <1>4, <1>5, Bounds
     DEF GroupWorkflow, Received, SendersEnded, BatchesTaken, control
<1>6. CASE FlushTick \/ LastFlush
  BY <1>1, <1>3, <1>4, <1>6 DEF FlushTick, LastFlush, SendersEnded, BatchesTaken, control
<1>7. CASE FlushBatch
  BY <1>1, <1>3, <1>4, <1>7, Bounds
     DEF FlushBatch, Sent, SendersEnded, BatchesTaken, control
<1>8. CASE EndBatcher
  <2>1. batches' \in Channel(BatchesCap)
    BY <1>8, ChannelClosed DEF EndBatcher
  <2>2. SendersEnded' /\ BatchesTaken'
    BY <1>1, <1>3, <1>8 DEF EndBatcher, SendersEnded, BatchesTaken
  <2>3. ShutdownTypeOK'
    BY <1>1, <1>8, <2>1 DEF EndBatcher, control
  <2> QED
    BY <1>4, <2>2, <2>3
<1> QED
  BY <1>5, <1>6, <1>7, <1>8

(* The index workers.  A worker that takes or writes a batch has not ended, *)
(* so run() still waits for it.                                            *)
LEMMA IndexWorkerIInv ==
    ASSUME ShutdownIInv, NEW w \in IndexWorkers, IndexWorkerStep(w)
    PROVE  ShutdownIInv'
<1> USE DEF ShutdownIInv, ShutdownTypeOK, Channel
<1>1. UNCHANGED <<service, runStep, saveFailed, lister, pageLeft, metadata,
                  dataWorker, workflows, batcher, shards, retention, jobs, flusher, panicked>>
  BY DEF IndexWorkerStep, TakeBatch, WriteBatch, EndIndexWorker, indexOnly
<1>2. indexWorker[w] # "done" /\ runStep = "indexWorkers"
  BY DEF IndexWorkerStep, TakeBatch, WriteBatch, EndIndexWorker, Awaited
<1>3. SendersEnded' /\ Awaited'
  BY <1>1, <1>2 DEF SendersEnded, Awaited
<1>4. CASE TakeBatch(w)
  BY <1>1, <1>3, <1>4, Bounds DEF TakeBatch, Received, BatchesTaken, Drained
<1>5. CASE WriteBatch(w)
  <2>1. unsaved' \in BOOLEAN
    BY <1>5, Zenon DEF WriteBatch
  <2>2. BatchesTaken'
    BY <1>1, <1>5 DEF WriteBatch, BatchesTaken
  <2>3. ShutdownTypeOK'
    BY <1>1, <1>5, <2>1 DEF WriteBatch
  <2> QED
    BY <1>3, <2>2, <2>3
<1>6. CASE EndIndexWorker(w)
  BY <1>1, <1>3, <1>6 DEF EndIndexWorker, BatchesTaken, Drained
<1> QED
  BY <1>4, <1>5, <1>6 DEF IndexWorkerStep

(* The retention loop and its jobs.                                        *)
LEMMA RetentionIInv ==
    ASSUME ShutdownIInv, FirstCleanup \/ StartJob \/ EndJob \/ StopScheduler \/ EndRetention
    PROVE  ShutdownIInv'
BY Bounds
   DEF ShutdownIInv, ShutdownTypeOK, SendersEnded, BatchesTaken, Awaited, Drained,
       retentionOnly, control,
       FirstCleanup, StartJob, EndJob, StopScheduler, EndRetention

(* The progress loop and the steps of run().                               *)
LEMMA RunIInv ==
    ASSUME ShutdownIInv, FlushProgress \/ EndFlusher \/ AwaitStages \/ FinalSave
    PROVE  ShutdownIInv'
<1>1. UNCHANGED flusherOnly
  BY DEF FlushProgress, EndFlusher, AwaitStages, Await, FinalSave
<1>2. SendersEnded' /\ BatchesTaken'
  BY <1>1 DEF ShutdownIInv, SendersEnded, BatchesTaken, Drained, flusherOnly
<1>3. unsaved \in BOOLEAN /\ saveFailed \in BOOLEAN
  BY DEF ShutdownIInv, ShutdownTypeOK
<1>4. CASE FlushProgress
  <2>1. PICK clean \in {unsaved, FALSE} : unsaved' = clean
    BY <1>4, Zenon DEF FlushProgress
  <2>2. unsaved' \in BOOLEAN /\ (unsaved' => unsaved)
    <3>1. CASE clean = unsaved
      BY <1>3, <2>1, <3>1
    <3>2. CASE clean = FALSE
      BY <2>1, <3>2
    <3> QED
      BY <3>1, <3>2
  <2>3. UNCHANGED <<flusher, saveFailed, runStep>>
    BY <1>4 DEF FlushProgress
  <2> QED
    BY <1>1, <1>2, <2>2, <2>3 DEF ShutdownIInv, ShutdownTypeOK, Awaited, flusherOnly
<1>5. CASE EndFlusher
  BY <1>1, <1>2, <1>5 DEF EndFlusher, ShutdownIInv, ShutdownTypeOK, Awaited, flusherOnly
<1>6. CASE AwaitStages
  BY <1>1, <1>2, <1>6 DEF AwaitStages, Await, ShutdownIInv, ShutdownTypeOK, Awaited, flusherOnly
<1>7. CASE FinalSave
  <2>1. PICK failed \in {FALSE, unsaved} : saveFailed' = failed /\ unsaved' = failed
    BY <1>7 DEF FinalSave
  <2>2. failed \in BOOLEAN
    BY <1>3, Zenon
  <2>3. unsaved' \in BOOLEAN /\ saveFailed' \in BOOLEAN /\ (unsaved' => saveFailed')
    BY <2>1, <2>2, Zenon
  <2>4. runStep = "save" /\ runStep' = "done" /\ UNCHANGED flusher
    BY <1>7 DEF FinalSave
  <2> QED
    BY <1>1, <1>2, <2>3, <2>4 DEF ShutdownIInv, ShutdownTypeOK, Awaited, flusherOnly
<1> QED
  BY <1>4, <1>5, <1>6, <1>7

LEMMA ShutdownNextIInv == ShutdownIInv /\ [ShutdownNext]_shutdownVars => ShutdownIInv'
<1> SUFFICES ASSUME ShutdownIInv, [ShutdownNext]_shutdownVars
             PROVE  ShutdownIInv'
  OBVIOUS
<1>1. CASE UNCHANGED shutdownVars
  BY <1>1 DEF ShutdownIInv, ShutdownTypeOK, SendersEnded, BatchesTaken, Awaited, Drained,
              shutdownVars, stages
<1> QED
  BY <1>1, ServiceIInv, ListerIInv, DataWorkerIInv, BatcherIInv, IndexWorkerIInv,
     RetentionIInv, RunIInv DEF ShutdownNext

(* The inductive invariant holds of every run of the pipeline.             *)
THEOREM ShutdownInvariant == ShutdownSpec => []ShutdownIInv
BY ShutdownInitIInv, ShutdownNextIInv, PTL DEF ShutdownSpec

(* A channel is closed only after its last sender has ended, so that no    *)
(* send ever panics.                                                       *)
THEOREM ShutdownNeverPanics == ShutdownSpec => []NoSendOnClosed
<1>1. ShutdownIInv => NoSendOnClosed
  BY DEF ShutdownIInv, SendersEnded, NoSendOnClosed
<1> QED
  BY <1>1, ShutdownInvariant, PTL

(* Once Stop has returned nil no goroutine of the service is left that     *)
(* writes to OpenSearch or deletes from it.                                *)
THEOREM ShutdownIsQuiet == ShutdownSpec => []RepositoryIdleWhenStopped
<1>1. ShutdownIInv => RepositoryIdleWhenStopped
  BY DEF ShutdownIInv, BatchesTaken, Awaited, ConsumersEnded, RepositoryIdleWhenStopped
<1> QED
  BY <1>1, ShutdownInvariant, PTL

(* The last save comes after the last batch and the last completion: no    *)
(* batch is left in a channel and no completion is missing from the file,  *)
(* unless that save failed.                                                *)
THEOREM ShutdownSavesAll == ShutdownSpec => []NothingUnsaved
<1>1. ShutdownIInv => NothingUnsaved
  BY ShutdownAssumption
     DEF ShutdownIInv, SendersEnded, BatchesTaken, Awaited, Drained, ConsumersEnded, NothingUnsaved
<1> QED
  BY <1>1, ShutdownInvariant, PTL
=============================================================================
