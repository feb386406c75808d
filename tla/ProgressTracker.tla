-------------------------- MODULE ProgressTracker --------------------------
(***************************************************************************)
(* What terminalProgress (domains/workflows/service/progress.go) promises  *)
(* to the ingestion pipeline: a set of executions already indexed, a set   *)
(* of executions somebody is indexing now, and a file that survives the    *)
(* process.  Every operation is one atomic step; TerminalProgress shows    *)
(* how the code achieves that with a mutex and a temporary file.           *)
(***************************************************************************)
CONSTANTS
    Ids,      \* document ids of terminal executions
    Stamps,   \* what a file is stamped with: format version and index generation
    NoFile    \* the progress file does not exist

VARIABLES
    stamp,      \* the stamp of the release that runs now
    completed,  \* ids whose terminal document OpenSearch acknowledged
    pending,    \* ids reserved by a worker that has not finished with them
    dirty,      \* completed holds something the file does not
    file        \* the progress file, NoFile when there is none

tracker == <<stamp, completed, pending, dirty, file>>

SavedProgress == [stamp : Stamps, completed : SUBSET Ids]

TypeOK ==
    /\ stamp \in Stamps
    /\ completed \subseteq Ids
    /\ pending \subseteq Ids
    /\ dirty \in BOOLEAN
    /\ file \in SavedProgress \cup {NoFile}

(* newTerminalProgress: a missing file or another release's file is empty. *)
Load(saved, s) ==
    IF saved # NoFile /\ saved.stamp = s THEN saved.completed ELSE {}

Init ==
    /\ stamp \in Stamps
    /\ completed = {}
    /\ pending = {}
    /\ dirty = FALSE
    /\ file = NoFile

(* reserve answers true exactly when this holds. *)
CanReserve(id) == id \notin completed /\ id \notin pending

Reserve(id) ==
    /\ CanReserve(id)
    /\ pending' = pending \cup {id}
    /\ UNCHANGED <<stamp, completed, dirty, file>>

Release(id) ==
    /\ pending' = pending \ {id}
    /\ UNCHANGED <<stamp, completed, dirty, file>>

Complete(id) ==
    /\ pending' = pending \ {id}
    /\ completed' = completed \cup {id}
    /\ dirty' = TRUE
    /\ UNCHANGED <<stamp, file>>

Save ==
    /\ dirty
    /\ file' = [stamp |-> stamp, completed |-> completed]
    /\ dirty' = FALSE
    /\ UNCHANGED <<stamp, completed, pending>>

(* The process ends and a process of release s takes over.                 *)
Restart(s) ==
    /\ stamp' = s
    /\ completed' = Load(file, s)
    /\ pending' = {}
    /\ dirty' = FALSE
    /\ UNCHANGED file

(* The pipeline releases and completes only what it has reserved.          *)
Next ==
    \/ \E id \in Ids : Reserve(id)
    \/ \E id \in pending : Release(id) \/ Complete(id)
    \/ Save
    \/ \E s \in Stamps : Restart(s)

Spec == Init /\ [][Next]_tracker
=============================================================================
