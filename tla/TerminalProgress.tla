-------------------------- MODULE TerminalProgress --------------------------
(***************************************************************************)
(* terminalProgress of domains/workflows/service/progress.go, with the     *)
(* steps of save() apart: a temporary file is created, encoded, closed and *)
(* renamed over the progress file while the mutex is held, every step may  *)
(* fail, and the process may die between any two of them.                  *)
(***************************************************************************)
EXTENDS Naturals

CONSTANTS
    Ids,         \* document ids of terminal executions
    Formats,     \* progressFormatVersion of the releases that are deployed
    Generations, \* index prefixes (generations) of those releases
    NoFile,      \* the file does not exist
    Truncated,   \* a file that gob cannot decode
    MaxCrashes   \* bound on the times the process dies

Stamps == [format : Formats, generation : Generations]
SavedProgress == [stamp : Stamps, completed : SUBSET Ids]

ASSUME DistinctFiles ==
    /\ NoFile \notin SavedProgress
    /\ Truncated \notin SavedProgress
    /\ NoFile # Truncated
ASSUME MaxCrashesIsNat == MaxCrashes \in Nat

VARIABLES
    up,            \* the process runs
    stamp,         \* progressFormatVersion and generation of the release
    completed,     \* terminalProgress.completed
    pending,       \* terminalProgress.pending
    dirty,         \* terminalProgress.dirty
    saveStep,      \* where save() is; the mutex is held unless "idle"
    temporary,     \* the content of the temporary file save() is writing
    file,          \* the content of the progress file
    acknowledged,  \* history: what each release saw OpenSearch acknowledge
    crashes        \* history: how often the process died

vars == <<up, stamp, completed, pending, dirty, saveStep, temporary, file,
          acknowledged, crashes>>

TypeOK ==
    /\ up \in BOOLEAN
    /\ stamp \in Stamps
    /\ completed \subseteq Ids
    /\ pending \subseteq Ids
    /\ dirty \in BOOLEAN
    /\ saveStep \in {"idle", "created", "encoded", "closed"}
    /\ temporary \in SavedProgress \cup {NoFile, Truncated}
    /\ file \in SavedProgress \cup {NoFile, Truncated}
    /\ acknowledged \in [Stamps -> SUBSET Ids]
    /\ crashes \in 0 .. MaxCrashes

Init ==
    /\ up = FALSE
    /\ stamp \in Stamps
    /\ completed = {}
    /\ pending = {}
    /\ dirty = FALSE
    /\ saveStep = "idle"
    /\ temporary = NoFile
    /\ file = NoFile
    /\ acknowledged = [s \in Stamps |-> {}]
    /\ crashes = 0
-----------------------------------------------------------------------------
(* Mutants of Load: another generation's file is trusted, and a file of    *)
(* the release's own is not.                                               *)
LoadAnyGeneration(s) ==
    /\ ~up
    /\ file # Truncated
    /\ up' = TRUE
    /\ stamp' = s
    /\ completed' = IF file # NoFile /\ file.stamp.format = s.format THEN file.completed ELSE {}
    /\ pending' = {}
    /\ dirty' = FALSE
    /\ UNCHANGED <<saveStep, temporary, file, acknowledged, crashes>>

LoadEmpty(s) ==
    /\ ~up
    /\ file # Truncated
    /\ up' = TRUE
    /\ stamp' = s
    /\ completed' = {}
    /\ pending' = {}
    /\ dirty' = FALSE
    /\ UNCHANGED <<saveStep, temporary, file, acknowledged, crashes>>

(* newTerminalProgress.  A file it cannot decode is an error, so that the   *)
(* process does not start: there is no step for it.                        *)
Load(s) ==
    /\ ~up
    /\ file # Truncated
    /\ up' = TRUE
    /\ stamp' = s
    /\ completed' = IF file # NoFile /\ file.stamp = s THEN file.completed ELSE {}
    /\ pending' = {}
    /\ dirty' = FALSE
    /\ UNCHANGED <<saveStep, temporary, file, acknowledged, crashes>>

MutexFree == up /\ saveStep = "idle"

Reserve(id) ==
    /\ MutexFree
    /\ id \notin completed
    /\ id \notin pending
    /\ pending' = pending \cup {id}
    /\ UNCHANGED <<up, stamp, completed, dirty, saveStep, temporary, file, acknowledged, crashes>>

Release(id) ==
    /\ MutexFree
    /\ pending' = pending \ {id}
    /\ UNCHANGED <<up, stamp, completed, dirty, saveStep, temporary, file, acknowledged, crashes>>

(* Mutants of Complete: it does not take the mutex, and it keeps the       *)
(* reservation.                                                            *)
CompleteUnlocked(id) ==
    /\ up
    /\ pending' = pending \ {id}
    /\ completed' = completed \cup {id}
    /\ dirty' = TRUE
    /\ acknowledged' = [acknowledged EXCEPT ![stamp] = @ \cup {id}]
    /\ UNCHANGED <<up, stamp, saveStep, temporary, file, crashes>>

CompletePending(id) ==
    /\ MutexFree
    /\ completed' = completed \cup {id}
    /\ dirty' = TRUE
    /\ acknowledged' = [acknowledged EXCEPT ![stamp] = @ \cup {id}]
    /\ UNCHANGED <<up, stamp, pending, saveStep, temporary, file, crashes>>

(* complete is called once OpenSearch has acknowledged the document.       *)
Complete(id) ==
    /\ MutexFree
    /\ pending' = pending \ {id}
    /\ completed' = completed \cup {id}
    /\ dirty' = TRUE
    /\ acknowledged' = [acknowledged EXCEPT ![stamp] = @ \cup {id}]
    /\ UNCHANGED <<up, stamp, saveStep, temporary, file, crashes>>
-----------------------------------------------------------------------------
(* save() takes the mutex and creates the temporary file.                  *)
CreateTemporary ==
    /\ MutexFree
    /\ dirty
    /\ saveStep' = "created"
    /\ temporary' = Truncated
    /\ UNCHANGED <<up, stamp, completed, pending, dirty, file, acknowledged, crashes>>

EncodeTemporary ==
    /\ up
    /\ saveStep = "created"
    /\ saveStep' = "encoded"
    /\ temporary' = [stamp |-> stamp, completed |-> completed]
    /\ UNCHANGED <<up, stamp, completed, pending, dirty, file, acknowledged, crashes>>

CloseTemporary ==
    /\ up
    /\ saveStep = "encoded"
    /\ saveStep' = "closed"
    /\ UNCHANGED <<up, stamp, completed, pending, dirty, temporary, file, acknowledged, crashes>>

RenameTemporary ==
    /\ up
    /\ saveStep = "closed"
    /\ file' = temporary
    /\ temporary' = NoFile
    /\ dirty' = FALSE
    /\ saveStep' = "idle"
    /\ UNCHANGED <<up, stamp, completed, pending, acknowledged, crashes>>

(* Mutant of SaveFails: dirty is reset before the save, not after it.      *)
SaveFailsClean ==
    /\ up
    /\ saveStep # "idle"
    /\ saveStep' = "idle"
    /\ temporary' = NoFile
    /\ dirty' = FALSE
    /\ UNCHANGED <<up, stamp, completed, pending, file, acknowledged, crashes>>

(* chmod, encode, close or rename fails: the deferred calls remove the     *)
(* temporary file and free the mutex, and the tracker stays dirty.         *)
SaveFails ==
    /\ up
    /\ saveStep # "idle"
    /\ saveStep' = "idle"
    /\ temporary' = NoFile
    /\ UNCHANGED <<up, stamp, completed, pending, dirty, file, acknowledged, crashes>>

(* The process dies; a temporary file it leaves behind is never read.      *)
Crash ==
    /\ up
    /\ crashes < MaxCrashes
    /\ crashes' = crashes + 1
    /\ up' = FALSE
    /\ completed' = {}
    /\ pending' = {}
    /\ dirty' = FALSE
    /\ saveStep' = "idle"
    /\ temporary' = NoFile
    /\ UNCHANGED <<stamp, file, acknowledged>>

Next ==
    \/ \E s \in Stamps : Load(s)
    \/ \E id \in Ids : Reserve(id)
    \/ \E id \in pending : Release(id) \/ Complete(id)
    \/ CreateTemporary
    \/ EncodeTemporary
    \/ CloseTemporary
    \/ RenameTemporary
    \/ SaveFails
    \/ Crash

Spec == Init /\ [][Next]_vars

(* main starts the process again, flushProgressLoop calls save() every     *)
(* minute, and a file system that fails does not fail for ever.            *)
Fairness ==
    /\ WF_vars(\E s \in Stamps : Load(s))
    /\ SF_vars(CreateTemporary)
    /\ SF_vars(EncodeTemporary)
    /\ SF_vars(CloseTemporary)
    /\ SF_vars(RenameTemporary)

FairSpec == Spec /\ Fairness
-----------------------------------------------------------------------------
(* A rename is the only way the file changes and it puts a complete file   *)
(* in place: no crash or failed save leaves a file newTerminalProgress     *)
(* cannot decode, which would keep the process from starting.              *)
FileAlwaysLoads == file # Truncated

(* When dirty is false the next save() writes nothing, so everything in    *)
(* completed must be in the file already: no completion is lost by one     *)
(* that arrives between the encoding and the reset of dirty.               *)
CleanMeansSaved ==
    up /\ ~dirty /\ completed # {} =>
        file = [stamp |-> stamp, completed |-> completed]

(* An execution is skipped for ever once it is in completed, so a release  *)
(* may only trust what OpenSearch acknowledged in its own generation,      *)
(* however often processes of other generations rewrote the file.          *)
TrustsOwnGeneration ==
    /\ completed \subseteq acknowledged[stamp]
    /\ file \in SavedProgress => file.completed \subseteq acknowledged[file.stamp]

(* No id is both reserved and completed: a worker that holds a reservation *)
(* cannot be told that its execution needs no work.                        *)
ReservedNotCompleted == pending \cap completed = {}

(* Rewriting the file of one generation never forgets an id it recorded.   *)
SavedNeverForgets ==
    [][(file \in SavedProgress /\ file' \in SavedProgress /\ file'.stamp = file.stamp)
         => file.completed \subseteq file'.completed]_vars

(* A completion reaches the disk unless the process dies before: save()     *)
(* failing leaves the tracker dirty, so a later flush writes it again.     *)
CompletionIsSaved ==
    \A id \in Ids :
        id \in completed ~> \/ ~up
                           \/ /\ file \in SavedProgress
                              /\ file.stamp = stamp
                              /\ id \in file.completed

(* What makes the properties above inductive: between its steps save()     *)
(* holds the mutex, so the temporary file is what completed still is, and  *)
(* the file of the running generation never runs ahead of the tracker.     *)
SaveInProgress ==
    /\ saveStep # "idle" => up /\ dirty
    /\ saveStep \in {"encoded", "closed"} =>
           temporary = [stamp |-> stamp, completed |-> completed]

FileBehindTracker ==
    up /\ file \in SavedProgress /\ file.stamp = stamp => file.completed \subseteq completed

DownIsEmpty ==
    ~up => completed = {} /\ pending = {} /\ dirty = FALSE

IInv ==
    /\ TypeOK
    /\ FileAlwaysLoads
    /\ CleanMeansSaved
    /\ TrustsOwnGeneration
    /\ ReservedNotCompleted
    /\ SaveInProgress
    /\ FileBehindTracker
    /\ DownIsEmpty

(* The abstract tracker.  While no process runs, the abstract one is the   *)
(* process that would load the file.                                       *)
Abstract == INSTANCE ProgressTracker WITH
    Stamps <- Stamps,
    completed <- IF up THEN completed
                 ELSE IF file # NoFile /\ file.stamp = stamp THEN file.completed ELSE {},
    pending <- pending,
    dirty <- dirty,
    file <- file

RefinesTracker == Abstract!Spec
=============================================================================
