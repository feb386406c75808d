--------------------------- MODULE ShardRetention ---------------------------
(***************************************************************************)
(* The daily OpenSearch shards over the life of a deployment: processes of *)
(* successive index generations (domains/workflows/service/workflows.go)   *)
(* create them, write terminal documents to them and delete them, while    *)
(* days pass.  Deletion is by the retention cron, one shard after another  *)
(* from a listing that ages, or by a call of DeleteIndex.                  *)
(* The ingestion stages are in IngestPipeline: here a process writes one   *)
(* document at a time.                                                     *)
(***************************************************************************)
EXTENDS Naturals

CONSTANTS
    Processes,    \* processes of the deployment
    Generations,  \* index generations: what indexPrefix is made from, in order
    Runs,         \* closed workflow executions
    StartDay,     \* [Runs -> day]: the UTC day of the start time
    Retention,    \* retention period in days
    Overlap,      \* a process may be deployed while another one still runs
    ManualDeletes,\* DeleteIndex is called
    MaxDay,       \* bound on the days that pass
    MaxDeploys,   \* bound on the processes started
    None          \* nothing: no shard, no file, no job

Days == 0 .. MaxDay

ASSUME RetentionAssumption ==
    /\ Generations \subseteq Nat \ {0} /\ Generations # {}
    /\ MaxDay \in Nat /\ MaxDeploys \in Nat
    /\ Retention \in Nat \ {0}
    /\ StartDay \in [Runs -> Days]
    /\ {Overlap, ManualDeletes} \subseteq BOOLEAN

Names == [gen : Generations, day : {StartDay[r] : r \in Runs}]
Shard == [mapped : BOOLEAN, docs : SUBSET Runs]
Write == [run : Runs, step : {"ensure", "add", "settle"}]
Cleanup == [todo : SUBSET Names, cutoff : Days]

ASSUME NoneAssumption ==
    None \notin Shard \cup Write \cup Cleanup \cup [gen : Generations, completed : SUBSET Runs]

VARIABLES
    now,        \* the day
    up,         \* the process runs
    gen,        \* the generation of each process
    tracked,    \* the process is configured with the progress file
    latest,     \* the newest generation deployed so far
    deploys,    \* history: how many processes were started
    shards,     \* OpenSearch: the indexes by name
    writing,    \* the document each process is writing
    cleanup,    \* the retention job of each process
    completed,  \* the progress tracker of each process
    dirty,      \* it holds something the file does not
    file,       \* the progress file
    byHand      \* history: shards DeleteIndex was called for

processVars == <<up, gen, tracked, latest, deploys>>
trackerVars == <<completed, dirty, file>>
vars == <<now, processVars, shards, writing, cleanup, trackerVars, byHand>>

TypeOK ==
    /\ now \in Days
    /\ up \in [Processes -> BOOLEAN]
    /\ gen \in [Processes -> Generations]
    /\ tracked \in [Processes -> BOOLEAN]
    /\ latest \in Generations \cup {0}
    /\ deploys \in 0 .. MaxDeploys
    /\ shards \in [Names -> Shard \cup {None}]
    /\ writing \in [Processes -> Write \cup {None}]
    /\ cleanup \in [Processes -> Cleanup \cup {None}]
    /\ \A p \in Processes : ~up[p] => writing[p] = None /\ cleanup[p] = None
    /\ completed \in [Processes -> SUBSET Runs]
    /\ dirty \in [Processes -> BOOLEAN]
    /\ file \in [gen : Generations, completed : SUBSET Runs] \cup {None}
    /\ byHand \subseteq Names

Init ==
    /\ now = 0
    /\ up = [p \in Processes |-> FALSE]
    /\ gen \in [Processes -> {CHOOSE g \in Generations : TRUE}]
    /\ tracked = [p \in Processes |-> FALSE]
    /\ latest = 0
    /\ deploys = 0
    /\ shards = [s \in Names |-> None]
    /\ writing = [p \in Processes |-> None]
    /\ cleanup = [p \in Processes |-> None]
    /\ completed = [p \in Processes |-> {}]
    /\ dirty = [p \in Processes |-> FALSE]
    /\ file = None
    /\ byHand = {}

(* The whole day precedes the cutoff: day.AddDate(0, 0, 1) <= cutoff, where *)
(* the cutoff is the retention period before the day of the job.           *)
ExpiredOn(day, today) == day + 1 + Retention <= today
Expired(day) == ExpiredOn(day, now)

ShardOf(p, r) == [gen |-> gen[p], day |-> StartDay[r]]
-----------------------------------------------------------------------------
NextDay ==
    /\ now < MaxDay
    /\ now' = now + 1
    /\ UNCHANGED <<processVars, shards, writing, cleanup, trackerVars, byHand>>

(* New and Start, with or without a progress file.  Generations are only   *)
(* bumped, never taken back.                                               *)
Deploy(p, g, track) ==
    /\ ~up[p]
    /\ deploys < MaxDeploys
    /\ Overlap \/ \A q \in Processes : ~up[q]
    /\ g >= latest
    /\ up' = [up EXCEPT ![p] = TRUE]
    /\ gen' = [gen EXCEPT ![p] = g]
    /\ tracked' = [tracked EXCEPT ![p] = track]
    /\ latest' = g
    /\ deploys' = deploys + 1
    /\ completed' = [completed EXCEPT ![p] =
           IF track /\ file # None /\ file.gen = g THEN file.completed ELSE {}]
    /\ UNCHANGED <<now, shards, writing, cleanup, dirty, file, byHand>>

(* The process stops or dies.  The last one of the bound runs on.          *)
Exit(p) ==
    /\ up[p]
    /\ deploys < MaxDeploys
    /\ up' = [up EXCEPT ![p] = FALSE]
    /\ writing' = [writing EXCEPT ![p] = None]
    /\ cleanup' = [cleanup EXCEPT ![p] = None]
    /\ completed' = [completed EXCEPT ![p] = {}]
    /\ dirty' = [dirty EXCEPT ![p] = FALSE]
    /\ UNCHANGED <<now, gen, tracked, latest, deploys, shards, file, byHand>>
-----------------------------------------------------------------------------
(* The scans list what started within the retention period.                *)
BeginWrite(p, r) ==
    /\ up[p] /\ writing[p] = None
    /\ StartDay[r] <= now /\ ~Expired(StartDay[r])
    /\ r \notin completed[p]
    /\ writing' = [writing EXCEPT ![p] = [run |-> r, step |-> "ensure"]]
    /\ UNCHANGED <<now, processVars, shards, cleanup, trackerVars, byHand>>

AtStep(p, step) == writing[p] # None /\ writing[p].step = step
Target(p) == ShardOf(p, writing[p].run)

(* Mutant of EnsureIndex: an error is taken for "already exists".          *)
EnsureIndexIgnoringErrors(p) ==
    /\ AtStep(p, "ensure")
    /\ \/ shards' = [shards EXCEPT ![Target(p)] =
             IF @ = None THEN [mapped |-> TRUE, docs |-> {}] ELSE @]
       \/ UNCHANGED shards
    /\ writing' = [writing EXCEPT ![p].step = "add"]
    /\ UNCHANGED <<now, processVars, cleanup, trackerVars, byHand>>

(* ensureIndex: an index that exists is left as it is.                     *)
EnsureIndex(p) ==
    /\ AtStep(p, "ensure")
    /\ \/ /\ shards' = [shards EXCEPT ![Target(p)] =
                 IF @ = None THEN [mapped |-> TRUE, docs |-> {}] ELSE @]
          /\ writing' = [writing EXCEPT ![p].step = "add"]
       \/ /\ writing' = [writing EXCEPT ![p] = None]
          /\ UNCHANGED shards
    /\ UNCHANGED <<now, processVars, cleanup, trackerVars, byHand>>

(* Add.  A bulk write creates an index that is missing, with a mapping that *)
(* OpenSearch derives from the documents.                                  *)
WithDocument(shard, r) ==
    IF shard = None THEN [mapped |-> FALSE, docs |-> {r}]
    ELSE [shard EXCEPT !.docs = @ \cup {r}]

AddSucceeds(p) ==
    /\ AtStep(p, "add")
    /\ shards' = [shards EXCEPT ![Target(p)] = WithDocument(@, writing[p].run)]
    /\ writing' = [writing EXCEPT ![p].step = "settle"]
    /\ UNCHANGED <<now, processVars, cleanup, trackerVars, byHand>>

(* Mutant of AddFails: an error does not keep the document from completion. *)
AddFailsSettled(p) ==
    /\ AtStep(p, "add")
    /\ \/ shards' = [shards EXCEPT ![Target(p)] = WithDocument(@, writing[p].run)]
       \/ UNCHANGED shards
    /\ writing' = [writing EXCEPT ![p].step = "settle"]
    /\ UNCHANGED <<now, processVars, cleanup, trackerVars, byHand>>

(* The call failed, or its answer was lost.                                *)
AddFails(p) ==
    /\ AtStep(p, "add")
    /\ \/ shards' = [shards EXCEPT ![Target(p)] = WithDocument(@, writing[p].run)]
       \/ UNCHANGED shards
    /\ writing' = [writing EXCEPT ![p] = None]
    /\ UNCHANGED <<now, processVars, cleanup, trackerVars, byHand>>

Settle(p) ==
    /\ AtStep(p, "settle")
    /\ IF tracked[p]
       THEN /\ completed' = [completed EXCEPT ![p] = @ \cup {writing[p].run}]
            /\ dirty' = [dirty EXCEPT ![p] = TRUE]
       ELSE UNCHANGED <<completed, dirty>>
    /\ writing' = [writing EXCEPT ![p] = None]
    /\ UNCHANGED <<now, processVars, shards, cleanup, file, byHand>>

SaveProgress(p) ==
    /\ up[p] /\ dirty[p]
    /\ file' = [gen |-> gen[p], completed |-> completed[p]]
    /\ dirty' = [dirty EXCEPT ![p] = FALSE]
    /\ UNCHANGED <<now, processVars, shards, writing, cleanup, completed, byHand>>
-----------------------------------------------------------------------------
(* deleteExpiredShards: the first one when the process starts, the others  *)
(* when the cron fires.                                                    *)
ListShards(p) ==
    /\ up[p] /\ cleanup[p] = None
    /\ cleanup' = [cleanup EXCEPT ![p] =
           [todo |-> {s \in Names : shards[s] # None}, cutoff |-> now]]
    /\ UNCHANGED <<now, processVars, shards, writing, trackerVars, byHand>>

(* Mutants of Deletes: superseded generations are left alone, and a day of  *)
(* the running generation is judged by its beginning.                      *)
DeletesOnlyActive(p, s) == s.gen = gen[p] /\ ExpiredOn(s.day, cleanup[p].cutoff)
DeletesFirstHour(p, s) == s.gen # gen[p] \/ s.day + Retention <= cleanup[p].cutoff

Deletes(p, s) == s.gen # gen[p] \/ ExpiredOn(s.day, cleanup[p].cutoff)

(* A deletion that fails is left to the next job.                          *)
VisitShard(p, s) ==
    /\ cleanup[p] # None
    /\ s \in cleanup[p].todo
    /\ \/ Deletes(p, s) /\ shards' = [shards EXCEPT ![s] = None]
       \/ UNCHANGED shards
    /\ cleanup' = [cleanup EXCEPT ![p].todo = @ \ {s}]
    /\ UNCHANGED <<now, processVars, writing, trackerVars, byHand>>

EndCleanup(p) ==
    /\ cleanup[p] # None /\ cleanup[p].todo = {}
    /\ cleanup' = [cleanup EXCEPT ![p] = None]
    /\ UNCHANGED <<now, processVars, shards, writing, trackerVars, byHand>>

(* DeleteIndex of the API takes the active generation's shards.            *)
DeleteIndex(p, s) ==
    /\ ManualDeletes
    /\ up[p] /\ s.gen = gen[p] /\ s \notin byHand
    /\ shards' = [shards EXCEPT ![s] = None]
    /\ byHand' = byHand \cup {s}
    /\ UNCHANGED <<now, processVars, writing, cleanup, trackerVars>>

Next ==
    \/ NextDay
    \/ \E p \in Processes :
          \/ \E g \in Generations, track \in BOOLEAN : Deploy(p, g, track)
          \/ Exit(p)
          \/ \E r \in Runs : BeginWrite(p, r)
          \/ EnsureIndex(p) \/ AddSucceeds(p) \/ AddFails(p) \/ Settle(p)
          \/ SaveProgress(p)
          \/ ListShards(p)
          \/ \E s \in Names : VisitShard(p, s) \/ DeleteIndex(p, s)
          \/ EndCleanup(p)

Spec == Init /\ [][Next]_vars

(* The scheduler fires for ever, a deletion retried for ever succeeds, a   *)
(* write ends, and what stops is started again, in the end with the newest *)
(* generation.                                                             *)
DeletesShard(p, s) == VisitShard(p, s) /\ shards'[s] = None

Fairness ==
    /\ WF_vars(\E p \in Processes, g \in Generations, track \in BOOLEAN : Deploy(p, g, track))
    /\ \A p \in Processes :
          /\ WF_vars(EnsureIndex(p))
          /\ WF_vars(AddSucceeds(p) \/ AddFails(p))
          /\ WF_vars(Settle(p))
          /\ WF_vars(ListShards(p))
          /\ WF_vars(\E s \in Names : VisitShard(p, s))
          /\ WF_vars(EndCleanup(p))
          /\ \A s \in Names : SF_vars(DeletesShard(p, s))

FairSpec == Spec /\ Fairness
-----------------------------------------------------------------------------
(* Scans skip what the tracker calls completed, so its document must be in *)
(* the shard searches read, unless that shard is past the retention period *)
(* or was deleted on request: neither the cleanup, whose listing ages, nor *)
(* a change of generation may leave a hole that no scan fills.             *)
CompletedIsSearchable ==
    \A p \in Processes : up[p] =>
        \A r \in completed[p] :
            LET s == ShardOf(p, r) IN
            \/ shards[s] # None /\ r \in shards[s].docs
            \/ Expired(s.day)
            \/ s \in byHand

(* A shard without the explicit mapping keeps it as long as it exists, for *)
(* CreateIndex finds it there.  Only a late write to a shard that retention *)
(* or a request deleted makes one.                                         *)
UnmappedIsDoomed ==
    \A s \in Names : shards[s] # None /\ ~shards[s].mapped => Expired(s.day) \/ s \in byHand

(* "deleteExpiredShards deletes superseded index generations immediately   *)
(* and active shards once their entire day precedes the retention cutoff"  *)
(* (domains/workflows/service/workflows.go:685): nothing else goes, unless *)
(* DeleteIndex is asked to.                                                *)
CurrentIsKept ==
    [][\A s \in Names : shards[s] # None /\ shards'[s] = None =>
          s.gen < latest \/ Expired(s.day) \/ s \in byHand']_vars

(* What retention deletes does not come back: a document that was on its   *)
(* way may create the shard once more, and a later job deletes it again.   *)
Obsolete(s) == Expired(s.day) \/ s.gen < latest

ObsoleteStaysDeleted ==
    \A s \in Names : Obsolete(s) ~> [](shards[s] = None)
=============================================================================
