------------------------- MODULE ActionResolution -------------------------
(***************************************************************************)
(* One batch action (signal, reset, cancel or terminate) from the request  *)
(* to the jobs Temporal accepts.                                           *)
(*                                                                         *)
(* A selection by filter is resolved page by page with Service.Search      *)
(* (domains/workflows/service/workflows.go, resolveExecutions), each page  *)
(* from shards listed anew, while the pipeline goes on indexing documents  *)
(* and retention deletes shards.  The targets are then handed to Temporal  *)
(* with one call per namespace, all at once                                *)
(* (outbound/temporal/workflows/workflows.go, forEachNamespace).           *)
(***************************************************************************)
EXTENDS Integers, FiniteSets, Sequences, SequencesExt, NaturalSets

CONSTANTS
    MaxId,        \* bound on the document ids; their order is the search order
    Shards,       \* names of the daily shards of the active generation
    ShardOf,      \* [Ids -> Shards]: the shard of the start time
    Namespaces,   \* namespaces the executions belong to
    Configured,   \* namespaces Temporal clients exist for
    NamespaceOf,  \* [Ids -> Namespaces]
    PageSize,     \* actionSearchPageSize
    Explicit,     \* the lists of executions a client may send
    MaxUpdates    \* bound on the changes of the index during the request

Ids == 1 .. MaxId

ASSUME ActionAssumption ==
    /\ MaxId \in Nat /\ MaxUpdates \in Nat
    /\ PageSize \in Nat \ {0}
    /\ ShardOf \in [Ids -> Shards]
    /\ NamespaceOf \in [Ids -> Namespaces]
    /\ Configured \subseteq Namespaces
    /\ Explicit \subseteq Seq(Ids)

VARIABLES
    shards,     \* OpenSearch: the shards that exist
    docs,       \* OpenSearch: what each document is to the filter
    updates,    \* history: how often the index changed
    step,       \* where the handler of the request is
    options,    \* is the reset target, are the excluded reset types valid
    listed,     \* the shards of the search under way
    cursor,     \* the id the next page starts after, 0 for the first page
    targets,    \* the executions resolved so far
    remaining,  \* namespaces forEachNamespace has not come to
    calls,      \* the StartBatchOperation call of each namespace
    jobs,       \* the jobs Temporal accepted, in order
    answer,     \* what the client was told
    steady,     \* history: ids that matched ever since the request came
    seen        \* history: ids that matched at some time since then

indexVars == <<shards, docs, updates>>
resolveVars == <<options, listed, cursor, targets>>
callVars == <<remaining, calls, jobs>>
history == <<steady, seen>>
vars == <<indexVars, step, resolveVars, callVars, answer, history>>

Matching(d) == {i \in Ids : d[i] = "match"}

Init ==
    /\ docs \in [Ids -> {"absent", "other", "match"}]
    /\ shards = {ShardOf[i] : i \in {j \in Ids : docs[j] # "absent"}}
    /\ updates = 0
    /\ step = "idle"
    /\ options = "valid"
    /\ listed = {}
    /\ cursor = 0
    /\ targets = <<>>
    /\ remaining = {}
    /\ calls = [n \in Namespaces |-> "none"]
    /\ jobs = <<>>
    /\ answer = "none"
    /\ steady = {} /\ seen = {}

-----------------------------------------------------------------------------
(* The index changes beside the request.                                   *)

Remember == /\ steady' = steady \cap Matching(docs')
            /\ seen' = IF step = "idle" THEN seen ELSE seen \cup Matching(docs')

\* The pipeline writes a document, which creates its shard if need be.
Publish(i) ==
    /\ updates < MaxUpdates
    /\ \E d \in {"other", "match"} : docs' = [docs EXCEPT ![i] = d]
    /\ shards' = shards \cup {ShardOf[i]}
    /\ updates' = updates + 1
    /\ Remember
    /\ UNCHANGED <<step, resolveVars, callVars, answer>>

\* Retention or DeleteIndex removes a shard with its documents.
DropShard(d) ==
    /\ updates < MaxUpdates
    /\ d \in shards
    /\ shards' = shards \ {d}
    /\ docs' = [i \in Ids |-> IF ShardOf[i] = d THEN "absent" ELSE docs[i]]
    /\ updates' = updates + 1
    /\ Remember
    /\ UNCHANGED <<step, resolveVars, callVars, answer>>

-----------------------------------------------------------------------------
(* The handler.                                                            *)

Answer(a) == step' = "answered" /\ answer' = a

\* Reset checks its target before it resolves anything; resolveExecutions
\* takes a filter or a list of executions, never both and never neither.
Receive(filter, list, opts) ==
    /\ step = "idle"
    /\ options' = opts
    /\ steady' = Matching(docs) /\ seen' = Matching(docs)
    /\ IF opts = "badTarget" \/ (filter <=> list # <<>>)
         THEN /\ Answer("error")
              /\ targets' = targets
         ELSE /\ targets' = list
              /\ step' = IF filter THEN "list" ELSE "options"
              /\ answer' = answer
    /\ UNCHANGED <<indexVars, listed, cursor, callVars>>

\* workflowIndexes; without a shard Search answers an empty last page.
ListShards ==
    /\ step = "list"
    /\ listed' = shards
    /\ step' = IF shards = {} THEN "options" ELSE "query"
    /\ UNCHANGED <<indexVars, options, cursor, targets, callVars, answer, history>>

\* Mutant: the page is found by its offset in all matches.
PageByOffset ==
    LET hits == {i \in Matching(docs) : ShardOf[i] \in listed}
    IN  Ascending({i \in hits : CountUpTo(hits, i) - Len(targets) \in 1 .. PageSize})

\* The hits of one page: the matches after the cursor, in the order of ids.
Hits == {i \in Matching(docs) : i > cursor /\ ShardOf[i] \in listed}
Page == Ascending({i \in Hits : CountUpTo(Hits, i) <= PageSize})

NextCursor(page) == Last(page)

\* Repository.Search; a page that is not full is the last (nextCursor).
Query ==
    /\ step = "query"
    /\ listed \subseteq shards
    /\ targets' = targets \o Page
    /\ IF Len(Page) < PageSize
         THEN step' = "options" /\ cursor' = cursor
         ELSE step' = "list" /\ cursor' = NextCursor(Page)
    /\ UNCHANGED <<indexVars, options, listed, callVars, answer, history>>

\* The listing or the search fails, as it must when a listed shard is gone.
SearchFails ==
    /\ step \in {"list", "query"}
    /\ Answer("error")
    /\ UNCHANGED <<indexVars, resolveVars, callVars, history>>

ByNamespace(executions, n) == SelectSeq(executions, LAMBDA i : NamespaceOf[i] = n)

Group(n) == ByNamespace(targets, n)

\* batchResetOptions, then executionsByNamespace.
GroupTargets ==
    /\ step = "options"
    /\ IF options = "badExclude"
         THEN Answer("error") /\ UNCHANGED remaining
         ELSE /\ remaining' = {NamespaceOf[i] : i \in Range(targets)}
              /\ step' = "spawn"
              /\ UNCHANGED answer
    /\ UNCHANGED <<indexVars, resolveVars, calls, jobs, history>>

\* The loop over the groups comes to namespace n, in any order.
StartCall(n) ==
    /\ step = "spawn"
    /\ n \in remaining \cap Configured
    /\ calls' = [calls EXCEPT ![n] = "open"]
    /\ remaining' = remaining \ {n}
    /\ UNCHANGED <<indexVars, step, resolveVars, jobs, answer, history>>

\* No client for the namespace: the loop returns at once and waits for none
\* of the calls it has started.
UnknownNamespace(n) ==
    /\ step = "spawn"
    /\ n \in remaining \ Configured
    /\ Answer("error")
    /\ UNCHANGED <<indexVars, resolveVars, callVars, history>>

WaitForCalls ==
    /\ step = "spawn"
    /\ remaining = {}
    /\ step' = "wait"
    /\ UNCHANGED <<indexVars, resolveVars, callVars, answer, history>>

\* Temporal accepts the job; the answer may be lost, to an error of the
\* connection or because another call failed and cancelled the context.
CallAccepted(n) ==
    /\ calls[n] = "open"
    /\ \E outcome \in {"accepted", "failed"} : calls' = [calls EXCEPT ![n] = outcome]
    /\ jobs' = Append(jobs, [namespace |-> n, executions |-> Group(n)])
    /\ UNCHANGED <<indexVars, step, resolveVars, remaining, answer, history>>

CallFails(n) ==
    /\ calls[n] = "open"
    /\ calls' = [calls EXCEPT ![n] = "failed"]
    /\ UNCHANGED <<indexVars, step, resolveVars, remaining, jobs, answer, history>>

\* Mutants: errors are not looked at; the first error is answered without
\* waiting; only accepted calls count as done.
CallsDoneUnchecked ==
    /\ step = "wait"
    /\ \A n \in Namespaces : calls[n] # "open"
    /\ Answer("ok")
    /\ UNCHANGED <<indexVars, resolveVars, callVars, history>>
CallsDoneUnawaited ==
    /\ step = "wait"
    /\ Answer(IF \E n \in Namespaces : calls[n] = "failed" THEN "error" ELSE "ok")
    /\ UNCHANGED <<indexVars, resolveVars, callVars, history>>
CallsDoneAccepted ==
    /\ step = "wait"
    /\ \A n \in Namespaces : calls[n] \in {"none", "accepted"}
    /\ Answer("ok")
    /\ UNCHANGED <<indexVars, resolveVars, callVars, history>>

\* group.Wait returns when every call has, with the first error.
CallsDone ==
    /\ step = "wait"
    /\ \A n \in Namespaces : calls[n] # "open"
    /\ Answer(IF \E n \in Namespaces : calls[n] = "failed" THEN "error" ELSE "ok")
    /\ UNCHANGED <<indexVars, resolveVars, callVars, history>>

Handler ==
    \/ ListShards
    \/ Query
    \/ SearchFails
    \/ GroupTargets
    \/ \E n \in Namespaces : StartCall(n) \/ UnknownNamespace(n)
    \/ WaitForCalls
    \/ CallsDone

Call(n) == CallAccepted(n) \/ CallFails(n)

Next ==
    \/ \E i \in Ids : Publish(i)
    \/ \E d \in Shards : DropShard(d)
    \/ \E filter \in BOOLEAN, list \in Explicit \cup {<<>>},
          opts \in {"valid", "badTarget", "badExclude"} : Receive(filter, list, opts)
    \/ Handler
    \/ \E n \in Namespaces : Call(n)

Spec == Init /\ [][Next]_vars

\* A request goroutine is scheduled, and a call to OpenSearch or Temporal
\* returns, at the latest at its deadline.  Nothing makes a request arrive.
FairSpec == Spec /\ WF_vars(Handler) /\ \A n \in Namespaces : WF_vars(Call(n))

-----------------------------------------------------------------------------
ByFilter == cursor > 0 \/ listed # {}
Resolved == step \in {"options", "spawn", "wait"} \/ answer = "ok"

(* Whatever is indexed or deleted between the pages, an execution that     *)
(* matches the filter from the arrival of the request until its targets    *)
(* are resolved is among the targets.                                      *)
StableMatchesAreTargeted ==
    Resolved /\ ByFilter => steady \subseteq Range(targets)

(* Nothing is acted on that never matched the filter, and nothing twice.   *)
OnlyMatchesAreTargeted ==
    ByFilter => /\ Range(targets) \subseteq seen
                /\ \A a, b \in 1 .. Len(targets) : a < b => targets[a] < targets[b]

(* "Success means Temporal accepted each job": after a success the         *)
(* namespace of every target has exactly one job, and that holds all its   *)
(* targets in their order.                                                 *)
SuccessMeansAccepted ==
    answer = "ok" =>
        /\ \A i \in Range(targets) : \E k \in DOMAIN jobs : jobs[k].namespace = NamespaceOf[i]
        /\ \A k, l \in DOMAIN jobs : jobs[k].namespace = jobs[l].namespace => k = l
        /\ \A k \in DOMAIN jobs : jobs[k].executions = Group(jobs[k].namespace)

(* A job may be accepted after the client has its answer only when the     *)
(* targets include a namespace without clients: every other error waits    *)
(* for the calls under way.                                                *)
LateJobsNeedUnknownNamespace ==
    step = "answered" /\ (\E n \in Namespaces : calls[n] = "open") =>
        \E i \in Range(targets) : NamespaceOf[i] \notin Configured

(* Every request is answered, however the index changes: each page starts  *)
(* after the last id of the one before.                                    *)
RequestsAreAnswered == step # "idle" ~> step = "answered"
=============================================================================
