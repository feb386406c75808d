----------------------- MODULE ActionResolutionProofs -----------------------
(***************************************************************************)
(* What an action answers, and how the pages of an index that changes add  *)
(* up to its targets, for every index, selection, page size and set of     *)
(* namespaces.                                                             *)
(***************************************************************************)
EXTENDS ActionResolution, NaturalSetsProofs, TLAPS

TargetNamespaces == {NamespaceOf[i] : i \in Range(targets)}

Jobs == [namespace : Namespaces, executions : {Group(n) : n \in Namespaces}]

CallTypes ==
    /\ calls \in [Namespaces -> {"none", "open", "accepted", "failed"}]
    /\ jobs \in Seq(Jobs)

\* Nothing is called before the targets are known.
NothingCalledYet ==
    step \in {"idle", "list", "query", "options"} =>
        /\ calls = [n \in Namespaces |-> "none"]
        /\ jobs = <<>> /\ answer = "none"

\* The loop has called every namespace of the targets it has left behind.
CallsAreTracked ==
    step \in {"spawn", "wait"} =>
        /\ answer = "none"
        /\ remaining \subseteq TargetNamespaces
        /\ \A n \in TargetNamespaces \ remaining : n \in Namespaces /\ calls[n] # "none"
        /\ \A n \in Namespaces \cap remaining : calls[n] = "none"

WaitingForAll == step = "wait" => remaining = {}

\* A job stands for a call that is over, and there is one for every accepted call.
JobsAreAccepted ==
    /\ \A k \in DOMAIN jobs :
          /\ calls[jobs[k].namespace] \in {"accepted", "failed"}
          /\ jobs[k].executions = Group(jobs[k].namespace)
    /\ \A k, l \in DOMAIN jobs : jobs[k].namespace = jobs[l].namespace => k = l
    /\ \A n \in Namespaces : calls[n] = "accepted" => \E k \in DOMAIN jobs : jobs[k].namespace = n

SuccessIsComplete ==
    /\ answer # "none" => step = "answered"
    /\ answer = "ok" => \A n \in TargetNamespaces : n \in Namespaces /\ calls[n] = "accepted"

StepType == step \in {"idle", "list", "query", "options", "spawn", "wait", "answered"}

ActionInv ==
    /\ StepType /\ CallTypes /\ NothingCalledYet /\ CallsAreTracked /\ WaitingForAll
    /\ JobsAreAccepted /\ SuccessIsComplete /\ LateJobsNeedUnknownNamespace

LEMMA ActionInit == Init => ActionInv
BY DEF Init, ActionInv, StepType, CallTypes, NothingCalledYet, CallsAreTracked, WaitingForAll,
   JobsAreAccepted, SuccessIsComplete, LateJobsNeedUnknownNamespace

LEMMA TargetsKept ==
    ASSUME UNCHANGED targets
    PROVE  /\ TargetNamespaces' = TargetNamespaces
           /\ \A n : Group(n)' = Group(n)
           /\ Jobs' = Jobs
<1>1. TargetNamespaces' = TargetNamespaces
  BY DEF TargetNamespaces
<1>2. ASSUME NEW n PROVE Group(n)' = Group(n)
  BY DEF Group
<1>3. Jobs' = Jobs
  BY <1>2 DEF Jobs
<1> QED BY <1>1, <1>2, <1>3

LEMMA JobsHaveNamespaces ==
    ASSUME jobs \in Seq(Jobs), NEW k \in DOMAIN jobs
    PROVE  jobs[k].namespace \in Namespaces
<1>1. jobs[k] \in Jobs
  OBVIOUS
<1> QED BY <1>1 DEF Jobs

\* Nothing the invariant speaks of changes.
LEMMA ActionStutter ==
    ASSUME ActionInv, UNCHANGED <<step, targets, callVars, answer>>
    PROVE  ActionInv'
<1>1. UNCHANGED <<step, targets, remaining, calls, jobs, answer>>
  BY DEF callVars
<1>2. /\ TargetNamespaces' = TargetNamespaces
      /\ \A n : Group(n)' = Group(n)
      /\ Jobs' = Jobs
  BY <1>1, TargetsKept
<1>3. CallTypes' /\ StepType' /\ NothingCalledYet' /\ WaitingForAll'
  BY <1>1, <1>2 DEF ActionInv, CallTypes, StepType, NothingCalledYet, WaitingForAll
<1>4. CallsAreTracked' /\ SuccessIsComplete'
  BY <1>1, <1>2 DEF ActionInv, CallsAreTracked, SuccessIsComplete
<1>5. JobsAreAccepted'
  BY <1>1, <1>2 DEF ActionInv, JobsAreAccepted
<1>6. LateJobsNeedUnknownNamespace'
  BY <1>1 DEF ActionInv, LateJobsNeedUnknownNamespace
<1> QED BY <1>3, <1>4, <1>5, <1>6 DEF ActionInv

\* While nothing has been called, whatever becomes of the targets.
LEMMA Uncalled ==
    ASSUME ActionInv, step \in {"idle", "list", "query", "options"},
           UNCHANGED <<calls, jobs>>,
           \/ step' \in {"list", "query", "options"} /\ answer' = answer
           \/ step' = "answered" /\ answer' = "error"
    PROVE  ActionInv'
<1>1. /\ calls = [n \in Namespaces |-> "none"] /\ jobs = <<>> /\ answer = "none"
  BY DEF ActionInv, NothingCalledYet
<1>2. CallTypes' /\ NothingCalledYet'
  BY <1>1 DEF CallTypes, NothingCalledYet
<1>3. CallsAreTracked' /\ WaitingForAll' /\ StepType'
  BY DEF CallsAreTracked, WaitingForAll, StepType
<1>4. JobsAreAccepted' /\ SuccessIsComplete'
  BY <1>1 DEF JobsAreAccepted, SuccessIsComplete
<1>5. LateJobsNeedUnknownNamespace'
  BY <1>1 DEF LateJobsNeedUnknownNamespace
<1> QED BY <1>2, <1>3, <1>4, <1>5 DEF ActionInv

LEMMA GroupStep ==
    ASSUME ActionInv, GroupTargets
    PROVE  ActionInv'
<1>1. step = "options" /\ UNCHANGED <<targets, calls, jobs>>
  BY DEF GroupTargets, resolveVars
<1>2. CASE options = "badExclude"
  <2>1. step' = "answered" /\ answer' = "error"
    BY <1>2 DEF GroupTargets, Answer
  <2> QED BY <1>1, <2>1, Uncalled
<1>3. CASE options # "badExclude"
  <2>1. step' = "spawn" /\ answer' = answer /\ remaining' = TargetNamespaces
    BY <1>3 DEF GroupTargets, TargetNamespaces
  <2>2. calls = [n \in Namespaces |-> "none"] /\ jobs = <<>> /\ answer = "none"
    BY <1>1 DEF ActionInv, NothingCalledYet
  <2>3. TargetNamespaces' = TargetNamespaces
    BY <1>1 DEF TargetNamespaces
  <2> QED BY <1>1, <2>1, <2>2, <2>3
          DEF ActionInv, StepType, CallTypes, NothingCalledYet, CallsAreTracked, WaitingForAll,
              JobsAreAccepted, SuccessIsComplete, LateJobsNeedUnknownNamespace
<1> QED BY <1>2, <1>3

LEMMA StartStep ==
    ASSUME ActionInv, NEW n \in Namespaces, StartCall(n)
    PROVE  ActionInv'
<1>1. /\ step = "spawn" /\ n \in remaining
      /\ calls' = [calls EXCEPT ![n] = "open"] /\ remaining' = remaining \ {n}
      /\ UNCHANGED <<step, targets, jobs, answer>>
  BY DEF StartCall, resolveVars
<1>2. /\ TargetNamespaces' = TargetNamespaces
      /\ \A m : Group(m)' = Group(m)
      /\ Jobs' = Jobs
  BY <1>1, TargetsKept
<1>3. answer = "none" /\ calls[n] = "none"
  BY <1>1 DEF ActionInv, CallsAreTracked
<1>4. CallTypes' /\ StepType' /\ NothingCalledYet' /\ WaitingForAll'
  BY <1>1, <1>2 DEF ActionInv, CallTypes, StepType, NothingCalledYet, WaitingForAll
<1>5. CallsAreTracked'
  BY <1>1, <1>2 DEF ActionInv, CallTypes, CallsAreTracked
<1>6. jobs \in Seq(Jobs)
  BY DEF ActionInv, CallTypes
<1>7. \A k \in DOMAIN jobs : jobs[k].namespace \in Namespaces \ {n}
  BY <1>3, <1>6, JobsHaveNamespaces DEF ActionInv, JobsAreAccepted
<1>8. JobsAreAccepted'
  BY <1>1, <1>2, <1>7 DEF ActionInv, CallTypes, JobsAreAccepted
<1>9. SuccessIsComplete' /\ LateJobsNeedUnknownNamespace'
  BY <1>1, <1>3 DEF SuccessIsComplete, LateJobsNeedUnknownNamespace
<1> QED BY <1>4, <1>5, <1>8, <1>9 DEF ActionInv

\* A call is over: accepted, with or without an answer, or failed.
LEMMA CallStep ==
    ASSUME ActionInv, NEW n \in Namespaces, CallAccepted(n) \/ CallFails(n)
    PROVE  ActionInv'
<1>1. /\ calls[n] = "open"
      /\ UNCHANGED <<step, targets, remaining, answer>>
  BY DEF CallAccepted, CallFails, resolveVars
<1>2. PICK outcome \in {"accepted", "failed"} : calls' = [calls EXCEPT ![n] = outcome]
  BY DEF CallAccepted, CallFails
<1>3. /\ TargetNamespaces' = TargetNamespaces
      /\ \A m : Group(m)' = Group(m)
      /\ Jobs' = Jobs
  BY <1>1, TargetsKept
<1>4. jobs \in Seq(Jobs) /\ calls \in [Namespaces -> {"none", "open", "accepted", "failed"}]
  BY DEF ActionInv, CallTypes
<1>5. step \notin {"idle", "list", "query", "options"}
  BY <1>1 DEF ActionInv, NothingCalledYet
<1>6. StepType' /\ NothingCalledYet' /\ WaitingForAll'
  BY <1>1, <1>5 DEF ActionInv, StepType, NothingCalledYet, WaitingForAll
<1>7. CallsAreTracked' /\ SuccessIsComplete'
  BY <1>1, <1>2, <1>3, <1>4 DEF ActionInv, CallsAreTracked, SuccessIsComplete
<1>8. LateJobsNeedUnknownNamespace'
  BY <1>1, <1>2, <1>4 DEF ActionInv, LateJobsNeedUnknownNamespace
<1>9. \A k \in DOMAIN jobs : jobs[k].namespace \in Namespaces \ {n}
  BY <1>1, <1>4, JobsHaveNamespaces DEF ActionInv, JobsAreAccepted
<1>10. CASE CallFails(n)
  <2>1. jobs' = jobs /\ calls' = [calls EXCEPT ![n] = "failed"]
    BY <1>10 DEF CallFails
  <2>2. CallTypes'
    BY <1>3, <1>4, <2>1 DEF CallTypes
  <2>3. JobsAreAccepted'
    BY <1>3, <1>4, <1>9, <2>1 DEF ActionInv, JobsAreAccepted
  <2> QED BY <1>6, <1>7, <1>8, <2>2, <2>3 DEF ActionInv
<1>11. CASE CallAccepted(n)
  <2> DEFINE job == [namespace |-> n, executions |-> Group(n)]
  <2>1. jobs' = Append(jobs, job)
    BY <1>11 DEF CallAccepted
  <2>2. job \in Jobs /\ job.namespace = n /\ job.executions = Group(n)
    BY DEF Jobs
  <2> HIDE DEF job
  <2>3. /\ jobs' \in Seq(Jobs)
        /\ DOMAIN jobs' = DOMAIN jobs \cup {Len(jobs) + 1}
        /\ \A k \in DOMAIN jobs : jobs'[k] = jobs[k]
        /\ jobs'[Len(jobs) + 1] = job
    BY <1>4, <2>1, <2>2
  <2>4. CallTypes'
    BY <1>2, <1>3, <1>4, <2>3 DEF CallTypes
  <2>5. \A k \in DOMAIN jobs' :
           /\ calls'[jobs'[k].namespace] \in {"accepted", "failed"}
           /\ jobs'[k].executions = Group(jobs[k].namespace)'
    <3>1. ASSUME NEW k \in DOMAIN jobs
          PROVE  /\ calls'[jobs'[k].namespace] \in {"accepted", "failed"}
                 /\ jobs'[k].executions = Group(jobs[k].namespace)'
      BY <1>2, <1>3, <1>4, <1>9, <2>3 DEF ActionInv, JobsAreAccepted
    <3>2. calls'[n] \in {"accepted", "failed"}
      BY <1>2, <1>4
    <3> QED BY <1>3, <2>2, <2>3, <3>1, <3>2
  <2>6. \A k, l \in DOMAIN jobs' : jobs'[k].namespace = jobs'[l].namespace => k = l
    BY <1>9, <2>2, <2>3 DEF ActionInv, JobsAreAccepted
  <2>7. \A m \in Namespaces : calls'[m] = "accepted" => \E k \in DOMAIN jobs' : jobs'[k].namespace = m
    BY <1>2, <1>4, <2>2, <2>3 DEF ActionInv, JobsAreAccepted
  <2> QED BY <1>6, <1>7, <1>8, <2>4, <2>5, <2>6, <2>7 DEF ActionInv, JobsAreAccepted
<1> QED BY <1>10, <1>11

\* The handler waits for its calls, or answers.
LEMMA AnswerStep ==
    ASSUME ActionInv, WaitForCalls \/ CallsDone \/ (\E n \in Namespaces : UnknownNamespace(n))
    PROVE  ActionInv'
<1>1. /\ step \in {"spawn", "wait"}
      /\ UNCHANGED <<targets, remaining, calls, jobs>>
      /\ step' \in {"wait", "answered"}
  BY DEF WaitForCalls, CallsDone, UnknownNamespace, Answer, resolveVars, callVars
<1>2. /\ TargetNamespaces' = TargetNamespaces
      /\ \A m : Group(m)' = Group(m)
      /\ Jobs' = Jobs
  BY <1>1, TargetsKept
<1>3. CallTypes' /\ JobsAreAccepted'
  BY <1>1, <1>2 DEF ActionInv, CallTypes, JobsAreAccepted
<1>4. StepType' /\ NothingCalledYet'
  BY <1>1 DEF StepType, NothingCalledYet
<1>5. CASE WaitForCalls
  <2>1. step' = "wait" /\ remaining = {} /\ answer' = answer
    BY <1>5 DEF WaitForCalls
  <2> QED BY <1>1, <1>2, <1>3, <1>4, <2>1
          DEF ActionInv, CallsAreTracked, WaitingForAll, SuccessIsComplete, LateJobsNeedUnknownNamespace
<1>6. CASE \E n \in Namespaces : UnknownNamespace(n)
  <2>1. PICK n \in Namespaces : n \in remaining \ Configured /\ step = "spawn"
    BY <1>6 DEF UnknownNamespace
  <2>2. step' = "answered" /\ answer' = "error"
    BY <1>6 DEF UnknownNamespace, Answer
  <2>3. n \in TargetNamespaces
    BY <2>1 DEF ActionInv, CallsAreTracked
  <2>4. \E i \in Range(targets') : NamespaceOf[i] \notin Configured
    BY <1>1, <2>1, <2>3 DEF TargetNamespaces
  <2> QED BY <1>3, <1>4, <2>2, <2>4
          DEF ActionInv, CallsAreTracked, WaitingForAll, SuccessIsComplete, LateJobsNeedUnknownNamespace
<1>7. CASE CallsDone
  <2>1. /\ step = "wait" /\ \A n \in Namespaces : calls[n] # "open"
        /\ step' = "answered"
        /\ answer' = IF \E n \in Namespaces : calls[n] = "failed" THEN "error" ELSE "ok"
    BY <1>7 DEF CallsDone, Answer
  <2>2. answer' = "ok" => \A n \in TargetNamespaces : n \in Namespaces /\ calls[n] = "accepted"
    BY <2>1 DEF ActionInv, CallTypes, CallsAreTracked, WaitingForAll
  <2> QED BY <1>1, <1>2, <1>3, <1>4, <2>1, <2>2
          DEF ActionInv, CallsAreTracked, WaitingForAll, SuccessIsComplete, LateJobsNeedUnknownNamespace
<1> QED BY <1>5, <1>6, <1>7

LEMMA ActionStep == ActionInv /\ [Next]_vars => ActionInv'
<1> SUFFICES ASSUME ActionInv, [Next]_vars PROVE ActionInv'
  OBVIOUS
<1>1. ASSUME \/ \E i \in Ids : Publish(i)
             \/ \E d \in Shards : DropShard(d)
             \/ UNCHANGED vars
      PROVE  ActionInv'
  BY <1>1, ActionStutter DEF Publish, DropShard, vars, resolveVars
<1>2. ASSUME NEW filter \in BOOLEAN, NEW list, NEW opts, Receive(filter, list, opts)
      PROVE  ActionInv'
  BY <1>2, Uncalled DEF Receive, Answer, callVars
<1>3. ASSUME ListShards \/ Query \/ SearchFails PROVE ActionInv'
  BY <1>3, Uncalled DEF ListShards, Query, SearchFails, Answer, callVars
<1> QED BY <1>1, <1>2, <1>3, GroupStep, StartStep, CallStep, AnswerStep DEF Next, Handler, Call

\* A success is never half of an action.
THEOREM SuccessIsWhole == Spec => []SuccessMeansAccepted
<1>1. ActionInv => SuccessMeansAccepted
  BY DEF ActionInv, SuccessIsComplete, JobsAreAccepted, SuccessMeansAccepted, TargetNamespaces
<1> QED BY <1>1, ActionInit, ActionStep, PTL DEF Spec

\* Only a namespace without clients leaves jobs to be accepted after the answer.
THEOREM LateJobsAreExplained == Spec => []LateJobsNeedUnknownNamespace
<1>1. ActionInv => LateJobsNeedUnknownNamespace
  BY DEF ActionInv
<1> QED BY <1>1, ActionInit, ActionStep, PTL DEF Spec

-----------------------------------------------------------------------------
(* The pages.                                                              *)

\* What is searchable is in a shard that exists.
IndexInv ==
    /\ docs \in [Ids -> {"absent", "other", "match"}]
    /\ \A i \in Ids : docs[i] # "absent" => ShardOf[i] \in shards
    /\ targets \in Seq(Ids)
    /\ cursor \in 0 .. MaxId

IsAscending(seq) == \A a, b \in 1 .. Len(seq) : a < b => seq[a] < seq[b]

\* The targets before the cursor: all that matched, and nothing behind it.
UpToCursor ==
    /\ IsAscending(targets) /\ Range(targets) \subseteq seen
    /\ \A i \in Range(targets) : i <= cursor
    /\ \A i \in steady : i <= cursor => i \in Range(targets)

NothingResolvedYet == step = "idle" => cursor = 0 /\ listed = {} /\ targets = <<>>

\* Shards listed for a page hold what has matched since.
ListedHold == step = "query" => \A i \in steady : ShardOf[i] \in listed

PageInv ==
    /\ StepType /\ IndexInv /\ NothingResolvedYet /\ ListedHold
    /\ steady \subseteq Matching(docs)
    /\ step # "idle" => Matching(docs) \subseteq seen
    /\ step \in {"list", "query"} => UpToCursor
    /\ answer # "none" => step = "answered"
    /\ OnlyMatchesAreTargeted /\ StableMatchesAreTargeted

\* A page is the least hits in their order, and all of them if it is not full.
LEMMA PageFacts ==
    ASSUME IndexInv
    PROVE  /\ Page \in Seq(Ids) /\ IsAscending(Page)
           /\ Range(Page) \subseteq Hits
           /\ Len(Page) < PageSize => Range(Page) = Hits
           /\ Len(Page) >= PageSize =>
                 /\ Last(Page) \in Hits
                 /\ \A i \in Range(Page) : i <= Last(Page)
                 /\ \A i \in Hits : i <= Last(Page) => i \in Range(Page)
<1> DEFINE first == {i \in Hits : CountUpTo(Hits, i) <= PageSize}
           n == Cardinality(first)
<1>1. PageSize \in Nat \ {0} /\ MaxId \in Nat
  BY ActionAssumption
<1>2. Hits \in SUBSET Nat /\ Hits \in SUBSET Ids /\ IsFiniteSet(Hits)
  <2>1. IsFiniteSet(Ids)
    BY <1>1, FS_Interval DEF Ids
  <2>2. Hits \in SUBSET Ids
    BY DEF Hits, Matching
  <2>3. Ids \subseteq Nat
    BY DEF Ids
  <2> QED
    BY <2>1, <2>2, <2>3, FS_Subset
<1>3. first \in SUBSET Hits /\ first \in SUBSET Nat /\ first \in SUBSET Ids
  BY <1>2
<1>4. IsFiniteSet(first)
  BY <1>2, <1>3, FS_Subset
<1>5. Page = Ascending(first)
  BY DEF Page
<1>6. n < PageSize => first = Hits
  BY <1>1, <1>2, FirstCounts
<1>7. \A i, k \in Hits : i < k => CountUpTo(Hits, i) < CountUpTo(Hits, k)
  BY <1>2, CountGrows
<1>8. \A i \in Hits : CountUpTo(Hits, i) \in Nat
  BY <1>2, CountType
<1>9. \A i \in first, h \in Hits : h <= i => h \in first
  <2> SUFFICES ASSUME NEW i \in first, NEW h \in Hits, h < i
               PROVE  h \in first
    BY <1>2, <1>3
  <2>1. CountUpTo(Hits, h) < CountUpTo(Hits, i) /\ CountUpTo(Hits, i) <= PageSize
    BY <1>3, <1>7
  <2> QED
    BY <1>1, <1>3, <1>8, <2>1
<1> HIDE DEF first
<1>10. /\ n \in Nat /\ Page \in [1 .. n -> first]
       /\ \A i \in first : CountUpTo(first, i) \in 1 .. n /\ Page[CountUpTo(first, i)] = i
       /\ \A k, l \in 1 .. n : k < l => Page[k] < Page[l]
  BY <1>3, <1>4, <1>5, AscendingOrder
<1> HIDE DEF n
<1>11. Page \in Seq(Ids) /\ Len(Page) = n /\ DOMAIN Page = 1 .. n
  <2>1. n \in Nat /\ Page \in [1 .. n -> Ids]
    BY <1>3, <1>10
  <2> QED
    BY <2>1, FunctionIsSeq
<1>12. Range(Page) = first
  BY <1>10, <1>11 DEF Range
<1>13. ASSUME n >= PageSize
       PROVE  Last(Page) \in first /\ \A i \in first : i <= Last(Page)
  <2>1. n \in 1 .. n /\ Last(Page) = Page[n]
    BY <1>1, <1>10, <1>11, <1>13 DEF Last
  <2>2. ASSUME NEW i \in first
        PROVE  i <= Page[n]
    <3>1. PICK k \in 1 .. n : Page[k] = i
      BY <1>10
    <3>2. Page[k] \in Nat /\ Page[n] \in Nat
      BY <1>3, <1>10, <2>1
    <3>3. k < n \/ k = n
      BY <1>10
    <3> QED
      BY <1>10, <2>1, <3>1, <3>2, <3>3
  <2> QED
    BY <1>10, <2>1, <2>2
<1> QED
  BY <1>3, <1>6, <1>9, <1>10, <1>11, <1>12, <1>13 DEF IsAscending, n

LEMMA PageInit == Init => PageInv
<1> SUFFICES ASSUME Init
             PROVE  PageInv
  OBVIOUS
<1>1. /\ step = "idle" /\ answer = "none" /\ cursor = 0 /\ listed = {} /\ targets = <<>>
      /\ steady = {} /\ docs \in [Ids -> {"absent", "other", "match"}]
      /\ shards = {ShardOf[i] : i \in {j \in Ids : docs[j] # "absent"}}
  BY DEF Init
<1>2. IndexInv
  BY <1>1, ActionAssumption DEF IndexInv
<1>3. ~ByFilter
  BY <1>1 DEF ByFilter
<1> QED
  BY <1>1, <1>2, <1>3
     DEF PageInv, StepType, NothingResolvedYet, ListedHold, UpToCursor, OnlyMatchesAreTargeted,
         StableMatchesAreTargeted

\* The index changes beside the request: what still matches did so before.
LEMMA IndexStep ==
    ASSUME PageInv, (\E i \in Ids : Publish(i)) \/ (\E d \in Shards : DropShard(d))
    PROVE  PageInv'
<1>1. /\ UNCHANGED <<step, options, listed, cursor, targets, answer>>
      /\ steady' = steady \cap Matching(docs)'
      /\ seen' = IF step = "idle" THEN seen ELSE seen \cup Matching(docs)'
  BY DEF Publish, DropShard, Remember, resolveVars, Matching
<1>2. IndexInv'
  <2>1. docs' \in [Ids -> {"absent", "other", "match"}]
    BY DEF Publish, DropShard, PageInv, IndexInv
  <2>2. \A i \in Ids : docs'[i] # "absent" => ShardOf[i] \in shards'
    BY DEF Publish, DropShard, PageInv, IndexInv
  <2> QED
    BY <1>1, <2>1, <2>2 DEF PageInv, IndexInv
<1>3. seen \subseteq seen' /\ steady' \subseteq steady
  BY <1>1
<1>4. UpToCursor => UpToCursor'
  BY <1>1, <1>3 DEF UpToCursor
<1>5. OnlyMatchesAreTargeted'
  BY <1>1, <1>3 DEF PageInv, OnlyMatchesAreTargeted, ByFilter
<1>6. StableMatchesAreTargeted'
  BY <1>1, <1>3 DEF PageInv, StableMatchesAreTargeted, ByFilter, Resolved
<1>7. StepType' /\ NothingResolvedYet' /\ ListedHold'
  BY <1>1, <1>3 DEF PageInv, StepType, NothingResolvedYet, ListedHold
<1> QED
  BY <1>1, <1>2, <1>3, <1>4, <1>5, <1>6, <1>7 DEF PageInv

\* A request by filter begins with no target, another one asks for no page.
LEMMA ReceiveStep ==
    ASSUME PageInv, NEW filter \in BOOLEAN, NEW list \in Explicit \cup {<<>>}, NEW opts,
           Receive(filter, list, opts)
    PROVE  PageInv'
<1>1. /\ step = "idle" /\ UNCHANGED <<docs, shards, listed, cursor>>
      /\ cursor = 0 /\ listed = {} /\ targets = <<>> /\ answer = "none"
      /\ steady' = Matching(docs) /\ seen' = Matching(docs)
      /\ step' \in {"answered", "list", "options"}
      /\ answer' # "none" => step' = "answered" /\ answer' = "error"
  BY DEF Receive, Answer, indexVars, PageInv, NothingResolvedYet
<1>2. targets' \in Seq(Ids) /\ (step' = "list" => targets' = <<>>)
  <2>1. <<>> \in Seq(Ids) /\ (list \in Explicit \/ list = <<>>) /\ Explicit \subseteq Seq(Ids)
    BY ActionAssumption
  <2>2. targets' = targets \/ targets' = list
    BY DEF Receive
  <2>3. ASSUME step' = "list"
        PROVE  targets' = <<>>
    <3>1. targets' = list /\ filter /\ ~(filter <=> list # <<>>)
      BY <2>3 DEF Receive, Answer
    <3> QED
      BY <3>1
  <2> QED
    BY <1>1, <2>1, <2>2, <2>3
<1>3. ~ByFilter'
  BY <1>1 DEF ByFilter
<1>4. IndexInv'
  BY <1>1, <1>2 DEF PageInv, IndexInv
<1>5. step' = "list" => UpToCursor'
  <2> SUFFICES ASSUME step' = "list"
               PROVE  UpToCursor'
    OBVIOUS
  <2>1. targets' = <<>> /\ cursor' = 0
    BY <1>1, <1>2
  <2>2. \A i \in steady' : i >= 1
    BY <1>1 DEF Matching, Ids
  <2>3. /\ Len(targets') = 0 /\ DOMAIN targets' = {}
    BY <2>1
  <2>4. IsAscending(targets') /\ Range(targets') = {}
    BY <2>3 DEF IsAscending, Range
  <2>5. \A i \in steady' : ~(i <= cursor')
    <3> SUFFICES ASSUME NEW i \in steady'
                 PROVE  ~(i <= 0)
      BY <2>1
    <3>1. i >= 1 /\ i \in Nat
      BY <1>1, <2>2 DEF Matching, Ids
    <3> QED
      BY <3>1
  <2> QED
    BY <2>4, <2>5 DEF UpToCursor
<1>6. Matching(docs)' = Matching(docs)
  BY <1>1 DEF Matching
<1> QED
  BY <1>1, <1>3, <1>4, <1>5, <1>6
     DEF PageInv, StepType, NothingResolvedYet, ListedHold, OnlyMatchesAreTargeted,
         StableMatchesAreTargeted

\* What matches all along is in a shard that is listed; without a shard
\* nothing does.
LEMMA ListStep ==
    ASSUME PageInv, ListShards
    PROVE  PageInv'
<1>1. /\ step = "list" /\ listed' = shards
      /\ step' = IF shards = {} THEN "options" ELSE "query"
      /\ UNCHANGED <<docs, shards, cursor, targets, answer, steady, seen>>
  BY DEF ListShards, indexVars, history
<1>2. \A i \in steady : ShardOf[i] \in shards
  BY DEF PageInv, IndexInv, Matching
<1>3. IndexInv' /\ UpToCursor /\ UpToCursor'
  BY <1>1 DEF PageInv, IndexInv, UpToCursor, IsAscending
<1>4. OnlyMatchesAreTargeted'
  BY <1>3 DEF UpToCursor, IsAscending, OnlyMatchesAreTargeted
<1>5. StableMatchesAreTargeted'
  BY <1>1, <1>2 DEF PageInv, StableMatchesAreTargeted, Resolved
<1>6. Matching(docs)' = Matching(docs)
  BY <1>1 DEF Matching
<1> QED
  BY <1>1, <1>2, <1>3, <1>4, <1>5, <1>6
     DEF PageInv, StepType, NothingResolvedYet, ListedHold

\* The page joins the targets; if it is full it reaches up to the next cursor,
\* and otherwise it is all there is.
LEMMA QueryStep ==
    ASSUME PageInv, Query
    PROVE  PageInv'
<1>1. /\ step = "query" /\ targets' = targets \o Page
      /\ UNCHANGED <<docs, shards, listed, answer, steady, seen>>
      /\ step' = IF Len(Page) < PageSize THEN "options" ELSE "list"
      /\ cursor' = IF Len(Page) < PageSize THEN cursor ELSE Last(Page)
  BY DEF Query, NextCursor, indexVars, history
<1>2. IndexInv /\ UpToCursor /\ ListedHold /\ steady \subseteq Matching(docs)
  BY <1>1 DEF PageInv
<1>3. /\ Page \in Seq(Ids) /\ IsAscending(Page)
      /\ Range(Page) \subseteq Hits
      /\ Len(Page) < PageSize => Range(Page) = Hits
      /\ Len(Page) >= PageSize =>
            /\ Last(Page) \in Hits
            /\ \A i \in Range(Page) : i <= Last(Page)
            /\ \A i \in Hits : i <= Last(Page) => i \in Range(Page)
  BY <1>2, PageFacts
<1>4. Hits \subseteq Matching(docs) /\ \A i \in Hits : i \in Ids /\ i > cursor
  BY DEF Hits, Matching
<1>5. targets \in Seq(Ids) /\ cursor \in Nat /\ PageSize \in Nat
  BY <1>2, ActionAssumption DEF IndexInv
<1> DEFINE page == Page
<1>6. /\ page \in Seq(Ids) /\ targets' \in Seq(Ids) /\ Len(targets') = Len(targets) + Len(page)
      /\ \A i \in 1 .. Len(targets) : targets'[i] = targets[i]
      /\ \A i \in 1 .. Len(page) : targets'[Len(targets) + i] = page[i]
      /\ Range(targets') = Range(targets) \cup Range(page)
  BY <1>1, <1>3, <1>5, ConcatRange
<1>7. /\ Len(page) \in Nat /\ Len(targets) \in Nat
      /\ \A i \in 1 .. Len(page) : page[i] \in Hits
      /\ \A i \in 1 .. Len(targets) : targets[i] \in Ids /\ targets[i] <= cursor
  <2>1. \A i \in 1 .. Len(page) : page[i] \in Range(page)
    BY <1>3 DEF Range
  <2>2. \A i \in 1 .. Len(targets) : targets[i] \in Range(targets)
    BY <1>5 DEF Range
  <2> QED
    BY <1>2, <1>3, <1>5, <2>1, <2>2 DEF UpToCursor
<1>8. IsAscending(page) /\ IsAscending(targets)
  BY <1>2, <1>3 DEF UpToCursor
<1> HIDE DEF page
<1>9. IsAscending(targets)'
  <2> SUFFICES ASSUME NEW a \in 1 .. Len(targets'), NEW b \in 1 .. Len(targets'), a < b
               PROVE  targets'[a] < targets'[b]
    BY DEF IsAscending
  <2>1. CASE b <= Len(targets)
    <3>1. a \in 1 .. Len(targets) /\ b \in 1 .. Len(targets)
      BY <1>7, <2>1
    <3> QED
      BY <1>6, <1>8, <3>1 DEF IsAscending
  <2>2. CASE a > Len(targets)
    <3>1. /\ a - Len(targets) \in 1 .. Len(page) /\ b - Len(targets) \in 1 .. Len(page)
          /\ a - Len(targets) < b - Len(targets)
          /\ a = Len(targets) + (a - Len(targets)) /\ b = Len(targets) + (b - Len(targets))
      BY <1>6, <1>7, <2>2
    <3>2. page[a - Len(targets)] < page[b - Len(targets)]
      BY <1>8, <3>1 DEF IsAscending
    <3>3. targets'[a] = page[a - Len(targets)] /\ targets'[b] = page[b - Len(targets)]
      BY <1>6, <3>1
    <3> QED
      BY <3>2, <3>3
  <2>3. CASE a <= Len(targets) /\ b > Len(targets)
    <3>1. /\ a \in 1 .. Len(targets) /\ b - Len(targets) \in 1 .. Len(page)
          /\ b = Len(targets) + (b - Len(targets))
      BY <1>6, <1>7, <2>3
    <3>2. targets'[a] = targets[a] /\ targets'[b] = page[b - Len(targets)]
      BY <1>6, <3>1
    <3>3. targets[a] \in Nat /\ targets[a] <= cursor
      BY <1>7, <3>1 DEF Ids
    <3>4. page[b - Len(targets)] \in Nat /\ page[b - Len(targets)] > cursor
      BY <1>4, <1>7, <3>1 DEF Ids
    <3> QED
      BY <1>5, <3>2, <3>3, <3>4
  <2> QED
    BY <1>7, <2>1, <2>2, <2>3
<1>10. Range(targets') \subseteq seen'
  BY <1>1, <1>2, <1>3, <1>4, <1>6 DEF UpToCursor, PageInv, page
<1>11. \A i \in steady : i > cursor => i \in Hits
  BY <1>1, <1>2 DEF Hits, ListedHold
<1>12. \A i \in steady : i \in Nat
  BY <1>2 DEF Matching, Ids
<1>13. CASE Len(Page) < PageSize
  <2>1. step' = "options" /\ cursor' = cursor
    BY <1>1, <1>13
  <2>2. \A i \in steady : i \in Range(targets')
    BY <1>2, <1>3, <1>5, <1>6, <1>11, <1>12, <1>13 DEF UpToCursor, page
  <2>3. cursor' \in 0 .. MaxId
    BY <1>2, <2>1 DEF IndexInv
  <2> QED
    BY <1>1, <1>2, <1>6, <1>9, <1>10, <2>1, <2>2, <2>3
       DEF PageInv, StepType, IndexInv, NothingResolvedYet, ListedHold, Matching,
           OnlyMatchesAreTargeted, StableMatchesAreTargeted, IsAscending
<1>14. CASE Len(Page) >= PageSize
  <2>1. step' = "list" /\ cursor' = Last(Page) /\ cursor' \in Hits /\ cursor' \in Nat
    BY <1>1, <1>3, <1>4, <1>5, <1>7, <1>14 DEF page, Ids
  <2>2. cursor' \in 0 .. MaxId /\ cursor' > cursor
    BY <1>4, <2>1, ActionAssumption DEF Ids
  <2>3. \A i \in Range(targets') : i <= cursor'
    <3>1. \A i \in Range(targets) : i \in Nat /\ i <= cursor
      <4>1. \A i \in Range(targets) : i \in Ids
        BY <1>5 DEF Range
      <4> QED
        BY <1>2, <4>1 DEF UpToCursor, Ids
    <3>2. \A i \in Range(targets) : i <= cursor'
      BY <1>5, <2>1, <2>2, <3>1
    <3> QED
      BY <1>3, <1>6, <1>14, <2>1, <3>2 DEF page
  <2>4. \A i \in steady : i <= cursor' => i \in Range(targets')
    BY <1>2, <1>3, <1>5, <1>6, <1>11, <1>12, <1>14, <2>1 DEF UpToCursor, page
  <2>5. UpToCursor'
    BY <1>1, <1>9, <1>10, <2>3, <2>4 DEF UpToCursor
  <2>6. ~Resolved'
    BY <1>1, <2>1 DEF Resolved, PageInv
  <2> QED
    BY <1>1, <1>2, <1>6, <1>9, <1>10, <2>1, <2>2, <2>5, <2>6
       DEF PageInv, StepType, IndexInv, NothingResolvedYet, ListedHold, Matching,
           OnlyMatchesAreTargeted, StableMatchesAreTargeted, IsAscending
<1> QED
  BY <1>5, <1>7, <1>13, <1>14 DEF page

\* From then on the targets stay; only a resolved request succeeds.
LEMMA LaterStep ==
    ASSUME PageInv, UNCHANGED <<docs, shards, listed, cursor, targets, steady, seen>>,
           step # "idle", step' \in {"options", "spawn", "wait", "answered"},
           step' # "answered" => step \in {"options", "spawn", "wait"},
           answer' # "none" => step' = "answered",
           answer' = "ok" => Resolved
    PROVE  PageInv'
<1>1. Resolved' => Resolved
  BY DEF Resolved
<1>2. IndexInv' /\ Matching(docs)' = Matching(docs)
  BY DEF PageInv, IndexInv, Matching
<1> QED
  BY <1>1, <1>2
     DEF PageInv, StepType, NothingResolvedYet, ListedHold, OnlyMatchesAreTargeted,
         StableMatchesAreTargeted, ByFilter

LEMMA PageStep == PageInv /\ [Next]_vars => PageInv'
<1> SUFFICES ASSUME PageInv, [Next]_vars
             PROVE  PageInv'
  OBVIOUS
<1>1. ASSUME GroupTargets \/ WaitForCalls \/ CallsDone \/ SearchFails
             \/ \E n \in Namespaces : StartCall(n) \/ UnknownNamespace(n)
      PROVE  PageInv'
  <2>1. /\ UNCHANGED <<docs, shards, listed, cursor, targets, steady, seen>>
        /\ step # "idle" /\ step' \in {"options", "spawn", "wait", "answered"}
    BY <1>1 DEF GroupTargets, WaitForCalls, CallsDone, SearchFails, StartCall, UnknownNamespace,
                Answer, indexVars, resolveVars, history
  <2>2. step' # "answered" => step \in {"options", "spawn", "wait"} /\ answer' = answer
    BY <1>1 DEF GroupTargets, WaitForCalls, CallsDone, SearchFails, StartCall, UnknownNamespace, Answer
  <2>3. step # "answered"
    BY <1>1 DEF GroupTargets, WaitForCalls, CallsDone, SearchFails, StartCall, UnknownNamespace
  <2>4. answer' # "none" => step' = "answered"
    BY <2>2, <2>3 DEF PageInv
  <2>5. answer' = "ok" => Resolved
    <3>1. CASE CallsDone
      BY <3>1 DEF CallsDone, Resolved
    <3>2. CASE ~CallsDone
      BY <1>1, <2>3, <3>2
         DEF PageInv, GroupTargets, WaitForCalls, SearchFails, StartCall, UnknownNamespace, Answer
    <3> QED
      BY <3>1, <3>2
  <2> QED
    BY <2>1, <2>2, <2>4, <2>5, LaterStep
<1>2. ASSUME UNCHANGED <<docs, shards, listed, cursor, targets, steady, seen, step, answer>>
      PROVE  PageInv'
  BY <1>2
     DEF PageInv, StepType, IndexInv, NothingResolvedYet, ListedHold, UpToCursor, IsAscending, Matching,
         OnlyMatchesAreTargeted, StableMatchesAreTargeted, ByFilter, Resolved
<1>3. ASSUME NEW n \in Namespaces, Call(n)
      PROVE  PageInv'
  BY <1>2, <1>3 DEF Call, CallAccepted, CallFails, indexVars, resolveVars, history
<1>4. ASSUME UNCHANGED vars
      PROVE  PageInv'
  BY <1>2, <1>4 DEF vars, indexVars, resolveVars, history
<1> QED
  BY <1>1, <1>3, <1>4, IndexStep, ReceiveStep, ListStep, QueryStep DEF Next, Handler

\* Over pages of an index that changes, what matches the filter from the arrival
\* of the request on is a target, however large the index and the page.
THEOREM StableMatchesAreFound == Spec => []StableMatchesAreTargeted
<1>1. PageInv => StableMatchesAreTargeted
  BY DEF PageInv
<1> QED
  BY <1>1, PageInit, PageStep, PTL DEF Spec

\* No execution is a target that never matched, and none is a target twice.
THEOREM OnlyMatchesAreFound == Spec => []OnlyMatchesAreTargeted
<1>1. PageInv => OnlyMatchesAreTargeted
  BY DEF PageInv
<1> QED
  BY <1>1, PageInit, PageStep, PTL DEF Spec
=============================================================================
