--------------------------- MODULE HistoryBuilder ---------------------------
(***************************************************************************)
(* How the data of one workflow execution is put together                  *)
(* (outbound/temporal/workflows/workflows.go, streamWorkflowData): the     *)
(* history is read page by page, then one Describe call adds what is       *)
(* pending.  The execution goes on meanwhile, so each answer is of another *)
(* moment than the last.                                                   *)
(*                                                                         *)
(* The execution itself is external.  The code expects retried attempts    *)
(* with events of their own and ones of which only the last start tells:   *)
(* both occur.  Payloads are reduced to whether they are there, times to   *)
(* whether they are set.                                                   *)
(***************************************************************************)
EXTENDS Naturals, SequencesExt

CONSTANTS
    Activities,   \* activity executions
    ActivityID,   \* [Activities -> ids], chosen by the client or generated
    Children,     \* child workflow executions
    WorkflowID,   \* [Children -> ids], chosen by the client
    Failures,     \* message chains a failure may carry
    PageSize,     \* events of a history page
    MaxAttempts,  \* bound on the attempts of an activity
    MaxEvents     \* bound on the history: the execution stops beyond it

ASSUME BuilderAssumption ==
    /\ PageSize \in Nat \ {0} /\ MaxAttempts \in Nat \ {0} /\ MaxEvents \in Nat
    /\ \A f \in Failures : f \in Seq(STRING) \ {<<>>}

ASSUME ItemAssumption ==
    /\ IsFiniteSet(Activities) /\ IsFiniteSet(Children)
    /\ Activities \cap Children = {} /\ "workflow" \notin Activities \cup Children

VARIABLES
    open,         \* the workflow execution runs
    activity,     \* Temporal: the state of each activity
    child,        \* Temporal: the state of each child workflow
    history,      \* Temporal: the event history; an event id is a position
    failed,       \* history: the messages of the attempts that failed
    phase,        \* what the fetch does next
    position,     \* events read so far
    horizon,      \* length of the history when its first page was read
    final,        \* the execution was closed when the fetch began
    builder,      \* the workflowDataBuilder
    described     \* history: the pending items of the Describe answer

temporal == <<open, activity, child, history, failed>>
fetch == <<phase, position, horizon, final, builder, described>>
vars == <<temporal, fetch>>

Pending(a) == open /\ activity[a].state \in {"scheduled", "running"}
PendingChild(c) == open /\ child[c] \in {"initiated", "started"}

NewBuilder == [inputs |-> FALSE, errors |-> <<>>, activities |-> <<>>, children |-> <<>>,
               activityByID |-> <<>>, activityByEvent |-> <<>>, childByEvent |-> <<>>]
NewActivity(a) == [of |-> a, attempts |-> 0, started |-> FALSE, ended |-> FALSE,
                   outputs |-> FALSE, errors |-> <<>>, paused |-> FALSE]
NewChild(c) == [of |-> c, started |-> FALSE, ended |-> FALSE, outputs |-> FALSE,
                errors |-> <<>>]

Init ==
    /\ open = TRUE
    /\ activity = [a \in Activities |->
                     [state |-> "none", attempt |-> 0, failure |-> <<>>,
                      recorded |-> FALSE, paused |-> FALSE]]
    /\ child = [c \in Children |-> "none"]
    /\ history = <<[type |-> "WorkflowStarted", of |-> "workflow", ref |-> 0,
                    attempt |-> 0, messages |-> <<>>]>>
    /\ failed = [i \in Activities \cup Children |-> <<>>]
    /\ phase = "idle" /\ position = 0 /\ horizon = 0 /\ final = FALSE
    /\ builder = NewBuilder
    /\ described = {}

-----------------------------------------------------------------------------
(* Temporal.                                                               *)

Event(type, of, ref, attempt, messages) ==
    [type |-> type, of |-> of, ref |-> ref, attempt |-> attempt, messages |-> messages]

\* The scheduled or initiated event, which later events refer to.
First(i) == CHOOSE k \in DOMAIN history : history[k].of = i /\ history[k].ref = 0

Started(a) == Event("ActivityStarted", a, First(a), activity[a].attempt, activity[a].failure)

\* An id is free again once the activity that had it is closed.
ScheduleActivity(a) ==
    /\ open /\ activity[a].state = "none"
    /\ \A b \in Activities : Pending(b) => ActivityID[b] # ActivityID[a]
    /\ activity' = [activity EXCEPT ![a].state = "scheduled", ![a].attempt = 1]
    /\ history' = Append(history, Event("ActivityScheduled", a, 0, 0, <<>>))
    /\ UNCHANGED <<open, child, failed, fetch>>

\* The start of an attempt is written at once or with its end.
StartActivity(a) ==
    /\ open /\ activity[a].state = "scheduled" /\ ~activity[a].paused
    /\ \E now \in BOOLEAN :
         /\ activity' = [activity EXCEPT ![a].state = "running", ![a].recorded = now]
         /\ history' = IF now THEN Append(history, Started(a)) ELSE history
    /\ UNCHANGED <<open, child, failed, fetch>>

\* An attempt whose start is not written fails without a trace in the
\* history, until the next start repeats its failure.
RetryActivity(a, f) ==
    /\ open /\ activity[a].state = "running"
    /\ activity[a].attempt < MaxAttempts
    /\ activity' = [activity EXCEPT ![a].state = "scheduled", ![a].failure = f,
                                    ![a].attempt = @ + 1]
    /\ failed' = [failed EXCEPT ![a] = @ \o f]
    /\ history' = IF activity[a].recorded
                    THEN Append(history, Event("ActivityFailed", a, First(a), 0, f))
                    ELSE history
    /\ UNCHANGED <<open, child, fetch>>

PauseActivity(a) ==
    /\ Pending(a)
    /\ activity' = [activity EXCEPT ![a].paused = ~@]
    /\ UNCHANGED <<open, child, history, failed, fetch>>

\* The activity completes (no messages), fails, times out or is cancelled;
\* between two attempts it closes without a started event.
CloseActivity(a, f) ==
    LET running == activity[a].state = "running"
        events == IF running /\ ~activity[a].recorded THEN <<Started(a)>> ELSE <<>>
    IN  /\ open
        /\ running \/ (activity[a].state = "scheduled" /\ f # <<>>)
        /\ activity' = [activity EXCEPT ![a].state = "closed"]
        /\ failed' = [failed EXCEPT ![a] = @ \o f]
        /\ history' = history \o Append(events,
               Event(IF f = <<>> THEN "ActivityCompleted" ELSE "ActivityFailed", a, First(a), 0, f))
        /\ UNCHANGED <<open, child, fetch>>

InitiateChild(c) ==
    /\ open /\ child[c] = "none"
    /\ \A d \in Children : PendingChild(d) => WorkflowID[d] # WorkflowID[c]
    /\ child' = [child EXCEPT ![c] = "initiated"]
    /\ history' = Append(history, Event("ChildInitiated", c, 0, 0, <<>>))
    /\ UNCHANGED <<open, activity, failed, fetch>>

StartChild(c) ==
    /\ open /\ child[c] = "initiated"
    /\ child' = [child EXCEPT ![c] = "started"]
    /\ history' = Append(history, Event("ChildStarted", c, First(c), 0, <<>>))
    /\ UNCHANGED <<open, activity, failed, fetch>>

\* A child that is not started can only fail to start.
CloseChild(c, f) ==
    /\ PendingChild(c)
    /\ child[c] = "initiated" => f # <<>>
    /\ child' = [child EXCEPT ![c] = "closed"]
    /\ failed' = [failed EXCEPT ![c] = @ \o f]
    /\ history' = Append(history, Event(IF f = <<>> THEN "ChildCompleted" ELSE "ChildFailed",
                                        c, First(c), 0, f))
    /\ UNCHANGED <<open, activity, fetch>>

\* What is pending stays without a closing event for ever.
CloseWorkflow(f) ==
    /\ open
    /\ open' = FALSE
    /\ history' = Append(history, Event("WorkflowClosed", "workflow", 1, 0, f))
    /\ UNCHANGED <<activity, child, failed, fetch>>

-----------------------------------------------------------------------------
(* The builder.                                                            *)

\* Mutant: every message is appended.
AppendAll(errors, messages) == errors \o messages

\* appendFailureMessages: a message that is there already is not repeated.
AppendUnseen(errors, messages) ==
    LET after[k \in 0 .. Len(messages)] ==
            IF k = 0 THEN errors
            ELSE IF messages[k] \in Range(after[k - 1]) THEN after[k - 1]
            ELSE Append(after[k - 1], messages[k])
    IN  after[Len(messages)]

Put(map, key, value) == [k \in DOMAIN map \cup {key} |-> IF k = key THEN value ELSE map[k]]

AddWorkflowEvent(b, e) ==
    IF e.type = "WorkflowStarted"
      THEN [b EXCEPT !.inputs = TRUE]
      ELSE [b EXCEPT !.errors = @ \o e.messages]

AddScheduledActivity(b, id, e) ==
    LET index == Len(b.activities) + 1
    IN  [b EXCEPT !.activities = Append(@, NewActivity(e.of)),
                  !.activityByEvent = Put(@, id, index),
                  !.activityByID = Put(@, ActivityID[e.of], index)]

ActivityAfter(r, e) ==
    CASE e.type = "ActivityStarted" ->
           [r EXCEPT !.attempts = e.attempt, !.started = TRUE, !.ended = FALSE,
                     !.errors = AppendUnseen(@, e.messages)]
      [] e.type = "ActivityCompleted" -> [r EXCEPT !.outputs = TRUE, !.ended = TRUE]
      [] e.type = "ActivityFailed" -> [r EXCEPT !.errors = @ \o e.messages, !.ended = TRUE]

AddActivityEvent(b, e) ==
    IF e.ref \notin DOMAIN b.activityByEvent THEN b
    ELSE [b EXCEPT !.activities[b.activityByEvent[e.ref]] = ActivityAfter(@, e)]

AddInitiatedChild(b, id, e) ==
    [b EXCEPT !.children = Append(@, NewChild(e.of)),
              !.childByEvent = Put(@, id, Len(b.children) + 1)]

ChildAfter(r, e) ==
    CASE e.type = "ChildStarted" -> [r EXCEPT !.started = TRUE]
      [] e.type = "ChildCompleted" -> [r EXCEPT !.outputs = TRUE, !.ended = TRUE]
      [] e.type = "ChildFailed" -> [r EXCEPT !.errors = @ \o e.messages, !.ended = TRUE]

AddChildEvent(b, e) ==
    IF e.ref \notin DOMAIN b.childByEvent THEN b
    ELSE [b EXCEPT !.children[b.childByEvent[e.ref]] = ChildAfter(@, e)]

AddEvent(b, id, e) ==
    CASE e.of = "workflow" -> AddWorkflowEvent(b, e)
      [] e.type = "ActivityScheduled" -> AddScheduledActivity(b, id, e)
      [] e.of \in Activities /\ e.ref # 0 -> AddActivityEvent(b, e)
      [] e.type = "ChildInitiated" -> AddInitiatedChild(b, id, e)
      [] e.of \in Children /\ e.ref # 0 -> AddChildEvent(b, e)

\* addEvents: the events after position from, up to position to.
AddEvents(b, events, from, to) ==
    LET after[k \in from .. to] ==
            IF k = from THEN b ELSE AddEvent(after[k - 1], k, events[k])
    IN  after[to]

\* A record made of what Describe tells, and what only Describe knows.
PendingRecord(p) ==
    [NewActivity(p.of) EXCEPT !.errors = p.failure, !.attempts = p.attempt,
                              !.started = p.started, !.paused = p.paused]
MergedRecord(r, p) == [r EXCEPT !.paused = p.paused, !.errors = AppendUnseen(r.errors, p.failure)]

\* Mutants: the history is not looked into; a known activity is left alone.
MergeActivityAnew(b, p) == [b EXCEPT !.activities = Append(@, PendingRecord(p))]
MergeActivityUnknown(b, p) ==
    IF p.id \in DOMAIN b.activityByID THEN b ELSE MergeActivityAnew(b, p)

\* An activity that is pending.
MergeActivity(b, p) ==
    IF p.id \in DOMAIN b.activityByID
      THEN [b EXCEPT !.activities[b.activityByID[p.id]] = MergedRecord(@, p)]
      ELSE [b EXCEPT !.activities = Append(@, PendingRecord(p))]

MergeActivities(b, ps) ==
    LET after[k \in 0 .. Len(ps)] == IF k = 0 THEN b ELSE MergeActivity(after[k - 1], ps[k])
    IN  after[Len(ps)]

MergeChild(b, p) ==
    IF \E k \in DOMAIN b.children : WorkflowID[b.children[k].of] = p.id
      THEN b
      ELSE [b EXCEPT !.children = Append(@, NewChild(p.of))]

MergeChildren(b, ps) ==
    LET after[k \in 0 .. Len(ps)] == IF k = 0 THEN b ELSE MergeChild(after[k - 1], ps[k])
    IN  after[Len(ps)]

-----------------------------------------------------------------------------
(* The fetch.                                                              *)

Begin ==
    /\ phase = "idle"
    /\ phase' = "history"
    /\ horizon' = Len(history)
    /\ final' = ~open
    /\ UNCHANGED <<temporal, position, builder, described>>

\* Mutant: only one page is read.
FirstPageIsLast(end) == TRUE

LastPage(end) == end >= horizon

\* workflowHistoryPage and addEvents.  The history was as long as horizon
\* when the reading began and may be longer now: the last page is the one
\* that reaches either end.
HistoryPage ==
    LET end == IF position + PageSize < Len(history) THEN position + PageSize
                                                    ELSE Len(history)
    IN  /\ phase = "history"
        /\ builder' = AddEvents(builder, history, position, end)
        /\ position' = end
        /\ \/ phase' = "history" /\ end < Len(history)
           \/ phase' = "describe" /\ LastPage(end)
        /\ UNCHANGED <<temporal, horizon, final, described>>

PendingActivities ==
    {[of |-> a, id |-> ActivityID[a], attempt |-> activity[a].attempt,
      failure |-> activity[a].failure, paused |-> activity[a].paused,
      started |-> activity[a].state = "running" \/ activity[a].attempt > 1] : a \in {b \in Activities : Pending(b)}}
PendingChildren == {[of |-> c, id |-> WorkflowID[c]] : c \in {d \in Children : PendingChild(d)}}

\* DescribeWorkflowExecution and mergePending, in any order of the items.
Describe ==
    /\ phase = "describe"
    /\ \E as \in SetToSeqs(PendingActivities), cs \in SetToSeqs(PendingChildren) :
          builder' = MergeChildren(MergeActivities(builder, as), cs)
    /\ described' = PendingActivities \cup PendingChildren
    /\ phase' = "done"
    /\ UNCHANGED <<temporal, position, horizon, final>>

\* A call fails or a payload cannot be mapped: nothing is returned.
FetchFails ==
    /\ phase \in {"history", "describe"}
    /\ phase' = "failed"
    /\ builder' = NewBuilder
    /\ UNCHANGED <<temporal, position, horizon, final, described>>

Temporal ==
    \/ \E a \in Activities : \/ ScheduleActivity(a) \/ StartActivity(a) \/ PauseActivity(a)
                             \/ \E f \in Failures : RetryActivity(a, f)
                             \/ \E f \in Failures \cup {<<>>} : CloseActivity(a, f)
    \/ \E c \in Children : \/ InitiateChild(c) \/ StartChild(c)
                           \/ \E f \in Failures \cup {<<>>} : CloseChild(c, f)
    \/ \E f \in Failures \cup {<<>>} : CloseWorkflow(f)

\* What happens after the fetch is of no concern to its result.
Next ==
    \/ phase \notin {"done", "failed"} /\ Len(history) < MaxEvents /\ Temporal
    \/ Begin
    \/ HistoryPage
    \/ Describe
    \/ FetchFails

Spec == Init /\ [][Next]_vars

-----------------------------------------------------------------------------
Records == builder.activities \o builder.children
RecordOf(i) == CHOOSE r \in Range(Records) : r.of = i
Count(s, m) == Cardinality({k \in DOMAIN s : s[k] = m})

(* "Without duplicating items already in history": an activity or child    *)
(* has one record, whether the history, Describe or both tell of it, and   *)
(* what Describe calls pending is there.                                   *)
OneRecordEach ==
    /\ \A k, l \in DOMAIN Records : Records[k].of = Records[l].of => k = l
    /\ phase = "done" => \A d \in described : \E r \in Range(Records) : r.of = d.of

(* A pending activity is shown paused exactly if it is, and its latest     *)
(* failure is among its errors, though both may be newer than the history  *)
(* that was read.  What is pending is shown as finished only between a     *)
(* failed attempt and the start of the next.                               *)
PendingIsCurrent ==
    phase = "done" => \A d \in described :
        IF d.of \in Activities
          THEN /\ RecordOf(d.of).ended => d.failure # <<>>
               /\ RecordOf(d.of).paused = d.paused
               /\ Range(d.failure) \subseteq Range(RecordOf(d.of).errors)
          ELSE ~RecordOf(d.of).ended

(* The message of one failure can reach the builder up to three times: in  *)
(* the failed event, in the next started event and in Describe.  It is     *)
(* recorded no more often than attempts failed with it.                    *)
ErrorsHappened ==
    \A r \in Range(Records) : \A m \in Range(r.errors) :
        Count(r.errors, m) <= Count(failed[r.of], m)

(* The data of an execution that was closed before the fetch is final:     *)
(* every activity and child ever scheduled is there, finished if it is     *)
(* (and otherwise only when it waited for a retry), completed ones with    *)
(* the attempts they took and their last failure.                          *)
TerminalDataIsComplete ==
    phase = "done" /\ final =>
        /\ builder.inputs /\ position = Len(history)
        /\ builder.errors = history[Len(history)].messages
        /\ \A a \in Activities : activity[a].state # "none" =>
              LET r == RecordOf(a)
              IN  /\ \E s \in Range(Records) : s.of = a
                  /\ activity[a].state = "closed" => r.ended
                  /\ r.ended => activity[a].state = "closed" \/ activity[a].failure # <<>>
                  /\ r.outputs => /\ r.attempts = activity[a].attempt
                                  /\ Range(activity[a].failure) \subseteq Range(r.errors)
        /\ \A c \in Children : child[c] # "none" =>
              /\ \E r \in Range(Records) : r.of = c
              /\ RecordOf(c).ended <=> child[c] = "closed"
              /\ RecordOf(c).errors = failed[c]

(* The README finds "Running workflows where the pending activity has too  *)
(* many attempts" by Attempts GTE 5 and Finished NOT_EXISTS, which needs a *)
(* pending activity to be recorded with the attempts it has had.           *)
PendingAttemptsAreRecorded ==
    phase = "done" => \A d \in described :
        d.of \in Activities => RecordOf(d.of).attempts = d.attempt
=============================================================================
