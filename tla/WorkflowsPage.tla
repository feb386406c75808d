--------------------------- MODULE WorkflowsPage ---------------------------
(***************************************************************************)
(* The workflow search page in one browser tab                             *)
(* (ui/src/routes/workflows.tsx with ui/src/components/data-table.tsx):    *)
(* the search in the URL, the queries for the schema and for the rows, the *)
(* selection that grows over several pages, and the four dialogs that send *)
(* an action for it.                                                       *)
(*                                                                         *)
(* The page talks to a server whose index and schema change while it is    *)
(* open: an answer is that of any index.  What the filter builder does is  *)
(* in SearchFilter, what the server does with an action in                 *)
(* ActionResolution; here a filter is a value that a schema turns into a   *)
(* request, or cannot.  The browser may be offline: the queries and the    *)
(* actions have TanStack's default network mode (ui/src/main.tsx), in      *)
(* which what starts offline is paused until the network is back.          *)
(***************************************************************************)
EXTENDS Integers, FiniteSets

CONSTANTS
    Workflows,       \* ids of the documents the server may hold
    Rank,            \* of each workflow in the ascending order by a field
    SortFields, DefaultSort,
    IdField,         \* by which the server sorts if nothing else is asked for
    Filters,         \* values of the URL parameter
    NoFilter,        \* the parameter is missing
    Requests,        \* filters as the server gets them
    Everything,      \* the request without a condition
    Matches,         \* [Requests -> SUBSET Workflows]
    Schemas,         \* versions of the schema the server may send
    ReadOnly,        \* those that come with the read-only flag
    Adapted,         \* [Filters -> [Schemas \cup {None} -> Requests \cup {Unbuildable}]]
    Unbuildable,     \* filterToProto throws
    PageSizes, DefaultPageSize,
    ServerPageSize,  \* rows OpenSearch returns when no size is asked for
    MaxPage,         \* bound on the page number of a URL
    Kinds,           \* the actions: signal, reset, cancel and terminate
    None

ASSUME PageAssumption ==
    /\ IsFiniteSet(Workflows)
    /\ NoFilter \in Filters /\ Everything \in Requests
    /\ DefaultSort \in SortFields
    /\ Rank \in [SortFields \cup {IdField} -> [Workflows -> Nat]]
    /\ Matches \in [Requests -> SUBSET Workflows] /\ Matches[Everything] = Workflows
    /\ ReadOnly \subseteq Schemas
    /\ Adapted \in [Filters -> [Schemas \cup {None} -> Requests \cup {Unbuildable}]]
    /\ \A s \in Schemas \cup {None} : Adapted[NoFilter][s] = Everything
    /\ PageSizes \subseteq Nat \ {0} /\ DefaultPageSize \in PageSizes
    /\ ServerPageSize \in Nat \ PageSizes
    /\ MaxPage \in Nat \ {0}
    /\ Unbuildable \notin Requests /\ None \notin Schemas \cup Kinds

VARIABLES
    searchURL,          \* the validated search parameters of the route
    online,             \* what the browser takes the network to be
    schemaQuery,        \* what useQuery(getSearchSchema) holds
    searchQuery,        \* what useQuery(search) holds for the current request
    selection,          \* the selection, with the filter it was made under
    selectedWorkflows,  \* the rows kept for the explicit selection
    open,               \* the dialog that is open, or None
    forms,              \* what the fields of each dialog hold
    sent                \* the action in flight of each kind, if any: the filter it was
                        \* sent under, whether its dialog has been left since, and
                        \* whether it is paused

queryVars == <<online, schemaQuery, searchQuery>>
selectionVars == <<selection, selectedWorkflows>>
dialogVars == <<open, forms, sent>>
pageVars == <<searchURL, queryVars, selectionVars, dialogVars>>

-----------------------------------------------------------------------------
(* The search in the URL and the request made of it.                       *)

URLs == [filter : Filters, page : 1 .. MaxPage, pageSize : PageSizes,
         sort : SortFields, order : {"asc", "desc"}]

DefaultURL == [filter |-> NoFilter, page |-> 1, pageSize |-> DefaultPageSize,
               sort |-> DefaultSort, order |-> "desc"]

\* filterToProto of the filter, made to fit the fields of the schema.
AppliedFilter(u, s) == Adapted[u.filter][s]

\* The empty request, which the query is given when none can be built.
EmptyRequest == [filter |-> Everything, page |-> 1, pageSize |-> ServerPageSize,
                 sort |-> IdField, order |-> "asc"]

SearchInput(u, s) == IF AppliedFilter(u, s) = Unbuildable
                     THEN EmptyRequest
                     ELSE [u EXCEPT !.filter = AppliedFilter(u, s)]

Built(u, s) == AppliedFilter(u, s) # Unbuildable

\* What the server answers when it holds the documents of index: the hits in
\* order, cut to one page, and how many there are.
Answer(input, index) ==
    LET hits == Matches[input.filter] \cap index
        Precedes(v, w) == IF input.order = "asc"
                          THEN Rank[input.sort][v] < Rank[input.sort][w]
                          ELSE Rank[input.sort][v] > Rank[input.sort][w]
        from == (input.page - 1) * input.pageSize
        Position(w) == Cardinality({v \in hits : Precedes(v, w)})
    IN  [to |-> input,
         workflows |-> {w \in hits : Position(w) \in from .. (from + input.pageSize - 1)},
         totalHits |-> Cardinality(hits)]

AnswersTo(input) == {Answer(input, index) : index \in SUBSET Workflows}

Inputs == [filter : Requests, page : Nat, pageSize : Nat,
           sort : SortFields \cup {IdField}, order : {"asc", "desc"}]

ASSUME NoneAssumption ==
    None \notin [to : Inputs, workflows : SUBSET Workflows, totalHits : Nat]

-----------------------------------------------------------------------------
(* Queries: the data they hold, whether the last fetch succeeded, and      *)
(* whether one is under way or waits for the network.                      *)

\* isLoading of TanStack Query: a paused first fetch is pending, not loading.
Loading(q) == q.fetchStatus = "fetching" /\ q.status = "pending"
Waiting(q) == q.fetchStatus = "paused" /\ q.status = "pending"

Begun(q, fetchStatus) ==
    [q EXCEPT !.fetchStatus = fetchStatus,
              !.status = IF q.data = None THEN "pending" ELSE q.status]

Restart(q) == Begun(q, IF online THEN "fetching" ELSE "paused")

\* A fetch that is under way, or waits, is not started again.
Fetch(q) == IF q.fetchStatus = "idle" THEN Restart(q) ELSE q

\* refetch() cancels it and starts again, unless it is the first one.
Refetch(q) == IF q.data = None THEN Fetch(q) ELSE Restart(q)

\* With the page that asked a fetch in flight is cancelled: its query is again
\* what it was before, if nobody asks anew.
Left(q) ==
    IF q.fetchStatus # "fetching" THEN {q}
    ELSE {[q EXCEPT !.fetchStatus = "idle", !.status = status] :
              status \in IF q.data = None THEN {"pending", "error"} ELSE {q.status}}

Answered(q, a) == [q EXCEPT !.data = a, !.status = "success", !.fetchStatus = "idle"]
Failed(q) == [q EXCEPT !.status = "error", !.fetchStatus = "idle"]

\* An attempt that fails is repeated before the query fails; offline the next
\* one waits (so it does in a window that is hidden, which shows nothing).
AttemptFailed(q) ==
    {Failed(q)} \cup IF online THEN {} ELSE {[q EXCEPT !.fetchStatus = "paused"]}

\* The search waits for the schema and for a request it can send.
SearchEnabled(u, schema) == schema.status = "success" /\ Built(u, schema.data)

\* What the cache has of a request: nothing yet, or what earlier fetches left.
\* One that was paused when the page turned away goes on when it can.
Cached(input) ==
    [data : {None}, status : {"pending"}, fetchStatus : {"idle", "fetching"}]
    \cup [data : {None}, status : {"error"}, fetchStatus : {"idle"}]
    \cup [data : AnswersTo(input), status : {"success", "error"},
          fetchStatus : {"idle", "fetching"}]

\* Mutant of Turned: the rows of the last request are shown meanwhile.
TurnedWithRows(input, enabled) == {Restart(searchQuery)}

\* The query of a request the page turns to; data is stale at once, so it is
\* fetched again.
Turned(input, enabled) == IF enabled THEN {Fetch(q) : q \in Cached(input)} ELSE Cached(input)

\* The query of the same request, when the page renders or another one mounts.
Kept(enabled, mounts) ==
    IF mounts THEN IF enabled THEN {Restart(searchQuery)} ELSE Left(searchQuery)
    ELSE IF enabled /\ ~SearchEnabled(searchURL, schemaQuery)
         THEN {Fetch(searchQuery)} ELSE {searchQuery}

\* The page renders with another URL or schema.
Render(u, schema, mounts) ==
    LET input == SearchInput(u, schema.data)
        enabled == SearchEnabled(u, schema)
    IN  /\ searchURL' = u
        /\ schemaQuery' = schema
        /\ searchQuery' \in IF input # SearchInput(searchURL, schemaQuery.data)
                            THEN Turned(input, enabled) ELSE Kept(enabled, mounts)
        /\ UNCHANGED online

-----------------------------------------------------------------------------
(* What the page shows.                                                    *)

workflows == IF searchQuery.data = None THEN {} ELSE searchQuery.data.workflows
totalRows == IF searchQuery.data = None THEN 0 ELSE searchQuery.data.totalHits
readOnly == schemaQuery.data \in ReadOnly
isLoading == Loading(schemaQuery) \/ Loading(searchQuery)

Alert == \/ schemaQuery.status = "error"
         \/ ~Built(searchURL, schemaQuery.data)
         \/ searchQuery.status = "error"

\* The body of the table: "Loading results", that no workflows match, or rows.
TableBody == IF isLoading THEN "loading" ELSE IF workflows = {} THEN "noMatch" ELSE "rows"

MaxPageShown == LET pages == (totalRows + searchURL.pageSize - 1) \div searchURL.pageSize
                IN  IF pages > 1 THEN pages ELSE 1

SelectedCount == IF selection.all THEN totalRows ELSE Cardinality(selection.ids)

RowIsSelected(w) == selection.all \/ w \in selection.ids

AllVisibleRowsSelected == workflows # {} /\ \A w \in workflows : RowIsSelected(w)

CanSelectAllMatchingResults ==
    /\ ~selection.all
    /\ AllVisibleRowsSelected
    /\ totalRows > Cardinality(workflows)

NothingSelected(u) == [all |-> FALSE, ids |-> {}, under |-> u.filter]

\* An open dialog is modal: the rest of the page takes no clicks.
Clickable == open = None

-----------------------------------------------------------------------------
(* The dialogs.  A form is what validation tells apart of its fields.      *)

\* Signal: the name is missing or the payload is not JSON, or both are given.
SignalForms == {"incomplete", "named"}

\* Reset: to the first or last workflow task, or to one whose id is a positive
\* integer, or is not.
ResetForms == {"byPosition", "badId", "goodId"}

\* Cancel and terminate: an optional reason.
ReasonForms == {"reason"}

FormsOf(k) == CASE k = "signal" -> SignalForms
                [] k = "reset"  -> ResetForms
                [] k \in {"cancel", "terminate"} -> ReasonForms

BlankForm(k) == CASE k = "signal" -> "incomplete"
                  [] k = "reset"  -> "byPosition"
                  [] k \in {"cancel", "terminate"} -> "reason"

ValidSignal(form) == form # "incomplete"
ValidReset(form) == form # "badId"

Valid(k, form) ==
    /\ k = "signal" => ValidSignal(form)
    /\ k = "reset" => ValidReset(form)

\* After a success the fields are emptied; the mode of the reset target stays.
EmptiedForm(k, form) == IF k = "reset" /\ form # "byPosition" THEN "badId" ELSE BlankForm(k)

\* The target of an action: the executions kept, or the filter of the search.
SelectionForAction ==
    IF selection.all
    THEN [filter |-> AppliedFilter(searchURL, schemaQuery.data)]
    ELSE [executions |-> selectedWorkflows]

\* Building the target of a matching-results selection throws with the filter.
TargetBuilt == selection.all => Built(searchURL, schemaQuery.data)

PageInit ==
    /\ searchURL \in URLs
    /\ online = TRUE
    /\ schemaQuery = [data |-> None, status |-> "pending", fetchStatus |-> "fetching"]
    /\ searchQuery = [data |-> None, status |-> "pending", fetchStatus |-> "idle"]
    /\ selection = NothingSelected(searchURL)
    /\ selectedWorkflows = {}
    /\ open = None
    /\ forms = [k \in Kinds |-> BlankForm(k)]
    /\ sent = [k \in Kinds |-> None]

-----------------------------------------------------------------------------
(* The URL changes: by the page itself, a link, or back and forward.  With *)
(* another filter WorkflowsPage mounts a new WorkflowSearchPage; the       *)
(* actions of the old one go on, but what they do on success reaches       *)
(* nothing that is shown.                                                  *)

\* Mutant of Mount: the page is not given a key.
MountNothing(u) == Render(u, schemaQuery, FALSE) /\ UNCHANGED <<selectionVars, dialogVars>>

Mount(u) ==
    /\ Render(u, Restart(schemaQuery), TRUE)
    /\ selection' = NothingSelected(u)
    /\ selectedWorkflows' = {}
    /\ open' = None
    /\ forms' = [k \in Kinds |-> BlankForm(k)]
    /\ sent' = [k \in Kinds |-> None]

SetURL(u) ==
    IF u.filter # searchURL.filter
    THEN Mount(u)
    ELSE Render(u, schemaQuery, FALSE) /\ UNCHANGED <<selectionVars, dialogVars>>

Navigate(u) == u # searchURL /\ SetURL(u)

\* Search in the filter builder, or Clear when f is NoFilter.
OnSearch(f) ==
    /\ Clickable
    /\ schemaQuery.status = "success"
    /\ SetURL([searchURL EXCEPT !.filter = f, !.page = 1])

NextOrder(field) ==
    IF searchURL.sort = field /\ searchURL.order = "asc" THEN "desc" ELSE "asc"

ToggleSort(field) ==
    /\ Clickable
    /\ SetURL([searchURL EXCEPT !.sort = field, !.order = NextOrder(field), !.page = 1])

OnPageChange(p) ==
    /\ Clickable
    /\ p <= MaxPage
    /\ \/ searchURL.page > 1 /\ p \in {1, searchURL.page - 1}
       \/ searchURL.page < MaxPageShown /\ p \in {searchURL.page + 1, MaxPageShown}
    /\ SetURL([searchURL EXCEPT !.page = p])

OnPageSizeChange(size) ==
    /\ Clickable
    /\ SetURL([searchURL EXCEPT !.pageSize = size, !.page = 1])

-----------------------------------------------------------------------------
(* Queries are fetched and answered, and the network goes and comes back.  *)

SchemaAnswers(s) ==
    /\ schemaQuery.fetchStatus = "fetching"
    /\ Render(searchURL, Answered(schemaQuery, s), FALSE)
    /\ UNCHANGED <<selectionVars, dialogVars>>

SchemaFails ==
    /\ schemaQuery.fetchStatus = "fetching"
    /\ schemaQuery' \in AttemptFailed(schemaQuery)
    /\ UNCHANGED <<searchURL, online, searchQuery, selectionVars, dialogVars>>

SearchAnswers ==
    /\ searchQuery.fetchStatus = "fetching"
    /\ \E a \in AnswersTo(SearchInput(searchURL, schemaQuery.data)) :
          searchQuery' = Answered(searchQuery, a)
    /\ UNCHANGED <<searchURL, online, schemaQuery, selectionVars, dialogVars>>

SearchFails ==
    /\ searchQuery.fetchStatus = "fetching"
    /\ searchQuery' \in AttemptFailed(searchQuery)
    /\ UNCHANGED <<searchURL, online, schemaQuery, selectionVars, dialogVars>>

\* The Refresh button fetches both, even a search that is not enabled.
Refresh ==
    /\ Clickable
    /\ schemaQuery.fetchStatus # "fetching" /\ searchQuery.fetchStatus # "fetching"
    /\ schemaQuery' = Refetch(schemaQuery)
    /\ searchQuery' = Refetch(searchQuery)
    /\ UNCHANGED <<searchURL, online, selectionVars, dialogVars>>

\* useQuery fetches again when the window gets the focus.
Refocus ==
    /\ schemaQuery' = Fetch(schemaQuery)
    /\ searchQuery' = IF SearchEnabled(searchURL, schemaQuery)
                      THEN Fetch(searchQuery) ELSE searchQuery
    /\ UNCHANGED <<searchURL, online, selectionVars, dialogVars>>

\* What is in flight may yet be answered.
GoOffline ==
    /\ online
    /\ online' = FALSE
    /\ UNCHANGED <<searchURL, schemaQuery, searchQuery, selectionVars, dialogVars>>

\* What waits goes on, and what is idle is fetched again.
GoOnline ==
    /\ ~online
    /\ online' = TRUE
    /\ schemaQuery' = Begun(schemaQuery, "fetching")
    /\ searchQuery' =
          IF SearchEnabled(searchURL, schemaQuery) \/ searchQuery.fetchStatus = "paused"
          THEN Begun(searchQuery, "fetching") ELSE searchQuery
    /\ sent' = [k \in Kinds |->
                   IF sent[k] = None THEN None ELSE [sent[k] EXCEPT !.paused = FALSE]]
    /\ UNCHANGED <<searchURL, selectionVars, open, forms>>

-----------------------------------------------------------------------------
(* The selection.                                                          *)

\* Mutant of RetainedWorkflows: only the rows of the page shown are kept.
ShownWorkflows(ids, current, previous) == ids \cap current

\* The rows of the selected ids, from the page shown or from those kept before.
RetainedWorkflows(ids, current, previous) == ids \cap (current \cup previous)

OnSelectionChange(all, ids) ==
    /\ selection' = [all |-> all, ids |-> ids, under |-> searchURL.filter]
    /\ selectedWorkflows' = IF all THEN {}
                            ELSE RetainedWorkflows(ids, workflows, selectedWorkflows)
    /\ UNCHANGED <<searchURL, queryVars, dialogVars>>

ToggleRow(w) ==
    /\ Clickable
    /\ TableBody = "rows" /\ w \in workflows
    /\ OnSelectionChange(FALSE, IF selection.all THEN workflows \ {w}
                                ELSE IF RowIsSelected(w) THEN selection.ids \ {w}
                                ELSE selection.ids \cup {w})

ToggleVisibleRows ==
    /\ Clickable
    /\ totalRows # 0
    /\ OnSelectionChange(FALSE, IF selection.all THEN {}
                                ELSE IF AllVisibleRowsSelected THEN selection.ids \ workflows
                                ELSE selection.ids \cup workflows)

SelectAllMatchingResults ==
    /\ Clickable
    /\ SelectedCount > 0
    /\ CanSelectAllMatchingResults
    /\ OnSelectionChange(TRUE, {})

-----------------------------------------------------------------------------
(* The dialogs and the actions they send.                                  *)

OpenDialog(k) ==
    /\ Clickable
    /\ SelectedCount > 0 /\ ~readOnly
    /\ open' = k
    /\ UNCHANGED <<searchURL, queryVars, selectionVars, forms, sent>>

EditForm(k, form) ==
    /\ open = k
    /\ forms' = [forms EXCEPT ![k] = form]
    /\ UNCHANGED <<searchURL, queryVars, selectionVars, open, sent>>

\* A dialog is left by its button, which is disabled while the action is in
\* flight, or by Escape and a click beside it, which are not.
Dismiss(k) ==
    /\ open = k
    /\ open' = None
    /\ sent' = [sent EXCEPT ![k] = IF @ = None THEN None ELSE [@ EXCEPT !.dismissed = TRUE]]
    /\ UNCHANGED <<searchURL, queryVars, selectionVars, forms>>

\* mutate()
Mutation == [under |-> searchURL.filter, dismissed |-> FALSE, paused |-> ~online]

\* Mutant of Submit: the dialog is closed at once.
SubmitAndClose(k) ==
    /\ open = k
    /\ sent[k] = None
    /\ Valid(k, forms[k]) /\ TargetBuilt
    /\ open' = None
    /\ sent' = [sent EXCEPT ![k] = Mutation]
    /\ UNCHANGED <<searchURL, queryVars, selectionVars, forms>>

Submit(k) ==
    /\ open = k
    /\ sent[k] = None
    /\ Valid(k, forms[k]) /\ TargetBuilt
    /\ sent' = [sent EXCEPT ![k] = Mutation]
    /\ UNCHANGED <<searchURL, queryVars, selectionVars, open, forms>>

\* onSuccess closes the dialog, empties its fields and clears the selection.
ActionSucceeds(k) ==
    /\ sent[k] # None /\ ~sent[k].paused
    /\ sent' = [sent EXCEPT ![k] = None]
    /\ open' = IF open = k THEN None ELSE open
    /\ forms' = [forms EXCEPT ![k] = EmptiedForm(k, @)]
    /\ selection' = NothingSelected(searchURL)
    /\ selectedWorkflows' = {}
    /\ searchQuery' = Refetch(searchQuery)
    /\ UNCHANGED <<searchURL, online, schemaQuery>>

ActionFails(k) ==
    /\ sent[k] # None /\ ~sent[k].paused
    /\ sent' = [sent EXCEPT ![k] = None]
    /\ UNCHANGED <<searchURL, queryVars, selectionVars, open, forms>>

PageNext ==
    \/ \E u \in URLs : Navigate(u)
    \/ \E f \in Filters : OnSearch(f)
    \/ \E field \in SortFields : ToggleSort(field)
    \/ \E p \in 1 .. MaxPage : OnPageChange(p)
    \/ \E size \in PageSizes : OnPageSizeChange(size)
    \/ \E s \in Schemas : SchemaAnswers(s)
    \/ SchemaFails \/ SearchAnswers \/ SearchFails
    \/ Refresh \/ Refocus \/ GoOffline \/ GoOnline
    \/ \E w \in Workflows : ToggleRow(w)
    \/ ToggleVisibleRows \/ SelectAllMatchingResults
    \/ \E k \in Kinds : \/ OpenDialog(k)
                        \/ \E form \in FormsOf(k) : EditForm(k, form)
                        \/ Dismiss(k)
                        \/ Submit(k)
                        \/ ActionSucceeds(k)
                        \/ ActionFails(k)

PageSpec == PageInit /\ [][PageNext]_pageVars

-----------------------------------------------------------------------------
(* Properties.                                                             *)

\* The workflows an action is sent for are those the user has ticked: every id
\* of an explicit selection is kept with its execution however often the page,
\* the order or the answers have changed since, and nothing else is kept.
SelectionIsHeld ==
    ~selection.all => SelectionForAction = [executions |-> selection.ids]

\* Nothing selected under one filter outlives it: neither a selection nor an
\* open dialog nor the effect of an action still in flight reaches the results
\* of another filter, which the same buttons would then act on.
SelectionKeepsItsFilter ==
    /\ selection.under = searchURL.filter
    /\ \A k \in Kinds : sent[k] # None => sent[k].under = searchURL.filter

\* A success clears the selection its action was sent for: as long as the dialog
\* of an action in flight has not been left nothing else can be selected, so the
\* selection stays, or goes with the success of an action sent before.  A
\* selection made after the dialog was left is cleared unseen.
ClearsWhatItSent ==
    [][\A k \in Kinds :
          /\ sent[k] # None /\ ~sent[k].dismissed
          /\ sent'[k] # None
          => selection' \in {selection, NothingSelected(searchURL)}]_pageVars

\* The query holds an answer to the search in the URL.
SearchIsAnswered ==
    /\ searchQuery.data # None
    /\ searchQuery.data.to = SearchInput(searchURL, schemaQuery.data)

\* A query has never been answered and waits for the network.
AwaitsNetwork == Waiting(schemaQuery) \/ Waiting(searchQuery)

\* The rows of the table are an answer to the search in the URL, whatever has
\* failed since.  That no workflow matches is said of such an answer too, or under
\* an alert, or offline as long as a first fetch waits for the network, which the
\* page does not tell apart: never once the network is back.
TableIsTrue ==
    /\ TableBody = "rows" => SearchIsAnswered
    /\ TableBody = "noMatch" =>
          SearchIsAnswered \/ Alert \/ (~online /\ AwaitsNetwork)
=============================================================================
