---------------------------- MODULE BrowserProofs ----------------------------
(***************************************************************************)
(* The browser's side: the page's selection, its dialogs and its table,    *)
(* for any number of workflows, filters, schemas and kinds of action; the  *)
(* columns of the table, for any number of tabs and builds; the conversion *)
(* of wall clocks and the settings around the page, for every zone with    *)
(* one transition, every division of the day and all names of zones.       *)
(***************************************************************************)
EXTENDS WorkflowsPage, ColumnPreferences, AppShell, NaturalSetsProofs, TLAPS
-----------------------------------------------------------------------------
(* What the queries hold.                                                  *)

LEMMA AnswerIs ==
    ASSUME NEW input \in Inputs, NEW a \in AnswersTo(input)
    PROVE  a # None /\ a.to = input /\ a.workflows \subseteq Workflows
<1>1. PICK index \in SUBSET Workflows : a = Answer(input, index)
  BY DEF AnswersTo
<1> DEFINE hits == Matches[input.filter] \cap index
<1>2. hits \subseteq Workflows
  OBVIOUS
<1>3. Cardinality(hits) \in Nat
  BY <1>2, PageAssumption, FS_Subset, FS_CardinalityType
<1>4. /\ a.to = input /\ a.workflows \subseteq Workflows
      /\ a \in [to : Inputs, workflows : SUBSET Workflows, totalHits : Nat]
  BY <1>1, <1>2, <1>3 DEF Answer
<1> QED BY <1>4, NoneAssumption

LEMMA InputIs ==
    ASSUME NEW u \in URLs, NEW s \in Schemas \cup {None}
    PROVE  SearchInput(u, s) \in Inputs
<1>1. AppliedFilter(u, s) \in Requests \cup {Unbuildable}
  BY PageAssumption DEF AppliedFilter, URLs
<1>2. CASE AppliedFilter(u, s) = Unbuildable
  BY <1>2, PageAssumption DEF SearchInput, EmptyRequest, Inputs
<1>3. CASE AppliedFilter(u, s) # Unbuildable
  BY <1>1, <1>3, PageAssumption DEF SearchInput, URLs, Inputs
<1> QED BY <1>2, <1>3

Status == {"pending", "success", "error"}
FetchStatus == {"idle", "fetching", "paused"}

\* A query waits only as long as the browser is offline.  One that has never been
\* answered is being fetched, waits or has failed, unless it is not enabled; what
\* it holds otherwise is an answer to the request.
SchemaHolds(q) ==
    /\ q \in [data : Schemas \cup {None}, status : Status, fetchStatus : FetchStatus]
    /\ q.fetchStatus = "paused" => ~online
    /\ q.status = "pending" => q.fetchStatus # "idle"
    /\ q.status = "success" => q.data # None

SearchHolds(q, input, enabled) ==
    /\ q \in [data : {q.data}, status : Status, fetchStatus : FetchStatus]
    /\ q.fetchStatus = "paused" => ~online
    /\ q.status = "pending" /\ enabled => q.fetchStatus # "idle"
    /\ q.status = "success" => q.data # None
    /\ q.data # None => q.data.to = input

SchemaInv == SchemaHolds(schemaQuery)
SearchInv == SearchHolds(searchQuery, SearchInput(searchURL, schemaQuery.data),
                         SearchEnabled(searchURL, schemaQuery))

QueryInv == searchURL \in URLs /\ online \in BOOLEAN /\ SchemaInv /\ SearchInv

LEMMA QueriesMakeTableTrue == QueryInv => TableIsTrue
<1> SUFFICES ASSUME QueryInv PROVE TableIsTrue
  OBVIOUS
<1> USE DEF QueryInv, SchemaInv, SearchInv, SchemaHolds, SearchHolds
<1>1. searchQuery.data # None => SearchIsAnswered
  BY DEF SearchIsAnswered
<1>2. TableBody = "rows" => SearchIsAnswered
  BY <1>1 DEF TableBody, workflows
<1>3. ASSUME TableBody = "noMatch", ~Alert, ~(~online /\ AwaitsNetwork)
      PROVE  SearchIsAnswered
  <2>1. /\ ~Loading(schemaQuery) /\ ~Loading(searchQuery)
        /\ ~Waiting(schemaQuery) /\ ~Waiting(searchQuery)
    BY <1>3 DEF TableBody, isLoading, AwaitsNetwork, Waiting
  <2>2. /\ schemaQuery.status # "error" /\ searchQuery.status # "error"
        /\ Built(searchURL, schemaQuery.data)
    BY <1>3 DEF Alert
  <2>3. schemaQuery.status = "success"
    BY <2>1, <2>2 DEF Loading, Waiting, Status, FetchStatus
  <2>4. SearchEnabled(searchURL, schemaQuery)
    BY <2>2, <2>3 DEF SearchEnabled
  <2>5. searchQuery.status = "success"
    BY <2>1, <2>2, <2>4 DEF Loading, Waiting, Status, FetchStatus
  <2> QED BY <1>1, <2>5
<1> QED BY <1>2, <1>3 DEF TableIsTrue

\* A fetch that begins or waits leaves what the query holds.
LEMMA BegunIs ==
    ASSUME NEW D, NEW q \in [data : D, status : Status, fetchStatus : FetchStatus],
           NEW fetchStatus
    PROVE  \E status \in Status :
              /\ Begun(q, fetchStatus) =
                    [data |-> q.data, status |-> status, fetchStatus |-> fetchStatus]
              /\ status = "success" => q.status = "success"
<1>1. PICK status : status = IF q.data = None THEN "pending" ELSE q.status
  OBVIOUS
<1>2. Begun(q, fetchStatus) = [q EXCEPT !.fetchStatus = fetchStatus, !.status = status]
  BY <1>1 DEF Begun
<1>3. Begun(q, fetchStatus) =
         [data |-> q.data, status |-> status, fetchStatus |-> fetchStatus]
  BY <1>2
<1>4. status \in Status /\ (status = "success" => q.status = "success")
  BY <1>1 DEF Status
<1> QED BY <1>3, <1>4

\* What starts, is not started again or waits for the network holds what it held.
LEMMA SchemaFetched ==
    ASSUME NEW q, SchemaHolds(q), online \in BOOLEAN
    PROVE  /\ SchemaHolds(Restart(q)) /\ SchemaHolds(Fetch(q)) /\ SchemaHolds(Refetch(q))
           /\ Restart(q).data = q.data /\ Fetch(q).data = q.data /\ Refetch(q).data = q.data
           /\ Fetch(q).status = "success" => q.status = "success"
           /\ Refetch(q).status = "success" => q.status = "success"
<1>1. PICK fetchStatus : fetchStatus = IF online THEN "fetching" ELSE "paused"
  OBVIOUS
<1>2. fetchStatus \in FetchStatus \ {"idle"} /\ (fetchStatus = "paused" => ~online)
  BY <1>1 DEF FetchStatus
<1>3. /\ q \in [data : Schemas \cup {None}, status : Status, fetchStatus : FetchStatus]
      /\ q.status = "success" => q.data # None
  BY DEF SchemaHolds
<1>4. PICK status \in Status :
         /\ Restart(q) = [data |-> q.data, status |-> status, fetchStatus |-> fetchStatus]
         /\ status = "success" => q.status = "success"
  BY <1>1, <1>3, BegunIs DEF Restart
<1>5. /\ SchemaHolds(Restart(q)) /\ Restart(q).data = q.data
      /\ Restart(q).status = "success" => q.status = "success"
  BY <1>2, <1>3, <1>4 DEF SchemaHolds
<1>6. Fetch(q) \in {q, Restart(q)} /\ Refetch(q) \in {q, Restart(q)}
  BY DEF Fetch, Refetch
<1> QED BY <1>5, <1>6

LEMMA SearchFetched ==
    ASSUME NEW q, NEW input, NEW enabled \in BOOLEAN, SearchHolds(q, input, FALSE),
           online \in BOOLEAN
    PROVE  /\ SearchHolds(Restart(q), input, enabled)
           /\ SearchHolds(Fetch(q), input, enabled)
           /\ SearchHolds(Refetch(q), input, enabled)
<1>1. PICK fetchStatus : fetchStatus = IF online THEN "fetching" ELSE "paused"
  OBVIOUS
<1>2. fetchStatus \in FetchStatus \ {"idle"} /\ (fetchStatus = "paused" => ~online)
  BY <1>1 DEF FetchStatus
<1>3. /\ q \in [data : {q.data}, status : Status, fetchStatus : FetchStatus]
      /\ q.status = "success" => q.data # None
      /\ q.data # None => q.data.to = input
  BY DEF SearchHolds
<1>4. PICK status \in Status :
         /\ Restart(q) = [data |-> q.data, status |-> status, fetchStatus |-> fetchStatus]
         /\ status = "success" => q.status = "success"
  BY <1>1, <1>3, BegunIs DEF Restart
<1>5. SearchHolds(Restart(q), input, enabled)
  BY <1>2, <1>3, <1>4 DEF SearchHolds
<1>6. q.fetchStatus # "idle" => SearchHolds(q, input, enabled)
  BY DEF SearchHolds
<1>7. SearchHolds(Fetch(q), input, enabled)
  BY <1>5, <1>6 DEF Fetch
<1>8. Refetch(q) \in {Fetch(q), Restart(q)}
  BY DEF Refetch
<1> QED BY <1>5, <1>7, <1>8

LEMMA SearchCached ==
    ASSUME NEW input \in Inputs, NEW q \in Cached(input)
    PROVE  SearchHolds(q, input, FALSE)
<1>1. CASE q.data = None
  <2>1. \/ q \in [data : {None}, status : {"pending"}, fetchStatus : {"idle", "fetching"}]
        \/ q \in [data : {None}, status : {"error"}, fetchStatus : {"idle"}]
    BY <1>1, AnswerIs DEF Cached
  <2> QED BY <1>1, <2>1 DEF SearchHolds, Status, FetchStatus
<1>2. CASE q.data # None
  <2>1. q \in [data : AnswersTo(input), status : {"success", "error"},
               fetchStatus : {"idle", "fetching"}]
    BY <1>2 DEF Cached
  <2>2. q.data.to = input
    BY <2>1, AnswerIs
  <2> QED BY <1>2, <2>1, <2>2 DEF SearchHolds, Status, FetchStatus
<1> QED BY <1>1, <1>2

LEMMA SearchLeft ==
    ASSUME NEW q, NEW input, NEW left \in Left(q), SearchHolds(q, input, FALSE)
    PROVE  SearchHolds(left, input, FALSE)
<1>1. CASE q.fetchStatus # "fetching"
  BY <1>1 DEF Left
<1>2. CASE q.fetchStatus = "fetching"
  <2>1. PICK status \in IF q.data = None THEN {"pending", "error"} ELSE {q.status} :
           left = [q EXCEPT !.fetchStatus = "idle", !.status = status]
    BY <1>2 DEF Left
  <2>2. left = [data |-> q.data, status |-> status, fetchStatus |-> "idle"]
    BY <2>1 DEF SearchHolds
  <2>3. status \in Status /\ (status = "success" => q.data # None)
    BY <2>1 DEF SearchHolds, Status
  <2>4. q.data # None => q.data.to = input
    BY DEF SearchHolds
  <2> QED BY <2>2, <2>3, <2>4 DEF SearchHolds, FetchStatus
<1> QED BY <1>1, <1>2

\* However the page comes to render with another URL or schema.
LEMMA RenderStep ==
    ASSUME QueryInv, NEW u \in URLs, NEW mounts \in BOOLEAN, NEW schema, SchemaHolds(schema),
           Render(u, schema, mounts)
    PROVE  QueryInv'
<1> DEFINE input == SearchInput(u, schema.data)
           enabled == SearchEnabled(u, schema)
<1>1. searchURL' = u /\ schemaQuery' = schema /\ online' = online
  BY DEF Render
<1>2. SchemaInv' /\ searchURL' \in URLs /\ online' \in BOOLEAN
  BY <1>1 DEF QueryInv, SchemaInv, SchemaHolds
<1>3. input \in Inputs
  BY InputIs DEF SchemaHolds
<1>4. enabled \in BOOLEAN /\ online \in BOOLEAN
  BY DEF SearchEnabled, QueryInv
<1>5. SearchEnabled(searchURL, schemaQuery)' = enabled
      /\ SearchInput(searchURL, schemaQuery.data)' = input
  BY <1>1 DEF SearchEnabled, SearchInput, Built, AppliedFilter
<1> HIDE DEF input, enabled
<1>6. SearchHolds(searchQuery', input, enabled)
  <2>1. CASE input # SearchInput(searchURL, schemaQuery.data)
    <3>1. searchQuery' \in Turned(input, enabled)
      BY <2>1 DEF Render, input, enabled
    <3>2. CASE enabled
      <4>1. PICK q \in Cached(input) : searchQuery' = Fetch(q)
        BY <3>1, <3>2 DEF Turned
      <4> QED BY <1>3, <1>4, <4>1, SearchCached, SearchFetched
    <3>3. CASE ~enabled
      <4>1. searchQuery' \in Cached(input)
        BY <3>1, <3>3 DEF Turned
      <4>2. SearchHolds(searchQuery', input, FALSE)
        BY <1>3, <4>1, SearchCached
      <4> QED BY <3>3, <4>2 DEF SearchHolds
    <3> QED BY <3>2, <3>3
  <2>2. CASE input = SearchInput(searchURL, schemaQuery.data)
    <3>1. searchQuery' \in Kept(enabled, mounts)
      BY <2>2 DEF Render, input, enabled
    <3>2. SearchHolds(searchQuery, input, SearchEnabled(searchURL, schemaQuery))
      BY <2>2 DEF QueryInv, SearchInv
    <3>3. SearchHolds(searchQuery, input, FALSE)
      BY <3>2 DEF SearchHolds
    <3>4. /\ SearchHolds(Restart(searchQuery), input, enabled)
          /\ SearchHolds(Fetch(searchQuery), input, enabled)
      BY <1>4, <3>3, SearchFetched
    <3>5. CASE mounts /\ ~enabled
      <4>1. searchQuery' \in Left(searchQuery)
        BY <3>1, <3>5 DEF Kept
      <4>2. SearchHolds(searchQuery', input, FALSE)
        BY <3>3, <4>1, SearchLeft
      <4> QED BY <3>5, <4>2 DEF SearchHolds
    <3>6. CASE mounts /\ enabled
      BY <3>1, <3>4, <3>6 DEF Kept
    <3>7. CASE ~mounts
      <4>1. CASE enabled /\ ~SearchEnabled(searchURL, schemaQuery)
        BY <3>1, <3>4, <3>7, <4>1 DEF Kept
      <4>2. CASE ~(enabled /\ ~SearchEnabled(searchURL, schemaQuery))
        <5>1. searchQuery' = searchQuery
          BY <3>1, <3>7, <4>2 DEF Kept
        <5> QED BY <3>2, <4>2, <5>1 DEF SearchHolds
      <4> QED BY <4>1, <4>2
    <3> QED BY <3>5, <3>6, <3>7
  <2> QED BY <2>1, <2>2
<1>7. SearchInv'
  BY <1>1, <1>5, <1>6 DEF SearchInv, SearchHolds
<1> QED BY <1>2, <1>7 DEF QueryInv

\* What the search holds may change while URL and network stay as they are and
\* the schema keeps its data.
LEMMA SearchStep ==
    ASSUME QueryInv, UNCHANGED <<searchURL, online>>, SchemaHolds(schemaQuery'),
           schemaQuery'.data = schemaQuery.data,
           SearchHolds(searchQuery', SearchInput(searchURL, schemaQuery.data),
                       SearchEnabled(searchURL, schemaQuery)')
    PROVE  QueryInv'
<1>1. SearchInput(searchURL, schemaQuery.data)' = SearchInput(searchURL, schemaQuery.data)
  BY DEF SearchInput, AppliedFilter, EmptyRequest
<1>2. SearchInv'
  BY <1>1 DEF SearchInv, SearchHolds
<1>3. SchemaInv'
  BY DEF SchemaInv, SchemaHolds
<1> QED BY <1>2, <1>3 DEF QueryInv

\* A fetch that starts.
LEMMA SearchFetchStep ==
    ASSUME QueryInv, UNCHANGED <<searchURL, online>>,
           searchQuery' \in {searchQuery, Fetch(searchQuery), Refetch(searchQuery)},
           schemaQuery' \in {schemaQuery, Fetch(schemaQuery), Refetch(schemaQuery)}
    PROVE  QueryInv'
<1> DEFINE input == SearchInput(searchURL, schemaQuery.data)
           enabled == SearchEnabled(searchURL, schemaQuery)
<1>1. SchemaHolds(schemaQuery) /\ online \in BOOLEAN /\ SearchHolds(searchQuery, input, enabled)
  BY DEF QueryInv, SchemaInv, SearchInv
<1>2. /\ SchemaHolds(schemaQuery') /\ schemaQuery'.data = schemaQuery.data
      /\ schemaQuery'.status = "success" => schemaQuery.status = "success"
  BY <1>1, SchemaFetched
<1>3. enabled' => enabled
  BY <1>2 DEF SearchEnabled, Built, AppliedFilter
<1>4. enabled' \in BOOLEAN
  BY DEF SearchEnabled
<1> HIDE DEF input, enabled
<1>5. SearchHolds(searchQuery, input, FALSE) /\ SearchHolds(searchQuery, input, enabled')
  BY <1>1, <1>3 DEF SearchHolds
<1>6. SearchHolds(searchQuery', input, enabled')
  BY <1>1, <1>4, <1>5, SearchFetched
<1> QED BY <1>2, <1>6, SearchStep DEF input, enabled

LEMMA QueryInit == PageInit => QueryInv
BY PageAssumption DEF PageInit, QueryInv, SchemaInv, SearchInv, SchemaHolds, SearchHolds,
   SearchEnabled, Status, FetchStatus

LEMMA SetURLStep ==
    ASSUME QueryInv, NEW u \in URLs, SetURL(u)
    PROVE  QueryInv'
<1>1. CASE u.filter # searchURL.filter
  <2>1. Render(u, Restart(schemaQuery), TRUE)
    BY <1>1 DEF SetURL, Mount
  <2>2. SchemaHolds(Restart(schemaQuery))
    BY SchemaFetched DEF QueryInv, SchemaInv
  <2> QED BY <2>1, <2>2, RenderStep
<1>2. CASE u.filter = searchURL.filter
  <2>1. Render(u, schemaQuery, FALSE)
    BY <1>2 DEF SetURL
  <2> QED BY <2>1, RenderStep DEF QueryInv, SchemaInv
<1> QED BY <1>1, <1>2

\* The network comes back: nothing waits any more.
LEMMA OnlineStep == QueryInv /\ GoOnline => QueryInv'
<1> SUFFICES ASSUME QueryInv, GoOnline PROVE QueryInv'
  OBVIOUS
<1> DEFINE input == SearchInput(searchURL, schemaQuery.data)
           enabled == SearchEnabled(searchURL, schemaQuery)
<1>1. SchemaHolds(schemaQuery) /\ SearchHolds(searchQuery, input, enabled) /\ searchURL \in URLs
  BY DEF QueryInv, SchemaInv, SearchInv
<1>2. online' = TRUE /\ searchURL' = searchURL /\ schemaQuery' = Begun(schemaQuery, "fetching")
  BY DEF GoOnline
<1>3. searchQuery' # Begun(searchQuery, "fetching") =>
         searchQuery' = searchQuery /\ ~enabled /\ searchQuery.fetchStatus # "paused"
  BY DEF GoOnline
<1>4. PICK status \in Status :
         /\ schemaQuery' = [data |-> schemaQuery.data, status |-> status,
                            fetchStatus |-> "fetching"]
         /\ status = "success" => schemaQuery.status = "success"
  BY <1>1, <1>2, BegunIs DEF SchemaHolds
<1>5. SchemaInv' /\ schemaQuery'.data = schemaQuery.data
      /\ (schemaQuery'.status = "success" => schemaQuery.status = "success")
  BY <1>1, <1>2, <1>4 DEF SchemaInv, SchemaHolds, FetchStatus
<1>6. input' = input /\ (enabled' => enabled)
  BY <1>2, <1>5 DEF SearchInput, AppliedFilter, EmptyRequest, SearchEnabled, Built
<1>7. PICK begun \in Status :
         /\ Begun(searchQuery, "fetching") = [data |-> searchQuery.data, status |-> begun,
                                              fetchStatus |-> "fetching"]
         /\ begun = "success" => searchQuery.status = "success"
  BY <1>1, BegunIs DEF SearchHolds
<1> HIDE DEF input, enabled
<1>8. SearchHolds(searchQuery, input, enabled)'
  <2>1. CASE searchQuery' = Begun(searchQuery, "fetching")
    BY <1>1, <1>2, <1>6, <1>7, <2>1 DEF SearchHolds, FetchStatus
  <2>2. CASE searchQuery' # Begun(searchQuery, "fetching")
    BY <1>1, <1>2, <1>3, <1>6, <2>2 DEF SearchHolds
  <2> QED BY <2>1, <2>2
<1> QED BY <1>1, <1>2, <1>5, <1>8 DEF QueryInv, SearchInv, input, enabled

LEMMA OfflineStep == QueryInv /\ GoOffline => QueryInv'
BY DEF GoOffline, QueryInv, SchemaInv, SearchInv, SchemaHolds, SearchHolds, SearchInput,
   AppliedFilter, EmptyRequest, SearchEnabled, Built

\* The page itself asks for a URL of the route.
LEMMA URLStep ==
    ASSUME QueryInv,
           \/ \E u \in URLs : Navigate(u)
           \/ \E f \in Filters : OnSearch(f)
           \/ \E field \in SortFields : ToggleSort(field)
           \/ \E p \in 1 .. MaxPage : OnPageChange(p)
           \/ \E size \in PageSizes : OnPageSizeChange(size)
    PROVE  \E u \in URLs : SetURL(u)
<1>1. searchURL \in URLs /\ 1 \in 1 .. MaxPage
  BY PageAssumption DEF QueryInv
<1>2. CASE \E u \in URLs : Navigate(u)
  BY <1>2 DEF Navigate
<1>3. ASSUME NEW f \in Filters, OnSearch(f) PROVE \E u \in URLs : SetURL(u)
  <2>1. [searchURL EXCEPT !.filter = f, !.page = 1] \in URLs
    BY <1>1 DEF URLs
  <2> QED BY <1>3, <2>1 DEF OnSearch
<1>4. ASSUME NEW field \in SortFields, ToggleSort(field) PROVE \E u \in URLs : SetURL(u)
  <2>1. [searchURL EXCEPT !.sort = field, !.order = NextOrder(field), !.page = 1] \in URLs
    BY <1>1 DEF URLs, NextOrder
  <2> QED BY <1>4, <2>1 DEF ToggleSort
<1>5. ASSUME NEW p \in 1 .. MaxPage, OnPageChange(p) PROVE \E u \in URLs : SetURL(u)
  <2>1. [searchURL EXCEPT !.page = p] \in URLs
    BY <1>1 DEF URLs
  <2> QED BY <1>5, <2>1 DEF OnPageChange
<1>6. ASSUME NEW size \in PageSizes, OnPageSizeChange(size) PROVE \E u \in URLs : SetURL(u)
  <2>1. [searchURL EXCEPT !.pageSize = size, !.page = 1] \in URLs
    BY <1>1 DEF URLs
  <2> QED BY <1>6, <2>1 DEF OnPageSizeChange
<1> QED BY <1>2, <1>3, <1>4, <1>5, <1>6

LEMMA QueryStep == QueryInv /\ [PageNext]_pageVars => QueryInv'
<1> SUFFICES ASSUME QueryInv, [PageNext]_pageVars PROVE QueryInv'
  OBVIOUS
<1>1. ASSUME NEW u \in URLs, SetURL(u) PROVE QueryInv'
  BY <1>1, SetURLStep
<1>2. ASSUME NEW s \in Schemas, SchemaAnswers(s) PROVE QueryInv'
  <2>1. SchemaHolds(Answered(schemaQuery, s))
    BY PageAssumption DEF QueryInv, SchemaInv, SchemaHolds, Answered, Status, FetchStatus
  <2>2. Render(searchURL, Answered(schemaQuery, s), FALSE)
    BY <1>2 DEF SchemaAnswers
  <2> QED BY <2>1, <2>2, RenderStep DEF QueryInv
<1>3. ASSUME SchemaFails PROVE QueryInv'
  <2>1. /\ UNCHANGED <<searchURL, online, searchQuery>>
        /\ schemaQuery' \in AttemptFailed(schemaQuery)
        /\ schemaQuery.fetchStatus = "fetching"
    BY <1>3 DEF SchemaFails
  <2>2. SchemaHolds(schemaQuery') /\ schemaQuery'.data = schemaQuery.data
        /\ (schemaQuery'.status = "success" => schemaQuery.status = "success")
    BY <2>1 DEF QueryInv, SchemaInv, SchemaHolds, AttemptFailed, Failed, Status, FetchStatus
  <2>3. SearchEnabled(searchURL, schemaQuery)' => SearchEnabled(searchURL, schemaQuery)
    BY <2>1, <2>2 DEF SearchEnabled, Built, AppliedFilter
  <2>4. SearchHolds(searchQuery', SearchInput(searchURL, schemaQuery.data),
                    SearchEnabled(searchURL, schemaQuery)')
    BY <2>1, <2>3 DEF QueryInv, SearchInv, SearchHolds
  <2> QED BY <2>1, <2>2, <2>4, SearchStep
<1>4. ASSUME SearchAnswers PROVE QueryInv'
  <2> DEFINE input == SearchInput(searchURL, schemaQuery.data)
             enabled == SearchEnabled(searchURL, schemaQuery)
  <2>1. PICK a \in AnswersTo(input) : searchQuery' = Answered(searchQuery, a)
    BY <1>4 DEF SearchAnswers
  <2>2. input \in Inputs
    BY InputIs DEF QueryInv, SchemaInv, SchemaHolds
  <2>3. UNCHANGED <<searchURL, online, schemaQuery>>
    BY <1>4 DEF SearchAnswers
  <2> HIDE DEF input, enabled
  <2>4. a # None /\ a.to = input
    BY <2>1, <2>2, AnswerIs
  <2>5. searchQuery' = [data |-> a, status |-> "success", fetchStatus |-> "idle"]
    BY <2>1 DEF Answered, QueryInv, SearchInv, SearchHolds
  <2>6. SearchHolds(searchQuery', input, enabled')
    BY <2>4, <2>5 DEF SearchHolds, Status, FetchStatus
  <2> QED BY <2>3, <2>6, SearchStep DEF QueryInv, SchemaInv, input, enabled
<1>5. ASSUME SearchFails PROVE QueryInv'
  <2> DEFINE input == SearchInput(searchURL, schemaQuery.data)
             enabled == SearchEnabled(searchURL, schemaQuery)
  <2>1. /\ UNCHANGED <<searchURL, online, schemaQuery>>
        /\ searchQuery' \in AttemptFailed(searchQuery)
    BY <1>5 DEF SearchFails
  <2>2. SearchHolds(searchQuery, input, enabled)
    BY DEF QueryInv, SearchInv
  <2> HIDE DEF input, enabled
  <2>3. SearchHolds(searchQuery', input, enabled')
    BY <2>1, <2>2 DEF SearchHolds, AttemptFailed, Failed, Status, FetchStatus
  <2> QED BY <2>1, <2>3, SearchStep DEF QueryInv, SchemaInv, input, enabled
<1>6. ASSUME Refresh \/ Refocus \/ (\E k \in Kinds : ActionSucceeds(k)) PROVE QueryInv'
  BY <1>6, SearchFetchStep DEF Refresh, Refocus, ActionSucceeds
<1>7. ASSUME UNCHANGED <<searchURL, online, schemaQuery, searchQuery>> PROVE QueryInv'
  BY <1>7, SearchFetchStep
<1>8. ASSUME \/ \E w \in Workflows : ToggleRow(w)
             \/ ToggleVisibleRows \/ SelectAllMatchingResults
             \/ UNCHANGED pageVars
      PROVE  QueryInv'
  BY <1>7, <1>8 DEF ToggleRow, ToggleVisibleRows, SelectAllMatchingResults,
     OnSelectionChange, queryVars, pageVars
<1>9. ASSUME NEW k \in Kinds,
             \/ OpenDialog(k) \/ Dismiss(k) \/ Submit(k) \/ ActionFails(k)
             \/ \E form \in FormsOf(k) : EditForm(k, form)
      PROVE  QueryInv'
  BY <1>7, <1>9 DEF OpenDialog, Dismiss, Submit, ActionFails, EditForm, queryVars
<1> QED BY <1>1, <1>2, <1>3, <1>4, <1>5, <1>6, <1>8, <1>9, URLStep, OnlineStep, OfflineStep DEF PageNext

\* What the table says is true of the search in the URL.
THEOREM TableTellsTheTruth == PageSpec => []TableIsTrue
BY QueryInit, QueryStep, QueriesMakeTableTrue, PTL DEF PageSpec

-----------------------------------------------------------------------------
(* The selection and the dialogs.  An action whose dialog has not been left *)
(* keeps the page from taking clicks.                                      *)
SelectionInv ==
    /\ selection = [all |-> selection.all, ids |-> selection.ids, under |-> searchURL.filter]
    /\ selection.all \in BOOLEAN
    /\ ~selection.all => selectedWorkflows = selection.ids

SentInv ==
    /\ online \in BOOLEAN
    /\ sent \in [Kinds -> {None} \cup [under : {searchURL.filter}, dismissed : BOOLEAN, paused : BOOLEAN]]
    /\ \A k \in Kinds : sent[k] # None /\ ~sent[k].dismissed => open = k

DialogInv == SelectionInv /\ SentInv

LEMMA DialogInit == PageInit => DialogInv
BY DEF PageInit, DialogInv, SelectionInv, SentInv, NothingSelected

\* Another URL leaves selection and dialogs alone or begins anew.
LEMMA DialogSetURL ==
    ASSUME DialogInv, NEW u, SetURL(u)
    PROVE  /\ DialogInv'
           /\ \/ UNCHANGED <<selectionVars, dialogVars>>
              \/ sent' = [k \in Kinds |-> None]
<1>1. searchURL' = u /\ online' = online
  BY DEF SetURL, Mount, Render
<1>2. CASE u.filter # searchURL.filter
  <2>1. /\ selection' = NothingSelected(u) /\ selectedWorkflows' = {}
        /\ sent' = [k \in Kinds |-> None]
    BY <1>2 DEF SetURL, Mount
  <2> QED BY <1>1, <2>1 DEF DialogInv, SelectionInv, SentInv, NothingSelected
<1>3. CASE u.filter = searchURL.filter
  <2>1. UNCHANGED <<selectionVars, dialogVars>>
    BY <1>3 DEF SetURL
  <2> QED BY <1>1, <1>3, <2>1 DEF DialogInv, SelectionInv, SentInv, selectionVars, dialogVars
<1> QED BY <1>2, <1>3

\* Ticking rows: the ids come from the rows shown and from those ticked before.
LEMMA DialogSelection ==
    ASSUME DialogInv, NEW all \in BOOLEAN, NEW ids, OnSelectionChange(all, ids),
           ~all => ids \subseteq workflows \cup selectedWorkflows
    PROVE  DialogInv'
<1>1. /\ selection' = [all |-> all, ids |-> ids, under |-> searchURL.filter]
      /\ UNCHANGED <<searchURL, online, open, sent>>
  BY DEF OnSelectionChange, queryVars, dialogVars
<1>2. ~all => selectedWorkflows' = ids
  BY DEF OnSelectionChange, RetainedWorkflows
<1>3. SelectionInv'
  BY <1>1, <1>2 DEF SelectionInv
<1>4. SentInv'
  BY <1>1 DEF DialogInv, SentInv
<1> QED BY <1>3, <1>4 DEF DialogInv

LEMMA TicksAreKnown ==
    ASSUME DialogInv,
           \/ \E w \in Workflows : ToggleRow(w)
           \/ ToggleVisibleRows \/ SelectAllMatchingResults
    PROVE  /\ open = None
           /\ \E all \in BOOLEAN, ids \in SUBSET (workflows \cup selectedWorkflows) :
                 OnSelectionChange(all, ids)
<1> USE DEF DialogInv, SelectionInv
<1>1. ASSUME NEW w \in Workflows, ToggleRow(w)
      PROVE  \E ids \in SUBSET (workflows \cup selectedWorkflows) : OnSelectionChange(FALSE, ids)
  <2> DEFINE ids == IF selection.all THEN workflows \ {w}
                    ELSE IF RowIsSelected(w) THEN selection.ids \ {w}
                    ELSE selection.ids \cup {w}
  <2>1. OnSelectionChange(FALSE, ids) /\ w \in workflows
    BY <1>1 DEF ToggleRow
  <2>2. ids \in SUBSET (workflows \cup selectedWorkflows)
    BY <2>1
  <2> QED BY <2>1, <2>2
<1>2. ASSUME ToggleVisibleRows
      PROVE  \E ids \in SUBSET (workflows \cup selectedWorkflows) : OnSelectionChange(FALSE, ids)
  <2> DEFINE ids == IF selection.all THEN {}
                    ELSE IF AllVisibleRowsSelected THEN selection.ids \ workflows
                    ELSE selection.ids \cup workflows
  <2>1. OnSelectionChange(FALSE, ids)
    BY <1>2 DEF ToggleVisibleRows
  <2>2. ids \in SUBSET (workflows \cup selectedWorkflows)
    OBVIOUS
  <2> QED BY <2>1, <2>2
<1>3. SelectAllMatchingResults => OnSelectionChange(TRUE, {})
  BY DEF SelectAllMatchingResults
<1>4. open = None
  BY DEF ToggleRow, ToggleVisibleRows, SelectAllMatchingResults, Clickable
<1> QED BY <1>1, <1>2, <1>3, <1>4

LEMMA DialogStep ==
    DialogInv /\ [PageNext]_pageVars =>
       /\ DialogInv'
       /\ \A k \in Kinds :
             /\ sent[k] # None /\ ~sent[k].dismissed
             /\ sent'[k] # None
             => selection' \in {selection, NothingSelected(searchURL)}
<1> DEFINE Held == \A k \in Kinds :
                      /\ sent[k] # None /\ ~sent[k].dismissed
                      /\ sent'[k] # None
                      => selection' \in {selection, NothingSelected(searchURL)}
<1> SUFFICES ASSUME DialogInv, [PageNext]_pageVars PROVE DialogInv' /\ Held
  OBVIOUS
<1>1. ASSUME NEW u, SetURL(u) PROVE DialogInv' /\ Held
  BY <1>1, DialogSetURL DEF selectionVars
<1>2. ASSUME UNCHANGED searchURL, online' \in BOOLEAN, UNCHANGED <<selectionVars, dialogVars>>
      PROVE  DialogInv' /\ Held
  BY <1>2 DEF DialogInv, SelectionInv, SentInv, selectionVars, dialogVars
<1>3. ASSUME \/ \E s \in Schemas : SchemaAnswers(s)
             \/ SchemaFails \/ SearchAnswers \/ SearchFails \/ Refresh \/ Refocus
             \/ GoOffline \/ UNCHANGED pageVars
      PROVE  DialogInv' /\ Held
  BY <1>2, <1>3 DEF SchemaAnswers, SchemaFails, SearchAnswers, SearchFails, Refresh,
     Refocus, GoOffline, Render, DialogInv, SentInv, queryVars, pageVars
<1>4. ASSUME \/ \E w \in Workflows : ToggleRow(w)
             \/ ToggleVisibleRows \/ SelectAllMatchingResults
      PROVE  DialogInv' /\ Held
  <2>1. open = None
    BY <1>4, TicksAreKnown
  <2>2. PICK all \in BOOLEAN, ids \in SUBSET (workflows \cup selectedWorkflows) :
           OnSelectionChange(all, ids)
    BY <1>4, TicksAreKnown
  <2>3. DialogInv'
    BY <2>2, DialogSelection
  <2>4. Held
    BY <2>1, PageAssumption DEF DialogInv, SentInv
  <2> QED BY <2>3, <2>4
<1>5. ASSUME NEW kind \in Kinds, OpenDialog(kind) PROVE DialogInv' /\ Held
  <2>1. /\ UNCHANGED <<searchURL, online, selection, selectedWorkflows, sent>>
        /\ open = None
    BY <1>5 DEF OpenDialog, Clickable, queryVars, selectionVars
  <2>2. \A k \in Kinds : sent[k] # None => sent[k].dismissed
    BY <2>1, PageAssumption DEF DialogInv, SentInv
  <2>3. SelectionInv' /\ SentInv'
    BY <2>1, <2>2 DEF DialogInv, SelectionInv, SentInv
  <2>4. Held
    BY <2>2
  <2> QED BY <2>3, <2>4 DEF DialogInv
<1>6. ASSUME NEW kind \in Kinds, NEW form, EditForm(kind, form) PROVE DialogInv' /\ Held
  BY <1>6 DEF EditForm, DialogInv, SelectionInv, SentInv, selectionVars, queryVars
<1>7. ASSUME NEW kind \in Kinds, Dismiss(kind) PROVE DialogInv' /\ Held
  <2>1. UNCHANGED <<searchURL, online, selection, selectedWorkflows>> /\ open = kind
    BY <1>7 DEF Dismiss, queryVars, selectionVars
  <2>2. \A k \in Kinds \ {kind} : sent[k] = None \/ sent[k].dismissed
    BY <2>1 DEF DialogInv, SentInv
  <2>3. CASE sent[kind] = None
    BY <1>7, <2>1, <2>2, <2>3 DEF Dismiss, DialogInv, SelectionInv, SentInv
  <2>4. CASE sent[kind] # None
    <3>1. sent' = [sent EXCEPT ![kind] = [sent[kind] EXCEPT !.dismissed = TRUE]]
      BY <1>7, <2>4 DEF Dismiss
    <3>2. sent[kind] \in [under : {searchURL.filter}, dismissed : BOOLEAN, paused : BOOLEAN]
      BY <2>4 DEF DialogInv, SentInv
    <3>3. PICK left : left = [sent[kind] EXCEPT !.dismissed = TRUE]
      OBVIOUS
    <3>4. left \in [under : {searchURL.filter}, dismissed : BOOLEAN, paused : BOOLEAN]
          /\ left.dismissed
      BY <3>2, <3>3
    <3>5. sent' = [k \in Kinds |-> IF k = kind THEN left ELSE sent[k]]
      BY <3>1, <3>3 DEF DialogInv, SentInv
    <3>6. SentInv'
      <4>1. sent' \in [Kinds -> {None} \cup [under : {searchURL'.filter}, dismissed : BOOLEAN,
                                            paused : BOOLEAN]]
        BY <2>1, <3>4, <3>5 DEF DialogInv, SentInv
      <4>2. \A k \in Kinds : sent'[k] # None => sent'[k].dismissed
        BY <2>2, <3>4, <3>5
      <4> QED BY <2>1, <4>1, <4>2 DEF DialogInv, SentInv
    <3>7. SelectionInv' /\ Held
      BY <2>1 DEF DialogInv, SelectionInv
    <3> QED BY <3>6, <3>7 DEF DialogInv
  <2> QED BY <2>3, <2>4
<1>8. ASSUME NEW kind \in Kinds, Submit(kind) PROVE DialogInv' /\ Held
  BY <1>8 DEF Submit, Mutation, DialogInv, SelectionInv, SentInv, selectionVars, queryVars
<1>9. ASSUME NEW kind \in Kinds, ActionSucceeds(kind) PROVE DialogInv' /\ Held
  <2>1. /\ UNCHANGED <<searchURL, online>>
        /\ selection' = NothingSelected(searchURL) /\ selectedWorkflows' = {}
        /\ sent' = [sent EXCEPT ![kind] = None]
        /\ open' = IF open = kind THEN None ELSE open
    BY <1>9 DEF ActionSucceeds
  <2>2. SelectionInv'
    BY <2>1 DEF SelectionInv, NothingSelected
  <2>3. SentInv'
    BY <2>1 DEF DialogInv, SentInv
  <2> QED BY <2>1, <2>2, <2>3 DEF DialogInv
<1>10. ASSUME NEW kind \in Kinds, ActionFails(kind) PROVE DialogInv' /\ Held
  BY <1>10 DEF ActionFails, DialogInv, SelectionInv, SentInv, selectionVars, queryVars
<1>11. (\/ \E u \in URLs : Navigate(u)
        \/ \E f \in Filters : OnSearch(f)
        \/ \E field \in SortFields : ToggleSort(field)
        \/ \E p \in 1 .. MaxPage : OnPageChange(p)
        \/ \E size \in PageSizes : OnPageSizeChange(size)) => \E u : SetURL(u)
  BY DEF Navigate, OnSearch, ToggleSort, OnPageChange, OnPageSizeChange
<1>12. ASSUME GoOnline PROVE DialogInv' /\ Held
  <2>1. /\ UNCHANGED <<searchURL, selection, selectedWorkflows, open>> /\ online' = TRUE
        /\ sent' = [k \in Kinds |-> IF sent[k] = None THEN None
                                    ELSE [sent[k] EXCEPT !.paused = FALSE]]
    BY <1>12 DEF GoOnline, selectionVars
  <2>2. ASSUME NEW k \in Kinds
        PROVE  /\ sent'[k] \in {None} \cup [under : {searchURL.filter}, dismissed : BOOLEAN,
                                             paused : BOOLEAN]
               /\ sent'[k] # None => sent[k] # None /\ sent'[k].dismissed = sent[k].dismissed
    <3>1. sent[k] \in {None} \cup [under : {searchURL.filter}, dismissed : BOOLEAN,
                                   paused : BOOLEAN]
      BY DEF DialogInv, SentInv
    <3> QED BY <2>1, <3>1
  <2>3. SentInv'
    BY <2>1, <2>2 DEF DialogInv, SentInv
  <2> QED BY <2>1, <2>3 DEF DialogInv, SelectionInv
<1> HIDE DEF Held
<1> QED BY <1>1, <1>3, <1>4, <1>5, <1>6, <1>7, <1>8, <1>9, <1>10, <1>11, <1>12 DEF PageNext

\* An action is sent for the very workflows that are ticked.
THEOREM SelectionStays == PageSpec => []SelectionIsHeld
<1>1. DialogInv => SelectionIsHeld
  BY DEF DialogInv, SelectionInv, SelectionIsHeld, SelectionForAction
<1> QED BY <1>1, DialogInit, DialogStep, PTL DEF PageSpec

\* Selection, dialogs and actions end with the filter they were made under.
THEOREM FilterBindsSelection == PageSpec => []SelectionKeepsItsFilter
<1>1. DialogInv => SelectionKeepsItsFilter
  BY DEF DialogInv, SelectionInv, SentInv, SelectionKeepsItsFilter
<1> QED BY <1>1, DialogInit, DialogStep, PTL DEF PageSpec

\* While the dialog of an action in flight is open nothing else gets selected.
THEOREM SuccessClearsItsOwn == PageSpec => ClearsWhatItSent
<1>1. DialogInv /\ [PageNext]_pageVars =>
         [\A k \in Kinds :
             /\ sent[k] # None /\ ~sent[k].dismissed
             /\ sent'[k] # None
             => selection' \in {selection, NothingSelected(searchURL)}]_pageVars
  BY DialogStep
<1> QED BY <1>1, DialogInit, DialogStep, PTL DEF PageSpec, ClearsWhatItSent

-----------------------------------------------------------------------------
(* The columns of the table.                                               *)

(* What a tab holds is preferences, of whichever build, and what is stored *)
(* is what the last writer holds.                                          *)
ColumnInv ==
    /\ build \in [Tabs -> Builds]
    /\ preferences \in [Tabs -> Preferences]
    /\ stored \in Preferences \cup {NotStored, Malformed}
    /\ \A t \in current : t \in Tabs /\ preferences[t] = ReadColumnPreferences(stored, build[t])

-----------------------------------------------------------------------------
LEMMA SeqOfItsRange ==
    ASSUME NEW X, NEW s \in Seq(X)
    PROVE  s \in Seq(Range(s))
<1>1. \A i \in 1 .. Len(s) : s[i] \in Range(s)
  BY DEF Range
<1> QED
  BY <1>1

LEMMA BuildColumns ==
    ASSUME NEW b \in Builds
    PROVE  /\ ColumnsOf[b] \in Seq(Columns(b)) /\ IsInjective(ColumnsOf[b])
           /\ Columns(b) # {} /\ Columns(b) \subseteq ColumnIDs
           /\ DefaultPreferences(b) \in Preferences
<1>1. ColumnsOf[b] \in Seq(Columns(b)) /\ IsInjective(ColumnsOf[b]) /\ ColumnsOf[b] # <<>>
  BY ColumnAssumption
<1>2. Columns(b) \subseteq ColumnIDs
  BY DEF ColumnIDs
<1>3. Columns(b) # {}
  <2>1. DOMAIN ColumnsOf[b] = 1 .. Len(ColumnsOf[b]) /\ Len(ColumnsOf[b]) \in Nat \ {0}
    BY <1>1
  <2>2. ColumnsOf[b][1] \in Columns(b)
    BY <2>1 DEF Columns, Range
  <2> QED
    BY <2>2
<1>4. ColumnsOf[b] \in Seq(ColumnIDs)
  BY <1>1, <1>2
<1> QED
  BY <1>1, <1>2, <1>3, <1>4 DEF DefaultPreferences, Preferences

LEMMA VisibleIDs ==
    ASSUME NEW b \in Builds, NEW p
    PROVE  VisibleColumnIDs(p, b) \subseteq Columns(b) /\ VisibleColumnIDs(p, b) # {}
BY BuildColumns DEF VisibleColumnIDs

LEMMA ReadIsPreferences ==
    ASSUME NEW b \in Builds, NEW v \in Preferences \cup {NotStored, Malformed}
    PROVE  ReadColumnPreferences(v, b) \in Preferences
BY BuildColumns DEF ReadColumnPreferences

LEMMA WrittenIsRead ==
    ASSUME NEW b, NEW p \in Preferences
    PROVE  ReadColumnPreferences(p, b) = p
BY ColumnAssumption DEF ReadColumnPreferences

-----------------------------------------------------------------------------
(* The order of all columns.                                               *)

\* A known id of the order is at the first of its places.
LEMMA KnownOnce ==
    ASSUME NEW X, NEW order \in Seq(X), NEW b
    PROVE  /\ KnownPlaces(order, b) \in SUBSET DOMAIN order
           /\ {order[i] : i \in KnownPlaces(order, b)} = Range(order) \cap Columns(b)
           /\ \A i, j \in KnownPlaces(order, b) : order[i] = order[j] => i = j
<1> DEFINE known == KnownPlaces(order, b)
<1>1. DOMAIN order = 1 .. Len(order) /\ Len(order) \in Nat
  OBVIOUS
<1>2. known \in SUBSET DOMAIN order
  BY DEF KnownPlaces
<1>3. \A i \in known : order[i] \in Range(order) \cap Columns(b)
  BY DEF KnownPlaces, Range
<1>4. ASSUME NEW id \in Range(order) \cap Columns(b)
      PROVE  \E i \in known : order[i] = id
  <2> DEFINE T == {i \in DOMAIN order : order[i] = id}
  <2>1. T \in SUBSET Nat /\ T # {}
    BY <1>1, <1>4 DEF Range
  <2>2. PICK m \in T : \A k \in T : m <= k
    BY <2>1, LeastNatural
  <2>3. \A j \in 1 .. m - 1 : order[j] # order[m]
    <3> SUFFICES ASSUME NEW j \in 1 .. m - 1, order[j] = order[m]
                 PROVE  FALSE
      OBVIOUS
    <3>1. j \in DOMAIN order /\ j < m
      BY <1>1, <2>2
    <3> QED
      BY <1>1, <2>2, <3>1
  <2> QED
    BY <1>4, <2>2, <2>3 DEF KnownPlaces
<1>5. ASSUME NEW i \in known, NEW j \in known, order[i] = order[j]
      PROVE  i = j
  <2>1. i \in 1 .. Len(order) /\ j \in 1 .. Len(order)
    BY <1>1, <1>2
  <2>2. /\ \A k \in 1 .. i - 1 : order[k] # order[i]
        /\ \A k \in 1 .. j - 1 : order[k] # order[j]
    BY DEF KnownPlaces
  <2>3. i < j => i \in 1 .. j - 1
    BY <2>1
  <2>4. j < i => j \in 1 .. i - 1
    BY <2>1
  <2> QED
    BY <1>5, <2>1, <2>2, <2>3, <2>4
<1> QED
  BY <1>2, <1>3, <1>4, <1>5

\* Two sequences without a common element, each without repetition.
LEMMA ConcatOnce ==
    ASSUME NEW X, NEW s \in Seq(X), NEW t \in Seq(X), IsInjective(s), IsInjective(t),
           Range(s) \cap Range(t) = {}
    PROVE  IsInjective(s \o t)
<1>1. /\ s \o t \in Seq(X) /\ Len(s \o t) = Len(s) + Len(t)
      /\ \A i \in 1 .. Len(s) : (s \o t)[i] = s[i]
      /\ \A i \in 1 .. Len(t) : (s \o t)[Len(s) + i] = t[i]
  BY ConcatRange
<1>2. /\ Len(s) \in Nat /\ Len(t) \in Nat /\ DOMAIN s = 1 .. Len(s) /\ DOMAIN t = 1 .. Len(t)
      /\ DOMAIN (s \o t) = 1 .. Len(s) + Len(t)
  BY <1>1
<1> DEFINE c == s \o t
<1> HIDE DEF c
<1>3. \A i \in DOMAIN c :
         \/ i \in 1 .. Len(s) /\ c[i] = s[i] /\ c[i] \in Range(s)
         \/ i - Len(s) \in 1 .. Len(t) /\ c[i] = t[i - Len(s)] /\ c[i] \in Range(t)
  <2> SUFFICES ASSUME NEW i \in DOMAIN c
               PROVE  \/ i \in 1 .. Len(s) /\ c[i] = s[i] /\ c[i] \in Range(s)
                      \/ i - Len(s) \in 1 .. Len(t) /\ c[i] = t[i - Len(s)] /\ c[i] \in Range(t)
    OBVIOUS
  <2>1. i \in 1 .. Len(s) \/ (i - Len(s) \in 1 .. Len(t) /\ i = Len(s) + (i - Len(s)))
    BY <1>2 DEF c
  <2>2. CASE i \in 1 .. Len(s)
    BY <1>1, <1>2, <2>2 DEF c, Range
  <2>3. CASE i - Len(s) \in 1 .. Len(t) /\ i = Len(s) + (i - Len(s))
    <3>1. c[Len(s) + (i - Len(s))] = t[i - Len(s)]
      BY <1>1, <2>3 DEF c
    <3> QED
      BY <1>2, <2>3, <3>1 DEF Range
  <2> QED
    BY <2>1, <2>2, <2>3
<1>4. ASSUME NEW i \in DOMAIN c, NEW j \in DOMAIN c, c[i] = c[j]
      PROVE  i = j
  <2>1. i \in Int /\ j \in Int
    BY <1>2 DEF c
  <2>2. CASE i \in 1 .. Len(s) /\ j \in 1 .. Len(s) /\ s[i] = s[j]
    BY <1>2, <2>2 DEF IsInjective
  <2>3. CASE /\ i - Len(s) \in 1 .. Len(t) /\ j - Len(s) \in 1 .. Len(t)
             /\ t[i - Len(s)] = t[j - Len(s)]
    <3>1. i - Len(s) = j - Len(s)
      BY <1>2, <2>3 DEF IsInjective
    <3> QED
      BY <1>2, <2>1, <3>1
  <2> QED
    BY <1>3, <1>4, <2>2, <2>3
<1> QED
  BY <1>4 DEF IsInjective, c

\* Every column of the build has one place, whatever the stored order names.
LEMMA OrderedFacts ==
    ASSUME NEW b \in Builds, NEW p \in Preferences
    PROVE  /\ OrderedColumnIDs(p, b) \in Seq(Columns(b))
           /\ Range(OrderedColumnIDs(p, b)) = Columns(b)
           /\ IsInjective(OrderedColumnIDs(p, b))
<1> DEFINE order == p.order
           columns == ColumnsOf[b]
           unnamed == {i \in DOMAIN columns : columns[i] \notin Range(order)}
           s == AtPlaces(order, KnownPlaces(order, b))
           t == AtPlaces(columns, unnamed)
<1>1. order \in Seq(ColumnIDs) /\ columns \in Seq(ColumnIDs)
  BY BuildColumns DEF Preferences
<1>2. columns \in Seq(Columns(b)) /\ IsInjective(columns) /\ Range(columns) = Columns(b)
  BY BuildColumns DEF Columns
<1> HIDE DEF order, columns
<1>3. /\ KnownPlaces(order, b) \in SUBSET DOMAIN order
      /\ {order[i] : i \in KnownPlaces(order, b)} = Range(order) \cap Columns(b)
      /\ \A i, j \in KnownPlaces(order, b) : order[i] = order[j] => i = j
  BY <1>1, KnownOnce
<1>4. /\ s \in Seq(ColumnIDs) /\ Range(s) = Range(order) \cap Columns(b) /\ IsInjective(s)
  BY <1>1, <1>3, AtPlacesFacts, AtPlacesRange
<1>5. unnamed \in SUBSET DOMAIN columns
  OBVIOUS
<1>6. {columns[i] : i \in unnamed} = Columns(b) \ Range(order)
  BY <1>2 DEF Range
<1>7. \A i, j \in unnamed : columns[i] = columns[j] => i = j
  BY <1>2 DEF IsInjective
<1>8. /\ t \in Seq(ColumnIDs) /\ Range(t) = Columns(b) \ Range(order) /\ IsInjective(t)
  BY <1>1, <1>5, <1>6, <1>7, AtPlacesFacts, AtPlacesRange
<1>9. OrderedColumnIDs(p, b) = s \o t
  BY DEF OrderedColumnIDs, order, columns
<1> HIDE DEF s, t
<1>10. Range(s) \cap Range(t) = {}
  BY <1>4, <1>8
<1> DEFINE ordered == s \o t
<1>11. IsInjective(ordered)
  BY <1>4, <1>8, <1>10, ConcatOnce
<1>12. ordered \in Seq(ColumnIDs) /\ Range(ordered) = Range(s) \cup Range(t)
  BY <1>4, <1>8, ConcatRange
<1>13. Range(ordered) = Columns(b)
  BY <1>4, <1>8, <1>12
<1> HIDE DEF ordered
<1>14. ordered \in Seq(Columns(b))
  BY <1>12, <1>13, SeqOfItsRange
<1> QED
  BY <1>9, <1>11, <1>13, <1>14 DEF ordered

\* An order that names every column of the build once is kept.
LEMMA CompleteOrder ==
    ASSUME NEW b \in Builds, NEW p, NEW order \in Seq(Columns(b)), p.order = order,
           IsInjective(order), Range(order) = Columns(b)
    PROVE  OrderedColumnIDs(p, b) = order
<1>1. DOMAIN order = 1 .. Len(order) /\ Len(order) \in Nat
  OBVIOUS
<1>2. KnownPlaces(order, b) = DOMAIN order
  <2> SUFFICES ASSUME NEW i \in DOMAIN order
               PROVE  order[i] \in Columns(b) /\ \A j \in 1 .. i - 1 : order[j] # order[i]
    BY DEF KnownPlaces
  <2>1. \A j \in 1 .. i - 1 : j \in DOMAIN order /\ j # i
    BY <1>1
  <2> QED
    BY <2>1 DEF IsInjective
<1>3. {i \in DOMAIN ColumnsOf[b] : ColumnsOf[b][i] \notin Range(order)} = {}
  BY BuildColumns DEF Columns, Range
<1>4. AtPlaces(order, KnownPlaces(order, b)) = order
  BY <1>2, AtAllPlaces
<1>5. AtPlaces(ColumnsOf[b], {i \in DOMAIN ColumnsOf[b] : ColumnsOf[b][i] \notin Range(order)}) = <<>>
  BY <1>3, BuildColumns, AtNoPlaces
<1>6. OrderedColumnIDs(p, b) = order \o <<>>
  BY <1>4, <1>5 DEF OrderedColumnIDs
<1> QED
  BY <1>6

-----------------------------------------------------------------------------
(* The columns that are shown.                                             *)

LEMMA VisibleFacts ==
    ASSUME NEW b \in Builds, NEW p \in Preferences
    PROVE  LET ordered == OrderedColumnIDs(p, b)
               places == VisiblePlaces(p, b, ordered)
           IN  /\ VisibleColumns(p, b) = AtPlaces(ordered, places)
               /\ places \in SUBSET DOMAIN ordered
               /\ VisibleColumns(p, b) \in Seq(Columns(b)) /\ IsInjective(VisibleColumns(p, b))
               /\ Range(VisibleColumns(p, b)) = VisibleColumnIDs(p, b)
               /\ VisibleColumns(p, b) # <<>>
<1> DEFINE ordered == OrderedColumnIDs(p, b)
           places == VisiblePlaces(p, b, ordered)
           shown == VisibleColumns(p, b)
<1>1. ordered \in Seq(Columns(b)) /\ Range(ordered) = Columns(b) /\ IsInjective(ordered)
  BY OrderedFacts
<1>2. shown = AtPlaces(ordered, places)
  BY DEF VisibleColumns
<1>3. VisibleColumnIDs(p, b) \subseteq Columns(b) /\ VisibleColumnIDs(p, b) # {}
  BY VisibleIDs
<1> HIDE DEF ordered, shown
<1>4. places \in SUBSET DOMAIN ordered
  BY DEF VisiblePlaces
<1>5. {ordered[i] : i \in places} = VisibleColumnIDs(p, b)
  BY <1>1, <1>3 DEF VisiblePlaces, Range
<1>6. \A i, j \in places : ordered[i] = ordered[j] => i = j
  BY <1>1, <1>4 DEF IsInjective
<1> HIDE DEF places
<1>7. /\ AtPlaces(ordered, places) \in Seq(Columns(b))
      /\ Range(AtPlaces(ordered, places)) = {ordered[i] : i \in places}
      /\ IsInjective(AtPlaces(ordered, places))
  BY <1>1, <1>4, <1>6, AtPlacesFacts, AtPlacesRange
<1>8. shown \in Seq(Columns(b)) /\ IsInjective(shown) /\ Range(shown) = VisibleColumnIDs(p, b)
  BY <1>2, <1>5, <1>7
<1>9. shown # <<>>
  BY <1>3, <1>8 DEF Range
<1> QED
  BY <1>2, <1>4, <1>8, <1>9 DEF ordered, places, shown

-----------------------------------------------------------------------------
(* A drop.                                                                 *)

LEMMA ConcatOf ==
    ASSUME NEW X, NEW s \in Seq(X), NEW t \in Seq(X), NEW c, c = s \o t
    PROVE  /\ c \in Seq(X) /\ Len(c) = Len(s) + Len(t)
           /\ \A k \in 1 .. Len(s) : c[k] = s[k]
           /\ \A k \in 1 .. Len(t) : c[Len(s) + k] = t[k]
OBVIOUS

\* arrayMove, place by place.
MovedFrom(from, to, k) ==
    CASE k = to -> from
      [] from <= k /\ k < to -> k + 1
      [] to < k /\ k <= from -> k - 1
      [] OTHER -> k

LEMMA MovedFacts ==
    ASSUME NEW X, NEW s \in Seq(X), NEW from \in 1 .. Len(s), NEW to \in 1 .. Len(s)
    PROVE  /\ Moved(s, from, to) \in Seq(X) /\ Len(Moved(s, from, to)) = Len(s)
           /\ \A k \in 1 .. Len(s) : Moved(s, from, to)[k] = s[MovedFrom(from, to, k)]
<1> DEFINE n == Len(s)
           r == RemoveAt(s, from)
<1>1. n \in Nat /\ s[from] \in X
  OBVIOUS
<1>2. /\ r \in Seq(X) /\ Len(r) = n - 1
      /\ \A k \in 1 .. n - 1 : r[k] = IF k < from THEN s[k] ELSE s[k + 1]
  <2> DEFINE before == SubSeq(s, 1, from - 1)
             after == SubSeq(s, from + 1, n)
  <2>1. /\ before \in Seq(X) /\ Len(before) = from - 1
        /\ \A k \in 1 .. from - 1 : before[k] = s[k]
    OBVIOUS
  <2>2. /\ after \in Seq(X) /\ Len(after) = n - from
        /\ \A k \in 1 .. n - from : after[k] = s[from + k]
    OBVIOUS
  <2>3. r = before \o after
    BY DEF RemoveAt
  <2> HIDE DEF before, after, r
  <2>4. /\ r \in Seq(X) /\ Len(r) = Len(before) + Len(after)
        /\ \A k \in 1 .. Len(before) : r[k] = before[k]
        /\ \A k \in 1 .. Len(after) : r[Len(before) + k] = after[k]
    <3>1. before \in Seq(X) /\ after \in Seq(X)
      BY <2>1, <2>2
    <3> QED
      BY <2>3, <3>1, ConcatOf
  <2>5. ASSUME NEW k \in 1 .. n - 1, ~(k < from)
        PROVE  r[k] = s[k + 1]
    <3>1. k - from + 1 \in 1 .. n - from /\ from - 1 + (k - from + 1) = k /\ from + (k - from + 1) = k + 1
      BY <1>1, <2>5
    <3>2. r[Len(before) + (k - from + 1)] = after[k - from + 1]
      BY <2>2, <2>4, <3>1
    <3>3. after[k - from + 1] = s[from + (k - from + 1)] /\ Len(before) = from - 1
      BY <2>1, <2>2, <3>1
    <3> QED
      BY <3>1, <3>2, <3>3
  <2>6. ASSUME NEW k \in 1 .. n - 1, k < from
        PROVE  r[k] = s[k]
    <3>1. k \in 1 .. from - 1 /\ Len(before) = from - 1
      BY <2>1, <2>6
    <3> QED
      BY <2>1, <2>4, <3>1
  <2>7. Len(r) = n - 1
    BY <1>1, <2>1, <2>2, <2>4
  <2> QED
    BY <2>4, <2>5, <2>6, <2>7
<1> DEFINE m == Moved(s, from, to)
<1>3. /\ m \in Seq(X) /\ Len(m) = n
      /\ \A k \in 1 .. n : m[k] = IF k = to THEN s[from] ELSE IF k < to THEN r[k] ELSE r[k - 1]
  <2> DEFINE before == SubSeq(r, 1, to - 1)
             after == SubSeq(r, to, Len(r))
  <2> HIDE DEF r
  <2>1. /\ before \in Seq(X) /\ Len(before) = to - 1
        /\ \A k \in 1 .. to - 1 : before[k] = r[k]
    BY <1>1, <1>2
  <2>2. /\ after \in Seq(X) /\ Len(after) = n - to
        /\ \A k \in 1 .. n - to : after[k] = r[to - 1 + k]
    BY <1>1, <1>2
  <2>3. m = (before \o <<s[from]>>) \o after
    BY DEF Moved, InsertAt, r
  <2> HIDE DEF before, after, m
  <2> DEFINE front == before \o <<s[from]>>
  <2>4. <<s[from]>> \in Seq(X) /\ Len(<<s[from]>>) = 1 /\ <<s[from]>>[1] = s[from]
    BY <1>1
  <2>5. /\ front \in Seq(X) /\ Len(front) = to
        /\ \A k \in 1 .. to - 1 : front[k] = before[k]
        /\ front[to] = s[from]
    <3> DEFINE one == <<s[from]>>
    <3> HIDE DEF one
    <3>1. one \in Seq(X) /\ Len(one) = 1 /\ one[1] = s[from] /\ front = before \o one
      BY <2>4 DEF one, front
    <3>2. /\ front \in Seq(X) /\ Len(front) = Len(before) + Len(one)
          /\ \A k \in 1 .. Len(before) : front[k] = before[k]
          /\ \A k \in 1 .. Len(one) : front[Len(before) + k] = one[k]
      BY <2>1, <3>1, ConcatOf
    <3>3. 1 \in 1 .. Len(one) /\ Len(before) + 1 = to
      BY <2>1, <3>1
    <3>4. front[Len(before) + 1] = one[1]
      BY <3>2, <3>3
    <3> QED
      BY <2>1, <3>1, <3>2, <3>3, <3>4
  <2>6. m = front \o after
    BY <2>3
  <2> HIDE DEF front
  <2>7. /\ m \in Seq(X) /\ Len(m) = Len(front) + Len(after)
        /\ \A k \in 1 .. Len(front) : m[k] = front[k]
        /\ \A k \in 1 .. Len(after) : m[Len(front) + k] = after[k]
    <3>1. front \in Seq(X) /\ after \in Seq(X)
      BY <2>2, <2>5
    <3> QED
      BY <2>6, <3>1, ConcatOf
  <2>8. /\ m \in Seq(X) /\ Len(m) = n
        /\ \A k \in 1 .. to : m[k] = front[k]
        /\ \A k \in 1 .. n - to : m[to + k] = after[k]
    BY <1>1, <2>2, <2>5, <2>7
  <2>9. ASSUME NEW k \in 1 .. n, k > to
        PROVE  m[k] = r[k - 1]
    <3>1. k - to \in 1 .. n - to /\ to + (k - to) = k /\ to - 1 + (k - to) = k - 1
      BY <1>1, <2>9
    <3> QED
      BY <2>2, <2>8, <3>1
  <2>10. m[to] = s[from]
    BY <2>5, <2>8
  <2>11. ASSUME NEW k \in 1 .. n, k < to
         PROVE  m[k] = r[k]
    <3>1. k \in 1 .. to /\ k \in 1 .. to - 1
      BY <2>11
    <3> QED
      BY <2>1, <2>5, <2>8, <3>1
  <2> QED
    BY <1>1, <2>8, <2>9, <2>10, <2>11
<1> HIDE DEF m, r
<1>4. ASSUME NEW k \in 1 .. n
      PROVE  m[k] = s[MovedFrom(from, to, k)]
  <2>1. CASE k = to
    BY <1>3, <2>1 DEF MovedFrom
  <2>2. CASE k < to
    <3>1. k \in 1 .. n - 1 /\ m[k] = r[k] /\ r[k] = IF k < from THEN s[k] ELSE s[k + 1]
      BY <1>1, <1>2, <1>3, <2>2
    <3> QED
      BY <2>2, <3>1 DEF MovedFrom
  <2>3. CASE k > to
    <3>1. k - 1 \in 1 .. n - 1 /\ k - 1 + 1 = k
      BY <1>1, <2>3
    <3>2. m[k] = r[k - 1] /\ r[k - 1] = IF k - 1 < from THEN s[k - 1] ELSE s[k]
      BY <1>2, <1>3, <2>3, <3>1
    <3> QED
      BY <2>3, <3>2 DEF MovedFrom
  <2> QED
    BY <2>1, <2>2, <2>3
<1> QED
  BY <1>3, <1>4 DEF m

LEMMA IndexOfElement ==
    ASSUME NEW s, IsInjective(s), NEW k \in DOMAIN s
    PROVE  IndexIn(s, s[k]) = k /\ s[k] \in Range(s)
<1>1. s[k] \in Range(s)
  BY DEF Range
<1>2. \A i \in DOMAIN s : s[i] = s[k] <=> i = k
  BY DEF IsInjective
<1> QED
  BY <1>1, <1>2 DEF IndexIn

LEMMA IndexFound ==
    ASSUME NEW X, NEW s \in Seq(X), NEW id
    PROVE  /\ IndexIn(s, id) \in 0 .. Len(s)
           /\ IndexIn(s, id) # 0 => /\ IndexIn(s, id) \in 1 .. Len(s)
                                   /\ s[IndexIn(s, id)] = id
           /\ id \notin Range(s) => IndexIn(s, id) = 0
<1>1. DOMAIN s = 1 .. Len(s) /\ Len(s) \in Nat
  OBVIOUS
<1>2. CASE id \in Range(s)
  <2>1. \E i \in DOMAIN s : s[i] = id
    BY <1>2 DEF Range
  <2>2. IndexIn(s, id) = CHOOSE i \in DOMAIN s : s[i] = id
    BY <1>2 DEF IndexIn
  <2>3. IndexIn(s, id) \in DOMAIN s /\ s[IndexIn(s, id)] = id
    BY <2>1, <2>2
  <2> QED
    BY <1>1, <1>2, <2>3
<1>3. CASE id \notin Range(s)
  BY <1>1, <1>3 DEF IndexIn
<1> QED
  BY <1>2, <1>3

\* The place a column is shifted to is the one it has once the header is moved.
ShiftedPlace(s, active, over, id) == IndexIn(s, id) + ColumnDragOffset(s, active, over, id)

LEMMA ShiftIsMove ==
    ASSUME NEW X, NEW s \in Seq(X), IsInjective(s),
           NEW from \in 1 .. Len(s), NEW to \in 1 .. Len(s), from # to, NEW i \in 1 .. Len(s)
    PROVE  (CHOOSE id \in Range(s) : ShiftedPlace(s, s[from], s[to], id) = i) = Moved(s, from, to)[i]
<1> DEFINE n == Len(s)
           m == Moved(s, from, to)
           place(id) == ShiftedPlace(s, s[from], s[to], id)
           target(k) == CASE k = from -> to
                          [] from < k /\ k <= to -> k - 1
                          [] to <= k /\ k < from -> k + 1
                          [] OTHER -> k
<1>1. DOMAIN s = 1 .. n /\ n \in Nat
  OBVIOUS
<1>2. \A k \in 1 .. n : IndexIn(s, s[k]) = k /\ s[k] \in Range(s)
  BY <1>1, IndexOfElement
<1>3. \A k \in 1 .. n : place(s[k]) = target(k)
  <2> SUFFICES ASSUME NEW k \in 1 .. n
               PROVE  place(s[k]) = target(k)
    OBVIOUS
  <2>1. IndexIn(s, s[k]) = k /\ IndexIn(s, s[from]) = from /\ IndexIn(s, s[to]) = to
    BY <1>2
  <2>2. s[k] = s[from] <=> k = from
    BY <2>1
  <2>3. place(s[k]) = k + (CASE s[k] = s[from] -> to - from
                            [] from < k /\ k <= to -> -1
                            [] to <= k /\ k < from -> 1
                            [] OTHER -> 0)
    <3>1. 0 \notin {from, to}
      BY <1>1
    <3> QED
      BY <2>1, <3>1 DEF ShiftedPlace, ColumnDragOffset
  <2>4. CASE k = from
    BY <1>1, <2>2, <2>3, <2>4
  <2>5. CASE k # from
    BY <1>1, <2>2, <2>3, <2>5
  <2> QED
    BY <2>4, <2>5
<1>4. \A k \in 1 .. n : m[k] = s[MovedFrom(from, to, k)]
  BY MovedFacts
<1> HIDE DEF m, place
<1>5. \A k \in 1 .. n : target(k) \in 1 .. n /\ m[target(k)] = s[k]
  <2> SUFFICES ASSUME NEW k \in 1 .. n
               PROVE  target(k) \in 1 .. n /\ m[target(k)] = s[k]
    OBVIOUS
  <2>1. CASE k = from
    BY <1>1, <1>4, <2>1 DEF MovedFrom
  <2>2. CASE from < k /\ k <= to
    <3>1. target(k) = k - 1 /\ k - 1 \in 1 .. n /\ from <= k - 1 /\ k - 1 < to /\ k - 1 + 1 = k
      BY <1>1, <2>2
    <3>2. m[k - 1] = s[k - 1 + 1]
      BY <1>4, <3>1 DEF MovedFrom
    <3> QED
      BY <3>1, <3>2
  <2>3. CASE to <= k /\ k < from
    <3>1. target(k) = k + 1 /\ k + 1 \in 1 .. n /\ to < k + 1 /\ k + 1 <= from /\ k + 1 - 1 = k
      BY <1>1, <2>3
    <3>2. m[k + 1] = s[k + 1 - 1]
      BY <1>4, <3>1 DEF MovedFrom
    <3> QED
      BY <3>1, <3>2
  <2>4. CASE k # from /\ ~(from < k /\ k <= to) /\ ~(to <= k /\ k < from)
    <3>1. target(k) = k /\ k # to /\ ~(from <= k /\ k < to) /\ ~(to < k /\ k <= from)
      BY <1>1, <2>4
    <3> QED
      BY <1>4, <3>1 DEF MovedFrom
  <2> QED
    BY <2>1, <2>2, <2>3, <2>4
<1>6. \E k \in 1 .. n : target(k) = i /\ m[i] = s[k]
  <2>1. CASE i = to
    BY <1>4, <2>1 DEF MovedFrom
  <2>2. CASE from <= i /\ i < to
    <3>1. i + 1 \in 1 .. n /\ target(i + 1) = i
      BY <1>1, <2>2
    <3> QED
      BY <1>5, <3>1
  <2>3. CASE to < i /\ i <= from
    <3>1. i - 1 \in 1 .. n /\ target(i - 1) = i
      BY <1>1, <2>3
    <3> QED
      BY <1>5, <3>1
  <2>4. CASE i # to /\ ~(from <= i /\ i < to) /\ ~(to < i /\ i <= from)
    <3>1. target(i) = i
      BY <1>1, <2>4
    <3> QED
      BY <1>5, <3>1
  <2> QED
    BY <2>1, <2>2, <2>3, <2>4
<1> HIDE DEF target
<1>7. \A id \in Range(s) : \E k \in 1 .. n : id = s[k]
  BY <1>1 DEF Range
<1>8. \A id \in Range(s) : place(id) = i <=> id = m[i]
  <2>1. ASSUME NEW id \in Range(s), place(id) = i
        PROVE  id = m[i]
    <3>1. PICK k \in 1 .. n : id = s[k]
      BY <1>7
    <3>2. place(s[k]) = target(k) /\ m[target(k)] = s[k]
      BY <1>3, <1>5
    <3> QED
      BY <2>1, <3>1, <3>2
  <2>2. m[i] \in Range(s) /\ place(m[i]) = i
    BY <1>2, <1>3, <1>6
  <2> QED
    BY <2>1, <2>2
<1>9. m[i] \in Range(s)
  BY <1>2, <1>6
<1> QED
  BY <1>8, <1>9 DEF place, m

\* Moving back undoes a move, so it loses and doubles nothing.
LEMMA MovedOnce ==
    ASSUME NEW X, NEW s \in Seq(X), IsInjective(s),
           NEW from \in 1 .. Len(s), NEW to \in 1 .. Len(s)
    PROVE  /\ IsInjective(Moved(s, from, to))
           /\ Range(Moved(s, from, to)) = Range(s)
<1> DEFINE n == Len(s)
           m == Moved(s, from, to)
<1>1. n \in Nat /\ DOMAIN s = 1 .. n
  OBVIOUS
<1>2. m \in Seq(X) /\ Len(m) = n /\ \A k \in 1 .. n : m[k] = s[MovedFrom(from, to, k)]
  BY MovedFacts
<1> HIDE DEF m
<1>3. DOMAIN m = 1 .. n
  BY <1>2
<1>4. \A k \in 1 .. n : /\ MovedFrom(from, to, k) \in 1 .. n /\ MovedFrom(to, from, k) \in 1 .. n
                        /\ MovedFrom(to, from, MovedFrom(from, to, k)) = k
                        /\ MovedFrom(from, to, MovedFrom(to, from, k)) = k
  <2> SUFFICES ASSUME NEW k \in 1 .. n
               PROVE  /\ MovedFrom(from, to, k) \in 1 .. n /\ MovedFrom(to, from, k) \in 1 .. n
                      /\ MovedFrom(to, from, MovedFrom(from, to, k)) = k
                      /\ MovedFrom(from, to, MovedFrom(to, from, k)) = k
    OBVIOUS
  <2> DEFINE inRange(j) == j \in 1 .. n
  <2>1. MovedFrom(from, to, k) \in 1 .. n /\ MovedFrom(to, from, k) \in 1 .. n
    BY <1>1 DEF MovedFrom
  <2>2. MovedFrom(to, from, MovedFrom(from, to, k)) = k
    BY <1>1 DEF MovedFrom
  <2>3. MovedFrom(from, to, MovedFrom(to, from, k)) = k
    BY <1>1 DEF MovedFrom
  <2> QED
    BY <2>1, <2>2, <2>3
<1>5. \A k, l \in 1 .. n : m[k] = m[l] => k = l
  <2> SUFFICES ASSUME NEW k \in 1 .. n, NEW l \in 1 .. n, m[k] = m[l]
               PROVE  k = l
    OBVIOUS
  <2>1. MovedFrom(from, to, k) = MovedFrom(from, to, l)
    BY <1>1, <1>2, <1>4 DEF IsInjective
  <2> QED
    BY <1>4, <2>1
<1>6. \A id : id \in Range(m) <=> id \in Range(s)
  <2>1. ASSUME NEW id \in Range(m)
        PROVE  id \in Range(s)
    BY <1>1, <1>2, <1>3, <1>4 DEF Range
  <2>2. ASSUME NEW id \in Range(s)
        PROVE  id \in Range(m)
    <3>1. PICK j \in 1 .. n : s[j] = id
      BY <1>1 DEF Range
    <3>2. m[MovedFrom(to, from, j)] = id /\ MovedFrom(to, from, j) \in DOMAIN m
      BY <1>2, <1>3, <1>4, <3>1
    <3> QED
      BY <3>2 DEF Range
  <2> QED
    BY <2>1, <2>2
<1> QED
  BY <1>3, <1>5, <1>6 DEF IsInjective, m

\* The visible columns in another order take their own places.
LEMMA ReorderedFacts ==
    ASSUME NEW b \in Builds, NEW p \in Preferences, NEW moved \in Seq(Columns(b)),
           IsInjective(moved), Range(moved) = VisibleColumnIDs(p, b),
           Len(moved) = Len(VisibleColumns(p, b)),
           NEW q, q = [p EXCEPT !.order = ReorderedColumnIDs(p, b, moved)]
    PROVE  /\ q \in Preferences
           /\ VisibleColumns(q, b) = moved
           /\ \A i \in DOMAIN OrderedColumnIDs(p, b) :
                 OrderedColumnIDs(p, b)[i] \notin VisibleColumnIDs(p, b) =>
                     OrderedColumnIDs(q, b)[i] = OrderedColumnIDs(p, b)[i]
<1> DEFINE ordered == OrderedColumnIDs(p, b)
           places == VisiblePlaces(p, b, ordered)
           shown == VisibleColumns(p, b)
           order == ReorderedColumnIDs(p, b, moved)
<1>1. /\ ordered \in Seq(Columns(b)) /\ Range(ordered) = Columns(b) /\ IsInjective(ordered)
  BY OrderedFacts
<1>2. shown = AtPlaces(ordered, places) /\ places \in SUBSET DOMAIN ordered
  BY VisibleFacts
<1>3. order = [i \in DOMAIN ordered |->
                  IF i \in places THEN moved[CountUpTo(places, i)] ELSE ordered[i]]
  BY DEF ReorderedColumnIDs
<1>4. \A i \in DOMAIN ordered : i \in places <=> ordered[i] \in VisibleColumnIDs(p, b)
  BY DEF VisiblePlaces
<1>5. p.order \in Seq(ColumnIDs) /\ p.visible \in SUBSET ColumnIDs
      /\ q = [visible |-> p.visible, order |-> order]
  BY DEF Preferences
<1> HIDE DEF ordered, places, order
<1>6. /\ Cardinality(places) \in Nat /\ Len(moved) = Cardinality(places)
      /\ DOMAIN moved = 1 .. Cardinality(places)
      /\ \A i \in places : CountUpTo(places, i) \in 1 .. Cardinality(places)
      /\ \A i \in places : AtPlaces(ordered, places)[CountUpTo(places, i)] = ordered[i]
      /\ \A k \in 1 .. Cardinality(places) : \E i \in places : CountUpTo(places, i) = k
  BY <1>1, <1>2, AtPlacesFacts
<1>7. DOMAIN ordered = 1 .. Len(ordered) /\ Len(ordered) \in Nat
  BY <1>1
<1>8. \A i \in places : order[i] = moved[CountUpTo(places, i)] /\ order[i] \in VisibleColumnIDs(p, b)
  BY <1>2, <1>3, <1>6 DEF Range
<1>9. \A i \in DOMAIN ordered : i \notin places =>
         order[i] = ordered[i] /\ order[i] \notin VisibleColumnIDs(p, b)
  BY <1>3, <1>4
<1>10. order \in Seq(Columns(b)) /\ DOMAIN order = DOMAIN ordered
  <2>1. \A i \in DOMAIN ordered : order[i] \in Columns(b)
    BY <1>1, <1>8, <1>9, VisibleIDs DEF Range
  <2>2. order \in [1 .. Len(ordered) -> Columns(b)]
    BY <1>3, <1>7, <2>1
  <2> QED
    BY <1>7, <2>2, FunctionIsSeq
<1>11. IsInjective(order)
  <2> SUFFICES ASSUME NEW i \in DOMAIN ordered, NEW j \in DOMAIN ordered, order[i] = order[j]
               PROVE  i = j
    BY <1>10 DEF IsInjective
  <2>1. CASE i \in places /\ j \in places
    <3>1. CountUpTo(places, i) = CountUpTo(places, j)
      BY <1>6, <1>8, <2>1 DEF IsInjective
    <3>2. ordered[i] = ordered[j]
      BY <1>6, <2>1, <3>1
    <3> QED
      BY <1>1, <3>2 DEF IsInjective
  <2>2. CASE i \notin places /\ j \notin places
    <3>1. ordered[i] = ordered[j]
      BY <1>9, <2>2
    <3> QED
      BY <1>1, <3>1 DEF IsInjective
  <2> QED
    BY <1>8, <1>9, <2>1, <2>2
<1>12. Range(order) = Columns(b)
  <2>1. Range(order) \subseteq Columns(b)
    BY <1>10 DEF Range
  <2>2. ASSUME NEW id \in Columns(b)
        PROVE  id \in Range(order)
    <3>1. CASE id \in VisibleColumnIDs(p, b)
      <4>1. PICK k \in DOMAIN moved : moved[k] = id
        BY <3>1 DEF Range
      <4>2. PICK i \in places : CountUpTo(places, i) = k
        BY <1>6, <4>1
      <4> QED
        BY <1>2, <1>8, <1>10, <4>1, <4>2 DEF Range
    <3>2. CASE id \notin VisibleColumnIDs(p, b)
      <4>1. PICK i \in DOMAIN ordered : ordered[i] = id
        BY <1>1 DEF Range
      <4> QED
        BY <1>4, <1>9, <1>10, <3>2, <4>1 DEF Range
    <3> QED
      BY <3>1, <3>2
  <2> QED
    BY <2>1, <2>2
<1>13. OrderedColumnIDs(q, b) = order
  BY <1>5, <1>10, <1>11, <1>12, CompleteOrder
<1>14. VisibleColumnIDs(q, b) = VisibleColumnIDs(p, b)
  BY <1>5 DEF VisibleColumnIDs
<1>15. VisiblePlaces(q, b, order) = places
  <2>1. \A i \in DOMAIN order : order[i] \in VisibleColumnIDs(q, b) <=> i \in places
    BY <1>8, <1>9, <1>10, <1>14
  <2> QED
    BY <1>2, <1>10, <2>1 DEF VisiblePlaces
<1>16. VisibleColumns(q, b) = AtPlaces(order, places)
  BY <1>13, <1>15 DEF VisibleColumns
<1>17. AtPlaces(order, places) = moved
  <2> DEFINE taken == AtPlaces(order, places)
  <2>1. /\ taken \in Seq(Columns(b)) /\ DOMAIN taken = 1 .. Cardinality(places)
        /\ \A k \in 1 .. Cardinality(places) :
              \E i \in places : CountUpTo(places, i) = k /\ taken[k] = order[i]
    BY <1>2, <1>10, AtPlacesFacts
  <2> HIDE DEF taken
  <2>2. \A k \in 1 .. Cardinality(places) : taken[k] = moved[k]
    BY <1>8, <2>1
  <2>3. taken = [k \in DOMAIN taken |-> taken[k]] /\ moved = [k \in DOMAIN moved |-> moved[k]]
    BY <2>1
  <2> QED
    BY <1>6, <2>1, <2>2, <2>3 DEF taken
<1>18. q \in Preferences
  <2>1. Columns(b) \subseteq ColumnIDs
    BY BuildColumns
  <2>2. order \in Seq(ColumnIDs)
    BY <1>10, <2>1
  <2> QED
    BY <1>5, <2>2 DEF Preferences
<1> QED
  BY <1>4, <1>9, <1>13, <1>16, <1>17, <1>18 DEF ordered

\* What a drop writes, if it writes.
LEMMA DropFacts ==
    ASSUME ColumnInv, NEW t \in Tabs, ReorderVisibleColumns(t)
    PROVE  /\ build' = build
           /\ \/ /\ UNCHANGED <<stored, preferences, current, writes>>
                 /\ Previewed(t) = ShownColumns(t)
              \/ \E q \in Preferences :
                    /\ Write(t, q)
                    /\ VisibleColumns(q, build[t]) = Previewed(t)
                    /\ \A i \in DOMAIN MenuColumns(t) :
                          MenuColumns(t)[i] \notin Range(ShownColumns(t)) =>
                              OrderedColumnIDs(q, build[t])[i] = MenuColumns(t)[i]
<1> DEFINE b == build[t]
           p == preferences[t]
           seq == ShownColumns(t)
           active == columnDrag.active
           over == columnDrag.over
           from == IndexIn(seq, active)
           to == IndexIn(seq, over)
           moved == Moved(seq, from, to)
           q == [p EXCEPT !.order = ReorderedColumnIDs(p, b, moved)]
<1>1. b \in Builds /\ p \in Preferences
  BY DEF ColumnInv
<1>2. build' = build
  BY DEF ReorderVisibleColumns
<1>3. IF over \in {Nowhere, active} \/ from = 0 \/ to = 0
      THEN UNCHANGED <<stored, preferences, current, writes>>
      ELSE Write(t, q)
  BY DEF ReorderVisibleColumns
<1>4. seq = VisibleColumns(p, b)
  BY DEF ShownColumns
<1>5. /\ seq \in Seq(Columns(b)) /\ IsInjective(seq) /\ Range(seq) = VisibleColumnIDs(p, b)
  BY <1>1, <1>4, VisibleFacts
<1>6. Previewed(t) = [i \in DOMAIN seq |-> CHOOSE id \in Range(seq) : ShiftedPlace(seq, active, over, id) = i]
  BY DEF Previewed, ShiftedPlace
<1>7. DOMAIN seq = 1 .. Len(seq) /\ Len(seq) \in Nat
  BY <1>5
<1>8. MenuColumns(t) = OrderedColumnIDs(p, b)
  BY DEF MenuColumns
<1> HIDE DEF b, p, seq, active, over
<1>9. CASE over \in {Nowhere, active} \/ from = 0 \/ to = 0
  <2>1. over = active \/ from = 0 \/ to = 0
    <3>1. CASE over = Nowhere
      <4>1. Nowhere \notin Range(seq)
        BY <1>1, <1>5, ColumnAssumption, BuildColumns, VisibleIDs
      <4> QED
        BY <1>5, <3>1, <4>1, IndexFound
    <3> QED
      BY <1>9, <3>1
  <2>2. \A id \in Range(seq) : ShiftedPlace(seq, active, over, id) = IndexIn(seq, id)
    <3> SUFFICES ASSUME NEW id \in Range(seq)
                 PROVE  ShiftedPlace(seq, active, over, id) = IndexIn(seq, id)
      OBVIOUS
    <3>1. from \in Int /\ to \in Int /\ IndexIn(seq, id) \in Int
      BY <1>5, <1>7, IndexFound
    <3>2. ColumnDragOffset(seq, active, over, id) = 0
      BY <2>1, <3>1 DEF ColumnDragOffset
    <3> QED
      BY <3>1, <3>2 DEF ShiftedPlace
  <2>3. \A i \in DOMAIN seq :
           (CHOOSE id \in Range(seq) : ShiftedPlace(seq, active, over, id) = i) = seq[i]
    <3> SUFFICES ASSUME NEW i \in DOMAIN seq
                 PROVE  (CHOOSE id \in Range(seq) : ShiftedPlace(seq, active, over, id) = i) = seq[i]
      OBVIOUS
    <3>1. IndexIn(seq, seq[i]) = i /\ seq[i] \in Range(seq)
      BY <1>5, IndexOfElement
    <3>2. \A id \in Range(seq) : IndexIn(seq, id) = i => id = seq[i]
      BY <1>5, <1>7, IndexFound
    <3>3. \A id \in Range(seq) : ShiftedPlace(seq, active, over, id) = i <=> id = seq[i]
      BY <2>2, <3>1, <3>2
    <3> QED
      BY <3>1, <3>3
  <2>4. seq = [i \in DOMAIN seq |-> seq[i]]
    BY <1>5
  <2>5. Previewed(t) = seq
    BY <1>6, <2>3, <2>4
  <2> QED
    BY <1>2, <1>3, <1>9, <2>5 DEF seq
<1>10. CASE ~(over \in {Nowhere, active} \/ from = 0 \/ to = 0)
  <2>1. /\ from \in 1 .. Len(seq) /\ seq[from] = active
        /\ to \in 1 .. Len(seq) /\ seq[to] = over
    BY <1>5, <1>10, IndexFound
  <2>2. from # to
    BY <1>10, <2>1
  <2> HIDE DEF from, to
  <2>3. /\ moved \in Seq(Columns(b)) /\ Len(moved) = Len(seq)
        /\ IsInjective(moved) /\ Range(moved) = VisibleColumnIDs(p, b)
    BY <1>5, <2>1, MovedFacts, MovedOnce
  <2>4. \A i \in 1 .. Len(seq) :
           (CHOOSE id \in Range(seq) : ShiftedPlace(seq, seq[from], seq[to], id) = i) = moved[i]
    BY <1>5, <2>1, <2>2, ShiftIsMove
  <2> HIDE DEF moved
  <2>5. Previewed(t) = moved
    <3>1. moved = [i \in 1 .. Len(seq) |-> moved[i]]
      BY <2>3
    <3>2. Previewed(t) = [i \in 1 .. Len(seq) |->
             CHOOSE id \in Range(seq) : ShiftedPlace(seq, seq[from], seq[to], id) = i]
      BY <1>6, <1>7, <2>1
    <3> QED
      BY <2>4, <3>1, <3>2
  <2>6. Write(t, q)
    BY <1>3, <1>10 DEF from, to
  <2>7. /\ q \in Preferences /\ VisibleColumns(q, b) = moved
        /\ \A i \in DOMAIN OrderedColumnIDs(p, b) :
              OrderedColumnIDs(p, b)[i] \notin VisibleColumnIDs(p, b) =>
                  OrderedColumnIDs(q, b)[i] = OrderedColumnIDs(p, b)[i]
    BY <1>1, <1>4, <2>3, ReorderedFacts
  <2> HIDE DEF q
  <2> QED
    BY <1>2, <1>5, <1>8, <2>5, <2>6, <2>7 DEF b, seq
<1> QED
  BY <1>9, <1>10

-----------------------------------------------------------------------------
LEMMA ColumnInitial == ColumnInit => ColumnInv
<1> SUFFICES ASSUME ColumnInit
             PROVE  ColumnInv
  OBVIOUS
<1>1. \A t \in Tabs : /\ preferences[t] = DefaultPreferences(build[t])
                      /\ DefaultPreferences(build[t]) \in Preferences
                      /\ ReadColumnPreferences(stored, build[t]) = DefaultPreferences(build[t])
  BY BuildColumns DEF ColumnInit, ReadColumnPreferences
<1>2. preferences \in [Tabs -> Preferences]
  BY <1>1 DEF ColumnInit
<1> QED
  BY <1>1, <1>2 DEF ColumnInit, ColumnInv

LEMMA MountStep ==
    ASSUME ColumnInv, NEW t \in Tabs, NEW b \in Builds, Mounted(t, b),
           build' = [build EXCEPT ![t] = b]
    PROVE  ColumnInv'
<1>1. ReadColumnPreferences(stored, b) \in Preferences
  BY ReadIsPreferences DEF ColumnInv
<1>2. /\ preferences' = [preferences EXCEPT ![t] = ReadColumnPreferences(stored, b)]
      /\ current' = current \cup {t} /\ stored' = stored
  BY DEF Mounted
<1>3. build' \in [Tabs -> Builds] /\ preferences' \in [Tabs -> Preferences]
  BY <1>1, <1>2 DEF ColumnInv
<1>4. \A u \in current' : u \in Tabs /\ preferences'[u] = ReadColumnPreferences(stored, build'[u])
  BY <1>2 DEF ColumnInv
<1> QED
  BY <1>2, <1>3, <1>4 DEF ColumnInv

LEMMA WriteStep ==
    ASSUME ColumnInv, NEW t \in Tabs, NEW p \in Preferences, Write(t, p), build' = build
    PROVE  ColumnInv'
<1>1. /\ preferences' = [preferences EXCEPT ![t] = p] /\ current' = {t} /\ stored' = p
  BY DEF Write
<1>2. preferences' \in [Tabs -> Preferences] /\ preferences'[t] = p
  BY <1>1 DEF ColumnInv
<1>3. ReadColumnPreferences(p, build[t]) = p
  BY WrittenIsRead
<1> QED
  BY <1>1, <1>2, <1>3 DEF ColumnInv

LEMMA ColumnStep == ColumnInv /\ [ColumnNext]_columnVars => ColumnInv'
<1> SUFFICES ASSUME ColumnInv, [ColumnNext]_columnVars
             PROVE  ColumnInv'
  OBVIOUS
<1>1. CASE UNCHANGED <<stored, build, preferences, current>>
  BY <1>1 DEF ColumnInv
<1>2. ASSUME NEW t \in Tabs, Remount(t)
      PROVE  ColumnInv'
  <2>1. build[t] \in Builds /\ build' = [build EXCEPT ![t] = build[t]]
    BY <1>2 DEF Remount, ColumnInv
  <2> QED
    BY <1>2, <2>1, MountStep DEF Remount
<1>3. ASSUME NEW t \in Tabs, NEW b \in Builds, Reload(t, b)
      PROVE  ColumnInv'
  BY <1>3, MountStep DEF Reload
<1>4. ASSUME NEW t \in Tabs, NEW id, ToggleColumn(t, id)
      PROVE  ColumnInv'
  <2> DEFINE visible == VisibleColumnIDs(preferences[t], build[t])
             p == [preferences[t] EXCEPT
                     !.visible = IF id \in visible THEN visible \ {id} ELSE visible \cup {id}]
  <2>1. /\ id \in Columns(build[t]) /\ Write(t, p) /\ build' = build
    BY <1>4 DEF ToggleColumn
  <2>2. build[t] \in Builds /\ preferences[t] \in Preferences
    BY DEF ColumnInv
  <2>3. visible \subseteq ColumnIDs /\ id \in ColumnIDs
    BY <2>1, <2>2, VisibleIDs, BuildColumns
  <2> HIDE DEF visible
  <2>4. p \in Preferences
    BY <2>2, <2>3 DEF Preferences
  <2> QED
    BY <2>1, <2>4, WriteStep
<1>5. ASSUME NEW t \in Tabs, ReorderVisibleColumns(t)
      PROVE  ColumnInv'
  <2>1. CASE UNCHANGED <<stored, preferences, current, writes>>
    BY <1>1, <1>5, <2>1, DropFacts
  <2>2. CASE \E q \in Preferences : Write(t, q)
    BY <1>5, <2>2, DropFacts, WriteStep
  <2> QED
    BY <1>5, <2>1, <2>2, DropFacts
<1>6. CASE DragCancel \/ \E t \in Tabs : \E active, over : DragMove(t, active, over)
  BY <1>1, <1>6 DEF DragCancel, DragMove
<1>7. CASE UNCHANGED columnVars
  BY <1>1, <1>7 DEF columnVars
<1> QED
  BY <1>2, <1>3, <1>4, <1>5, <1>6, <1>7 DEF ColumnNext

(* What the tabs hold and what is stored are preferences, and what a tab   *)
(* holds that no other has written behind is what is stored: the setters   *)
(* of data-table.tsx write all they hold.                                  *)
THEOREM ColumnInvariant == ColumnSpec => []ColumnInv
<1> QED
  BY ColumnInitial, ColumnStep, PTL DEF ColumnSpec

(* A tab that no other has written behind shows what it would show after a *)
(* reload, for all builds, tabs and writes.                                *)
THEOREM ColumnsAreSaved == ColumnSpec => []SavedIsShown
<1>1. ColumnInv => SavedIsShown
  BY DEF ColumnInv, SavedIsShown, ShownColumns, MenuColumns
<1> QED
  BY <1>1, ColumnInvariant, PTL

(* Every column of the build of a tab has one place in its menu and one of *)
(* them is shown, whatever another build has stored.                       *)
THEOREM ColumnsStayReachable == ColumnSpec => []ColumnsAreShown
<1>1. ColumnInv => ColumnsAreShown
  BY OrderedFacts, VisibleFacts DEF ColumnInv, ColumnsAreShown, ShownColumns, MenuColumns
<1> QED
  BY <1>1, ColumnInvariant, PTL

(* A drop orders the visible columns as the shifted cells showed it and    *)
(* moves no hidden column, for any number of columns and builds.           *)
THEOREM DropFollowsPreview == ColumnSpec => DropIsAsPreviewed
<1>1. ASSUME ColumnInv, NEW t \in Tabs, ReorderVisibleColumns(t)
      PROVE  /\ ShownColumns(t)' = Previewed(t)
             /\ \A i \in DOMAIN MenuColumns(t) :
                   MenuColumns(t)[i] \notin Range(ShownColumns(t)) => MenuColumns(t)'[i] = MenuColumns(t)[i]
  <2>1. build' = build
    BY <1>1, DropFacts
  <2>2. CASE UNCHANGED <<stored, preferences, current, writes>> /\ Previewed(t) = ShownColumns(t)
    BY <2>1, <2>2 DEF ShownColumns, MenuColumns
  <2>3. ASSUME NEW q \in Preferences, Write(t, q),
               VisibleColumns(q, build[t]) = Previewed(t),
               \A i \in DOMAIN MenuColumns(t) :
                  MenuColumns(t)[i] \notin Range(ShownColumns(t)) =>
                      OrderedColumnIDs(q, build[t])[i] = MenuColumns(t)[i]
        PROVE  /\ ShownColumns(t)' = Previewed(t)
               /\ \A i \in DOMAIN MenuColumns(t) :
                     MenuColumns(t)[i] \notin Range(ShownColumns(t)) =>
                         MenuColumns(t)'[i] = MenuColumns(t)[i]
    <3>1. preferences'[t] = q /\ build'[t] = build[t]
      BY <1>1, <2>1, <2>3 DEF Write, ColumnInv
    <3>2. ShownColumns(t)' = VisibleColumns(q, build[t]) /\ MenuColumns(t)' = OrderedColumnIDs(q, build[t])
      BY <3>1 DEF ShownColumns, MenuColumns
    <3> QED
      BY <2>3, <3>2
  <2> QED
    BY <1>1, <2>2, <2>3, DropFacts
<1>2. ColumnInv => \A t \in Tabs :
          ReorderVisibleColumns(t) =>
              /\ ShownColumns(t)' = Previewed(t)
              /\ \A i \in DOMAIN MenuColumns(t) :
                    MenuColumns(t)[i] \notin Range(ShownColumns(t)) => MenuColumns(t)'[i] = MenuColumns(t)[i]
  BY <1>1
<1> QED
  BY <1>2, ColumnInvariant, PTL DEF DropIsAsPreviewed
-----------------------------------------------------------------------------
(* Clocks.                                                                 *)

LEMMA OffsetIsInt ==
    ASSUME NEW z \in Zone, NEW instant \in Int
    PROVE  /\ z.transition \in Int /\ z.before \in Int /\ z.after \in Int
           /\ Offset(z, instant) \in Int
BY DEF Zone, Offset

\* A wall clock the zone shows at some instant is shown at the instant the
\* editor makes of it (dateFromZonedDateTime), on whichever side of the
\* transition the first guess lies.
THEOREM RoundTrip ==
    ASSUME NEW z \in Zone, NEW wall \in Int, Exists(z, wall)
    PROVE  ZonedDateTimeValue(z, DateFromZonedDateTime(z, wall)) = wall
<1>1. /\ z.transition \in Int /\ z.before \in Int /\ z.after \in Int
  BY DEF Zone
<1>2. \/ wall - z.before < z.transition
      \/ wall - z.after >= z.transition
      \/ z.before = z.after
  BY <1>1 DEF Exists, ZonedDateTimeValue, Offset
<1> QED BY <1>1, <1>2 DEF ZonedDateTimeValue, DateFromZonedDateTime, Offset

LEMMA DateIsInt ==
    ASSUME NEW z \in Zone, NEW wall \in Int
    PROVE  /\ DateFromZonedDateTime(z, wall) \in Int
           /\ ZonedDateTimeValue(z, wall) \in Int
BY OffsetIsInt DEF DateFromZonedDateTime, ZonedDateTimeValue

LEMMA ShownExists ==
    ASSUME NEW z \in Zone, NEW instant \in Int
    PROVE  Exists(z, ZonedDateTimeValue(z, instant))
<1>1. /\ z.transition \in Int /\ z.before \in Int /\ z.after \in Int
  BY DEF Zone
<1>2. Offset(z, instant) \in {z.before, z.after}
  BY <1>1 DEF Offset
<1>3. ZonedDateTimeValue(z, instant) - Offset(z, instant) = instant
  BY <1>1, <1>2 DEF ZonedDateTimeValue
<1> QED BY <1>2, <1>3 DEF Exists

\* What a zone does not show lies in the gap of its transition.
LEMMA SkippedIsInGap ==
    ASSUME NEW z \in Zone, NEW wall \in Int, ~Exists(z, wall)
    PROVE  /\ z.transition + z.before <= wall
           /\ wall < z.transition + z.after
<1>1. /\ z.transition \in Int /\ z.before \in Int /\ z.after \in Int
  BY DEF Zone
<1>2. /\ ZonedDateTimeValue(z, wall - z.before) # wall
      /\ ZonedDateTimeValue(z, wall - z.after) # wall
  BY DEF Exists
<1> QED BY <1>1, <1>2 DEF ZonedDateTimeValue, Offset

-----------------------------------------------------------------------------
(* Days.                                                                   *)

LEMMA DayOf ==
    ASSUME NEW wall \in Int
    PROVE  /\ Day(wall) \in Int
           /\ DaySteps * Day(wall) <= wall
           /\ wall < DaySteps * Day(wall) + DaySteps
BY DayAssumption DEF Day

LEMMA DayIs ==
    ASSUME NEW wall \in Int, NEW q \in Int,
           DaySteps * q <= wall, wall < DaySteps * q + DaySteps
    PROVE  Day(wall) = q
BY DayAssumption DEF Day

LEMMA DayBetween ==
    ASSUME NEW u \in Int, NEW v \in Int, NEW w \in Int,
           u <= v, v <= w, Day(u) = Day(w)
    PROVE  Day(v) = Day(u)
<1>1. /\ Day(u) \in Int
      /\ DaySteps * Day(u) <= u
      /\ w < DaySteps * Day(u) + DaySteps
  BY DayOf
<1>2. DaySteps * Day(u) \in Int /\ DaySteps \in Int
  BY <1>1, DayAssumption
<1>3. DaySteps * Day(u) <= v /\ v < DaySteps * Day(u) + DaySteps
  BY <1>1, <1>2
<1> QED BY <1>1, <1>3, DayIs

LEMMA WallClockOf ==
    ASSUME NEW wall \in Int
    PROVE  /\ Time(wall) \in 0 .. DaySteps - 1
           /\ WallClock(Day(wall), Time(wall)) = wall
BY DayAssumption DEF Time, Day, WallClock

LEMMA DayOfWallClock ==
    ASSUME NEW day \in Int, NEW time \in 0 .. DaySteps - 1
    PROVE  WallClock(day, time) \in Int /\ Day(WallClock(day, time)) = day
<1>1. DaySteps * day \in Int /\ DaySteps \in Nat
  BY DayAssumption
<1>2. WallClock(day, time) = DaySteps * day + time
  BY DayAssumption DEF WallClock
<1> QED BY <1>1, <1>2, DayIs

LEMMA LocalIsInt ==
    ASSUME NEW z \in Zone, NEW wall \in Int
    PROVE  LocalWallClock(z, wall) \in Int
BY DEF LocalWallClock, Zone

\* The browser's zone keeps every day if it skips nothing, or if what it skips and
\* where that is put off to are in one day: EditIsShown exempts no day then.
THEOREM ZonesKeepDays ==
    ASSUME NEW z \in Zone, NEW day \in Int,
           z.before < z.after =>
              Day(z.transition + z.before) = Day(z.transition + z.after + (z.after - z.before) - 1)
    PROVE  KeepsDay(z, day)
<1> SUFFICES ASSUME NEW time \in 0 .. DaySteps - 1
             PROVE  Day(LocalWallClock(z, WallClock(day, time))) = day
  BY DEF KeepsDay
<1> DEFINE wall == WallClock(day, time)
<1>1. wall \in Int /\ Day(wall) = day
  BY DayOfWallClock
<1>2. /\ z.transition \in Int /\ z.before \in Int /\ z.after \in Int
  BY DEF Zone
<1> HIDE DEF wall
<1>3. CASE Exists(z, wall)
  BY <1>1, <1>3 DEF LocalWallClock, wall
<1>4. CASE ~Exists(z, wall)
  <2> DEFINE first == z.transition + z.before
             last == z.transition + z.after + (z.after - z.before) - 1
             moved == wall + z.after - z.before
  <2>1. first <= wall /\ wall < z.transition + z.after
    BY <1>1, <1>4, SkippedIsInGap
  <2>2. first \in Int /\ last \in Int /\ moved \in Int
    BY <1>1, <1>2
  <2>3. first <= wall /\ wall <= last /\ first <= moved /\ moved <= last
    BY <1>1, <1>2, <2>1
  <2>4. Day(first) = Day(last)
    BY <1>1, <1>2, <2>1
  <2>5. LocalWallClock(z, wall) = moved
    BY <1>4 DEF LocalWallClock
  <2> HIDE DEF first, last, moved
  <2>6. Day(wall) = Day(first) /\ Day(moved) = Day(first)
    BY <1>1, <2>2, <2>3, <2>4, DayBetween
  <2> QED BY <1>1, <2>5, <2>6 DEF wall
<1> QED BY <1>3, <1>4

-----------------------------------------------------------------------------
(* The timestamp: what is shown and edited are zones, instants and wall    *)
(* clocks.                                                                 *)
EditorTypes ==
    /\ timeZone \in DOMAIN ZoneOf
    /\ \E name \in BrowserZones : browserTimeZone = CanonicalTimeZone(name)
    /\ value \in Int \cup {NoInstant}
    /\ chosen # NothingChosen =>
          /\ chosen.zone \in DOMAIN ZoneOf /\ chosen.wall \in Int
          /\ value \in Int

EditorInv == EditorTypes /\ EditIsShown

LEMMA SavedIsZone ==
    ASSUME NEW saved, NEW browser \in DOMAIN ZoneOf
    PROVE  SavedTimeZone(saved, browser) \in DOMAIN ZoneOf
BY ShellAssumption DEF SavedTimeZone

LEMMA EditorInit == ShellInit => EditorInv
<1> SUFFICES ASSUME ShellInit PROVE EditorInv
  OBVIOUS
<1>1. PICK name \in BrowserZones : browserTimeZone = CanonicalTimeZone(name)
  BY DEF ShellInit
<1>2. timeZone \in DOMAIN ZoneOf
  BY <1>1, SavedIsZone, ShellAssumption DEF ShellInit
<1>3. value \in Int \cup {NoInstant} /\ chosen = NothingChosen
  BY ShellAssumption DEF ShellInit
<1> QED BY <1>1, <1>2, <1>3 DEF EditorInv, EditorTypes, EditIsShown

\* The timestamp made of the wall clock chosen shows it; one made of another day
\* does only matter where the browser's zone keeps the day chosen.
LEMMA Chosen ==
    ASSUME EditorInv, NEW day \in Int, NEW time \in 0 .. DaySteps - 1, NEW made \in Int,
           UpdateWallClock(made, time), Choose(day, time),
           KeepsDay(ZoneOf[browserTimeZone], day) => made = day
    PROVE  EditorInv'
<1> DEFINE z == ZoneOf[timeZone]
           b == ZoneOf[browserTimeZone]
           wall == WallClock(day, time)
<1>1. wall \in Int /\ Day(wall) = day /\ WallClock(made, time) \in Int
  BY DayOfWallClock
<1>2. z \in Zone
  BY ShellAssumption DEF EditorInv, EditorTypes
<1>3. value' = DateFromZonedDateTime(z, WallClock(made, time)) /\ timeZone' = timeZone
      /\ browserTimeZone' = browserTimeZone
  BY DEF UpdateWallClock, Choose, zoneVars
<1>4. chosen' = [zone |-> timeZone, wall |-> wall]
  BY DEF Choose
<1>5. value' \in Int
  BY <1>1, <1>2, <1>3, DateIsInt
<1>6. EditorTypes'
  BY <1>1, <1>3, <1>4, <1>5 DEF EditorInv, EditorTypes
<1>7. KeepsDay(b, day) /\ Exists(z, wall) => ZonedDateTimeValue(z, value') = wall
  BY <1>1, <1>2, <1>3, RoundTrip
<1>8. ZoneOf[chosen'.zone] = z /\ chosen'.wall = wall /\ ZoneOf[browserTimeZone'] = b
  BY <1>3, <1>4
<1> HIDE DEF z, b, wall
<1>9. EditIsShown'
  BY <1>1, <1>7, <1>8 DEF EditIsShown
<1> QED BY <1>6, <1>9 DEF EditorInv

LEMMA EditorStep == EditorInv /\ [ShellNext]_shellVars => EditorInv'
<1> SUFFICES ASSUME EditorInv, [ShellNext]_shellVars PROVE EditorInv'
  OBVIOUS
<1> USE DEF EditorInv
<1>1. PICK b \in BrowserZones : browserTimeZone = CanonicalTimeZone(b)
  BY DEF EditorTypes
<1>2. ZoneOf[timeZone] \in Zone
  BY ShellAssumption DEF EditorTypes
<1>3. ASSUME UNCHANGED <<browserTimeZone, timeZone, editorVars>> PROVE EditorInv'
  BY <1>3 DEF EditorTypes, EditIsShown, editorVars, NothingChosen
<1>4. ASSUME NEW browser \in BrowserZones, Reopen(browser) PROVE EditorInv'
  <2>1. browserTimeZone' = CanonicalTimeZone(browser) /\ timeZone' \in DOMAIN ZoneOf
    BY <1>4, SavedIsZone, ShellAssumption DEF Reopen, Loaded
  <2>2. value' \in Int \cup {NoInstant} /\ chosen' = NothingChosen
    BY <1>4 DEF Reopen, EditorTypes
  <2> QED BY <2>1, <2>2 DEF EditorTypes, EditIsShown, NothingChosen
<1>5. ASSUME NEW name \in TimeZones, SetTimeZone(name) PROVE EditorInv'
  BY <1>5, ShellAssumption
  DEF SetTimeZone, EditorTypes, EditIsShown, editorVars, NothingChosen
<1>6. ASSUME NEW cell \in Days, UpdateDate(cell) PROVE EditorInv'
  <2> DEFINE day == Day(LocalWallClock(ZoneOf[browserTimeZone], WallClock(cell, 0)))
  <2>1. cell \in Int /\ ZoneOf[browserTimeZone] \in Zone /\ 0 \in 0 .. DaySteps - 1
    BY <1>1, ShellAssumption, DayAssumption
  <2>2. day \in Int
    BY <2>1, DayOfWallClock, LocalIsInt, DayOf
  <2>3. TimeValue \in 0 .. DaySteps - 1
    BY <1>2, DateIsInt, WallClockOf, DayAssumption DEF TimeValue, ShownWallClock, EditorTypes
  <2>4. UpdateWallClock(day, TimeValue) /\ Choose(day, TimeValue)
    BY <1>6 DEF UpdateDate
  <2> HIDE DEF day
  <2> QED BY <2>2, <2>3, <2>4, Chosen
<1>7. ASSUME NEW time \in 0 .. DaySteps - 1, NEW now \in Instants, UpdateTime(time, now)
      PROVE  EditorInv'
  <2> DEFINE instant == IF value = NoInstant THEN now ELSE value
             wall == ShownWallClock(instant)
             local == LocalWallClock(ZoneOf[browserTimeZone], wall)
  <2>1. instant \in Int /\ ZoneOf[browserTimeZone] \in Zone
    BY <1>1, ShellAssumption DEF EditorTypes
  <2>2. wall \in Int /\ Exists(ZoneOf[timeZone], wall)
    BY <1>2, <2>1, DateIsInt, ShownExists DEF ShownWallClock
  <2>3. ZonedDateTimeValue(ZoneOf[timeZone], DateFromZonedDateTime(ZoneOf[timeZone], wall)) = wall
    BY <1>2, <2>2, RoundTrip
  <2> HIDE DEF wall
  <2>4. Day(wall) \in Int /\ Day(local) \in Int
    BY <2>1, <2>2, LocalIsInt, DayOf
  <2>5. KeepsDay(ZoneOf[browserTimeZone], Day(wall)) => Day(local) = Day(wall)
    BY <2>2, WallClockOf DEF KeepsDay
  <2>6. SelectedDay(instant) = Day(local)
    BY <2>3 DEF SelectedDay, CalendarDate, wall
  <2>7. UpdateWallClock(Day(local), time) /\ Choose(Day(wall), time)
    BY <1>7, <2>6 DEF UpdateTime, wall
  <2> HIDE DEF local
  <2> QED BY <2>4, <2>5, <2>7, Chosen
<1>8. ASSUME ToggleSidebar \/ DismissSheet \/ Resize
             \/ (\E state \in BOOLEAN \cup {NotSaved} : OtherSidebarState(state))
             \/ (\E t \in Themes : SetTheme(t))
             \/ (\E name \in TimeZones : OtherTabSetsTimeZone(name))
             \/ UNCHANGED shellVars
      PROVE  EditorInv'
  BY <1>3, <1>8 DEF ToggleSidebar, DismissSheet, Resize, OtherSidebarState, SetTheme,
     OtherTabSetsTimeZone, zoneVars, editorVars, shellVars
<1> QED BY <1>4, <1>5, <1>6, <1>7, <1>8 DEF ShellNext, PickTimeZone

\* A timestamp the user has edited is shown as it was entered, in the zone it was
\* entered in, unless the browser's zone does not keep the day it was entered for.
THEOREM EditsAreShown == ShellSpec => []EditIsShown
<1>1. EditorInv => EditIsShown
  BY DEF EditorInv
<1> QED BY <1>1, EditorInit, EditorStep, PTL DEF ShellSpec

-----------------------------------------------------------------------------
(* The settings.                                                           *)
SettingsInv ==
    /\ sidebarOpen \in BOOLEAN /\ isMobile \in BOOLEAN
    /\ "zone" \in mine => timeZone = SavedTimeZone(savedZone, browserTimeZone)
    /\ "sidebar" \in mine => sidebarOpen = DefaultSidebarOpen(sidebarState)

LEMMA SettingsStep == SettingsInv /\ [ShellNext]_shellVars => SettingsInv'
<1> SUFFICES ASSUME SettingsInv, [ShellNext]_shellVars PROVE SettingsInv'
  OBVIOUS
<1>1. ASSUME NEW browser \in BrowserZones, Reopen(browser) PROVE SettingsInv'
  BY <1>1 DEF SettingsInv, Reopen, Loaded, DefaultSidebarOpen
<1>2. ASSUME NEW name \in TimeZones, SetTimeZone(name) PROVE SettingsInv'
  <2>1. SavedTimeZone(name, browserTimeZone) = name
    BY ShellAssumption DEF SavedTimeZone
  <2> QED BY <1>2, <2>1 DEF SettingsInv, SetTimeZone, sidebarVars
<1>3. ASSUME NEW name \in TimeZones, OtherTabSetsTimeZone(name) PROVE SettingsInv'
  BY <1>3 DEF SettingsInv, OtherTabSetsTimeZone, sidebarVars
<1>4. ASSUME ToggleSidebar PROVE SettingsInv'
  <2>1. CASE isMobile
    BY <1>4, <2>1 DEF SettingsInv, ToggleSidebar, zoneVars
  <2>2. CASE ~isMobile
    <3>1. /\ sidebarOpen' = ~sidebarOpen /\ sidebarState' = ~sidebarOpen
          /\ mine' = mine \cup {"sidebar"} /\ isMobile' = isMobile
          /\ UNCHANGED <<browserTimeZone, savedZone, timeZone>>
      BY <1>4, <2>2 DEF ToggleSidebar, SetOpen, zoneVars
    <3>2. sidebarOpen' \in BOOLEAN /\ isMobile' \in BOOLEAN
      BY <3>1, Zenon DEF SettingsInv
    <3>3. sidebarOpen' = DefaultSidebarOpen(sidebarState)'
      <4>1. CASE sidebarOpen = TRUE
        BY <3>1, <4>1 DEF DefaultSidebarOpen
      <4>2. CASE sidebarOpen = FALSE
        BY <3>1, <4>2 DEF DefaultSidebarOpen
      <4> QED BY <4>1, <4>2 DEF SettingsInv
    <3>4. "zone" \in mine' => timeZone' = SavedTimeZone(savedZone, browserTimeZone)'
      <4>1. "zone" \in mine' => "zone" \in mine
        BY <3>1
      <4> QED BY <3>1, <4>1, Zenon DEF SettingsInv, SavedTimeZone
    <3> QED BY <3>2, <3>3, <3>4 DEF SettingsInv
  <2> QED BY <2>1, <2>2
<1>5. ASSUME DismissSheet \/ Resize PROVE SettingsInv'
  BY <1>5 DEF SettingsInv, DismissSheet, Resize, zoneVars
<1>6. ASSUME NEW state, OtherSidebarState(state) PROVE SettingsInv'
  BY <1>6 DEF SettingsInv, OtherSidebarState, zoneVars
<1>7. ASSUME UNCHANGED <<zoneVars, sidebarVars, mine>> PROVE SettingsInv'
  BY <1>7 DEF SettingsInv, zoneVars, sidebarVars
<1>8. ASSUME (\E t \in Themes : SetTheme(t)) \/ (\E cell \in Days : UpdateDate(cell))
             \/ (\E time \in 0 .. DaySteps - 1, now \in Instants : UpdateTime(time, now))
             \/ UNCHANGED shellVars
      PROVE  SettingsInv'
  BY <1>7, <1>8 DEF SetTheme, UpdateDate, UpdateTime, Choose, shellVars
<1> QED BY <1>1, <1>2, <1>3, <1>4, <1>5, <1>6, <1>8 DEF ShellNext, PickTimeZone

\* Zone and sidebar are restored as this tab has left them.
THEOREM SettingsAreRestored == ShellSpec => []ReloadRestores
<1>1. ShellInit => SettingsInv
  BY DEF ShellInit, SettingsInv, DefaultSidebarOpen
<1>2. SettingsInv => ReloadRestores
  BY DEF SettingsInv, ReloadRestores, SidebarShown
<1> QED BY <1>1, <1>2, SettingsStep, PTL DEF ShellSpec
=============================================================================
