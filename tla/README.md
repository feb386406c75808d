# temporal-lens in TLA+

Temporal Lens copies the executions of a Temporal server into OpenSearch, so that they can be searched
by what visibility does not index, and sends signals, resets, cancellations and terminations to what a
search finds. It is one Go process and a React page:

    Temporal --list--> metadata --> data workers --> batcher --> index workers --> OpenSearch
       ^        (channel)    | reserve  (channel)   (channel)         | complete/release  |
       |                     +--------- progress tracker ------------+        ^           |
       |                                   | save                   retention cron        |
       |                              progress file                  deletes shards       |
       +---- batch calls ---- Service.Signal/Reset/... <--- gRPC, MCP <--- page           |
                                    Service.Search  <------------------------------------+

This directory holds a model of its core, the TLC runs that check it and the TLAPS proofs about it.
`PROJECT.json` gives the source lines of every definition, the runs, a mutant of the code for every
property, the hazards and the theorems.

To run a check: `tlc -config IngestRace.cfg MCIngestPipeline.tla`; to check the proofs:
`tlapm IngestPipelineProofs.tla`.

## Inventory

| Component | State it keeps | Operations | What makes it correct |
|---|---|---|---|
| Progress tracker, `domains/workflows/service/progress.go` | `completed`, `pending`, `dirty` under a mutex; the progress file | `newTerminalProgress`, `reserve`, `release`, `complete`, `save` | A completed id is skipped for ever, so it must have been indexed in this generation; the file always loads; no completion is lost while the process lives |
| Ingestion pipeline, `service/workflows.go` | Three listing loops, data workers, batcher with its map of pending documents, index workers, three bounded channels | `listWorkflowMetadata`, `fetchWorkflowData`, `batchWorkflows`, `indexBatches`, `flushProgressLoop` | Every closed execution is indexed in its final state; reservations end; a reader never sees an execution go back |
| Shutdown, `run`, `Start`, `Stop` in the same file | Context, wait groups, closing of channels | cancellation | No send on a closed channel, no deadlock, nothing written after Stop, the last save after the last completion |
| Shard lifecycle, `ensureIndex`, `deleteExpiredShards`, `DeleteIndex` | Daily indexes named after generation and day | create, write, delete | Retention deletes what is obsolete and nothing else; nothing is silently missing |
| OpenSearch repository, `outbound/opensearch/workflows` | Connection | bulk write with `external_gte` versions, paged search, index calls | Versions keep the newest document; paging loses nothing |
| Temporal source, `outbound/temporal/workflows` | Clients per namespace; a `workflowDataBuilder` per fetch | listing, history and Describe, batch calls per namespace | One record per activity and child, final data complete |
| Batch actions, `Signal`, `Reset`, `Cancel`, `Terminate` | One request | resolve, validate, call | Only and all that matches is targeted; success means accepted |
| Filters, `types/filter.go`, `outbound/opensearch/filter.go`, `ui/src/components/search` | The draft tree, the URL, the schema the page knows | edit, normalise, encode, validate, build the query | What a page sends is accepted; the query means what the filter means |
| Request mapping, `inbound/grpc/workflows`, `inbound/mcp/workflows` | none | proto or JSON to requests and back | Both accept the same; numbers keep their value |
| Workflow page, `ui/src/routes/workflows.tsx`, `ui/src/components/data-table.tsx` | URL, two queries, selection, dialogs, actions in flight | search, sort, page, select, act, refresh | An action goes to what the user has ticked; the table tells the truth about the search in the URL |
| Columns, in the same files | Columns shown and their order, in memory and in the local storage all tabs share | toggle, drag, reload | Every column can be reached, a drop lands where it was previewed, no change is lost |
| Time zone, sidebar, theme, `ui/src/lib/timezone.tsx`, `ui/src/components/ui/sidebar.tsx`, `ui/src/routes/-root-layout.tsx` | Settings in memory, local storage and a cookie; the timestamp that is edited | pick, toggle, resize, reload, edit | An edited time is the wall clock chosen; a reload shows what was left |
| Process manager, `types/lifecycle.go`, `cmd/workflows/main.go` | Services and closers | `StartAll`, `StopAll` in reverse order under one deadline | Nothing is used after it is closed |
| Servers, configuration, observability, default mapper, models, elements of the user interface, `cmd/temporal-seed`, generated code | | | Not modelled: I/O, types, presentation, a development tool |

Interactions. The listing loops call the source and send to `metadata`; the data workers reserve
terminal executions with the tracker, call the source for their history and send to `workflows`; the
batcher groups by shard and sends to `batches`; the index workers call the repository and tell the
tracker. A ticker saves the tracker. The retention job and the API delete shards under the hands of the
index workers. The actions read through the same repository and call Temporal. The page holds filters
that outlive the server's schema, rows and selections that outlive the index they come from, and columns
that outlive its own build.

The hard behaviours are the interleavings of the stages, calls that are applied but answered with an
error, bounded channels, documents of one execution that overtake each other, a process that dies
between an acknowledgement and the next save, upgrades that change the index generation, histories read
over several calls while the execution goes on, pages of a search over an index that changes, and a page
on which queries, actions in flight, the history of the browser, other tabs and clock changes meet. Each
is listed with its line under "hazards".

## Modules

| Module | Of | About |
|---|---|---|
| `ProgressTracker` | `progress.go` | The tracker with atomic operations: what it promises to the pipeline. |
| `TerminalProgress` | `progress.go` | The tracker with `save()` step by step, failures and crashes. Implements `ProgressTracker`. |
| `IngestPipeline` | `service/workflows.go` | The stages with what they carry; uses `ProgressTracker` through INSTANCE. |
| `PipelineShutdown` | `run`, `Start`, `Stop` | The same goroutines without what they carry: how they end. |
| `ShardRetention` | shards over deployments | Processes of several generations, retention, deletion on request. |
| `HistoryBuilder` | `streamWorkflowData` | History pages and Describe of an execution that goes on. |
| `ActionResolution` | actions and paged search | Selection to jobs. |
| `SearchFilter` | filters, codec, query | Filter tree to query and what it finds. |
| `WorkflowsPage` | `routes/workflows.tsx`, `data-table.tsx` | One tab: URL, queries, table, selection, dialogs. |
| `ColumnPreferences` | the same | Columns of several tabs over one storage. |
| `NaturalSets` | | A set of numbers in ascending order, the elements of a sequence at some places: sorting by id and filtering, for `ActionResolution`, `ColumnPreferences` and `SearchFilter`. |
| `ZonedTime` | `lib/timezone.tsx` | Instants, wall clocks and the conversions between them. |
| `AppShell` | `timezone.tsx`, `sidebar.tsx`, `-root-layout.tsx` | Zone, sidebar, theme and the editor of a timestamp. |
| `MCBrowser` | | `WorkflowsPage`, `ColumnPreferences` and `AppShell` side by side. |
| `IngestPipelineProofs`, `ShardRetentionProofs`, `ActionResolutionProofs`, `HistoryBuilderProofs`, `SearchFilterProofs`, `ServiceProofs`, `BrowserProofs` | | Theorems about the module of the name; `ServiceProofs` about `TerminalProgress` and `PipelineShutdown`, `BrowserProofs` about the three of `MCBrowser`. |
| `NaturalSetsProofs` | | Induction over the natural numbers as a statement about sets, and what `NaturalSets` computes. |
| `MC...` | | Constants for TLC that a cfg cannot write. |

`ProgressTracker` is the joint of the first two: `IngestPipeline` is built on it and `TerminalProgress`
is shown to implement it, by TLC (`RefinesTracker`) and by proof (`TrackerRefinement`).

### TerminalProgress and ProgressTracker

`completed`, `pending` and `dirty` are the fields of `terminalProgress`; `file` is the progress file and
`stamp` what it is stamped with, the format version and the index generation. `save()` is five actions
(create, encode, close, rename, with `SaveFails` at each), and `saveStep # "idle"` means that the mutex is
held, so that `Reserve`, `Release` and `Complete` wait. `Crash` may come at any point. `Load` is the start
of a process of any release. `acknowledged` is history: what OpenSearch has acknowledged to each release.
In the refinement a process that is down is the process that would load the file. A machine that loses
its page cache is not modelled (the temporary file is not synced; see the hazards).

### IngestPipeline

One action per step of a stage. `page`, `metadata`, `fetching`, `sending`, `workflows`, `grouped`,
`batches` and `indexing` are where a snapshot or document is; `flushing` are the shards the batcher has
yet to send before it selects again, which is what makes backpressure. A document is reduced to its
version, whether it says closed, and the revision its data reaches: the metadata is listed at one moment
and the history fetched at a later one, which is the reason that documents can be unfaithful. A bulk write
may write any subset of the documents it may and answers success only when it wrote all of them; its
answer may be lost. `Restart` is a crash at any point. The retention-wide and recent scans of closed
executions differ in their time range only; each is a member of `ClosedLoops`, as the scans of open
executions are of `OpenLoops`. Pages of a listing are arbitrary sets of executions in the right state.
A listing is of executions that are open or closed *now*, as the visibility query has it.

### PipelineShutdown

`unsaved` is the `dirty` of the tracker. Channels are a length and a closed flag; a goroutine that sends on a closed one sets `panicked`. Every
`select` that has `ctx.Done()` ready may take either branch. `runStep` is what `run()` waits for. The
module assumes that a progress file is configured. The retention scheduler runs up to `MaxJobs` jobs.

### ShardRetention

A shard is a record of generation and day, so the parsing of names is left out. `mapped` says if
`CreateIndex` made it or a late bulk write did. The cleanup visits shard after shard from a listing with
the cutoff of the moment it was listed. Days are the unit of time and the retention period is whole days.
Generations only go up (rolling back is not modelled), and with `Overlap` FALSE a process ends before its
successor starts. The last process of the bound keeps running.

### HistoryBuilder

Temporal is external: a little state machine of activities and children that writes events as the code
expects to find them, including attempts that leave no event of their own. The builder has the maps of
`workflowDataBuilder`. `horizon` is how far the history reached when its first page was read. After the
fetch the model stops. Payload mapping (`mappedPayloads`, `flattenJSON`) is success or failure. The
passing run gives every activity and child an id of its own; ids that are used again are among the
hazards.

### ActionResolution

`docs` is what is searchable of each id, and `Publish` and `DropShard` change it between the steps of one
request. The shards are listed anew for each page, which is one query sorted by id after the cursor.
The four operations have one handler, as they differ in the payload of the call. `forEachNamespace` starts
calls in the order of the map, which is any, and leaves the loop with an error when a namespace has no
clients; calls already started go on. A lost answer is a failed call whose job was accepted.

### SearchFilter

A tree is the list of its nodes, rules and groups, each with the place of the group it is `in`, which comes
before it; 1 is the outermost group. What the code computes by recursion on trees (`homogeneousNestedPath`,
`buildFilterWithNestedPaths`) is then a recursive function of the places, and removing a group closes the
places up (`Stay`). The order of the operands of a group is not kept, since neither a query nor its meaning
depends on it. `Edited` is every change the editor offers. `Search` normalises and puts the filter in the URL;
`OpenLink` loads it again and with it the schema of the running release; `Deploy` is a release with another
schema. `Converts` and `FilterToProto` are the codec, `LeafAllowed` the validation of `types/filter.go`,
`BuildFilter` the query.

OpenSearch is external: a query is the set of what it matches, pairs of a document and the object of it that the
query is about, so that `Nested` is the objects' document with one of them in the inner query and `Not` the
complement. `found` are the documents whose root is matched. `Means` is a reference definition that knows nothing
of nested queries: a choice of one object of each array under which the conditions hold together. Paths, texts and
numbers are abstract: `NumberOf` gives the number of a text that is one, and `Matched` which texts a phrase or a
pattern matches, which may be any relation (empty in the run, whose fields have no such operator). Analysis of
texts is left out, and so are requests that the page does not send.

### WorkflowsPage

`searchURL` is the validated search of the route. `schemaQuery` and `searchQuery` are what `useQuery` holds
of the two requests: the data, the status of the last fetch and the `fetchStatus`, whether a fetch is under way
or waits for the network. `Render` is what happens whenever URL or schema change: the request is computed again,
and if it is another one the page turns to the query of that request, which holds nothing or what earlier fetches
have left (`Cached`, `Turned`); a page that mounts anew with the same request fetches it again or cancels the
fetch of the old page (`Kept`, `Left`). TanStack Query is external; its key, its staleness of 0, its refetch on
focus and its network mode are the defaults, which the page uses (`main.tsx`). `online` is what the browser takes
the network to be: a fetch or an action that starts offline, and the next attempt of one that failed, is paused
(`Restart`, `AttemptFailed`, `Mutation`) until `GoOnline`, while what is in flight may yet be answered. A paused
first fetch is pending but not loading (`Waiting`, `Loading`), so that the table says nothing matches: `TableIsTrue`
leaves this out, and only while the browser is offline.
`selection` and `selectedWorkflows` are the two pieces of state the selection is in. `Mount` is the effect
of `key={search.filter}`: another filter is another page, and the actions the old one has in flight reach nothing
that is shown. A dialog is modal: with one open the rest takes no clicks (`Clickable`), but back, forward
and links go on, and so do answers. An action is in flight until it succeeds or fails; `dismissed` and
`under` are history. Filters, schemas and requests are values; `Adapted` says which request a schema makes of
a filter and when it throws (the details are `SearchFilter`'s). An answer is that of any index
(`AnswersTo`), cut to a page by number and order.

### ColumnPreferences, ZonedTime, AppShell

A tab reads the stored columns when the page mounts and writes all it holds at every change; `current`
(history) are the tabs behind which no other has written. `build` is the release a tab runs, and the
columns of builds differ. A drag is the header dragged and the one it is over; `Previewed` is the order
of the cells meanwhile, from the same offsets the cells are shifted by.

Time is counted in steps of a clock (`DaySteps` to a day), and a zone is two offsets around one
transition. `DateFromZonedDateTime` is the conversion of the page with its two evaluations of the
offset, `LocalWallClock` what a JavaScript `Date` makes of a wall clock in the zone of the browser, through
which the calendar goes. The browser may be in any zone: of one that skips the last hour of a day, as America/Nuuk
does, `LocalWallClock` puts the wall clocks of that hour into the next day, the calendar marks that day, and
`UpdateTime` moves the timestamp there. `KeepsDay` says of which days a browser's zone does not
do this; `EditIsShown` speaks of those. `Days` bounds the timestamps in the calendar. In `AppShell`, `mine` and `chosen`
are history: which settings no other tab has changed, and what was last chosen in the editor.

`MCBrowser` explores the three one at a time. No action of one reads or writes a variable of another, so
a state of the three together is a state of each, every invariant concerns one of them, and a step of
one is a stutter of the others: interleaving them shows nothing more. The page itself is explored three times, each
bounded elsewhere: without a dialog, so that network, queries and URL change freely; online with one kind of action,
so that the URL changes under a dialog; and on a URL that stays, with two kinds in flight and the network.

## Runs

Every passing run also has mutants of the code it must find (`PROJECT.json`, "mutants"): the operator in
the module that says "Mutant of".

| Run | Bounds | Why they are enough |
|---|---|---|
| `tracker` | two ids, two generations, one format, three crashes; fair | One id completes during a save while another is in it; three crashes let the generations alternate and return. |
| `ingest_pair` | two runs in one shard, one always rejected, two data workers, one index worker, one closed scan, batch size 2, one restart; fair | Two documents share a batch, one of them spoils it; two workers compete for a run; every channel fills. |
| `ingest_race` | one run, an open and a closed loop, two index workers, two revisions, one restart | Open and closed snapshots of one run are in different batches at once and overtake each other. |
| `shutdown` | two listing loops, one data worker, one index worker, channels of 1; fair | Two senders on a channel is what closing too early needs; a channel of 1 blocks soonest. |
| `stop_comment` | the same, safety only | Expected violation of `StopWaitsForAllStages`, see below. |
| `retention` | one process at a time, two generations, three deployments, one run, three days, retention of 1 day, DeleteIndex; fair | A generation is bumped and a process without tracker comes between two with one; the shard expires while written. |
| `retention_overlap` | two processes at once | Expected violation of `CurrentIsKept`. |
| `actions` | four ids in two shards, pages of two, three namespaces (one without clients), three changes; fair | A full first page, a second page and a changed index before and after each. |
| `history` | two activities, one child, two attempts, six events in pages of two | Three pages; a retry, a pause and a close between any two calls. |
| `history_attempts` | one activity | Expected violation of `PendingAttemptsAreRecorded`. |
| `search` | three rules, a subgroup, two nested arrays, two releases, 16 documents | A condition outside and two inside a group is the least that tells right grouping from wrong; the second release changes a type, replaces an operator by one with a list, adds one the page does not know, hides a field and drops one. |
| `browser` | Page: two workflows on two pages, two filters, two schemas (one read-only), two kinds of action, a network that goes and comes back any number of times. Columns: two tabs, builds with three and two columns, two writes. Shell: the browser in one of three zones, one of which skips the last step of a day, two zones offered, one transition each, two days, three saved names (not offered, an alias, offered) | A selection over two pages, two actions in flight, each paused or dismissed while the other is not, a filter that a new schema cannot build, a request that was cached, failed, is under way or waits when the page turns to it; a hidden column between two others, a tab that writes behind another's back; a transition inside the day edited, in the zone of the page or of the browser. More writes or days gave only more of the same states. |

What the runs say of the properties: the definitions carry a comment each, at the end of their modules.
The deepest are `CompletedIsIndexed` (what is never scanned again is in the index, over partial bulk
writes, lost answers, crashes and generations), `IndexNeverRegresses` with `DocumentsAreFaithful` (the
version scheme), `ReservationIsHeld` (a reserved run is in exactly one place), `CompletedIsSearchable`
(retention and upgrades leave no hole that no scan fills), `StableMatchesAreTargeted` (paging over a
changing index), `TerminalDataIsComplete` (one history from several moments), `QueryIsExact`,
`TableIsTrue` (two queries that load, fail, wait for the network and turn) and `EditIsShown` (three wall clocks on the day of a
clock change).

`CHECK_DEADLOCK FALSE` is set where a bound or the end of the program stops the model: the crashes or
restarts are used up, the service has stopped, the request is answered, the fetch is done.

### Fairness, and why the code has it

- Goroutines and tickers run: weak fairness of their steps.
- A call that is tried for ever succeeds at some time: strong fairness of its success, for the file
  system, the listing, the fetch, the creation of a shard, a write that OpenSearch accepts and a deletion.
  The code retries all of them on its next tick, scan or job. `Poison` runs, which OpenSearch always
  rejects, have none.
- A channel serves its waiting senders in turn (Go queues them), so the closed scan sends although others
  do too: strong fairness. A `select` with a ready ticker or `ctx.Done()` does not pass over it for ever
  (Go chooses at random): strong fairness of `FlushTick` and `EndLister`.
- Shutdown asks for fairness after the cancellation only, and there for one of all ending steps together, as
  each of them is taken finitely often. `CancelledEnds` says that again and again the pipeline is not
  cancelled or has ended; since it stays cancelled, and what has ended stays so, this is that it ends.
- Nothing makes an execution close, a request arrive, a process stop or a user click.

## What is proved

All for every value of the constants that the named assumptions admit; they say that the bounds are
natural numbers, that the sets of workers are not empty, that channels have room and that "nothing" is not
a record (`PipelineAssumption`, `ShutdownAssumption`, `RetentionAssumption`, `PageAssumption`,
`NoneAssumption`, `DistinctFiles`, `MaxCrashesIsNat`); for the actions what the set-up of the constants is
(`ActionAssumption`), for clocks that a zone is offsets around a transition (`ShellAssumption`), whatever it
skips, for columns that a build has some, each once
(`ColumnAssumption`), for histories that activities and children are finitely many and not the same, and that a
failure has a message (`ItemAssumption`, `BuilderAssumption`); for filters that schemas are of the shape `types/schema.go` gives
them, that the blank text is no number, that arrays have names of their own and that a document has one root
(`FilterAssumption`). TLC evaluates them on every run. The theorems on retention, but for the
types, also assume `~Overlap`: with it `retention_overlap` shows `CurrentIsKept` violated. Three of those
on histories assume `OwnIDs`, that no id names two activities or two children: without it a pending item
may be merged into the record of another, which is listed under "hazards".

| Theorem | Says |
|---|---|
| `TrackerInvariant`, `TrackerSafety`, `TrackerGeneration` | `CleanMeansSaved` and `TrustsOwnGeneration`, for any ids, generations and number of crashes, and that the file always loads. |
| `SavedOnlyGrows` | `SavedNeverForgets`: a save of a generation keeps what its file had. |
| `TrackerRefinement` | `TerminalProgress` implements `ProgressTracker`. |
| `PipelineTypes` | Types and the capacities of all channels. |
| `PipelineDocuments` | `DocumentsAreFaithful`. |
| `PipelineCompletion` | `CompletedIsIndexed`. |
| `PipelineIndexGrows` | `IndexNeverRegresses`. |
| `PipelineReservations` | `ReservationIsHeld`. |
| `ShutdownInvariant`, `ShutdownNeverPanics`, `ShutdownIsQuiet`, `ShutdownSavesAll` | `NoSendOnClosed`, `RepositoryIdleWhenStopped` and `NothingUnsaved`, for any number of goroutines. |
| `RetentionTypes` | Types of shards, jobs and the progress file. |
| `RetentionInvariant`, `RetentionSafety`, `RetentionOfUnmapped` | `CompletedIsSearchable` and `UnmappedIsDoomed`, for any generations and days. |
| `RetentionKeepsCurrent` | `CurrentIsKept`. |
| `SuccessIsWhole`, `LateJobsAreExplained` | `SuccessMeansAccepted` and `LateJobsNeedUnknownNamespace`, for any index, selection, page size and namespaces. |
| `StableMatchesAreFound`, `OnlyMatchesAreFound` | `StableMatchesAreTargeted` and `OnlyMatchesAreTargeted`, for any number of pages and changes between them. |
| `BuilderInvariant`, `TerminalData` | `TerminalDataIsComplete`, for any activities, children, ids, failures, page sizes and lengths of the history. |
| `RecordsAreUnique`, `PendingIsShown`, `ErrorsAreOfFailures` | `OneRecordEach`, `PendingIsCurrent` and `ErrorsHappened`, for the same, under `OwnIDs`. |
| `Invariance`, `RequestsAlwaysFit` | The inductive invariant of `SearchFilter`; from it `RequestsFit`, for any schemas of any number of releases, any fields, texts and trees. |
| `MeantIsFound`, `NothingIsEverMissed` | What some choice of objects satisfies is found, for every tree and document; hence `NothingIsMissed`. |
| `FoundIsMeant`, `QueryIsAlwaysExact` | Nothing else is, if the conditions are separable; hence `QueryIsExact`. |
| `ColumnInvariant`, `ColumnsAreSaved`, `ColumnsStayReachable` | `SavedIsShown` and `ColumnsAreShown`, for any tabs, builds and columns. |
| `DropFollowsPreview` | `DropIsAsPreviewed`. |
| `TableTellsTheTruth` | `TableIsTrue`, for any workflows, filters and schemas and any losses of the network. |
| `SelectionStays`, `FilterBindsSelection` | `SelectionIsHeld` and `SelectionKeepsItsFilter`. |
| `SuccessClearsItsOwn` | `ClearsWhatItSent`. |
| `RoundTrip`, `EditsAreShown` | `EditIsShown`, for every zone, transition, wall clock and length of a day: an edit for a day that the browser's zone does not keep is exempted. |
| `ZonesKeepDays` | A zone that skips nothing, or skips and puts off within one day, keeps every day. |
| `SettingsAreRestored` | `ReloadRestores`. |

The tracker. `FileAlwaysLoads` and `CleanMeansSaved` are not inductive alone: at the rename the file
becomes what the temporary file is, and the reset of `dirty` claims that it is all of `completed`.
`SaveInProgress` says that the mutex keeps them equal between the steps, `FileBehindTracker` that the file
of the running generation is never ahead, without which a save could forget, and `DownIsEmpty` that a
process that is down has no state. `IInv` is their conjunction with the properties, and TLC has the
same definitions. The refinement maps rename to `Save`, load after a crash to `Restart` or a stutter, and
every other step of `save()` to a stutter.

The pipeline. That a completed run is indexed rests on its document being terminal when it was
written and on every later write being refused or terminal too, hence on the versions. `IInv` therefore
says of every place a snapshot or document can be (`ListedIsFaithful`, `FetchedIsFaithful`,
`BatchedIsFaithful`, `IndexedIsFaithful`) that it tells the truth about its run: not ahead of it, of the last
revision if it says closed, of a lower one if it says open and the run has closed. `ClosedRunsMoved`
(a closed run has made two transitions) is why the version 1 of a run without transitions cannot equal
that of a terminal document. `KeyedByRun` says that the batcher's map and hence a batch has one document
of a run, and `SuccessIsIndexed` that an index worker about to complete documents has them in the index.
Each step preserves it by one lemma per stage.

Reservations. `HeldInv` says that a run has one place at most, that it is reserved exactly if it has one, and that a
data worker never fetches and sends at once. A step leaves the places of a run as they are, exchanges one for
another, takes one away with the reservation, or moves a channel up by one (`PlacesStay`, `PlaceMoves`, `PlaceGoes`,
`PlacesShift`). Where the batcher coalesces it needs `IInv` as well: an open document never replaces the terminal
one of its run, because its version is lower, and a terminal one always replaces an open one.

Shutdown. That no one sends on a closed channel is a fact about who has ended: `SendersEnded` says that a
channel is closed only once all its senders have, `BatchesTaken` that an index worker ends on a channel
that is closed and empty and hence stays so, and `Awaited` what each step of `run()` may rely on,
down to the last save, after which nobody is left to complete a run. That the index workers end last of the
writers needs at least one of them, which `New` enforces.

Retention. Without overlap the process that runs is of the newest generation and nothing is of a
newer one (`OneGeneration`), so that what a job takes for superseded is; the cutoff of a job is not after
the present day, so that what it takes for expired still is, however old its listing. A shard disappears
under a process only if its day has expired or a request took it (`Carries`), so what is about to be written
(`WritesAreFound`) and what is recorded (`RecordedIsFound`, of the memory and of the file alike, since a
restart loads it) is either found or in a shard that may be gone. `UnmappedIsDoomed` is inductive with these:
only a write whose shard has gone makes one.

Actions. An answer of success is given when no call is open and none has failed. `ActionInv` says what holds
before: which namespaces have been started, that the job of each call holds just the targets of its
namespace, and that every namespace of the targets is waiting, under way or accepted; only one without clients ends
the loop while calls are open. `PageInv` ties pages to the index: the targets are those hits up to the
cursor that the pages have found, in ascending order, each seen to match; what has matched since the request
arrived and lies up to the cursor is among them, because a page takes the hits after the cursor without a gap
(`AscendingOrder`, `FirstCounts`), and a page that is not full has all there are.

Histories. An event is written long before it is read and Describe is asked later still, so nothing relates the
builder to the present state of an activity directly. The invariant therefore looks at `Built(history, n)`, the
builder of the first n events, for every n at once (`Consistent`): each has one record of every item it was told
of, where its maps lead (`Structure`), and tells only what cannot become untrue (`Sound`: no message more often
than attempts failed with it, ended only if closed or failed before, outputs only of what is closed); the one
of the whole history tells all there is (`Full`). An event of Temporal extends the history by one and concerns
the last of these builders only (`Extend`); a change without an event leaves what is sound sound. `CloseActivity`
may write two events and is proved through the state between them. The builder of the fetch is one of these
(`Reading`), whatever pages it was read in, which is an induction over the events (`AddOneMore`); Describe
merges into it what is pending now, in any order, which is an induction over its list (`Merged`). For an
execution that was closed when the fetch began that is the builder of the whole history.

Filters. The proof has two halves. That requests fit is an invariant of the page: the draft is a tree whose rules
have a value that fits their operator or await the operator the editor shows for them (`RulesFit`), which the
changes of field, operator and value keep in any order and normalisation turns into "fit"; what was sent follows
the schema the page has fetched (`LeavesFit`), whatever has been deployed since. `RequestsFit` alone is not
inductive: it says nothing of a rule that awaits an operator, whose value the next change of operator starts
from. After a removal the places of the nodes that stay are their ranks, and a rank keeps the order (`CountGrows`),
so that every group is still before what is in it.

That the query is right is about functions, not steps. A recursion over a tree looks ahead only, to places after
the one it is at, so it has a solution, which is built from the last place down (`TreeRecursion`, `TreeFunction`),
and a property of all operands that carries over to their group holds of all nodes (`TreeInduction`). By that
induction the inside of a nested query matches an object exactly if the conditions hold for it (`NestedMeans`), and
a choice under which a node holds makes its query match (`QueryFollows`). The converse needs the conditions to be
separable: a match gives a choice for each operand of an AND, and these are put together to one
(`ChoiceFollows`), the object of an array from the operand the array is below, or from the nested query its operands
share. That takes more than a choice for each operand: one that *settles* it, so that every other choice that agrees
with it on the arrays below the operand satisfies it too (`Settles`).

Columns. `ColumnInv` says that whatever is stored or held is made of columns of some build, and that a tab behind
which no other has written holds what is stored, read by its own build. That a drop is as previewed is a fact about places: the visible columns take the places of visible columns in
their new order (`AtPlacesFacts`), and the offsets the cells are shifted by are the permutation of `arrayMove`.

The page. `QueryInv` ties the data of the search query to the request of the URL, and a query that is enabled to
one that has succeeded, failed, is under way or waits for the network, and then only while the browser is offline,
through every `Render`; without it a table could be empty with nothing on its way. `DialogInv` says that an action in flight that was not dismissed has its dialog open, and the selection is
of the filter in the URL; a modal dialog then keeps the selection from changing.

Clocks. `RoundTrip` is arithmetic over one transition by cases: on which side of it the wall clock lies when it is
read as UTC and when it is evaluated again. That the day the editor takes from the calendar is the one that was
meant is where the browser's zone comes in (`KeepsDay`). `EditorInv` is that of what was chosen; `SettingsInv` says that memory
and storage agree on what is `mine`, through a resize that swaps the panel for the sheet.

Induction. The library's rules of induction take an operator as a parameter, which the provers cannot
instantiate. `InductionOnSet` says the same of a set of numbers; with it the lengths of pages, columns, histories,
trees and of Describe's list are proved about for every value. The recursions of `HistoryBuilder` and `SearchFilter`
are recursive functions, so that this applies.

Only model-checked: liveness (`ClosedIsIndexed`, `ReservationEnds`, `CompletionIsSaved`, `CancelledEnds`,
`ObsoleteStaysDeleted`, `RequestsAreAnswered`), as fairness and ENABLED are beyond the prover. Every safety
property of the passing runs is proved.

## Where code and documents differ

- `stop_comment`. The comment on `Stop` says that it "waits for all pipeline stages to finish". `run()`
  waits for the index workers, the batcher, retention and the progress loop; a listing loop or data worker
  may still be inside a Temporal call when `Stop` returns nil, and the process manager closes the Temporal
  source next. Nothing is written by them any more (`RepositoryIdleWhenStopped` holds).
- `retention_overlap`. `deleteExpiredShards` deletes every owned shard of another prefix, and its comment
  speaks of superseded generations. An old process that runs beside its successor, as in a rolling
  upgrade, deletes the shards of the newer generation.
- `history_attempts`. The README finds running workflows with "too many attempts" of a pending activity
  by its Attempts. Temporal writes the started event of a retried attempt when it ends, and `mergePending`
  leaves Attempts of an activity that the history has scheduled as they are, so a pending activity has 0.

Two more the model has and the properties state as what they leave out, found by stating them without it:

- The `QueryClient` of `main.tsx` has the default network mode. Turn to a page, order or page size that
  is not cached while the browser is offline, and the table says "No workflows match this search", of a search that
  was never answered: `isLoading` is false for a paused query and there is no error to alert of. Once the network
  is back the query goes on (`TableIsTrue`; leave out its `~online /\ AwaitsNetwork` and TLC shows it).
- `calendarDateFromZonedDateTime` promises "the same visible date/time as a zoned editor value"; where the browser's
  zone skips 23:00 to 24:00 (America/Nuuk, America/Scoresbysund) a wall clock of that hour becomes a Date of the next
  day. With the page in UTC, a change of the time of 2025-03-29T23:15Z moves the timestamp to the 30th (`EditIsShown`;
  leave out its `KeepsDay`).

Observed while modelling, without a document that says otherwise: between `ensureIndex` and `Add` a cleanup
or `DeleteIndex` may delete the shard, which the bulk write then creates without the explicit mapping
(`UnmappedIsDoomed` says that such a shard is past retention or was deleted on request); an empty OR group
finds every document; conditions on one nested array that are spread over mixed groups of an AND are not
tied to one object (`QueryIsExact` leaves those out, `NothingIsMissed` holds for them); a rule whose
operator is gone shows the new operator with its old value until Search resets it; Refresh with a filter that
cannot be built sends the empty request, whose rows are then shown below the alert; a page beyond the last
says that no workflow matches; unticking the header when all matching results are selected clears the
selection, where the comment on the table's selection speaks of the visible rows; of two tabs the one that
changes its columns last overwrites the other's; the success of an action whose dialog was left by Escape clears
what has been selected since; DeleteIndex leaves the runs of the shard in the tracker, so that no scan brings
them back; STARTS_WITH and
ENDS_WITH both become a wildcard query of the value as it is typed; a null value of an API client passes
the validation and is dereferenced in `wildcardQuery`.

## What is not modelled, and why

Servers, configuration, observability, the default mapper, models and ports and the seeding tool: I/O, set-up,
types. Index settings and mappings as such, and the conversion of histories to fields: no property of this model
tells them apart. The elements of the user interface: wrappers of a component library. Of the page: which menus and
popovers are open, the ranking of the field picker, the texts of errors in dialogs, and the cells. Encoded filters
of other versions decode to no filter, which is a filter of the model; URL parameters that do not validate
fall back to their defaults before the model sees them. The process manager: the order of its stops matters for one thing, the sources
that are closed under a stage that still runs, and that is the finding of `stop_comment`. The two request mappings translate field by
field without state.

Hazards without a property have a note in `PROJECT.json` that says why.

## Plan

Done, in this order, the most important behaviour first: tracker and its refinement, pipeline, their
proofs, shutdown and retention with theirs, actions, history, filters; then the page, its columns and
settings, and the proofs of page, clocks and actions; then those of paging, columns and histories, and last
those of filters and queries. What is left, in order:

1. `Lifecycle`: `StartAll` and `StopAll` over `PipelineShutdown`, with closers and the shared deadline.
2. Rollback of a generation and two processes that share a progress file in `ShardRetention`; retried
   requests in `ActionResolution`; reused ids in `HistoryBuilder`.
3. What API clients other than the page may send, with pagination and its int32 bounds.
