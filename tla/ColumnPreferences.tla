------------------------- MODULE ColumnPreferences -------------------------
(***************************************************************************)
(* The columns of the workflow table: which are shown and in which order   *)
(* (ui/src/routes/workflows.tsx), dragged by their headers and toggled in  *)
(* the Columns menu (ui/src/components/data-table.tsx), and kept in the    *)
(* local storage that all tabs of the browser share.                       *)
(*                                                                         *)
(* A tab reads the storage when the page mounts and never again; it writes *)
(* all it holds on every change.  Tabs may run different builds of the     *)
(* page, whose columns differ, after a release or a rollback.              *)
(***************************************************************************)
EXTENDS SequencesExt, NaturalSets

CONSTANTS
    Tabs,
    Builds,
    ColumnsOf,   \* [Builds -> sequences of column ids]
    NotStored, Malformed, \* no value, and one that is no preferences
    NoDrag, Nowhere,
    MaxWrites    \* bound on the writes to the storage

Columns(b) == Range(ColumnsOf[b])
ColumnIDs == UNION {Columns(b) : b \in Builds}
Preferences == [visible : SUBSET ColumnIDs, order : Seq(ColumnIDs)]

ASSUME ColumnAssumption ==
    /\ \A b \in Builds : /\ ColumnsOf[b] \in Seq(Columns(b))
                        /\ ColumnsOf[b] # <<>> /\ IsInjective(ColumnsOf[b])
    /\ NotStored \notin Preferences /\ Malformed \notin Preferences
    /\ Nowhere \notin ColumnIDs
    /\ MaxWrites \in Nat

VARIABLES
    stored,       \* the value under columnPreferenceKey
    build,        \* the build each tab runs
    preferences,  \* columnPreferences of each tab
    columnDrag,   \* the header that is dragged, in the one tab with the pointer
    current,      \* the tabs no other tab has written behind
    writes

columnVars == <<stored, build, preferences, columnDrag, current, writes>>

DefaultPreferences(b) == [visible |-> Columns(b), order |-> ColumnsOf[b]]

ReadColumnPreferences(value, b) ==
    IF value \in {NotStored, Malformed} THEN DefaultPreferences(b) ELSE value

\* Mutant of VisibleColumnIDs: nothing takes the place of ids of another build.
SelectedColumnIDs(p, b) == p.visible \cap Columns(b)

\* Ids of other builds count for nothing; with none left all columns are shown.
VisibleColumnIDs(p, b) ==
    LET selected == p.visible \cap Columns(b)
    IN  IF selected # {} THEN selected ELSE Columns(b)

\* The known ids of the order, each once, and the columns it does not name.
KnownPlaces(order, b) ==
    {i \in DOMAIN order : order[i] \in Columns(b) /\ \A j \in 1 .. i - 1 : order[j] # order[i]}

OrderedColumnIDs(p, b) ==
    AtPlaces(p.order, KnownPlaces(p.order, b))
        \o AtPlaces(ColumnsOf[b], {i \in DOMAIN ColumnsOf[b] : ColumnsOf[b][i] \notin Range(p.order)})

VisiblePlaces(p, b, ordered) == {i \in DOMAIN ordered : ordered[i] \in VisibleColumnIDs(p, b)}

VisibleColumns(p, b) ==
    LET ordered == OrderedColumnIDs(p, b)
    IN  AtPlaces(ordered, VisiblePlaces(p, b, ordered))

\* The columns as tab t shows them.
ShownColumns(t) == VisibleColumns(preferences[t], build[t])
MenuColumns(t) == OrderedColumnIDs(preferences[t], build[t])

IndexIn(seq, id) == IF id \in Range(seq) THEN CHOOSE i \in DOMAIN seq : seq[i] = id ELSE 0

-----------------------------------------------------------------------------
(* Dragging.                                                               *)

\* Mutant of Moved: the place is that before the column was taken out.
MovedBefore(seq, from, to) ==
    InsertAt(RemoveAt(seq, from), IF from < to THEN to - 1 ELSE to, seq[from])

\* arrayMove
Moved(seq, from, to) == InsertAt(RemoveAt(seq, from), to, seq[from])

\* By how many places the cells of a column are shifted while a header is
\* dragged; those of the dragged column follow the pointer to the header it is
\* over.
ColumnDragOffset(seq, active, over, id) ==
    LET activeIndex == IndexIn(seq, active)
        overIndex == IndexIn(seq, over)
        index == IndexIn(seq, id)
    IN  IF 0 \in {activeIndex, overIndex} THEN 0
        ELSE CASE id = active -> overIndex - activeIndex
               [] activeIndex < index /\ index <= overIndex -> -1
               [] overIndex <= index /\ index < activeIndex -> 1
               [] OTHER -> 0

\* The visible columns in the order the cells of the table have meanwhile.
Previewed(t) ==
    LET seq == ShownColumns(t)
        Place(id) == IndexIn(seq, id) +
                     ColumnDragOffset(seq, columnDrag.active, columnDrag.over, id)
    IN  [i \in DOMAIN seq |-> CHOOSE id \in Range(seq) : Place(id) = i]

\* The visible columns take the places of visible columns, hidden ones keep theirs.
ReorderedColumnIDs(p, b, reordered) ==
    LET ordered == OrderedColumnIDs(p, b)
        visible == VisiblePlaces(p, b, ordered)
    IN  [i \in DOMAIN ordered |->
            IF i \in visible THEN reordered[CountUpTo(visible, i)] ELSE ordered[i]]

-----------------------------------------------------------------------------
Mounted(t, b) ==
    /\ preferences' = [preferences EXCEPT ![t] = ReadColumnPreferences(stored, b)]
    /\ current' = current \cup {t}
    /\ columnDrag' = IF columnDrag # NoDrag /\ columnDrag.tab = t THEN NoDrag ELSE columnDrag
    /\ UNCHANGED <<stored, writes>>

\* Mutant of Write: what another setter has stored meanwhile is kept.
WriteOrder(t, p) ==
    /\ writes < MaxWrites
    /\ writes' = writes + 1
    /\ stored' = [p EXCEPT !.visible = ReadColumnPreferences(stored, build[t]).visible]
    /\ preferences' = [preferences EXCEPT ![t] = p]
    /\ current' = {t}

Write(t, p) ==
    /\ writes < MaxWrites
    /\ writes' = writes + 1
    /\ stored' = p
    /\ preferences' = [preferences EXCEPT ![t] = p]
    /\ current' = {t}

ColumnInit ==
    /\ stored \in {NotStored, Malformed}
    /\ build \in [Tabs -> Builds]
    /\ preferences = [t \in Tabs |-> DefaultPreferences(build[t])]
    /\ columnDrag = NoDrag
    /\ current = Tabs
    /\ writes = 0

\* A search with another filter mounts the page anew, a reload with the build
\* the server then has.
Remount(t) == Mounted(t, build[t]) /\ UNCHANGED build

Reload(t, b) == Mounted(t, b) /\ build' = [build EXCEPT ![t] = b]

\* The last visible column cannot be hidden.
ToggleColumn(t, id) ==
    LET visible == VisibleColumnIDs(preferences[t], build[t])
    IN  /\ id \in Columns(build[t])
        /\ visible # {id}
        /\ Write(t, [preferences[t] EXCEPT
                       !.visible = IF id \in visible THEN visible \ {id} ELSE visible \cup {id}])
        /\ UNCHANGED <<build, columnDrag>>

\* onDragMove and onDragOver.  A keyboard drag goes on while the menu is used.
DragMove(t, active, over) ==
    /\ IF columnDrag = NoDrag
         THEN active \in Range(ShownColumns(t))
         ELSE columnDrag.tab = t /\ columnDrag.active = active
    /\ over \in Range(ShownColumns(t)) \cup {Nowhere}
    /\ columnDrag' = [tab |-> t, active |-> active, over |-> over]
    /\ UNCHANGED <<stored, build, preferences, current, writes>>

DragCancel ==
    /\ columnDrag # NoDrag
    /\ columnDrag' = NoDrag
    /\ UNCHANGED <<stored, build, preferences, current, writes>>

\* onDragEnd
ReorderVisibleColumns(t) ==
    /\ columnDrag # NoDrag /\ columnDrag.tab = t
    /\ columnDrag' = NoDrag
    /\ UNCHANGED build
    /\ LET seq == ShownColumns(t)
           oldIndex == IndexIn(seq, columnDrag.active)
           newIndex == IndexIn(seq, columnDrag.over)
           order == ReorderedColumnIDs(preferences[t], build[t], Moved(seq, oldIndex, newIndex))
       IN  IF columnDrag.over \in {Nowhere, columnDrag.active} \/ oldIndex = 0 \/ newIndex = 0
           THEN UNCHANGED <<stored, preferences, current, writes>>
           ELSE Write(t, [preferences[t] EXCEPT !.order = order])

ColumnNext ==
    \/ DragCancel
    \/ \E t \in Tabs :
          \/ Remount(t)
          \/ \E b \in Builds : Reload(t, b)
          \/ \E id \in Columns(build[t]) : ToggleColumn(t, id)
          \/ \E active \in Columns(build[t]), over \in Columns(build[t]) \cup {Nowhere} :
                DragMove(t, active, over)
          \/ ReorderVisibleColumns(t)

ColumnSpec == ColumnInit /\ [][ColumnNext]_columnVars

-----------------------------------------------------------------------------
(* Properties.                                                             *)

\* A dropped header lands where the cells of the table have made room for it:
\* whatever columns are hidden between them, of whichever build the stored order
\* is, the new order of the visible columns is the one previewed, and no hidden
\* column changes its place in the menu.
DropIsAsPreviewed ==
    [][\A t \in Tabs :
          ReorderVisibleColumns(t) =>
              /\ ShownColumns(t)' = Previewed(t)
              /\ \A i \in DOMAIN MenuColumns(t) :
                    MenuColumns(t)[i] \notin Range(ShownColumns(t)) => MenuColumns(t)'[i] = MenuColumns(t)[i]]_columnVars

\* What a tab shows is what it would show after a reload of its build, unless
\* another tab has stored its own columns since: no change is lost, whichever of
\* the two writes, of what is shown and of its order, came last.
SavedIsShown ==
    \A t \in current :
        LET saved == ReadColumnPreferences(stored, build[t])
        IN  /\ ShownColumns(t) = VisibleColumns(saved, build[t])
            /\ MenuColumns(t) = OrderedColumnIDs(saved, build[t])

\* Whatever another build has stored, a tab lists every column it has once and
\* shows at least one of them, so that the table can be read and repaired.
ColumnsAreShown ==
    \A t \in Tabs :
        /\ Range(MenuColumns(t)) = Columns(build[t]) /\ IsInjective(MenuColumns(t))
        /\ ShownColumns(t) # <<>>
=============================================================================
