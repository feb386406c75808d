------------------------------ MODULE AppShell ------------------------------
(***************************************************************************)
(* What surrounds the page in one tab: the time zone it shows and edits    *)
(* timestamps in (ui/src/lib/timezone.tsx), the sidebar                    *)
(* (ui/src/routes/-root-layout.tsx, ui/src/components/ui/sidebar.tsx), the *)
(* theme, and one timestamp of the filter with its DateTimePicker          *)
(* (ui/src/components/search/filter-builder.tsx).                          *)
(*                                                                         *)
(* Zone and theme are kept in local storage and the sidebar in a cookie,   *)
(* which other tabs write as well.  Whether a menu or popover is open is   *)
(* left out.                                                               *)
(***************************************************************************)
EXTENDS ZonedTime

CONSTANTS
    ZoneOf,         \* [names of zones -> Zone], those unknown to @vvo/tzdb included
    TimeZones,      \* names the picker offers
    Aliases,        \* [other names of zones -> names]
    SavedNames,     \* what any release may have saved
    BrowserZones,   \* names of the zones the browser may run in
    NotSaved,       \* no value in local storage, no cookie
    NoInstant,      \* the timestamp is empty
    Instants,       \* instants a URL may hold, and the present
    Days            \* days of the calendar, a bound on those the timestamp may be of

Themes == {"light", "dark", "system"}

\* A name that is no alias, known or not, stands for itself.
CanonicalTimeZone(name) == IF name \in DOMAIN Aliases THEN Aliases[name] ELSE name

ASSUME ShellAssumption ==
    /\ \A name \in DOMAIN ZoneOf : ZoneOf[name] \in Zone
    /\ TimeZones \subseteq DOMAIN ZoneOf
    /\ \A name \in TimeZones : CanonicalTimeZone(name) = name
    /\ \A name \in BrowserZones : CanonicalTimeZone(name) \in DOMAIN ZoneOf
    /\ Instants \subseteq Int /\ NoInstant \notin Int
    /\ Days \subseteq Int
    /\ NotSaved \notin SavedNames \cup TimeZones

VARIABLES
    browserTimeZone,  \* read when the program is loaded
    savedZone,        \* localStorage "temporal-lens:time-zone"
    timeZone,
    theme,            \* localStorage "temporal-lens:theme", which every tab follows
    sidebarState,     \* the cookie sidebar_state
    sidebarOpen, openMobile, isMobile,
    mine,             \* the settings nobody but this tab has changed since it read them
    value,            \* the timestamp: an instant or NoInstant
    chosen            \* the wall clock last chosen for it, and in which zone

zoneVars == <<browserTimeZone, savedZone, timeZone>>
sidebarVars == <<sidebarState, sidebarOpen, openMobile, isMobile>>
editorVars == <<value, chosen>>
shellVars == <<zoneVars, theme, sidebarVars, mine, editorVars>>

-----------------------------------------------------------------------------
\* A name that is not offered, or no longer, gives way to that of the browser.
SavedTimeZone(saved, browser) ==
    IF saved # NotSaved /\ CanonicalTimeZone(saved) \in TimeZones
    THEN CanonicalTimeZone(saved) ELSE browser

DefaultSidebarOpen(cookie) == cookie # FALSE

NothingChosen == [zone |-> NotSaved, wall |-> 0]

\* The page is loaded in a browser that runs in some zone.
Loaded(browser) ==
    /\ browserTimeZone' = CanonicalTimeZone(browser)
    /\ timeZone' = SavedTimeZone(savedZone, browserTimeZone')
    /\ sidebarOpen' = DefaultSidebarOpen(sidebarState)
    /\ openMobile' = FALSE
    /\ isMobile' \in BOOLEAN
    /\ mine' = {"zone", "sidebar"}

ShellInit ==
    /\ browserTimeZone \in {CanonicalTimeZone(name) : name \in BrowserZones}
    /\ savedZone \in SavedNames \cup {NotSaved}
    /\ timeZone = SavedTimeZone(savedZone, browserTimeZone)
    /\ theme \in Themes
    /\ sidebarState \in BOOLEAN \cup {NotSaved}
    /\ sidebarOpen = DefaultSidebarOpen(sidebarState)
    /\ openMobile = FALSE
    /\ isMobile \in BOOLEAN
    /\ mine = {"zone", "sidebar"}
    /\ value \in Instants \cup {NoInstant}
    /\ chosen = NothingChosen

\* What the URL holds of the timestamp is what Search has put there.
Reopen(browser) ==
    /\ Loaded(browser)
    /\ chosen' = NothingChosen
    /\ value' \in {value, NoInstant}
    /\ UNCHANGED <<savedZone, theme, sidebarState>>

-----------------------------------------------------------------------------
(* The time zone and the theme.                                            *)

SetTimeZone(name) ==
    /\ name \in TimeZones
    /\ savedZone' = name
    /\ timeZone' = name
    /\ mine' = mine \cup {"zone"}
    /\ UNCHANGED <<browserTimeZone, theme, sidebarVars, editorVars>>

\* TimeZonePicker lists every zone offered.
PickTimeZone == \E name \in TimeZones : SetTimeZone(name)

SetTheme(t) ==
    /\ theme' = t
    /\ UNCHANGED <<zoneVars, sidebarVars, mine, editorVars>>

OtherTabSetsTimeZone(name) ==
    /\ savedZone' = name
    /\ mine' = mine \ {"zone"}
    /\ UNCHANGED <<browserTimeZone, timeZone, theme, sidebarVars, editorVars>>

-----------------------------------------------------------------------------
(* The sidebar.                                                            *)

\* A sheet over the page in a narrow window, else a panel beside it.
SidebarShown == IF isMobile THEN openMobile ELSE sidebarOpen

\* Mutant of SetOpen: the cookie is not written.
SetOpenOnly(open) ==
    /\ sidebarOpen' = open
    /\ UNCHANGED sidebarState
    /\ mine' = mine \cup {"sidebar"}

SetOpen(open) ==
    /\ sidebarOpen' = open
    /\ sidebarState' = open
    /\ mine' = mine \cup {"sidebar"}

\* The trigger in the header, the rail and Ctrl+B.
ToggleSidebar ==
    /\ IF isMobile
         THEN openMobile' = ~openMobile /\ UNCHANGED <<sidebarOpen, sidebarState, mine>>
         ELSE SetOpen(~sidebarOpen) /\ UNCHANGED openMobile
    /\ UNCHANGED <<zoneVars, theme, isMobile, editorVars>>

\* The sheet is left by Escape or a click beside it.
DismissSheet ==
    /\ isMobile /\ openMobile
    /\ openMobile' = FALSE
    /\ UNCHANGED <<zoneVars, theme, sidebarState, sidebarOpen, isMobile, mine, editorVars>>

\* useIsMobile follows the width of the window.
Resize ==
    /\ isMobile' = ~isMobile
    /\ UNCHANGED <<zoneVars, theme, sidebarState, sidebarOpen, openMobile, mine, editorVars>>

\* Another tab toggles its sidebar, or the cookie expires after a week.
OtherSidebarState(state) ==
    /\ sidebarState' = state
    /\ mine' = mine \ {"sidebar"}
    /\ UNCHANGED <<zoneVars, theme, sidebarOpen, openMobile, isMobile, editorVars>>

-----------------------------------------------------------------------------
(* DateTimePicker: the wall clock it shows, and what a change makes of it. *)

ShownWallClock(instant) == ZonedDateTimeValue(ZoneOf[timeZone], instant)

\* The day the calendar marks, as a date of the browser's zone.
SelectedDay(instant) ==
    Day(CalendarDate(ZoneOf[timeZone], ZoneOf[browserTimeZone], ShownWallClock(instant)))

TimeValue == IF value = NoInstant THEN 0 ELSE Time(ShownWallClock(value))

UpdateWallClock(day, time) == value' = DateFromZonedDateTime(ZoneOf[timeZone], WallClock(day, time))

Choose(day, time) ==
    /\ chosen' = [zone |-> timeZone, wall |-> WallClock(day, time)]
    /\ UNCHANGED <<zoneVars, theme, sidebarVars, mine>>

\* A click on a cell of the calendar, which shows the day its Date is of.  On
\* the day marked it takes the mark away, which changes nothing.
UpdateDate(cell) ==
    LET day == Day(LocalWallClock(ZoneOf[browserTimeZone], WallClock(cell, 0)))
    IN  /\ value # NoInstant => day # SelectedDay(value)
        /\ UpdateWallClock(day, TimeValue)
        /\ Choose(day, TimeValue)

\* The time is one of the day the user reads on the button, without a timestamp
\* of today; the code takes the day the calendar marks.
UpdateTime(time, now) ==
    LET instant == IF value = NoInstant THEN now ELSE value
    IN  /\ Day(ShownWallClock(instant)) \in Days
        /\ UpdateWallClock(SelectedDay(instant), time)
        /\ Choose(Day(ShownWallClock(instant)), time)

ShellNext ==
    \/ \E browser \in BrowserZones : Reopen(browser)
    \/ PickTimeZone
    \/ \E name \in TimeZones : OtherTabSetsTimeZone(name)
    \/ \E t \in Themes : SetTheme(t)
    \/ ToggleSidebar \/ DismissSheet \/ Resize
    \/ \E state \in BOOLEAN \cup {NotSaved} : OtherSidebarState(state)
    \/ \E cell \in Days : UpdateDate(cell)
    \/ \E time \in 0 .. DaySteps - 1, now \in Instants : UpdateTime(time, now)

ShellSpec == ShellInit /\ [][ShellNext]_shellVars

-----------------------------------------------------------------------------
(* Properties.                                                             *)

\* The browser's zone keeps the wall clocks of a day in that day.  Where clocks
\* go on at 23:00 the Date of the calendar does not have "the same visible
\* date/time as a zoned editor value" (timezone.tsx): those that are skipped are
\* put into the next day.
KeepsDay(browser, day) ==
    \A time \in 0 .. DaySteps - 1 : Day(LocalWallClock(browser, WallClock(day, time))) = day

\* The timestamp is the wall clock the user has chosen, in the zone it was
\* chosen in, whatever that zone's clock does that day and whatever zone is shown
\* since ("timezone changes alter only their presentation, never their meaning",
\* filter-builder.model.ts): unless the zone skips that wall clock, or the browser
\* runs in a zone that puts wall clocks of that very day into the next.
EditIsShown ==
    /\ chosen # NothingChosen
    /\ Exists(ZoneOf[chosen.zone], chosen.wall)
    /\ KeepsDay(ZoneOf[browserTimeZone], Day(chosen.wall))
    => ZonedDateTimeValue(ZoneOf[chosen.zone], value) = chosen.wall

\* A reload in the same browser shows the time zone and the panel of the sidebar
\* as they are now, however the window was resized and the sheet used meanwhile,
\* unless another tab has changed them or the cookie has expired.
ReloadRestores ==
    /\ "zone" \in mine => timeZone = SavedTimeZone(savedZone, browserTimeZone)
    /\ "sidebar" \in mine /\ ~isMobile => SidebarShown = DefaultSidebarOpen(sidebarState)
=============================================================================
