----------------------------- MODULE MCBrowser -----------------------------
(***************************************************************************)
(* The page, its columns and what surrounds it keep their own variables,   *)
(* and no action of one reads another's, so each is explored with the      *)
(* others at rest: interleaving them would reach no other state of any.    *)
(* The page is explored three times: without a dialog; online, with one    *)
(* kind of action; and on a URL that stays, with every kind.               *)
(***************************************************************************)
EXTENDS WorkflowsPage, ColumnPreferences, AppShell, TLC

CONSTANT OneKind   \* the kind of action sent while the URL changes

VARIABLE part

(* Two executions, a page each; the filter matches the first of them and   *)
(* fits the first schema only, the second comes with the read-only flag.   *)
MCWorkflows == {1, 2}
MCRank == [f \in SortFields \cup {IdField} |-> [w \in Workflows |-> w]]
MCMatches == [r \in Requests |-> IF r = Everything THEN Workflows ELSE {1}]
MCAdapted == [f \in Filters |-> [s \in Schemas \cup {None} |->
    CASE f = NoFilter -> Everything
      [] f # NoFilter /\ s = "old" -> "narrow"
      [] f # NoFilter /\ s # "old" -> Unbuildable]]

(* The new build has dropped two columns and added one.                    *)
MCColumnsOf == [old |-> <<"status", "type", "started">>, new |-> <<"finished", "status">>]

(* Clocks go on and back a step; in Nuuk they skip the last step of day 0. *)
(* Lima and Nuuk are not among the zones offered, and Zulu is an old name. *)
MCZoneOf == ("UTC" :> [transition |-> 0, before |-> 0, after |-> 0])
         @@ ("Berlin" :> [transition |-> 5, before |-> 1, after |-> 2])
         @@ ("Lima" :> [transition |-> 5, before |-> -1, after |-> -2])
         @@ ("Nuuk" :> [transition |-> 4, before |-> -1, after |-> 0])
MCAliases == [Zulu |-> "UTC"]

TabSymmetry == Permutations(Tabs)

Init ==
    /\ part \in {"table", "page", "dialogs", "columns", "shell"}
    /\ PageInit /\ ColumnInit /\ ShellInit
    /\ part \notin {"table", "page"} => searchURL = DefaultURL
    /\ part # "columns" => stored = NotStored /\ build = [t \in Tabs |-> "new"]
    /\ part # "shell" =>
          /\ browserTimeZone = "Berlin" /\ savedZone = NotSaved /\ sidebarState = NotSaved
          /\ theme = "system" /\ value = NoInstant /\ ~isMobile

Next ==
    /\ UNCHANGED part
    /\ \/ /\ part \in {"table", "page", "dialogs"}
          /\ part = "page" => UNCHANGED online
          /\ part = "dialogs" => UNCHANGED searchURL
          /\ PageNext
          /\ part = "table" => open' = None
          /\ part = "page" => open' \in {None, OneKind}
          /\ UNCHANGED <<columnVars, shellVars>>
       \/ part = "columns" /\ ColumnNext /\ UNCHANGED <<pageVars, shellVars>>
       \/ part = "shell" /\ ShellNext /\ UNCHANGED <<pageVars, columnVars>>

Spec == Init /\ [][Next]_<<part, pageVars, columnVars, shellVars>>
=============================================================================
