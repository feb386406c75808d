--------------------------- MODULE MCSearchFilter ---------------------------
(* Activities with their attempts, children with a start time and a field  *)
(* of the workflow.  The second release makes the attempts a keyword with  *)
(* an operator the page does not know and a list for one value, hides a    *)
(* field and has another no longer.                                        *)
EXTENDS SearchFilter

MCFields == {"attempts", "started", "status"}
MCPathOf == [attempts |-> "activities", started |-> "children", status |-> "workflow"]

MCField(type, operators, options, hidden) ==
    [type |-> type, operators |-> operators, options |-> options, hidden |-> hidden]

MCSchemas == <<
    [attempts |-> MCField("int", <<"eq", "notExists">>, <<>>, FALSE),
     started |-> MCField("timestamp", <<"between">>, <<>>, FALSE),
     status |-> MCField("keyword", <<"in">>, <<"1">>, FALSE)],
    [attempts |-> MCField("keyword", <<"later", "notExists", "in">>, <<>>, FALSE),
     started |-> MCField("timestamp", <<"between">>, <<>>, TRUE)]>>

MCNumberOf == [t \in {"1"} |-> 1]

MCDocuments ==
    {[activities |-> a, children |-> c, workflow |-> {w}] :
        a \in SUBSET {[attempts |-> "1"], [paused |-> "true"]},
        c \in SUBSET {[started |-> "1"]},
        w \in {[status |-> "1"], [errors |-> "1"]}}
=============================================================================
