---------------------------- MODULE SearchFilter ----------------------------
(***************************************************************************)
(* A search filter from the page to the query.  The filter builder edits a *)
(* tree of groups and rules (ui/src/components/search), Search puts it in  *)
(* the URL, the codec turns it into a FilterSpec, the service checks that  *)
(* against its schema (types/filter.go) and builds an OpenSearch query     *)
(* from it (outbound/opensearch/filter.go).  A URL outlives the schema it  *)
(* was made with: the service may be deployed with another one meanwhile.  *)
(*                                                                         *)
(* A tree is the list of its nodes, each with the place of the group it is *)
(* in, which comes before it: what the code computes by recursion on trees *)
(* is a function of the places, and no property tells the order apart.     *)
(* Paths, texts and numbers are abstract; a value keeps the shape the code *)
(* looks at.  Analysis of texts is left out, and so is narrowing the list  *)
(* of the field picker, which offers every field to begin with.            *)
(***************************************************************************)
EXTENDS Naturals, Sequences, Functions, NaturalSets

CONSTANTS
    Fields,     \* paths of fields
    Root,       \* stands for "in no nested array"
    Paths,      \* the nested arrays of the index mapping
    PathOf,     \* [Fields -> Paths \cup {Root}]: nestedPathForField
    Schemas,    \* the schema of each release, in order: path to type, operators,
                \* options and whether the field is hidden
    Unknown,    \* operators of later releases, which the page does not know
    Texts,      \* what a user may type
    Blank,      \* the empty text
    NumberOf,   \* the number of each text that is one
    Matched,    \* <<typed, stored>>: a phrase or pattern and a text that matches it
    Documents,  \* [Paths \cup {Root} -> sets of objects]: what may be indexed
    MaxRules, MaxGroups  \* bounds on the tree

Presence == {"exists", "notExists", "isEmpty", "isNotEmpty"}
Repeated == {"in", "notIn"}
Operators == Presence \cup Repeated \cup
    {"eq", "neq", "contains", "notContains", "lt", "gt", "lte", "gte", "between",
     "startsWith", "endsWith"}
Types == {"keyword", "text", "int", "double", "bool", "timestamp"}

Numbers == DOMAIN NumberOf
Mixed == "mixed"

ASSUME FilterAssumption ==
    /\ Root \notin Paths /\ Mixed \notin Paths \cup {Root}
    /\ PathOf \in [Fields -> Paths \cup {Root}]
    /\ Blank \in Texts /\ Numbers \subseteq Texts \ {Blank}
    /\ DOMAIN Schemas \subseteq Nat /\ 1 \in DOMAIN Schemas
    /\ \A n \in DOMAIN Schemas :
          /\ DOMAIN Schemas[n] \subseteq Fields
          /\ \A f \in DOMAIN Schemas[n] : Schemas[n][f] \in
                [type : Types, operators : Seq(Operators \cup Unknown),
                 options : Seq(Texts \ {Blank}), hidden : BOOLEAN]
    /\ Unknown \cap Operators = {}
    /\ \A doc \in Documents : /\ DOMAIN doc = Paths \cup {Root}
                              /\ \E object \in doc[Root] : doc[Root] = {object}

VARIABLES
    phase,    \* the filter is edited, applied, sent, answered or refused
    filter,   \* the tree: the draft, or what the URL holds
    known,    \* the release whose schema the page has fetched
    server,   \* the release that runs
    request,  \* the FilterSpec of the last search
    found     \* the documents that the query made of it finds

vars == <<phase, filter, known, server, request, found>>

Rule(group, field, op, value) ==
    [kind |-> "rule", in |-> group, field |-> field, op |-> op, value |-> value]
Group(group, op) == [kind |-> "group", in |-> group, op |-> op]

(* Values of the page                                                      *)
NoValue == [shape |-> "none"]
Text(t) == [shape |-> "text", text |-> t]
Flag(b) == [shape |-> "flag", flag |-> b]
List(items) == [shape |-> "list", items |-> items]

OfKind(f, kind) == {n \in DOMAIN f : f[n].kind = kind}
Rules(f) == {f[n] : n \in OfKind(f, "rule")}
Operands(f, group) == {n \in DOMAIN f : f[n].in = group}

Keep(seq, S) == AtPlaces(seq, {i \in DOMAIN seq : seq[i] \in S})
-----------------------------------------------------------------------------
(* searchFieldsFromSchema: the fields the page offers.  Hidden ones are    *)
(* left to the clients of the API, operators it does not know are skipped. *)
SearchFields(schema) ==
    LET Known(f) == Keep(schema[f].operators, Operators)
    IN  [f \in {g \in DOMAIN schema : Known(g) # <<>> /\ ~schema[g].hidden} |->
            [schema[f] EXCEPT !.operators = Known(f)]]

Offered == SearchFields(Schemas[known])
-----------------------------------------------------------------------------
(* The filter builder                                                      *)
InitialValue(type, op) ==
    CASE op \in Presence -> NoValue
      [] op = "between" -> List(<<Blank, Blank>>)
      [] op \in Repeated -> List(<<>>)
      [] op \notin Presence \cup Repeated \cup {"between"} ->
            IF type = "bool" THEN Flag(TRUE) ELSE Text(Blank)

ItemOr(value, i, default) == IF i \in DOMAIN value.items THEN value.items[i] ELSE default

(* valueForOperator: presence operators keep the hidden value, the others  *)
(* make a range, a list or a scalar of it.                                 *)
ValueForOperator(value, type, op) ==
    LET list == value.shape = "list"
        text == value.shape = "text"
    IN  CASE op \in Presence -> value
          [] op = "between" ->
                IF list THEN List(<<ItemOr(value, 1, Blank), ItemOr(value, 2, Blank)>>)
                ELSE List(<<IF text THEN value.text ELSE Blank, Blank>>)
          [] op \in Repeated ->
                IF list THEN value
                ELSE List(IF text /\ value.text # Blank THEN <<value.text>> ELSE <<>>)
          [] op \notin Presence \cup Repeated \cup {"between"} ->
                IF list THEN (IF value.items # <<>> THEN Text(value.items[1])
                              ELSE InitialValue(type, op))
                ELSE IF value = NoValue THEN InitialValue(type, op) ELSE value

NewRule(schema, group, field) ==
    LET op == schema[field].operators[1]
    IN  Rule(group, field, op, InitialValue(schema[field].type, op))

(* FilterRuleEditor shows the first operator of a field that has not the   *)
(* operator of the rule.                                                   *)
SelectedOperator(rule, schema) ==
    LET operators == schema[rule.field].operators
    IN  IF rule.op \in Range(operators) THEN rule.op ELSE operators[1]

(* EnumMultiSelect: select all, clear, and the box of each option.  Items  *)
(* that are no options any more stay until all are cleared or selected.    *)
MultiSelected(value, options) ==
    LET items == IF value.shape = "list" THEN value.items ELSE <<>>
        Toggled(t) == IF t \in Range(items) THEN Keep(items, Range(items) \ {t})
                      ELSE Append(items, t)
    IN  {List(options), List(<<>>)} \cup {List(Toggled(t)) : t \in Range(options)}

(* The two inputs of a range, either of which is changed                   *)
Ranged(value) ==
    LET range == IF value.shape = "list" /\ Len(value.items) = 2 THEN value.items
                 ELSE <<Blank, Blank>>
    IN  {List([range EXCEPT ![i] = t]) : i \in {1, 2}, t \in Texts}

(* FilterValueEditor: what may be entered for an operator                  *)
Entered(value, field, op) ==
    CASE op \in Presence -> {}
      [] op = "between" -> Ranged(value)
      [] op \in Repeated ->
            IF field.options # <<>> THEN MultiSelected(value, field.options)
            ELSE {List(<<>>)} \cup {List(<<t>>) : t \in Texts \ {Blank}}
      [] op \notin Presence \cup Repeated \cup {"between"} ->
            IF field.type = "bool" THEN {Flag(TRUE), Flag(FALSE)}
            ELSE {Text(t) : t \in IF field.options # <<>> THEN Range(field.options) ELSE Texts}

(* FieldPicker: another field resets the operator and the value.           *)
ChangedField(rule, schema) == {NewRule(schema, rule.in, f) : f \in DOMAIN schema}

ChangedOperator(rule, schema) ==
    {Rule(rule.in, rule.field, op,
          ValueForOperator(rule.value, schema[rule.field].type, op)) :
        op \in Range(schema[rule.field].operators)}

EditedRule(rule, schema) ==
    ChangedField(rule, schema) \cup
    (IF rule.field \notin DOMAIN schema THEN {} ELSE
        ChangedOperator(rule, schema)
        \cup {Rule(rule.in, rule.field, rule.op, v) :
                  v \in Entered(rule.value, schema[rule.field], SelectedOperator(rule, schema))})

(* What is in a group goes with it, the nodes that stay close up.          *)
Stay(f, kept) ==
    LET nodes == AtPlaces(f, kept)
    IN  [i \in DOMAIN nodes |-> [nodes[i] EXCEPT !.in = CountUpTo(kept, @)]]

Removed(f, node) ==
    {Stay(f, kept) : kept \in {K \in SUBSET DOMAIN f :
        1 \in K /\ \A n \in DOMAIN f \ {1} : n \in K <=> n # node /\ f[n].in \in K}}

(* FilterGroupEditor: one change anywhere in the tree, of which 1 is the   *)
(* outermost group.  A new rule has the first field; which one is first    *)
(* does not matter, for it can be changed.                                 *)
Edited(f, schema) ==
    LET AtGroup(group) == {[f EXCEPT ![group].op = op] : op \in {"and", "or"}}
                          \cup {Append(f, NewRule(schema, group, field)) : field \in DOMAIN schema}
                          \cup {Append(f, Group(group, "and"))}
        AtRule(n) == {[f EXCEPT ![n] = rule] : rule \in EditedRule(f[n], schema)}
    IN  UNION ({AtGroup(group) : group \in OfKind(f, "group")}
               \cup {AtRule(n) : n \in OfKind(f, "rule")}
               \cup {Removed(f, n) : n \in DOMAIN f \ {1}})

(* Mutant of NormalizeFilterGroup: the tree of the URL is used as it is.   *)
NormalizeNothing(f, schema) == f

(* normalizeFilterGroup: an operator the field does not have is replaced   *)
(* by its first one, with an initial value.                                *)
NormalizeFilterGroup(f, schema) ==
    [n \in DOMAIN f |->
        IF f[n].kind = "rule" /\ f[n].field \in DOMAIN schema
           /\ f[n].op \notin Range(schema[f[n].field].operators)
        THEN NewRule(schema, f[n].in, f[n].field) ELSE f[n]]
-----------------------------------------------------------------------------
(* filterToProto.  A proto value has a kind and the text it came from.     *)
Scalar(type, t) == [kind |-> type, text |-> t]

ScalarConverts(type, v) ==
    \/ type = "bool" /\ v.shape \in {"text", "flag"}
    \/ /\ v.shape = "text" /\ v.text # Blank
       /\ type \in {"int", "double", "timestamp"} => v.text \in Numbers

(* Boolean(value): every text but the empty one is true.                   *)
ScalarToProto(type, v) ==
    Scalar(IF type = "text" THEN "keyword" ELSE type,
           IF type = "bool" THEN (IF v \in {Flag(FALSE), Text(Blank)} THEN "false" ELSE "true")
           ELSE v.text)

Items(value) == [i \in DOMAIN value.items |-> Text(value.items[i])]
Filled(value) == Items(List(Keep(value.items, Texts \ {Blank})))

ValueConverts(op, type, v) ==
    CASE op \in Presence -> TRUE
      [] op = "between" -> /\ v.shape = "list" /\ Len(v.items) = 2
                           /\ \A i \in {1, 2} : ScalarConverts(type, Items(v)[i])
      [] op \in Repeated -> /\ v.shape = "list" /\ v.items # <<>>
                            /\ \A i \in DOMAIN Filled(v) : ScalarConverts(type, Filled(v)[i])
      [] op \notin Presence \cup Repeated \cup {"between"} -> ScalarConverts(type, v)

ValueToProto(op, type, v) ==
    LET All(items) == [i \in DOMAIN items |-> ScalarToProto(type, items[i])]
    IN  CASE op \in Presence -> [kind |-> "none"]
          [] op = "between" -> [kind |-> "between", items |-> All(Items(v))]
          [] op \in Repeated -> [kind |-> "repeated", items |-> All(Filled(v))]
          [] op \notin Presence \cup Repeated \cup {"between"} -> ScalarToProto(type, v)

(* Otherwise the page shows an error and sends nothing.                    *)
Converts(f, schema) ==
    \A rule \in Rules(f) :
        /\ rule.field \in DOMAIN schema
        /\ ValueConverts(rule.op, schema[rule.field].type, rule.value)

FilterToProto(f, schema) ==
    [n \in DOMAIN f |->
        IF f[n].kind = "group" THEN f[n]
        ELSE Rule(f[n].in, f[n].field, f[n].op,
                  ValueToProto(f[n].op, schema[f[n].field].type, f[n].value))]
-----------------------------------------------------------------------------
(* ParseFilterSpec: the spec is a filter if its leaves are what the schema *)
(* allows.  (What parseValue also lets pass, null values and scalars for   *)
(* BETWEEN or IN among it, the page does not send.)                        *)
KindAllowed(type, v) ==
    IF type \in {"keyword", "text"} THEN v.kind = "keyword" ELSE v.kind = type

ValueAllowed(op, type, v) ==
    CASE v.kind = "none" -> op \in Presence
      [] v.kind = "between" -> \A i \in DOMAIN v.items : KindAllowed(type, v.items[i])
      [] v.kind = "repeated" -> /\ op \in Repeated
                                /\ \A i \in DOMAIN v.items : KindAllowed(type, v.items[i])
      [] v.kind \in Types -> KindAllowed(type, v)

LeafAllowed(leaf, schema) ==
    /\ leaf.field \in DOMAIN schema
    /\ leaf.op \in Range(schema[leaf.field].operators)
    /\ ValueAllowed(leaf.op, schema[leaf.field].type, leaf.value)
-----------------------------------------------------------------------------
(* OpenSearch: an object is a function from the fields it has to texts.    *)
(* Fields of a nested array are seen in a query nested in it only.  The    *)
(* value of startsWith and endsWith is a pattern (wildcardQuery).          *)
Numeral(t) == IF t \in Numbers THEN NumberOf[t] ELSE 0

Test(test, v, t) ==
    CASE test = "eq" -> v.text = t
      [] test = "in" -> \E i \in DOMAIN v.items : v.items[i].text = t
      [] test = "lt" -> Numeral(t) < Numeral(v.text)
      [] test = "gt" -> Numeral(t) > Numeral(v.text)
      [] test = "lte" -> Numeral(t) <= Numeral(v.text)
      [] test = "gte" -> Numeral(t) >= Numeral(v.text)
      [] test = "between" -> /\ Numeral(v.items[1].text) <= Numeral(t)
                             /\ Numeral(t) <= Numeral(v.items[2].text)
      [] test \in {"contains", "startsWith", "endsWith", "wildcard"} -> <<v.text, t>> \in Matched
      [] test \in {"exists", "isNotEmpty"} -> TRUE

(* A query stands for what it matches: documents, each with the object     *)
(* that the query is about.                                                *)
Pairs == Documents \X UNION {UNION {doc[p] : p \in DOMAIN doc} : doc \in Documents}

Nested(path, q) ==
    {pair \in Pairs : \E object \in pair[1][path] : <<pair[1], object>> \in q}

Not(q) == Pairs \ q

Leaf(test, rule) ==
    {pair \in Pairs : /\ rule.field \in DOMAIN pair[2]
                      /\ Test(test, rule.value, pair[2][rule.field])}

Logical(op, clauses) ==
    IF op = "and" THEN {pair \in Pairs : \A q \in clauses : pair \in q}
    ELSE IF clauses = {} THEN Pairs ELSE UNION clauses

Finds(q) == {doc \in Documents : \A object \in doc[Root] : <<doc, object>> \in q}
-----------------------------------------------------------------------------
(* BuildQueryWithNestedPaths                                               *)

(* Mutant of SharedNestedPath: some operand decides.                       *)
FirstNestedPath(paths) == IF paths = {} THEN Root ELSE CHOOSE p \in paths : TRUE

SharedNestedPath(paths) ==
    IF paths = {} THEN Root
    ELSE IF \E p \in paths : paths = {p} THEN CHOOSE p \in paths : TRUE ELSE Mixed

(* homogeneousNestedPath: the one array all conditions below belong to     *)
HomogeneousNestedPath(f) ==
    LET path[n \in DOMAIN f] ==
            IF f[n].kind = "rule" THEN PathOf[f[n].field]
            ELSE SharedNestedPath({path[c] : c \in Operands(f, n)})
    IN  path

NegationOf == [neq |-> "eq", notContains |-> "contains", notIn |-> "in",
               notExists |-> "exists", isEmpty |-> "exists"]

BuildCondition(rule) ==
    CASE rule.op \in DOMAIN NegationOf -> Not(Leaf(NegationOf[rule.op], rule))
      [] rule.op \in {"startsWith", "endsWith"} -> Leaf("wildcard", rule)
      [] rule.op = "isNotEmpty" -> Leaf("exists", rule)
      [] OTHER -> Leaf(rule.op, rule)

(* buildFilterWithNestedPaths within a nested query, which one it is does  *)
(* not matter: a query for each node, with no further nesting.             *)
BuildNested(f) ==
    LET query[n \in DOMAIN f] ==
            IF f[n].kind = "rule" THEN BuildCondition(f[n])
            ELSE Logical(f[n].op, {query[c] : c \in Operands(f, n)})
    IN  query

(* Mutant of BuildLogical: operands of one array get a query each.         *)
BuildLogicalApart(op, operands, path, nested, query) ==
    Logical(op, {query[c] : c \in operands})

(* buildLogicalWithNestedPaths: outside a nested query, the operands of an *)
(* AND that belong to one array share a nested query.                      *)
BuildLogical(op, operands, path, nested, query) ==
    LET Together(p) == Nested(p, Logical("and", {nested[c] : c \in {d \in operands : path[d] = p}}))
    IN  IF op # "and" THEN Logical(op, {query[c] : c \in operands})
        ELSE Logical("and", {IF path[c] \in Paths THEN Together(path[c]) ELSE query[c] :
                                c \in operands})

BuildFilter(f) ==
    LET path == HomogeneousNestedPath(f)
        nested == BuildNested(f)
        query[n \in DOMAIN f] ==
            IF path[n] \in Paths THEN Nested(path[n], nested[n])
            ELSE IF f[n].kind = "rule" THEN BuildCondition(f[n])
            ELSE BuildLogical(f[n].op, Operands(f, n), path, nested,
                              [c \in Operands(f, n) |-> query[c]])
    IN  query
-----------------------------------------------------------------------------
None == <<>>
MatchAll == <<Group(0, "and")>>

Init ==
    /\ phase = "draft"
    /\ filter = MatchAll
    /\ known = 1 /\ server = 1
    /\ request = None /\ found = {}

Edit ==
    /\ phase = "draft"
    /\ filter' \in Edited(filter, Offered)
    /\ Cardinality(OfKind(filter', "rule")) <= MaxRules
    /\ Cardinality(OfKind(filter', "group")) <= MaxGroups + 1
    /\ UNCHANGED <<phase, known, server, request, found>>

(* What the page reads back from the URL it has encoded a filter in: a     *)
(* filter without operands is left out of it.                              *)
ThroughURL(f) == IF Operands(f, 1) = {} THEN MatchAll ELSE f

(* onSearch puts the draft in the URL, from which the page takes it again. *)
Search ==
    /\ phase = "draft"
    /\ filter' = ThroughURL(NormalizeFilterGroup(filter, Offered))
    /\ phase' = "applied"
    /\ UNCHANGED <<known, server, request, found>>

Clear ==
    /\ phase = "draft" /\ Operands(filter, 1) # {}
    /\ filter' = MatchAll
    /\ phase' = "applied"
    /\ UNCHANGED <<known, server, request, found>>

(* The page is loaded from its URL, and fetches the schema anew.           *)
OpenLink ==
    /\ phase \in {"applied", "answered", "refused"}
    /\ phase' = "applied"
    /\ known' = server
    /\ request' = None /\ found' = {}
    /\ UNCHANGED <<filter, server>>

EditAgain ==
    /\ phase \in {"applied", "answered", "refused"}
    /\ phase' = "draft"
    /\ request' = None /\ found' = {}
    /\ UNCHANGED <<filter, known, server>>

Send ==
    LET applied == NormalizeFilterGroup(filter, Offered)
    IN  /\ phase = "applied"
        /\ Converts(applied, Offered)
        /\ request' = FilterToProto(applied, Offered)
        /\ phase' = "sent"
        /\ UNCHANGED <<filter, known, server, found>>

Allowed == \A leaf \in Rules(request) : LeafAllowed(leaf, Schemas[server])

Answer ==
    /\ phase = "sent"
    /\ phase' = IF Allowed THEN "answered" ELSE "refused"
    /\ found' = IF Allowed THEN Finds(BuildFilter(request)[1]) ELSE {}
    /\ UNCHANGED <<filter, known, server, request>>

Deploy ==
    /\ server + 1 \in DOMAIN Schemas
    /\ server' = server + 1
    /\ UNCHANGED <<phase, filter, known, request, found>>

Next == Edit \/ Search \/ Clear \/ OpenLink \/ EditAgain \/ Send \/ Answer \/ Deploy

Spec == Init /\ [][Next]_vars
-----------------------------------------------------------------------------
(* The shape of value the editor and the codec expect for an operator      *)
Fits(rule) ==
    LET shape == rule.value.shape
    IN  CASE rule.op \in Presence -> TRUE
          [] rule.op = "between" -> shape = "list" /\ Len(rule.value.items) = 2
          [] rule.op \in Repeated -> shape = "list"
          [] OTHER -> shape \in {"text", "flag"}

(* And the kind of value the query of an operator is built from            *)
KindFits(leaf) ==
    CASE leaf.op \in Presence -> leaf.value.kind = "none"
      [] leaf.op = "between" -> leaf.value.kind = "between"
      [] leaf.op \in Repeated -> leaf.value.kind = "repeated"
      [] OTHER -> leaf.value.kind \in Types

(* "Reconcile each rule with the selected field so submitted searches      *)
(* always use a supported operator and a value shape that matches it"      *)
(* (filter-builder.model.ts:109): what a page sends that knows the running *)
(* schema is accepted, however old its URL is; whatever an outdated page   *)
(* sends is either refused or has the shape of value the query is built    *)
(* from; and the editor never leaves a value its operator cannot take,     *)
(* however fields, operators and values were changed.                      *)
RequestsFit ==
    /\ phase = "sent" /\ known = server => Allowed
    /\ phase = "answered" => \A leaf \in Rules(request) : KindFits(leaf)
    /\ LET schema == Offered IN \A rule \in Rules(filter) :
          rule.field \in DOMAIN schema /\ rule.op \in Range(schema[rule.field].operators)
          => Fits(rule)

(* What a filter means for a document: the choices of one object of each   *)
(* array that is not empty for which the conditions below a node hold      *)
(* together, those on an array for the object chosen of it.                *)
ObjectChoices(doc) ==
    LET present == {p \in Paths \cup {Root} : doc[p] # {}}
    IN  {chosen \in [present -> UNION {doc[p] : p \in present}] :
            \A p \in present : chosen[p] \in doc[p]}

Meets(rule, object) ==
    LET Has(test) == /\ rule.field \in DOMAIN object
                     /\ Test(test, rule.value, object[rule.field])
    IN  IF rule.op \in DOMAIN NegationOf THEN ~Has(NegationOf[rule.op]) ELSE Has(rule.op)

ChoicesFor(f, doc) ==
    LET holds[n \in DOMAIN f] ==
            IF f[n].kind = "rule"
            THEN {chosen \in ObjectChoices(doc) : LET path == PathOf[f[n].field] IN
                    path \in DOMAIN chosen /\ Meets(f[n], chosen[path])}
            ELSE IF f[n].op = "and"
            THEN {chosen \in ObjectChoices(doc) : \A c \in Operands(f, n) : chosen \in holds[c]}
            ELSE UNION {holds[c] : c \in Operands(f, n)}
    IN  holds

Means(f, doc) == ChoicesFor(f, doc)[1] # {}

(* The filters for which the query can say that: every group that must     *)
(* have a match has an operand, and outside a nested query the conditions  *)
(* of an AND on one array are either in one operand or alone in theirs.    *)
PathsBelow(f) ==
    LET paths[n \in DOMAIN f] ==
            IF f[n].kind = "rule" THEN {PathOf[f[n].field]} \ {Root}
            ELSE UNION {paths[c] : c \in Operands(f, n)}
    IN  paths

Separable(f) ==
    LET path == HomogeneousNestedPath(f)
        below == PathsBelow(f)
    IN  \A n \in OfKind(f, "group") :
            IF f[n].op = "or" THEN Operands(f, n) # {}
            ELSE path[n] = Mixed =>
                 \A c, d \in Operands(f, n) : c # d =>
                    \A p \in below[c] \cap below[d] : below[c] = {p} /\ path[c] = p

(* "Conditions on fields within the same activity, child workflow, or      *)
(* search attribute are evaluated against the same nested object"          *)
(* (README.md:67), however the rules are spread over AND and OR groups, as *)
(* long as they are separable: the query finds exactly what the filter     *)
(* means.                                                                  *)
QueryIsExact ==
    phase = "answered" /\ Separable(request) =>
        found = {doc \in Documents : Means(request, doc)}

(* And however they are spread, no execution is missed that one choice of  *)
(* objects would satisfy: the grouping of conditions by array never puts   *)
(* one under a nested query of another array.                              *)
NothingIsMissed ==
    phase = "answered" => {doc \in Documents : Means(request, doc)} \subseteq found
=============================================================================
