------------------------ MODULE SearchFilterProofs -------------------------
(***************************************************************************)
(* What a page sends fits, and the query of a filter finds what the filter *)
(* means: proofs about the module SearchFilter, for every schema of every  *)
(* release, every mapping of fields to arrays, every tree and every        *)
(* document.  The first part is about the page and is an inductive         *)
(* invariant; the second is about the functions that build the query, by   *)
(* induction on the places of a tree, from the last one down.              *)
(***************************************************************************)
EXTENDS SearchFilter, NaturalSetsProofs, SequenceTheorems, TLAPS

(* Values of the page                                                      *)
Values == [shape : {"none"}] \cup [shape : {"text"}, text : Texts]
          \cup [shape : {"flag"}, flag : BOOLEAN] \cup [shape : {"list"}, items : Seq(Texts)]

(* What the page keeps of a filter: nodes in groups that come before them  *)
RuleNodes == [kind : {"rule"}, in : Nat, field : Fields, op : Operators, value : Values]
GroupNodes == [kind : {"group"}, in : Nat, op : {"and", "or"}]

(* What the query is built from: nodes in groups that come before them     *)
IsTree(f) ==
    /\ \E k \in Nat \ {0} : DOMAIN f = 1 .. k
    /\ \A n \in DOMAIN f :
          \/ f[n].kind = "rule" /\ f[n].field \in Fields /\ f[n].op \in Operators
          \/ f[n].kind = "group" /\ f[n].op \in {"and", "or"}
    /\ f[1].kind = "group" /\ f[1].in = 0
    /\ \A n \in DOMAIN f \ {1} : f[n].in \in 1 .. n - 1 /\ f[f[n].in].kind = "group"

Nodes == RuleNodes \cup GroupNodes

(* A filter of the page: a tree of nodes with the values of the page       *)
IsFilter(f) ==
    /\ f \in Seq(Nodes) /\ f # <<>>
    /\ f[1].kind = "group" /\ f[1].in = 0
    /\ \A n \in 2 .. Len(f) : f[n].in \in 1 .. n - 1 /\ f[f[n].in].kind = "group"

(* The inductive invariant                                                 *)
Typed ==
    /\ phase \in {"draft", "applied", "sent", "answered", "refused"}
    /\ known \in DOMAIN Schemas /\ server \in DOMAIN Schemas
    /\ IsFilter(filter)
    /\ phase \in {"sent", "answered"} => IsTree(request)

(* A rule that awaits the operator the editor shows for it                 *)
Awaits(rule, schema) ==
    rule.field \in DOMAIN schema /\ rule.op \notin Range(schema[rule.field].operators)

RulesFit ==
    \A rule \in Rules(filter) : Fits(rule) \/ (phase = "draft" /\ Awaits(rule, Offered))

(* What has been sent is what the schema allows that the page has fetched. *)
LeavesFit ==
    phase \in {"sent", "answered"} =>
        \A leaf \in Rules(request) : LeafAllowed(leaf, Schemas[known]) /\ KindFits(leaf)

Answered == phase = "answered" => found = Finds(BuildFilter(request)[1])

IInv == Typed /\ RulesFit /\ LeavesFit /\ Answered
-----------------------------------------------------------------------------
(* The shapes of the values of the page                                    *)
LEMMA ValueShapes ==
    /\ NoValue \in Values /\ (\A t \in Texts : Text(t) \in Values)
    /\ (\A b \in BOOLEAN : Flag(b) \in Values) /\ (\A s \in Seq(Texts) : List(s) \in Values)
    /\ \A v \in Values : /\ v.shape \in {"none", "text", "flag", "list"}
                         /\ v.shape = "none" => v = NoValue
                         /\ v.shape = "text" => v.text \in Texts
                         /\ v.shape = "list" => v.items \in Seq(Texts)
    /\ NoValue.shape = "none"
    /\ \A t : Text(t).shape = "text" /\ Text(t).text = t
    /\ \A b : Flag(b).shape = "flag"
    /\ \A s : List(s).shape = "list" /\ List(s).items = s
BY DEF Values, NoValue, Text, Flag, List

(* The elements kept of a sequence are those in the set.                   *)
LEMMA KeepFacts ==
    ASSUME NEW X, NEW seq \in Seq(X), NEW S
    PROVE  /\ Keep(seq, S) \in Seq(X \cap S) /\ Range(Keep(seq, S)) = Range(seq) \cap S
           /\ Keep(seq, S) # <<>> => Keep(seq, S)[1] \in Range(Keep(seq, S))
<1> DEFINE places == {i \in DOMAIN seq : seq[i] \in S}
<1>1. places \in SUBSET DOMAIN seq /\ Keep(seq, S) = AtPlaces(seq, places)
  BY DEF Keep
<1>2. Keep(seq, S) \in Seq(X)
  BY <1>1, AtPlacesFacts
<1>3. Range(Keep(seq, S)) = {seq[i] : i \in places}
  BY <1>1, AtPlacesRange
<1>4. {seq[i] : i \in places} = Range(seq) \cap S
  BY DEF Range
<1> HIDE DEF places
<1> DEFINE kept == Keep(seq, S)
<1>5. \A i \in 1 .. Len(kept) : kept[i] \in Range(kept)
  BY <1>2 DEF Range
<1> HIDE DEF kept
<1>6. \A i \in 1 .. Len(kept) : kept[i] \in X \cap S
  BY <1>2, <1>3, <1>4, <1>5 DEF kept
<1>7. kept \in Seq(X \cap S)
  BY <1>2, <1>6 DEF kept
<1>8. kept # <<>> => kept[1] \in Range(kept)
  BY <1>2, <1>5 DEF kept
<1> QED
  BY <1>3, <1>4, <1>7, <1>8 DEF kept

(* The fields that the page offers, as far as the editor relies on them    *)
IsOffer(schema) ==
    \A f \in DOMAIN schema :
        /\ f \in Fields /\ schema[f].type \in Types
        /\ schema[f].operators \in Seq(Operators)
        /\ schema[f].operators[1] \in Range(schema[f].operators)
        /\ Range(schema[f].operators) \subseteq Operators
        /\ schema[f].options \in Seq(Texts \ {Blank})

(* What the page offers of a schema is such an offer, of its fields and    *)
(* types.                                                                  *)
LEMMA OfferFacts ==
    ASSUME NEW n \in DOMAIN Schemas
    PROVE  /\ IsOffer(SearchFields(Schemas[n]))
           /\ \A f \in DOMAIN SearchFields(Schemas[n]) :
                 /\ f \in DOMAIN Schemas[n]
                 /\ SearchFields(Schemas[n])[f].type = Schemas[n][f].type
                 /\ Range(SearchFields(Schemas[n])[f].operators) \subseteq Range(Schemas[n][f].operators)
<1> DEFINE schema == Schemas[n]
           offer == SearchFields(schema)
           Known(f) == Keep(schema[f].operators, Operators)
<1>1. DOMAIN schema \subseteq Fields /\ \A f \in DOMAIN schema : schema[f] \in
         [type : Types, operators : Seq(Operators \cup Unknown),
          options : Seq(Texts \ {Blank}), hidden : BOOLEAN]
  BY FilterAssumption
<1>2. offer = [f \in {g \in DOMAIN schema : Known(g) # <<>> /\ ~schema[g].hidden} |->
                 [schema[f] EXCEPT !.operators = Known(f)]]
  BY DEF SearchFields
<1> HIDE DEF schema, offer
<1>3. \A f \in DOMAIN schema :
         /\ Known(f) \in Seq((Operators \cup Unknown) \cap Operators)
         /\ Range(Known(f)) = Range(schema[f].operators) \cap Operators
         /\ Known(f) # <<>> => Known(f)[1] \in Range(Known(f))
  <2> SUFFICES ASSUME NEW f \in DOMAIN schema
               PROVE  /\ Known(f) \in Seq((Operators \cup Unknown) \cap Operators)
                      /\ Range(Known(f)) = Range(schema[f].operators) \cap Operators
                      /\ Known(f) # <<>> => Known(f)[1] \in Range(Known(f))
    OBVIOUS
  <2>1. schema[f].operators \in Seq(Operators \cup Unknown)
    BY <1>1
  <2> QED
    BY <2>1, KeepFacts
<1>4. (Operators \cup Unknown) \cap Operators = Operators
  OBVIOUS
<1> HIDE DEF Known
<1>5. \A f \in DOMAIN offer :
         /\ f \in DOMAIN schema /\ Known(f) # <<>>
         /\ offer[f].type = schema[f].type /\ offer[f].operators = Known(f)
         /\ offer[f].options = schema[f].options
  BY <1>1, <1>2
<1> QED
  BY <1>1, <1>3, <1>4, <1>5 DEF IsOffer, schema, offer
-----------------------------------------------------------------------------
(* The kinds of operators have none in common.                             *)
LEMMA Arms ==
    /\ \A op \in Presence : op \notin Repeated /\ op # "between"
    /\ "between" \notin Presence /\ "between" \notin Repeated
    /\ \A op \in Repeated : op \notin Presence /\ op # "between"
BY DEF Presence, Repeated

(* A value fits an operator by its shape.                                  *)
LEMMA FitsByShape ==
    ASSUME NEW rule
    PROVE  /\ rule.op \in Presence => Fits(rule)
           /\ \A s \in Seq(Texts) : rule.op = "between" /\ rule.value = List(s) /\ Len(s) = 2
                                     => Fits(rule)
           /\ rule.op \in Repeated /\ rule.value.shape = "list" => Fits(rule)
           /\ rule.op \notin Presence \cup Repeated \cup {"between"}
              /\ rule.value.shape \in {"text", "flag"} => Fits(rule)
<1>1. rule.op \in Presence => Fits(rule)
  BY Arms DEF Fits
<1>2. ASSUME NEW s \in Seq(Texts), rule.op = "between", rule.value = List(s), Len(s) = 2
      PROVE  Fits(rule)
  <2>1. rule.value.shape = "list" /\ rule.value.items = s
    BY <1>2 DEF List
  <2> QED
    BY <1>2, <2>1, Arms DEF Fits
<1>3. rule.op \in Repeated /\ rule.value.shape = "list" => Fits(rule)
  BY Arms DEF Fits
<1>4. rule.op \notin Presence \cup Repeated \cup {"between"}
      /\ rule.value.shape \in {"text", "flag"} => Fits(rule)
  BY Arms DEF Fits
<1> QED
  BY <1>1, <1>2, <1>3, <1>4

(* The initial value fits the operator.                                    *)
LEMMA InitialFits ==
    ASSUME NEW type, NEW op \in Operators, NEW rule, rule.op = op, rule.value = InitialValue(type, op)
    PROVE  rule.value \in Values /\ Fits(rule)
<1>1. Blank \in Texts /\ <<Blank, Blank>> \in Seq(Texts) /\ <<>> \in Seq(Texts) /\ Len(<<Blank, Blank>>) = 2
  BY FilterAssumption
<1>2. CASE op \in Presence
  BY <1>2, ValueShapes DEF InitialValue, Fits, Presence, Repeated
<1>3. CASE op = "between"
  <2>1. rule.value = List(<<Blank, Blank>>)
    BY <1>3, Arms DEF InitialValue
  <2> QED
    BY <1>1, <1>3, <2>1, ValueShapes, FitsByShape
<1>4. CASE op \in Repeated
  BY <1>1, <1>4, ValueShapes DEF InitialValue, Fits, Presence, Repeated
<1>5. CASE op \notin Presence \cup Repeated \cup {"between"}
  <2>1. rule.value \in {Flag(TRUE), Text(Blank)}
    BY <1>5 DEF InitialValue, Presence, Repeated
  <2> QED
    BY <1>1, <1>5, <2>1, ValueShapes DEF Fits, Presence, Repeated
<1> QED
  BY <1>2, <1>3, <1>4, <1>5

(* valueForOperator fits the operator whatever the value was.              *)
LEMMA OperatorFits ==
    ASSUME NEW type, NEW op \in Operators, NEW value \in Values,
           NEW rule, rule.op = op, rule.value = ValueForOperator(value, type, op)
    PROVE  rule.value \in Values /\ Fits(rule)
<1>1. Blank \in Texts
  BY FilterAssumption
<1>2. CASE op \in Presence
  BY <1>2, ValueShapes DEF ValueForOperator, Fits, Presence, Repeated
<1>3. CASE op = "between"
  <2>1. \E a, b \in Texts : rule.value = List(<<a, b>>)
    <3>1. CASE value.shape = "list"
      <4>1. value.items \in Seq(Texts)
        BY <3>1, ValueShapes
      <4>2. ItemOr(value, 1, Blank) \in Texts /\ ItemOr(value, 2, Blank) \in Texts
        BY <1>1, <4>1 DEF ItemOr
      <4>3. rule.value = List(<<ItemOr(value, 1, Blank), ItemOr(value, 2, Blank)>>)
        BY <1>3, <3>1 DEF ValueForOperator, Presence, Repeated
      <4> QED
        BY <4>2, <4>3
    <3>2. CASE value.shape # "list"
      <4>1. rule.value = List(<<IF value.shape = "text" THEN value.text ELSE Blank, Blank>>)
        BY <1>3, <3>2 DEF ValueForOperator, Presence, Repeated
      <4> QED
        BY <1>1, <4>1, ValueShapes
    <3> QED
      BY <3>1, <3>2
  <2>2. PICK a \in Texts, b \in Texts : rule.value = List(<<a, b>>)
    BY <2>1
  <2> DEFINE s == <<a, b>>
  <2>3. s \in Seq(Texts) /\ Len(s) = 2
    OBVIOUS
  <2>4. rule.value = List(s)
    BY <2>2
  <2> HIDE DEF s
  <2> QED
    BY <1>3, <2>3, <2>4, ValueShapes, FitsByShape
<1>4. CASE op \in Repeated
  <2>1. rule.value \in Values /\ rule.value.shape = "list"
    <3>1. CASE value.shape = "list"
      <4>1. rule.value = value
        BY <1>4, <3>1 DEF ValueForOperator, Presence, Repeated
      <4> QED
        BY <3>1, <4>1
    <3>2. CASE value.shape = "text" /\ value.text # Blank
      <4>1. rule.value = List(<<value.text>>)
        BY <1>4, <3>2 DEF ValueForOperator, Presence, Repeated
      <4>2. <<value.text>> \in Seq(Texts)
        BY <3>2, ValueShapes
      <4> QED
        BY <4>1, <4>2, ValueShapes
    <3>3. CASE value.shape # "list" /\ ~(value.shape = "text" /\ value.text # Blank)
      <4>1. rule.value = List(<<>>)
        BY <1>4, <3>3 DEF ValueForOperator, Presence, Repeated
      <4>2. <<>> \in Seq(Texts)
        OBVIOUS
      <4> QED
        BY <4>1, <4>2, ValueShapes
    <3> QED
      BY <3>1, <3>2, <3>3
  <2> QED
    BY <1>4, <2>1 DEF Fits, Presence, Repeated
<1>5. CASE op \notin Presence \cup Repeated \cup {"between"}
  <2>1. rule.value =
          IF value.shape = "list" THEN (IF value.items # <<>> THEN Text(value.items[1])
                                        ELSE InitialValue(type, op))
          ELSE IF value = NoValue THEN InitialValue(type, op) ELSE value
    BY <1>5 DEF ValueForOperator, Presence, Repeated
  <2>2. CASE rule.value = InitialValue(type, op)
    BY <2>2, InitialFits
  <2>3. CASE value.shape = "list" /\ value.items # <<>>
    <3>1. value.items[1] \in Texts
      BY <2>3, ValueShapes
    <3>2. rule.value = Text(value.items[1])
      BY <2>1, <2>3
    <3> QED
      BY <1>5, <3>1, <3>2, ValueShapes DEF Fits, Presence, Repeated
  <2>4. CASE value.shape # "list" /\ value # NoValue
    <3>1. rule.value = value /\ value.shape \in {"text", "flag"}
      BY <2>1, <2>4, ValueShapes
    <3> QED
      BY <1>5, <3>1 DEF Fits, Presence, Repeated
  <2> QED
    BY <2>1, <2>2, <2>3, <2>4
<1> QED
  BY <1>2, <1>3, <1>4, <1>5

(* Entered, its cases one after the other                                  *)
LEMMA EnteredIs ==
    ASSUME NEW value, NEW field, NEW op
    PROVE  Entered(value, field, op) =
             IF op \in Presence THEN {}
             ELSE IF op = "between" THEN Ranged(value)
             ELSE IF op \in Repeated
             THEN IF field.options # <<>> THEN MultiSelected(value, field.options)
                  ELSE {List(<<>>)} \cup {List(<<t>>) : t \in Texts \ {Blank}}
             ELSE IF field.type = "bool" THEN {Flag(TRUE), Flag(FALSE)}
             ELSE {Text(t) : t \in IF field.options # <<>> THEN Range(field.options) ELSE Texts}
BY Arms DEF Entered

(* What is entered for an operator fits it.                                *)
LEMMA EnteredFits ==
    ASSUME NEW schema, IsOffer(schema), NEW f \in DOMAIN schema, NEW op \in Operators,
           NEW value \in Values, NEW v \in Entered(value, schema[f], op),
           NEW rule, rule.op = op, rule.value = v
    PROVE  v \in Values /\ Fits(rule)
<1> DEFINE field == schema[f]
<1>1. Blank \in Texts
  BY FilterAssumption
<1>2. field.options \in Seq(Texts \ {Blank})
  BY DEF IsOffer
<1>3. \A t \in Range(field.options) : t \in Texts
  BY <1>2 DEF Range
<1> HIDE DEF field
<1>4. op \notin Presence
  BY EnteredIs
<1>5. CASE op = "between"
  <2> DEFINE range == IF value.shape = "list" /\ Len(value.items) = 2 THEN value.items
                      ELSE <<Blank, Blank>>
  <2>1. \E i \in {1, 2}, t \in Texts : v = List([range EXCEPT ![i] = t])
    <3>1. v \in Ranged(value)
      BY <1>5, Arms, EnteredIs
    <3> QED
      BY <3>1 DEF Ranged
  <2>2. range \in Seq(Texts) /\ Len(range) = 2
    BY <1>1, ValueShapes
  <2> HIDE DEF range
  <2>3. PICK i \in {1, 2}, t \in Texts : v = List([range EXCEPT ![i] = t])
    BY <2>1
  <2>4. i \in 1 .. Len(range) /\ range \in Seq(Texts)
    BY <2>2
  <2>5. [range EXCEPT ![i] = t] \in Seq(Texts) /\ Len([range EXCEPT ![i] = t]) = Len(range)
    BY <2>4, ExceptSeq
  <2> DEFINE s == [range EXCEPT ![i] = t]
  <2>6. v = List(s) /\ s \in Seq(Texts) /\ Len(s) = 2
    BY <2>2, <2>3, <2>5
  <2> HIDE DEF s
  <2> QED
    BY <1>5, <2>6, ValueShapes, FitsByShape
<1>6. CASE op \in Repeated
  <2>1. \E s \in Seq(Texts) : v = List(s)
    <3>1. CASE field.options # <<>>
      <4> DEFINE items == IF value.shape = "list" THEN value.items ELSE <<>>
                 Toggled(t) == IF t \in Range(items) THEN Keep(items, Range(items) \ {t})
                               ELSE Append(items, t)
      <4>1. v \in {List(field.options), List(<<>>)} \cup {List(Toggled(t)) : t \in Range(field.options)}
        <5>1. v \in MultiSelected(value, field.options)
          BY <1>6, <3>1, Arms, EnteredIs DEF field
        <5> QED
          BY <5>1 DEF MultiSelected
      <4>2. items \in Seq(Texts)
        BY ValueShapes
      <4> HIDE DEF items
      <4>3. \A t \in Range(field.options) : Toggled(t) \in Seq(Texts)
        <5> SUFFICES ASSUME NEW t \in Range(field.options)
                     PROVE  Toggled(t) \in Seq(Texts)
          OBVIOUS
        <5>1. Append(items, t) \in Seq(Texts)
          BY <1>3, <4>2
        <5>2. Keep(items, Range(items) \ {t}) \in Seq(Texts \cap (Range(items) \ {t}))
          BY <4>2, KeepFacts
        <5>3. Keep(items, Range(items) \ {t}) \in Seq(Texts)
          BY <5>2
        <5> QED
          BY <5>1, <5>3
      <4>4. field.options \in Seq(Texts) /\ <<>> \in Seq(Texts)
        BY <1>2
      <4> HIDE DEF Toggled
      <4> QED
        BY <4>1, <4>3, <4>4
    <3>2. CASE field.options = <<>>
      <4>1. v \in {List(<<>>)} \cup {List(<<t>>) : t \in Texts \ {Blank}}
        BY <1>6, <3>2, Arms, EnteredIs DEF field
      <4>2. <<>> \in Seq(Texts) /\ \A t \in Texts : <<t>> \in Seq(Texts)
        OBVIOUS
      <4> QED
        BY <4>1, <4>2
    <3> QED
      BY <3>1, <3>2
  <2> QED
    BY <1>6, <2>1, ValueShapes DEF Fits, Presence, Repeated
<1>7. CASE op \notin Presence \cup Repeated \cup {"between"}
  <2>1. v \in IF field.type = "bool" THEN {Flag(TRUE), Flag(FALSE)}
              ELSE {Text(t) : t \in IF field.options # <<>> THEN Range(field.options) ELSE Texts}
    BY <1>7, EnteredIs DEF field
  <2>2. (\E b \in BOOLEAN : v = Flag(b)) \/ (\E t \in Texts : v = Text(t))
    BY <1>3, <2>1
  <2> QED
    BY <1>7, <2>2, ValueShapes DEF Fits, Presence, Repeated
<1> QED
  BY <1>4, <1>5, <1>6, <1>7
-----------------------------------------------------------------------------
(* A node is a rule or a group.                                            *)
LEMMA NodeFacts ==
    /\ \A group \in Nat, field \in Fields, op \in Operators, value \in Values :
          Rule(group, field, op, value) \in RuleNodes
    /\ \A group \in Nat, op \in {"and", "or"} : Group(group, op) \in GroupNodes
    /\ \A node \in Nodes :
          /\ node.kind \in {"rule", "group"} /\ node.in \in Nat
          /\ node.kind = "rule" => node \in RuleNodes
          /\ node.kind = "group" => node \in GroupNodes
    /\ \A node \in RuleNodes : /\ node.kind = "rule" /\ node.field \in Fields /\ node.in \in Nat
                               /\ node.op \in Operators /\ node.value \in Values
    /\ \A node \in GroupNodes : node.kind = "group" /\ node.op \in {"and", "or"} /\ node.in \in Nat
BY DEF Rule, Group, RuleNodes, GroupNodes, Nodes

(* The parts of the nodes that the editor makes                            *)
LEMMA RuleFields ==
    /\ \A group, field, op, value :
          /\ Rule(group, field, op, value).kind = "rule" /\ Rule(group, field, op, value).in = group
          /\ Rule(group, field, op, value).field = field /\ Rule(group, field, op, value).op = op
          /\ Rule(group, field, op, value).value = value
    /\ \A group, op : Group(group, op).kind = "group" /\ Group(group, op).in = group
                      /\ Group(group, op).op = op
BY DEF Rule, Group

(* Whether a rule fits or awaits an operator does not depend on its place. *)
LEMMA SameRule ==
    ASSUME NEW r, NEW s, r.field = s.field, r.op = s.op, r.value = s.value, NEW schema
    PROVE  (Fits(r) <=> Fits(s)) /\ (Awaits(r, schema) <=> Awaits(s, schema))
<1>1. Fits(r) <=> Fits(s)
  BY DEF Fits
<1>2. Awaits(r, schema) <=> Awaits(s, schema)
  BY DEF Awaits
<1> QED
  BY <1>1, <1>2

(* A new rule is for the field and fits.                                   *)
LEMMA NewRuleFits ==
    ASSUME NEW schema, IsOffer(schema), NEW group \in Nat, NEW field \in DOMAIN schema
    PROVE  /\ NewRule(schema, group, field) \in RuleNodes
           /\ NewRule(schema, group, field).in = group
           /\ Fits(NewRule(schema, group, field))
<1> DEFINE op == schema[field].operators[1]
           type == schema[field].type
           rule == NewRule(schema, group, field)
<1>1. op \in Operators /\ field \in Fields
  BY DEF IsOffer
<1>2. rule = Rule(group, field, op, InitialValue(type, op))
  BY DEF NewRule
<1> HIDE DEF op, rule, type
<1>3. rule.op = op /\ rule.value = InitialValue(type, op) /\ rule.in = group
  BY <1>2, RuleFields
<1>4. rule.value \in Values /\ Fits(rule)
  BY <1>1, <1>3, InitialFits
<1>5. rule \in RuleNodes
  BY <1>1, <1>2, <1>3, <1>4, NodeFacts
<1> QED
  BY <1>3, <1>4, <1>5 DEF rule

(* However a rule is changed, it fits or awaits the operator that the      *)
(* editor shows for it.                                                    *)
LEMMA EditedRuleFits ==
    ASSUME NEW schema, IsOffer(schema), NEW rule \in RuleNodes, NEW new \in EditedRule(rule, schema)
    PROVE  new \in RuleNodes /\ new.in = rule.in /\ (Fits(new) \/ Awaits(new, schema))
<1>1. /\ rule.field \in Fields /\ rule.in \in Nat /\ rule.op \in Operators
      /\ rule.value \in Values
  BY NodeFacts
<1>2. CASE new \in ChangedField(rule, schema)
  <2>1. PICK field \in DOMAIN schema : new = NewRule(schema, rule.in, field)
    BY <1>2 DEF ChangedField
  <2> QED
    BY <1>1, <2>1, NewRuleFits
<1>3. CASE rule.field \in DOMAIN schema /\ new \in ChangedOperator(rule, schema)
  <2>1. PICK op \in Range(schema[rule.field].operators) :
           new = Rule(rule.in, rule.field, op,
                      ValueForOperator(rule.value, schema[rule.field].type, op))
    BY <1>3 DEF ChangedOperator
  <2>2. op \in Operators
    BY <1>3 DEF IsOffer
  <2>3. /\ new.op = op /\ new.in = rule.in
        /\ new.value = ValueForOperator(rule.value, schema[rule.field].type, op)
    BY <2>1, RuleFields
  <2>4. new.value \in Values /\ Fits(new)
    BY <1>1, <2>2, <2>3, OperatorFits
  <2>5. new \in RuleNodes
    BY <1>1, <2>1, <2>2, <2>3, <2>4, NodeFacts
  <2> QED
    BY <2>3, <2>4, <2>5
<1>4. CASE /\ rule.field \in DOMAIN schema
           /\ \E v \in Entered(rule.value, schema[rule.field], SelectedOperator(rule, schema)) :
                 new = Rule(rule.in, rule.field, rule.op, v)
  <2> DEFINE op == SelectedOperator(rule, schema)
  <2>1. PICK v \in Entered(rule.value, schema[rule.field], op) :
           new = Rule(rule.in, rule.field, rule.op, v)
    BY <1>4
  <2>2. op \in Operators
    BY <1>4, <1>1 DEF IsOffer, SelectedOperator
  <2>3. rule.op \in Range(schema[rule.field].operators) => op = rule.op
    BY DEF SelectedOperator
  <2> HIDE DEF op
  <2> DEFINE shown == Rule(rule.in, rule.field, op, v)
  <2>4. shown.op = op /\ shown.value = v /\ shown.field = rule.field
    BY RuleFields
  <2> HIDE DEF shown
  <2>5. v \in Values /\ Fits(shown)
    BY <1>1, <1>4, <2>2, <2>4, EnteredFits
  <2>6. /\ new.op = rule.op /\ new.in = rule.in /\ new.value = v /\ new.field = rule.field
        /\ new \in RuleNodes
    BY <1>1, <2>1, <2>5, RuleFields, NodeFacts
  <2>7. CASE rule.op \in Range(schema[rule.field].operators)
    BY <2>3, <2>4, <2>5, <2>6, <2>7, SameRule
  <2>8. CASE rule.op \notin Range(schema[rule.field].operators)
    BY <1>4, <2>6, <2>8 DEF Awaits
  <2> QED
    BY <2>6, <2>7, <2>8
<1> QED
  <2>1. CASE rule.field \notin DOMAIN schema
    BY <1>2, <2>1 DEF EditedRule
  <2>2. CASE rule.field \in DOMAIN schema
    <3>1. \/ new \in ChangedField(rule, schema)
          \/ new \in ChangedOperator(rule, schema)
          \/ new \in {Rule(rule.in, rule.field, rule.op, v) : v \in
                Entered(rule.value, schema[rule.field], SelectedOperator(rule, schema))}
      BY <2>2 DEF EditedRule
    <3> QED
      BY <1>2, <1>3, <1>4, <2>2, <3>1
  <2> QED
    BY <2>1, <2>2
-----------------------------------------------------------------------------
(* A filter of the page is a tree.                                         *)
LEMMA FilterIsTree ==
    ASSUME NEW f, IsFilter(f)
    PROVE  IsTree(f)
<1>1. Len(f) \in Nat \ {0} /\ DOMAIN f = 1 .. Len(f) /\ f \in Seq(Nodes)
  BY DEF IsFilter
<1>2. \A n \in DOMAIN f : f[n] \in Nodes
  BY <1>1
<1>3. \A n \in DOMAIN f : \/ f[n].kind = "rule" /\ f[n].field \in Fields /\ f[n].op \in Operators
                          \/ f[n].kind = "group" /\ f[n].op \in {"and", "or"}
  BY <1>2, NodeFacts
<1>4. \A n \in DOMAIN f \ {1} : f[n].in \in 1 .. n - 1 /\ f[f[n].in].kind = "group"
  BY <1>1 DEF IsFilter
<1> QED
  BY <1>1, <1>3, <1>4 DEF IsTree, IsFilter

(* Its nodes and its rules                                                 *)
LEMMA NodesOf ==
    ASSUME NEW f, IsFilter(f)
    PROVE  /\ f \in Seq(Nodes) /\ Len(f) \in Nat /\ Len(f) >= 1 /\ DOMAIN f = 1 .. Len(f)
           /\ \A n \in 1 .. Len(f) : f[n] \in Nodes
           /\ OfKind(f, "rule") \subseteq 1 .. Len(f) /\ OfKind(f, "group") \subseteq 1 .. Len(f)
           /\ \A rule \in Rules(f) : rule \in RuleNodes
<1>1. f \in Seq(Nodes) /\ Len(f) \in Nat /\ Len(f) >= 1 /\ DOMAIN f = 1 .. Len(f)
  BY DEF IsFilter
<1>2. \A n \in 1 .. Len(f) : f[n] \in Nodes
  BY <1>1
<1>3. OfKind(f, "rule") \subseteq 1 .. Len(f) /\ OfKind(f, "group") \subseteq 1 .. Len(f)
  BY <1>1 DEF OfKind
<1>4. \A rule \in Rules(f) : rule \in RuleNodes
  BY <1>1, <1>2, NodeFacts DEF Rules, OfKind
<1> QED
  BY <1>1, <1>2, <1>3, <1>4

(* One node is replaced by one of its kind in the same group.              *)
LEMMA Replaced ==
    ASSUME NEW f, IsFilter(f), NEW n \in 1 .. Len(f), NEW node \in Nodes,
           node.kind = f[n].kind, node.in = f[n].in,
           NEW g, g = [f EXCEPT ![n] = node]
    PROVE  IsFilter(g) /\ \A rule \in Rules(g) : rule \in Rules(f) \/ rule = node
<1>1. f \in Seq(Nodes) /\ Len(f) \in Nat /\ Len(f) >= 1 /\ DOMAIN f = 1 .. Len(f)
  BY NodesOf
<1>2. /\ g \in Seq(Nodes) /\ Len(g) = Len(f)
      /\ \A j \in 1 .. Len(f) : g[j] = IF j = n THEN node ELSE f[j]
  BY <1>1, ExceptSeq
<1>3. \A j \in 1 .. Len(f) : g[j].kind = f[j].kind /\ g[j].in = f[j].in
  BY <1>2
<1>4. g # <<>> /\ DOMAIN g = 1 .. Len(f)
  BY <1>1, <1>2
<1>5. g[1].kind = "group" /\ g[1].in = 0
  BY <1>1, <1>3 DEF IsFilter
<1>6. ASSUME NEW j \in 2 .. Len(g)
      PROVE  g[j].in \in 1 .. j - 1 /\ g[g[j].in].kind = "group"
  <2>1. f[j].in \in 1 .. j - 1 /\ f[f[j].in].kind = "group" /\ j \in 1 .. Len(f)
    BY <1>2, <1>1 DEF IsFilter
  <2>2. f[j].in \in 1 .. Len(f)
    BY <2>1, <1>1
  <2> QED
    BY <1>3, <2>1, <2>2
<1>7. IsFilter(g)
  BY <1>2, <1>4, <1>5, <1>6 DEF IsFilter
<1>8. \A rule \in Rules(g) : rule \in Rules(f) \/ rule = node
  BY <1>1, <1>2, <1>3, <1>4 DEF Rules, OfKind
<1> QED
  BY <1>7, <1>8

(* A new node comes last, in a group that was there before.                *)
LEMMA Appended ==
    ASSUME NEW f, IsFilter(f), NEW node \in Nodes, NEW group \in OfKind(f, "group"),
           node.in = group, NEW g, g = Append(f, node)
    PROVE  IsFilter(g) /\ \A rule \in Rules(g) : rule \in Rules(f) \/ rule = node
<1>1. f \in Seq(Nodes) /\ Len(f) \in Nat /\ Len(f) >= 1 /\ DOMAIN f = 1 .. Len(f)
  BY NodesOf
<1>2. group \in 1 .. Len(f) /\ f[group].kind = "group"
  BY <1>1 DEF OfKind
<1>3. /\ g \in Seq(Nodes) /\ Len(g) = Len(f) + 1 /\ DOMAIN g = 1 .. Len(f) + 1
      /\ \A j \in 1 .. Len(f) : g[j] = f[j]
      /\ g[Len(f) + 1] = node
  BY <1>1
<1>4. g # <<>> /\ g[1].kind = "group" /\ g[1].in = 0
  BY <1>1, <1>3 DEF IsFilter
<1>5. ASSUME NEW j \in 2 .. Len(g)
      PROVE  g[j].in \in 1 .. j - 1 /\ g[g[j].in].kind = "group"
  <2>1. CASE j \in 2 .. Len(f)
    <3>1. f[j].in \in 1 .. j - 1 /\ f[f[j].in].kind = "group" /\ j \in 1 .. Len(f)
      BY <1>1, <2>1 DEF IsFilter
    <3>2. f[j].in \in 1 .. Len(f)
      BY <3>1, <1>1
    <3> QED
      BY <1>3, <3>1, <3>2
  <2>2. CASE j = Len(f) + 1
    <3>1. g[j] = node
      BY <1>3, <2>2
    <3>2. group \in 1 .. j - 1
      BY <1>1, <1>2, <2>2
    <3> QED
      BY <1>2, <1>3, <3>1, <3>2
  <2> QED
    BY <1>1, <1>3, <2>1, <2>2
<1>6. IsFilter(g)
  BY <1>3, <1>4, <1>5 DEF IsFilter
<1>7. \A rule \in Rules(g) : rule \in Rules(f) \/ rule = node
  <2> SUFFICES ASSUME NEW j \in 1 .. Len(f) + 1, g[j].kind = "rule"
               PROVE  g[j] \in Rules(f) \/ g[j] = node
    BY <1>3 DEF Rules, OfKind
  <2>1. CASE j \in 1 .. Len(f)
    BY <1>1, <1>3, <2>1 DEF Rules, OfKind
  <2>2. CASE j = Len(f) + 1
    BY <1>3, <2>2
  <2> QED
    BY <1>1, <2>1, <2>2
<1> QED
  BY <1>6, <1>7

(* What stays is a tree again: each node counts its group before itself.   *)
LEMMA RemovedFacts ==
    ASSUME NEW f, IsFilter(f), NEW node \in DOMAIN f \ {1}, NEW g \in Removed(f, node)
    PROVE  /\ IsFilter(g)
           /\ \A r \in Rules(g) : \E s \in Rules(f) :
                 r.field = s.field /\ r.op = s.op /\ r.value = s.value
<1>1. /\ f \in Seq(Nodes) /\ Len(f) \in Nat /\ Len(f) >= 1 /\ DOMAIN f = 1 .. Len(f)
      /\ \A n \in 1 .. Len(f) : f[n] \in Nodes
  BY NodesOf
<1>2. PICK kept \in SUBSET DOMAIN f :
         /\ 1 \in kept /\ \A n \in DOMAIN f \ {1} : n \in kept <=> n # node /\ f[n].in \in kept
         /\ g = Stay(f, kept)
  BY DEF Removed
<1> DEFINE nodes == AtPlaces(f, kept)
           size == Cardinality(kept)
           place(i) == CountUpTo(kept, i)
           at(k) == Ascending(kept)[k]
<1>3. /\ IsFiniteSet(kept) /\ size \in Nat /\ nodes \in Seq(Nodes) /\ DOMAIN nodes = 1 .. size
      /\ \A i \in kept : place(i) \in 1 .. size /\ nodes[place(i)] = f[i]
  BY <1>1, AtPlacesFacts
<1>4. kept \in SUBSET Nat
  BY <1>1
<1>5. /\ \A k \in 1 .. size : at(k) \in kept /\ place(at(k)) = k
      /\ \A i \in kept : at(place(i)) = i
  BY <1>3, <1>4, AscendingOrder
<1>6. \A i, j \in kept : i < j => place(i) < place(j)
  BY <1>3, <1>4, CountGrows
<1>7. place(1) = 1
  <2>1. \A j \in kept : ~(j < 1)
    BY <1>1
  <2>2. {j \in kept : j < 1} = {}
    BY <2>1
  <2>3. 1 \in kept /\ IsFiniteSet(kept)
    BY <1>2, <1>3
  <2>4. CountUpTo(kept, 1) = Cardinality({j \in kept : j < 1}) + 1
    BY <1>4, <2>3, CountOfMember
  <2> QED
    BY <2>2, <2>4, FS_EmptySet
<1>8. g = [k \in 1 .. size |-> [nodes[k] EXCEPT !.in = place(nodes[k].in)]]
  BY <1>2, <1>3 DEF Stay
<1> HIDE DEF nodes, size, place, at
<1>9. \A k \in 1 .. size : nodes[k] = f[at(k)] /\ at(k) \in 1 .. Len(f)
  BY <1>1, <1>3, <1>5
<1>10. ASSUME NEW k \in 1 .. size, k # 1
       PROVE  /\ f[at(k)].in \in kept /\ place(f[at(k)].in) \in 1 .. k - 1
              /\ f[f[at(k)].in].kind = "group"
  <2>1. at(k) \in kept /\ at(k) # 1 /\ place(at(k)) = k
    BY <1>2, <1>5, <1>7, <1>10
  <2>2. f[at(k)].in \in kept
    BY <1>1, <1>2, <2>1
  <2>3. f[at(k)].in \in 1 .. at(k) - 1 /\ f[f[at(k)].in].kind = "group"
    BY <1>1, <1>9, <2>1 DEF IsFilter
  <2>4. f[at(k)].in < at(k)
    BY <1>9, <2>3
  <2>5. place(f[at(k)].in) < k
    BY <1>6, <2>1, <2>2, <2>4
  <2>6. place(f[at(k)].in) \in 1 .. size
    BY <1>3, <2>2
  <2> QED
    BY <1>3, <2>2, <2>3, <2>5, <2>6
<1>11. place(0) = 0
  <2>1. {j \in kept : j <= 0} = {}
    BY <1>1
  <2> QED
    BY <2>1, FS_EmptySet DEF place, CountUpTo
<1>12. \A k \in 1 .. size : place(nodes[k].in) \in Nat
  <2> SUFFICES ASSUME NEW k \in 1 .. size
               PROVE  place(nodes[k].in) \in Nat
    OBVIOUS
  <2>1. CASE k = 1
    <3>1. at(k) = 1
      BY <1>2, <1>5, <1>7, <2>1
    <3> QED
      BY <1>9, <1>11, <3>1 DEF IsFilter
  <2>2. CASE k # 1
    BY <1>9, <1>10, <2>2
  <2> QED
    BY <2>1, <2>2
<1>13. ASSUME NEW old \in Nodes, NEW place1 \in Nat, NEW new, new = [old EXCEPT !.in = place1]
       PROVE  /\ new \in Nodes /\ new.kind = old.kind /\ new.in = place1
              /\ new.kind = "rule" =>
                    new.field = old.field /\ new.op = old.op /\ new.value = old.value
  BY <1>13 DEF Nodes, RuleNodes, GroupNodes
<1>14. \A k \in 1 .. size :
          /\ g[k] \in Nodes /\ g[k].kind = nodes[k].kind /\ g[k].in = place(nodes[k].in)
          /\ g[k].kind = "rule" => /\ g[k].field = nodes[k].field /\ g[k].op = nodes[k].op
                                   /\ g[k].value = nodes[k].value
  <2> SUFFICES ASSUME NEW k \in 1 .. size
               PROVE  /\ g[k] \in Nodes /\ g[k].kind = nodes[k].kind /\ g[k].in = place(nodes[k].in)
                      /\ g[k].kind = "rule" =>
                            /\ g[k].field = nodes[k].field /\ g[k].op = nodes[k].op
                            /\ g[k].value = nodes[k].value
    OBVIOUS
  <2>1. g[k] = [nodes[k] EXCEPT !.in = place(nodes[k].in)]
    BY <1>8
  <2>2. nodes[k] \in Nodes
    BY <1>3
  <2> QED
    BY <1>12, <1>13, <2>1, <2>2
<1>15. DOMAIN g = 1 .. size
  BY <1>8
<1>16. g \in Seq(Nodes) /\ Len(g) = size
  <2>1. g \in [1 .. size -> Nodes]
    BY <1>8, <1>14
  <2> QED
    BY <1>3, <2>1, FunctionIsSeq
<1>17. 1 \in 1 .. size /\ at(1) = 1
  BY <1>2, <1>3, <1>5, <1>7
<1>18. g # <<>> /\ g[1].kind = "group" /\ g[1].in = 0
  <2>1. g[1].kind = f[1].kind /\ g[1].in = place(f[1].in)
    BY <1>9, <1>14, <1>17
  <2>2. f[1].kind = "group" /\ f[1].in = 0
    BY DEF IsFilter
  <2>3. g # <<>>
    BY <1>16, <1>17
  <2> QED
    BY <1>11, <2>1, <2>2, <2>3
<1>19. ASSUME NEW k \in 2 .. Len(g)
       PROVE  g[k].in \in 1 .. k - 1 /\ g[g[k].in].kind = "group"
  <2>1. k \in 1 .. size /\ k # 1
    BY <1>3, <1>16
  <2>2. g[k].in = place(f[at(k)].in)
    BY <1>9, <1>14, <2>1
  <2>3. g[k].in \in 1 .. k - 1 /\ f[at(k)].in \in kept /\ f[f[at(k)].in].kind = "group"
    BY <1>10, <2>1, <2>2
  <2>4. g[k].in \in 1 .. size /\ nodes[g[k].in] = f[f[at(k)].in]
    BY <1>3, <2>2, <2>3
  <2> QED
    BY <1>14, <2>3, <2>4
<1>20. IsFilter(g)
  BY <1>16, <1>18, <1>19 DEF IsFilter
<1>21. \A r \in Rules(g) : \E s \in Rules(f) :
                 r.field = s.field /\ r.op = s.op /\ r.value = s.value
  <2> SUFFICES ASSUME NEW k \in 1 .. size, g[k].kind = "rule"
               PROVE  \E s \in Rules(f) :
                         g[k].field = s.field /\ g[k].op = s.op /\ g[k].value = s.value
    BY <1>15 DEF Rules, OfKind
  <2>1. f[at(k)].kind = "rule" /\ at(k) \in DOMAIN f
    BY <1>1, <1>9, <1>14
  <2>2. f[at(k)] \in Rules(f)
    BY <2>1 DEF Rules, OfKind
  <2> QED
    BY <1>9, <1>14, <2>2
<1> QED
  BY <1>20, <1>21
-----------------------------------------------------------------------------
(* What every draft of the editor satisfies                                *)
RulesFitOrAwait(f, schema) == \A rule \in Rules(f) : Fits(rule) \/ Awaits(rule, schema)

(* Any one change in the editor keeps that.                                *)
LEMMA EditedFits ==
    ASSUME NEW schema, IsOffer(schema), NEW f, IsFilter(f), RulesFitOrAwait(f, schema),
           NEW g \in Edited(f, schema)
    PROVE  IsFilter(g) /\ RulesFitOrAwait(g, schema)
<1>1. /\ f \in Seq(Nodes) /\ Len(f) \in Nat /\ DOMAIN f = 1 .. Len(f)
      /\ \A n \in 1 .. Len(f) : f[n] \in Nodes
      /\ OfKind(f, "rule") \subseteq 1 .. Len(f) /\ OfKind(f, "group") \subseteq 1 .. Len(f)
  BY NodesOf
<1>2. ASSUME NEW group \in OfKind(f, "group"), NEW op \in {"and", "or"},
             g = [f EXCEPT ![group].op = op]
      PROVE  IsFilter(g) /\ RulesFitOrAwait(g, schema)
  <2> DEFINE old == f[group]
             new == [old EXCEPT !.op = op]
  <2>1. old \in GroupNodes /\ group \in 1 .. Len(f) /\ old.kind = "group"
    BY <1>1, NodeFacts DEF OfKind
  <2>2. new \in GroupNodes /\ new.in = old.in
    BY <2>1 DEF GroupNodes
  <2>3. new \in Nodes /\ new.kind = "group"
    BY <2>2, NodeFacts DEF Nodes
  <2>4. g = [f EXCEPT ![group] = new]
    BY <1>2
  <2> HIDE DEF new, old
  <2>5. IsFilter(g) /\ \A rule \in Rules(g) : rule \in Rules(f) \/ rule = new
    BY <2>1, <2>2, <2>3, <2>4, Replaced DEF old
  <2>6. \A rule \in Rules(g) : rule.kind = "rule"
    BY DEF Rules, OfKind
  <2> QED
    BY <2>3, <2>5, <2>6 DEF RulesFitOrAwait
<1>3. ASSUME NEW group \in OfKind(f, "group"), NEW field \in DOMAIN schema,
             g = Append(f, NewRule(schema, group, field))
      PROVE  IsFilter(g) /\ RulesFitOrAwait(g, schema)
  <2> DEFINE new == NewRule(schema, group, field)
  <2>1. group \in Nat
    BY <1>1
  <2>2. new \in RuleNodes /\ new.in = group /\ Fits(new)
    BY <2>1, NewRuleFits
  <2>3. new \in Nodes /\ g = Append(f, new)
    BY <1>3, <2>2 DEF Nodes
  <2> HIDE DEF new
  <2>4. IsFilter(g) /\ \A rule \in Rules(g) : rule \in Rules(f) \/ rule = new
    BY <2>2, <2>3, Appended
  <2> QED
    BY <2>2, <2>4 DEF RulesFitOrAwait
<1>4. ASSUME NEW group \in OfKind(f, "group"), g = Append(f, Group(group, "and"))
      PROVE  IsFilter(g) /\ RulesFitOrAwait(g, schema)
  <2> DEFINE new == Group(group, "and")
  <2>1. new \in GroupNodes /\ new.in = group
    BY <1>1, NodeFacts, RuleFields
  <2>2. new \in Nodes /\ new.kind = "group" /\ g = Append(f, new)
    BY <1>4, <2>1, NodeFacts DEF Nodes
  <2> HIDE DEF new
  <2>3. IsFilter(g) /\ \A rule \in Rules(g) : rule \in Rules(f) \/ rule = new
    BY <2>1, <2>2, Appended
  <2>4. \A rule \in Rules(g) : rule.kind = "rule"
    BY DEF Rules, OfKind
  <2> QED
    BY <2>2, <2>3, <2>4 DEF RulesFitOrAwait
<1>5. ASSUME NEW n \in OfKind(f, "rule"), NEW new \in EditedRule(f[n], schema),
             g = [f EXCEPT ![n] = new]
      PROVE  IsFilter(g) /\ RulesFitOrAwait(g, schema)
  <2>1. n \in 1 .. Len(f) /\ f[n].kind = "rule" /\ f[n] \in RuleNodes
    BY <1>1, NodeFacts DEF OfKind
  <2>2. new \in RuleNodes /\ new.in = f[n].in /\ (Fits(new) \/ Awaits(new, schema))
    BY <2>1, EditedRuleFits
  <2>3. new \in Nodes /\ new.kind = f[n].kind
    BY <2>1, <2>2, NodeFacts DEF Nodes
  <2>4. IsFilter(g) /\ \A rule \in Rules(g) : rule \in Rules(f) \/ rule = new
    BY <1>5, <2>1, <2>2, <2>3, Replaced
  <2> QED
    BY <2>2, <2>4 DEF RulesFitOrAwait
<1>6. ASSUME NEW n \in DOMAIN f \ {1}, g \in Removed(f, n)
      PROVE  IsFilter(g) /\ RulesFitOrAwait(g, schema)
  <2>1. /\ IsFilter(g)
        /\ \A r \in Rules(g) : \E s \in Rules(f) :
              r.field = s.field /\ r.op = s.op /\ r.value = s.value
    BY <1>6, RemovedFacts
  <2> QED
    BY <2>1, SameRule DEF RulesFitOrAwait
<1>7. \/ \E group \in OfKind(f, "group") :
            \/ \E op \in {"and", "or"} : g = [f EXCEPT ![group].op = op]
            \/ \E field \in DOMAIN schema : g = Append(f, NewRule(schema, group, field))
            \/ g = Append(f, Group(group, "and"))
      \/ \E n \in OfKind(f, "rule") : \E new \in EditedRule(f[n], schema) : g = [f EXCEPT ![n] = new]
      \/ \E n \in DOMAIN f \ {1} : g \in Removed(f, n)
  <2> DEFINE atGroup(group) == {[f EXCEPT ![group].op = op] : op \in {"and", "or"}}
                \cup {Append(f, NewRule(schema, group, field)) : field \in DOMAIN schema}
                \cup {Append(f, Group(group, "and"))}
             atRule(n) == {[f EXCEPT ![n] = rule] : rule \in EditedRule(f[n], schema)}
             changes == {atGroup(group) : group \in OfKind(f, "group")}
                        \cup {atRule(n) : n \in OfKind(f, "rule")}
                        \cup {Removed(f, n) : n \in DOMAIN f \ {1}}
  <2>1. Edited(f, schema) = UNION changes
    BY DEF Edited
  <2>2. ASSUME NEW group, g \in atGroup(group)
        PROVE  \/ \E op \in {"and", "or"} : g = [f EXCEPT ![group].op = op]
               \/ \E field \in DOMAIN schema : g = Append(f, NewRule(schema, group, field))
               \/ g = Append(f, Group(group, "and"))
    BY <2>2
  <2>3. ASSUME NEW n, g \in atRule(n)
        PROVE  \E new \in EditedRule(f[n], schema) : g = [f EXCEPT ![n] = new]
    BY <2>3
  <2> HIDE DEF atGroup, atRule
  <2>4. \/ \E group \in OfKind(f, "group") : g \in atGroup(group)
        \/ \E n \in OfKind(f, "rule") : g \in atRule(n)
        \/ \E n \in DOMAIN f \ {1} : g \in Removed(f, n)
    <3> HIDE DEF changes
    <3>1. PICK change \in changes : g \in change
      BY <2>1
    <3> QED
      BY <3>1 DEF changes
  <2>5. CASE \E group \in OfKind(f, "group") : g \in atGroup(group)
    BY <2>2, <2>5, Zenon
  <2>6. CASE \E n \in OfKind(f, "rule") : g \in atRule(n)
    BY <2>3, <2>6, Zenon
  <2> QED
    BY <2>4, <2>5, <2>6, Zenon
<1>8. CASE \E group \in OfKind(f, "group") :
            \/ \E op \in {"and", "or"} : g = [f EXCEPT ![group].op = op]
            \/ \E field \in DOMAIN schema : g = Append(f, NewRule(schema, group, field))
            \/ g = Append(f, Group(group, "and"))
  <2>1. PICK group \in OfKind(f, "group") :
            \/ \E op \in {"and", "or"} : g = [f EXCEPT ![group].op = op]
            \/ \E field \in DOMAIN schema : g = Append(f, NewRule(schema, group, field))
            \/ g = Append(f, Group(group, "and"))
    BY <1>8
  <2>2. CASE \E op \in {"and", "or"} : g = [f EXCEPT ![group].op = op]
    BY <1>2, <2>2, Zenon
  <2>3. CASE \E field \in DOMAIN schema : g = Append(f, NewRule(schema, group, field))
    BY <1>3, <2>3
  <2> QED
    BY <1>4, <2>1, <2>2, <2>3
<1>9. CASE \E n \in OfKind(f, "rule") : \E new \in EditedRule(f[n], schema) : g = [f EXCEPT ![n] = new]
  BY <1>5, <1>9
<1> QED
  BY <1>6, <1>7, <1>8, <1>9

(* A normalized filter has the operators of the schema, and every rule     *)
(* fits.                                                                   *)
LEMMA NormalizedFits ==
    ASSUME NEW schema, IsOffer(schema), NEW f, IsFilter(f), RulesFitOrAwait(f, schema),
           NEW g, g = NormalizeFilterGroup(f, schema)
    PROVE  /\ IsFilter(g)
           /\ \A rule \in Rules(g) : Fits(rule) /\ ~Awaits(rule, schema)
<1>1. /\ f \in Seq(Nodes) /\ Len(f) \in Nat /\ Len(f) >= 1 /\ DOMAIN f = 1 .. Len(f)
      /\ \A n \in 1 .. Len(f) : f[n] \in Nodes
  BY NodesOf
<1>2. /\ DOMAIN g = 1 .. Len(f)
      /\ \A n \in 1 .. Len(f) :
            g[n] = IF f[n].kind = "rule" /\ Awaits(f[n], schema)
                   THEN NewRule(schema, f[n].in, f[n].field) ELSE f[n]
  BY <1>1 DEF NormalizeFilterGroup, Awaits
<1>3. ASSUME NEW n \in 1 .. Len(f)
      PROVE  /\ g[n] \in Nodes /\ g[n].kind = f[n].kind /\ g[n].in = f[n].in
             /\ g[n].kind = "rule" => Fits(g[n]) /\ ~Awaits(g[n], schema)
  <2>1. CASE f[n].kind = "rule" /\ Awaits(f[n], schema)
    <3> DEFINE new == NewRule(schema, f[n].in, f[n].field)
    <3>1. f[n].in \in Nat /\ f[n].field \in DOMAIN schema
      BY <1>1, <2>1, NodeFacts DEF Awaits
    <3>2. new \in RuleNodes /\ new.in = f[n].in /\ Fits(new)
      BY <3>1, NewRuleFits
    <3>3. new.field = f[n].field /\ new.op = schema[f[n].field].operators[1]
      BY RuleFields DEF NewRule
    <3>4. ~Awaits(new, schema)
      BY <3>1, <3>3 DEF Awaits, IsOffer
    <3>5. g[n] = new
      BY <1>2, <2>1
    <3> QED
      BY <2>1, <3>2, <3>4, <3>5, NodeFacts DEF Nodes
  <2>2. CASE ~(f[n].kind = "rule" /\ Awaits(f[n], schema))
    <3>1. g[n] = f[n]
      BY <1>2, <2>2
    <3>2. f[n].kind = "rule" => f[n] \in Rules(f)
      BY <1>1 DEF Rules, OfKind
    <3> QED
      BY <1>1, <2>2, <3>1, <3>2 DEF RulesFitOrAwait
  <2> QED
    BY <2>1, <2>2
<1>4. g \in Seq(Nodes) /\ Len(g) = Len(f)
  <2>1. g = [n \in 1 .. Len(f) |-> g[n]]
    BY <1>1 DEF NormalizeFilterGroup
  <2>2. g \in [1 .. Len(f) -> Nodes]
    BY <1>3, <2>1
  <2> QED
    BY <1>1, <2>2, FunctionIsSeq
<1>5. g # <<>> /\ g[1].kind = "group" /\ g[1].in = 0
  BY <1>1, <1>3, <1>4 DEF IsFilter
<1>6. ASSUME NEW n \in 2 .. Len(g)
      PROVE  g[n].in \in 1 .. n - 1 /\ g[g[n].in].kind = "group"
  <2>1. f[n].in \in 1 .. n - 1 /\ f[f[n].in].kind = "group" /\ n \in 1 .. Len(f)
    BY <1>1, <1>4 DEF IsFilter
  <2>2. f[n].in \in 1 .. Len(f)
    BY <1>1, <2>1
  <2> QED
    BY <1>3, <2>1, <2>2
<1>7. IsFilter(g)
  BY <1>4, <1>5, <1>6 DEF IsFilter
<1> QED
  BY <1>2, <1>3, <1>7 DEF Rules, OfKind

(* The filter without operands, with which the page begins                 *)
LEMMA MatchAllIsFilter == IsFilter(MatchAll) /\ Rules(MatchAll) = {}
<1> DEFINE root == Group(0, "and")
<1>1. root \in Nodes /\ root.kind = "group" /\ root.in = 0
  BY NodeFacts, RuleFields DEF Nodes
<1>2. MatchAll = <<root>>
  BY DEF MatchAll
<1> HIDE DEF root
<1>3. /\ MatchAll \in Seq(Nodes) /\ Len(MatchAll) = 1 /\ MatchAll # <<>> /\ MatchAll[1] = root
      /\ DOMAIN MatchAll = {1}
  BY <1>1, <1>2
<1>4. 2 .. Len(MatchAll) = {}
  BY <1>3
<1>5. IsFilter(MatchAll)
  BY <1>1, <1>3, <1>4 DEF IsFilter
<1>6. Rules(MatchAll) = {}
  BY <1>1, <1>3 DEF Rules, OfKind
<1> QED
  BY <1>5, <1>6
-----------------------------------------------------------------------------
(* What the codec makes of a value has the kind for its operator, and of   *)
(* the type it is given.                                                   *)
LEMMA ValueToProtoIs ==
    ASSUME NEW op, NEW type, NEW v
    PROVE  LET all(items) == [i \in DOMAIN items |-> ScalarToProto(type, items[i])]
           IN  ValueToProto(op, type, v) =
                 IF op \in Presence THEN [kind |-> "none"]
                 ELSE IF op = "between" THEN [kind |-> "between", items |-> all(Items(v))]
                 ELSE IF op \in Repeated THEN [kind |-> "repeated", items |-> all(Filled(v))]
                 ELSE ScalarToProto(type, v)
BY Arms DEF ValueToProto

(* A scalar has the kind that the schema expects of its type.              *)
LEMMA ScalarAllowed ==
    ASSUME NEW type \in Types, NEW v
    PROVE  KindAllowed(type, ScalarToProto(type, v)) /\ ScalarToProto(type, v).kind \in Types
<1>1. ScalarToProto(type, v).kind = IF type = "text" THEN "keyword" ELSE type
  BY DEF ScalarToProto, Scalar
<1> QED
  BY <1>1 DEF KindAllowed, Types

(* A value that the codec sends is allowed, and is what the query of its   *)
(* operator is built from.                                                 *)
LEMMA ProtoFits ==
    ASSUME NEW op \in Operators, NEW type \in Types, NEW v, NEW leaf,
           leaf.op = op, leaf.value = ValueToProto(op, type, v)
    PROVE  ValueAllowed(op, type, leaf.value) /\ KindFits(leaf)
<1> DEFINE all(items) == [i \in DOMAIN items |-> ScalarToProto(type, items[i])]
<1>1. leaf.value = IF op \in Presence THEN [kind |-> "none"]
                   ELSE IF op = "between" THEN [kind |-> "between", items |-> all(Items(v))]
                   ELSE IF op \in Repeated THEN [kind |-> "repeated", items |-> all(Filled(v))]
                   ELSE ScalarToProto(type, v)
  BY ValueToProtoIs
<1>2. ASSUME NEW items
      PROVE  \A i \in DOMAIN all(items) : KindAllowed(type, all(items)[i])
  BY ScalarAllowed
<1> HIDE DEF all
<1>3. "none" \notin Types /\ "between" \notin Types /\ "repeated" \notin Types
  BY DEF Types
<1>4. CASE op \in Presence
  <2>1. leaf.value.kind = "none"
    BY <1>1, <1>4
  <2>2. KindFits(leaf)
    BY <1>4, <2>1, Arms DEF KindFits
  <2>3. ValueAllowed(op, type, leaf.value)
    BY <1>3, <1>4, <2>1 DEF ValueAllowed
  <2> QED
    BY <2>2, <2>3
<1>5. CASE op = "between"
  <2>1. leaf.value.kind = "between" /\ leaf.value.items = all(Items(v))
    BY <1>1, <1>5, Arms
  <2>2. KindFits(leaf)
    BY <1>5, <2>1, Arms DEF KindFits
  <2>3. ValueAllowed(op, type, leaf.value)
    BY <1>2, <1>3, <2>1 DEF ValueAllowed
  <2> QED
    BY <2>2, <2>3
<1>6. CASE op \in Repeated
  <2>1. leaf.value.kind = "repeated" /\ leaf.value.items = all(Filled(v))
    BY <1>1, <1>6, Arms
  <2>2. KindFits(leaf)
    BY <1>6, <2>1, Arms DEF KindFits
  <2>3. ValueAllowed(op, type, leaf.value)
    BY <1>2, <1>3, <1>6, <2>1 DEF ValueAllowed
  <2> QED
    BY <2>2, <2>3
<1>7. CASE op \notin Presence \cup Repeated \cup {"between"}
  <2>1. leaf.value = ScalarToProto(type, v)
    BY <1>1, <1>7
  <2>2. leaf.value.kind \in Types /\ KindAllowed(type, leaf.value)
    BY <2>1, ScalarAllowed
  <2>3. KindFits(leaf)
    BY <1>7, <2>2, Arms DEF KindFits
  <2>4. ValueAllowed(op, type, leaf.value)
    BY <1>3, <2>2 DEF ValueAllowed
  <2> QED
    BY <2>3, <2>4
<1> QED
  BY <1>4, <1>5, <1>6, <1>7

(* The request made of a normalized filter is a tree, whose leaves the     *)
(* schema that the page has fetched allows.                                *)
LEMMA RequestFacts ==
    ASSUME NEW n \in DOMAIN Schemas, NEW schema, schema = SearchFields(Schemas[n]),
           NEW f, IsFilter(f), \A rule \in Rules(f) : ~Awaits(rule, schema),
           Converts(f, schema), NEW g, g = FilterToProto(f, schema)
    PROVE  /\ IsTree(g)
           /\ \A leaf \in Rules(g) : LeafAllowed(leaf, Schemas[n]) /\ KindFits(leaf)
<1>1. /\ DOMAIN f = 1 .. Len(f) /\ Len(f) \in Nat /\ Len(f) >= 1
      /\ \A k \in 1 .. Len(f) : f[k] \in Nodes
  BY NodesOf
<1>2. DOMAIN g = DOMAIN f
  BY DEF FilterToProto
<1>3. \A k \in DOMAIN f :
         g[k] = IF f[k].kind = "group" THEN f[k]
                ELSE Rule(f[k].in, f[k].field, f[k].op,
                          ValueToProto(f[k].op, schema[f[k].field].type, f[k].value))
  BY DEF FilterToProto
<1>4. \A k \in DOMAIN f : /\ g[k].kind = f[k].kind /\ g[k].in = f[k].in /\ g[k].op = f[k].op
                          /\ g[k].kind = "rule" => g[k].field = f[k].field
  <2> SUFFICES ASSUME NEW k \in DOMAIN f
               PROVE  /\ g[k].kind = f[k].kind /\ g[k].in = f[k].in /\ g[k].op = f[k].op
                      /\ g[k].kind = "rule" => g[k].field = f[k].field
    OBVIOUS
  <2>1. f[k].kind \in {"rule", "group"}
    BY <1>1, NodeFacts
  <2>2. CASE f[k].kind = "group"
    BY <1>3, <2>2
  <2>3. CASE f[k].kind = "rule"
    BY <1>3, <2>3, RuleFields
  <2> QED
    BY <2>1, <2>2, <2>3
<1>5. IsTree(f)
  BY FilterIsTree
<1>6. IsTree(g)
  <2>1. \E k \in Nat \ {0} : DOMAIN g = 1 .. k
    BY <1>2, <1>5 DEF IsTree
  <2>2. \A k \in DOMAIN g : \/ g[k].kind = "rule" /\ g[k].field \in Fields /\ g[k].op \in Operators
                            \/ g[k].kind = "group" /\ g[k].op \in {"and", "or"}
    BY <1>2, <1>4, <1>5 DEF IsTree
  <2>3. g[1].kind = "group" /\ g[1].in = 0
    BY <1>1, <1>4, <1>5 DEF IsTree
  <2>4. \A k \in DOMAIN g \ {1} : g[k].in \in 1 .. k - 1 /\ g[g[k].in].kind = "group"
    <3> SUFFICES ASSUME NEW k \in DOMAIN f \ {1}
                 PROVE  g[k].in \in 1 .. k - 1 /\ g[g[k].in].kind = "group"
      BY <1>2
    <3>1. f[k].in \in 1 .. k - 1 /\ f[f[k].in].kind = "group"
      BY <1>5 DEF IsTree
    <3>2. f[k].in \in DOMAIN f
      BY <1>1, <3>1
    <3> QED
      BY <1>4, <3>1, <3>2
  <2> QED
    BY <2>1, <2>2, <2>3, <2>4 DEF IsTree
<1>7. ASSUME NEW k \in DOMAIN g, g[k].kind = "rule"
      PROVE  LeafAllowed(g[k], Schemas[n]) /\ KindFits(g[k])
  <2> DEFINE rule == f[k]
             type == schema[f[k].field].type
  <2>1. k \in DOMAIN f /\ rule.kind = "rule" /\ rule \in RuleNodes
    BY <1>1, <1>2, <1>4, <1>7, NodeFacts
  <2>2. rule \in Rules(f)
    BY <2>1 DEF Rules, OfKind
  <2>3. rule.field \in DOMAIN schema
    BY <2>2 DEF Converts
  <2>4. rule.op \in Range(schema[rule.field].operators)
    BY <2>2, <2>3 DEF Awaits
  <2>5. /\ IsOffer(schema) /\ rule.field \in DOMAIN Schemas[n]
        /\ type = Schemas[n][rule.field].type
        /\ Range(schema[rule.field].operators) \subseteq Range(Schemas[n][rule.field].operators)
    BY <2>3, OfferFacts
  <2>6. type \in Types /\ rule.op \in Operators
    BY <2>1, <2>3, <2>5, NodeFacts DEF IsOffer
  <2>7. g[k] = Rule(rule.in, rule.field, rule.op, ValueToProto(rule.op, type, rule.value))
    BY <1>3, <2>1
  <2> HIDE DEF rule, type
  <2> DEFINE leaf == g[k]
  <2>8. /\ leaf.op = rule.op /\ leaf.field = rule.field
        /\ leaf.value = ValueToProto(rule.op, type, rule.value)
    BY <2>7, RuleFields
  <2> HIDE DEF leaf
  <2>9. ValueAllowed(rule.op, type, leaf.value) /\ KindFits(leaf)
    BY <2>6, <2>8, ProtoFits
  <2>10. LeafAllowed(leaf, Schemas[n])
    BY <2>4, <2>5, <2>8, <2>9 DEF LeafAllowed
  <2> QED
    BY <2>9, <2>10 DEF leaf
<1> QED
  BY <1>6, <1>7 DEF Rules, OfKind
-----------------------------------------------------------------------------
(* The schema the page has fetched is an offer the editor can rely on.     *)
LEMMA OfferedIsOffer ==
    ASSUME known \in DOMAIN Schemas
    PROVE  IsOffer(Offered)
BY OfferFacts DEF Offered

(* The invariant holds to begin with, and each action keeps it.            *)
LEMMA InitIInv == ASSUME Init PROVE IInv
<1>1. IsFilter(MatchAll) /\ Rules(MatchAll) = {}
  BY MatchAllIsFilter
<1>2. Typed
  BY <1>1, FilterAssumption DEF Init, Typed
<1>3. RulesFit
  BY <1>1 DEF Init, RulesFit
<1>4. LeavesFit /\ Answered
  BY DEF Init, LeavesFit, Answered
<1> QED
  BY <1>2, <1>3, <1>4 DEF IInv

(* While it is not a draft every rule fits; and any rule fits or awaits.   *)
LEMMA RulesOf ==
    ASSUME IInv
    PROVE  /\ IsFilter(filter) /\ known \in DOMAIN Schemas /\ server \in DOMAIN Schemas
           /\ RulesFitOrAwait(filter, Offered)
           /\ phase # "draft" => \A rule \in Rules(filter) : Fits(rule)
BY DEF IInv, Typed, RulesFit, RulesFitOrAwait

(* Edit: one change in the editor                                          *)
LEMMA EditIInv == ASSUME IInv, Edit PROVE IInv'
<1>1. /\ IsFilter(filter) /\ known \in DOMAIN Schemas /\ server \in DOMAIN Schemas
      /\ RulesFitOrAwait(filter, Offered)
  BY RulesOf
<1>2. filter' \in Edited(filter, Offered)
  BY DEF Edit
<1>3. IsFilter(filter') /\ RulesFitOrAwait(filter', Offered)
  BY <1>1, <1>2, OfferedIsOffer, EditedFits
<1>4. phase = "draft" /\ phase' = "draft" /\ known' = known /\ server' = server /\ Offered' = Offered
  BY DEF Edit, Offered
<1>5. Typed'
  BY <1>1, <1>3, <1>4 DEF Typed
<1>6. RulesFit'
  BY <1>3, <1>4 DEF RulesFit, RulesFitOrAwait
<1>7. LeavesFit' /\ Answered'
  BY <1>4 DEF LeavesFit, Answered
<1> QED
  BY <1>5, <1>6, <1>7 DEF IInv

(* Search: the normalized filter, or none, goes through the URL.           *)
LEMMA SearchIInv == ASSUME IInv, Search PROVE IInv'
<1> DEFINE normal == NormalizeFilterGroup(filter, Offered)
<1>1. /\ IsFilter(filter) /\ known \in DOMAIN Schemas /\ server \in DOMAIN Schemas
      /\ RulesFitOrAwait(filter, Offered)
  BY RulesOf
<1>2. IsFilter(normal) /\ \A rule \in Rules(normal) : Fits(rule)
  BY <1>1, OfferedIsOffer, NormalizedFits
<1>3. filter' = normal \/ filter' = MatchAll
  BY DEF Search, ThroughURL
<1> HIDE DEF normal
<1>4. IsFilter(filter') /\ \A rule \in Rules(filter') : Fits(rule)
  BY <1>2, <1>3, MatchAllIsFilter
<1>5. phase' = "applied" /\ known' = known /\ server' = server
  BY DEF Search
<1>6. Typed' /\ RulesFit'
  BY <1>1, <1>4, <1>5 DEF Typed, RulesFit
<1>7. LeavesFit' /\ Answered'
  BY <1>5 DEF LeavesFit, Answered
<1> QED
  BY <1>6, <1>7 DEF IInv

(* Clear: no rules are left.                                               *)
LEMMA ClearIInv == ASSUME IInv, Clear PROVE IInv'
<1>1. known \in DOMAIN Schemas /\ server \in DOMAIN Schemas
  BY RulesOf
<1>2. phase' = "applied" /\ filter' = MatchAll /\ known' = known /\ server' = server
  BY DEF Clear
<1>3. Typed' /\ RulesFit'
  BY <1>1, <1>2, MatchAllIsFilter DEF Typed, RulesFit
<1>4. LeavesFit' /\ Answered'
  BY <1>2 DEF LeavesFit, Answered
<1> QED
  BY <1>3, <1>4 DEF IInv

(* OpenLink: another schema may be known, but what fits does not depend    *)
(* on it.                                                                  *)
LEMMA OpenLinkIInv == ASSUME IInv, OpenLink PROVE IInv'
<1>1. /\ IsFilter(filter) /\ server \in DOMAIN Schemas
      /\ phase # "draft" => \A rule \in Rules(filter) : Fits(rule)
  BY RulesOf
<1>2. phase # "draft" /\ phase' = "applied" /\ filter' = filter /\ known' = server /\ server' = server
  BY DEF OpenLink
<1>3. Typed' /\ RulesFit'
  BY <1>1, <1>2 DEF Typed, RulesFit
<1>4. LeavesFit' /\ Answered'
  BY <1>2 DEF LeavesFit, Answered
<1> QED
  BY <1>3, <1>4 DEF IInv

(* EditAgain: what fitted may stay.                                        *)
LEMMA EditAgainIInv == ASSUME IInv, EditAgain PROVE IInv'
<1>1. /\ IsFilter(filter) /\ known \in DOMAIN Schemas /\ server \in DOMAIN Schemas
      /\ phase # "draft" => \A rule \in Rules(filter) : Fits(rule)
  BY RulesOf
<1>2. phase # "draft" /\ phase' = "draft" /\ filter' = filter /\ known' = known /\ server' = server
  BY DEF EditAgain
<1>3. Typed' /\ RulesFit'
  BY <1>1, <1>2 DEF Typed, RulesFit
<1>4. LeavesFit' /\ Answered'
  BY <1>2 DEF LeavesFit, Answered
<1> QED
  BY <1>3, <1>4 DEF IInv

(* Send: what is sent follows the schema that the page knows.              *)
LEMMA SendIInv == ASSUME IInv, Send PROVE IInv'
<1> DEFINE applied == NormalizeFilterGroup(filter, Offered)
<1>1. /\ IsFilter(filter) /\ known \in DOMAIN Schemas /\ server \in DOMAIN Schemas
      /\ RulesFitOrAwait(filter, Offered)
      /\ phase # "draft" => \A rule \in Rules(filter) : Fits(rule)
  BY RulesOf
<1>2. IsFilter(applied) /\ \A rule \in Rules(applied) : ~Awaits(rule, Offered)
  BY <1>1, OfferedIsOffer, NormalizedFits
<1>3. /\ phase = "applied" /\ phase' = "sent" /\ Converts(applied, Offered)
      /\ request' = FilterToProto(applied, Offered)
      /\ filter' = filter /\ known' = known /\ server' = server
  BY DEF Send
<1> HIDE DEF applied
<1>4. /\ IsTree(request')
      /\ \A leaf \in Rules(request') : LeafAllowed(leaf, Schemas[known]) /\ KindFits(leaf)
  BY <1>1, <1>2, <1>3, RequestFacts DEF Offered
<1>5. Typed' /\ RulesFit'
  BY <1>1, <1>3, <1>4 DEF Typed, RulesFit
<1>6. LeavesFit' /\ Answered'
  BY <1>3, <1>4 DEF LeavesFit, Answered
<1> QED
  BY <1>5, <1>6 DEF IInv

(* Answer: the request is the one that was sent.                           *)
LEMMA AnswerIInv == ASSUME IInv, Answer PROVE IInv'
<1>1. /\ phase = "sent" /\ phase' = IF Allowed THEN "answered" ELSE "refused"
      /\ found' = IF Allowed THEN Finds(BuildFilter(request)[1]) ELSE {}
      /\ filter' = filter /\ known' = known /\ server' = server /\ request' = request
  BY DEF Answer
<1>2. phase' \in {"answered", "refused"}
  BY <1>1
<1>3. /\ IsFilter(filter) /\ known \in DOMAIN Schemas /\ server \in DOMAIN Schemas
      /\ phase # "draft" => \A rule \in Rules(filter) : Fits(rule)
  BY RulesOf
<1>4. IsTree(request)
  BY <1>1 DEF IInv, Typed
<1>5. Typed' /\ RulesFit'
  BY <1>1, <1>2, <1>3, <1>4 DEF Typed, RulesFit
<1>6. LeavesFit'
  BY <1>1 DEF IInv, LeavesFit
<1>7. Answered'
  BY <1>1 DEF Answered
<1> QED
  BY <1>5, <1>6, <1>7 DEF IInv

(* Deploy: only what runs changes, not what the page knows.                *)
LEMMA DeployIInv == ASSUME IInv, Deploy PROVE IInv'
<1>1. /\ phase' = phase /\ filter' = filter /\ known' = known /\ request' = request /\ found' = found
      /\ server' \in DOMAIN Schemas
  BY DEF Deploy
<1>2. Typed'
  BY <1>1 DEF IInv, Typed
<1>3. RulesFit' /\ LeavesFit' /\ Answered'
  BY <1>1 DEF IInv, RulesFit, LeavesFit, Answered, Offered
<1> QED
  BY <1>2, <1>3 DEF IInv

(* A step keeps the invariant.                                             *)
LEMMA NextIInv == ASSUME IInv, [Next]_vars PROVE IInv'
<1>1. CASE UNCHANGED vars
  BY <1>1 DEF vars, IInv, Typed, RulesFit, LeavesFit, Answered, Offered
<1> QED
  BY <1>1, EditIInv, SearchIInv, ClearIInv, OpenLinkIInv, EditAgainIInv, SendIInv,
     AnswerIInv, DeployIInv DEF Next

(* Whatever the release, the fields and the bounds, the invariant holds.   *)
THEOREM Invariance == Spec => []IInv
<1>1. Init => IInv
  BY InitIInv
<1>2. IInv /\ [Next]_vars => IInv'
  BY NextIInv
<1> QED
  BY <1>1, <1>2, PTL DEF Spec

(* RequestsFit: a page that knows the running schema is never refused,     *)
(* what is answered has values of the kind their operators need, and the   *)
(* editor leaves none that its operator cannot take (filter-               *)
(* builder.model.ts:109).                                                  *)
THEOREM RequestsAlwaysFit == Spec => []RequestsFit
<1>1. IInv => RequestsFit
  <2> SUFFICES ASSUME IInv
               PROVE  RequestsFit
    OBVIOUS
  <2>1. phase = "sent" /\ known = server => Allowed
    BY DEF IInv, LeavesFit, Allowed
  <2>2. phase = "answered" => \A leaf \in Rules(request) : KindFits(leaf)
    BY DEF IInv, LeavesFit
  <2>3. \A rule \in Rules(filter) :
          rule.field \in DOMAIN Offered /\ rule.op \in Range(Offered[rule.field].operators)
          => Fits(rule)
    BY DEF IInv, RulesFit, Awaits
  <2> QED
    BY <2>1, <2>2, <2>3 DEF RequestsFit
<1> QED
  BY <1>1, Invariance, PTL
-----------------------------------------------------------------------------
(* The operands of a group come after it.                                  *)
LEMMA OperandsAfter ==
    ASSUME NEW f, IsTree(f), NEW n \in DOMAIN f, NEW c \in Operands(f, n)
    PROVE  c \in DOMAIN f /\ n < c /\ n \in Nat /\ c \in Nat
BY DEF IsTree, Operands

(* A function of the nodes of a tree may be given by what it is at a node  *)
(* when it is known at the nodes after it.                                 *)
LooksAhead(G, k, V) ==
    /\ G \in [(1 .. k) \X [1 .. k -> V] -> V]
    /\ \A n \in 1 .. k : \A g, h \in [1 .. k -> V] :
          (\A c \in 1 .. k : n < c => g[c] = h[c]) => G[<<n, g>>] = G[<<n, h>>]

(* Such a definition has a function that satisfies it, made from the last  *)
(* place down.                                                             *)
LEMMA TreeRecursion ==
    ASSUME NEW k \in Nat, NEW V, NEW v \in V, NEW G, LooksAhead(G, k, V)
    PROVE  \E F \in [1 .. k -> V] : \A n \in 1 .. k : F[n] = G[<<n, F>>]
<1>0. /\ G \in [(1 .. k) \X [1 .. k -> V] -> V]
      /\ \A n \in 1 .. k : \A g, h \in [1 .. k -> V] :
            (\A c \in 1 .. k : n < c => g[c] = h[c]) => G[<<n, g>>] = G[<<n, h>>]
  BY DEF LooksAhead
<1> DEFINE S == {m \in Nat : \E F \in [1 .. k -> V] :
                    \A n \in 1 .. k : k < n + m => F[n] = G[<<n, F>>]}
<1>1. 0 \in S
  <2>2. [n \in 1 .. k |-> v] \in [1 .. k -> V]
    OBVIOUS
  <2>3. \A n \in 1 .. k : ~(k < n + 0)
    OBVIOUS
  <2> QED
    BY <2>2, <2>3
<1>2. \A m \in Nat : m \in S => m + 1 \in S
  <2> SUFFICES ASSUME NEW m \in Nat, m \in S
               PROVE  m + 1 \in S
    OBVIOUS
  <2>1. PICK F \in [1 .. k -> V] : \A n \in 1 .. k : k < n + m => F[n] = G[<<n, F>>]
    OBVIOUS
  <2>2. CASE m >= k
    <3>1. \A n \in 1 .. k : k < n + m
      BY <2>2
    <3>2. \A n \in 1 .. k : F[n] = G[<<n, F>>]
      BY <2>1, <3>1
    <3> QED
      BY <3>2
  <2>3. CASE m < k
    <3> DEFINE j == k - m
               H == [F EXCEPT ![j] = G[<<j, F>>]]
    <3>1. j \in 1 .. k
      BY <2>3
    <3>2. G[<<j, F>>] \in V
      BY <1>0, <3>1
    <3>3. H \in [1 .. k -> V] /\ H[j] = G[<<j, F>>] /\ \A c \in 1 .. k : c # j => H[c] = F[c]
      BY <3>1, <3>2
    <3>4. \A n \in 1 .. k : k < n + (m + 1) => n = j \/ k < n + m
      OBVIOUS
    <3>5. \A n \in 1 .. k : n = j \/ k < n + m => \A c \in 1 .. k : n < c => c # j
      OBVIOUS
    <3> HIDE DEF H, j
    <3>6. \A n \in 1 .. k : n = j \/ k < n + m => G[<<n, H>>] = G[<<n, F>>]
      <4> SUFFICES ASSUME NEW n \in 1 .. k, n = j \/ k < n + m
                   PROVE  G[<<n, H>>] = G[<<n, F>>]
        OBVIOUS
      <4>1. \A c \in 1 .. k : n < c => H[c] = F[c]
        BY <3>3, <3>5
      <4> QED
        BY <1>0, <3>3, <4>1
    <3>7. \A n \in 1 .. k : k < n + (m + 1) => H[n] = G[<<n, H>>]
      <4> SUFFICES ASSUME NEW n \in 1 .. k, k < n + (m + 1)
                   PROVE  H[n] = G[<<n, H>>]
        OBVIOUS
      <4>1. n = j \/ k < n + m
        BY <3>4
      <4>2. CASE n = j
        BY <3>3, <3>6, <4>2
      <4>3. CASE n # j
        BY <2>1, <3>3, <3>6, <4>1, <4>3
      <4> QED
        BY <4>2, <4>3
    <3> QED
      BY <3>3, <3>7
  <2>4. m >= k \/ m < k
    OBVIOUS
  <2> HIDE DEF S
  <2> QED
    BY <2>2, <2>3, <2>4
<1>3. k \in S
  <2> HIDE DEF S
  <2>1. \A n \in Nat : n \in S
    BY <1>1, <1>2, InductionOnSet
  <2> QED
    BY <2>1
<1>4. \A n \in 1 .. k : k < n + k
  OBVIOUS
<1>5. PICK F \in [1 .. k -> V] : \A n \in 1 .. k : k < n + k => F[n] = G[<<n, F>>]
  BY <1>3
<1>6. \A n \in 1 .. k : F[n] = G[<<n, F>>]
  BY <1>4, <1>5
<1> QED
  BY <1>6

(* The value of a group depends on those of its operands only.             *)
OfOperands(T, f, V) ==
    /\ T \in [[DOMAIN f -> V] -> [DOMAIN f -> V]]
    /\ \A n \in DOMAIN f : \A g, h \in [DOMAIN f -> V] :
          (\A c \in Operands(f, n) : g[c] = h[c]) => T[g][n] = T[h][n]

(* So a function of the nodes of a tree may be given by that of the        *)
(* operands.                                                               *)
LEMMA TreeFunction ==
    ASSUME NEW f, IsTree(f), NEW V, NEW v \in V, NEW T, OfOperands(T, f, V)
    PROVE  \E F \in [DOMAIN f -> V] : F = T[F]
<1>1. PICK k \in Nat : DOMAIN f = 1 .. k
  BY DEF IsTree
<1> DEFINE G == [x \in (1 .. k) \X [1 .. k -> V] |-> T[x[2]][x[1]]]
<1>2. T \in [[1 .. k -> V] -> [1 .. k -> V]]
  BY <1>1 DEF OfOperands
<1>3. LooksAhead(G, k, V)
  <2>1. G \in [(1 .. k) \X [1 .. k -> V] -> V]
    BY <1>2
  <2>2. \A n \in 1 .. k : \A g, h \in [1 .. k -> V] :
           (\A c \in 1 .. k : n < c => g[c] = h[c]) => T[g][n] = T[h][n]
    <3> SUFFICES ASSUME NEW n \in 1 .. k, NEW g \in [1 .. k -> V], NEW h \in [1 .. k -> V],
                        \A c \in 1 .. k : n < c => g[c] = h[c]
                 PROVE  T[g][n] = T[h][n]
      OBVIOUS
    <3>1. \A c \in Operands(f, n) : g[c] = h[c]
      BY <1>1, OperandsAfter
    <3> QED
      BY <1>1, <3>1 DEF OfOperands
  <2> QED
    BY <2>1, <2>2 DEF LooksAhead
<1>4. PICK F \in [1 .. k -> V] : \A n \in 1 .. k : F[n] = G[<<n, F>>]
  <2> HIDE DEF G
  <2> QED
    BY <1>3, TreeRecursion
<1>5. \A n \in 1 .. k : F[n] = T[F][n]
  BY <1>4
<1>6. T[F] \in [1 .. k -> V]
  BY <1>2
<1>7. F = T[F]
  BY <1>5, <1>6
<1> QED
  BY <1>1, <1>7

(* What holds of a node if it holds of its operands holds of every node.   *)
LEMMA TreeInduction ==
    ASSUME NEW f, IsTree(f), NEW S,
           \A n \in DOMAIN f : (\A c \in Operands(f, n) : c \in S) => n \in S
    PROVE  \A n \in DOMAIN f : n \in S
<1>1. PICK k \in Nat \ {0} : DOMAIN f = 1 .. k
  BY DEF IsTree
<1> DEFINE T == {m \in 0 .. k : k - m \in DOMAIN f \ S}
<1> SUFFICES ASSUME NEW n \in DOMAIN f, n \notin S
             PROVE  FALSE
  OBVIOUS
<1>2. k - n \in T
  BY <1>1
<1>3. T \in SUBSET Nat /\ T # {}
  BY <1>2
<1>4. PICK m \in T : \A l \in T : m <= l
  BY <1>3, LeastNatural
<1>5. k - m \in DOMAIN f /\ k - m \notin S
  BY <1>4
<1>6. PICK c \in Operands(f, k - m) : c \notin S
  BY <1>5
<1>7. c \in 1 .. k /\ k - m < c
  BY <1>1, <1>5, <1>6, OperandsAfter
<1>8. k - c \in T
  BY <1>1, <1>6, <1>7
<1> QED
  BY <1>4, <1>7, <1>8
-----------------------------------------------------------------------------
(* The equation of HomogeneousNestedPath                                   *)
PathStep(f, g) ==
    [n \in DOMAIN f |->
        IF f[n].kind = "rule" THEN PathOf[f[n].field]
        ELSE SharedNestedPath({g[c] : c \in Operands(f, n)})]

(* What operands have in common is an array, the workflow or neither.      *)
LEMMA SharedType ==
    ASSUME NEW paths \in SUBSET (Paths \cup {Root, Mixed})
    PROVE  /\ SharedNestedPath(paths) \in Paths \cup {Root, Mixed}
           /\ SharedNestedPath(paths) \in Paths =>
                 paths # {} /\ \A p \in paths : p = SharedNestedPath(paths)
           /\ SharedNestedPath(paths) = Root => \A p \in paths : p = Root
<1>1. Root \notin Paths /\ Mixed \notin Paths \cup {Root}
  BY FilterAssumption
<1>2. CASE paths = {}
  BY <1>1, <1>2 DEF SharedNestedPath
<1>3. CASE paths # {} /\ \E p \in paths : paths = {p}
  BY <1>1, <1>3 DEF SharedNestedPath
<1>4. CASE paths # {} /\ ~\E p \in paths : paths = {p}
  BY <1>1, <1>4 DEF SharedNestedPath
<1> QED
  BY <1>2, <1>3, <1>4

(* homogeneousNestedPath computes what its equation says.                  *)
LEMMA PathDef ==
    ASSUME NEW f, IsTree(f)
    PROVE  HomogeneousNestedPath(f) = PathStep(f, HomogeneousNestedPath(f))
<1> DEFINE V == Paths \cup {Root, Mixed}
           T == [g \in [DOMAIN f -> V] |-> PathStep(f, g)]
<1>1. \A g \in [DOMAIN f -> V] : PathStep(f, g) \in [DOMAIN f -> V]
  <2> SUFFICES ASSUME NEW g \in [DOMAIN f -> V], NEW n \in DOMAIN f
               PROVE  PathStep(f, g)[n] \in V
    BY DEF PathStep
  <2>1. CASE f[n].kind = "rule"
    <3>1. f[n].field \in Fields
      BY <2>1 DEF IsTree
    <3> QED
      BY <2>1, <3>1, FilterAssumption DEF PathStep
  <2>2. CASE f[n].kind # "rule"
    <3>1. {g[c] : c \in Operands(f, n)} \in SUBSET V
      BY DEF Operands
    <3> QED
      BY <2>2, <3>1, SharedType DEF PathStep
  <2> QED
    BY <2>1, <2>2
<1>2. \A n \in DOMAIN f : \A g, h \in [DOMAIN f -> V] :
         (\A c \in Operands(f, n) : g[c] = h[c]) => PathStep(f, g)[n] = PathStep(f, h)[n]
  <2> SUFFICES ASSUME NEW n \in DOMAIN f, NEW g \in [DOMAIN f -> V], NEW h \in [DOMAIN f -> V],
                      \A c \in Operands(f, n) : g[c] = h[c]
               PROVE  PathStep(f, g)[n] = PathStep(f, h)[n]
    OBVIOUS
  <2>1. {g[c] : c \in Operands(f, n)} = {h[c] : c \in Operands(f, n)}
    OBVIOUS
  <2> QED
    BY <2>1 DEF PathStep
<1> HIDE DEF V
<1>3. OfOperands(T, f, V)
  BY <1>1, <1>2 DEF OfOperands
<1>4. Root \in V
  BY DEF V
<1>5. PICK F \in [DOMAIN f -> V] : F = T[F]
  <2> HIDE DEF T
  <2> QED
    BY <1>3, <1>4, TreeFunction
<1>6. F = PathStep(f, F)
  BY <1>5
<1>7. HomogeneousNestedPath(f) = CHOOSE g : g = PathStep(f, g)
  BY DEF HomogeneousNestedPath, PathStep
<1> HIDE DEF T
<1> QED
  BY <1>6, <1>7, Zenon

-----------------------------------------------------------------------------
(* Queries are sets of pairs.                                              *)
LEMMA QueryType ==
    /\ \A path, q : Nested(path, q) \in SUBSET Pairs
    /\ \A q : Not(q) \in SUBSET Pairs
    /\ \A test, rule : Leaf(test, rule) \in SUBSET Pairs
    /\ \A op : \A clauses \in SUBSET SUBSET Pairs : Logical(op, clauses) \in SUBSET Pairs
BY DEF Nested, Not, Leaf, Logical

(* The query of a condition is a set of pairs.                             *)
LEMMA ConditionType ==
    ASSUME NEW rule, rule.op \in Operators
    PROVE  BuildCondition(rule) \in SUBSET Pairs
<1>1. CASE rule.op \in DOMAIN NegationOf
  BY <1>1, QueryType DEF BuildCondition, NegationOf
<1>2. CASE rule.op \notin DOMAIN NegationOf
  <2>1. rule.op \notin {"neq", "notContains", "notIn", "notExists", "isEmpty"}
    BY <1>2 DEF NegationOf
  <2> QED
    BY <1>2, <2>1, QueryType DEF BuildCondition
<1> QED
  BY <1>1, <1>2

(* The equation of BuildNested                                             *)
NestedStep(f, g) ==
    [n \in DOMAIN f |->
        IF f[n].kind = "rule" THEN BuildCondition(f[n])
        ELSE Logical(f[n].op, {g[c] : c \in Operands(f, n)})]

(* The queries within a nested query are what their equation says.         *)
LEMMA NestedDef ==
    ASSUME NEW f, IsTree(f)
    PROVE  BuildNested(f) = NestedStep(f, BuildNested(f))
<1> DEFINE V == SUBSET Pairs
           T == [g \in [DOMAIN f -> V] |-> NestedStep(f, g)]
<1>1. \A g \in [DOMAIN f -> V] : NestedStep(f, g) \in [DOMAIN f -> V]
  <2> SUFFICES ASSUME NEW g \in [DOMAIN f -> V], NEW n \in DOMAIN f
               PROVE  NestedStep(f, g)[n] \in V
    BY DEF NestedStep
  <2>1. CASE f[n].kind = "rule"
    BY <2>1, ConditionType DEF NestedStep, IsTree
  <2>2. CASE f[n].kind # "rule"
    <3>1. {g[c] : c \in Operands(f, n)} \in SUBSET V
      BY DEF Operands
    <3> QED
      BY <2>2, <3>1, QueryType DEF NestedStep
  <2> QED
    BY <2>1, <2>2
<1>2. \A n \in DOMAIN f : \A g, h \in [DOMAIN f -> V] :
         (\A c \in Operands(f, n) : g[c] = h[c]) => NestedStep(f, g)[n] = NestedStep(f, h)[n]
  <2> SUFFICES ASSUME NEW n \in DOMAIN f, NEW g \in [DOMAIN f -> V], NEW h \in [DOMAIN f -> V],
                      \A c \in Operands(f, n) : g[c] = h[c]
               PROVE  NestedStep(f, g)[n] = NestedStep(f, h)[n]
    OBVIOUS
  <2>1. {g[c] : c \in Operands(f, n)} = {h[c] : c \in Operands(f, n)}
    OBVIOUS
  <2> QED
    BY <2>1 DEF NestedStep
<1> HIDE DEF V
<1>3. OfOperands(T, f, V)
  BY <1>1, <1>2 DEF OfOperands
<1>4. Pairs \in V
  BY DEF V
<1>5. PICK F \in [DOMAIN f -> V] : F = T[F]
  <2> HIDE DEF T
  <2> QED
    BY <1>3, <1>4, TreeFunction
<1>6. F = NestedStep(f, F)
  BY <1>5
<1>7. BuildNested(f) = CHOOSE g : g = NestedStep(f, g)
  BY DEF BuildNested, NestedStep
<1> HIDE DEF T
<1> QED
  BY <1>6, <1>7, Zenon

(* The equation of BuildFilter                                             *)
FilterStep(f, path, nested, g) ==
    [n \in DOMAIN f |->
        IF path[n] \in Paths THEN Nested(path[n], nested[n])
        ELSE IF f[n].kind = "rule" THEN BuildCondition(f[n])
        ELSE BuildLogical(f[n].op, Operands(f, n), path, nested,
                          [c \in Operands(f, n) |-> g[c]])]

(* The queries of the operands make a set of pairs.                        *)
LEMMA LogicalType ==
    ASSUME NEW op, NEW operands, NEW path, NEW nested, NEW query \in [operands -> SUBSET Pairs]
    PROVE  BuildLogical(op, operands, path, nested, query) \in SUBSET Pairs
<1> DEFINE Together(p) == Nested(p, Logical("and", {nested[c] : c \in {d \in operands : path[d] = p}}))
           clauses == {IF path[c] \in Paths THEN Together(path[c]) ELSE query[c] : c \in operands}
<1>1. {query[c] : c \in operands} \in SUBSET SUBSET Pairs
  OBVIOUS
<1>2. \A p : Together(p) \in SUBSET Pairs
  BY QueryType
<1> HIDE DEF Together
<1>3. clauses \in SUBSET SUBSET Pairs
  BY <1>2
<1>4. BuildLogical(op, operands, path, nested, query) =
         IF op # "and" THEN Logical(op, {query[c] : c \in operands}) ELSE Logical("and", clauses)
  BY DEF BuildLogical, Together
<1> HIDE DEF clauses
<1> QED
  BY <1>1, <1>3, <1>4, QueryType

(* buildFilterWithNestedPaths computes what its equation says.             *)
LEMMA FilterDef ==
    ASSUME NEW f, IsTree(f)
    PROVE  BuildFilter(f) = FilterStep(f, HomogeneousNestedPath(f), BuildNested(f), BuildFilter(f))
<1> DEFINE V == SUBSET Pairs
           T == [g \in [DOMAIN f -> V] |-> FilterStep(f, HomogeneousNestedPath(f), BuildNested(f), g)]
<1>1. \A g \in [DOMAIN f -> V] :
         FilterStep(f, HomogeneousNestedPath(f), BuildNested(f), g) \in [DOMAIN f -> V]
  <2> SUFFICES ASSUME NEW g \in [DOMAIN f -> V], NEW n \in DOMAIN f
               PROVE  FilterStep(f, HomogeneousNestedPath(f), BuildNested(f), g)[n] \in V
    BY DEF FilterStep
  <2>1. [c \in Operands(f, n) |-> g[c]] \in [Operands(f, n) -> SUBSET Pairs]
    BY DEF Operands
  <2> QED
    BY <2>1, ConditionType, LogicalType, QueryType DEF FilterStep, IsTree
<1>2. \A n \in DOMAIN f : \A g, h \in [DOMAIN f -> V] :
         (\A c \in Operands(f, n) : g[c] = h[c]) =>
            FilterStep(f, HomogeneousNestedPath(f), BuildNested(f), g)[n]
            = FilterStep(f, HomogeneousNestedPath(f), BuildNested(f), h)[n]
  <2> SUFFICES ASSUME NEW n \in DOMAIN f, NEW g \in [DOMAIN f -> V], NEW h \in [DOMAIN f -> V],
                      \A c \in Operands(f, n) : g[c] = h[c]
               PROVE  FilterStep(f, HomogeneousNestedPath(f), BuildNested(f), g)[n]
                      = FilterStep(f, HomogeneousNestedPath(f), BuildNested(f), h)[n]
    OBVIOUS
  <2>1. [c \in Operands(f, n) |-> g[c]] = [c \in Operands(f, n) |-> h[c]]
    OBVIOUS
  <2> QED
    BY <2>1 DEF FilterStep
<1> HIDE DEF V
<1>3. OfOperands(T, f, V)
  BY <1>1, <1>2 DEF OfOperands
<1>4. Pairs \in V
  BY DEF V
<1>5. PICK F \in [DOMAIN f -> V] : F = T[F]
  <2> HIDE DEF T
  <2> QED
    BY <1>3, <1>4, TreeFunction
<1>6. F = FilterStep(f, HomogeneousNestedPath(f), BuildNested(f), F)
  BY <1>5
<1>7. BuildFilter(f) = CHOOSE g : g = FilterStep(f, HomogeneousNestedPath(f), BuildNested(f), g)
  BY DEF BuildFilter, FilterStep
<1> HIDE DEF T
<1> QED
  BY <1>6, <1>7, Zenon

(* The equation of ChoicesFor                                              *)
HoldsStep(f, doc, g) ==
    [n \in DOMAIN f |->
        IF f[n].kind = "rule"
        THEN {chosen \in ObjectChoices(doc) : LET path == PathOf[f[n].field] IN
                path \in DOMAIN chosen /\ Meets(f[n], chosen[path])}
        ELSE IF f[n].op = "and"
        THEN {chosen \in ObjectChoices(doc) : \A c \in Operands(f, n) : chosen \in g[c]}
        ELSE UNION {g[c] : c \in Operands(f, n)}]

(* The choices for which a node holds are what their equation says.        *)
LEMMA HoldsDef ==
    ASSUME NEW f, IsTree(f), NEW doc
    PROVE  ChoicesFor(f, doc) = HoldsStep(f, doc, ChoicesFor(f, doc))
<1> DEFINE V == SUBSET ObjectChoices(doc)
           T == [g \in [DOMAIN f -> V] |-> HoldsStep(f, doc, g)]
<1>1. \A g \in [DOMAIN f -> V] : HoldsStep(f, doc, g) \in [DOMAIN f -> V]
  <2> SUFFICES ASSUME NEW g \in [DOMAIN f -> V], NEW n \in DOMAIN f
               PROVE  HoldsStep(f, doc, g)[n] \in V
    BY DEF HoldsStep
  <2>1. {g[c] : c \in Operands(f, n)} \in SUBSET V
    BY DEF Operands
  <2> QED
    BY <2>1 DEF HoldsStep
<1>2. \A n \in DOMAIN f : \A g, h \in [DOMAIN f -> V] :
         (\A c \in Operands(f, n) : g[c] = h[c]) => HoldsStep(f, doc, g)[n] = HoldsStep(f, doc, h)[n]
  <2> SUFFICES ASSUME NEW n \in DOMAIN f, NEW g \in [DOMAIN f -> V], NEW h \in [DOMAIN f -> V],
                      \A c \in Operands(f, n) : g[c] = h[c]
               PROVE  HoldsStep(f, doc, g)[n] = HoldsStep(f, doc, h)[n]
    OBVIOUS
  <2>1. {g[c] : c \in Operands(f, n)} = {h[c] : c \in Operands(f, n)}
    OBVIOUS
  <2> QED
    BY <2>1 DEF HoldsStep
<1> HIDE DEF V
<1>3. OfOperands(T, f, V)
  BY <1>1, <1>2 DEF OfOperands
<1>4. ObjectChoices(doc) \in V
  BY DEF V
<1>5. PICK F \in [DOMAIN f -> V] : F = T[F]
  <2> HIDE DEF T
  <2> QED
    BY <1>3, <1>4, TreeFunction
<1>6. F = HoldsStep(f, doc, F)
  BY <1>5
<1>7. ChoicesFor(f, doc) = CHOOSE g : g = HoldsStep(f, doc, g)
  BY DEF ChoicesFor, HoldsStep
<1> HIDE DEF T
<1> QED
  BY <1>6, <1>7, Zenon

(* The equation of PathsBelow                                              *)
BelowStep(f, g) ==
    [n \in DOMAIN f |->
        IF f[n].kind = "rule" THEN {PathOf[f[n].field]} \ {Root}
        ELSE UNION {g[c] : c \in Operands(f, n)}]

(* The arrays below a node are what their equation says.                   *)
LEMMA BelowDef ==
    ASSUME NEW f, IsTree(f)
    PROVE  PathsBelow(f) = BelowStep(f, PathsBelow(f))
<1> DEFINE V == SUBSET Paths
           T == [g \in [DOMAIN f -> V] |-> BelowStep(f, g)]
<1>1. \A g \in [DOMAIN f -> V] : BelowStep(f, g) \in [DOMAIN f -> V]
  <2> SUFFICES ASSUME NEW g \in [DOMAIN f -> V], NEW n \in DOMAIN f
               PROVE  BelowStep(f, g)[n] \in V
    BY DEF BelowStep
  <2>1. {g[c] : c \in Operands(f, n)} \in SUBSET V
    BY DEF Operands
  <2>2. f[n].kind = "rule" => PathOf[f[n].field] \in Paths \cup {Root}
    BY FilterAssumption DEF IsTree
  <2> QED
    BY <2>1, <2>2 DEF BelowStep
<1>2. \A n \in DOMAIN f : \A g, h \in [DOMAIN f -> V] :
         (\A c \in Operands(f, n) : g[c] = h[c]) => BelowStep(f, g)[n] = BelowStep(f, h)[n]
  <2> SUFFICES ASSUME NEW n \in DOMAIN f, NEW g \in [DOMAIN f -> V], NEW h \in [DOMAIN f -> V],
                      \A c \in Operands(f, n) : g[c] = h[c]
               PROVE  BelowStep(f, g)[n] = BelowStep(f, h)[n]
    OBVIOUS
  <2>1. {g[c] : c \in Operands(f, n)} = {h[c] : c \in Operands(f, n)}
    OBVIOUS
  <2> QED
    BY <2>1 DEF BelowStep
<1> HIDE DEF V
<1>3. OfOperands(T, f, V)
  BY <1>1, <1>2 DEF OfOperands
<1>4. {} \in V
  BY DEF V
<1>5. PICK F \in [DOMAIN f -> V] : F = T[F]
  <2> HIDE DEF T
  <2> QED
    BY <1>3, <1>4, TreeFunction
<1>6. F = BelowStep(f, F)
  BY <1>5
<1>7. PathsBelow(f) = CHOOSE g : g = BelowStep(f, g)
  BY DEF PathsBelow, BelowStep
<1> HIDE DEF T
<1> QED
  BY <1>6, <1>7, Zenon

-----------------------------------------------------------------------------
(* A node of one array has operands of that array only.                    *)
LEMMA PathAt ==
    ASSUME NEW f, IsTree(f), NEW path, path = HomogeneousNestedPath(f), NEW n \in DOMAIN f
    PROVE  /\ path[n] \in Paths \cup {Root, Mixed}
           /\ f[n].kind = "rule" => path[n] = PathOf[f[n].field] /\ path[n] \in Paths \cup {Root}
           /\ f[n].kind # "rule" /\ path[n] \in Paths =>
                 Operands(f, n) # {} /\ \A c \in Operands(f, n) : path[c] = path[n]
           /\ f[n].kind # "rule" /\ path[n] = Root => \A c \in Operands(f, n) : path[c] = Root
<1>1. path = PathStep(f, path)
  BY PathDef
<1>2. \A i \in DOMAIN f : path[i] = PathStep(f, path)[i]
  BY <1>1
<1>3. \A i \in DOMAIN f : f[i].kind = "rule" =>
         path[i] = PathOf[f[i].field] /\ path[i] \in Paths \cup {Root}
  BY <1>2, FilterAssumption DEF PathStep, IsTree
<1> DEFINE V == Paths \cup {Root, Mixed}
           S == {i \in DOMAIN f : path[i] \in V}
<1>4. \A i \in DOMAIN f : f[i].kind # "rule" => path[i] = SharedNestedPath({path[c] : c \in Operands(f, i)})
  BY <1>2 DEF PathStep
<1>5. \A i \in DOMAIN f : (\A c \in Operands(f, i) : c \in S) => i \in S
  <2> SUFFICES ASSUME NEW i \in DOMAIN f, \A c \in Operands(f, i) : c \in S
               PROVE  path[i] \in V
    OBVIOUS
  <2>1. {path[c] : c \in Operands(f, i)} \in SUBSET V
    OBVIOUS
  <2>2. CASE f[i].kind = "rule"
    BY <1>3, <2>2
  <2>3. CASE f[i].kind # "rule"
    <3> DEFINE paths == {path[c] : c \in Operands(f, i)}
    <3>1. path[i] = SharedNestedPath(paths) /\ paths \in SUBSET (Paths \cup {Root, Mixed})
      BY <1>4, <2>1, <2>3
    <3> HIDE DEF paths
    <3> QED
      BY <3>1, SharedType
  <2> QED
    BY <2>2, <2>3
<1>6. \A i \in DOMAIN f : path[i] \in V
  <2> HIDE DEF S
  <2>1. \A i \in DOMAIN f : i \in S
    BY <1>5, TreeInduction
  <2> QED
    BY <2>1 DEF S
<1>7. {path[c] : c \in Operands(f, n)} \in SUBSET V
  BY <1>6 DEF Operands
<1>8. f[n].kind # "rule" =>
         /\ path[n] \in Paths => Operands(f, n) # {} /\ \A c \in Operands(f, n) : path[c] = path[n]
         /\ path[n] = Root => \A c \in Operands(f, n) : path[c] = Root
  <2> SUFFICES ASSUME f[n].kind # "rule"
               PROVE  /\ path[n] \in Paths => Operands(f, n) # {} /\ \A c \in Operands(f, n) : path[c] = path[n]
                      /\ path[n] = Root => \A c \in Operands(f, n) : path[c] = Root
    OBVIOUS
  <2> DEFINE paths == {path[c] : c \in Operands(f, n)}
  <2>1. \A c \in Operands(f, n) : path[c] \in paths
    OBVIOUS
  <2>2. paths # {} => Operands(f, n) # {}
    OBVIOUS
  <2>3. path[n] = SharedNestedPath(paths)
    BY <1>4
  <2>4. paths \in SUBSET (Paths \cup {Root, Mixed})
    BY <1>7
  <2> HIDE DEF paths
  <2> QED
    BY <2>1, <2>2, <2>3, <2>4, SharedType
<1> QED
  BY <1>3, <1>6, <1>8

(* The tests of a query are those of the condition it is built from.       *)
LEMMA ConditionMeets ==
    ASSUME NEW rule, rule.op \in Operators, NEW pair \in Pairs
    PROVE  pair \in BuildCondition(rule) <=> Meets(rule, pair[2])
<1> DEFINE Has(test) == /\ rule.field \in DOMAIN pair[2]
                        /\ Test(test, rule.value, pair[2][rule.field])
<1>1. \A test : pair \in Leaf(test, rule) <=> Has(test)
  BY DEF Leaf
<1>2. Meets(rule, pair[2]) <=>
         IF rule.op \in DOMAIN NegationOf THEN ~Has(NegationOf[rule.op]) ELSE Has(rule.op)
  BY DEF Meets
<1>3. \A v, t : /\ Test("startsWith", v, t) = Test("wildcard", v, t)
                /\ Test("endsWith", v, t) = Test("wildcard", v, t)
                /\ Test("isNotEmpty", v, t) = Test("exists", v, t)
  BY DEF Test
<1>4. /\ Has("startsWith") = Has("wildcard") /\ Has("endsWith") = Has("wildcard")
      /\ Has("isNotEmpty") = Has("exists")
  BY <1>3
<1> HIDE DEF Has
<1>5. CASE rule.op \in DOMAIN NegationOf
  <2>1. BuildCondition(rule) = Not(Leaf(NegationOf[rule.op], rule))
    <3>1. rule.op \in {"neq", "notContains", "notIn", "notExists", "isEmpty"}
      BY <1>5 DEF NegationOf
    <3> QED
      BY <1>5, <3>1 DEF BuildCondition
  <2>2. pair \in Not(Leaf(NegationOf[rule.op], rule)) <=> ~(pair \in Leaf(NegationOf[rule.op], rule))
    BY DEF Not
  <2> QED
    BY <1>1, <1>2, <1>5, <2>1, <2>2
<1>6. CASE rule.op \notin DOMAIN NegationOf
  <2>1. CASE rule.op \in {"startsWith", "endsWith"}
    <3>1. BuildCondition(rule) = Leaf("wildcard", rule)
      BY <1>6, <2>1 DEF BuildCondition
    <3>2. Has(rule.op) = Has("wildcard")
      BY <1>4, <2>1
    <3> QED
      BY <1>1, <1>2, <1>6, <3>1, <3>2
  <2>2. CASE rule.op = "isNotEmpty"
    <3>1. BuildCondition(rule) = Leaf("exists", rule)
      BY <1>6, <2>2 DEF BuildCondition
    <3>2. Has(rule.op) = Has("exists")
      BY <1>4, <2>2
    <3> QED
      BY <1>1, <1>2, <1>6, <3>1, <3>2
  <2>3. CASE rule.op \notin {"startsWith", "endsWith", "isNotEmpty"}
    <3>1. BuildCondition(rule) = Leaf(rule.op, rule)
      BY <1>6, <2>3 DEF BuildCondition
    <3> QED
      BY <1>1, <1>2, <1>6, <3>1
  <2> QED
    BY <2>1, <2>2, <2>3
<1> QED
  BY <1>5, <1>6

(* The object chosen of an array is one of its objects.                    *)
LEMMA ChosenObjects ==
    ASSUME NEW doc \in Documents, NEW chosen \in ObjectChoices(doc)
    PROVE  /\ DOMAIN chosen = {p \in Paths \cup {Root} : doc[p] # {}}
           /\ \A p \in DOMAIN chosen : chosen[p] \in doc[p]
           /\ Root \in DOMAIN chosen /\ doc[Root] = {chosen[Root]}
<1>1. /\ DOMAIN chosen = {p \in Paths \cup {Root} : doc[p] # {}}
      /\ \A p \in DOMAIN chosen : chosen[p] \in doc[p]
  BY DEF ObjectChoices
<1>2. PICK object \in doc[Root] : doc[Root] = {object}
  BY FilterAssumption
<1> QED
  BY <1>1, <1>2

(* Each object of a document makes a pair with it.                         *)
LEMMA PairOfObject ==
    ASSUME NEW doc \in Documents, NEW p \in Paths \cup {Root}, NEW object \in doc[p]
    PROVE  <<doc, object>> \in Pairs
<1>1. p \in DOMAIN doc
  BY FilterAssumption
<1> QED
  BY <1>1 DEF Pairs

(* What the choices of a node are, one case after the other                *)
LEMMA HoldsAt ==
    ASSUME NEW f, IsTree(f), NEW doc, NEW n \in DOMAIN f, NEW chosen
    PROVE  LET holds == ChoicesFor(f, doc)
           IN  /\ chosen \in holds[n] => chosen \in ObjectChoices(doc)
               /\ f[n].kind = "rule" => (chosen \in holds[n] <=>
                     /\ chosen \in ObjectChoices(doc) /\ PathOf[f[n].field] \in DOMAIN chosen
                     /\ Meets(f[n], chosen[PathOf[f[n].field]]))
               /\ f[n].kind # "rule" /\ f[n].op = "and" => (chosen \in holds[n] <=>
                     chosen \in ObjectChoices(doc) /\ \A c \in Operands(f, n) : chosen \in holds[c])
               /\ f[n].kind # "rule" /\ f[n].op # "and" =>
                     (chosen \in holds[n] <=> \E c \in Operands(f, n) : chosen \in holds[c])
<1> DEFINE holds == ChoicesFor(f, doc)
           S == {i \in DOMAIN f : chosen \in holds[i] => chosen \in ObjectChoices(doc)}
<1>1. \A i \in DOMAIN f : holds[i] = HoldsStep(f, doc, holds)[i]
  BY HoldsDef
<1> HIDE DEF holds
<1>2. \A i \in DOMAIN f :
         /\ f[i].kind = "rule" => (chosen \in holds[i] <=>
               /\ chosen \in ObjectChoices(doc) /\ PathOf[f[i].field] \in DOMAIN chosen
               /\ Meets(f[i], chosen[PathOf[f[i].field]]))
         /\ f[i].kind # "rule" /\ f[i].op = "and" => (chosen \in holds[i] <=>
               chosen \in ObjectChoices(doc) /\ \A c \in Operands(f, i) : chosen \in holds[c])
         /\ f[i].kind # "rule" /\ f[i].op # "and" =>
               (chosen \in holds[i] <=> \E c \in Operands(f, i) : chosen \in holds[c])
  <2> SUFFICES ASSUME NEW i \in DOMAIN f
               PROVE  /\ f[i].kind = "rule" => (chosen \in holds[i] <=>
                            /\ chosen \in ObjectChoices(doc) /\ PathOf[f[i].field] \in DOMAIN chosen
                            /\ Meets(f[i], chosen[PathOf[f[i].field]]))
                      /\ f[i].kind # "rule" /\ f[i].op = "and" => (chosen \in holds[i] <=>
                            chosen \in ObjectChoices(doc) /\ \A c \in Operands(f, i) : chosen \in holds[c])
                      /\ f[i].kind # "rule" /\ f[i].op # "and" =>
                            (chosen \in holds[i] <=> \E c \in Operands(f, i) : chosen \in holds[c])
    OBVIOUS
  <2>1. CASE f[i].kind = "rule"
    BY <1>1, <2>1 DEF HoldsStep
  <2>2. CASE f[i].kind # "rule" /\ f[i].op = "and"
    BY <1>1, <2>2 DEF HoldsStep
  <2>3. CASE f[i].kind # "rule" /\ f[i].op # "and"
    <3>1. holds[i] = UNION {holds[c] : c \in Operands(f, i)}
      BY <1>1, <2>3 DEF HoldsStep
    <3>2. chosen \in UNION {holds[c] : c \in Operands(f, i)} <=>
             \E c \in Operands(f, i) : chosen \in holds[c]
      OBVIOUS
    <3> QED
      BY <2>3, <3>1, <3>2
  <2> QED
    BY <2>1, <2>2, <2>3
<1>3. \A i \in DOMAIN f : (\A c \in Operands(f, i) : c \in S) => i \in S
  BY <1>2
<1>4. n \in S
  <2> HIDE DEF S
  <2>1. \A i \in DOMAIN f : i \in S
    BY <1>3, TreeInduction
  <2> QED
    BY <2>1
<1> QED
  BY <1>2, <1>4 DEF holds

(* Within a nested query: the conditions of one array hold for the objects *)
(* chosen if and only if the query built of them matches the object of     *)
(* that array.                                                             *)
LEMMA NestedMeans ==
    ASSUME NEW f, IsTree(f), NEW doc \in Documents, NEW chosen \in ObjectChoices(doc),
           NEW n \in DOMAIN f, HomogeneousNestedPath(f)[n] \in Paths
    PROVE  chosen \in ChoicesFor(f, doc)[n] <=>
              /\ HomogeneousNestedPath(f)[n] \in DOMAIN chosen
              /\ <<doc, chosen[HomogeneousNestedPath(f)[n]]>> \in BuildNested(f)[n]
<1> DEFINE path == HomogeneousNestedPath(f)
           nested == BuildNested(f)
           holds == ChoicesFor(f, doc)
           S == {i \in DOMAIN f : path[i] \in Paths =>
                    (chosen \in holds[i] <=> path[i] \in DOMAIN chosen
                                             /\ <<doc, chosen[path[i]]>> \in nested[i])}
<1>1. \A i \in DOMAIN f : nested[i] = NestedStep(f, nested)[i] /\ holds[i] = HoldsStep(f, doc, holds)[i]
  BY NestedDef, HoldsDef
<1>2. \A p \in Paths : p \in DOMAIN chosen => <<doc, chosen[p]>> \in Pairs
  BY ChosenObjects, PairOfObject
<1> HIDE DEF nested, holds
<1>3. \A i \in DOMAIN f : (\A c \in Operands(f, i) : c \in S) => i \in S
  <2> SUFFICES ASSUME NEW i \in DOMAIN f, \A c \in Operands(f, i) : c \in S, path[i] \in Paths
               PROVE  chosen \in holds[i] <=> path[i] \in DOMAIN chosen
                                               /\ <<doc, chosen[path[i]]>> \in nested[i]
    OBVIOUS
  <2>1. CASE f[i].kind = "rule"
    <3>1. path[i] = PathOf[f[i].field]
      BY <2>1, PathAt
    <3>2. nested[i] = BuildCondition(f[i]) /\ f[i].op \in Operators
      BY <1>1, <2>1 DEF NestedStep, IsTree
    <3>3. chosen \in holds[i] <=> path[i] \in DOMAIN chosen /\ Meets(f[i], chosen[path[i]])
      BY <1>1, <2>1, <3>1 DEF HoldsStep
    <3>4. path[i] \in DOMAIN chosen =>
             (<<doc, chosen[path[i]]>> \in BuildCondition(f[i]) <=> Meets(f[i], chosen[path[i]]))
      <4> SUFFICES ASSUME path[i] \in DOMAIN chosen
                   PROVE  <<doc, chosen[path[i]]>> \in BuildCondition(f[i]) <=> Meets(f[i], chosen[path[i]])
        OBVIOUS
      <4> DEFINE pair == <<doc, chosen[path[i]]>>
      <4>1. pair \in Pairs /\ pair[2] = chosen[path[i]]
        BY <1>2
      <4> HIDE DEF pair
      <4>2. pair \in BuildCondition(f[i]) <=> Meets(f[i], pair[2])
        BY <3>2, <4>1, ConditionMeets
      <4> QED
        BY <4>1, <4>2 DEF pair
    <3> QED
      BY <3>2, <3>3, <3>4
  <2>2. CASE f[i].kind # "rule"
    <3> DEFINE p == path[i]
               ops == Operands(f, i)
    <3>1. ops # {} /\ \A c \in ops : path[c] = p /\ c \in DOMAIN f
      BY <2>2, PathAt DEF Operands
    <3>2. \A c \in ops : chosen \in holds[c] <=> p \in DOMAIN chosen /\ <<doc, chosen[p]>> \in nested[c]
      BY <3>1
    <3>3. nested[i] = Logical(f[i].op, {nested[c] : c \in ops})
      BY <1>1, <2>2 DEF NestedStep
    <3>4. {nested[c] : c \in ops} # {}
      BY <3>1
    <3>5. f[i].op \in {"and", "or"}
      BY <2>2 DEF IsTree
    <3> HIDE DEF p, ops
    <3>6. CASE f[i].op = "and"
      <4>1. chosen \in holds[i] <=> \A c \in ops : chosen \in holds[c]
        BY <2>2, <3>6, HoldsAt DEF holds, ops
      <4>2. \A pair \in Pairs : pair \in nested[i] <=> \A c \in ops : pair \in nested[c]
        BY <3>3, <3>6 DEF Logical
      <4> DEFINE pair == <<doc, chosen[p]>>
      <4>3. p \in DOMAIN chosen => pair \in Pairs
        BY <1>2 DEF p
      <4>4. \A c \in ops : chosen \in holds[c] <=> p \in DOMAIN chosen /\ pair \in nested[c]
        BY <3>2
      <4> HIDE DEF pair
      <4>5. chosen \in holds[i] <=> p \in DOMAIN chosen /\ pair \in nested[i]
        BY <3>1, <4>1, <4>2, <4>3, <4>4
      <4> QED
        BY <4>5 DEF p, pair
    <3>7. CASE f[i].op = "or"
      <4>1. chosen \in holds[i] <=> \E c \in ops : chosen \in holds[c]
        BY <2>2, <3>7, HoldsAt DEF holds, ops
      <4>2. \A pair : pair \in nested[i] <=> \E c \in ops : pair \in nested[c]
        BY <3>3, <3>4, <3>7 DEF Logical
      <4> DEFINE pair == <<doc, chosen[p]>>
      <4>3. \A c \in ops : chosen \in holds[c] <=> p \in DOMAIN chosen /\ pair \in nested[c]
        BY <3>2
      <4> HIDE DEF pair
      <4>4. chosen \in holds[i] <=> p \in DOMAIN chosen /\ pair \in nested[i]
        BY <4>1, <4>2, <4>3
      <4> QED
        BY <4>4 DEF p, pair
    <3> QED
      BY <3>5, <3>6, <3>7
  <2> QED
    BY <2>1, <2>2
<1>4. n \in S
  <2> HIDE DEF S
  <2>1. \A i \in DOMAIN f : i \in S
    BY <1>3, TreeInduction
  <2> QED
    BY <2>1
<1> QED
  BY <1>4 DEF holds, nested

(* What the query of a node matches, one case after the other              *)
LEMMA QueryAt ==
    ASSUME NEW f, IsTree(f), NEW doc \in Documents, NEW object \in doc[Root], NEW n \in DOMAIN f
    PROVE  LET path == HomogeneousNestedPath(f)
               nested == BuildNested(f)
               query == BuildFilter(f)
               pair == <<doc, object>>
           IN  /\ path[n] \in Paths =>
                     (pair \in query[n] <=> \E o \in doc[path[n]] : <<doc, o>> \in nested[n])
               /\ path[n] \notin Paths /\ f[n].kind = "rule" => (pair \in query[n] <=> Meets(f[n], object))
               /\ path[n] \notin Paths /\ f[n].kind # "rule" /\ f[n].op # "and" =>
                     (pair \in query[n] <=> Operands(f, n) = {} \/ \E c \in Operands(f, n) : pair \in query[c])
               /\ path[n] \notin Paths /\ f[n].kind # "rule" /\ f[n].op = "and" =>
                     (pair \in query[n] <=> \A c \in Operands(f, n) :
                        IF path[c] \in Paths
                        THEN \E o \in doc[path[c]] : \A d \in Operands(f, n) :
                                path[d] = path[c] => <<doc, o>> \in nested[d]
                        ELSE pair \in query[c])
<1> DEFINE path == HomogeneousNestedPath(f)
           nested == BuildNested(f)
           query == BuildFilter(f)
           pair == <<doc, object>>
           ops == Operands(f, n)
<1>1. query[n] = FilterStep(f, path, nested, query)[n]
  BY FilterDef
<1>2. pair \in Pairs /\ pair[1] = doc /\ pair[2] = object
  BY PairOfObject
<1> HIDE DEF path, nested, query, pair, ops
<1>3. \A p, q : pair \in Nested(p, q) <=> \E o \in doc[p] : <<doc, o>> \in q
  BY <1>2 DEF Nested
<1>4. path[n] \in Paths => query[n] = Nested(path[n], nested[n])
  BY <1>1 DEF FilterStep
<1>5. path[n] \notin Paths /\ f[n].kind = "rule" => (pair \in query[n] <=> Meets(f[n], object))
  <2> SUFFICES ASSUME path[n] \notin Paths, f[n].kind = "rule"
               PROVE  pair \in query[n] <=> Meets(f[n], object)
    OBVIOUS
  <2>1. query[n] = BuildCondition(f[n]) /\ f[n].op \in Operators
    BY <1>1 DEF FilterStep, IsTree
  <2> QED
    BY <1>2, <2>1, ConditionMeets
<1>6. path[n] \notin Paths /\ f[n].kind # "rule" =>
         query[n] = BuildLogical(f[n].op, ops, path, nested, [c \in ops |-> query[c]])
  BY <1>1 DEF FilterStep, ops
<1>7. path[n] \notin Paths /\ f[n].kind # "rule" /\ f[n].op # "and" =>
         (pair \in query[n] <=> ops = {} \/ \E c \in ops : pair \in query[c])
  <2> SUFFICES ASSUME path[n] \notin Paths, f[n].kind # "rule", f[n].op # "and"
               PROVE  pair \in query[n] <=> ops = {} \/ \E c \in ops : pair \in query[c]
    OBVIOUS
  <2> DEFINE each == [c \in ops |-> query[c]]
             clauses == {each[c] : c \in ops}
  <2>1. query[n] = Logical(f[n].op, clauses)
    BY <1>6 DEF BuildLogical
  <2>2. clauses = {} <=> ops = {}
    OBVIOUS
  <2>3. pair \in UNION clauses <=> \E c \in ops : pair \in query[c]
    OBVIOUS
  <2> HIDE DEF clauses
  <2> QED
    BY <1>2, <2>1, <2>2, <2>3 DEF Logical
<1>8. path[n] \notin Paths /\ f[n].kind # "rule" /\ f[n].op = "and" =>
         (pair \in query[n] <=> \A c \in ops :
             IF path[c] \in Paths
             THEN \E o \in doc[path[c]] : \A d \in ops : path[d] = path[c] => <<doc, o>> \in nested[d]
             ELSE pair \in query[c])
  <2> SUFFICES ASSUME path[n] \notin Paths, f[n].kind # "rule", f[n].op = "and"
               PROVE  pair \in query[n] <=> \A c \in ops :
                         IF path[c] \in Paths
                         THEN \E o \in doc[path[c]] : \A d \in ops :
                                 path[d] = path[c] => <<doc, o>> \in nested[d]
                         ELSE pair \in query[c]
    OBVIOUS
  <2> DEFINE Together(p) == Nested(p, Logical("and", {nested[c] : c \in {d \in ops : path[d] = p}}))
             Clause(c) == IF path[c] \in Paths THEN Together(path[c]) ELSE query[c]
  <2>1. query[n] = Logical("and", {Clause(c) : c \in ops})
    <3> DEFINE each == [c \in ops |-> query[c]]
    <3>1. {IF path[c] \in Paths THEN Together(path[c]) ELSE each[c] : c \in ops} = {Clause(c) : c \in ops}
      OBVIOUS
    <3>2. query[n] = Logical("and", {IF path[c] \in Paths THEN Together(path[c]) ELSE each[c] : c \in ops})
      BY <1>6 DEF BuildLogical
    <3> QED
      BY <3>1, <3>2
  <2>2. \A c \in ops : path[c] \in Paths =>
           (pair \in Together(path[c]) <=> \E o \in doc[path[c]] : \A d \in ops :
               path[d] = path[c] => <<doc, o>> \in nested[d])
    <3> SUFFICES ASSUME NEW c \in ops, path[c] \in Paths
                 PROVE  pair \in Together(path[c]) <=> \E o \in doc[path[c]] : \A d \in ops :
                           path[d] = path[c] => <<doc, o>> \in nested[d]
      OBVIOUS
    <3> DEFINE all == {nested[d] : d \in {e \in ops : path[e] = path[c]}}
    <3>1. \A o \in doc[path[c]] : <<doc, o>> \in Logical("and", all) <=>
             \A d \in ops : path[d] = path[c] => <<doc, o>> \in nested[d]
      <4> SUFFICES ASSUME NEW o \in doc[path[c]]
                   PROVE  <<doc, o>> \in Logical("and", all) <=>
                             \A d \in ops : path[d] = path[c] => <<doc, o>> \in nested[d]
        OBVIOUS
      <4>1. <<doc, o>> \in Pairs
        BY PairOfObject
      <4>2. <<doc, o>> \in Logical("and", all) <=> \A q \in all : <<doc, o>> \in q
        BY <4>1 DEF Logical
      <4> QED
        BY <4>2
    <3>2. pair \in Together(path[c]) <=> \E o \in doc[path[c]] : <<doc, o>> \in Logical("and", all)
      BY <1>3
    <3> QED
      BY <3>1, <3>2
  <2> HIDE DEF Together
  <2>3. pair \in query[n] <=> \A c \in ops : pair \in Clause(c)
    BY <1>2, <2>1 DEF Logical
  <2> QED
    BY <2>2, <2>3
<1> QED
  BY <1>3, <1>4, <1>5, <1>7, <1>8 DEF path, nested, query, pair, ops

(* A choice for which the conditions hold makes the query match.           *)
LEMMA QueryFollows ==
    ASSUME NEW f, IsTree(f), NEW doc \in Documents, NEW chosen \in ObjectChoices(doc),
           NEW n \in DOMAIN f, chosen \in ChoicesFor(f, doc)[n]
    PROVE  <<doc, chosen[Root]>> \in BuildFilter(f)[n]
<1> DEFINE path == HomogeneousNestedPath(f)
           nested == BuildNested(f)
           query == BuildFilter(f)
           holds == ChoicesFor(f, doc)
           object == chosen[Root]
           S == {i \in DOMAIN f : chosen \in holds[i] => <<doc, object>> \in query[i]}
<1>1. object \in doc[Root]
  BY ChosenObjects
<1>2. \A i \in DOMAIN f : path[i] \in Paths /\ chosen \in holds[i] =>
         chosen[path[i]] \in doc[path[i]] /\ <<doc, chosen[path[i]]>> \in nested[i]
  BY NestedMeans, ChosenObjects
<1>3. \A i \in DOMAIN f : Operands(f, i) \in SUBSET DOMAIN f
  BY DEF Operands
<1> HIDE DEF path, nested, query, holds, object
<1>4. \A i \in DOMAIN f : (\A c \in Operands(f, i) : c \in S) => i \in S
  <2> SUFFICES ASSUME NEW i \in DOMAIN f, \A c \in Operands(f, i) : c \in S, chosen \in holds[i]
               PROVE  <<doc, object>> \in query[i]
    OBVIOUS
  <2>1. CASE path[i] \in Paths
    BY <1>1, <1>2, <2>1, QueryAt DEF path, nested, query
  <2>2. CASE path[i] \notin Paths /\ f[i].kind = "rule"
    <3>1. PathOf[f[i].field] = Root
      BY <2>2, PathAt DEF path
    <3>2. Meets(f[i], object)
      BY <2>2, <3>1, HoldsAt DEF holds, object
    <3> QED
      BY <1>1, <2>2, <3>2, QueryAt DEF path, query
  <2>3. CASE path[i] \notin Paths /\ f[i].kind # "rule" /\ f[i].op # "and"
    <3>1. PICK c \in Operands(f, i) : chosen \in holds[c]
      BY <2>3, HoldsAt DEF holds
    <3>2. <<doc, object>> \in query[c]
      BY <3>1
    <3> QED
      BY <1>1, <2>3, <3>2, QueryAt DEF path, query
  <2>4. CASE path[i] \notin Paths /\ f[i].kind # "rule" /\ f[i].op = "and"
    <3>1. \A c \in Operands(f, i) : c \in DOMAIN f /\ chosen \in holds[c]
      BY <1>3, <2>4, HoldsAt DEF holds
    <3>2. \A c \in Operands(f, i) : path[c] \notin Paths => <<doc, object>> \in query[c]
      BY <3>1
    <3>3. \A c \in Operands(f, i) : path[c] \in Paths =>
             \E o \in doc[path[c]] : \A d \in Operands(f, i) : path[d] = path[c] => <<doc, o>> \in nested[d]
      <4> SUFFICES ASSUME NEW c \in Operands(f, i), path[c] \in Paths
                   PROVE  \E o \in doc[path[c]] : \A d \in Operands(f, i) :
                             path[d] = path[c] => <<doc, o>> \in nested[d]
        OBVIOUS
      <4>1. chosen[path[c]] \in doc[path[c]]
        BY <1>2, <3>1
      <4>2. \A d \in Operands(f, i) : path[d] = path[c] => <<doc, chosen[path[c]]>> \in nested[d]
        <5> SUFFICES ASSUME NEW d \in Operands(f, i), path[d] = path[c]
                     PROVE  <<doc, chosen[path[c]]>> \in nested[d]
          OBVIOUS
        <5>1. d \in DOMAIN f /\ chosen \in holds[d] /\ path[d] \in Paths
          BY <3>1
        <5>2. <<doc, chosen[path[d]]>> \in nested[d]
          BY <1>2, <5>1
        <5> QED
          BY <5>2
      <4> QED
        BY <4>1, <4>2
    <3>4. <<doc, object>> \in query[i] <=> \A c \in Operands(f, i) :
             IF path[c] \in Paths
             THEN \E o \in doc[path[c]] : \A d \in Operands(f, i) :
                     path[d] = path[c] => <<doc, o>> \in nested[d]
             ELSE <<doc, object>> \in query[c]
      BY <1>1, <2>4, QueryAt DEF path, query, nested
    <3> QED
      BY <3>2, <3>3, <3>4
  <2> QED
    BY <2>1, <2>2, <2>3, <2>4
<1>5. n \in S
  <2> HIDE DEF S
  <2>1. \A i \in DOMAIN f : i \in S
    BY <1>4, TreeInduction
  <2> QED
    BY <2>1
<1> QED
  BY <1>5 DEF holds, query, object

(* The arrays below a node include those below its operands.               *)
LEMMA BelowAt ==
    ASSUME NEW f, IsTree(f), NEW n \in DOMAIN f
    PROVE  LET path == HomogeneousNestedPath(f)
               below == PathsBelow(f)
           IN  /\ below[n] \in SUBSET Paths
               /\ f[n].kind # "rule" => \A c \in Operands(f, n) : below[c] \in SUBSET below[n]
               /\ path[n] = Root => below[n] = {}
               /\ path[n] \in Paths => below[n] = {path[n]}
<1> DEFINE path == HomogeneousNestedPath(f)
           below == PathsBelow(f)
           S == {i \in DOMAIN f : /\ below[i] \in SUBSET Paths
                                  /\ path[i] = Root => below[i] = {}
                                  /\ path[i] \in Paths => below[i] = {path[i]}}
<1>1. \A i \in DOMAIN f : below[i] = BelowStep(f, below)[i]
  BY BelowDef
<1>2. \A i \in DOMAIN f : f[i].kind = "rule" =>
         below[i] = {path[i]} \ {Root} /\ path[i] \in Paths \cup {Root}
  <2>1. \A i \in DOMAIN f : f[i].kind = "rule" => below[i] = {PathOf[f[i].field]} \ {Root}
    BY <1>1 DEF BelowStep
  <2>2. \A i \in DOMAIN f : f[i].kind = "rule" =>
           path[i] = PathOf[f[i].field] /\ path[i] \in Paths \cup {Root}
    BY PathAt
  <2> HIDE DEF path, below
  <2> QED
    BY <2>1, <2>2
<1>3. \A i \in DOMAIN f : f[i].kind # "rule" => below[i] = UNION {below[c] : c \in Operands(f, i)}
  BY <1>1 DEF BelowStep
<1>4. Root \notin Paths
  BY FilterAssumption
<1>5. \A i \in DOMAIN f : f[i].kind # "rule" =>
         /\ path[i] \in Paths => Operands(f, i) # {} /\ \A c \in Operands(f, i) : path[c] = path[i]
         /\ path[i] = Root => \A c \in Operands(f, i) : path[c] = Root
  BY PathAt
<1> HIDE DEF path, below
<1>6. \A i \in DOMAIN f : (\A c \in Operands(f, i) : c \in S) => i \in S
  <2> SUFFICES ASSUME NEW i \in DOMAIN f, \A c \in Operands(f, i) : c \in S
               PROVE  i \in S
    OBVIOUS
  <2>1. CASE f[i].kind = "rule"
    BY <1>2, <1>4, <2>1
  <2>2. CASE f[i].kind # "rule"
    <3>1. below[i] \in SUBSET Paths
      BY <1>3, <2>2
    <3>2. path[i] = Root => below[i] = {}
      BY <1>3, <1>5, <2>2
    <3>3. path[i] \in Paths => below[i] = {path[i]}
      <4> SUFFICES ASSUME path[i] \in Paths
                   PROVE  below[i] = {path[i]}
        OBVIOUS
      <4>1. Operands(f, i) # {} /\ \A c \in Operands(f, i) : below[c] = {path[i]}
        BY <1>5, <2>2
      <4> QED
        BY <1>3, <2>2, <4>1
    <3> QED
      BY <3>1, <3>2, <3>3
  <2> QED
    BY <2>1, <2>2
<1>7. n \in S
  <2> HIDE DEF S
  <2>1. \A i \in DOMAIN f : i \in S
    BY <1>6, TreeInduction
  <2> QED
    BY <2>1
<1> QED
  BY <1>3, <1>7 DEF path, below

(* A choice settles a node if the conditions below it hold for every       *)
(* choice that agrees with it on the arrays they are about.                *)
Settles(f, doc, chosen, n) ==
    \A other \in ObjectChoices(doc) :
        (\A p \in PathsBelow(f)[n] \cap DOMAIN chosen : other[p] = chosen[p])
        => other \in ChoicesFor(f, doc)[n]

(* The arrays of which a choice has an object                              *)
Present(doc) == {p \in Paths \cup {Root} : doc[p] # {}}

(* There is a choice of objects for every document.                        *)
LEMMA SomeChoice ==
    ASSUME NEW doc
    PROVE  /\ \A chosen : chosen = [p \in Present(doc) |-> chosen[p]]
                          /\ (\A p \in Present(doc) : chosen[p] \in doc[p]) => chosen \in ObjectChoices(doc)
           /\ \A chosen \in ObjectChoices(doc) : DOMAIN chosen = Present(doc)
           /\ \E chosen \in ObjectChoices(doc) : TRUE
<1>1. \A chosen : chosen = [p \in Present(doc) |-> chosen[p]]
                   /\ (\A p \in Present(doc) : chosen[p] \in doc[p]) => chosen \in ObjectChoices(doc)
  BY DEF ObjectChoices, Present
<1>2. \A chosen \in ObjectChoices(doc) : DOMAIN chosen = Present(doc)
  BY DEF ObjectChoices, Present
<1> DEFINE first == [p \in Present(doc) |-> CHOOSE object \in doc[p] : TRUE]
<1>3. first = [p \in Present(doc) |-> first[p]]
  OBVIOUS
<1>4. \A p \in Present(doc) : first[p] \in doc[p]
  BY DEF Present
<1> HIDE DEF first
<1> QED
  BY <1>1, <1>2, <1>3, <1>4

(* If the conditions are separable, a match of the query is one of a       *)
(* choice: those that settle the operands of an AND can be put together.   *)
LEMMA ChoiceFollows ==
    ASSUME NEW f, IsTree(f), Separable(f), NEW doc \in Documents, NEW object \in doc[Root],
           NEW n \in DOMAIN f, <<doc, object>> \in BuildFilter(f)[n]
    PROVE  \E chosen \in ObjectChoices(doc) : Settles(f, doc, chosen, n)
<1> DEFINE path == HomogeneousNestedPath(f)
           below == PathsBelow(f)
           nested == BuildNested(f)
           query == BuildFilter(f)
           holds == ChoicesFor(f, doc)
           Match == ObjectChoices(doc)
           pair == <<doc, object>>
           S == {i \in DOMAIN f : pair \in query[i] =>
                    \E chosen \in Match : Settles(f, doc, chosen, i)}
<1>1. \A i \in DOMAIN f : Operands(f, i) \in SUBSET DOMAIN f
  BY DEF Operands
<1>2. \A i \in DOMAIN f :
         /\ below[i] \in SUBSET Paths
         /\ f[i].kind # "rule" => \A c \in Operands(f, i) : below[c] \in SUBSET below[i]
         /\ path[i] = Root => below[i] = {}
         /\ path[i] \in Paths => below[i] = {path[i]}
  BY BelowAt
<1>3. \A i \in DOMAIN f, chosen \in Match : path[i] \in Paths =>
         (chosen \in holds[i] <=> path[i] \in DOMAIN chosen /\ <<doc, chosen[path[i]]>> \in nested[i])
  BY NestedMeans
<1>4. \A chosen \in Match : DOMAIN chosen = Present(doc) /\ doc[Root] = {chosen[Root]}
  BY ChosenObjects, SomeChoice
<1>5. \A i \in DOMAIN f, chosen \in Match :
         Settles(f, doc, chosen, i) <=>
            \A other \in Match : (\A p \in below[i] \cap Present(doc) : other[p] = chosen[p])
                                 => other \in holds[i]
  BY <1>4 DEF Settles
<1>6. PICK base \in Match : TRUE
  BY SomeChoice
<1>7. \A chosen : chosen = [p \in Present(doc) |-> chosen[p]]
                   /\ (\A p \in Present(doc) : chosen[p] \in doc[p]) => chosen \in Match
  BY SomeChoice
<1>8. \A chosen \in Match : \A p \in Present(doc) : chosen[p] \in doc[p]
  BY ChosenObjects, <1>4
<1> HIDE DEF path, below, nested, query, holds, Match, pair
<1>9. \A i \in DOMAIN f : (\A c \in Operands(f, i) : c \in S) => i \in S
  <2> SUFFICES ASSUME NEW i \in DOMAIN f, \A c \in Operands(f, i) : c \in S, pair \in query[i]
               PROVE  \E chosen \in Match : Settles(f, doc, chosen, i)
    OBVIOUS
  <2>1. CASE path[i] \in Paths
    <3>1. PICK o \in doc[path[i]] : <<doc, o>> \in nested[i]
      BY <2>1, QueryAt DEF path, nested, query, pair
    <3> DEFINE chosen == [p \in Present(doc) |-> IF p = path[i] THEN o ELSE base[p]]
    <3>2. path[i] \in Present(doc)
      BY <2>1, <3>1 DEF Present
    <3>3. chosen \in Match /\ chosen[path[i]] = o
      <4>1. chosen = [p \in Present(doc) |-> chosen[p]]
        OBVIOUS
      <4>2. \A p \in Present(doc) : chosen[p] \in doc[p]
        BY <1>6, <1>8, <3>1
      <4>3. chosen[path[i]] = o
        BY <3>2
      <4> HIDE DEF chosen
      <4> QED
        BY <1>7, <4>1, <4>2, <4>3
    <3> HIDE DEF chosen
    <3>4. \A other \in Match : (\A p \in below[i] \cap Present(doc) : other[p] = chosen[p])
                               => other \in holds[i]
      <4> SUFFICES ASSUME NEW other \in Match,
                          \A p \in below[i] \cap Present(doc) : other[p] = chosen[p]
                   PROVE  other \in holds[i]
        OBVIOUS
      <4>0. below[i] = {path[i]}
        BY <1>2, <2>1
      <4>1. path[i] \in below[i] \cap Present(doc)
        BY <3>2, <4>0
      <4>2. other[path[i]] = o
        BY <3>3, <4>1
      <4>3. path[i] \in DOMAIN other
        BY <1>4, <3>2
      <4>4. <<doc, other[path[i]]>> \in nested[i]
        BY <3>1, <4>2
      <4> QED
        BY <1>3, <2>1, <4>3, <4>4
    <3> QED
      BY <1>5, <3>3, <3>4
  <2>2. CASE path[i] \notin Paths /\ f[i].kind = "rule"
    <3>1. PathOf[f[i].field] = Root
      BY <2>2, PathAt DEF path
    <3>2. Meets(f[i], object)
      BY <2>2, QueryAt DEF path, query, pair
    <3>3. \A other \in Match : other \in holds[i]
      <4> SUFFICES ASSUME NEW other \in Match
                   PROVE  other \in holds[i]
        OBVIOUS
      <4>1. other[Root] = object /\ Root \in DOMAIN other
        BY ChosenObjects DEF Match
      <4> QED
        BY <2>2, <3>1, <3>2, <4>1, HoldsAt DEF holds, Match
    <3> QED
      BY <1>5, <1>6, <3>3
  <2>3. CASE path[i] \notin Paths /\ f[i].kind # "rule" /\ f[i].op # "and"
    <3>1. f[i].kind = "group" /\ f[i].op = "or"
      BY <2>3 DEF IsTree
    <3>2. Operands(f, i) # {}
      BY <3>1 DEF Separable, OfKind
    <3>3. PICK c \in Operands(f, i) : pair \in query[c]
      BY <2>3, <3>2, QueryAt DEF path, query, pair
    <3>4. PICK chosen \in Match : Settles(f, doc, chosen, c)
      BY <3>3
    <3>5. c \in DOMAIN f /\ below[c] \in SUBSET below[i]
      BY <1>1, <1>2, <2>3
    <3>6. \A other \in Match : other \in holds[c] => other \in holds[i]
      BY <2>3, HoldsAt DEF holds
    <3> QED
      BY <1>5, <3>4, <3>5, <3>6
  <2>4. CASE path[i] \notin Paths /\ f[i].kind # "rule" /\ f[i].op = "and"
    <3> DEFINE ops == Operands(f, i)
               Agrees(p, o) == \A d \in ops : path[d] = p => <<doc, o>> \in nested[d]
               Together(p) == CHOOSE o \in doc[p] : Agrees(p, o)
               Apart(p) == {c \in ops : path[c] \notin Paths /\ p \in below[c]}
               alone == [c \in ops |-> CHOOSE chosen \in Match : Settles(f, doc, chosen, c)]
               shared == {path[c] : c \in ops} \cap Paths
               chosen == [p \in Present(doc) |->
                            IF p \in shared THEN Together(p)
                            ELSE IF Apart(p) # {} THEN alone[CHOOSE c \in Apart(p) : TRUE][p]
                            ELSE base[p]]
    <3>1. ops \in SUBSET DOMAIN f /\ \A c \in ops : below[c] \in SUBSET below[i] /\ c \in S
      BY <1>1, <1>2, <2>4
    <3>2. \A c \in ops : IF path[c] \in Paths THEN \E o \in doc[path[c]] : Agrees(path[c], o)
                          ELSE pair \in query[c]
      BY <2>4, QueryAt DEF path, query, nested, pair
    <3>3. \A c, d \in ops : c # d => \A p \in below[c] \cap below[d] : path[c] = p
      <4>1. CASE path[i] = Mixed
        <5>1. f[i].kind = "group"
          BY <2>4 DEF IsTree
        <5> QED
          BY <2>4, <4>1, <5>1 DEF Separable, OfKind, path, below
      <4>2. CASE path[i] = Root
        BY <1>2, <3>1, <4>2
      <4> QED
        BY <2>4, <4>1, <4>2, PathAt DEF path
    <3>4. \A p \in shared : Together(p) \in doc[p] /\ Agrees(p, Together(p)) /\ p \in Present(doc)
      <4> SUFFICES ASSUME NEW p \in shared
                   PROVE  Together(p) \in doc[p] /\ Agrees(p, Together(p)) /\ p \in Present(doc)
        OBVIOUS
      <4> HIDE DEF Agrees
      <4>1. \E o \in doc[p] : Agrees(p, o)
        BY <3>2
      <4>2. Together(p) \in doc[p] /\ Agrees(p, Together(p))
        BY <4>1
      <4> QED
        BY <4>2 DEF Present
    <3>5. \A c \in ops : path[c] \notin Paths => alone[c] \in Match /\ Settles(f, doc, alone[c], c)
      BY <3>1, <3>2
    <3>6. \A p \in Present(doc) : Apart(p) # {} =>
             /\ (CHOOSE c \in Apart(p) : TRUE) \in ops
             /\ path[CHOOSE c \in Apart(p) : TRUE] \notin Paths
             /\ p \in below[CHOOSE c \in Apart(p) : TRUE]
      OBVIOUS
    <3> HIDE DEF Together, alone
    <3>7. chosen \in Match
      <4>1. chosen = [p \in Present(doc) |-> chosen[p]]
        OBVIOUS
      <4>2. \A p \in Present(doc) : chosen[p] \in doc[p]
        <5> SUFFICES ASSUME NEW p \in Present(doc)
                     PROVE  chosen[p] \in doc[p]
          OBVIOUS
        <5>1. CASE p \in shared
          BY <3>4, <5>1
        <5>2. CASE p \notin shared /\ Apart(p) # {}
          <6> DEFINE c == CHOOSE c \in Apart(p) : TRUE
          <6>1. c \in ops /\ path[c] \notin Paths
            BY <3>6, <5>2
          <6>2. chosen[p] = alone[c][p]
            BY <5>2
          <6> HIDE DEF c
          <6> QED
            BY <1>8, <3>5, <6>1, <6>2
        <5>3. CASE p \notin shared /\ Apart(p) = {}
          BY <1>6, <1>8, <5>3
        <5> QED
          BY <5>1, <5>2, <5>3
      <4> HIDE DEF chosen
      <4> QED
        BY <1>7, <4>1, <4>2
    <3>8. \A c \in ops : path[c] \notin Paths =>
             \A p \in below[c] \cap Present(doc) : chosen[p] = alone[c][p]
      <4> SUFFICES ASSUME NEW c \in ops, path[c] \notin Paths, NEW p \in below[c] \cap Present(doc)
                   PROVE  chosen[p] = alone[c][p]
        OBVIOUS
      <4>1. p \in Paths
        BY <1>2, <3>1
      <4>2. p \notin shared
        <5> SUFFICES ASSUME NEW d \in ops, path[d] = p
                     PROVE  FALSE
          OBVIOUS
        <5>1. d # c /\ p \in below[d]
          BY <1>2, <3>1, <4>1
        <5> QED
          BY <3>3, <4>1, <5>1
      <4> DEFINE d == CHOOSE d \in Apart(p) : TRUE
      <4>3. c \in Apart(p)
        OBVIOUS
      <4>4. d \in ops /\ p \in below[d] /\ chosen[p] = alone[d][p]
        BY <3>6, <4>2, <4>3
      <4> HIDE DEF d, chosen
      <4>5. d = c
        BY <3>3, <4>1, <4>4
      <4> QED
        BY <4>4, <4>5
    <3>9. \A p \in shared : chosen[p] = Together(p)
      BY <3>4
    <3> HIDE DEF chosen
    <3>10. \A other \in Match : (\A p \in below[i] \cap Present(doc) : other[p] = chosen[p])
                                => other \in holds[i]
      <4> SUFFICES ASSUME NEW other \in Match,
                          \A p \in below[i] \cap Present(doc) : other[p] = chosen[p]
                   PROVE  other \in holds[i]
        OBVIOUS
      <4>1. \A c \in ops : other \in holds[c]
        <5> SUFFICES ASSUME NEW c \in ops
                     PROVE  other \in holds[c]
          OBVIOUS
        <5>1. CASE path[c] \in Paths
          <6>1. path[c] \in shared /\ path[c] \in below[i]
            BY <1>2, <3>1, <5>1
          <6>2. path[c] \in Present(doc) /\ other[path[c]] = Together(path[c])
            BY <3>4, <3>9, <6>1
          <6>3. <<doc, other[path[c]]>> \in nested[c]
            BY <3>4, <6>1, <6>2
          <6> QED
            BY <1>3, <1>4, <3>1, <5>1, <6>2, <6>3
        <5>2. CASE path[c] \notin Paths
          <6>1. \A p \in below[c] \cap Present(doc) : other[p] = alone[c][p]
            BY <3>1, <3>8, <5>2
          <6> QED
            BY <1>5, <3>1, <3>5, <5>2, <6>1
        <5> QED
          BY <5>1, <5>2
      <4> QED
        BY <2>4, <4>1, HoldsAt DEF holds, Match
    <3> QED
      BY <1>5, <3>7, <3>10
  <2> QED
    BY <2>1, <2>2, <2>3, <2>4
<1>10. n \in S
  <2> HIDE DEF S
  <2>1. \A i \in DOMAIN f : i \in S
    BY <1>9, TreeInduction
  <2> QED
    BY <2>1
<1> QED
  BY <1>10 DEF query, Match, pair

(* A document that the filter means is found.                              *)
THEOREM MeantIsFound ==
    ASSUME NEW f, IsTree(f)
    PROVE  {doc \in Documents : Means(f, doc)} \subseteq Finds(BuildFilter(f)[1])
<1> SUFFICES ASSUME NEW doc \in Documents, Means(f, doc), NEW object \in doc[Root]
             PROVE  <<doc, object>> \in BuildFilter(f)[1]
  BY DEF Finds
<1>1. 1 \in DOMAIN f
  BY DEF IsTree
<1>2. PICK chosen : chosen \in ChoicesFor(f, doc)[1]
  BY DEF Means
<1>3. chosen \in ObjectChoices(doc)
  BY <1>1, <1>2, HoldsAt
<1>4. object = chosen[Root]
  BY <1>3, ChosenObjects
<1> QED
  BY <1>1, <1>2, <1>3, <1>4, QueryFollows

(* And if the conditions are separable, no others are.                     *)
THEOREM FoundIsMeant ==
    ASSUME NEW f, IsTree(f), Separable(f)
    PROVE  Finds(BuildFilter(f)[1]) = {doc \in Documents : Means(f, doc)}
<1> SUFFICES ASSUME NEW doc \in Documents, doc \in Finds(BuildFilter(f)[1])
             PROVE  Means(f, doc)
  <2>1. Finds(BuildFilter(f)[1]) \in SUBSET Documents
    BY DEF Finds
  <2> QED
    BY <2>1, MeantIsFound
<1>1. 1 \in DOMAIN f
  BY DEF IsTree
<1>2. PICK object \in doc[Root] : doc[Root] = {object}
  BY FilterAssumption
<1>3. <<doc, object>> \in BuildFilter(f)[1]
  BY <1>2 DEF Finds
<1>4. PICK chosen \in ObjectChoices(doc) : Settles(f, doc, chosen, 1)
  BY <1>1, <1>2, <1>3, ChoiceFollows
<1>5. chosen \in ChoicesFor(f, doc)[1]
  BY <1>4 DEF Settles
<1> QED
  BY <1>5 DEF Means
-----------------------------------------------------------------------------
(* NothingIsMissed: no execution is missed that one choice of objects      *)
(* would satisfy, however the rules are spread over groups                 *)
(* (filter.go:24).                                                         *)
THEOREM NothingIsEverMissed == Spec => []NothingIsMissed
<1>1. IInv => NothingIsMissed
  <2> SUFFICES ASSUME IInv, phase = "answered"
               PROVE  {doc \in Documents : Means(request, doc)} \subseteq found
    BY DEF NothingIsMissed
  <2>1. IsTree(request) /\ found = Finds(BuildFilter(request)[1])
    BY DEF IInv, Typed, Answered
  <2> QED
    BY <2>1, MeantIsFound
<1> QED
  BY <1>1, Invariance, PTL

(* QueryIsExact: "Conditions on fields within the same activity, child     *)
(* workflow, or search attribute are evaluated against the same nested     *)
(* object" (README.md:67): the query of separable conditions finds exactly *)
(* what the filter means.                                                  *)
THEOREM QueryIsAlwaysExact == Spec => []QueryIsExact
<1>1. IInv => QueryIsExact
  <2> SUFFICES ASSUME IInv, phase = "answered", Separable(request)
               PROVE  found = {doc \in Documents : Means(request, doc)}
    BY DEF QueryIsExact
  <2>1. IsTree(request) /\ found = Finds(BuildFilter(request)[1])
    BY DEF IInv, Typed, Answered
  <2> QED
    BY <2>1, FoundIsMeant
<1> QED
  BY <1>1, Invariance, PTL
=============================================================================
