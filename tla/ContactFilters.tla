--------------------------- MODULE ContactFilters ---------------------------
(***************************************************************************)
(* The filter language behind segments, condition nodes, broadcasts and     *)
(* inbox rules (contacts/conditions.py, with the sources that               *)
(* messaging/conditions.py and campaigns/conditions.py register), and the   *)
(* saved segments it may refer to (contacts/services.py).                   *)
(*                                                                         *)
(* A contact is the record of what rules can ask about.  A cell holds one   *)
(* value under the name of its type, or NoValue: SQL's NULL in a column, no *)
(* row at all for a custom field.  A compiled predicate has one of SQL's    *)
(* three truth values.                                                     *)
(***************************************************************************)
EXTENDS Integers, Sequences, FiniteSets

CONSTANTS
    Segment, Saver,
    Contact,           \* the workspace's contacts, as records
    FieldType,         \* [custom field -> its type]
    HasWindow,         \* platforms with a messaging window
    Folded,            \* text -> the same in lower case
    Within,            \* pairs of folded texts, the second part of the first
    Dawn,              \* [day -> moment it begins], in the workspace's zone
    FilterDocument,    \* documents somebody may use
    SegmentDocument,   \* documents somebody may save
    Now0, LastNow,     \* bound: the moments the clock goes through
    MaxSegmentDepth, MaxTotalRules

DaysInOrder ==
    /\ DOMAIN Dawn \subseteq Int /\ Dawn \in [DOMAIN Dawn -> Int]
    /\ \A d, e \in DOMAIN Dawn : d < e => Dawn[d] < Dawn[e]

ASSUME FilterAssumption ==
    /\ {Now0, LastNow, MaxSegmentDepth, MaxTotalRules} \subseteq Nat
    /\ Now0 <= LastNow
    /\ DaysInOrder

VARIABLES
    now,
    segments,          \* [saved segment -> its document]
    saving,            \* [Saver -> the validated [segment -> document] to save, or <<>>]
    held               \* the CompiledFilter in use, or <<>>

filterVars == <<now, segments, saving, held>>

NoValue == [none |-> 0]

OpsByType == [text |-> {"is", "is_not", "contains", "has_value", "no_value"},
              number |-> {"=", "!=", ">", "<", ">=", "<="},
              date |-> {"before", "after", "on"},
              datetime |-> {"before", "after", "on"},
              boolean |-> {"is"}]

OpsBySource == [tag |-> {"has", "has_not"}, segment |-> {"in", "not_in"},
                sequence |-> {"subscribed", "not"}, window |-> {"inside", "outside"}]

Negation == [is_not |-> "is", no_value |-> "has_value", has_not |-> "has",
             not_in |-> "in", not |-> "subscribed", outside |-> "inside"]

\* "!=" cannot be a field's name.
PositiveOf(op) ==
    IF op = "!=" THEN "=" ELSE IF op \in DOMAIN Negation THEN Negation[op] ELSE op

SystemType == [first_name |-> "text", last_interaction_at |-> "datetime"]

TypeOf(rule) ==
    IF rule.source = "custom_field" THEN FieldType[rule.key] ELSE SystemType[rule.key]

Legal(rule) ==
    IF rule.source \in DOMAIN OpsBySource
    THEN rule.op \in OpsBySource[rule.source]
    ELSE rule.op \in OpsByType[TypeOf(rule)]

-----------------------------------------------------------------------------
(* Validation: every chain of references from the document, one group each. *)

Refs(document) == {r.key : r \in {r \in document.rules : r.source = "segment"}}

Chains(document, segs) ==
    LET of[n \in 1..MaxSegmentDepth + 1] ==
          IF n = 1
          THEN {<<s>> : s \in Refs(document)}
          ELSE UNION {{Append(c, s) : s \in Refs(segs[c[n - 1]])} :
                        c \in {c \in of[n - 1] : c[n - 1] \in DOMAIN segs}}
    IN  UNION {of[n] : n \in DOMAIN of}

RulesIn(chains, segs) ==
    Cardinality(UNION {{c} \X segs[c[Len(c)]].rules : c \in chains})

Valid(document, segs, seen) ==
    LET chains == Chains(document, segs)
        groups == {document} \cup {segs[c[Len(c)]] : c \in chains}
    IN  /\ \A c \in chains :
             /\ {c[i] : i \in DOMAIN c} \subseteq DOMAIN segs \ seen
             /\ \A i, j \in DOMAIN c : c[i] = c[j] => i = j
             /\ Len(c) <= MaxSegmentDepth
        /\ \A g \in groups : \A r \in g.rules : Legal(r)
        /\ Cardinality(document.rules) + RulesIn(chains, segs) <= MaxTotalRules

-----------------------------------------------------------------------------
(* Compilation.                                                            *)

Truth == {"true", "false", "null"}
Holds(b) == IF b THEN "true" ELSE "false"
NotQ(q) == CASE q = "true" -> "false" [] q = "false" -> "true" [] q = "null" -> "null"

AndQ(qs) == IF "false" \in qs THEN "false" ELSE IF "null" \in qs THEN "null" ELSE "true"
OrQ(qs) == IF "true" \in qs THEN "true" ELSE IF "null" \in qs THEN "null" ELSE "false"

DayOf(m) == CHOOSE d \in DOMAIN Dawn : Dawn[d] <= m /\ d + 1 \in DOMAIN Dawn /\ m < Dawn[d + 1]

\* RelativeDay.resolve: when the filter runs, not when it was validated.
ResolveDay(value, moment) ==
    IF "offset" \in DOMAIN value THEN DayOf(moment) + value.offset ELSE value.day

\* A document names the sources and fields there are; _parse_rule and _resolve_group
\* refuse it otherwise.  Its days are assumed to have a next one, and the code takes
\* the last day of the year 9999 too, whose end overflows.  A contact has a first name.
IsDay(day) == {day, day + 1} \subseteq DOMAIN Dawn

IsMoment(m) == m \in Int /\ \E d \in DOMAIN Dawn : IsDay(d) /\ Dawn[d] <= m /\ m < Dawn[d + 1]

Formed(rule) ==
    /\ rule.source \in DOMAIN OpsBySource \cup {"custom_field", "system_field"}
    /\ rule.source = "custom_field" => rule.key \in DOMAIN FieldType
    /\ rule.source = "system_field" => rule.key \in DOMAIN SystemType
    /\ rule.source \notin DOMAIN OpsBySource /\ TypeOf(rule) = "datetime" =>
          \A m \in Now0..LastNow : IsDay(ResolveDay(rule.value, m))

AllFormed ==
    /\ FieldType \in [DOMAIN FieldType -> DOMAIN OpsByType]
    /\ \A d \in FilterDocument \cup SegmentDocument :
          d.match \in {"all", "any"} /\ \A r \in d.rules : Formed(r)
    /\ \A c \in Contact :
          /\ c.first_name # NoValue
          /\ c.last_interaction_at # NoValue => IsMoment(c.last_interaction_at.moment)
          /\ \A f \in DOMAIN FieldType :
                FieldType[f] = "datetime" /\ c.fields[f] # NoValue => IsMoment(c.fields[f].moment)

ASSUME FormAssumption == AllFormed

\* Mutant: as many hours later as the first day of the calendar has.
DayEndFixed(day) == Dawn[day] + Dawn[1] - Dawn[0]

\* The next midnight on the wall, whatever the length of the day.
DayEnd(day) == Dawn[day + 1]

Ordered(op, x, y) ==
    \/ op \in {"=", "on"} /\ x = y
    \/ op \in {">", "after"} /\ x > y
    \/ op \in {"<", "before"} /\ x < y
    \/ op = ">=" /\ x >= y
    \/ op = "<=" /\ x <= y

TextMatches(op, text, value) ==
    IF op = "contains" THEN <<Folded[text], Folded[value]>> \in Within
    ELSE Folded[text] = Folded[value]

InDay(op, m, day) ==
    \/ op = "before" /\ m < Dawn[day]
    \/ op = "after" /\ m >= DayEnd(day)
    \/ op = "on" /\ Dawn[day] <= m /\ m < DayEnd(day)

PopulatedQ(cell, type) == Holds(cell # NoValue /\ (type = "text" => cell.text # ""))

ValueQ(cell, type, op, value) ==
    IF cell = NoValue THEN "null"
    ELSE Holds(CASE type = "text" -> TextMatches(op, cell.text, value.text)
                 [] type = "number" -> Ordered(op, cell.number, value.number)
                 [] type = "boolean" -> cell.bool = value.bool
                 [] type = "date" -> Ordered(op, cell.day, ResolveDay(value, now))
                 [] type = "datetime" -> InDay(op, cell.moment, ResolveDay(value, now)))

PositiveQ(cell, type, op, value) ==
    IF op = "has_value" THEN PopulatedQ(cell, type) ELSE ValueQ(cell, type, op, value)

\* EXISTS over rows: a predicate that is NULL selects no row.
Exists(qs) == Holds("true" \in qs)
Signed(q, rule) == IF PositiveOf(rule.op) = rule.op THEN q ELSE NotQ(q)

TagQ(contact, rule) == Signed(Holds(rule.key \in contact.tags), rule)

CustomFieldQ(contact, rule) ==
    LET cell == contact.fields[rule.key]
        rows == IF cell = NoValue THEN {} ELSE {cell}
    IN  Signed(Exists({PositiveQ(row, TypeOf(rule), PositiveOf(rule.op), rule.value) : row \in rows}), rule)

Definite(q, cell) == AndQ({q, Holds(cell # NoValue)})

SystemFieldQ(contact, rule) ==
    LET cell == contact[rule.key]
        q == PositiveQ(cell, TypeOf(rule), PositiveOf(rule.op), rule.value)
    IN  Signed(IF rule.key = "last_interaction_at" THEN Definite(q, cell) ELSE q, rule)

SequenceQ(contact, rule) == Signed(Holds(<<rule.key, "active">> \in contact.enrollments), rule)

WindowQ(contact, rule) ==
    LET open(i) == IF i.until = NoValue THEN "null" ELSE Holds(i.until.moment > now)
        rows == {i \in contact.identities : i.platform = rule.key /\ i.opt_in /\ ~i.out}
    IN  Signed(Exists({IF rule.key \in HasWindow THEN open(i) ELSE "true" : i \in rows}), rule)

RuleQ(contact, rule, inner) ==
    CASE rule.source = "tag" -> TagQ(contact, rule)
      [] rule.source = "custom_field" -> CustomFieldQ(contact, rule)
      [] rule.source = "system_field" -> SystemFieldQ(contact, rule)
      [] rule.source = "segment" -> Signed(inner[rule.key], rule)
      [] rule.source = "sequence" -> SequenceQ(contact, rule)
      [] rule.source = "window" -> WindowQ(contact, rule)

GroupQ(group, contact, inner) ==
    LET qs == {RuleQ(contact, r, inner) : r \in group.rules}
    IN  IF group.match = "all" THEN AndQ(qs) ELSE OrQ(qs)

\* At each depth, the predicate of every segment; none where nothing may refer to.
SegmentQs(segs, contact) ==
    LET of[d \in 0..MaxSegmentDepth] ==
          IF d = 0 THEN <<>>
          ELSE [s \in DOMAIN segs |-> GroupQ(segs[s], contact, of[d - 1])]
    IN  of

CompileQ(filter, contact) ==
    GroupQ(filter.document, contact, SegmentQs(filter.expansion, contact)[MaxSegmentDepth])

QuerySet(filter) == {c \in Contact : c.active /\ CompileQ(filter, c) = "true"}

-----------------------------------------------------------------------------
(* Saving segments and holding a compiled filter.                          *)

FilterInit ==
    /\ now = Now0
    /\ segments = <<>>
    /\ saving = [w \in Saver |-> <<>>]
    /\ held = <<>>

\* create_segment has no id to exclude; update_segment excludes its own.
ValidateSave(w, s, document) ==
    /\ held = <<>>
    /\ saving[w] = <<>>
    /\ Valid(document, segments, IF s \in DOMAIN segments THEN {s} ELSE {})
    /\ saving' = [saving EXCEPT ![w] = [t \in {s} |-> document]]
    /\ UNCHANGED <<now, segments, held>>

\* Another request may have saved or deleted what this one was checked against.
WriteSave(w) ==
    /\ saving[w] # <<>>
    /\ segments' = [t \in DOMAIN saving[w] \cup DOMAIN segments |->
                      IF t \in DOMAIN saving[w] THEN saving[w][t] ELSE segments[t]]
    /\ saving' = [saving EXCEPT ![w] = <<>>]
    /\ UNCHANGED <<now, held>>

DeleteSegment(s) ==
    /\ held = <<>>
    /\ s \in DOMAIN segments
    /\ segments' = [t \in DOMAIN segments \ {s} |-> segments[t]]
    /\ UNCHANGED <<now, saving, held>>

\* validate() expands every reference: later edits do not reach the result.
\* Bound: it is asked when no save is open, and nothing is saved while held.
Validate(document) ==
    /\ held = <<>>
    /\ \A w \in Saver : saving[w] = <<>>
    /\ Valid(document, segments, {})
    /\ held' = <<[document |-> document, expansion |-> segments]>>
    /\ UNCHANGED <<now, segments, saving>>

TimePasses ==
    /\ held # <<>>
    /\ now < LastNow
    /\ now' = now + 1
    /\ UNCHANGED <<segments, saving, held>>

FilterNext ==
    \/ TimePasses
    \/ \E d \in FilterDocument : Validate(d)
    \/ \E s \in Segment : DeleteSegment(s)
    \/ \E w \in Saver : \/ WriteSave(w)
                        \/ \E s \in Segment, d \in SegmentDocument : ValidateSave(w, s, d)

FilterSpec == FilterInit /\ [][FilterNext]_filterVars

-----------------------------------------------------------------------------
(* What a filter means, without SQL: sets of contacts and calendar days.   *)

Asks(cell, type, op, value) ==
    /\ cell # NoValue
    /\ CASE op = "has_value" -> type = "text" => cell.text # ""
         [] op # "has_value" /\ type = "text" -> TextMatches(op, cell.text, value.text)
         [] op # "has_value" /\ type = "number" -> Ordered(op, cell.number, value.number)
         [] op # "has_value" /\ type = "boolean" -> cell.bool = value.bool
         [] op # "has_value" /\ type = "date" -> Ordered(op, cell.day, ResolveDay(value, now))
         [] op # "has_value" /\ type = "datetime" ->
              Ordered(op, DayOf(cell.moment), ResolveDay(value, now))

Reachable(identity, platform) ==
    /\ identity.platform = platform /\ identity.opt_in /\ ~identity.out
    /\ platform \in HasWindow => identity.until # NoValue /\ identity.until.moment > now

Matching(rule, inner) ==
    LET op == PositiveOf(rule.op)
        yes == CASE rule.source = "tag" -> {c \in Contact : rule.key \in c.tags}
                 [] rule.source = "custom_field" ->
                      {c \in Contact : Asks(c.fields[rule.key], TypeOf(rule), op, rule.value)}
                 [] rule.source = "system_field" ->
                      {c \in Contact : Asks(c[rule.key], TypeOf(rule), op, rule.value)}
                 [] rule.source = "segment" -> inner[rule.key]
                 [] rule.source = "sequence" -> {c \in Contact : <<rule.key, "active">> \in c.enrollments}
                 [] rule.source = "window" ->
                      {c \in Contact : \E i \in c.identities : Reachable(i, rule.key)}
    IN  IF op = rule.op THEN yes ELSE Contact \ yes

Meet(group, inner) ==
    LET each == {Matching(r, inner) : r \in group.rules}
    IN  IF group.match = "all" THEN {c \in Contact : \A m \in each : c \in m}
                               ELSE {c \in Contact : \E m \in each : c \in m}

SegmentSets(segs) ==
    LET of[d \in 0..MaxSegmentDepth] ==
          IF d = 0 THEN <<>> ELSE [s \in DOMAIN segs |-> Meet(segs[s], of[d - 1])]
    IN  of

Meaning(filter) ==
    {c \in Meet(filter.document, SegmentSets(filter.expansion)[MaxSegmentDepth]) : c.active}

(***************************************************************************)
(* A filter in use selects exactly the active contacts it describes: an     *)
(* operator and its negation part the workspace between them, with NULL     *)
(* columns, missing rows and segments within segments; and a date is a      *)
(* calendar day of the workspace, counted from the day the filter runs on,  *)
(* on days of any length (conditions.py: "Every predicate is two-valued").  *)
(***************************************************************************)
FilterMeansWhatItSays == held # <<>> => QuerySet(held[1]) = Meaning(held[1])
=============================================================================
