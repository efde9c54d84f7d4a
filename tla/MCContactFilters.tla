--------------------------- MODULE MCContactFilters ---------------------------
(***************************************************************************)
(* A small workspace for ContactFilters.  Two contacts, one new and one     *)
(* with everything filled in, and every contact that differs from one of    *)
(* them in one thing a rule can ask about; every rule over those things;    *)
(* every document of one rule and the pairs of four of them.  The calendar  *)
(* has five days of two moments, the second of them an hour longer.         *)
(***************************************************************************)
EXTENDS ContactFilters, TLC

MCFieldType == [nick |-> "text", score |-> "number", member |-> "boolean", born |-> "date"]
MCFolded == ("" :> "" @@ "vip" :> "vip" @@ "VIP" :> "vip" @@ "vip gold" :> "vip gold")
MCWithin == {<<"vip gold", "vip">>, <<"vip gold", "vip gold">>, <<"vip", "vip">>}
               \cup {<<t, "">> : t \in {"", "vip", "vip gold"}}
\* The second day is an hour longer than the others.
MCDawn == (0 :> 0 @@ 1 :> 2 @@ 2 :> 5 @@ 3 :> 7 @@ 4 :> 9)

NewContact == [active |-> TRUE, first_name |-> [text |-> ""], last_interaction_at |-> NoValue,
               tags |-> {}, fields |-> [f \in DOMAIN MCFieldType |-> NoValue],
               enrollments |-> {}, identities |-> {}]
OldContact == [active |-> TRUE, first_name |-> [text |-> "vip"], last_interaction_at |-> [moment |-> 3],
               tags |-> {"t1"},
               fields |-> [nick |-> [text |-> "VIP"], score |-> [number |-> 1],
                           member |-> [bool |-> FALSE], born |-> [day |-> 1]],
               enrollments |-> {<<"q1", "active">>},
               identities |-> {[platform |-> "messenger", opt_in |-> TRUE, out |-> FALSE, until |-> [moment |-> 4]]}]
Identities == [platform : {"messenger", "sms"}, opt_in : BOOLEAN, out : BOOLEAN,
               until : {NoValue, [moment |-> 4]}]
MCContact ==
    UNION {UNION {
        {b, [b EXCEPT !.active = FALSE], [b EXCEPT !.tags = {"t1"}], [b EXCEPT !.tags = {}]},
        {[b EXCEPT !.first_name = [text |-> t]] : t \in DOMAIN MCFolded},
        {[b EXCEPT !.last_interaction_at = [moment |-> m]] : m \in 0..8},
        {[b EXCEPT !.last_interaction_at = NoValue]},
        {[b EXCEPT !.fields = [OldContact.fields EXCEPT !.nick = NoValue]]},
        {[b EXCEPT !.fields.nick = [text |-> t]] : t \in DOMAIN MCFolded},
        {[b EXCEPT !.fields.score = [number |-> n]] : n \in 0..2},
        {[b EXCEPT !.fields.member = [bool |-> v]] : v \in BOOLEAN},
        {[b EXCEPT !.fields.born = [day |-> d]] : d \in 0..3},
        {[b EXCEPT !.enrollments = {<<"q1", e>>}] : e \in {"active", "completed"}},
        {[b EXCEPT !.identities = {i}] : i \in Identities}}
      : b \in {NewContact, OldContact}}

Rule(source, key, op, value) == [source |-> source, key |-> key, op |-> op, value |-> value]
Days == {[day |-> 1], [day |-> 2]} \cup {[offset |-> n] : n \in -1..1}
Texts == {[text |-> t] : t \in {"", "VIP"}}
MCRules == UNION {
    {Rule("tag", "t1", op, NoValue) : op \in {"has", "has_not"}},
    {Rule("segment", s, op, NoValue) : s \in {"g1", "g2"}, op \in {"in", "not_in"}},
    {Rule("sequence", "q1", op, NoValue) : op \in {"subscribed", "not"}},
    {Rule("window", p, op, NoValue) : p \in {"messenger", "sms"}, op \in {"inside", "outside"}},
    {Rule("custom_field", "nick", op, v) : op \in {"is", "is_not", "contains"}, v \in Texts},
    {Rule("system_field", "first_name", op, v) : op \in {"is", "is_not", "contains"}, v \in Texts},
    {Rule("custom_field", "nick", op, NoValue) : op \in {"has_value", "no_value"}},
    {Rule("system_field", "first_name", op, NoValue) : op \in {"has_value", "no_value"}},
    {Rule("custom_field", "score", op, [number |-> 1]) : op \in OpsByType.number},
    {Rule("custom_field", "member", "is", [bool |-> v]) : v \in BOOLEAN},
    {Rule("custom_field", "born", op, v) : op \in OpsByType.date, v \in Days},
    {Rule("system_field", "last_interaction_at", op, v) : op \in OpsByType.datetime, v \in Days}}
Some == {Rule("tag", "t1", "has_not", NoValue), Rule("segment", "g1", "not_in", NoValue),
         Rule("system_field", "last_interaction_at", "before", [offset |-> 0]),
         Rule("custom_field", "nick", "is_not", [text |-> "VIP"])}
Documents(rules) == {[match |-> m, rules |-> rs] : m \in {"all", "any"}, rs \in rules}
MCFilterDocument == Documents({{}} \cup {{r} : r \in MCRules} \cup {{r, s} : r, s \in Some})
MCSegmentDocument ==
    Documents({{}}) \cup
    {[match |-> "all", rules |-> {r}] : r \in {Rule("segment", "g1", "in", NoValue), Rule("segment", "g2", "not_in", NoValue),
        Rule("system_field", "last_interaction_at", "on", [offset |-> -1]),
        Rule("custom_field", "score", "contains", [text |-> "VIP"])}}

\* What refers to no segment is asked before any is saved only.
FilterBound ==
    held = <<>> /\ held' # <<>> => Refs(held'[1].document) # {} \/ segments = <<>>
=============================================================================
