------------------------------ MODULE Rulebook ------------------------------
(***************************************************************************)
(* The knowledge base of a category (kb/lookup.py) and what the two        *)
(* prompts make of it (llm/triage.py): the playbook, for the proposer, and *)
(* the decision table, for the verifier and the gate.  A file that is not  *)
(* there is Null.  A playbook is its text and the name in its title line;  *)
(* a table is the document its YAML holds, a value of a condition a list   *)
(* of words, an integer or something else.                                 *)
(***************************************************************************)
EXTENDS Gate, Sequences, FiniteSets

CONSTANTS
    RuleIds,     \* identifiers of the loader's pattern, _RULE_ID_RE
    RuleRefs     \* those of the builder's, rule_ref

ASSUME RulebookAssumption == RuleRefs \subseteq RuleIds

\* get_playbook
GetPlaybook(kb) ==
    IF kb.category = "unknown" \/ kb.playbook = Null THEN Null ELSE kb.playbook.text

\* _validate_condition, of one key.
ValidValue(key, value) ==
    \/ /\ key \in DOMAIN Vocab
       /\ value.kind = "list" /\ value.of # {} /\ value.of \subseteq Vocab[key]
    \/ key \in DOMAIN Bounds /\ value.kind = "int"

ValidCondition(raw) == DOMAIN raw # {} /\ \A key \in DOMAIN raw : ValidValue(key, raw[key])

\* _validate_rule: the identifiers of the rules before it are taken.
ValidRule(rules, i) ==
    /\ rules[i].id \in RuleIds
    /\ \A j \in 1 .. i - 1 : rules[j].id # rules[i].id
    /\ rules[i].then \in Verdicts
    /\ ValidCondition(rules[i].if)

(* The bug that takes the name of a playbook without its file.             *)
ValidDocumentAlone(kb) ==
    LET raw == kb.table
    IN  /\ raw.mapping /\ raw.category = kb.category
        /\ \A i \in DOMAIN raw.rules : ValidRule(raw.rules, i)

\* What get_decision_table refuses; it fails on an empty playbook too.
ValidDocument(kb) ==
    LET raw == kb.table
    IN  /\ raw.mapping /\ raw.category = kb.category
        /\ kb.playbook # Null /\ kb.playbook.text # "" /\ raw.playbook = kb.playbook.name
        /\ \A i \in DOMAIN raw.rules : ValidRule(raw.rules, i)

Parsed(raw) ==
    [reviewed |-> Null \notin {raw.reviewed_by, raw.reviewed_at},
     rules |-> {[id |-> rule.id, action |-> rule.then,
                 condition |-> [key \in DOMAIN rule.if |-> rule.if[key].of]] :
                   rule \in {raw.rules[i] : i \in DOMAIN raw.rules}}]

Refused == [refused |-> TRUE]
LoadedTable(table) == [refused |-> FALSE, table |-> table]

GetDecisionTable(kb) ==
    CASE kb.category = "unknown" \/ kb.table = Null -> LoadedTable(Null)
      [] kb.category # "unknown" /\ kb.table # Null /\ ~ ValidDocument(kb) -> Refused
      [] OTHER -> LoadedTable(Parsed(kb.table))
---------------------------------------------------------------------------
\* _playbook_section: the prose is sent when there is any, reviewed table or not.
PlaybookSection(kb, table) ==
    CASE GetPlaybook(kb) \in {Null, ""} ->
            [prose |-> FALSE, effective |-> Null, warnings |-> {"no_playbook"}]
      [] GetPlaybook(kb) \notin {Null, ""} /\ table = Null ->
            [prose |-> TRUE, effective |-> Null, warnings |-> {"no_table"}]
      [] GetPlaybook(kb) \notin {Null, ""} /\ table # Null /\ ~ table.reviewed ->
            [prose |-> TRUE, effective |-> Null, warnings |-> {"unreviewed"}]
      [] OTHER -> [prose |-> TRUE, effective |-> kb.category, warnings |-> {}]

\* The facts of one line of the table: one for every word of a list, one for a number.
Line(rule) ==
    {<<"rule", rule.id>>, <<"then", rule.action>>}
    \cup (UNION {{<<key, word>> : word \in rule.condition[key]} :
                    key \in DOMAIN rule.condition \cap DOMAIN Vocab})
    \cup {<<key, rule.condition[key]>> : key \in DOMAIN rule.condition \cap DOMAIN Bounds}

(* The bug that shows a table nobody has reviewed.                         *)
ShownUnreviewed(table) == table # Null

Shown(table) == table # Null /\ table.reviewed

\* _table_section: a rule whose identifier the builder does not take is left out.
TableSection(category, table) ==
    IF ~ Shown(table)
    THEN [effective |-> Null, lines |-> {},
          warnings |-> IF table # Null THEN {"unreviewed"}
                       ELSE IF category = "unknown" THEN {"no_playbook"} ELSE {"no_table"}]
    ELSE [effective |-> category,
          lines |-> {Line(rule) : rule \in {r \in table.rules : r.id \in RuleRefs}},
          warnings |-> {<<"invalid_rule_ref", r.id>> : r \in {r \in table.rules : r.id \notin RuleRefs}}]
---------------------------------------------------------------------------
(***************************************************************************)
(* What the definitions are held to.                                       *)
(***************************************************************************)
(* The condition a reader of a line takes from it.                         *)
Read(line) ==
    LET keys == {f[1] : f \in line} \ {"rule", "then"}
    IN  [key \in keys |-> IF key \in DOMAIN Vocab THEN {f[2] : f \in {g \in line : g[1] = key}}
                         ELSE (CHOOSE f \in line : f[1] = key)[2]]

(* Unless the files are refused, the playbook the gate's record names as   *)
(* used is that of a reviewed table; the verifier is shown the very rules  *)
(* the gate may find to hold, but for those it cannot be shown, and from a *)
(* line reads the rule's own condition; and an identifier is one rule's.   *)
RulebookSound(kb) ==
    LET loaded == GetDecisionTable(kb)
        table == loaded.table
        prose == PlaybookSection(kb, table)
        rules == TableSection(kb.category, table)
    IN  ~ loaded.refused =>
          /\ prose.effective = rules.effective
          /\ prose.effective # Null =>
                /\ prose.prose /\ Null \notin {kb.table.reviewed_by, kb.table.reviewed_at}
                /\ Cardinality(rules.lines) + Cardinality(rules.warnings) = Len(kb.table.rules)
                /\ \A rule \in table.rules :
                      /\ \A other \in table.rules : other.id = rule.id => other = rule
                      /\ rule.id \in RuleRefs =>
                            \E line \in rules.lines :
                               /\ {<<"rule", rule.id>>, <<"then", rule.action>>} \subseteq line
                               /\ Read(line) = rule.condition

(* On the bounds of the tables of kb/, the consistency grid misses no      *)
(* contradiction: where two rules of different actions both hold, they     *)
(* both hold at a point of the grid.                                       *)
GridSuffices(table, levels, counts) ==
    CheckConsistency(table) =>
        \A level \in levels, count \in counts, ioc \in Vocab.ioc_reputation,
           asset \in Vocab.asset_criticality, priv \in Vocab.identity_privileged :
           ~ Contradicts(table, [severity |-> SeverityFor(level), rule_level |-> level,
                                 ioc_reputation |-> ioc, asset_criticality |-> asset,
                                 identity_privileged |-> priv, occurrence_count |-> count])
=============================================================================
