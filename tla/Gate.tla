-------------------------------- MODULE Gate --------------------------------
(***************************************************************************)
(* The verdict gate (security/gate.py), with the decision tables it asks   *)
(* (kb/lookup.py) and the rule check tier1/triage.py hands to it.          *)
(*                                                                         *)
(* The module is pure: a gate state is a record, a step maps one gate      *)
(* state to the next.  A proposal is a triage_v2 document that passed its  *)
(* schema; a fact record has the keys of llm/triage.build_facts that the   *)
(* gate and the tables read.  A quote is an opaque value; Blocks[s] is the *)
(* set of quotes that are, once normalised, substrings of the block s.     *)
(***************************************************************************)
EXTENDS Integers

CONSTANTS
    Null,       \* Python's None
    EmptyQuote  \* a quote that normalises to the empty string

Verdicts == {"false_positive", "needs_review", "escalate"}

(* The closed vocabularies of the string facts. *)
Vocab == [severity            |-> {"critical", "high", "medium", "low"},
          ioc_reputation      |-> {"malicious", "suspicious", "clean", "not_found", "skipped"},
          asset_criticality   |-> {"high", "medium", "low", "unknown"},
          identity_privileged |-> {"true", "false", "unknown"}]

SeverityFor(level) == CASE level >= 12 -> "critical"
                        [] level \in 8 .. 11 -> "high"
                        [] level \in 5 .. 7 -> "medium"
                        [] OTHER -> "low"

---------------------------------------------------------------------------
(* Decision tables.  A rule's condition maps the keys it names to their    *)
(* bound: a set of words, or a number for the four *_lt and *_gte keys.    *)

Bounds == [occurrence_lt  |-> "occurrence_count", occurrence_gte |-> "occurrence_count",
           rule_level_lt  |-> "rule_level",       rule_level_gte |-> "rule_level"]

KeyHolds(key, bound, facts) ==
    \/ key \in DOMAIN Vocab /\ facts[key] \in bound
    \/ key \in {"occurrence_lt", "rule_level_lt"} /\ facts[Bounds[key]] < bound
    \/ key \in {"occurrence_gte", "rule_level_gte"} /\ facts[Bounds[key]] >= bound

RuleMatches(rule, facts) ==
    \A key \in DOMAIN rule.condition : KeyHolds(key, rule.condition[key], facts)

RuleCheckAnyAction(table, cited, facts) ==
    /\ cited # Null /\ table # Null
    /\ table.reviewed
    /\ \E rule \in table.rules : rule.id = cited /\ RuleMatches(rule, facts)

(* The cited rule exists in a reviewed table, holds and says so.  Rule ids *)
(* are unique in a table: loading it refuses a duplicate.                  *)
RuleCheck(table, cited, facts) ==
    /\ cited # Null /\ table # Null
    /\ table.reviewed
    /\ \E rule \in table.rules : /\ rule.id = cited
                                 /\ RuleMatches(rule, facts)
                                 /\ rule.action = "false_positive"

(* What apply_table returns is the first rule in file order; what the      *)
(* consistency check promises is that the order does not matter.           *)
Contradicts(table, facts) ==
    \E r, s \in table.rules : /\ RuleMatches(r, facts) /\ RuleMatches(s, facts)
                              /\ r.action # s.action

GridLevels == {0, 3, 5, 8, 12, 15}
GridCounts == {1, 10, 49, 50, 100, 999, 1000}

CheckConsistency(table) ==
    \A level \in GridLevels, count \in GridCounts, ioc \in Vocab.ioc_reputation,
       asset \in Vocab.asset_criticality, priv \in Vocab.identity_privileged :
       ~ Contradicts(table, [severity |-> SeverityFor(level), rule_level |-> level,
                             ioc_reputation |-> ioc, asset_criticality |-> asset,
                             identity_privileged |-> priv, occurrence_count |-> count])

---------------------------------------------------------------------------
(* The steps.  forced_by and missing are lists in the code whose entries   *)
(* are distinct and in step order: sets.                                   *)

Start(p) == [proposed |-> p.suggested_action, verdict |-> p.suggested_action,
             reasons |-> p.reasons, forced_by |-> {}, missing |-> {}]

ForceNeedsReview(g, step) == [g EXCEPT !.verdict = "needs_review", !.forced_by = @ \cup {step}]

BasisFields == DOMAIN Vocab \cup {"occurrence_count"}

Mismatched(p, facts) == {field \in BasisFields : p.basis[field] # facts[field]}

Step2(g, p, facts) == IF Mismatched(p, facts) = {} THEN g ELSE ForceNeedsReview(g, "step2")

Quoted(reason, blocks) ==
    /\ reason.source \in DOMAIN blocks
    /\ reason.quote # EmptyQuote
    /\ reason.quote \in blocks[reason.source]

Step3(g, blocks) ==
    LET survivors == {r \in g.reasons : Quoted(r, blocks)}
        kept == [g EXCEPT !.reasons = survivors]
    IN  IF survivors = {} THEN ForceNeedsReview(kept, "step3") ELSE kept

(* The facts that forbid a false positive, by name. *)
Forbidden(facts) ==
    {field \in DOMAIN Vocab :
        facts[field] \in [severity            |-> {"critical"},
                          ioc_reputation      |-> {"malicious", "suspicious"},
                          asset_criticality   |-> {"high", "unknown"},
                          identity_privileged |-> {"true"}][field]}

Missing(p, table, facts) ==
    Forbidden(facts) \cup
    (IF RuleCheck(table, p.rule, facts) THEN {} ELSE {"playbook_rule"})

Step4(g, p, table, facts) ==
    IF g.verdict # "false_positive" \/ Missing(p, table, facts) = {}
    THEN g
    ELSE ForceNeedsReview([g EXCEPT !.missing = Missing(p, table, facts)], "step4")

(* Step 5 records what the detector found and decides nothing. *)
Steps1To5(p, facts, blocks, table) ==
    Step4(Step3(Step2(Start(p), p, facts), blocks), p, table, facts)

(* v is the verifier's document, or Null when it never became valid. *)
Agrees(g, v) == v # Null /\ v.agree /\ v.verdict = g.verdict

Step6(g, v) == IF Agrees(g, v) THEN g ELSE ForceNeedsReview(g, "step6")

(* Step 7, the output guard, re-checks closed sets that hold since step 1: *)
(* the verdict is in Verdicts, so it changes and raises nothing.           *)
Gated(p, facts, blocks, table, v) == Step6(Steps1To5(p, facts, blocks, table), v)
=============================================================================
