------------------------------ MODULE MCTriage ------------------------------
(* TLC instance of the triage job; beside it, one initial state for each     *)
(* message that is built, fenced or repaired.                                *)
EXTENDS Triage, Messages

CONSTANT MaxText    \* the longest text

(* A quiet alert which the reviewed table of its category lets be closed   *)
(* while it has occurred once.                                             *)
MCContext ==
    [a \in Alerts |-> [severity |-> "low", rule_level |-> 3, ioc_reputation |-> "not_found",
                       asset_criticality |-> "low",
                       identity_privileged |-> "false"]]

MCTable ==
    [a \in Alerts |-> [reviewed |-> TRUE, rules |->
        {[id |-> "quiet", action |-> "false_positive",
          condition |-> [occurrence_lt |-> 2, severity |-> {"low", "medium"}]],
         [id |-> "loud", action |-> "escalate", condition |-> [occurrence_gte |-> 2]]}]]

MCBlocks == [a \in Alerts |-> [wazuh_raw_log |-> {EmptyQuote, "in the log"}]]

Triaged(action, count, asset, quote, rule) ==
    [suggested_action |-> action, rule |-> rule,
     basis |-> [severity |-> "low", ioc_reputation |-> "not_found",
                asset_criticality |-> asset, identity_privileged |-> "false",
                occurrence_count |-> count],
     reasons |-> {[source |-> "wazuh_raw_log", quote |-> quote]}]

MCDocuments ==
    {Triaged("false_positive", 1, "low", "in the log", "quiet"),
     Triaged("false_positive", 2, "low", "in the log", "loud"),
     Triaged("escalate", 1, "low", EmptyQuote, Null)}

MCVerifications == [agree: BOOLEAN, verdict: {"false_positive"}]

Inputs == [kind: {"budget"}, budget: {60, 75, 90}, fixed: {40, 61}, log: {0, 8, 9, 40},
           rows: {0, 1, 10, 11, 25}, samples: {0, 1, 3, 4, 7}]

Words == {"word", "lt", "wide lt", "nonce", "wide nonce", "close", "marker"}
Texts == UNION {[1 .. n -> Words] : n \in 0 .. MaxText}
Fences == [kind: {"fence"}, text: Texts, limit: {1, 2, MaxText}]

MCKeys == {<<"odd">>, <<"odd", ".", "odd">>, <<"odd", ":", "odd">>, <<"reasons", ".", "odd">>,
           <<"structured_basis", ".", "odd">>, <<".">>, <<>>}
Repairs == [kind: {"repair"}, error: FaultErrors \cup KeyErrors(MCKeys)]

List(words) == [kind |-> "list", of |-> words]
Number(n) == [kind |-> "int", of |-> n]
Rule(id, action, condition) == [id |-> id, then |-> action, if |-> condition]
QuietRule == Rule("rec-1", "false_positive",
                  [severity |-> List({"low", "medium"}), occurrence_lt |-> Number(50)])
Drafts == {Rule(id, action, condition) :
             id \in {"rec-1", "c2b-1", "Recon 1"}, action \in {"escalate", "close"},
             condition \in {[rule_level_gte |-> Number(12)],
                            [rule_level_gte |-> [kind |-> "boolean"]],
                            [identity_privileged |-> List({"true"})],
                            [identity_privileged |-> [kind |-> "boolean"]],
                            [identity_privileged |-> List({"yes"})],
                            [severity |-> List({})], [risk |-> Number(1)], <<>>}}
Tables == {Null} \cup [mapping : BOOLEAN, category : {"recon", "malware"},
                      playbook : {"recon_v1", "recon_v2", Null}, reviewed_by : {Null, "owner"},
                      reviewed_at : {Null, "today"},
                      rules : {<<>>} \cup {<<QuietRule, rule>> : rule \in Drafts}]
Playbooks == {Null} \cup [text : {"", "prose"}, name : {"recon_v1", Null}]
Books == [kind : {"book"}, of : [category : {"recon", "unknown"}, playbook : Playbooks,
                                 table : Tables]]

(* Two rules of different actions, on the bounds of kb/decision_tables.    *)
Halves == {[occurrence_lt |-> 50], [occurrence_gte |-> 50],
           [rule_level_gte |-> 12], [rule_level_lt |-> 8], [rule_level_gte |-> 8, rule_level_lt |-> 12],
           [severity |-> {"low", "medium"}, occurrence_lt |-> 50],
           [ioc_reputation |-> {"malicious"}, rule_level_lt |-> 12],
           [asset_criticality |-> {"high"}, severity |-> {"high"}]}
Grids == [kind : {"grid"},
          of : {[rules |-> {[id |-> "a", action |-> "escalate", condition |-> c],
                            [id |-> "b", action |-> "needs_review", condition |-> d]}] :
                  c \in Halves, d \in Halves}]

MCTokens == Words \cup {"odd", ".", ":", "reasons", "structured_basis"}
MCMessages == Inputs \cup Fences \cup Repairs \cup Books \cup Grids

Job(step) == message = NoMessage /\ step /\ UNCHANGED message

MCWork(w) ==
    \/ \E a \in Alerts : Job(Claim(w, a))
    \/ Job(Skip(w)) \/ Job(Load(w)) \/ Job(LoadRaises(w)) \/ Job(Disabled(w))
    \/ Job(LinterStops(w)) \/ Job(Dial(w)) \/ Job(CapStops(w)) \/ Job(CallFails(w))
    \/ Job(CallRaises(w)) \/ Job(PromptRaises(w)) \/ Job(DatabaseFails(w))
    \/ Job(Invalid(w)) \/ Job(InvalidAgain(w)) \/ Job(Proposed(w))
    \/ Job(Verified(w)) \/ Job(VerifierInvalidAgain(w))

MCNext ==
    \/ \E w \in Workers : MCWork(w) \/ Job(Crash(w))
    \/ \E a \in Alerts : Job(Reclaim(a)) \/ Job(Merge(a)) \/ Job(Acknowledge(a)) \/ Job(Decide(a))

MCInit == Init /\ messageInit /\ (message = NoMessage \/ spent = 0)

MCSpec == MCInit /\ [][MCNext]_<<vars, message>>
=============================================================================
