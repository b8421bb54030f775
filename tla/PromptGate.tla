----------------------------- MODULE PromptGate -----------------------------
(***************************************************************************)
(* eval/regression_gate.py, over a sequence of prompts: the run of the     *)
(* prompt in force is the baseline, a candidate's run is compared with it, *)
(* and the owner puts in force what the gate lets pass.  The pair of       *)
(* adversarial (G3) runs is optional.                                      *)
(*                                                                         *)
(* A document is what metrics_json wrote and fetch_run read: its set, the  *)
(* gold it was scored against, and the scores, not the answers.  The owner *)
(* and the writer of eval_runs are outside src/: run_configs.py is empty.  *)
(***************************************************************************)
EXTENDS Scores

CONSTANTS
    Prompts,
    Golds,         \* versions of the gold, told apart by gold_sha256
    TruthOf,       \* for each gold, the truth of each cluster
    Conditions,    \* the configurations and thinking modes the runs are made under
    Manifest,      \* the vector of each adversarial target
    Verdicts,
    MaxDrop,       \* MACRO_F1_MAX_DROP, in percent
    NoRun

VARIABLES
    baseline,      \* the G2 document of the prompt in force
    baseline_g3,   \* its G3 document, or NoRun
    bar            \* what the chain is held to: the best recall and the fewest attacks let
                   \* through since its last run of the prompt in force, and that run's terms

gateVars == <<baseline, baseline_g3, bar>>

Clusters(gold) == DOMAIN TruthOf[gold]

ASSUME GateAssumption ==
    /\ \A g \in Golds : /\ IsFiniteSet(Clusters(g))
                       /\ TruthOf[g] \in [Clusters(g) -> DOMAIN TruthClass]
    /\ Conditions \subseteq [config : STRING, llm_thinking : STRING]
    /\ IsFiniteSet(DOMAIN Manifest)
    /\ Verdicts \subseteq DOMAIN OutcomeOf

\* A run without a prompt_version is refused whatever else it says, and is left out.
Document(set, gold, prompt, terms, answers, metrics) ==
    [gold_set |-> set, gold_sha256 |-> gold, prompt_version |-> prompt,
     config |-> terms.config, llm_thinking |-> terms.llm_thinking,
     n |-> Cardinality(DOMAIN answers), metrics |-> metrics]

G2Docs ==
    LET of(g, prompt, terms, answers) ==
            Document("G2", g, prompt, terms, answers,
                     Score([c \in Clusters(g) |-> [truth |-> TruthOf[g][c], verdict |-> answers[c]]]))
    IN  UNION {{of(g, prompt, terms, answers) :
                  prompt \in Prompts, terms \in Conditions, answers \in [Clusters(g) -> Verdicts]} :
                  g \in Golds}
G3Docs ==
    UNION {{Document("G3", "manifest", prompt, terms, answers, Asr(answers, Manifest)) :
              prompt \in Prompts, terms \in Conditions,
              answers \in [S -> {"false_positive", "needs_review"}]} :
             S \in SUBSET DOMAIN Manifest}

Successes(doc) == doc.metrics.whole.successes
Caught(doc) == doc.metrics.confusion["escalate"]["escalate"]

\* What a run was measured on and under: all that two runs must share.
Measured(doc) == [gold_set |-> doc.gold_set, gold_sha256 |-> doc.gold_sha256, n |-> doc.n,
                  config |-> doc.config, llm_thinking |-> doc.llm_thinking]

(* The bugs of a gate that compares runs on two versions of the gold, or   *)
(* runs made under two configurations or modes.                            *)
ComparableAnyGold(b, c) ==
    /\ [Measured(b) EXCEPT !.gold_sha256 = c.gold_sha256] = Measured(c)
    /\ b.prompt_version # c.prompt_version
ComparableAnyMode(b, c) ==
    /\ [Measured(b) EXCEPT !.config = c.config, !.llm_thinking = c.llm_thinking] = Measured(c)
    /\ b.prompt_version # c.prompt_version

\* _comparability_field finds nothing: _MUST_MATCH is equal, and the prompts differ.
Comparable(b, c) ==
    /\ b.gold_sha256 = c.gold_sha256
    /\ b.gold_set = c.gold_set
    /\ b.config = c.config
    /\ b.llm_thinking = c.llm_thinking
    /\ b.n = c.n
    /\ b.prompt_version # c.prompt_version

\* _macro_f1_rule
F1Fails(b, c) ==
    LET fb == b.metrics.macro_f1
        fc == c.metrics.macro_f1
    IN  100 * (fb.num * fc.den - fc.num * fb.den) > MaxDrop * fb.den * fc.den

\* _recall_escalate_rule, in counts; n/a without an attack in the gold.
RecallFails(b, c) == Recall(b.metrics.confusion, "escalate").den # 0 /\ Caught(c) < Caught(b)

\* _asr_rule
AsrFails(b3, c3) == Successes(c3) > Successes(b3)

\* decide; a document without the block a rule reads is refused as a usage error.
Decide(b, c, b3, c3) ==
    IF (b3 = NoRun) # (c3 = NoRun) THEN "USAGE"
    ELSE IF ~ Comparable(b, c) \/ (b3 # NoRun /\ ~ Comparable(b3, c3)) THEN "INCOMPARABLE"
    ELSE IF b.gold_set # "G2" \/ (b3 # NoRun /\ b3.gold_set # "G3") THEN "USAGE"
    ELSE IF ~ Defined(b.metrics.macro_f1) \/ ~ Defined(c.metrics.macro_f1)
         THEN "INCOMPARABLE"
    ELSE IF F1Fails(b, c) \/ RecallFails(b, c) \/ (b3 # NoRun /\ AsrFails(b3, c3)) THEN "FAIL"
    ELSE "PASS"

Leaks(doc3) == IF doc3 = NoRun THEN Cardinality(DOMAIN Manifest) ELSE Successes(doc3)
TermsOf(doc3) == IF doc3 = NoRun THEN NoRun ELSE Measured(doc3)

BarOf(doc, doc3) == [recall |-> doc.metrics.recall_escalate, g2 |-> Measured(doc),
                     leaks |-> Leaks(doc3), g3 |-> TermsOf(doc3)]

gateInit == /\ baseline \in G2Docs
            /\ baseline_g3 = NoRun
            /\ bar = BarOf(baseline, NoRun)

\* The owner puts in force a prompt the gate let pass; what the chain is held to only rises.
Activate(c, c3) ==
    /\ Decide(baseline, c, baseline_g3, c3) = "PASS"
    /\ baseline' = c
    /\ baseline_g3' = c3
    /\ LET recall == c.metrics.recall_escalate
       IN  bar' = [bar EXCEPT !.recall = IF AtLeast(recall, bar.recall) THEN recall ELSE bar.recall,
                              !.leaks = Min({Leaks(c3), bar.leaks})]

\* The prompt in force is run on the adversarial targets, for the first time or again.
RunG3(doc3) ==
    /\ baseline_g3 = NoRun
    /\ doc3.prompt_version = baseline.prompt_version
    /\ baseline_g3' = doc3
    /\ bar' = [bar EXCEPT !.leaks = Leaks(doc3), !.g3 = TermsOf(doc3)]
    /\ UNCHANGED baseline

\* The next comparison is made without the adversarial runs.
DropG3 == /\ baseline_g3 # NoRun
          /\ baseline_g3' = NoRun
          /\ bar' = [bar EXCEPT !.leaks = Leaks(NoRun), !.g3 = NoRun]
          /\ UNCHANGED baseline

\* The prompt in force is measured again, on the same gold or another, as its runs then go.
Remeasure(doc) ==
    /\ doc.prompt_version = baseline.prompt_version
    /\ baseline' = doc
    /\ bar' = [bar EXCEPT !.recall = doc.metrics.recall_escalate, !.g2 = Measured(doc)]
    /\ UNCHANGED baseline_g3

gateNext ==
    \/ \E c \in G2Docs, c3 \in G3Docs \cup {NoRun} : Activate(c, c3)
    \/ \E doc3 \in G3Docs : RunG3(doc3)
    \/ DropG3
    \/ \E doc \in G2Docs : Remeasure(doc)

gateSpec == gateInit /\ [][gateNext]_gateVars

(* However many prompts the gate has let pass since the prompt then in     *)
(* force was last measured, the one in force now was measured on the same  *)
(* gold, in the same configuration and thinking mode, and catches as large *)
(* a share of the attacks as the best of them did; and, since the          *)
(* adversarial pair was last taken up, it was given on the same terms at   *)
(* each step and lets through no more targets than any of them.  A new     *)
(* measurement of the prompt in force, on either set, starts afresh, with  *)
(* whatever it found: what the gate never compared is not promised.        *)
NoneSlips ==
    /\ AtLeast(baseline.metrics.recall_escalate, bar.recall)
    /\ Measured(baseline) = bar.g2
    /\ baseline_g3 # NoRun => /\ Successes(baseline_g3) <= bar.leaks
                              /\ Measured(baseline_g3) = bar.g3
=============================================================================
