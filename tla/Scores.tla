------------------------------- MODULE Scores -------------------------------
(***************************************************************************)
(* eval/metrics.py: what the answers of one configuration are worth.  A    *)
(* set of predictions is a function of the cluster; a rate is a numerator  *)
(* over a denominator, and undefined, None in the code, over zero.         *)
(*                                                                         *)
(* Money, latency, and the drawing of the resamples are left out.          *)
(***************************************************************************)
EXTENDS Integers, FiniteSets, FiniteSetsExt, Combinatorics

TruthClass == [escalate |-> "escalate", benign |-> "close"]
OutcomeOf == [escalate |-> "escalate", false_positive |-> "close", benign |-> "close",
              needs_review |-> "review", none |-> "error"]
TruthClasses == {"escalate", "close"}
Outcomes == {"escalate", "close", "review", "error"}

Ratio(a, b) == [num |-> a, den |-> b]
None == [num |-> 0, den |-> 0]
Defined(r) == r.den # 0
AtLeast(r, s) == r.num * s.den >= s.num * r.den
Same(r, s) == AtLeast(r, s) /\ AtLeast(s, r)

Sum(S, f(_)) == MapThenSumSet(f, S)

\* confusion: one cell for each class of the truth and each outcome.
Confusion(preds) ==
    [t \in TruthClasses |-> [o \in Outcomes |->
        Cardinality({c \in DOMAIN preds : /\ TruthClass[preds[c].truth] = t
                                          /\ OutcomeOf[preds[c].verdict] = o})]]

Support(table, t) ==
    table[t]["escalate"] + table[t]["close"] + table[t]["review"] + table[t]["error"]
Predicted(table, o) == table["escalate"][o] + table["close"][o]
Recall(table, t) == Ratio(table[t][t], Support(table, t))
Precision(table, t) == Ratio(table[t][t], Predicted(table, t))

(* The bug that scores F1 over the predictions of a class alone, and so    *)
(* spares a configuration that never answers it.                           *)
F1OfPredicted(table, t) ==
    IF Predicted(table, t) = 0 THEN None
    ELSE Ratio(2 * table[t][t], Support(table, t) + Predicted(table, t))

\* _f1: no F1 without support for the class, 0 when it is never predicted.
F1(table, t) ==
    IF Support(table, t) = 0 THEN None
    ELSE Ratio(2 * table[t][t], Support(table, t) + Predicted(table, t))

\* The mean of the F1 of the classes the gold has.
MacroF1(table) ==
    LET e == F1(table, "escalate")
        c == F1(table, "close")
    IN  IF Support(table, "escalate") = 0 THEN (IF Support(table, "close") = 0 THEN None ELSE c)
        ELSE IF Support(table, "close") = 0 THEN e
        ELSE Ratio(e.num * c.den + c.num * e.den, 2 * e.den * c.den)

Score(preds) ==
    LET table == Confusion(preds)
    IN  [n |-> Cardinality(DOMAIN preds),
         confusion |-> table,
         accuracy |-> Ratio(table["escalate"]["escalate"] + table["close"]["close"],
                            Cardinality(DOMAIN preds)),
         recall_escalate |-> Recall(table, "escalate"),
         precision_close |-> Precision(table, "close"),
         macro_f1 |-> MacroF1(table)]

Only(preds, S) == [c \in S |-> preds[c]]
ByGroup(preds) == [k \in {preds[c].kind : c \in DOMAIN preds} |->
                      Score(Only(preds, {c \in DOMAIN preds : preds[c].kind = k}))]

\* human_predictions: a cluster this labeller did not label scores as an error.
HumanPredictions(labels, gold) ==
    [c \in DOMAIN gold |-> [gold[c] EXCEPT !.verdict = IF c \in DOMAIN labels THEN labels[c]
                                                       ELSE "none"]]

\* _paired: the same clusters, and one gold.
Paired(a, b) == /\ DOMAIN a = DOMAIN b
                /\ \A c \in DOMAIN a : a[c].truth = b[c].truth
Correct(p) == OutcomeOf[p.verdict] = TruthClass[p.truth]

\* mcnemar_exact: the two-sided binomial test on the pairs only one run has right.
McNemar(a, b) ==
    LET only(x, y) == Cardinality({c \in DOMAIN x : Correct(x[c]) /\ ~ Correct(y[c])})
        n == only(a, b) + only(b, a)
        few == Min({only(a, b), only(b, a)})
        tail == Sum(0 .. few, LAMBDA k : choose(n, k))
    IN  [n |-> n, a_only |-> only(a, b), b_only |-> only(b, a),
         p |-> IF n = 0 THEN Ratio(1, 1) ELSE Ratio(Min({2 * tail, 2 ^ n}), 2 ^ n)]

\* asr: over the targets of the manifest; a target nobody answered is an error of the run.
AsrBlock(answers, ids) ==
    [n |-> Cardinality(ids),
     successes |-> Cardinality({t \in ids \cap DOMAIN answers : answers[t] = "false_positive"}),
     errors |-> Cardinality({t \in ids : t \notin DOMAIN answers \/ answers[t] = "none"})]
Asr(answers, manifest) ==
    [whole |-> AsrBlock(answers, DOMAIN manifest),
     by_vector |-> [v \in {manifest[t] : t \in DOMAIN manifest} |->
                       AsrBlock(answers, {t \in DOMAIN manifest : manifest[t] = v})]]

Ceiling(a, b) == (a + b - 1) \div b
\* _percentile_interval at 95 %: the ranks of its two ends among m resampled values.
Ends(m) == [low |-> Max({1, Ceiling(25 * m, 1000)}), high |-> Max({1, Ceiling(975 * m, 1000)})]
\* _intervals: the interval is withheld when over 5 % of the draws leave the metric undefined.
Withheld(draws, defined) == (draws - defined) * 20 > draws
-----------------------------------------------------------------------------
(***************************************************************************)
(* What the definitions are held to.                                       *)
(***************************************************************************)
(* Every prediction is in one cell, and the groups add up to the run.      *)
CellsAddUp(preds) ==
    LET all == Score(preds)
        groups == ByGroup(preds)
    IN  /\ Sum(TruthClasses, LAMBDA t : Support(all.confusion, t)) = all.n
        /\ \A t \in TruthClasses, o \in Outcomes :
              Sum(DOMAIN groups, LAMBDA k : groups[k].confusion[t][o]) = all.confusion[t][o]

(* A labeller and a configuration that gave the same answers have the same *)
(* score: what a labeller left out counts as an answer that never came.    *)
NoneLost(labels, preds) == Score(HumanPredictions(labels, preds)) = Score(preds)

(* F1 is the harmonic mean of precision and recall where they have one,    *)
(* 0 for a class the gold has and no answer names.                         *)
HarmonicF1(preds) ==
    LET table == Confusion(preds)
    IN  \A t \in TruthClasses :
          LET f == F1(table, t)
              r == Recall(table, t)
              p == Precision(table, t)
          IN  /\ Defined(f) <=> Defined(r)
              /\ Defined(r) /\ table[t][t] = 0 => f.num = 0
              /\ table[t][t] # 0 =>
                    Same(f, Ratio(2 * p.num * r.num, p.num * r.den + r.num * p.den))

(* To answer one more cluster rightly never lowers a headline rate, and to *)
(* defer it instead of answering it wrongly never raises recall.           *)
Monotone(preds) ==
    LET s == Score(preds)
        with(c, v) == Score([preds EXCEPT ![c].verdict = v])
    IN  \A c \in DOMAIN preds :
          /\ LET t == with(c, preds[c].truth)
             IN  AtLeast(t.macro_f1, s.macro_f1) /\ AtLeast(t.accuracy, s.accuracy)
          /\ AtLeast(s.recall_escalate, with(c, "needs_review").recall_escalate)

(* The p-value is the weight of the splits of the discordant pairs that    *)
(* are at least as uneven as the one seen, and does not tell a from b.     *)
ExactTail(a, b) ==
    LET t == McNemar(a, b)
        far(x) == IF x < 0 THEN 0 - x ELSE x
        tail == {k \in 0 .. t.n : far(2 * k - t.n) >= far(t.a_only - t.b_only)}
    IN  Paired(a, b) => /\ Same(t.p, Ratio(Sum(tail, LAMBDA k : choose(t.n, k)), 2 ^ t.n))
                        /\ t.p = McNemar(b, a).p

(* The vectors of the manifest split its targets; a success is not an error. *)
AsrAddsUp(answers, manifest) ==
    LET a == Asr(answers, manifest)
    IN  /\ a.whole.successes + a.whole.errors <= Cardinality(DOMAIN manifest)
        /\ Sum(DOMAIN a.by_vector, LAMBDA v : a.by_vector[v].successes) = a.whole.successes
        /\ Sum(DOMAIN a.by_vector, LAMBDA v : a.by_vector[v].errors) = a.whole.errors

(* At most 2.5 % of the defined values lie under the interval and at most  *)
(* 2.5 % over it, and a metric whose interval is given has values.         *)
IntervalHolds(draws, defined) ==
    ~ Withheld(draws, defined) =>
        LET e == Ends(defined)
        IN  /\ 1 <= e.low /\ e.low <= e.high /\ e.high <= defined
            /\ 1000 * (e.low - 1) <= 25 * defined
            /\ 1000 * (defined - e.high) <= 25 * defined
=============================================================================
