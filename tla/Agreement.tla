------------------------------ MODULE Agreement ------------------------------
(***************************************************************************)
(* eval/label_export.py: how far two labellers, or a labeller and the      *)
(* truth of the lab windows, agree.  A list of pairs of labels is a        *)
(* function of the cluster; "none" is a label not given, and a truth the   *)
(* cluster does not have.                                                  *)
(***************************************************************************)
EXTENDS Scores

Labels == {"escalate", "benign", "false_positive"}

\* What is left of kappa when n pairs agree in `agreed` places and n * n * p_e is `chance`.
KappaOf(n, agreed, chance) ==
    CASE n = 0 -> [n |-> 0, p_o |-> None, kappa |-> None, reason |-> "n = 0"]
      [] n > 0 /\ chance = n * n ->
            [n |-> n, p_o |-> Ratio(agreed, n), kappa |-> None, reason |-> "p_e = 1"]
      [] OTHER -> [n |-> n, p_o |-> Ratio(agreed, n), reason |-> "none",
                   kappa |-> Ratio(agreed * n - chance, n * n - chance)]

\* cohen_kappa
CohenKappa(pairs) ==
    LET cell(k, l) == Cardinality({c \in DOMAIN pairs : pairs[c] = <<k, l>>})
        row(k) == Sum(Labels, LAMBDA l : cell(k, l))
        column(k) == Sum(Labels, LAMBDA l : cell(l, k))
    IN  KappaOf(Cardinality(DOMAIN pairs), Sum(Labels, LAMBDA k : cell(k, k)),
                Sum(Labels, LAMBDA k : row(k) * column(k)))

\* group_kappa
GroupKappa(pairs, category) ==
    [g \in {category[c] : c \in DOMAIN pairs} |->
        CohenKappa([c \in {d \in DOMAIN pairs : category[d] = g} |-> pairs[c]])]

(* The bug that compares on the clusters both labelled only.               *)
VersusOfBoth(cards, who) ==
    [c \in {d \in DOMAIN cards : cards[d].truth # "none" /\ "none" \notin {cards[d].a, cards[d].b}}
        |-> <<cards[c].truth, cards[c][who]>>]

\* The pairs of the window truth and the labels one labeller gave.
Versus(cards, who) ==
    [c \in {d \in DOMAIN cards : cards[d].truth # "none" /\ cards[d][who] # "none"}
        |-> <<cards[c].truth, cards[c][who]>>]

\* vs_truth
VsTruth(cards) ==
    [who \in {"a", "b"} |->
        LET pairs == Versus(cards, who)
        IN  [overall |-> CohenKappa(pairs), accuracy |-> CohenKappa(pairs).p_o,
             by_category |-> GroupKappa(pairs, [c \in DOMAIN cards |-> cards[c].category])]]

\* The kappa of the report: over the clusters both labelled.
Peers(cards) ==
    [c \in {d \in DOMAIN cards : "none" \notin {cards[d].a, cards[d].b}}
        |-> <<cards[c].a, cards[c].b>>]
-----------------------------------------------------------------------------
(***************************************************************************)
(* What the definitions are held to.                                       *)
(***************************************************************************)
(* Kappa does not tell the labellers apart, is 1 just when they agree      *)
(* everywhere, and is undefined just when there is no pair or one label.   *)
KappaMeans(cards) ==
    LET pairs == Peers(cards)
        k == CohenKappa(pairs)
        used == {pairs[c][1] : c \in DOMAIN pairs} \cup {pairs[c][2] : c \in DOMAIN pairs}
    IN  /\ k = CohenKappa([c \in DOMAIN pairs |-> <<pairs[c][2], pairs[c][1]>>])
        /\ Defined(k.kappa) <=> Cardinality(used) > 1
        /\ Defined(k.kappa) => /\ AtLeast(Ratio(1, 1), k.kappa)
                               /\ AtLeast(k.p_o, k.kappa)
                               /\ Same(k.kappa, Ratio(1, 1)) <=> \A c \in DOMAIN pairs :
                                                                    pairs[c][1] = pairs[c][2]

(* What one labeller is credited with does not depend on what the other    *)
(* left out, and over the clusters it labelled it is no more than the      *)
(* metrics credit it with, which close by either of two labels.            *)
BaselineStands(cards) ==
    LET alone == [c \in DOMAIN cards |-> [cards[c] EXCEPT !.b = "none"]]
        a == VsTruth(cards).a
        mine == {c \in DOMAIN cards : cards[c].truth # "none" /\ cards[c].a # "none"}
        gold == [c \in mine |-> [truth |-> cards[c].truth, verdict |-> cards[c].a]]
    IN  /\ VsTruth(alone).a = a
        /\ a.overall.n = Cardinality(mine)
        /\ a.overall.n = Sum(DOMAIN a.by_category, LAMBDA g : a.by_category[g].n)
        /\ a.overall.n = 0 <=> ~Defined(a.accuracy)
        /\ a.overall.n # 0 => AtLeast(Ratio(Cardinality({c \in mine : Correct(gold[c])}),
                                            Cardinality(mine)), a.accuracy)
=============================================================================
