-------------------------- MODULE MCAlertLifecycle --------------------------
(* TLC instance of AlertLifecycle: every alert has the same cluster key and *)
(* is correlated with every other, so that they all meet.                   *)
EXTENDS AlertLifecycle, TLC

MCKeyOf == [a \in Alerts |-> "k"]
MCRelated == [a \in Alerts |-> Alerts]
MCSymmetry == Permutations(Alerts) \cup Permutations(Workers) \cup Permutations(Analysts)
=============================================================================
