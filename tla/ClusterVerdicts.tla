-------------------------- MODULE ClusterVerdicts --------------------------
(***************************************************************************)
(* What the alert lifecycle promises, with no tables, locks or sessions:   *)
(* an alert enters once, as the head of a cluster or as a member of one    *)
(* that has no verdict yet; a verdict falls on whole clusters, all of      *)
(* their members at once, and is never revised or withdrawn.               *)
(*                                                                         *)
(* Nothing here is translated from code: AlertLifecycle implements it.     *)
(***************************************************************************)
CONSTANTS
  Alerts,
  NoAlert,   \* not an alert
  Verdicts   \* the statuses a person closes an alert with

VARIABLES
  head,      \* the cluster an alert belongs to, NoAlert before it enters
  verdict    \* the verdict on an alert, "open" before there is one

Init ==
  /\ head = [a \in Alerts |-> NoAlert]
  /\ verdict = [a \in Alerts |-> "open"]

Open(a) ==
  /\ head[a] = NoAlert
  /\ head' = [head EXCEPT ![a] = a]
  /\ UNCHANGED verdict

Join(a, h) ==
  /\ head[a] = NoAlert
  /\ head[h] = h
  /\ verdict[h] = "open"
  /\ head' = [head EXCEPT ![a] = h]
  /\ UNCHANGED verdict

Close(heads, v) ==
  /\ heads # {}
  /\ \A h \in heads : head[h] = h /\ verdict[h] = "open"
  /\ verdict' = [a \in Alerts |-> IF head[a] \in heads THEN v ELSE verdict[a]]
  /\ UNCHANGED head

Next ==
  \/ \E a \in Alerts : Open(a) \/ \E h \in Alerts : Join(a, h)
  \/ \E heads \in SUBSET Alerts, v \in Verdicts : Close(heads, v)

Spec == Init /\ [][Next]_<<head, verdict>>
=============================================================================
