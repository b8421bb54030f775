----------------------------- MODULE MCIntake -----------------------------
(* TLC instance of Intake: few documents, pages of one or two hits, so that *)
(* page boundaries, ties and overtaken pulls all happen.                    *)
EXTENDS Intake, TLC

MCSymmetry == Permutations(Pullers) \cup Permutations(Heartbeats)
===========================================================================
