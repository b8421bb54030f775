---------------------------- MODULE MCJobQueue ----------------------------
(* TLC instance of JobQueue: two workers, so that a lease can be lost to    *)
(* the other one, the pull key and one ordinary key.                        *)
EXTENDS JobQueue, TLC

MCSymmetry == Permutations(Workers)
=============================================================================
