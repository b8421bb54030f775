----------------------------- MODULE MCAccounts -----------------------------
(* Accounts on one user and two passwords, both sets symmetric. *)
EXTENDS Accounts, TLC

Symmetry == Permutations(Requests) \cup Permutations(Passwords)
=============================================================================
