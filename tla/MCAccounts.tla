----------------------------- MODULE MCAccounts -----------------------------
(* Constants for model-checking Accounts. *)
EXTENDS Accounts, TLC

CONSTANTS r1, r2, e1, e2, p1, p2

(* Replicas, users and passwords are interchangeable. *)
Symmetry == Permutations(Replicas) \cup Permutations(Emails)
                \cup Permutations(Passwords)
=============================================================================
