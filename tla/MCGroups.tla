------------------------------ MODULE MCGroups ------------------------------
(* Constants for model-checking Groups. *)
EXTENDS Groups, TLC

CONSTANTS r1, r2, e1, e2, g1, g2, u1, u2

(* Replicas, users and groups are interchangeable. *)
Symmetry == Permutations(Replicas) \cup Permutations(Emails)
                \cup Permutations(Groups)

MCGrants == {u1 :> {"view", "run"},
             u1 :> {"cancel"} @@ u2 :> {"run"},
             u1 :> {"view"} @@ u2 :> {}}

(* Two providers with a cluster each: their names differ, or they do not. *)
MCTargetData ==
    {{[provider |-> "p", name |-> "a", url |-> u1],
      [provider |-> "q", name |-> n, url |-> u2]} : n \in {"a", "b"}}
=============================================================================
