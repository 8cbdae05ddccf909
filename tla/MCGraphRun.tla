----------------------------- MODULE MCGraphRun -----------------------------
(* Small instances of GraphRun for TLC. *)
EXTENDS GraphRun, TLC

CONSTANTS a, b, c, d

(* Two nodes, one after the other. *)
Chain2 == {(a :> NoNode @@ b :> a)}

(* Two nodes in a cycle, and a node that depends on "". *)
Odd2 == {(a :> b @@ b :> a), (a :> NoNode @@ b :> Empty)}

ChainAndOdd == Chain2 \cup Odd2

(* One level of both nodes. *)
Roots2 == {(a :> NoNode @@ b :> NoNode)}

(* Two nodes, one after the other, and one beside them. *)
Unlinked3 == {(a :> NoNode @@ b :> a @@ c :> NoNode)}

(* Two chains of two nodes: levels {a, b} and {c, d}. *)
TwoChains == {(a :> NoNode @@ b :> NoNode @@ c :> a @@ d :> b)}

(* Exchanging the chains leaves the graph as it is. *)
Swap == {f \in Permutations(Nodes) :
            /\ f[a] = a <=> f[c] = c
            /\ {f[a], f[b]} = {a, b} /\ {f[c], f[d]} = {c, d}}
=============================================================================
