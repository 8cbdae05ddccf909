---------------------------- MODULE GraphLevels ----------------------------
(***************************************************************************)
(* Scenario graphs and their levels.  A node of a graph names at most one  *)
(* node it depends on, so a graph is a function from its nodes to what the *)
(* pointer DependsOn holds.                                                *)
(***************************************************************************)
EXTENDS Naturals, Sequences, FiniteSets

CONSTANTS
    Nodes,   \* the node IDs of the graph, metadata nodes filtered out
    NoNode,  \* DependsOn is nil
    Empty,   \* DependsOn is the empty string
    Missing  \* DependsOn is the name of no node of the graph

ASSUME NodesAssumption ==
    /\ Nodes # {} /\ IsFiniteSet(Nodes)
    /\ {NoNode, Empty, Missing} \cap Nodes = {}
    /\ NoNode # Empty /\ NoNode # Missing /\ Empty # Missing

(* The values of spec.graph. *)
AnyGraph == [Nodes -> Nodes \cup {NoNode, Empty, Missing}]

(* Is every node a root? *)
AllRoots(dep) == \A n \in Nodes : dep[n] = NoNode

(* The nodes that occur in a dependency: all that the library is told of.  *)
Linked(dep) == UNION {{n, dep[n]} : n \in {m \in Nodes : dep[m] # NoNode}}

(* Slip: the nodes somebody depends on, instead of those without parents.  *)
LeavesUpsideDown(dep, S) == {n \in S : \E m \in S \cap Nodes : dep[m] = n}

(* The nodes of S that depend on no node of S. *)
Leaves(dep, S) == {n \in S : n \notin Nodes \/ dep[n] \notin S}

(* The layers of S, peeled off from the leaves. *)
TopoSortedLayers(dep, S) ==
    LET layers[T \in SUBSET S] ==
            IF Leaves(dep, T) = {} THEN <<>>
            ELSE <<Leaves(dep, T)>> \o layers[T \ Leaves(dep, T)]
    IN  layers[S]

(* What ResolveGraph returns for a graph without cycles. *)
Levels(dep) ==
    IF AllRoots(dep) THEN <<Nodes>> ELSE TopoSortedLayers(dep, Linked(dep))

(* Slip: only self-references are found. *)
SelfReference(dep, n) == dep[n] = n

(* A reference to no node, or to the node itself. *)
BadReference(dep, n) == dep[n] \in {n, Missing}

(* A cycle is a set of nodes in which each depends on another of the set.  *)
Acyclic(dep) ==
    \A S \in SUBSET Nodes : S # {} => \E n \in S : dep[n] \notin S

(* Does ResolveGraph return levels? *)
Resolvable(dep) == Acyclic(dep) /\ \A n \in Nodes : ~BadReference(dep, n)
=============================================================================
