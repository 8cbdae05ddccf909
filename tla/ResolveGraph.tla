---------------------------- MODULE ResolveGraph ----------------------------
(***************************************************************************)
(* How a scenario graph is resolved into levels: ResolveGraph checks the   *)
(* references, hands the edges one after the other, in the order of a Go   *)
(* map, to the dependency graph of krknctl, which refuses the one that     *)
(* would close a cycle, and peels the layers off the graph that results.   *)
(***************************************************************************)
EXTENDS GraphLevels

VARIABLES
    dep,     \* spec.graph
    state,   \* "check", "build", "peel", "done" or "error"
    todo,    \* nodes whose edge has still to be added
    nodes,   \* the nodes of the dependency graph
    edges,   \* its edges, <<child, parent>>
    layers   \* the layers peeled off so far

vars == <<dep, state, todo, nodes, edges, layers>>

(* Every variable has its type. *)
TypeOK ==
    /\ dep \in AnyGraph
    /\ state \in {"check", "build", "peel", "done", "error"}
    /\ todo \subseteq Nodes
    /\ nodes \subseteq Nodes \cup {Empty}
    /\ edges \subseteq nodes \X nodes \cup Nodes \X (Nodes \cup {Empty})
    /\ layers \in Seq(SUBSET (Nodes \cup {Empty}))

Init ==
    /\ dep \in AnyGraph
    /\ state = "check"
    /\ todo = {} /\ nodes = {} /\ edges = {} /\ layers = <<>>

RefuseReferences ==
    /\ state = "check" /\ \E n \in Nodes : BadReference(dep, n)
    /\ state' = "error"
    /\ UNCHANGED <<dep, todo, nodes, edges, layers>>

(* Without any DependsOn all nodes are one level. *)
OneLevel ==
    /\ state = "check" /\ AllRoots(dep)
    /\ layers' = <<Nodes>> /\ state' = "done"
    /\ UNCHANGED <<dep, todo, nodes, edges>>

StartBuild ==
    /\ state = "check" /\ ~AllRoots(dep)
    /\ \A n \in Nodes : ~BadReference(dep, n)
    /\ todo' = {n \in Nodes : dep[n] # NoNode} /\ state' = "build"
    /\ UNCHANGED <<dep, nodes, edges, layers>>

(* Slip: only a direct back edge is refused. *)
DependsOnDirectly(child, parent) == <<child, parent>> \in edges

(***************************************************************************)
(* Can parent be reached from child?  Every node has at most one outgoing  *)
(* edge, so the nodes reached from child are those in every set that holds *)
(* child's parent and is closed under the edges.                           *)
(***************************************************************************)
DependsOn(child, parent) ==
    \A S \in SUBSET nodes :
        (\A e \in edges : e[1] \in S \cup {child} => e[2] \in S) => parent \in S

(* DependOn(n, dep[n]) adds the edge ... *)
AddEdge(n) ==
    /\ state = "build" /\ n \in todo
    /\ ~(dep[n] \in nodes /\ DependsOn(dep[n], n))
    /\ nodes' = nodes \cup {n, dep[n]}
    /\ edges' = edges \cup {<<n, dep[n]>>}
    /\ todo' = todo \ {n}
    /\ UNCHANGED <<dep, state, layers>>

(* ... unless it would close a cycle. *)
RefuseEdge(n) ==
    /\ state = "build" /\ n \in todo
    /\ dep[n] \in nodes /\ DependsOn(dep[n], n)
    /\ state' = "error"
    /\ UNCHANGED <<dep, todo, nodes, edges, layers>>

StartPeeling ==
    /\ state = "build" /\ todo = {}
    /\ state' = "peel"
    /\ UNCHANGED <<dep, todo, nodes, edges, layers>>

(* Slip: a layer is taken from the wrong end. *)
Sinks == {n \in nodes : \A e \in edges : e[2] # n}

(* The nodes without dependencies. *)
LeafNodes == {n \in nodes : \A e \in edges : e[1] # n}

PeelLayer ==
    /\ state = "peel" /\ LeafNodes # {}
    /\ layers' = Append(layers, LeafNodes)
    /\ nodes' = nodes \ LeafNodes
    /\ edges' = {e \in edges : e[2] \notin LeafNodes}
    /\ UNCHANGED <<dep, state, todo>>

Finish ==
    /\ state = "peel" /\ LeafNodes = {}
    /\ state' = "done"
    /\ UNCHANGED <<dep, todo, nodes, edges, layers>>

Next ==
    \/ RefuseReferences \/ OneLevel \/ StartBuild
    \/ \E n \in Nodes : AddEdge(n) \/ RefuseEdge(n)
    \/ StartPeeling \/ PeelLayer \/ Finish

Spec == Init /\ [][Next]_vars

-----------------------------------------------------------------------------
(* Properties *)

(* Whatever the order of the map, exactly the graphs with a cycle, or with *)
(* a reference to no node, are refused by ResolveGraph.                    *)
CyclesAreRefused ==
    /\ state = "error" => ~Acyclic(dep) \/ \E n \in Nodes : dep[n] = Missing
    /\ state = "done" => Acyclic(dep) /\ nodes = {}

(* Every node of a level has the node it depends on in an earlier one, and *)
(* no node is in two levels.                                               *)
LevelsRespectDependencies ==
    \A i \in DOMAIN layers : \A n \in layers[i] :
        /\ \A j \in DOMAIN layers : n \in layers[j] => i = j
        /\ n \in Nodes => \/ dep[n] = NoNode
                          \/ \E j \in 1..(i - 1) : dep[n] \in layers[j]

(* The levels are the ones the graph controller's model starts from, for   *)
(* every order in which the edges were added.                              *)
LevelsAsDefined == state = "done" => layers = Levels(dep)

-----------------------------------------------------------------------------
(* The inductive invariant behind the properties *)

(* The nodes whose edge is in the dependency graph. *)
Added == {m \in Nodes \ todo : dep[m] # NoNode}

(* The dependency graph is the part of spec.graph added so far, and has no *)
(* cycle.                                                                  *)
Building ==
    state = "build" =>
        /\ ~AllRoots(dep) /\ \A n \in Nodes : ~BadReference(dep, n)
        /\ \A n \in todo : dep[n] # NoNode
        /\ nodes = UNION {{m, dep[m]} : m \in Added}
        /\ edges = {<<m, dep[m]>> : m \in Added}
        /\ \A S \in SUBSET (Nodes \ todo) : S # {} => \E n \in S : dep[n] \notin S

(* What is left of the graph yields the levels that are missing. *)
Peeling ==
    state = "peel" =>
        /\ Resolvable(dep)
        /\ edges = {<<m, dep[m]>> : m \in {k \in nodes \cap Nodes : dep[k] \in nodes}}
        /\ layers \o TopoSortedLayers(dep, nodes) = Levels(dep)

NothingPeeled ==
    /\ state \in {"check", "build", "error"} => layers = <<>>
    /\ state = "check" => nodes = {} /\ edges = {}

IInv ==
    /\ TypeOK /\ Building /\ Peeling /\ NothingPeeled /\ CyclesAreRefused
    /\ LevelsAsDefined
    /\ state = "done" => Resolvable(dep)

-----------------------------------------------------------------------------
(* What comments say and the code does not do *)

(* Every node of the graph is in some level. *)
EveryNodeHasALevel ==
    state = "done" => \A n \in Nodes : \E i \in DOMAIN layers : n \in layers[i]

(* Only nodes of the graph are in the levels. *)
NoPhantomNodes ==
    state = "done" => \A i \in DOMAIN layers : layers[i] \subseteq Nodes
=============================================================================
