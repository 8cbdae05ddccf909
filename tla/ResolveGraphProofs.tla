------------------------- MODULE ResolveGraphProofs -------------------------
(***************************************************************************)
(* Proofs about ResolveGraph, for every finite set of nodes, every graph   *)
(* on them and every order in which its edges are added.                   *)
(***************************************************************************)
EXTENDS ResolveGraph, GraphLevelsProofs

USE NodesAssumption

-----------------------------------------------------------------------------
(* The dependency graph *)

(* The edges of the dependency graph, while it is built. *)
LEMMA Edges ==
  ASSUME Building, state = "build"
  PROVE  /\ \A e \in edges : \E m \in Added : e = <<m, dep[m]>>
         /\ \A m \in Added : /\ <<m, dep[m]>> \in edges
                             /\ m \in nodes /\ dep[m] \in nodes
         /\ \A m \in nodes : m \in Added \/ \E k \in Added : m = dep[k]
BY DEF Building

(* A path back to n makes a cycle of spec.graph. *)
LEMMA PathClosesCycle ==
  ASSUME TypeOK, Building, state = "build", NEW n \in todo,
         dep[n] \in nodes, DependsOn(dep[n], n)
  PROVE  ~Acyclic(dep)
<1>. DEFINE Closed(S, m) == \A e \in edges : e[1] \in S \cup {m} => e[2] \in S
            K == {m \in nodes : m = n \/ DependsOn(m, n)}
<1>1. ASSUME NEW m, DependsOn(m, n), NEW S \in SUBSET nodes, Closed(S, m)
      PROVE  n \in S
  BY <1>1 DEF DependsOn
<1>2. n \in Nodes /\ n \in nodes
  <2>1. Closed(nodes, dep[n])
    BY Edges
  <2>. QED  BY <1>1, <2>1 DEF TypeOK
<1>3. ASSUME NEW m \in K, m # n
      PROVE  m \in Nodes /\ dep[m] \in K
  <2>1. m \in nodes /\ DependsOn(m, n)
    BY <1>3
  <2>2. m \in Added
    <3>. SUFFICES ASSUME m \notin Added PROVE FALSE
      OBVIOUS
    <3>1. Closed({}, m)
      BY Edges
    <3>. QED  BY <1>1, <2>1, <3>1
  <2>3. dep[m] \in nodes
    BY <2>2, Edges
  <2>4. ASSUME NEW S \in SUBSET nodes, Closed(S, dep[m]), dep[m] # n
        PROVE  n \in S
    <3>1. S \cup {dep[m]} \in SUBSET nodes
      BY <2>3
    <3>2. Closed(S \cup {dep[m]}, m)
      <4>. SUFFICES ASSUME NEW e \in edges, e[1] \in (S \cup {dep[m]}) \cup {m}
                    PROVE  e[2] \in S \cup {dep[m]}
        OBVIOUS
      <4>1. e[1] = m => e[2] = dep[m]
        BY Edges
      <4>. QED  BY <2>4, <4>1
    <3>3. n \in S \cup {dep[m]}
      <4>. DEFINE T == S \cup {dep[m]}
      <4>1. T \in SUBSET nodes /\ Closed(T, m)
        BY <3>1, <3>2
      <4>. HIDE DEF T, Closed
      <4>2. n \in T
        BY <1>1, <2>1, <4>1
      <4>. QED  BY <4>2 DEF T
    <3>. QED  BY <2>4, <3>3
  <2>5. dep[m] = n \/ DependsOn(dep[m], n)
    BY <2>4 DEF DependsOn
  <2>. QED  BY <2>2, <2>3, <2>5 DEF Added
<1>4. n \in K /\ dep[n] \in K
  BY <1>2
<1>5. K \in SUBSET Nodes /\ \A m \in K : dep[m] \in K
  BY <1>2, <1>3, <1>4
<1>. QED  BY <1>4, <1>5 DEF Acyclic

(* Without such a path the new edge closes no cycle. *)
LEMMA NoPathNoCycle ==
  ASSUME TypeOK, Building, state = "build", NEW n \in todo,
         ~(dep[n] \in nodes /\ DependsOn(dep[n], n)),
         NEW C \in SUBSET ((Nodes \ todo) \cup {n}), C # {}
  PROVE  \E m \in C : dep[m] \notin C
<1>. SUFFICES ASSUME \A m \in C : dep[m] \in C PROVE FALSE
  OBVIOUS
<1>0. /\ C \subseteq Nodes /\ NoNode \notin C
      /\ \A S \in SUBSET (Nodes \ todo) : S # {} => \E m \in S : dep[m] \notin S
  BY DEF TypeOK, Building
<1>1. n \in C
  BY <1>0
<1>2. dep[n] \in C /\ dep[n] # n
  BY <1>0, <1>1 DEF Building, BadReference
<1>3. \A m \in C : m # n => m \in Added
  BY <1>0 DEF Added
<1>4. dep[n] \in nodes
  BY <1>2, <1>3, Edges
<1>5. PICK S \in SUBSET nodes :
         /\ \A e \in edges : e[1] \in S \cup {dep[n]} => e[2] \in S
         /\ n \notin S
  BY <1>4 DEF DependsOn
<1>. DEFINE T == C \cap (S \cup {dep[n]})
<1>6. dep[n] \in T /\ n \notin T
  BY <1>2, <1>5
<1>7. ASSUME NEW m \in T PROVE dep[m] \in T
  <2>1. m \in C /\ m # n /\ m \in S \cup {dep[n]}
    BY <1>6, <1>7
  <2>2. <<m, dep[m]>> \in edges
    BY <1>3, <2>1, Edges
  <2>3. dep[m] \in S
    BY <1>5, <2>1, <2>2
  <2>. QED  BY <2>1, <2>3
<1>8. T \in SUBSET (Nodes \ todo)
  BY <1>3, <1>6 DEF Added
<1>. HIDE DEF T
<1>. QED  BY <1>0, <1>6, <1>7, <1>8

-----------------------------------------------------------------------------
(* The layers *)

LEMMA NodesFinite ==
  ASSUME TypeOK
  PROVE  IsFiniteSet(nodes)
<1>1. IsFiniteSet(Nodes \cup {Empty})
  BY FS_AddElement
<1>. QED  BY <1>1, FS_Subset DEF TypeOK

LEMMA LeavesOfBoth ==
  ASSUME Peeling, state = "peel"
  PROVE  LeafNodes = Leaves(dep, nodes)
<1>1. ASSUME NEW n \in nodes
      PROVE  (\A e \in edges : e[1] # n) <=> (n \notin Nodes \/ dep[n] \notin nodes)
  <2>1. n \in Nodes /\ dep[n] \in nodes => <<n, dep[n]>> \in edges
    BY DEF Peeling
  <2>2. \A e \in edges : e[1] = n => n \in Nodes /\ dep[n] \in nodes
    BY DEF Peeling
  <2>. QED  BY <2>1, <2>2
<1>. QED  BY <1>1 DEF LeafNodes, Leaves

(* A graph without leaves and without cycles is empty. *)
LEMMA NoLeavesNoNodes ==
  ASSUME TypeOK, Acyclic(dep), Leaves(dep, nodes) = {}
  PROVE  nodes = {}
<1>1. \A n \in nodes : n \in Nodes /\ dep[n] \in nodes
  BY DEF Leaves
<1>2. nodes \in SUBSET Nodes
  BY <1>1
<1>. QED  BY <1>1, <1>2 DEF Acyclic

LEMMA TopoIsSeq ==
  ASSUME NEW graph, NEW S \in SUBSET (Nodes \cup {Empty})
  PROVE  TopoSortedLayers(graph, S) \in Seq(SUBSET (Nodes \cup {Empty}))
<1>1. IsFiniteSet(S)
  BY FS_AddElement, FS_Subset
<1>2. TopoSortedLayers(graph, S) \in Seq(SUBSET S)
  BY <1>1, TopoWellLayered DEF WellLayered
<1>3. SUBSET S \subseteq SUBSET (Nodes \cup {Empty})
  OBVIOUS
<1>. QED  BY <1>2, <1>3

-----------------------------------------------------------------------------
(* Every action keeps the invariant *)

LEMMA InitIInv == Init => IInv
BY DEF Init, IInv, TypeOK, Building, Peeling, NothingPeeled, CyclesAreRefused,
       LevelsAsDefined

LEMMA RefuseReferencesKeeps == IInv /\ RefuseReferences => IInv'
<1>. SUFFICES ASSUME IInv, RefuseReferences PROVE IInv'
  OBVIOUS
<1>. USE DEF RefuseReferences
<1>1. PICK n \in Nodes : dep[n] \in {n, Missing}
  BY DEF BadReference
<1>2. dep[n] = n => ~Acyclic(dep)
  <2>1. {n} \in SUBSET Nodes /\ {n} # {}
    OBVIOUS
  <2>. QED  BY <2>1 DEF Acyclic
<1>3. ~Acyclic(dep) \/ \E m \in Nodes : dep[m] = Missing
  BY <1>1, <1>2
<1>4. TypeOK' /\ NothingPeeled'
  BY DEF IInv, TypeOK, NothingPeeled
<1>5. CyclesAreRefused'
  BY <1>3 DEF CyclesAreRefused, Acyclic
<1>. QED  BY <1>4, <1>5 DEF IInv, Building, Peeling, LevelsAsDefined

LEMMA OneLevelKeeps == IInv /\ OneLevel => IInv'
<1>. SUFFICES ASSUME IInv, OneLevel PROVE IInv'
  OBVIOUS
<1>. USE DEF OneLevel
<1>1. layers' = <<Nodes>> /\ state' = "done" /\ dep' = dep /\ nodes' = {}
      /\ dep' = dep /\ edges' = edges /\ todo' = todo
  BY DEF IInv, NothingPeeled
<1>2. TypeOK'
  <2>1. Nodes \in SUBSET (Nodes \cup {Empty})
    OBVIOUS
  <2>2. <<Nodes>> \in Seq(SUBSET (Nodes \cup {Empty}))
    BY <2>1
  <2>. QED  BY <1>1, <2>2 DEF IInv, TypeOK, NothingPeeled
<1>3. Resolvable(dep)
  BY DEF AllRoots, Resolvable, Acyclic, BadReference
<1>4. Levels(dep) = <<Nodes>>
  BY DEF Levels
<1>5. CyclesAreRefused' /\ LevelsAsDefined'
  BY <1>1, <1>3, <1>4 DEF CyclesAreRefused, LevelsAsDefined, Resolvable, Acyclic
<1>6. Building' /\ Peeling' /\ NothingPeeled'
  BY <1>1 DEF Building, Peeling, NothingPeeled
<1>. QED  BY <1>1, <1>2, <1>3, <1>5, <1>6 DEF IInv

LEMMA StartBuildKeeps == IInv /\ StartBuild => IInv'
<1>. SUFFICES ASSUME IInv, StartBuild PROVE IInv'
  OBVIOUS
<1>. USE DEF StartBuild
<1>1. /\ nodes' = {} /\ edges' = {} /\ layers' = <<>> /\ state' = "build"
      /\ dep' = dep /\ todo' = {n \in Nodes : dep[n] # NoNode}
  BY DEF IInv, NothingPeeled
<1>2. TypeOK'
  BY <1>1 DEF IInv, TypeOK
<1>3. Added' = {}
  BY <1>1 DEF Added
<1>4. \A S \in SUBSET (Nodes \ todo') : S # {} => \E n \in S : dep[n] \notin S
  BY <1>1
<1>5. Building'
  BY <1>1, <1>3, <1>4 DEF Building
<1>. QED  BY <1>1, <1>2, <1>5
          DEF IInv, Peeling, NothingPeeled, CyclesAreRefused, LevelsAsDefined

LEMMA AddEdgeKeeps ==
  ASSUME IInv, NEW n \in Nodes, AddEdge(n)
  PROVE  IInv'
<1>. USE DEF AddEdge
<1>0. /\ TypeOK /\ Building /\ state = "build" /\ n \in todo /\ dep' = dep
      /\ state' = "build" /\ layers' = layers
  BY DEF IInv
<1>1. dep[n] # NoNode /\ dep[n] \in Nodes \cup {Empty}
  BY <1>0 DEF Building, BadReference, TypeOK, AnyGraph
<1>2. Added' = Added \cup {n}
  BY <1>0, <1>1 DEF Added, TypeOK
<1>3. TypeOK'
  BY <1>0, <1>1 DEF TypeOK
<1>4. nodes' = UNION {{m, dep[m]} : m \in Added'}
  BY <1>0, <1>2 DEF Building
<1>5. edges' = {<<m, dep[m]>> : m \in Added'}
  BY <1>0, <1>2 DEF Building
<1>6. \A S \in SUBSET (Nodes \ todo') : S # {} => \E m \in S : dep[m] \notin S
  <2>1. Nodes \ todo' \subseteq (Nodes \ todo) \cup {n}
    OBVIOUS
  <2>2. ~(dep[n] \in nodes /\ DependsOn(dep[n], n))
    OBVIOUS
  <2>. HIDE DEF AddEdge
  <2>. QED  BY <1>0, <2>1, <2>2, NoPathNoCycle
<1>7. Building'
  BY <1>0, <1>4, <1>5, <1>6 DEF Building
<1>. QED  BY <1>0, <1>3, <1>7
          DEF IInv, Peeling, NothingPeeled, CyclesAreRefused, LevelsAsDefined

LEMMA RefuseEdgeKeeps ==
  ASSUME IInv, NEW n \in Nodes, RefuseEdge(n)
  PROVE  IInv'
<1>. USE DEF RefuseEdge
<1>1. ~Acyclic(dep)
  BY PathClosesCycle DEF IInv
<1>2. TypeOK' /\ NothingPeeled'
  BY DEF IInv, TypeOK, NothingPeeled
<1>3. CyclesAreRefused'
  BY <1>1 DEF CyclesAreRefused, Acyclic
<1>. QED  BY <1>2, <1>3 DEF IInv, Building, Peeling, LevelsAsDefined

LEMMA StartPeelingKeeps == IInv /\ StartPeeling => IInv'
<1>. SUFFICES ASSUME IInv, StartPeeling PROVE IInv'
  OBVIOUS
<1>. USE DEF StartPeeling
<1>0. /\ TypeOK /\ Building /\ state = "build" /\ todo = {}
      /\ state' = "peel" /\ UNCHANGED <<dep, todo, nodes, edges, layers>>
      /\ layers = <<>> /\ ~AllRoots(dep)
  BY DEF IInv, NothingPeeled, Building
<1>1. Added = {m \in Nodes : dep[m] # NoNode}
  BY <1>0 DEF Added
<1>2. nodes = Linked(dep)
  BY <1>0, <1>1 DEF Building, Linked
<1>3. Resolvable(dep)
  BY <1>0 DEF Building, Resolvable, Acyclic
<1>4. edges = {<<m, dep[m]>> : m \in {k \in nodes \cap Nodes : dep[k] \in nodes}}
  <2>1. \A m \in Added : m \in nodes \cap Nodes /\ dep[m] \in nodes
    BY <1>0, Edges DEF Added
  <2>2. \A m \in nodes \cap Nodes : dep[m] \in nodes => m \in Added
    BY <1>0, <1>1 DEF TypeOK
  <2>3. Added = {k \in nodes \cap Nodes : dep[k] \in nodes}
    BY <2>1, <2>2 DEF Added
  <2>. QED  BY <1>0, <2>3 DEF Building
<1>5. layers \o TopoSortedLayers(dep, nodes) = Levels(dep)
  BY <1>0, <1>2, TopoIsSeq DEF Levels, TypeOK
<1>6. TypeOK'
  BY <1>0 DEF TypeOK
<1>7. Peeling'
  <2>1. Resolvable(dep')
    BY <1>0, <1>3
  <2>. QED  BY <1>0, <2>1, <1>4, <1>5 DEF Peeling
<1>. QED  BY <1>0, <1>6, <1>7
          DEF IInv, Building, NothingPeeled, CyclesAreRefused, LevelsAsDefined

LEMMA PeelLayerKeeps == IInv /\ PeelLayer => IInv'
<1>. SUFFICES ASSUME IInv, PeelLayer PROVE IInv'
  OBVIOUS
<1>. DEFINE X == Leaves(dep, nodes)
            A == SUBSET (Nodes \cup {Empty})
<1>0. TypeOK /\ Peeling /\ state = "peel"
  BY DEF IInv, PeelLayer
<1>1. LeafNodes = X
  BY <1>0, LeavesOfBoth
<1>2. /\ X # {} /\ layers' = Append(layers, X) /\ nodes' = nodes \ X
      /\ edges' = {e \in edges : e[2] \notin X} /\ UNCHANGED <<dep, state, todo>>
  BY <1>1 DEF PeelLayer
<1>3. X \in A /\ layers \in Seq(A)
  BY <1>0, LeavesInside DEF TypeOK
<1>4. TypeOK'
  <2>1. layers' \in Seq(A)
    BY <1>2, <1>3
  <2>2. edges' \subseteq Nodes \X (Nodes \cup {Empty})
    BY <1>0, <1>2 DEF TypeOK, Peeling
  <2>. QED  BY <1>0, <1>2, <2>1, <2>2 DEF TypeOK
<1>5. edges' = {<<m, dep[m]>> : m \in {k \in nodes' \cap Nodes : dep[k] \in nodes'}}
  <2>1. \A m \in nodes \cap Nodes : dep[m] \in nodes => m \notin X
    BY DEF Leaves
  <2>. HIDE DEF X
  <2>. QED  BY <1>0, <1>2, <2>1 DEF Peeling
<1>6. layers' \o TopoSortedLayers(dep, nodes') = Levels(dep)
  <2>. DEFINE R == TopoSortedLayers(dep, nodes')
  <2>1. R \in Seq(A)
    <3>1. nodes' \in SUBSET (Nodes \cup {Empty})
      BY <1>4 DEF TypeOK
    <3>. QED  BY <3>1, TopoIsSeq
  <2>2. TopoSortedLayers(dep, nodes) = <<X>> \o R
    BY <1>0, <1>2, NodesFinite, TopoStep
  <2>. HIDE DEF R, X, A
  <2>3. <<X>> \in Seq(A)
    BY <1>3
  <2>4. Append(layers, X) = layers \o <<X>>
    BY <1>3, AppendIsConcat
  <2>5. (layers \o <<X>>) \o R = layers \o (<<X>> \o R)
    BY <1>3, <2>1, <2>3, ConcatAssociative
  <2>6. layers \o (<<X>> \o R) = Levels(dep)
    BY <1>0, <2>2 DEF Peeling
  <2>7. layers' \o R = Levels(dep)
    BY <1>2, <2>4, <2>5, <2>6
  <2>. QED  BY <2>7 DEF R
<1>7. Peeling'
  <2>1. Resolvable(dep')
    BY <1>0, <1>2 DEF Peeling
  <2>2. layers' \o TopoSortedLayers(dep', nodes') = Levels(dep')
    BY <1>2, <1>6
  <2>. HIDE DEF X
  <2>. QED  BY <1>2, <1>5, <2>1, <2>2 DEF Peeling
<1>. HIDE DEF X
<1>. QED  BY <1>0, <1>2, <1>4, <1>7
          DEF IInv, Building, NothingPeeled, CyclesAreRefused, LevelsAsDefined

LEMMA FinishKeeps == IInv /\ Finish => IInv'
<1>. SUFFICES ASSUME IInv, Finish PROVE IInv'
  OBVIOUS
<1>0. /\ TypeOK /\ Peeling /\ state = "peel" /\ state' = "done"
      /\ UNCHANGED <<dep, todo, nodes, edges, layers>>
  BY DEF IInv, Finish
<1>1. Leaves(dep, nodes) = {}
  BY <1>0, LeavesOfBoth DEF Finish
<1>2. Resolvable(dep) /\ nodes = {}
  BY <1>0, <1>1, NoLeavesNoNodes DEF Peeling, Resolvable
<1>3. TopoSortedLayers(dep, nodes) = <<>>
  BY <1>0, <1>1, NodesFinite, TopoStep
<1>4. layers = Levels(dep)
  BY <1>0, <1>3 DEF Peeling, TypeOK
<1>5. Resolvable(dep') /\ Acyclic(dep') /\ layers' = Levels(dep')
  BY <1>0, <1>2, <1>4 DEF Resolvable
<1>6. TypeOK'
  BY <1>0 DEF TypeOK
<1>. QED  BY <1>0, <1>2, <1>5, <1>6
          DEF IInv, Building, Peeling, NothingPeeled, CyclesAreRefused,
              LevelsAsDefined

-----------------------------------------------------------------------------
(* The theorems *)

(* The inductive invariant: the dependency graph holds the edges added so  *)
(* far and has no cycle, and what TopoSortedLayers would make of what is   *)
(* left completes the levels.                                              *)
THEOREM Invariance == Spec => []IInv
<1>1. ASSUME IInv, UNCHANGED vars PROVE IInv'
  <2>1. UNCHANGED <<dep, state, todo, nodes, edges, layers>>
    BY <1>1 DEF vars
  <2>. QED  BY <1>1, <2>1
            DEF IInv, TypeOK, Building, Peeling, NothingPeeled,
                CyclesAreRefused, LevelsAsDefined, Added
<1>2. ASSUME IInv, Next PROVE IInv'
  BY <1>2, RefuseReferencesKeeps, OneLevelKeeps, StartBuildKeeps, AddEdgeKeeps,
     RefuseEdgeKeeps, StartPeelingKeeps, PeelLayerKeeps, FinishKeeps DEF Next
<1>. QED  BY InitIInv, <1>1, <1>2, PTL DEF Spec

(* ResolveGraph keeps to its types: it returns sets of node names. *)
THEOREM TypeCorrect == Spec => []TypeOK
BY Invariance, PTL DEF IInv

(* ResolveGraph refuses the graphs with a cycle or with a reference to no  *)
(* node, in every order of its map, and no others.                         *)
THEOREM RefusesCycles == Spec => []CyclesAreRefused
BY Invariance, PTL DEF IInv

(* Resolvable, from which the graph run controller's model decides what    *)
(* ResolveGraph answers, is its answer.                                    *)
THEOREM AnswerIsResolvable ==
  Spec => []((state = "done" => Resolvable(dep))
             /\ (state = "error" => ~Resolvable(dep)))
<1>1. ASSUME IInv
      PROVE  (state = "done" => Resolvable(dep))
             /\ (state = "error" => ~Resolvable(dep))
  BY <1>1 DEF IInv, CyclesAreRefused, Resolvable, BadReference
<1>. QED  BY <1>1, Invariance, PTL

(* The levels that ResolveGraph returns do not depend on the order.        *)
THEOREM LevelsAreDefined == Spec => []LevelsAsDefined
BY Invariance, PTL DEF IInv

(* In what ResolveGraph has peeled off, a node comes after the one it      *)
(* depends on and is in one level only.                                    *)
THEOREM LevelsAreInOrder == Spec => []LevelsRespectDependencies
<1>1. ASSUME IInv PROVE LevelsRespectDependencies
  <2>0. TypeOK /\ layers \in Seq(SUBSET (Nodes \cup {Empty}))
    BY <1>1 DEF IInv, TypeOK
  <2>1. CASE state \in {"check", "build", "error"}
    BY <1>1, <2>1 DEF IInv, NothingPeeled, LevelsRespectDependencies
  <2>2. CASE state \in {"peel", "done"}
    <3>. DEFINE L == Levels(dep)
    <3>1. Resolvable(dep)
      BY <1>1, <2>2 DEF IInv, Peeling
    <3>2. /\ L \in Seq(SUBSET (Nodes \cup {Empty}))
          /\ \A i, j \in DOMAIN L : \A n \in L[i] : n \in L[j] => i = j
          /\ \A i \in DOMAIN L : \A n \in L[i] \cap Nodes :
                dep[n] # NoNode => \E j \in 1..(i - 1) : dep[n] \in L[j]
      BY <2>0, <3>1, LevelsInOrder DEF TypeOK, Resolvable
    <3>. HIDE DEF L
    <3>3. /\ DOMAIN layers = 1..Len(layers) /\ Len(layers) \in Nat
          /\ \A i \in DOMAIN layers : i \in DOMAIN L /\ layers[i] = L[i]
      <4>1. CASE state = "done"
        BY <1>1, <2>0, <4>1 DEF IInv, LevelsAsDefined, L
      <4>2. CASE state = "peel"
        <5>. DEFINE R == TopoSortedLayers(dep, nodes)
        <5>1. R \in Seq(SUBSET (Nodes \cup {Empty}))
          BY <2>0, TopoIsSeq DEF TypeOK
        <5>. HIDE DEF R
        <5>2. layers \o R = L
          BY <1>1, <4>2 DEF IInv, Peeling, R, L
        <5>3. /\ Len(layers \o R) = Len(layers) + Len(R)
              /\ \A i \in 1..(Len(layers) + Len(R)) :
                    i <= Len(layers) => (layers \o R)[i] = layers[i]
          BY <2>0, <5>1, ConcatProperties
        <5>4. /\ DOMAIN layers = 1..Len(layers) /\ Len(layers) \in Nat
              /\ DOMAIN L = 1..Len(L) /\ Len(R) \in Nat
          BY <2>0, <3>2, <5>1
        <5>. QED  BY <5>2, <5>3, <5>4
      <4>. QED  BY <2>2, <4>1, <4>2
    <3>4. ASSUME NEW i \in DOMAIN layers, NEW n \in layers[i]
          PROVE  /\ \A j \in DOMAIN layers : n \in layers[j] => i = j
                 /\ n \in Nodes => \/ dep[n] = NoNode
                                   \/ \E j \in 1..(i - 1) : dep[n] \in layers[j]
      <4>1. \A j \in DOMAIN layers : n \in layers[j] => i = j
        BY <3>2, <3>3
      <4>2. ASSUME n \in Nodes, dep[n] # NoNode
            PROVE  \E j \in 1..(i - 1) : dep[n] \in layers[j]
        <5>1. PICK j \in 1..(i - 1) : dep[n] \in L[j]
          BY <3>2, <3>3, <4>2
        <5>2. j \in DOMAIN layers
          BY <3>3
        <5>. QED  BY <3>3, <5>1, <5>2
      <4>. QED  BY <4>1, <4>2
    <3>. QED  BY <3>4 DEF LevelsRespectDependencies
  <2>. QED  BY <2>0, <2>1, <2>2 DEF TypeOK
<1>. QED  BY <1>1, Invariance, PTL
=============================================================================
