------------------------- MODULE GraphLevelsProofs -------------------------
(***************************************************************************)
(* What Levels computes, for every graph.  TopoSortedLayers is recursive in*)
(* the set that is left; facts about all finite sets are proved with a     *)
(* smallest set for which they fail.                                       *)
(***************************************************************************)
EXTENDS GraphLevels, FiniteSetTheorems, WellFoundedInduction,
        SequenceTheorems, TLAPS

-----------------------------------------------------------------------------
(* The recursion *)

LEMMA SmallestSet ==
  ASSUME NEW S, IsFiniteSet(S), NEW B \in SUBSET (SUBSET S), B # {}
  PROVE  \E T \in B : \A U \in SUBSET T : U # T => U \notin B
<1>1. IsWellFoundedOn(StrictSubsetOrdering(S), SUBSET S)
  BY FS_StrictSubsetOrderingWellFounded, FS_FiniteSubsetsOfFinite
<1>2. PICK T \in B : \A U \in B : <<U, T>> \notin StrictSubsetOrdering(S)
  BY <1>1, WFMin
<1>. QED  BY <1>2 DEF StrictSubsetOrdering

LEMMA LeavesInside ==
  ASSUME NEW dep, NEW T
  PROVE  /\ Leaves(dep, T) \subseteq T
         /\ Leaves(dep, T) # {} => T \ Leaves(dep, T) # T
BY DEF Leaves

(* One step of the recursion: the leaves, then what f makes of the rest. *)
Peeled(dep, f, T) ==
    IF Leaves(dep, T) = {} THEN <<>>
    ELSE <<Leaves(dep, T)>> \o f[T \ Leaves(dep, T)]

(* f peels every subset of S. *)
Peels(dep, S, f) == f = [T \in SUBSET S |-> Peeled(dep, f, T)]

LEMMA PeelsStep ==
  ASSUME NEW dep, NEW S, NEW f, Peels(dep, S, f), NEW T \in SUBSET S
  PROVE  f[T] = Peeled(dep, f, T)
<1>. DEFINE g == [U \in SUBSET S |-> Peeled(dep, f, U)]
<1>1. f = g
  BY DEF Peels
<1>2. g[T] = Peeled(dep, f, T)
  OBVIOUS
<1>. QED  BY <1>1, <1>2

(* There is one way to peel a set, whatever it is a subset of. *)
LEMMA PeelsUnique ==
  ASSUME NEW dep, NEW S, NEW R, NEW f, NEW g, IsFiniteSet(S),
         Peels(dep, S, f), Peels(dep, R, g)
  PROVE  \A T \in SUBSET S : T \in SUBSET R => f[T] = g[T]
<1>. DEFINE B == {T \in SUBSET S : T \in SUBSET R /\ f[T] # g[T]}
<1>. SUFFICES ASSUME B # {} PROVE FALSE
  OBVIOUS
<1>1. PICK T \in B : \A U \in SUBSET T : U # T => U \notin B
  <2>. HIDE DEF B
  <2>1. B \in SUBSET (SUBSET S)
    BY DEF B
  <2>. QED  BY <2>1, SmallestSet
<1>2. T \in SUBSET S /\ T \in SUBSET R /\ f[T] # g[T]
  BY <1>1
<1>3. f[T] = Peeled(dep, f, T) /\ g[T] = Peeled(dep, g, T)
  BY <1>2, PeelsStep
<1>4. Leaves(dep, T) # {}
  BY <1>2, <1>3 DEF Peeled
<1>5. f[T \ Leaves(dep, T)] = g[T \ Leaves(dep, T)]
  <2>. DEFINE U == T \ Leaves(dep, T)
  <2>1. U \in SUBSET T /\ U # T
    BY <1>4, LeavesInside
  <2>2. U \in SUBSET S /\ U \in SUBSET R
    BY <1>2, <2>1
  <2>3. U \notin B
    BY <1>1, <2>1
  <2>. QED  BY <2>2, <2>3
<1>. QED  BY <1>2, <1>3, <1>5 DEF Peeled

LEMMA PeelsExists ==
  ASSUME NEW dep, NEW S, IsFiniteSet(S)
  PROVE  \E f : Peels(dep, S, f)
<1>. DEFINE B == {T \in SUBSET S : ~\E f : Peels(dep, T, f)}
<1>. SUFFICES ASSUME B # {} PROVE FALSE
  OBVIOUS
<1>1. PICK T \in B : \A U \in SUBSET T : U # T => U \notin B
  <2>. HIDE DEF B
  <2>1. B \in SUBSET (SUBSET S)
    BY DEF B
  <2>. QED  BY <2>1, SmallestSet
<1>2. T \in SUBSET S /\ ~\E f : Peels(dep, T, f)
  BY <1>1
<1>. DEFINE peel(U) == CHOOSE f : Peels(dep, U, f)
            left(U) == U \ Leaves(dep, U)
            F(U)    == IF Leaves(dep, U) = {} THEN <<>>
                       ELSE <<Leaves(dep, U)>> \o peel(left(U))[left(U)]
            h       == [U \in SUBSET T |-> F(U)]
<1>3. ASSUME NEW U \in SUBSET T, U # T
      PROVE  Peels(dep, U, peel(U)) /\ IsFiniteSet(U)
  <2>1. U \in SUBSET S /\ U \notin B
    BY <1>1, <1>2, <1>3
  <2>2. \E f : Peels(dep, U, f)
    BY <2>1
  <2>. QED  BY <2>1, <2>2, FS_Subset
<1>4. ASSUME NEW V \in SUBSET T, V # T
      PROVE  peel(V)[V] = F(V)
  <2>1. peel(V)[V] = Peeled(dep, peel(V), V)
    <3>1. Peels(dep, V, peel(V)) /\ V \in SUBSET V
      BY <1>3, <1>4
    <3>. HIDE DEF peel
    <3>. QED  BY <3>1, PeelsStep
  <2>2. left(V) \in SUBSET V /\ left(V) \in SUBSET T
    BY LeavesInside
  <2>3. ASSUME Leaves(dep, V) # {}
        PROVE  peel(V)[left(V)] = peel(left(V))[left(V)]
    <3>1. left(V) # T
      BY <1>4, <2>2
    <3>2. /\ Peels(dep, V, peel(V)) /\ IsFiniteSet(V)
          /\ Peels(dep, left(V), peel(left(V)))
      BY <1>3, <1>4, <2>2, <3>1
    <3>3. left(V) \in SUBSET V /\ left(V) \in SUBSET left(V)
      BY <2>2
    <3>. HIDE DEF peel, left
    <3>. QED  BY <3>2, <3>3, PeelsUnique
  <2>. HIDE DEF peel
  <2>. QED  BY <2>1, <2>3 DEF Peeled
<1>5. ASSUME NEW U \in SUBSET T, Leaves(dep, U) # {}
      PROVE  peel(left(U))[left(U)] = h[left(U)]
  <2>1. left(U) \in SUBSET T /\ left(U) # T
    <3>1. left(U) # U /\ left(U) \in SUBSET U
      BY <1>5, LeavesInside
    <3>. QED  BY <3>1
  <2>2. peel(left(U))[left(U)] = F(left(U))
    <3>. HIDE DEF peel, left, F
    <3>. QED  BY <1>4, <2>1
  <2>3. h[left(U)] = F(left(U))
    <3>. HIDE DEF left, F
    <3>. QED  BY <2>1
  <2>. QED  BY <2>2, <2>3
<1>6. Peels(dep, T, h)
  <2>. DEFINE G(U) == Peeled(dep, h, U)
  <2>1. \A U \in SUBSET T : F(U) = G(U)
    <3>. SUFFICES ASSUME NEW U \in SUBSET T PROVE F(U) = G(U)
      OBVIOUS
    <3>. HIDE DEF h, peel
    <3>. QED  BY <1>5 DEF Peeled
  <2>2. h = [U \in SUBSET T |-> G(U)]
    <3>. HIDE DEF F, G
    <3>. QED  BY <2>1
  <2>. HIDE DEF h
  <2>. QED  BY <2>2 DEF Peels
<1>. HIDE DEF h
<1>. QED  BY <1>2, <1>6

LEMMA TopoPeels ==
  ASSUME NEW dep, NEW S, IsFiniteSet(S)
  PROVE  \E f : Peels(dep, S, f) /\ TopoSortedLayers(dep, S) = f[S]
<1>. DEFINE f == CHOOSE g : Peels(dep, S, g)
<1>1. Peels(dep, S, f)
  BY PeelsExists
<1>2. TopoSortedLayers(dep, S) = f[S]
  BY DEF TopoSortedLayers, Peels, Peeled
<1>. QED  BY <1>1, <1>2

(* The equation that defines the layers. *)
LEMMA TopoStep ==
  ASSUME NEW dep, NEW S, IsFiniteSet(S)
  PROVE  TopoSortedLayers(dep, S) =
            IF Leaves(dep, S) = {} THEN <<>>
            ELSE <<Leaves(dep, S)>> \o
                     TopoSortedLayers(dep, S \ Leaves(dep, S))
<1>. DEFINE R == S \ Leaves(dep, S)
<1>1. IsFiniteSet(R) /\ R \in SUBSET S /\ R \in SUBSET R /\ S \in SUBSET S
  BY FS_Subset
<1>2. PICK f : Peels(dep, S, f) /\ TopoSortedLayers(dep, S) = f[S]
  BY TopoPeels
<1>3. PICK g : Peels(dep, R, g) /\ TopoSortedLayers(dep, R) = g[R]
  BY <1>1, TopoPeels
<1>4. f[R] = g[R]
  <2>. HIDE DEF R
  <2>. QED  BY <1>1, <1>2, <1>3, PeelsUnique
<1>5. f[S] = Peeled(dep, f, S)
  BY <1>1, <1>2, PeelsStep
<1>. QED  BY <1>2, <1>3, <1>4, <1>5 DEF Peeled

-----------------------------------------------------------------------------
(* What the layers are *)

(* The layers are disjoint, and what a node depends on is in an earlier    *)
(* one or outside of S.                                                    *)
WellLayered(dep, S, layers) ==
    /\ layers \in Seq(SUBSET S)
    /\ \A i, j \in DOMAIN layers : \A n \in layers[i] :
          n \in layers[j] => i = j
    /\ \A i \in DOMAIN layers : \A n \in layers[i] \cap Nodes :
          dep[n] \in S => \E j \in 1..(i - 1) : dep[n] \in layers[j]

LEMMA FirstAndRest ==
  ASSUME NEW A, NEW a \in A, NEW s \in Seq(A)
  PROVE  /\ <<a>> \o s \in Seq(A)
         /\ DOMAIN (<<a>> \o s) = 1..(Len(s) + 1)
         /\ (<<a>> \o s)[1] = a
         /\ \A i \in 1..Len(s) : (<<a>> \o s)[i + 1] = s[i]
         /\ \A i \in DOMAIN (<<a>> \o s) :
               i = 1 \/ (i - 1 \in DOMAIN s /\ (<<a>> \o s)[i] = s[i - 1])
<1>1. /\ <<a>> \in Seq(A) /\ Len(<<a>>) = 1 /\ <<a>>[1] = a
      /\ Len(s) \in Nat /\ DOMAIN s = 1..Len(s)
  OBVIOUS
<1>2. /\ <<a>> \o s \in Seq(A)
      /\ Len(<<a>> \o s) = 1 + Len(s)
      /\ \A i \in 1..(1 + Len(s)) :
            (<<a>> \o s)[i] = IF i <= 1 THEN <<a>>[i] ELSE s[i - 1]
  BY <1>1, ConcatProperties
<1>. QED  BY <1>1, <1>2

LEMMA LayerOnTop ==
  ASSUME NEW dep, NEW S, NEW rest,
         WellLayered(dep, S \ Leaves(dep, S), rest)
  PROVE  WellLayered(dep, S, <<Leaves(dep, S)>> \o rest)
<1>. DEFINE X == Leaves(dep, S)
            R == S \ X
            L == <<X>> \o rest
<1>1. X \in SUBSET S /\ \A n \in X : n \notin Nodes \/ dep[n] \notin S
  BY DEF Leaves
<1>2. /\ rest \in Seq(SUBSET R)
      /\ \A i, j \in DOMAIN rest : \A n \in rest[i] : n \in rest[j] => i = j
      /\ \A i \in DOMAIN rest : \A n \in rest[i] \cap Nodes :
            dep[n] \in R => \E j \in 1..(i - 1) : dep[n] \in rest[j]
  BY DEF WellLayered
<1>3. rest \in Seq(SUBSET S) /\ \A i \in DOMAIN rest : rest[i] \subseteq R
  <2>1. Len(rest) \in Nat /\ DOMAIN rest = 1..Len(rest)
    BY <1>2
  <2>2. \A i \in 1..Len(rest) : rest[i] \in SUBSET R
    BY <1>2
  <2>. HIDE DEF X
  <2>. QED  BY <2>1, <2>2, <1>2
<1>. HIDE DEF X
<1>4. /\ L \in Seq(SUBSET S) /\ L[1] = X
      /\ DOMAIN L = 1..(Len(rest) + 1) /\ Len(rest) \in Nat
      /\ DOMAIN rest = 1..Len(rest)
      /\ \A i \in 1..Len(rest) : L[i + 1] = rest[i]
      /\ \A i \in DOMAIN L :
            i = 1 \/ (i - 1 \in DOMAIN rest /\ L[i] = rest[i - 1])
  BY <1>1, <1>3, FirstAndRest
<1>. HIDE DEF L
<1>5. ASSUME NEW i \in DOMAIN L, NEW j \in DOMAIN L, NEW n \in L[i], n \in L[j]
      PROVE  i = j
  <2>1. CASE i = 1 /\ j = 1
    BY <2>1
  <2>2. CASE i = 1 /\ j # 1
    BY <2>2, <1>3, <1>4, <1>5
  <2>3. CASE i # 1 /\ j = 1
    BY <2>3, <1>3, <1>4, <1>5
  <2>4. CASE i # 1 /\ j # 1
    <3>1. /\ i - 1 \in DOMAIN rest /\ j - 1 \in DOMAIN rest
          /\ n \in rest[i - 1] /\ n \in rest[j - 1]
      BY <2>4, <1>4, <1>5
    <3>2. i - 1 = j - 1
      BY <3>1, <1>2
    <3>. QED  BY <3>2, <1>4
  <2>. QED  BY <2>1, <2>2, <2>3, <2>4
<1>6. ASSUME NEW i \in DOMAIN L, NEW n \in L[i] \cap Nodes, dep[n] \in S
      PROVE  \E j \in 1..(i - 1) : dep[n] \in L[j]
  <2>1. i # 1
    BY <1>1, <1>4, <1>6
  <2>2. i - 1 \in DOMAIN rest /\ n \in rest[i - 1] \cap Nodes
    BY <2>1, <1>4, <1>6
  <2>3. CASE dep[n] \in X
    <3>1. 1 \in 1..(i - 1) /\ dep[n] \in L[1]
      BY <2>1, <2>3, <1>4
    <3>. QED  BY <3>1
  <2>4. CASE dep[n] \notin X
    <3>1. PICK j \in 1..(i - 1 - 1) : dep[n] \in rest[j]
      BY <2>2, <2>4, <1>2, <1>6
    <3>2. j + 1 \in 1..(i - 1) /\ j \in 1..Len(rest)
      BY <2>2, <1>4
    <3>3. dep[n] \in L[j + 1]
      BY <3>1, <3>2, <1>4
    <3>. QED  BY <3>2, <3>3
  <2>. QED  BY <2>3, <2>4
<1>7. WellLayered(dep, S, L)
  BY <1>4, <1>5, <1>6 DEF WellLayered
<1>. QED  BY <1>7 DEF L, X

(* TopoSortedLayers layers every finite set. *)
LEMMA TopoWellLayered ==
  ASSUME NEW dep, NEW S, IsFiniteSet(S)
  PROVE  WellLayered(dep, S, TopoSortedLayers(dep, S))
<1>. DEFINE B == {T \in SUBSET S :
                    ~WellLayered(dep, T, TopoSortedLayers(dep, T))}
<1>. SUFFICES ASSUME B # {} PROVE FALSE
  OBVIOUS
<1>1. PICK T \in B : \A U \in SUBSET T : U # T => U \notin B
  <2>. HIDE DEF B
  <2>1. B \in SUBSET (SUBSET S)
    BY DEF B
  <2>. QED  BY <2>1, SmallestSet
<1>. DEFINE X == Leaves(dep, T)
            R == T \ X
<1>2. /\ T \in SUBSET S /\ IsFiniteSet(T)
      /\ ~WellLayered(dep, T, TopoSortedLayers(dep, T))
  BY <1>1, FS_Subset
<1>3. CASE X = {}
  <2>1. TopoSortedLayers(dep, T) = <<>>
    BY <1>2, <1>3, TopoStep
  <2>2. WellLayered(dep, T, <<>>)
    BY DEF WellLayered
  <2>. QED  BY <1>2, <2>1, <2>2
<1>4. CASE X # {}
  <2>1. R \in SUBSET T /\ R # T
    BY <1>4, LeavesInside
  <2>2. WellLayered(dep, R, TopoSortedLayers(dep, R))
    BY <2>1, <1>1, <1>2
  <2>3. TopoSortedLayers(dep, T) = <<X>> \o TopoSortedLayers(dep, R)
    BY <1>2, <1>4, TopoStep
  <2>4. WellLayered(dep, T, <<X>> \o TopoSortedLayers(dep, R))
    BY <2>2, LayerOnTop
  <2>. QED  BY <1>2, <2>3, <2>4
<1>. QED  BY <1>3, <1>4

-----------------------------------------------------------------------------
(* What the levels of a graph are *)

LEMMA LinkedNodes ==
  ASSUME NEW dep \in AnyGraph, \A n \in Nodes : ~BadReference(dep, n)
  PROVE  /\ Linked(dep) \subseteq Nodes \cup {Empty}
         /\ IsFiniteSet(Linked(dep))
         /\ \A n \in Nodes :
               dep[n] # NoNode => n \in Linked(dep) /\ dep[n] \in Linked(dep)
<1>1. \A n \in Nodes : dep[n] # NoNode => dep[n] \in Nodes \cup {Empty}
  BY DEF AnyGraph, BadReference
<1>2. Linked(dep) \subseteq Nodes \cup {Empty}
  BY <1>1 DEF Linked
<1>3. IsFiniteSet(Nodes \cup {Empty})
  BY NodesAssumption, FS_AddElement
<1>4. IsFiniteSet(Linked(dep))
  BY <1>2, <1>3, FS_Subset
<1>. QED  BY <1>2, <1>4 DEF Linked

(* The levels of ResolveGraph, for every graph without bad references:     *)
(* each is a set of known nodes, no node is in two of them, and a node     *)
(* comes after the one it depends on.                                      *)
THEOREM LevelsInOrder ==
  ASSUME NEW dep \in AnyGraph, \A n \in Nodes : ~BadReference(dep, n)
  PROVE  /\ Levels(dep) \in Seq(SUBSET (Nodes \cup {Empty}))
         /\ \A i, j \in DOMAIN Levels(dep) : \A n \in Levels(dep)[i] :
               n \in Levels(dep)[j] => i = j
         /\ \A i \in DOMAIN Levels(dep) : \A n \in Levels(dep)[i] \cap Nodes :
               dep[n] # NoNode => \E j \in 1..(i - 1) : dep[n] \in Levels(dep)[j]
<1>1. CASE AllRoots(dep)
  <2>. DEFINE L == <<Nodes>>
  <2>1. Levels(dep) = L
    BY <1>1 DEF Levels
  <2>2. L \in Seq(SUBSET (Nodes \cup {Empty})) /\ DOMAIN L = {1}
    <3>1. Nodes \in SUBSET (Nodes \cup {Empty})
      OBVIOUS
    <3>. QED  BY <3>1
  <2>3. \A n \in Nodes : dep[n] = NoNode
    BY <1>1 DEF AllRoots
  <2>. QED  BY <2>1, <2>2, <2>3
<1>2. CASE ~AllRoots(dep)
  <2>. DEFINE L == TopoSortedLayers(dep, Linked(dep))
  <2>1. Levels(dep) = L
    BY <1>2 DEF Levels
  <2>2. WellLayered(dep, Linked(dep), L)
    BY LinkedNodes, TopoWellLayered
  <2>. HIDE DEF L
  <2>3. L \in Seq(SUBSET (Nodes \cup {Empty}))
    <3>1. L \in Seq(SUBSET Linked(dep))
      BY <2>2 DEF WellLayered
    <3>2. SUBSET Linked(dep) \subseteq SUBSET (Nodes \cup {Empty})
      BY LinkedNodes
    <3>. QED  BY <3>1, <3>2
  <2>. QED  BY <2>1, <2>2, <2>3, LinkedNodes DEF WellLayered
<1>. QED  BY <1>1, <1>2

Covers(layers, S) == \A n : n \in S <=> \E i \in DOMAIN layers : n \in layers[i]

(* Nothing is left over when a set without cycles is peeled. *)
LEMMA TopoCovers ==
  ASSUME NEW dep, NEW S, IsFiniteSet(S), Acyclic(dep)
  PROVE  Covers(TopoSortedLayers(dep, S), S)
<1>. DEFINE B == {T \in SUBSET S : ~Covers(TopoSortedLayers(dep, T), T)}
<1>. SUFFICES ASSUME B # {} PROVE FALSE
  OBVIOUS
<1>1. PICK T \in B : \A U \in SUBSET T : U # T => U \notin B
  <2>. HIDE DEF B
  <2>1. B \in SUBSET (SUBSET S)
    BY DEF B
  <2>. QED  BY <2>1, SmallestSet
<1>. DEFINE X == Leaves(dep, T)
            R == T \ X
            L == TopoSortedLayers(dep, T)
            K == TopoSortedLayers(dep, R)
<1>2. T \in SUBSET S /\ IsFiniteSet(T) /\ ~Covers(L, T)
  BY <1>1, FS_Subset
<1>3. CASE X = {}
  <2>1. \A n \in T : n \in Nodes /\ dep[n] \in T
    BY <1>3 DEF Leaves
  <2>2. T = {}
    <3>1. T \in SUBSET Nodes
      BY <2>1
    <3>. QED  BY <2>1, <3>1 DEF Acyclic
  <2>3. L = <<>>
    BY <1>2, <1>3, TopoStep
  <2>4. Covers(<<>>, {})
    BY DEF Covers
  <2>. HIDE DEF L
  <2>. QED  BY <1>2, <2>2, <2>3, <2>4
<1>4. CASE X # {}
  <2>1. R \in SUBSET T /\ R # T /\ X \subseteq T
    BY <1>4, LeavesInside
  <2>2. Covers(K, R)
    BY <2>1, <1>1, <1>2
  <2>3. L = <<X>> \o K
    BY <1>2, <1>4, TopoStep
  <2>4. K \in Seq(SUBSET T) /\ X \in SUBSET T
    <3>1. IsFiniteSet(R)
      BY <1>2, <2>1, FS_Subset
    <3>2. K \in Seq(SUBSET R) /\ SUBSET R \subseteq SUBSET T
      BY <3>1, <2>1, TopoWellLayered DEF WellLayered
    <3>. HIDE DEF K, R, X
    <3>. QED  BY <2>1, <3>2
  <2>. HIDE DEF K, X, L
  <2>5. /\ DOMAIN L = 1..(Len(K) + 1) /\ L[1] = X
        /\ \A i \in 1..Len(K) : L[i + 1] = K[i]
        /\ \A i \in DOMAIN L : i = 1 \/ (i - 1 \in DOMAIN K /\ L[i] = K[i - 1])
    BY <2>3, <2>4, FirstAndRest
  <2>6. DOMAIN K = 1..Len(K) /\ Len(K) \in Nat
    BY <2>4
  <2>7. ASSUME NEW n PROVE n \in T <=> \E i \in DOMAIN L : n \in L[i]
    <3>1. n \in R <=> \E i \in DOMAIN K : n \in K[i]
      BY <2>2 DEF Covers
    <3>2. n \in T => \E i \in DOMAIN L : n \in L[i]
      <4>1. CASE n \in X
        <5>1. 1 \in DOMAIN L
          BY <2>5, <2>6
        <5>. QED  BY <2>5, <4>1, <5>1
      <4>2. CASE n \in R
        <5>1. PICK i \in DOMAIN K : n \in K[i]
          BY <3>1, <4>2
        <5>2. i + 1 \in DOMAIN L /\ L[i + 1] = K[i]
          BY <2>5, <2>6
        <5>. QED  BY <5>1, <5>2
      <4>. QED  BY <4>1, <4>2
    <3>3. (\E i \in DOMAIN L : n \in L[i]) => n \in T
      BY <2>1, <2>5, <3>1
    <3>. QED  BY <3>2, <3>3
  <2>. QED  BY <1>2, <2>7 DEF Covers
<1>. QED  BY <1>3, <1>4

(***************************************************************************)
(* Which nodes ResolveGraph gives a level: without any dependency all of   *)
(* them, otherwise exactly those that occur in one.  The graph run never   *)
(* starts the others.                                                      *)
(***************************************************************************)
THEOREM LevelsCover ==
  ASSUME NEW dep \in AnyGraph, Resolvable(dep)
  PROVE  \A n : (\E i \in DOMAIN Levels(dep) : n \in Levels(dep)[i])
               <=> IF AllRoots(dep) THEN n \in Nodes ELSE n \in Linked(dep)
<1>1. CASE AllRoots(dep)
  <2>1. Levels(dep) = <<Nodes>>
    BY <1>1 DEF Levels
  <2>. QED  BY <1>1, <2>1
<1>2. CASE ~AllRoots(dep)
  <2>. DEFINE L == TopoSortedLayers(dep, Linked(dep))
  <2>1. Levels(dep) = L
    BY <1>2 DEF Levels
  <2>2. Covers(L, Linked(dep))
    BY LinkedNodes, TopoCovers DEF Resolvable
  <2>. HIDE DEF L
  <2>. QED  BY <1>2, <2>1, <2>2 DEF Covers
<1>. QED  BY <1>1, <1>2
=============================================================================
