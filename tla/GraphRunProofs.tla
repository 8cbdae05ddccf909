--------------------------- MODULE GraphRunProofs ---------------------------
(***************************************************************************)
(* Proofs about GraphRun, for every set of nodes, every graph on them and  *)
(* any number of faults, requests and returns.                             *)
(***************************************************************************)
EXTENDS GraphRun, GraphLevelsProofs

USE NodesAssumption, GraphsAssumption, GraphBoundsAssumption

-----------------------------------------------------------------------------
(* Types *)

LEMMA NullTypes ==
  /\ NoGraph \in GraphRuns /\ NoRuns \in [Nodes -> RunPhases]
  /\ [NoGraph EXCEPT !.live = TRUE] \in GraphRuns
  /\ ~NoGraph.live /\ NoGraph.phase = "" /\ NoGraph.levels = <<>>
  /\ \A n \in Nodes : NoGraph.node[n] = "None" /\ NoRuns[n] = "None"
<1>1. <<>> \in Seq(SUBSET (Nodes \cup {Empty}))
  OBVIOUS
<1>. QED  BY <1>1 DEF NoGraph, NoRuns, GraphRuns, NodePhases, GraphPhases,
                      RunPhases

LEMMA CopyTypes ==
  ASSUME NEW g \in GraphRuns
  PROVE  /\ [g EXCEPT !.fin = TRUE] \in GraphRuns
         /\ [g EXCEPT !.deleting = TRUE] \in GraphRuns
         /\ \A p \in GraphPhases : [g EXCEPT !.phase = p] \in GraphRuns
         /\ \A n \in Nodes, p \in NodePhases :
               [g EXCEPT !.node[n] = p] \in GraphRuns
         /\ \A node \in [Nodes -> NodePhases], p \in GraphPhases :
               [g EXCEPT !.node = node, !.phase = p] \in GraphRuns
         /\ \A levels \in Seq(SUBSET (Nodes \cup {Empty})),
               node \in [Nodes -> NodePhases] :
               [g EXCEPT !.levels = levels, !.node = node] \in GraphRuns
BY DEF GraphRuns

LEMMA GlobalStatus ==
  ASSUME NEW node
  PROVE  /\ calculateGlobalStatus(node) \in GraphPhases \ {""}
         /\ calculateGlobalStatus(node) = "Completed"
               => NodesIn(node, {"Completed"}) = Nodes
BY DEF calculateGlobalStatus, GraphPhases, NodesIn

LEMMA FailFastType ==
  ASSUME NEW g \in GraphRuns, NEW i
  PROVE  failFast(g, i) \in GraphRuns
<1>. DEFINE node == [n \in Nodes |-> IF n \in LaterNodes(g.levels, i)
                                     THEN "Blocked" ELSE g.node[n]]
<1>1. node \in [Nodes -> NodePhases]
  BY DEF GraphRuns, NodePhases
<1>2. calculateGlobalStatus(node) \in GraphPhases
  BY GlobalStatus
<1>3. failFast(g, i) = [g EXCEPT !.node = node,
                                 !.phase = calculateGlobalStatus(node)]
  BY DEF failFast
<1>4. \A m \in [Nodes -> NodePhases], p \in GraphPhases :
         [g EXCEPT !.node = m, !.phase = p] \in GraphRuns
  BY CopyTypes
<1>5. [g EXCEPT !.node = node, !.phase = calculateGlobalStatus(node)]
         \in GraphRuns
  <2>. HIDE DEF node
  <2>. QED  BY <1>1, <1>2, <1>4
<1>. QED  BY <1>3, <1>5

LEMMA ResolvedType ==
  ASSUME TypeOK, Resolvable(dep)
  PROVE  ResolvedGraph \in GraphRuns
<1>1. Levels(dep) \in Seq(SUBSET (Nodes \cup {Empty}))
  BY LevelsInOrder DEF TypeOK, Resolvable
<1>2. [n \in Nodes |-> "Pending"] \in [Nodes -> NodePhases]
  BY DEF NodePhases
<1>3. cache \in GraphRuns
  BY DEF TypeOK
<1>. QED  BY <1>1, <1>2, <1>3, CopyTypes DEF ResolvedGraph

LEMMA ErrorType ==
  ASSUME TypeOK, NEW g \in GraphRuns, NEW stale \in BOOLEAN,
         NEW cost \in Nat, updateStatusWithError(g, stale, cost)
  PROVE  /\ dep' = dep /\ graph' \in GraphRuns /\ cacheStale' \in BOOLEAN
         /\ faults' \in Nat /\ queued' = TRUE
<1>1. [g EXCEPT !.phase = "Failed"] \in GraphRuns
  BY CopyTypes DEF GraphPhases
<1>2. faults' \in Nat
  BY DEF updateStatusWithError, TypeOK
<1>. QED  BY <1>1, <1>2 DEF updateStatusWithError, Write, apiVars, TypeOK

LEMMA ReturnTypes ==
  ASSUME Return
  PROVE  /\ pc' \in {"idle", "levels"} /\ loc' \in GraphRuns
         /\ locStale' \in BOOLEAN /\ listed' \in [Nodes -> RunPhases]
         /\ level' \in Nat /\ todo' \in SUBSET (Nodes \cup {Empty})
BY NullTypes DEF Return

LEMMA TypeStep ==
  ASSUME TypeOK, [Next]_vars
  PROVE  TypeOK'
<1>. USE DEF TypeOK, apiVars, runVars, recVars, envVars
<1>0. CASE UNCHANGED vars
  BY <1>0 DEF vars
<1>1. CASE ReconcileNotFound
  BY <1>1 DEF ReconcileNotFound
<1>2. CASE RemoveFinalizer
  BY <1>2, NullTypes DEF RemoveFinalizer, Write
<1>3. CASE AddFinalizer
  BY <1>3, CopyTypes DEF AddFinalizer, Write
<1>4. CASE initializeStatus
  <2>1. "Pending" \in GraphPhases
    BY DEF GraphPhases
  <2>2. [cache EXCEPT !.phase = "Pending"] \in GraphRuns
    BY <2>1, CopyTypes
  <2>. QED  BY <1>4, <2>2 DEF initializeStatus, Write
<1>5. CASE UpdateFails
  <2>1. faults' \in Nat
    <3>1. faults \in Nat /\ (faults' = faults \/ Fail)
      BY <1>5 DEF UpdateFails
    <3>. QED  BY <3>1 DEF Fail
  <2>. QED  BY <1>5, <2>1 DEF UpdateFails
<1>6. CASE SkipTerminal
  BY <1>6 DEF SkipTerminal
<1>7. CASE resolveGraph
  <2>1. ResolvedGraph \in GraphRuns
    BY <1>7, ResolvedType DEF resolveGraph
  <2>. QED  BY <1>7, <2>1 DEF resolveGraph, Write
<1>8. CASE ResolveRefused
  <2>1. updateStatusWithError(cache, cacheStale, 0)
    BY <1>8 DEF ResolveRefused
  <2>. QED  BY <1>8, <2>1, ErrorType DEF ResolveRefused
<1>9. CASE ResolveUpdateFails
  <2>. DEFINE cost == IF updateAccepted(cacheStale) THEN 1 ELSE 0
  <2>1. updateStatusWithError(ResolvedGraph, cacheStale, cost)
    BY <1>9 DEF ResolveUpdateFails
  <2>2. ResolvedGraph \in GraphRuns
    BY <1>9, ResolvedType DEF ResolveUpdateFails
  <2>. QED  BY <1>9, <2>1, <2>2, ErrorType DEF ResolveUpdateFails
<1>10. CASE getExistingScenarioRuns
  <2>1. cache.levels \in Seq(SUBSET (Nodes \cup {Empty})) /\ cache.levels # <<>>
    BY <1>10 DEF getExistingScenarioRuns, GraphRuns
  <2>2. cache.levels[1] \in SUBSET (Nodes \cup {Empty})
    BY <2>1
  <2>. QED  BY <1>10, <2>2 DEF getExistingScenarioRuns
<1>11. ASSUME NEW n \in Nodes \cup {Empty}, UpdateNode(n) PROVE TypeOK'
  <2>1. n \in Nodes /\ listed[n] # "None"
    BY <1>11 DEF UpdateNode, NotListed
  <2>2. updateNodeStatusFromRun(listed[n]) \in NodePhases
    BY <2>1 DEF updateNodeStatusFromRun, RunPhases, EndPhases, NodePhases
  <2>3. loc' \in GraphRuns
    BY <1>11, <2>1, <2>2, CopyTypes DEF UpdateNode
  <2>. QED  BY <1>11, <2>3 DEF UpdateNode
<1>12. ASSUME NEW n \in Nodes \cup {Empty}, createScenarioRun(n) PROVE TypeOK'
  <2>1. n \in Nodes /\ "Running" \in NodePhases /\ "" \in RunPhases
    BY <1>12 DEF createScenarioRun, NodePhases, RunPhases
  <2>2. loc' \in GraphRuns
    BY <1>12, <2>1, CopyTypes DEF createScenarioRun
  <2>. QED  BY <1>12, <2>1, <2>2 DEF createScenarioRun
<1>13. ASSUME NEW n \in Nodes \cup {Empty}, createScenarioRunFails(n)
       PROVE  TypeOK'
  <2>. DEFINE cost == IF n \notin Nodes \/ runs[n] # "None" THEN 0 ELSE 1
  <2>1. updateStatusWithError(loc, locStale, cost) /\ Return
    BY <1>13 DEF createScenarioRunFails
  <2>. QED  BY <1>13, <2>1, ErrorType, ReturnTypes DEF createScenarioRunFails
<1>14. CASE NextLevel
  <2>1. /\ loc.levels \in Seq(SUBSET (Nodes \cup {Empty}))
        /\ level + 1 \in 1..Len(loc.levels)
    BY <1>14 DEF NextLevel, GraphRuns
  <2>2. loc.levels[level + 1] \in SUBSET (Nodes \cup {Empty})
    BY <2>1
  <2>. QED  BY <1>14, <2>2 DEF NextLevel
<1>15. CASE handleFailFast
  <2>1. failFast(loc, level) \in GraphRuns
    BY FailFastType
  <2>. QED  BY <1>15, <2>1, ReturnTypes DEF handleFailFast, Write
<1>16. CASE handleFailFastFails
  <2>1. failFast(loc, level) \in GraphRuns
    BY FailFastType
  <2>2. updateStatusWithError(failFast(loc, level), locStale, 1) /\ Return
    BY <1>16 DEF handleFailFastFails
  <2>. QED  BY <1>16, <2>1, <2>2, ErrorType, ReturnTypes DEF handleFailFastFails
<1>17. CASE FinishWrite
  <2>1. calculateGlobalStatus(loc.node) \in GraphPhases
    BY GlobalStatus
  <2>2. [loc EXCEPT !.phase = calculateGlobalStatus(loc.node)] \in GraphRuns
    BY <2>1, CopyTypes
  <2>. QED  BY <1>17, <2>2, ReturnTypes DEF FinishWrite, Write
<1>18. CASE FinishFails
  <2>1. Return /\ faults' \in Nat
    BY <1>18 DEF FinishFails, Fail
  <2>. QED  BY <1>18, <2>1, ReturnTypes DEF FinishFails
<1>19. CASE Crash
  <2>1. Return /\ faults' \in Nat
    BY <1>19 DEF Crash, Fail
  <2>. QED  BY <1>19, <2>1, ReturnTypes DEF Crash
<1>20. CASE DeliverGraph
  BY <1>20 DEF DeliverGraph
<1>21. CASE TimerFires
  BY <1>21 DEF TimerFires
<1>22. ASSUME NEW n \in Nodes, DeliverRun(n) PROVE TypeOK'
  BY <1>22 DEF DeliverRun
<1>23. ASSUME NEW n \in Nodes, CollectRun(n) PROVE TypeOK'
  BY <1>23 DEF CollectRun, RunPhases
<1>24. ASSUME NEW n \in Nodes, NEW p \in RunPhases, RunMoves(n, p) PROVE TypeOK'
  <2>1. returns' \in Nat
    <3>1. /\ returns \in Nat
          /\ returns' = returns \/ (returns > 0 /\ returns' = returns - 1)
      BY <1>24, Zenon DEF RunMoves
    <3>. QED  BY <3>1
  <2>2. won' \in SUBSET Nodes /\ runs' \in [Nodes -> RunPhases]
    BY <1>24 DEF RunMoves
  <2>. QED  BY <1>24, <2>1, <2>2 DEF RunMoves
<1>25. CASE DeleteGraphRun
  <2>1. graph' \in GraphRuns
    BY <1>25, CopyTypes, NullTypes DEF DeleteGraphRun
  <2>. QED  BY <1>25, <2>1 DEF DeleteGraphRun
<1>26. ASSUME NEW n \in Nodes, DeleteScenarioRunComplete(n) PROVE TypeOK'
  <2>1. requests' \in Nat
    BY <1>26 DEF DeleteScenarioRunComplete
  <2>. QED  BY <1>26, <2>1 DEF DeleteScenarioRunComplete, RunPhases
<1>. QED
  BY <1>0, <1>1, <1>2, <1>3, <1>4, <1>5, <1>6, <1>7, <1>8, <1>9, <1>10, <1>11,
     <1>12, <1>13, <1>14, <1>15, <1>16, <1>17, <1>18, <1>19, <1>20, <1>21,
     <1>22, <1>23, <1>24, <1>25, <1>26
  DEF Next, Reconcile, Watch, ScenarioRuns, Users

-----------------------------------------------------------------------------
(* What a step may do, part by part: every action is of this form, and the *)
(* invariant is preserved by whatever is of this form.                     *)

(* A graph run that may be stored. *)
Fits(g) ==
    /\ g.levels # <<>> => g.phase \in {calculateGlobalStatus(g.node), "Failed"}
    /\ g.levels = <<>> => g.phase \in {"", "Pending", "Failed"}

Ends(g, h) ==
    g.phase \in TerminalPhases /\ h.live => h.phase = g.phase /\ h.node = g.node

GraphStep ==
    \/ UNCHANGED <<graph, cache, cacheStale>>
    \/ graph' = graph /\ cache' = graph
    \/ /\ cache' = cache /\ (~cacheStale' => ~cacheStale /\ graph' = graph)
       /\ Truthful(graph') /\ Fits(graph') /\ Ends(graph, graph')

RunStep ==
    /\ won \subseteq won'
    /\ \A n \in Nodes :
          /\ seen'[n] \in {seen[n], runs[n]}
          /\ runs'[n] = "Succeeded" => runs[n] = "Succeeded" \/ n \in won'
          /\ runs'[n] # "None" => runs[n] # "None" \/ (pc = "levels" /\ n \in todo)

Stops == pc' = "idle" /\ loc' = NoGraph /\ listed' = NoRuns

Starts ==
    /\ pc' = "levels" /\ loc' = cache /\ locStale' = cacheStale
    /\ listed' = seen /\ graph' = graph
    /\ cache.phase \notin TerminalPhases /\ cache.phase # ""
    /\ cache.levels # <<>> /\ level' = 1 /\ todo' = cache.levels[1]

Stays ==
    /\ pc' = pc /\ listed' = listed /\ level' = level /\ todo' \subseteq todo
    /\ pc = "levels" => locStale' \/ (graph' = graph /\ locStale' = locStale)
    /\ \/ loc' = loc
       \/ \E n \in Nodes, p \in NodePhases :
             /\ loc' = [loc EXCEPT !.node[n] = p]
             /\ p = "Completed" => listed[n] = "Succeeded"

Advances ==
    /\ pc = "levels" /\ pc' = pc
    /\ UNCHANGED <<listed, loc, locStale, graph>>
    /\ level < Len(loc.levels) /\ levelComplete(loc.node, loc.levels[level])
    /\ level' = level + 1 /\ todo' = loc.levels[level + 1]

SafeStep ==
    /\ dep' = dep /\ GraphStep /\ RunStep
    /\ Stops \/ Starts \/ Stays \/ Advances

TruthfulNext(g) ==
    /\ NodesIn(g.node, {"Completed"}) \subseteq won'
    /\ g.phase = "Completed" => won' = Nodes
    /\ g.levels # <<>> => Resolvable(dep') /\ g.levels = Levels(dep')

LEMMA TruthfulKept ==
  ASSUME NEW g, Truthful(g), dep' = dep, won \subseteq won', TypeOK'
  PROVE  TruthfulNext(g)
<1>1. won' \subseteq Nodes
  BY DEF TypeOK
<1>. QED  BY <1>1 DEF Truthful, TruthfulNext

LEMMA SafeStepHolds ==
  ASSUME IInv, TypeOK', SafeStep
  PROVE  IInv'
<1>. USE DEF IInv, SafeStep
<1>0. /\ graph \in GraphRuns /\ cache \in GraphRuns /\ loc \in GraphRuns
      /\ loc' \in GraphRuns /\ graph' \in GraphRuns
      /\ level \in Nat /\ level' \in Nat
  BY DEF TypeOK
<1>1. TruthfulCopies'
  <2>1. TruthfulNext(graph')
    <3>1. Truthful(graph')
      BY DEF TruthfulCopies, GraphStep
    <3>. QED  BY <3>1, TruthfulKept DEF RunStep
  <2>2. TruthfulNext(cache')
    <3>1. Truthful(cache')
      BY DEF TruthfulCopies, GraphStep
    <3>. QED  BY <3>1, TruthfulKept DEF RunStep
  <2>3. TruthfulNext(loc')
    <3>1. Truthful(loc')
      <4>1. CASE Stops
        BY <4>1, NullTypes DEF Truthful, NodesIn, Stops
      <4>2. CASE Starts \/ Advances \/ loc' = loc
        BY <4>2 DEF TruthfulCopies, Starts, Advances
      <4>3. ASSUME NEW n \in Nodes, NEW p \in NodePhases,
                   loc' = [loc EXCEPT !.node[n] = p],
                   p = "Completed" => listed[n] = "Succeeded"
            PROVE  Truthful(loc')
        <5>1. /\ loc'.phase = loc.phase /\ loc'.levels = loc.levels
              /\ loc'.node = [loc.node EXCEPT ![n] = p]
              /\ loc.node \in [Nodes -> NodePhases]
          BY <1>0, <4>3 DEF GraphRuns
        <5>2. p = "Completed" => n \in won
          BY <4>3 DEF SucceededWon
        <5>. QED  BY <5>1, <5>2 DEF Truthful, TruthfulCopies, NodesIn
      <4>. QED  BY <4>1, <4>2, <4>3 DEF Stays
    <3>. QED  BY <3>1, TruthfulKept DEF RunStep
  <2>. QED  BY <2>1, <2>2, <2>3 DEF TruthfulCopies, Truthful, TruthfulNext
<1>2. SucceededWon'
  <2>. SUFFICES ASSUME NEW n \in Nodes,
                       "Succeeded" \in {runs'[n], seen'[n], listed'[n]}
                PROVE  n \in won'
    BY DEF SucceededWon
  <2>1. listed'[n] \in {listed[n], seen[n], "None"}
    BY NullTypes DEF Stops, Starts, Stays, Advances
  <2>. QED  BY <2>1 DEF SucceededWon, RunStep
<1>3. FreshCopies'
  <2>1. ~cacheStale' => cache' = graph'
    BY DEF FreshCopies, GraphStep
  <2>2. ASSUME pc' = "levels", ~locStale'
        PROVE  graph' = [loc' EXCEPT !.node = graph'.node]
    <3>1. CASE Starts
      <4>1. graph' = loc'
        BY <2>2, <3>1 DEF Starts, FreshCopies
      <4>. QED  BY <4>1, <1>0 DEF GraphRuns
    <3>2. CASE Advances
      BY <2>2, <3>2 DEF Advances, FreshCopies
    <3>3. CASE Stays
      <4>1. graph' = graph /\ graph = [loc EXCEPT !.node = graph.node]
        BY <2>2, <3>3 DEF Stays, FreshCopies
      <4>2. [loc' EXCEPT !.node = graph.node] = [loc EXCEPT !.node = graph.node]
        BY <3>3, <1>0 DEF Stays, GraphRuns
      <4>. QED  BY <4>1, <4>2
    <3>. QED  BY <2>2, <3>1, <3>2, <3>3 DEF Stops
  <2>. QED  BY <2>1, <2>2 DEF FreshCopies
<1>4. PhaseFits'
  BY DEF PhaseFits, PhaseAgrees, GraphStep, Fits
<1>5. AtALevel'
  <2>. SUFFICES ASSUME pc' = "levels"
                PROVE  /\ loc'.phase \notin TerminalPhases /\ loc'.phase # ""
                       /\ loc'.levels # <<>> /\ level' \in DOMAIN loc'.levels
                       /\ todo' \subseteq loc'.levels[level']
                       /\ \A i \in 1..(level' - 1) : loc'.levels[i] \subseteq won'
    BY DEF AtALevel
  <2>0. /\ loc.levels \in Seq(SUBSET (Nodes \cup {Empty}))
        /\ cache.levels \in Seq(SUBSET (Nodes \cup {Empty}))
    BY <1>0 DEF GraphRuns
  <2>1. CASE Starts
    <3>1. 1 \in DOMAIN cache.levels
      <4>1. cache.levels # <<>>
        BY <2>1 DEF Starts
      <4>. QED  BY <2>0, <4>1
    <3>2. \A i \in 1..(1 - 1) : FALSE
      OBVIOUS
    <3>. QED  BY <2>1, <3>1, <3>2 DEF Starts
  <2>2. CASE Stays
    <3>1. loc'.phase = loc.phase /\ loc'.levels = loc.levels
      BY <1>0, <2>2 DEF Stays, GraphRuns
    <3>. QED  BY <2>2, <3>1 DEF Stays, AtALevel, RunStep
  <2>3. CASE Advances
    <3>1. /\ loc' = loc /\ level' = level + 1 /\ level' \in DOMAIN loc.levels
          /\ todo' = loc.levels[level']
      BY <1>0, <2>0, <2>3 DEF Advances
    <3>2. loc.levels[level] \subseteq won
      BY <2>3 DEF Advances, levelComplete, TruthfulCopies, Truthful, NodesIn
    <3>3. \A i \in 1..level : loc.levels[i] \subseteq won
      <4>1. \A i \in 1..(level - 1) : loc.levels[i] \subseteq won
        BY <2>3 DEF Advances, AtALevel
      <4>2. \A i \in 1..level : i = level \/ i \in 1..(level - 1)
        BY <1>0
      <4>. QED  BY <3>2, <4>1, <4>2
    <3>4. level' - 1 = level
      BY <1>0, <3>1
    <3>. QED  BY <2>3, <3>1, <3>3, <3>4 DEF Advances, AtALevel, RunStep
  <2>. QED  BY <2>1, <2>2, <2>3 DEF Stops
<1>6. LevelBarrier'
  <2>. DEFINE L == Levels(dep)
  <2>. SUFFICES ASSUME NEW n \in Nodes, runs'[n] # "None"
                PROVE  /\ Resolvable(dep)
                       /\ dep[n] # NoNode => dep[n] \in won'
                       /\ \A i, j \in DOMAIN L :
                             i < j /\ n \in L[j] => L[i] \subseteq won'
    BY DEF LevelBarrier
  <2>1. CASE runs[n] # "None"
    BY <2>1 DEF LevelBarrier, RunStep
  <2>2. CASE pc = "levels" /\ n \in todo
    <3>1. /\ Resolvable(dep) /\ loc.levels = L /\ level \in DOMAIN L
          /\ n \in L[level] /\ \A i \in 1..(level - 1) : L[i] \subseteq won
      BY <2>2 DEF AtALevel, TruthfulCopies, Truthful
    <3>2. /\ L \in Seq(SUBSET (Nodes \cup {Empty}))
          /\ \A i, j \in DOMAIN L : \A m \in L[i] : m \in L[j] => i = j
          /\ \A i \in DOMAIN L : \A m \in L[i] \cap Nodes :
                dep[m] # NoNode => \E j \in 1..(i - 1) : dep[m] \in L[j]
      BY <3>1, LevelsInOrder DEF TypeOK, Resolvable
    <3>. HIDE DEF L
    <3>3. ASSUME NEW i \in DOMAIN L, NEW j \in DOMAIN L, i < j, n \in L[j]
          PROVE  L[i] \subseteq won
      <4>1. j = level /\ i \in 1..Len(L) /\ Len(L) \in Nat
        BY <3>1, <3>2, <3>3
      <4>2. i \in 1..(level - 1)
        BY <1>0, <3>3, <4>1
      <4>. QED  BY <3>1, <4>2
    <3>4. dep[n] # NoNode => dep[n] \in won
      BY <3>1, <3>2
    <3>. QED  BY <3>1, <3>3, <3>4 DEF RunStep
  <2>. QED  BY <2>1, <2>2 DEF RunStep
<1>. QED  BY <1>1, <1>2, <1>3, <1>4, <1>5, <1>6

-----------------------------------------------------------------------------
(* Every action has the form *)

LEMMA WriteStep ==
  ASSUME TypeOK, NEW new, Write(new), cache' = cache,
         Truthful(new), Fits(new), Ends(graph, new)
  PROVE  dep' = dep /\ GraphStep
<1>1. graph' = new /\ dep' = dep /\ cacheStale' \in {TRUE, cacheStale \/ new # graph}
  BY DEF Write
<1>2. ~cacheStale' => ~cacheStale /\ graph' = graph
  BY <1>1
<1>. QED  BY <1>1, <1>2 DEF GraphStep

LEMMA FailedMayBeStored ==
  ASSUME NEW g \in GraphRuns, Truthful(g)
  PROVE  /\ Truthful([g EXCEPT !.phase = "Failed"])
         /\ Fits([g EXCEPT !.phase = "Failed"])
<1>. DEFINE h == [g EXCEPT !.phase = "Failed"]
<1>1. h.phase = "Failed" /\ h.levels = g.levels /\ h.node = g.node
  BY DEF GraphRuns
<1>. HIDE DEF h
<1>2. Truthful(h) /\ Fits(h)
  BY <1>1 DEF Truthful, Fits
<1>. QED  BY <1>2 DEF h

LEMMA ErrorStep ==
  ASSUME TypeOK, NEW g \in GraphRuns, NEW stale \in BOOLEAN, NEW cost,
         updateStatusWithError(g, stale, cost), Truthful(g), cache' = cache,
         ~stale => graph.phase \notin TerminalPhases
  PROVE  dep' = dep /\ GraphStep
<1>1. CASE UNCHANGED apiVars
  BY <1>1 DEF apiVars, GraphStep
<1>2. CASE updateAccepted(stale) /\ Write([g EXCEPT !.phase = "Failed"])
  <2>. DEFINE new == [g EXCEPT !.phase = "Failed"]
  <2>1. Truthful(new) /\ Fits(new)
    BY FailedMayBeStored
  <2>2. Ends(graph, new)
    BY <1>2 DEF updateAccepted, Ends
  <2>. HIDE DEF new
  <2>3. Write(new)
    BY <1>2 DEF new
  <2>. QED  BY <2>1, <2>2, <2>3, WriteStep
<1>. QED  BY <1>1, <1>2 DEF updateStatusWithError

LEMMA StatusIsTrue ==
  ASSUME TypeOK, NEW g, Truthful(g), NEW h,
         NodesIn(h.node, {"Completed"}) \subseteq NodesIn(g.node, {"Completed"}),
         h.phase = calculateGlobalStatus(h.node), h.levels = g.levels,
         g.levels # <<>>
  PROVE  Truthful(h) /\ Fits(h)
<1>1. won \subseteq Nodes
  BY DEF TypeOK
<1>2. h.phase = "Completed" => NodesIn(h.node, {"Completed"}) = Nodes
  BY GlobalStatus
<1>. QED  BY <1>1, <1>2 DEF Truthful, Fits

LEMMA FailFastMayBeStored ==
  ASSUME TypeOK, NEW g \in GraphRuns, NEW i, Truthful(g), g.levels # <<>>
  PROVE  Truthful(failFast(g, i)) /\ Fits(failFast(g, i))
<1>. DEFINE node == [n \in Nodes |-> IF n \in LaterNodes(g.levels, i)
                                     THEN "Blocked" ELSE g.node[n]]
            h == failFast(g, i)
<1>1. /\ h.node = node /\ h.phase = calculateGlobalStatus(node)
      /\ h.levels = g.levels
  BY DEF failFast, GraphRuns
<1>2. NodesIn(node, {"Completed"}) \subseteq NodesIn(g.node, {"Completed"})
  BY DEF NodesIn
<1>. HIDE DEF node, h
<1>3. Truthful(h) /\ Fits(h)
  BY <1>1, <1>2, StatusIsTrue
<1>. QED  BY <1>3 DEF h

LEMMA FinishMayBeStored ==
  ASSUME TypeOK, NEW g \in GraphRuns, Truthful(g), g.levels # <<>>
  PROVE  /\ Truthful([g EXCEPT !.phase = calculateGlobalStatus(g.node)])
         /\ Fits([g EXCEPT !.phase = calculateGlobalStatus(g.node)])
<1>. DEFINE h == [g EXCEPT !.phase = calculateGlobalStatus(g.node)]
<1>1. /\ h.node = g.node /\ h.phase = calculateGlobalStatus(g.node)
      /\ h.levels = g.levels
  BY DEF GraphRuns
<1>. HIDE DEF h
<1>2. Truthful(h) /\ Fits(h)
  BY <1>1, StatusIsTrue
<1>. QED  BY <1>2 DEF h

LEMMA ResolvedMayBeStored ==
  ASSUME IInv, Resolvable(dep), Unresolved
  PROVE  /\ Truthful(ResolvedGraph)
         /\ ~cacheStale => Fits(ResolvedGraph)
<1>. DEFINE node == [n \in Nodes |-> "Pending"]
<1>0. cache \in GraphRuns /\ Truthful(cache)
  BY DEF IInv, TypeOK, TruthfulCopies
<1>1. /\ ResolvedGraph.levels = Levels(dep) /\ ResolvedGraph.node = node
      /\ ResolvedGraph.phase = cache.phase
  BY <1>0 DEF ResolvedGraph, GraphRuns
<1>2. NodesIn(node, {"Completed"}) = {} /\ calculateGlobalStatus(node) = "Pending"
  BY DEF NodesIn, calculateGlobalStatus
<1>3. ~cacheStale => cache.phase = "Pending"
  BY DEF IInv, FreshCopies, PhaseFits, Unresolved, isTerminalPhase,
         TerminalPhases
<1>. HIDE DEF node
<1>4. Truthful(ResolvedGraph)
  BY <1>0, <1>1, <1>2 DEF Truthful
<1>5. ~cacheStale => Fits(ResolvedGraph)
  BY <1>1, <1>2, <1>3 DEF Fits
<1>. QED  BY <1>4, <1>5

(* A step that leaves the runs alone. *)
LEMMA SameRuns ==
  ASSUME UNCHANGED <<runVars, seen>>
  PROVE  RunStep
BY DEF runVars, RunStep

(* A step that leaves the reconciler alone. *)
LEMMA SameReconcile ==
  ASSUME UNCHANGED recVars, pc = "levels" => UNCHANGED graph
  PROVE  Stays
BY DEF recVars, Stays

LEMMA ReturnStops == Return => Stops
BY DEF Return, Stops

LEMMA ReconcileSafe ==
  ASSUME IInv,
         \/ ReconcileNotFound \/ RemoveFinalizer \/ AddFinalizer
         \/ initializeStatus \/ UpdateFails \/ SkipTerminal
         \/ resolveGraph \/ ResolveRefused \/ ResolveUpdateFails
  PROVE  SafeStep
<1>0. /\ TypeOK /\ cache \in GraphRuns /\ graph \in GraphRuns
      /\ Truthful(cache) /\ Truthful(graph) /\ (~cacheStale => cache = graph)
      /\ cacheStale \in BOOLEAN
  BY DEF IInv, TypeOK, TruthfulCopies, FreshCopies
<1>1. RunStep
  BY SameRuns DEF ReconcileNotFound, RemoveFinalizer, AddFinalizer,
     initializeStatus, UpdateFails, SkipTerminal, resolveGraph, ResolveRefused,
     ResolveUpdateFails
<1>2. Stays /\ cache' = cache
  <2>1. pc = "idle" /\ UNCHANGED recVars /\ cache' = cache
    BY DEF ReconcileNotFound, RemoveFinalizer, AddFinalizer,
     initializeStatus, UpdateFails, SkipTerminal, resolveGraph, ResolveRefused,
     ResolveUpdateFails, Unresolved, Fetch
  <2>. QED  BY <2>1, SameReconcile
<1>3. dep' = dep /\ GraphStep
  <2>1. CASE ReconcileNotFound \/ UpdateFails \/ SkipTerminal
    BY <2>1 DEF ReconcileNotFound, UpdateFails, SkipTerminal, apiVars, GraphStep
  <2>2. CASE RemoveFinalizer
    <3>1. Write(NoGraph) /\ Truthful(NoGraph) /\ Fits(NoGraph)
          /\ Ends(graph, NoGraph)
      BY <2>2, NullTypes DEF RemoveFinalizer, Truthful, Fits, Ends, NodesIn
    <3>. QED  BY <1>0, <1>2, <3>1, WriteStep
  <2>3. CASE AddFinalizer
    <3>. DEFINE new == [cache EXCEPT !.fin = TRUE]
    <3>1. /\ new.phase = graph.phase /\ new.levels = graph.levels
          /\ new.node = graph.node
      BY <2>3, <1>0 DEF AddFinalizer, updateAccepted, GraphRuns
    <3>2. Write(new)
      BY <2>3 DEF AddFinalizer
    <3>. HIDE DEF new
    <3>3. Truthful(new) /\ Fits(new) /\ Ends(graph, new)
      BY <1>0, <3>1 DEF Truthful, Fits, Ends, IInv, PhaseFits, PhaseAgrees
    <3>. QED  BY <1>0, <1>2, <3>2, <3>3, WriteStep
  <2>4. CASE initializeStatus
    <3>. DEFINE new == [cache EXCEPT !.phase = "Pending"]
    <3>1. /\ new.phase = "Pending" /\ new.levels = graph.levels
          /\ new.node = graph.node /\ graph.phase = ""
      BY <2>4, <1>0 DEF initializeStatus, updateAccepted, GraphRuns
    <3>2. Write(new)
      BY <2>4 DEF initializeStatus
    <3>3. graph.levels = <<>>
      BY <3>1, GlobalStatus DEF IInv, PhaseFits, PhaseAgrees
    <3>. HIDE DEF new
    <3>4. Truthful(new) /\ Fits(new) /\ Ends(graph, new)
      BY <1>0, <3>1, <3>3 DEF Truthful, Fits, Ends, TerminalPhases
    <3>. QED  BY <1>0, <1>2, <3>2, <3>4, WriteStep
  <2>5. CASE resolveGraph
    <3>1. Write(ResolvedGraph) /\ Truthful(ResolvedGraph) /\ Fits(ResolvedGraph)
      BY <2>5, ResolvedMayBeStored DEF resolveGraph, updateAccepted
    <3>2. Ends(graph, ResolvedGraph)
      BY <2>5, <1>0 DEF resolveGraph, updateAccepted, Unresolved,
                        isTerminalPhase, Ends
    <3>. QED  BY <1>0, <1>2, <3>1, <3>2, WriteStep
  <2>6. CASE ResolveRefused
    <3>1. /\ updateStatusWithError(cache, cacheStale, 0)
          /\ ~cacheStale => graph.phase \notin TerminalPhases
      BY <2>6, <1>0 DEF ResolveRefused, Unresolved, isTerminalPhase
    <3>. QED  BY <1>0, <1>2, <3>1, ErrorStep
  <2>7. CASE ResolveUpdateFails
    <3>. DEFINE cost == IF updateAccepted(cacheStale) THEN 1 ELSE 0
    <3>1. /\ updateStatusWithError(ResolvedGraph, cacheStale, cost)
          /\ ~cacheStale => graph.phase \notin TerminalPhases
      BY <2>7, <1>0 DEF ResolveUpdateFails, Unresolved, isTerminalPhase
    <3>2. ResolvedGraph \in GraphRuns /\ Truthful(ResolvedGraph)
      BY <2>7, <1>0, ResolvedType, ResolvedMayBeStored DEF ResolveUpdateFails
    <3>. HIDE DEF cost
    <3>. QED  BY <1>0, <1>2, <3>1, <3>2, ErrorStep
  <2>. QED  BY <2>1, <2>2, <2>3, <2>4, <2>5, <2>6, <2>7
<1>. QED  BY <1>1, <1>2, <1>3 DEF SafeStep

LEMMA LevelsSafe ==
  ASSUME IInv, TypeOK',
         \/ getExistingScenarioRuns
         \/ \E n \in Nodes \cup {Empty} :
               UpdateNode(n) \/ createScenarioRun(n) \/ createScenarioRunFails(n)
         \/ NextLevel \/ handleFailFast \/ handleFailFastFails
         \/ FinishWrite \/ FinishFails
  PROVE  SafeStep
<1>0. /\ TypeOK /\ loc \in GraphRuns /\ graph \in GraphRuns
      /\ Truthful(loc) /\ locStale \in BOOLEAN
  BY DEF IInv, TypeOK, TruthfulCopies
<1>a. ASSUME pc = "levels"
      PROVE  /\ loc.levels # <<>>
             /\ ~locStale => graph.phase \notin TerminalPhases
  <2>1. loc.phase \notin TerminalPhases /\ loc.levels # <<>>
    BY <1>a DEF IInv, AtALevel
  <2>2. ~locStale => graph = [loc EXCEPT !.node = graph.node]
    BY <1>a DEF IInv, FreshCopies
  <2>3. ~locStale => graph.phase = loc.phase
    BY <1>0, <2>2 DEF GraphRuns
  <2>. QED  BY <2>1, <2>3
<1>1. CASE getExistingScenarioRuns
  <2>1. Starts
    BY <1>1 DEF getExistingScenarioRuns, Starts, isTerminalPhase, apiVars
  <2>2. dep' = dep /\ GraphStep /\ RunStep
    BY <1>1, SameRuns DEF getExistingScenarioRuns, apiVars, GraphStep
  <2>. QED  BY <2>1, <2>2 DEF SafeStep
<1>2. ASSUME NEW n \in Nodes \cup {Empty}, UpdateNode(n) PROVE SafeStep
  <2>. DEFINE p == updateNodeStatusFromRun(listed[n])
  <2>1. n \in Nodes /\ listed[n] # "None" /\ listed[n] \in RunPhases
    BY <1>2, <1>0 DEF UpdateNode, NotListed, TypeOK
  <2>2. p \in NodePhases /\ (p = "Completed" => listed[n] = "Succeeded")
    BY <2>1 DEF updateNodeStatusFromRun, RunPhases, EndPhases, NodePhases
  <2>3. loc' = [loc EXCEPT !.node[n] = p]
    BY <1>2 DEF UpdateNode
  <2>. HIDE DEF p
  <2>4. Stays
    BY <1>2, <2>1, <2>2, <2>3 DEF UpdateNode, Stays, apiVars
  <2>5. dep' = dep /\ GraphStep /\ RunStep
    BY <1>2, SameRuns DEF UpdateNode, apiVars, GraphStep
  <2>. QED  BY <2>4, <2>5 DEF SafeStep
<1>3. ASSUME NEW n \in Nodes \cup {Empty}, createScenarioRun(n) PROVE SafeStep
  <2>1. n \in Nodes /\ "Running" \in NodePhases /\ runs \in [Nodes -> RunPhases]
    BY <1>3, <1>0 DEF createScenarioRun, NodePhases, TypeOK
  <2>2. Stays
    BY <1>3, <2>1 DEF createScenarioRun, Stays, apiVars
  <2>3. RunStep
    BY <1>3, <2>1 DEF createScenarioRun, RunStep
  <2>4. dep' = dep /\ GraphStep
    BY <1>3 DEF createScenarioRun, apiVars, GraphStep
  <2>. QED  BY <2>2, <2>3, <2>4 DEF SafeStep
<1>4. ASSUME NEW n \in Nodes \cup {Empty}, createScenarioRunFails(n)
      PROVE  SafeStep
  <2>. DEFINE cost == IF n \notin Nodes \/ runs[n] # "None" THEN 0 ELSE 1
  <2>1. /\ updateStatusWithError(loc, locStale, cost) /\ cache' = cache
        /\ pc = "levels" /\ Stops /\ RunStep
    BY <1>4, ReturnStops, SameRuns DEF createScenarioRunFails
  <2>. HIDE DEF cost
  <2>2. dep' = dep /\ GraphStep
    BY <1>0, <1>a, <2>1, ErrorStep
  <2>. QED  BY <2>1, <2>2 DEF SafeStep
<1>5. CASE NextLevel
  <2>1. Advances
    BY <1>5 DEF NextLevel, LevelDone, Advances, apiVars
  <2>2. dep' = dep /\ GraphStep /\ RunStep
    BY <1>5, SameRuns DEF NextLevel, apiVars, GraphStep
  <2>. QED  BY <2>1, <2>2 DEF SafeStep
<1>6. CASE handleFailFast
  <2>. DEFINE new == failFast(loc, level)
  <2>1. pc = "levels" /\ Stops /\ RunStep /\ cache' = cache
    BY <1>6, ReturnStops, SameRuns DEF handleFailFast, Failing, LevelDone
  <2>2. CASE updateAccepted(locStale) /\ Write(new)
    <3>1. Truthful(new) /\ Fits(new)
      BY <1>0, <1>a, <2>1, FailFastMayBeStored
    <3>2. Ends(graph, new)
      BY <1>a, <2>1, <2>2 DEF Ends, updateAccepted
    <3>3. dep' = dep /\ GraphStep
      BY <1>0, <2>1, <2>2, <3>1, <3>2, WriteStep
    <3>. QED  BY <2>1, <3>3 DEF SafeStep
  <2>3. CASE UNCHANGED apiVars
    BY <2>1, <2>3 DEF apiVars, GraphStep, SafeStep
  <2>. QED  BY <1>6, <2>2, <2>3 DEF handleFailFast
<1>7. CASE handleFailFastFails
  <2>. DEFINE new == failFast(loc, level)
  <2>1. /\ pc = "levels" /\ Stops /\ RunStep /\ cache' = cache
        /\ updateStatusWithError(new, locStale, 1)
    BY <1>7, ReturnStops, SameRuns DEF handleFailFastFails, Failing, LevelDone
  <2>2. new \in GraphRuns /\ Truthful(new)
    BY <1>0, <1>a, <2>1, FailFastType, FailFastMayBeStored
  <2>. HIDE DEF new
  <2>3. dep' = dep /\ GraphStep
    BY <1>0, <1>a, <2>1, <2>2, ErrorStep
  <2>. QED  BY <2>1, <2>3 DEF SafeStep
<1>8. CASE FinishWrite
  <2>. DEFINE new == [loc EXCEPT !.phase = calculateGlobalStatus(loc.node)]
  <2>1. /\ pc = "levels" /\ Stops /\ RunStep /\ cache' = cache
        /\ ~locStale /\ Write(new)
    BY <1>8, ReturnStops, SameRuns
    DEF FinishWrite, AtTheEnd, LevelDone, updateAccepted
  <2>2. Truthful(new) /\ Fits(new)
    BY <1>0, <1>a, <2>1, FinishMayBeStored
  <2>. HIDE DEF new
  <2>3. Ends(graph, new)
    BY <1>a, <2>1 DEF Ends
  <2>4. dep' = dep /\ GraphStep
    BY <1>0, <2>1, <2>2, <2>3, WriteStep
  <2>. QED  BY <2>1, <2>4 DEF SafeStep
<1>9. CASE FinishFails
  BY <1>9, ReturnStops, SameRuns DEF FinishFails, apiVars, GraphStep, SafeStep
<1>. QED  BY <1>1, <1>2, <1>3, <1>4, <1>5, <1>6, <1>7, <1>8, <1>9

LEMMA OthersSafe ==
  ASSUME IInv, Crash \/ Watch \/ ScenarioRuns \/ Users
  PROVE  SafeStep
<1>0. /\ runs \in [Nodes -> RunPhases] /\ seen \in [Nodes -> RunPhases]
      /\ graph \in GraphRuns /\ Truthful(graph)
  BY DEF IInv, TypeOK, TruthfulCopies
<1>1. CASE Crash
  <2>1. Stops /\ dep' = dep /\ GraphStep
    BY <1>1, ReturnStops DEF Crash, GraphStep
  <2>2. RunStep
    BY <1>1 DEF Crash, runVars, RunStep
  <2>. QED  BY <2>1, <2>2 DEF SafeStep
<1>2. CASE DeliverGraph
  <2>1. Stays /\ RunStep /\ dep' = dep
    BY <1>2, SameRuns, SameReconcile DEF DeliverGraph
  <2>. QED  BY <1>2, <2>1 DEF DeliverGraph, GraphStep, SafeStep
<1>3. CASE TimerFires
  <2>1. Stays /\ RunStep /\ dep' = dep
    BY <1>3, SameRuns, SameReconcile DEF TimerFires, apiVars
  <2>. QED  BY <1>3, <2>1 DEF TimerFires, apiVars, GraphStep, SafeStep
<1>4. ASSUME NEW n \in Nodes, DeliverRun(n) PROVE SafeStep
  <2>1. Stays /\ dep' = dep /\ GraphStep
    BY <1>4, SameReconcile DEF DeliverRun, apiVars, GraphStep
  <2>2. RunStep
    BY <1>0, <1>4 DEF DeliverRun, runVars, RunStep
  <2>. QED  BY <2>1, <2>2 DEF SafeStep
<1>5. ASSUME NEW n \in Nodes, CollectRun(n) \/ DeleteScenarioRunComplete(n)
      PROVE  SafeStep
  <2>1. Stays /\ dep' = dep /\ GraphStep
    BY <1>5, SameReconcile
    DEF CollectRun, DeleteScenarioRunComplete, apiVars, GraphStep
  <2>2. RunStep
    BY <1>0, <1>5 DEF CollectRun, DeleteScenarioRunComplete, RunStep
  <2>. QED  BY <2>1, <2>2 DEF SafeStep
<1>6. ASSUME NEW n \in Nodes, NEW p \in RunPhases, RunMoves(n, p)
      PROVE  SafeStep
  <2>1. Stays /\ dep' = dep /\ GraphStep
    BY <1>6, SameReconcile DEF RunMoves, apiVars, GraphStep
  <2>2. /\ runs' = [runs EXCEPT ![n] = p] /\ runs[n] # "None" /\ seen' = seen
        /\ won' = IF p = "Succeeded" THEN won \cup {n} ELSE won
    BY <1>6 DEF RunMoves
  <2>3. RunStep
    BY <1>0, <2>2 DEF RunStep
  <2>. QED  BY <2>1, <2>3 DEF SafeStep
<1>7. CASE DeleteGraphRun
  <2>1. /\ dep' = dep /\ cache' = cache /\ cacheStale' = TRUE
        /\ graph' = IF graph.fin THEN [graph EXCEPT !.deleting = TRUE]
                    ELSE NoGraph
    BY <1>7 DEF DeleteGraphRun
  <2>2. Stays
    BY <1>7 DEF DeleteGraphRun, Stays
  <2>3. RunStep
    BY <1>7, SameRuns DEF DeleteGraphRun
  <2>4. Truthful(graph') /\ Fits(graph') /\ Ends(graph, graph')
    <3>1. CASE graph' = NoGraph
      BY <3>1, NullTypes DEF Truthful, Fits, Ends, NodesIn
    <3>2. CASE graph' = [graph EXCEPT !.deleting = TRUE]
      <4>1. /\ graph'.phase = graph.phase /\ graph'.levels = graph.levels
            /\ graph'.node = graph.node
        BY <1>0, <3>2 DEF GraphRuns
      <4>. QED
        BY <1>0, <4>1 DEF Truthful, Fits, Ends, IInv, PhaseFits, PhaseAgrees
    <3>. QED  BY <2>1, <3>1, <3>2
  <2>. QED  BY <2>1, <2>2, <2>3, <2>4 DEF GraphStep, SafeStep
<1>. QED  BY <1>1, <1>2, <1>3, <1>4, <1>5, <1>6, <1>7
          DEF Watch, ScenarioRuns, Users

LEMMA StepSafe ==
  ASSUME IInv, TypeOK', [Next]_vars
  PROVE  SafeStep
<1>1. CASE UNCHANGED vars
  BY <1>1 DEF vars, SafeStep, GraphStep, RunStep, Stays
<1>2. CASE Next
  BY <1>2, ReconcileSafe, LevelsSafe, OthersSafe DEF Next, Reconcile
<1>. QED  BY <1>1, <1>2

-----------------------------------------------------------------------------
(* The theorems *)

LEMMA InitIInv == Init => IInv
<1>. SUFFICES ASSUME Init PROVE IInv
  OBVIOUS
<1>. USE DEF Init
<1>1. TypeOK
  BY NullTypes DEF TypeOK
<1>2. /\ graph.phase = "" /\ graph.levels = <<>>
      /\ \A n \in Nodes : graph.node[n] = "None"
  BY NullTypes DEF NoGraph
<1>3. Truthful(graph) /\ Truthful(NoGraph)
  BY <1>2, NullTypes DEF Truthful, NodesIn
<1>4. SucceededWon /\ LevelBarrier
  BY NullTypes DEF SucceededWon, LevelBarrier
<1>. QED
  BY <1>1, <1>2, <1>3, <1>4
  DEF IInv, TruthfulCopies, FreshCopies, PhaseFits, PhaseAgrees, AtALevel

(* The inductive invariant: every copy the reconciler makes of the graph   *)
(* run is truthful, a copy whose update is accepted is current, and        *)
(* processLevels is past nothing but succeeded levels.                     *)
THEOREM Invariance == Spec => []IInv
<1>1. ASSUME IInv, [Next]_vars PROVE IInv'
  <2>1. TypeOK'
    BY <1>1, TypeStep DEF IInv
  <2>. QED  BY <1>1, <2>1, StepSafe, SafeStepHolds
<1>. QED  BY InitIInv, <1>1, PTL DEF Spec

(* Every variable keeps its type: what the reconciler stores is a graph    *)
(* run, and processLevels takes the levels of one and no others.           *)
THEOREM TypeCorrect == Spec => []TypeOK
BY Invariance, PTL DEF IInv

(* processLevels keeps the level barrier, for every graph, whatever is     *)
(* stale, retried or lost.                                                 *)
THEOREM LevelsAreBarriers == Spec => []LevelBarrier
BY Invariance, PTL DEF IInv

(* A graph run or node published as Completed by the reconciler has        *)
(* succeeded.                                                              *)
THEOREM CompletionIsReal == Spec => []CompletedIsReal
<1>1. IInv => CompletedIsReal
  BY DEF IInv, TruthfulCopies, Truthful, CompletedIsReal
<1>. QED  BY <1>1, Invariance, PTL

(* The phase that is published is calculateGlobalStatus of the published   *)
(* nodes, or Failed after an error.                                        *)
THEOREM PhasesAgree == Spec => []PhaseAgrees
<1>1. IInv => PhaseAgrees
  BY DEF IInv, PhaseFits
<1>. QED  BY <1>1, Invariance, PTL

(* A graph run that isTerminalPhase never changes again, although          *)
(* reconciles on older copies still try.                                   *)
THEOREM TheEndIsFinal == Spec => TerminalIsFinal
<1>1. ASSUME IInv, IInv', [Next]_vars
      PROVE  [graph.phase \in TerminalPhases /\ graph'.live =>
                 graph'.phase = graph.phase /\ graph'.node = graph.node]_vars
  <2>1. SafeStep
    BY <1>1, StepSafe DEF IInv
  <2>. QED  BY <2>1 DEF SafeStep, GraphStep, Ends
<1>. QED  BY <1>1, Invariance, PTL DEF Spec, TerminalIsFinal
=============================================================================
