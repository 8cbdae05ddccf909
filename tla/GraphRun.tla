------------------------------ MODULE GraphRun ------------------------------
(***************************************************************************)
(* One KrknGraphRun: the reconciler that runs the nodes of a scenario      *)
(* graph level by level, one KrknScenarioRun per node, and publishes the   *)
(* node phases and the overall phase, with the REST handlers that delete   *)
(* the graph run or the run of a node, the scenario runs, and the API      *)
(* server.  As in ScenarioRun, reads come from the informer cache, writes  *)
(* go to the API server, and a copy is current or stale.                   *)
(*                                                                         *)
(* The run of a node has the name <graph run>-<node>, so there is at most  *)
(* one at a time; it is represented by its status.phase, "None" when it    *)
(* does not exist.  ValidateGraph refuses nodes whose names collide.       *)
(* "Failed" stands for the phases Failed and PartiallyFailed of a scenario *)
(* run, which the reconciler treats alike.                                 *)
(***************************************************************************)
EXTENDS GraphLevels

CONSTANTS
    Graphs,       \* the graphs a behaviour may start with
    MaxFaults,    \* bound: crashes and failing calls
    MaxRequests,  \* bound: DELETE requests of users
    MaxReturns    \* bound: how often ended runs go on

ASSUME GraphsAssumption == Graphs \subseteq AnyGraph /\ Graphs # {}

ASSUME GraphBoundsAssumption ==
    MaxFaults \in Nat /\ MaxRequests \in Nat /\ MaxReturns \in Nat

VARIABLES
    dep,        \* spec.graph
    graph,      \* the KrknGraphRun stored by the API server
    cache,      \* the informer's copy of it
    cacheStale, \* has graph been written since cache was delivered?
    runs,       \* the phase of each node's KrknScenarioRun
    seen,       \* the informer's copy of it
    won,        \* nodes whose run has been Succeeded at some time
    queued,     \* is the graph run in the work queue?
    timer,      \* is a RequeueAfter pending?
    pc,         \* "idle", or "levels" inside processLevels
    loc,        \* the reconciler's in-memory KrknGraphRun
    locStale,   \* has graph been written since the copy in loc was made?
    listed,     \* existingRuns
    level,      \* the level processLevels is at
    todo,       \* nodes of that level still to be processed
    faults,     \* faults still allowed
    requests,   \* user requests still allowed
    returns     \* returns still allowed

apiVars == <<dep, graph, cacheStale>>
runVars == <<runs, won>>
recVars == <<pc, loc, locStale, listed, level, todo>>
envVars == <<faults, requests, returns>>
vars == <<dep, graph, cache, cacheStale, runs, seen, won, queued, timer, pc,
          loc, locStale, listed, level, todo, faults, requests, returns>>

-----------------------------------------------------------------------------
(* Types *)

NodePhases == {"None", "Pending", "Running", "Completed", "Failed", "Blocked"}
GraphPhases == {"", "Pending", "Running", "Completed", "Failed",
                "PartiallyFailed"}
TerminalPhases == {"Completed", "Failed", "PartiallyFailed"}
EndPhases == {"Succeeded", "Failed"}
RunPhases == {"None", "", "Pending", "Running"} \cup EndPhases

(* node is status.nodeStatuses: all "None" until the graph is resolved.    *)
GraphRuns == [live : BOOLEAN, deleting : BOOLEAN, fin : BOOLEAN,
              phase : GraphPhases, levels : Seq(SUBSET (Nodes \cup {Empty})),
              node : [Nodes -> NodePhases]]

NoGraph == [live |-> FALSE, deleting |-> FALSE, fin |-> FALSE, phase |-> "",
            levels |-> <<>>, node |-> [n \in Nodes |-> "None"]]

NoRuns == [n \in Nodes |-> "None"]

(* Every variable has its type. *)
TypeOK ==
    /\ dep \in Graphs
    /\ graph \in GraphRuns /\ cache \in GraphRuns /\ loc \in GraphRuns
    /\ cacheStale \in BOOLEAN /\ locStale \in BOOLEAN
    /\ runs \in [Nodes -> RunPhases] /\ seen \in [Nodes -> RunPhases]
    /\ listed \in [Nodes -> RunPhases]
    /\ won \in SUBSET Nodes
    /\ queued \in BOOLEAN /\ timer \in BOOLEAN
    /\ pc \in {"idle", "levels"}
    /\ level \in Nat /\ todo \in SUBSET (Nodes \cup {Empty})
    /\ faults \in Nat /\ requests \in Nat /\ returns \in Nat

-----------------------------------------------------------------------------
(* The reconciler's helpers *)

(* Slip: a partly failed graph run is worked on again. *)
endsOnFailed(phase) == phase \in {"Completed", "Failed"}

isTerminalPhase(phase) == phase \in TerminalPhases

(* Slip: a run that ended is a completed node. *)
nodePhaseOfEnded(phase) == IF phase \in EndPhases THEN "Completed" ELSE "Running"

(* The node phase of a run's phase; a run without one counts as running. *)
updateNodeStatusFromRun(phase) ==
    CASE phase = "Succeeded"       -> "Completed"
      [] phase = "Failed"          -> "Failed"
      [] phase \in {"", "Running"} -> "Running"
      [] phase = "Pending"         -> "Pending"

(* Slips: a running node counts as complete; one completed node is enough; *)
(* the phase of a run is taken for the one of a node.                      *)
levelStarted(node, nodes) ==
    \A n \in nodes : n \in Nodes /\ node[n] \in {"Completed", "Running"}
levelBegun(node, nodes) ==
    \E n \in nodes : n \in Nodes /\ node[n] = "Completed"
levelSucceeded(node, nodes) ==
    \A n \in nodes : n \in Nodes /\ node[n] = "Succeeded"

(* checkPreviousLevel: are the nodes of a level complete; has one failed?  *)
levelComplete(node, nodes) ==
    \A n \in nodes : n \in Nodes /\ node[n] = "Completed"
levelHasFailures(node, nodes) == \E n \in nodes \cap Nodes : node[n] = "Failed"

NodesIn(node, phases) == {n \in Nodes : node[n] \in phases}

(* Slip: a phase is misspelt. *)
globalMisspelt(node) ==
    IF NodesIn(node, {"Running"}) # {} THEN "Running" ELSE "Succeeded"

calculateGlobalStatus(node) ==
    LET failed == NodesIn(node, {"Failed"})
        completed == NodesIn(node, {"Completed"})
        running == NodesIn(node, {"Running"})
    IN  CASE failed # {} /\ completed # {} -> "PartiallyFailed"
          [] failed # {} /\ completed = {} -> "Failed"
          [] failed = {} /\ completed = Nodes -> "Completed"
          [] failed = {} /\ completed # Nodes /\ running \cup completed # {}
               -> "Running"
          [] OTHER -> "Pending"

(* handleFailFast: the nodes of all later levels. *)
LaterNodes(levels, i) == UNION {levels[j] : j \in (i + 1)..Len(levels)}

(* Slip: the phase is left as it was. *)
failFastSilently(g, i) ==
    [g EXCEPT !.node = [n \in Nodes |-> IF n \in LaterNodes(g.levels, i)
                                        THEN "Blocked" ELSE g.node[n]]]

failFast(g, i) ==
    LET node == [n \in Nodes |-> IF n \in LaterNodes(g.levels, i)
                                 THEN "Blocked" ELSE g.node[n]]
    IN  [g EXCEPT !.node = node, !.phase = calculateGlobalStatus(node)]

-----------------------------------------------------------------------------
(* The API server *)

(* An update is accepted only from a copy of the current version. *)
updateAccepted(stale) == ~stale

(***************************************************************************)
(* Commit a new graph run.  The status also carries times of the first     *)
(* cluster job, so it may change where the model's part of it does not.    *)
(***************************************************************************)
Write(new) ==
    /\ graph' = new
    /\ cacheStale' \in {TRUE, cacheStale \/ new # graph}
    /\ UNCHANGED dep

Fail == faults > 0 /\ faults' = faults - 1

Return ==
    /\ pc' = "idle" /\ loc' = NoGraph /\ locStale' = FALSE
    /\ listed' = NoRuns /\ level' = 0 /\ todo' = {}

Init ==
    /\ dep \in Graphs
    /\ graph = [NoGraph EXCEPT !.live = TRUE]
    /\ cache = NoGraph /\ cacheStale = TRUE
    /\ runs = NoRuns /\ seen = NoRuns /\ won = {}
    /\ queued = FALSE /\ timer = FALSE
    /\ pc = "idle" /\ loc = NoGraph /\ locStale = FALSE
    /\ listed = NoRuns /\ level = 0 /\ todo = {}
    /\ faults = MaxFaults /\ requests = MaxRequests /\ returns = MaxReturns

-----------------------------------------------------------------------------
(* Reconcile, up to the levels: each of these steps is one whole reconcile *)

Fetch == pc = "idle" /\ queued

(* A live graph run that is neither deleted nor without its finalizer. *)
Owned(g) == g.live /\ ~g.deleting /\ g.fin

(* The graph run is not in the cache: nothing to do. *)
ReconcileNotFound ==
    /\ Fetch /\ ~cache.live
    /\ queued' = FALSE
    /\ UNCHANGED <<apiVars, cache, runVars, seen, timer, recVars, envVars>>

(* Slip: the phase is looked at before the deletion timestamp. *)
RemoveFinalizerUnlessEnded ==
    /\ Fetch /\ cache.live /\ cache.deleting /\ ~isTerminalPhase(cache.phase)
    /\ updateAccepted(cacheStale)
    /\ Write(NoGraph)
    /\ queued' = FALSE
    /\ UNCHANGED <<cache, runVars, seen, timer, recVars, envVars>>

(* A deleted graph run loses its finalizer, and with it the object goes. *)
RemoveFinalizer ==
    /\ Fetch /\ cache.live /\ cache.deleting
    /\ updateAccepted(cacheStale)
    /\ Write(NoGraph)
    /\ queued' = FALSE
    /\ UNCHANGED <<cache, runVars, seen, timer, recVars, envVars>>

(* The finalizer is added and the graph run put back into the queue. *)
AddFinalizer ==
    /\ Fetch /\ cache.live /\ ~cache.deleting /\ ~cache.fin
    /\ updateAccepted(cacheStale)
    /\ Write([cache EXCEPT !.fin = TRUE])
    /\ UNCHANGED <<cache, runVars, seen, queued, timer, recVars, envVars>>

initializeStatus ==
    /\ Fetch /\ Owned(cache) /\ cache.phase = ""
    /\ updateAccepted(cacheStale)
    /\ Write([cache EXCEPT !.phase = "Pending"])
    /\ UNCHANGED <<cache, runVars, seen, queued, timer, recVars, envVars>>

(* One of these updates fails: the error puts the graph run back. *)
UpdateFails ==
    /\ Fetch /\ cache.live
    /\ cache.deleting \/ ~cache.fin \/ cache.phase = ""
    /\ \/ ~updateAccepted(cacheStale) /\ UNCHANGED faults
       \/ Fail
    /\ UNCHANGED <<apiVars, cache, runVars, seen, queued, timer, recVars,
                   requests, returns>>

SkipTerminal ==
    /\ Fetch /\ Owned(cache) /\ isTerminalPhase(cache.phase)
    /\ queued' = FALSE
    /\ UNCHANGED <<apiVars, cache, runVars, seen, timer, recVars, envVars>>

Unresolved ==
    /\ Fetch /\ Owned(cache)
    /\ cache.phase # "" /\ ~isTerminalPhase(cache.phase)
    /\ cache.levels = <<>>

ResolvedGraph == [cache EXCEPT !.levels = Levels(dep),
                               !.node = [n \in Nodes |-> "Pending"]]

resolveGraph ==
    /\ Unresolved /\ Resolvable(dep)
    /\ updateAccepted(cacheStale)
    /\ Write(ResolvedGraph)
    /\ UNCHANGED <<cache, runVars, seen, queued, timer, recVars, envVars>>

(***************************************************************************)
(* updateStatusWithError for the copy g, after cost failing calls: phase   *)
(* Failed is stored if the update is accepted, and the error puts the      *)
(* graph run back into the queue in any case.                              *)
(***************************************************************************)
updateStatusWithError(g, stale, cost) ==
    /\ faults >= cost
    /\ \/ /\ updateAccepted(stale)
          /\ Write([g EXCEPT !.phase = "Failed"])
          /\ faults' = faults - cost
       \/ /\ ~updateAccepted(stale)
          /\ faults' = faults - cost
          /\ UNCHANGED apiVars
       \/ /\ faults > cost
          /\ faults' = faults - cost - 1
          /\ UNCHANGED apiVars
    /\ queued' = TRUE

(* A graph that cannot be resolved ... *)
ResolveRefused ==
    /\ Unresolved /\ ~Resolvable(dep)
    /\ updateStatusWithError(cache, cacheStale, 0)
    /\ UNCHANGED <<cache, runVars, seen, timer, recVars, requests, returns>>

(* ... and one whose levels cannot be stored end in the same way. *)
ResolveUpdateFails ==
    /\ Unresolved /\ Resolvable(dep)
    /\ updateStatusWithError(ResolvedGraph, cacheStale,
                             IF updateAccepted(cacheStale) THEN 1 ELSE 0)
    /\ UNCHANGED <<cache, runVars, seen, timer, recVars, requests, returns>>

-----------------------------------------------------------------------------
(* Reconcile, the levels *)

(* The runs of the graph are listed from the cache. *)
getExistingScenarioRuns ==
    /\ Fetch /\ Owned(cache)
    /\ cache.phase # "" /\ ~isTerminalPhase(cache.phase)
    /\ cache.levels # <<>>
    /\ loc' = cache /\ locStale' = cacheStale /\ listed' = seen
    /\ pc' = "levels" /\ level' = 1 /\ todo' = cache.levels[1]
    /\ queued' = FALSE
    /\ UNCHANGED <<apiVars, cache, runVars, seen, timer, envVars>>

NotListed(n) == n \in Nodes => listed[n] = "None"

(* processNode for a node whose run is in the list. *)
UpdateNode(n) ==
    /\ pc = "levels" /\ n \in todo /\ ~NotListed(n)
    /\ loc' = [loc EXCEPT !.node[n] = updateNodeStatusFromRun(listed[n])]
    /\ todo' = todo \ {n}
    /\ UNCHANGED <<apiVars, cache, runVars, seen, queued, timer, pc, locStale,
                   listed, level, envVars>>

(* processNode for any other: its run is created ... *)
createScenarioRun(n) ==
    /\ pc = "levels" /\ n \in todo \cap Nodes /\ NotListed(n)
    /\ runs[n] = "None"
    /\ runs' = [runs EXCEPT ![n] = ""]
    /\ loc' = [loc EXCEPT !.node[n] = "Running"]
    /\ todo' = todo \ {n}
    /\ UNCHANGED <<apiVars, cache, seen, won, queued, timer, pc, locStale,
                   listed, level, envVars>>

(***************************************************************************)
(* ... or not: the node is not in the graph, a run of that name exists, or *)
(* the call fails.                                                         *)
(***************************************************************************)
createScenarioRunFails(n) ==
    /\ pc = "levels" /\ n \in todo /\ NotListed(n)
    /\ updateStatusWithError(loc, locStale,
           IF n \notin Nodes \/ runs[n] # "None" THEN 0 ELSE 1)
    /\ Return
    /\ UNCHANGED <<cache, runVars, seen, timer, requests, returns>>

LevelDone == pc = "levels" /\ todo = {}

NextLevel ==
    /\ LevelDone /\ level < Len(loc.levels)
    /\ levelComplete(loc.node, loc.levels[level])
    /\ ~levelHasFailures(loc.node, loc.levels[level])
    /\ level' = level + 1 /\ todo' = loc.levels[level + 1]
    /\ UNCHANGED <<apiVars, cache, runVars, seen, queued, timer, pc, loc,
                   locStale, listed, envVars>>

Failing ==
    LevelDone /\ level < Len(loc.levels)
              /\ levelHasFailures(loc.node, loc.levels[level])

(* A conflict puts the graph run back, success leaves it alone. *)
handleFailFast ==
    /\ Failing
    /\ \/ /\ updateAccepted(locStale)
          /\ Write(failFast(loc, level))
          /\ UNCHANGED queued
       \/ /\ ~updateAccepted(locStale)
          /\ queued' = TRUE
          /\ UNCHANGED apiVars
    /\ Return
    /\ UNCHANGED <<cache, runVars, seen, timer, envVars>>

(* Any other error ends in updateStatusWithError. *)
handleFailFastFails ==
    /\ Failing
    /\ updateStatusWithError(failFast(loc, level), locStale, 1)
    /\ Return
    /\ UNCHANGED <<cache, runVars, seen, timer, requests, returns>>

(* The last level is processed, or a level is not complete yet. *)
AtTheEnd ==
    /\ LevelDone
    /\ \/ level = Len(loc.levels)
       \/ /\ level < Len(loc.levels)
          /\ ~levelComplete(loc.node, loc.levels[level])
          /\ ~levelHasFailures(loc.node, loc.levels[level])

(* The status is stored and a later reconcile scheduled, after 10 or 30 s. *)
FinishWrite ==
    /\ AtTheEnd /\ updateAccepted(locStale)
    /\ Write([loc EXCEPT !.phase = calculateGlobalStatus(loc.node)])
    /\ timer' = TRUE
    /\ Return
    /\ UNCHANGED <<cache, runVars, seen, queued, envVars>>

(* A conflict or an error puts the graph run back into the queue. *)
FinishFails ==
    /\ AtTheEnd
    /\ \/ ~updateAccepted(locStale) /\ UNCHANGED faults
       \/ Fail
    /\ queued' = TRUE
    /\ Return
    /\ UNCHANGED <<apiVars, cache, runVars, seen, timer, requests, returns>>

(***************************************************************************)
(* The operator restarts, or another replica takes the lease: informer     *)
(* caches are filled anew and the graph run is queued.                     *)
(***************************************************************************)
Crash ==
    /\ Fail
    /\ Return
    /\ cache' = graph /\ cacheStale' = FALSE /\ seen' = runs
    /\ queued' = TRUE /\ timer' = FALSE
    /\ UNCHANGED <<dep, graph, runVars, requests, returns>>

-----------------------------------------------------------------------------
(* Watches and timers *)

DeliverGraph ==
    /\ cacheStale
    /\ cache' = graph /\ cacheStale' = FALSE /\ queued' = TRUE
    /\ UNCHANGED <<dep, graph, runVars, seen, timer, recVars, envVars>>

DeliverRun(n) ==
    /\ seen[n] # runs[n]
    /\ seen' = [seen EXCEPT ![n] = runs[n]] /\ queued' = TRUE
    /\ UNCHANGED <<apiVars, cache, runVars, timer, recVars, envVars>>

TimerFires ==
    /\ timer /\ timer' = FALSE /\ queued' = TRUE
    /\ UNCHANGED <<apiVars, cache, runVars, seen, recVars, envVars>>

-----------------------------------------------------------------------------
(* Scenario runs and users *)

(***************************************************************************)
(* The scenario run controller publishes another phase of the run.  A run  *)
(* that failed goes on when a job is retried, and any ended run when the   *)
(* job of a target is created late.                                        *)
(***************************************************************************)
RunMoves(n, p) ==
    /\ runs[n] # "None" /\ p # runs[n]
    /\ IF runs[n] = "" THEN p = "Pending"
                       ELSE p \in {"Running"} \cup EndPhases
    /\ IF runs[n] \in EndPhases THEN returns > 0 /\ returns' = returns - 1
                                ELSE UNCHANGED returns
    /\ runs' = [runs EXCEPT ![n] = p]
    /\ won' = IF p = "Succeeded" THEN won \cup {n} ELSE won
    /\ UNCHANGED <<apiVars, cache, seen, queued, timer, recVars, faults,
                   requests>>

(* Without its owner a run is garbage-collected. *)
CollectRun(n) ==
    /\ ~graph.live /\ runs[n] # "None"
    /\ runs' = [runs EXCEPT ![n] = "None"]
    /\ UNCHANGED <<apiVars, cache, seen, won, queued, timer, recVars, envVars>>

(* DELETE of the graph run: with a finalizer it is only marked. *)
DeleteGraphRun ==
    /\ requests > 0 /\ requests' = requests - 1
    /\ cache.live /\ graph.live /\ ~graph.deleting
    /\ graph' = IF graph.fin THEN [graph EXCEPT !.deleting = TRUE] ELSE NoGraph
    /\ cacheStale' = TRUE /\ locStale' = (pc # "idle")
    /\ UNCHANGED <<dep, cache, runVars, seen, queued, timer, pc, loc, listed,
                   level, todo, faults, returns>>

(* DELETE of the scenario run of a node. *)
DeleteScenarioRunComplete(n) ==
    /\ requests > 0 /\ requests' = requests - 1
    /\ seen[n] # "None" /\ runs[n] # "None"
    /\ runs' = [runs EXCEPT ![n] = "None"]
    /\ UNCHANGED <<apiVars, cache, seen, won, queued, timer, recVars, faults,
                   returns>>

-----------------------------------------------------------------------------
Reconcile ==
    \/ ReconcileNotFound \/ RemoveFinalizer \/ AddFinalizer
    \/ initializeStatus \/ UpdateFails \/ SkipTerminal
    \/ resolveGraph \/ ResolveRefused \/ ResolveUpdateFails
    \/ getExistingScenarioRuns
    \/ \E n \in Nodes \cup {Empty} :
          UpdateNode(n) \/ createScenarioRun(n) \/ createScenarioRunFails(n)
    \/ NextLevel \/ handleFailFast \/ handleFailFastFails
    \/ FinishWrite \/ FinishFails

Watch == DeliverGraph \/ TimerFires \/ \E n \in Nodes : DeliverRun(n)

ScenarioRuns == \E n \in Nodes : CollectRun(n) \/ \E p \in RunPhases : RunMoves(n, p)

Users == DeleteGraphRun \/ \E n \in Nodes : DeleteScenarioRunComplete(n)

Next == Reconcile \/ Crash \/ Watch \/ ScenarioRuns \/ Users

Spec == Init /\ [][Next]_vars

(***************************************************************************)
(* A queued graph run is reconciled, a started reconcile goes on, watch    *)
(* events arrive and timers fire.  Scenario runs and users owe nothing.    *)
(***************************************************************************)
Fairness ==
    /\ WF_vars(Reconcile)
    /\ WF_vars(DeliverGraph)
    /\ WF_vars(TimerFires)
    /\ \A n \in Nodes : WF_vars(DeliverRun(n))

FairSpec == Spec /\ Fairness

-----------------------------------------------------------------------------
(* Properties *)

(* The level barrier of processLevels: a node's run is only started after  *)
(* the runs of all nodes of all earlier levels, the one it depends on      *)
(* among them, have succeeded; whatever is stale, retried or lost.         *)
LevelBarrier ==
    \A n \in Nodes : runs[n] # "None" =>
        /\ Resolvable(dep)
        /\ dep[n] # NoNode => dep[n] \in won
        /\ \A i, j \in DOMAIN Levels(dep) :
              i < j /\ n \in Levels(dep)[j] => Levels(dep)[i] \subseteq won

(* A graph run published as Completed ran every node to success, and a     *)
(* node is only published as Completed if its own run did succeed.         *)
CompletedIsReal ==
    /\ NodesIn(graph.node, {"Completed"}) \subseteq won
    /\ graph.phase = "Completed" => won = Nodes

(* isTerminalPhase ends the graph run: its phase and those of its nodes    *)
(* never change again, although reconciles on older copies still arrive.   *)
TerminalIsFinal ==
    [][graph.phase \in TerminalPhases /\ graph'.live =>
          graph'.phase = graph.phase /\ graph'.node = graph.node]_vars

(* The published phase is the one of the published nodes, or Failed after  *)
(* an error.                                                               *)
PhaseAgrees ==
    graph.levels # <<>> =>
        graph.phase \in {calculateGlobalStatus(graph.node), "Failed"}

(* Every node has a level, or there are none because the graph is refused. *)
(* An unlinked node beside dependencies gets none, see EveryNodeHasALevel  *)
(* of ResolveGraph: it is never started, and stays Pending for ever.       *)
EveryNodeIsReached ==
    Resolvable(dep) =>
        \A n \in Nodes : \E i \in DOMAIN Levels(dep) : n \in Levels(dep)[i]

(* If from some time on no run is going, the graph run ends or is deleted. *)
(* TLC refutes this for a graph with an unlinked node beside dependencies. *)
EveryGraphEnds ==
    <>[](\A n \in Nodes : runs[n] \in {"None"} \cup EndPhases)
        => <>(graph.phase \in TerminalPhases \/ ~graph.live)

(* A graph run whose nodes all have a level ends or is deleted if from     *)
(* some time on none of its runs is going: processLevels and its timers    *)
(* wait for no event that is not going to come.                            *)
GraphEnds == EveryNodeIsReached => EveryGraphEnds

(* A DELETE of the graph run is completed: the finalizer is removed even   *)
(* if the update was refused or a reconcile was under way.                 *)
DeletionCompletes == graph.deleting ~> ~graph.live

-----------------------------------------------------------------------------
(* The inductive invariant behind the properties *)

(* What a copy of the graph run says is true, now if not when it was made. *)
Truthful(g) ==
    /\ NodesIn(g.node, {"Completed"}) \subseteq won
    /\ g.phase = "Completed" => won = Nodes
    /\ g.levels # <<>> => Resolvable(dep) /\ g.levels = Levels(dep)

TruthfulCopies == Truthful(graph) /\ Truthful(cache) /\ Truthful(loc)

(* So is what a copy of the runs says. *)
SucceededWon ==
    \A n \in Nodes : "Succeeded" \in {runs[n], seen[n], listed[n]} => n \in won

(* A copy that is not stale is current; processLevels changes only nodes.  *)
FreshCopies ==
    /\ ~cacheStale => cache = graph
    /\ pc = "levels" /\ ~locStale => graph = [loc EXCEPT !.node = graph.node]

(* A graph run that is not resolved yet has run nothing. *)
PhaseFits ==
    /\ PhaseAgrees
    /\ graph.levels = <<>> => graph.phase \in {"", "Pending", "Failed"}

(* processLevels is at a level of a resolved graph run that has not ended, *)
(* and all nodes of the levels before it have succeeded.                   *)
AtALevel ==
    pc = "levels" =>
        /\ loc.phase \notin TerminalPhases /\ loc.phase # ""
        /\ loc.levels # <<>> /\ level \in DOMAIN loc.levels
        /\ todo \subseteq loc.levels[level]
        /\ \A i \in 1..(level - 1) : loc.levels[i] \subseteq won

IInv ==
    /\ TypeOK /\ TruthfulCopies /\ SucceededWon /\ FreshCopies /\ PhaseFits
    /\ AtALevel /\ LevelBarrier

-----------------------------------------------------------------------------
(* What comments say and the code does not do *)

Going == {n \in Nodes : runs[n] \in {"", "Pending", "Running"}}

(* A terminal phase says that the graph run has completed execution        *)
(* (isTerminalPhase): no run of it is going.                               *)
TerminalMeansEnded == graph.phase \in TerminalPhases => Going = {}

(* A graph run that ended because a node failed has no node that is still  *)
(* published as running: nothing would ever update it (isTerminalPhase).   *)
FailureEndsTheLevel ==
    graph.phase = "PartiallyFailed" => NodesIn(graph.node, {"Running"}) = {}

(* The node phases of an ended graph run are the current ones: a node      *)
(* published as failed has no run that succeeded.                          *)
FailedNodeHasFailed ==
    graph.phase \in TerminalPhases =>
        \A n \in Nodes : graph.node[n] = "Failed" => runs[n] # "Succeeded"

(* handleFailFast blocks dependent nodes: those that depend on a node that *)
(* failed or is blocked.                                                   *)
BlockedIsDependent ==
    \A n \in NodesIn(graph.node, {"Blocked"}) :
        dep[n] \in NodesIn(graph.node, {"Failed", "Blocked"})

(* Blocked nodes are counted among the pending ones (GraphRunSummary): a   *)
(* node is not blocked when its run has been started.                      *)
BlockedIsPending ==
    [][\A n \in Nodes :
          graph.node[n] # "Blocked" /\ graph'.node[n] = "Blocked"
             => runs[n] = "None"]_vars
=============================================================================
