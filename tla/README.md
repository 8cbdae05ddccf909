# krkn-operator: a verification project

krkn-operator runs chaos scenarios against clusters. Users ask for them over a
REST API; the API writes custom resources; controllers (controller-runtime
reconcilers, one worker per kind, leader-elected) turn the resources into pods
and publish what happens in the resources' status.

These TLA+ modules model the controllers and the handlers that interfere with
them. TLC checks them on small instances, and TLAPS proves the safety
properties of every module for all instances.

## 1. Inventory

| Part | State | Operations | Module |
|---|---|---|---|
| Scenario run controller (`internal/controller/krknscenariorun_controller.go`) | `KrknScenarioRun.status`: phase, one entry per cluster; pods; ConfigMaps and Secrets of a job | reconcile: initial status, creation loop, status loop, retry, overall phase, status write | `ScenarioRun` |
| Scenario run handlers (`internal/api/handlers.go`) | none of their own | POST run, DELETE job, DELETE run; reads | `ScenarioRun` (the DELETEs) |
| Graph run controller (`krkngraphrun_controller.go`) | `KrknGraphRun.status`: phase, resolved levels, node phases; finalizer; one `KrknScenarioRun` per node | reconcile: finalizer, initial status, resolve, levels, fail-fast, overall phase | `GraphRun` |
| Graph resolution (`pkg/graph/executor.go`, krknctl and depgraph libraries) | the dependency graph being built | reference checks, edges, cycle detection, layers | `ResolveGraph`, `GraphLevels` |
| Graph run handlers (`graphrun_handlers.go`) | none | POST, DELETE; reads | `GraphRun` (the DELETE) |
| Target request controller (`krkntargetrequest_controller.go`) | `KrknTargetRequest.status`, managed-clusters Secret | label, initialise, contribute, write the Secret, complete, clean up | `ProviderRequest` |
| Provider config controller (`krknoperatortargetproviderconfig_controller.go`, `pkg/provider/config.go`) | `KrknOperatorTargetProviderConfig.status` | the same without a Secret; external operators call `UpdateProviderConfig` | `ProviderRequest` |
| Provider registration (`pkg/provider/registration.go`) | `KrknOperatorTargetProvider` | register, heartbeat, sign off; PATCH by an administrator | `ProviderRegistry` |
| JWT secret manager (`pkg/auth/secret_manager.go`) | one Secret, an in-memory copy per replica | load or create, retry | `JwtSecret` |
| Users (`auth_handlers.go`, `user_handlers.go`, `pkg/auth`) | `KrknUser`, a password Secret each, tokens | register, login, CRUD, change of password | `Accounts` |
| Groups (`groups_handlers.go`) | `KrknUserGroup`, labels of `KrknUser` | CRUD, members | `Groups` |
| Authorization (`authorization.go`, `pkg/groupauth`) | none | permission checks and filters | `Permissions` |
| Target CRUD (`targets_crud.go`) | `KrknOperatorTarget` and its Secret | create, update, delete | not modelled yet |
| Registry handlers, terminal API, data provider | none that outlives a request | - | not modelled |

How the parts interact:

* Everything shared is an object of the Kubernetes API server. Status updates
  are optimistic: they carry the resourceVersion of the copy they were made
  from and are refused (conflict) if the object has changed since.
* Controllers and handlers *read* from the informer cache of the manager's
  client, which lags behind by an unbounded time, separately for each kind of
  object. They *write* to the API server.
* A reconcile is triggered by watch events of the object and of what it owns,
  by `RequeueAfter` timers, and by returned errors. Reconciles of one object
  never overlap, but everything else happens between their steps.
* The operator can die, or lose its lease, between any two steps. A restart
  fills the caches again and queues every object.
* The graph run controller creates scenario runs and reads their phase; the
  scenario run controller does the same with pods.
* Several operators share a namespace. Each registers as a provider, and each
  adds its part to every target request and config request. The request is
  complete when as many have contributed as providers are active.
* Controllers run on the leader only, the REST API on every replica, each with
  caches of its own. The replicas agree on one secret for tokens.

What is hard, and which properties make the parts correct:

* *Stale reads, then side effects.* A reconcile creates pods or runs on the
  strength of a copy that may be old, and records that in a write that may be
  refused. What is published must still follow the life cycle (`BoardSpec`,
  `LevelBarrier`, `TerminalIsFinal`), be true (`SuccessIsReal`,
  `CompletedIsReal`) and consistent (`PhaseAgrees`).
* *Two writers of one status.* DELETE of a job and a reconcile both write the
  whole status (`CancelIsFinal`, `ResultIsFinal`, `DeletionIsRecorded`).
* *Several operators, one object.* Each writes its part from its own copy, in
  two objects, and counts the parts of the others (`CollectionSpec`,
  `CompletedMeansAll`, `SectionsKept`, `CleanupOnlyCompleted`).
* *Check, then act, in several calls.* Handlers check what a cache says and then
  make two or three writes, on any replica, at once with each other
  (`AdminFieldsGuarded`, `DeletionLeavesAdmin`, `MembershipGuarded`,
  `NoGhostMembers`); replicas that start at once make one secret
  (`TokensStayValid`).
* *Many answers to one question.* Five handlers decide who may do what; they
  must agree with the store and with each other (`DecisionsFollowStore`,
  `AnswersAgree`).
* *Who wakes the controller?* (`StatusCatchesUp`, `GraphEnds`,
  `DeletionCompletes`, `RequestEnds`).
* *Algorithms on unordered input.* (`CyclesAreRefused`, `LevelsAsDefined`,
  `LevelsRespectDependencies`).

`PROJECT.json` lists the main hazards line by line.

## 2. Modules

### ScenarioRun

One `KrknScenarioRun` with its pods. `run` is the stored object, `cache` the
informer's copy, `loc` the reconciler's. Resource versions are only ever
compared with the current one, so a copy carries one bit (`cacheStale`,
`locStale`). `status.clusterJobs` is a function from cluster names to entries:
the code appends an entry only if no entry has the name. JobID, PodName and
StartTime are set together and are one field, `id`. Times are abstract: `done`
only tells "unset", "set" and "overwritten".

The reconcile is cut where the code calls the API or the next loop iteration
begins: `ReconcileInitialize`/`ReconcileFetch`, one `CreateClusterJob` or
`CreateClusterJobFails` per target, `BeginStatusUpdate` (where `originalStatus`
is copied), one `UpdateJob...` per entry, and `FinishWrite`, `FinishUnchanged`
or `FinishFails`. Preparing the resources of a job (`prepareJobResources`, its
Secrets and ConfigMaps, and their clean-up) is part of creation: it succeeds or
fails as a whole, since nothing else reads those resources. The retry delay and
the 30 s grace period of a missing pod are nondeterministic: at any time the
delay may be over or not.

Around it: `DeleteSingleJob` (flag stored) and `DeleteSingleJobPod` (pod
deleted, a second API call), `DeleteScenarioRunComplete`; pods that run, end,
get lost or are removed; watch delivery per object; timers; `Crash`.

### JobBoard

What a reader of `status.clusterJobs` may rely on: an entry appears fresh,
moves while it has no result, is retried below its limit and never once
cancelled, and never moves after a result. A reader sees several steps at once,
because one status write may publish several. `ScenarioRun!BoardSpec` says that
the detailed model implements it, with `board <- run.jobs`.

### GraphLevels, ResolveGraph

`GraphLevels` defines graphs (each node names at most one node it depends on),
the levels of a graph as a recursive function, and which graphs are refused.
`ResolveGraph` is the algorithm: reference checks, one edge after the other in
any order (a Go map), the library's cycle check at each edge, then layer after
layer. `DependsOn` models `buildTransitive`, the set of nodes found from a
start node, by its closure property.

### GraphRun

One `KrknGraphRun` and the scenario runs of its nodes, each represented by its
phase. It extends `GraphLevels`: `resolveGraph` stores `Levels(dep)`, which
`ResolveGraphProofs` shows to be what the algorithm computes. Steps before the levels are
whole reconciles, since each makes one API call; `processLevels` is cut at every
node. Every error path is there: a refused or failing update, `AlreadyExists`
from a list that lags behind, and `updateStatusWithError`, which stores `Failed`
for good. `RunMoves` lets a run take the phases the scenario run controller
publishes, including an ended run that goes on (`MaxReturns`).

### ProviderRegistry, ProviderRequest, Collection

`ProviderRegistry` has one object per operator, `none`, `active` or `inactive`,
with a cached copy at every operator: `StartProcess` and `ensureProvider` (a
refused write ends the process), `updateHeartbeat`, `deactivateProvider` (a
refused write is only logged), crashes, and the administrator's PATCH.

`ProviderRequest` extends it by one request, of either kind, and the shared
Secret. Both controllers have the same frame, which is written once
(`ensureUUIDLabel`, `initializeStatus`, `checkCompletion` with the trailing
clean-up); what they contribute differs (`updateTargetData` and the Secret
steps, `ContributeConfig`). The reconcile refetches the object before each
write, so a refetch and its write are one step, on a cached copy of any age; an
update from an old copy is refused and requeued. A request that is Completed
may be stored as Completed once more (`StoreCompleted`), which makes the copies of
the others old. `Requeue` covers the 100 ms
timer of a conflict and the back-off of an error alike. `UpdateSecret`,
`CreateSecret` and `OverwriteSecret` are the three paths of
`writeManagedClustersSecret`. The Secret is owned by the request and collected
with it. Operators other than `Self` are other programs: for target requests
they are assumed to run the same reconciler, for config requests to call
`UpdateProviderConfig`.

`Collection` is what a polling client may rely on: announced, pending, Completed
at most once and with something in it, parts only ever added, gone at last.
`ProviderRequest!CollectionSpec` says that both kinds of request implement it.

### JwtSecret, Accounts

`JwtSecret` is `loadOrCreateSecret` on each replica: `Get` from the cache,
`Create`, and after `AlreadyExists` a second `Get`, from the same cache. An
attempt may fail and begin again; a process that gives up is a restart.

`Accounts` extends it by users, password Secrets, tokens and requests. A
request is cut at each write: `Register` and `CreateUser` make the Secret
(deleting and making again one that exists), the user, and its status, and undo
the Secret on any error of the user's creation; `UpdateUser` writes
specification and status; `DeleteUser` the Secret and then the user. Each of
these calls may fail, at any time and any number of times, and each handler then
does what it does: ends the request, undoes, or logs and goes on. `Login` issues a token from the
cached user and stores the time. A token carries the role of its day: the
middleware asks the token, not the user. `held` records that the copy in a
handler's hands is still the newest, which is what the API server compares.

### Permissions, Groups

`Permissions` is `pkg/groupauth` and `authorization.go` as operators on a user,
groups, runs and target data. A Go map that is iterated is a set of possible
results (`buildClusterAPIURLMaps`).

`Groups` has the state those operators read: users with labels, groups with
permissions, and the caches of the replicas, with every handler that writes
them. `DeleteUserGroup` lists the members, takes one update per member, and then
deletes the group. Each of these calls may fail: a failing list or update is
logged and the group is deleted all the same, a failing deletion leaves it. Users
are known by the name of their object; two addresses that `sanitizeUsername` maps
to one name are one user here, as they are one object there.

### The proof modules

`ScenarioRunProofs`, `GraphLevelsProofs`, `ResolveGraphProofs`,
`GraphRunProofs`, `ProviderRequestProofs`, `AccountsProofs` and `GroupsProofs`
each extend the module they are about; see section 4. The inductive invariants
(`IInv` and its parts) are defined in the modules themselves, after the
properties, so that TLC can check them. The modules `MC...` hold the definitions
that configurations give to constants.

## 3. Runs

Deadlock is checked in the runs of `ScenarioRun` (a periodic resync is always
possible). A graph run that has ended, a resolution that has returned, a request
that is complete and an API that nobody calls really stop, so those runs say
`CHECK_DEADLOCK FALSE`.

| Run | Question | Bounds |
|---|---|---|
| `one_cluster` | Do types, `SuccessIsReal`, `PhaseAgrees`, `DeletionIsRecorded`, `CancelIsFinal`, `ResultIsFinal` and the refinement of `JobBoard` hold when anything interferes? | 1 cluster, retry limit 2 (2 pods, the second retry finds none), 1 fault, 1 request |
| `status_catches_up` | Is the end of a pod always published? | 1 cluster, retry limit 2 (2 pods), 1 request |
| `resolve` | Is the resolution right for every graph and every order of the edges? | all 7^4 graphs of 4 nodes |
| `graph_chain` | Level order, real completion, consistent phase, final ends | chain of 2, a cycle, an empty dependency; 1 fault, 1 DELETE |
| `graph_two_chains` | Does a level of two nodes hold back the next until both succeeded? | levels {a,b} and {c,d}; symmetric under exchanging the chains |
| `graph_ends` | Does a graph run end, and a deleted one go away? | chain of 2, a cycle, an empty dependency; 1 DELETE |
| `requests` | Do two operators, with caches of any age, collect one request as `Collection` says? Does Completed mean complete, does the clean-up spare the pending, do sections of the Secret survive? | 2 operators, deployed or not at first; 1 cluster; one change at any moment (stop, crash, start, heartbeat, switch, target, DELETE) |
| `requests_live` | Is every request completed, past conflicts and a failing call? | the same, 1 fault, no change |
| `accounts` | Do all replicas accept every token, is an administrator's word never undone by other writers of the object, does a deletion leave an administrator? | 2 replicas, 2 users, 2 passwords, 2 requests of any kind, 1 crash; any call may fail |
| `groups` | Who changes memberships, what does a deleted group leave behind, do the answers agree? | 2 replicas, 2 users, 2 groups, 2 clusters, 3 requests of any kind; 3 permission maps, one invalid; target data with distinct and with equal names; any call of a deletion may fail |
| `duplicate_pod`, `secret_incomplete` | What comments say and the code does not do: section 5 | as small as shows it |

Why the bounds are enough: a fault or a request is one step at an arbitrary
moment, so one of each covers every single interference with every step of a
reconcile; two pods are a job and its retry, and a retry limit of 2 makes the
retry delay matter. One level of two nodes followed by another is the smallest
graph in which "all nodes of the level" differs from "some". Two operators are
enough for every conflict, since an update is refused by the fact that somebody
else wrote, not by how many; a third would only repeat the second. Two requests
to the accounts are one that is cut short and one that meets it, and the
accounts that exist at first stand for those made earlier; a group takes three:
one that adds a member, one that deletes the group, one that interferes. For
the safety properties the bounds only matter for finding a slip quickly: the
proofs of section 4 cover all of them. They do matter for the liveness runs.

Fairness (`FairSpec` of `ScenarioRun` and `GraphRun`): a queued object is reconciled and a
started reconcile goes on (the worker of the controller), watch events arrive
and timers fire (controller-runtime), requests that have stored the flag go on
to delete the pod, and a pod under deletion disappears (kubelet). Nothing is
assumed of users, of scenarios (a pod or run may run for ever), of faults, or
of the periodic resync. The liveness runs have no faults left after the bound,
so they show progress when calls stop failing. `GraphEnds` has two conditions:
that from some time on no run is going, and that every node has a level
(`EveryNodeIsReached`). Without the second it is `EveryGraphEnds`, which TLC
refutes (section 5): the graph run waits for ever for an unlinked node that
nobody starts. A level of two nodes (`Roots2` of `MCGraphRun`) also passes
`GraphEnds`, without the DELETE; with it the state space is too large for a run.
`ProviderRequest!FairSpec` assumes the same of workers and watches, and that a
process that ended is started again (its deployment); not that anybody switches
a provider back on, nor heartbeats, nor the clean-up. `RequestEnds` is only
claimed while the set of active providers does not change: providers are not
watched, so a request that waits for one that goes away waits for ever.

Every property of every passing run has a mutant in `PROJECT.json`: a plausible
slip (the operators commented "Slip") that makes TLC find it violated.

## 4. Proofs

Every invariant, action property and refinement of the passing runs is also a
theorem, for every value of the constants that meets the assumptions.

| Module | Theorems |
|---|---|
| `ScenarioRunProofs` | `TypeCorrect`, `PhaseCorrect` (`PhaseAgrees`), `DeletionCorrect` (`DeletionIsRecorded`), `SuccessCorrect` (`SuccessIsReal`), `BoardRefinement` (`BoardSpec`), `CancelCorrect` (`CancelIsFinal`), `ResultCorrect` (`ResultIsFinal`) |
| `GraphLevelsProofs` | `LevelsInOrder`, `LevelsCover`: what `Levels` computes |
| `ResolveGraphProofs` | `TypeCorrect`, `RefusesCycles` (`CyclesAreRefused`), `AnswerIsResolvable`, `LevelsAreDefined` (`LevelsAsDefined`), `LevelsAreInOrder` (`LevelsRespectDependencies`) |
| `GraphRunProofs` | `TypeCorrect`, `LevelsAreBarriers` (`LevelBarrier`), `CompletionIsReal` (`CompletedIsReal`), `PhasesAgree` (`PhaseAgrees`), `TheEndIsFinal` (`TerminalIsFinal`) |
| `ProviderRequestProofs` | `TypeCorrect`, `CompletionIsComplete` (`CompletedMeansAll`), `CleanupIsGuarded` (`CleanupOnlyCompleted`), `SectionsAreKept` (`SectionsKept`), `Refines` (`CollectionSpec`) |
| `AccountsProofs` | `TypeCorrect`, `TokensAreValid` (`TokensStayValid`), `AdminFieldsAreGuarded` (`AdminFieldsGuarded`), `AnAdminIsLeft` (`DeletionLeavesAdmin`) |
| `GroupsProofs` | `TypeCorrect`, `AnswersFit` (`AnswersAgree`), `DecisionsAreCurrent` (`DecisionsFollowStore`), `MembershipIsGuarded` (`MembershipGuarded`), `NoGhostsRemain` (`NoGhostMembers`) |

### Assumptions

All are stated where the constants are declared, and TLC evaluates them in the
runs: bounds are natural numbers (`BoundsAssumption`, `GraphBoundsAssumption`,
`FaultsAssumption`, `RequestsAssumption`); names of targets are clusters
(`TargetsAssumption`); the nodes of a graph are finitely many, at least one, and
none of them is one of the special values (`NodesAssumption`: `spec.graph` is a
Go map, and handler and `ResolveGraph` refuse an empty one); there are finitely many
operators, of which this one is one (`OperatorsAssumption`, `RequestAssumption`);
"no secret" is not the name of a replica (`ReplicasAssumption`: a secret is named
after the replica that made it); a permission map is a function on URLs
(`GrantsAssumption`).

### The arguments

Nothing that is published is protected by a lock. What protects it is that an
update is accepted only from the newest copy, and in every module the invariant
therefore says two things: what *every* copy owes to the truth, because an old
one may be read and acted on, and that a copy marked current *is* current,
because that is what an accepted update builds on.

*ScenarioRun.* `IInv` (theorem `Invariant`):

* `EntriesGrounded`: an entry in any of the three copies names a pod that was
  created, and one that says Succeeded names a pod that succeeded.
* `RunSound`: stored entries are sound in the sense of `JobBoard`.
* `FreshCache`: a cache that is not stale equals the stored run. This is what
  turns "the update was accepted" into "the copy was current".
* `LocalCopy`: during a reconcile whose copy is current, each entry of `loc` is
  the stored one, or freshly started (before the entry is visited), or one
  `JobBoard` step away from it (after). So the write that ends the reconcile is
  a `JobBoard` step for all entries at once. If the copy is stale the write is
  refused, and nothing need be known.
* `StillToVisit`: the status loop only visits entries that exist and have no
  result.
* `PhaseAgrees` and `DeletionIsRecorded` themselves.

*GraphLevels.* `TopoSortedLayers` is a recursive function on the subsets of a
set. Induction is replaced by a smallest counterexample: the subsets of a finite
set are well-founded, so a family of them that is not empty has a minimal member
(`SmallestSet`). In this way the function is shown to exist and to be unique
(`PeelsExists`, `PeelsUnique`), to satisfy its equation (`TopoStep`), to put
nodes in order (`TopoWellLayered`) and, without cycles, to leave none over
(`TopoCovers`). `LevelsCover` says exactly which nodes get a level, and so which
do not: see `EveryNodeHasALevel` in section 5.

*ResolveGraph.* `Building`: the dependency graph holds the edges added so far,
and no set of their nodes is closed under dependency. If the library finds a
path back from `dep[n]` to `n`, the nodes from which `n` can be reached are a
cycle of the graph (`PathClosesCycle`). If it does not, a cycle through the new
edge, cut down to what is reached from `dep[n]`, would be one of the old edges
(`NoPathNoCycle`). `Peeling`: the layers so far, followed by the layers of what
is left, are `Levels`.

*GraphRun.* `TruthfulCopies` (all three copies: a Completed node has succeeded,
a Completed graph run has run all nodes, levels are those of the graph),
`SucceededWon` (the same for copies of the runs), `FreshCopies`, `PhaseFits`
(`PhaseAgrees`, and a graph run without levels has not got past Pending),
`AtALevel` (all levels before the current one have succeeded) and
`LevelBarrier`. `LevelsInOrder` turns "all earlier levels" into "the node it
depends on". Every action is shown to be a `SafeStep`, which says for graph run,
runs and reconciler what a step may do, and a `SafeStep` to preserve `IInv`.

*ProviderRequest.* The same shape, with a `SafeStep` of registry, object copies,
Secret copies, request and program counters. `FreshCopies` and `OneRequest`;
`StatusKept` (the status a copy has is one the request has passed, so no old
copy takes Completed back); `ListsCurrent` and `EnoughParts`: while no provider
is switched, every list that a reconciler remembers has the right length, so a
Completed request has at least as many parts as there are active providers. If
all parts are from active ones, equal cardinality makes the sets equal.

*Accounts.* `OneKey` (whoever has a secret has the stored one: the creation race
is decided by the API server, and the loser reads again), `RequestsServed`,
`RequestsChecked` (past its first step a request is an administrator's or a
registration), `FreshViews`, `CountHolds` (while nobody writes an account, the
count that allowed a deletion still holds).

*Groups.* `FreshViews`, `AbsentUsers`, `MembersFound` (a member whose newest copy
a deletion has, and for whom none of its calls failed, is still on its list, so
the list is not done before he has been updated). `AnswersAgree` needs no
invariant: it holds of the decision operators on any arguments. Its part about
cancelling is an equivalence for runs that have jobs and whose jobs all have a
URL; `CancelNeedsAllJobs` of section 5 is what the others get.

### Only model-checked

Liveness, and with it everything that needs fairness, is out of the prover's
reach: `StatusCatchesUp`, `GraphEnds`, `DeletionCompletes`, `RequestEnds`. The
properties of section 5 are false, and stay with TLC.

## 5. Where the code and its documentation disagree

Kept as runs (the findings in `PROJECT.json` quote the lines):

* `duplicate_pod`: a reconcile on a cached run without the new entry creates a
  second pod for a cluster.
* `secret_incomplete`: both operators have contributed, the request is Completed
  and nothing is left to do, but the managed-clusters Secret lacks the
  kubeconfigs of one of them: its Secret was overwritten after `AlreadyExists`,
  or its update was refused and the reconcile that should repeat it found the
  request Completed.

Stated in the modules under the same heading and refuted by TLC when put into a
configuration with the bounds given here, but not kept as runs:

| Property | Bounds | What happens |
|---|---|---|
| `CancelStopsRetries` | 1 cluster, 2 pods, 1 request | a retry decided from a copy older than the cancellation starts a new pod |
| `BackoffIsScheduled` | 1 cluster, 2 pods, 1 retry | nothing schedules the reconcile that ends a retry delay |
| `UnchangedMeansStored` | 1 cluster, 1 pod, no faults | an entry appended before `originalStatus` is copied does not count as a change and is not stored |
| `WaitIsScheduled` | 1 cluster, 1 fault | a pod vanishes within 30 s of its start; nobody looks again |
| `CompletionTimeIsFinal` | 1 cluster, 1 retry, 1 fault | `CompletionTime` of a failed job whose pod is gone is overwritten |
| `SuccessCoversTargets` | 2 targets, 1 fault; or 2 targets of one cluster (`NameOf` constant) | a target without a job does not keep the run from being Succeeded |
| `EveryNodeHasALevel` | 3 nodes | an independent node of a graph that has dependencies elsewhere gets no level, is never started, and the graph run never ends |
| `EveryGraphEnds` | 3 nodes, the graph `Unlinked3`, `FairSpec`, no request | the same at run time: both linked nodes complete, the third stays Pending, and the graph run is Running for ever |
| `NoPhantomNodes` | 2 nodes | `depends_on: ""` puts a node `""` into the first level |
| `TerminalMeansEnded` | 1 node, no faults | `AlreadyExists` from a list that lags behind makes a graph run Failed for good while its run is going |
| `FailureEndsTheLevel` | node a, then b and c | b fails while c runs: the graph run ends and c is published as Running for ever |
| `FailedNodeHasFailed` | 1 node, 1 return | a run that is Failed until its retry ends the graph run |
| `BlockedIsDependent` | two chains | a failure in one chain blocks the other |
| `BlockedIsPending` | chain of 2, 1 DELETE | after the run of a completed node is deleted and fails the second time, a running node is published as Blocked |
| `AccountHasPassword` | the bounds of `accounts` | a DELETE removes the Secret, and then its deletion of the user fails; also, two requests create one account: the second finds the account and, undoing, deletes the Secret that the first has made |
| `CancelNeedsAllJobs` | the bounds of `groups` | the comment of `checkScenarioRunCancelAccess` (`authorization.go:202`) asks for the permission on all jobs; the code passes over jobs without a URL (224-234), which `checkJobAccess` refuses one by one (364-367) |

Some properties of the passing runs have a condition that says where the code
stops short. Two deletions of administrators at once can leave none
(`DeletionLeavesAdmin` asks that nobody wrote an account in between). A label
whose removal fails, or is never tried because the list failed, outlives its
group and counts again when a group of that name is made (`NoGhostMembers` asks
that no call for the user failed and nobody else wrote him). A contributor that has been switched off
since stands in for an active provider that has not contributed
(`CompletedMeansAll`). With two clusters of one name, which permission a run is
checked against depends on the order of a Go map (`AnswersAgree`, which also
leaves cancelling a run with jobs that have no URL to `CancelNeedsAllJobs`).

## 6. Not modelled, and the plan

Left out for good: log texts, error messages of pods, the container image and
file mounts, HTTP parsing and status codes, JSON and its schemas, TLS, routing,
hashing and expiry of tokens, how `sanitizeUsername` makes object names from
addresses (users are their object names, see `Groups`), the terminal
API's command filter, generated code, and the gRPC data provider. They keep no
state that two requests share. The registry handlers translate settings and ask
a remote registry; nothing of theirs is shared either.

Left for later:

1. `TargetsCrud`: a target and its kubeconfig Secret in two calls, with the
   check for duplicates. `ProviderRequest` sees its effect (`TargetChanges`).
2. What `prepareJobResources` creates and cleans up when one of its steps fails,
   and the arithmetic of `calculateRetryDelay`, which overflows for large retry
   limits.
3. `ProviderRequest` composed with `ScenarioRun`: whether a retry more than an
   hour after the request still finds its kubeconfig.
4. An abstract specification of a graph run, as `JobBoard` is one of a scenario
   run, with the phases that a node may take in between.
