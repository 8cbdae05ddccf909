---------------------------- MODULE ScenarioRun ----------------------------
(***************************************************************************)
(* One KrknScenarioRun: the reconciler that starts one scenario pod per    *)
(* target cluster, follows the pods, retries the failed ones and publishes *)
(* the result in the run's status, together with the REST handlers that    *)
(* cancel a job or delete the run, the kubelet, and the API server.        *)
(*                                                                         *)
(* Every write goes to the API server; every read comes from the informer  *)
(* cache of the manager's client, which follows at its own pace.  A status *)
(* update carries the resourceVersion of the copy it was made from and is  *)
(* refused when the object has changed since.  Resource versions are only  *)
(* ever compared with the current one, so a copy needs one bit: is it      *)
(* stale?                                                                  *)
(*                                                                         *)
(* ClusterJobs is a list in the code.  An entry is appended only when no   *)
(* entry has its cluster name, so the list is a function here, from        *)
(* cluster names to entries, NoJob where there is none.  The counters of   *)
(* the status are counts over that function and are not kept apart from it.*)
(***************************************************************************)
EXTENDS Naturals, FiniteSets

CONSTANTS
    Targets,        \* the (provider, cluster) pairs of spec.targetClusters
    Clusters,       \* the cluster names that occur in them
    NameOf,         \* the cluster name of each target
    SpecMaxRetries, \* spec.maxRetries, 0 when unset
    MaxPods,        \* bound: how many pods can be created in a behaviour
    MaxFaults,      \* bound: crashes, failing calls and vanishing pods
    MaxRequests     \* bound: DELETE requests of users

ASSUME TargetsAssumption ==
    /\ Clusters # {} /\ Targets # {}
    /\ NameOf \in [Targets -> Clusters]

ASSUME BoundsAssumption ==
    /\ SpecMaxRetries \in Nat
    /\ MaxPods \in Nat
    /\ MaxFaults \in Nat
    /\ MaxRequests \in Nat

VARIABLES
    run,        \* the KrknScenarioRun stored by the API server
    cache,      \* the informer's copy of it
    cacheStale, \* has run been written since cache was delivered?
    pods,       \* every pod name the controller drew, with its pod
    queued,     \* is the run in the controller's work queue?
    timer,      \* is a RequeueAfter pending?
    pc,         \* where the reconciler is: "idle", "create" or "update"
    todo,       \* targets the creation loop has still to visit
    left,       \* clusters the status loop has still to visit
    loc,        \* the reconciler's in-memory KrknScenarioRun
    orig,       \* originalStatus
    locStale,   \* has run been written since the copy in loc was made?
    cancels,    \* DeleteSingleJob calls between status update and pod deletion
    faults,     \* faults still allowed
    requests    \* user requests still allowed

apiVars == <<run, cacheStale>>
recVars == <<pc, todo, left, loc, orig, locStale>>
envVars == <<cancels, faults, requests>>
vars == <<run, cache, cacheStale, pods, queued, timer, pc, todo, left, loc,
          orig, locStale, cancels, faults, requests>>

-----------------------------------------------------------------------------
(* Types *)

NoId == 0
PodIds == 1..MaxPods

TerminalPhases == {"Succeeded", "Cancelled", "MaxRetriesExceeded"}
JobPhases == {"None", "Pending", "Running", "Failed", "Retrying"}
                 \cup TerminalPhases
RunPhases == {"", "Pending", "Running", "Succeeded", "Failed",
              "PartiallyFailed"}
PodPhases == {"Pending", "Running", "Succeeded", "Failed", "Unknown"}

(***************************************************************************)
(* An entry of status.clusterJobs.  JobID, PodName and StartTime are set   *)
(* together, so id stands for the three; target is the pair ProviderName,  *)
(* ClusterName.  LastRetryTime is set exactly when RetryCount grows, so it *)
(* is nil iff retry = 0.  done is CompletionTime: 0 is nil, and 1 and 2    *)
(* tell a value from the one that overwrites it.  msg is what Message and  *)
(* FailureReason are derived from.                                         *)
(***************************************************************************)
Job == [target : Targets, id : PodIds \cup {NoId}, phase : JobPhases,
        retry : Nat, max : Nat, cancel : BOOLEAN, done : {0, 1, 2},
        msg : {"", "pod", "notfound", "unknown", "retryfailed"}]

NoJob == [target |-> CHOOSE t \in Targets : TRUE, id |-> NoId,
          phase |-> "None", retry |-> 0, max |-> 0, cancel |-> FALSE,
          done |-> 0, msg |-> ""]

Run == [live : BOOLEAN, phase : RunPhases, jobs : [Clusters -> Job]]

NoRun == [live |-> FALSE, phase |-> "", jobs |-> [c \in Clusters |-> NoJob]]

(***************************************************************************)
(* made: the name is taken; there: the object exists; seen: it is in the   *)
(* informer cache.                                                         *)
(***************************************************************************)
Pod == [made : BOOLEAN, there : BOOLEAN, seen : BOOLEAN, deleting : BOOLEAN,
        cluster : Clusters, phase : PodPhases]

NoPod == [made |-> FALSE, there |-> FALSE, seen |-> FALSE,
          deleting |-> FALSE,
          cluster |-> CHOOSE c \in Clusters : TRUE, phase |-> "Pending"]

(* Every variable has its type. *)
TypeOK ==
    /\ run \in Run /\ cache \in Run /\ loc \in Run /\ orig \in Run
    /\ cacheStale \in BOOLEAN /\ locStale \in BOOLEAN
    /\ pods \in [PodIds -> Pod]
    /\ queued \in BOOLEAN /\ timer \in BOOLEAN
    /\ pc \in {"idle", "create", "update"}
    /\ todo \in SUBSET Targets /\ left \in SUBSET Clusters
    /\ cancels \in SUBSET PodIds
    /\ faults \in Nat /\ requests \in Nat

-----------------------------------------------------------------------------
(* The reconciler's helpers *)

Exists(job) == job.phase # "None"

jobExistsForCluster(status, c) ==
    Exists(status.jobs[c]) /\ status.jobs[c].phase # "Retrying"

(* Slips: the cancel check is dropped; one retry too many is granted. *)
retriesCancelled(job, max) ==
    job.phase \notin TerminalPhases /\ job.retry < max
retriesOnceMore(job, max) ==
    ~job.cancel /\ job.phase \notin TerminalPhases /\ job.retry <= max

shouldRetryJob(job, max) ==
    /\ ~job.cancel
    /\ job.phase \notin TerminalPhases
    /\ job.retry < IF max = 0 THEN 3 ELSE max

(* Slips: ended jobs are looked at again; cancelled ones are never. *)
skipsOnlyFailed(job) ==
    job.phase = "Failed" /\ job.retry >= job.max /\ ~job.cancel
skipsCancelled(job) ==
    job.phase \in TerminalPhases \cup {"Failed"} \/ job.cancel

(* Terminal jobs, and failed ones without retries left, are not looked at. *)
skipsJob(job) ==
    \/ job.phase \in TerminalPhases
    \/ job.phase = "Failed" /\ job.retry >= job.max /\ ~job.cancel

setCompletionTime(job) ==
    IF job.done = 0 THEN [job EXCEPT !.done = 1] ELSE job

DefaultMaxRetries == IF SpecMaxRetries # 0 THEN SpecMaxRetries ELSE 3

maxRetriesOf(job) == IF job.max # 0 THEN job.max ELSE DefaultMaxRetries

(* The entry of a pod just created: rewritten for a retry, else appended. *)
executeScenarioPod(job, t, id) ==
    IF job.phase = "Retrying"
    THEN [job EXCEPT !.id = id, !.phase = "Pending", !.done = 0, !.msg = ""]
    ELSE [NoJob EXCEPT !.target = t, !.id = id, !.phase = "Pending"]

(* Slip: a pod that was cleaned up counts as completed. *)
podCleanedUp(job) == {[job EXCEPT !.phase = "Succeeded", !.done = 1]}

(***************************************************************************)
(* The pod is gone: CompletionTime is overwritten with the current time,   *)
(* which may or may not be another second than the one it had.             *)
(***************************************************************************)
podNotFound(job) ==
    {[job EXCEPT !.phase = "Failed", !.msg = "notfound", !.done = d] :
        d \in IF job.done = 0 THEN {1} ELSE {1, 2}}

(* A pod phase other than Failed, copied into the entry. *)
observedJob(job, podPhase) ==
    CASE podPhase = "Pending"   -> [job EXCEPT !.phase = "Pending"]
      [] podPhase = "Running"   -> [job EXCEPT !.phase = "Running"]
      [] podPhase = "Succeeded" ->
            setCompletionTime([job EXCEPT !.phase = "Succeeded"])
      [] podPhase = "Unknown"   ->
            setCompletionTime([job EXCEPT !.phase = "Failed",
                                          !.msg = "unknown"])

(* The entry of a failed pod before the retry decision. *)
failedJob(job) ==
    setCompletionTime([job EXCEPT !.phase = "Failed", !.msg = "pod",
                                  !.max = maxRetriesOf(job)])

(* A retry is decided: the phase is Retrying until the new pod exists. *)
retryingJob(job) == [job EXCEPT !.phase = "Retrying", !.retry = @ + 1]

(* The new pod of a retry could not be created. *)
retryFailedJob(job) ==
    setCompletionTime([job EXCEPT !.phase = "Failed", !.msg = "retryfailed"])

(* A failed job that is not retried. *)
givenUpJob(job) ==
    [job EXCEPT !.phase = IF job.cancel THEN "Cancelled"
                                        ELSE "MaxRetriesExceeded"]

JobsIn(jobs, phases) == {c \in DOMAIN jobs : jobs[c].phase \in phases}

RunningJobs(jobs) == JobsIn(jobs, {"Running", "Retrying"})

(* Slip: a phase the CRD does not know. *)
overallUnknownPhase(jobs) ==
    IF RunningJobs(jobs) = {} THEN "Completed" ELSE "Running"

calculateOverallStatus(jobs) ==
    LET all  == {c \in DOMAIN jobs : Exists(jobs[c])}
        busy == RunningJobs(jobs) \cup JobsIn(jobs, {"Pending"})
        bad  == JobsIn(jobs, {"Failed", "Cancelled", "MaxRetriesExceeded"})
        good == JobsIn(jobs, {"Succeeded"})
    IN  CASE all = {}                 -> "Pending"
          [] all # {} /\ busy # {}    -> "Running"
          [] all # {} /\ bad = all    -> "Failed"
          [] all # {} /\ good = all   -> "Succeeded"
          [] OTHER                    -> "PartiallyFailed"

-----------------------------------------------------------------------------
(* The API server and the work queue *)

(* A status update is accepted only from a copy of the current version. *)
updateAccepted(stale) == ~stale

(* Commit a new run status made by the reconciler. *)
WriteStatus(new) ==
    /\ run' = new
    /\ cacheStale' = (cacheStale \/ new # run)

(* A new pod of cluster c, under the unused name id. *)
NewPod(c) == [NoPod EXCEPT !.made = TRUE, !.there = TRUE, !.cluster = c]

Unused == {id \in PodIds : ~pods[id].made}
FreshId == CHOOSE id \in Unused : TRUE

Visible(id) == pods[id].there /\ pods[id].seen

Fail == faults > 0 /\ faults' = faults - 1

(***************************************************************************)
(* Creating a job's resources or its pod fails: an API error, a missing    *)
(* kubeconfig secret, or no pod name left within the bound.                *)
(***************************************************************************)
CreationFails ==
    \/ Fail
    \/ Unused = {} /\ faults' = faults

Init ==
    /\ run = [NoRun EXCEPT !.live = TRUE]
    /\ cache = NoRun
    /\ cacheStale = TRUE
    /\ pods = [id \in PodIds |-> NoPod]
    /\ queued = FALSE /\ timer = FALSE
    /\ pc = "idle" /\ todo = {} /\ left = {}
    /\ loc = NoRun /\ orig = NoRun /\ locStale = FALSE
    /\ cancels = {}
    /\ faults = MaxFaults /\ requests = MaxRequests

-----------------------------------------------------------------------------
(* Reconcile *)

(* Back to the work queue with the in-memory copies dropped. *)
Return ==
    /\ pc' = "idle" /\ todo' = {} /\ left' = {}
    /\ loc' = NoRun /\ orig' = NoRun /\ locStale' = FALSE

(* The run is not in the cache: nothing to do. *)
ReconcileNotFound ==
    /\ pc = "idle" /\ queued /\ ~cache.live
    /\ queued' = FALSE
    /\ UNCHANGED <<apiVars, cache, pods, timer, recVars, envVars>>

(* First reconcile: the initial status is written before anything else. *)
ReconcileInitialize ==
    /\ pc = "idle" /\ queued /\ cache.live /\ cache.phase = ""
    /\ updateAccepted(cacheStale)
    /\ loc' = [cache EXCEPT !.phase = "Pending",
                            !.jobs = [c \in Clusters |-> NoJob]]
    /\ run' = loc'
    /\ cacheStale' = TRUE /\ locStale' = FALSE
    /\ pc' = "create" /\ todo' = Targets
    /\ queued' = FALSE
    /\ UNCHANGED <<cache, pods, timer, left, orig, envVars>>

(* The initial status cannot be written: the error puts the run back. *)
ReconcileInitializeFails ==
    /\ pc = "idle" /\ queued /\ cache.live /\ cache.phase = ""
    /\ \/ ~updateAccepted(cacheStale) /\ faults' = faults
       \/ Fail
    /\ UNCHANGED <<apiVars, cache, pods, queued, timer, recVars, 
                   cancels, requests>>

(* A later reconcile starts from the cached copy. *)
ReconcileFetch ==
    /\ pc = "idle" /\ queued /\ cache.live /\ cache.phase # ""
    /\ loc' = cache /\ locStale' = cacheStale
    /\ pc' = "create" /\ todo' = Targets
    /\ queued' = FALSE
    /\ UNCHANGED <<run, cacheStale, cache, pods, timer, left, orig, envVars>>

(* The creation loop, at a target without a job: its pod is created. *)
CreateClusterJob(t) ==
    LET c == NameOf[t] IN
    /\ pc = "create" /\ t \in todo
    /\ ~jobExistsForCluster(loc, c)
    /\ Unused # {}
    /\ pods' = [pods EXCEPT ![FreshId] = NewPod(c)]
    /\ loc' = [loc EXCEPT !.jobs[c] = executeScenarioPod(@, t, FreshId)]
    /\ todo' = todo \ {t}
    /\ UNCHANGED <<apiVars, cache, queued, timer, pc, left, orig, locStale,
                   envVars>>

(* ... or it fails, which is logged and otherwise ignored. *)
CreateClusterJobFails(t) ==
    /\ pc = "create" /\ t \in todo
    /\ ~jobExistsForCluster(loc, NameOf[t])
    /\ CreationFails
    /\ todo' = todo \ {t}
    /\ UNCHANGED <<apiVars, cache, pods, queued, timer, pc, left, loc, orig,
                   locStale, cancels, requests>>

(***************************************************************************)
(* Every target that is left has a job.  The status is copied here, after  *)
(* the creation loop, and the status loop begins.                          *)
(***************************************************************************)
BeginStatusUpdate ==
    /\ pc = "create"
    /\ \A t \in todo : jobExistsForCluster(loc, NameOf[t])
    /\ orig' = loc
    /\ pc' = "update" /\ todo' = {}
    /\ left' = {c \in Clusters : Exists(loc.jobs[c]) /\ ~skipsJob(loc.jobs[c])}
    /\ UNCHANGED <<apiVars, cache, pods, queued, timer, loc, locStale, envVars>>

(* One turn of the status loop replaces the entry of cluster c. *)
Visit(c, job) ==
    /\ loc' = [loc EXCEPT !.jobs[c] = job]
    /\ left' = left \ {c}
    /\ UNCHANGED <<apiVars, cache, queued, timer, pc, todo, orig, locStale,
                   cancels, requests>>

(* The pod is not in the cache but the job is recent: keep waiting. *)
UpdateJobRecent(c) ==
    /\ pc = "update" /\ c \in left
    /\ ~Visible(loc.jobs[c].id)
    /\ loc.jobs[c].phase = "Pending"
    /\ Visit(c, loc.jobs[c])
    /\ UNCHANGED <<pods, faults>>

(* The pod is not in the cache and should be. *)
UpdateJobPodNotFound(c) ==
    /\ pc = "update" /\ c \in left
    /\ ~Visible(loc.jobs[c].id)
    /\ \E job \in podNotFound(loc.jobs[c]) : Visit(c, job)
    /\ UNCHANGED <<pods, faults>>

(* Fetching the pod fails otherwise: logged, the entry is left alone. *)
UpdateJobGetFails(c) ==
    /\ pc = "update" /\ c \in left
    /\ Fail
    /\ Visit(c, loc.jobs[c])
    /\ UNCHANGED pods

(* The pod is pending, running, succeeded or in an unknown state. *)
UpdateJobFromPod(c) ==
    LET job == loc.jobs[c] IN
    /\ pc = "update" /\ c \in left
    /\ Visible(job.id) /\ pods[job.id].phase # "Failed"
    /\ Visit(c, observedJob(job, pods[job.id].phase))
    /\ UNCHANGED <<pods, faults>>

PodFailed(c) ==
    /\ pc = "update" /\ c \in left
    /\ Visible(loc.jobs[c].id) /\ pods[loc.jobs[c].id].phase = "Failed"

(* The delay of an earlier retry has not passed: stay Failed for now. *)
UpdateJobBackoff(c) ==
    LET job == failedJob(loc.jobs[c]) IN
    /\ PodFailed(c)
    /\ shouldRetryJob(job, job.max)
    /\ job.retry > 0
    /\ Visit(c, job)
    /\ UNCHANGED <<pods, faults>>

RetryDue(c) ==
    LET job == failedJob(loc.jobs[c]) IN
    /\ PodFailed(c)
    /\ shouldRetryJob(job, job.max)

(* The failed job is retried with a new pod. *)
UpdateJobRetry(c) ==
    /\ RetryDue(c)
    /\ Unused # {}
    /\ pods' = [pods EXCEPT ![FreshId] = NewPod(c)]
    /\ Visit(c, executeScenarioPod(retryingJob(failedJob(loc.jobs[c])),
                                   loc.jobs[c].target, FreshId))
    /\ UNCHANGED faults

(* The retry is counted but its pod cannot be created. *)
UpdateJobRetryFails(c) ==
    /\ RetryDue(c)
    /\ CreationFails
    /\ Visit(c, retryFailedJob(retryingJob(failedJob(loc.jobs[c]))))
    /\ UNCHANGED pods

(* The failed job was cancelled or has no retry left. *)
UpdateJobGiveUp(c) ==
    LET job == failedJob(loc.jobs[c]) IN
    /\ PodFailed(c)
    /\ ~shouldRetryJob(job, job.max)
    /\ Visit(c, givenUpJob(job))
    /\ UNCHANGED <<pods, faults>>

(* Slip: the overall phase is computed before the status loop. *)
StatusOfOriginal == [loc EXCEPT !.phase = calculateOverallStatus(orig.jobs)]

NewStatus == [loc EXCEPT !.phase = calculateOverallStatus(loc.jobs)]

statusEqual(old, new) == old = new

(* RequeueAfter 10 s, but only while jobs are running. *)
Requeue == timer' = (timer \/ RunningJobs(loc.jobs) # {})

(* Nothing changed since originalStatus: nothing is written. *)
FinishUnchanged ==
    /\ pc = "update" /\ left = {}
    /\ statusEqual(orig, NewStatus)
    /\ Requeue
    /\ Return
    /\ UNCHANGED <<apiVars, cache, pods, queued, envVars>>

(* The new status is written. *)
FinishWrite ==
    /\ pc = "update" /\ left = {}
    /\ ~statusEqual(orig, NewStatus)
    /\ updateAccepted(locStale)
    /\ WriteStatus(NewStatus)
    /\ Requeue
    /\ Return
    /\ UNCHANGED <<cache, pods, queued, envVars>>

(* The write is refused or fails: the error puts the run back. *)
FinishFails ==
    /\ pc = "update" /\ left = {}
    /\ ~statusEqual(orig, NewStatus)
    /\ \/ ~updateAccepted(locStale) /\ faults' = faults
       \/ Fail
    /\ queued' = TRUE
    /\ Return
    /\ UNCHANGED <<apiVars, cache, pods, timer, cancels, requests>>

(***************************************************************************)
(* The operator dies and another one takes over: what was in memory is     *)
(* gone, the informers list everything and the run is queued.              *)
(***************************************************************************)
Crash ==
    /\ Fail
    /\ Return
    /\ cache' = run /\ cacheStale' = FALSE
    /\ pods' = [id \in PodIds |-> [pods[id] EXCEPT !.seen = pods[id].made]]
    /\ queued' = TRUE /\ timer' = FALSE /\ cancels' = {}
    /\ UNCHANGED <<run, requests>>

-----------------------------------------------------------------------------
(* Watches and timers *)

DeliverRun ==
    /\ cacheStale
    /\ cache' = run /\ cacheStale' = FALSE /\ queued' = TRUE
    /\ UNCHANGED <<run, pods, timer, recVars, envVars>>

DeliverPod(id) ==
    /\ pods[id].there /\ ~pods[id].seen
    /\ pods' = [pods EXCEPT ![id].seen = TRUE]
    /\ queued' = TRUE
    /\ UNCHANGED <<apiVars, cache, timer, recVars, envVars>>

TimerFires ==
    /\ timer /\ timer' = FALSE /\ queued' = TRUE
    /\ UNCHANGED <<apiVars, cache, pods, recVars, envVars>>

(* An event of an owned ConfigMap or Secret, or the periodic resync. *)
OtherEvent ==
    /\ ~queued /\ queued' = TRUE
    /\ UNCHANGED <<apiVars, cache, pods, timer, recVars, envVars>>

-----------------------------------------------------------------------------
(* The cluster: pods run, end and disappear *)

(* A change of a pod; its event queues the run once the pod is cached. *)
PodChanges(id, pod) ==
    /\ pods' = [pods EXCEPT ![id] = pod]
    /\ queued' = (queued \/ pods[id].seen)
    /\ UNCHANGED <<apiVars, cache, timer, recVars, cancels, requests>>

PodMoves(id) ==
    /\ pods[id].there
    /\ \E next \in CASE pods[id].phase = "Pending" -> {"Running", "Failed"}
                     [] pods[id].phase = "Running" ->
                            {"Succeeded", "Failed"}
                     [] pods[id].phase = "Unknown" ->
                            {"Running", "Succeeded", "Failed"}
                     [] OTHER -> {} :
          PodChanges(id, [pods[id] EXCEPT !.phase = next])
    /\ UNCHANGED faults

(* The node is lost and the state of the pod with it. *)
PodLosesContact(id) ==
    /\ pods[id].there /\ pods[id].phase = "Running"
    /\ Fail
    /\ PodChanges(id, [pods[id] EXCEPT !.phase = "Unknown"])

(* A pod marked for deletion is removed; an eviction removes any pod. *)
PodRemoved(id) ==
    /\ pods[id].there
    /\ \/ pods[id].deleting /\ faults' = faults
       \/ Fail
    /\ PodChanges(id, [pods[id] EXCEPT !.there = FALSE])

(* The garbage collector deletes what the deleted run owned. *)
CollectPod(id) ==
    /\ ~run.live /\ pods[id].there /\ ~pods[id].deleting
    /\ PodChanges(id, [pods[id] EXCEPT !.deleting = TRUE])
    /\ UNCHANGED faults

-----------------------------------------------------------------------------
(* The REST handlers *)

(* Slip: a refused status update does not stop the request. *)
DeleteSingleJobAnyway(c) ==
    /\ requests > 0 /\ requests' = requests - 1
    /\ cache.live /\ Exists(cache.jobs[c])
    /\ cancels' = cancels \cup {cache.jobs[c].id}
    /\ UNCHANGED <<apiVars, cache, pods, queued, timer, recVars, faults>>

(***************************************************************************)
(* DELETE .../jobs/{jobID}: the run with this job is found in the cache    *)
(* and written back with CancelRequested set.  From a stale copy the       *)
(* update is refused and the request ends in an error without effect.      *)
(***************************************************************************)
DeleteSingleJob(c) ==
    LET new == [cache EXCEPT !.jobs[c].cancel = TRUE] IN
    /\ requests > 0 /\ requests' = requests - 1
    /\ cache.live /\ Exists(cache.jobs[c])
    /\ updateAccepted(cacheStale)
    /\ run' = new
    /\ cacheStale' = (new # run)
    /\ locStale' = (pc # "idle" /\ (locStale \/ new # run))
    /\ cancels' = cancels \cup {cache.jobs[c].id}
    /\ UNCHANGED <<cache, pods, queued, timer, pc, todo, left, loc, orig,
                   faults>>

(* ... then the pod with this job ID is looked up and deleted. *)
DeleteSingleJobPod(id) ==
    /\ id \in cancels /\ cancels' = cancels \ {id}
    /\ pods' = IF Visible(id) THEN [pods EXCEPT ![id].deleting = TRUE]
                              ELSE pods
    /\ UNCHANGED <<apiVars, cache, queued, timer, recVars, faults,
                   requests>>

(* DELETE .../run/{name}: the run is deleted, owned objects follow. *)
DeleteScenarioRunComplete ==
    /\ requests > 0 /\ requests' = requests - 1
    /\ cache.live /\ run.live
    /\ run' = NoRun
    /\ cacheStale' = TRUE /\ locStale' = (pc # "idle")
    /\ UNCHANGED <<cache, pods, queued, timer, pc, todo, left, loc, orig,
                   cancels, faults>>

-----------------------------------------------------------------------------
(* The specification *)

UpdateJob(c) ==
    \/ UpdateJobRecent(c) \/ UpdateJobPodNotFound(c) \/ UpdateJobGetFails(c)
    \/ UpdateJobFromPod(c) \/ UpdateJobBackoff(c) \/ UpdateJobRetry(c)
    \/ UpdateJobRetryFails(c) \/ UpdateJobGiveUp(c)

Reconcile ==
    \/ ReconcileNotFound \/ ReconcileInitialize \/ ReconcileInitializeFails
    \/ ReconcileFetch
    \/ \E t \in Targets : CreateClusterJob(t) \/ CreateClusterJobFails(t)
    \/ BeginStatusUpdate
    \/ \E c \in Clusters : UpdateJob(c)
    \/ FinishUnchanged \/ FinishWrite \/ FinishFails

Watch ==
    \/ DeliverRun
    \/ \E id \in PodIds : DeliverPod(id)
    \/ TimerFires \/ OtherEvent

Cluster == \E id \in PodIds : \/ PodMoves(id) \/ PodLosesContact(id)
                              \/ PodRemoved(id) \/ CollectPod(id)

Users == \/ \E c \in Clusters : DeleteSingleJob(c)
         \/ \E id \in PodIds : DeleteSingleJobPod(id)
         \/ DeleteScenarioRunComplete

Next == Reconcile \/ Crash \/ Watch \/ Cluster \/ Users

Spec == Init /\ [][Next]_vars

(***************************************************************************)
(* A queued run is reconciled, started reconciles go on, watch events      *)
(* arrive, timers fire and a pod under deletion goes away.  Users and      *)
(* scenarios owe nothing.                                                  *)
(***************************************************************************)
Fairness ==
    /\ WF_vars(Reconcile)
    /\ WF_vars(DeliverRun)
    /\ WF_vars(TimerFires)
    /\ \A id \in PodIds : /\ WF_vars(DeliverPod(id))
                          /\ WF_vars(DeleteSingleJobPod(id))
                          /\ WF_vars(pods[id].deleting /\ PodRemoved(id))

FairSpec == Spec /\ Fairness

-----------------------------------------------------------------------------
(* Properties *)

(* The entries published in status.clusterJobs follow the job life cycle:  *)
(* the reconciler and the cancel handler together implement JobBoard.      *)
Board == INSTANCE JobBoard
             WITH live <- run.live, board <- run.jobs,
                  Default <- DefaultMaxRetries
BoardSpec == Board!Spec

(* Once a cancellation is stored (DeleteSingleJob) the entry keeps the     *)
(* flag, its JobID and its retry count: no status update computed from an  *)
(* older copy takes the job back into the retry cycle.                     *)
CancelIsFinal ==
    [][\A c \in Clusters :
          run.live /\ run'.live /\ run.jobs[c].cancel =>
             /\ run'.jobs[c].cancel
             /\ run'.jobs[c].id = run.jobs[c].id
             /\ run'.jobs[c].retry = run.jobs[c].retry]_vars

(* A job reported Succeeded, Cancelled or MaxRetriesExceeded keeps that    *)
(* phase, its JobID and its CompletionTime, even when its pod is removed   *)
(* or the reconciler works on a stale copy.                                *)
ResultIsFinal ==
    [][\A c \in Clusters :
          run.live /\ run'.live /\ run.jobs[c].phase \in TerminalPhases =>
             \E flag \in BOOLEAN :
                run'.jobs[c] = [run.jobs[c] EXCEPT !.cancel = flag]]_vars

(* A run whose published phase is Succeeded has at least one job, and the  *)
(* pod of every job it lists really ended in success.                      *)
SuccessIsReal ==
    run.phase = "Succeeded" =>
        /\ \E c \in Clusters : Exists(run.jobs[c])
        /\ \A c \in Clusters : Exists(run.jobs[c]) =>
              pods[run.jobs[c].id].phase = "Succeeded"

(* The DELETE handler stores CancelRequested before it deletes the pod, so *)
(* a pod under deletion always belongs to the current attempt of a job     *)
(* marked cancelled: no live retry is ever killed by a late request.       *)
DeletionIsRecorded ==
    run.live =>
        \A id \in PodIds : id \in cancels \/ pods[id].deleting =>
            \E c \in Clusters : run.jobs[c].id = id /\ run.jobs[c].cancel

(* Once initialised, the published phase is the one calculateOverallStatus *)
(* gives for the published entries: cancel requests, refused updates and   *)
(* crashes never leave the two apart.                                      *)
PhaseAgrees ==
    run.phase # "" => run.phase = calculateOverallStatus(run.jobs)

(* When the pod of a job reported Pending or Running has ended, the status *)
(* is eventually brought up to date, through watch events alone.           *)
Overtaken(c, id) ==
    /\ run.live
    /\ run.jobs[c].id = id /\ run.jobs[c].phase \in {"Pending", "Running"}
    /\ pods[id].there /\ pods[id].phase \in {"Succeeded", "Failed"}
StatusCatchesUp ==
    \A c \in Clusters, id \in PodIds :
        Overtaken(c, id) ~> ~Overtaken(c, id)

-----------------------------------------------------------------------------
(* What comments and requirements say and the code does not do *)

(* A cluster never has two unfinished scenario pods of the same run: the   *)
(* controller creates one pod per cluster.                                 *)
OnePodPerCluster ==
    \A i, j \in PodIds :
        /\ pods[i].there /\ pods[i].phase \in {"Pending", "Running"}
        /\ pods[j].there /\ pods[j].phase \in {"Pending", "Running"}
        /\ pods[i].cluster = pods[j].cluster
        => i = j

(* A reconcile that skips the status update, because nothing has changed,  *)
(* holds no entry that the stored status lacks.                            *)
UnchangedMeansStored ==
    [][FinishUnchanged /\ ~locStale => loc.jobs = run.jobs]_vars

(* An attempt whose cancellation is stored is not retried with a new pod.  *)
CancelStopsRetries ==
    [][\A c \in Clusters :
          /\ run.live /\ run.jobs[c].cancel
          /\ run.jobs[c].id = loc.jobs[c].id
          => ~UpdateJobRetry(c)]_vars

(* Some event, timer or queue entry will make the run be reconciled.       *)
Scheduled ==
    \/ queued \/ timer \/ cacheStale \/ pc # "idle"
    \/ \E id \in PodIds : pods[id].there /\ ~pods[id].seen

(* While a failed job waits for its retry delay, a reconcile is scheduled. *)
BackoffIsScheduled ==
    \A c \in Clusters :
        /\ run.live /\ run.jobs[c].phase = "Failed" /\ run.jobs[c].msg = "pod"
        /\ run.jobs[c].retry < run.jobs[c].max /\ ~run.jobs[c].cancel
        => Scheduled

(* While a job is kept Pending without a pod, a reconcile is scheduled.    *)
WaitIsScheduled ==
    \A c \in Clusters :
        /\ run.live /\ run.jobs[c].phase = "Pending"
        /\ ~pods[run.jobs[c].id].there
        => Scheduled

(* The CompletionTime of a job that stays Failed does not move.            *)
CompletionTimeIsFinal ==
    [][\A c \in Clusters :
          /\ run.live /\ run'.live
          /\ run.jobs[c].phase = "Failed" /\ run'.jobs[c].phase = "Failed"
          /\ run.jobs[c].retry = run'.jobs[c].retry
          => run'.jobs[c].done = run.jobs[c].done]_vars

(* A run is reported Succeeded only when every target had its job.         *)
SuccessCoversTargets ==
    run.phase = "Succeeded" =>
        \A t \in Targets : \E c \in Clusters :
            Exists(run.jobs[c]) /\ run.jobs[c].target = t
-----------------------------------------------------------------------------
(* The inductive invariant behind the safety properties *)

(* An entry names a pod that was created, and a success names one that     *)
(* succeeded.                                                              *)
Grounded(job, ps) ==
    Exists(job) =>
        /\ job.id \in PodIds /\ ps[job.id].made
        /\ job.phase = "Succeeded" => ps[job.id].phase = "Succeeded"

EntriesGrounded ==
    \A c \in Clusters : /\ Grounded(run.jobs[c], pods)
                        /\ Grounded(cache.jobs[c], pods)
                        /\ Grounded(loc.jobs[c], pods)

(* An entry is NoJob or sound, and there is none before initialisation. *)
RunSound ==
    \A c \in Clusters :
        /\ Board!Sound(run.jobs[c])
        /\ (run.phase = "" \/ ~Exists(run.jobs[c])) => run.jobs[c] = NoJob

FreshCache == ~cacheStale => cache = run

(* The entry of a pod that was created after the last stored status. *)
Started(job) ==
    job.phase = "Pending" /\ job.retry = 0 /\ job.max = 0 /\ ~job.cancel

Copied(old, new) == new = old \/ (~Exists(old) /\ Started(new))

(* What a reconcile holds is what its last write may make of the entries.  *)
LocalCopy ==
    pc # "idle" =>
        /\ loc.live
        /\ ~locStale =>
              /\ run.live /\ run.phase # ""
              /\ \A c \in Clusters :
                    IF pc = "update" /\ c \notin left
                    THEN Board!EntryStep(run.jobs[c], loc.jobs[c])
                    ELSE Copied(run.jobs[c], loc.jobs[c])

StillToVisit ==
    /\ pc # "update" => left = {}
    /\ \A c \in left : Exists(loc.jobs[c]) /\ ~skipsJob(loc.jobs[c])

IInv ==
    /\ TypeOK /\ EntriesGrounded /\ RunSound /\ FreshCache /\ LocalCopy
    /\ StillToVisit /\ PhaseAgrees /\ DeletionIsRecorded
=============================================================================
