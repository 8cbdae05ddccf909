------------------------- MODULE ScenarioRunProofs -------------------------
(***************************************************************************)
(* Proofs about ScenarioRun, for every set of targets and clusters, every  *)
(* retry limit and every bound.                                            *)
(***************************************************************************)
EXTENDS ScenarioRun, TLAPS

USE TargetsAssumption, BoundsAssumption

-----------------------------------------------------------------------------
(* Types of the values the actions are built from *)

LEMMA NullTypes == /\ NoJob \in Job /\ NoRun \in Run /\ NoPod \in Pod
                   /\ NoJob.phase = "None" /\ ~Exists(NoJob)
<1>1. NoJob \in Job
  BY DEF NoJob, Job, JobPhases, NoId
<1>2. NoRun \in Run
  BY <1>1 DEF NoRun, Run, RunPhases
<1>3. NoPod \in Pod
  BY DEF NoPod, Pod, PodPhases
<1>. QED  BY <1>1, <1>2, <1>3 DEF NoJob, Exists

LEMMA FreshIdType ==
  ASSUME Unused # {}
  PROVE  FreshId \in PodIds /\ ~pods[FreshId].made
BY DEF FreshId, Unused

LEMMA NewPodType ==
  ASSUME NEW c \in Clusters
  PROVE  /\ NewPod(c) \in Pod
         /\ NewPod(c).made /\ NewPod(c).phase = "Pending"
         /\ NewPod(c).deleting = FALSE
BY NullTypes DEF NewPod, NoPod, Pod

LEMMA JobHelperTypes ==
  ASSUME NEW job \in Job
  PROVE  /\ setCompletionTime(job) \in Job
         /\ \A t \in Targets, id \in PodIds : executeScenarioPod(job, t, id) \in Job
         /\ \A new \in podNotFound(job) : new \in Job
         /\ \A p \in PodPhases \ {"Failed"} : observedJob(job, p) \in Job
         /\ failedJob(job) \in Job
         /\ retryingJob(job) \in Job
         /\ retryFailedJob(job) \in Job
         /\ givenUpJob(job) \in Job
<1>1. ASSUME NEW j \in Job PROVE setCompletionTime(j) \in Job
  BY DEF setCompletionTime, Job
<1>2. \A t \in Targets, id \in PodIds : executeScenarioPod(job, t, id) \in Job
  BY NullTypes DEF executeScenarioPod, Job, JobPhases, TerminalPhases
<1>3. \A new \in podNotFound(job) : new \in Job
  <2>1. \A d \in {1, 2} : [job EXCEPT !.phase = "Failed", !.msg = "notfound",
                                      !.done = d] \in Job
    BY DEF Job, JobPhases
  <2>. QED  BY <2>1 DEF podNotFound
<1>4. \A p \in PodPhases \ {"Failed"} : observedJob(job, p) \in Job
  <2>1. /\ [job EXCEPT !.phase = "Pending"] \in Job
        /\ [job EXCEPT !.phase = "Running"] \in Job
        /\ [job EXCEPT !.phase = "Succeeded"] \in Job
        /\ [job EXCEPT !.phase = "Failed", !.msg = "unknown"] \in Job
    BY DEF Job, JobPhases, TerminalPhases
  <2>. QED  BY <1>1, <2>1 DEF observedJob, PodPhases
<1>5. failedJob(job) \in Job
  <2>1. maxRetriesOf(job) \in Nat
    BY DEF maxRetriesOf, DefaultMaxRetries, Job
  <2>2. [job EXCEPT !.phase = "Failed", !.msg = "pod",
                    !.max = maxRetriesOf(job)] \in Job
    BY <2>1 DEF Job, JobPhases
  <2>. QED  BY <1>1, <2>2 DEF failedJob
<1>6. retryingJob(job) \in Job
  <2>1. job.retry \in Nat
    BY DEF Job
  <2>2. job.retry + 1 \in Nat
    BY <2>1
  <2>. QED  BY <2>2 DEF retryingJob, Job, JobPhases
<1>7. retryFailedJob(job) \in Job
  <2>1. [job EXCEPT !.phase = "Failed", !.msg = "retryfailed"] \in Job
    BY DEF Job, JobPhases
  <2>. QED  BY <1>1, <2>1 DEF retryFailedJob
<1>8. givenUpJob(job) \in Job
  BY DEF givenUpJob, Job, JobPhases, TerminalPhases
<1>. QED  BY <1>1, <1>2, <1>3, <1>4, <1>5, <1>6, <1>7, <1>8

LEMMA OverallType ==
  ASSUME NEW jobs
  PROVE  calculateOverallStatus(jobs) \in RunPhases \ {""}
BY DEF calculateOverallStatus, RunPhases

LEMMA RunUpdateType ==
  ASSUME NEW r \in Run, NEW c \in Clusters, NEW job \in Job
  PROVE  /\ [r EXCEPT !.jobs[c] = job] \in Run
         /\ [r EXCEPT !.jobs[c] = job].live = r.live
         /\ [r EXCEPT !.jobs[c] = job].phase = r.phase
         /\ [r EXCEPT !.jobs[c] = job].jobs = [r.jobs EXCEPT ![c] = job]
BY DEF Run

LEMMA PodUpdateType ==
  ASSUME pods \in [PodIds -> Pod], NEW id \in PodIds
  PROVE  /\ \A pod \in Pod : [pods EXCEPT ![id] = pod] \in [PodIds -> Pod]
         /\ \A p \in PodPhases : [pods[id] EXCEPT !.phase = p] \in Pod
         /\ [pods[id] EXCEPT !.there = FALSE] \in Pod
         /\ [pods[id] EXCEPT !.deleting = TRUE] \in Pod
         /\ [pods[id] EXCEPT !.seen = TRUE] \in Pod
         /\ [pods[id] EXCEPT !.seen = pods[id].made] \in Pod
BY DEF Pod

-----------------------------------------------------------------------------
(* Type correctness, action by action *)

LEMMA ReturnType == Return => /\ loc' \in Run /\ orig' \in Run
                              /\ locStale' \in BOOLEAN
                              /\ pc' \in {"idle", "create", "update"}
                              /\ todo' \in SUBSET Targets
                              /\ left' \in SUBSET Clusters
BY NullTypes DEF Return

LEMMA FailType == faults \in Nat /\ Fail => faults' \in Nat
BY DEF Fail

LEMMA CreationFailsType == faults \in Nat /\ CreationFails => faults' \in Nat
BY FailType DEF CreationFails

LEMMA TypeFetch ==
  ASSUME TypeOK,
         \/ ReconcileNotFound \/ ReconcileInitialize
         \/ ReconcileInitializeFails \/ ReconcileFetch
  PROVE  TypeOK'
<1>. USE DEF TypeOK, apiVars, recVars, envVars
<1>1. CASE ReconcileNotFound
  BY <1>1 DEF ReconcileNotFound
<1>2. CASE ReconcileInitialize
  <2>1. loc' \in Run
    BY <1>2, NullTypes DEF ReconcileInitialize, Run, RunPhases
  <2>. QED  BY <1>2, <2>1 DEF ReconcileInitialize
<1>3. CASE ReconcileInitializeFails
  BY <1>3, FailType DEF ReconcileInitializeFails
<1>4. CASE ReconcileFetch
  BY <1>4 DEF ReconcileFetch
<1>. QED  BY <1>1, <1>2, <1>3, <1>4

LEMMA TypeCreate ==
  ASSUME TypeOK, NEW t \in Targets,
         CreateClusterJob(t) \/ CreateClusterJobFails(t)
  PROVE  TypeOK'
<1>. USE DEF TypeOK, apiVars, recVars, envVars
<1>1. CASE CreateClusterJob(t)
  <2>. DEFINE c == NameOf[t]
  <2>1. c \in Clusters /\ Unused # {}
    BY <1>1 DEF CreateClusterJob
  <2>2. FreshId \in PodIds
    BY <2>1, FreshIdType
  <2>3. loc.jobs[c] \in Job
    BY <2>1 DEF Run
  <2>4. executeScenarioPod(loc.jobs[c], t, FreshId) \in Job
    BY <2>2, <2>3, JobHelperTypes
  <2>5. loc' = [loc EXCEPT !.jobs[c] =
                   executeScenarioPod(loc.jobs[c], t, FreshId)]
    BY <1>1 DEF CreateClusterJob
  <2>6. loc' \in Run
    BY <2>1, <2>4, <2>5, RunUpdateType
  <2>7. pods' \in [PodIds -> Pod]
    BY <1>1, <2>1, <2>2, NewPodType, PodUpdateType DEF CreateClusterJob
  <2>. QED  BY <1>1, <2>6, <2>7 DEF CreateClusterJob
<1>2. CASE CreateClusterJobFails(t)
  BY <1>2, CreationFailsType DEF CreateClusterJobFails
<1>. QED  BY <1>1, <1>2

LEMMA TypeBegin == TypeOK /\ BeginStatusUpdate => TypeOK'
BY DEF TypeOK, apiVars, envVars, BeginStatusUpdate

LEMMA TypeVisit ==
  ASSUME TypeOK, NEW c \in Clusters, NEW job \in Job, Visit(c, job),
         pods' \in [PodIds -> Pod], faults' \in Nat
  PROVE  TypeOK'
<1>1. loc' \in Run
  BY RunUpdateType DEF Visit, TypeOK
<1>. QED  BY <1>1 DEF Visit, TypeOK, apiVars

LEMMA TypeUpdate ==
  ASSUME TypeOK, EntriesGrounded, StillToVisit, NEW c \in Clusters,
         UpdateJob(c)
  PROVE  TypeOK'
<1>. DEFINE job == loc.jobs[c]
<1>1. job \in Job /\ loc \in Run /\ faults \in Nat /\ pods \in [PodIds -> Pod]
  BY DEF TypeOK, Run
<1>2. failedJob(job) \in Job /\ retryingJob(failedJob(job)) \in Job
  BY <1>1, JobHelperTypes
<1>3. CASE UpdateJobRecent(c)
  BY <1>1, <1>3, TypeVisit DEF UpdateJobRecent
<1>4. CASE UpdateJobPodNotFound(c)
  BY <1>1, <1>4, TypeVisit, JobHelperTypes DEF UpdateJobPodNotFound
<1>5. CASE UpdateJobGetFails(c)
  BY <1>1, <1>5, TypeVisit, FailType DEF UpdateJobGetFails
<1>6. CASE UpdateJobFromPod(c)
  <2>1. Visible(job.id) /\ pods[job.id].phase # "Failed"
        /\ Visit(c, observedJob(job, pods[job.id].phase))
        /\ pods' = pods /\ faults' = faults
    BY <1>6 DEF UpdateJobFromPod
  <2>2. job.id \in PodIds
    BY <1>6 DEF UpdateJobFromPod, StillToVisit, EntriesGrounded, Grounded
  <2>3. pods[job.id].phase \in PodPhases
    BY <1>1, <2>2 DEF Pod
  <2>4. observedJob(job, pods[job.id].phase) \in Job
    BY <1>1, <2>1, <2>3, JobHelperTypes
  <2>. QED  BY <1>1, <2>1, <2>4, TypeVisit
<1>7. CASE UpdateJobBackoff(c)
  BY <1>1, <1>2, <1>7, TypeVisit DEF UpdateJobBackoff
<1>8. CASE UpdateJobRetry(c)
  <2>1. FreshId \in PodIds
    BY <1>8, FreshIdType DEF UpdateJobRetry
  <2>2. executeScenarioPod(retryingJob(failedJob(job)), job.target, FreshId)
            \in Job
    BY <1>1, <1>2, <2>1, JobHelperTypes DEF Job
  <2>3. pods' \in [PodIds -> Pod]
    BY <1>1, <1>8, <2>1, NewPodType, PodUpdateType DEF UpdateJobRetry
  <2>. QED  BY <1>1, <1>8, <2>2, <2>3, TypeVisit DEF UpdateJobRetry
<1>9. CASE UpdateJobRetryFails(c)
  BY <1>1, <1>2, <1>9, JobHelperTypes, TypeVisit, CreationFailsType
     DEF UpdateJobRetryFails
<1>10. CASE UpdateJobGiveUp(c)
  BY <1>1, <1>2, <1>10, JobHelperTypes, TypeVisit DEF UpdateJobGiveUp
<1>. QED  BY <1>3, <1>4, <1>5, <1>6, <1>7, <1>8, <1>9, <1>10 DEF UpdateJob

LEMMA TypeFinish ==
  ASSUME TypeOK, FinishUnchanged \/ FinishWrite \/ FinishFails \/ Crash
  PROVE  TypeOK'
<1>. USE DEF TypeOK, apiVars, envVars
<1>1. NewStatus \in Run
  BY OverallType DEF NewStatus, Run
<1>2. CASE FinishUnchanged
  BY <1>2, ReturnType DEF FinishUnchanged, Requeue
<1>3. CASE FinishWrite
  <2>1. run' = NewStatus /\ cacheStale' \in BOOLEAN
    BY <1>3 DEF FinishWrite, WriteStatus
  <2>. QED  BY <1>1, <1>3, <2>1, ReturnType DEF FinishWrite, Requeue
<1>4. CASE FinishFails
  BY <1>4, ReturnType, FailType DEF FinishFails
<1>5. CASE Crash
  <2>1. pods' \in [PodIds -> Pod]
    BY <1>5, PodUpdateType DEF Crash
  <2>. QED  BY <1>5, <2>1, ReturnType, FailType DEF Crash
<1>. QED  BY <1>2, <1>3, <1>4, <1>5

LEMMA TypeWatch ==
  ASSUME TypeOK, Watch
  PROVE  TypeOK'
<1>. USE DEF TypeOK, apiVars, recVars, envVars
<1>1. CASE DeliverRun
  BY <1>1 DEF DeliverRun
<1>2. ASSUME NEW id \in PodIds, DeliverPod(id)
      PROVE  TypeOK'
  <2>1. pods' = [pods EXCEPT ![id] = [pods[id] EXCEPT !.seen = TRUE]]
    BY <1>2 DEF DeliverPod
  <2>2. pods' \in [PodIds -> Pod]
    BY <2>1, PodUpdateType
  <2>. QED  BY <1>2, <2>2 DEF DeliverPod
<1>3. CASE TimerFires
  BY <1>3 DEF TimerFires
<1>4. CASE OtherEvent
  BY <1>4 DEF OtherEvent
<1>. QED  BY <1>1, <1>2, <1>3, <1>4 DEF Watch

LEMMA TypePodChange ==
  ASSUME TypeOK, NEW id \in PodIds, NEW pod \in Pod, PodChanges(id, pod),
         faults' \in Nat
  PROVE  TypeOK'
<1>1. pods' \in [PodIds -> Pod]
  BY PodUpdateType DEF TypeOK, PodChanges
<1>. QED  BY <1>1 DEF TypeOK, PodChanges, apiVars, recVars

LEMMA TypeCluster ==
  ASSUME TypeOK, Cluster
  PROVE  TypeOK'
<1>. PICK id \in PodIds : \/ PodMoves(id) \/ PodLosesContact(id)
                         \/ PodRemoved(id) \/ CollectPod(id)
  BY DEF Cluster
<1>1. faults \in Nat /\ pods \in [PodIds -> Pod]
  BY DEF TypeOK
<1>2. CASE PodMoves(id)
  <2>1. PICK p \in PodPhases : PodChanges(id, [pods[id] EXCEPT !.phase = p])
    BY <1>2 DEF PodMoves, PodPhases
  <2>2. faults' \in Nat
    BY <1>1, <1>2 DEF PodMoves
  <2>. QED  BY <1>1, <2>1, <2>2, TypePodChange, PodUpdateType
<1>3. CASE PodLosesContact(id)
  BY <1>1, <1>3, FailType, TypePodChange, PodUpdateType
     DEF PodLosesContact, PodPhases
<1>4. CASE PodRemoved(id)
  BY <1>1, <1>4, FailType, TypePodChange, PodUpdateType DEF PodRemoved
<1>5. CASE CollectPod(id)
  BY <1>1, <1>5, TypePodChange, PodUpdateType DEF CollectPod
<1>. QED  BY <1>2, <1>3, <1>4, <1>5

LEMMA TypeUsers ==
  ASSUME TypeOK, EntriesGrounded, Users
  PROVE  TypeOK'
<1>. USE DEF TypeOK, apiVars, recVars
<1>1. ASSUME NEW c \in Clusters, DeleteSingleJob(c)
      PROVE  TypeOK'
  <2>. DEFINE job == cache.jobs[c]
  <2>1. job \in Job
    BY DEF Run
  <2>2. [job EXCEPT !.cancel = TRUE] \in Job
    BY <2>1 DEF Job
  <2>3. run' = [cache EXCEPT !.jobs[c] = [job EXCEPT !.cancel = TRUE]]
    BY <1>1 DEF DeleteSingleJob
  <2>4. run' \in Run
    BY <2>2, <2>3, RunUpdateType
  <2>5. job.id \in PodIds
    BY <1>1 DEF DeleteSingleJob, EntriesGrounded, Grounded
  <2>. QED  BY <1>1, <2>4, <2>5 DEF DeleteSingleJob
<1>2. ASSUME NEW id \in PodIds, DeleteSingleJobPod(id)
      PROVE  TypeOK'
  <2>1. \/ pods' = [pods EXCEPT ![id] = [pods[id] EXCEPT !.deleting = TRUE]]
        \/ pods' = pods
    BY <1>2 DEF DeleteSingleJobPod
  <2>2. pods' \in [PodIds -> Pod]
    BY <2>1, PodUpdateType
  <2>. QED  BY <1>2, <2>2 DEF DeleteSingleJobPod
<1>3. CASE DeleteScenarioRunComplete
  BY <1>3, NullTypes DEF DeleteScenarioRunComplete
<1>. QED  BY <1>1, <1>2, <1>3 DEF Users

(* Every step keeps the types, given that entries name created pods. *)
LEMMA TypeNext ==
  ASSUME TypeOK, EntriesGrounded, StillToVisit, [Next]_vars
  PROVE  TypeOK'
<1>1. CASE Reconcile
  BY <1>1, TypeFetch, TypeCreate, TypeBegin, TypeUpdate, TypeFinish
     DEF Reconcile
<1>2. CASE UNCHANGED vars
  BY <1>2 DEF TypeOK, vars
<1>. QED  BY <1>1, <1>2, TypeFinish, TypeWatch, TypeCluster, TypeUsers DEF Next

LEMMA TypeInit == Init => TypeOK
<1>1. [NoRun EXCEPT !.live = TRUE] \in Run
  BY NullTypes DEF Run
<1>. QED  BY <1>1, NullTypes DEF Init, TypeOK

-----------------------------------------------------------------------------
(* Entries name created pods, and successes pods that succeeded *)

(* A pod name stays taken, and a pod that succeeded stays so. *)
Keeps(ps, qs) ==
    \A id \in PodIds :
        ps[id].made => /\ qs[id].made
                       /\ ps[id].phase = "Succeeded" =>
                             qs[id].phase = "Succeeded"

LEMMA KeepsGrounded ==
  ASSUME NEW job, NEW ps, NEW qs, Keeps(ps, qs), Grounded(job, ps)
  PROVE  Grounded(job, qs)
BY DEF Keeps, Grounded

LEMMA NewPodKeeps ==
  ASSUME pods \in [PodIds -> Pod], NEW c \in Clusters, Unused # {},
         pods' = [pods EXCEPT ![FreshId] = NewPod(c)]
  PROVE  Keeps(pods, pods') /\ FreshId \in PodIds /\ pods'[FreshId].made
BY FreshIdType, NewPodType DEF Keeps

LEMMA PodChangeKeeps ==
  ASSUME pods \in [PodIds -> Pod], NEW id \in PodIds, NEW pod,
         PodChanges(id, pod), pod.made = pods[id].made,
         pods[id].phase = "Succeeded" => pod.phase = "Succeeded"
  PROVE  Keeps(pods, pods')
BY DEF PodChanges, Keeps

LEMMA PodsKept ==
  ASSUME TypeOK, [Next]_vars
  PROVE  Keeps(pods, pods')
<1>1. pods \in [PodIds -> Pod]
  BY DEF TypeOK
<1>2. ASSUME pods' = pods PROVE Keeps(pods, pods')
  BY <1>2 DEF Keeps
<1>3. ASSUME NEW t \in Targets, CreateClusterJob(t)
      PROVE  Keeps(pods, pods')
  BY <1>1, <1>3, NewPodKeeps DEF CreateClusterJob
<1>4. ASSUME NEW c \in Clusters, UpdateJob(c)
      PROVE  Keeps(pods, pods')
  <2>1. CASE UpdateJobRetry(c)
    BY <1>1, <2>1, NewPodKeeps DEF UpdateJobRetry
  <2>2. CASE ~UpdateJobRetry(c)
    BY <1>2, <1>4, <2>2
       DEF UpdateJob, UpdateJobRecent, UpdateJobPodNotFound, UpdateJobGetFails,
           UpdateJobFromPod, UpdateJobBackoff, UpdateJobRetryFails,
           UpdateJobGiveUp
  <2>. QED  BY <2>1, <2>2
<1>5. CASE Reconcile
  <2>1. CASE \/ ReconcileNotFound \/ ReconcileInitialize
             \/ ReconcileInitializeFails \/ ReconcileFetch
             \/ \E t \in Targets : CreateClusterJobFails(t)
             \/ BeginStatusUpdate
    BY <1>2, <2>1 DEF ReconcileNotFound, ReconcileInitialize,
       ReconcileInitializeFails, ReconcileFetch, CreateClusterJobFails,
       BeginStatusUpdate
  <2>2. CASE FinishUnchanged \/ FinishWrite \/ FinishFails
    BY <1>2, <2>2 DEF FinishUnchanged, FinishWrite, FinishFails
  <2>. QED  BY <1>3, <1>4, <1>5, <2>1, <2>2 DEF Reconcile
<1>6. CASE Crash
  BY <1>1, <1>6 DEF Crash, Keeps, Pod
<1>7. CASE Watch
  <2>1. ASSUME NEW id \in PodIds, DeliverPod(id)
        PROVE  Keeps(pods, pods')
    BY <1>1, <2>1 DEF DeliverPod, Keeps, Pod
  <2>. QED  BY <1>2, <1>7, <2>1 DEF Watch, DeliverRun, TimerFires, OtherEvent
<1>8. CASE Cluster
  <2>. PICK id \in PodIds : \/ PodMoves(id) \/ PodLosesContact(id)
                           \/ PodRemoved(id) \/ CollectPod(id)
    BY <1>8 DEF Cluster
  <2>1. pods[id] \in Pod
    BY <1>1
  <2>2. CASE PodMoves(id)
    <3>1. pods[id].phase # "Succeeded"
      BY <2>2 DEF PodMoves
    <3>2. PICK p : PodChanges(id, [pods[id] EXCEPT !.phase = p])
      BY <2>2 DEF PodMoves
    <3>. QED  BY <1>1, <2>1, <3>1, <3>2, PodChangeKeeps DEF Pod
  <2>3. CASE PodLosesContact(id)
    BY <1>1, <2>1, <2>3, PodChangeKeeps DEF PodLosesContact, Pod
  <2>4. CASE PodRemoved(id)
    BY <1>1, <2>1, <2>4, PodChangeKeeps DEF PodRemoved, Pod
  <2>5. CASE CollectPod(id)
    BY <1>1, <2>1, <2>5, PodChangeKeeps DEF CollectPod, Pod
  <2>. QED  BY <2>2, <2>3, <2>4, <2>5
<1>9. CASE Users
  <2>1. ASSUME NEW id \in PodIds, DeleteSingleJobPod(id)
        PROVE  Keeps(pods, pods')
    BY <1>1, <2>1 DEF DeleteSingleJobPod, Keeps, Pod
  <2>. QED  BY <1>2, <1>9, <2>1
            DEF Users, DeleteSingleJob, DeleteScenarioRunComplete
<1>10. CASE UNCHANGED vars
  BY <1>2, <1>10 DEF vars
<1>. QED  BY <1>5, <1>6, <1>7, <1>8, <1>9, <1>10 DEF Next

-----------------------------------------------------------------------------
(* The ways the stored run, its cached copy and the local copy change *)

CancelSet(r, c) ==
    [r EXCEPT !.jobs[c] = [r.jobs[c] EXCEPT !.cancel = TRUE]]

LEMMA CancelSetFacts ==
  ASSUME NEW r \in Run, NEW c \in Clusters
  PROVE  /\ CancelSet(r, c) \in Run
         /\ CancelSet(r, c).live = r.live /\ CancelSet(r, c).phase = r.phase
         /\ CancelSet(r, c).jobs[c] = [r.jobs[c] EXCEPT !.cancel = TRUE]
         /\ \A d \in Clusters : d # c => CancelSet(r, c).jobs[d] = r.jobs[d]
         /\ \A d \in Clusters : CancelSet(r, c).jobs[d].phase = r.jobs[d].phase
<1>1. r.jobs \in [Clusters -> Job] /\ r.jobs[c] \in Job
  BY DEF Run
<1>2. [r.jobs[c] EXCEPT !.cancel = TRUE] \in Job
  BY <1>1 DEF Job
<1>3. CancelSet(r, c).jobs = [r.jobs EXCEPT ![c] =
                                 [r.jobs[c] EXCEPT !.cancel = TRUE]]
  BY <1>2, RunUpdateType DEF CancelSet
<1>4. [r.jobs[c] EXCEPT !.cancel = TRUE].phase = r.jobs[c].phase
  BY <1>1 DEF Job
<1>5. /\ CancelSet(r, c) \in Run
      /\ CancelSet(r, c).live = r.live /\ CancelSet(r, c).phase = r.phase
  BY <1>2, RunUpdateType DEF CancelSet
<1>6. /\ CancelSet(r, c).jobs[c] = [r.jobs[c] EXCEPT !.cancel = TRUE]
      /\ \A d \in Clusters : d # c => CancelSet(r, c).jobs[d] = r.jobs[d]
  BY <1>1, <1>3
<1>7. \A d \in Clusters : CancelSet(r, c).jobs[d].phase = r.jobs[d].phase
  BY <1>4, <1>6
<1>. QED  BY <1>5, <1>6, <1>7

LEMMA CancelOthers ==
  ASSUME NEW r \in Run, NEW c \in Clusters, NEW d \in Clusters, d # c
  PROVE  CancelSet(r, c).jobs[d] = r.jobs[d]
BY CancelSetFacts

LEMMA CancelPhases ==
  ASSUME NEW r \in Run, NEW c \in Clusters, NEW d \in Clusters
  PROVE  CancelSet(r, c).jobs[d].phase = r.jobs[d].phase
<1>1. CASE d = c
  <2>1. CancelSet(r, c).jobs[c] = [r.jobs[c] EXCEPT !.cancel = TRUE]
        /\ r.jobs[c] \in Job
    BY CancelSetFacts DEF Run
  <2>. QED  BY <1>1, <2>1 DEF Job
<1>2. CASE d # c
  BY <1>2, CancelOthers
<1>. QED  BY <1>1, <1>2

(* The only steps that change the stored run. *)
LEMMA RunChanges ==
  ASSUME TypeOK, FreshCache, RunSound, [Next]_vars
  PROVE  \/ run' = run
         \/ /\ ReconcileInitialize /\ run.live /\ run.phase = ""
            /\ run' = [run EXCEPT !.phase = "Pending"]
         \/ FinishWrite /\ run' = NewStatus /\ ~locStale
         \/ \E c \in Clusters : /\ DeleteSingleJob(c) /\ run.live
                               /\ Exists(run.jobs[c])
                               /\ run' = CancelSet(run, c)
         \/ DeleteScenarioRunComplete /\ run.live /\ run' = NoRun
<1>. USE DEF apiVars, recVars, envVars
<1>1. CASE ReconcileInitialize
  <2>1. cache = run /\ run.live /\ run.phase = ""
    BY <1>1 DEF ReconcileInitialize, updateAccepted, FreshCache
  <2>2. run.jobs = [c \in Clusters |-> NoJob]
    BY <2>1 DEF RunSound, TypeOK, Run
  <2>3. run' = [run EXCEPT !.phase = "Pending", !.jobs = run.jobs]
    BY <1>1, <2>1, <2>2 DEF ReconcileInitialize
  <2>4. run' = [run EXCEPT !.phase = "Pending"]
    BY <2>3 DEF TypeOK, Run
  <2>. QED  BY <1>1, <2>1, <2>4
<1>2. CASE FinishWrite
  BY <1>2 DEF FinishWrite, WriteStatus, updateAccepted
<1>3. CASE DeleteScenarioRunComplete
  BY <1>3 DEF DeleteScenarioRunComplete
<1>4. ASSUME NEW c \in Clusters, DeleteSingleJob(c)
      PROVE  /\ run.live /\ Exists(run.jobs[c])
             /\ run' = CancelSet(run, c)
  BY <1>4 DEF DeleteSingleJob, updateAccepted, FreshCache, CancelSet
<1>5. CASE Reconcile /\ ~ReconcileInitialize /\ ~FinishWrite
  <2>1. ASSUME NEW t \in Targets,
               CreateClusterJob(t) \/ CreateClusterJobFails(t)
        PROVE  run' = run
    BY <2>1 DEF CreateClusterJob, CreateClusterJobFails
  <2>2. ASSUME NEW c \in Clusters, UpdateJob(c) PROVE run' = run
    BY <2>2 DEF UpdateJob, UpdateJobRecent, UpdateJobPodNotFound,
       UpdateJobGetFails, UpdateJobFromPod, UpdateJobBackoff, UpdateJobRetry,
       UpdateJobRetryFails, UpdateJobGiveUp, Visit
  <2>. QED  BY <1>5, <2>1, <2>2
            DEF Reconcile, ReconcileNotFound, ReconcileInitializeFails,
                ReconcileFetch, BeginStatusUpdate, FinishUnchanged, FinishFails
<1>6. CASE Crash
  BY <1>6 DEF Crash
<1>7. CASE Watch
  BY <1>7 DEF Watch, DeliverRun, DeliverPod, TimerFires, OtherEvent
<1>8. CASE Cluster
  BY <1>8 DEF Cluster, PodMoves, PodLosesContact, PodRemoved, CollectPod,
              PodChanges
<1>9. ASSUME NEW id \in PodIds, DeleteSingleJobPod(id) PROVE run' = run
  BY <1>9 DEF DeleteSingleJobPod
<1>10. CASE UNCHANGED vars
  BY <1>10 DEF vars
<1>. QED  BY <1>1, <1>2, <1>3, <1>4, <1>5, <1>6, <1>7, <1>8, <1>9, <1>10
          DEF Next, Users

(* The cached copy changes only to the stored run. *)
LEMMA CacheChanges ==
  ASSUME [Next]_vars
  PROVE  \/ cache' = cache
         \/ cache' = run /\ run' = run /\ cacheStale' = FALSE
<1>. USE DEF apiVars, recVars, envVars
<1>1. ASSUME NEW t \in Targets,
             CreateClusterJob(t) \/ CreateClusterJobFails(t)
      PROVE  cache' = cache
  BY <1>1 DEF CreateClusterJob, CreateClusterJobFails
<1>2. ASSUME NEW c \in Clusters, UpdateJob(c) PROVE cache' = cache
  BY <1>2 DEF UpdateJob, UpdateJobRecent, UpdateJobPodNotFound,
     UpdateJobGetFails, UpdateJobFromPod, UpdateJobBackoff, UpdateJobRetry,
     UpdateJobRetryFails, UpdateJobGiveUp, Visit
<1>3. CASE Reconcile
  BY <1>1, <1>2, <1>3
     DEF Reconcile, ReconcileNotFound, ReconcileInitialize,
         ReconcileInitializeFails, ReconcileFetch, BeginStatusUpdate,
         FinishUnchanged, FinishWrite, FinishFails
<1>4. CASE Crash \/ Watch
  BY <1>4 DEF Crash, Watch, DeliverRun, DeliverPod, TimerFires, OtherEvent
<1>5. CASE Cluster
  BY <1>5 DEF Cluster, PodMoves, PodLosesContact, PodRemoved, CollectPod,
              PodChanges
<1>6. CASE Users
  BY <1>6 DEF Users, DeleteSingleJob, DeleteSingleJobPod,
              DeleteScenarioRunComplete
<1>7. CASE UNCHANGED vars
  BY <1>7 DEF vars
<1>. QED  BY <1>3, <1>4, <1>5, <1>6, <1>7 DEF Next

-----------------------------------------------------------------------------
(* What the status loop makes of an entry is a step of the job life cycle *)

LEMMA LimitFacts ==
  ASSUME NEW job \in Job
  PROVE  /\ maxRetriesOf(job) = Board!Limit(job)
         /\ maxRetriesOf(job) \in Nat \ {0}
<1>1. job.max \in Nat
  BY DEF Job
<1>2. DefaultMaxRetries \in Nat \ {0}
  BY DEF DefaultMaxRetries
<1>. QED  BY <1>1, <1>2 DEF maxRetriesOf, Board!Limit

LEMMA FailedJobFacts ==
  ASSUME NEW job \in Job
  PROVE  LET new == failedJob(job) IN
         /\ new \in Job /\ new.phase = "Failed"
         /\ new.id = job.id /\ new.retry = job.retry
         /\ new.cancel = job.cancel /\ new.max = maxRetriesOf(job)
<1>1. maxRetriesOf(job) \in Nat
  BY LimitFacts
<1>. QED  BY <1>1, JobHelperTypes DEF failedJob, setCompletionTime, Job

(* The entry of an unfinished job goes on or is retried. *)
Moves(job, new) ==
    new = job \/ Board!Advances(job, new) \/ Board!Retries(job, new)

LEMMA AdvanceFacts ==
  ASSUME NEW job \in Job, NEW new \in Job, Exists(job),
         job.phase \notin TerminalPhases, Board!Sound(job),
         new.id = job.id, new.retry = job.retry, new.cancel = job.cancel,
         new.max \in {job.max, maxRetriesOf(job)},
         new.phase \in {"Pending", "Running", "Succeeded", "Failed"}
  PROVE  Board!Advances(job, new)
<1>1. Board!Limit(new) = Board!Limit(job)
  BY LimitFacts DEF Board!Limit
<1>2. Board!Sound(new)
  BY <1>1 DEF Board!Sound
<1>. QED  BY <1>1, <1>2 DEF Board!Advances, Board!Terminal, TerminalPhases, Exists

LEMMA RetryFacts ==
  ASSUME NEW job \in Job, NEW new \in Job, Exists(job),
         job.phase \notin TerminalPhases, ~job.cancel,
         job.retry < maxRetriesOf(job),
         new.retry = job.retry + 1, new.cancel = job.cancel,
         new.max = maxRetriesOf(job), new.phase \in {"Pending", "Failed"}
  PROVE  Board!Retries(job, new)
<1>1. Board!Limit(new) = Board!Limit(job)
  BY LimitFacts DEF Board!Limit
<1>2. job.retry \in Nat /\ Board!Limit(job) \in Nat
  BY LimitFacts DEF Job
<1>3. new.retry <= Board!Limit(new)
  BY <1>1, <1>2, LimitFacts
<1>4. Board!Sound(new)
  BY <1>3 DEF Board!Sound
<1>. QED  BY <1>1, <1>4 DEF Board!Retries, Board!Terminal, TerminalPhases, Exists

LEMMA GiveUpFacts ==
  ASSUME NEW job \in Job, Exists(job), job.phase \notin TerminalPhases,
         Board!Sound(job),
         ~shouldRetryJob(failedJob(job), failedJob(job).max)
  PROVE  Board!Advances(job, givenUpJob(failedJob(job)))
<1>. DEFINE f == failedJob(job)
            new == givenUpJob(f)
<1>1. /\ f \in Job /\ f.phase = "Failed" /\ f.id = job.id
      /\ f.retry = job.retry /\ f.cancel = job.cancel
      /\ f.max = maxRetriesOf(job)
  BY FailedJobFacts
<1>2. /\ new.id = job.id /\ new.retry = job.retry /\ new.cancel = job.cancel
      /\ new.max = f.max
      /\ new.phase = IF job.cancel THEN "Cancelled" ELSE "MaxRetriesExceeded"
  BY <1>1 DEF givenUpJob, Job
<1>3. Board!Limit(new) = Board!Limit(job)
  BY <1>1, <1>2, LimitFacts DEF Board!Limit
<1>4. job.retry \in Nat /\ Board!Limit(job) \in Nat \ {0}
      /\ f.max = Board!Limit(job)
  BY <1>1, LimitFacts DEF Job
<1>5. ~job.cancel => job.retry >= Board!Limit(job)
  BY <1>1, <1>4 DEF shouldRetryJob, TerminalPhases
<1>6. job.retry <= Board!Limit(job)
  BY DEF Board!Sound
<1>7. Board!Sound(new)
  BY <1>2, <1>3, <1>4, <1>5, <1>6 DEF Board!Sound
<1>. QED  BY <1>2, <1>3, <1>7
          DEF Board!Advances, Board!Terminal, TerminalPhases, Exists

(* The new entry of every turn of the status loop. *)
LEMMA UpdateJobMoves ==
  ASSUME TypeOK, EntriesGrounded, StillToVisit, NEW c \in Clusters,
         UpdateJob(c)
  PROVE  \E new \in Job :
            /\ Visit(c, new)
            /\ Keeps(pods, pods') => Grounded(new, pods')
            /\ Board!Sound(loc.jobs[c]) => Moves(loc.jobs[c], new)
<1>. DEFINE job == loc.jobs[c]
            f   == failedJob(job)
            Good(new) == /\ new \in Job /\ Visit(c, new)
                         /\ Keeps(pods, pods') => Grounded(new, pods')
                         /\ Board!Sound(job) => Moves(job, new)
<1>. SUFFICES \E new : Good(new)
  OBVIOUS
<1>1. job \in Job /\ pods \in [PodIds -> Pod]
  BY DEF TypeOK, Run
<1>2. c \in left
  BY DEF UpdateJob, UpdateJobRecent, UpdateJobPodNotFound, UpdateJobGetFails,
     UpdateJobFromPod, UpdateJobBackoff, UpdateJobRetry, UpdateJobRetryFails,
     UpdateJobGiveUp, PodFailed, RetryDue
<1>3. Exists(job) /\ job.phase \notin TerminalPhases
  BY <1>2 DEF StillToVisit, skipsJob
<1>4. Grounded(job, pods) /\ job.id \in PodIds /\ pods[job.id].made
  BY <1>3 DEF EntriesGrounded, Grounded
<1>5. ASSUME NEW new \in Job, new.id = job.id, new.phase # "Succeeded",
             Keeps(pods, pods')
      PROVE  Grounded(new, pods')
  BY <1>4, <1>5 DEF Keeps, Grounded
<1>6. /\ f \in Job /\ f.phase = "Failed" /\ f.id = job.id
      /\ f.retry = job.retry /\ f.cancel = job.cancel
      /\ f.max = maxRetriesOf(job)
  BY <1>1, FailedJobFacts
<1>7. ASSUME shouldRetryJob(f, f.max)
      PROVE  ~job.cancel /\ job.retry < maxRetriesOf(job)
  BY <1>1, <1>6, <1>7, LimitFacts DEF shouldRetryJob
<1>8. CASE UpdateJobRecent(c) \/ UpdateJobGetFails(c)
  <2>1. Visit(c, job)
    BY <1>8 DEF UpdateJobRecent, UpdateJobGetFails
  <2>2. Good(job)
    BY <1>1, <1>4, <2>1, KeepsGrounded DEF Moves
  <2>. QED  BY <2>2
<1>9. CASE UpdateJobPodNotFound(c)
  <2>1. PICK new \in podNotFound(job) : Visit(c, new)
    BY <1>9 DEF UpdateJobPodNotFound
  <2>2. \E d : new = [job EXCEPT !.phase = "Failed", !.msg = "notfound",
                                 !.done = d]
    BY <2>1 DEF podNotFound
  <2>3. /\ new.id = job.id /\ new.retry = job.retry
        /\ new.cancel = job.cancel /\ new.max = job.max
        /\ new.phase = "Failed"
    BY <1>1, <2>2 DEF Job
  <2>4. new \in Job
    BY <1>1, <2>1, JobHelperTypes
  <2>5. Good(new)
    BY <1>1, <1>3, <1>5, <2>1, <2>3, <2>4, AdvanceFacts DEF Moves
  <2>. QED  BY <2>5
<1>10. CASE UpdateJobFromPod(c)
  <2>. DEFINE p == pods[job.id].phase
              new == observedJob(job, p)
  <2>1. Visit(c, new) /\ p # "Failed" /\ pods' = pods
    BY <1>10 DEF UpdateJobFromPod
  <2>2. p \in PodPhases \ {"Failed"}
    BY <1>1, <1>4, <2>1 DEF Pod
  <2>3. new \in Job
    BY <1>1, <2>2, JobHelperTypes
  <2>4. /\ new.id = job.id /\ new.retry = job.retry
        /\ new.cancel = job.cancel /\ new.max = job.max
        /\ new.phase \in {"Pending", "Running", "Succeeded", "Failed"}
        /\ new.phase = "Succeeded" => p = "Succeeded"
    BY <1>1, <2>2 DEF observedJob, setCompletionTime, Job, PodPhases
  <2>5. Grounded(new, pods')
    BY <1>4, <2>1, <2>4 DEF Grounded
  <2>6. Good(new)
    BY <1>1, <1>3, <2>1, <2>3, <2>4, <2>5, AdvanceFacts DEF Moves
  <2>. QED  BY <2>6
<1>11. CASE UpdateJobBackoff(c)
  <2>1. Visit(c, f)
    BY <1>11 DEF UpdateJobBackoff
  <2>2. Good(f)
    BY <1>1, <1>3, <1>5, <1>6, <2>1, AdvanceFacts DEF Moves
  <2>. QED  BY <2>2
<1>12. CASE UpdateJobRetry(c)
  <2>. DEFINE r == retryingJob(f)
              new == executeScenarioPod(r, job.target, FreshId)
  <2>1. /\ shouldRetryJob(f, f.max) /\ Unused # {} /\ Visit(c, new)
        /\ pods' = [pods EXCEPT ![FreshId] = NewPod(c)]
    BY <1>12 DEF UpdateJobRetry, RetryDue
  <2>2. FreshId \in PodIds /\ pods'[FreshId].made
    BY <1>1, <2>1, NewPodKeeps
  <2>3. /\ r \in Job /\ r.phase = "Retrying" /\ r.retry = job.retry + 1
        /\ r.cancel = job.cancel /\ r.max = maxRetriesOf(job)
    BY <1>6, JobHelperTypes DEF retryingJob, Job
  <2>4. new \in Job
    BY <1>1, <2>2, <2>3, JobHelperTypes DEF Job
  <2>5. /\ new.id = FreshId /\ new.phase = "Pending" /\ new.retry = r.retry
        /\ new.cancel = r.cancel /\ new.max = r.max
    BY <2>3 DEF executeScenarioPod, Job
  <2>6. Grounded(new, pods')
    BY <2>2, <2>5 DEF Grounded
  <2>7. Board!Retries(job, new)
    BY <1>1, <1>3, <1>7, <2>1, <2>3, <2>4, <2>5, RetryFacts
  <2>8. Good(new)
    BY <2>1, <2>4, <2>6, <2>7 DEF Moves
  <2>. QED  BY <2>8
<1>13. CASE UpdateJobRetryFails(c)
  <2>. DEFINE r == retryingJob(f)
              new == retryFailedJob(r)
  <2>1. shouldRetryJob(f, f.max) /\ Visit(c, new)
    BY <1>13 DEF UpdateJobRetryFails, RetryDue
  <2>2. /\ r \in Job /\ r.retry = job.retry + 1 /\ r.id = job.id
        /\ r.cancel = job.cancel /\ r.max = maxRetriesOf(job)
    BY <1>6, JobHelperTypes DEF retryingJob, Job
  <2>3. /\ new \in Job /\ new.id = r.id /\ new.phase = "Failed"
        /\ new.retry = r.retry /\ new.cancel = r.cancel /\ new.max = r.max
    BY <2>2, JobHelperTypes DEF retryFailedJob, setCompletionTime, Job
  <2>4. Board!Retries(job, new)
    BY <1>1, <1>3, <1>7, <2>1, <2>2, <2>3, RetryFacts
  <2>5. Good(new)
    BY <1>5, <2>1, <2>2, <2>3, <2>4 DEF Moves
  <2>. QED  BY <2>5
<1>14. CASE UpdateJobGiveUp(c)
  <2>. DEFINE new == givenUpJob(f)
  <2>1. ~shouldRetryJob(f, f.max) /\ Visit(c, new)
    BY <1>14 DEF UpdateJobGiveUp
  <2>2. new \in Job /\ new.id = job.id /\ new.phase # "Succeeded"
    BY <1>6, JobHelperTypes DEF givenUpJob, Job
  <2>3. Good(new)
    BY <1>1, <1>3, <1>5, <2>1, <2>2, GiveUpFacts DEF Moves
  <2>. QED  BY <2>3
<1>. QED  BY <1>8, <1>9, <1>10, <1>11, <1>12, <1>13, <1>14 DEF UpdateJob

-----------------------------------------------------------------------------
(* The parts of the inductive invariant, one after the other *)

(* The steps that change what the reconciler holds. *)
LEMMA LocalChanges ==
  ASSUME [Next]_vars
  PROVE  \/ UNCHANGED <<pc, left, loc, locStale>>
         \/ pc' = "idle" /\ left' = {} /\ loc' = NoRun
         \/ ReconcileInitialize \/ ReconcileFetch
         \/ \E t \in Targets : CreateClusterJob(t)
         \/ BeginStatusUpdate
         \/ \E c \in Clusters : UpdateJob(c)
         \/ \E c \in Clusters : DeleteSingleJob(c)
         \/ DeleteScenarioRunComplete
<1>. USE DEF recVars
<1>1. CASE Reconcile
  BY <1>1 DEF Reconcile, ReconcileNotFound, ReconcileInitializeFails,
     CreateClusterJobFails, FinishUnchanged, FinishWrite, FinishFails, Return
<1>2. CASE Crash \/ Watch
  BY <1>2 DEF Crash, Return, Watch, DeliverRun, DeliverPod, TimerFires,
              OtherEvent
<1>3. CASE Cluster
  BY <1>3 DEF Cluster, PodMoves, PodLosesContact, PodRemoved, CollectPod,
              PodChanges
<1>4. CASE Users
  BY <1>4 DEF Users, DeleteSingleJobPod
<1>5. CASE UNCHANGED vars
  BY <1>5 DEF vars
<1>. QED  BY <1>1, <1>2, <1>3, <1>4, <1>5 DEF Next

LEMMA NoRunFacts ==
  ASSUME NEW c \in Clusters, NEW ps
  PROVE  /\ NoRun.jobs[c] = NoJob /\ Grounded(NoJob, ps)
         /\ NoRun.live = FALSE /\ NoRun.phase = ""
BY NullTypes DEF NoRun, Grounded

LEMMA VisitFacts ==
  ASSUME TypeOK, NEW c \in Clusters, NEW new \in Job, Visit(c, new)
  PROVE  /\ loc'.jobs[c] = new
         /\ \A d \in Clusters \ {c} : loc'.jobs[d] = loc.jobs[d]
         /\ loc'.live = loc.live /\ left' = left \ {c}
         /\ UNCHANGED <<run, pc, locStale>>
<1>1. loc.jobs \in [Clusters -> Job]
  BY DEF TypeOK, Run
<1>2. loc'.jobs = [loc.jobs EXCEPT ![c] = new] /\ loc'.live = loc.live
  BY RunUpdateType DEF TypeOK, Visit
<1>. QED  BY <1>1, <1>2 DEF Visit, apiVars

(* The entry the creation loop makes. *)
LEMMA CreateFacts ==
  ASSUME TypeOK, NEW t \in Targets, CreateClusterJob(t)
  PROVE  LET c == NameOf[t] IN
         /\ c \in Clusters /\ FreshId \in PodIds /\ pods'[FreshId].made
         /\ ~jobExistsForCluster(loc, c)
         /\ loc'.jobs[c] = executeScenarioPod(loc.jobs[c], t, FreshId)
         /\ loc'.jobs[c].id = FreshId /\ loc'.jobs[c].phase = "Pending"
         /\ loc.jobs[c].phase # "Retrying" => Started(loc'.jobs[c])
         /\ \A d \in Clusters \ {c} : loc'.jobs[d] = loc.jobs[d]
         /\ loc'.live = loc.live
<1>. DEFINE c == NameOf[t]
            new == executeScenarioPod(loc.jobs[c], t, FreshId)
<1>1. c \in Clusters /\ Unused # {} /\ loc \in Run /\ loc.jobs[c] \in Job
      /\ ~jobExistsForCluster(loc, c)
      /\ loc.jobs \in [Clusters -> Job] /\ pods \in [PodIds -> Pod]
      /\ pods' = [pods EXCEPT ![FreshId] = NewPod(c)]
      /\ loc' = [loc EXCEPT !.jobs[c] = new]
  BY DEF CreateClusterJob, TypeOK, Run
<1>2. FreshId \in PodIds /\ pods'[FreshId].made
  BY <1>1, NewPodKeeps
<1>3. new \in Job
  BY <1>1, <1>2, JobHelperTypes
<1>4. loc'.jobs = [loc.jobs EXCEPT ![c] = new] /\ loc'.live = loc.live
  BY <1>1, <1>3, RunUpdateType
<1>5. loc'.jobs[c] = new
  BY <1>1, <1>4
<1>6. \A d \in Clusters \ {c} : loc'.jobs[d] = loc.jobs[d]
  BY <1>1, <1>4
<1>7. /\ new.id = FreshId /\ new.phase = "Pending"
      /\ loc.jobs[c].phase # "Retrying" => Started(new)
  BY <1>1, <1>2 DEF executeScenarioPod, Started, NoJob, Job
<1>. QED  BY <1>1, <1>2, <1>4, <1>5, <1>6, <1>7

LEMMA GroundedNext ==
  ASSUME IInv, [Next]_vars
  PROVE  EntriesGrounded'
<1>. USE DEF IInv
<1>1. Keeps(pods, pods')
  BY PodsKept
<1>2. ASSUME NEW d \in Clusters
      PROVE  /\ Grounded(run.jobs[d], pods') /\ Grounded(cache.jobs[d], pods')
             /\ Grounded(loc.jobs[d], pods')
  BY <1>1, KeepsGrounded DEF EntriesGrounded
<1>3. ASSUME NEW d \in Clusters PROVE Grounded(run'.jobs[d], pods')
  <2>1. CASE run' = run
    BY <1>2, <2>1
  <2>2. CASE run' = [run EXCEPT !.phase = "Pending"]
    BY <1>2, <2>2 DEF TypeOK, Run
  <2>3. CASE run' = NewStatus
    <3>1. run'.jobs = loc.jobs
      BY <2>3 DEF NewStatus, TypeOK, Run
    <3>. QED  BY <1>2, <3>1
  <2>4. ASSUME NEW c \in Clusters, run' = CancelSet(run, c)
        PROVE  Grounded(run'.jobs[d], pods')
    <3>1. run \in Run /\ run.jobs[d] \in Job
      BY DEF TypeOK, Run
    <3>2. \/ run'.jobs[d] = run.jobs[d]
          \/ run'.jobs[d] = [run.jobs[d] EXCEPT !.cancel = TRUE]
      <4>1. CASE d = c
        BY <2>4, <3>1, <4>1, CancelSetFacts
      <4>2. CASE d # c
        BY <2>4, <3>1, <4>2, CancelOthers
      <4>. QED  BY <4>1, <4>2
    <3>3. run'.jobs[d].phase = run.jobs[d].phase
          /\ run'.jobs[d].id = run.jobs[d].id
      BY <3>1, <3>2 DEF Job
    <3>. QED  BY <1>2, <3>3 DEF Grounded, Exists
  <2>5. CASE run' = NoRun
    BY <2>5, NoRunFacts
  <2>. QED  BY <2>1, <2>2, <2>3, <2>4, <2>5, RunChanges
<1>4. ASSUME NEW d \in Clusters PROVE Grounded(cache'.jobs[d], pods')
  BY <1>2, CacheChanges
<1>5. ASSUME NEW d \in Clusters PROVE Grounded(loc'.jobs[d], pods')
  <2>1. CASE loc' = loc
    BY <1>2, <2>1
  <2>2. CASE loc' = NoRun
    BY <2>2, NoRunFacts
  <2>3. CASE ReconcileInitialize
    BY <2>3, NoRunFacts DEF ReconcileInitialize, TypeOK, Run
  <2>4. CASE ReconcileFetch
    BY <1>2, <2>4 DEF ReconcileFetch
  <2>5. ASSUME NEW t \in Targets, CreateClusterJob(t)
        PROVE  Grounded(loc'.jobs[d], pods')
    <3>1. CASE d = NameOf[t]
      BY <2>5, <3>1, CreateFacts DEF Grounded
    <3>2. CASE d # NameOf[t]
      BY <1>2, <2>5, <3>2, CreateFacts
    <3>. QED  BY <3>1, <3>2
  <2>6. ASSUME NEW c \in Clusters, UpdateJob(c)
        PROVE  Grounded(loc'.jobs[d], pods')
    <3>1. PICK new \in Job : Visit(c, new) /\ Grounded(new, pods')
      BY <1>1, <2>6, UpdateJobMoves
    <3>. QED  BY <1>2, <3>1, VisitFacts
  <2>. QED  BY <2>1, <2>2, <2>3, <2>4, <2>5, <2>6, LocalChanges
            DEF BeginStatusUpdate, DeleteSingleJob, DeleteScenarioRunComplete
<1>. QED  BY <1>3, <1>4, <1>5 DEF EntriesGrounded

(* What the reconciler holds after a turn of the status loop may be        *)
(* written.                                                                *)
LEMMA StartedSound ==
  ASSUME NEW job \in Job, Started(job)
  PROVE  Board!Sound(job)
<1>1. Board!Limit(job) \in Nat
  BY LimitFacts
<1>. QED  BY <1>1 DEF Started, Board!Sound

LEMMA MovesStep ==
  ASSUME NEW old \in Job, NEW job \in Job, NEW new \in Job,
         Board!Sound(old), Copied(old, job),
         Board!Sound(job) => Moves(job, new)
  PROVE  Board!EntryStep(old, new)
<1>1. CASE job = old
  BY <1>1 DEF Moves, Board!EntryStep
<1>2. CASE ~Exists(old) /\ Started(job)
  <2>1. Board!Sound(job) /\ Moves(job, new)
    BY <1>2, StartedSound
  <2>2. /\ Board!Sound(new) /\ new.phase # "None" /\ ~new.cancel
        /\ new.retry <= 1
    BY <1>2, <2>1 DEF Moves, Started, Board!Advances, Board!Retries
  <2>. QED  BY <1>2, <2>2 DEF Exists, Board!EntryStep, Board!Appears
<1>. QED  BY <1>1, <1>2 DEF Copied

(* Every step of the published entries is one of the job life cycle. *)
LEMMA PublishedSteps ==
  ASSUME IInv, [Next]_vars
  PROVE  \/ /\ run.live = run'.live
            /\ \A d \in Clusters : run'.jobs[d] = run.jobs[d]
            /\ run' = run \/ run'.phase # ""
         \/ /\ run.live /\ run'.live /\ run'.phase # ""
            /\ \A d \in Clusters :
                  Board!EntryStep(run.jobs[d], run'.jobs[d])
         \/ run.live /\ run' = NoRun
<1>. USE DEF IInv
<1>1. run \in Run /\ loc \in Run
  BY DEF TypeOK
<1>2. CASE run.live /\ run' = [run EXCEPT !.phase = "Pending"]
  BY <1>1, <1>2 DEF Run
<1>3. CASE FinishWrite /\ run' = NewStatus /\ ~locStale
  <2>1. /\ pc = "update" /\ left = {} /\ loc.live /\ run.live
        /\ \A d \in Clusters : Board!EntryStep(run.jobs[d], loc.jobs[d])
    BY <1>3 DEF FinishWrite, LocalCopy
  <2>2. run'.jobs = loc.jobs /\ run'.live = loc.live
    BY <1>1, <1>3 DEF NewStatus, Run
  <2>3. run'.phase # ""
    BY <1>1, <1>3, OverallType DEF NewStatus, Run
  <2>. QED  BY <2>1, <2>2, <2>3
<1>4. ASSUME NEW c \in Clusters, run.live, Exists(run.jobs[c]),
             run' = CancelSet(run, c)
      PROVE  /\ run'.live /\ run'.phase # ""
             /\ \A d \in Clusters :
                   Board!EntryStep(run.jobs[d], run'.jobs[d])
  <2>1. run'.live = run.live /\ run'.phase = run.phase
    BY <1>1, <1>4, CancelSetFacts
  <2>2. run.phase # ""
    BY <1>4, NullTypes DEF RunSound
  <2>3. Board!EntryStep(run.jobs[c], run'.jobs[c])
    <3>1. run'.jobs[c] = [run.jobs[c] EXCEPT !.cancel = TRUE]
      BY <1>1, <1>4, CancelSetFacts
    <3>. QED  BY <1>4, <3>1 DEF Exists, Board!EntryStep, Board!Cancelled
  <2>4. ASSUME NEW d \in Clusters, d # c
        PROVE  Board!EntryStep(run.jobs[d], run'.jobs[d])
    <3>1. run'.jobs[d] = run.jobs[d]
      BY <1>1, <1>4, <2>4, CancelOthers
    <3>. QED  BY <3>1 DEF Board!EntryStep
  <2>. QED  BY <1>4, <2>1, <2>2, <2>3, <2>4
<1>. QED  BY <1>2, <1>3, <1>4, RunChanges

LEMMA StepSound ==
  ASSUME NEW old \in Job, NEW new, Board!Sound(old), Board!EntryStep(old, new),
         ~Exists(old) => old = NoJob
  PROVE  /\ Board!Sound(new)
         /\ ~Exists(new) => new = NoJob
<1>1. CASE new = old
  BY <1>1
<1>2. CASE Board!Appears(old, new)
  BY <1>2 DEF Board!Appears, Exists
<1>3. CASE Board!Advances(old, new) \/ Board!Retries(old, new)
  BY <1>3 DEF Board!Advances, Board!Retries, Exists
<1>4. CASE Board!Cancelled(old, new)
  BY <1>4 DEF Board!Cancelled, Board!Sound, Board!Limit, Exists, Job
<1>. QED  BY <1>1, <1>2, <1>3, <1>4 DEF Board!EntryStep

LEMMA RunSoundNext ==
  ASSUME IInv, [Next]_vars
  PROVE  RunSound'
<1>. USE DEF IInv
<1>1. ASSUME NEW d \in Clusters
      PROVE  /\ run.jobs[d] \in Job /\ Board!Sound(run.jobs[d])
             /\ (run.phase = "" \/ ~Exists(run.jobs[d])) => run.jobs[d] = NoJob
  BY DEF TypeOK, Run, RunSound
<1>2. SUFFICES ASSUME NEW d \in Clusters
               PROVE  /\ Board!Sound(run'.jobs[d])
                      /\ (run'.phase = "" \/ ~Exists(run'.jobs[d])) =>
                            run'.jobs[d] = NoJob
  BY DEF RunSound, Board!Sound, Board!Limit
<1>3. CASE run'.jobs[d] = run.jobs[d] /\ (run' = run \/ run'.phase # "")
  BY <1>1, <1>3
<1>4. CASE run'.phase # "" /\ Board!EntryStep(run.jobs[d], run'.jobs[d])
  BY <1>1, <1>4, StepSound
<1>5. CASE run' = NoRun
  <2>1. Board!Sound(NoJob)
    BY DEF NoJob, Board!Sound, Board!Limit, DefaultMaxRetries
  <2>. QED  BY <1>5, <2>1, NoRunFacts
<1>. QED  BY <1>3, <1>4, <1>5, PublishedSteps

LEMMA FreshCacheNext ==
  ASSUME IInv, [Next]_vars
  PROVE  FreshCache'
<1>. USE DEF IInv, FreshCache
<1>1. CASE cache' = run /\ run' = run
  BY <1>1
<1>2. CASE cache' = cache /\ run' = run /\ cacheStale' = cacheStale
  BY <1>2
<1>3. CASE ReconcileInitialize \/ DeleteScenarioRunComplete
  BY <1>3 DEF ReconcileInitialize, DeleteScenarioRunComplete
<1>4. CASE FinishWrite
  BY <1>4 DEF FinishWrite, WriteStatus
<1>5. ASSUME NEW c \in Clusters, DeleteSingleJob(c) PROVE FreshCache'
  BY <1>5 DEF DeleteSingleJob, updateAccepted
<1>6. ASSUME ~ReconcileInitialize, ~DeleteScenarioRunComplete, ~FinishWrite,
             \A c \in Clusters : ~DeleteSingleJob(c)
      PROVE  \/ cacheStale' = cacheStale
             \/ cacheStale' = FALSE /\ cache' = run
  <2>. USE DEF apiVars
  <2>1. ASSUME NEW t \in Targets,
               CreateClusterJob(t) \/ CreateClusterJobFails(t)
        PROVE  cacheStale' = cacheStale
    BY <2>1 DEF CreateClusterJob, CreateClusterJobFails
  <2>2. ASSUME NEW c \in Clusters, UpdateJob(c)
        PROVE  cacheStale' = cacheStale
    BY <2>2 DEF UpdateJob, UpdateJobRecent, UpdateJobPodNotFound,
       UpdateJobGetFails, UpdateJobFromPod, UpdateJobBackoff, UpdateJobRetry,
       UpdateJobRetryFails, UpdateJobGiveUp, Visit
  <2>3. CASE Reconcile
    BY <1>6, <2>1, <2>2, <2>3
       DEF Reconcile, ReconcileNotFound, ReconcileInitializeFails,
           ReconcileFetch, BeginStatusUpdate, FinishUnchanged, FinishFails
  <2>4. CASE Crash \/ Watch
    BY <2>4 DEF Crash, Watch, DeliverRun, DeliverPod, TimerFires, OtherEvent
  <2>5. CASE Cluster
    BY <2>5 DEF Cluster, PodMoves, PodLosesContact, PodRemoved, CollectPod,
                PodChanges
  <2>6. CASE Users
    BY <1>6, <2>6 DEF Users, DeleteSingleJobPod
  <2>7. CASE UNCHANGED vars
    BY <2>7 DEF vars
  <2>. QED  BY <2>3, <2>4, <2>5, <2>6, <2>7 DEF Next
<1>. QED  BY <1>1, <1>2, <1>3, <1>4, <1>5, <1>6, RunChanges, CacheChanges

LEMMA StillToVisitNext ==
  ASSUME IInv, [Next]_vars
  PROVE  StillToVisit'
<1>. USE DEF IInv, StillToVisit
<1>1. CASE UNCHANGED <<pc, left, loc>>
  BY <1>1 DEF Exists, skipsJob
<1>2. CASE left' = {}
  BY <1>2
<1>3. CASE ReconcileInitialize \/ ReconcileFetch
  BY <1>3 DEF ReconcileInitialize, ReconcileFetch
<1>4. ASSUME NEW t \in Targets, CreateClusterJob(t) PROVE StillToVisit'
  BY <1>4 DEF CreateClusterJob
<1>5. CASE BeginStatusUpdate
  BY <1>5 DEF BeginStatusUpdate, Exists, skipsJob
<1>6. ASSUME NEW c \in Clusters, UpdateJob(c) PROVE StillToVisit'
  <2>1. PICK new \in Job : Visit(c, new)
    BY <1>6, UpdateJobMoves
  <2>2. /\ left' = left \ {c} /\ pc' = pc
        /\ \A d \in Clusters \ {c} : loc'.jobs[d] = loc.jobs[d]
    BY <2>1, VisitFacts
  <2>3. \A d \in left' : loc'.jobs[d] = loc.jobs[d] /\ d \in left
    BY <2>2 DEF TypeOK
  <2>4. \A d \in left' : Exists(loc'.jobs[d]) /\ ~skipsJob(loc'.jobs[d])
    BY <2>3
  <2>5. pc' # "update" => left' = {}
    BY <2>2
  <2>. QED  BY <2>4, <2>5 DEF Exists, skipsJob
<1>. QED  BY <1>1, <1>2, <1>3, <1>4, <1>5, <1>6, LocalChanges
          DEF DeleteSingleJob, DeleteScenarioRunComplete

(* The entry d of a local copy, against the stored one. *)
LocalEntry(p, l, d, old, new) ==
    IF p = "update" /\ d \notin l THEN Board!EntryStep(old, new)
                                 ELSE Copied(old, new)

LEMMA LocalCopyNext ==
  ASSUME IInv, [Next]_vars
  PROVE  LocalCopy'
<1>. USE DEF IInv
<1>1. SUFFICES ASSUME pc' # "idle"
               PROVE  /\ loc'.live
                      /\ ~locStale' =>
                            /\ run'.live /\ run'.phase # ""
                            /\ \A d \in Clusters :
                                  LocalEntry(pc', left', d, run'.jobs[d],
                                             loc'.jobs[d])
  BY DEF LocalCopy, LocalEntry, Copied, Started, Exists, Board!EntryStep,
         Board!Appears, Board!Advances, Board!Retries, Board!Cancelled,
         Board!Sound, Board!Limit, Board!Terminal
<1>2. ASSUME pc # "idle"
      PROVE  /\ loc.live
             /\ ~locStale =>
                   /\ run.live /\ run.phase # ""
                   /\ \A d \in Clusters :
                         LocalEntry(pc, left, d, run.jobs[d], loc.jobs[d])
  BY <1>2 DEF LocalCopy, LocalEntry
<1>3. ASSUME NEW d \in Clusters
      PROVE  run.jobs[d] \in Job /\ loc.jobs[d] \in Job
             /\ Board!Sound(run.jobs[d])
  BY DEF TypeOK, Run, RunSound
<1>4. CASE UNCHANGED <<pc, left, loc, locStale>> /\ run' = run
  BY <1>1, <1>2, <1>4
<1>5. CASE ReconcileInitialize
  <2>1. loc' = run' /\ pc' = "create" /\ ~locStale' /\ cache.live
        /\ loc' = [cache EXCEPT !.phase = "Pending",
                                !.jobs = [c \in Clusters |-> NoJob]]
    BY <1>5 DEF ReconcileInitialize
  <2>2. loc'.live = cache.live /\ loc'.phase = "Pending"
    BY <2>1 DEF TypeOK, Run
  <2>. QED  BY <2>1, <2>2 DEF LocalEntry, Copied
<1>6. CASE ReconcileFetch
  <2>1. /\ loc' = cache /\ locStale' = cacheStale /\ run' = run
        /\ pc' = "create" /\ cache.live /\ cache.phase # ""
    BY <1>6 DEF ReconcileFetch
  <2>2. ~locStale' => loc' = run'
    BY <2>1 DEF FreshCache
  <2>. QED  BY <2>1, <2>2 DEF LocalEntry, Copied
<1>7. ASSUME NEW t \in Targets, CreateClusterJob(t)
      PROVE  /\ loc'.live
             /\ ~locStale' =>
                   /\ run'.live /\ run'.phase # ""
                   /\ \A d \in Clusters :
                         LocalEntry(pc', left', d, run'.jobs[d], loc'.jobs[d])
  <2>. DEFINE c == NameOf[t]
  <2>1. run' = run /\ locStale' = locStale /\ pc = "create" /\ pc' = pc
    BY <1>7 DEF CreateClusterJob, apiVars
  <2>2. /\ c \in Clusters /\ ~jobExistsForCluster(loc, c)
        /\ loc.jobs[c].phase # "Retrying" => Started(loc'.jobs[c])
        /\ \A d \in Clusters \ {c} : loc'.jobs[d] = loc.jobs[d]
        /\ loc'.live = loc.live
    BY <1>7, CreateFacts
  <2>3. ASSUME NEW d \in Clusters, ~locStale
        PROVE  Copied(run.jobs[d], loc.jobs[d])
    BY <1>2, <2>1, <2>3 DEF LocalEntry
  <2>4. ASSUME ~locStale PROVE Copied(run.jobs[c], loc'.jobs[c])
    <3>1. Copied(run.jobs[c], loc.jobs[c])
      BY <2>2, <2>3, <2>4
    <3>2. ~Exists(run.jobs[c]) /\ loc.jobs[c].phase # "Retrying"
      BY <1>3, <2>2, <3>1
         DEF Copied, Started, jobExistsForCluster, Exists, Board!Sound
    <3>. QED  BY <2>2, <3>2 DEF Copied
  <2>5. ASSUME NEW d \in Clusters, ~locStale
        PROVE  Copied(run.jobs[d], loc'.jobs[d])
    BY <2>2, <2>3, <2>4, <2>5
  <2>. QED  BY <1>2, <2>1, <2>2, <2>5 DEF LocalEntry
<1>8. CASE BeginStatusUpdate
  <2>1. run' = run /\ locStale' = locStale /\ pc = "create" /\ loc' = loc
    BY <1>8 DEF BeginStatusUpdate, apiVars
  <2>2. ASSUME NEW d \in Clusters, ~locStale
        PROVE  /\ Copied(run.jobs[d], loc.jobs[d])
               /\ Board!EntryStep(run.jobs[d], loc.jobs[d])
    <3>1. Copied(run.jobs[d], loc.jobs[d])
      BY <1>2, <2>1, <2>2 DEF LocalEntry
    <3>2. Moves(loc.jobs[d], loc.jobs[d])
      BY DEF Moves
    <3>. QED  BY <1>3, <3>1, <3>2, MovesStep
  <2>. QED  BY <1>2, <2>1, <2>2 DEF LocalEntry
<1>9. ASSUME NEW c \in Clusters, UpdateJob(c)
      PROVE  /\ loc'.live
             /\ ~locStale' =>
                   /\ run'.live /\ run'.phase # ""
                   /\ \A d \in Clusters :
                         LocalEntry(pc', left', d, run'.jobs[d], loc'.jobs[d])
  <2>1. PICK new \in Job :
           /\ Visit(c, new)
           /\ Board!Sound(loc.jobs[c]) => Moves(loc.jobs[c], new)
    BY <1>9, UpdateJobMoves
  <2>2. /\ loc'.jobs[c] = new /\ loc'.live = loc.live
        /\ \A d \in Clusters \ {c} : loc'.jobs[d] = loc.jobs[d]
        /\ left' = left \ {c} /\ UNCHANGED <<run, pc, locStale>>
    BY <2>1, VisitFacts
  <2>3. pc = "update" /\ c \in left
    BY <1>9 DEF UpdateJob, UpdateJobRecent, UpdateJobPodNotFound,
       UpdateJobGetFails, UpdateJobFromPod, UpdateJobBackoff, UpdateJobRetry,
       UpdateJobRetryFails, UpdateJobGiveUp, PodFailed, RetryDue
  <2>4. ASSUME ~locStale PROVE Board!EntryStep(run.jobs[c], new)
    <3>1. Copied(run.jobs[c], loc.jobs[c])
      BY <1>2, <2>3, <2>4 DEF LocalEntry
    <3>. QED  BY <1>3, <2>1, <3>1, MovesStep
  <2>5. ASSUME NEW d \in Clusters, ~locStale
        PROVE  LocalEntry(pc, left', d, run.jobs[d], loc'.jobs[d])
    <3>1. CASE d = c
      BY <2>2, <2>3, <2>4, <2>5, <3>1 DEF LocalEntry
    <3>2. CASE d # c
      BY <1>2, <2>2, <2>3, <2>5, <3>2 DEF LocalEntry
    <3>. QED  BY <3>1, <3>2
  <2>. QED  BY <1>2, <2>2, <2>3, <2>5
<1>10. ASSUME NEW c \in Clusters, DeleteSingleJob(c)
       PROVE  UNCHANGED <<pc, left, loc>> /\ (locStale' \/ run' = run)
              /\ (locStale => locStale')
  BY <1>1, <1>10 DEF DeleteSingleJob
<1>11. CASE DeleteScenarioRunComplete
  <2>1. UNCHANGED <<pc, left, loc>> /\ locStale'
    BY <1>1, <1>11 DEF DeleteScenarioRunComplete
  <2>. QED  BY <1>1, <1>2, <2>1
<1>12. ASSUME NEW c \in Clusters, DeleteSingleJob(c)
       PROVE  /\ loc'.live
              /\ ~locStale' =>
                    /\ run'.live /\ run'.phase # ""
                    /\ \A d \in Clusters :
                          LocalEntry(pc', left', d, run'.jobs[d], loc'.jobs[d])
  BY <1>1, <1>2, <1>10, <1>12
<1>13. ASSUME UNCHANGED <<pc, left, loc, locStale>>,
              \A c \in Clusters : ~DeleteSingleJob(c),
              ~DeleteScenarioRunComplete
       PROVE  run' = run
  BY <1>13, RunChanges DEF ReconcileInitialize, FinishWrite, Return
<1>. QED  BY <1>1, <1>4, <1>5, <1>6, <1>7, <1>8, <1>9, <1>11, <1>12, <1>13,
             LocalChanges

(* The overall phase depends on the phases of the entries alone. *)
LEMMA OverallOfPhases ==
  ASSUME NEW f \in [Clusters -> Job], NEW g \in [Clusters -> Job],
         \A c \in Clusters : f[c].phase = g[c].phase
  PROVE  calculateOverallStatus(f) = calculateOverallStatus(g)
<1>1. DOMAIN f = Clusters /\ DOMAIN g = Clusters
  OBVIOUS
<1>2. \A S : JobsIn(f, S) = JobsIn(g, S)
  BY <1>1 DEF JobsIn
<1>3. {c \in DOMAIN f : Exists(f[c])} = {c \in DOMAIN g : Exists(g[c])}
  BY <1>1 DEF Exists
<1>4. RunningJobs(f) = RunningJobs(g)
  BY <1>2 DEF RunningJobs
<1>. QED  BY <1>2, <1>3, <1>4 DEF calculateOverallStatus

LEMMA PhaseAgreesNext ==
  ASSUME IInv, [Next]_vars
  PROVE  PhaseAgrees'
<1>. USE DEF IInv
<1>1. run \in Run /\ run' \in Run /\ loc \in Run
  BY TypeNext DEF TypeOK
<1>2. SUFFICES ASSUME run'.phase # ""
               PROVE  run'.phase = calculateOverallStatus(run'.jobs)
  BY DEF PhaseAgrees, calculateOverallStatus, JobsIn, RunningJobs, Exists
<1>3. CASE run' = run
  BY <1>2, <1>3 DEF PhaseAgrees
<1>4. CASE run.phase = "" /\ run' = [run EXCEPT !.phase = "Pending"]
  <2>1. run'.phase = "Pending" /\ run'.jobs = run.jobs
        /\ DOMAIN run.jobs = Clusters
    BY <1>1, <1>4 DEF Run
  <2>2. \A c \in Clusters : ~Exists(run.jobs[c])
    BY <1>4, NullTypes DEF RunSound
  <2>3. {c \in DOMAIN run.jobs : Exists(run.jobs[c])} = {}
    BY <2>1, <2>2
  <2>. QED  BY <2>1, <2>3 DEF calculateOverallStatus
<1>5. CASE run' = NewStatus
  BY <1>1, <1>5 DEF NewStatus, Run
<1>6. ASSUME NEW c \in Clusters, Exists(run.jobs[c]), run' = CancelSet(run, c)
      PROVE  run'.phase = calculateOverallStatus(run'.jobs)
  <2>1. run'.phase = run.phase /\ run'.jobs \in [Clusters -> Job]
        /\ run.jobs \in [Clusters -> Job]
    BY <1>1, <1>6, CancelSetFacts DEF Run
  <2>2. ASSUME NEW d \in Clusters
        PROVE  run'.jobs[d].phase = run.jobs[d].phase
    BY <1>1, <1>6, CancelPhases
  <2>3. calculateOverallStatus(run'.jobs) = calculateOverallStatus(run.jobs)
    BY <2>1, <2>2, OverallOfPhases
  <2>. QED  BY <1>2, <2>1, <2>3 DEF PhaseAgrees
<1>7. CASE run' = NoRun
  BY <1>2, <1>7 DEF NoRun
<1>. QED  BY <1>3, <1>4, <1>5, <1>6, <1>7, RunChanges

(* A cancelled entry stays the same attempt of a cancelled job. *)
LEMMA CancelKept ==
  ASSUME NEW old \in Job, NEW new, Board!EntryStep(old, new), old.cancel,
         ~Exists(old) => old = NoJob
  PROVE  new.cancel /\ new.id = old.id /\ new.retry = old.retry
<1>1. CASE new = old
  BY <1>1
<1>2. CASE Board!Appears(old, new)
  <2>1. old = NoJob
    BY <1>2 DEF Board!Appears, Exists
  <2>2. NoJob.cancel = FALSE
    BY DEF NoJob
  <2>3. old.cancel = FALSE
    BY <2>1, <2>2
  <2>. QED  BY <2>3
<1>3. CASE Board!Advances(old, new) \/ Board!Retries(old, new)
  BY <1>3 DEF Board!Advances, Board!Retries
<1>4. CASE Board!Cancelled(old, new)
  <2>1. new = [old EXCEPT !.cancel = TRUE]
    BY <1>4 DEF Board!Cancelled
  <2>2. new.cancel = TRUE /\ new.id = old.id /\ new.retry = old.retry
    BY <2>1 DEF Job
  <2>. QED  BY <2>2
<1>. QED  BY <1>1, <1>2, <1>3, <1>4 DEF Board!EntryStep

(* Only the DELETE handlers mark pods for deletion. *)
LEMMA DeletionChanges ==
  ASSUME TypeOK, [Next]_vars, NEW id \in PodIds,
         id \in cancels' \/ pods'[id].deleting
  PROVE  \/ id \in cancels \/ pods[id].deleting
         \/ \E c \in Clusters : DeleteSingleJob(c) /\ id = cache.jobs[c].id
         \/ ~run.live
<1>. DEFINE Marked == id \in cancels \/ pods[id].deleting
<1>. USE DEF apiVars, recVars, envVars
<1>1. pods \in [PodIds -> Pod] /\ pods[id] \in Pod
  BY DEF TypeOK
<1>2. ASSUME NEW c \in Clusters, Unused # {},
             pods' = [pods EXCEPT ![FreshId] = NewPod(c)], cancels' = cancels
      PROVE  Marked
  BY <1>1, <1>2, FreshIdType, NewPodType
<1>3. ASSUME NEW t \in Targets, CreateClusterJob(t) PROVE Marked
  BY <1>2, <1>3 DEF CreateClusterJob
<1>4. ASSUME NEW c \in Clusters, UpdateJob(c) PROVE Marked
  <2>1. CASE UpdateJobRetry(c)
    BY <1>2, <2>1 DEF UpdateJobRetry, Visit
  <2>2. CASE ~UpdateJobRetry(c)
    BY <1>4, <2>2
       DEF UpdateJob, UpdateJobRecent, UpdateJobPodNotFound, UpdateJobGetFails,
           UpdateJobFromPod, UpdateJobBackoff, UpdateJobRetryFails,
           UpdateJobGiveUp, Visit
  <2>. QED  BY <2>1, <2>2
<1>5. CASE Reconcile
  <2>1. CASE \/ ReconcileNotFound \/ ReconcileInitialize
             \/ ReconcileInitializeFails \/ ReconcileFetch
             \/ \E t \in Targets : CreateClusterJobFails(t)
             \/ BeginStatusUpdate
    BY <2>1 DEF ReconcileNotFound, ReconcileInitialize,
       ReconcileInitializeFails, ReconcileFetch, CreateClusterJobFails,
       BeginStatusUpdate
  <2>2. CASE FinishUnchanged \/ FinishWrite \/ FinishFails
    BY <2>2 DEF FinishUnchanged, FinishWrite, FinishFails
  <2>. QED  BY <1>3, <1>4, <1>5, <2>1, <2>2 DEF Reconcile
<1>6. CASE Crash
  BY <1>1, <1>6 DEF Crash, Pod
<1>7. CASE Watch
  BY <1>1, <1>7 DEF Watch, DeliverRun, DeliverPod, TimerFires, OtherEvent, Pod
<1>8. ASSUME NEW i \in PodIds, PodMoves(i) \/ PodLosesContact(i) \/ PodRemoved(i)
      PROVE  Marked
  <2>1. cancels' = cancels
    BY <1>8 DEF PodMoves, PodLosesContact, PodRemoved, PodChanges
  <2>2. \E pod : /\ pod.deleting = pods[i].deleting
                 /\ pods' = [pods EXCEPT ![i] = pod]
    <3>1. pods[i] \in Pod
      BY <1>1
    <3>2. \A p : [pods[i] EXCEPT !.phase = p].deleting = pods[i].deleting
      BY <3>1 DEF Pod
    <3>3. [pods[i] EXCEPT !.there = FALSE].deleting = pods[i].deleting
      BY <3>1 DEF Pod
    <3>4. CASE PodMoves(i)
      BY <3>2, <3>4 DEF PodMoves, PodChanges
    <3>5. CASE PodLosesContact(i)
      BY <3>2, <3>5 DEF PodLosesContact, PodChanges
    <3>6. CASE PodRemoved(i)
      BY <3>3, <3>6 DEF PodRemoved, PodChanges
    <3>. QED  BY <1>8, <3>4, <3>5, <3>6
  <2>. QED  BY <1>1, <2>1, <2>2
<1>9. ASSUME NEW i \in PodIds, CollectPod(i) PROVE ~run.live
  BY <1>9 DEF CollectPod
<1>10. ASSUME NEW c \in Clusters, DeleteSingleJob(c)
       PROVE  Marked \/ id = cache.jobs[c].id
  BY <1>10 DEF DeleteSingleJob
<1>11. ASSUME NEW i \in PodIds, DeleteSingleJobPod(i) PROVE Marked
  BY <1>1, <1>11 DEF DeleteSingleJobPod, Pod
<1>12. CASE DeleteScenarioRunComplete
  BY <1>12 DEF DeleteScenarioRunComplete
<1>13. CASE UNCHANGED vars
  BY <1>13 DEF vars
<1>. QED  BY <1>5, <1>6, <1>7, <1>8, <1>9, <1>10, <1>11, <1>12, <1>13
          DEF Next, Cluster, Users

LEMMA DeletionNext ==
  ASSUME IInv, [Next]_vars
  PROVE  DeletionIsRecorded'
<1>. USE DEF IInv
<1>1. SUFFICES ASSUME run'.live, NEW id \in PodIds,
                      id \in cancels' \/ pods'[id].deleting
               PROVE  \E c \in Clusters : run'.jobs[c].id = id
                                          /\ run'.jobs[c].cancel
  BY DEF DeletionIsRecorded
<1>2. run \in Run /\ run.live
  BY <1>1, PublishedSteps, NullTypes DEF TypeOK, NoRun
<1>3. ASSUME NEW c \in Clusters, DeleteSingleJob(c), id = cache.jobs[c].id
      PROVE  run'.jobs[c].id = id /\ run'.jobs[c].cancel
  <2>1. cache = run /\ run' = CancelSet(run, c)
    BY <1>3 DEF DeleteSingleJob, updateAccepted, FreshCache, CancelSet
  <2>2. run'.jobs[c] = [run.jobs[c] EXCEPT !.cancel = TRUE]
        /\ run.jobs[c] \in Job
    BY <1>2, <2>1, CancelSetFacts DEF Run
  <2>. QED  BY <1>3, <2>1, <2>2 DEF Job
<1>4. CASE id \in cancels \/ pods[id].deleting
  <2>1. PICK c \in Clusters : run.jobs[c].id = id /\ run.jobs[c].cancel
    BY <1>2, <1>4 DEF DeletionIsRecorded
  <2>2. run.jobs[c] \in Job /\ (~Exists(run.jobs[c]) => run.jobs[c] = NoJob)
    BY <1>2 DEF Run, RunSound
  <2>3. \/ run'.jobs[c] = run.jobs[c]
        \/ Board!EntryStep(run.jobs[c], run'.jobs[c])
    <3>1. run' # NoRun
      BY <1>1, NoRunFacts
    <3>. QED  BY <3>1, PublishedSteps
  <2>. QED  BY <2>1, <2>2, <2>3, CancelKept
<1>. QED  BY <1>1, <1>2, <1>3, <1>4, DeletionChanges

-----------------------------------------------------------------------------
(* The theorems *)

LEMMA IInvInit == Init => IInv
<1>. SUFFICES ASSUME Init PROVE IInv
  OBVIOUS
<1>1. TypeOK
  BY TypeInit
<1>2. /\ run.live = TRUE /\ run.phase = "" /\ cacheStale = TRUE
      /\ cache = NoRun /\ loc = NoRun /\ pc = "idle" /\ left = {}
      /\ cancels = {}
      /\ \A c \in Clusters : run.jobs[c] = NoJob
      /\ \A id \in PodIds : pods[id].deleting = FALSE
  BY DEF Init, NoRun, NoPod
<1>3. EntriesGrounded
  BY <1>2, NoRunFacts DEF EntriesGrounded
<1>4. Board!Sound(NoJob)
  BY DEF NoJob, Board!Sound, Board!Limit, DefaultMaxRetries
<1>5. RunSound /\ FreshCache /\ LocalCopy /\ StillToVisit /\ PhaseAgrees
  BY <1>2, <1>4 DEF RunSound, FreshCache, LocalCopy, StillToVisit, PhaseAgrees
<1>6. DeletionIsRecorded
  BY <1>2 DEF DeletionIsRecorded
<1>. QED  BY <1>1, <1>3, <1>5, <1>6 DEF IInv

LEMMA IInvNext == IInv /\ [Next]_vars => IInv'
<1>. SUFFICES ASSUME IInv, [Next]_vars PROVE IInv'
  OBVIOUS
<1>1. TypeOK'
  BY TypeNext DEF IInv
<1>. QED  BY <1>1, GroundedNext, RunSoundNext, FreshCacheNext, LocalCopyNext,
             StillToVisitNext, PhaseAgreesNext, DeletionNext DEF IInv

(* The inductive invariant holds in every reachable state: the reconciler, *)
(* the handlers and the cluster keep it in any interleaving.               *)
THEOREM Invariant == Spec => []IInv
BY IInvInit, IInvNext, PTL DEF Spec

(* Every variable keeps its type: in particular calculateOverallStatus     *)
(* and updateClusterJobStatuses only produce phases the CRD knows.         *)
THEOREM TypeCorrect == Spec => []TypeOK
<1>1. IInv => TypeOK
  BY DEF IInv
<1>. QED  BY <1>1, Invariant, PTL

(* The published phase is always the one of the published entries.         *)
THEOREM PhaseCorrect == Spec => []PhaseAgrees
<1>1. IInv => PhaseAgrees
  BY DEF IInv
<1>. QED  BY <1>1, Invariant, PTL

(* A pod marked for deletion by DeleteSingleJob belongs to the current     *)
(* attempt of a job whose cancellation is stored.                          *)
THEOREM DeletionCorrect == Spec => []DeletionIsRecorded
<1>1. IInv => DeletionIsRecorded
  BY DEF IInv
<1>. QED  BY <1>1, Invariant, PTL

(* A run published as Succeeded lists only jobs whose pods succeeded.      *)
THEOREM SuccessCorrect == Spec => []SuccessIsReal
<1>1. IInv => SuccessIsReal
  <2>. SUFFICES ASSUME IInv, run.phase = "Succeeded"
                PROVE  /\ \E c \in Clusters : Exists(run.jobs[c])
                       /\ \A c \in Clusters : Exists(run.jobs[c]) =>
                             pods[run.jobs[c].id].phase = "Succeeded"
    BY DEF SuccessIsReal
  <2>. DEFINE all == {c \in DOMAIN run.jobs : Exists(run.jobs[c])}
  <2>1. DOMAIN run.jobs = Clusters
    BY DEF IInv, TypeOK, Run
  <2>2. calculateOverallStatus(run.jobs) = "Succeeded"
    BY DEF IInv, PhaseAgrees
  <2>3. all # {} /\ JobsIn(run.jobs, {"Succeeded"}) = all
    BY <2>2 DEF calculateOverallStatus
  <2>4. \A c \in Clusters : Exists(run.jobs[c]) =>
                              run.jobs[c].phase = "Succeeded"
    BY <2>1, <2>3 DEF JobsIn
  <2>5. \A c \in Clusters : Grounded(run.jobs[c], pods)
    BY DEF IInv, EntriesGrounded
  <2>. QED  BY <2>1, <2>3, <2>4, <2>5 DEF Grounded
<1>. QED  BY <1>1, Invariant, PTL

(* The reconciler and the cancel handler implement the abstract job life   *)
(* cycle: what they publish in status.clusterJobs only takes its steps.    *)
THEOREM BoardRefinement == Spec => BoardSpec
<1>1. Init => Board!Init
  <2>1. Init => run.live = TRUE /\ \A c \in Clusters : run.jobs[c] = NoJob
    BY DEF Init, NoRun
  <2>. QED  BY <2>1, NullTypes DEF Board!Init
<1>2. IInv /\ [Next]_vars => [Board!Next]_<<run.live, run.jobs>>
  <2>. SUFFICES ASSUME IInv, [Next]_vars
                PROVE  \/ Board!Next
                       \/ run'.live = run.live /\ run'.jobs = run.jobs
    OBVIOUS
  <2>1. /\ run.jobs \in [Clusters -> Job] /\ run'.jobs \in [Clusters -> Job]
        /\ run.live \in BOOLEAN /\ run'.live \in BOOLEAN
    BY TypeNext DEF IInv, TypeOK, Run
  <2>2. CASE /\ run.live = run'.live
             /\ \A d \in Clusters : run'.jobs[d] = run.jobs[d]
    BY <2>1, <2>2
  <2>3. CASE /\ run.live /\ run'.live
             /\ \A d \in Clusters : Board!EntryStep(run.jobs[d], run'.jobs[d])
    BY <2>1, <2>3 DEF Board!Next, Board!Publish
  <2>4. CASE run.live /\ run' = NoRun
    BY <2>1, <2>4 DEF Board!Next, Board!Delete, NoRun
  <2>. QED  BY <2>2, <2>3, <2>4, PublishedSteps
<1>. QED  BY <1>1, <1>2, Invariant, PTL DEF Spec, BoardSpec, Board!Spec

(* A stored cancellation is final: no later status update drops the flag,  *)
(* moves to another attempt or counts another retry.                       *)
THEOREM CancelCorrect == Spec => CancelIsFinal
<1>. DEFINE Kept == \A c \in Clusters :
                       run.live /\ run'.live /\ run.jobs[c].cancel =>
                          /\ run'.jobs[c].cancel
                          /\ run'.jobs[c].id = run.jobs[c].id
                          /\ run'.jobs[c].retry = run.jobs[c].retry
<1>1. IInv /\ [Next]_vars => [Kept]_vars
  <2>. SUFFICES ASSUME IInv, [Next]_vars, NEW c \in Clusters, run'.live,
                       run.jobs[c].cancel
                PROVE  /\ run'.jobs[c].cancel
                       /\ run'.jobs[c].id = run.jobs[c].id
                       /\ run'.jobs[c].retry = run.jobs[c].retry
    OBVIOUS
  <2>1. run.jobs[c] \in Job /\ (~Exists(run.jobs[c]) => run.jobs[c] = NoJob)
    BY DEF IInv, TypeOK, Run, RunSound
  <2>2. run' # NoRun
    BY NoRunFacts
  <2>3. \/ run'.jobs[c] = run.jobs[c]
        \/ Board!EntryStep(run.jobs[c], run'.jobs[c])
    BY <2>2, PublishedSteps
  <2>. QED  BY <2>1, <2>3, CancelKept
<1>. QED  BY <1>1, Invariant, PTL DEF Spec, CancelIsFinal

(* A terminal entry never changes again but for the cancel flag.           *)
THEOREM ResultCorrect == Spec => ResultIsFinal
<1>. DEFINE Kept == \A c \in Clusters :
              run.live /\ run'.live /\ run.jobs[c].phase \in TerminalPhases =>
                 \E flag \in BOOLEAN :
                    run'.jobs[c] = [run.jobs[c] EXCEPT !.cancel = flag]
<1>1. IInv /\ [Next]_vars => [Kept]_vars
  <2>. SUFFICES ASSUME IInv, [Next]_vars, NEW c \in Clusters, run'.live,
                       run.jobs[c].phase \in TerminalPhases
                PROVE  \E flag \in BOOLEAN :
                          run'.jobs[c] = [run.jobs[c] EXCEPT !.cancel = flag]
    OBVIOUS
  <2>1. run.jobs[c] \in Job
    BY DEF IInv, TypeOK, Run
  <2>2. run' # NoRun
    BY NoRunFacts
  <2>3. \/ run'.jobs[c] = run.jobs[c]
        \/ Board!EntryStep(run.jobs[c], run'.jobs[c])
    BY <2>2, PublishedSteps
  <2>4. \/ run'.jobs[c] = run.jobs[c]
        \/ run'.jobs[c] = [run.jobs[c] EXCEPT !.cancel = TRUE]
    BY <2>3 DEF TerminalPhases, Board!EntryStep, Board!Appears,
       Board!Advances, Board!Retries, Board!Cancelled, Board!Terminal
  <2>5. run.jobs[c] = [run.jobs[c] EXCEPT !.cancel = run.jobs[c].cancel]
        /\ run.jobs[c].cancel \in BOOLEAN
    BY <2>1 DEF Job
  <2>. QED  BY <2>4, <2>5
<1>. QED  BY <1>1, Invariant, PTL DEF Spec, ResultIsFinal
=============================================================================
