-------------------------- MODULE ProviderRequest --------------------------
(***************************************************************************)
(* A request that several operators answer together: a KrknTargetRequest   *)
(* ("which clusters are there?", kind "targets") or a                      *)
(* KrknOperatorTargetProviderConfig ("what can be configured?", "configs").*)
(* Every operator adds its part to the status of the one object, and an    *)
(* operator that finds enough parts marks the request Completed.  The      *)
(* kubeconfigs of a target request go to a Secret that all operators share.*)
(*                                                                         *)
(* A reconcile fetches the object again before each of its writes.  Both   *)
(* the fetch, from the informer cache, and the write are one step: a cache *)
(* may lag behind for any time, so a change between fetch and write is a   *)
(* change that has not been delivered yet.                                 *)
(*                                                                         *)
(* Operators other than Self are external.  For a target request they run  *)
(* the same reconciler under their own name; to a config request they      *)
(* contribute with UpdateProviderConfig.                                   *)
(***************************************************************************)
EXTENDS ProviderRegistry

CONSTANTS
    Self,     \* krkn-operator itself, which serves the REST API
    Clusters, \* the clusters that KrknOperatorTargets stand for
    MaxFaults \* bound: failing API calls and unreadable kubeconfigs

ASSUME RequestAssumption == Self \in Operators /\ MaxFaults \in Nat

VARIABLES
    kind,   \* "none" until a POST creates the request
    req,    \* the stored request
    cache,  \* each operator's cached copy
    stale,  \* the operators whose copy is behind
    ready,  \* the clusters whose KrknOperatorTarget is ready
    secret, \* the managed-clusters Secret
    scache, \* each operator's cached copy of the Secret
    sstale, \* the operators whose copy of the Secret is behind
    queued, \* the operators with the request in their work queue
    pc,     \* where each operator's reconciler is
    list,   \* providerList: the active providers it found at the start
    items,  \* targets: the ready clusters it listed
    steady, \* history: no provider was switched on or off so far
    faults  \* faults still allowed

objVars == <<kind, req, cache, stale>>
secVars == <<secret, scache, sstale>>
recVars == <<queued, pc, list, items>>
vars == <<regVars, objVars, secVars, recVars, ready, steady, faults>>

-----------------------------------------------------------------------------
(* Types *)

(* given: the keys of TargetData or ConfigData; data: what is under them. *)
Request == [live : BOOLEAN, label : BOOLEAN,
            status : {"", "pending", "Completed"},
            given : SUBSET Operators, data : SUBSET (Operators \X Clusters)]

NoRequest == [live |-> FALSE, label |-> FALSE, status |-> "", given |-> {},
              data |-> {}]

Secret == [there : BOOLEAN, have : SUBSET (Operators \X Clusters)]
NoSecret == [there |-> FALSE, have |-> {}]

Steps == {"idle", "init", "contribute", "secret", "race", "check"}

(* Every variable has its type. *)
TypeOK ==
    /\ RegistryTypeOK
    /\ kind \in {"none", "targets", "configs"}
    /\ req \in Request /\ cache \in [Operators -> Request]
    /\ stale \in SUBSET Operators
    /\ secret \in Secret /\ scache \in [Operators -> Secret]
    /\ sstale \in SUBSET Operators
    /\ ready \in SUBSET Clusters
    /\ queued \in SUBSET Operators /\ pc \in [Operators -> Steps]
    /\ list \in [Operators -> SUBSET Operators]
    /\ items \in [Operators -> SUBSET Clusters]
    /\ steady \in BOOLEAN /\ faults \in Nat

(* krkn-operator itself is running. *)
Init ==
    /\ RegistryInit /\ prov[Self] = "active"
    /\ kind = "none"
    /\ req = NoRequest /\ cache = [o \in Operators |-> NoRequest]
    /\ secret = NoSecret /\ scache = [o \in Operators |-> NoSecret]
    /\ stale = {} /\ sstale = {}
    /\ ready = Clusters
    /\ queued = {} /\ pc = [o \in Operators |-> "idle"]
    /\ list = [o \in Operators |-> {}] /\ items = [o \in Operators |-> {}]
    /\ steady = TRUE /\ faults = MaxFaults

-----------------------------------------------------------------------------
(* The API server and the steps of a reconcile *)

Fail == faults > 0 /\ faults' = faults - 1

Store(new) ==
    /\ req' = new
    /\ stale' = IF new = req THEN stale ELSE Operators

StoreSecret(new) ==
    /\ secret' = new
    /\ sstale' = IF new = secret THEN sstale ELSE Operators

(* An update made from op's cached copy is accepted. *)
Accepted(op) == req.live /\ op \notin stale

Goto(op, step) == pc' = [pc EXCEPT ![op] = step]

(* The reconcile ends; its locals are dropped. *)
Return(op) ==
    /\ Goto(op, "idle")
    /\ list' = [list EXCEPT ![op] = {}]
    /\ items' = [items EXCEPT ![op] = {}]

(* A conflict (requeued after 100 ms) or another error (with back-off). *)
Requeue(op) == Return(op) /\ queued' = queued \cup {op}

At(op, step) == op \in up /\ pc[op] = step

(* Update the object from the cached copy, if it needs it, and go on ... *)
Advance(needed, op, new, step) ==
    /\ IF needed THEN Accepted(op) /\ Store(new) ELSE UNCHANGED <<req, stale>>
    /\ Goto(op, step)
    /\ UNCHANGED faults

(* Slip: the error is logged and nil returned. *)
RefuseSilently(needed, op) ==
    /\ needed
    /\ IF Accepted(op) THEN Fail ELSE UNCHANGED faults
    /\ Return(op)
    /\ UNCHANGED <<req, stale, queued>>

(* ... or come back later, because the update is refused or fails. *)
Refuse(needed, op) ==
    /\ needed
    /\ IF Accepted(op) THEN Fail ELSE UNCHANGED faults
    /\ Requeue(op)
    /\ UNCHANGED <<req, stale>>

(* A refetch does not find the request any more. *)
RefetchFails(op) ==
    /\ op \in up /\ pc[op] \in {"init", "contribute", "secret", "check"}
    /\ ~cache[op].live
    /\ Requeue(op)
    /\ UNCHANGED <<regVars, objVars, secVars, ready, steady, faults>>

(***************************************************************************)
(* The label is set; providerList was read just before.  A status once set *)
(* stays set, so initializeStatus has nothing to do in a later copy either.*)
(***************************************************************************)
ensureUUIDLabel(op) ==
    LET missing == ~cache[op].label
        new     == [cache[op] EXCEPT !.label = TRUE]
        step    == IF cache[op].status = "" THEN "init" ELSE "contribute"
    IN  \/ /\ Advance(missing, op, new, step)
           /\ queued' = queued \ {op}
           /\ list' = [list EXCEPT ![op] = Active(view[op])]
           /\ UNCHANGED items
        \/ Refuse(missing, op)

(* Slip: a phase that nobody knows. *)
capitalised(copy) == [copy EXCEPT !.status = "Pending"]

initialised(copy) == [copy EXCEPT !.status = "pending"]

initializeStatus(op) ==
    LET fresh == cache[op].status = ""
        new   == initialised(cache[op])
    IN  /\ At(op, "init") /\ cache[op].live
        /\ \/ /\ Advance(fresh, op, new, "contribute")
              /\ UNCHANGED <<queued, list, items>>
           \/ Refuse(fresh, op)
        /\ UNCHANGED <<regVars, kind, cache, secVars, ready, steady>>

(* Slip: the first contributor completes the request. *)
completesEarly(copy, active) == Cardinality(copy.given) >= 1

(* As many contributors as there were active providers, but at least one. *)
allContributed(copy, active) ==
    /\ Cardinality(active) > 0
    /\ Cardinality(copy.given) >= Cardinality(active)

(* Slip: requests that wait for a provider are removed as well. *)
anyExpires(copy) == copy.live

(* Age is abstract: a Completed request may be an hour old at any time. *)
mayExpire(copy) == copy.live /\ copy.status = "Completed"

Delete ==
    /\ req' = NoRequest
    /\ stale' = IF req.live THEN Operators ELSE stale

(* The time goes with it: a second Completed may be another version. *)
StoreCompleted(copy) ==
    /\ req' = [copy EXCEPT !.status = "Completed"]
    /\ stale' \in {Operators, IF req' = req THEN stale ELSE Operators}

(* Store Completed if it is due; then the trailing clean-up, which deletes a
   Completed request in the cache that is old. *)
checkCompletion(op) ==
    LET all == allContributed(cache[op], list[op])
    IN  /\ At(op, "check") /\ cache[op].live
        /\ \/ /\ all => Accepted(op)
              /\ \/ mayExpire(cache[op]) /\ Delete
                 \/ all /\ StoreCompleted(cache[op])
                 \/ ~all /\ UNCHANGED <<req, stale>>
              /\ Return(op) /\ UNCHANGED <<queued, faults>>
           \/ Refuse(all, op)
        /\ UNCHANGED <<regVars, kind, cache, secVars, ready, steady>>

(* The clean-up at the end of the reconcile of some other request. *)
CleanupOldResources(op) ==
    /\ op \in up /\ mayExpire(cache[op]) /\ req.live
    /\ Delete
    /\ UNCHANGED <<regVars, kind, cache, secVars, recVars, ready, steady,
                   faults>>

-----------------------------------------------------------------------------
(* The reconciler of target requests *)

(* Gone, completed, or this provider is not active: nothing is done. *)
TargetSkip(op) ==
    /\ kind = "targets" /\ At(op, "idle") /\ op \in queued
    /\ \/ ~cache[op].live
       \/ cache[op].status = "Completed"
       \/ view[op][op] # "active"
    /\ queued' = queued \ {op}
    /\ UNCHANGED <<regVars, objVars, secVars, pc, list, items, ready, steady,
                   faults>>

(* Steps 1 to 4: fetch, remember the active providers, set the label. *)
TargetFetch(op) ==
    /\ kind = "targets" /\ At(op, "idle") /\ op \in queued
    /\ cache[op].live /\ cache[op].status # "Completed"
    /\ view[op][op] = "active"
    /\ ensureUUIDLabel(op)
    /\ UNCHANGED <<regVars, kind, cache, secVars, ready, steady>>

(* Slip: the part of another operator is replaced. *)
dataInstead(copy, op, found) ==
    [copy EXCEPT !.given = {op}, !.data = {op} \X found]

withTargetData(copy, op, found) ==
    [copy EXCEPT !.given = @ \cup {op},
                 !.data = {d \in @ : d[1] # op} \cup ({op} \X found)]

(* Steps 6 to 8: list the ready targets and store them under op's name. *)
updateTargetData(op) ==
    /\ kind = "targets" /\ At(op, "contribute") /\ cache[op].live
    /\ \/ /\ Advance(TRUE, op, withTargetData(cache[op], op, ready), "secret")
          /\ items' = [items EXCEPT ![op] = ready]
          /\ UNCHANGED <<queued, list>>
       \/ Refuse(TRUE, op)
    /\ UNCHANGED <<regVars, kind, cache, secVars, ready, steady>>

(***************************************************************************)
(* The kubeconfigs found for the listed clusters.  One whose Secret cannot *)
(* be read or parsed is skipped.                                           *)
(***************************************************************************)
Kubeconfigs(op, found) ==
    /\ found \in SUBSET items[op]
    /\ IF found = items[op] THEN UNCHANGED faults ELSE Fail

SecretStep(op) ==
    /\ kind = "targets" /\ cache[op].live
    /\ UNCHANGED <<regVars, objVars, scache, ready, steady>>

(* Slip: the sections of the other operators are not read back. *)
onlyOwnSection(copy, op, found) == {op} \X found

mergedSections(copy, op, found) == copy.have \cup ({op} \X found)

(* The Secret is in the cache: merge into that copy and update it. *)
UpdateSecret(op) ==
    /\ At(op, "secret") /\ SecretStep(op) /\ scache[op].there
    /\ \/ /\ secret.there /\ op \notin sstale
          /\ \E found \in SUBSET items[op] :
                /\ Kubeconfigs(op, found)
                /\ StoreSecret([secret EXCEPT
                       !.have = mergedSections(scache[op], op, found)])
          /\ Goto(op, "check") /\ UNCHANGED <<queued, list, items>>
       \/ /\ IF secret.there /\ op \notin sstale THEN Fail
                                                 ELSE UNCHANGED faults
          /\ Requeue(op) /\ UNCHANGED <<secret, sstale>>

(* It is not: create it with this operator's section. *)
CreateSecret(op) ==
    /\ At(op, "secret") /\ SecretStep(op) /\ ~scache[op].there
    /\ \/ /\ ~secret.there
          /\ \E found \in SUBSET items[op] :
                /\ Kubeconfigs(op, found)
                /\ StoreSecret([there |-> TRUE, have |-> {op} \X found])
          /\ Goto(op, "check") /\ UNCHANGED <<queued, list, items>>
       \/ /\ secret.there
          /\ Goto(op, "race")
          /\ \E found \in SUBSET items[op] :
                /\ Kubeconfigs(op, found)
                /\ items' = [items EXCEPT ![op] = found]
          /\ UNCHANGED <<secret, sstale, queued, list>>
       \/ Fail /\ Requeue(op) /\ UNCHANGED <<secret, sstale>>

(***************************************************************************)
(* AlreadyExists: the Secret is fetched again and its data replaced by the *)
(* bytes made for the creation.                                            *)
(***************************************************************************)
OverwriteSecret(op) ==
    /\ At(op, "race")
    /\ \/ /\ scache[op].there /\ secret.there /\ op \notin sstale
          /\ StoreSecret([secret EXCEPT !.have = {op} \X items[op]])
          /\ Goto(op, "check") /\ UNCHANGED <<queued, list, items, faults>>
       \/ /\ IF scache[op].there /\ secret.there /\ op \notin sstale
             THEN Fail ELSE UNCHANGED faults
          /\ Requeue(op) /\ UNCHANGED <<secret, sstale>>
    /\ UNCHANGED <<regVars, objVars, scache, ready, steady>>

TargetReconcile(op) ==
    \/ TargetSkip(op) \/ TargetFetch(op)
    \/ updateTargetData(op)
    \/ UpdateSecret(op) \/ CreateSecret(op) \/ OverwriteSecret(op)

-----------------------------------------------------------------------------
(* The reconciler of config requests, and what external operators call *)

ConfigSkip ==
    /\ kind = "configs" /\ At(Self, "idle") /\ Self \in queued
    /\ ~cache[Self].live \/ cache[Self].status = "Completed"
    /\ queued' = queued \ {Self}
    /\ UNCHANGED <<regVars, objVars, secVars, pc, list, items, ready, steady,
                   faults>>

(* Steps 1 to 4.  Whether this provider is active is not asked yet. *)
ConfigFetch ==
    /\ kind = "configs" /\ At(Self, "idle") /\ Self \in queued
    /\ cache[Self].live /\ cache[Self].status # "Completed"
    /\ ensureUUIDLabel(Self)
    /\ UNCHANGED <<regVars, kind, cache, secVars, ready, steady>>

withConfigData(copy, op) == [copy EXCEPT !.given = @ \cup {op}]

(* Steps 5.5 to 5.7: contribute once, if active; else straight on. *)
ContributeConfig ==
    LET due == view[Self][Self] = "active" /\ Self \notin cache[Self].given
    IN  /\ kind = "configs" /\ At(Self, "contribute") /\ cache[Self].live
        /\ \/ /\ Advance(due, Self, withConfigData(cache[Self], Self), "check")
              /\ UNCHANGED <<queued, list, items>>
           \/ Refuse(due, Self)
        /\ UNCHANGED <<regVars, kind, cache, secVars, ready, steady>>

ConfigReconcile == ConfigSkip \/ ConfigFetch \/ ContributeConfig

(* An external operator, its request queued: a part is added only once. *)
UpdateProviderConfig(op) ==
    /\ kind = "configs" /\ op # Self /\ At(op, "idle") /\ op \in queued
    /\ IF cache[op].live /\ op \notin cache[op].given
       THEN Accepted(op) /\ Store(withConfigData(cache[op], op))
       ELSE UNCHANGED <<req, stale>>
    /\ queued' = queued \ {op}
    /\ UNCHANGED <<regVars, kind, cache, secVars, pc, list, items, ready,
                   steady, faults>>

-----------------------------------------------------------------------------
(* REST requests, served by Self *)

PostRequest(k, new) ==
    /\ Self \in up
    /\ kind = "none" /\ kind' = k
    /\ Store(new)
    /\ UNCHANGED <<regVars, cache, secVars, recVars, ready, steady, faults>>

PostTarget == PostRequest("targets", [NoRequest EXCEPT !.live = TRUE])

(* CreateProviderConfigRequest sets the label itself. *)
PostProviderConfig ==
    PostRequest("configs", [NoRequest EXCEPT !.live = TRUE, !.label = TRUE])

UserDelete ==
    /\ Self \in up /\ Change
    /\ Delete
    /\ UNCHANGED <<prov, view, behind, up, registering, kind, cache,
                   secVars, recVars, ready, steady, faults>>

(* DELETE of a target request by an administrator or its owner. *)
DeleteTargetByUUID ==
    kind = "targets" /\ cache[Self].live /\ UserDelete

(***************************************************************************)
(* Values are stored in the ConfigMap of an external provider (the schema  *)
(* of Self is empty and accepts none), and the request has served its      *)
(* purpose.  A failing deletion is only logged.                            *)
(***************************************************************************)
UpdateProviderConfigValues ==
    /\ kind = "configs" /\ cache[Self].live /\ cache[Self].label
    /\ cache[Self].given \ {Self} # {}
    /\ UserDelete

-----------------------------------------------------------------------------
(* The surroundings *)

(* A watch event: the cache catches up and the request is queued. *)
Deliver(op) ==
    /\ op \in up /\ op \in stale
    /\ cache' = [cache EXCEPT ![op] = req]
    /\ stale' = stale \ {op}
    /\ queued' = queued \cup {op}
    /\ UNCHANGED <<regVars, kind, req, secVars, pc, list, items, ready,
                   steady, faults>>

DeliverSecret(op) ==
    /\ op \in up /\ op \in sstale
    /\ scache' = [scache EXCEPT ![op] = secret]
    /\ sstale' = sstale \ {op}
    /\ UNCHANGED <<regVars, objVars, secret, recVars, ready, steady, faults>>

(* The owner of the Secret is gone. *)
CollectGarbage ==
    /\ secret.there /\ ~req.live
    /\ StoreSecret(NoSecret)
    /\ UNCHANGED <<regVars, objVars, scache, recVars, ready, steady, faults>>

TargetChanges(c) ==
    /\ Change
    /\ ready' = IF c \in ready THEN ready \ {c} ELSE ready \cup {c}
    /\ UNCHANGED <<prov, view, behind, up, registering, objVars, secVars,
                   recVars, steady, faults>>

(* The process ends, by itself or not: queue and locals are gone. *)
Stop(op) ==
    /\ deactivateProvider(op) \/ Crash(op) \/ ensureProviderFails(op)
    /\ Return(op) /\ queued' = queued \ {op}
    /\ UNCHANGED <<objVars, secVars, ready, faults>>

(* It starts: the caches are filled and every object in them is queued. *)
Start(op) ==
    /\ StartProcess(op)
    /\ cache' = [cache EXCEPT ![op] = req] /\ stale' = stale \ {op}
    /\ scache' = [scache EXCEPT ![op] = secret] /\ sstale' = sstale \ {op}
    /\ queued' = IF req.live THEN queued \cup {op} ELSE queued
    /\ UNCHANGED <<kind, req, secret, pc, list, items, ready, faults>>

Registry(op) ==
    /\ \/ ensureProvider(op) \/ updateHeartbeat(op) \/ DeliverProviders(op)
       \/ \E flag \in Flags : UpdateProviderStatus(Self, op, flag)
    /\ UNCHANGED <<objVars, secVars, recVars, ready, faults>>

Switch == steady' = (steady /\ Active(prov') = Active(prov))

-----------------------------------------------------------------------------
(* The specification *)

Reconcile(op) ==
    \/ TargetReconcile(op) \/ UpdateProviderConfig(op)
    \/ op = Self /\ ConfigReconcile
    \/ initializeStatus(op) \/ checkCompletion(op)
    \/ RefetchFails(op)

Environment ==
    \/ PostTarget \/ PostProviderConfig
    \/ DeleteTargetByUUID \/ UpdateProviderConfigValues
    \/ CollectGarbage
    \/ \E c \in Clusters : TargetChanges(c)
    \/ \E op \in Operators :
          \/ CleanupOldResources(op) \/ Deliver(op) \/ DeliverSecret(op)
          \/ (Stop(op) \/ Start(op) \/ Registry(op)) /\ Switch

Next == Environment \/ \E op \in Operators : Reconcile(op)

Spec == Init /\ [][Next]_vars

(***************************************************************************)
(* The workers of the controllers go on, watch events arrive, a process    *)
(* that ended is restarted and its registration goes on.  Nothing is       *)
(* assumed of users, of heartbeats, or of the clean-up.                    *)
(***************************************************************************)
FairSpec ==
    /\ Spec
    /\ \A op \in Operators :
          /\ WF_vars(Reconcile(op))
          /\ WF_vars(Deliver(op)) /\ WF_vars(DeliverSecret(op))
          /\ WF_vars(Start(op) /\ Switch)

-----------------------------------------------------------------------------
(* Properties *)

Requested == INSTANCE Collection
    WITH phase <- IF kind = "none" THEN "none"
                  ELSE IF req.live THEN req.status ELSE "gone",
         given <- req.given

(***************************************************************************)
(* Whatever the operators, their caches and the clients do, a request is   *)
(* collected as Collection says: parts are never lost to a concurrent      *)
(* update, and Completed is reached once, from pending, and for good.      *)
(***************************************************************************)
CollectionSpec == Requested!Spec

(***************************************************************************)
(* checkCompletion compares two numbers.  As long as nobody is switched on *)
(* or off and only active providers have contributed, the numbers mean     *)
(* what they should: every active provider has contributed.                *)
(***************************************************************************)
CompletedMeansAll ==
    /\ req.live /\ req.status = "Completed" /\ steady
    /\ req.given \subseteq Active(prov)
    => Active(prov) \subseteq req.given

(***************************************************************************)
(* CleanupOldResources decides on a cached copy, and still never removes a *)
(* request that is not Completed.  (Requests of users use up a change.)    *)
(***************************************************************************)
CleanupOnlyCompleted ==
    [][req.live /\ ~req'.live /\ changes' = changes
          => req.status = "Completed"]_vars

(***************************************************************************)
(* The kubeconfigs of one operator survive the writes of the others, except*)
(* for the overwrite that follows AlreadyExists.                           *)
(***************************************************************************)
SectionsKept ==
    [][secret.there /\ secret'.there
          => \/ secret.have \subseteq secret'.have
             \/ \E op \in Operators : pc[op] = "race" /\ pc'[op] = "check"
      ]_vars

(***************************************************************************)
(* With at least one active provider and none switched on or off, every    *)
(* request ends: it is Completed, whatever conflicts and failing calls     *)
(* come in between, unless somebody deletes it.                            *)
(***************************************************************************)
RequestEnds ==
    (req.live /\ steady /\ Active(prov) # {})
        ~> (~req.live \/ req.status = "Completed" \/ ~steady)

-----------------------------------------------------------------------------
(* What the code does not do *)

(***************************************************************************)
(* When all is quiet, the Secret of a Completed target request holds the   *)
(* kubeconfig of every cluster it lists.                                   *)
(***************************************************************************)
Quiet == up = Operators /\ stale = {} /\ sstale = {} /\ queued = {}
         /\ \A op \in Operators : pc[op] = "idle"

SecretIsComplete ==
    kind = "targets" /\ req.status = "Completed" /\ Quiet
        /\ faults = MaxFaults
    => req.data \subseteq secret.have
-----------------------------------------------------------------------------
(* The inductive invariant behind the properties *)

(* A cached copy that has not been written over since is the stored object. *)
FreshCopies ==
    \A op \in Operators :
        /\ op \notin stale => cache[op] = req
        /\ op \notin sstale => scache[op] = secret
        /\ \A p \in Operators \ behind[op] : view[op][p] = prov[p]

(* There is one request; nothing of it is left when it is deleted, and nobody
   works on it before it is made. *)
OneRequest ==
    /\ ~req.live => req = NoRequest
    /\ kind = "none" =>
          ~req.live /\ \A op \in Operators : /\ cache[op] = NoRequest
                                             /\ pc[op] = "idle"

(* The status that a copy has, or that a step of the reconciler relies on, is
   one that the request has passed. *)
StatusKept ==
    req.live => \A op \in Operators :
        /\ cache[op].status # "" \/ pc[op] \notin {"idle", "init"} =>
              req.status # ""
        /\ cache[op].status = "Completed" => req.status = "Completed"

(* While nobody is switched on or off, what is cached and what reconcilers
   remember of the active providers is right. *)
ListsCurrent ==
    steady => \A op \in Operators :
        /\ Active(view[op]) = Active(prov)
        /\ pc[op] # "idle" => list[op] = Active(prov)

(* And a Completed request has as many parts as there are active providers. *)
EnoughParts ==
    req.live /\ req.status = "Completed" /\ steady =>
        Cardinality(req.given) >= Cardinality(Active(prov))

IInv == /\ TypeOK /\ FreshCopies /\ OneRequest /\ StatusKept
        /\ ListsCurrent /\ EnoughParts
=============================================================================
