----------------------- MODULE ProviderRequestProofs -----------------------
(***************************************************************************)
(* Proofs about ProviderRegistry and ProviderRequest, for every set of     *)
(* operators and clusters, and any number of changes and faults.           *)
(***************************************************************************)
EXTENDS ProviderRequest, FiniteSetTheorems, TLAPS

USE OperatorsAssumption, RequestAssumption

-----------------------------------------------------------------------------
(* The parts of a state *)

ObjTypeOK ==
    /\ kind \in {"none", "targets", "configs"}
    /\ req \in Request /\ cache \in [Operators -> Request]
    /\ stale \in SUBSET Operators

SecTypeOK ==
    /\ secret \in Secret /\ scache \in [Operators -> Secret]
    /\ sstale \in SUBSET Operators

RecTypeOK ==
    /\ queued \in SUBSET Operators /\ pc \in [Operators -> Steps]
    /\ list \in [Operators -> SUBSET Operators]
    /\ items \in [Operators -> SUBSET Clusters]

LEMMA TypeParts ==
  TypeOK <=> /\ RegistryTypeOK /\ ObjTypeOK /\ SecTypeOK /\ RecTypeOK
             /\ ready \in SUBSET Clusters /\ steady \in BOOLEAN /\ faults \in Nat
BY DEF TypeOK, ObjTypeOK, SecTypeOK, RecTypeOK

(***************************************************************************)
(* What a step may do, part by part.  Every action of the specification is *)
(* shown to be of this form, and the invariant to be preserved by whatever *)
(* is of this form.                                                        *)
(***************************************************************************)
RegStep ==
    /\ RegistryTypeOK' /\ steady' \in BOOLEAN
    /\ steady' => steady /\ Active(prov') = Active(prov)
    /\ \A op \in Operators :
          \/ view'[op] = prov' /\ prov' = prov
          \/ /\ view'[op] = view[op]
             /\ \A p \in Operators \ behind'[op] :
                   p \notin behind[op] /\ prov'[p] = prov[p]

(* A copy stays as it is, and behind if it was or the object is written, or
   it is brought up to date. *)
ObjCopies ==
    \A op \in Operators :
        \/ cache'[op] = req' /\ req' = req
        \/ cache'[op] = cache[op] /\ (op \notin stale' => op \notin stale
                                                            /\ req' = req)

SecCopies ==
    \A op \in Operators :
        \/ scache'[op] = secret'
        \/ scache'[op] = scache[op] /\ (op \notin sstale' => op \notin sstale
                                                               /\ secret' = secret)

Same == UNCHANGED <<kind, req>>

Posted ==
    /\ kind = "none" /\ kind' # "none"
    /\ req'.live /\ req'.status = "" /\ req'.given = {}

Removed ==
    /\ kind' = kind /\ req.live /\ req' = NoRequest
    /\ changes' = changes => req.status = "Completed"

Updated ==
    /\ kind' = kind /\ req.live /\ req'.live
    /\ \/ req'.status = req.status
          /\ \/ req'.given = req.given
             \/ \E o \in Operators : req'.given = req.given \cup {o}
       \/ /\ req.status = "" /\ req'.status = "pending"
          /\ req'.given = req.given
       \/ /\ req.status = "pending" /\ req'.status = "Completed"
          /\ req'.given = req.given /\ req.given # {}
          /\ steady => Cardinality(req.given) >= Cardinality(Active(prov))

ReqStep == Same \/ Posted \/ Removed \/ Updated

PcStep ==
    \A op \in Operators :
        \/ pc'[op] = pc[op] /\ list'[op] = list[op]
        \/ pc'[op] = "idle"
        \/ /\ kind # "none"
           /\ \/ list'[op] = list[op] /\ pc[op] # "idle"
              \/ list'[op] = Active(view[op])
           /\ \/ pc'[op] \in {"idle", "init"} \/ pc[op] \notin {"idle", "init"}
              \/ cache[op].status # "" \/ req'.status # ""

SafeStep == TypeOK' /\ RegStep /\ ObjCopies /\ SecCopies /\ ReqStep /\ PcStep

-----------------------------------------------------------------------------
(* The form preserves the invariant *)

LEMMA NullTypes == /\ NoRequest \in Request /\ ~NoRequest.live
                   /\ NoRequest.status = "" /\ NoRequest.given = {}
                   /\ NoSecret \in Secret /\ ~NoSecret.there
BY DEF NoRequest, Request, NoSecret, Secret

LEMMA ActiveType ==
  ASSUME NEW flags \in [Operators -> Flags]
  PROVE  Active(flags) \in SUBSET Operators
BY DEF Active

LEMMA GivenFinite ==
  ASSUME NEW S \in SUBSET Operators, NEW o \in Operators
  PROVE  /\ Cardinality(S) \in Nat /\ Cardinality(S \cup {o}) \in Nat
         /\ Cardinality(S \cup {o}) >= Cardinality(S)
<1>1. IsFiniteSet(S \cup {o}) /\ S \subseteq S \cup {o}
  BY FS_Subset
<1>. QED  BY <1>1, FS_Subset, FS_CardinalityType

LEMMA SafeStepHolds ==
  ASSUME IInv, SafeStep
  PROVE  IInv'
<1>. USE DEF IInv, SafeStep
<1>0. /\ req \in Request /\ req' \in Request
      /\ kind' \in {"none", "targets", "configs"}
      /\ prov \in [Operators -> Flags]
  BY DEF TypeOK, RegistryTypeOK
<1>1. FreshCopies'
  BY DEF FreshCopies, ObjCopies, SecCopies, RegStep
<1>2. OneRequest'
  <2>1. ~req'.live => req' = NoRequest
    BY DEF OneRequest, ReqStep, Same, Posted, Removed, Updated
  <2>2. kind' = "none" => kind = "none" /\ req' = req
    BY DEF OneRequest, ReqStep, Same, Posted, Removed, Updated
  <2>3. ASSUME kind = "none", req' = req, NEW op \in Operators
        PROVE  cache'[op] = NoRequest /\ pc'[op] = "idle"
    BY <2>3 DEF OneRequest, ObjCopies, PcStep
  <2>. QED  BY <2>1, <2>2, <2>3 DEF OneRequest
<1>3. StatusKept'
  <2>. SUFFICES ASSUME req'.live, NEW op \in Operators
                PROVE  /\ cache'[op].status # "" \/ pc'[op] \notin {"idle", "init"}
                             => req'.status # ""
                       /\ cache'[op].status = "Completed"
                             => req'.status = "Completed"
    BY DEF StatusKept
  <2>1. CASE Posted
    <3>1. cache[op] = NoRequest /\ pc[op] = "idle"
      BY <2>1 DEF Posted, OneRequest
    <3>2. cache'[op].status = ""
      BY <2>1, <3>1, NullTypes DEF Posted, ObjCopies
    <3>3. pc'[op] = "idle"
      BY <2>1, <3>1 DEF Posted, PcStep
    <3>. QED  BY <3>2, <3>3
  <2>2. CASE Same \/ Updated
    <3>1. /\ req.live
          /\ req.status # "" => req'.status # ""
          /\ req.status = "Completed" => req'.status = "Completed"
      BY <2>2 DEF Same, Updated
    <3>2. cache'[op] = cache[op] \/ cache'[op] = req'
      BY DEF ObjCopies
    <3>3. pc'[op] \in {"idle", "init"} \/ pc[op] \notin {"idle", "init"}
             \/ cache[op].status # "" \/ req'.status # ""
      BY DEF PcStep
    <3>. QED  BY <3>1, <3>2, <3>3 DEF StatusKept
  <2>. QED  BY <2>1, <2>2, NullTypes DEF ReqStep, Removed
<1>4. ListsCurrent'
  BY DEF ListsCurrent, RegStep, PcStep
<1>5. EnoughParts'
  <2>. SUFFICES ASSUME req'.live, req'.status = "Completed", steady'
                PROVE  Cardinality(req'.given) >= Cardinality(Active(prov))
    BY DEF EnoughParts, RegStep
  <2>1. steady /\ req.given \in SUBSET Operators
    BY <1>0 DEF RegStep, Request
  <2>2. CASE Same
    BY <2>1, <2>2 DEF Same, EnoughParts
  <2>3. CASE Updated
    <3>1. CASE req'.given = req.given
      BY <2>1, <2>3, <3>1 DEF Updated, EnoughParts
    <3>2. ASSUME NEW o \in Operators, req'.given = req.given \cup {o},
                 req.status = "Completed"
          PROVE  Cardinality(req'.given) >= Cardinality(Active(prov))
      <4>1. Cardinality(req.given) >= Cardinality(Active(prov))
        BY <2>1, <2>3, <3>2 DEF Updated, EnoughParts
      <4>2. Cardinality(Active(prov)) \in Nat
        BY <1>0, ActiveType, GivenFinite
      <4>. QED  BY <2>1, <3>2, <4>1, <4>2, GivenFinite
    <3>. QED  BY <2>3, <3>1, <3>2 DEF Updated
  <2>. QED  BY <2>2, <2>3, NullTypes DEF ReqStep, Posted, Removed
<1>. QED  BY <1>1, <1>2, <1>3, <1>4, <1>5

-----------------------------------------------------------------------------
(* Parts that a step leaves alone *)

LEMMA RegKept == TypeOK /\ UNCHANGED <<regVars, steady>> => RegStep
BY DEF RegStep, TypeOK, RegistryTypeOK, regVars

(* Requests of users and changes of targets use up a change. *)
LEMMA RegChange ==
  TypeOK /\ Change /\ UNCHANGED <<prov, view, behind, up, registering, steady>>
     => RegStep /\ changes' # changes
BY DEF RegStep, TypeOK, RegistryTypeOK, Change

LEMMA ObjKept == TypeOK /\ UNCHANGED objVars => ObjTypeOK' /\ ObjCopies /\ ReqStep
BY DEF TypeOK, ObjTypeOK, ObjCopies, ReqStep, Same, objVars

LEMMA SecKept == TypeOK /\ UNCHANGED secVars => SecTypeOK' /\ SecCopies
BY DEF TypeOK, SecTypeOK, SecCopies, secVars

LEMMA RecKept ==
  TypeOK /\ UNCHANGED <<pc, list, items>> /\ queued' \in SUBSET Operators
     => RecTypeOK' /\ PcStep
BY DEF TypeOK, RecTypeOK, PcStep

LEMMA FailType == TypeOK /\ (Fail \/ UNCHANGED faults) => faults' \in Nat
BY DEF TypeOK, Fail

LEMMA ReturnStep ==
  ASSUME TypeOK, NEW op \in Operators, Return(op), queued' \in SUBSET Operators
  PROVE  RecTypeOK' /\ PcStep
BY DEF TypeOK, RecTypeOK, PcStep, Return, Goto, Steps

LEMMA RequeueStep ==
  ASSUME TypeOK, NEW op \in Operators, Requeue(op)
  PROVE  RecTypeOK' /\ PcStep
<1>1. queued' \in SUBSET Operators
  BY DEF Requeue, TypeOK
<1>. QED  BY <1>1, ReturnStep DEF Requeue

LEMMA GotoStep ==
  ASSUME TypeOK, NEW op \in Operators, NEW step \in Steps, Goto(op, step),
         kind # "none", UNCHANGED <<queued, list>>,
         items' \in [Operators -> SUBSET Clusters],
         pc[op] # "idle",
         \/ pc[op] # "init" \/ cache[op].status # "" \/ req'.status # ""
  PROVE  RecTypeOK' /\ PcStep
BY DEF TypeOK, RecTypeOK, PcStep, Goto

(* A reconcile under way is one of a request that was made. *)
LEMMA Working ==
  ASSUME IInv, NEW op \in Operators, pc[op] # "idle" \/ cache[op].live
  PROVE  kind # "none"
BY NullTypes DEF IInv, OneRequest

LEMMA AcceptedCopy ==
  ASSUME IInv, NEW op \in Operators, Accepted(op)
  PROVE  cache[op] = req /\ req.live /\ req \in Request
BY DEF IInv, FreshCopies, TypeOK, Accepted

LEMMA StoreStep ==
  ASSUME TypeOK, NEW new \in Request, UNCHANGED cache,
         Store(new) \/ (req' = new /\ stale' = Operators),
         kind' \in {"none", "targets", "configs"}
  PROVE  ObjTypeOK' /\ ObjCopies
BY DEF TypeOK, ObjTypeOK, ObjCopies, Store

(* The update that a step of a reconcile makes, or that it is refused. *)
LEMMA AdvanceStep ==
  ASSUME IInv, NEW op \in Operators, NEW needed \in BOOLEAN, NEW new, NEW step,
         Advance(needed, op, new, step), UNCHANGED <<kind, cache>>,
         cache[op] = req /\ req \in Request /\ req.live /\ needed =>
             /\ new \in Request /\ new.live
             /\ \/ new.status = req.status
                   /\ \/ new.given = req.given
                      \/ \E o \in Operators : new.given = req.given \cup {o}
                \/ /\ req.status = "" /\ new.status = "pending"
                   /\ new.given = req.given
  PROVE  /\ ObjTypeOK' /\ ObjCopies /\ ReqStep /\ faults' \in Nat
         /\ needed => req' = new
<1>1. CASE needed
  <2>1. /\ Accepted(op) /\ Store(new) /\ UNCHANGED faults
    BY <1>1 DEF Advance
  <2>2. /\ cache[op] = req /\ req.live /\ new \in Request /\ new.live
    BY <1>1, <2>1, AcceptedCopy
  <2>3. ObjTypeOK' /\ ObjCopies
    <3>1. kind' \in {"none", "targets", "configs"} /\ TypeOK
      BY DEF IInv, TypeOK
    <3>. QED  BY <2>1, <2>2, <3>1, StoreStep
  <2>4. req' = new
    BY <2>1 DEF Store
  <2>5. Updated
    BY <1>1, <2>1, <2>2, <2>4, AcceptedCopy DEF Updated
  <2>. QED  BY <2>1, <2>3, <2>4, <2>5, FailType DEF ReqStep, IInv
<1>2. CASE ~needed
  <2>1. UNCHANGED objVars /\ UNCHANGED faults
    BY <1>2 DEF Advance, objVars
  <2>. QED  BY <1>2, <2>1, ObjKept, FailType DEF IInv
<1>. QED  BY <1>1, <1>2

LEMMA RefuseStep ==
  ASSUME IInv, NEW op \in Operators, NEW needed, Refuse(needed, op),
         UNCHANGED <<kind, cache>>
  PROVE  /\ ObjTypeOK' /\ ObjCopies /\ ReqStep /\ RecTypeOK' /\ PcStep
         /\ faults' \in Nat
<1>1. UNCHANGED objVars /\ Requeue(op) /\ TypeOK
      /\ (Fail \/ UNCHANGED faults)
  BY DEF Refuse, objVars, IInv
<1>. QED  BY <1>1, ObjKept, RequeueStep, FailType

(* The rest of a reconcile's step. *)
LEMMA SafeReconcile ==
  ASSUME IInv, UNCHANGED <<regVars, secVars, ready, steady>>,
         ObjTypeOK', ObjCopies, ReqStep, RecTypeOK', PcStep, faults' \in Nat
  PROVE  SafeStep
<1>1. RegStep /\ SecTypeOK' /\ SecCopies
  BY RegKept, SecKept DEF IInv
<1>2. ready' \in SUBSET Clusters
  BY DEF IInv, TypeOK
<1>3. TypeOK'
  BY <1>1, <1>2, TypeParts DEF RegStep, TypeOK, ObjTypeOK, SecTypeOK, RecTypeOK
<1>. QED  BY <1>1, <1>3 DEF SafeStep

-----------------------------------------------------------------------------
(* The reconcilers *)

LEMMA SkipSafe ==
  ASSUME IInv, NEW op \in Operators, TargetSkip(op) \/ ConfigSkip
  PROVE  SafeStep
<1>1. /\ UNCHANGED <<regVars, objVars, secVars, pc, list, items, ready, steady,
                     faults>>
      /\ queued' \in SUBSET Operators
  BY DEF TargetSkip, ConfigSkip, IInv, TypeOK
<1>. QED  BY <1>1, ObjKept, RecKept, FailType, SafeReconcile DEF IInv

LEMMA LabelSafe ==
  ASSUME IInv, NEW op \in Operators, ensureUUIDLabel(op), cache[op].live,
         UNCHANGED <<regVars, kind, cache, secVars, ready, steady>>
  PROVE  SafeStep
<1>. DEFINE missing == ~cache[op].label
            new  == [cache[op] EXCEPT !.label = TRUE]
            step == IF cache[op].status = "" THEN "init" ELSE "contribute"
<1>0. TypeOK /\ kind # "none"
  BY Working DEF IInv
<1>1. CASE /\ Advance(missing, op, new, step)
           /\ queued' = queued \ {op}
           /\ list' = [list EXCEPT ![op] = Active(view[op])]
           /\ UNCHANGED items
  <2>1. cache[op] \in Request
    BY <1>0 DEF TypeOK
  <2>2. /\ new \in Request /\ new.live = cache[op].live
        /\ new.status = cache[op].status /\ new.given = cache[op].given
    BY <2>1 DEF Request
  <2>3. ObjTypeOK' /\ ObjCopies /\ ReqStep /\ faults' \in Nat
    <3>. HIDE DEF new, step
    <3>1. missing \in BOOLEAN /\ Advance(missing, op, new, step)
      BY <1>1
    <3>2. new.live
      BY <2>2
    <3>. HIDE DEF missing
    <3>. QED  BY <2>2, <3>1, <3>2, AdvanceStep
  <2>4. RecTypeOK'
    <3>1. Active(view[op]) \in SUBSET Operators
      BY <1>0, ActiveType DEF TypeOK, RegistryTypeOK
    <3>2. step \in Steps /\ pc' = [pc EXCEPT ![op] = step]
      BY <1>1 DEF Steps, Advance, Goto
    <3>. QED  BY <1>0, <1>1, <3>1, <3>2 DEF TypeOK, RecTypeOK
  <2>5. PcStep
    <3>1. pc' = [pc EXCEPT ![op] = step]
      BY <1>1 DEF Advance, Goto
    <3>. QED  BY <1>0, <1>1, <3>1 DEF TypeOK, PcStep
  <2>. QED  BY <2>3, <2>4, <2>5, SafeReconcile
<1>2. CASE Refuse(missing, op)
  BY <1>2, RefuseStep, SafeReconcile
<1>. QED  BY <1>1, <1>2 DEF ensureUUIDLabel

LEMMA FetchSafe ==
  ASSUME IInv, NEW op \in Operators,
         TargetFetch(op) \/ (op = Self /\ ConfigFetch)
  PROVE  SafeStep
BY LabelSafe DEF TargetFetch, ConfigFetch

LEMMA InitializeSafe ==
  ASSUME IInv, NEW op \in Operators, initializeStatus(op)
  PROVE  SafeStep
<1>. DEFINE fresh == cache[op].status = ""
            new   == initialised(cache[op])
<1>0. /\ TypeOK /\ kind # "none" /\ pc[op] = "init"
      /\ UNCHANGED <<regVars, kind, cache, secVars, ready, steady>>
  BY Working DEF IInv, initializeStatus, At
<1>1. CASE /\ Advance(fresh, op, new, "contribute")
           /\ UNCHANGED <<queued, list, items>>
  <2>1. cache[op] \in Request /\ cache[op].live
    BY <1>0 DEF TypeOK, initializeStatus
  <2>2. /\ new \in Request /\ new.live
        /\ new.status = "pending" /\ new.given = cache[op].given
    BY <2>1 DEF initialised, Request
  <2>3. /\ ObjTypeOK' /\ ObjCopies /\ ReqStep /\ faults' \in Nat
        /\ fresh => req' = new
    <3>1. fresh \in BOOLEAN /\ (cache[op] = req /\ fresh => req.status = "")
      OBVIOUS
    <3>. HIDE DEF fresh, new
    <3>. QED  BY <1>0, <1>1, <2>2, <3>1, AdvanceStep
  <2>4. Goto(op, "contribute") /\ "contribute" \in Steps
    BY <1>1 DEF Advance, Steps
  <2>5. items' \in [Operators -> SUBSET Clusters]
    BY <1>0, <1>1 DEF TypeOK
  <2>6. cache[op].status # "" \/ req'.status # ""
    BY <2>2, <2>3
  <2>7. RecTypeOK' /\ PcStep
    BY <1>0, <1>1, <2>4, <2>5, <2>6, GotoStep
  <2>. QED  BY <1>0, <2>3, <2>7, SafeReconcile
<1>2. CASE Refuse(fresh, op)
  BY <1>0, <1>2, RefuseStep, SafeReconcile
<1>. QED  BY <1>1, <1>2 DEF initializeStatus

LEMMA TargetDataSafe ==
  ASSUME IInv, NEW op \in Operators, updateTargetData(op)
  PROVE  SafeStep
<1>. DEFINE new == withTargetData(cache[op], op, ready)
<1>0. /\ TypeOK /\ kind # "none" /\ pc[op] = "contribute"
      /\ UNCHANGED <<regVars, kind, cache, secVars, ready, steady>>
  BY Working DEF IInv, updateTargetData, At
<1>1. CASE /\ Advance(TRUE, op, new, "secret")
           /\ items' = [items EXCEPT ![op] = ready]
           /\ UNCHANGED <<queued, list>>
  <2>1. /\ cache[op] \in Request /\ cache[op].live /\ ready \in SUBSET Clusters
    BY <1>0 DEF TypeOK, updateTargetData
  <2>2. /\ new \in Request /\ new.live /\ new.status = cache[op].status
        /\ new.given = cache[op].given \cup {op}
    BY <2>1 DEF withTargetData, Request
  <2>3. ObjTypeOK' /\ ObjCopies /\ ReqStep /\ faults' \in Nat
    <3>. HIDE DEF new
    <3>. QED  BY <1>0, <1>1, <2>2, AdvanceStep
  <2>4. Goto(op, "secret") /\ "secret" \in Steps
    BY <1>1 DEF Advance, Steps
  <2>5. items' \in [Operators -> SUBSET Clusters]
    BY <1>0, <1>1, <2>1 DEF TypeOK
  <2>6. RecTypeOK' /\ PcStep
    BY <1>0, <1>1, <2>4, <2>5, GotoStep
  <2>. QED  BY <1>0, <2>3, <2>6, SafeReconcile
<1>2. CASE Refuse(TRUE, op)
  BY <1>0, <1>2, RefuseStep, SafeReconcile
<1>. QED  BY <1>1, <1>2 DEF updateTargetData

LEMMA ConfigDataType ==
  ASSUME NEW copy \in Request, NEW op \in Operators
  PROVE  LET new == withConfigData(copy, op)
         IN  /\ new \in Request /\ new.live = copy.live
             /\ new.status = copy.status /\ new.given = copy.given \cup {op}
BY DEF withConfigData, Request

LEMMA ContributeConfigSafe ==
  ASSUME IInv, ContributeConfig
  PROVE  SafeStep
<1>. DEFINE due == view[Self][Self] = "active" /\ Self \notin cache[Self].given
            new == withConfigData(cache[Self], Self)
<1>0. /\ TypeOK /\ kind # "none" /\ pc[Self] = "contribute"
      /\ UNCHANGED <<regVars, kind, cache, secVars, ready, steady>>
  BY Working DEF IInv, ContributeConfig, At
<1>1. CASE /\ Advance(due, Self, new, "check")
           /\ UNCHANGED <<queued, list, items>>
  <2>1. cache[Self] \in Request /\ cache[Self].live
    BY <1>0 DEF TypeOK, ContributeConfig
  <2>2. /\ new \in Request /\ new.live /\ new.status = cache[Self].status
        /\ new.given = cache[Self].given \cup {Self}
    BY <2>1, ConfigDataType
  <2>3. ObjTypeOK' /\ ObjCopies /\ ReqStep /\ faults' \in Nat
    <3>1. due \in BOOLEAN
      OBVIOUS
    <3>. HIDE DEF new, due
    <3>. QED  BY <1>0, <1>1, <2>2, <3>1, AdvanceStep
  <2>4. Goto(Self, "check") /\ "check" \in Steps
    BY <1>1 DEF Advance, Steps
  <2>5. items' \in [Operators -> SUBSET Clusters]
    BY <1>0, <1>1 DEF TypeOK
  <2>6. RecTypeOK' /\ PcStep
    BY <1>0, <1>1, <2>4, <2>5, GotoStep
  <2>. QED  BY <1>0, <2>3, <2>6, SafeReconcile
<1>2. CASE Refuse(due, Self)
  BY <1>0, <1>2, RefuseStep, SafeReconcile
<1>. QED  BY <1>1, <1>2 DEF ContributeConfig

LEMMA UpdateProviderConfigSafe ==
  ASSUME IInv, NEW op \in Operators, UpdateProviderConfig(op)
  PROVE  SafeStep
<1>. DEFINE new == withConfigData(cache[op], op)
<1>0. /\ TypeOK /\ queued' \in SUBSET Operators
      /\ UNCHANGED <<regVars, kind, cache, secVars, pc, list, items, ready,
                     steady, faults>>
  BY DEF IInv, TypeOK, UpdateProviderConfig
<1>1. RecTypeOK' /\ PcStep /\ faults' \in Nat
  BY <1>0, RecKept, FailType
<1>2. CASE cache[op].live /\ op \notin cache[op].given
  <2>1. Accepted(op) /\ Store(new)
    BY <1>2 DEF UpdateProviderConfig
  <2>2. cache[op] = req /\ req.live /\ req \in Request
    BY <2>1, AcceptedCopy
  <2>3. /\ new \in Request /\ new.live /\ new.status = req.status
        /\ new.given = req.given \cup {op}
    BY <2>2, ConfigDataType
  <2>. HIDE DEF new
  <2>4. ObjTypeOK' /\ ObjCopies
    <3>1. kind' \in {"none", "targets", "configs"}
      BY <1>0 DEF TypeOK
    <3>. QED  BY <1>0, <2>1, <2>3, <3>1, StoreStep
  <2>5. Updated
    BY <1>0, <2>1, <2>2, <2>3 DEF Updated, Store
  <2>. QED  BY <1>0, <1>1, <2>4, <2>5, SafeReconcile DEF ReqStep
<1>3. CASE ~(cache[op].live /\ op \notin cache[op].given)
  <2>1. UNCHANGED objVars
    BY <1>0, <1>3 DEF UpdateProviderConfig, objVars
  <2>. QED  BY <1>0, <1>1, <2>1, ObjKept, SafeReconcile
<1>. QED  BY <1>2, <1>3

(* A deletion, decided on a copy that says Completed. *)
LEMMA DeleteStep ==
  ASSUME IInv, Delete, UNCHANGED <<kind, cache>>,
         req.live /\ changes' = changes => req.status = "Completed"
  PROVE  ObjTypeOK' /\ ObjCopies /\ ReqStep
<1>1. ObjTypeOK'
  BY NullTypes DEF IInv, TypeOK, ObjTypeOK, Delete
<1>2. ~req.live => req = NoRequest
  BY DEF IInv, OneRequest
<1>3. ObjCopies
  BY <1>2 DEF ObjCopies, Delete
<1>4. ReqStep
  BY <1>2 DEF ReqStep, Same, Removed, Delete
<1>. QED  BY <1>1, <1>3, <1>4

LEMMA ExpiredCopy ==
  ASSUME IInv, NEW op \in Operators, mayExpire(cache[op]), req.live
  PROVE  req.status = "Completed"
BY DEF IInv, StatusKept, mayExpire

LEMMA CompletionSafe ==
  ASSUME IInv, NEW op \in Operators, checkCompletion(op)
  PROVE  SafeStep
<1>. DEFINE all == allContributed(cache[op], list[op])
            new == [cache[op] EXCEPT !.status = "Completed"]
<1>0. /\ TypeOK /\ kind # "none" /\ pc[op] = "check"
      /\ UNCHANGED <<regVars, kind, cache, secVars, ready, steady>>
  BY Working DEF IInv, checkCompletion, At
<1>1. CASE Refuse(all, op)
  BY <1>0, <1>1, RefuseStep, SafeReconcile
<1>2. CASE Return(op) /\ UNCHANGED <<queued, faults>>
  <2>1. RecTypeOK' /\ PcStep /\ faults' \in Nat
    BY <1>0, <1>2, ReturnStep, FailType DEF TypeOK
  <2>2. CASE mayExpire(cache[op]) /\ Delete
    BY <1>0, <2>1, <2>2, ExpiredCopy, DeleteStep, SafeReconcile
  <2>3. CASE UNCHANGED <<req, stale>>
    <3>1. UNCHANGED objVars
      BY <1>0, <2>3 DEF objVars
    <3>. QED  BY <1>0, <2>1, <3>1, ObjKept, SafeReconcile
  <2>4. CASE all /\ Accepted(op) /\ StoreCompleted(cache[op])
    <3>0. Store(new) \/ (req' = new /\ stale' = Operators)
      BY <2>4 DEF StoreCompleted, Store
    <3>1. cache[op] = req /\ req.live /\ req \in Request
      BY <2>4, AcceptedCopy
    <3>2. /\ new \in Request /\ new.live /\ new.status = "Completed"
          /\ new.given = req.given
      BY <3>1 DEF Request
    <3>3. ObjTypeOK' /\ ObjCopies
      <4>1. kind' \in {"none", "targets", "configs"}
        BY <1>0 DEF TypeOK
      <4>. HIDE DEF new
      <4>. QED  BY <1>0, <3>0, <3>2, <4>1, StoreStep
    <3>4. req.status \in {"pending", "Completed"}
      BY <1>0, <3>1 DEF IInv, StatusKept, Request
    <3>5. req.given # {}
      <4>1. /\ Cardinality(list[op]) > 0
            /\ Cardinality(req.given) >= Cardinality(list[op])
        BY <2>4, <3>1 DEF allContributed
      <4>2. Cardinality(list[op]) \in Nat
        BY <1>0, GivenFinite DEF TypeOK
      <4>. QED  BY <4>1, <4>2, FS_EmptySet
    <3>6. steady => Cardinality(req.given) >= Cardinality(Active(prov))
      BY <1>0, <2>4, <3>1 DEF allContributed, IInv, ListsCurrent
    <3>7. Updated
      <4>1. req' = new
        BY <3>0 DEF Store
      <4>. HIDE DEF new
      <4>. QED  BY <1>0, <3>1, <3>2, <3>4, <3>5, <3>6, <4>1 DEF Updated
    <3>. QED  BY <1>0, <2>1, <3>3, <3>7, SafeReconcile DEF ReqStep
  <2>. QED  BY <1>1, <2>2, <2>3, <2>4 DEF checkCompletion
<1>. QED  BY <1>1, <1>2 DEF checkCompletion

LEMMA RefetchSafe ==
  ASSUME IInv, NEW op \in Operators, RefetchFails(op)
  PROVE  SafeStep
<1>1. /\ UNCHANGED <<regVars, objVars, secVars, ready, steady, faults>>
      /\ Requeue(op) /\ TypeOK
  BY DEF RefetchFails, IInv
<1>. QED  BY <1>1, ObjKept, RequeueStep, FailType, SafeReconcile

-----------------------------------------------------------------------------
(* The Secret *)

LEMMA StoreSecretStep ==
  ASSUME TypeOK, NEW new \in Secret, StoreSecret(new), UNCHANGED scache
  PROVE  SecTypeOK' /\ SecCopies
BY DEF TypeOK, SecTypeOK, SecCopies, StoreSecret

LEMMA SafeSecret ==
  ASSUME IInv, UNCHANGED <<regVars, objVars, ready, steady>>,
         SecTypeOK', SecCopies, RecTypeOK', PcStep, faults' \in Nat
  PROVE  SafeStep
<1>1. RegStep /\ ObjTypeOK' /\ ObjCopies /\ ReqStep
  BY RegKept, ObjKept DEF IInv
<1>2. ready' \in SUBSET Clusters
  BY DEF IInv, TypeOK
<1>3. TypeOK'
  BY <1>1, <1>2 DEF RegStep, TypeOK, ObjTypeOK, SecTypeOK, RecTypeOK
<1>. QED  BY <1>1, <1>3 DEF SafeStep

LEMMA SectionType ==
  ASSUME TypeOK, NEW op \in Operators, NEW found \in SUBSET items[op]
  PROVE  /\ {op} \X found \in SUBSET (Operators \X Clusters)
         /\ [there |-> TRUE, have |-> {op} \X found] \in Secret
         /\ [secret EXCEPT !.have = {op} \X found] \in Secret
         /\ [secret EXCEPT !.have = mergedSections(scache[op], op, found)]
               \in Secret
         /\ [items EXCEPT ![op] = found] \in [Operators -> SUBSET Clusters]
<1>1. found \in SUBSET Clusters /\ items \in [Operators -> SUBSET Clusters]
  BY DEF TypeOK
<1>2. {op} \X found \in SUBSET (Operators \X Clusters)
  BY <1>1
<1>3. secret \in Secret /\ scache[op].have \in SUBSET (Operators \X Clusters)
  BY DEF TypeOK, Secret
<1>. QED  BY <1>1, <1>2, <1>3 DEF Secret, mergedSections

LEMMA SecretSafe ==
  ASSUME IInv, NEW op \in Operators,
         UpdateSecret(op) \/ CreateSecret(op) \/ OverwriteSecret(op)
  PROVE  SafeStep
<1>0. /\ TypeOK /\ pc[op] # "idle" /\ pc[op] # "init" /\ kind # "none"
      /\ UNCHANGED <<regVars, objVars, scache, ready, steady>>
  BY Working DEF IInv, UpdateSecret, CreateSecret, OverwriteSecret, SecretStep, At
<1>1. faults' \in Nat
  BY <1>0, FailType
  DEF UpdateSecret, CreateSecret, OverwriteSecret, Kubeconfigs
<1>2. ASSUME Requeue(op), UNCHANGED <<secret, sstale>> PROVE SafeStep
  <2>1. UNCHANGED secVars
    BY <1>0, <1>2 DEF secVars
  <2>. QED  BY <1>0, <1>1, <1>2, <2>1, SecKept, RequeueStep, SafeSecret
<1>3. ASSUME Goto(op, "check"), UNCHANGED <<queued, list, items>>,
             NEW new \in Secret, StoreSecret(new)
      PROVE  SafeStep
  <2>1. SecTypeOK' /\ SecCopies
    BY <1>0, <1>3, StoreSecretStep
  <2>2. items' \in [Operators -> SUBSET Clusters] /\ "check" \in Steps
    BY <1>0, <1>3 DEF TypeOK, Steps
  <2>3. RecTypeOK' /\ PcStep
    BY <1>0, <1>3, <2>2, GotoStep
  <2>. QED  BY <1>0, <1>1, <2>1, <2>3, SafeSecret
<1>4. CASE UpdateSecret(op)
  BY <1>0, <1>2, <1>3, <1>4, SectionType DEF UpdateSecret
<1>5. CASE CreateSecret(op)
  <2>1. ASSUME Goto(op, "race"), UNCHANGED <<secret, sstale, queued, list>>,
               NEW found \in SUBSET items[op],
               items' = [items EXCEPT ![op] = found]
        PROVE  SafeStep
    <3>1. UNCHANGED secVars
      BY <1>0, <2>1 DEF secVars
    <3>2. items' \in [Operators -> SUBSET Clusters] /\ "race" \in Steps
      BY <1>0, <2>1, SectionType DEF Steps
    <3>3. RecTypeOK' /\ PcStep
      BY <1>0, <2>1, <3>2, GotoStep
    <3>. QED  BY <1>0, <1>1, <3>1, <3>3, SecKept, SafeSecret
  <2>. QED  BY <1>0, <1>2, <1>3, <1>5, <2>1, SectionType DEF CreateSecret
<1>6. CASE OverwriteSecret(op)
  <2>1. [secret EXCEPT !.have = {op} \X items[op]] \in Secret
    BY <1>0, SectionType
  <2>. QED  BY <1>2, <1>3, <1>6, <2>1 DEF OverwriteSecret
<1>. QED  BY <1>4, <1>5, <1>6

-----------------------------------------------------------------------------
(* The REST API, the caches and the registry *)

(* Steps that leave the reconcilers alone. *)
LEMMA SafeOutside ==
  ASSUME IInv, RegStep, ObjTypeOK', ObjCopies, ReqStep, SecTypeOK', SecCopies,
         RecTypeOK', PcStep, ready' \in SUBSET Clusters, faults' = faults
  PROVE  SafeStep
<1>1. TypeOK'
  BY DEF IInv, RegStep, TypeOK, ObjTypeOK, SecTypeOK, RecTypeOK
<1>. QED  BY <1>1 DEF SafeStep

LEMMA RecVarsKept == TypeOK /\ UNCHANGED recVars => RecTypeOK' /\ PcStep
BY DEF TypeOK, RecTypeOK, PcStep, recVars

LEMMA PostSafe ==
  ASSUME IInv, PostTarget \/ PostProviderConfig
  PROVE  SafeStep
<1>1. PICK k \in {"targets", "configs"}, new \in Request :
         /\ PostRequest(k, new)
         /\ new.live /\ new.status = "" /\ new.given = {}
  <2>. DEFINE target == [NoRequest EXCEPT !.live = TRUE]
              config == [NoRequest EXCEPT !.live = TRUE, !.label = TRUE]
  <2>1. \A new \in {target, config} :
           /\ new \in Request /\ new.live /\ new.status = "" /\ new.given = {}
    BY DEF NoRequest, Request
  <2>2. PostRequest("targets", target) \/ PostRequest("configs", config)
    BY DEF PostTarget, PostProviderConfig
  <2>. HIDE DEF target, config
  <2>. QED  BY <2>1, <2>2
<1>2. /\ kind = "none" /\ kind' = k /\ Store(new) /\ TypeOK
      /\ UNCHANGED <<regVars, cache, secVars, recVars, ready, steady, faults>>
  BY <1>1 DEF PostRequest, IInv
<1>3. ObjTypeOK' /\ ObjCopies
  BY <1>2, StoreStep
<1>4. ReqStep
  BY <1>1, <1>2 DEF Store, ReqStep, Posted
<1>. QED  BY <1>2, <1>3, <1>4, RegKept, SecKept, RecVarsKept, SafeOutside
          DEF TypeOK

LEMMA UserDeleteSafe ==
  ASSUME IInv, DeleteTargetByUUID \/ UpdateProviderConfigValues
  PROVE  SafeStep
<1>1. /\ Change /\ Delete /\ TypeOK
      /\ UNCHANGED <<prov, view, behind, up, registering, kind, cache,
                     secVars, recVars, ready, steady, faults>>
  BY DEF DeleteTargetByUUID, UpdateProviderConfigValues, UserDelete, IInv
<1>2. RegStep /\ changes' # changes
  BY <1>1, RegChange
<1>. QED  BY <1>1, <1>2, DeleteStep, SecKept, RecVarsKept, SafeOutside
          DEF TypeOK

LEMMA CleanupSafe ==
  ASSUME IInv, NEW op \in Operators, CleanupOldResources(op)
  PROVE  SafeStep
<1>1. /\ mayExpire(cache[op]) /\ Delete /\ TypeOK
      /\ UNCHANGED <<regVars, kind, cache, secVars, recVars, ready, steady,
                     faults>>
  BY DEF CleanupOldResources, IInv
<1>. QED  BY <1>1, ExpiredCopy, DeleteStep, RegKept, SecKept, RecVarsKept,
             SafeOutside DEF TypeOK

LEMMA DeliverSafe ==
  ASSUME IInv, NEW op \in Operators, Deliver(op) \/ DeliverSecret(op)
  PROVE  SafeStep
<1>1. CASE Deliver(op)
  <2>1. /\ UNCHANGED <<regVars, kind, req, secVars, pc, list, items, ready,
                       steady, faults>>
        /\ queued' \in SUBSET Operators /\ TypeOK
    BY <1>1 DEF Deliver, IInv, TypeOK
  <2>2. ObjTypeOK' /\ ObjCopies
    BY <1>1, <2>1 DEF Deliver, TypeOK, ObjTypeOK, ObjCopies
  <2>. QED  BY <2>1, <2>2, RegKept, SecKept, RecKept, SafeOutside
            DEF TypeOK, ReqStep, Same
<1>2. CASE DeliverSecret(op)
  <2>1. /\ UNCHANGED <<regVars, objVars, secret, recVars, ready, steady, faults>>
        /\ TypeOK
    BY <1>2 DEF DeliverSecret, IInv
  <2>2. SecTypeOK' /\ SecCopies
    BY <1>2, <2>1 DEF DeliverSecret, TypeOK, SecTypeOK, SecCopies
  <2>. QED  BY <2>1, <2>2, RegKept, ObjKept, RecVarsKept, SafeOutside DEF TypeOK
<1>. QED  BY <1>1, <1>2

LEMMA SurroundingsSafe ==
  ASSUME IInv, CollectGarbage \/ \E c \in Clusters : TargetChanges(c)
  PROVE  SafeStep
<1>1. CASE CollectGarbage
  <2>1. /\ UNCHANGED <<regVars, objVars, scache, recVars, ready, steady, faults>>
        /\ StoreSecret(NoSecret) /\ TypeOK
    BY <1>1 DEF CollectGarbage, IInv
  <2>2. SecTypeOK' /\ SecCopies
    BY <2>1, NullTypes, StoreSecretStep
  <2>. QED  BY <2>1, <2>2, RegKept, ObjKept, RecVarsKept, SafeOutside DEF TypeOK
<1>2. ASSUME NEW c \in Clusters, TargetChanges(c) PROVE SafeStep
  <2>1. /\ UNCHANGED <<prov, view, behind, up, registering, objVars, secVars,
                       recVars, steady, faults>>
        /\ Change /\ TypeOK /\ ready' \in SUBSET Clusters
    BY <1>2 DEF TargetChanges, IInv, TypeOK
  <2>. QED  BY <2>1, RegChange, ObjKept, SecKept, RecVarsKept, SafeOutside
<1>. QED  BY <1>1, <1>2

(* The registry: an object is written, and every copy of it is behind, or the
   copies of one operator are brought up to date. *)
LEMMA RegStoreStep ==
  ASSUME TypeOK, Switch, NEW p \in Operators, NEW flag \in Flags,
         StoreProvider(p, flag) \/ UNCHANGED <<prov, behind>>,
         UNCHANGED view, up' \in SUBSET Operators, registering' \in SUBSET up',
         changes' \in Nat
  PROVE  RegStep
<1>1. /\ steady' \in BOOLEAN
      /\ steady' => steady /\ Active(prov') = Active(prov)
  BY DEF Switch
<1>2. RegistryTypeOK'
  BY DEF TypeOK, RegistryTypeOK, StoreProvider
<1>3. \A op \in Operators : \A q \in Operators \ behind'[op] :
         q \notin behind[op] /\ prov'[q] = prov[q]
  BY DEF TypeOK, RegistryTypeOK, StoreProvider
<1>. QED  BY <1>1, <1>2, <1>3 DEF RegStep

LEMMA RegDeliverStep ==
  ASSUME TypeOK, Switch, NEW op \in Operators, UNCHANGED prov,
         view' = [view EXCEPT ![op] = prov],
         behind' = [behind EXCEPT ![op] = {}],
         up' \in SUBSET Operators, registering' \in SUBSET up', changes' \in Nat
  PROVE  RegStep
<1>1. /\ steady' \in BOOLEAN
      /\ steady' => steady /\ Active(prov') = Active(prov)
  BY DEF Switch
<1>2. RegistryTypeOK'
  BY DEF TypeOK, RegistryTypeOK
<1>3. /\ view'[op] = prov' /\ prov' = prov
      /\ \A q \in Operators \ {op} :
            view'[q] = view[q] /\ behind'[q] = behind[q]
  BY DEF TypeOK, RegistryTypeOK
<1>. QED  BY <1>1, <1>2, <1>3 DEF RegStep

LEMMA ChangeType == TypeOK /\ (Change \/ UNCHANGED changes) => changes' \in Nat
BY DEF TypeOK, RegistryTypeOK, Change

LEMMA StopSafe ==
  ASSUME IInv, NEW op \in Operators, Stop(op), Switch
  PROVE  SafeStep
<1>1. /\ Return(op) /\ queued' \in SUBSET Operators /\ TypeOK
      /\ UNCHANGED <<objVars, secVars, ready, faults>>
  BY DEF Stop, IInv, TypeOK
<1>2. /\ UNCHANGED view /\ up' = up \ {op} /\ (Change \/ UNCHANGED changes)
      /\ registering' = registering \ {op} \/
            (registering' = registering /\ op \notin registering)
      /\ StoreProvider(op, "inactive") \/ UNCHANGED <<prov, behind>>
  BY DEF Stop, deactivateProvider, Crash, ensureProviderFails
<1>3. /\ up' \in SUBSET Operators /\ registering' \in SUBSET up'
      /\ changes' \in Nat /\ "inactive" \in Flags
  BY <1>1, <1>2, ChangeType DEF TypeOK, RegistryTypeOK, Flags
<1>4. RegStep
  BY <1>1, <1>2, <1>3, RegStoreStep
<1>. QED  BY <1>1, <1>4, ObjKept, SecKept, ReturnStep, SafeOutside DEF TypeOK

LEMMA StartSafe ==
  ASSUME IInv, NEW op \in Operators, Start(op), Switch
  PROVE  SafeStep
<1>1. /\ StartProcess(op) /\ queued' \in SUBSET Operators /\ TypeOK
      /\ UNCHANGED <<kind, req, secret, pc, list, items, ready, faults>>
  BY DEF Start, IInv, TypeOK
<1>2. /\ up' \in SUBSET Operators /\ registering' \in SUBSET up'
      /\ changes' \in Nat
  BY <1>1, ChangeType DEF StartProcess, TypeOK, RegistryTypeOK
<1>3. RegStep
  BY <1>1, <1>2, RegDeliverStep DEF StartProcess
<1>4. ObjTypeOK' /\ ObjCopies
  BY <1>1 DEF Start, TypeOK, ObjTypeOK, ObjCopies
<1>5. SecTypeOK' /\ SecCopies
  BY <1>1 DEF Start, TypeOK, SecTypeOK, SecCopies
<1>. QED  BY <1>1, <1>3, <1>4, <1>5, RecKept, SafeOutside
          DEF TypeOK, ReqStep, Same

LEMMA RegistrySafe ==
  ASSUME IInv, NEW op \in Operators, Registry(op), Switch
  PROVE  SafeStep
<1>1. TypeOK /\ UNCHANGED <<objVars, secVars, recVars, ready, faults>>
  BY DEF Registry, IInv
<1>2. RegStep
  <2>1. CASE ensureProvider(op)
    <3>1. /\ up' \in SUBSET Operators /\ registering' \in SUBSET up'
          /\ changes' \in Nat /\ UNCHANGED view /\ "active" \in Flags
          /\ StoreProvider(op, "active") \/ UNCHANGED <<prov, behind>>
      BY <1>1, <2>1 DEF ensureProvider, TypeOK, RegistryTypeOK, Flags
    <3>. QED  BY <1>1, <3>1, RegStoreStep
  <2>2. CASE updateHeartbeat(op)
    <3>1. /\ up' \in SUBSET Operators /\ registering' \in SUBSET up'
          /\ changes' \in Nat /\ UNCHANGED view /\ prov[op] \in Flags
          /\ StoreProvider(op, prov[op])
      BY <1>1, <2>2, ChangeType DEF updateHeartbeat, TypeOK, RegistryTypeOK
    <3>. QED  BY <1>1, <3>1, RegStoreStep
  <2>3. ASSUME NEW flag \in Flags, UpdateProviderStatus(Self, op, flag)
        PROVE  RegStep
    <3>1. /\ up' \in SUBSET Operators /\ registering' \in SUBSET up'
          /\ changes' \in Nat /\ UNCHANGED view /\ StoreProvider(op, flag)
      BY <1>1, <2>3, ChangeType DEF UpdateProviderStatus, TypeOK, RegistryTypeOK
    <3>. QED  BY <1>1, <3>1, RegStoreStep
  <2>4. CASE DeliverProviders(op)
    <3>1. /\ up' \in SUBSET Operators /\ registering' \in SUBSET up'
          /\ changes' \in Nat
      BY <1>1, <2>4 DEF DeliverProviders, TypeOK, RegistryTypeOK
    <3>. QED  BY <1>1, <2>4, <3>1, RegDeliverStep DEF DeliverProviders
  <2>. QED  BY <2>1, <2>2, <2>3, <2>4 DEF Registry
<1>. QED  BY <1>1, <1>2, ObjKept, SecKept, RecVarsKept, SafeOutside DEF TypeOK

-----------------------------------------------------------------------------
(* The inductive invariant *)

LEMMA NextSafe == IInv /\ Next => SafeStep
<1>. SUFFICES ASSUME IInv, Next PROVE SafeStep
  OBVIOUS
<1>1. ASSUME NEW op \in Operators, Reconcile(op) PROVE SafeStep
  BY <1>1, SkipSafe, FetchSafe, InitializeSafe, TargetDataSafe, SecretSafe,
     ContributeConfigSafe, UpdateProviderConfigSafe, CompletionSafe, RefetchSafe
  DEF Reconcile, TargetReconcile, ConfigReconcile
<1>2. CASE Environment
  BY <1>2, PostSafe, UserDeleteSafe, CleanupSafe, DeliverSafe,
     SurroundingsSafe, StopSafe, StartSafe, RegistrySafe DEF Environment
<1>. QED  BY <1>1, <1>2 DEF Next

LEMMA InitHolds == Init => IInv
<1>. SUFFICES ASSUME Init PROVE IInv
  OBVIOUS
<1>1. RegistryTypeOK
  BY DEF Init, RegistryInit, RegistryTypeOK, Flags, Active
<1>2. TypeOK
  BY <1>1, NullTypes DEF Init, TypeOK, Steps
<1>3. FreshCopies /\ ListsCurrent
  BY DEF Init, RegistryInit, FreshCopies, ListsCurrent
<1>4. OneRequest /\ StatusKept /\ EnoughParts
  BY NullTypes DEF Init, OneRequest, StatusKept, EnoughParts
<1>. QED  BY <1>2, <1>3, <1>4 DEF IInv

LEMMA StutterSafe == IInv /\ UNCHANGED vars => SafeStep
<1>. SUFFICES ASSUME IInv, UNCHANGED vars PROVE SafeStep
  OBVIOUS
<1>1. /\ TypeOK /\ ready' \in SUBSET Clusters
      /\ UNCHANGED <<regVars, objVars, secVars, recVars, steady, faults>>
  BY DEF vars, IInv, TypeOK
<1>. QED  BY <1>1, RegKept, ObjKept, SecKept, RecVarsKept, SafeOutside

LEMMA AlwaysIInv == Spec => []IInv
<1>1. IInv /\ [Next]_vars => IInv'
  BY NextSafe, SafeStepHolds, StutterSafe
<1>. QED  BY <1>1, InitHolds, PTL DEF Spec

-----------------------------------------------------------------------------
(* What follows *)

(* Every variable has its type: no request has a status that is unknown, and
   no process that does not run is registering. *)
THEOREM TypeCorrect == Spec => []TypeOK
<1>1. IInv => TypeOK
  BY DEF IInv
<1>. QED  BY <1>1, AlwaysIInv, PTL

(***************************************************************************)
(* The two numbers that checkCompletion compares mean that every active    *)
(* provider has contributed, while nobody is switched on or off and only   *)
(* active providers have contributed.                                      *)
(***************************************************************************)
THEOREM CompletionIsComplete == Spec => []CompletedMeansAll
<1>1. IInv => CompletedMeansAll
  <2>. SUFFICES ASSUME IInv, req.live, req.status = "Completed", steady,
                       req.given \subseteq Active(prov)
                PROVE  Active(prov) \subseteq req.given
    BY DEF CompletedMeansAll
  <2>1. Active(prov) \in SUBSET Operators
    BY ActiveType DEF IInv, TypeOK, RegistryTypeOK
  <2>2. Cardinality(req.given) >= Cardinality(Active(prov))
    BY DEF IInv, EnoughParts
  <2>3. IsFiniteSet(Active(prov))
    BY <2>1, FS_Subset
  <2>4. /\ Cardinality(req.given) <= Cardinality(Active(prov))
        /\ Cardinality(req.given) = Cardinality(Active(prov))
              => req.given = Active(prov)
    BY <2>3, FS_Subset
  <2>5. Cardinality(req.given) \in Nat /\ Cardinality(Active(prov)) \in Nat
    BY <2>3, FS_Subset, FS_CardinalityType
  <2>. QED  BY <2>2, <2>4, <2>5
<1>. QED  BY <1>1, AlwaysIInv, PTL

(***************************************************************************)
(* CleanupOldResources and the clean-up that ends a reconcile decide on a  *)
(* cached copy, and remove only requests that are Completed.               *)
(***************************************************************************)
THEOREM CleanupIsGuarded == Spec => CleanupOnlyCompleted
<1>1. IInv /\ [Next]_vars =>
         (req.live /\ ~req'.live /\ changes' = changes
             => req.status = "Completed")
  <2>1. IInv /\ SafeStep =>
           (req.live /\ ~req'.live /\ changes' = changes
               => req.status = "Completed")
    BY DEF SafeStep, ReqStep, Same, Posted, Removed, Updated
  <2>. QED  BY <2>1, NextSafe DEF vars, objVars
<1>. QED  BY <1>1, AlwaysIInv, PTL DEF Spec, CleanupOnlyCompleted

(* Only three steps write the Secret. *)
LEMMA SecretStepKeeps ==
  ASSUME IInv, [Next]_vars, secret.there, secret'.there
  PROVE  \/ secret.have \subseteq secret'.have
         \/ \E op \in Operators : pc[op] = "race" /\ pc'[op] = "check"
<1>1. CASE UNCHANGED secret
  BY <1>1
<1>2. ASSUME NEW op \in Operators, UpdateSecret(op)
      PROVE  secret.have \subseteq secret'.have
  <2>1. CASE UNCHANGED secret
    BY <2>1
  <2>2. ASSUME op \notin sstale, NEW found \in SUBSET items[op],
               StoreSecret([secret EXCEPT
                   !.have = mergedSections(scache[op], op, found)])
        PROVE  secret.have \subseteq secret'.have
    <3>1. scache[op] = secret /\ secret \in Secret
      BY <2>2 DEF IInv, FreshCopies, TypeOK
    <3>. QED  BY <2>2, <3>1 DEF StoreSecret, mergedSections, Secret
  <2>. QED  BY <1>2, <2>1, <2>2 DEF UpdateSecret
<1>3. ASSUME NEW op \in Operators, CreateSecret(op) PROVE UNCHANGED secret
  BY <1>3 DEF CreateSecret
<1>4. ASSUME NEW op \in Operators, OverwriteSecret(op), ~UNCHANGED secret
      PROVE  pc[op] = "race" /\ pc'[op] = "check"
  BY <1>4 DEF OverwriteSecret, At, Goto, IInv, TypeOK
<1>5. ASSUME NEW op \in Operators, Reconcile(op),
             ~UpdateSecret(op), ~CreateSecret(op), ~OverwriteSecret(op)
      PROVE  UNCHANGED secret
  BY <1>5 DEF Reconcile, TargetReconcile, ConfigReconcile, TargetSkip,
     TargetFetch, updateTargetData, UpdateProviderConfig, ConfigSkip,
     ConfigFetch, ContributeConfig, initializeStatus, checkCompletion,
     RefetchFails, secVars
<1>6. CASE Environment
  <2>1. CASE CollectGarbage
    BY <2>1, NullTypes DEF CollectGarbage, StoreSecret
  <2>2. CASE ~CollectGarbage
    BY <1>1, <1>6, <2>2 DEF Environment, PostTarget, PostProviderConfig,
       PostRequest, DeleteTargetByUUID, UpdateProviderConfigValues, UserDelete,
       TargetChanges, CleanupOldResources, Deliver, DeliverSecret, Stop, Start,
       Registry, secVars
  <2>. QED  BY <2>1, <2>2
<1>. QED  BY <1>1, <1>2, <1>3, <1>4, <1>5, <1>6 DEF Next, vars, secVars

(***************************************************************************)
(* The kubeconfigs that the Secret holds survive every write but the one   *)
(* that follows AlreadyExists: an update merges into the newest version or *)
(* is refused.                                                             *)
(***************************************************************************)
THEOREM SectionsAreKept == Spec => SectionsKept
<1>1. IInv /\ [Next]_vars =>
         (secret.there /\ secret'.there
             => \/ secret.have \subseteq secret'.have
                \/ \E op \in Operators : pc[op] = "race" /\ pc'[op] = "check")
  BY SecretStepKeeps
<1>. QED  BY <1>1, AlwaysIInv, PTL DEF Spec, SectionsKept

-----------------------------------------------------------------------------
(* The refinement *)

Phase == IF kind = "none" THEN "none"
         ELSE IF req.live THEN req.status ELSE "gone"

(* Every step of the operators, their caches and the clients is a step of
   Collection, or changes nothing that a client of the request can see. *)
LEMMA StepRefines ==
  ASSUME IInv, SafeStep
  PROVE  Requested!Next \/ UNCHANGED <<Phase, req.given>>
<1>0. req \in Request /\ kind' \in {"none", "targets", "configs"}
  BY DEF IInv, SafeStep, TypeOK
<1>1. CASE Same
  BY <1>1 DEF Same, Phase
<1>2. CASE Posted
  <2>1. req.given = {}
    BY <1>2, NullTypes DEF Posted, IInv, OneRequest
  <2>2. Requested!Announce
    BY <1>2, <2>1 DEF Posted, Requested!Announce
  <2>. QED  BY <2>2 DEF Requested!Next
<1>3. CASE Removed
  <2>1. kind # "none"
    BY <1>3 DEF Removed, IInv, OneRequest
  <2>2. Requested!Remove
    BY <1>0, <1>3, <2>1, NullTypes DEF Removed, Request, Requested!Remove
  <2>. QED  BY <2>2 DEF Requested!Next
<1>4. CASE Updated
  <2>1. kind # "none"
    BY <1>4 DEF Updated, IInv, OneRequest
  <2>2. CASE req'.status = req.status /\ req'.given = req.given
    BY <1>4, <2>1, <2>2 DEF Updated, Phase
  <2>3. ASSUME NEW o \in Operators, req'.status = req.status, o \notin req.given,
               req'.given = req.given \cup {o}
        PROVE  Requested!Contribute(o)
    BY <1>0, <1>4, <2>1, <2>3 DEF Updated, Request, Requested!Contribute
  <2>4. CASE req.status = "" /\ req'.status = "pending" /\ req'.given = req.given
    <3>1. Requested!Begin
      BY <1>4, <2>1, <2>4 DEF Updated, Requested!Begin
    <3>. QED  BY <3>1 DEF Requested!Next
  <2>5. CASE /\ req.status = "pending" /\ req'.status = "Completed"
             /\ req'.given = req.given /\ req.given # {}
    <3>1. Requested!Complete
      BY <1>4, <2>1, <2>5 DEF Updated, Requested!Complete
    <3>. QED  BY <3>1 DEF Requested!Next
  <2>6. ASSUME NEW o \in Operators, o \in req.given,
               req'.given = req.given \cup {o}
        PROVE  req'.given = req.given
    BY <2>6
  <2>. QED  BY <1>4, <2>2, <2>3, <2>4, <2>5, <2>6 DEF Updated, Requested!Next
<1>. QED  BY <1>1, <1>2, <1>3, <1>4 DEF SafeStep, ReqStep

(***************************************************************************)
(* Operators that share one object, each with a cache that may be old, take*)
(* part in one Collection: no contribution is lost, and the request is     *)
(* Completed at most once, from pending, and with something in it.         *)
(***************************************************************************)
THEOREM Refines == Spec => CollectionSpec
<1>1. Init => Requested!Init
  BY NullTypes DEF Init, Requested!Init
<1>2. IInv /\ [Next]_vars =>
         [Requested!Next]_<<IF kind = "none" THEN "none"
                            ELSE IF req.live THEN req.status ELSE "gone",
                            req.given>>
  <2>1. UNCHANGED vars => UNCHANGED <<Phase, req.given>>
    BY DEF vars, objVars, Phase
  <2>. QED  BY <2>1, NextSafe, StepRefines DEF Phase
<1>. QED  BY <1>1, <1>2, AlwaysIInv, PTL DEF Spec, CollectionSpec, Requested!Spec
=============================================================================
