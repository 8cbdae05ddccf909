-------------------------- MODULE ProviderRegistry --------------------------
(***************************************************************************)
(* The KrknOperatorTargetProvider objects: each operator registers itself  *)
(* when it starts, renews its heartbeat, and signs off when it is stopped; *)
(* an administrator switches providers on and off over the REST API.       *)
(*                                                                         *)
(* Every operator reads the objects from its own informer cache, and an    *)
(* update made from a copy that is behind the stored object is refused.    *)
(***************************************************************************)
EXTENDS Naturals, FiniteSets

CONSTANTS
    Operators,  \* the operators that share the namespace
    MaxChanges  \* bound: heartbeats, stops, crashes and user requests

ASSUME OperatorsAssumption ==
    /\ Operators # {} /\ IsFiniteSet(Operators)
    /\ MaxChanges \in Nat

VARIABLES
    prov,        \* the stored object of each operator
    view,        \* each operator's cached copies of them
    behind,      \* the objects written since they were delivered to a cache
    up,          \* the operators whose process is running
    registering, \* the ones whose registration has not finished
    changes      \* changes still allowed

regVars == <<prov, view, behind, up, registering, changes>>

Flags == {"none", "active", "inactive"}

RegistryTypeOK ==
    /\ prov \in [Operators -> Flags]
    /\ view \in [Operators -> [Operators -> Flags]]
    /\ behind \in [Operators -> SUBSET Operators]
    /\ up \in SUBSET Operators /\ registering \in SUBSET up
    /\ changes \in Nat

Active(flags) == {o \in DOMAIN flags : flags[o] = "active"}

(* The active operators run; others are deployed later. *)
RegistryInit ==
    /\ prov \in [Operators -> {"none", "active"}]
    /\ view = [o \in Operators |-> prov]
    /\ behind = [o \in Operators |-> {}]
    /\ up = Active(prov)
    /\ registering = {}
    /\ changes = MaxChanges

Change == changes > 0 /\ changes' = changes - 1

(* Store the object of operator p; every cached copy of it is now behind. *)
StoreProvider(p, flag) ==
    /\ prov' = [prov EXCEPT ![p] = flag]
    /\ behind' = [o \in Operators |-> behind[o] \cup {p}]

(* The process starts, or a new operator is deployed: its caches are filled
   before anything else runs. *)
StartProcess(op) ==
    /\ op \notin up
    /\ up' = up \cup {op}
    /\ registering' = registering \cup {op}
    /\ view' = [view EXCEPT ![op] = prov]
    /\ behind' = [behind EXCEPT ![op] = {}]
    /\ IF prov[op] = "none" THEN Change ELSE UNCHANGED changes
    /\ UNCHANGED prov

(* CreateOrUpdate: the object is written unless it is active already. *)
ensureProvider(op) ==
    /\ op \in registering
    /\ registering' = registering \ {op}
    /\ \/ view[op][op] = "active" /\ UNCHANGED <<prov, behind>>
       \/ /\ view[op][op] # "active" /\ op \notin behind[op]
          /\ StoreProvider(op, "active")
    /\ UNCHANGED <<view, up, changes>>

(* The write is refused or fails: Start returns the error and the manager
   exits. *)
ensureProviderFails(op) ==
    /\ op \in registering
    /\ view[op][op] # "active"
    /\ registering' = registering \ {op}
    /\ up' = up \ {op}
    /\ UNCHANGED <<prov, view, behind, changes>>

(* A heartbeat stores a new timestamp.  A refused one is only logged. *)
updateHeartbeat(op) ==
    /\ op \in up \ registering
    /\ view[op][op] # "none" /\ op \notin behind[op]
    /\ Change
    /\ StoreProvider(op, prov[op])
    /\ UNCHANGED <<view, up, registering>>

(* The context is cancelled: deactivate if the copy allows it, then exit. *)
deactivateProvider(op) ==
    /\ op \in up \ registering
    /\ Change
    /\ IF view[op][op] # "none" /\ op \notin behind[op]
       THEN StoreProvider(op, "inactive")
       ELSE UNCHANGED <<prov, behind>>
    /\ up' = up \ {op}
    /\ UNCHANGED <<view, registering>>

(* The process dies: the object stays as it is. *)
Crash(op) ==
    /\ op \in up
    /\ Change
    /\ up' = up \ {op}
    /\ registering' = registering \ {op}
    /\ UNCHANGED <<prov, view, behind>>

(* PATCH /providers/{p}, served by operator op from its cache. *)
UpdateProviderStatus(op, p, flag) ==
    /\ op \in up
    /\ view[op][p] # "none" /\ p \notin behind[op]
    /\ flag \in {"active", "inactive"} \ {prov[p]}
    /\ Change
    /\ StoreProvider(p, flag)
    /\ UNCHANGED <<view, up, registering>>

(* The informer of operator op catches up with the stored objects. *)
DeliverProviders(op) ==
    /\ op \in up /\ behind[op] # {}
    /\ view' = [view EXCEPT ![op] = prov]
    /\ behind' = [behind EXCEPT ![op] = {}]
    /\ UNCHANGED <<prov, up, registering, changes>>
=============================================================================
