----------------------------- MODULE JwtSecret -----------------------------
(***************************************************************************)
(* The SecretManager: the replicas of the operator agree on the secret that*)
(* signs tokens by way of one Secret, which the first of them creates.  The*)
(* API server of a replica serves requests once its secret is loaded.      *)
(***************************************************************************)
EXTENDS Naturals, FiniteSets

CONSTANTS
    Replicas, \* the running replicas; they also name the secrets they make
    MaxFaults \* bound: crashes and failing API calls

ASSUME FaultsAssumption == MaxFaults \in Nat

VARIABLES
    key,     \* the secret stored in krkn-operator-jwt
    keyView, \* each replica's cached copy of it
    boot,    \* how far each replica has started
    have,    \* SecretManager.secret
    faults   \* faults still allowed

jwtVars == <<key, keyView, boot, have, faults>>

None == "none"
MaybeKey == Replicas \cup {None}

ASSUME ReplicasAssumption == None \notin Replicas

JwtTypeOK ==
    /\ key \in MaybeKey
    /\ keyView \in [Replicas -> MaybeKey] /\ have \in [Replicas -> MaybeKey]
    /\ boot \in [Replicas -> {"load", "create", "refetch", "serving"}]
    /\ faults \in Nat

(* A first installation, or replicas that have been serving for a while. *)
JwtInit ==
    /\ key \in MaybeKey
    /\ keyView = [r \in Replicas |-> key] /\ have = keyView
    /\ boot = [r \in Replicas |-> IF key = None THEN "load" ELSE "serving"]
    /\ faults = MaxFaults

Fail == faults > 0 /\ faults' = faults - 1

Step(r, step) == boot' = [boot EXCEPT ![r] = step]

(* The secret is set, ready is true: the API server accepts connections. *)
Serve(r, k) == have' = [have EXCEPT ![r] = k] /\ Step(r, "serving")

-----------------------------------------------------------------------------
(* loadOrCreateSecret; Get reads the cache *)

GetJwtSecret(r) ==
    /\ boot[r] = "load"
    /\ IF keyView[r] # None THEN Serve(r, keyView[r])
                            ELSE Step(r, "create") /\ UNCHANGED have
    /\ UNCHANGED <<key, keyView, faults>>

(* Create: the API server lets only one replica create the Secret. *)
CreateJwtSecret(r) ==
    /\ boot[r] = "create"
    /\ \/ key = None /\ key' = r /\ Serve(r, r)
       \/ key # None /\ Step(r, "refetch") /\ UNCHANGED <<key, have>>
    /\ UNCHANGED <<keyView, faults>>

(* Slip: after AlreadyExists the replica goes on with the secret it made. *)
KeepOwnSecret(r) ==
    /\ boot[r] = "refetch" /\ Serve(r, r)
    /\ UNCHANGED <<key, keyView, faults>>

(* AlreadyExists: read it.  The cache may not have it yet: try again. *)
RefetchJwtSecret(r) ==
    /\ boot[r] = "refetch"
    /\ IF keyView[r] # None THEN Serve(r, keyView[r])
                            ELSE Step(r, "load") /\ UNCHANGED have
    /\ UNCHANGED <<key, keyView, faults>>

(***************************************************************************)
(* Any other error: the next of the ten attempts begins.  (After the last, *)
(* or two minutes, the process ends: a crash.)                             *)
(***************************************************************************)
AttemptFails(r) ==
    /\ boot[r] \in {"create", "refetch"} /\ Fail
    /\ Step(r, "load")
    /\ UNCHANGED <<key, keyView, have>>

DeliverKey(r) ==
    /\ keyView[r] # key /\ keyView' = [keyView EXCEPT ![r] = key]
    /\ UNCHANGED <<key, boot, have, faults>>

(* The process is restarted, its cache filled again. *)
RestartJwt(r) ==
    /\ Fail
    /\ Step(r, "load")
    /\ have' = [have EXCEPT ![r] = None]
    /\ keyView' = [keyView EXCEPT ![r] = key]
    /\ UNCHANGED key

JwtStep(r) ==
    \/ GetJwtSecret(r) \/ CreateJwtSecret(r) \/ RefetchJwtSecret(r)
    \/ AttemptFails(r) \/ DeliverKey(r)
=============================================================================
