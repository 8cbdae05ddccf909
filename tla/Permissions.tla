---------------------------- MODULE Permissions ----------------------------
(***************************************************************************)
(* Who may do what on which cluster.  The permissions of a group map API   *)
(* URLs of clusters to actions; a user has those of all the groups that are*)
(* labels of the KrknUser object.  These operators are the answers that the*)
(* handlers give to users who are no administrators (administrators pass   *)
(* every check).                                                           *)
(***************************************************************************)
EXTENDS Naturals, FiniteSets

CONSTANTS
    Groups, \* names of groups
    Urls    \* API URLs of clusters

Actions == {"view", "run", "cancel"}

(* The ClusterPermissions of groups. *)
PermissionMaps ==
    UNION {[D -> (SUBSET Actions) \ {{}}] : D \in (SUBSET Urls) \ {{}}}

(* Slip: a cluster without actions is let through. *)
anyActions(permissions) ==
    /\ DOMAIN permissions # {}
    /\ \A u \in DOMAIN permissions : permissions[u] \subseteq Actions

validateClusterPermissions(permissions) ==
    /\ DOMAIN permissions # {}
    /\ \A u \in DOMAIN permissions :
          permissions[u] # {} /\ permissions[u] \subseteq Actions

(* No stored group is without permissions: these are those of no group. *)
NoGroup == [u \in {} |-> {}]

User == [there : BOOLEAN, labels : SUBSET Groups]
NoUser == [there |-> FALSE, labels |-> {}]

-----------------------------------------------------------------------------
(* pkg/groupauth *)

(* Slip: one label without a group and the user is in no group. *)
allOrNothing(user, groups) ==
    IF \E g \in user.labels : groups[g] = NoGroup THEN {}
    ELSE {groups[g] : g \in user.labels}

(* A label whose group does not exist is passed over. *)
GetUserGroups(user, groups) ==
    {groups[g] : g \in {x \in user.labels : groups[x] # NoGroup}}

AggregateClusterPermissions(userGroups) ==
    [u \in UNION {DOMAIN p : p \in userGroups} |->
        UNION {p[u] : p \in {q \in userGroups : u \in DOMAIN q}}]

hasAction(permissions, u, a) == u \in DOMAIN permissions /\ a \in permissions[u]

CanPerformAction(userGroups, u, a) ==
    hasAction(AggregateClusterPermissions(userGroups), u, a)

(* A user that does not exist is an error, and no answer. *)
HasClusterPermission(user, groups, u, a) ==
    user.there /\ CanPerformAction(GetUserGroups(user, groups), u, a)

(***************************************************************************)
(* Target data is a set of [provider, name, url].  The map from names to   *)
(* URLs takes one entry for each name: the order of a Go map says which.   *)
(***************************************************************************)
buildClusterAPIURLMaps(data) ==
    {m \in [{c.name : c \in data} -> {c.url : c \in data}] :
        \A n \in DOMAIN m : \E c \in data : c.name = n /\ c.url = m[n]}

(* targets is a set of [provider, name]; the name alone is looked up. *)
ValidateScenarioRunAccess(userGroups, targets, urlOf) ==
    /\ userGroups # {}
    /\ \A t \in targets : /\ t.name \in DOMAIN urlOf
                          /\ CanPerformAction(userGroups, urlOf[t.name], "run")

FilterClustersByPermission(userGroups, data, a) ==
    {c \in data : hasAction(AggregateClusterPermissions(userGroups), c.url, a)}

-----------------------------------------------------------------------------
(* internal/api/authorization.go *)

(***************************************************************************)
(* A run is the set of the clusters of its jobs; a job whose entry has no  *)
(* URL yet is NoUrl.                                                       *)
(***************************************************************************)
NoUrl == "none"
Runs == SUBSET (Urls \cup {NoUrl})

checkScenarioRunGroupAccess(userGroups, run, a) ==
    \E u \in run \ {NoUrl} : CanPerformAction(userGroups, u, a)

(* Slip: one job suffices here too. *)
cancelsAny(userGroups, run) ==
    checkScenarioRunGroupAccess(userGroups, run, "cancel")

(* The whole run is cancelled only by who may cancel every job. *)
checkScenarioRunCancelAccess(userGroups, run) ==
    /\ userGroups # {}
    /\ \A u \in run \ {NoUrl} : CanPerformAction(userGroups, u, "cancel")

filterJobsByPermission(userGroups, run, a) ==
    {u \in run \ {NoUrl} : CanPerformAction(userGroups, u, a)}

checkJobAccess(user, groups, u, a) ==
    u # NoUrl /\ HasClusterPermission(user, groups, u, a)

(* The runs that the list shows, and what the status of one run answers. *)
filterScenarioRunsByGroupPermission(user, groups, runs) ==
    {run \in runs :
        /\ user.there
        /\ checkScenarioRunGroupAccess(GetUserGroups(user, groups), run, "view")}

GetScenarioRunStatus(user, groups, run) ==
    LET jobs == filterJobsByPermission(GetUserGroups(user, groups), run, "view")
    IN  CASE ~user.there -> [code |-> "error", jobs |-> {}]
          [] user.there /\ jobs # {} -> [code |-> "ok", jobs |-> jobs]
          [] user.there /\ jobs = {} /\ run \subseteq {NoUrl} ->
                [code |-> "created", jobs |-> {}]
          [] OTHER -> [code |-> "forbidden", jobs |-> {}]

(* A graph run is seen by who may see one of its clusters. *)
checkGraphRunGroupAccess(userGroups, targets, data, a) ==
    \E t \in targets : \E c \in data :
        /\ c.provider = t.provider /\ c.name = t.name
        /\ CanPerformAction(userGroups, c.url, a)
=============================================================================
