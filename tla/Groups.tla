------------------------------- MODULE Groups -------------------------------
(***************************************************************************)
(* Groups and their members.  Membership is a label of the KrknUser object,*)
(* which other handlers write as well; deleting a group takes one update   *)
(* for each member.  Administrators only send these requests; one that is  *)
(* refused changes nothing and is not shown.                               *)
(*                                                                         *)
(* As in Accounts, every replica works on its own caches, and a handler    *)
(* that reads the caches and then makes one call is one step.              *)
(***************************************************************************)
EXTENDS Permissions

CONSTANTS
    Replicas,   \* the replicas of the operator
    Emails,     \* the users, by the names of their KrknUser objects
    Grants,     \* permissions that requests carry, valid or not
    TargetData, \* the data of target requests
    MaxRequests \* bound: requests that administrators send

ASSUME GrantsAssumption == \A p \in Grants :
    DOMAIN p \subseteq Urls /\ p = [u \in DOMAIN p |-> p[u]]
ASSUME RequestsAssumption == MaxRequests \in Nat

VARIABLES
    users,     \* the stored KrknUser objects
    view,      \* each replica's cached copies
    behind,    \* the users written since they were delivered to a replica
    groups,    \* the stored KrknUserGroup objects
    grpView,   \* each replica's cached copies
    grpBehind, \* the groups written since
    deleting,  \* the DeleteUserGroup request that each replica serves
    discovery, \* the target request of the discovery exists
    left       \* requests still allowed

userVars  == <<users, view, behind>>
groupVars == <<groups, grpView, grpBehind>>
vars == <<userVars, groupVars, deleting, discovery, left>>

None == "none"

(***************************************************************************)
(* todo: the members still to be updated; fresh: the users of whom the list*)
(* had the newest copy, whom nobody else has written since and for whom no *)
(* call of the request has failed.                                         *)
(***************************************************************************)
Idle == [group |-> None, todo |-> {}, fresh |-> {}]

(* Every variable has its type; stored groups always have permissions. *)
TypeOK ==
    /\ users \in [Emails -> User] /\ view \in [Replicas -> [Emails -> User]]
    /\ behind \in [Replicas -> SUBSET Emails]
    /\ groups \in [Groups -> PermissionMaps \cup {NoGroup}]
    /\ grpView \in [Replicas -> [Groups -> PermissionMaps \cup {NoGroup}]]
    /\ grpBehind \in [Replicas -> SUBSET Groups]
    /\ deleting \in [Replicas -> [group : Groups \cup {None},
                                  todo : SUBSET Emails, fresh : SUBSET Emails]]
    /\ discovery \in BOOLEAN /\ left \in Nat

(* Users, and groups that exist already or not; members of those that do. *)
Init ==
    /\ groups \in [Groups -> (Grants \cap PermissionMaps) \cup {NoGroup}]
    /\ users \in [Emails -> {u \in User : u.there /\ \A g \in u.labels :
                                             groups[g] # NoGroup}]
    /\ view = [r \in Replicas |-> users]
    /\ grpView = [r \in Replicas |-> groups]
    /\ behind = [r \in Replicas |-> {}] /\ grpBehind = behind
    /\ deleting = [r \in Replicas |-> Idle]
    /\ discovery = TRUE /\ left = MaxRequests

-----------------------------------------------------------------------------
(* The API server *)

(* Replica r stores the user: every other copy is out of date. *)
StoreUser(r, e, new) ==
    /\ users' = [users EXCEPT ![e] = new]
    /\ behind' = [q \in Replicas |-> behind[q] \cup {e}]
    /\ deleting' = [q \in Replicas |-> [deleting[q] EXCEPT
          !.fresh = IF q = r THEN @ ELSE @ \ {e},
          !.todo  = IF q = r THEN @ \ {e} ELSE @]]
    /\ UNCHANGED view

(* Slip: a copy that is out of date is stored over the newer object. *)
anyCopy(r, e) == users[e].there

(* An update made from r's cached copy of e is accepted. *)
Accepted(r, e) == users[e].there /\ e \notin behind[r]

StoreGroup(g, permissions) ==
    /\ groups' = [groups EXCEPT ![g] = permissions]
    /\ grpBehind' = [q \in Replicas |-> grpBehind[q] \cup {g}]
    /\ UNCHANGED grpView

(* A replica serves one request at a time. *)
Serves(r) == deleting[r] = Idle /\ left > 0 /\ left' = left - 1

(* cleanupDiscoveryTargetRequest, if the request names the discovery. *)
CleanupDiscovery == discovery' \in {discovery, FALSE}

-----------------------------------------------------------------------------
(* internal/api/groups_handlers.go *)

CreateUserGroup(r, g, permissions) ==
    /\ Serves(r)
    /\ validateClusterPermissions(permissions)
    /\ groups[g] = NoGroup
    /\ StoreGroup(g, permissions)
    /\ CleanupDiscovery
    /\ UNCHANGED <<userVars, deleting>>

(* The description alone may be new, or only the discovery be cleaned up. *)
UpdateUserGroup(r, g, permissions) ==
    /\ Serves(r)
    /\ validateClusterPermissions(permissions)
    /\ grpView[r][g] # NoGroup
    /\ \/ /\ groups[g] # NoGroup /\ g \notin grpBehind[r]
          /\ StoreGroup(g, permissions)
          /\ CleanupDiscovery
       \/ discovery /\ discovery' = FALSE /\ UNCHANGED groupVars
    /\ UNCHANGED <<userVars, deleting>>

AddGroupMember(r, g, e) ==
    /\ Serves(r)
    /\ grpView[r][g] # NoGroup /\ view[r][e].there
    /\ g \notin view[r][e].labels
    /\ Accepted(r, e)
    /\ StoreUser(r, e, [view[r][e] EXCEPT !.labels = @ \cup {g}])
    /\ UNCHANGED <<groupVars, discovery>>

RemoveGroupMember(r, g, e) ==
    /\ Serves(r)
    /\ grpView[r][g] # NoGroup /\ view[r][e].there
    /\ g \in view[r][e].labels
    /\ Accepted(r, e)
    /\ StoreUser(r, e, [view[r][e] EXCEPT !.labels = @ \ {g}])
    /\ UNCHANGED <<groupVars, discovery>>

(* removeGroupFromAllMembers lists the users with the label, or fails to:
   then nobody is updated, and the group is deleted all the same. *)
DeleteUserGroup(r, g) ==
    /\ Serves(r)
    /\ grpView[r][g] # NoGroup
    /\ \E listed \in {Emails, {}} : deleting' = [deleting EXCEPT ![r] =
          [group |-> g, fresh |-> listed \ behind[r],
           todo  |-> {e \in listed : view[r][e].there
                                       /\ g \in view[r][e].labels}]]
    /\ UNCHANGED <<userVars, groupVars, discovery>>

(* One update for each; a conflict or any other error is only logged. *)
RemoveLabel(r, e) ==
    /\ e \in deleting[r].todo
    /\ \/ /\ e \in deleting[r].fresh /\ users[e].there
          /\ StoreUser(r, e, [users[e] EXCEPT !.labels = @ \ {deleting[r].group}])
       \/ /\ deleting' = [deleting EXCEPT ![r].todo = @ \ {e},
                                           ![r].fresh = @ \ {e}]
          /\ UNCHANGED userVars
    /\ UNCHANGED <<groupVars, discovery, left>>

(* Slip: the group is deleted at the first member whose turn has come. *)
someHandled(r) == Cardinality(deleting[r].todo) <= 1

allHandled(r) == deleting[r].todo = {}

(* Delete names the group: whichever has that name now is deleted, if there
   is one and the call does not fail. *)
DeleteGroupObject(r) ==
    LET g == deleting[r].group
    IN  /\ g # None /\ allHandled(r)
        /\ \/ groups[g] # NoGroup /\ StoreGroup(g, NoGroup)
           \/ UNCHANGED groupVars
        /\ deleting' = [deleting EXCEPT ![r] = Idle]
        /\ UNCHANGED <<userVars, discovery, left>>

-----------------------------------------------------------------------------
(* Everything else *)

(* Accounts are created and deleted (module Accounts), *)
CreateUser(r, e) ==
    /\ Serves(r)
    /\ ~users[e].there /\ ~view[r][e].there
    /\ StoreUser(r, e, [there |-> TRUE, labels |-> {}])
    /\ UNCHANGED <<groupVars, discovery>>

DeleteUser(r, e) ==
    /\ Serves(r)
    /\ users[e].there /\ view[r][e].there
    /\ StoreUser(r, e, NoUser)
    /\ UNCHANGED <<groupVars, discovery>>

(* and Login and UpdateUser write the cached copy with other changes. *)
WriteUser(r, e) ==
    /\ Serves(r)
    /\ view[r][e].there /\ Accepted(r, e)
    /\ StoreUser(r, e, view[r][e])
    /\ UNCHANGED <<groupVars, discovery>>

DeliverUsers(r) ==
    /\ behind[r] # {}
    /\ view' = [view EXCEPT ![r] = users]
    /\ behind' = [behind EXCEPT ![r] = {}]
    /\ UNCHANGED <<users, groupVars, deleting, discovery, left>>

DeliverGroups(r) ==
    /\ grpBehind[r] # {}
    /\ grpView' = [grpView EXCEPT ![r] = groups]
    /\ grpBehind' = [grpBehind EXCEPT ![r] = {}]
    /\ UNCHANGED <<userVars, groups, deleting, discovery, left>>

(* The process ends half way through a deletion and starts again. *)
Crash(r) ==
    /\ deleting[r] # Idle
    /\ deleting' = [deleting EXCEPT ![r] = Idle]
    /\ view' = [view EXCEPT ![r] = users]
    /\ behind' = [behind EXCEPT ![r] = {}]
    /\ grpView' = [grpView EXCEPT ![r] = groups]
    /\ grpBehind' = [grpBehind EXCEPT ![r] = {}]
    /\ UNCHANGED <<users, groups, discovery, left>>

Next == \E r \in Replicas :
    \/ \E g \in Groups, permissions \in Grants :
          CreateUserGroup(r, g, permissions) \/ UpdateUserGroup(r, g, permissions)
    \/ \E g \in Groups, e \in Emails :
          AddGroupMember(r, g, e) \/ RemoveGroupMember(r, g, e)
    \/ \E g \in Groups : DeleteUserGroup(r, g)
    \/ \E e \in Emails :
          RemoveLabel(r, e) \/ CreateUser(r, e) \/ DeleteUser(r, e)
             \/ WriteUser(r, e)
    \/ DeleteGroupObject(r) \/ DeliverUsers(r) \/ DeliverGroups(r) \/ Crash(r)

Spec == Init /\ [][Next]_vars

-----------------------------------------------------------------------------
(* Properties *)

(***************************************************************************)
(* A user enters or leaves a group only in a request about that user and   *)
(* that group, or when the group is deleted: logins, profile updates and   *)
(* requests about other groups, which write the same object from a copy    *)
(* that may be old, undo no membership.                                    *)
(***************************************************************************)
MembershipGuarded ==
    [][\A e \in Emails, g \in Groups :
          /\ users[e].there /\ users'[e].there
          /\ (g \in users[e].labels) # (g \in users'[e].labels)
          => \E r \in Replicas :
                \/ AddGroupMember(r, g, e) \/ RemoveGroupMember(r, g, e)
                \/ deleting[r].group = g /\ RemoveLabel(r, e)]_vars

(***************************************************************************)
(* When DeleteUserGroup comes to delete the group, the label is left only  *)
(* on users of whom the replica did not have the newest version, whom      *)
(* somebody else wrote while the request was served, or for whom a call of *)
(* the request failed: the list of the members, or the update of this one. *)
(* Each other member has been updated.  (A label that is left comes to life*)
(* again with a new group of that name.)                                   *)
(***************************************************************************)
NoGhostMembers ==
    [][\A r \in Replicas : DeleteGroupObject(r) =>
          \A e \in deleting[r].fresh :
              deleting[r].group \notin users'[e].labels]_vars

(***************************************************************************)
(* A replica whose caches are up to date allows an action on a cluster if  *)
(* and only if some existing group of the user grants it, whichever labels *)
(* of deleted groups the user still carries.                               *)
(***************************************************************************)
DecisionsFollowStore ==
    \A r \in Replicas : behind[r] = {} /\ grpBehind[r] = {} =>
        \A e \in Emails, u \in Urls, a \in Actions :
            HasClusterPermission(view[r][e], grpView[r], u, a)
                <=> users[e].there /\ \E g \in users[e].labels :
                        u \in DOMAIN groups[g] /\ a \in groups[g][u]

DistinctNames(data) == \A c, d \in data : c.name = d.name => c = d

(* What a replica answers about runs to a user, from the groups it knows. *)
RunAnswersAgree(user, known) ==
    LET mine   == GetUserGroups(user, known)
        listed == filterScenarioRunsByGroupPermission(user, known, Runs)
    IN  \A run \in Runs :
            /\ run \in listed <=>
                  GetScenarioRunStatus(user, known, run).jobs # {}
            /\ run # {} /\ NoUrl \notin run =>
                  (checkScenarioRunCancelAccess(mine, run) <=>
                      \A u \in run : checkJobAccess(user, known, u, "cancel"))

(* What it answers about the clusters that a target request offers. *)
ClusterAnswersAgree(user, known, data) ==
    LET mine == GetUserGroups(user, known)
    IN  \A chosen \in (SUBSET data) \ {{}} :
            /\ \A urlOf \in buildClusterAPIURLMaps(data) :
                  ValidateScenarioRunAccess(mine, chosen, urlOf) <=>
                  chosen \subseteq FilterClustersByPermission(mine, data, "run")
            /\ checkGraphRunGroupAccess(mine, chosen, data, "view") <=>
                  chosen \cap FilterClustersByPermission(mine, data, "view") # {}

(***************************************************************************)
(* The handlers' answers fit together on every replica, however old its    *)
(* caches: a run is listed if and only if its status shows some job; a run *)
(* with jobs, of which each has a URL, may be cancelled by exactly those   *)
(* who may cancel each of its jobs (for jobs without a URL this is not so: *)
(* CancelNeedsAllJobs below); and of clusters with distinct names, a run on*)
(* some is accepted if and only if GetClusters offers them all, and a graph*)
(* run shown if one of them may be viewed.                                 *)
(***************************************************************************)
AnswersAgree ==
    \A seen \in {<<view[r][e], grpView[r]>> : r \in Replicas, e \in Emails} :
        seen[1].there =>
            /\ RunAnswersAgree(seen[1], seen[2])
            /\ \A data \in {d \in TargetData : DistinctNames(d)} :
                  ClusterAnswersAgree(seen[1], seen[2], data)

-----------------------------------------------------------------------------
(* What a comment says and the code does not do *)

(***************************************************************************)
(* "Regular users must have 'cancel' permission on ALL jobs in the run"    *)
(* (authorization.go:202).  TLC refutes this: checkScenarioRunCancelAccess *)
(* passes over the jobs whose entry has no URL (createClusterJob did not   *)
(* find the cluster in the target request), and checkJobAccess refuses     *)
(* them.  Whoever is in a group may cancel a run that has only such jobs.  *)
(***************************************************************************)
CancelNeedsAllJobs ==
    \A seen \in {<<view[r][e], grpView[r]>> : r \in Replicas, e \in Emails} :
        seen[1].there => \A run \in Runs :
            checkScenarioRunCancelAccess(GetUserGroups(seen[1], seen[2]), run) =>
                \A u \in run : checkJobAccess(seen[1], seen[2], u, "cancel")

-----------------------------------------------------------------------------
(* The inductive invariant behind the properties *)

(* A cached copy that has not been written over since is the stored object. *)
FreshViews ==
    \A r \in Replicas :
        /\ \A e \in Emails \ behind[r] : view[r][e] = users[e]
        /\ \A g \in Groups \ grpBehind[r] : grpView[r][g] = groups[g]

(* A user that does not exist carries no label. *)
AbsentUsers == \A e \in Emails : ~users[e].there => users[e].labels = {}

(* A member whose newest copy the deletion has is one it still has to update. *)
MembersFound ==
    \A r \in Replicas : deleting[r].group # None =>
        \A e \in deleting[r].fresh :
            deleting[r].group \in users[e].labels => e \in deleting[r].todo

IInv == TypeOK /\ FreshViews /\ AbsentUsers /\ MembersFound
=============================================================================
