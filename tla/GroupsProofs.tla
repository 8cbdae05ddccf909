---------------------------- MODULE GroupsProofs ----------------------------
(***************************************************************************)
(* Proofs about Permissions and Groups, for every set of replicas, users,  *)
(* groups and clusters, and whatever permissions requests carry.           *)
(***************************************************************************)
EXTENDS Groups, TLAPS

-----------------------------------------------------------------------------
(* The operators of Permissions *)

(* What pkg/groupauth sums up for a user is what some group grants. *)
LEMMA AggregateGrants ==
  ASSUME NEW mine, NEW u, NEW a
  PROVE  hasAction(AggregateClusterPermissions(mine), u, a)
            <=> \E p \in mine : u \in DOMAIN p /\ a \in p[u]
BY DEF hasAction, AggregateClusterPermissions

LEMMA CanPerformGrants ==
  ASSUME NEW mine, NEW u, NEW a
  PROVE  CanPerformAction(mine, u, a)
            <=> \E p \in mine : u \in DOMAIN p /\ a \in p[u]
BY AggregateGrants DEF CanPerformAction

(* A label without a group grants nothing. *)
LEMMA PermissionGrants ==
  ASSUME NEW user, NEW known, NEW u, NEW a
  PROVE  HasClusterPermission(user, known, u, a)
            <=> user.there /\ \E g \in user.labels :
                                  u \in DOMAIN known[g] /\ a \in known[g][u]
<1>1. u \notin DOMAIN NoGroup
  BY DEF NoGroup
<1>2. \A g : u \in DOMAIN known[g] => known[g] # NoGroup
  BY <1>1
<1>. QED  BY <1>2, CanPerformGrants DEF HasClusterPermission, GetUserGroups

LEMMA ValidPermissions ==
  ASSUME NEW p \in Grants, validateClusterPermissions(p)
  PROVE  p \in PermissionMaps
<1>1. /\ DOMAIN p \in (SUBSET Urls) \ {{}}
      /\ p = [u \in DOMAIN p |-> p[u]]
  BY GrantsAssumption DEF validateClusterPermissions
<1>2. p \in [DOMAIN p -> (SUBSET Actions) \ {{}}]
  BY <1>1 DEF validateClusterPermissions
<1>. QED  BY <1>1, <1>2 DEF PermissionMaps

LEMMA UserTypes ==
  /\ NoUser \in User /\ ~NoUser.there /\ NoUser.labels = {}
  /\ \A user \in User, S \in SUBSET Groups :
        /\ [user EXCEPT !.labels = S] \in User
        /\ [user EXCEPT !.labels = S].labels = S
        /\ [user EXCEPT !.labels = S].there = user.there
BY DEF NoUser, User

-----------------------------------------------------------------------------
(* The answers of the handlers fit together *)

LEMMA RunAnswers ==
  ASSUME NEW user, NEW known, user.there
  PROVE  RunAnswersAgree(user, known)
<1>. DEFINE mine == GetUserGroups(user, known)
<1>1. ASSUME NEW run \in Runs
      PROVE  run \in filterScenarioRunsByGroupPermission(user, known, Runs)
                <=> GetScenarioRunStatus(user, known, run).jobs # {}
  <2>. DEFINE jobs == filterJobsByPermission(mine, run, "view")
  <2>1. GetScenarioRunStatus(user, known, run).jobs = jobs
    <3>1. CASE jobs # {}
      BY <3>1 DEF GetScenarioRunStatus
    <3>2. CASE jobs = {} /\ run \subseteq {NoUrl}
      BY <3>2 DEF GetScenarioRunStatus
    <3>3. CASE jobs = {} /\ ~(run \subseteq {NoUrl})
      BY <3>3 DEF GetScenarioRunStatus
    <3>. QED  BY <3>1, <3>2, <3>3
  <2>2. run \in filterScenarioRunsByGroupPermission(user, known, Runs)
           <=> jobs # {}
    BY DEF filterScenarioRunsByGroupPermission, checkScenarioRunGroupAccess,
           filterJobsByPermission
  <2>. QED  BY <2>1, <2>2
<1>2. ASSUME NEW run \in Runs, run # {}, NoUrl \notin run
      PROVE  checkScenarioRunCancelAccess(mine, run)
                <=> \A u \in run : checkJobAccess(user, known, u, "cancel")
  <2>1. \A u \in run : checkJobAccess(user, known, u, "cancel")
                           <=> CanPerformAction(mine, u, "cancel")
    BY <1>2 DEF checkJobAccess, HasClusterPermission
  <2>2. \A u \in run : CanPerformAction(mine, u, "cancel") => mine # {}
    BY CanPerformGrants
  <2>3. run \ {NoUrl} = run
    BY <1>2
  <2>. QED  BY <1>2, <2>1, <2>2, <2>3 DEF checkScenarioRunCancelAccess
<1>. QED  BY <1>1, <1>2 DEF RunAnswersAgree

LEMMA ClusterAnswers ==
  ASSUME NEW user, NEW known, NEW data, DistinctNames(data)
  PROVE  ClusterAnswersAgree(user, known, data)
<1>. DEFINE mine == GetUserGroups(user, known)
            offered(a) == FilterClustersByPermission(mine, data, a)
<1>1. ASSUME NEW chosen \in (SUBSET data) \ {{}},
             NEW urlOf \in buildClusterAPIURLMaps(data)
      PROVE  ValidateScenarioRunAccess(mine, chosen, urlOf)
                <=> chosen \subseteq offered("run")
  <2>1. \A c \in chosen : c.name \in DOMAIN urlOf /\ urlOf[c.name] = c.url
    BY DEF buildClusterAPIURLMaps, DistinctNames
  <2>2. \A c \in chosen : CanPerformAction(mine, c.url, "run")
                              <=> c \in offered("run")
    BY DEF FilterClustersByPermission, CanPerformAction
  <2>3. ASSUME NEW c \in chosen, CanPerformAction(mine, c.url, "run")
        PROVE  mine # {}
    BY <2>3, CanPerformGrants
  <2>. QED  BY <2>1, <2>2, <2>3 DEF ValidateScenarioRunAccess
<1>2. ASSUME NEW chosen \in (SUBSET data) \ {{}}
      PROVE  checkGraphRunGroupAccess(mine, chosen, data, "view")
                <=> chosen \cap offered("view") # {}
  <2>1. \A t \in chosen, c \in data : c.name = t.name => c = t
    BY DEF DistinctNames
  <2>2. \A c \in data : CanPerformAction(mine, c.url, "view")
                            <=> c \in offered("view")
    BY DEF FilterClustersByPermission, CanPerformAction
  <2>. QED  BY <2>1, <2>2 DEF checkGraphRunGroupAccess
<1>. QED  BY <1>1, <1>2 DEF ClusterAnswersAgree

(***************************************************************************)
(* The list, the status, cancelling and the choice of clusters give        *)
(* answers that fit together, whatever a replica's caches hold; of         *)
(* cancelling this is said of runs all of whose jobs have a URL.  The      *)
(* agreement is one of the code of the handlers and needs no invariant.    *)
(***************************************************************************)
THEOREM AnswersFit == Spec => []AnswersAgree
<1>1. AnswersAgree
  BY RunAnswers, ClusterAnswers DEF AnswersAgree
<1>. QED  BY <1>1, PTL

-----------------------------------------------------------------------------
(* The inductive invariant *)

LEMMA InitHolds == Init => IInv
<1>. SUFFICES ASSUME Init PROVE IInv
  OBVIOUS
<1>1. groups \in [Groups -> PermissionMaps \cup {NoGroup}]
  BY DEF Init
<1>2. users \in [Emails -> User] /\ \A e \in Emails : users[e].there
  BY DEF Init
<1>3. TypeOK
  BY <1>1, <1>2, RequestsAssumption DEF Init, TypeOK, Idle
<1>. QED  BY <1>2, <1>3 DEF Init, IInv, FreshViews, AbsentUsers, MembersFound,
                            Idle

(* Every write of a user by a replica that serves no deletion of a group, or
   that takes the label of that group away, preserves the invariant. *)
LEMMA StoreUserHolds ==
  ASSUME IInv, NEW r \in Replicas, NEW e \in Emails, NEW new \in User,
         ~new.there => new.labels = {},
         deleting[r].group # None => deleting[r].group \notin new.labels,
         StoreUser(r, e, new), left' \in Nat,
         UNCHANGED <<groupVars, discovery>>
  PROVE  IInv'
<1>. USE DEF IInv, groupVars
<1>1. /\ users' \in [Emails -> User] /\ users'[e] = new
      /\ \A x \in Emails \ {e} : users'[x] = users[x]
  BY DEF StoreUser, TypeOK
<1>2. /\ behind' \in [Replicas -> SUBSET Emails]
      /\ \A q \in Replicas : behind'[q] = behind[q] \cup {e}
  BY DEF StoreUser, TypeOK
<1>3. \A q \in Replicas :
         /\ deleting'[q].group = deleting[q].group
         /\ deleting'[q].fresh = IF q = r THEN deleting[q].fresh
                                          ELSE deleting[q].fresh \ {e}
         /\ deleting'[q].todo = IF q = r THEN deleting[q].todo \ {e}
                                         ELSE deleting[q].todo
  BY DEF StoreUser, TypeOK
<1>4. TypeOK'
  <2>1. deleting' \in [Replicas -> [group : Groups \cup {None},
                          todo : SUBSET Emails, fresh : SUBSET Emails]]
    BY DEF StoreUser, TypeOK
  <2>. QED  BY <1>1, <1>2, <2>1 DEF StoreUser, TypeOK
<1>5. FreshViews'
  <2>1. UNCHANGED <<view, groups, grpView, grpBehind>>
    BY DEF StoreUser
  <2>2. \A q \in Replicas : \A x \in Emails \ behind'[q] :
           view'[q][x] = users'[x]
    BY <1>1, <1>2, <2>1 DEF FreshViews
  <2>. QED  BY <2>1, <2>2 DEF FreshViews
<1>6. AbsentUsers'
  BY <1>1 DEF AbsentUsers
<1>7. MembersFound'
  <2>. SUFFICES ASSUME NEW q \in Replicas, deleting'[q].group # None,
                       NEW x \in deleting'[q].fresh,
                       deleting'[q].group \in users'[x].labels
                PROVE  x \in deleting'[q].todo
    BY DEF MembersFound
  <2>0. x \in Emails
    BY <1>4 DEF TypeOK
  <2>1. CASE q = r
    BY <2>0, <2>1, <1>1, <1>3 DEF MembersFound
  <2>2. CASE q # r
    BY <2>0, <2>2, <1>1, <1>3 DEF MembersFound
  <2>. QED  BY <2>1, <2>2
<1>. QED  BY <1>4, <1>5, <1>6, <1>7

LEMMA StoreGroupHolds ==
  ASSUME IInv, NEW g \in Groups, NEW p \in PermissionMaps \cup {NoGroup},
         StoreGroup(g, p), left' \in Nat, discovery' \in BOOLEAN,
         UNCHANGED <<userVars, deleting>>
  PROVE  IInv'
<1>. USE DEF IInv, userVars
<1>1. TypeOK'
  BY DEF StoreGroup, TypeOK
<1>2. FreshViews'
  BY DEF StoreGroup, FreshViews, TypeOK
<1>. QED  BY <1>1, <1>2 DEF AbsentUsers, MembersFound

LEMMA IdleGroup == Idle.group = None /\ Idle.todo = {} /\ Idle.fresh = {}
BY DEF Idle

LEMMA ServesHolds ==
  ASSUME TypeOK, NEW r \in Replicas, Serves(r)
  PROVE  left' \in Nat /\ deleting[r].group = None
BY IdleGroup DEF Serves, TypeOK

(* The deletion of a group ends, or its process does. *)
LEMMA EndHolds ==
  ASSUME IInv, NEW r \in Replicas,
         deleting' = [deleting EXCEPT ![r] = Idle]
  PROVE  /\ deleting' \in [Replicas -> [group : Groups \cup {None},
                              todo : SUBSET Emails, fresh : SUBSET Emails]]
         /\ users' = users => MembersFound'
<1>1. deleting' \in [Replicas -> [group : Groups \cup {None},
                        todo : SUBSET Emails, fresh : SUBSET Emails]]
  BY DEF IInv, TypeOK, Idle
<1>2. ASSUME users' = users PROVE MembersFound'
  BY <1>2, IdleGroup DEF IInv, TypeOK, MembersFound
<1>. QED  BY <1>1, <1>2

LEMMA GroupRequestHolds ==
  ASSUME IInv, NEW r \in Replicas, NEW g \in Groups, NEW p \in Grants,
         CreateUserGroup(r, g, p) \/ UpdateUserGroup(r, g, p)
  PROVE  IInv'
<1>1. /\ left' \in Nat /\ p \in PermissionMaps
      /\ discovery' \in BOOLEAN
  BY ServesHolds, ValidPermissions
  DEF IInv, TypeOK, CreateUserGroup, UpdateUserGroup, CleanupDiscovery
<1>2. CASE StoreGroup(g, p)
  BY <1>1, <1>2, StoreGroupHolds DEF CreateUserGroup, UpdateUserGroup
<1>3. CASE UNCHANGED groupVars
  <2>1. UNCHANGED <<groupVars, userVars, deleting>>
    BY <1>3 DEF CreateUserGroup, UpdateUserGroup
  <2>. QED  BY <1>1, <2>1 DEF IInv, TypeOK, FreshViews, AbsentUsers,
                              MembersFound, groupVars, userVars
<1>. QED  BY <1>2, <1>3 DEF CreateUserGroup, UpdateUserGroup

LEMMA MemberRequestHolds ==
  ASSUME IInv, NEW r \in Replicas, NEW g \in Groups, NEW e \in Emails,
         AddGroupMember(r, g, e) \/ RemoveGroupMember(r, g, e)
  PROVE  IInv'
<1>1. /\ left' \in Nat /\ deleting[r].group = None
      /\ view[r][e].there /\ UNCHANGED <<groupVars, discovery>>
  BY ServesHolds DEF IInv, AddGroupMember, RemoveGroupMember
<1>2. view[r][e] \in User /\ view[r][e].labels \in SUBSET Groups
  BY DEF IInv, TypeOK, User
<1>3. \A S \in SUBSET Groups :
         StoreUser(r, e, [view[r][e] EXCEPT !.labels = S]) => IInv'
  BY <1>1, <1>2, UserTypes, StoreUserHolds
<1>4. CASE AddGroupMember(r, g, e)
  BY <1>2, <1>3, <1>4 DEF AddGroupMember
<1>5. CASE RemoveGroupMember(r, g, e)
  BY <1>2, <1>3, <1>5 DEF RemoveGroupMember
<1>. QED  BY <1>4, <1>5

(* The list that removeGroupFromAllMembers starts with has every member
   whose newest copy the replica holds. *)
LEMMA DeleteUserGroupHolds ==
  ASSUME IInv, NEW r \in Replicas, NEW g \in Groups, DeleteUserGroup(r, g)
  PROVE  IInv'
<1>. PICK listed \in {Emails, {}} : deleting' = [deleting EXCEPT ![r] =
         [group |-> g, fresh |-> listed \ behind[r],
          todo  |-> {e \in listed : view[r][e].there
                                      /\ g \in view[r][e].labels}]]
  BY DEF DeleteUserGroup
<1>. DEFINE new == [group |-> g, fresh |-> listed \ behind[r],
                    todo |-> {e \in listed : view[r][e].there
                                               /\ g \in view[r][e].labels}]
<1>1. /\ left' \in Nat /\ deleting' = [deleting EXCEPT ![r] = new]
      /\ UNCHANGED <<userVars, groupVars, discovery>>
  BY ServesHolds DEF IInv, DeleteUserGroup
<1>2. new \in [group : Groups \cup {None}, todo : SUBSET Emails,
               fresh : SUBSET Emails]
  OBVIOUS
<1>3. \A e \in new.fresh : new.group \in users[e].labels => e \in new.todo
  <2>. SUFFICES ASSUME NEW e \in listed \ behind[r], g \in users[e].labels
                PROVE  view[r][e].there /\ g \in view[r][e].labels
    OBVIOUS
  <2>1. e \in Emails /\ view[r][e] = users[e]
    BY DEF IInv, FreshViews
  <2>2. users[e] \in User
    BY <2>1 DEF IInv, TypeOK
  <2>. QED  BY <2>1, <2>2 DEF IInv, AbsentUsers, User
<1>. HIDE DEF new
<1>4. TypeOK'
  BY <1>1, <1>2 DEF IInv, TypeOK, userVars, groupVars
<1>5. MembersFound'
  BY <1>1, <1>3 DEF IInv, TypeOK, MembersFound, userVars
<1>. QED  BY <1>1, <1>4, <1>5 DEF IInv, FreshViews, AbsentUsers, userVars,
                                  groupVars

LEMMA RemoveLabelHolds ==
  ASSUME IInv, NEW r \in Replicas, NEW e \in Emails, RemoveLabel(r, e)
  PROVE  IInv'
<1>. DEFINE g == deleting[r].group
            new == [users[e] EXCEPT !.labels = @ \ {g}]
<1>1. left' \in Nat /\ UNCHANGED <<groupVars, discovery>>
  BY DEF RemoveLabel, IInv, TypeOK
<1>2. users[e] \in User /\ users[e].labels \in SUBSET Groups
  BY DEF IInv, TypeOK, User
<1>3. CASE e \in deleting[r].fresh /\ users[e].there /\ StoreUser(r, e, new)
  <2>2. /\ new \in User /\ new.there /\ g \notin new.labels
    BY <1>2, <1>3, UserTypes
  <2>. HIDE DEF new
  <2>. QED  BY <1>1, <1>3, <2>2, StoreUserHolds
<1>4. CASE /\ deleting' = [deleting EXCEPT ![r].todo = @ \ {e},
                                           ![r].fresh = @ \ {e}]
           /\ UNCHANGED userVars
  <2>2. TypeOK'
    BY <1>1, <1>4 DEF IInv, TypeOK, userVars, groupVars
  <2>3. \A q \in Replicas :
           /\ deleting'[q].group = deleting[q].group
           /\ deleting'[q].fresh = IF q = r THEN deleting[q].fresh \ {e}
                                            ELSE deleting[q].fresh
           /\ deleting'[q].todo = IF q = r THEN deleting[q].todo \ {e}
                                           ELSE deleting[q].todo
    <3>1. /\ deleting'[r].group = deleting[r].group
          /\ deleting'[r].fresh = deleting[r].fresh \ {e}
          /\ deleting'[r].todo = deleting[r].todo \ {e}
      BY <1>4 DEF IInv, TypeOK
    <3>2. \A q \in Replicas \ {r} : deleting'[q] = deleting[q]
      BY <1>4 DEF IInv, TypeOK
    <3>. QED  BY <3>1, <3>2
  <2>4. MembersFound'
    <3>. SUFFICES ASSUME NEW q \in Replicas, deleting'[q].group # None,
                         NEW x \in deleting'[q].fresh,
                         deleting'[q].group \in users'[x].labels
                  PROVE  x \in deleting'[q].todo
      BY DEF MembersFound
    <3>1. /\ deleting[q].group # None /\ x \in deleting[q].fresh
          /\ deleting[q].group \in users[x].labels
      <4>1. users' = users
        BY <1>4 DEF userVars
      <4>. QED  BY <2>3, <4>1
    <3>2. x \in deleting[q].todo
      BY <3>1 DEF IInv, MembersFound
    <3>. QED  BY <2>3, <3>2
  <2>. QED  BY <1>1, <1>4, <2>2, <2>4 DEF IInv, FreshViews, AbsentUsers,
                                          userVars, groupVars
<1>. QED  BY <1>3, <1>4 DEF RemoveLabel

LEMMA DeleteGroupObjectHolds ==
  ASSUME IInv, NEW r \in Replicas, DeleteGroupObject(r)
  PROVE  IInv'
<1>. DEFINE g == deleting[r].group
<1>1. /\ g \in Groups /\ deleting' = [deleting EXCEPT ![r] = Idle]
      /\ UNCHANGED <<userVars, discovery, left>>
      /\ StoreGroup(g, NoGroup) \/ UNCHANGED groupVars
  BY DEF DeleteGroupObject, IInv, TypeOK
<1>2. MembersFound' /\ deleting' \in [Replicas -> [group : Groups \cup {None},
                          todo : SUBSET Emails, fresh : SUBSET Emails]]
  BY <1>1, EndHolds DEF userVars
<1>3. TypeOK'
  BY <1>1, <1>2 DEF IInv, TypeOK, StoreGroup, userVars, groupVars
<1>4. FreshViews'
  BY <1>1 DEF IInv, TypeOK, FreshViews, StoreGroup, userVars, groupVars
<1>. QED  BY <1>1, <1>2, <1>3, <1>4 DEF IInv, AbsentUsers, userVars

LEMMA UserRequestHolds ==
  ASSUME IInv, NEW r \in Replicas, NEW e \in Emails,
         CreateUser(r, e) \/ DeleteUser(r, e) \/ WriteUser(r, e)
  PROVE  IInv'
<1>1. /\ left' \in Nat /\ deleting[r].group = None
      /\ UNCHANGED <<groupVars, discovery>>
  BY ServesHolds DEF IInv, CreateUser, DeleteUser, WriteUser
<1>2. CASE CreateUser(r, e)
  <2>1. [there |-> TRUE, labels |-> {}] \in User
    BY DEF User
  <2>. QED  BY <1>1, <1>2, <2>1, StoreUserHolds DEF CreateUser
<1>3. CASE DeleteUser(r, e)
  BY <1>1, <1>3, UserTypes, StoreUserHolds DEF DeleteUser
<1>4. CASE WriteUser(r, e)
  <2>1. view[r][e] \in User
    BY DEF IInv, TypeOK
  <2>. QED  BY <1>1, <1>4, <2>1, StoreUserHolds DEF WriteUser
<1>. QED  BY <1>2, <1>3, <1>4

LEMMA DeliverHolds ==
  ASSUME IInv, NEW r \in Replicas,
         DeliverUsers(r) \/ DeliverGroups(r) \/ Crash(r)
  PROVE  IInv'
<1>. USE DEF IInv, userVars, groupVars
<1>1. CASE DeliverUsers(r)
  BY <1>1 DEF DeliverUsers, TypeOK, FreshViews, AbsentUsers, MembersFound
<1>2. CASE DeliverGroups(r)
  BY <1>2 DEF DeliverGroups, TypeOK, FreshViews, AbsentUsers, MembersFound
<1>3. CASE Crash(r)
  <2>1. MembersFound' /\ deleting' \in [Replicas -> [group : Groups \cup {None},
                            todo : SUBSET Emails, fresh : SUBSET Emails]]
    BY <1>3, EndHolds DEF Crash
  <2>. QED  BY <1>3, <2>1 DEF Crash, TypeOK, FreshViews, AbsentUsers
<1>. QED  BY <1>1, <1>2, <1>3

LEMMA NextHolds == IInv /\ [Next]_vars => IInv'
<1>. SUFFICES ASSUME IInv, [Next]_vars PROVE IInv'
  OBVIOUS
<1>1. CASE UNCHANGED vars
  BY <1>1 DEF vars, userVars, groupVars, IInv, TypeOK, FreshViews,
              AbsentUsers, MembersFound
<1>2. ASSUME NEW r \in Replicas, NEW g \in Groups, NEW p \in Grants,
             CreateUserGroup(r, g, p) \/ UpdateUserGroup(r, g, p)
      PROVE  IInv'
  BY <1>2, GroupRequestHolds
<1>3. ASSUME NEW r \in Replicas, NEW g \in Groups, NEW e \in Emails,
             AddGroupMember(r, g, e) \/ RemoveGroupMember(r, g, e)
      PROVE  IInv'
  BY <1>3, MemberRequestHolds
<1>4. ASSUME NEW r \in Replicas, NEW g \in Groups, DeleteUserGroup(r, g)
      PROVE  IInv'
  BY <1>4, DeleteUserGroupHolds
<1>5. ASSUME NEW r \in Replicas, NEW e \in Emails,
             \/ RemoveLabel(r, e) \/ CreateUser(r, e) \/ DeleteUser(r, e)
             \/ WriteUser(r, e)
      PROVE  IInv'
  BY <1>5, RemoveLabelHolds, UserRequestHolds
<1>6. ASSUME NEW r \in Replicas,
             \/ DeleteGroupObject(r) \/ DeliverUsers(r) \/ DeliverGroups(r)
             \/ Crash(r)
      PROVE  IInv'
  BY <1>6, DeleteGroupObjectHolds, DeliverHolds
<1>. QED  BY <1>1, <1>2, <1>3, <1>4, <1>5, <1>6 DEF Next

LEMMA AlwaysIInv == Spec => []IInv
BY InitHolds, NextHolds, PTL DEF Spec

-----------------------------------------------------------------------------
(* What follows *)

(* Every variable has its type: no request stores a group without
   permissions, or one with an action that is unknown. *)
THEOREM TypeCorrect == Spec => []TypeOK
<1>1. IInv => TypeOK
  BY DEF IInv
<1>. QED  BY <1>1, AlwaysIInv, PTL

(***************************************************************************)
(* A replica whose caches are up to date decides as the stored objects say.*)
(***************************************************************************)
THEOREM DecisionsAreCurrent == Spec => []DecisionsFollowStore
<1>1. IInv => DecisionsFollowStore
  <2>. SUFFICES ASSUME IInv, NEW r \in Replicas,
                       behind[r] = {}, grpBehind[r] = {},
                       NEW e \in Emails, NEW u \in Urls, NEW a \in Actions
                PROVE  HasClusterPermission(view[r][e], grpView[r], u, a)
                          <=> users[e].there /\ \E g \in users[e].labels :
                                 u \in DOMAIN groups[g] /\ a \in groups[g][u]
    BY DEF DecisionsFollowStore
  <2>1. view[r][e] = users[e]
    BY DEF IInv, FreshViews
  <2>2. users[e].labels \subseteq Groups
    BY DEF IInv, TypeOK, User
  <2>3. \A g \in Groups : grpView[r][g] = groups[g]
    BY DEF IInv, FreshViews
  <2>. QED  BY <2>1, <2>2, <2>3, PermissionGrants
<1>. QED  BY <1>1, AlwaysIInv, PTL

(* No step but a request about the user and the group, or the deletion of the
   group, makes a user a member or takes the membership away. *)
LEMMA MembershipStep ==
  ASSUME IInv, [Next]_vars, NEW e \in Emails, NEW g \in Groups,
         users[e].there, users'[e].there,
         (g \in users[e].labels) # (g \in users'[e].labels)
  PROVE  \E r \in Replicas :
            \/ AddGroupMember(r, g, e) \/ RemoveGroupMember(r, g, e)
            \/ deleting[r].group = g /\ RemoveLabel(r, e)
<1>0. users[e] \in User /\ users[e].labels \in SUBSET Groups
  BY DEF IInv, TypeOK, User
<1>1. ASSUME NEW r \in Replicas, NEW x \in Emails, NEW new,
             StoreUser(r, x, new)
      PROVE  x = e /\ users'[e] = new
  BY <1>1 DEF StoreUser, IInv, TypeOK
<1>2. ASSUME UNCHANGED users PROVE FALSE
  BY <1>2
<1>3. ASSUME NEW r \in Replicas, NEW h \in Groups, NEW p \in Grants,
             CreateUserGroup(r, h, p) \/ UpdateUserGroup(r, h, p)
      PROVE  FALSE
  BY <1>2, <1>3 DEF CreateUserGroup, UpdateUserGroup, userVars
<1>4. ASSUME NEW r \in Replicas, Accepted(r, e)
      PROVE  view[r][e] = users[e]
  BY <1>4 DEF Accepted, IInv, FreshViews
<1>5. ASSUME NEW r \in Replicas, NEW h \in Groups, NEW x \in Emails,
             AddGroupMember(r, h, x) \/ RemoveGroupMember(r, h, x)
      PROVE  x = e /\ h = g
  <2>1. x = e
    BY <1>1, <1>5 DEF AddGroupMember, RemoveGroupMember
  <2>2. view[r][e] = users[e]
    BY <1>4, <1>5, <2>1 DEF AddGroupMember, RemoveGroupMember
  <2>3. CASE AddGroupMember(r, h, x)
    <3>1. users'[e] = [users[e] EXCEPT !.labels = @ \cup {h}]
      BY <1>1, <2>1, <2>2, <2>3 DEF AddGroupMember
    <3>. QED  BY <1>0, <2>1, <3>1, UserTypes
  <2>4. CASE RemoveGroupMember(r, h, x)
    <3>1. users'[e] = [users[e] EXCEPT !.labels = @ \ {h}]
      BY <1>1, <2>1, <2>2, <2>4 DEF RemoveGroupMember
    <3>. QED  BY <1>0, <2>1, <3>1, UserTypes
  <2>. QED  BY <1>5, <2>3, <2>4
<1>6. ASSUME NEW r \in Replicas, NEW x \in Emails, RemoveLabel(r, x)
      PROVE  x = e /\ deleting[r].group = g
  <2>1. StoreUser(r, x, [users[x] EXCEPT !.labels = @ \ {deleting[r].group}])
    BY <1>2, <1>6 DEF RemoveLabel, userVars
  <2>2. /\ x = e
        /\ users'[e] = [users[e] EXCEPT !.labels = @ \ {deleting[r].group}]
    BY <1>1, <2>1
  <2>. QED  BY <1>0, <2>2, UserTypes
<1>7. ASSUME NEW r \in Replicas, NEW x \in Emails,
             CreateUser(r, x) \/ DeleteUser(r, x) \/ WriteUser(r, x)
      PROVE  FALSE
  <2>1. CASE CreateUser(r, x)
    BY <1>1, <2>1 DEF CreateUser
  <2>2. CASE DeleteUser(r, x)
    BY <1>1, <2>2, UserTypes DEF DeleteUser
  <2>3. CASE WriteUser(r, x)
    BY <1>1, <1>4, <2>3 DEF WriteUser
  <2>. QED  BY <1>7, <2>1, <2>2, <2>3
<1>8. ASSUME NEW r \in Replicas,
             \/ \E h \in Groups : DeleteUserGroup(r, h)
             \/ DeleteGroupObject(r) \/ DeliverUsers(r) \/ DeliverGroups(r)
             \/ Crash(r)
      PROVE  FALSE
  BY <1>2, <1>8 DEF DeleteUserGroup, DeleteGroupObject, DeliverUsers,
                    DeliverGroups, Crash, userVars
<1>9. Next
  BY <1>2 DEF vars, userVars
<1>. QED  BY <1>3, <1>5, <1>6, <1>7, <1>8, <1>9 DEF Next

(***************************************************************************)
(* A membership changes only in a request about that user and that group,  *)
(* or when the group is deleted: whoever else writes the object does so    *)
(* from a copy that an update in between makes unacceptable.               *)
(***************************************************************************)
THEOREM MembershipIsGuarded == Spec => MembershipGuarded
<1>1. IInv /\ [Next]_vars =>
         \A e \in Emails, g \in Groups :
            /\ users[e].there /\ users'[e].there
            /\ (g \in users[e].labels) # (g \in users'[e].labels)
            => \E r \in Replicas :
                  \/ AddGroupMember(r, g, e) \/ RemoveGroupMember(r, g, e)
                  \/ deleting[r].group = g /\ RemoveLabel(r, e)
  BY MembershipStep
<1>. QED  BY <1>1, AlwaysIInv, PTL DEF Spec, MembershipGuarded

(***************************************************************************)
(* When DeleteUserGroup comes to delete the group, every member whose      *)
(* newest version the replica listed, whom nobody else wrote since and     *)
(* whose update did not fail has lost the label.  The loop over the members*)
(* may fail for any of them, the list altogether, and other replicas write *)
(* users all the while; MembersFound is what each of these steps keeps.    *)
(***************************************************************************)
THEOREM NoGhostsRemain == Spec => NoGhostMembers
<1>1. IInv /\ [Next]_vars =>
         \A r \in Replicas : DeleteGroupObject(r) =>
            \A e \in deleting[r].fresh :
                deleting[r].group \notin users'[e].labels
  BY DEF IInv, MembersFound, DeleteGroupObject, allHandled, userVars
<1>. QED  BY <1>1, AlwaysIInv, PTL DEF Spec, NoGhostMembers
=============================================================================
