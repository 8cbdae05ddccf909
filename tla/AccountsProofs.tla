--------------------------- MODULE AccountsProofs ---------------------------
(***************************************************************************)
(* Proofs about JwtSecret and Accounts, for every set of replicas, users   *)
(* and passwords, and any number of requests and faults.                   *)
(***************************************************************************)
EXTENDS Accounts, FiniteSetTheorems, TLAPS

USE ReplicasAssumption

-----------------------------------------------------------------------------
(* Types of the values the actions are built from *)

Checked(request) ==
    /\ request.op \in {"register", "create"} => request.role \in Roles
    /\ request.step # "start" =>
          request.by.role = "admin" \/ request.op = "register"
    /\ request.step \notin {"start", "status", "object"} =>
          request.op \in {"register", "create"}
    /\ request.step = "object" => request.op = "delete"

LEMMA CheckedRequests == RequestsChecked <=> \A r \in Replicas : Checked(job[r])
BY DEF RequestsChecked, Checked, isAdmin

LEMMA IdleIsChecked == /\ Checked(Idle) /\ Idle \notin Request
                       /\ Idle.op = None /\ Idle.step = "start"
BY DEF Checked, Idle, Request, Ops, None

LEMMA NoUserType == NoUser \in User /\ ~NoUser.there
BY DEF NoUser, User, Roles

(* A handler that is under way serves a request. *)
LEMMA Serving ==
  ASSUME IInv, NEW r \in Replicas, job[r].op \in Ops \/ job[r].step # "start"
  PROVE  /\ job[r] \in Request /\ job[r] # Idle /\ boot[r] = "serving"
         /\ job[r].who \in Emails /\ Checked(job[r])
         /\ have[r] = key /\ key \in Replicas
<1>1. job[r] \in Request /\ job[r] # Idle
  <2>1. job[r] # Idle
    BY IdleIsChecked DEF Ops, None
  <2>. QED  BY <2>1 DEF IInv, TypeOK
<1>2. boot[r] = "serving" /\ Checked(job[r])
  BY <1>1, CheckedRequests DEF IInv, RequestsServed
<1>. QED  BY <1>1, <1>2 DEF IInv, OneKey, TypeOK, JwtTypeOK, MaybeKey, Request

-----------------------------------------------------------------------------
(* The steps of a handler, variable by variable *)

(* The handler returns, or goes on with a step that its checks allow. *)
Goes(r) ==
    \/ Return(r)
    \/ \E step \in Steps \ {"start", "object"} :
          Goto(r, step) /\ Checked([job[r] EXCEPT !.step = step])

LEMMA GoesHolds ==
  ASSUME IInv, NEW r \in Replicas, job[r] \in Request, Goes(r), boot' = boot
  PROVE  /\ job' \in [Replicas -> Request \cup {Idle}]
         /\ RequestsServed' /\ RequestsChecked'
         /\ job'[r].step # "object"
         /\ \A q \in Replicas \ {r} : job'[q] = job[q]
<1>1. job \in [Replicas -> Request \cup {Idle}] /\ job[r] # Idle
  BY IdleIsChecked DEF IInv, TypeOK
<1>2. \A q \in Replicas : Checked(job[q])
  BY CheckedRequests DEF IInv
<1>3. boot[r] = "serving"
  BY <1>1 DEF IInv, RequestsServed
<1>4. \E new \in Request \cup {Idle} :
         job' = [job EXCEPT ![r] = new] /\ Checked(new) /\ new.step # "object"
  <2>1. CASE Return(r)
    BY <2>1, IdleIsChecked DEF Return
  <2>2. ASSUME NEW step \in Steps \ {"start", "object"},
               Goto(r, step), Checked([job[r] EXCEPT !.step = step])
        PROVE  \E new \in Request \cup {Idle} :
                  /\ job' = [job EXCEPT ![r] = new]
                  /\ Checked(new) /\ new.step # "object"
    <3>1. /\ [job[r] EXCEPT !.step = step] \in Request
          /\ [job[r] EXCEPT !.step = step].step = step
      BY DEF Request
    <3>2. job' = [job EXCEPT ![r] = [job[r] EXCEPT !.step = step]]
      BY <2>2 DEF Goto
    <3>. QED  BY <2>2, <3>1, <3>2
  <2>. QED  BY <2>1, <2>2 DEF Goes
<1>5. PICK new \in Request \cup {Idle} :
         job' = [job EXCEPT ![r] = new] /\ Checked(new) /\ new.step # "object"
  BY <1>4
<1>6. /\ job' \in [Replicas -> Request \cup {Idle}]
      /\ job'[r] = new /\ \A q \in Replicas \ {r} : job'[q] = job[q]
  BY <1>1, <1>5
<1>7. RequestsServed'
  BY <1>3, <1>6 DEF IInv, RequestsServed
<1>8. RequestsChecked'
  BY <1>2, <1>5, <1>6, CheckedRequests DEF RequestsChecked, Checked, isAdmin
<1>. QED  BY <1>5, <1>6, <1>7, <1>8

(* Users are left alone, or one of them is stored. *)
Stores(r) ==
    UNCHANGED userVars \/ \E e \in Emails, new \in User : StoreUser(r, e, new)

LEMMA StoresHolds ==
  ASSUME IInv, NEW r \in Replicas, Stores(r),
         job'[r].step # "object",
         \A q \in Replicas \ {r} : job'[q] = job[q]
  PROVE  /\ users' \in [Emails -> User] /\ view' = view
         /\ behind' \in [Replicas -> SUBSET Emails]
         /\ held' \in SUBSET Replicas
         /\ FreshViews' /\ CountHolds'
<1>1. CASE UNCHANGED userVars
  BY <1>1 DEF userVars, IInv, TypeOK, FreshViews, CountHolds, ActiveAdmins,
              Admins
<1>2. ASSUME NEW e \in Emails, NEW new \in User, StoreUser(r, e, new)
      PROVE  /\ users' \in [Emails -> User] /\ view' = view
             /\ behind' \in [Replicas -> SUBSET Emails]
             /\ held' \in SUBSET Replicas
             /\ FreshViews' /\ CountHolds'
  <2>1. /\ users' \in [Emails -> User]
        /\ \A x \in Emails \ {e} : users'[x] = users[x]
    BY <1>2 DEF StoreUser, IInv, TypeOK
  <2>2. /\ behind' \in [Replicas -> SUBSET Emails] /\ view' = view
        /\ \A q \in Replicas : behind'[q] = behind[q] \cup {e}
    BY <1>2 DEF StoreUser, IInv, TypeOK
  <2>3. held' = {r} \cup {q \in held : job[q].who # e /\ job[q].op # "delete"}
    BY <1>2 DEF StoreUser
  <2>4. held \subseteq Replicas
    BY DEF IInv, TypeOK
  <2>5. FreshViews'
    BY <2>1, <2>2 DEF IInv, FreshViews
  <2>6. ASSUME NEW q \in held' PROVE job'[q].step # "object"
    <3>1. CASE q # r
      <4>1. q \in Replicas /\ job'[q] = job[q] /\ job[q].op # "delete"
        BY <2>3, <2>4, <3>1
      <4>. QED  BY <4>1, CheckedRequests DEF IInv, Checked
    <3>. QED  BY <3>1
  <2>7. CountHolds'
    BY <2>6 DEF CountHolds
  <2>. QED  BY <2>1, <2>2, <2>3, <2>4, <2>5, <2>7
<1>. QED  BY <1>1, <1>2 DEF Stores

(* Likewise Secrets. *)
StoresSecret ==
    \/ UNCHANGED secVars
    \/ \E f \in Refs, p \in Passwords \cup {None} : StoreSecret(f, p)

LEMMA StoresSecretType ==
  ASSUME TypeOK, StoresSecret
  PROVE  /\ secrets' \in [Refs -> Passwords \cup {None}]
         /\ secView' \in [Replicas -> [Refs -> Passwords \cup {None}]]
         /\ secBehind' \in [Replicas -> SUBSET Refs]
BY DEF TypeOK, StoresSecret, StoreSecret, secVars

(* Whatever a handler does with these, the invariant holds afterwards. *)
LEMMA HandlerHolds ==
  ASSUME IInv, NEW r \in Replicas, job[r] \in Request,
         Goes(r), Stores(r), StoresSecret, Rest, tokens' = tokens
  PROVE  IInv'
<1>1. UNCHANGED <<key, keyView, boot, have, faults, left>>
  BY DEF Rest, jwtVars
<1>2. /\ job' \in [Replicas -> Request \cup {Idle}]
      /\ RequestsServed' /\ RequestsChecked'
      /\ job'[r].step # "object"
      /\ \A q \in Replicas \ {r} : job'[q] = job[q]
  BY <1>1, GoesHolds
<1>3. /\ users' \in [Emails -> User] /\ view' = view
      /\ behind' \in [Replicas -> SUBSET Emails]
      /\ held' \in SUBSET Replicas /\ FreshViews' /\ CountHolds'
  BY <1>2, StoresHolds
<1>4. TypeOK'
  BY <1>1, <1>2, <1>3, StoresSecretType DEF IInv, TypeOK, JwtTypeOK
<1>5. OneKey'
  BY <1>1 DEF IInv, OneKey
<1>. QED  BY <1>2, <1>3, <1>4, <1>5 DEF IInv

-----------------------------------------------------------------------------
(* The actions *)

LEMMA InitHolds == Init => IInv
<1>. SUFFICES ASSUME Init PROVE IInv
  OBVIOUS
<1>1. JwtTypeOK
  BY FaultsAssumption DEF Init, JwtInit, JwtTypeOK, MaybeKey
<1>2. users \in [Emails -> User]
  BY NoUserType DEF Init
<1>3. \A e \in Emails : users[e].there => key \in Replicas
  BY NoUserType DEF Init, JwtInit, MaybeKey
<1>4. tokens \in SUBSET Token /\ \A t \in tokens : t.key = key
  BY <1>2, <1>3 DEF Init, Token, User
<1>5. secrets \in [Refs -> Passwords \cup {None}]
  BY DEF Init
<1>6. /\ behind = [r \in Replicas |-> {}] /\ secBehind = [r \in Replicas |-> {}]
      /\ view = [r \in Replicas |-> users]
      /\ secView = [r \in Replicas |-> secrets]
      /\ job = [r \in Replicas |-> Idle] /\ held = {} /\ left = MaxRequests
  BY DEF Init
<1>7. TypeOK
  BY <1>1, <1>2, <1>4, <1>5, <1>6, RequestsAssumption DEF TypeOK
<1>8. OneKey
  BY <1>4 DEF Init, JwtInit, OneKey
<1>9. RequestsChecked
  BY <1>6, IdleIsChecked, CheckedRequests
<1>. QED  BY <1>6, <1>7, <1>8, <1>9 DEF IInv, RequestsServed, FreshViews,
                                         CountHolds

LEMMA BodyTypes ==
  ASSUME NEW op \in Ops, NEW q \in Bodies(op)
  PROVE  /\ q.role \in Roles \cup {None} /\ q.active \in {None, "on", "off"}
         /\ q.pass \in Passwords \cup {None} /\ q.old \in Passwords \cup {None}
         /\ op \in {"register", "create"} => q.role \in Roles
BY DEF Bodies

LEMMA SendHolds ==
  ASSUME IInv, NEW r \in Replicas, Send(r)
  PROVE  IInv'
<1>1. /\ boot[r] = "serving" /\ left' \in Nat
      /\ UNCHANGED <<key, keyView, boot, have, faults, users, view, behind,
                     held, secrets, secView, secBehind, tokens>>
  BY DEF Send, IInv, TypeOK, jwtVars, userVars, secVars
<1>2a. PICK op \in Ops, who \in Emails :
         \E by \in RequireAuth(r, op), q \in Bodies(op) :
            job' = [job EXCEPT ![r] =
                      [op |-> op, who |-> who, by |-> by, step |-> "start",
                       role |-> q.role, active |-> q.active, pass |-> q.pass,
                       old |-> q.old]]
  BY DEF Send
<1>2. PICK by \in RequireAuth(r, op), q \in Bodies(op) :
         job' = [job EXCEPT ![r] =
                   [op |-> op, who |-> who, by |-> by, step |-> "start",
                    role |-> q.role, active |-> q.active, pass |-> q.pass,
                    old |-> q.old]]
  BY <1>2a
<1>. DEFINE new == [op |-> op, who |-> who, by |-> by, step |-> "start",
                    role |-> q.role, active |-> q.active, pass |-> q.pass,
                    old |-> q.old]
<1>3. by \in Token \cup {NoToken}
  BY DEF RequireAuth, IInv, TypeOK
<1>4. new \in Request /\ Checked(new) /\ new.step = "start"
  BY <1>3, BodyTypes DEF Request, Checked, Steps
<1>5. job' = [job EXCEPT ![r] = new]
  BY <1>2
<1>. HIDE DEF new
<1>6. TypeOK'
  BY <1>1, <1>4, <1>5 DEF IInv, TypeOK, JwtTypeOK
<1>7. /\ job'[r] = new /\ \A x \in Replicas \ {r} : job'[x] = job[x]
  BY <1>5 DEF IInv, TypeOK
<1>8. RequestsServed'
  BY <1>1, <1>7 DEF IInv, RequestsServed
<1>9. RequestsChecked'
  BY <1>4, <1>7, CheckedRequests DEF IInv, RequestsChecked, Checked, isAdmin
<1>10. CountHolds'
  <2>1. \A x \in held : x \in Replicas
    BY DEF IInv, TypeOK
  <2>. QED  BY <1>1, <1>4, <1>7, <2>1 DEF IInv, CountHolds, ActiveAdmins, Admins
<1>. QED  BY <1>1, <1>6, <1>8, <1>9, <1>10 DEF IInv, OneKey, FreshViews

(* Where a handler goes on after its first checks. *)
LEMMA FirstSteps ==
  ASSUME NEW r, Checked(job[r]), job[r] \in Request
  PROVE  /\ Return(r) => Goes(r)
         /\ \A step \in {"secret", "remove", "again", "user", "undo"} :
               /\ Goto(r, step) /\ job[r].op \in {"register", "create"}
               /\ job[r].op = "create" => isAdmin(r)
               => Goes(r)
         /\ Goto(r, "status") /\ (isAdmin(r) \/ job[r].op = "register")
               => Goes(r)
<1>1. ASSUME NEW step \in Steps
      PROVE  LET new == [job[r] EXCEPT !.step = step]
             IN  /\ new.step = step /\ new.op = job[r].op
                 /\ new.by = job[r].by /\ new.role = job[r].role
  BY DEF Request
<1>2. {"secret", "remove", "again", "user", "undo", "status"} \subseteq Steps
  BY DEF Steps
<1>. QED  BY <1>1, <1>2 DEF Goes, Checked, isAdmin

LEMMA BeginHolds ==
  ASSUME IInv, NEW r \in Replicas, Register(r) \/ CreateUser(r)
  PROVE  IInv'
<1>1. job[r].op \in {"register", "create"}
  BY DEF Register, CreateUser, At
<1>2. job[r] \in Request /\ Checked(job[r])
  BY <1>1, Serving DEF Ops
<1>3. Goes(r)
  BY <1>1, <1>2, FirstSteps DEF Register, CreateUser, At
<1>. QED  BY <1>2, <1>3, HandlerHolds
          DEF Register, CreateUser, Stores, StoresSecret

LEMMA PasswordHolds ==
  ASSUME IInv, NEW r \in Replicas,
         \/ CreatePassword(r) \/ RemovePassword(r) \/ RecreatePassword(r)
         \/ UndoPassword(r)
  PROVE  IInv'
<1>1. job[r].step \in {"secret", "remove", "again", "undo"}
  BY DEF CreatePassword, RemovePassword, RecreatePassword, UndoPassword
<1>2. job[r] \in Request /\ job[r].who \in Emails /\ Checked(job[r])
  BY <1>1, Serving
<1>3. /\ job[r].op \in {"register", "create"}
      /\ job[r].op = "create" => isAdmin(r)
  BY <1>1, <1>2 DEF Checked, isAdmin
<1>4. NewRef(r) \in Refs /\ job[r].pass \in Passwords \cup {None}
  BY <1>2, <1>3 DEF NewRef, Refs, Request
<1>5. Goes(r)
  BY <1>2, <1>3, FirstSteps
  DEF CreatePassword, RemovePassword, RecreatePassword, UndoPassword
<1>6. StoresSecret
  BY <1>4 DEF StoresSecret, CreatePassword, RemovePassword, RecreatePassword,
              UndoPassword
<1>. QED  BY <1>2, <1>5, <1>6, HandlerHolds
          DEF Stores, CreatePassword, RemovePassword, RecreatePassword,
              UndoPassword

LEMMA CreateAccountHolds ==
  ASSUME IInv, NEW r \in Replicas, CreateAccount(r)
  PROVE  IInv'
<1>1. job[r] \in Request /\ job[r].who \in Emails /\ Checked(job[r])
  BY Serving DEF CreateAccount
<1>2. /\ job[r].op \in {"register", "create"} /\ job[r].role \in Roles
      /\ job[r].op = "create" => isAdmin(r)
  BY <1>1 DEF CreateAccount, Checked, isAdmin
<1>3. [there |-> TRUE, active |-> FALSE, ref |-> job[r].op,
       role |-> job[r].role] \in User
  BY <1>2 DEF User
<1>4. Stores(r)
  BY <1>1, <1>3 DEF CreateAccount, Stores
<1>5. Goes(r)
  BY <1>1, <1>2, FirstSteps DEF CreateAccount
<1>. QED  BY <1>1, <1>4, <1>5, HandlerHolds DEF CreateAccount, StoresSecret

LEMMA UpdateStatusHolds ==
  ASSUME IInv, NEW r \in Replicas, UpdateStatus(r)
  PROVE  IInv'
<1>1. job[r] \in Request /\ job[r].who \in Emails /\ Checked(job[r])
  BY Serving DEF UpdateStatus
<1>2. users[job[r].who] \in User
  BY <1>1 DEF IInv, TypeOK
<1>3. [users[job[r].who] EXCEPT !.active = job[r].active # "off"] \in User
  BY <1>2 DEF User
<1>4. Stores(r)
  BY <1>1, <1>3 DEF UpdateStatus, Stores
<1>5. Goes(r)
  BY DEF UpdateStatus, Goes
<1>. QED  BY <1>1, <1>4, <1>5, HandlerHolds DEF UpdateStatus, StoresSecret

LEMMA LoginHolds ==
  ASSUME IInv, NEW r \in Replicas, Login(r)
  PROVE  IInv'
<1>. DEFINE e == job[r].who
<1>1. /\ job[r] \in Request /\ e \in Emails
      /\ have[r] = key /\ key \in Replicas
  BY Serving DEF Login, At, Ops
<1>2. view[r][e] \in User
  BY <1>1 DEF IInv, TypeOK
<1>3. Stores(r) /\ StoresSecret /\ Goes(r)
  BY <1>1, <1>2 DEF Login, Stores, StoresSecret, Goes
<1>4. UNCHANGED <<key, keyView, boot, have, faults, left>>
  BY DEF Login, Rest, jwtVars
<1>5. tokens' \in SUBSET Token /\ \A t \in tokens' : t.key = key
  <2>1. [email |-> e, role |-> view[r][e].role, key |-> have[r]] \in Token
    BY <1>1, <1>2 DEF Token, User
  <2>2. tokens \in SUBSET Token /\ \A t \in tokens : t.key = key
    BY DEF IInv, TypeOK, OneKey
  <2>. QED  BY <1>1, <2>1, <2>2 DEF Login
<1>6. /\ job' \in [Replicas -> Request \cup {Idle}]
      /\ RequestsServed' /\ RequestsChecked' /\ job'[r].step # "object"
      /\ \A q \in Replicas \ {r} : job'[q] = job[q]
  BY <1>1, <1>3, <1>4, GoesHolds
<1>7. /\ users' \in [Emails -> User] /\ view' = view
      /\ behind' \in [Replicas -> SUBSET Emails]
      /\ held' \in SUBSET Replicas /\ FreshViews' /\ CountHolds'
  BY <1>3, <1>6, StoresHolds
<1>8. TypeOK'
  BY <1>3, <1>4, <1>5, <1>6, <1>7, StoresSecretType DEF IInv, TypeOK, JwtTypeOK
<1>9. OneKey'
  BY <1>4, <1>5 DEF IInv, OneKey
<1>. QED  BY <1>6, <1>7, <1>8, <1>9 DEF IInv

LEMMA UpdateUserHolds ==
  ASSUME IInv, NEW r \in Replicas, UpdateUser(r)
  PROVE  IInv'
<1>. DEFINE e == job[r].who
<1>1. job[r] \in Request /\ e \in Emails /\ Checked(job[r])
  BY Serving DEF UpdateUser, At, Ops
<1>2. view[r][e] \in User /\ job[r].role \in Roles \cup {None}
  BY <1>1 DEF IInv, TypeOK, Request
<1>3. withGivenFields(view[r][e], job[r]) \in User
  BY <1>2 DEF withGivenFields, User
<1>4. Stores(r)
  BY <1>1, <1>3 DEF UpdateUser, Stores
<1>5. Goes(r)
  BY <1>1, FirstSteps DEF UpdateUser, mayUpdate
<1>. QED  BY <1>1, <1>4, <1>5, HandlerHolds DEF UpdateUser, StoresSecret

(* The count of administrators was made with the stored accounts if the
   replica had delivered them all. *)
LEMMA AnotherAdmin ==
  ASSUME NEW S, NEW e, Cardinality(S) > 1
  PROVE  S \ {e} # {}
<1>. SUFFICES ASSUME S \ {e} = {} PROVE FALSE
  OBVIOUS
<1>1. S = {} \/ S = {e}
  OBVIOUS
<1>2. Cardinality(S) \in {0, 1}
  BY <1>1, FS_EmptySet, FS_Singleton
<1>. QED  BY <1>2

LEMMA DeleteUserHolds ==
  ASSUME IInv, NEW r \in Replicas, DeleteUser(r)
  PROVE  IInv'
<1>. DEFINE e == job[r].who
<1>1. job[r] \in Request /\ e \in Emails /\ Checked(job[r])
  BY Serving DEF DeleteUser, At, Ops
<1>2. CASE /\ isAdmin(r) /\ ~isSelf(r) /\ view[r][e].there /\ anotherAdmin(r)
  <2>. DEFINE new == [job[r] EXCEPT !.step = "object"]
  <2>1. /\ StoreSecret(RefOf(e, view[r][e]), None) \/ UNCHANGED secVars
        /\ held' = IF behind[r] = {} THEN held \cup {r} ELSE held \ {r}
        /\ job' = [job EXCEPT ![r] = new]
        /\ UNCHANGED <<key, keyView, boot, have, faults, left, users, view,
                       behind, tokens>>
    BY <1>2 DEF DeleteUser, Goto, Rest, jwtVars
  <2>2. new \in Request /\ Checked(new) /\ new.who = e
    BY <1>1, <1>2 DEF Request, Checked, isAdmin, Steps, DeleteUser, At
  <2>. HIDE DEF new
  <2>3. RefOf(e, view[r][e]) \in Refs
    BY <1>1 DEF RefOf, Refs, IInv, TypeOK, User
  <2>4. /\ secrets' \in [Refs -> Passwords \cup {None}]
        /\ secView' \in [Replicas -> [Refs -> Passwords \cup {None}]]
        /\ secBehind' \in [Replicas -> SUBSET Refs]
    BY <2>1, <2>3, StoresSecretType DEF StoresSecret, IInv
  <2>5. TypeOK'
    BY <2>1, <2>2, <2>4 DEF IInv, TypeOK, JwtTypeOK
  <2>6. job'[r] = new /\ \A q \in Replicas \ {r} : job'[q] = job[q]
    BY <2>1 DEF IInv, TypeOK
  <2>7. RequestsServed'
    <3>1. boot[r] = "serving"
      BY <1>1, Serving DEF Request
    <3>. QED  BY <2>1, <2>6, <3>1 DEF IInv, RequestsServed
  <2>8. RequestsChecked'
    BY <2>2, <2>6, CheckedRequests DEF IInv, RequestsChecked, Checked, isAdmin
  <2>9. ASSUME behind[r] = {}, users[e].role = "admin"
        PROVE  ActiveAdmins(users) \ {e} # {}
    <3>1. \A x \in Emails : view[r][x] = users[x]
      BY <2>9 DEF IInv, FreshViews
    <3>2. ActiveAdmins(view[r]) = ActiveAdmins(users)
      BY <3>1 DEF ActiveAdmins, Admins
    <3>3. Cardinality(ActiveAdmins(users)) > 1
      BY <1>1, <1>2, <2>9, <3>1, <3>2 DEF anotherAdmin
    <3>. QED  BY <3>3, AnotherAdmin
  <2>10. CountHolds'
    <3>. SUFFICES ASSUME NEW q \in held', job'[q].step = "object",
                         users[job'[q].who].role = "admin"
                  PROVE  ActiveAdmins(users) \ {job'[q].who} # {}
      BY <2>1 DEF CountHolds, ActiveAdmins, Admins
    <3>1. CASE q = r
      BY <2>1, <2>2, <2>6, <2>9, <3>1
    <3>2. CASE q # r
      <4>1. q \in held /\ q \in Replicas /\ job'[q] = job[q]
        BY <2>1, <2>6, <3>2 DEF IInv, TypeOK
      <4>. QED  BY <4>1 DEF IInv, CountHolds
    <3>. QED  BY <3>1, <3>2
  <2>. QED  BY <2>1, <2>5, <2>7, <2>8, <2>10 DEF IInv, OneKey, FreshViews
<1>3. CASE ~(/\ isAdmin(r) /\ ~isSelf(r) /\ view[r][e].there /\ anotherAdmin(r))
  <2>1. Goes(r) /\ Stores(r) /\ StoresSecret /\ Rest /\ tokens' = tokens
    BY <1>3 DEF DeleteUser, Goes, Stores, StoresSecret, userVars
  <2>. QED  BY <1>1, <2>1, HandlerHolds
<1>. QED  BY <1>2, <1>3

LEMMA DeleteUserObjectHolds ==
  ASSUME IInv, NEW r \in Replicas, DeleteUserObject(r)
  PROVE  IInv'
<1>1. job[r] \in Request /\ job[r].who \in Emails
  BY Serving DEF DeleteUserObject
<1>2. Stores(r) /\ Goes(r)
  BY <1>1, NoUserType DEF DeleteUserObject, Stores, Goes
<1>. QED  BY <1>1, <1>2, HandlerHolds DEF DeleteUserObject, StoresSecret

LEMMA ChangePasswordHolds ==
  ASSUME IInv, NEW r \in Replicas, ChangePassword(r)
  PROVE  IInv'
<1>. DEFINE e == job[r].who
<1>1. job[r] \in Request /\ e \in Emails /\ job[r].pass \in Passwords \cup {None}
  BY Serving DEF ChangePassword, At, Ops, Request
<1>2. RefOf(e, view[r][e]) \in Refs
  BY <1>1 DEF RefOf, Refs, IInv, TypeOK, User
<1>3. StoresSecret /\ Goes(r) /\ Stores(r)
  BY <1>1, <1>2 DEF ChangePassword, StoresSecret, Goes, Stores
<1>. QED  BY <1>1, <1>3, HandlerHolds DEF ChangePassword

LEMMA DeliverHolds ==
  ASSUME IInv, NEW r \in Replicas, DeliverUsers(r) \/ DeliverSecrets(r)
  PROVE  IInv'
<1>1. UNCHANGED <<key, keyView, boot, have, faults, left, users, held, secrets,
                  tokens, job>>
  BY DEF DeliverUsers, DeliverSecrets, Rest, jwtVars, userVars, secVars
<1>2. TypeOK'
  <2>1. CASE DeliverUsers(r)
    <3>1. /\ view' \in [Replicas -> [Emails -> User]]
          /\ behind' \in [Replicas -> SUBSET Emails]
      BY <2>1 DEF IInv, TypeOK, DeliverUsers
    <3>. QED  BY <1>1, <2>1, <3>1 DEF IInv, TypeOK, JwtTypeOK, DeliverUsers,
                                      secVars
  <2>2. CASE DeliverSecrets(r)
    <3>1. /\ secView' \in [Replicas -> [Refs -> Passwords \cup {None}]]
          /\ secBehind' \in [Replicas -> SUBSET Refs]
      BY <2>2 DEF IInv, TypeOK, DeliverSecrets
    <3>. QED  BY <1>1, <2>2, <3>1 DEF IInv, TypeOK, JwtTypeOK, DeliverSecrets,
                                      userVars
  <2>. QED  BY <2>1, <2>2
<1>3. FreshViews'
  BY <1>1 DEF IInv, TypeOK, FreshViews, DeliverUsers, DeliverSecrets, userVars
<1>. QED  BY <1>1, <1>2, <1>3 DEF IInv, OneKey, RequestsServed, RequestsChecked,
                                  isAdmin, CountHolds, ActiveAdmins, Admins

(* Only the first replica that creates the Secret decides what is in it. *)
LEMMA BootHolds ==
  ASSUME IInv, NEW r \in Replicas, Boot(r)
  PROVE  IInv'
<1>1. /\ UNCHANGED <<users, view, behind, held, secrets, secView, secBehind,
                     tokens, job, left>>
      /\ JwtStep(r)
  BY DEF Boot, userVars, secVars
<1>2. JwtTypeOK /\ OneKey /\ tokens \subseteq Token
  BY DEF IInv, TypeOK
<1>3. JwtTypeOK'
  BY <1>1, <1>2 DEF JwtStep, JwtTypeOK, GetJwtSecret, CreateJwtSecret,
     RefetchJwtSecret, AttemptFails, DeliverKey, Serve, Step, Fail, MaybeKey
<1>4. OneKey'
  <2>1. CASE GetJwtSecret(r) \/ RefetchJwtSecret(r)
    BY <1>1, <1>2, <2>1 DEF GetJwtSecret, RefetchJwtSecret, Serve, Step,
                            OneKey, JwtTypeOK
  <2>2. CASE CreateJwtSecret(r)
    <3>1. CASE key = None
      <4>1. /\ tokens = {}
            /\ \A q \in Replicas : keyView[q] = None /\ boot[q] # "serving"
        BY <1>2, <3>1 DEF OneKey, Token
      <4>. QED  BY <1>1, <1>2, <2>2, <3>1, <4>1
                DEF CreateJwtSecret, Serve, Step, OneKey, JwtTypeOK
    <3>2. CASE key # None
      BY <1>1, <1>2, <2>2, <3>2 DEF CreateJwtSecret, Step, OneKey, JwtTypeOK
    <3>. QED  BY <3>1, <3>2
  <2>3. CASE AttemptFails(r) \/ DeliverKey(r)
    BY <1>1, <1>2, <2>3 DEF AttemptFails, DeliverKey, Step, OneKey, JwtTypeOK
  <2>. QED  BY <1>1, <2>1, <2>2, <2>3 DEF JwtStep
<1>5. \A q \in Replicas : boot[q] = "serving" => boot'[q] = "serving"
  BY <1>1, <1>2 DEF JwtStep, JwtTypeOK, GetJwtSecret, CreateJwtSecret,
     RefetchJwtSecret, AttemptFails, DeliverKey, Serve, Step
<1>. QED  BY <1>1, <1>3, <1>4, <1>5 DEF IInv, TypeOK, RequestsServed,
          RequestsChecked, isAdmin, FreshViews, CountHolds, ActiveAdmins, Admins

LEMMA CrashHolds ==
  ASSUME IInv, NEW r \in Replicas, Crash(r)
  PROVE  IInv'
<1>1. /\ UNCHANGED <<users, secrets, tokens, left, key>>
      /\ job' = [job EXCEPT ![r] = Idle] /\ held' = held \ {r}
  BY DEF Crash, RestartJwt, Return
<1>2. TypeOK'
  BY <1>1 DEF IInv, TypeOK, JwtTypeOK, MaybeKey, Crash, RestartJwt, Step, Fail
<1>3. OneKey'
  BY <1>1 DEF IInv, TypeOK, JwtTypeOK, OneKey, Crash, RestartJwt, Step
<1>4. job'[r] = Idle /\ \A q \in Replicas \ {r} : job'[q] = job[q]
  BY <1>1 DEF IInv, TypeOK
<1>5. RequestsServed'
  BY <1>4 DEF IInv, TypeOK, JwtTypeOK, RequestsServed, Crash, RestartJwt, Step
<1>6. RequestsChecked'
  BY <1>4, IdleIsChecked, CheckedRequests
  DEF IInv, RequestsChecked, Checked, isAdmin
<1>7. FreshViews'
  BY <1>1 DEF IInv, TypeOK, FreshViews, Crash
<1>8. CountHolds'
  <2>1. \A q \in held' : q \in held /\ job'[q] = job[q]
    BY <1>1, <1>4 DEF IInv, TypeOK
  <2>. QED  BY <1>1, <2>1 DEF IInv, CountHolds, ActiveAdmins, Admins
<1>. QED  BY <1>2, <1>3, <1>5, <1>6, <1>7, <1>8 DEF IInv

LEMMA NextHolds == IInv /\ [Next]_vars => IInv'
<1>. SUFFICES ASSUME IInv, [Next]_vars PROVE IInv'
  OBVIOUS
<1>1. CASE UNCHANGED vars
  BY <1>1 DEF vars, jwtVars, userVars, secVars, IInv, TypeOK, JwtTypeOK, OneKey,
     RequestsServed, RequestsChecked, isAdmin, FreshViews, CountHolds,
     ActiveAdmins, Admins
<1>2. ASSUME NEW r \in Replicas,
             \/ Send(r) \/ Handle(r) \/ Boot(r) \/ Crash(r)
             \/ DeliverUsers(r) \/ DeliverSecrets(r)
      PROVE  IInv'
  BY <1>2, SendHolds, BeginHolds, PasswordHolds, CreateAccountHolds,
     UpdateStatusHolds, LoginHolds, UpdateUserHolds, DeleteUserHolds,
     DeleteUserObjectHolds, ChangePasswordHolds, BootHolds, CrashHolds,
     DeliverHolds DEF Handle
<1>. QED  BY <1>1, <1>2 DEF Next

LEMMA AlwaysIInv == Spec => []IInv
BY InitHolds, NextHolds, PTL DEF Spec

-----------------------------------------------------------------------------
(* What follows *)

(* Every variable has its type: tokens are only signed with a secret. *)
THEOREM TypeCorrect == Spec => []TypeOK
<1>1. IInv => TypeOK
  BY DEF IInv
<1>. QED  BY <1>1, AlwaysIInv, PTL

(***************************************************************************)
(* Every replica that serves requests accepts every token, however many of *)
(* them started at once, and whatever was restarted since.                 *)
(***************************************************************************)
THEOREM TokensAreValid == Spec => []TokensStayValid
<1>1. IInv => TokensStayValid
  BY DEF IInv, OneKey, TokensStayValid
<1>. QED  BY <1>1, AlwaysIInv, PTL

(* Whose steps write accounts, and with what. *)
LEMMA AdminFieldsStep ==
  ASSUME IInv, [Next]_vars, NEW e \in Emails,
         users[e].there, users'[e].there,
         <<users[e].role, users[e].active>>
             # <<users'[e].role, users'[e].active>>
  PROVE  \E r \in Replicas : /\ job[r] # job'[r] /\ job[r].who = e
                             /\ isAdmin(r) \/ job[r].op = "register"
<1>0. users[e] \in User
  BY DEF IInv, TypeOK
<1>1. ASSUME NEW r, NEW x \in Emails, NEW new, StoreUser(r, x, new)
      PROVE  x = e /\ users'[e] = new
  BY <1>1 DEF StoreUser, IInv, TypeOK
<1>2. ASSUME UNCHANGED users PROVE FALSE
  BY <1>2
<1>3. ASSUME NEW r \in Replicas, e \notin behind[r]
      PROVE  view[r][e] = users[e]
  BY <1>3 DEF IInv, FreshViews
<1>4. ASSUME NEW r \in Replicas,
             job[r].op \in Ops \/ job[r].step # "start"
      PROVE  /\ job[r] # Idle /\ job[r].who \in Emails
             /\ job[r].step # "start" => isAdmin(r) \/ job[r].op = "register"
             /\ Return(r) => job'[r] # job[r]
             /\ Goto(r, "status") /\ job[r].step # "status"
                   => job'[r] # job[r]
  <2>1. /\ job[r] \in Request /\ job[r] # Idle /\ job[r].who \in Emails
        /\ Checked(job[r])
    BY <1>4, Serving
  <2>2. ASSUME Goto(r, "status") PROVE job'[r].step = "status"
    BY <2>1, <2>2 DEF Goto, IInv, TypeOK, Request
  <2>3. ASSUME Return(r) PROVE job'[r] = Idle
    BY <2>3 DEF Return, IInv, TypeOK
  <2>. QED  BY <2>1, <2>2, <2>3 DEF Checked, isAdmin
<1>5. ASSUME NEW r \in Replicas, CreateAccount(r) PROVE FALSE
  <2>1. job[r].who \in Emails
    BY <1>4, <1>5 DEF CreateAccount
  <2>. QED  BY <1>1, <1>2, <1>5, <2>1 DEF CreateAccount, userVars
<1>6. ASSUME NEW r \in Replicas, UpdateStatus(r)
      PROVE  /\ job[r] # job'[r] /\ job[r].who = e
             /\ isAdmin(r) \/ job[r].op = "register"
  <2>1. /\ job[r].who \in Emails /\ job'[r] # job[r]
        /\ isAdmin(r) \/ job[r].op = "register"
    BY <1>4, <1>6 DEF UpdateStatus
  <2>. QED  BY <1>1, <1>2, <1>6, <2>1 DEF UpdateStatus, userVars
<1>7. ASSUME NEW r \in Replicas, Login(r) PROVE FALSE
  <2>1. job[r].who \in Emails
    BY <1>4, <1>7 DEF Login, At, Ops
  <2>2. Accepted(r, job[r].who) /\ StoreUser(r, job[r].who, view[r][job[r].who])
    BY <1>2, <1>7 DEF Login, userVars
  <2>. QED  BY <1>1, <1>3, <2>1, <2>2 DEF Accepted
<1>8. ASSUME NEW r \in Replicas, UpdateUser(r)
      PROVE  job[r] # job'[r] /\ job[r].who = e /\ isAdmin(r)
  <2>1. /\ job[r].who \in Emails /\ job'[r] # job[r]
    BY <1>4, <1>8 DEF UpdateUser, At, Ops
  <2>2. /\ mayUpdate(r) /\ Accepted(r, job[r].who)
        /\ StoreUser(r, job[r].who, withGivenFields(view[r][job[r].who], job[r]))
    BY <1>2, <1>8 DEF UpdateUser, userVars
  <2>3. job[r].who = e /\ users'[e] = withGivenFields(users[e], job[r])
    BY <1>1, <1>3, <2>1, <2>2 DEF Accepted
  <2>4. ASSUME job[r].role = None PROVE FALSE
    BY <1>0, <2>3, <2>4 DEF withGivenFields, User
  <2>. QED  BY <2>1, <2>2, <2>3, <2>4 DEF mayUpdate
<1>9. ASSUME NEW r \in Replicas, DeleteUserObject(r) PROVE FALSE
  <2>1. job[r].who \in Emails
    BY <1>4, <1>9 DEF DeleteUserObject
  <2>. QED  BY <1>1, <1>2, <1>9, <2>1, NoUserType DEF DeleteUserObject, userVars
<1>10. ASSUME NEW r \in Replicas,
              \/ Send(r) \/ Register(r) \/ CreateUser(r) \/ CreatePassword(r)
              \/ RemovePassword(r) \/ RecreatePassword(r) \/ UndoPassword(r)
              \/ DeleteUser(r) \/ ChangePassword(r) \/ Boot(r) \/ Crash(r)
              \/ DeliverUsers(r) \/ DeliverSecrets(r)
       PROVE  FALSE
  BY <1>2, <1>10 DEF Send, Register, CreateUser, CreatePassword, RemovePassword,
     RecreatePassword, UndoPassword, DeleteUser, ChangePassword, Boot, Crash,
     DeliverUsers, DeliverSecrets, userVars
<1>11. Next
  BY <1>2 DEF vars, userVars
<1>. QED  BY <1>5, <1>6, <1>7, <1>8, <1>9, <1>10, <1>11 DEF Next, Handle

(***************************************************************************)
(* Role and activation of an account change in a request of an             *)
(* administrator or in the registration only: Login and UpdateUser store a *)
(* copy that is the newest, or nothing.                                    *)
(***************************************************************************)
THEOREM AdminFieldsAreGuarded == Spec => AdminFieldsGuarded
<1>1. IInv /\ [Next]_vars =>
         \A e \in Emails :
            /\ users[e].there /\ users'[e].there
            /\ <<users[e].role, users[e].active>>
                   # <<users'[e].role, users'[e].active>>
            => \E r \in Replicas : /\ job[r] # job'[r] /\ job[r].who = e
                                   /\ isAdmin(r) \/ job[r].op = "register"
  BY AdminFieldsStep
<1>. QED  BY <1>1, AlwaysIInv, PTL DEF Spec, AdminFieldsGuarded

(* A replica that is about to delete a user does that next, or crashes. *)
LEMMA ObjectStep ==
  ASSUME IInv, [Next]_vars, NEW r \in Replicas, job[r].step = "object",
         job'[r] # job[r]
  PROVE  DeleteUserObject(r) \/ users' = users
<1>1. job \in [Replicas -> Request \cup {Idle}]
  BY DEF IInv, TypeOK
<1>2. job[r].op = "delete"
  BY CheckedRequests DEF IInv, Checked
<1>3. ASSUME NEW q, Send(q) \/ Boot(q) \/ Crash(q) \/ DeliverUsers(q)
                       \/ DeliverSecrets(q)
      PROVE  users' = users
  BY <1>3 DEF Send, Boot, Crash, DeliverUsers, DeliverSecrets, userVars
<1>4. ASSUME NEW q \in Replicas, Handle(q)
      PROVE  q = r
  BY <1>1, <1>4 DEF Handle, Register, CreateUser, CreatePassword, RemovePassword,
     RecreatePassword, CreateAccount, UndoPassword, UpdateStatus, Login,
     UpdateUser, DeleteUser, DeleteUserObject, ChangePassword, Return, Goto
<1>5. Handle(r) => DeleteUserObject(r)
  BY <1>2 DEF Handle, Register, CreateUser, CreatePassword, RemovePassword,
     RecreatePassword, CreateAccount, UndoPassword, UpdateStatus, Login,
     UpdateUser, DeleteUser, ChangePassword, At
<1>. QED  BY <1>3, <1>4, <1>5 DEF Next, vars

(***************************************************************************)
(* DeleteUser leaves an active administrator, unless an account was written*)
(* between its count and the deletion.                                     *)
(***************************************************************************)
THEOREM AnAdminIsLeft == Spec => DeletionLeavesAdmin
<1>1. IInv /\ [Next]_vars =>
         \A r \in held :
            job[r].step = "object" /\ job'[r] # job[r]
                /\ users[job[r].who].role = "admin"
            => ActiveAdmins(users') # {}
  <2>. SUFFICES ASSUME IInv, [Next]_vars, NEW r \in held,
                       job[r].step = "object", job'[r] # job[r],
                       users[job[r].who].role = "admin"
                PROVE  ActiveAdmins(users') # {}
    OBVIOUS
  <2>1. r \in Replicas /\ job[r].who \in Emails
    <3>1. r \in Replicas
      BY DEF IInv, TypeOK
    <3>. QED  BY <3>1, Serving
  <2>2. PICK x \in ActiveAdmins(users) : x # job[r].who
    BY DEF IInv, CountHolds
  <2>3. users'[x] = users[x]
    <3>1. CASE users' = users
      BY <3>1
    <3>2. CASE DeleteUserObject(r)
      BY <2>1, <2>2, <3>2 DEF DeleteUserObject, StoreUser, userVars, IInv,
                              TypeOK, ActiveAdmins, Admins
    <3>. QED  BY <2>1, <3>1, <3>2, ObjectStep
  <2>. QED  BY <2>2, <2>3 DEF ActiveAdmins, Admins
<1>. QED  BY <1>1, AlwaysIInv, PTL DEF Spec, DeletionLeavesAdmin
=============================================================================
