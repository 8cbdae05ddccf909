------------------------------ MODULE Accounts ------------------------------
(***************************************************************************)
(* User accounts: registration, login and the administration of users over *)
(* the REST API.  An account is a KrknUser object and a Secret with the    *)
(* password; a handler writes them with several calls.                     *)
(*                                                                         *)
(* The API runs on every replica, with the caches of that replica.  A      *)
(* replica serves one request at a time here; requests that one replica    *)
(* serves at once are those of two replicas with equal caches.  Reading a  *)
(* cache and the write that follows are one step: what happens in between  *)
(* has not been delivered yet.                                             *)
(***************************************************************************)
EXTENDS JwtSecret

CONSTANTS
    Emails,     \* the users, by the names of their KrknUser objects
    Passwords,  \* valid passwords (ValidatePassword)
    MaxRequests \* bound: requests that clients send

ASSUME RequestsAssumption == MaxRequests \in Nat

VARIABLES
    users,     \* the stored KrknUser objects
    view,      \* each replica's cached copies
    behind,    \* the users written since they were delivered to a replica
    secrets,   \* the password Secrets
    secView,   \* each replica's cached copies
    secBehind, \* the Secrets written since
    tokens,    \* the tokens that were issued
    job,       \* the request that each replica serves
    held,      \* the replicas whose copy of the user is still the newest
    left       \* requests still allowed

userVars == <<users, view, behind, held>>
secVars  == <<secrets, secView, secBehind>>
vars == <<jwtVars, userVars, secVars, tokens, job, left>>

-----------------------------------------------------------------------------
(* Types *)

Roles == {"user", "admin"}

(* Register and CreateUser name the Secret of a user differently. *)
Refs == Emails \X {"register", "create"}

User == [there : BOOLEAN, role : Roles, active : BOOLEAN,
         ref : {"register", "create"}]
NoUser == [there |-> FALSE, role |-> "user", active |-> FALSE,
           ref |-> "create"]

(* The claims of a token, and the secret that it is signed with. *)
Token == [email : Emails, role : Roles, key : Replicas]
NoToken == [email |-> None, role |-> None, key |-> None]

Ops == {"register", "login", "create", "update", "delete", "password"}
Steps == {"start", "secret", "remove", "again", "user", "undo", "status",
          "object"}

(* role, active, pass and old are the fields of the request's body. *)
Request == [op : Ops, who : Emails, by : Token \cup {NoToken}, step : Steps,
            role : Roles \cup {None}, active : {None, "on", "off"},
            pass : Passwords \cup {None}, old : Passwords \cup {None}]

Idle == [op |-> None, who |-> None, by |-> NoToken, step |-> "start",
         role |-> None, active |-> None, pass |-> None, old |-> None]

(* Every variable has its type. *)
TypeOK ==
    /\ JwtTypeOK
    /\ users \in [Emails -> User] /\ view \in [Replicas -> [Emails -> User]]
    /\ behind \in [Replicas -> SUBSET Emails]
    /\ secrets \in [Refs -> Passwords \cup {None}]
    /\ secView \in [Replicas -> [Refs -> Passwords \cup {None}]]
    /\ secBehind \in [Replicas -> SUBSET Refs]
    /\ tokens \in SUBSET Token
    /\ job \in [Replicas -> Request \cup {Idle}]
    /\ held \in SUBSET Replicas /\ left \in Nat

(***************************************************************************)
(* Nobody yet, perhaps with the Secrets of registrations that a crash cut  *)
(* short; or accounts that CreateUser made, their users logged in.         *)
(***************************************************************************)
Init ==
    /\ JwtInit
    /\ \/ users = [e \in Emails |-> NoUser]
       \/ key # None /\ users \in [Emails -> {u \in User :
                          u.there /\ u.active /\ u.ref = "create"}]
    /\ view = [r \in Replicas |-> users]
    /\ \E p \in Passwords, cut \in SUBSET Emails :
          /\ \A e \in cut : key # None /\ ~users[e].there
          /\ secrets = [f \in Refs |->
                IF \/ users[f[1]].there /\ f[2] = "create"
                   \/ f[1] \in cut /\ f[2] = "register"
                THEN p ELSE None]
    /\ secView = [r \in Replicas |-> secrets]
    /\ behind = [r \in Replicas |-> {}] /\ secBehind = behind
    /\ tokens = {[email |-> e, role |-> users[e].role, key |-> key] :
                    e \in {x \in Emails : users[x].there}}
    /\ job = [r \in Replicas |-> Idle]
    /\ held = {} /\ left = MaxRequests

-----------------------------------------------------------------------------
(* The API server *)

(***************************************************************************)
(* Replica r stores the user: copies of it elsewhere are out of date.  The *)
(* check that a deletion was based on is, whichever user was written.      *)
(***************************************************************************)
StoreUser(r, e, new) ==
    /\ users' = [users EXCEPT ![e] = new]
    /\ behind' = [q \in Replicas |-> behind[q] \cup {e}]
    /\ held' = {r} \cup {q \in held : job[q].who # e /\ job[q].op # "delete"}
    /\ UNCHANGED view

(* Slip: a copy that is out of date is stored over the newer object. *)
anyCopy(r, e) == users[e].there

(* An update made from r's cached copy of e is accepted. *)
Accepted(r, e) == users[e].there /\ e \notin behind[r]

StoreSecret(f, p) ==
    /\ secrets' = [secrets EXCEPT ![f] = p]
    /\ secBehind' = [r \in Replicas |-> secBehind[r] \cup {f}]
    /\ UNCHANGED secView

RefOf(e, user) == <<e, user.ref>>

Goto(r, step) == job' = [job EXCEPT ![r].step = step]

(* The response is written, whatever it says. *)
Return(r) == job' = [job EXCEPT ![r] = Idle]

At(r, op, step) == job[r].op = op /\ job[r].step = step

Rest == UNCHANGED <<jwtVars, left>>

(* What a client can send: the fields that the handler looks at. *)
Bodies(op) ==
    LET given(S, ops) == IF op \in ops THEN S ELSE {None}
    IN  [role   : IF op \in {"register", "create"} THEN Roles
                  ELSE given(Roles \cup {None}, {"update"}),
         active : given({"on", "off", None}, {"update"}),
         pass   : given(Passwords, {"register", "login", "create", "password"}),
         old    : given(Passwords \cup {None}, {"password"})]

(* RequireAuth: the tokens whose signature is good; two paths need none. *)
RequireAuth(r, op) ==
    IF op \in {"register", "login"} THEN {NoToken}
    ELSE {t \in tokens : t.key = have[r]}

(* A client's request arrives and passes the middleware. *)
Send(r) ==
    /\ boot[r] = "serving" /\ job[r] = Idle
    /\ left > 0 /\ left' = left - 1
    /\ \E op \in Ops, who \in Emails :
       \E by \in RequireAuth(r, op), q \in Bodies(op) :
          job' = [job EXCEPT ![r] =
                     [op |-> op, who |-> who, by |-> by, step |-> "start",
                      role |-> q.role, active |-> q.active, pass |-> q.pass,
                      old |-> q.old]]
    /\ UNCHANGED <<jwtVars, userVars, secVars, tokens>>

isAdmin(r) == job[r].by.role = "admin"
isSelf(r)  == job[r].by.email = job[r].who

-----------------------------------------------------------------------------
(* Register and CreateUser *)

(* The accounts that carry the label of administrators. *)
Admins(copies) == {e \in Emails : copies[e].there /\ copies[e].role = "admin"}

(* Only the first user registers, as an administrator. *)
Register(r) ==
    /\ At(r, "register", "start")
    /\ IF /\ Admins(view[r]) = {} /\ job[r].role = "admin"
          /\ ~view[r][job[r].who].there
       THEN Goto(r, "secret") ELSE Return(r)
    /\ Rest /\ UNCHANGED <<userVars, secVars, tokens>>

CreateUser(r) ==
    /\ At(r, "create", "start")
    /\ IF isAdmin(r) /\ ~view[r][job[r].who].there
       THEN Goto(r, "secret") ELSE Return(r)
    /\ Rest /\ UNCHANGED <<userVars, secVars, tokens>>

NewRef(r) == <<job[r].who, job[r].op>>

(* The last alternative of each step: the call fails for whatever reason.  *)

(* Create the Secret; one that exists is deleted and created again. *)
CreatePassword(r) ==
    /\ job[r].step = "secret"
    /\ \/ /\ secrets[NewRef(r)] = None
          /\ StoreSecret(NewRef(r), job[r].pass) /\ Goto(r, "user")
       \/ secrets[NewRef(r)] # None /\ UNCHANGED secVars /\ Goto(r, "remove")
       \/ UNCHANGED secVars /\ Return(r)
    /\ Rest /\ UNCHANGED <<userVars, tokens>>

RemovePassword(r) ==
    /\ job[r].step = "remove"
    /\ \/ /\ secrets[NewRef(r)] # None
          /\ StoreSecret(NewRef(r), None) /\ Goto(r, "again")
       \/ UNCHANGED secVars /\ Return(r)
    /\ Rest /\ UNCHANGED <<userVars, tokens>>

RecreatePassword(r) ==
    /\ job[r].step = "again"
    /\ \/ /\ secrets[NewRef(r)] = None
          /\ StoreSecret(NewRef(r), job[r].pass) /\ Goto(r, "user")
       \/ UNCHANGED secVars /\ Return(r)
    /\ Rest /\ UNCHANGED <<userVars, tokens>>

(* Create drops the status: the account is not active yet.  If it exists, or
   on any other error, the Secret is to be deleted. *)
CreateAccount(r) ==
    /\ job[r].step = "user"
    /\ \/ /\ ~users[job[r].who].there
          /\ StoreUser(r, job[r].who, [there |-> TRUE, active |-> FALSE,
                   ref |-> job[r].op, role |-> job[r].role])
          /\ Goto(r, "status")
       \/ UNCHANGED userVars /\ Goto(r, "undo")
    /\ Rest /\ UNCHANGED <<secVars, tokens>>

(* The Secret is deleted, whoever made it, unless that fails as well. *)
UndoPassword(r) ==
    /\ job[r].step = "undo"
    /\ StoreSecret(NewRef(r), None) \/ UNCHANGED secVars
    /\ Return(r)
    /\ Rest /\ UNCHANGED <<userVars, tokens>>

(* The copy that the last write returned is still the newest. *)
storesStatus(r) == r \in held /\ users[job[r].who].there

(***************************************************************************)
(* The status follows in a call of its own, made with the object that the  *)
(* first call returned.  If it is refused that is only logged.             *)
(***************************************************************************)
UpdateStatus(r) ==
    LET user == users[job[r].who]
    IN  /\ job[r].step = "status"
        /\ \/ /\ storesStatus(r)
              /\ StoreUser(r, job[r].who,
                           [user EXCEPT !.active = job[r].active # "off"])
           \/ UNCHANGED userVars
        /\ Return(r)
        /\ Rest /\ UNCHANGED <<secVars, tokens>>

-----------------------------------------------------------------------------
(* Login, UpdateUser, DeleteUser, ChangePassword *)

(* An active account and its password; LastLogin is stored if it can be. *)
Login(r) ==
    LET e    == job[r].who
        user == view[r][e]
    IN  /\ At(r, "login", "start")
        /\ IF user.there /\ user.active
              /\ secView[r][RefOf(e, user)] = job[r].pass
           THEN /\ tokens' = tokens \cup {[email |-> e, role |-> user.role,
                                            key |-> have[r]]}
                /\ \/ Accepted(r, e) /\ StoreUser(r, e, user)
                   \/ UNCHANGED userVars
           ELSE UNCHANGED <<userVars, tokens>>
        /\ Return(r)
        /\ Rest /\ UNCHANGED secVars

(* One may change oneself; role and active are for administrators, who can
   not disable themselves. *)
mayUpdate(r) ==
    /\ isAdmin(r) \/ isSelf(r)
    /\ isAdmin(r) \/ (job[r].role = None /\ job[r].active = None)
    /\ ~(isSelf(r) /\ job[r].active = "off")

(* Slip: a role that was not given is stored as well. *)
withEveryField(user, request) == [user EXCEPT !.role = request.role]

withGivenFields(user, request) ==
    [user EXCEPT !.role = IF request.role = None THEN @ ELSE request.role]

(* The specification is stored from the cached copy, then the status. *)
UpdateUser(r) ==
    LET e    == job[r].who
        user == view[r][e]
    IN  /\ At(r, "update", "start")
        /\ \/ /\ user.there /\ mayUpdate(r) /\ Accepted(r, e)
              /\ StoreUser(r, e, withGivenFields(user, job[r]))
              /\ IF job[r].active = None THEN Return(r) ELSE Goto(r, "status")
           \/ UNCHANGED userVars /\ Return(r)
        /\ Rest /\ UNCHANGED <<secVars, tokens>>

ActiveAdmins(copies) == {e \in Admins(copies) : copies[e].active}

(* Slip: the administrator to be deleted is not counted. *)
anAdminThere(r) ==
    view[r][job[r].who].role = "admin" => ActiveAdmins(view[r]) # {}

(* An administrator is only deleted if there is more than one active. *)
anotherAdmin(r) ==
    view[r][job[r].who].role = "admin"
        => Cardinality(ActiveAdmins(view[r])) > 1

(* First the Secret goes, if it can be deleted, then the user. *)
DeleteUser(r) ==
    LET e    == job[r].who
        user == view[r][e]
    IN  /\ At(r, "delete", "start")
        /\ IF isAdmin(r) /\ ~isSelf(r) /\ user.there /\ anotherAdmin(r)
           THEN /\ StoreSecret(RefOf(e, user), None) \/ UNCHANGED secVars
                /\ held' = IF behind[r] = {} THEN held \cup {r}
                                             ELSE held \ {r}
                /\ Goto(r, "object")
           ELSE UNCHANGED <<secVars, held>> /\ Return(r)
        /\ Rest /\ UNCHANGED <<users, view, behind, tokens>>

DeleteUserObject(r) ==
    /\ job[r].step = "object"
    /\ \/ users[job[r].who].there /\ StoreUser(r, job[r].who, NoUser)
       \/ UNCHANGED userVars
    /\ Return(r)
    /\ Rest /\ UNCHANGED <<secVars, tokens>>

(* Users give their current password, administrators need not. *)
ChangePassword(r) ==
    LET f       == RefOf(job[r].who, view[r][job[r].who])
        current == secView[r][f]
    IN  /\ At(r, "password", "start")
        /\ \/ /\ isAdmin(r) \/ isSelf(r)
              /\ view[r][job[r].who].there /\ current # None
              /\ isAdmin(r) \/ (job[r].old = current /\ job[r].pass # current)
              /\ f \notin secBehind[r]
              /\ StoreSecret(f, job[r].pass)
           \/ UNCHANGED secVars
        /\ Return(r)
        /\ Rest /\ UNCHANGED <<userVars, tokens>>

-----------------------------------------------------------------------------
(* The specification *)

Handle(r) ==
    \/ Register(r) \/ CreateUser(r)
    \/ CreatePassword(r) \/ RemovePassword(r) \/ RecreatePassword(r)
    \/ CreateAccount(r) \/ UndoPassword(r) \/ UpdateStatus(r)
    \/ Login(r) \/ UpdateUser(r)
    \/ DeleteUser(r) \/ DeleteUserObject(r) \/ ChangePassword(r)

DeliverUsers(r) ==
    /\ behind[r] # {}
    /\ view' = [view EXCEPT ![r] = users]
    /\ behind' = [behind EXCEPT ![r] = {}]
    /\ Rest /\ UNCHANGED <<users, held, secVars, tokens, job>>

DeliverSecrets(r) ==
    /\ secBehind[r] # {}
    /\ secView' = [secView EXCEPT ![r] = secrets]
    /\ secBehind' = [secBehind EXCEPT ![r] = {}]
    /\ Rest /\ UNCHANGED <<userVars, secrets, tokens, job>>

Boot(r) == JwtStep(r) /\ UNCHANGED <<userVars, secVars, tokens, job, left>>

(* A request that was being served is lost half done. *)
Crash(r) ==
    /\ RestartJwt(r)
    /\ Return(r)
    /\ view' = [view EXCEPT ![r] = users]
    /\ behind' = [behind EXCEPT ![r] = {}]
    /\ secView' = [secView EXCEPT ![r] = secrets]
    /\ secBehind' = [secBehind EXCEPT ![r] = {}]
    /\ held' = held \ {r}
    /\ UNCHANGED <<users, secrets, tokens, left>>

Next == \E r \in Replicas :
    \/ Send(r) \/ Handle(r) \/ Boot(r) \/ Crash(r)
    \/ DeliverUsers(r) \/ DeliverSecrets(r)

Spec == Init /\ [][Next]_vars

-----------------------------------------------------------------------------
(* Properties *)

(***************************************************************************)
(* Whichever replica issued a token, every replica that serves requests    *)
(* accepts its signature, also when two of them started at the same time   *)
(* without a Secret, or one was restarted.                                 *)
(***************************************************************************)
TokensStayValid ==
    \A t \in tokens : \A r \in Replicas :
        boot[r] = "serving" => have[r] = t.key

(***************************************************************************)
(* Role and activation of an account change in a request of an             *)
(* administrator only, or in the request that creates the account.  Logins *)
(* and users who change their own names write the object as well, but never*)
(* undo what an administrator has done.                                    *)
(***************************************************************************)
AdminFieldsGuarded ==
    [][\A e \in Emails :
          /\ users[e].there /\ users'[e].there
          /\ <<users[e].role, users[e].active>>
                 # <<users'[e].role, users'[e].active>>
          => \E r \in Replicas : /\ job[r] # job'[r] /\ job[r].who = e
                                 /\ isAdmin(r) \/ job[r].op = "register"]_vars

(***************************************************************************)
(* Deleting an administrator leaves an active one, provided that nobody    *)
(* wrote an account between the count and the deletion.                    *)
(***************************************************************************)
DeletionLeavesAdmin ==
    [][\A r \in held :
          job[r].step = "object" /\ job'[r] # job[r]
              /\ users[job[r].who].role = "admin"
          => ActiveAdmins(users') # {}]_vars

-----------------------------------------------------------------------------
(* What the code does not do *)

(***************************************************************************)
(* PasswordSecretRef of every account names a Secret with the password,    *)
(* unless the account is being deleted.                                    *)
(***************************************************************************)
AccountHasPassword ==
    \A e \in Emails :
        users[e].there /\ faults = MaxFaults
            /\ (\A r \in Replicas : job[r].op # "delete")
            /\ (\A r \in Replicas : job[r].step # "again")
        => secrets[RefOf(e, users[e])] # None
-----------------------------------------------------------------------------
(* The inductive invariant behind the properties *)

(* There is one secret: whoever has one has that one. *)
OneKey ==
    /\ \A r \in Replicas : /\ keyView[r] \in {None, key}
                           /\ boot[r] = "serving" => key # None /\ have[r] = key
    /\ \A t \in tokens : t.key = key

(* Requests are served by replicas that have it. *)
RequestsServed ==
    \A r \in Replicas : job[r] # Idle => boot[r] = "serving"

(* What holds of a request once its handler has made its first checks. *)
RequestsChecked ==
    \A r \in Replicas :
        /\ job[r].op \in {"register", "create"} => job[r].role \in Roles
        /\ job[r].step # "start" => isAdmin(r) \/ job[r].op = "register"
        /\ job[r].step \notin {"start", "status", "object"} =>
              job[r].op \in {"register", "create"}
        /\ job[r].step = "object" => job[r].op = "delete"

(* A cached copy that has not been written over since is the stored object. *)
FreshViews ==
    \A r \in Replicas : \A e \in Emails \ behind[r] : view[r][e] = users[e]

(* An administrator other than the one about to be deleted is active, as
   counted, unless an account was written since. *)
CountHolds ==
    \A r \in held :
        job[r].step = "object" /\ users[job[r].who].role = "admin" =>
            ActiveAdmins(users) \ {job[r].who} # {}

IInv == /\ TypeOK /\ OneKey /\ RequestsServed /\ RequestsChecked
        /\ FreshViews /\ CountHolds
=============================================================================
