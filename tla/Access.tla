------------------------------- MODULE Access -------------------------------
(***************************************************************************)
(* The use case objects of one worker process, shared by its threads: a     *)
(* request passes BaseUseCase.execute, that is the AuthorizationManager     *)
(* with its cache of permissions (usecases/base/config.py), or, for a login *)
(* (usecases/auth/login_uc.py), the validated input kept on the object.     *)
(* A thread may lose the processor between any two steps.                   *)
(***************************************************************************)
EXTENDS Integers, FiniteSets

CONSTANTS
    Requests,    \* requests, each on a thread of its own
    Users,       \* users, and the accounts that log in
    UserRoles,   \* the roles of the users: values of models/base/enums.py
    Managed,     \* use cases that need permissions; each has a manager
    Needs,       \* required_permissions of each of them
    RoleBound,   \* those with required_roles: admin, super_admin
    Open,        \* login use cases: no authentication, validated input kept
    Passwords,
    PasswordOf,  \* the password of each account
    None,        \* no entry, no input, no use case
    MaxChanges   \* bound on changes of users, clearings and restarts

Permissions == {"can_manage_users", "can_view_users", "can_delete_users",
                "can_update_users", "can_create_users", "can_manage_roles",
                "can_view_audit_logs"}

SystemRoles == {"super_admin", "admin", "manager", "user", "guest"}

(* ROLE_HIERARCHY and ROLE_PERMISSIONS; a role they do not know has nothing. *)
Below(role) ==
    CASE role = "super_admin" -> {"admin", "manager", "user", "guest"}
      [] role = "admin"       -> {"manager", "user", "guest"}
      [] role = "manager"     -> {"user", "guest"}
      [] role = "user"        -> {"guest"}
      [] OTHER                -> {}

Grants(role) ==
    CASE role = "super_admin" -> Permissions
      [] role = "admin"       -> Permissions \ {"can_manage_roles"}
      [] role = "manager"     -> {"can_view_users", "can_update_users", "can_create_users"}
      [] role = "user"        -> {"can_view_users"}
      [] OTHER                -> {}

Effective(role) == {role} \cup Below(role)

(* Mutant of RightsOf: the roles are put in place of their permissions.     *)
RolesOf(role) == Effective(role)

RightsOf(role) == UNION {Grants(r) : r \in Effective(role)}

Entitled(uc, role) == Needs[uc] \subseteq RightsOf(role)

ASSUME AccessAssumption ==
    /\ UserRoles \subseteq {"super_admin", "staff", "ministry_leader", "member", "visitor"}
    /\ Needs \in [Managed -> (SUBSET Permissions) \ {{}}]
    /\ RoleBound \subseteq Managed
    /\ Managed \cap Open = {}
    /\ PasswordOf \in [Users -> Passwords]
    /\ \A rights \in SUBSET Permissions : rights # None
    /\ \A c \in [account : Users, password : Passwords] : c # None
    /\ MaxChanges \in Nat

VARIABLES
    row,       \* the users' role and is_active in the database
    cache,     \* _permission_cache of each manager
    slot,      \* validated_input of each login use case
    pc,        \* where each request stands
    at,        \* the use case a request runs
    who,       \* its user
    shown,     \* the row of its user when the request was authenticated
    input,     \* the credentials a login request submitted
    took,      \* the credentials a login request goes on with
    changes,   \* changes, clearings and restarts so far
    crossed,   \* history: logins overtaken by the validation of another one
    outside    \* history: the users who were not entitled to a use case since
               \* its cache was last cleared of them

requestVars == <<pc, at, who, shown, input, took>>
vars == <<row, cache, slot, requestVars, changes, crossed, outside>>

Rows        == [role : UserRoles, active : BOOLEAN]
Credentials == [account : Users, password : Passwords]

Unentitled(uc) == {u \in Users : ~Entitled(uc, row[u].role)}

Init ==
    /\ row \in [Users -> Rows]
    /\ cache = [uc \in Managed |-> [u \in Users |-> None]]
    /\ slot = [uc \in Open |-> None]
    /\ pc = [r \in Requests |-> "new"]
    /\ at = [r \in Requests |-> None]
    /\ who = [r \in Requests |-> None]
    /\ shown = [r \in Requests |-> None]
    /\ input = [r \in Requests |-> None]
    /\ took = [r \in Requests |-> None]
    /\ changes = 0
    /\ crossed = {}
    /\ outside = [uc \in Managed |-> Unentitled(uc)]

Goto(r, loc) == pc' = [pc EXCEPT ![r] = loc]

-----------------------------------------------------------------------------
(* Mutant of HasRequiredRoles: required_roles is not looked at.             *)
HasRequiredRolesAnyway(uc, role) == TRUE

HasRequiredRoles(uc, role) ==
    uc \in RoleBound => Effective(role) \cap {"admin", "super_admin"} # {}
                          /\ role \in SystemRoles

(* An authenticated request: is the user active, and has he the role?  Both *)
(* are asked of the user the request came with.                             *)
Enter(r, uc, u) ==
    /\ pc[r] = "new"
    /\ at' = [at EXCEPT ![r] = uc]
    /\ who' = [who EXCEPT ![r] = u]
    /\ shown' = [shown EXCEPT ![r] = row[u]]
    /\ Goto(r, IF row[u].active /\ HasRequiredRoles(uc, row[u].role)
                 THEN "lookup" ELSE "refused")
    /\ UNCHANGED <<row, cache, slot, input, took, changes, crossed, outside>>

(* _has_required_permissions, with the permissions found.                   *)
Decide(r, rights) ==
    Goto(r, IF Needs[at[r]] \subseteq rights THEN "granted" ELSE "refused")

(* Mutant of Cacheable: the empty set of an unknown role is cached as well. *)
CacheableAlways(role) == TRUE

Cacheable(role) == role \in SystemRoles

(* _get_user_permissions: the cache is asked first.  The permissions of an  *)
(* unknown role are empty, and not cached.                                  *)
Lookup(r) ==
    /\ pc[r] = "lookup"
    /\ LET entry == cache[at[r]][who[r]] IN
       IF entry # None THEN Decide(r, entry)
       ELSE IF Cacheable(shown[r].role) THEN Goto(r, "store")
       ELSE Decide(r, {})
    /\ UNCHANGED <<row, cache, slot, at, who, shown, input, took, changes, crossed, outside>>

Store(r) ==
    /\ pc[r] = "store"
    /\ cache' = [cache EXCEPT ![at[r]][who[r]] = RightsOf(shown[r].role)]
    /\ Decide(r, RightsOf(shown[r].role))
    /\ UNCHANGED <<row, slot, at, who, shown, input, took, changes, crossed, outside>>

-----------------------------------------------------------------------------
(* Mutant of Validated: an input that is there already is kept.             *)
ValidatedOnce(uc, c) == IF slot[uc] # None THEN slot[uc] ELSE c

Validated(uc, c) == c

(* _validate_input of a login keeps the credentials on the use case, where  *)
(* they replace those of a request that has not taken its own yet.          *)
Submit(r, uc, c) ==
    /\ pc[r] = "new"
    /\ at' = [at EXCEPT ![r] = uc]
    /\ input' = [input EXCEPT ![r] = c]
    /\ slot' = [slot EXCEPT ![uc] = Validated(uc, c)]
    /\ crossed' = crossed \cup {q \in Requests : pc[q] = "execute" /\ at[q] = uc}
    /\ Goto(r, "execute")
    /\ UNCHANGED <<row, cache, who, shown, took, changes, outside>>

(* _on_execute takes the attribute, e-mail and password together.           *)
Take(r) ==
    /\ pc[r] = "execute"
    /\ took' = [took EXCEPT ![r] = slot[at[r]]]
    /\ Goto(r, "fetch")
    /\ UNCHANGED <<row, cache, slot, at, who, shown, input, changes, crossed, outside>>

(* get_by_email: the account must be active.  No entity has an is_locked,   *)
(* so none is locked.                                                       *)
Fetch(r) ==
    /\ pc[r] = "fetch"
    /\ row[took[r].account].active
    /\ Goto(r, "verify")
    /\ UNCHANGED <<row, cache, slot, at, who, shown, input, took, changes, crossed, outside>>

(* Mutant of Checked: the attribute is read again after the await.          *)
CheckedAgain(r) == slot[at[r]].password

Checked(r) == took[r].password

(* verify_password; with the right one the tokens are issued.  The counter  *)
(* of failed logins is written by UserRepository.update, whose base does    *)
(* nothing.                                                                 *)
Verify(r) ==
    /\ pc[r] = "verify"
    /\ Goto(r, IF Checked(r) = PasswordOf[took[r].account] THEN "granted" ELSE "refused")
    /\ UNCHANGED <<row, cache, slot, at, who, shown, input, took, changes, crossed, outside>>

(* The account is inactive, or the database or bcrypt failed.               *)
LoginFails(r) ==
    /\ pc[r] \in {"fetch", "verify"}
    /\ Goto(r, "refused")
    /\ UNCHANGED <<row, cache, slot, at, who, shown, input, took, changes, crossed, outside>>

-----------------------------------------------------------------------------
Change == changes < MaxChanges /\ changes' = changes + 1

(* The row of a user is changed, from here or elsewhere.                    *)
SetRow(u, new) ==
    /\ Change
    /\ new # row[u]
    /\ row' = [row EXCEPT ![u] = new]
    /\ outside' = [uc \in Managed |->
                     IF Entitled(uc, new.role) THEN outside[uc] \ {u} ELSE outside[uc]]
    /\ UNCHANGED <<cache, slot, requestVars, crossed>>

(* Requests that may yet put an entry for an entitled user in the cache.    *)
Racing(uc) == {who[r] : r \in {q \in Requests : /\ pc[q] \in {"lookup", "store"}
                                                /\ at[q] = uc
                                                /\ Entitled(uc, shown[q].role)}}

(* Mutant of Popped: the key that is popped is not the one that was stored. *)
PoppedNone(uc, cleared) == cache[uc]

Popped(uc, cleared) == [u \in Users |-> IF u \in cleared THEN None ELSE cache[uc][u]]

(* clear_cache, of one user or of all.                                      *)
ClearCache(uc, cleared) ==
    /\ Change
    /\ cache' = [cache EXCEPT ![uc] = Popped(uc, cleared)]
    /\ outside' = [outside EXCEPT ![uc] = @ \cup ((cleared \cap Unentitled(uc)) \ Racing(uc))]
    /\ UNCHANGED <<row, slot, requestVars, crossed>>

(* The worker is replaced, and the requests it was serving are lost.        *)
Restart ==
    /\ Change
    /\ cache' = [uc \in Managed |-> [u \in Users |-> None]]
    /\ slot' = [uc \in Open |-> None]
    /\ pc' = [r \in Requests |-> IF pc[r] \in {"new", "granted", "refused"}
                                   THEN pc[r] ELSE "lost"]
    /\ outside' = [uc \in Managed |-> outside[uc] \cup Unentitled(uc)]
    /\ UNCHANGED <<row, at, who, shown, input, took, crossed>>

Next ==
    \/ \E r \in Requests :
         \/ \E uc \in Managed, u \in Users : Enter(r, uc, u)
         \/ Lookup(r) \/ Store(r)
         \/ \E uc \in Open, c \in Credentials : Submit(r, uc, c)
         \/ Take(r) \/ Fetch(r) \/ Verify(r) \/ LoginFails(r)
    \/ \E u \in Users, new \in Rows : SetRow(u, new)
    \/ \E uc \in Managed : \/ \E u \in Users : ClearCache(uc, {u})
                           \/ ClearCache(uc, Users)
    \/ Restart

Spec == Init /\ [][Next]_vars

-----------------------------------------------------------------------------
(* The shape of the state: what a cache holds is a set of permissions, and a *)
(* request that is about to take the input of its use case finds one.       *)
TypeOK ==
    /\ row \in [Users -> Rows]
    /\ cache \in [Managed -> [Users -> (SUBSET Permissions) \cup {None}]]
    /\ slot \in [Open -> Credentials \cup {None}]
    /\ pc \in [Requests -> {"new", "lookup", "store", "execute", "fetch", "verify",
                            "granted", "refused", "lost"}]
    /\ at \in [Requests -> Managed \cup Open \cup {None}]
    /\ who \in [Requests -> Users \cup {None}]
    /\ shown \in [Requests -> Rows \cup {None}]
    /\ input \in [Requests -> Credentials \cup {None}]
    /\ took \in [Requests -> Credentials \cup {None}]
    /\ changes \in 0..MaxChanges
    /\ crossed \in SUBSET Requests
    /\ outside \in [Managed -> SUBSET Users]
    /\ \A r \in Requests :
         /\ pc[r] \in {"lookup", "store"} =>
              at[r] \in Managed /\ who[r] \in Users /\ shown[r] \in Rows
         /\ pc[r] = "execute" => at[r] \in Open /\ slot[at[r]] \in Credentials
         /\ pc[r] \in {"fetch", "verify"} => at[r] \in Open /\ took[r] \in Credentials

(* Permissions are cached for ever, so a user keeps those of a role he has   *)
(* lost; but they are granted only to a user who has been entitled since     *)
(* the cache was last cleared of him while none of his requests was on its   *)
(* way, or since the worker began.                                           *)
OnlyHoldersGranted ==
    [][\A r \in Requests :
         pc[r] \in {"lookup", "store"} /\ pc'[r] = "granted" => who[r] \notin outside[at[r]]]_vars

(* The cache is stale in one direction only: a user who comes with a role    *)
(* that has the permissions is never refused them.                           *)
PromotionsCount ==
    [][\A r \in Requests :
         pc[r] \in {"lookup", "store"} /\ pc'[r] = "refused" =>
           ~Entitled(at[r], shown[r].role)]_vars

(* A stale permission opens only use cases that require no role, and only    *)
(* to users who are active.                                                  *)
StaleGrants ==
    [][\A r \in Requests :
         (pc[r] \in {"lookup", "store"} /\ pc'[r] = "granted"
             /\ ~Entitled(at[r], shown[r].role)) =>
           at[r] \notin RoleBound /\ shown[r].active]_vars

(* Tokens are issued for an account only if some request submitted that very *)
(* account with its password, however the requests are interleaved.          *)
TokensMatchCredentials ==
    \A r \in Requests :
      pc[r] = "granted" /\ at[r] \in Open =>
        \E q \in Requests :
          /\ at[q] = at[r]
          /\ input[q] = [account  |-> took[r].account,
                         password |-> PasswordOf[took[r].account]]

(* A login goes on with its own credentials, unless another request was      *)
(* validated before it took them.                                            *)
OwnInput ==
    \A r \in Requests : took[r] # None /\ r \notin crossed => took[r] = input[r]
=============================================================================
