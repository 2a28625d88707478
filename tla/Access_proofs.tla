---------------------------- MODULE Access_proofs ----------------------------
(***************************************************************************)
(* Safety of the shared use case objects for any users, requests and use    *)
(* cases.  The only role that users have and the manager knows is           *)
(* super_admin, so whatever is cached entitles (CacheInv); the input on a   *)
(* use case, and the one a login took, came from some request (SlotInv).    *)
(***************************************************************************)
EXTENDS Access, TLAPS

CacheInv ==
    \A uc \in Managed, u \in Users : cache[uc][u] # None => Needs[uc] \subseteq cache[uc][u]

(* Users outside are not entitled, not cached, and have no request racing.  *)
OutsideInv ==
    \A uc \in Managed : \A u \in outside[uc] :
      /\ ~Entitled(uc, row[u].role)
      /\ cache[uc][u] = None
      /\ u \notin Racing(uc)

(* What a request that asks for permissions has shown.                      *)
Passed ==
    \A r \in Requests :
      /\ pc[r] \in {"lookup", "store"} =>
           shown[r].active /\ HasRequiredRoles(at[r], shown[r].role)
      /\ pc[r] = "store" => Cacheable(shown[r].role)

ManagedInv == CacheInv /\ OutsideInv /\ Passed

Untouched ==
    \A r \in Requests : pc[r] = "new" => at[r] = None /\ input[r] = None /\ took[r] = None

Submitted(uc, c) == \E q \in Requests : at[q] = uc /\ input[q] = c

SlotInv ==
    /\ \A uc \in Open : slot[uc] # None => Submitted(uc, slot[uc])
    /\ \A r \in Requests : took[r] # None => took[r] \in Credentials /\ Submitted(at[r], took[r])

(* A request that nobody overtook finds its own input.                      *)
OwnSlot ==
    \A r \in Requests : pc[r] = "execute" /\ r \notin crossed => slot[at[r]] = input[r]

TokensInv ==
    \A r \in Requests :
      pc[r] = "granted" /\ at[r] \in Open =>
        took[r] # None /\ took[r].password = PasswordOf[took[r].account]

LoginInv == Untouched /\ SlotInv /\ OwnSlot /\ OwnInput /\ TokensInv

IInv == TypeOK /\ ManagedInv /\ LoginInv

-----------------------------------------------------------------------------
(* A role the manager knows has every permission, any other has none.       *)
LEMMA RolesOfUsers ==
    ASSUME NEW role \in UserRoles, NEW uc \in Managed
    PROVE  /\ RightsOf(role) \in SUBSET Permissions
           /\ Cacheable(role) <=> Entitled(uc, role)
<1> USE AccessAssumption
<1>1. role \in {"super_admin", "staff", "ministry_leader", "member", "visitor"}
    OBVIOUS
<1>2. Needs[uc] \subseteq Permissions /\ Needs[uc] # {}
    OBVIOUS
<1>3. \A r : Grants(r) \subseteq Permissions
    BY DEF Grants, Permissions
<1>4. RightsOf(role) \subseteq Permissions
    BY <1>3 DEF RightsOf
<1>5. CASE role = "super_admin"
  <2>1. Grants(role) = Permissions
      BY <1>5 DEF Grants
  <2>2. Permissions \subseteq RightsOf(role)
      BY <2>1 DEF RightsOf, Effective
  <2>3. Cacheable(role)
      BY <1>5 DEF Cacheable, SystemRoles
  <2>4. QED
      BY <1>2, <1>4, <2>2, <2>3 DEF Entitled
<1>6. CASE role # "super_admin"
  <2>1. Effective(role) = {role} /\ Grants(role) = {}
      BY <1>1, <1>6 DEF Effective, Below, Grants
  <2>2. RightsOf(role) = {}
      BY <2>1 DEF RightsOf
  <2>3. ~Cacheable(role)
      BY <1>1, <1>6 DEF Cacheable, SystemRoles
  <2>4. QED
      BY <1>2, <1>4, <2>2, <2>3 DEF Entitled
<1>7. QED
    BY <1>5, <1>6

LEMMA NoneIsNothing ==
    /\ \A rights \in SUBSET Permissions : rights # None
    /\ \A c \in Credentials : c # None
    BY AccessAssumption DEF Credentials

LEMMA InitIInv == Init => IInv
<1> SUFFICES ASSUME Init PROVE IInv
    OBVIOUS
<1> USE AccessAssumption DEF Init
<1>1. TypeOK
  <2>1. outside \in [Managed -> SUBSET Users]
      BY DEF Unentitled
  <2>2. changes \in 0..MaxChanges
      OBVIOUS
  <2>3. QED
      BY <2>1, <2>2 DEF TypeOK
<1>2. CacheInv /\ Passed
    BY DEF CacheInv, Passed
<1>3. OutsideInv
    BY DEF OutsideInv, Unentitled, Racing
<1>4. LoginInv
    BY DEF LoginInv, Untouched, SlotInv, OwnSlot, OwnInput, TokensInv
<1>5. QED
    BY <1>1, <1>2, <1>3, <1>4 DEF IInv, ManagedInv

-----------------------------------------------------------------------------
(* Steps that leave the rows, the caches and the requests that ask for      *)
(* permissions alone keep what is known of these.                           *)
LEMMA ManagedKept ==
    ASSUME IInv, UNCHANGED <<row, cache, outside, who, shown>>,
           \A r \in Requests : /\ pc'[r] \in {"lookup", "store"} => pc'[r] = pc[r]
                               /\ pc[r] \in {"lookup", "store"} => at'[r] = at[r]
    PROVE  ManagedInv'
<1>1. \A uc \in Managed : Racing(uc)' \subseteq Racing(uc)
    BY DEF Racing
<1>2. QED
    BY <1>1 DEF IInv, ManagedInv, CacheInv, OutsideInv, Passed

(* Steps that leave the inputs alone, and let no login end well.            *)
LEMMA LoginKept ==
    ASSUME IInv, UNCHANGED <<slot, input, took, crossed>>,
           \A r \in Requests :
             /\ pc'[r] \in {"new", "execute"} => pc'[r] = pc[r]
             /\ at'[r] = at[r] \/ (pc[r] = "new" /\ pc'[r] # "new" /\ at'[r] \notin Open)
             /\ pc'[r] = "granted" /\ at'[r] \in Open => pc[r] = "granted"
    PROVE  LoginInv'
<1> USE DEF IInv, LoginInv
<1>1. Untouched'
    BY DEF Untouched
<1>2. ASSUME NEW uc, NEW c, c # None, Submitted(uc, c) PROVE Submitted(uc, c)'
    BY <1>2 DEF Submitted, Untouched
<1>3. ASSUME NEW r \in Requests, took[r] # None PROVE at'[r] = at[r]
    BY <1>3 DEF Untouched
<1>4. SlotInv'
    BY <1>2, <1>3 DEF SlotInv
<1>5. OwnSlot'
    BY DEF OwnSlot
<1>6. OwnInput'
    BY DEF OwnInput
<1>7. TokensInv'
    BY DEF TokensInv, Untouched
<1>8. QED
    BY <1>1, <1>4, <1>5, <1>6, <1>7

LEMMA EnterIInv ==
    ASSUME IInv, NEW r \in Requests, NEW uc \in Managed, NEW u \in Users, Enter(r, uc, u)
    PROVE  IInv'
<1> USE AccessAssumption DEF IInv
<1>1. /\ pc[r] = "new"
      /\ at' = [at EXCEPT ![r] = uc]
      /\ who' = [who EXCEPT ![r] = u]
      /\ shown' = [shown EXCEPT ![r] = row[u]]
      /\ pc' = [pc EXCEPT ![r] = IF row[u].active /\ HasRequiredRoles(uc, row[u].role)
                                   THEN "lookup" ELSE "refused"]
      /\ UNCHANGED <<row, cache, slot, input, took, changes, crossed, outside>>
    BY DEF Enter, Goto
<1>2. row[u] \in Rows
    BY DEF TypeOK
<1>3. TypeOK'
  <2>1. /\ pc' \in [Requests -> {"new", "lookup", "store", "execute", "fetch", "verify",
                                 "granted", "refused", "lost"}]
        /\ at' \in [Requests -> Managed \cup Open \cup {None}]
        /\ who' \in [Requests -> Users \cup {None}]
        /\ shown' \in [Requests -> Rows \cup {None}]
      BY <1>1, <1>2 DEF TypeOK
  <2>2. ASSUME NEW q \in Requests
        PROVE  /\ pc'[q] \in {"lookup", "store"} =>
                    at'[q] \in Managed /\ who'[q] \in Users /\ shown'[q] \in Rows
               /\ pc'[q] = "execute" => at'[q] \in Open /\ slot[at'[q]] \in Credentials
               /\ pc'[q] \in {"fetch", "verify"} => at'[q] \in Open /\ took[q] \in Credentials
      BY <1>1, <1>2 DEF TypeOK
  <2>3. QED
      BY <1>1, <2>1, <2>2 DEF TypeOK
<1>4. CacheInv' /\ Passed'
    BY <1>1 DEF TypeOK, ManagedInv, CacheInv, Passed
<1>5. OutsideInv'
  <2>1. ASSUME NEW vc \in Managed, NEW v \in outside[vc], v \in Racing(vc)' PROVE FALSE
    <3>1. PICK q \in Requests : /\ pc'[q] \in {"lookup", "store"} /\ at'[q] = vc
                                /\ Entitled(vc, shown'[q].role) /\ who'[q] = v
        BY <2>1 DEF Racing
    <3>2. CASE q = r
        BY <1>1, <2>1, <3>1, <3>2 DEF TypeOK, ManagedInv, OutsideInv
    <3>3. CASE q # r
        BY <1>1, <2>1, <3>1, <3>3 DEF TypeOK, ManagedInv, OutsideInv, Racing
    <3>4. QED
        BY <3>2, <3>3
  <2>2. QED
      BY <1>1, <2>1 DEF ManagedInv, OutsideInv
<1>6. LoginInv'
    BY <1>1, LoginKept DEF TypeOK
<1>7. QED
    BY <1>3, <1>4, <1>5, <1>6 DEF ManagedInv

(* A request moves on, and nothing else happens but the answer.             *)
LEMMA MovedIInv ==
    ASSUME IInv, NEW r \in Requests, NEW loc, pc' = [pc EXCEPT ![r] = loc],
           \/ /\ pc[r] = "lookup" /\ loc \in {"store", "granted", "refused"}
              /\ loc = "store" => Cacheable(shown[r].role)
           \/ /\ pc[r] \in {"fetch", "verify"} /\ loc \in {"verify", "refused"}
           \/ /\ pc[r] = "verify" /\ loc = "granted"
              /\ took[r].password = PasswordOf[took[r].account],
           UNCHANGED <<row, cache, slot, at, who, shown, input, took, changes, crossed, outside>>
    PROVE  IInv'
<1> USE AccessAssumption DEF IInv
<1>1. TypeOK'
    BY DEF TypeOK
<1>2. \A uc \in Managed : Racing(uc)' \subseteq Racing(uc)
    BY DEF Racing, TypeOK
<1>3. ManagedInv'
    BY <1>2 DEF TypeOK, ManagedInv, CacheInv, OutsideInv, Passed
<1>4. Untouched' /\ SlotInv' /\ OwnSlot' /\ OwnInput'
    BY DEF TypeOK, LoginInv, Untouched, SlotInv, OwnSlot, OwnInput, Submitted
<1>5. TokensInv'
    BY NoneIsNothing DEF TypeOK, LoginInv, TokensInv
<1>6. QED
    BY <1>1, <1>3, <1>4, <1>5 DEF LoginInv

LEMMA LookupIInv == ASSUME IInv, NEW r \in Requests, Lookup(r) PROVE IInv'
<1>1. PICK loc \in {"store", "granted", "refused"} :
        pc' = [pc EXCEPT ![r] = loc] /\ (loc = "store" => Cacheable(shown[r].role))
    BY DEF Lookup, Decide, Goto
<1>2. QED
    BY <1>1, MovedIInv DEF Lookup

LEMMA StoreIInv == ASSUME IInv, NEW r \in Requests, Store(r) PROVE IInv'
<1> USE AccessAssumption DEF IInv
<1> DEFINE rights == RightsOf(shown[r].role)
<1>1. /\ pc[r] = "store"
      /\ cache' = [cache EXCEPT ![at[r]] = [cache[at[r]] EXCEPT ![who[r]] = rights]]
      /\ pc' = [pc EXCEPT ![r] = IF Needs[at[r]] \subseteq rights THEN "granted" ELSE "refused"]
      /\ UNCHANGED <<row, slot, at, who, shown, input, took, changes, crossed, outside>>
    BY DEF Store, Decide, Goto
<1>2. at[r] \in Managed /\ who[r] \in Users /\ shown[r].role \in UserRoles
    BY <1>1 DEF TypeOK, Rows
<1>3. rights \in SUBSET Permissions /\ Needs[at[r]] \subseteq rights
  <2>1. Cacheable(shown[r].role)
      BY <1>1 DEF ManagedInv, Passed
  <2>2. QED
      BY <1>2, <2>1, RolesOfUsers DEF Entitled
<1> HIDE DEF rights
<1>4. cache' \in [Managed -> [Users -> (SUBSET Permissions) \cup {None}]]
    BY <1>1, <1>2, <1>3 DEF TypeOK
<1>5. pc' = [pc EXCEPT ![r] = "granted"]
    BY <1>1, <1>3
<1>6. TypeOK'
    BY <1>1, <1>4, <1>5 DEF TypeOK
<1>7. CacheInv' /\ Passed'
    BY <1>1, <1>2, <1>3, <1>5 DEF TypeOK, ManagedInv, CacheInv, Passed
<1>8. OutsideInv'
  <2>1. who[r] \in Racing(at[r])
      BY <1>1, <1>2, <1>3 DEF Racing, Entitled, rights
  <2>2. who[r] \notin outside[at[r]]
      BY <1>2, <2>1 DEF ManagedInv, OutsideInv
  <2>3. \A uc \in Managed : Racing(uc)' \subseteq Racing(uc)
      BY <1>1, <1>5 DEF Racing, TypeOK
  <2>4. QED
      BY <1>1, <1>2, <2>2, <2>3 DEF TypeOK, ManagedInv, OutsideInv
<1>9. LoginInv'
  <2>1. at[r] \notin Open
      BY <1>2
  <2>2. QED
      BY <1>1, <1>5, <2>1, LoginKept DEF TypeOK
<1>10. QED
    BY <1>6, <1>7, <1>8, <1>9 DEF ManagedInv

-----------------------------------------------------------------------------
LEMMA SubmitIInv ==
    ASSUME IInv, NEW r \in Requests, NEW uc \in Open, NEW c \in Credentials, Submit(r, uc, c)
    PROVE  IInv'
<1> USE AccessAssumption DEF IInv
<1>1. /\ pc[r] = "new"
      /\ at' = [at EXCEPT ![r] = uc]
      /\ input' = [input EXCEPT ![r] = c]
      /\ slot' = [slot EXCEPT ![uc] = c]
      /\ crossed' = crossed \cup {q \in Requests : pc[q] = "execute" /\ at[q] = uc}
      /\ pc' = [pc EXCEPT ![r] = "execute"]
      /\ UNCHANGED <<row, cache, who, shown, took, changes, outside>>
    BY DEF Submit, Validated, Goto
<1>2. at[r] = None /\ input[r] = None /\ took[r] = None
    BY <1>1 DEF LoginInv, Untouched
<1>3. at'[r] = uc /\ input'[r] = c /\ slot'[uc] = c /\ pc'[r] = "execute"
    BY <1>1 DEF TypeOK
<1>4. \A q \in Requests \ {r} : at'[q] = at[q] /\ input'[q] = input[q] /\ pc'[q] = pc[q]
    BY <1>1 DEF TypeOK
<1>5. \A vc \in Open \ {uc} : slot'[vc] = slot[vc]
    BY <1>1 DEF TypeOK
<1>6. TypeOK'
  <2>1. /\ pc' \in [Requests -> {"new", "lookup", "store", "execute", "fetch", "verify",
                                 "granted", "refused", "lost"}]
        /\ at' \in [Requests -> Managed \cup Open \cup {None}]
        /\ input' \in [Requests -> Credentials \cup {None}]
        /\ slot' \in [Open -> Credentials \cup {None}]
        /\ crossed' \in SUBSET Requests
      BY <1>1 DEF TypeOK
  <2>2. ASSUME NEW q \in Requests
        PROVE  /\ pc'[q] \in {"lookup", "store"} =>
                    at'[q] \in Managed /\ who[q] \in Users /\ shown[q] \in Rows
               /\ pc'[q] = "execute" => at'[q] \in Open /\ slot'[at'[q]] \in Credentials
               /\ pc'[q] \in {"fetch", "verify"} => at'[q] \in Open /\ took[q] \in Credentials
      BY <1>3, <1>4, <1>5 DEF TypeOK
  <2>3. QED
      BY <1>1, <2>1, <2>2 DEF TypeOK
<1>7. ManagedInv'
  <2>1. \A vc \in Managed : Racing(vc)' \subseteq Racing(vc)
      BY <1>1, <1>3, <1>4 DEF Racing
  <2>2. Passed'
      BY <1>1, <1>3, <1>4 DEF ManagedInv, Passed
  <2>3. QED
      BY <1>1, <2>1, <2>2 DEF ManagedInv, CacheInv, OutsideInv
<1>8. Untouched'
    BY <1>1, <1>3, <1>4 DEF LoginInv, Untouched
<1>9. SlotInv'
  <2>1. ASSUME NEW vc, NEW d, d # None, Submitted(vc, d) PROVE Submitted(vc, d)'
      BY <1>2, <1>4, <2>1 DEF Submitted
  <2>2. Submitted(uc, c)'
      BY <1>3 DEF Submitted
  <2>3. \A q \in Requests : took[q] # None => at'[q] = at[q]
      BY <1>2, <1>4
  <2>4. QED
      BY <1>1, <1>3, <1>5, <2>1, <2>2, <2>3 DEF LoginInv, SlotInv
<1>10. OwnSlot'
  <2> SUFFICES ASSUME NEW q \in Requests, pc'[q] = "execute", q \notin crossed'
               PROVE  slot'[at'[q]] = input'[q]
      BY DEF OwnSlot
  <2>1. CASE q = r
      BY <1>3, <2>1
  <2>2. CASE q # r
    <3>1. pc[q] = "execute" /\ q \notin crossed /\ at[q] # uc /\ at[q] \in Open
        BY <1>1, <1>4, <2>2 DEF TypeOK
    <3>2. QED
        BY <1>4, <1>5, <2>2, <3>1 DEF LoginInv, OwnSlot
  <2>3. QED
      BY <2>1, <2>2
<1>11. OwnInput'
    BY <1>1, <1>2, <1>4 DEF LoginInv, OwnInput
<1>12. TokensInv'
    BY <1>1, <1>3, <1>4 DEF LoginInv, TokensInv
<1>13. QED
    BY <1>6, <1>7, <1>8, <1>9, <1>10, <1>11, <1>12 DEF LoginInv

LEMMA TakeIInv == ASSUME IInv, NEW r \in Requests, Take(r) PROVE IInv'
<1> USE AccessAssumption DEF IInv
<1>1. /\ pc[r] = "execute"
      /\ took' = [took EXCEPT ![r] = slot[at[r]]]
      /\ pc' = [pc EXCEPT ![r] = "fetch"]
      /\ UNCHANGED <<row, cache, slot, at, who, shown, input, changes, crossed, outside>>
    BY DEF Take, Goto
<1>2. at[r] \in Open /\ slot[at[r]] \in Credentials /\ slot[at[r]] # None
    BY <1>1, NoneIsNothing DEF TypeOK
<1>3. TypeOK'
    BY <1>1, <1>2 DEF TypeOK
<1>4. ManagedInv'
    BY <1>1, ManagedKept DEF TypeOK
<1>5. took'[r] = slot[at[r]] /\ \A q \in Requests \ {r} : took'[q] = took[q] /\ pc'[q] = pc[q]
    BY <1>1 DEF TypeOK
<1>6. pc'[r] = "fetch"
    BY <1>1 DEF TypeOK
<1>7. Untouched' /\ OwnSlot' /\ TokensInv'
    BY <1>1, <1>5, <1>6 DEF LoginInv, Untouched, OwnSlot, TokensInv
<1>8. SlotInv'
    BY <1>1, <1>2, <1>5 DEF LoginInv, SlotInv, Submitted
<1>9. OwnInput'
    BY <1>1, <1>5 DEF LoginInv, OwnInput, OwnSlot
<1>10. QED
    BY <1>3, <1>4, <1>7, <1>8, <1>9 DEF LoginInv

LEMMA LoginStepIInv ==
    ASSUME IInv, NEW r \in Requests, Fetch(r) \/ Verify(r) \/ LoginFails(r)
    PROVE  IInv'
<1>1. CASE Fetch(r)
    BY <1>1, MovedIInv DEF Fetch, Goto
<1>2. CASE LoginFails(r)
    BY <1>2, MovedIInv DEF LoginFails, Goto
<1>3. CASE Verify(r)
  <2>1. CASE Checked(r) = PasswordOf[took[r].account]
      BY <1>3, <2>1, MovedIInv DEF Verify, Goto, Checked
  <2>2. CASE Checked(r) # PasswordOf[took[r].account]
      BY <1>3, <2>2, MovedIInv DEF Verify, Goto
  <2>3. QED
      BY <2>1, <2>2
<1>4. QED
    BY <1>1, <1>2, <1>3

-----------------------------------------------------------------------------
LEMMA SetRowIInv ==
    ASSUME IInv, NEW u \in Users, NEW new \in Rows, SetRow(u, new) PROVE IInv'
<1> USE AccessAssumption DEF IInv
<1>1. /\ changes < MaxChanges /\ changes' = changes + 1
      /\ row' = [row EXCEPT ![u] = new]
      /\ outside' = [uc \in Managed |->
                       IF Entitled(uc, new.role) THEN outside[uc] \ {u} ELSE outside[uc]]
      /\ UNCHANGED <<cache, slot, pc, at, who, shown, input, took, crossed>>
    BY DEF SetRow, Change, requestVars
<1>2. TypeOK'
    BY <1>1 DEF TypeOK
<1>3. CacheInv' /\ Passed'
    BY <1>1 DEF ManagedInv, CacheInv, Passed
<1>4. OutsideInv'
  <2> SUFFICES ASSUME NEW uc \in Managed, NEW v \in outside'[uc]
               PROVE  /\ ~Entitled(uc, row'[v].role)
                      /\ cache[uc][v] = None
                      /\ v \notin Racing(uc)
      BY <1>1 DEF OutsideInv, Racing
  <2>1. v \in outside[uc] /\ v \in Users /\ (v = u => ~Entitled(uc, new.role))
      BY <1>1 DEF TypeOK
  <2>2. row'[v] = IF v = u THEN new ELSE row[v]
      BY <1>1, <2>1 DEF TypeOK
  <2>3. QED
      BY <2>1, <2>2 DEF ManagedInv, OutsideInv
<1>5. LoginInv'
    BY <1>1, LoginKept
<1>6. QED
    BY <1>2, <1>3, <1>4, <1>5 DEF ManagedInv

LEMMA ClearCacheIInv ==
    ASSUME IInv, NEW uc \in Managed, NEW cleared \in SUBSET Users, ClearCache(uc, cleared)
    PROVE  IInv'
<1> USE AccessAssumption DEF IInv
<1>1. /\ changes < MaxChanges /\ changes' = changes + 1
      /\ cache' = [cache EXCEPT ![uc] =
                     [u \in Users |-> IF u \in cleared THEN None ELSE cache[uc][u]]]
      /\ outside' = [outside EXCEPT ![uc] =
                       outside[uc] \cup ((cleared \cap Unentitled(uc)) \ Racing(uc))]
      /\ UNCHANGED <<row, slot, pc, at, who, shown, input, took, crossed>>
    BY DEF ClearCache, Change, Popped, requestVars
<1>2. TypeOK'
    BY <1>1 DEF TypeOK
<1>3. CacheInv' /\ Passed'
    BY <1>1 DEF TypeOK, ManagedInv, CacheInv, Passed
<1>4. OutsideInv'
  <2> SUFFICES ASSUME NEW vc \in Managed, NEW v \in outside'[vc]
               PROVE  /\ ~Entitled(vc, row[v].role)
                      /\ cache'[vc][v] = None
                      /\ v \notin Racing(vc)
      BY <1>1 DEF OutsideInv, Racing
  <2>1. CASE v \in outside[vc]
    <3>1. v \in Users
        BY <2>1 DEF TypeOK
    <3>2. cache'[vc][v] = cache[vc][v] \/ cache'[vc][v] = None
        BY <1>1, <3>1 DEF TypeOK
    <3>3. QED
        BY <2>1, <3>2 DEF ManagedInv, OutsideInv
  <2>2. CASE v \notin outside[vc]
    <3>1. vc = uc /\ v \in cleared /\ v \in Unentitled(uc) /\ v \notin Racing(uc)
        BY <1>1, <2>2 DEF TypeOK
    <3>2. QED
        BY <1>1, <3>1 DEF TypeOK, Unentitled
  <2>3. QED
      BY <2>1, <2>2
<1>5. LoginInv'
    BY <1>1, LoginKept
<1>6. QED
    BY <1>2, <1>3, <1>4, <1>5 DEF ManagedInv

LEMMA RestartIInv == ASSUME IInv, Restart PROVE IInv'
<1> USE AccessAssumption DEF IInv
<1>1. /\ changes < MaxChanges /\ changes' = changes + 1
      /\ cache' = [uc \in Managed |-> [u \in Users |-> None]]
      /\ slot' = [uc \in Open |-> None]
      /\ pc' = [r \in Requests |-> IF pc[r] \in {"new", "granted", "refused"}
                                     THEN pc[r] ELSE "lost"]
      /\ outside' = [uc \in Managed |-> outside[uc] \cup Unentitled(uc)]
      /\ UNCHANGED <<row, at, who, shown, input, took, crossed>>
    BY DEF Restart, Change
<1>2. \A r \in Requests : pc'[r] \in {"new", "granted", "refused", "lost"}
    BY <1>1 DEF TypeOK
<1>3. TypeOK'
  <2>1. outside' \in [Managed -> SUBSET Users]
      BY <1>1 DEF TypeOK, Unentitled
  <2>2. pc' \in [Requests -> {"new", "lookup", "store", "execute", "fetch", "verify",
                              "granted", "refused", "lost"}]
      BY <1>1, <1>2
  <2>3. QED
      BY <1>1, <1>2, <2>1, <2>2 DEF TypeOK
<1>4. CacheInv' /\ Passed'
    BY <1>1, <1>2 DEF CacheInv, Passed
<1>5. OutsideInv'
  <2>1. \A uc \in Managed : Racing(uc)' = {}
      BY <1>2 DEF Racing
  <2>2. QED
      BY <1>1, <2>1 DEF TypeOK, ManagedInv, OutsideInv, Unentitled
<1>6. Untouched' /\ OwnSlot' /\ OwnInput' /\ TokensInv'
    BY <1>1, <1>2 DEF LoginInv, Untouched, OwnSlot, OwnInput, TokensInv
<1>7. SlotInv'
    BY <1>1 DEF LoginInv, SlotInv, Submitted
<1>8. QED
    BY <1>3, <1>4, <1>5, <1>6, <1>7 DEF ManagedInv, LoginInv

LEMMA StutterIInv == ASSUME IInv, UNCHANGED vars PROVE IInv'
<1> USE DEF vars, requestVars, IInv
<1>1. TypeOK'
    BY DEF TypeOK
<1>2. ManagedInv'
    BY ManagedKept
<1>3. LoginInv'
    BY LoginKept
<1>4. QED
    BY <1>1, <1>2, <1>3

LEMMA NextIInv == IInv /\ [Next]_vars => IInv'
    BY EnterIInv, LookupIInv, StoreIInv, SubmitIInv, TakeIInv, LoginStepIInv, SetRowIInv,
       ClearCacheIInv, RestartIInv, StutterIInv DEF Next

LEMMA Invariance == Spec => []IInv
    BY InitIInv, NextIInv, PTL DEF Spec

-----------------------------------------------------------------------------
(* The caches hold permissions, and a login finds an input on its use case. *)
THEOREM TypeCorrect == Spec => []TypeOK
<1>1. IInv => TypeOK
    BY DEF IInv
<1>2. QED
    BY <1>1, Invariance, PTL

(* For any users, requests and use cases: tokens are issued for an account  *)
(* only if some request submitted it with its password.                     *)
THEOREM TokensAreEarned == Spec => []TokensMatchCredentials
<1>1. ASSUME IInv PROVE TokensMatchCredentials
  <2> SUFFICES ASSUME NEW r \in Requests, pc[r] = "granted", at[r] \in Open
               PROVE  \E q \in Requests :
                        /\ at[q] = at[r]
                        /\ input[q] = [account  |-> took[r].account,
                                       password |-> PasswordOf[took[r].account]]
      BY DEF TokensMatchCredentials
  <2>1. took[r] # None /\ took[r].password = PasswordOf[took[r].account]
      BY <1>1 DEF IInv, LoginInv, TokensInv
  <2>2. took[r] \in Credentials /\ Submitted(at[r], took[r])
      BY <1>1, <2>1 DEF IInv, LoginInv, SlotInv
  <2>3. took[r] = [account |-> took[r].account, password |-> PasswordOf[took[r].account]]
      BY <2>1, <2>2 DEF Credentials
  <2>4. QED
      BY <2>2, <2>3 DEF Submitted
<1>2. QED
    BY <1>1, Invariance, PTL

(* ... and a login that nobody overtook goes on with its own credentials.   *)
THEOREM LoginsUseOwnInput == Spec => []OwnInput
<1>1. IInv => OwnInput
    BY DEF IInv, LoginInv
<1>2. QED
    BY <1>1, Invariance, PTL

(* A grant or a refusal of permissions is a lookup or a store.              *)
LEMMA Decisions ==
    ASSUME IInv, [Next]_vars, NEW r \in Requests, pc[r] \in {"lookup", "store"},
           pc'[r] \in {"granted", "refused"}
    PROVE  /\ at[r] \in Managed /\ who[r] \in Users /\ shown[r].role \in UserRoles
           /\ \/ /\ cache[at[r]][who[r]] # None
                 /\ pc'[r] = "granted"
              \/ /\ pc[r] = "lookup" /\ cache[at[r]][who[r]] = None
                 /\ ~Entitled(at[r], shown[r].role) /\ pc'[r] = "refused"
              \/ /\ pc[r] = "store"
                 /\ Entitled(at[r], shown[r].role) /\ pc'[r] = "granted"
<1> USE AccessAssumption DEF IInv
<1>1. at[r] \in Managed /\ who[r] \in Users /\ shown[r].role \in UserRoles
    BY DEF TypeOK, Rows
<1>2. Lookup(r) \/ Store(r)
  <2>1. pc'[r] # pc[r]
      OBVIOUS
  <2>2. ASSUME NEW q \in Requests,
               \/ \E uc \in Managed, u \in Users : Enter(q, uc, u)
               \/ Lookup(q) \/ Store(q)
               \/ \E uc \in Open, c \in Credentials : Submit(q, uc, c)
               \/ Take(q) \/ Fetch(q) \/ Verify(q) \/ LoginFails(q)
        PROVE  Lookup(r) \/ Store(r)
    <3>1. \E loc : pc' = [pc EXCEPT ![q] = loc]
        BY <2>2 DEF Enter, Lookup, Store, Submit, Take, Fetch, Verify, LoginFails, Goto, Decide
    <3>2. q = r
        BY <2>1, <3>1 DEF TypeOK
    <3>3. QED
        BY <2>2, <3>2 DEF Enter, Submit, Take, Fetch, Verify, LoginFails
  <2>3. ASSUME Restart PROVE FALSE
      BY <2>1, <2>3 DEF Restart, TypeOK
  <2>4. ASSUME UNCHANGED pc PROVE FALSE
      BY <2>1, <2>4
  <2>5. QED
      BY <2>2, <2>3, <2>4 DEF Next, vars, requestVars, SetRow, ClearCache
<1>3. CASE Store(r)
  <2>1. Cacheable(shown[r].role) /\ pc[r] = "store"
      BY <1>3 DEF Store, ManagedInv, Passed
  <2>2. Entitled(at[r], shown[r].role)
      BY <1>1, <2>1, RolesOfUsers
  <2>3. QED
      BY <1>1, <1>3, <2>1, <2>2 DEF Store, Decide, Goto, Entitled, TypeOK
<1>4. CASE Lookup(r)
  <2>1. CASE cache[at[r]][who[r]] # None
    <3>1. Needs[at[r]] \subseteq cache[at[r]][who[r]]
        BY <1>1, <2>1 DEF ManagedInv, CacheInv
    <3>2. QED
        BY <1>1, <1>4, <2>1, <3>1 DEF Lookup, Decide, Goto, TypeOK
  <2>2. CASE cache[at[r]][who[r]] = None /\ ~Cacheable(shown[r].role)
    <3>1. ~Entitled(at[r], shown[r].role)
        BY <1>1, <2>2, RolesOfUsers
    <3>2. ~(Needs[at[r]] \subseteq {})
        BY <1>1
    <3>3. QED
        BY <1>1, <1>4, <2>2, <3>1, <3>2 DEF Lookup, Decide, Goto, TypeOK
  <2>3. CASE cache[at[r]][who[r]] = None /\ Cacheable(shown[r].role)
      BY <1>4, <2>3 DEF Lookup, Goto, TypeOK
  <2>4. QED
      BY <2>1, <2>2, <2>3
<1>5. QED
    BY <1>2, <1>3, <1>4

(* For any users, requests and use cases: permissions are granted only to a *)
(* user who was entitled since the cache was cleared of him.                *)
THEOREM GrantsWereHeld == Spec => OnlyHoldersGranted
<1>1. ASSUME IInv, [Next]_vars, NEW r \in Requests, pc[r] \in {"lookup", "store"},
             pc'[r] = "granted", who[r] \in outside[at[r]]
      PROVE  FALSE
  <2>1. at[r] \in Managed /\ (cache[at[r]][who[r]] # None \/
                                Entitled(at[r], shown[r].role))
      BY <1>1, Decisions
  <2>2. cache[at[r]][who[r]] = None /\ who[r] \notin Racing(at[r])
      BY <1>1, <2>1 DEF IInv, ManagedInv, OutsideInv
  <2>3. QED
      BY <1>1, <2>1, <2>2 DEF Racing
<1>2. IInv /\ [Next]_vars =>
        [\A r \in Requests : pc[r] \in {"lookup", "store"} /\ pc'[r] = "granted" =>
           who[r] \notin outside[at[r]]]_vars
    BY <1>1
<1>3. QED
    BY <1>2, Invariance, PTL DEF Spec, OnlyHoldersGranted

(* For any users, requests and use cases: the cache never refuses a user    *)
(* what the role he comes with gives him.                                   *)
THEOREM PromotionsAreSeen == Spec => PromotionsCount
<1>1. IInv /\ [Next]_vars =>
        [\A r \in Requests : pc[r] \in {"lookup", "store"} /\ pc'[r] = "refused" =>
           ~Entitled(at[r], shown[r].role)]_vars
    BY Decisions
<1>2. QED
    BY <1>1, Invariance, PTL DEF Spec, PromotionsCount

(* For any users, requests and use cases: a stale permission opens only     *)
(* what requires no role, and only to the active.                           *)
THEOREM StaleGrantsAreBounded == Spec => StaleGrants
<1>1. ASSUME IInv, NEW r \in Requests, pc[r] \in {"lookup", "store"},
             ~Entitled(at[r], shown[r].role)
      PROVE  at[r] \notin RoleBound /\ shown[r].active
  <2>1. /\ at[r] \in Managed /\ shown[r].role \in UserRoles
        /\ shown[r].active /\ HasRequiredRoles(at[r], shown[r].role)
      BY <1>1 DEF IInv, TypeOK, Rows, ManagedInv, Passed
  <2>2. ~Cacheable(shown[r].role)
      BY <1>1, <2>1, RolesOfUsers
  <2>3. QED
      BY <2>1, <2>2 DEF HasRequiredRoles, Cacheable
<1>2. IInv /\ [Next]_vars =>
        [\A r \in Requests :
           (pc[r] \in {"lookup", "store"} /\ pc'[r] = "granted"
               /\ ~Entitled(at[r], shown[r].role)) =>
             at[r] \notin RoleBound /\ shown[r].active]_vars
    BY <1>1
<1>3. QED
    BY <1>2, Invariance, PTL DEF Spec, StaleGrants
=============================================================================
