---------------------------- MODULE KeyRotation ----------------------------
(***************************************************************************)
(* The rotation of JWT signing keys (apps/core/jwt/key_rotation.py).  Each  *)
(* process has a KeyRotationManager with its own keys; all of them load and *)
(* save one cache entry, "jwt:keys".  initialize and rotate_keys change the *)
(* keys between awaits, and a save names the current key when it is called  *)
(* but reads the dictionary of keys only when the connection is ready.      *)
(***************************************************************************)
EXTENDS Integers, FiniteSets

CONSTANTS
    Managers,  \* KeyRotationManager instances, one per process
    Tasks,     \* tasks that call initialize or rotate_keys
    Owner,     \* the manager each task calls
    MaxKeys    \* bound on the keys generated

ASSUME RotationAssumption ==
    /\ Owner \in [Tasks -> Managers]
    /\ MaxKeys \in Nat

VARIABLES
    made,        \* keys generated so far: keys are numbered by creation
    pairs,       \* key_pairs (and the domain of key_metadata) of each manager
    previous,    \* the keys whose metadata says 'previous'
    current,     \* current_key_id, NoKey while it is None
    ready,       \* _initialized
    job,         \* what each task is waiting for
    stage,       \* how far the save of a task is
    payload,     \* the keys_data of that save
    entry,       \* the cache entry, Nothing when there is none
    pred,        \* history: the key current before the last one was generated
    overlapped,  \* history: two calls overlapped on one manager
    disturbed    \* history: a save failed, the entry expired, a call was cut
                 \* short, or a second manager lived at the same time

managerVars == <<pairs, previous, current, ready, pred>>
taskVars    == <<job, stage, payload>>
vars == <<made, managerVars, taskVars, entry, overlapped, disturbed>>

NoKey   == 0
Keys    == 1..MaxKeys
Content == [pairs : SUBSET Keys, previous : SUBSET Keys, current : Keys \cup {NoKey}]
Naming(k) == [pairs |-> {}, previous |-> {}, current |-> k]
Nothing   == Naming(NoKey)

Saving == {"init", "rotate", "cleanup"}  \* the saves a task can wait for
Busy(m)    == {t \in Tasks : Owner[t] = m /\ job[t] # "idle"}
Holds(m)   == [pairs |-> pairs[m], previous |-> previous[m], current |-> current[m]]

Init ==
    /\ made = 0
    /\ pairs = [m \in Managers |-> {}]
    /\ previous = [m \in Managers |-> {}]
    /\ current = [m \in Managers |-> NoKey]
    /\ ready = [m \in Managers |-> FALSE]
    /\ job = [t \in Tasks |-> "idle"]
    /\ stage = [t \in Tasks |-> "none"]
    /\ payload = [t \in Tasks |-> Nothing]
    /\ entry = Nothing
    /\ pred = [m \in Managers |-> NoKey]
    /\ overlapped = FALSE
    /\ disturbed = FALSE

-----------------------------------------------------------------------------
(* keys_data names the current key now; its dictionaries are the manager's. *)
SaveCall(t, what, cur) ==
    /\ job' = [job EXCEPT ![t] = what]
    /\ stage' = [stage EXCEPT ![t] = "shared"]
    /\ payload' = [payload EXCEPT ![t] = Naming(cur)]

Finish(t) ==
    /\ job' = [job EXCEPT ![t] = "idle"]
    /\ stage' = [stage EXCEPT ![t] = "none"]
    /\ payload' = [payload EXCEPT ![t] = Nothing]

(* Mutant of NamedCurrent: the save is prepared before the key is current.  *)
NamedBefore(m) == current[m]

NamedCurrent(m) == made + 1

(* _generate_new_key_pair: a new current key, and the save it awaits.       *)
Generate(t, what) ==
    LET m == Owner[t] IN
    /\ made < MaxKeys
    /\ made' = made + 1
    /\ pairs' = [pairs EXCEPT ![m] = @ \cup {made + 1}]
    /\ pred' = [pred EXCEPT ![m] = current[m]]
    /\ current' = [current EXCEPT ![m] = made + 1]
    /\ SaveCall(t, what, NamedCurrent(m))
    /\ UNCHANGED previous

(* A call of manager m begins while others may be under way.                *)
Begin(m) ==
    /\ overlapped' = (overlapped \/ Busy(m) # {})
    /\ disturbed' = (disturbed \/ \E n \in Managers \ {m} : ready[n] \/ Busy(n) # {})

InitCall(t) ==
    /\ job[t] = "idle"
    /\ ~ready[Owner[t]]
    /\ Begin(Owner[t])
    /\ job' = [job EXCEPT ![t] = "load"]
    /\ UNCHANGED <<made, managerVars, stage, payload, entry>>

(* Mutant of LoadedPairs: the keys are stored under another name.           *)
LoadedNone == {}

LoadedPairs == entry.pairs

(* _load_keys_from_cache replaces the dictionaries: the saves under way keep *)
(* the old ones.                                                            *)
Load(m) ==
    /\ pairs' = [pairs EXCEPT ![m] = LoadedPairs]
    /\ previous' = [previous EXCEPT ![m] = entry.previous]
    /\ current' = [current EXCEPT ![m] = entry.current]
    /\ pred' = [pred EXCEPT ![m] = NoKey]

Detached(m) == {t \in Busy(m) : stage[t] = "shared"}
Frozen(t)   == [Holds(Owner[t]) EXCEPT !.current = payload[t].current]

Loaded(t) ==
    LET m == Owner[t] IN
    /\ job[t] = "load"
    /\ entry # Nothing
    /\ Load(m)
    /\ ready' = [ready EXCEPT ![m] = TRUE]
    /\ job' = [job EXCEPT ![t] = "idle"]
    /\ stage' = [u \in Tasks |-> IF u \in Detached(m) THEN "sent" ELSE stage[u]]
    /\ payload' = [u \in Tasks |-> IF u \in Detached(m) THEN Frozen(u) ELSE payload[u]]
    /\ UNCHANGED <<made, entry, overlapped, disturbed>>

(* Nothing was loaded: no entry, or the cache failed.                       *)
NotLoaded(t) ==
    LET m == Owner[t] IN
    /\ job[t] = "load"
    /\ disturbed' = (disturbed \/ entry # Nothing)
    /\ \/ /\ current[m] = NoKey
          /\ Generate(t, "init")
          /\ UNCHANGED ready
       \/ /\ current[m] # NoKey
          /\ ready' = [ready EXCEPT ![m] = TRUE]
          /\ Finish(t)
          /\ UNCHANGED <<made, pairs, previous, current, pred>>
    /\ UNCHANGED <<entry, overlapped>>

RotateCall(t) ==
    /\ job[t] = "idle"
    /\ ready[Owner[t]]
    /\ Begin(Owner[t])
    /\ Generate(t, "rotate")
    /\ UNCHANGED <<ready, entry>>

-----------------------------------------------------------------------------
(* The connection is ready: the value is serialised and sent.               *)
Send(t) ==
    /\ stage[t] = "shared"
    /\ stage' = [stage EXCEPT ![t] = "sent"]
    /\ payload' = [payload EXCEPT ![t] = Frozen(t)]
    /\ UNCHANGED <<made, managerVars, job, entry, overlapped, disturbed>>

(* Redis applies a save.                                                    *)
Apply(t) ==
    /\ stage[t] = "sent"
    /\ entry' = payload[t]
    /\ stage' = [stage EXCEPT ![t] = "applied"]
    /\ UNCHANGED <<made, managerVars, job, payload, overlapped, disturbed>>

(* A save is over, whether it succeeded or not.                             *)
SaveEnds(t) ==
    /\ disturbed' = (disturbed \/ stage[t] # "applied")
    /\ UNCHANGED <<made, entry, overlapped>>

InitSaved(t) ==
    /\ job[t] = "init"
    /\ SaveEnds(t)
    /\ ready' = [ready EXCEPT ![Owner[t]] = TRUE]
    /\ Finish(t)
    /\ UNCHANGED <<pairs, previous, current, pred>>

(* Mutant of Newest: the oldest two are kept.                               *)
Oldest(S) == {k \in S : Cardinality({j \in S : j < k}) < 2}

(* The two keys created last.                                               *)
Newest(S) == {k \in S : Cardinality({j \in S : j > k}) < 2}

Kept(m) == Newest(pairs[m]) \cup (pairs[m] \cap {current[m]})

(* Mutant of Marked: the metadata of a dropped key stays.                   *)
MarkedAll(m, new) == previous[m] \cup (pairs[m] \ {new})

(* Every key but the rotation's own, also one that became current since.    *)
Marked(m, new) == (previous[m] \cup (pairs[m] \ {new})) \cap Kept(m)

(* rotate_keys goes on: it marks the other keys, and _cleanup_old_keys drops *)
(* all but the newest two and the current one, and saves again if it had to. *)
RotateSaved(t) ==
    LET m == Owner[t] IN
    /\ job[t] = "rotate"
    /\ SaveEnds(t)
    /\ pairs' = [pairs EXCEPT ![m] = Kept(m)]
    /\ previous' = [previous EXCEPT ![m] = Marked(m, payload[t].current)]
    /\ IF Cardinality(pairs[m]) <= 2 THEN Finish(t) ELSE SaveCall(t, "cleanup", current[m])
    /\ UNCHANGED <<current, ready, pred>>

CleanupSaved(t) ==
    /\ job[t] = "cleanup"
    /\ SaveEnds(t)
    /\ Finish(t)
    /\ UNCHANGED managerVars

-----------------------------------------------------------------------------
(* The process of a manager is restarted, in the middle of calls or not.    *)
Restart(m) ==
    /\ ready[m] \/ Busy(m) # {}
    /\ pairs' = [pairs EXCEPT ![m] = {}]
    /\ previous' = [previous EXCEPT ![m] = {}]
    /\ current' = [current EXCEPT ![m] = NoKey]
    /\ ready' = [ready EXCEPT ![m] = FALSE]
    /\ pred' = [pred EXCEPT ![m] = NoKey]
    /\ job' = [t \in Tasks |-> IF t \in Busy(m) THEN "idle" ELSE job[t]]
    /\ stage' = [t \in Tasks |-> IF t \in Busy(m) THEN "none" ELSE stage[t]]
    /\ payload' = [t \in Tasks |-> IF t \in Busy(m) THEN Nothing ELSE payload[t]]
    /\ disturbed' = (disturbed \/ Busy(m) # {})
    /\ UNCHANGED <<made, entry, overlapped>>

(* The entry outlives two rotation intervals without a save, or is evicted. *)
Expire ==
    /\ entry # Nothing
    /\ entry' = Nothing
    /\ disturbed' = TRUE
    /\ UNCHANGED <<made, managerVars, taskVars, overlapped>>

Next ==
    \/ \E t \in Tasks :
         \/ InitCall(t) \/ Loaded(t) \/ NotLoaded(t) \/ RotateCall(t)
         \/ Send(t) \/ Apply(t)
         \/ InitSaved(t) \/ RotateSaved(t) \/ CleanupSaved(t)
    \/ \E m \in Managers : Restart(m)
    \/ Expire

Spec == Init /\ [][Next]_vars

-----------------------------------------------------------------------------
(* The shape of the state; only keys that exist are held, and metadata only *)
(* of keys that are held (rotate_keys looks up one for the other).          *)
TypeOK ==
    /\ made \in 0..MaxKeys
    /\ pairs \in [Managers -> SUBSET Keys]
    /\ previous \in [Managers -> SUBSET Keys]
    /\ current \in [Managers -> Keys \cup {NoKey}]
    /\ ready \in [Managers -> BOOLEAN]
    /\ job \in [Tasks -> {"idle", "load"} \cup Saving]
    /\ stage \in [Tasks -> {"none", "shared", "sent", "applied"}]
    /\ payload \in [Tasks -> Content]
    /\ entry \in Content
    /\ pred \in [Managers -> Keys \cup {NoKey}]
    /\ overlapped \in BOOLEAN
    /\ disturbed \in BOOLEAN
    /\ \A m \in Managers : previous[m] \subseteq pairs[m] /\ pairs[m] \subseteq 1..made

(* A manager that is ready can sign: it holds the pair of its current key,  *)
(* whatever other processes save, unless calls overlapped on one manager,   *)
(* when a save may name a key its dictionary has lost (_save_keys_to_cache).*)
ReadyCanSign ==
    ~overlapped => \A m \in Managers : ready[m] => current[m] \in pairs[m]

(* Tokens signed just before a rotation can still be verified after it: the *)
(* key that was current before the last rotation is never cleaned up        *)
(* (_cleanup_old_keys), even of keys loaded after a crash, unless calls     *)
(* overlapped on one manager.                                               *)
PredecessorKept ==
    ~overlapped => \A m \in Managers : pred[m] # NoKey => pred[m] \in pairs[m]

(* A restart loses no key: while one manager lives at a time, no call is    *)
(* cut short and no save fails, the entry holds the keys of a manager that  *)
(* is at rest.                                                              *)
RestartKeepsKeys ==
    ~overlapped /\ ~disturbed =>
        \A m \in Managers :
          ready[m] /\ Busy(m) = {} =>
            entry.pairs = pairs[m] /\ entry.current = current[m]

(* The signing key never steps back: under the same conditions a manager    *)
(* that is ready signs with the last key ever generated, also one that has  *)
(* just loaded its keys after a restart.                                    *)
NewestIsCurrent ==
    ~overlapped /\ ~disturbed => \A m \in Managers : ready[m] => current[m] = made
=============================================================================
