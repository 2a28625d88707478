------------------------ MODULE KeyRotation_proofs -------------------------
(***************************************************************************)
(* Safety of key rotation for any processes, tasks and number of keys.      *)
(* While the calls of a manager do not overlap, the current key is the      *)
(* newest of its keys, in memory, in every save and in the entry (Calm);    *)
(* while one manager lives at a time its saves and the entry follow its     *)
(* keys (Lone).                                                             *)
(***************************************************************************)
EXTENDS KeyRotation, FiniteSetTheorems, TLAPS

(* A task has a save exactly while it waits for one, and only a manager     *)
(* that is ready rotates.                                                   *)
Shape ==
    \A t \in Tasks :
      /\ stage[t] # "none" <=> job[t] \in Saving
      /\ job[t] \in {"rotate", "cleanup"} => ready[Owner[t]]

(* The current key of a set of keys is its newest.                          *)
Sound(c) == c.current \in c.pairs /\ \A k \in c.pairs : k <= c.current

OneCall ==
    \A t, u \in Tasks :
      Owner[t] = Owner[u] /\ job[t] # "idle" /\ job[u] # "idle" => t = u
Fresh ==
    /\ \A m \in Managers : ~ready[m] /\ Busy(m) = {} => current[m] = NoKey
    /\ \A t \in Tasks : job[t] = "load" => current[Owner[t]] = NoKey /\ ~ready[Owner[t]]
Whole ==
    /\ \A m \in Managers : (current[m] = NoKey /\ pairs[m] = {} /\ ~ready[m]) \/ Sound(Holds(m))
    /\ entry = Nothing \/ Sound(entry)
    /\ \A t \in Tasks : stage[t] \in {"sent", "applied"} => Sound(payload[t])
Named ==
    \A t \in Tasks :
      job[t] \in Saving => /\ payload[t].current = current[Owner[t]]
                           /\ current[Owner[t]] # NoKey
Preds ==
    \A m \in Managers :
      pred[m] # NoKey =>
        /\ pred[m] \in pairs[m]
        /\ \A k \in pairs[m] : k = current[m] \/ k <= pred[m]

Calm == ~overlapped => OneCall /\ Fresh /\ Whole /\ Named /\ Preds

Live(m) == ready[m] \/ Busy(m) # {}
OneLife == \A m, n \in Managers : Live(m) /\ Live(n) => m = n
Rest ==
    \A m \in Managers :
      ready[m] /\ Busy(m) = {} => entry.pairs = pairs[m] /\ entry.current = current[m]
Following ==
    \A t \in Tasks :
      /\ stage[t] \in {"sent", "applied"} => payload[t].pairs = pairs[Owner[t]]
      /\ stage[t] = "applied" => entry = payload[t]

Lone == ~overlapped /\ ~disturbed => OneLife /\ Rest /\ Following

(* Saves and the entry list only keys that exist, and metadata for them.     *)
Real(c) == c.previous \subseteq c.pairs /\ c.pairs \subseteq 1..made
Contents == Real(entry) /\ \A t \in Tasks : Real(payload[t])

IInv == TypeOK /\ Contents /\ Shape /\ Calm /\ Lone
-----------------------------------------------------------------------------
LEMMA KeysAreNumbers ==
    /\ Keys \subseteq Nat
    /\ NoKey \in Nat /\ NoKey \notin Keys
    /\ Nothing \in Content
    BY RotationAssumption DEF Keys, NoKey, Nothing, Naming, Content

LEMMA ContentFields ==
    ASSUME NEW P, NEW Q, NEW c
    PROVE  /\ [pairs |-> P, previous |-> Q, current |-> c].pairs = P
           /\ [pairs |-> P, previous |-> Q, current |-> c].previous = Q
           /\ [pairs |-> P, previous |-> Q, current |-> c].current = c
    OBVIOUS

(* What _cleanup_old_keys keeps of a finite set of keys.                    *)
LEMMA NewestKeepsTopTwo ==
    ASSUME NEW S \in SUBSET Keys, NEW k \in S, NEW c, \A j \in S : j = c \/ j <= k
    PROVE  k \in Newest(S)
<1>1. Keys \subseteq Nat
    BY KeysAreNumbers
<1>2. ASSUME NEW j \in S, j > k PROVE j = c
  <2>1. j \in Nat /\ k \in Nat
      BY <1>1
  <2>2. QED
      BY <1>2, <2>1
<1>3. IsFiniteSet({c}) /\ Cardinality({c}) = 1
    BY FS_Singleton
<1>4. {j \in S : j > k} \subseteq {c}
    BY <1>2
<1>5. Cardinality({j \in S : j > k}) <= 1 /\ Cardinality({j \in S : j > k}) \in Nat
    BY <1>3, <1>4, FS_Subset, FS_CardinalityType
<1>6. QED
    BY <1>5 DEF Newest

LEMMA NewestKeepsTwo ==
    ASSUME NEW S \in SUBSET Keys, Cardinality(S) <= 2
    PROVE  Newest(S) = S
<1>1. IsFiniteSet(Keys)
    BY RotationAssumption, FS_Interval DEF Keys
<1>2. IsFiniteSet(S) /\ Cardinality(S) \in Nat
    BY <1>1, FS_Subset, FS_CardinalityType
<1>3. ASSUME NEW k \in S PROVE Cardinality({j \in S : j > k}) < 2
  <2>1. IsFiniteSet(S \ {k}) /\ Cardinality(S \ {k}) = Cardinality(S) - 1
      BY <1>2, <1>3, FS_RemoveElement
  <2>2. {j \in S : j > k} \subseteq S \ {k}
      BY KeysAreNumbers
  <2>3. /\ Cardinality({j \in S : j > k}) <= Cardinality(S \ {k})
        /\ Cardinality({j \in S : j > k}) \in Nat
      BY <2>1, <2>2, FS_Subset, FS_CardinalityType
  <2>4. QED
      BY <1>2, <2>1, <2>3
<1>4. QED
    BY <1>3 DEF Newest
-----------------------------------------------------------------------------
LEMMA InitIInv == Init => IInv
<1> SUFFICES ASSUME Init PROVE IInv
    OBVIOUS
<1> USE RotationAssumption DEF Init
<1>1. made = 0 /\ made \in 0..MaxKeys
    OBVIOUS
<1>2. pairs \in [Managers -> SUBSET Keys] /\ previous \in [Managers -> SUBSET Keys]
    OBVIOUS
<1>3. TypeOK
    BY <1>1, <1>2, KeysAreNumbers DEF TypeOK
<1>4. Contents
    BY DEF Contents, Real, Nothing, Naming
<1>5. Shape
    BY DEF Shape, Saving
<1>6. OneCall /\ Fresh /\ Whole /\ Named /\ Preds
    BY DEF OneCall, Fresh, Whole, Named, Preds, Saving
<1>7. OneLife /\ Rest /\ Following
    BY DEF OneLife, Rest, Following, Live, Busy
<1>8. QED
    BY <1>3, <1>5, <1>6, <1>7, <1>4 DEF IInv, Calm, Lone

(* A call of manager m that begins apart from others leaves them idle, and  *)
(* while one manager lives at a time the others are dead.                   *)
LEMMA BeginApart ==
    ASSUME NEW m \in Managers, IInv, Begin(m)
    PROVE  /\ overlapped' \in BOOLEAN /\ disturbed' \in BOOLEAN
           /\ ~overlapped' => ~overlapped /\ Busy(m) = {}
           /\ ~disturbed' => ~disturbed /\ \A n \in Managers \ {m} : ~Live(n)
<1>1. /\ overlapped' = (overlapped \/ Busy(m) # {})
      /\ disturbed' = (disturbed \/ \E n \in Managers \ {m} : Live(n))
    BY DEF Begin, Live
<1>2. overlapped' \in BOOLEAN /\ disturbed' \in BOOLEAN
    BY <1>1
<1>3. ~overlapped' => ~overlapped /\ Busy(m) = {}
    BY <1>1
<1>4. ~disturbed' => ~disturbed /\ \A n \in Managers \ {m} : ~Live(n)
    BY <1>1
<1>5. QED
    BY <1>2, <1>3, <1>4

LEMMA InitCallIInv == ASSUME IInv, NEW t \in Tasks, InitCall(t) PROVE IInv'
<1> DEFINE m == Owner[t]
<1> USE RotationAssumption DEF IInv, TypeOK
<1>1. /\ m \in Managers /\ job[t] = "idle" /\ ~ready[m]
      /\ job' = [job EXCEPT ![t] = "load"]
      /\ UNCHANGED <<made, pairs, previous, current, ready, pred, stage, payload, entry>>
    BY DEF InitCall, managerVars
<1>2. /\ overlapped' \in BOOLEAN /\ disturbed' \in BOOLEAN
      /\ ~overlapped' => ~overlapped /\ Busy(m) = {}
      /\ ~disturbed' => ~disturbed /\ \A n \in Managers \ {m} : ~Live(n)
    BY <1>1, BeginApart DEF InitCall
<1>3. TypeOK'
    BY <1>1, <1>2
<1>4. Shape'
    BY <1>1 DEF Shape, Saving
<1>5. Calm'
  <2> SUFFICES ASSUME ~overlapped' PROVE (OneCall /\ Fresh /\ Whole /\ Named /\ Preds)'
      BY DEF Calm
  <2>1. OneCall /\ Fresh /\ Whole /\ Named /\ Preds /\ Busy(m) = {}
      BY <1>2 DEF Calm
  <2>2. OneCall'
      BY <1>1, <2>1 DEF OneCall, Busy
  <2>3. Fresh'
      BY <1>1, <2>1 DEF Fresh, Busy
  <2>4. Whole' /\ Preds'
      BY <1>1, <2>1 DEF Whole, Preds, Holds
  <2>5. Named'
      BY <1>1, <2>1 DEF Named, Saving
  <2>6. QED
      BY <2>2, <2>3, <2>4, <2>5
<1>6. Lone'
  <2> SUFFICES ASSUME ~overlapped', ~disturbed' PROVE (OneLife /\ Rest /\ Following)'
      BY DEF Lone
  <2>1. /\ OneLife /\ Rest /\ Following /\ Busy(m) = {}
        /\ \A n \in Managers \ {m} : ~Live(n)
      BY <1>2 DEF Lone
  <2>2. OneLife'
      BY <1>1, <2>1 DEF OneLife, Live, Busy
  <2>3. Rest'
      BY <1>1, <2>1 DEF Rest, Busy
  <2>4. Following'
      BY <1>1, <2>1 DEF Following
  <2>5. QED
      BY <2>2, <2>3, <2>4
<1>7. Contents'
    BY <1>1 DEF Contents, Real
<1>8. QED
    BY <1>3, <1>4, <1>5, <1>6, <1>7

(* A new key is newer than all others, so it may become the current one.    *)
LEMMA GenerateIInv ==
    ASSUME IInv, NEW t \in Tasks, NEW m \in Managers, m = Owner[t],
           NEW what \in {"init", "rotate"}, Generate(t, what),
           UNCHANGED <<ready, entry>>, overlapped' \in BOOLEAN, disturbed' \in BOOLEAN,
           what = "rotate" => ready[m], job[t] \in {"idle", "load"},
           ~overlapped' => ~overlapped /\ Busy(m) \subseteq {t},
           ~disturbed' => ~disturbed /\ (~overlapped => \A n \in Managers \ {m} : ~Live(n))
    PROVE  IInv'
<1> USE RotationAssumption DEF IInv, TypeOK
<1> DEFINE k == made + 1
<1>1. /\ made' = k
      /\ pairs' = [pairs EXCEPT ![m] = pairs[m] \cup {k}]
      /\ pred' = [pred EXCEPT ![m] = current[m]]
      /\ current' = [current EXCEPT ![m] = k]
      /\ job' = [job EXCEPT ![t] = what]
      /\ stage' = [stage EXCEPT ![t] = "shared"]
      /\ payload' = [payload EXCEPT ![t] = [pairs |-> {}, previous |-> {}, current |-> k]]
      /\ previous' = previous
  <2>1. SaveCall(t, what, k)
      BY DEF Generate, NamedCurrent
  <2>2. QED
      BY <2>1 DEF Generate, SaveCall, Naming
<1>2. k \in Keys /\ k \in 0..MaxKeys /\ k # NoKey
    BY DEF Generate, Keys, NoKey
<1>3. \A n \in Managers : \A j \in pairs[n] : j \in Nat /\ j < k
  <2>1. \A n \in Managers : \A j \in pairs[n] : j \in 1..made
      OBVIOUS
  <2>2. QED
      BY <2>1
<1>4. TypeOK'
  <2>1. pairs' \in [Managers -> SUBSET Keys] /\ current' \in [Managers -> Keys \cup {NoKey}]
      BY <1>1, <1>2
  <2>2. payload' \in [Tasks -> Content]
      BY <1>1, <1>2 DEF Content
  <2>3. job' \in [Tasks -> {"idle", "load"} \cup Saving]
        /\ stage' \in [Tasks -> {"none", "shared", "sent", "applied"}]
      BY <1>1 DEF Saving
  <2>4. ASSUME NEW n \in Managers PROVE previous'[n] \subseteq pairs'[n] /\ pairs'[n] \subseteq 1..made'
    <3>1. 1..made \subseteq 1..k /\ k \in 1..k
        OBVIOUS
    <3>2. QED
        BY <1>1, <3>1
  <2>5. QED
      BY <1>1, <1>2, <2>1, <2>2, <2>3, <2>4
<1>5. Shape'
    BY <1>1 DEF Shape, Saving
<1>6. ASSUME ~overlapped'
      PROVE  /\ OneCall /\ Fresh /\ Whole /\ Named /\ Preds
             /\ \A u \in Tasks \ {t} : Owner[u] = m => job[u] = "idle" /\ stage[u] = "none"
    BY <1>6 DEF Calm, Busy, Shape, Saving
<1>7. Calm'
  <2> SUFFICES ASSUME ~overlapped' PROVE (OneCall /\ Fresh /\ Whole /\ Named /\ Preds)'
      BY DEF Calm
  <2>1. OneCall'
      BY <1>1, <1>6 DEF OneCall
  <2>2. Fresh'
    <3>1. t \in Busy(m)'
        BY <1>1 DEF Busy
    <3>2. \A n \in Managers \ {m} : Busy(n)' = Busy(n)
        BY <1>1 DEF Busy
    <3>3. QED
        BY <1>1, <1>6, <3>1, <3>2 DEF Fresh
  <2>3. Whole'
    <3>1. Sound(Holds(m)')
        BY <1>1, <1>2, <1>3 DEF Sound, Holds
    <3>2. \A n \in Managers \ {m} : Holds(n)' = Holds(n)
        BY <1>1 DEF Holds
    <3>3. QED
        BY <1>1, <1>6, <3>1, <3>2 DEF Whole
  <2>4. Named'
      BY <1>1, <1>2, <1>6 DEF Named, Saving
  <2>5. Preds'
    <3>1. ASSUME current[m] # NoKey
          PROVE  current[m] \in pairs[m] /\ \A j \in pairs[m] : j <= current[m]
        BY <1>6, <3>1 DEF Whole, Sound, Holds
    <3>2. QED
        BY <1>1, <1>6, <3>1 DEF Preds
  <2>6. QED
      BY <2>1, <2>2, <2>3, <2>4, <2>5
<1>8. Lone'
  <2> SUFFICES ASSUME ~overlapped', ~disturbed' PROVE (OneLife /\ Rest /\ Following)'
      BY DEF Lone
  <2>1. OneLife /\ Rest /\ Following /\ \A n \in Managers \ {m} : ~Live(n)
      BY DEF Lone
  <2>2. t \in Busy(m)' /\ \A n \in Managers \ {m} : Busy(n)' = Busy(n)
      BY <1>1 DEF Busy
  <2>3. OneLife' /\ Rest'
      BY <1>1, <2>1, <2>2 DEF OneLife, Rest, Live
  <2>4. Following'
      BY <1>1, <1>6, <2>1 DEF Following
  <2>5. QED
      BY <2>3, <2>4
<1>9. Contents'
  <2>1. 1..made \subseteq 1..made'
      BY <1>1
  <2>2. QED
      BY <1>1, <2>1 DEF Contents, Real
<1>10. QED
    BY <1>4, <1>5, <1>7, <1>8, <1>9

LEMMA RotateCallIInv == ASSUME IInv, NEW t \in Tasks, RotateCall(t) PROVE IInv'
<1>1. Owner[t] \in Managers /\ job[t] = "idle" /\ ready[Owner[t]]
    BY RotationAssumption DEF RotateCall
<1>2. Generate(t, "rotate") /\ UNCHANGED <<ready, entry>> /\ Begin(Owner[t])
    BY DEF RotateCall
<1>3. /\ overlapped' \in BOOLEAN /\ disturbed' \in BOOLEAN
      /\ ~overlapped' => ~overlapped /\ Busy(Owner[t]) = {}
      /\ ~disturbed' => ~disturbed /\ \A n \in Managers \ {Owner[t]} : ~Live(n)
    BY <1>1, <1>2, BeginApart
<1>4. QED
    BY <1>1, <1>2, <1>3, GenerateIInv
-----------------------------------------------------------------------------
(* A loaded entry is sound, and nothing else was under way.                 *)
LEMMA LoadedIInv == ASSUME IInv, NEW t \in Tasks, Loaded(t) PROVE IInv'
<1> DEFINE m == Owner[t]
<1> USE RotationAssumption DEF IInv, TypeOK
<1>1. /\ m \in Managers /\ job[t] = "load" /\ entry # Nothing
      /\ pairs' = [pairs EXCEPT ![m] = entry.pairs]
      /\ previous' = [previous EXCEPT ![m] = entry.previous]
      /\ current' = [current EXCEPT ![m] = entry.current]
      /\ pred' = [pred EXCEPT ![m] = NoKey]
      /\ ready' = [ready EXCEPT ![m] = TRUE]
      /\ job' = [job EXCEPT ![t] = "idle"]
      /\ UNCHANGED <<made, entry, overlapped, disturbed>>
    BY DEF Loaded, Load, LoadedPairs
<1>2. /\ stage' = [u \in Tasks |-> IF u \in Detached(m) THEN "sent" ELSE stage[u]]
      /\ payload' = [u \in Tasks |-> IF u \in Detached(m) THEN Frozen(u) ELSE payload[u]]
    BY DEF Loaded
<1>3. ASSUME NEW u \in Tasks PROVE Frozen(u) \in Content /\ Real(Frozen(u))
    BY DEF Frozen, Holds, Content, Real
<1>4. Real(entry) /\ entry.pairs \in SUBSET Keys /\ entry.previous \in SUBSET Keys
      /\ entry.current \in Keys \cup {NoKey}
    BY DEF Contents, Content
<1>5. TypeOK'
  <2>1. pairs' \in [Managers -> SUBSET Keys] /\ current' \in [Managers -> Keys \cup {NoKey}]
        /\ previous' \in [Managers -> SUBSET Keys]
        /\ pred' \in [Managers -> Keys \cup {NoKey}]
      BY <1>1, <1>4
  <2>2. payload' \in [Tasks -> Content] /\ stage' \in [Tasks -> {"none", "shared", "sent", "applied"}]
      BY <1>2, <1>3
  <2>3. \A n \in Managers : previous'[n] \subseteq pairs'[n] /\ pairs'[n] \subseteq 1..made'
      BY <1>1, <1>4 DEF Real
  <2>4. QED
      BY <1>1, <2>1, <2>2, <2>3
<1>6. Contents'
    BY <1>1, <1>2, <1>3, <1>4 DEF Contents, Real
<1>7. Shape'
    BY <1>1, <1>2 DEF Shape, Saving, Detached, Busy
<1>8. ASSUME ~overlapped
      PROVE  /\ OneCall /\ Fresh /\ Whole /\ Named /\ Preds
             /\ Sound(entry) /\ entry.current # NoKey
             /\ \A u \in Tasks : Owner[u] = m /\ u # t => job[u] = "idle"
             /\ stage' = stage /\ payload' = payload
  <2>1. OneCall /\ Fresh /\ Whole /\ Named /\ Preds
      BY <1>8 DEF Calm
  <2>2. Sound(entry)
      BY <1>1, <2>1 DEF Whole
  <2>3. entry.current # NoKey
      BY <1>4, <2>2, KeysAreNumbers DEF Sound
  <2>4. \A u \in Tasks : Owner[u] = m /\ u # t => job[u] = "idle"
      BY <1>1, <2>1 DEF OneCall
  <2>5. Detached(m) = {}
      BY <1>1, <2>4 DEF Detached, Busy, Shape, Saving
  <2>6. stage' = stage /\ payload' = payload
      BY <1>2, <2>5
  <2>7. QED
      BY <2>1, <2>2, <2>3, <2>4, <2>6
<1>9. Calm'
  <2> SUFFICES ASSUME ~overlapped PROVE (OneCall /\ Fresh /\ Whole /\ Named /\ Preds)'
      BY <1>1 DEF Calm
  <2>1. OneCall'
      BY <1>1, <1>8 DEF OneCall
  <2>2. Fresh'
    <3>1. \A n \in Managers \ {m} : Busy(n)' = Busy(n)
        BY <1>1 DEF Busy
    <3>2. QED
        BY <1>1, <1>8, <3>1 DEF Fresh
  <2>3. Whole'
    <3>1. Sound(Holds(m)')
        BY <1>1, <1>8 DEF Sound, Holds
    <3>2. \A n \in Managers \ {m} : Holds(n)' = Holds(n)
        BY <1>1 DEF Holds
    <3>3. QED
        BY <1>1, <1>8, <3>1, <3>2 DEF Whole
  <2>4. Named'
      BY <1>1, <1>8 DEF Named, Saving
  <2>5. Preds'
      BY <1>1, <1>8 DEF Preds
  <2>6. QED
      BY <2>1, <2>2, <2>3, <2>4, <2>5
<1>10. Lone'
  <2> SUFFICES ASSUME ~overlapped, ~disturbed PROVE (OneLife /\ Rest /\ Following)'
      BY <1>1 DEF Lone
  <2>1. OneLife /\ Rest /\ Following
      BY DEF Lone
  <2>2. \A n \in Managers \ {m} : Busy(n)' = Busy(n)
      BY <1>1 DEF Busy
  <2>3. Live(m)
      BY <1>1 DEF Live, Busy
  <2>4. OneLife' /\ Rest'
      BY <1>1, <2>1, <2>2, <2>3 DEF OneLife, Rest, Live
  <2>5. Following'
      BY <1>1, <1>8, <2>1 DEF Following, Shape, Saving
  <2>6. QED
      BY <2>4, <2>5
<1>11. QED
    BY <1>5, <1>6, <1>7, <1>9, <1>10

LEMMA NotLoadedIInv == ASSUME IInv, NEW t \in Tasks, NotLoaded(t) PROVE IInv'
<1> DEFINE m == Owner[t]
<1> USE RotationAssumption DEF IInv, TypeOK
<1>1. /\ m \in Managers /\ job[t] = "load" /\ stage[t] = "none"
      /\ disturbed' = (disturbed \/ entry # Nothing)
      /\ UNCHANGED <<entry, overlapped>>
    BY DEF NotLoaded, Shape, Saving
<1>2. overlapped' \in BOOLEAN /\ disturbed' \in BOOLEAN
    BY <1>1
<1>3. ASSUME ~overlapped PROVE Busy(m) \subseteq {t} /\ current[m] = NoKey
    BY <1>1, <1>3 DEF Calm, OneCall, Fresh, Busy
<1>4. ASSUME ~overlapped, ~disturbed PROVE \A n \in Managers \ {m} : ~Live(n)
    BY <1>1, <1>4 DEF Lone, OneLife, Live, Busy
<1>5. CASE current[m] = NoKey /\ Generate(t, "init") /\ UNCHANGED ready
  <2>1. ~disturbed' => ~disturbed /\ (~overlapped => \A n \in Managers \ {m} : ~Live(n))
      BY <1>1, <1>4
  <2>2. ~overlapped' => ~overlapped /\ Busy(m) \subseteq {t}
      BY <1>1, <1>3
  <2>3. QED
      BY <1>1, <1>2, <1>5, <2>1, <2>2, GenerateIInv
<1>6. CASE /\ current[m] # NoKey
           /\ ready' = [ready EXCEPT ![m] = TRUE]
           /\ Finish(t)
           /\ UNCHANGED <<made, pairs, previous, current, pred>>
  <2>1. /\ job' = [job EXCEPT ![t] = "idle"]
        /\ stage' = [stage EXCEPT ![t] = "none"]
        /\ payload' = [payload EXCEPT ![t] = Nothing]
      BY <1>6 DEF Finish
  <2>2. overlapped' /\ overlapped
      BY <1>1, <1>3, <1>6
  <2>3. TypeOK' /\ Contents' /\ Shape'
      BY <1>1, <1>2, <1>6, <2>1, KeysAreNumbers DEF Contents, Real, Shape, Saving, Nothing, Naming
  <2>4. QED
      BY <2>2, <2>3 DEF Calm, Lone
<1>7. QED
    BY <1>5, <1>6 DEF NotLoaded
-----------------------------------------------------------------------------
(* The step of a save: what is serialised is what the manager holds.        *)
LEMMA SendIInv == ASSUME IInv, NEW t \in Tasks, Send(t) PROVE IInv'
<1> DEFINE m == Owner[t]
<1> USE RotationAssumption DEF IInv, TypeOK
<1>1. /\ m \in Managers /\ stage[t] = "shared" /\ job[t] \in Saving
      /\ stage' = [stage EXCEPT ![t] = "sent"]
      /\ payload' = [payload EXCEPT ![t] = Frozen(t)]
      /\ UNCHANGED <<made, pairs, previous, current, ready, pred, job, entry,
                     overlapped, disturbed>>
    BY DEF Send, managerVars, Shape
<1>2. Frozen(t) = [pairs |-> pairs[m], previous |-> previous[m], current |-> payload[t].current]
    BY DEF Frozen, Holds
<1>3. Frozen(t) \in Content /\ Real(Frozen(t))
    BY <1>1, <1>2 DEF Content, Real
<1>4. TypeOK' /\ Contents' /\ Shape'
    BY <1>1, <1>3 DEF Contents, Real, Shape, Saving
<1>5. Calm'
  <2> SUFFICES ASSUME ~overlapped PROVE (OneCall /\ Fresh /\ Whole /\ Named /\ Preds)'
      BY <1>1 DEF Calm
  <2>1. OneCall /\ Fresh /\ Whole /\ Named /\ Preds
      BY DEF Calm
  <2>2. payload[t].current = current[m] /\ current[m] # NoKey
      BY <1>1, <2>1 DEF Named
  <2>3. Sound(Frozen(t))
      BY <1>1, <1>2, <2>1, <2>2 DEF Whole, Sound, Holds
  <2>4. OneCall' /\ Fresh' /\ Preds'
      BY <1>1, <2>1 DEF OneCall, Fresh, Preds, Busy
  <2>5. Whole'
      BY <1>1, <2>1, <2>3 DEF Whole, Holds
  <2>6. Named'
      BY <1>1, <1>2, <2>1 DEF Named
  <2>7. QED
      BY <2>4, <2>5, <2>6
<1>6. Lone'
    BY <1>1, <1>2 DEF Lone, OneLife, Rest, Following, Live, Busy
<1>7. QED
    BY <1>4, <1>5, <1>6

LEMMA ApplyIInv == ASSUME IInv, NEW t \in Tasks, Apply(t) PROVE IInv'
<1> DEFINE m == Owner[t]
<1> USE RotationAssumption DEF IInv, TypeOK
<1>1. /\ m \in Managers /\ stage[t] = "sent" /\ job[t] \in Saving
      /\ entry' = payload[t]
      /\ stage' = [stage EXCEPT ![t] = "applied"]
      /\ UNCHANGED <<made, pairs, previous, current, ready, pred, job, payload,
                     overlapped, disturbed>>
    BY DEF Apply, managerVars, Shape
<1>2. TypeOK' /\ Contents' /\ Shape'
    BY <1>1 DEF Contents, Real, Shape, Saving
<1>3. Calm'
  <2> SUFFICES ASSUME ~overlapped PROVE (OneCall /\ Fresh /\ Whole /\ Named /\ Preds)'
      BY <1>1 DEF Calm
  <2>1. OneCall /\ Fresh /\ Whole /\ Named /\ Preds
      BY DEF Calm
  <2>2. OneCall' /\ Fresh' /\ Preds' /\ Named'
      BY <1>1, <2>1 DEF OneCall, Fresh, Preds, Named, Busy
  <2>3. Whole'
      BY <1>1, <2>1 DEF Whole, Holds
  <2>4. QED
      BY <2>2, <2>3
<1>4. Lone'
  <2> SUFFICES ASSUME ~overlapped, ~disturbed PROVE (OneLife /\ Rest /\ Following)'
      BY <1>1 DEF Lone
  <2>1. OneLife /\ Rest /\ Following /\ OneCall
      BY DEF Lone, Calm
  <2>2. t \in Busy(m)
      BY <1>1 DEF Busy, Saving
  <2>3. \A n \in Managers : ready[n] => ~(Busy(n) = {})
      BY <2>1, <2>2 DEF OneLife, Live
  <2>4. \A u \in Tasks : job[u] # "idle" => u = t
      BY <1>1, <2>1, <2>2 DEF OneLife, OneCall, Live, Busy, Saving
  <2>5. OneLife' /\ Rest'
      BY <1>1, <2>1, <2>3 DEF OneLife, Rest, Live, Busy
  <2>6. Following'
      BY <1>1, <2>1, <2>4 DEF Following, Shape, Saving
  <2>7. QED
      BY <2>5, <2>6
<1>5. QED
    BY <1>2, <1>3, <1>4

(* A call ends without another save: the manager is at rest.  If its save   *)
(* was applied, the entry was written from the keys it still holds.         *)
LEMMA EndIInv ==
    ASSUME IInv, NEW t \in Tasks, NEW m \in Managers, m = Owner[t], job[t] \in Saving,
           SaveEnds(t), Finish(t), UNCHANGED <<pairs, current, pred>>,
           previous' \in [Managers -> SUBSET Keys],
           \A n \in Managers : previous'[n] \subseteq pairs[n],
           ready' \in [Managers -> BOOLEAN], \A n \in Managers \ {m} : ready'[n] = ready[n],
           ready'[m]
    PROVE  IInv'
<1> USE RotationAssumption DEF IInv, TypeOK
<1>1. /\ job' = [job EXCEPT ![t] = "idle"]
      /\ stage' = [stage EXCEPT ![t] = "none"]
      /\ payload' = [payload EXCEPT ![t] = Nothing]
      /\ disturbed' = (disturbed \/ stage[t] # "applied")
      /\ UNCHANGED <<made, entry, overlapped>>
    BY DEF SaveEnds, Finish
<1>2. TypeOK' /\ Contents' /\ Shape'
    BY <1>1, KeysAreNumbers DEF Contents, Real, Shape, Saving, Nothing, Naming
<1>3. \A n \in Managers \ {m} : Busy(n)' = Busy(n)
    BY <1>1 DEF Busy
<1>4. Calm'
  <2> SUFFICES ASSUME ~overlapped PROVE (OneCall /\ Fresh /\ Whole /\ Named /\ Preds)'
      BY <1>1 DEF Calm
  <2>1. OneCall /\ Fresh /\ Whole /\ Named /\ Preds
      BY DEF Calm
  <2>2. OneCall' /\ Preds' /\ Named'
      BY <1>1, <2>1 DEF OneCall, Preds, Named, Saving
  <2>3. Fresh'
    <3>1. \A u \in Tasks : job'[u] = "load" => Owner[u] # m
        BY <1>1, <2>1 DEF OneCall, Saving
    <3>2. QED
        BY <1>1, <1>3, <2>1, <3>1 DEF Fresh
  <2>4. Whole'
    <3>1. Sound(Holds(m))
        BY <2>1 DEF Whole, Named
    <3>2. \A n \in Managers : Sound(Holds(n)) => Sound(Holds(n)')
        BY DEF Sound, Holds
    <3>3. QED
        BY <1>1, <2>1, <3>1, <3>2 DEF Whole
  <2>5. QED
      BY <2>2, <2>3, <2>4
<1>5. Lone'
  <2> SUFFICES ASSUME ~overlapped, ~disturbed' PROVE (OneLife /\ Rest /\ Following)'
      BY <1>1 DEF Lone
  <2>1. OneLife /\ Rest /\ Following /\ Named /\ stage[t] = "applied"
      BY <1>1 DEF Lone, Calm
  <2>2. t \in Busy(m)
      BY DEF Busy, Saving
  <2>3. OneLife'
      BY <1>3, <2>1, <2>2 DEF OneLife, Live
  <2>4. entry.pairs = pairs[m] /\ entry.current = current[m]
      BY <2>1 DEF Following, Named
  <2>5. Rest'
      BY <1>1, <1>3, <2>1, <2>4 DEF Rest
  <2>6. Following'
      BY <1>1, <2>1 DEF Following
  <2>7. QED
      BY <2>3, <2>5, <2>6
<1>6. QED
    BY <1>2, <1>4, <1>5

LEMMA InitSavedIInv == ASSUME IInv, NEW t \in Tasks, InitSaved(t) PROVE IInv'
<1> DEFINE m == Owner[t]
<1>1. m \in Managers /\ ready \in [Managers -> BOOLEAN] /\ previous \in [Managers -> SUBSET Keys]
      /\ \A n \in Managers : previous[n] \subseteq pairs[n]
    BY RotationAssumption DEF IInv, TypeOK
<1>2. /\ job[t] \in Saving /\ SaveEnds(t) /\ Finish(t)
      /\ UNCHANGED <<pairs, previous, current, pred>>
      /\ ready' = [ready EXCEPT ![m] = TRUE]
    BY DEF InitSaved, Saving
<1>3. QED
    BY <1>1, <1>2, EndIInv

LEMMA CleanupSavedIInv == ASSUME IInv, NEW t \in Tasks, CleanupSaved(t) PROVE IInv'
<1> DEFINE m == Owner[t]
<1>1. /\ m \in Managers /\ ready \in [Managers -> BOOLEAN]
      /\ previous \in [Managers -> SUBSET Keys]
      /\ \A n \in Managers : previous[n] \subseteq pairs[n]
    BY RotationAssumption DEF IInv, TypeOK
<1>2. /\ job[t] = "cleanup" /\ job[t] \in Saving /\ SaveEnds(t) /\ Finish(t)
      /\ UNCHANGED <<pairs, previous, current, ready, pred>>
    BY DEF CleanupSaved, Saving, managerVars
<1>3. ready[m]
    BY <1>2 DEF IInv, Shape
<1>4. QED
    BY <1>1, <1>2, <1>3, EndIInv

(* rotate_keys drops keys from the manager only, and neither the current    *)
(* one nor its predecessor; with two keys it drops none.                    *)
LEMMA RotateSavedIInv == ASSUME IInv, NEW t \in Tasks, RotateSaved(t) PROVE IInv'
<1> DEFINE m == Owner[t]
<1> USE RotationAssumption DEF IInv, TypeOK
<1>1. /\ m \in Managers /\ job[t] = "rotate" /\ job[t] \in Saving /\ ready[m]
      /\ SaveEnds(t)
      /\ pairs' = [pairs EXCEPT ![m] = Kept(m)]
      /\ previous' = [previous EXCEPT ![m] = Marked(m, payload[t].current)]
      /\ UNCHANGED <<current, ready, pred>>
    BY DEF RotateSaved, Saving, Shape
<1>2. /\ Kept(m) \subseteq pairs[m] /\ Kept(m) \in SUBSET Keys
      /\ Marked(m, payload[t].current) \subseteq Kept(m)
    BY <1>1 DEF Kept, Newest, Marked
<1>3. /\ disturbed' = (disturbed \/ stage[t] # "applied")
      /\ UNCHANGED <<made, entry, overlapped>>
    BY <1>1 DEF SaveEnds
<1>4. CASE Cardinality(pairs[m]) <= 2 /\ Finish(t)
  <2>1. Kept(m) = pairs[m]
      BY <1>1, <1>4, NewestKeepsTwo DEF Kept
  <2>2. pairs' = pairs
      BY <1>1, <2>1
  <2>3. /\ previous' \in [Managers -> SUBSET Keys]
        /\ \A n \in Managers : previous'[n] \subseteq pairs[n]
      BY <1>1, <1>2, <2>1
  <2>4. QED
      BY <1>1, <1>4, <2>2, <2>3, EndIInv
<1>5. CASE SaveCall(t, "cleanup", current[m])
  <2>1. /\ job' = [job EXCEPT ![t] = "cleanup"]
        /\ stage' = [stage EXCEPT ![t] = "shared"]
        /\ payload' = [payload EXCEPT ![t] = Naming(current[m])]
      BY <1>5 DEF SaveCall
  <2>2. Naming(current[m]) \in Content /\ Real(Naming(current[m])) /\ Naming(current[m]).current = current[m]
      BY <1>1 DEF Naming, Content, Real
  <2>3. TypeOK'
    <3>1. pairs' \in [Managers -> SUBSET Keys] /\ previous' \in [Managers -> SUBSET Keys]
        BY <1>1, <1>2
    <3>2. /\ job' \in [Tasks -> {"idle", "load"} \cup Saving]
          /\ stage' \in [Tasks -> {"none", "shared", "sent", "applied"}]
          /\ payload' \in [Tasks -> Content]
        BY <2>1, <2>2 DEF Saving
    <3>3. \A n \in Managers : previous'[n] \subseteq pairs'[n] /\ pairs'[n] \subseteq 1..made'
        BY <1>1, <1>2, <1>3
    <3>4. QED
        BY <1>1, <1>3, <3>1, <3>2, <3>3
  <2>4. Contents' /\ Shape'
      BY <1>1, <1>3, <2>1, <2>2 DEF Contents, Real, Shape, Saving
  <2>5. \A n \in Managers : Busy(n)' = Busy(n)
      BY <1>1, <2>1 DEF Busy
  <2>6. Calm'
    <3> SUFFICES ASSUME ~overlapped PROVE (OneCall /\ Fresh /\ Whole /\ Named /\ Preds)'
        BY <1>3 DEF Calm
    <3>1. OneCall /\ Fresh /\ Whole /\ Named /\ Preds
        BY DEF Calm
    <3>2. OneCall' /\ Fresh'
        BY <1>1, <2>1, <2>5, <3>1 DEF OneCall, Fresh
    <3>3. Sound(Holds(m)')
        BY <1>1, <1>2, <3>1 DEF Whole, Sound, Holds, Named, Kept
    <3>4. \A n \in Managers \ {m} : Holds(n)' = Holds(n)
        BY <1>1 DEF Holds
    <3>5. Whole'
        BY <1>1, <1>3, <2>1, <3>1, <3>3, <3>4 DEF Whole
    <3>6. Named'
        BY <1>1, <2>1, <2>2, <3>1 DEF Named, Saving
    <3>7. ASSUME pred[m] # NoKey PROVE pred[m] \in Kept(m)
        BY <1>1, <3>1, <3>7, NewestKeepsTopTwo DEF Preds, Kept
    <3>8. Preds'
        BY <1>1, <1>2, <3>1, <3>7 DEF Preds
    <3>9. QED
        BY <3>2, <3>5, <3>6, <3>8
  <2>7. Lone'
    <3> SUFFICES ASSUME ~overlapped, ~disturbed' PROVE (OneLife /\ Rest /\ Following)'
        BY <1>3 DEF Lone
    <3>1. OneLife /\ Rest /\ Following /\ OneCall
        BY <1>3 DEF Lone, Calm
    <3>2. t \in Busy(m)
        BY <1>1 DEF Busy
    <3>3. OneLife' /\ Rest'
        BY <1>1, <1>3, <2>5, <3>1, <3>2 DEF OneLife, Rest, Live
    <3>4. \A u \in Tasks \ {t} : stage[u] # "none" => Owner[u] # m
        BY <1>1, <3>1 DEF OneCall, Shape, Saving
    <3>5. Following'
        BY <1>1, <1>3, <2>1, <3>1, <3>4 DEF Following
    <3>6. QED
        BY <3>3, <3>5
  <2>8. QED
      BY <2>3, <2>4, <2>6, <2>7
<1>6. QED
    BY <1>4, <1>5 DEF RotateSaved
-----------------------------------------------------------------------------
(* A restart forgets one manager and its calls; the entry stays.            *)
LEMMA RestartIInv == ASSUME IInv, NEW m \in Managers, Restart(m) PROVE IInv'
<1> USE RotationAssumption DEF IInv, TypeOK
<1>1. /\ pairs' = [pairs EXCEPT ![m] = {}]
      /\ previous' = [previous EXCEPT ![m] = {}]
      /\ current' = [current EXCEPT ![m] = NoKey]
      /\ ready' = [ready EXCEPT ![m] = FALSE]
      /\ pred' = [pred EXCEPT ![m] = NoKey]
      /\ job' = [t \in Tasks |-> IF t \in Busy(m) THEN "idle" ELSE job[t]]
      /\ stage' = [t \in Tasks |-> IF t \in Busy(m) THEN "none" ELSE stage[t]]
      /\ payload' = [t \in Tasks |-> IF t \in Busy(m) THEN Nothing ELSE payload[t]]
      /\ disturbed' = (disturbed \/ Busy(m) # {})
      /\ UNCHANGED <<made, entry, overlapped>>
    BY DEF Restart
<1>2. TypeOK'
    BY <1>1, KeysAreNumbers
<1>3. Contents'
    BY <1>1 DEF Contents, Real, Nothing, Naming
<1>4. ASSUME NEW t \in Tasks
      PROVE  IF Owner[t] = m THEN job'[t] = "idle" /\ stage'[t] = "none"
             ELSE job'[t] = job[t] /\ stage'[t] = stage[t] /\ payload'[t] = payload[t]
    BY <1>1 DEF Busy, Shape, Saving
<1>5. Busy(m)' = {} /\ \A n \in Managers \ {m} : Busy(n)' = Busy(n)
    BY <1>4 DEF Busy
<1>6. Calm'
  <2> SUFFICES ASSUME ~overlapped PROVE (OneCall /\ Fresh /\ Whole /\ Named /\ Preds)'
      BY <1>1 DEF Calm
  <2>1. OneCall /\ Fresh /\ Whole /\ Named /\ Preds
      BY DEF Calm
  <2>2. OneCall' /\ Fresh'
      BY <1>1, <1>4, <1>5, <2>1 DEF OneCall, Fresh
  <2>3. \A n \in Managers \ {m} : Holds(n)' = Holds(n)
      BY <1>1 DEF Holds
  <2>4. Whole'
      BY <1>1, <1>4, <2>1, <2>3 DEF Whole
  <2>5. Named' /\ Preds'
      BY <1>1, <1>4, <2>1 DEF Named, Preds, Saving
  <2>6. QED
      BY <2>2, <2>4, <2>5
<1>7. Lone'
  <2> SUFFICES ASSUME ~overlapped, ~disturbed' PROVE (OneLife /\ Rest /\ Following)'
      BY <1>1 DEF Lone
  <2>1. OneLife /\ Rest /\ Following
      BY <1>1 DEF Lone
  <2>2. OneLife' /\ Rest'
      BY <1>1, <1>5, <2>1 DEF OneLife, Rest, Live
  <2>3. Following'
      BY <1>1, <1>4, <2>1 DEF Following
  <2>4. QED
      BY <2>2, <2>3
<1>8. Shape'
    BY <1>1, <1>4 DEF Shape, Saving
<1>9. QED
    BY <1>2, <1>3, <1>6, <1>7, <1>8

LEMMA ExpireIInv == ASSUME IInv, Expire PROVE IInv'
<1> USE RotationAssumption DEF IInv, TypeOK
<1>1. /\ entry' = Nothing /\ disturbed'
      /\ UNCHANGED <<made, pairs, previous, current, ready, pred, job, stage, payload,
                     overlapped>>
    BY DEF Expire, managerVars, taskVars
<1>2. disturbed' \in BOOLEAN
    BY DEF Expire
<1>3. TypeOK'
    BY <1>1, <1>2, KeysAreNumbers
<1>4. Contents'
    BY <1>1 DEF Contents, Real, Nothing, Naming
<1>5. Shape' /\ Calm' /\ Lone'
    BY <1>1 DEF Shape, Calm, OneCall, Fresh, Whole, Holds, Named, Preds, Busy, Lone
<1>6. QED
    BY <1>3, <1>4, <1>5

LEMMA StutterIInv == ASSUME IInv, UNCHANGED vars PROVE IInv'
    BY DEF vars, managerVars, taskVars, IInv, TypeOK, Contents, Real, Shape, Calm, OneCall,
           Fresh, Whole, Holds, Named, Preds, Busy, Lone, OneLife, Rest, Following, Live

LEMMA NextIInv == IInv /\ [Next]_vars => IInv'
<1> SUFFICES ASSUME IInv, [Next]_vars PROVE IInv'
    OBVIOUS
<1>1. ASSUME NEW t \in Tasks,
             \/ InitCall(t) \/ Loaded(t) \/ NotLoaded(t) \/ RotateCall(t)
             \/ Send(t) \/ Apply(t)
             \/ InitSaved(t) \/ RotateSaved(t) \/ CleanupSaved(t)
      PROVE  IInv'
    BY <1>1, InitCallIInv, LoadedIInv, NotLoadedIInv, RotateCallIInv, SendIInv, ApplyIInv,
       InitSavedIInv, RotateSavedIInv, CleanupSavedIInv
<1>2. QED
    BY <1>1, RestartIInv, ExpireIInv, StutterIInv DEF Next

LEMMA Invariance == Spec => []IInv
    BY InitIInv, NextIInv, PTL DEF Spec
-----------------------------------------------------------------------------
(* The state of key rotation keeps its shape; rotate_keys never looks up    *)
(* metadata that is missing.                                                *)
THEOREM TypeCorrect == Spec => []TypeOK
<1>1. IInv => TypeOK
    BY DEF IInv
<1>2. QED
    BY <1>1, Invariance, PTL

(* For every number of processes, tasks and keys: a manager that is ready   *)
(* holds its current key unless calls overlapped on one manager.            *)
THEOREM ReadySigns == Spec => []ReadyCanSign
<1>1. IInv => ReadyCanSign
    BY DEF IInv, ReadyCanSign, Calm, Whole, Sound, Holds
<1>2. QED
    BY <1>1, Invariance, PTL

(* ... and the key current before the last rotation is still held.          *)
THEOREM RotationKeepsPredecessor == Spec => []PredecessorKept
<1>1. IInv => PredecessorKept
    BY DEF IInv, PredecessorKept, Calm, Preds
<1>2. QED
    BY <1>1, Invariance, PTL

(* While one manager lives at a time and nothing fails, a restart finds     *)
(* the keys the manager held.                                               *)
THEOREM RestartFindsKeys == Spec => []RestartKeepsKeys
<1>1. IInv => RestartKeepsKeys
    BY DEF IInv, RestartKeepsKeys, Lone, Rest
<1>2. QED
    BY <1>1, Invariance, PTL
-----------------------------------------------------------------------------
(* A manager has the last key or none, and so has the entry once the save   *)
(* that brings it is applied.                                               *)
Bringing(t) == job[t] \in {"init", "rotate"} /\ stage[t] # "applied"
Latest ==
    ~overlapped /\ ~disturbed =>
      /\ \A m \in Managers : current[m] \in {NoKey, made}
      /\ entry = Nothing \/ entry.current = made \/ \E t \in Tasks : Bringing(t)

(* A new key is the last one, and nobody else alive has an older.           *)
LEMMA GenerateLatest ==
    ASSUME IInv, Latest, NEW t \in Tasks, NEW m \in Managers, m = Owner[t],
           NEW what \in {"init", "rotate"}, Generate(t, what),
           ~overlapped, ~disturbed, \A n \in Managers \ {m} : ~Live(n)
    PROVE  Latest'
<1> USE RotationAssumption DEF IInv, TypeOK
<1>1. \A n \in Managers \ {m} : current[n] = NoKey
    BY DEF Calm, Fresh, Live
<1>2. current' = [current EXCEPT ![m] = made + 1] /\ made' = made + 1
    BY DEF Generate
<1>3. job'[t] = what /\ stage'[t] = "shared"
    BY DEF Generate, SaveCall
<1>4. Bringing(t)'
    BY <1>3 DEF Bringing
<1>5. QED
    BY <1>1, <1>2, <1>4 DEF Latest

(* What is saved is the current key; an applied save has brought it.        *)
LEMMA SavedLatest ==
    ASSUME IInv, Latest, ~overlapped, ~disturbed, NEW t \in Tasks, job[t] \in Saving
    PROVE  /\ payload[t].current = made
           /\ stage[t] = "applied" => entry.current = made
           /\ \A u \in Tasks : job[u] # "idle" => u = t
<1> USE RotationAssumption DEF IInv
<1>1. payload[t].current = current[Owner[t]] /\ current[Owner[t]] # NoKey
    BY DEF Calm, Named
<1>2. payload[t].current = made
    BY <1>1 DEF Latest
<1>3. stage[t] = "applied" => entry.current = made
    BY <1>2 DEF Lone, Following
<1>4. \A u \in Tasks : job[u] # "idle" => u = t
    BY DEF Lone, OneLife, Calm, OneCall, Live, Busy, Saving
<1>5. QED
    BY <1>2, <1>3, <1>4

LEMMA LatestStep == IInv /\ Latest /\ [Next]_vars => Latest'
<1> SUFFICES ASSUME IInv, Latest, [Next]_vars, ~overlapped', ~disturbed' PROVE Latest'
    BY DEF Latest
<1>1. ~overlapped /\ ~disturbed
  <2> USE DEF Next, vars, InitCall, Begin, Loaded, NotLoaded, RotateCall, Send, Apply,
              InitSaved, RotateSaved, CleanupSaved, SaveEnds, Restart, Expire
  <2>1. ~overlapped
      OBVIOUS
  <2>2. ~disturbed
      OBVIOUS
  <2>3. QED
      BY <2>1, <2>2
<1>a. /\ \A m \in Managers : current[m] \in {NoKey, made}
      /\ entry = Nothing \/ entry.current = made \/ \E t \in Tasks : Bringing(t)
    BY <1>1 DEF Latest
<1> USE RotationAssumption
<1>t. TypeOK
    BY DEF IInv
<1>2. ASSUME NEW t \in Tasks, InitCall(t) PROVE Latest'
  <2>1. \A u \in Tasks : Bringing(u) => Bringing(u)'
      BY <1>2, <1>t DEF InitCall, Bringing, TypeOK
  <2>2. UNCHANGED <<current, made, entry>>
      BY <1>2 DEF InitCall, managerVars
  <2>3. QED
      BY <1>a, <2>1, <2>2 DEF Latest
<1>3. ASSUME NEW t \in Tasks, Loaded(t) PROVE Latest'
  <2>1. job[t] = "load" /\ entry # Nothing
      BY <1>3 DEF Loaded
  <2>2. \A u \in Tasks : job[u] # "idle" => u = t
      BY <1>1, <2>1 DEF IInv, Lone, OneLife, Calm, OneCall, Live, Busy
  <2>3. entry.current = made
      BY <1>a, <2>1, <2>2 DEF Bringing
  <2>4. current' = [current EXCEPT ![Owner[t]] = entry.current] /\ UNCHANGED <<made, entry>>
      BY <1>3 DEF Loaded, Load
  <2>5. QED
      BY <1>a, <1>t, <2>3, <2>4 DEF Latest, TypeOK
<1>4. ASSUME NEW t \in Tasks, NotLoaded(t) PROVE Latest'
  <2>1. job[t] = "load" /\ entry = Nothing /\ UNCHANGED entry
      BY <1>4 DEF NotLoaded
  <2>2. current[Owner[t]] = NoKey
      BY <1>1, <2>1 DEF IInv, Calm, Fresh
  <2>3. Generate(t, "init")
      BY <1>4, <2>2 DEF NotLoaded
  <2>4. \A n \in Managers \ {Owner[t]} : ~Live(n)
      BY <1>1, <2>1 DEF IInv, Lone, OneLife, Live, Busy
  <2>5. QED
      BY <1>1, <2>3, <2>4, GenerateLatest
<1>5. ASSUME NEW t \in Tasks, RotateCall(t) PROVE Latest'
  <2>1. Generate(t, "rotate") /\ ready[Owner[t]]
      BY <1>5 DEF RotateCall
  <2>2. \A n \in Managers \ {Owner[t]} : ~Live(n)
      BY <1>1, <2>1 DEF IInv, Lone, OneLife, Live
  <2>3. QED
      BY <1>1, <2>1, <2>2, GenerateLatest
<1>6. ASSUME NEW t \in Tasks, Send(t) PROVE Latest'
  <2>1. /\ stage' = [stage EXCEPT ![t] = "sent"]
        /\ UNCHANGED <<current, made, entry, job>>
      BY <1>6 DEF Send, managerVars
  <2>2. \A u \in Tasks : Bringing(u) => Bringing(u)'
      BY <1>t, <2>1 DEF Bringing, TypeOK
  <2>3. QED
      BY <1>a, <2>1, <2>2 DEF Latest
<1>7. ASSUME NEW t \in Tasks, Apply(t) PROVE Latest'
  <2>1. entry' = payload[t] /\ UNCHANGED <<current, made>> /\ job[t] \in Saving
      BY <1>7 DEF Apply, managerVars, IInv, Shape
  <2>2. payload[t].current = made
      BY <1>1, <2>1, SavedLatest
  <2>3. QED
      BY <1>a, <2>1, <2>2 DEF Latest
<1>8. ASSUME NEW t \in Tasks, InitSaved(t) \/ RotateSaved(t) \/ CleanupSaved(t) PROVE Latest'
  <2>1. job[t] \in Saving /\ SaveEnds(t) /\ UNCHANGED current
      BY <1>8 DEF InitSaved, RotateSaved, CleanupSaved, Saving, managerVars
  <2>2. stage[t] = "applied" /\ UNCHANGED <<made, entry>>
      BY <2>1 DEF SaveEnds
  <2>3. entry.current = made
      BY <1>1, <2>1, <2>2, SavedLatest
  <2>4. QED
      BY <1>a, <2>1, <2>2, <2>3 DEF Latest
<1>9. ASSUME NEW m \in Managers, Restart(m) PROVE Latest'
  <2>1. Busy(m) = {} /\ UNCHANGED <<made, entry>> /\ current' = [current EXCEPT ![m] = NoKey]
      BY <1>9 DEF Restart
  <2>2. \A u \in Tasks : job'[u] = job[u] /\ stage'[u] = stage[u]
      BY <1>9, <2>1 DEF Restart
  <2>3. \A u \in Tasks : Bringing(u) => Bringing(u)'
      BY <2>2 DEF Bringing
  <2>4. QED
      BY <1>a, <1>t, <2>1, <2>3 DEF Latest, TypeOK
<1>10. CASE Expire
    BY <1>10 DEF Expire
<1>11. CASE UNCHANGED vars
    BY <1>11, <1>a DEF vars, managerVars, taskVars, Latest, Bringing
<1>12. QED
    BY <1>2, <1>3, <1>4, <1>5, <1>6, <1>7, <1>8, <1>9, <1>10, <1>11 DEF Next

(* While one manager lives at a time and nothing fails, a manager signs     *)
(* with the last key there is, through every rotation and restart.          *)
THEOREM SigningKeyIsNewest == Spec => []NewestIsCurrent
<1>1. Init => Latest
    BY DEF Init, Latest, NoKey
<1>2. IInv /\ Latest => NewestIsCurrent
  <2> SUFFICES ASSUME IInv, Latest, ~overlapped, ~disturbed, NEW m \in Managers, ready[m]
               PROVE  current[m] = made
      BY DEF NewestIsCurrent
  <2>1. Sound(Holds(m)) /\ TypeOK
      BY DEF IInv, Calm, Whole
  <2>2. current[m] # NoKey
      BY <2>1, KeysAreNumbers DEF Sound, Holds, TypeOK
  <2>3. QED
      BY <2>2 DEF Latest
<1>3. QED
    BY <1>1, <1>2, LatestStep, Invariance, PTL DEF Spec

(* What the processes hand each other is sound: an entry of the shared cache *)
(* holds the pair of the key it names as current, so a manager that loads it *)
(* can sign, after crashes, failed saves and expiry too; only calls that     *)
(* overlap on one manager may store a name without its pair.                 *)
THEOREM EntryCanSign ==
    Spec => [](~overlapped /\ entry # Nothing => entry.current \in entry.pairs)
<1>1. IInv => (~overlapped /\ entry # Nothing => entry.current \in entry.pairs)
    BY DEF IInv, Calm, Whole, Sound
<1>2. QED
    BY <1>1, Invariance, PTL
=============================================================================
