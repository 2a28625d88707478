------------------------- MODULE RateLimiter_proofs -------------------------
(***************************************************************************)
(* Safety of the rate limiter for any requests, limit and window.  Refusals *)
(* rest on what the entry can list (Charged); the limit rests on what a     *)
(* check that runs alone knows between its reads and its write (Serial).    *)
(***************************************************************************)
EXTENDS RateLimiter, FiniteSetTheorems, TLAPS

(* The entry, and every window about to be written, lists only requests     *)
(* that were let through, and the writer itself.                            *)
Charged ==
    /\ window \subseteq At(Passed)
    /\ \A r \in Requests : pc[r] = "write" => copy[r] \subseteq At(Passed) \cup {r}

(* A check that began did so no later than now.                             *)
Begins == \A r \in Requests : started[r] <= now

(* What holds while every check ran alone: the entry lists each recent      *)
(* request and outlives it, and a check about to write saw them all.        *)
Alone ==
    /\ \A q, r \in At(Waiting) : q = r
    /\ At({"passed", "cancelled"}) = {}
Kept ==
    /\ Recent \subseteq window
    /\ \A q \in window : started[q] + Window <= expiry
Room == \A r \in At({"reread", "write"}) : Cardinality(Recent) < MaxRequests
Seen == \A r \in At({"write"}) : Recent \cup {r} \subseteq copy[r]

Serial == ~raced => Alone /\ Kept /\ Room /\ Seen /\ Cardinality(Recent) <= MaxRequests

IInv == TypeOK /\ Charged /\ Begins /\ Serial

-----------------------------------------------------------------------------
(* Sets of requests are finite, and counting them respects inclusion.       *)
LEMMA CountingRequests ==
    ASSUME NEW S \in SUBSET Requests, NEW T \in SUBSET S
    PROVE  /\ IsFiniteSet(S)
           /\ Cardinality(S) \in Nat
           /\ Cardinality(T) \in Nat
           /\ Cardinality(T) <= Cardinality(S)
<1>1. IsFiniteSet(S)
    BY LimiterAssumption, FS_Subset
<1>2. IsFiniteSet(T) /\ Cardinality(T) <= Cardinality(S)
    BY <1>1, FS_Subset
<1>3. QED
    BY <1>1, <1>2, FS_CardinalityType

LEMMA RecentIsSet == Recent \in SUBSET Requests
    BY DEF Recent, At

LEMMA InitIInv == Init => IInv
<1> SUFFICES ASSUME Init PROVE IInv
    OBVIOUS
<1> USE LimiterAssumption DEF Init
<1>1. TypeOK
    BY DEF TypeOK, Places
<1>2. Charged /\ Begins
    BY DEF Charged, Begins, At
<1>3. Recent = {} /\ At(Waiting) = {} /\ At({"reread", "write"}) = {}
    BY DEF Recent, At, Waiting
<1>4. Cardinality(Recent) = 0
    BY <1>3, FS_EmptySet
<1>5. Alone /\ Kept /\ Room /\ Seen
    BY <1>3 DEF Alone, Kept, Room, Seen, At, Waiting
<1>6. QED
    BY <1>1, <1>4, <1>5, <1>2 DEF IInv, Serial

(* Beginning a check alone disturbs nothing that others know.               *)
LEMMA StartIInv == ASSUME IInv, NEW r \in Requests, Start(r) PROVE IInv'
<1> USE LimiterAssumption DEF IInv, TypeOK
<1>1. /\ pc[r] = "idle"
      /\ pc' = [pc EXCEPT ![r] = "count"]
      /\ started' = [started EXCEPT ![r] = now]
      /\ UNCHANGED <<now, copy, window, expiry>>
      /\ raced' = (raced \/ At(Waiting) # {})
    BY DEF Start, Begun
<1>2. TypeOK'
    BY <1>1 DEF Places, Waiting
<1>3. r \notin At(Passed) /\ At(Passed)' = At(Passed) /\ At({"allowed"})' = At({"allowed"})
    BY <1>1 DEF At, Passed
<1>4. Charged' /\ Begins'
    BY <1>1, <1>3 DEF Charged, Begins
<1>5. ASSUME ~raced' PROVE (Alone /\ Kept /\ Room /\ Seen /\ Cardinality(Recent) <= MaxRequests)'
  <2>1. ~raced /\ At(Waiting) = {}
      BY <1>1, <1>5
  <2>2. Alone /\ Kept /\ Cardinality(Recent) <= MaxRequests
      BY <2>1 DEF Serial
  <2>3. Recent' = Recent
      BY <1>1, <1>3 DEF Recent, At
  <2>4. Alone'
      BY <1>1, <2>1, <2>2 DEF Alone, At, Waiting
  <2>5. Kept'
      BY <1>1, <1>3, <2>2, <2>3 DEF Kept, Charged
  <2>6. At({"reread", "write"})' = {} /\ At({"write"})' = {}
      BY <1>1, <2>1 DEF At, Waiting
  <2>7. QED
      BY <2>2, <2>3, <2>4, <2>5, <2>6 DEF Room, Seen
<1>6. QED
    BY <1>2, <1>4, <1>5 DEF Serial

(* While checks ran alone, the live entry holds every recent request.       *)
LEMMA RecentLive == ASSUME IInv, ~raced PROVE Recent \subseteq Live
<1> USE LimiterAssumption DEF IInv, TypeOK
<1>1. Kept
    BY DEF Serial
<1>2. ASSUME NEW q \in Recent PROVE q \in Live
  <2>1. q \in Requests /\ q \in window /\ started[q] > now - Window
      BY <1>1, <1>2 DEF Kept, Recent, At
  <2>2. started[q] + Window <= expiry
      BY <1>1, <2>1 DEF Kept
  <2>3. now < expiry
      BY <2>1, <2>2
  <2>4. QED
      BY <2>1, <2>3 DEF Live
<1>3. QED
    BY <1>2

(* ... and so does any part of it trimmed to the window of a check.         *)
LEMMA RecentSince ==
    ASSUME IInv, ~raced, NEW r \in Requests
    PROVE  Recent \subseteq Since(Live, started[r] - Window)
<1> USE LimiterAssumption DEF IInv, TypeOK
<1>1. ASSUME NEW q \in Recent PROVE started[q] >= started[r] - Window
  <2>1. q \in Requests /\ started[q] > now - Window /\ started[r] <= now
      BY <1>1 DEF Recent, At, Begins
  <2>2. QED
      BY <2>1
<1>2. QED
    BY <1>1, RecentLive DEF Since

LEMMA CountIInv == ASSUME IInv, NEW r \in Requests, Count(r) PROVE IInv'
<1> USE LimiterAssumption DEF IInv, TypeOK
<1>1. /\ pc[r] = "count"
      /\ pc' = [pc EXCEPT ![r] = IF UnderLimit(r) THEN "reread" ELSE "denied"]
      /\ UNCHANGED <<now, started, copy, window, expiry, raced>>
    BY DEF Count
<1>2. TypeOK'
    BY <1>1 DEF Places, Waiting
<1>3. /\ At(Passed)' = At(Passed)
      /\ At({"allowed"})' = At({"allowed"})
      /\ At({"write"})' = At({"write"})
      /\ At({"passed", "cancelled"})' = At({"passed", "cancelled"})
      /\ At(Waiting)' \subseteq At(Waiting)
    BY <1>1 DEF At, Passed, Waiting
<1>4. Charged' /\ Begins'
    BY <1>1, <1>3 DEF Charged, Begins
<1>5. ASSUME ~raced' PROVE (Alone /\ Kept /\ Room /\ Seen /\ Cardinality(Recent) <= MaxRequests)'
  <2>1. ~raced /\ Alone /\ Kept /\ Seen /\ Cardinality(Recent) <= MaxRequests
      BY <1>1, <1>5 DEF Serial
  <2>2. Recent' = Recent
      BY <1>1, <1>3 DEF Recent
  <2>3. Alone' /\ Kept' /\ Seen'
      BY <1>1, <1>3, <2>1, <2>2 DEF Alone, Kept, Seen
  <2>4. At({"reread", "write"}) = {}
      BY <1>1, <2>1 DEF Alone, At, Waiting
  <2>5. CASE UnderLimit(r)
    <3>1. Since(Live, started[r] - Window) \in SUBSET Requests
        BY DEF Since, Live
    <3>2. Cardinality(Recent) < MaxRequests
        BY <2>1, <2>5, <3>1, RecentSince, RecentIsSet, CountingRequests DEF UnderLimit
    <3>3. QED
        BY <2>1, <2>2, <2>3, <3>2 DEF Room
  <2>6. CASE ~UnderLimit(r)
    <3>1. At({"reread", "write"})' = {}
        BY <1>1, <2>4, <2>6 DEF At
    <3>2. QED
        BY <2>1, <2>2, <2>3, <3>1 DEF Room
  <2>7. QED
      BY <2>5, <2>6
<1>6. QED
    BY <1>2, <1>4, <1>5 DEF Serial

LEMMA RereadIInv == ASSUME IInv, NEW r \in Requests, Reread(r) PROVE IInv'
<1> USE LimiterAssumption DEF IInv, TypeOK
<1>1. /\ pc[r] = "reread"
      /\ pc' = [pc EXCEPT ![r] = "write"]
      /\ copy' = [copy EXCEPT ![r] = Appended(r)]
      /\ UNCHANGED <<now, started, window, expiry, raced>>
    BY DEF Reread
<1>2. Appended(r) \subseteq window \cup {r}
    BY DEF Appended, Since, Live
<1>3. TypeOK'
    BY <1>1, <1>2 DEF Places, Waiting
<1>4. /\ At(Passed)' = At(Passed)
      /\ At({"allowed"})' = At({"allowed"})
      /\ At({"reread", "write"})' = At({"reread", "write"})
      /\ At({"passed", "cancelled"})' = At({"passed", "cancelled"})
      /\ At(Waiting)' = At(Waiting)
    BY <1>1 DEF At, Passed, Waiting
<1>5. Charged' /\ Begins'
    BY <1>1, <1>2, <1>4 DEF Charged, Begins
<1>6. ASSUME ~raced' PROVE (Alone /\ Kept /\ Room /\ Seen /\ Cardinality(Recent) <= MaxRequests)'
  <2>1. ~raced /\ Alone /\ Kept /\ Room /\ Cardinality(Recent) <= MaxRequests
      BY <1>1, <1>6 DEF Serial
  <2>2. Recent' = Recent
      BY <1>1, <1>4 DEF Recent
  <2>3. Alone' /\ Kept' /\ Room'
      BY <1>1, <1>4, <2>1, <2>2 DEF Alone, Kept, Room
  <2>4. At({"write"})' = {r}
      BY <1>1, <2>1 DEF Alone, At, Waiting
  <2>5. started[r] >= started[r] - Window
      OBVIOUS
  <2>6. Recent \cup {r} \subseteq Appended(r)
      BY <2>1, <2>5, RecentSince DEF Appended, Since
  <2>7. Seen'
      BY <1>1, <2>2, <2>4, <2>6 DEF Seen
  <2>8. QED
      BY <2>1, <2>2, <2>3, <2>7
<1>7. QED
    BY <1>3, <1>5, <1>6 DEF Serial

LEMMA WriteIInv == ASSUME IInv, NEW r \in Requests, Write(r) PROVE IInv'
<1> USE LimiterAssumption DEF IInv, TypeOK
<1>1. /\ pc[r] = "write"
      /\ pc' = [pc EXCEPT ![r] = "allowed"]
      /\ window' = copy[r]
      /\ expiry' = now + Window
      /\ UNCHANGED <<now, started, copy, raced>>
    BY DEF Write, Store
<1>2. TypeOK'
    BY <1>1 DEF Places, Passed
<1>3. /\ At(Passed)' = At(Passed) \cup {r}
      /\ At({"allowed"})' = At({"allowed"}) \cup {r}
      /\ At({"passed", "cancelled"})' = At({"passed", "cancelled"})
      /\ At(Waiting)' \subseteq At(Waiting)
    BY <1>1 DEF At, Passed, Waiting
<1>4. Charged' /\ Begins'
    BY <1>1, <1>3 DEF Charged, Begins
<1>5. ASSUME ~raced' PROVE (Alone /\ Kept /\ Room /\ Seen /\ Cardinality(Recent) <= MaxRequests)'
  <2>1. ~raced /\ Alone /\ Seen /\ Cardinality(Recent) < MaxRequests
      BY <1>1, <1>5 DEF Serial, Room, At
  <2>2. Recent' \subseteq Recent \cup {r}
      BY <1>1, <1>3 DEF Recent
  <2>3. Recent \cup {r} \subseteq copy[r]
      BY <1>1, <2>1 DEF Seen, At
  <2>4. Kept'
    <3>1. \A q \in copy[r] : started[q] + Window <= now + Window
        BY DEF Begins
    <3>2. QED
        BY <1>1, <2>2, <2>3, <3>1 DEF Kept
  <2>5. At({"reread", "write"})' = {} /\ At({"write"})' = {}
      BY <1>1, <2>1 DEF Alone, At, Waiting
  <2>6. Alone'
      BY <1>3, <2>1 DEF Alone
  <2>7. Cardinality(Recent)' <= MaxRequests
    <3>1. IsFiniteSet(Recent) /\ Cardinality(Recent) \in Nat
        BY RecentIsSet, CountingRequests
    <3>2. \/ Cardinality(Recent \cup {r}) = Cardinality(Recent)
          \/ Cardinality(Recent \cup {r}) = Cardinality(Recent) + 1
        BY <3>1, FS_AddElement, Zenon
    <3>3. Recent \cup {r} \in SUBSET Requests
        BY RecentIsSet
    <3>4. Cardinality(Recent') <= Cardinality(Recent \cup {r}) /\ Cardinality(Recent') \in Nat
        BY <2>2, <3>3, CountingRequests
    <3>5. QED
        BY <2>1, <3>1, <3>2, <3>4
  <2>8. QED
      BY <2>4, <2>5, <2>6, <2>7 DEF Room, Seen
<1>6. QED
    BY <1>2, <1>4, <1>5 DEF Serial

LEMMA InterruptIInv == ASSUME IInv, NEW r \in Requests, Interrupt(r) PROVE IInv'
<1> USE LimiterAssumption DEF IInv, TypeOK
<1>1. /\ pc[r] \in Waiting
      /\ \E how \in {"passed", "cancelled"} : pc' = [pc EXCEPT ![r] = how]
      /\ \/ pc[r] = "write" /\ window' = copy[r] /\ expiry' = now + Window
         \/ UNCHANGED <<window, expiry>>
      /\ raced'
      /\ UNCHANGED <<now, started, copy>>
    BY DEF Interrupt, Store
<1>2. PICK how \in {"passed", "cancelled"} : pc' = [pc EXCEPT ![r] = how]
    BY <1>1
<1>3. TypeOK'
    BY <1>1, <1>2 DEF Places, Passed, Interrupt
<1>4. At(Passed)' = At(Passed) \cup {r} /\ pc'[r] # "write"
    BY <1>1, <1>2 DEF At, Passed, Waiting
<1>5. Charged' /\ Begins'
    BY <1>1, <1>2, <1>4 DEF Charged, Begins
<1>6. QED
    BY <1>1, <1>3, <1>5 DEF Serial

LEMMA ResetIInv == ASSUME IInv, Reset PROVE IInv'
    BY LimiterAssumption
    DEF IInv, Reset, TypeOK, Charged, Begins, Serial, At

LEMMA TickIInv == ASSUME IInv, Tick PROVE IInv'
<1> USE LimiterAssumption DEF IInv, TypeOK
<1>1. now' = now + 1 /\ UNCHANGED <<pc, started, copy, window, expiry, raced>>
    BY DEF Tick
<1>2. TypeOK' /\ Charged' /\ Begins'
    BY <1>1 DEF Charged, Begins, At
<1>3. ASSUME ~raced' PROVE (Alone /\ Kept /\ Room /\ Seen /\ Cardinality(Recent) <= MaxRequests)'
  <2>1. ~raced /\ Alone /\ Kept /\ Room /\ Seen /\ Cardinality(Recent) <= MaxRequests
      BY <1>1, <1>3 DEF Serial
  <2>2. Recent' \subseteq Recent
      BY <1>1 DEF Recent, At
  <2>3. Cardinality(Recent') <= Cardinality(Recent) /\ Cardinality(Recent') \in Nat
        /\ Cardinality(Recent) \in Nat
      BY <2>2, RecentIsSet, CountingRequests
  <2>4. Alone' /\ Kept' /\ Seen'
      BY <1>1, <2>1, <2>2 DEF Alone, Kept, Seen, At
  <2>5. Room'
      BY <1>1, <2>1, <2>3 DEF Room, At
  <2>6. QED
      BY <2>1, <2>3, <2>4, <2>5
<1>4. QED
    BY <1>2, <1>3 DEF Serial

LEMMA NextIInv == IInv /\ [Next]_vars => IInv'
<1> SUFFICES ASSUME IInv, [Next]_vars PROVE IInv'
    OBVIOUS
<1>1. CASE UNCHANGED vars
    BY <1>1 DEF vars, IInv, TypeOK, Charged, Begins, Serial, Alone, Kept, Room, Seen,
                Recent, At
<1>2. CASE \E r \in Requests : Start(r) \/ Count(r) \/ Reread(r) \/ Write(r) \/ Interrupt(r)
    BY <1>2, StartIInv, CountIInv, RereadIInv, WriteIInv, InterruptIInv
<1>3. QED
    BY <1>1, <1>2, ResetIInv, TickIInv DEF Next

LEMMA Invariance == Spec => []IInv
    BY InitIInv, NextIInv, PTL DEF Spec

-----------------------------------------------------------------------------
(* The limiter's state keeps its shape.                                     *)
THEOREM TypeCorrect == Spec => []TypeOK
<1>1. IInv => TypeOK
    BY DEF IInv
<1>2. QED
    BY <1>1, Invariance, PTL

(* For every number of requests, limit and window: while no check overlaps  *)
(* another and no cache call fails, the limit holds in every window.        *)
THEOREM LimitHoldsAlone == Spec => []OnlyRacesExceed
<1>1. IInv => OnlyRacesExceed
    BY DEF IInv, Serial, OnlyRacesExceed
<1>2. QED
    BY <1>1, Invariance, PTL

(* For every number of requests, limit and window, and however checks       *)
(* overlap and fail: a refusal is backed by max_requests requests that were *)
(* really let through within the window.                                    *)
THEOREM RefusalsJust == Spec => DeniedJustly
<1> DEFINE Just(r) ==
        pc[r] # "denied" /\ pc'[r] = "denied" =>
          Cardinality(Since(At(Passed), started[r] - Window)) >= MaxRequests
<1>1. ASSUME IInv, Next, NEW r \in Requests, pc[r] # "denied", pc'[r] = "denied"
      PROVE  Cardinality(Since(At(Passed), started[r] - Window)) >= MaxRequests
  <2> USE LimiterAssumption DEF IInv, TypeOK
  <2>1. Count(r) /\ ~UnderLimit(r)
      BY <1>1 DEF Next, Start, Count, Reread, Write, Interrupt, Reset, Tick
  <2>2. /\ Since(At(Passed), started[r] - Window) \in SUBSET Requests
        /\ Since(Live, started[r] - Window) \subseteq Since(At(Passed), started[r] - Window)
      BY <1>1 DEF Since, Live, Charged, At
  <2>3. QED
      BY <2>1, <2>2, CountingRequests DEF UnderLimit
<1>2. IInv /\ [Next]_vars => [\A r \in Requests : Just(r)]_vars
    BY <1>1
<1>3. QED
    BY <1>2, Invariance, PTL DEF Spec, DeniedJustly
-----------------------------------------------------------------------------
(* What callers were told, as sets of requests.                             *)
LEMMA ToldSets ==
    ASSUME TypeOK
    PROVE  /\ Q!Told({"pending"}) = At(Waiting)
           /\ Q!Told({"yes"}) = At({"allowed"})
           /\ Q!Told({"yes", "open"}) = At(Passed)
           /\ Q!InWindow = Recent
<1>1. \A r \in Requests :
        /\ pc[r] \in Places
        /\ pc[r] = "idle" <=> Answer[r] = "none"
        /\ pc[r] \in Waiting <=> Answer[r] = "pending"
        /\ pc[r] = "allowed" <=> Answer[r] = "yes"
        /\ pc[r] \in Passed <=> Answer[r] \in {"yes", "open"}
    BY DEF TypeOK, Answer, Places, Waiting, Passed
<1>2. QED
    BY <1>1 DEF Q!Told, Q!InWindow, Recent, At

(* Quota counts as RateLimiter does.                                        *)
LEMMA SameCount == \A S : Q!Cardinality(S) = Cardinality(S)
    BY DEF Q!Cardinality, Cardinality

(* One request moves: its answer alone may change.                          *)
LEMMA AnswerMoves ==
    ASSUME TypeOK, NEW r \in Requests, NEW p \in Places, pc' = [pc EXCEPT ![r] = p],
           NEW a, a = CASE p = "idle" -> "none"
                        [] p \in Waiting -> "pending"
                        [] p = "denied" -> "no"
                        [] p = "allowed" -> "yes"
                        [] OTHER -> "open"
    PROVE  Answer' = [Answer EXCEPT ![r] = a]
<1>1. pc'[r] = p /\ \A q \in Requests \ {r} : pc'[q] = pc[q]
    BY DEF TypeOK
<1>2. Answer'[r] = a
    BY <1>1 DEF Answer
<1>3. \A q \in Requests \ {r} : Answer'[q] = Answer[q]
    BY <1>1 DEF Answer
<1>4. /\ Answer' = [q \in Requests |-> Answer'[q]]
      /\ Answer = [q \in Requests |-> Answer[q]]
    BY DEF Answer
<1>5. QED
    BY <1>2, <1>3, <1>4

LEMMA StepKeepsQuota == ASSUME IInv, [Next]_vars PROVE [Q!Next]_(Q!qvars)
<1> USE LimiterAssumption
<1>t. TypeOK
    BY DEF IInv
<1>1. ASSUME NEW r \in Requests, Start(r) PROVE Q!Ask(r)
  <2>1. Answer[r] = "none"
      BY <1>1 DEF Start, Answer, Waiting
  <2>2. Answer' = [Answer EXCEPT ![r] = "pending"]
      BY <1>1, <1>t, AnswerMoves DEF Start, Places, Waiting
  <2>3. (~raced)' = (~raced /\ At(Waiting) = {})
      BY <1>1 DEF Start
  <2>4. UNCHANGED now /\ started' = [started EXCEPT ![r] = now]
      BY <1>1 DEF Start, Begun
  <2>5. QED
      BY <1>t, <2>1, <2>2, <2>3, <2>4, ToldSets DEF Q!Ask
<1>2. ASSUME NEW r \in Requests, Count(r) PROVE Q!Refuse(r) \/ UNCHANGED Q!qvars
  <2>1. /\ pc[r] = "count" /\ UNCHANGED <<now, started, window, expiry, raced>>
        /\ pc' = [pc EXCEPT ![r] = IF UnderLimit(r) THEN "reread" ELSE "denied"]
      BY <1>2 DEF Count
  <2>2. Answer[r] = "pending"
      BY <2>1 DEF Answer, Waiting
  <2>3. CASE UnderLimit(r)
    <3>1. Answer' = [Answer EXCEPT ![r] = "pending"]
        BY <1>t, <2>1, <2>3, AnswerMoves DEF Places, Waiting
    <3>2. Answer' = Answer
        BY <2>2, <3>1 DEF Answer
    <3>3. QED
        BY <2>1, <3>2 DEF Q!qvars
  <2>4. CASE ~UnderLimit(r)
    <3>1. Answer' = [Answer EXCEPT ![r] = "no"]
        BY <1>t, <2>1, <2>4, AnswerMoves DEF Places, Waiting
    <3>2. /\ Since(At(Passed), started[r] - Window) \in SUBSET Requests
          /\ Since(Live, started[r] - Window) \subseteq Since(At(Passed), started[r] - Window)
        BY DEF IInv, TypeOK, Since, Live, Charged, At
    <3>3. Cardinality(Since(At(Passed), started[r] - Window)) >= MaxRequests
        BY <2>4, <3>2, CountingRequests DEF UnderLimit
    <3>4. QED
        BY <1>t, <2>1, <2>2, <3>1, <3>3, ToldSets, SameCount DEF Q!Refuse, Q!Tell, Since
  <2>5. QED
      BY <2>3, <2>4
<1>3. ASSUME NEW r \in Requests, Reread(r) PROVE UNCHANGED Q!qvars
  <2>1. /\ pc[r] = "reread" /\ UNCHANGED <<now, started, raced>>
        /\ pc' = [pc EXCEPT ![r] = "write"]
      BY <1>3 DEF Reread
  <2>2. Answer[r] = "pending" /\ Answer' = [Answer EXCEPT ![r] = "pending"]
    <3>1. Answer[r] = "pending"
        BY <2>1 DEF Answer, Waiting
    <3>2. Answer' = [Answer EXCEPT ![r] = "pending"]
        BY <1>t, <2>1, AnswerMoves DEF Places, Waiting
    <3>3. QED
        BY <3>1, <3>2
  <2>3. Answer' = Answer
      BY <2>2 DEF Answer
  <2>4. QED
      BY <2>1, <2>3 DEF Q!qvars
<1>4. ASSUME NEW r \in Requests, Write(r) PROVE Q!Allow(r)
  <2>1. /\ pc[r] = "write" /\ UNCHANGED <<now, started, raced>>
        /\ pc' = [pc EXCEPT ![r] = "allowed"]
      BY <1>4 DEF Write
  <2>2. Answer[r] = "pending"
      BY <2>1 DEF Answer, Waiting
  <2>3. Answer' = [Answer EXCEPT ![r] = "yes"]
      BY <1>t, <2>1, AnswerMoves DEF Places, Waiting, Passed
  <2>4. ~raced => Cardinality(Recent) < MaxRequests
      BY <2>1 DEF IInv, Serial, Room, At
  <2>5. QED
      BY <1>t, <2>1, <2>2, <2>3, <2>4, ToldSets, SameCount DEF Q!Allow, Q!Tell
<1>5. ASSUME NEW r \in Requests, Interrupt(r) PROVE Q!PassOpen(r)
  <2>1. pc[r] \in Waiting /\ UNCHANGED <<now, started>> /\ raced'
      BY <1>5 DEF Interrupt
  <2>2. PICK how \in {"passed", "cancelled"} : pc' = [pc EXCEPT ![r] = how]
      BY <1>5 DEF Interrupt
  <2>3. Answer[r] = "pending"
      BY <2>1 DEF Answer, Waiting
  <2>4. Answer' = [Answer EXCEPT ![r] = "open"]
      BY <1>t, <2>2, AnswerMoves DEF Places, Waiting, Passed
  <2>5. (~raced)' = FALSE
      BY <2>1
  <2>6. QED
      BY <2>1, <2>3, <2>4, <2>5 DEF Q!PassOpen, Q!Tell
<1>6. ASSUME Reset PROVE Q!Forget
  <2>1. UNCHANGED <<now, pc, started>> /\ (~raced)' = FALSE
      BY <1>6 DEF Reset
  <2>2. Answer' = Answer
      BY <2>1 DEF Answer
  <2>3. QED
      BY <2>1, <2>2 DEF Q!Forget
<1>7. ASSUME Tick PROVE Q!Tick
  <2>1. UNCHANGED <<pc, started, raced>> /\ now' = now + 1
      BY <1>7 DEF Tick
  <2>2. Answer' = Answer
      BY <2>1 DEF Answer
  <2>3. QED
      BY <2>1, <2>2 DEF Q!Tick
<1>8. ASSUME UNCHANGED vars PROVE UNCHANGED Q!qvars
  <2>1. UNCHANGED <<now, pc, started, raced>>
      BY <1>8 DEF vars
  <2>2. Answer' = Answer
      BY <2>1 DEF Answer
  <2>3. QED
      BY <2>1, <2>2 DEF Q!qvars
<1>9. QED
    BY <1>1, <1>2, <1>3, <1>4, <1>5, <1>6, <1>7, <1>8 DEF Next, Q!Next

(* For every number of requests, limit and window: the five steps of a      *)
(* check are, for its caller, one decision made from the requests let       *)
(* through before it, exact as long as nothing has raced.                   *)
THEOREM ImplementsQuota == Spec => KeepsQuota
<1>1. Init => Q!Init
  <2> SUFFICES ASSUME Init PROVE Q!Init
      OBVIOUS
  <2>1. Answer = [r \in Requests |-> "none"]
      BY DEF Init, Answer, Waiting
  <2>2. (~raced) = TRUE
      BY DEF Init
  <2>3. QED
      BY <2>1, <2>2 DEF Init, Q!Init
<1>2. QED
    BY <1>1, StepKeepsQuota, Invariance, PTL DEF Spec, KeepsQuota, Q!Spec

(* What Quota promises is worth having: alone, it keeps the limit.          *)
QInv == now \in Nat /\ started \in [Requests -> Nat] /\ Q!WithinLimit

LEMMA QuotaStep == QInv /\ [Q!Next]_(Q!qvars) => QInv'
<1> SUFFICES ASSUME QInv, [Q!Next]_(Q!qvars) PROVE QInv'
    OBVIOUS
<1> USE LimiterAssumption DEF QInv
<1>a. \A S : Q!Cardinality(S)' = Cardinality(S)'
    BY DEF Q!Cardinality, Cardinality
<1>b. Q!InWindow \in SUBSET Requests /\ Q!InWindow' \in SUBSET Requests
    BY DEF Q!InWindow, Q!Told
<1>c. ~raced => Cardinality(Q!InWindow) <= MaxRequests
    BY SameCount DEF Q!WithinLimit
<1>d. SUFFICES (~raced)' => Cardinality(Q!InWindow') <= MaxRequests
  <2>1. now' \in Nat
    <3>1. now' = now \/ now' = now + 1
        BY DEF Q!Next, Q!qvars, Q!Ask, Q!Allow, Q!Refuse, Q!PassOpen, Q!Forget, Q!Tick
    <3>2. QED
        BY <3>1
  <2>2. started' \in [Requests -> Nat]
    <3>1. started' = started \/ \E r \in Requests : started' = [started EXCEPT ![r] = now]
        BY DEF Q!Next, Q!qvars, Q!Ask, Q!Allow, Q!Refuse, Q!PassOpen, Q!Forget, Q!Tick
    <3>2. QED
        BY <3>1
  <2>3. (~raced => Q!Cardinality(Q!InWindow) <= MaxRequests)'
      BY <1>d, SameCount, <1>a
  <2>4. QED
      BY <2>1, <2>2, <2>3 DEF Q!WithinLimit
<1>e. ASSUME Q!InWindow' \subseteq Q!InWindow, (~raced)' => ~raced
      PROVE  (~raced)' => Cardinality(Q!InWindow') <= MaxRequests
  <2>1. /\ Cardinality(Q!InWindow') <= Cardinality(Q!InWindow)
        /\ Cardinality(Q!InWindow') \in Nat /\ Cardinality(Q!InWindow) \in Nat
      BY <1>b, <1>e, CountingRequests
  <2>2. QED
      BY <1>c, <1>e, <2>1
<1>f. ASSUME NEW r \in Requests, NEW a \in {"pending", "no", "open"}, UNCHANGED now,
             Answer' = [Answer EXCEPT ![r] = a], \A q \in Requests \ {r} : started'[q] = started[q]
      PROVE  Q!InWindow' \subseteq Q!InWindow
  <2>1. Answer'[r] # "yes" /\ \A q \in Requests \ {r} : Answer'[q] = Answer[q]
      BY <1>f DEF Answer
  <2>2. QED
      BY <1>f, <2>1 DEF Q!InWindow, Q!Told
<1>1. ASSUME NEW r \in Requests, Q!Ask(r) PROVE (~raced)' => Cardinality(Q!InWindow') <= MaxRequests
    BY <1>1, <1>e, <1>f DEF Q!Ask
<1>2. ASSUME NEW r \in Requests, Q!Refuse(r) PROVE (~raced)' => Cardinality(Q!InWindow') <= MaxRequests
    BY <1>2, <1>e, <1>f DEF Q!Refuse, Q!Tell
<1>3. ASSUME NEW r \in Requests, Q!PassOpen(r) PROVE (~raced)' => Cardinality(Q!InWindow') <= MaxRequests
    BY <1>3, <1>e, <1>f DEF Q!PassOpen, Q!Tell
<1>4. ASSUME NEW r \in Requests, Q!Allow(r) PROVE (~raced)' => Cardinality(Q!InWindow') <= MaxRequests
  <2>1. /\ ~raced => Cardinality(Q!InWindow) < MaxRequests
        /\ UNCHANGED <<now, started>> /\ (~raced)' = ~raced
        /\ Answer' = [Answer EXCEPT ![r] = "yes"]
      BY <1>4, SameCount DEF Q!Allow, Q!Tell
  <2>2. \A q \in Requests \ {r} : Answer'[q] = Answer[q]
      BY <2>1 DEF Answer
  <2>3. Q!InWindow' \subseteq Q!InWindow \cup {r}
      BY <2>1, <2>2 DEF Q!InWindow, Q!Told
  <2>4. IsFiniteSet(Q!InWindow) /\ Cardinality(Q!InWindow) \in Nat
      BY <1>b, CountingRequests
  <2>5. \/ Cardinality(Q!InWindow \cup {r}) = Cardinality(Q!InWindow)
        \/ Cardinality(Q!InWindow \cup {r}) = Cardinality(Q!InWindow) + 1
      BY <2>4, FS_AddElement, Zenon
  <2>6. /\ Cardinality(Q!InWindow') <= Cardinality(Q!InWindow \cup {r})
        /\ Cardinality(Q!InWindow') \in Nat
    <3>1. Q!InWindow \cup {r} \in SUBSET Requests
        BY <1>b
    <3>2. QED
        BY <2>3, <3>1, CountingRequests
  <2>7. QED
      BY <2>1, <2>4, <2>5, <2>6
<1>5. CASE Q!Forget
  <2>1. (~raced)' = FALSE
      BY <1>5 DEF Q!Forget
  <2>2. QED
      BY <2>1
<1>6. CASE Q!Tick
  <2>1. UNCHANGED <<started, Answer>> /\ now' = now + 1 /\ (~raced)' = ~raced
      BY <1>6 DEF Q!Tick
  <2>2. Q!InWindow' \subseteq Q!InWindow
      BY <2>1 DEF Q!InWindow, Q!Told
  <2>3. QED
      BY <1>e, <2>1, <2>2
<1>7. CASE UNCHANGED Q!qvars
  <2>1. UNCHANGED <<now, started, Answer>> /\ (~raced)' = ~raced
      BY <1>7 DEF Q!qvars
  <2>2. Q!InWindow' \subseteq Q!InWindow
      BY <2>1 DEF Q!InWindow, Q!Told
  <2>3. QED
      BY <1>e, <2>1, <2>2
<1>8. QED
    BY <1>1, <1>2, <1>3, <1>4, <1>5, <1>6, <1>7 DEF Q!Next

(* Whatever implements Quota lets no more than the limit through in any     *)
(* window while it is calm.                                                 *)
THEOREM QuotaKeepsLimit == Q!Spec => []Q!WithinLimit
<1>1. Q!Init => QInv
  <2> SUFFICES ASSUME Q!Init PROVE QInv
      OBVIOUS
  <2>1. Answer = [r \in Requests |-> "none"] /\ now = 0 /\ started = [r \in Requests |-> 0]
      BY DEF Q!Init
  <2>2. Q!InWindow = {}
      BY <2>1 DEF Q!InWindow, Q!Told
  <2>3. Cardinality(Q!InWindow) = 0
      BY <2>2, FS_EmptySet
  <2>4. QED
      BY <2>1, <2>3, SameCount, LimiterAssumption DEF QInv, Q!WithinLimit
<1>2. QInv => Q!WithinLimit
    BY DEF QInv
<1>3. QED
    BY <1>1, <1>2, QuotaStep, PTL DEF Q!Spec
=============================================================================
