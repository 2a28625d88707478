------------------------ MODULE UserCreation_proofs ------------------------
(***************************************************************************)
(* User creation implements Registration, for any number of requests, any   *)
(* number of attempts and any breaker.  The breaker plays no part in the    *)
(* argument: it only ever keeps a request from trying.                      *)
(***************************************************************************)
EXTENDS UserCreation, FiniteSetTheorems, TLAPS

Locations == {"new", "lookup", "begin", "hash", "check", "save", "broken",
              "created", "done"}
Answers == {"pending", "created", "exists", "failed", "nothing"}

Types ==
    /\ owner \in Requests \cup {NoOne}
    /\ doubt \subseteq Requests
    /\ answer \in [Requests -> Answers]
    /\ pc \in [Requests -> Locations]

(* Where a request is tells what it may have in the database.  It does not  *)
(* own the account while it looks the address up or is about to insert; it  *)
(* owns it once create has returned; and if it owns it anywhere else, an    *)
(* acknowledgement was lost.                                                *)
Located(r) ==
    /\ answer[r] = "pending" <=> pc[r] # "done"
    /\ pc[r] = "created" => owner = r
    /\ pc[r] \in {"new", "lookup", "begin", "save"} => owner # r
    /\ owner = r => pc[r] \in {"created", "done"} \/ r \in doubt

IInv == Types /\ \A r \in Requests : Located(r)

(* What a step of the code is in the eyes of Registration.                  *)
Implements == R!Next \/ UNCHANGED R!rvars

-----------------------------------------------------------------------------
(* A request that moves without touching the account keeps the invariant if *)
(* its new place allows what it owns.                                       *)
LEMMA MoveIInv ==
    ASSUME IInv, NEW r \in Requests, NEW loc \in Locations \ {"created", "done"},
           pc[r] # "done",
           Goto(r, loc), UNCHANGED <<owner, answer>>,
           doubt' = doubt \/ doubt' = doubt \cup {r},
           owner = r => r \in doubt',
           loc \in {"new", "lookup", "begin", "save"} => owner # r
    PROVE  IInv' /\ Implements
<1>1. Types'
    BY DEF IInv, Types, Goto
<1>2. ASSUME NEW q \in Requests PROVE Located(q)'
  <2>1. CASE q = r
      BY <2>1 DEF IInv, Types, Located, Goto
  <2>2. CASE q # r
      BY <2>2 DEF IInv, Types, Located, Goto
  <2>3. QED
      BY <2>1, <2>2
<1>3. R!LoseAnswer(r) \/ UNCHANGED R!rvars
    BY DEF IInv, Located, R!LoseAnswer, R!Pending, R!rvars
<1>4. QED
    BY <1>1, <1>2, <1>3 DEF IInv, Implements, R!Next

(* A request that is answered keeps the invariant, and the answer is one    *)
(* that Registration gives, if it is true.                                  *)
LEMMA FinishIInv ==
    ASSUME IInv, NEW r \in Requests, NEW a \in {"created", "exists", "failed"},
           pc[r] # "done",
           Finish(r, a), UNCHANGED <<owner, doubt>>,
           a = "created" => owner = r,
           a = "exists" => owner \notin {NoOne, r},
           a = "failed" => (owner = r => r \in doubt)
    PROVE  IInv' /\ Implements
<1>1. Types'
    BY DEF IInv, Types, Finish, Goto, R!Tell, Answers, Locations
<1>2. ASSUME NEW q \in Requests PROVE Located(q)'
  <2>1. CASE q = r
      BY <2>1 DEF IInv, Types, Located, Finish, Goto, R!Tell
  <2>2. CASE q # r
      BY <2>2 DEF IInv, Types, Located, Finish, Goto, R!Tell
  <2>3. QED
      BY <2>1, <2>2
<1>3. R!Confirm(r) \/ R!Decline(r) \/ R!Fail(r)
    BY DEF Finish, R!Confirm, R!Decline, R!Fail
<1>4. QED
    BY <1>1, <1>2, <1>3 DEF IInv, Implements, R!Next

(* The account is stored, and the request is at "created" or, its           *)
(* acknowledgement lost, at "broken".                                       *)
LEMMA StoreIInv ==
    ASSUME IInv, NEW r \in Requests, NEW loc \in {"created", "broken"},
           pc[r] # "done", owner = NoOne, owner' = r,
           Goto(r, loc), UNCHANGED answer,
           \/ loc = "created" /\ doubt' = doubt
           \/ loc = "broken" /\ doubt' = doubt \cup {r}
    PROVE  IInv' /\ Implements
<1>1. Types'
    BY DEF IInv, Types, Goto, Locations
<1>2. ASSUME NEW q \in Requests PROVE Located(q)'
  <2>1. CASE q = r
      BY <2>1 DEF IInv, Types, Located, Goto
  <2>2. CASE q # r
    <3>1. owner # q
        BY CreationAssumption
    <3>2. pc[q] # "created"
        BY <3>1 DEF IInv, Located
    <3>3. QED
        BY <2>2, <3>1, <3>2 DEF IInv, Types, Located, Goto
  <2>3. QED
      BY <2>1, <2>2
<1>3. R!Register(r)
    BY DEF IInv, Located, R!Register, R!Pending
<1>4. QED
    BY <1>1, <1>2, <1>3 DEF IInv, Implements, R!Next

(* The body raised: the request runs it again or is told.                   *)
LEMMA RaiseIInv ==
    ASSUME IInv, NEW r \in Requests, NEW a \in {"exists", "failed"},
           pc[r] \notin {"created", "done"},
           RunRaises(r, a), UNCHANGED <<owner, doubt>>,
           a = "exists" => owner \notin {NoOne, r}
    PROVE  IInv' /\ Implements
<1>1. owner = r => r \in doubt
    BY DEF IInv, Located
<1>2. CASE BeginRun(r)
    BY <1>1, <1>2, MoveIInv DEF BeginRun, Locations
<1>3. CASE Finish(r, a)
    BY <1>1, <1>3, FinishIInv
<1>4. QED
    BY <1>2, <1>3 DEF RunRaises

(* A database error has reached with_retry.                                 *)
LEMMA RetryIInv ==
    ASSUME IInv, NEW r \in Requests, pc[r] \in {"check", "save", "broken"},
           RetryCreate(r), UNCHANGED <<owner, doubt>>
    PROVE  IInv' /\ Implements
<1>1. owner = r => r \in doubt
    BY DEF IInv, Located
<1>2. CASE Again(r, "check")
    BY <1>1, <1>2, MoveIInv DEF Again, Locations
<1>3. CASE CreateRaises(r, "failed")
    BY <1>3, RaiseIInv DEF CreateRaises
<1>4. QED
    BY <1>2, <1>3 DEF RetryCreate

-----------------------------------------------------------------------------
LEMMA LookupIInv == ASSUME IInv, NEW r \in Requests, Lookup(r) \/ Start(r)
                    PROVE  IInv' /\ Implements
<1>1. pc[r] \in {"new", "lookup"} /\ owner # r /\ UNCHANGED <<owner, doubt>>
    BY DEF IInv, Located, Lookup, LookupFinds, LookupFree, LookupFails, Start
<1>2. ASSUME NEW loc \in {"lookup", "begin"}, Goto(r, loc), UNCHANGED answer
      PROVE  IInv' /\ Implements
    BY <1>1, <1>2, MoveIInv DEF Locations
<1>3. CASE Finish(r, "failed")
    BY <1>1, <1>3, FinishIInv
<1>4. CASE LookupFinds(r)
    BY <1>1, <1>4, FinishIInv DEF LookupFinds
<1>5. QED
    BY <1>2, <1>3, <1>4 DEF Lookup, LookupFree, LookupFails, Again, Start

LEMMA BeginIInv == ASSUME IInv, NEW r \in Requests, Begin(r) \/ BeginFails(r)
                   PROVE  IInv' /\ Implements
<1>1. /\ pc[r] = "begin" /\ Goto(r, "hash")
      /\ UNCHANGED <<owner, doubt, answer>>
    BY DEF Begin, BeginFails, BeginRun
<1>2. owner # r
    BY <1>1 DEF IInv, Located
<1>3. QED
    BY <1>1, <1>2, MoveIInv DEF Locations

LEMMA HashIInv == ASSUME IInv, NEW r \in Requests, Hash(r) \/ HashFails(r) \/ Rejected(r)
                  PROVE  IInv' /\ Implements
<1>1. pc[r] = "hash" /\ UNCHANGED <<owner, doubt>>
    BY DEF Hash, HashFails, Rejected
<1>2. owner = r => r \in doubt
    BY <1>1 DEF IInv, Located
<1>3. CASE Hash(r)
    BY <1>1, <1>2, <1>3, MoveIInv DEF Hash, Locations
<1>4. CASE RunRaises(r, "failed")
    BY <1>1, <1>4, RaiseIInv
<1>5. QED
    BY <1>3, <1>4 DEF HashFails, Rejected

LEMMA CreateIInv == ASSUME IInv, NEW r \in Requests, Create(r)
                    PROVE  IInv' /\ Implements
<1>1. CASE Check(r)
  <2>1. /\ pc[r] = "check" /\ owner = NoOne /\ Goto(r, "save")
        /\ UNCHANGED <<owner, doubt, answer>>
      BY <1>1 DEF Check
  <2>2. owner # r
      BY <2>1, CreationAssumption
  <2>3. QED
      BY <2>1, <2>2, MoveIInv DEF Locations
<1>2. CASE Refused(r)
    BY <1>2, RaiseIInv DEF Refused, CreateRaises
<1>3. CASE DatabaseFails(r)
    BY <1>3, RetryIInv DEF DatabaseFails
<1>4. CASE Save(r)
    BY <1>4, StoreIInv DEF Save
<1>5. CASE SaveUnacknowledged(r)
    BY <1>5, StoreIInv DEF SaveUnacknowledged
<1>6. CASE SaveConflicts(r)
  <2>1. owner \notin {NoOne, r}
      BY <1>6 DEF SaveConflicts, IInv, Located
  <2>2. QED
      BY <1>6, <2>1, RaiseIInv DEF SaveConflicts, CreateRaises
<1>7. QED
    BY <1>1, <1>2, <1>3, <1>4, <1>5, <1>6 DEF Create

LEMMA CommitIInv == ASSUME IInv, NEW r \in Requests, Commit(r) \/ CommitFails(r)
                    PROVE  IInv' /\ Implements
<1>1. pc[r] = "created" /\ owner = r
    BY DEF Commit, CommitFails, IInv, Located
<1>2. CASE Commit(r)
    BY <1>1, <1>2, FinishIInv DEF Commit
<1>3. CASE CommitFails(r)
    BY <1>1, <1>3, MoveIInv DEF CommitFails, BeginRun, Locations
<1>4. QED
    BY <1>2, <1>3

LEMMA CrashIInv == ASSUME IInv, Crash PROVE IInv' /\ Implements
<1>1. PICK dead \in SUBSET {r \in Requests : R!Pending(r)} :
        answer' = [r \in Requests |-> IF r \in dead THEN "nothing" ELSE answer[r]]
    BY DEF Crash, R!Die
<1>2. UNCHANGED <<owner, doubt>>
    BY DEF Crash, R!Die
<1>3. pc' = [r \in Requests |-> IF pc[r] = "new" THEN "new" ELSE "done"]
    BY DEF Crash
<1>4. Types'
    BY <1>1, <1>2, <1>3 DEF IInv, Types, Answers, Locations
<1>5. ASSUME NEW q \in Requests PROVE Located(q)'
  <2>1. answer'[q] = "pending" <=> pc'[q] # "done"
      BY <1>3 DEF Crash
  <2>2. QED
      BY <1>2, <1>3, <2>1 DEF IInv, Located
<1>6. QED
    BY <1>4, <1>5 DEF IInv, Implements, Crash, R!Next

LEMMA StepIInv == IInv /\ [Next]_vars => IInv' /\ Implements
<1> SUFFICES ASSUME IInv, [Next]_vars PROVE IInv' /\ Implements
    OBVIOUS
<1>1. CASE Crash
    BY <1>1, CrashIInv
<1>2. CASE Tick \/ UNCHANGED vars
  <2>1. UNCHANGED <<owner, doubt, answer, pc>>
      BY <1>2 DEF Tick, vars
  <2>2. QED
      BY <2>1 DEF IInv, Types, Located, Implements, R!rvars
<1>3. ASSUME NEW r \in Requests, Start(r) \/ Step(r) PROVE IInv' /\ Implements
    BY <1>3, LookupIInv, BeginIInv, HashIInv, CreateIInv, CommitIInv DEF Step
<1>4. QED
    BY <1>1, <1>2, <1>3 DEF Next

-----------------------------------------------------------------------------
LEMMA InitIInv == Init => IInv
    BY CreationAssumption DEF Init, R!Init, IInv, Types, Located, Locations, Answers

(* The inductive invariant holds of every behaviour.                        *)
THEOREM Inductive == Spec => []IInv
<1>1. QED
    BY InitIInv, StepIInv, PTL DEF Spec

(* User creation keeps the promise of Registration: whatever the database   *)
(* loses, however requests interleave and whenever the worker dies, at most *)
(* one request gets the account and every answer agrees with it.            *)
THEOREM PromiseKept == Spec => KeepsPromise
<1>1. Init => R!Init
    BY DEF Init
<1>2. IInv /\ [Next]_vars => [R!Next]_R!rvars
    BY StepIInv DEF Implements
<1>3. QED
    BY <1>1, <1>2, Inductive, PTL DEF Spec, KeepsPromise, R!Spec

-----------------------------------------------------------------------------
(* The counters and the breaker play no part in the promise, but they have  *)
(* types of their own.  run counts the runs of the body: none before the    *)
(* body begins, one or two while it runs.                                   *)
Early == {"new", "lookup", "begin"}

Counted(r) ==
    /\ pc[r] \in Early => run[r] = 0
    /\ pc[r] \notin Early \cup {"done"} => run[r] > 0

Counts ==
    /\ pc \in [Requests -> Locations]
    /\ run \in [Requests -> 0..2]
    /\ attempt \in [Requests -> 1..MaxAttempts]
    /\ \A r \in Requests : Counted(r)

(* A step of one request keeps the counters of all in range if it keeps its *)
(* own.                                                                     *)
LEMMA OneCounts ==
    ASSUME Counts, NEW r \in Requests, NEW loc \in Locations,
           NEW n \in 0..2, NEW k \in 1..MaxAttempts,
           Goto(r, loc),
           run' = [run EXCEPT ![r] = n], attempt' = [attempt EXCEPT ![r] = k],
           loc \in Early => n = 0,
           loc \notin Early \cup {"done"} => n > 0
    PROVE  Counts'
<1>1. ASSUME NEW q \in Requests PROVE Counted(q)'
  <2>1. CASE q = r
      BY <2>1 DEF Counts, Counted, Goto
  <2>2. CASE q # r
      BY <2>2 DEF Counts, Counted, Goto
  <2>3. QED
      BY <2>1, <2>2
<1>2. /\ pc' \in [Requests -> Locations] /\ run' \in [Requests -> 0..2]
      /\ attempt' \in [Requests -> 1..MaxAttempts]
    BY DEF Counts, Goto
<1>3. QED
    BY <1>1, <1>2 DEF Counts

(* The same for a step that leaves the counters alone.                      *)
LEMMA MoveCounts ==
    ASSUME Counts, NEW r \in Requests, NEW loc \in Locations,
           Goto(r, loc), UNCHANGED <<run, attempt>>,
           loc \in Early => pc[r] \in Early,
           loc \notin Early \cup {"done"} => pc[r] \notin Early \cup {"done"}
    PROVE  Counts'
<1>1. /\ run[r] \in 0..2 /\ attempt[r] \in 1..MaxAttempts
      /\ run' = [run EXCEPT ![r] = run[r]]
      /\ attempt' = [attempt EXCEPT ![r] = attempt[r]]
    BY DEF Counts, Counted
<1>2. /\ loc \in Early => run[r] = 0
      /\ loc \notin Early \cup {"done"} => run[r] > 0
    BY DEF Counts, Counted
<1>3. QED
    BY <1>1, <1>2, OneCounts

LEMMA RaiseCounts ==
    ASSUME Counts, NEW r \in Requests, NEW a \in Answers,
           RunRaises(r, a), UNCHANGED attempt
    PROVE  Counts'
<1>1. CASE run[r] < 2 /\ BeginRun(r)
  <2>1. /\ run[r] + 1 \in 0..2 /\ run[r] + 1 > 0 /\ attempt[r] \in 1..MaxAttempts
        /\ run' = [run EXCEPT ![r] = run[r] + 1]
        /\ attempt' = [attempt EXCEPT ![r] = attempt[r]]
      BY <1>1 DEF BeginRun, Counts, Counted
  <2>2. "hash" \in Locations /\ "hash" \notin Early
      BY DEF Locations, Early
  <2>3. QED
      BY <1>1, <2>1, <2>2, OneCounts DEF BeginRun
<1>2. CASE Finish(r, a)
    BY <1>2, MoveCounts DEF Finish, Locations, Early
<1>3. QED
    BY <1>1, <1>2 DEF RunRaises

LEMMA AgainCounts ==
    ASSUME Counts, NEW r \in Requests, NEW loc \in Locations, Again(r, loc),
           loc \in Early => pc[r] \in Early,
           loc \notin Early => pc[r] \notin Early \cup {"done"}
    PROVE  Counts'
<1>1. /\ attempt[r] + 1 \in 1..MaxAttempts /\ run[r] \in 0..2
      /\ attempt' = [attempt EXCEPT ![r] = attempt[r] + 1]
      /\ run' = [run EXCEPT ![r] = run[r]]
    BY CreationAssumption DEF Again, Counts, Counted
<1>2. /\ loc \in Early => run[r] = 0
      /\ loc \notin Early => run[r] > 0
    BY DEF Counts, Counted
<1>3. QED
    BY <1>1, <1>2, OneCounts DEF Again

LEMMA RetryCounts ==
    ASSUME Counts, NEW r \in Requests, pc[r] \in {"check", "save", "broken"},
           RetryCreate(r)
    PROVE  Counts'
<1>1. CASE Again(r, "check")
    BY <1>1, AgainCounts DEF Locations, Early
<1>2. CASE CreateRaises(r, "failed")
    BY <1>2, RaiseCounts DEF CreateRaises, Answers
<1>3. QED
    BY <1>1, <1>2 DEF RetryCreate

LEMMA LookupCounts == ASSUME Counts, NEW r \in Requests, Lookup(r) \/ Start(r)
                      PROVE  Counts'
<1>1. ASSUME NEW loc \in {"lookup", "begin", "done"}, Goto(r, loc),
             UNCHANGED <<run, attempt>>, pc[r] \in Early
      PROVE  Counts'
    BY <1>1, MoveCounts DEF Locations, Early
<1>2. CASE pc[r] = "lookup" /\ Again(r, "lookup")
    BY <1>2, AgainCounts DEF Locations, Early
<1>3. CASE Start(r)
    BY <1>1, <1>3 DEF Start, Finish, Early
<1>4. CASE LookupFinds(r)
    BY <1>1, <1>4 DEF LookupFinds, Finish, Early
<1>5. CASE LookupFree(r)
    BY <1>1, <1>5 DEF LookupFree, Finish, Early
<1>6. CASE LookupFails(r)
    BY <1>1, <1>2, <1>6 DEF LookupFails, Finish, Early
<1>7. QED
    BY <1>3, <1>4, <1>5, <1>6 DEF Lookup

LEMMA BeginCounts == ASSUME Counts, NEW r \in Requests, Begin(r) \/ BeginFails(r)
                     PROVE  Counts'
<1>1. pc[r] = "begin" /\ Goto(r, "hash") /\ UNCHANGED attempt
    BY DEF Begin, BeginFails, BeginRun
<1>2. run[r] = 0
    BY <1>1 DEF Counts, Counted, Early
<1>3. PICK n \in 0..2 : n > 0 /\ run' = [run EXCEPT ![r] = n]
  <2>1. CASE Begin(r)
      BY <1>2, <2>1 DEF Begin, BeginRun
  <2>2. CASE BeginFails(r)
      BY <2>2 DEF BeginFails
  <2>3. QED
      BY <2>1, <2>2
<1>4. attempt[r] \in 1..MaxAttempts /\ attempt' = [attempt EXCEPT ![r] = attempt[r]]
    BY <1>1 DEF Counts, Counted
<1>5. "hash" \in Locations /\ "hash" \notin Early
    BY DEF Locations, Early
<1>6. QED
    BY <1>1, <1>3, <1>4, <1>5, OneCounts

LEMMA HashCounts ==
    ASSUME Counts, NEW r \in Requests, Hash(r) \/ HashFails(r) \/ Rejected(r)
    PROVE  Counts'
<1>1. CASE Hash(r)
  <2>1. /\ pc[r] = "hash" /\ Goto(r, "check")
        /\ attempt' = [attempt EXCEPT ![r] = 1] /\ UNCHANGED run
      BY <1>1 DEF Hash
  <2>2. /\ run[r] \in 0..2 /\ run[r] > 0 /\ run' = [run EXCEPT ![r] = run[r]]
        /\ 1 \in 1..MaxAttempts
      BY <2>1, CreationAssumption DEF Counts, Counted, Early
  <2>3. "check" \in Locations /\ "check" \notin Early
      BY DEF Locations, Early
  <2>4. QED
      BY <2>1, <2>2, <2>3, OneCounts
<1>2. CASE HashFails(r) \/ Rejected(r)
    BY <1>2, RaiseCounts DEF HashFails, Rejected, Answers
<1>3. QED
    BY <1>1, <1>2

LEMMA CreateCounts == ASSUME Counts, NEW r \in Requests, Create(r)
                      PROVE  Counts'
<1>1. ASSUME NEW loc \in {"save", "created", "broken"}, Goto(r, loc),
             UNCHANGED <<run, attempt>>, pc[r] \in {"check", "save"}
      PROVE  Counts'
    BY <1>1, MoveCounts DEF Locations, Early
<1>2. ASSUME NEW a \in {"exists", "failed"}, CreateRaises(r, a)
      PROVE  Counts'
    BY <1>2, RaiseCounts DEF CreateRaises, Answers
<1>3. CASE Check(r)
    BY <1>1, <1>3 DEF Check
<1>4. CASE Save(r)
    BY <1>1, <1>4 DEF Save
<1>5. CASE SaveUnacknowledged(r)
    BY <1>1, <1>5 DEF SaveUnacknowledged
<1>6. CASE Refused(r) \/ SaveConflicts(r)
    BY <1>2, <1>6 DEF Refused, SaveConflicts
<1>7. CASE DatabaseFails(r)
    BY <1>7, RetryCounts DEF DatabaseFails
<1>8. QED
    BY <1>3, <1>4, <1>5, <1>6, <1>7 DEF Create

LEMMA CommitCounts == ASSUME Counts, NEW r \in Requests, Commit(r) \/ CommitFails(r)
                      PROVE  Counts'
<1>1. CASE Commit(r)
    BY <1>1, MoveCounts DEF Commit, Finish, Locations, Early
<1>2. CASE CommitFails(r)
    BY <1>2, RaiseCounts DEF CommitFails, RunRaises, Answers
<1>3. QED
    BY <1>1, <1>2

LEMMA StepCounts == Counts /\ [Next]_vars => Counts'
<1> SUFFICES ASSUME Counts, [Next]_vars PROVE Counts'
    OBVIOUS
<1>1. CASE Crash
    BY <1>1 DEF Crash, Counts, Counted, Locations, Early
<1>2. CASE Tick \/ UNCHANGED vars
    BY <1>2 DEF Tick, vars, Counts, Counted
<1>3. ASSUME NEW r \in Requests, Start(r) \/ Step(r) PROVE Counts'
    BY <1>3, LookupCounts, BeginCounts, HashCounts, CreateCounts, CommitCounts DEF Step
<1>4. QED
    BY <1>1, <1>2, <1>3 DEF Next

-----------------------------------------------------------------------------
(* To the breaker, a step is one of its own, a restart of the worker, or    *)
(* nothing.                                                                 *)
BreakerTyped ==
    /\ state \in B!States
    /\ failures \in 0..FailureCap
    /\ age \in {B!NoFailure} \cup 0..B!Elapsed
    /\ streak \in 0..FailureCap

BreakerNew == state = "CLOSED" /\ failures = 0 /\ age = B!NoFailure /\ streak = 0

BreakerStep ==
    \/ UNCHANGED brkVars
    \/ BreakerNew'
    \/ B!Tick
    \/ \E r \in Requests : B!Admit(r) \/ B!OnSuccess(r) \/ B!OnFailure(r)

LEMMA StepIsBreakerStep == [Next]_vars => BreakerStep
<1> SUFFICES ASSUME [Next]_vars PROVE BreakerStep
    OBVIOUS
<1>1. CASE Crash
    BY <1>1 DEF Crash, BreakerStep, BreakerNew, B!NoFailure
<1>2. CASE Tick
    BY <1>2 DEF Tick, BreakerStep
<1>3. CASE UNCHANGED vars
    BY <1>3 DEF vars, BreakerStep
<1>4. ASSUME NEW r \in Requests, Start(r) \/ Lookup(r) PROVE UNCHANGED brkVars
    BY <1>4 DEF Start, Lookup, LookupFinds, LookupFree, LookupFails
<1>5. ASSUME NEW r \in Requests,
             Begin(r) \/ BeginFails(r) \/ HashFails(r) \/ Commit(r) \/ CommitFails(r)
      PROVE  UNCHANGED brkVars
    BY <1>5 DEF Begin, BeginFails, HashFails, Commit, CommitFails
<1>6. ASSUME NEW r \in Requests, Hash(r) \/ Rejected(r)
      PROVE  UNCHANGED brkVars \/ B!Admit(r)
    BY <1>6 DEF Hash, Rejected, B!Reject, B!vars, brkVars
<1>7. ASSUME NEW r \in Requests, Create(r)
      PROVE  UNCHANGED brkVars \/ B!OnSuccess(r) \/ B!OnFailure(r)
    BY <1>7 DEF Create, Check, Refused, DatabaseFails, Save, SaveUnacknowledged,
                SaveConflicts, CreateRaises, RetryCreate
<1>8. QED
    BY <1>1, <1>2, <1>3, <1>4, <1>5, <1>6, <1>7 DEF Next, Step, BreakerStep

LEMMA BreakerStepTyped == BreakerTyped /\ BreakerStep => BreakerTyped'
<1> SUFFICES ASSUME BreakerTyped, BreakerStep PROVE BreakerTyped'
    OBVIOUS
<1> USE CreationAssumption
    DEF BreakerTyped, B!BreakerAssumption, B!States, B!NoFailure, B!Elapsed
<1>1. CASE UNCHANGED brkVars
    BY <1>1 DEF brkVars
<1>2. CASE BreakerNew'
    BY <1>2 DEF BreakerNew
<1>3. CASE B!Tick
    BY <1>3 DEF B!Tick
<1>4. ASSUME NEW r \in Requests, B!Admit(r) PROVE BreakerTyped'
    BY <1>4 DEF B!Admit
<1>5. ASSUME NEW r \in Requests, B!OnSuccess(r) PROVE BreakerTyped'
    BY <1>5 DEF B!OnSuccess
<1>6. ASSUME NEW r \in Requests, B!OnFailure(r) PROVE BreakerTyped'
    BY <1>6 DEF B!OnFailure, B!Saturate
<1>7. QED
    BY <1>1, <1>2, <1>3, <1>4, <1>5, <1>6 DEF BreakerStep

LEMMA InitTyped == Init => Counts /\ BreakerTyped
    BY CreationAssumption
    DEF Init, Counts, Counted, Early, Locations, BreakerTyped, B!BreakerAssumption,
        B!States, B!NoFailure, B!Elapsed

(* The variables of user creation, its breaker's included, keep their types.*)
THEOREM TypeCorrect == Spec => []TypeOK
<1>1. Init => Counts /\ BreakerTyped
    BY InitTyped
<1>2. BreakerTyped /\ [Next]_vars => BreakerTyped'
    BY StepIsBreakerStep, BreakerStepTyped
<1>3. Spec => [](Counts /\ BreakerTyped)
    BY <1>1, <1>2, StepCounts, PTL DEF Spec
<1>4. IInv /\ Counts /\ BreakerTyped => TypeOK
  <2> SUFFICES ASSUME IInv, Counts, BreakerTyped PROVE TypeOK
      OBVIOUS
  <2>1. B!TypeOK
      BY DEF BreakerTyped, B!TypeOK, Admitted
  <2>2. run \in [Requests -> 0..2] /\ attempt \in [Requests -> 1..MaxAttempts]
      BY DEF Counts, Counted
  <2>3. QED
      BY <2>1, <2>2 DEF TypeOK, IInv, Types, Answers, Locations
<1>5. QED
    BY <1>3, <1>4, Inductive, PTL

-----------------------------------------------------------------------------
(* A request reports a failure when it goes from its first run to its       *)
(* second, and when its second run is its last: so the requests in Twice    *)
(* and those in Over pay for one failure each.                              *)
Ran   == {r \in Requests : run[r] > 0}
Twice == {r \in Requests : run[r] = 2}
Over  == {r \in Requests : run[r] > 0 /\ pc[r] = "done"}

Paid == IsFiniteSet(Ran) /\ failures <= Cardinality(Twice) + Cardinality(Over)

PInv == Counts /\ BreakerTyped /\ Paid

(* What a step of request r does to its own counters and to the breaker's.  *)
Costs(r) ==
    \/ failures' <= failures
    \/ /\ failures' <= failures + 1
       /\ \/ run[r] = 1 /\ run'[r] = 2
          \/ run[r] = 2 /\ run'[r] = 2 /\ pc[r] # "done" /\ pc'[r] = "done"

LEMMA RaiseCosts ==
    ASSUME PInv, NEW r \in Requests, NEW a \in Answers,
           pc[r] \in {"check", "save", "broken"}, CreateRaises(r, a)
    PROVE  Costs(r)
<1>1. run[r] \in {1, 2} /\ run \in [Requests -> 0..2] /\ pc \in [Requests -> Locations]
    BY DEF PInv, Counts, Counted, Early
<1>2. failures' <= failures + 1
    BY CreationAssumption
    DEF CreateRaises, B!OnFailure, B!Saturate, B!BreakerAssumption, PInv, BreakerTyped
<1>3. \/ run[r] = 1 /\ run'[r] = 2
      \/ run[r] = 2 /\ run'[r] = 2 /\ pc'[r] = "done"
    BY <1>1 DEF CreateRaises, RunRaises, BeginRun, Finish, Goto
<1>4. QED
    BY <1>2, <1>3 DEF Costs

LEMMA StepCosts ==
    ASSUME PInv, NEW r \in Requests, Start(r) \/ Step(r)
    PROVE  Costs(r)
<1>1. failures \in 0..FailureCap /\ FailureCap \in Nat
    BY CreationAssumption DEF PInv, BreakerTyped, B!BreakerAssumption
<1>2. ASSUME UNCHANGED brkVars \/ B!Admit(r) \/ B!OnSuccess(r) PROVE Costs(r)
  <2>1. failures' = failures \/ failures' = 0
      BY <1>2 DEF brkVars, B!Admit, B!OnSuccess
  <2>2. QED
      BY <1>1, <2>1 DEF Costs
<1>3. CASE Start(r) \/ Lookup(r)
    BY <1>2, <1>3 DEF Start, Lookup, LookupFinds, LookupFree, LookupFails
<1>4. CASE Begin(r) \/ BeginFails(r) \/ HashFails(r) \/ Commit(r) \/ CommitFails(r)
    BY <1>2, <1>4 DEF Begin, BeginFails, HashFails, Commit, CommitFails
<1>5. CASE Hash(r) \/ Rejected(r)
    BY <1>2, <1>5 DEF Hash, Rejected, B!Reject, B!vars, brkVars
<1>6. CASE Check(r) \/ Save(r) \/ SaveUnacknowledged(r)
    BY <1>2, <1>6 DEF Check, Save, SaveUnacknowledged
<1>7. CASE Refused(r) \/ SaveConflicts(r)
    BY <1>7, RaiseCosts DEF Refused, SaveConflicts, Answers
<1>8. CASE DatabaseFails(r)
    BY <1>2, <1>8, RaiseCosts DEF DatabaseFails, RetryCreate, Answers
<1>9. QED
    BY <1>3, <1>4, <1>5, <1>6, <1>7, <1>8 DEF Step, Create

(* A step moves one request only, and that one is neither answered nor      *)
(* ever back from its second run.                                           *)
LEMMA StepMovesOne ==
    ASSUME Counts, NEW r \in Requests, Start(r) \/ Step(r)
    PROVE  /\ pc[r] # "done"
           /\ run[r] = 2 => run'[r] = 2
           /\ \A q \in Requests \ {r} : run'[q] = run[q] /\ pc'[q] = pc[q]
<1> DEFINE Moves == /\ run[r] = 2 => run'[r] = 2
                    /\ \A q \in Requests \ {r} : run'[q] = run[q] /\ pc'[q] = pc[q]
<1>1. run \in [Requests -> 0..2] /\ pc \in [Requests -> Locations]
    BY DEF Counts
<1>2. ASSUME NEW loc, Goto(r, loc), UNCHANGED run PROVE Moves
    BY <1>1, <1>2 DEF Goto
<1>3. ASSUME NEW a, RunRaises(r, a) PROVE Moves
    BY <1>1, <1>3 DEF RunRaises, BeginRun, Finish, Goto
<1>4. CASE Start(r) \/ Lookup(r)
    BY <1>2, <1>4
    DEF Start, Lookup, LookupFinds, LookupFree, LookupFails, Again, Finish
<1>5. CASE Begin(r) \/ BeginFails(r)
  <2>1. pc[r] = "begin" /\ run[r] = 0
      BY <1>5 DEF Begin, BeginFails, Counts, Counted, Early
  <2>2. QED
      BY <1>1, <1>5, <2>1 DEF Begin, BeginFails, BeginRun, Goto
<1>6. CASE Hash(r) \/ HashFails(r) \/ Rejected(r)
    BY <1>2, <1>3, <1>6 DEF Hash, HashFails, Rejected
<1>7. CASE Create(r)
    BY <1>2, <1>3, <1>7
    DEF Create, Check, Refused, DatabaseFails, Save, SaveUnacknowledged,
        SaveConflicts, CreateRaises, RetryCreate, Again
<1>8. CASE Commit(r) \/ CommitFails(r)
    BY <1>1, <1>8 DEF Commit, CommitFails, BeginRun, Finish, Goto
<1>9. QED
    BY <1>4, <1>5, <1>6, <1>7, <1>8
    DEF Start, Step, Lookup, LookupFinds, LookupFree, LookupFails, Begin, BeginFails,
        Hash, HashFails, Rejected, Create, Check, Refused, DatabaseFails, Save,
        SaveUnacknowledged, SaveConflicts, Commit, CommitFails

LEMMA StepPaid == ASSUME PInv, NEW r \in Requests, Start(r) \/ Step(r) PROVE Paid'
<1>1. /\ pc[r] # "done"
      /\ run[r] = 2 => run'[r] = 2
      /\ \A q \in Requests \ {r} : run'[q] = run[q] /\ pc'[q] = pc[q]
    BY StepMovesOne DEF PInv
<1>2. IsFiniteSet(Ran')
  <2>1. IsFiniteSet(Ran \cup {r})
      BY FS_AddElement DEF PInv, Paid
  <2>2. Ran' \subseteq Ran \cup {r}
      BY <1>1 DEF Ran
  <2>3. QED
      BY <2>1, <2>2, FS_Subset
<1>3. Twice \subseteq Twice' /\ Over \subseteq Over'
    BY <1>1 DEF Twice, Over
<1>4. Twice' \subseteq Ran' /\ Over' \subseteq Ran'
    BY DEF Twice, Over, Ran
<1>5. /\ IsFiniteSet(Twice') /\ IsFiniteSet(Over')
      /\ IsFiniteSet(Twice) /\ IsFiniteSet(Over)
    BY <1>2, <1>3, <1>4, FS_Subset
<1>6. /\ Cardinality(Twice) \in Nat /\ Cardinality(Over) \in Nat
      /\ Cardinality(Twice') \in Nat /\ Cardinality(Over') \in Nat
      /\ Cardinality(Twice) <= Cardinality(Twice')
      /\ Cardinality(Over) <= Cardinality(Over')
    BY <1>3, <1>5, FS_CardinalityType, FS_Subset
<1>7. failures \in Nat /\ failures' \in Nat
    BY CreationAssumption, StepIsBreakerStep, BreakerStepTyped
    DEF PInv, BreakerTyped, B!BreakerAssumption, Next
<1>8. failures <= Cardinality(Twice) + Cardinality(Over)
    BY DEF PInv, Paid
<1>9. CASE failures' <= failures
    BY <1>2, <1>6, <1>7, <1>8, <1>9 DEF Paid
<1>10. CASE failures' <= failures + 1 /\ run[r] = 1 /\ run'[r] = 2
  <2>1. r \notin Twice /\ Twice \cup {r} \subseteq Twice'
      BY <1>3, <1>10 DEF Twice
  <2>2. Cardinality(Twice \cup {r}) = Cardinality(Twice) + 1
      BY <1>5, <2>1, FS_AddElement
  <2>3. Cardinality(Twice) + 1 <= Cardinality(Twice')
      BY <1>5, <2>1, <2>2, FS_Subset
  <2>4. QED
      BY <1>2, <1>6, <1>7, <1>8, <1>10, <2>3 DEF Paid
<1>11. CASE failures' <= failures + 1 /\ run'[r] = 2 /\ pc'[r] = "done"
  <2>1. r \notin Over /\ Over \cup {r} \subseteq Over'
      BY <1>1, <1>3, <1>11 DEF Over
  <2>2. Cardinality(Over \cup {r}) = Cardinality(Over) + 1
      BY <1>5, <2>1, FS_AddElement
  <2>3. Cardinality(Over) + 1 <= Cardinality(Over')
      BY <1>5, <2>1, <2>2, FS_Subset
  <2>4. QED
      BY <1>2, <1>6, <1>7, <1>8, <1>11, <2>3 DEF Paid
<1>12. QED
    BY <1>9, <1>10, <1>11, StepCosts DEF Costs

LEMMA StepPInv == PInv /\ [Next]_vars => PInv'
<1> SUFFICES ASSUME PInv, [Next]_vars PROVE PInv'
    OBVIOUS
<1>1. Counts' /\ BreakerTyped'
    BY StepCounts, StepIsBreakerStep, BreakerStepTyped DEF PInv
<1>2. CASE Crash
  <2>1. failures' = 0 /\ Ran' = Ran
      BY <1>2 DEF Crash, Ran
  <2>2. Twice' \subseteq Ran' /\ Over' \subseteq Ran'
      BY DEF Twice, Over, Ran
  <2>3. Cardinality(Twice)' \in Nat /\ Cardinality(Over)' \in Nat
      BY <2>1, <2>2, FS_Subset, FS_CardinalityType DEF PInv, Paid
  <2>4. QED
      BY <1>1, <2>1, <2>3 DEF PInv, Paid
<1>3. CASE Tick \/ UNCHANGED vars
    BY <1>1, <1>3 DEF Tick, B!Tick, vars, brkVars, PInv, Paid, Ran, Twice, Over
<1>4. ASSUME NEW r \in Requests, Start(r) \/ Step(r) PROVE PInv'
    BY <1>1, <1>4, StepPaid DEF PInv
<1>5. QED
    BY <1>2, <1>3, <1>4 DEF Next

LEMMA PaidInvariance == Spec => []PInv
<1>1. Init => PInv
  <2> SUFFICES ASSUME Init PROVE PInv
      OBVIOUS
  <2>1. Counts /\ BreakerTyped
      BY InitTyped
  <2>2. Ran = {} /\ Twice = {} /\ Over = {} /\ failures = 0
      BY DEF Init, Ran, Twice, Over
  <2>3. QED
      BY <2>1, <2>2, FS_EmptySet DEF PInv, Paid
<1>2. QED
    BY <1>1, StepPInv, PTL DEF Spec

LEMMA PaidForTwice ==
    ASSUME PInv PROVE Cardinality(Ran) \in Nat /\ failures <= 2 * Cardinality(Ran)
<1>1. Twice \subseteq Ran /\ Over \subseteq Ran /\ IsFiniteSet(Ran)
    BY DEF Twice, Over, Ran, PInv, Paid
<1>2. /\ Cardinality(Ran) \in Nat
      /\ Cardinality(Twice) \in Nat /\ Cardinality(Twice) <= Cardinality(Ran)
      /\ Cardinality(Over) \in Nat /\ Cardinality(Over) <= Cardinality(Ran)
    BY <1>1, FS_Subset, FS_CardinalityType
<1>3. failures \in Int /\ failures <= Cardinality(Twice) + Cardinality(Over)
    BY DEF PInv, Paid, BreakerTyped
<1>4. QED
    BY <1>2, <1>3

(* However often it retries, a request costs the breaker that all requests  *)
(* share at most two failures.                                              *)
THEOREM ReportsAreBounded == Spec => []ReportsBounded
<1>1. PInv => ReportsBounded
    BY PaidForTwice DEF ReportsBounded, Ran
<1>2. QED
    BY <1>1, PaidInvariance, PTL

-----------------------------------------------------------------------------
(* The breaker again, this time with the requests it has admitted.  A       *)
(* request that leaves "check", "save" and "broken" reports on its way, and *)
(* one that stays among them does not.                                      *)
Inside == {"check", "save", "broken"}

LEMMA AdmittedMove ==
    ASSUME pc \in [Requests -> Locations], NEW r \in Requests,
           NEW loc \in Locations, Goto(r, loc)
    PROVE  /\ loc \in Inside /\ pc[r] \in Inside => UNCHANGED Admitted
           /\ loc \notin Inside /\ pc[r] \notin Inside => UNCHANGED Admitted
    BY DEF Goto, Admitted, Inside

LEMMA RaiseLeaves ==
    ASSUME pc \in [Requests -> Locations], NEW r \in Requests, NEW a \in Answers,
           RunRaises(r, a), pc[r] \notin Inside
    PROVE  UNCHANGED Admitted
<1>1. \E loc \in {"hash", "done"} : Goto(r, loc)
    BY DEF RunRaises, BeginRun, Finish
<1>2. QED
    BY <1>1, AdmittedMove DEF Locations, Inside

LEMMA StepDrives ==
    ASSUME pc \in [Requests -> Locations], NEW r \in Requests, Start(r) \/ Step(r)
    PROVE  [B!Next]_(B!vars)
<1>1. ASSUME UNCHANGED brkVars, UNCHANGED Admitted PROVE [B!Next]_(B!vars)
    BY <1>1 DEF B!vars, brkVars
<1>2. ASSUME UNCHANGED brkVars,
             NEW loc \in Locations, Goto(r, loc), loc \in Inside <=> pc[r] \in Inside
      PROVE  [B!Next]_(B!vars)
    BY <1>1, <1>2, AdmittedMove
<1>3. CASE Start(r) \/ Lookup(r)
  <2>1. /\ UNCHANGED brkVars /\ pc[r] \in {"new", "lookup"}
        /\ \E loc \in {"lookup", "begin", "done"} : Goto(r, loc)
      BY <1>3 DEF Start, Lookup, LookupFinds, LookupFree, LookupFails, Finish, Again
  <2>2. QED
      BY <1>2, <2>1 DEF Locations, Inside
<1>4. CASE Begin(r) \/ BeginFails(r) \/ Commit(r) \/ CommitFails(r)
  <2>1. /\ UNCHANGED brkVars /\ pc[r] \in {"begin", "created"}
        /\ \E loc \in {"hash", "done"} : Goto(r, loc)
      BY <1>4 DEF Begin, BeginFails, Commit, CommitFails, BeginRun, Finish
  <2>2. QED
      BY <1>2, <2>1 DEF Locations, Inside
<1>5. CASE Hash(r)
    BY <1>5 DEF Hash, B!Next
<1>6. CASE HashFails(r) \/ Rejected(r)
  <2>1. UNCHANGED Admitted
      BY <1>6, RaiseLeaves DEF HashFails, Rejected, Answers, Inside
  <2>2. UNCHANGED brkVars
      BY <1>6 DEF HashFails, Rejected, B!Reject, B!vars, brkVars
  <2>3. QED
      BY <1>1, <2>1, <2>2
<1>7. ASSUME NEW a \in Answers, CreateRaises(r, a) PROVE [B!Next]_(B!vars)
    BY <1>7 DEF CreateRaises, B!Next
<1>8. CASE Check(r) \/ SaveUnacknowledged(r)
  <2>1. /\ UNCHANGED brkVars /\ pc[r] \in Inside
        /\ \E loc \in Inside : Goto(r, loc)
      BY <1>8 DEF Check, SaveUnacknowledged, Inside
  <2>2. QED
      BY <1>2, <2>1 DEF Locations, Inside
<1>9. CASE Refused(r) \/ SaveConflicts(r)
    BY <1>7, <1>9 DEF Refused, SaveConflicts, Answers
<1>10. CASE DatabaseFails(r)
  <2>1. pc[r] \in Inside /\ RetryCreate(r)
      BY <1>10 DEF DatabaseFails, Inside
  <2>2. CASE Again(r, "check") /\ UNCHANGED brkVars
    <3>1. UNCHANGED brkVars /\ Goto(r, "check") /\ "check" \in Inside
        BY <2>2 DEF Again, Inside
    <3>2. QED
        BY <1>2, <2>1, <3>1 DEF Locations
  <2>3. QED
      BY <1>7, <2>1, <2>2 DEF RetryCreate, Answers
<1>11. CASE Save(r)
    BY <1>11 DEF Save, B!Next
<1>12. QED
    BY <1>3, <1>4, <1>5, <1>6, <1>8, <1>9, <1>10, <1>11 DEF Step, Create

LEMMA BreakerDriven ==
    ASSUME pc \in [Requests -> Locations], [Next]_vars
    PROVE  [B!Next \/ B!Init']_(B!vars)
<1>1. CASE Crash
  <2>1. Admitted' = {}
      BY <1>1 DEF Crash, Admitted
  <2>2. QED
      BY <1>1, <2>1 DEF Crash, B!Init, B!NoFailure
<1>2. CASE Tick
    BY <1>2 DEF Tick, B!Next
<1>3. CASE UNCHANGED vars
    BY <1>3 DEF vars, B!vars, brkVars, Admitted
<1>4. ASSUME NEW r \in Requests, Start(r) \/ Step(r) PROVE [B!Next]_(B!vars)
    BY <1>4, StepDrives
<1>5. QED
    BY <1>1, <1>2, <1>3, <1>4 DEF Next

(* Between two restarts of the worker the requests use the breaker of       *)
(* create as its specification says: a run that was admitted reports once,  *)
(* however often it was retried, and one that was turned away does not.     *)
THEOREM BreakerIsDriven == Spec => BreakerProtocol
<1>1. Init => B!Init
    BY DEF Init, B!Init, Admitted
<1>2. IInv /\ [Next]_vars => [B!Next \/ B!Init']_(B!vars)
    BY BreakerDriven DEF IInv, Types
<1>3. QED
    BY <1>1, <1>2, Inductive, PTL DEF Spec, BreakerProtocol

-----------------------------------------------------------------------------
(* The state of the breaker and its counter agree, restarts or not.         *)
LEMMA ConsistentStep == BreakerTyped /\ B!Consistent /\ BreakerStep => B!Consistent'
<1> SUFFICES ASSUME BreakerTyped, B!Consistent, BreakerStep PROVE B!Consistent'
    OBVIOUS
<1> USE CreationAssumption
    DEF BreakerTyped, B!BreakerAssumption, B!States, B!NoFailure, B!Elapsed, B!Consistent
<1>1. CASE UNCHANGED brkVars
    BY <1>1 DEF brkVars
<1>2. CASE BreakerNew'
    BY <1>2 DEF BreakerNew
<1>3. CASE B!Tick
    BY <1>3 DEF B!Tick
<1>4. ASSUME NEW r \in Requests, B!Admit(r) PROVE B!Consistent'
    BY <1>4 DEF B!Admit
<1>5. ASSUME NEW r \in Requests, B!OnSuccess(r) PROVE B!Consistent'
    BY <1>5 DEF B!OnSuccess
<1>6. ASSUME NEW r \in Requests, B!OnFailure(r) PROVE B!Consistent'
    BY <1>6 DEF B!OnFailure, B!Saturate
<1>7. QED
    BY <1>1, <1>2, <1>3, <1>4, <1>5, <1>6 DEF BreakerStep

LEMMA BreakerConsistent == Spec => [](BreakerTyped /\ B!Consistent)
<1>1. Init => BreakerTyped /\ B!Consistent
    BY InitTyped, CreationAssumption DEF Init, B!Consistent, B!BreakerAssumption
<1>2. BreakerTyped /\ B!Consistent /\ [Next]_vars => BreakerTyped' /\ B!Consistent'
    BY StepIsBreakerStep, BreakerStepTyped, ConsistentStep
<1>3. QED
    BY <1>1, <1>2, PTL DEF Spec

(* The breaker of create is not closed only after half as many requests as  *)
(* its threshold have run: a request costs it two failures at most.         *)
THEOREM OneDoesNotOpen == Spec => []OpenedByMany
<1>1. PInv /\ B!Consistent => OpenedByMany
  <2> SUFFICES ASSUME PInv, B!Consistent, state # "CLOSED"
               PROVE  2 * Cardinality(Ran) >= Threshold
      BY DEF OpenedByMany, Ran
  <2>1. failures \in Nat /\ Threshold \in Nat /\ failures >= Threshold
      BY CreationAssumption DEF PInv, BreakerTyped, B!Consistent, B!BreakerAssumption
  <2>2. Cardinality(Ran) \in Nat /\ failures <= 2 * Cardinality(Ran)
      BY PaidForTwice
  <2>3. QED
      BY <2>1, <2>2
<1>2. QED
    BY <1>1, BreakerConsistent, PaidInvariance, PTL

-----------------------------------------------------------------------------
(* What the promise of Registration comes to, whoever keeps it.             *)
TruthInv == answer \in [Requests -> Answers] /\ R!Truthful

LEMMA TellTruth ==
    ASSUME TruthInv, NEW r \in Requests, NEW a \in Answers,
           R!Tell(r, a), UNCHANGED <<owner, doubt>>,
           a = "created" => owner = r,
           a = "exists" => owner \notin {NoOne, r},
           a = "failed" /\ owner = r => r \in doubt
    PROVE  TruthInv'
<1>1. answer' = [answer EXCEPT ![r] = a] /\ answer' \in [Requests -> Answers]
    BY DEF R!Tell, TruthInv
<1>2. QED
    BY <1>1 DEF TruthInv, R!Truthful

LEMMA TruthStep == TruthInv /\ [R!Next]_R!rvars => TruthInv'
<1> SUFFICES ASSUME TruthInv, [R!Next]_R!rvars PROVE TruthInv'
    OBVIOUS
<1>1. CASE R!Die
    BY <1>1 DEF R!Die, TruthInv, R!Truthful, Answers
<1>2. ASSUME NEW r \in Requests, R!Register(r) PROVE TruthInv'
  <2>1. /\ answer[r] = "pending" /\ owner = NoOne /\ owner' = r
        /\ doubt \subseteq doubt' /\ UNCHANGED answer /\ r # NoOne
      BY <1>2, CreationAssumption DEF R!Register, R!Pending
  <2>2. ASSUME NEW q \in Requests
        PROVE /\ answer[q] = "created" => owner' = q
              /\ answer[q] = "exists" => owner' \notin {NoOne, q}
              /\ answer[q] = "failed" /\ owner' = q => q \in doubt'
    <3>1. answer[q] \notin {"created", "exists"}
        BY <2>1, CreationAssumption DEF TruthInv, R!Truthful
    <3>2. QED
        BY <2>1, <3>1
  <2>3. QED
      BY <2>1, <2>2 DEF TruthInv, R!Truthful
<1>3. ASSUME NEW r \in Requests, R!LoseAnswer(r) PROVE TruthInv'
    BY <1>3 DEF R!LoseAnswer, TruthInv, R!Truthful
<1>4. ASSUME NEW r \in Requests, R!Confirm(r) \/ R!Decline(r) \/ R!Fail(r) PROVE TruthInv'
    BY <1>4, TellTruth DEF R!Confirm, R!Decline, R!Fail, Answers
<1>5. CASE UNCHANGED R!rvars
    BY <1>5 DEF R!rvars, TruthInv, R!Truthful
<1>6. QED
    BY <1>1, <1>2, <1>3, <1>4, <1>5 DEF R!Next

(* Whoever keeps the promise of Registration tells the truth.               *)
THEOREM PromiseIsTruthful == R!Spec => []R!Truthful
<1>1. R!Init => TruthInv
    BY DEF R!Init, TruthInv, R!Truthful, Answers
<1>2. TruthInv => R!Truthful
    BY DEF TruthInv
<1>3. QED
    BY <1>1, <1>2, TruthStep, PTL DEF R!Spec

(* So no race, retry, lost acknowledgement or crash makes user creation     *)
(* tell two requests that they have the account, or one something untrue.   *)
THEOREM AnswersAreTrue == Spec => []R!Truthful
    BY PromiseKept, PromiseIsTruthful DEF KeepsPromise
=============================================================================
