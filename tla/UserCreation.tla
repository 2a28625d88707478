---------------------------- MODULE UserCreation ----------------------------
(***************************************************************************)
(* CreateUserUseCase run by BaseUseCase.execute over UserRepository.create, *)
(* for several requests that register the same e-mail address in one worker *)
(* process.  The insert runs on a connection of its own, in autocommit      *)
(* mode, so neither the transaction of the use case nor that of with_retry  *)
(* can take it back.                                                        *)
(***************************************************************************)
EXTENDS Integers, FiniteSets

CONSTANTS
    Requests, NoOne,
    MaxAttempts,   \* max_attempts of with_retry, 3 in the code
    Threshold, RecoveryTimeout, FailureCap   \* of the repository's breaker

VARIABLES
    owner, doubt, answer,          \* see Registration
    pc,                            \* where each request is suspended
    run,                           \* 1 in the transaction, 2 in the fallback
    attempt,                       \* attempt of with_retry
    state, failures, age, streak   \* the breaker of create, see CircuitBreaker

brkVars == <<state, failures, age, streak>>
vars    == <<owner, doubt, answer, pc, run, attempt, brkVars>>

Admitted == {r \in Requests : pc[r] \in {"check", "save", "broken"}}

R == INSTANCE Registration
B == INSTANCE CircuitBreaker WITH Callers <- Requests, inFlight <- Admitted

ASSUME CreationAssumption ==
    /\ NoOne \notin Requests
    /\ B!BreakerAssumption
    /\ MaxAttempts \in Nat \ {0}

Init ==
    /\ R!Init
    /\ pc = [r \in Requests |-> "new"]
    /\ run = [r \in Requests |-> 0]
    /\ attempt = [r \in Requests |-> 1]
    /\ state = "CLOSED" /\ failures = 0 /\ age = B!NoFailure /\ streak = 0

-----------------------------------------------------------------------------
Goto(r, loc) == pc' = [pc EXCEPT ![r] = loc]

Finish(r, a) == Goto(r, "done") /\ R!Tell(r, a) /\ UNCHANGED run

(* _on_execute begins.                                                      *)
BeginRun(r) ==
    /\ Goto(r, "hash")
    /\ run' = [run EXCEPT ![r] = @ + 1]
    /\ UNCHANGED answer

(* Mutant of RunRaises: the body gets a third run.                          *)
RunRaisesThrice(r, a) == IF run[r] < 3 THEN BeginRun(r) ELSE Finish(r, a)

(* _on_execute raised, or the transaction around it did: the handler of     *)
(* _execute_main_logic catches every exception, and runs it once more.  The *)
(* second time the exception is the answer.                                 *)
RunRaises(r, a) == IF run[r] < 2 THEN BeginRun(r) ELSE Finish(r, a)

(* Mutant of Again: one attempt too many.                                   *)
AgainOnceMore(r, loc) ==
    /\ attempt[r] <= MaxAttempts
    /\ attempt' = [attempt EXCEPT ![r] = @ + 1]
    /\ Goto(r, loc)
    /\ UNCHANGED <<answer, run>>

(* Mutant of Again: attempts are not counted.                               *)
AgainForever(r, loc) ==
    /\ Goto(r, loc)
    /\ UNCHANGED <<answer, run, attempt>>

Again(r, loc) ==
    /\ attempt[r] < MaxAttempts
    /\ attempt' = [attempt EXCEPT ![r] = @ + 1]
    /\ Goto(r, loc)
    /\ UNCHANGED <<answer, run>>

(* create raised: the breaker counts it, whatever it was.                   *)
CreateRaises(r, a) == RunRaises(r, a) /\ UNCHANGED attempt /\ B!OnFailure(r)

(* Mutant of RetryCreate: the breaker counts every attempt.                 *)
RetryCreateCounting(r) ==
    \/ /\ Again(r, "check")
       /\ failures' = B!Saturate(failures + 1)
       /\ streak' = B!Saturate(streak + 1)
       /\ age' = 0
       /\ state' = IF failures' >= Threshold THEN "OPEN" ELSE state
    \/ attempt[r] = MaxAttempts /\ CreateRaises(r, "failed")

(* A DatabaseError in create: with_retry tries again, up to MaxAttempts.    *)
RetryCreate(r) ==
    \/ Again(r, "check") /\ UNCHANGED brkVars
    \/ attempt[r] = MaxAttempts /\ CreateRaises(r, "failed")

-----------------------------------------------------------------------------
(* _before_execute.  The schema check comes before the look-up, the check   *)
(* of the password after it.                                                *)
Start(r) ==
    /\ pc[r] = "new"
    /\ UNCHANGED <<run, owner, doubt, attempt, brkVars>>
    /\ \/ Goto(r, "lookup") /\ UNCHANGED answer
       \/ Finish(r, "failed")

LookupFinds(r) ==
    /\ pc[r] = "lookup"
    /\ owner # NoOne
    /\ Finish(r, "exists")
    /\ UNCHANGED <<owner, doubt, attempt, brkVars>>

LookupFree(r) ==
    /\ pc[r] = "lookup"
    /\ owner = NoOne
    /\ UNCHANGED <<run, owner, doubt, attempt, brkVars>>
    /\ \/ Goto(r, "begin") /\ UNCHANGED answer
       \/ Finish(r, "failed")

LookupFails(r) ==
    /\ pc[r] = "lookup"
    /\ \/ Again(r, "lookup")
       \/ attempt[r] = MaxAttempts /\ Finish(r, "failed") /\ UNCHANGED attempt
    /\ UNCHANGED <<owner, doubt, brkVars>>

(* _run_transaction enters transaction.atomic(), or cannot: then the        *)
(* fallback is the first run of the body.                                   *)
Begin(r) ==
    /\ pc[r] = "begin"
    /\ BeginRun(r)
    /\ UNCHANGED <<owner, doubt, attempt, brkVars>>

BeginFails(r) ==
    /\ pc[r] = "begin"
    /\ Goto(r, "hash")
    /\ run' = [run EXCEPT ![r] = 2]
    /\ UNCHANGED <<owner, doubt, answer, attempt, brkVars>>

(* The password is hashed, and create passes its breaker or is turned away, *)
(* which the breaker does not count.                                        *)
Hash(r) ==
    /\ pc[r] = "hash"
    /\ Goto(r, "check")
    /\ attempt' = [attempt EXCEPT ![r] = 1]
    /\ B!Admit(r)
    /\ UNCHANGED <<owner, doubt, answer, run>>

HashFails(r) ==
    /\ pc[r] = "hash"
    /\ RunRaises(r, "failed")
    /\ UNCHANGED <<owner, doubt, attempt, brkVars>>

Rejected(r) ==
    /\ pc[r] = "hash"
    /\ RunRaises(r, "failed")
    /\ B!Reject(r)
    /\ UNCHANGED <<owner, doubt, attempt>>

(* full_clean finds no account with this address.                           *)
Check(r) ==
    /\ pc[r] = "check"
    /\ owner = NoOne
    /\ Goto(r, "save")
    /\ UNCHANGED <<owner, doubt, answer, run, attempt, brkVars>>

(* Mutant of Refused: the handler catches Django's ValidationError, and     *)
(* takes the address found for somebody else's.                             *)
RefusedAsDuplicate(r) ==
    /\ pc[r] = "check"
    /\ CreateRaises(r, IF owner = NoOne THEN "failed" ELSE "exists")
    /\ UNCHANGED <<owner, doubt>>

(* full_clean finds one, or does not like the data, or no id can be made.   *)
(* Its ValidationError is Django's; the handler is for Pydantic's.          *)
Refused(r) ==
    /\ pc[r] = "check"
    /\ CreateRaises(r, "failed")
    /\ UNCHANGED <<owner, doubt>>

(* The database fails before the insert takes effect, or another row has    *)
(* the same id (an IntegrityError, which with_retry retries).               *)
DatabaseFails(r) ==
    /\ pc[r] \in {"check", "save", "broken"}
    /\ RetryCreate(r)
    /\ UNCHANGED <<owner, doubt>>

Save(r) ==
    /\ pc[r] = "save"
    /\ owner = NoOne
    /\ owner' = r
    /\ Goto(r, "created")
    /\ B!OnSuccess(r)
    /\ UNCHANGED <<doubt, answer, run, attempt>>

(* The row is there, but the acknowledgement, or that of the transaction of *)
(* with_retry, never arrives.                                               *)
SaveUnacknowledged(r) ==
    /\ pc[r] = "save"
    /\ owner = NoOne
    /\ owner' = r
    /\ doubt' = doubt \cup {r}
    /\ Goto(r, "broken")
    /\ UNCHANGED <<answer, run, attempt, brkVars>>

(* Another request was faster: UserAlreadyExistsException.                  *)
SaveConflicts(r) ==
    /\ pc[r] = "save"
    /\ owner # NoOne
    /\ CreateRaises(r, "exists")
    /\ UNCHANGED <<owner, doubt>>

(* The transaction of the first run ends, and the entity is the answer.     *)
Commit(r) ==
    /\ pc[r] = "created"
    /\ Finish(r, "created")
    /\ UNCHANGED <<owner, doubt, attempt, brkVars>>

CommitFails(r) ==
    /\ pc[r] = "created" /\ run[r] = 1
    /\ doubt' = doubt \cup {r}
    /\ BeginRun(r)
    /\ UNCHANGED <<owner, attempt, brkVars>>

-----------------------------------------------------------------------------
(* The worker is killed and restarted: its breaker is as new.               *)
Crash ==
    /\ R!Die
    /\ pc' = [r \in Requests |-> IF pc[r] = "new" THEN "new" ELSE "done"]
    /\ \A r \in Requests : answer'[r] = "pending" <=> pc[r] = "new"
    /\ state' = "CLOSED" /\ failures' = 0 /\ age' = B!NoFailure /\ streak' = 0
    /\ UNCHANGED <<run, attempt>>

Tick == UNCHANGED <<owner, doubt, answer, pc, run, attempt>> /\ B!Tick

Lookup(r) == LookupFinds(r) \/ LookupFree(r) \/ LookupFails(r)

Create(r) ==
    \/ Check(r) \/ Refused(r) \/ DatabaseFails(r)
    \/ Save(r) \/ SaveUnacknowledged(r) \/ SaveConflicts(r)

Step(r) ==
    \/ Lookup(r)
    \/ Begin(r) \/ BeginFails(r)
    \/ Hash(r) \/ HashFails(r) \/ Rejected(r)
    \/ Create(r)
    \/ Commit(r) \/ CommitFails(r)

Next ==
    \/ Crash \/ Tick
    \/ \E r \in Requests : Start(r) \/ Step(r)

Spec == Init /\ [][Next]_vars

(* A request that was accepted runs on: each await in it ends.  Nobody has  *)
(* to submit anything, and the database may fail every time.                *)
FairSpec == Spec /\ \A r \in Requests : WF_vars(Step(r))

-----------------------------------------------------------------------------
(* Type invariant.                                                          *)
TypeOK ==
    /\ B!TypeOK
    /\ owner \in Requests \cup {NoOne}
    /\ doubt \subseteq Requests
    /\ answer \in [Requests -> {"pending", "created", "exists", "failed", "nothing"}]
    /\ pc \in [Requests -> {"new", "lookup", "begin", "hash", "check", "save",
                            "broken", "created", "done"}]
    /\ run \in [Requests -> 0..2]
    /\ attempt \in [Requests -> 1..MaxAttempts]

(* Registration implements its promise across the look-up race, retries     *)
(* whose first attempt did commit, the second run and crashes: "created"    *)
(* goes to the owner alone, "exists" to somebody else, and "failed" to the  *)
(* owner only after a lost acknowledgement.                                 *)
KeepsPromise == R!Spec

(* A request reports at most two failures to the breaker all others share,  *)
(* one per run, however often it retried.                                   *)
ReportsBounded == failures <= 2 * Cardinality({r \in Requests : run[r] > 0})

(* Requests use the breaker of create as it is meant to be used, until the  *)
(* worker is restarted: each run reports its outcome at most once, and only *)
(* a run that was admitted does, however often it was retried.              *)
BreakerProtocol == B!Init /\ [][B!Next \/ B!Init']_(B!vars)

(* The breaker of create, which every failed registration counts against,   *)
(* duplicates and refused data included, turns requests away only after     *)
(* many of them have run: one request that fails and is retried over and    *)
(* over does not close registration to the others.                          *)
OpenedByMany ==
    state # "CLOSED" => 2 * Cardinality({r \in Requests : run[r] > 0}) >= Threshold

(* Every accepted request is answered (or its worker dies), even if the     *)
(* database never works: retries and the second run are bounded.            *)
RequestsEnd == \A r \in Requests : pc[r] = "lookup" ~> pc[r] = "done"

(* Comment in _execute_main_logic: "If there's an async-sync conflict, fall *)
(* back to non-transactional".  The body does not run again once it ran.    *)
FallbackOnlyOnConflict ==
    [][ \A r \in Requests : run[r] = 1 => run'[r] = 1 ]_vars
=============================================================================
