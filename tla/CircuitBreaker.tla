--------------------------- MODULE CircuitBreaker ---------------------------
(***************************************************************************)
(* The circuit breaker of the Redis client (apps/core/cache/async_cache.py, *)
(* class CircuitBreaker).  A caller asks can_execute before it touches      *)
(* Redis and reports the outcome with on_success or on_failure, possibly    *)
(* much later and after other callers have moved the breaker; a caller that *)
(* is cancelled reports nothing.                                            *)
(***************************************************************************)
EXTENDS Integers

CONSTANTS
    Callers,          \* asyncio tasks that use the breaker
    Threshold,        \* failure_threshold (5 in the code)
    RecoveryTimeout,  \* recovery_timeout, in ticks (60 s in the code)
    FailureCap        \* bound: the counter saturates here, above Threshold

(* What the modules that use a breaker assume of these constants.           *)
BreakerAssumption ==
    /\ Threshold \in Nat \ {0}
    /\ RecoveryTimeout \in Nat
    /\ FailureCap \in Nat
    /\ FailureCap >= Threshold

VARIABLES
    state,     \* "CLOSED", "OPEN" or "HALF_OPEN"
    failures,  \* failures counted since the breaker last closed
    age,       \* ticks since last_failure_time, NoFailure while it is None
    inFlight,  \* callers admitted by can_execute that have not reported yet
    streak     \* history: failures reported since the last reported success

breakerVars == <<state, failures, age, streak>>
vars == <<state, failures, age, inFlight, streak>>

NoFailure == -1
Elapsed   == RecoveryTimeout + 1   \* ages beyond the timeout are all alike
States    == {"CLOSED", "OPEN", "HALF_OPEN"}

Saturate(n) == IF n < FailureCap THEN n ELSE FailureCap

Init ==
    /\ state = "CLOSED"
    /\ failures = 0
    /\ age = NoFailure
    /\ inFlight = {}
    /\ streak = 0

-----------------------------------------------------------------------------
(* Mutant of Admit: the timeout test is not strict.                         *)
AdmitAtTimeout(c) ==
    /\ c \notin inFlight
    /\ \/ state # "OPEN" /\ UNCHANGED state
       \/ state = "OPEN" /\ age >= RecoveryTimeout /\ state' = "HALF_OPEN"
    /\ inFlight' = inFlight \cup {c}
    /\ UNCHANGED <<failures, age, streak>>

(* Mutant of Admit: half-opening clears the counter.                        *)
AdmitClearing(c) ==
    /\ c \notin inFlight
    /\ \/ state # "OPEN" /\ UNCHANGED <<state, failures>>
       \/ state = "OPEN" /\ age > RecoveryTimeout /\ state' = "HALF_OPEN" /\ failures' = 0
    /\ inFlight' = inFlight \cup {c}
    /\ UNCHANGED <<age, streak>>

(* can_execute answers True: at once unless OPEN, and from OPEN only when   *)
(* the last failure is older than the timeout, which half-opens the breaker.*)
Admit(c) ==
    /\ c \notin inFlight
    /\ \/ /\ state # "OPEN"
          /\ UNCHANGED state
       \/ /\ state = "OPEN"
          /\ age > RecoveryTimeout
          /\ state' = "HALF_OPEN"
    /\ inFlight' = inFlight \cup {c}
    /\ UNCHANGED <<failures, age, streak>>

(* can_execute answers False.                                               *)
Reject(c) ==
    /\ c \notin inFlight
    /\ state = "OPEN"
    /\ age <= RecoveryTimeout
    /\ UNCHANGED vars

(* Mutant of OnSuccess: a success while closed takes one failure back.      *)
OnSuccessDecays(c) ==
    /\ c \in inFlight
    /\ inFlight' = inFlight \ {c}
    /\ failures' = IF state = "HALF_OPEN" THEN 0 ELSE failures - 1
    /\ state' = IF state = "HALF_OPEN" THEN "CLOSED" ELSE state
    /\ streak' = 0
    /\ UNCHANGED age

OnSuccess(c) ==
    /\ c \in inFlight
    /\ inFlight' = inFlight \ {c}
    /\ IF state = "HALF_OPEN"
         THEN state' = "CLOSED" /\ failures' = 0
         ELSE UNCHANGED <<state, failures>>
    /\ streak' = 0
    /\ UNCHANGED age

(* Mutant of OnFailure: the breaker trips one failure late.                 *)
OnFailureLate(c) ==
    /\ c \in inFlight
    /\ inFlight' = inFlight \ {c}
    /\ failures' = Saturate(failures + 1)
    /\ streak' = Saturate(streak + 1)
    /\ age' = 0
    /\ state' = IF failures' > Threshold THEN "OPEN" ELSE state

(* Mutant of OnFailure: a failure long after the last one counts from one.  *)
OnFailureForgetful(c) ==
    /\ c \in inFlight
    /\ inFlight' = inFlight \ {c}
    /\ failures' = IF age = Elapsed THEN 1 ELSE Saturate(failures + 1)
    /\ streak' = Saturate(streak + 1)
    /\ age' = 0
    /\ state' = IF failures' >= Threshold THEN "OPEN" ELSE state

(* Mutant of OnFailure: the time of the failure is not kept.                *)
OnFailureUntimed(c) ==
    /\ c \in inFlight
    /\ inFlight' = inFlight \ {c}
    /\ failures' = Saturate(failures + 1)
    /\ streak' = Saturate(streak + 1)
    /\ state' = IF failures' >= Threshold THEN "OPEN" ELSE state
    /\ UNCHANGED age

OnFailure(c) ==
    /\ c \in inFlight
    /\ inFlight' = inFlight \ {c}
    /\ failures' = Saturate(failures + 1)
    /\ streak' = Saturate(streak + 1)
    /\ age' = 0
    /\ state' = IF failures' >= Threshold THEN "OPEN" ELSE state

(* The caller is cancelled: CancelledError is no Exception, so neither      *)
(* handler of _execute_with_circuit_breaker runs.                           *)
Abandon(c) ==
    /\ c \in inFlight
    /\ inFlight' = inFlight \ {c}
    /\ UNCHANGED breakerVars

Tick ==
    /\ age \in 0..RecoveryTimeout
    /\ age' = age + 1
    /\ UNCHANGED <<state, failures, inFlight, streak>>

Next ==
    \/ Tick
    \/ \E c \in Callers : Admit(c) \/ Reject(c)
    \/ \E c \in Callers : OnSuccess(c)
    \/ \E c \in Callers : OnFailure(c)
    \/ \E c \in Callers : Abandon(c)

Spec == Init /\ [][Next]_vars

-----------------------------------------------------------------------------
(* Type invariant of the breaker's state.                                   *)
TypeOK ==
    /\ state \in States
    /\ failures \in 0..FailureCap
    /\ age \in {NoFailure} \cup 0..Elapsed
    /\ inFlight \subseteq Callers
    /\ streak \in 0..FailureCap

(* The state and the counter tell the same story: a closed breaker is below *)
(* the threshold, an open or half-open one has reached it and knows when,   *)
(* so the test `self.last_failure_time and ...` can never strand it OPEN.   *)
Consistent ==
    /\ state = "CLOSED" <=> failures < Threshold
    /\ state # "CLOSED" => age # NoFailure

(* The failure streak never exceeds the counter that trips the breaker:     *)
(* Threshold consecutive failures always leave the breaker open.            *)
StreakTrips == streak >= Threshold => state # "CLOSED"

(* One failure reported while the breaker is half-open (or already open)    *)
(* leaves it OPEN, and restarts the quiet period.                           *)
OneFailureReopens ==
    [][ (\E c \in Callers : OnFailure(c)) /\ state # "CLOSED"
          => state' = "OPEN" /\ age' <= RecoveryTimeout ]_vars

(* While the breaker stays OPEN no call is let through: the calls in flight *)
(* only drain.  It leaves OPEN only for HALF_OPEN, more than RecoveryTimeout *)
(* after the latest failure, those reported while OPEN included, whatever   *)
(* late successes arrive in between.                                        *)
QuietPeriod ==
    [][ state = "OPEN" =>
          IF state' = "OPEN" THEN inFlight' \subseteq inFlight
                             ELSE state' = "HALF_OPEN" /\ age = Elapsed ]_vars

(* An open breaker does not stay shut for ever: late failures extend the    *)
(* quiet period, but only finitely many calls are in flight, so the next    *)
(* call is eventually admitted.                                             *)
Recovers == state = "OPEN" ~> (state # "OPEN" \/ age > RecoveryTimeout)
=============================================================================
