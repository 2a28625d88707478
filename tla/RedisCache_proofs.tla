-------------------------- MODULE RedisCache_proofs --------------------------
(***************************************************************************)
(* Safety of the Redis breaker, and of the cache for any number of tasks:   *)
(* it drives its breaker as the breaker's specification allows, hence has   *)
(* its properties, and loses its client only when two tasks reconnect       *)
(* together.                                                                *)
(***************************************************************************)
EXTENDS RedisCache, TLAPS

(***************************************************************************)
(* The breaker: whoever steps as B!Spec, with any tasks in flight.         *)
(***************************************************************************)
LEMMA BreakerConstants ==
    /\ Threshold \in Nat \ {0}
    /\ RecoveryTimeout \in Nat
    /\ FailureCap \in Nat
    /\ FailureCap >= Threshold
    BY CacheAssumption DEF B!BreakerAssumption

(* The streak counts a subset of the failures the breaker counts, because   *)
(* whatever resets failures resets the streak.                              *)
StreakBound == streak <= failures

BreakerIInv == B!TypeOK /\ B!Consistent /\ StreakBound

(* The saturating counter stays in its range, never decreases, and crosses  *)
(* the threshold exactly when the unbounded one would.                      *)
LEMMA SaturateRange ==
    ASSUME NEW n \in 0..FailureCap
    PROVE  /\ B!Saturate(n + 1) \in 0..FailureCap
           /\ B!Saturate(n + 1) >= n
           /\ B!Saturate(n + 1) >= Threshold <=> n + 1 >= Threshold
    BY BreakerConstants DEF B!Saturate

LEMMA SaturateMonotonic ==
    ASSUME NEW m \in 0..FailureCap, NEW n \in 0..FailureCap, m <= n
    PROVE  B!Saturate(m + 1) <= B!Saturate(n + 1)
    BY BreakerConstants DEF B!Saturate

-----------------------------------------------------------------------------
LEMMA BreakerInitIInv == B!Init => BreakerIInv
    BY BreakerConstants
    DEF B!Init, BreakerIInv, B!TypeOK, B!Consistent, StreakBound, B!States, B!NoFailure

LEMMA AdmitIInv == ASSUME BreakerIInv, NEW c \in Tasks, B!Admit(c) PROVE BreakerIInv'
    BY BreakerConstants
    DEF B!Admit, BreakerIInv, B!TypeOK, B!Consistent, StreakBound, B!States, B!NoFailure

LEMMA OnSuccessIInv == ASSUME BreakerIInv, NEW c \in Tasks, B!OnSuccess(c) PROVE BreakerIInv'
    BY BreakerConstants
    DEF B!OnSuccess, BreakerIInv, B!TypeOK, B!Consistent, StreakBound, B!States, B!NoFailure

LEMMA OnFailureIInv == ASSUME BreakerIInv, NEW c \in Tasks, B!OnFailure(c) PROVE BreakerIInv'
<1> USE BreakerConstants DEF BreakerIInv, B!TypeOK, B!States, B!NoFailure, B!Elapsed
<1>1. /\ failures' = B!Saturate(failures + 1)
      /\ streak' = B!Saturate(streak + 1)
      /\ age' = 0
      /\ Admitted' \subseteq Admitted
      /\ state' = IF failures' >= Threshold THEN "OPEN" ELSE state
    BY DEF B!OnFailure
<1>2. /\ failures' \in 0..FailureCap
      /\ failures' >= failures
      /\ streak' \in 0..FailureCap
    BY <1>1, SaturateRange
<1>3. B!TypeOK'
    BY <1>1, <1>2
<1>4. B!Consistent'
    BY <1>1, <1>2 DEF B!Consistent
<1>5. StreakBound'
    BY <1>1, SaturateMonotonic DEF StreakBound
<1>6. QED
    BY <1>3, <1>4, <1>5

LEMMA AbandonIInv == ASSUME BreakerIInv, NEW c \in Tasks, B!Abandon(c) PROVE BreakerIInv'
    BY DEF B!Abandon, B!breakerVars, BreakerIInv, B!TypeOK, B!Consistent, StreakBound

LEMMA TickIInv == ASSUME BreakerIInv, B!Tick PROVE BreakerIInv'
    BY BreakerConstants
    DEF B!Tick, BreakerIInv, B!TypeOK, B!Consistent, StreakBound, B!NoFailure, B!Elapsed

LEMMA BreakerStepIInv == BreakerIInv /\ [B!Next]_(B!vars) => BreakerIInv'
<1> SUFFICES ASSUME BreakerIInv, [B!Next]_(B!vars) PROVE BreakerIInv'
    OBVIOUS
<1>1. CASE B!Tick
    BY <1>1, TickIInv
<1>2. ASSUME NEW c \in Tasks, B!Admit(c) PROVE BreakerIInv'
    BY <1>2, AdmitIInv
<1>3. ASSUME NEW c \in Tasks, B!OnSuccess(c) PROVE BreakerIInv'
    BY <1>3, OnSuccessIInv
<1>4. ASSUME NEW c \in Tasks, B!OnFailure(c) PROVE BreakerIInv'
    BY <1>4, OnFailureIInv
<1>5. ASSUME NEW c \in Tasks, B!Abandon(c) PROVE BreakerIInv'
    BY <1>5, AbandonIInv
<1>6. CASE UNCHANGED B!vars
    BY <1>6 DEF B!vars, BreakerIInv, B!TypeOK, B!Consistent, StreakBound
<1>7. ASSUME NEW c \in Tasks, B!Reject(c) PROVE BreakerIInv'
    BY <1>7, <1>6 DEF B!Reject
<1>8. QED
    BY <1>1, <1>2, <1>3, <1>4, <1>5, <1>6, <1>7 DEF B!Next

-----------------------------------------------------------------------------
(* The inductive invariant holds of every behaviour of the breaker.         *)
THEOREM BreakerInductive == B!Spec => []BreakerIInv
<1>1. QED
    BY BreakerInitIInv, BreakerStepIInv, PTL DEF B!Spec

(* The variables keep their types.                                          *)
THEOREM BreakerTypes == B!Spec => []B!TypeOK
<1>1. BreakerIInv => B!TypeOK
    BY DEF BreakerIInv
<1>2. QED
    BY <1>1, BreakerInductive, PTL

(* A closed breaker is below its threshold, and a breaker that is not       *)
(* closed has reached it and knows when it last failed.                     *)
THEOREM StateMatchesCounter == B!Spec => []B!Consistent
<1>1. BreakerIInv => B!Consistent
    BY DEF BreakerIInv
<1>2. QED
    BY <1>1, BreakerInductive, PTL

(* Threshold consecutive failures never leave the breaker closed.           *)
THEOREM StreakNeverMissed == B!Spec => []B!StreakTrips
<1>1. BreakerIInv => B!StreakTrips
    BY BreakerConstants DEF BreakerIInv, B!TypeOK, B!Consistent, StreakBound, B!StreakTrips
<1>2. QED
    BY <1>1, BreakerInductive, PTL

(* One failed probe, or one late failure, re-opens a breaker that is not    *)
(* closed: on_failure never has to count to the threshold again.            *)
THEOREM FailureReopens == B!Spec => B!OneFailureReopens
<1> DEFINE A == (\E c \in Tasks : B!OnFailure(c)) /\ state # "CLOSED"
                  => state' = "OPEN" /\ age' <= RecoveryTimeout
<1>1. BreakerIInv => A
  <2> SUFFICES ASSUME BreakerIInv, state # "CLOSED", NEW c \in Tasks, B!OnFailure(c)
               PROVE  state' = "OPEN" /\ age' <= RecoveryTimeout
      OBVIOUS
  <2>1. failures \in 0..FailureCap /\ failures >= Threshold
      BY BreakerConstants DEF BreakerIInv, B!TypeOK, B!Consistent
  <2>2. failures' >= Threshold
    <3>1. B!Saturate(failures + 1) >= Threshold
        BY <2>1, BreakerConstants DEF B!Saturate
    <3>2. QED
        BY <3>1 DEF B!OnFailure
  <2>3. QED
      BY <2>2, BreakerConstants DEF B!OnFailure
<1>2. QED
    BY <1>1, BreakerInductive, PTL DEF B!OneFailureReopens

(* While OPEN nothing is admitted, and the breaker half-opens only when the *)
(* whole timeout has passed since the latest failure.                       *)
THEOREM OpenIsQuiet == B!Spec => B!QuietPeriod
<1> DEFINE A == state = "OPEN" =>
                  IF state' = "OPEN" THEN Admitted' \subseteq Admitted
                                     ELSE state' = "HALF_OPEN" /\ age = B!Elapsed
<1>1. BreakerIInv /\ [B!Next]_(B!vars) => A
  <2> SUFFICES ASSUME BreakerIInv, [B!Next]_(B!vars), state = "OPEN" PROVE A
      OBVIOUS
  <2>1. CASE B!Tick
      BY <2>1 DEF B!Tick
  <2>2. ASSUME NEW c \in Tasks, B!Admit(c) PROVE A
      BY <2>2, BreakerConstants DEF B!Admit, BreakerIInv, B!TypeOK, B!Elapsed, B!NoFailure
  <2>3. ASSUME NEW c \in Tasks, B!OnSuccess(c) PROVE A
      BY <2>3 DEF B!OnSuccess
  <2>4. ASSUME NEW c \in Tasks, B!OnFailure(c) PROVE A
      BY <2>4 DEF B!OnFailure
  <2>5. ASSUME NEW c \in Tasks, B!Abandon(c) PROVE A
      BY <2>5 DEF B!Abandon, B!breakerVars
  <2>6. CASE UNCHANGED B!vars
      BY <2>6 DEF B!vars
  <2>7. ASSUME NEW c \in Tasks, B!Reject(c) PROVE A
      BY <2>7, <2>6 DEF B!Reject
  <2>8. QED
      BY <2>1, <2>2, <2>3, <2>4, <2>5, <2>6, <2>7 DEF B!Next
<1>2. QED
    BY <1>1, BreakerInductive, PTL DEF B!Spec, B!QuietPeriod

-----------------------------------------------------------------------------
Locations == {"idle", "ensure", "ping", "closing", "disconnect", "connect",
              "operate", "delete"}

(* What a step of task t does to the tasks, and to the breaker.             *)
Moved(t) ==
    \/ UNCHANGED <<pc, call>>
    \/ \E k \in Calls \cup {"none"}, loc \in Locations :
         (loc = "idle" => k = "none") /\ Begin(t, k, loc)

Driven(t) ==
    \/ UNCHANGED <<brkVars, Admitted>>
    \/ B!Admit(t) \/ B!OnSuccess(t) \/ B!OnFailure(t) \/ B!Abandon(t)

(* While no two tasks have reconnected together there is at most one that   *)
(* reconnects, it has a client as long as it connects, and so has whoever   *)
(* believes to be connected.                                                *)
Sole ==
    ~overlapped =>
      /\ \A t, u \in Reconnecting : t = u
      /\ \A t \in Tasks : pc[t] = "connect" => client
      /\ connected => client

(* A task that is in no call is admitted by nobody.                         *)
Rest == \A t \in Tasks : pc[t] = "idle" => call[t] = "none"

IInv == TypeOK /\ Rest /\ Sole

-----------------------------------------------------------------------------
(* The ways in which a piece of code ends: what they do to task t, to the   *)
(* other tasks and to the breaker.                                          *)
LEMMA FinishMoves ==
    ASSUME TypeOK, NEW t \in Tasks, Finish(t)
    PROVE  /\ Moved(t) /\ pc'[t] = "idle" /\ Admitted' = Admitted \ {t}
<1>1. Moved(t)
    BY DEF Finish, Moved, Locations
<1>2. pc'[t] = "idle"
    BY DEF Finish, Begin, TypeOK
<1>3. Admitted' = Admitted \ {t}
    BY DEF Finish, Begin, TypeOK, Admitted, Guarded
<1>4. QED
    BY <1>1, <1>2, <1>3

LEMMA FailMoves ==
    ASSUME TypeOK, NEW t \in Tasks, Fail(t)
    PROVE  Moved(t) /\ Driven(t) /\ pc'[t] = "idle"
    BY FinishMoves DEF Fail, Driven

LEMMA SucceedMoves ==
    ASSUME TypeOK, NEW t \in Tasks, Succeed(t)
    PROVE  Moved(t) /\ Driven(t) /\ pc'[t] = "idle"
    BY FinishMoves DEF Succeed, Driven

LEMMA GotoMoves ==
    ASSUME TypeOK, NEW t \in Tasks, NEW loc \in Locations \ {"idle"}, Goto(t, loc)
    PROVE  Moved(t) /\ UNCHANGED Admitted /\ pc'[t] = loc
    BY DEF Goto, Begin, Moved, Admitted, TypeOK

LEMMA AwaitMoves ==
    ASSUME TypeOK, NEW t \in Tasks, NEW loc \in Locations \ {"idle"}, Await(t, loc)
    PROVE  Moved(t) /\ Driven(t) /\ pc'[t] \in {"idle", loc}
    BY GotoMoves, FailMoves DEF Await, Driven

LEMMA ProceedMoves ==
    ASSUME TypeOK, NEW t \in Tasks, Proceed(t)
    PROVE  Moved(t) /\ Driven(t) /\ pc'[t] \in {"idle", "operate"}
    BY AwaitMoves, SucceedMoves DEF Proceed, Locations

LEMMA CloseDoneMoves ==
    ASSUME TypeOK, NEW t \in Tasks, CloseDone(t), UNCHANGED brkVars,
           pc[t] \in {"closing", "disconnect"}
    PROVE  /\ Moved(t) /\ connected' = FALSE /\ client' \in BOOLEAN
           /\ \/ pc'[t] = "idle"
              \/ client' = TRUE /\ pc'[t] = "connect"
    BY GotoMoves, FinishMoves DEF CloseDone, Locations, TypeOK

-----------------------------------------------------------------------------
(* What every step of a task does, the actions grouped by where they begin. *)
Shapes(t) ==
    /\ Moved(t) /\ Driven(t)
    /\ {client', connected', overlapped'} \subseteq BOOLEAN
    /\ cut' \subseteq Tasks
    /\ UNCHANGED up

Step(t) == Request(t) \/ Enter(t) \/ Close(t) \/ Resume(t) \/ Cancel(t)

LEMMA RequestShapes ==
    ASSUME TypeOK, Rest, NEW t \in Tasks, Request(t) \/ Enter(t) \/ Close(t)
    PROVE  Shapes(t)
<1>1. ASSUME NEW k \in Guarded, Operation(t, k) PROVE Shapes(t)
  <2>1. Moved(t)
      BY <1>1 DEF Operation, Moved, Calls, Locations
  <2>2. QED
      BY <1>1, <2>1 DEF Operation, Shapes, Driven, connVars, TypeOK
<1>2. CASE Rejected(t)
  <2>1. Moved(t) /\ UNCHANGED <<brkVars, Admitted>>
      BY <1>2 DEF Rejected, vars, Moved, Admitted
  <2>2. QED
      BY <1>2, <2>1 DEF Rejected, Shapes, Driven, vars, connVars, TypeOK
<1>3. CASE Enter(t)
  <2>1. Moved(t)
      BY <1>3 DEF Enter, Moved, Calls, Locations
  <2>2. UNCHANGED Admitted
      BY <1>3 DEF Enter, Begin, Admitted, Guarded, TypeOK, Rest
  <2>3. QED
      BY <1>3, <2>1, <2>2 DEF Enter, Shapes, Driven, connVars, TypeOK
<1>4. CASE Close(t)
  <2>1. Moved(t)
      BY <1>4 DEF Close, Moved, Calls, Locations
  <2>2. UNCHANGED Admitted
      BY <1>4 DEF Close, Begin, Admitted, Guarded, TypeOK, Rest
  <2>3. {client', connected', overlapped'} \subseteq BOOLEAN
      BY <1>4 DEF Close, MarkOverlap, TypeOK
  <2>4. QED
      BY <1>4, <2>1, <2>2, <2>3 DEF Close, Shapes, Driven, TypeOK
<1>5. QED
    BY <1>1, <1>2, <1>3, <1>4 DEF Request

LEMMA ResumeShapes ==
    ASSUME TypeOK, Rest, NEW t \in Tasks, Resume(t) PROVE Shapes(t)
<1> DEFINE Kept == {client', connected', overlapped'} \subseteq BOOLEAN /\ UNCHANGED up
<1>1. \A loc \in {"ping", "closing", "disconnect", "connect"} :
        Goto(t, loc) /\ UNCHANGED brkVars => Moved(t) /\ Driven(t)
    BY GotoMoves DEF Locations, Driven
<1>2. CASE Ensure(t)
  <2>1. Kept /\ UNCHANGED cut
      BY <1>2 DEF Ensure, MarkOverlap, TypeOK
  <2>2. Moved(t) /\ Driven(t)
      BY <1>1, <1>2, ProceedMoves DEF Ensure
  <2>3. QED
      BY <2>1, <2>2 DEF Shapes, TypeOK
<1>3. CASE PingOk(t) \/ ConnectOk(t)
    BY <1>3, ProceedMoves DEF PingOk, ConnectOk, Answered, Shapes, TypeOK
<1>4. CASE PingFails(t)
    BY <1>1, <1>4 DEF PingFails, Broken, MarkOverlap, Shapes, TypeOK
<1>5. CASE ClientClosed(t) \/ PoolDisconnected(t)
  <2>1. UNCHANGED <<brkVars, up, overlapped>> /\ cut' = cut \cup AwaitingReply
      BY <1>5 DEF ClientClosed, PoolDisconnected
  <2>2. CASE CloseDone(t)
    <3>1. Moved(t) /\ connected' = FALSE /\ client' \in BOOLEAN
        BY <1>5, <2>1, <2>2, CloseDoneMoves DEF ClientClosed, PoolDisconnected
    <3>2. UNCHANGED Admitted
        BY <2>2 DEF CloseDone, Finish, Goto, Begin, Admitted, Guarded, TypeOK
    <3>3. QED
        BY <2>1, <3>1, <3>2 DEF Shapes, Driven, TypeOK, AwaitingReply
  <2>3. CASE Goto(t, "disconnect") /\ UNCHANGED <<client, connected>>
      BY <1>1, <2>1, <2>3 DEF Shapes, TypeOK, AwaitingReply
  <2>4. QED
      BY <1>5, <2>2, <2>3 DEF ClientClosed, PoolDisconnected
<1>6. CASE ConnectFails(t) \/ OperationFails(t) \/ DataError(t)
    BY <1>6, FailMoves
    DEF ConnectFails, OperationFails, DataError, Broken, Answered, Shapes, TypeOK
<1>7. CASE OperationOk(t)
    BY <1>7, SucceedMoves, AwaitMoves DEF OperationOk, Answered, Shapes, TypeOK, Locations
<1>8. QED
    BY <1>2, <1>3, <1>4, <1>5, <1>6, <1>7 DEF Resume

LEMMA CancelShapes ==
    ASSUME TypeOK, Rest, NEW t \in Tasks, Cancel(t) PROVE Shapes(t)
<1>1. Moved(t) /\ Admitted' = Admitted \ {t}
    BY FinishMoves DEF Cancel
<1>2. Driven(t)
    BY <1>1 DEF Cancel, Driven
<1>3. QED
    BY <1>1, <1>2 DEF Cancel, Shapes, TypeOK

LEMMA StepShapes == ASSUME IInv, NEW t \in Tasks, Step(t) PROVE Shapes(t)
    BY RequestShapes, ResumeShapes, CancelShapes DEF IInv, Step

-----------------------------------------------------------------------------
(* The breaker moves as its specification says, and stays well typed.       *)
LEMMA BreakerStep ==
    ASSUME IInv, [Next]_vars PROVE [B!Next]_(B!vars)
<1>1. ASSUME NEW t \in Tasks, Step(t) PROVE [B!Next]_(B!vars)
    BY <1>1, StepShapes DEF Shapes, Driven, B!Next, B!vars, brkVars
<1>2. CASE Toggle \/ Tick
    BY <1>2 DEF Toggle, Tick, B!Next, B!vars, brkVars, Admitted
<1>3. CASE UNCHANGED vars
    BY <1>3 DEF vars, B!vars, brkVars, Admitted
<1>4. QED
    BY <1>1, <1>2, <1>3 DEF Next, Step

LEMMA BreakerTyped ==
    ASSUME B!TypeOK, [B!Next]_(B!vars) PROVE B!TypeOK'
<1> USE CacheAssumption
    DEF B!TypeOK, B!BreakerAssumption, B!States, B!NoFailure, B!Elapsed
<1>1. CASE UNCHANGED B!vars
    BY <1>1 DEF B!vars
<1>2. CASE B!Tick
    BY <1>2 DEF B!Tick
<1>3. ASSUME NEW t \in Tasks, B!Admit(t) \/ B!Reject(t) PROVE B!TypeOK'
    BY <1>3 DEF B!Admit, B!Reject, B!vars
<1>4. ASSUME NEW t \in Tasks, B!OnSuccess(t) \/ B!Abandon(t) PROVE B!TypeOK'
    BY <1>4 DEF B!OnSuccess, B!Abandon, B!breakerVars
<1>5. ASSUME NEW t \in Tasks, B!OnFailure(t) PROVE B!TypeOK'
    BY <1>5 DEF B!OnFailure, B!Saturate
<1>6. QED
    BY <1>1, <1>2, <1>3, <1>4, <1>5 DEF B!Next

LEMMA TypesStep ==
    ASSUME IInv, [Next]_vars PROVE TypeOK' /\ Rest'
<1>1. B!TypeOK'
    BY BreakerStep, BreakerTyped DEF IInv, TypeOK
<1>2. ASSUME NEW t \in Tasks, Step(t)
      PROVE  /\ pc' \in [Tasks -> Locations]
             /\ call' \in [Tasks -> Calls \cup {"none"}]
             /\ Rest'
             /\ {client', connected', up', overlapped'} \subseteq BOOLEAN
             /\ cut' \subseteq Tasks
    BY <1>2, StepShapes
    DEF Shapes, Moved, Begin, Rest, Locations, IInv, TypeOK
<1>3. CASE Toggle \/ Tick \/ UNCHANGED vars
    BY <1>1, <1>3 DEF Toggle, Tick, vars, connVars, IInv, TypeOK, Rest
<1>4. QED
    BY <1>1, <1>2, <1>3 DEF Next, Step, TypeOK, Locations

-----------------------------------------------------------------------------
(* Sole is kept by a step of t that overlaps with nobody: the others stay    *)
(* where they are, and the client is taken away only by the one task that   *)
(* reconnects, which leaves the flag cleared.                               *)
LEMMA SoleKept ==
    ASSUME IInv, NEW t \in Tasks, Moved(t), overlapped => overlapped',
           ~overlapped' =>
             /\ \/ pc'[t] \notin {"closing", "disconnect", "connect"}
                \/ t \in Reconnecting
                \/ Reconnecting \ {t} = {}
             /\ pc'[t] = "connect" => client'
             /\ connected' => client'
             /\ ~client' => ~client \/ Reconnecting \subseteq {t}
    PROVE  Sole'
<1> SUFFICES ASSUME ~overlapped' PROVE Sole'
    BY DEF Sole
<1>1. /\ \A u, v \in Reconnecting : u = v
      /\ \A u \in Tasks : pc[u] = "connect" => client
    BY DEF IInv, Sole
<1>2. \A u \in Tasks \ {t} : pc'[u] = pc[u]
    BY DEF Moved, Begin, IInv, TypeOK
<1>3. Reconnecting' \ {t} = Reconnecting \ {t}
    BY <1>2 DEF Reconnecting
<1>4. \A u, v \in Reconnecting' : u = v
  <2>1. CASE t \notin Reconnecting'
      BY <1>1, <1>3, <2>1
  <2>2. CASE t \in Reconnecting'
    <3>1. t \in Reconnecting \/ Reconnecting \ {t} = {}
        BY <2>2 DEF Reconnecting
    <3>2. QED
        BY <1>1, <1>3, <3>1
  <2>3. QED
      BY <2>1, <2>2
<1>5. ASSUME NEW u \in Tasks, pc'[u] = "connect" PROVE client'
  <2>1. CASE u = t
      BY <1>5, <2>1
  <2>2. CASE u # t
    <3>1. u \in Reconnecting /\ client
        BY <1>1, <1>2, <1>5, <2>2 DEF Reconnecting
    <3>2. QED
        BY <2>2, <3>1
  <2>3. QED
      BY <2>1, <2>2
<1>6. QED
    BY <1>4, <1>5 DEF Sole

LEMMA SoleStep ==
    ASSUME IInv, NEW t \in Tasks, Step(t) PROVE Sole'
<1>1. Moved(t) /\ overlapped \in BOOLEAN /\ client \in BOOLEAN /\ connected \in BOOLEAN
    BY StepShapes DEF Shapes, IInv, TypeOK
<1>2. ASSUME ~overlapped
      PROVE  /\ \A u \in Reconnecting : t \in Reconnecting => Reconnecting \subseteq {t}
             /\ \A u \in Tasks : pc[u] = "connect" => client
             /\ connected => client
    BY <1>2 DEF IInv, Sole
<1>3. ASSUME UNCHANGED <<client, connected, overlapped>>,
             pc'[t] \in {"idle", "ensure", "ping", "operate", "delete"}
      PROVE  Sole'
    BY <1>1, <1>2, <1>3, SoleKept
<1>4. CASE Request(t) \/ Enter(t)
  <2>1. UNCHANGED <<client, connected, overlapped, pc>> \/ pc'[t] = "ensure"
      BY <1>4 DEF Request, Operation, Rejected, Enter, Begin, vars, connVars, IInv, TypeOK
  <2>2. UNCHANGED <<client, connected, overlapped>>
      BY <1>4 DEF Request, Operation, Rejected, Enter, vars, connVars
  <2>3. CASE UNCHANGED pc
      BY <2>2, <2>3 DEF IInv, Sole, Reconnecting
  <2>4. QED
      BY <1>3, <2>1, <2>2, <2>3
<1>5. CASE Close(t)
  <2>1. overlapped => overlapped'
      BY <1>1, <1>5 DEF Close, MarkOverlap
  <2>2. CASE client
    <3>1. pc'[t] = "closing" /\ UNCHANGED <<client, connected>>
        BY <1>5, <2>2 DEF Close, Begin, IInv, TypeOK
    <3>2. ~overlapped' => Reconnecting \ {t} = {}
        BY <1>5 DEF Close, MarkOverlap
    <3>3. QED
        BY <1>1, <1>2, <2>1, <2>2, <3>1, <3>2, SoleKept
  <2>3. CASE ~client
    <3>1. UNCHANGED pc /\ client' = FALSE /\ connected' = FALSE
        BY <1>5, <2>3 DEF Close
    <3>2. QED
        BY <2>1, <2>3, <3>1 DEF IInv, Sole, Reconnecting
  <2>4. QED
      BY <2>2, <2>3
<1>6. CASE Ensure(t)
  <2>1. CASE connected /\ client /\ Goto(t, "ping") /\ UNCHANGED <<client, connected, overlapped>>
      BY <1>3, <2>1, GotoMoves DEF IInv, Locations
  <2>2. CASE ~connected /\ MarkOverlap(t) /\ client' = TRUE /\ UNCHANGED connected
    <3>1. /\ overlapped => overlapped'
          /\ ~overlapped' => Reconnecting \ {t} = {}
        BY <1>1, <2>2 DEF MarkOverlap
    <3>2. QED
        BY <1>1, <2>2, <3>1, SoleKept
  <2>3. CASE Proceed(t) /\ UNCHANGED <<client, connected, overlapped>>
      BY <1>3, <2>3, ProceedMoves DEF IInv
  <2>4. QED
      BY <1>6, <2>1, <2>2, <2>3 DEF Ensure
<1>7. CASE PingOk(t)
    BY <1>3, <1>7, ProceedMoves DEF PingOk, IInv
<1>8. CASE PingFails(t)
  <2>1. /\ overlapped => overlapped'
        /\ ~overlapped' => Reconnecting \ {t} = {}
        /\ client' = TRUE /\ connected' = FALSE
      BY <1>1, <1>8 DEF PingFails, MarkOverlap
  <2>2. QED
      BY <1>1, <2>1, SoleKept
<1>9. CASE ClientClosed(t) \/ PoolDisconnected(t)
  <2>1. t \in Reconnecting /\ UNCHANGED <<brkVars, overlapped>>
        /\ pc[t] \in {"closing", "disconnect"}
      BY <1>9 DEF ClientClosed, PoolDisconnected, Reconnecting
  <2>2. CASE CloseDone(t)
    <3>1. /\ connected' = FALSE
          /\ pc'[t] = "idle" \/ (client' = TRUE /\ pc'[t] = "connect")
        BY <2>1, <2>2, CloseDoneMoves DEF IInv
    <3>2. QED
        BY <1>1, <1>2, <2>1, <3>1, SoleKept
  <2>3. CASE Goto(t, "disconnect") /\ UNCHANGED <<client, connected>>
    <3>1. pc'[t] = "disconnect"
        BY <2>3, GotoMoves DEF IInv, Locations
    <3>2. QED
        BY <1>1, <1>2, <2>1, <2>3, <3>1, SoleKept
  <2>4. QED
      BY <1>9, <2>2, <2>3 DEF ClientClosed, PoolDisconnected
<1>10. CASE ConnectOk(t)
  <2>1. /\ pc[t] = "connect" /\ connected' = TRUE /\ UNCHANGED <<client, overlapped>>
        /\ pc'[t] \in {"idle", "operate"}
      BY <1>10, ProceedMoves DEF ConnectOk, IInv
  <2>2. QED
      BY <1>1, <1>2, <2>1, SoleKept
<1>11. CASE ConnectFails(t)
  <2>1. /\ t \in Reconnecting /\ client' = FALSE /\ connected' = FALSE
        /\ UNCHANGED overlapped /\ pc'[t] = "idle"
      BY <1>11, FailMoves DEF ConnectFails, IInv, Reconnecting
  <2>2. QED
      BY <1>1, <1>2, <2>1, SoleKept
<1>12. CASE OperationOk(t)
  <2>1. pc'[t] \in {"idle", "delete"} /\ UNCHANGED <<client, connected, overlapped>>
      BY <1>12, SucceedMoves, AwaitMoves DEF OperationOk, IInv, Locations
  <2>2. QED
      BY <1>3, <2>1
<1>13. CASE OperationFails(t) \/ DataError(t)
  <2>1. /\ pc'[t] = "idle" /\ UNCHANGED <<client, overlapped>>
        /\ connected' \in {connected, FALSE}
      BY <1>13, FailMoves DEF OperationFails, DataError, IInv
  <2>2. CASE connected' = connected
      BY <1>3, <2>1, <2>2
  <2>3. CASE connected' = FALSE
      BY <1>1, <1>2, <2>1, <2>3, SoleKept
  <2>4. QED
      BY <2>1, <2>2, <2>3
<1>14. CASE Cancel(t)
  <2>1. pc'[t] = "idle" /\ UNCHANGED overlapped
      BY <1>14, FinishMoves DEF Cancel, IInv
  <2>2. CASE t \in Reconnecting /\ client' = FALSE /\ connected' = FALSE
      BY <1>1, <1>2, <2>1, <2>2, SoleKept
  <2>3. CASE UNCHANGED <<client, connected>>
      BY <1>1, <1>2, <2>1, <2>3, SoleKept
  <2>4. QED
      BY <1>14, <2>2, <2>3 DEF Cancel, Reconnecting
<1>15. QED
    BY <1>4, <1>5, <1>6, <1>7, <1>8, <1>9, <1>10, <1>11, <1>12, <1>13, <1>14
    DEF Step, Resume

-----------------------------------------------------------------------------
LEMMA InitIInv == Init => IInv
<1> SUFFICES ASSUME Init PROVE IInv
    OBVIOUS
<1>1. B!TypeOK
    BY CacheAssumption
    DEF Init, Admitted, B!TypeOK, B!BreakerAssumption, B!States, B!NoFailure, B!Elapsed
<1>2. TypeOK /\ Rest
    BY <1>1 DEF Init, TypeOK, Rest, Calls, Guarded
<1>3. Sole
    BY DEF Init, Sole, Reconnecting
<1>4. QED
    BY <1>2, <1>3 DEF IInv

LEMMA StepIInv == IInv /\ [Next]_vars => IInv'
<1> SUFFICES ASSUME IInv, [Next]_vars PROVE IInv'
    OBVIOUS
<1>1. TypeOK' /\ Rest'
    BY TypesStep
<1>2. Sole'
  <2>1. ASSUME NEW t \in Tasks, Step(t) PROVE Sole'
      BY <2>1, SoleStep
  <2>2. CASE Toggle \/ Tick \/ UNCHANGED vars
    <3>1. pc' = pc /\ client' = client /\ connected' = connected /\ overlapped' = overlapped
        BY <2>2 DEF Toggle, Tick, vars, connVars
    <3>2. Reconnecting' = Reconnecting
        BY <3>1 DEF Reconnecting
    <3>3. QED
        BY <3>1, <3>2 DEF IInv, Sole
  <2>3. QED
      BY <2>1, <2>2 DEF Next, Step
<1>3. QED
    BY <1>1, <1>2 DEF IInv

LEMMA Invariance == Spec => []IInv
<1>1. Init => IInv
    BY InitIInv
<1>2. IInv /\ [Next]_vars => IInv'
    BY StepIInv
<1>3. QED
    BY <1>1, <1>2, PTL DEF Spec

(* Type correctness of the cache and of the breaker it drives.              *)
THEOREM TypeCorrect == Spec => []TypeOK
<1>1. IInv => TypeOK
    BY DEF IInv
<1>2. QED
    BY <1>1, Invariance, PTL

(* However many tasks share it, the cache loses its client behind its flag  *)
(* only after two of them have reconnected at the same time.                *)
THEOREM OverlapIsNeeded == Spec => []OnlyOverlapLosesClient
<1>1. IInv => OnlyOverlapLosesClient
    BY DEF IInv, Sole, OnlyOverlapLosesClient
<1>2. QED
    BY <1>1, Invariance, PTL

(* The cache implements the breaker's specification with its admitted calls *)
(* in the place of the calls in flight.                                     *)
THEOREM BreakerIsDriven == Spec => BreakerProtocol
<1>1. Init => B!Init
    BY DEF Init, B!Init, Admitted, Guarded
<1>2. IInv /\ [Next]_vars => [B!Next]_(B!vars)
    BY BreakerStep
<1>3. QED
    BY <1>1, <1>2, Invariance, PTL DEF Spec, BreakerProtocol, B!Spec

(* So whatever the breaker promises holds of the cache.                     *)
LEMMA CacheBreaker == Spec => B!Spec
    BY BreakerIsDriven DEF BreakerProtocol

(* The state of the cache's breaker and its counter agree.                  *)
THEOREM CacheStateMatches == Spec => []BreakerConsistent
<1>1. BreakerConsistent <=> B!Consistent
    BY DEF BreakerConsistent
<1>2. QED
    BY <1>1, CacheBreaker, StateMatchesCounter, PTL

(* Threshold failed operations in a row stop the cache from asking Redis.   *)
THEOREM CacheTrips == Spec => []BreakerTrips
<1>1. BreakerTrips <=> B!StreakTrips
    BY DEF BreakerTrips
<1>2. QED
    BY <1>1, CacheBreaker, StreakNeverMissed, PTL

(* A failure of any operation re-opens a breaker that is not closed.        *)
THEOREM CacheReopens == Spec => BreakerReopens
    BY CacheBreaker, FailureReopens DEF BreakerReopens

(* While the breaker is open no operation begins, for the whole timeout.    *)
THEOREM CacheIsQuiet == Spec => BreakerQuiet
    BY CacheBreaker, OpenIsQuiet DEF BreakerQuiet

-----------------------------------------------------------------------------
(* The wedge.  A task that resumes in it is at "ensure", finds the flag set  *)
(* and no client, and fails, or, when it only asked for a connection, is     *)
(* told that there is one.                                                   *)
LEMMA WedgedProceed ==
    ASSUME TypeOK, Wedged, NEW t \in Tasks, Proceed(t), UNCHANGED <<client, connected>>
    PROVE  Wedged' /\ \A u \in Admitted \ Admitted' : B!OnFailure(u)
<1>1. Finish(t) /\ (t \in Admitted => B!OnFailure(t))
    BY DEF Proceed, Await, Fail, Succeed, Wedged, Admitted, Guarded
<1>2. Moved(t) /\ pc'[t] = "idle" /\ Admitted' = Admitted \ {t}
    BY <1>1, FinishMoves
<1>3. \A u \in Tasks : pc'[u] \in {"idle", "ensure"}
    BY <1>2 DEF Moved, Begin, Wedged, TypeOK
<1>4. QED
    BY <1>1, <1>2, <1>3 DEF Wedged

LEMMA WedgedRequest ==
    ASSUME IInv, Wedged, NEW t \in Tasks, Request(t) \/ Enter(t)
    PROVE  Wedged' /\ Admitted \subseteq Admitted'
<1>1. UNCHANGED <<client, connected>>
    BY DEF Request, Operation, Rejected, Enter, vars, connVars
<1>2. (\E k \in Calls : Begin(t, k, "ensure")) \/ UNCHANGED pc
    BY DEF Request, Operation, Rejected, Enter, vars, Calls
<1>3. \A u \in Tasks : pc'[u] \in {"idle", "ensure"}
    BY <1>2 DEF Begin, Wedged, IInv, TypeOK
<1>4. Admitted \subseteq Admitted'
  <2>1. CASE \E k \in Guarded : Operation(t, k)
      BY <2>1 DEF Operation, B!Admit
  <2>2. CASE Rejected(t)
      BY <2>2 DEF Rejected, vars, Admitted
  <2>3. CASE Enter(t)
    <3>1. t \notin Admitted
        BY <2>3 DEF Enter, IInv, Rest, Admitted, Guarded
    <3>2. QED
        BY <2>3, <3>1 DEF Enter, Begin, Admitted, IInv, TypeOK
  <2>4. QED
      BY <2>1, <2>2, <2>3 DEF Request
<1>5. QED
    BY <1>1, <1>3, <1>4 DEF Wedged

LEMMA WedgedResume ==
    ASSUME TypeOK, Wedged, NEW t \in Tasks, Resume(t)
    PROVE  Wedged' /\ \A u \in Admitted \ Admitted' : B!OnFailure(u)
<1>1. Ensure(t) /\ connected /\ ~client
    BY DEF Resume, PingOk, PingFails, ClientClosed, PoolDisconnected, ConnectOk,
           ConnectFails, OperationOk, OperationFails, DataError, Wedged
<1>2. Proceed(t) /\ UNCHANGED <<client, connected>>
    BY <1>1 DEF Ensure
<1>3. QED
    BY <1>2, WedgedProceed

LEMMA WedgedOutside ==
    ASSUME Wedged, Toggle \/ Tick \/ UNCHANGED vars
    PROVE  Wedged' /\ UNCHANGED Admitted
<1>1. UNCHANGED <<client, connected, pc, call>>
    BY DEF Toggle, Tick, vars, connVars
<1>2. QED
    BY <1>1 DEF Wedged, Admitted

(* Nothing but close() ends the wedge, and what is admitted in it fails.    *)
LEMMA WedgedStep ==
    ASSUME IInv, Wedged, [Next]_vars, ~\E t \in Tasks : Close(t)
    PROVE  Wedged' /\ \A u \in Admitted \ Admitted' : B!OnFailure(u)
<1>1. ASSUME NEW t \in Tasks, Request(t) \/ Enter(t)
      PROVE  Wedged' /\ \A u \in Admitted \ Admitted' : B!OnFailure(u)
    BY <1>1, WedgedRequest
<1>2. ASSUME NEW t \in Tasks, Resume(t)
      PROVE  Wedged' /\ \A u \in Admitted \ Admitted' : B!OnFailure(u)
    BY <1>2, WedgedResume DEF IInv
<1>3. ASSUME NEW t \in Tasks, Cancel(t) PROVE FALSE
    BY <1>3 DEF Cancel, Suspended, Wedged
<1>4. CASE Toggle \/ Tick \/ UNCHANGED vars
    BY <1>4, WedgedOutside
<1>5. QED
    BY <1>1, <1>2, <1>3, <1>4 DEF Next

(* A cache that lost its client behind its flag stays useless until         *)
(* somebody calls close(), whatever Redis and the tasks do meanwhile.       *)
THEOREM WedgeNeedsClose == Spec => OnlyCloseUnwedges
<1> DEFINE A == Wedged /\ ~(\E t \in Tasks : Close(t)) =>
                  Wedged' /\ \A t \in Admitted \ Admitted' : B!OnFailure(t)
<1>1. IInv /\ [Next]_vars => [A]_vars
    BY WedgedStep
<1>2. QED
    BY <1>1, Invariance, PTL DEF Spec, OnlyCloseUnwedges

(* The application never calls close(): under BusySpec, which says just     *)
(* that, the wedge is for ever.                                             *)
THEOREM WedgeIsForEver == BusySpec => [](Wedged => [](connected /\ ~client))
<1>1. BusyNext => Next
    BY DEF BusyNext, Next
<1>2. IInv /\ Wedged /\ [BusyNext]_vars => Wedged'
    BY WedgedRequest, WedgedResume, WedgedOutside DEF BusyNext, IInv
<1>3. Wedged => connected /\ ~client
    BY DEF Wedged
<1>4. BusySpec => Spec
    BY <1>1, PTL DEF BusySpec, Spec
<1>5. QED
    BY <1>1, <1>2, <1>3, <1>4, Invariance, PTL DEF BusySpec
=============================================================================
