----------------------------- MODULE RedisCache -----------------------------
(***************************************************************************)
(* AsyncRedisCache (apps/core/cache/async_cache.py): asyncio tasks share one *)
(* Redis client, its connected flag and its circuit breaker.  Tasks run one *)
(* at a time and interleave only where the code awaits Redis, so an action  *)
(* is the code from one await to the next.  Values are abstracted away: the *)
(* module is about the connection and the breaker.                          *)
(***************************************************************************)
EXTENDS Integers, FiniteSets

CONSTANTS Tasks, Threshold, RecoveryTimeout, FailureCap

VARIABLES
    state, failures, age, streak,  \* the breaker, see CircuitBreaker
    client,      \* redis_client (and connection_pool) is not None
    connected,   \* _is_connected
    pc,          \* where each task is suspended
    call,        \* the call each task is in
    cut,         \* suspended tasks whose connection was closed under them
    up,          \* Redis answers in time
    overlapped   \* history: two tasks were once (re)connecting together

brkVars  == <<state, failures, age, streak>>
connVars == <<client, connected, cut>>
vars     == <<brkVars, connVars, pc, call, up, overlapped>>

Guarded == {"operation", "flush"}           \* go through the breaker
Calls   == Guarded \cup {"ensure", "close"} \* __aenter__ and close() do not

Admitted == {t \in Tasks : call[t] \in Guarded}

B == INSTANCE CircuitBreaker WITH Callers <- Tasks, inFlight <- Admitted

ASSUME CacheAssumption == B!BreakerAssumption

AwaitingReply == {t \in Tasks : pc[t] \in {"ping", "connect", "operate", "delete"}}
Reconnecting  == {t \in Tasks : pc[t] \in {"closing", "disconnect", "connect"}}

Init ==
    /\ state = "CLOSED" /\ failures = 0 /\ age = B!NoFailure /\ streak = 0
    /\ client = FALSE /\ connected = FALSE /\ cut = {}
    /\ pc = [t \in Tasks |-> "idle"]
    /\ call = [t \in Tasks |-> "none"]
    /\ up \in BOOLEAN
    /\ overlapped = FALSE

-----------------------------------------------------------------------------
Suspended == \A t \in Tasks : pc[t] # "ensure"   \* no task is running

Begin(t, k, loc) ==
    /\ pc' = [pc EXCEPT ![t] = loc]
    /\ call' = [call EXCEPT ![t] = k]

Goto(t, loc) == Begin(t, call[t], loc)
Finish(t)    == Begin(t, "none", "idle")

(* The call ends in an exception, which a guarded call reports.             *)
Fail(t) ==
    /\ Finish(t)
    /\ IF t \in Admitted THEN B!OnFailure(t) ELSE UNCHANGED brkVars

Succeed(t) ==
    /\ Finish(t)
    /\ IF t \in Admitted THEN B!OnSuccess(t) ELSE UNCHANGED brkVars

(* Mutant of Await: the AttributeError is taken for a cache miss.           *)
AwaitMissing(t, loc) ==
    IF client THEN Goto(t, loc) /\ UNCHANGED brkVars ELSE Succeed(t)

(* `await self.redis_client.x(...)`: the attribute is read before the await, *)
(* and when it is None the call ends in AttributeError.                     *)
Await(t, loc) == IF client THEN Goto(t, loc) /\ UNCHANGED brkVars ELSE Fail(t)

(* _ensure_connected answered True.                                         *)
Proceed(t) == IF call[t] = "ensure" THEN Succeed(t) ELSE Await(t, "operate")

(* Task t starts to reconnect or to close.                                  *)
MarkOverlap(t) == overlapped' = (overlapped \/ Reconnecting \ {t} # {})

(* Mutant of CloseDone: the finally clause leaves _is_connected set.        *)
CloseDoneConnected(t) ==
    /\ UNCHANGED connected
    /\ IF call[t] = "close" THEN client' = FALSE /\ Finish(t)
                            ELSE client' = TRUE /\ Goto(t, "connect")

(* Tail of _close_connection (its finally), and what follows in _connect.   *)
CloseDone(t) ==
    /\ connected' = FALSE
    /\ IF call[t] = "close" THEN client' = FALSE /\ Finish(t)
                            ELSE client' = TRUE /\ Goto(t, "connect")

-----------------------------------------------------------------------------
(* A call through the breaker is admitted; it runs on in Ensure.            *)
Operation(t, k) ==
    /\ Suspended /\ pc[t] = "idle"
    /\ Begin(t, k, "ensure")
    /\ B!Admit(t)
    /\ UNCHANGED <<connVars, up, overlapped>>

(* Mutant of Rejected: a rejected call counts as a failure.                 *)
RejectedCounts(t) ==
    /\ Suspended /\ pc[t] = "idle"
    /\ state = "OPEN" /\ age <= RecoveryTimeout
    /\ failures' = B!Saturate(failures + 1)
    /\ age' = 0
    /\ UNCHANGED <<state, streak, connVars, pc, call, up, overlapped>>

Rejected(t) ==
    /\ Suspended /\ pc[t] = "idle"
    /\ UNCHANGED vars
    /\ B!Reject(t)

(* __aenter__, and the first step of health_check.                          *)
Enter(t) ==
    /\ Suspended /\ pc[t] = "idle"
    /\ Begin(t, "ensure", "ensure")
    /\ UNCHANGED <<brkVars, connVars, up, overlapped>>

Close(t) ==
    /\ Suspended /\ pc[t] = "idle"
    /\ MarkOverlap(t)
    /\ IF client
         THEN Begin(t, "close", "closing") /\ UNCHANGED <<client, connected>>
         ELSE UNCHANGED <<pc, call>> /\ client' = FALSE /\ connected' = FALSE
    /\ UNCHANGED <<brkVars, cut, up>>

(* _ensure_connected up to its first await.                                 *)
Ensure(t) ==
    /\ pc[t] = "ensure"
    /\ \/ /\ connected /\ client
          /\ Goto(t, "ping")
          /\ UNCHANGED <<brkVars, client, connected, overlapped>>
       \/ /\ ~connected
          /\ MarkOverlap(t)
          /\ client' = TRUE       \* the old client, or the new one
          /\ Goto(t, IF client THEN "closing" ELSE "connect")
          /\ UNCHANGED <<brkVars, connected>>
       \/ /\ connected /\ ~client
          /\ Proceed(t)
          /\ UNCHANGED <<client, connected, overlapped>>
    /\ UNCHANGED <<cut, up>>

-----------------------------------------------------------------------------
(* Resumptions: Redis answers, or the connection fails.                     *)
Answered(t) == Suspended /\ up /\ cut' = cut \ {t} /\ UNCHANGED up
Broken(t)   == Suspended /\ (~up \/ t \in cut) /\ cut' = cut \ {t} /\ UNCHANGED up

PingOk(t) ==
    /\ pc[t] = "ping" /\ Answered(t)
    /\ Proceed(t)
    /\ UNCHANGED <<client, connected, overlapped>>

(* The handler drops the client, and _connect makes a new one at once.      *)
PingFails(t) ==
    /\ pc[t] = "ping" /\ Broken(t)
    /\ connected' = FALSE /\ client' = TRUE
    /\ Goto(t, "connect")
    /\ MarkOverlap(t)
    /\ UNCHANGED brkVars

(* client.close() returns: every connection of the pool is gone.  The pool  *)
(* attribute is read again, and may be another task's by now.               *)
ClientClosed(t) ==
    /\ Suspended /\ pc[t] = "closing"
    /\ cut' = cut \cup AwaitingReply
    /\ \/ /\ client
          /\ Goto(t, "disconnect")
          /\ UNCHANGED <<client, connected>>
       \/ /\ ~client \/ ~up     \* no pool left, or close() raised
          /\ CloseDone(t)
    /\ UNCHANGED <<brkVars, up, overlapped>>

PoolDisconnected(t) ==
    /\ Suspended /\ pc[t] = "disconnect"
    /\ cut' = cut \cup AwaitingReply
    /\ CloseDone(t)
    /\ UNCHANGED <<brkVars, up, overlapped>>

ConnectOk(t) ==
    /\ pc[t] = "connect" /\ Answered(t)
    /\ connected' = TRUE
    /\ Proceed(t)
    /\ UNCHANGED <<client, overlapped>>

(* Mutant of ConnectFails: it tries again until Redis answers.              *)
ConnectForever(t) ==
    /\ pc[t] = "connect" /\ Broken(t)
    /\ client' = TRUE /\ connected' = FALSE
    /\ UNCHANGED <<brkVars, pc, call, overlapped>>

ConnectFails(t) ==
    /\ pc[t] = "connect" /\ Broken(t)
    /\ client' = FALSE /\ connected' = FALSE
    /\ Fail(t)
    /\ UNCHANGED overlapped

(* The command is answered.  flush_pattern deletes the keys it found with a *)
(* second command.                                                          *)
OperationOk(t) ==
    /\ pc[t] \in {"operate", "delete"} /\ Answered(t)
    /\ \/ Succeed(t)
       \/ pc[t] = "operate" /\ call[t] = "flush" /\ Await(t, "delete")
    /\ UNCHANGED <<client, connected, overlapped>>

(* A RedisError marks the connection as lost, but keeps the client.         *)
OperationFails(t) ==
    /\ pc[t] \in {"operate", "delete"} /\ Broken(t)
    /\ Fail(t)
    /\ connected' = FALSE
    /\ UNCHANGED <<client, overlapped>>

(* Redis answers with an error (a RedisError too), or the value that came   *)
(* back cannot be decoded (any other exception).  Both count as failures.   *)
DataError(t) ==
    /\ pc[t] \in {"operate", "delete"} /\ Answered(t)
    /\ Fail(t)
    /\ connected' \in {connected, FALSE}
    /\ UNCHANGED <<client, overlapped>>

(* The task is cancelled at its await.  Only _close_connection cleans up.   *)
Cancel(t) ==
    /\ Suspended /\ pc[t] # "idle"
    /\ Finish(t)
    /\ cut' = cut \ {t}
    /\ IF pc[t] \in {"closing", "disconnect"}
         THEN client' = FALSE /\ connected' = FALSE
         ELSE UNCHANGED <<client, connected>>
    /\ IF t \in Admitted THEN B!Abandon(t) ELSE UNCHANGED brkVars
    /\ UNCHANGED <<up, overlapped>>

-----------------------------------------------------------------------------
(* Redis, or the network to it, goes down or comes back.                    *)
Toggle == up' = ~up /\ UNCHANGED <<brkVars, connVars, pc, call, overlapped>>

Tick == UNCHANGED <<connVars, pc, call, up, overlapped>> /\ B!Tick

Resume(t) ==
    \/ Ensure(t) \/ PingOk(t) \/ PingFails(t) \/ ClientClosed(t)
    \/ PoolDisconnected(t) \/ ConnectOk(t) \/ ConnectFails(t)
    \/ OperationOk(t) \/ OperationFails(t) \/ DataError(t)

Request(t) == (\E k \in Guarded : Operation(t, k)) \/ Rejected(t)

Next ==
    \/ Toggle \/ Tick
    \/ \E t \in Tasks : Request(t) \/ Enter(t) \/ Close(t) \/ Resume(t) \/ Cancel(t)

Spec == Init /\ [][Next]_vars

(* The event loop is first-in first-out, so a task whose await is over is   *)
(* resumed however busy the others are (strong fairness), each await ends   *)
(* within socket_timeout, and time passes.  Nobody has to call, and Redis   *)
(* may stay down.                                                           *)
Fairness == WF_vars(Tick) /\ \A t \in Tasks : SF_vars(Resume(t))

FairSpec == Spec /\ Fairness

(* The application keeps using the cache, through its operations only:      *)
(* nothing calls close() and no task is cancelled.                          *)
BusyNext == Toggle \/ Tick \/ \E t \in Tasks : Request(t) \/ Resume(t)

BusySpec ==
    /\ Init /\ [][BusyNext]_vars
    /\ Fairness
    /\ \A t \in Tasks : SF_vars(Request(t))

-----------------------------------------------------------------------------
(* Type invariant.                                                          *)
TypeOK ==
    /\ B!TypeOK
    /\ {client, connected, up, overlapped} \subseteq BOOLEAN
    /\ pc \in [Tasks -> {"idle", "ensure", "ping", "closing", "disconnect",
                         "connect", "operate", "delete"}]
    /\ call \in [Tasks -> Calls \cup {"none"}]
    /\ cut \subseteq Tasks

(* Seen through its admitted calls, the cache drives its breaker correctly: *)
(* it reports every admitted call at most once, and none it did not admit,  *)
(* however calls interleave.                                                *)
BreakerProtocol == B!Spec

(* The breaker in the hands of the cache: its state and its counter agree,  *)
(* so the cache is neither cut off nor let through by mistake.              *)
BreakerConsistent == B!Consistent

(* Threshold failed operations in a row, of whatever tasks, stop the cache  *)
(* from asking Redis.                                                       *)
BreakerTrips == B!StreakTrips

(* A failed probe, and any late failure, re-opens the breaker at once, and  *)
(* restarts its quiet period.                                               *)
BreakerReopens == B!OneFailureReopens

(* While the breaker stays open no operation begins: those under way only   *)
(* drain.  It half-opens only when the timeout has passed since the latest  *)
(* failure, whatever late successes arrive in between.                      *)
BreakerQuiet == B!QuietPeriod

(* The cache is not cut off for ever: late failures prolong the quiet       *)
(* period, but only finitely many operations are under way.                 *)
BreakerRecovers == B!Recovers

(* The cache believes it is connected without having a client only if two   *)
(* tasks were once inside _connect or _close_connection at the same time:   *)
(* nothing else a failing or closing connection does can cause it.          *)
OnlyOverlapLosesClient == connected /\ ~client => overlapped

(* Every call ends, whatever Redis does: there is no wait for a connection, *)
(* no retry loop, and no task waits for another.                            *)
CallsReturn == \A t \in Tasks : pc[t] # "idle" ~> pc[t] = "idle"

(* The flag is set, there is no client, and no task that could change that  *)
(* is under way.                                                            *)
Wedged == connected /\ ~client /\ \A t \in Tasks : pc[t] \in {"idle", "ensure"}

(* A cache that lost its client behind its flag never gets it back by       *)
(* itself, whatever Redis does and whoever calls: _ensure_connected trusts  *)
(* the flag, and the AttributeError of a missing client, unlike a           *)
(* RedisError, does not clear it.  Until somebody calls close(), every      *)
(* operation that gets through the breaker ends as a failure.               *)
OnlyCloseUnwedges ==
    [][ Wedged /\ ~(\E t \in Tasks : Close(t)) =>
          Wedged' /\ \A t \in Admitted \ Admitted' : B!OnFailure(t) ]_vars

(* _ensure_connected: "Ensure Redis connection is established".  A cache    *)
(* that lost its client gets one, or notices, on one of the next calls.     *)
ClientIsRestored == (connected /\ ~client) ~> (client \/ ~connected)
=============================================================================
