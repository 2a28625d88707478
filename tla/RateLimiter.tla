---------------------------- MODULE RateLimiter ----------------------------
(***************************************************************************)
(* The sliding-window rate limiter (apps/core/jwt/rate_limiter.py) for one *)
(* identifier and action.  The window is one cache entry holding the times *)
(* of the requests let through.  A check reads it, compares, reads it again *)
(* to append itself and writes it back, with an await at each cache call, so *)
(* checks overlap; a cache error lets the request pass.                     *)
(***************************************************************************)
EXTENDS Integers, FiniteSets

CONSTANTS
    Requests,     \* calls of check_rate_limit for the key
    MaxRequests,  \* config.max_requests
    Window,       \* config.window_seconds, in ticks
    MaxTime       \* bound on the clock

ASSUME LimiterAssumption ==
    /\ IsFiniteSet(Requests)
    /\ MaxRequests \in Nat \ {0}
    /\ Window \in Nat \ {0}
    /\ MaxTime \in Nat

VARIABLES
    now,      \* time.time(), the same for the tasks of a host and for Redis
    pc,       \* where each request stands
    started,  \* the now each check took when it began: its timestamp
    copy,     \* the window a check is about to write back
    window,   \* the requests whose timestamps the cache entry lists
    expiry,   \* when the entry's time to live ends
    raced     \* history: two checks overlapped, a cache call failed, or a reset

vars == <<now, pc, started, copy, window, expiry, raced>>

Waiting == {"count", "reread", "write"}
Passed  == {"allowed", "passed", "cancelled"}  \* may be in the window
Places  == {"idle", "denied"} \cup Waiting \cup Passed

At(where)   == {r \in Requests : pc[r] \in where}
Live        == IF now < expiry THEN window ELSE {}
Since(S, t) == {q \in S : started[q] >= t}

Init ==
    /\ now = 0
    /\ pc = [r \in Requests |-> "idle"]
    /\ started = [r \in Requests |-> 0]
    /\ copy = [r \in Requests |-> {}]
    /\ window = {}
    /\ expiry = 0
    /\ raced = FALSE

-----------------------------------------------------------------------------
(* Mutant of Begun: the window's start is taken for the request's time.     *)
BegunAtWindowStart(r) == [started EXCEPT ![r] = now - Window]

Begun(r) == [started EXCEPT ![r] = now]

(* _sliding_window_check takes its timestamp before it reads the entry.     *)
Start(r) ==
    /\ pc[r] = "idle"
    /\ pc' = [pc EXCEPT ![r] = "count"]
    /\ started' = Begun(r)
    /\ raced' = (raced \/ At(Waiting) # {})
    /\ UNCHANGED <<now, copy, window, expiry>>

(* Mutant of UnderLimit: the comparison lets one more request through.      *)
UnderLimitInclusive(r) == Cardinality(Since(Live, started[r] - Window)) <= MaxRequests

(* Mutant of UnderLimit: requests older than the window still count.        *)
UnderLimitForever(r) == Cardinality(window) < MaxRequests

UnderLimit(r) == Cardinality(Since(Live, started[r] - Window)) < MaxRequests

(* _get_current_requests answers, and the comparison follows.               *)
Count(r) ==
    /\ pc[r] = "count"
    /\ pc' = [pc EXCEPT ![r] = IF UnderLimit(r) THEN "reread" ELSE "denied"]
    /\ UNCHANGED <<now, started, copy, window, expiry, raced>>

(* Mutant of Appended: the other timestamps of the window are lost.         *)
AppendedAlone(r) == Since({r}, started[r] - Window)

(* _add_request: the entry as read again, with this request, trimmed.       *)
Appended(r) == Since(Live \cup {r}, started[r] - Window)

Reread(r) ==
    /\ pc[r] = "reread"
    /\ copy' = [copy EXCEPT ![r] = Appended(r)]
    /\ pc' = [pc EXCEPT ![r] = "write"]
    /\ UNCHANGED <<now, started, window, expiry, raced>>

Store(r) ==
    /\ window' = copy[r]
    /\ expiry' = now + Window

Write(r) ==
    /\ pc[r] = "write"
    /\ Store(r)
    /\ pc' = [pc EXCEPT ![r] = "allowed"]
    /\ UNCHANGED <<now, started, copy, raced>>

(* A cache call raises and check_rate_limit lets the request pass, or the   *)
(* task is cancelled at its await.  A write may have reached Redis by then. *)
Interrupt(r) ==
    /\ pc[r] \in Waiting
    /\ \E how \in {"passed", "cancelled"} : pc' = [pc EXCEPT ![r] = how]
    /\ \/ pc[r] = "write" /\ Store(r)
       \/ UNCHANGED <<window, expiry>>
    /\ raced' = TRUE
    /\ UNCHANGED <<now, started, copy>>

(* reset_rate_limit deletes the entry.                                      *)
Reset ==
    /\ window # {}
    /\ window' = {}
    /\ raced' = TRUE
    /\ UNCHANGED <<now, pc, started, copy, expiry>>

Tick ==
    /\ now < MaxTime
    /\ now' = now + 1
    /\ UNCHANGED <<pc, started, copy, window, expiry, raced>>

Next ==
    \/ \E r \in Requests :
         Start(r) \/ Count(r) \/ Reread(r) \/ Write(r) \/ Interrupt(r)
    \/ Reset
    \/ Tick

Spec == Init /\ [][Next]_vars

-----------------------------------------------------------------------------
(* The shape of the state.                                                  *)
TypeOK ==
    /\ now \in Nat
    /\ pc \in [Requests -> Places]
    /\ started \in [Requests -> Nat]
    /\ copy \in [Requests -> SUBSET Requests]
    /\ window \in SUBSET Requests
    /\ expiry \in Nat
    /\ raced \in BOOLEAN

(* However checks overlap and fail, a request is refused only when the      *)
(* window really held max_requests others: nobody is refused because of     *)
(* requests that were themselves refused, are still undecided, or are older *)
(* than the window (_sliding_window_check).                                 *)
DeniedJustly ==
    [][\A r \in Requests :
         pc[r] # "denied" /\ pc'[r] = "denied" =>
           Cardinality(Since(At(Passed), started[r] - Window)) >= MaxRequests]_vars

(* Requests let through by count whose check began in the last Window.      *)
Recent == {q \in At({"allowed"}) : started[q] > now - Window}

(* As long as no two checks overlapped and no cache call failed, at most    *)
(* max_requests of the requests let through began within any window: only   *)
(* the gap between reading, comparing and writing can exceed the limit.     *)
OnlyRacesExceed == ~raced => Cardinality(Recent) <= MaxRequests

(* For the caller a check that makes five steps is one decision: the limiter *)
(* implements Quota, calm as long as nothing has raced.                     *)
Answer ==
    [r \in Requests |-> CASE pc[r] = "idle" -> "none"
                          [] pc[r] \in Waiting -> "pending"
                          [] pc[r] = "denied" -> "no"
                          [] pc[r] = "allowed" -> "yes"
                          [] OTHER -> "open"]
Q == INSTANCE Quota WITH asked <- started, answer <- Answer, calm <- ~raced

KeepsQuota == Q!Spec
=============================================================================
