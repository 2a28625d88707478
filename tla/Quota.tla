------------------------------- MODULE Quota --------------------------------
(***************************************************************************)
(* What a rate limiter promises to one caller: each request is answered at  *)
(* one moment, from the requests let through before.  A refusal is always   *)
(* backed by a full window; the limit itself is promised as long as the     *)
(* limiter is calm: no request was asked while another was pending, none    *)
(* was let through for want of an answer, and nothing was forgotten.        *)
(***************************************************************************)
EXTENDS Integers, FiniteSets

CONSTANTS
    Requests,
    MaxRequests,
    Window

VARIABLES
    now,
    asked,    \* when each request was made
    answer,   \* what it was told: "yes", "no", or "open" for want of an answer
    calm

qvars == <<now, asked, answer, calm>>

Told(what) == {r \in Requests : answer[r] \in what}
Tell(r, a) == answer[r] = "pending" /\ answer' = [answer EXCEPT ![r] = a]

InWindow == {q \in Told({"yes"}) : asked[q] > now - Window}

Init ==
    /\ now = 0
    /\ asked = [r \in Requests |-> 0]
    /\ answer = [r \in Requests |-> "none"]
    /\ calm = TRUE

Ask(r) ==
    /\ answer[r] = "none"
    /\ calm' = (calm /\ Told({"pending"}) = {})
    /\ answer' = [answer EXCEPT ![r] = "pending"]
    /\ asked' = [asked EXCEPT ![r] = now]
    /\ UNCHANGED now

Allow(r) ==
    /\ calm => Cardinality(InWindow) < MaxRequests
    /\ Tell(r, "yes")
    /\ UNCHANGED <<now, asked, calm>>

Refuse(r) ==
    /\ Cardinality({q \in Told({"yes", "open"}) : asked[q] >= asked[r] - Window}) >= MaxRequests
    /\ Tell(r, "no")
    /\ UNCHANGED <<now, asked, calm>>

(* The limiter cannot answer: the request passes, or its caller has gone.   *)
PassOpen(r) ==
    /\ Tell(r, "open")
    /\ calm' = FALSE
    /\ UNCHANGED <<now, asked>>

Forget ==
    /\ calm' = FALSE
    /\ UNCHANGED <<now, asked, answer>>

Tick ==
    /\ now' = now + 1
    /\ UNCHANGED <<asked, answer, calm>>

Next ==
    \/ \E r \in Requests : Ask(r) \/ Allow(r) \/ Refuse(r) \/ PassOpen(r)
    \/ Forget
    \/ Tick

Spec == Init /\ [][Next]_qvars

-----------------------------------------------------------------------------
(* What follows for the caller while the limiter is calm: of the requests   *)
(* let through, no more than the limit were made within any window.         *)
WithinLimit == calm => Cardinality(InWindow) <= MaxRequests
=============================================================================
