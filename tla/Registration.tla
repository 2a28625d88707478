---------------------------- MODULE Registration ----------------------------
(***************************************************************************)
(* What user registration promises to the people who submit the form, for   *)
(* one e-mail address: at most one request gets the account, and what each  *)
(* request is told agrees with what is in the database.                     *)
(***************************************************************************)
CONSTANTS
    Requests,
    NoOne       \* not a request

VARIABLES
    owner,   \* the request whose account is in the database, or NoOne
    doubt,   \* requests for which an acknowledgement of the database was lost
    answer   \* what each request was told, "pending" until then

rvars == <<owner, doubt, answer>>

Pending(r) == answer[r] = "pending"
Tell(r, a) == Pending(r) /\ answer' = [answer EXCEPT ![r] = a]

Init ==
    /\ owner = NoOne
    /\ doubt = {}
    /\ answer = [r \in Requests |-> "pending"]

(* The account is stored, once; whether the caller hears of it is another   *)
(* matter.                                                                  *)
Register(r) ==
    /\ Pending(r) /\ owner = NoOne
    /\ owner' = r
    /\ doubt' \in {doubt, doubt \cup {r}}
    /\ UNCHANGED answer

LoseAnswer(r) ==
    /\ Pending(r)
    /\ doubt' = doubt \cup {r}
    /\ UNCHANGED <<owner, answer>>

Confirm(r) ==
    /\ owner = r
    /\ Tell(r, "created")
    /\ UNCHANGED <<owner, doubt>>

(* "exists" always speaks of somebody else's account.                       *)
Decline(r) ==
    /\ owner \notin {NoOne, r}
    /\ Tell(r, "exists")
    /\ UNCHANGED <<owner, doubt>>

(* "failed" means that nothing was created, unless an answer got lost.      *)
Fail(r) ==
    /\ owner = r => r \in doubt
    /\ Tell(r, "failed")
    /\ UNCHANGED <<owner, doubt>>

(* The process dies, and its requests hear nothing.                         *)
Die ==
    /\ \E dead \in SUBSET {r \in Requests : Pending(r)} :
         answer' = [r \in Requests |-> IF r \in dead THEN "nothing" ELSE answer[r]]
    /\ UNCHANGED <<owner, doubt>>

Next ==
    \/ Die
    \/ \E r \in Requests :
         Register(r) \/ LoseAnswer(r) \/ Confirm(r) \/ Decline(r) \/ Fail(r)

Spec == Init /\ [][Next]_rvars

-----------------------------------------------------------------------------
(* What follows for the people who submit the form: whoever is told         *)
(* "created" has the account, and nobody else is told so; "exists" means    *)
(* that another request has it; and whoever is told "failed" has no account *)
(* unless an acknowledgement was lost.                                      *)
Truthful ==
    \A r \in Requests :
      /\ answer[r] = "created" => owner = r
      /\ answer[r] = "exists" => owner \notin {NoOne, r}
      /\ answer[r] = "failed" /\ owner = r => r \in doubt
=============================================================================
