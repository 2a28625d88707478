--------------------------- MODULE MCUserCreation ---------------------------
(* TLC instance of UserCreation: requests that race for one e-mail address.  *)
EXTENDS UserCreation

CONSTANTS r1, r2, none

MCRequests == {r1, r2}
=============================================================================
