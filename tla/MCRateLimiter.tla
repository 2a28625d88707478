--------------------------- MODULE MCRateLimiter ----------------------------
(* TLC instance of RateLimiter: four requests, a limit of two.              *)
EXTENDS RateLimiter, TLC

CONSTANTS r1, r2, r3, r4

MCRequests == {r1, r2, r3, r4}
Symmetry   == Permutations(MCRequests)
=============================================================================
