----------------------------- MODULE MCRecords ------------------------------
(* TLC instance of Records: two plain threads and two that lock.            *)
EXTENDS Records, TLC

CONSTANTS p1, p2, l1, l2

MCPlain   == {p1, p2}
MCLocking == {l1, l2}
Symmetry  == Permutations(MCPlain) \cup Permutations(MCLocking)
=============================================================================
