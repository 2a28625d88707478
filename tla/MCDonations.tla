---------------------------- MODULE MCDonations -----------------------------
(* TLC instance of Donations: two threads, two donations to pay and one      *)
(* that was created as completed.                                           *)
EXTENDS Donations, TLC

CONSTANTS t1, t2, d1, d2, d3

MCThreads   == {t1, t2}
MCDonations == {d1, d2, d3}
MCPending   == {d1, d2}
MCRecorded  == {d3}
Symmetry    == Permutations(MCThreads) \cup Permutations(MCPending)
=============================================================================
