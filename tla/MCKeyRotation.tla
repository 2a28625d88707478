--------------------------- MODULE MCKeyRotation ----------------------------
(* TLC instance of KeyRotation: two processes, two tasks in the first.      *)
EXTENDS KeyRotation, TLC

CONSTANTS m1, m2, t1, t2, t3

MCManagers == {m1, m2}
MCTasks    == {t1, t2, t3}
MCOwner    == t1 :> m1 @@ t2 :> m1 @@ t3 :> m2
=============================================================================
