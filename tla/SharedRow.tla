----------------------------- MODULE SharedRow ------------------------------
(***************************************************************************)
(* What a row that many threads change is to somebody who reads the table:  *)
(* each change happens at one moment and is made to the row as it is then,  *)
(* not as its writer has read it.  The exception has a name: Overwrite.     *)
(***************************************************************************)
EXTENDS Integers

CONSTANT Writers

VARIABLES
    row,        \* the writers whose edits it contains, active, version
    restorers,  \* the writers that want it active again
    stale       \* whether it was ever overwritten

rvars == <<row, restorers, stale>>

Gone == [exists |-> FALSE, edits |-> {}, active |-> FALSE, version |-> 0]

(* A writer that did not ask for it does not revive a row.                  *)
MayBeActive(t) == row.active \/ t \in restorers

Init ==
    /\ row = [exists |-> TRUE, edits |-> {}, active |-> TRUE, version |-> 1]
    /\ restorers = {}
    /\ stale = FALSE

AskRestore(t) ==
    /\ restorers' = restorers \cup {t}
    /\ UNCHANGED <<row, stale>>

(* An edit adds to the others and moves the version.                        *)
Edit(t) ==
    /\ row.exists /\ row'.exists
    /\ row'.edits = row.edits \cup {t}
    /\ row'.version \in Nat /\ row'.version > row.version
    /\ row'.active => MayBeActive(t)
    /\ UNCHANGED <<restorers, stale>>

(* soft_delete and restore change one column.                               *)
Switch(t) ==
    /\ row.exists /\ row'.exists
    /\ row'.edits = row.edits
    /\ row'.version = row.version
    /\ row'.active => MayBeActive(t)
    /\ UNCHANGED <<restorers, stale>>

Remove ==
    /\ row.exists
    /\ row' = Gone
    /\ UNCHANGED <<restorers, stale>>

(* A writer puts its own idea of the row in the place of the row, or of the *)
(* row that is gone.                                                        *)
Overwrite(t) ==
    /\ row'.exists /\ t \in row'.edits
    /\ stale' = TRUE
    /\ UNCHANGED restorers

Next ==
    \/ \E t \in Writers : AskRestore(t) \/ Edit(t) \/ Switch(t) \/ Overwrite(t)
    \/ Remove

Spec == Init /\ [][Next]_rvars

-----------------------------------------------------------------------------
(* What follows for the reader: until the first Overwrite an edit stays as  *)
(* long as the row does, versions never step back, and equal versions have  *)
(* the same edits.                                                          *)
NothingUndone ==
    [][row.exists /\ row'.exists /\ ~stale' =>
         /\ row.edits \subseteq row'.edits
         /\ row.version <= row'.version
         /\ row.version = row'.version => row.edits = row'.edits]_rvars
=============================================================================
