------------------------------ MODULE Records ------------------------------
(***************************************************************************)
(* The row of a user, the one BaseModel that is in use, and the threads of  *)
(* one worker process that change it: by loading an instance and saving it  *)
(* later (save, soft_delete, restore, update_meta:                          *)
(* models/base/base_model.py), or under a row lock                          *)
(* (SafeManager.atomic_update, core/db/manager.py).  Every save passes the  *)
(* audit receivers (models/base/signals.py), which keep the row as it was   *)
(* in a dictionary shared by all threads.                                   *)
(***************************************************************************)
EXTENDS Integers, FiniteSets

CONSTANTS
    Plain,        \* threads that load an instance and save it later
    Locking,      \* threads that call atomic_update or deactivate_user
    NoThread,     \* the row is not locked
    MaxAttempts,  \* max_attempts of with_retry
    MaxCalls      \* bound on the saves and removals begun

Threads == Plain \cup Locking

ASSUME RecordsAssumption ==
    /\ IsFiniteSet(Threads)
    /\ NoThread \notin Threads
    /\ Plain \cap Locking = {}
    /\ MaxAttempts \in Nat \ {0}
    /\ MaxCalls \in Nat

VARIABLES
    row,       \* the committed row
    lock,      \* the thread that selected the row for update
    pc,        \* where each thread stands
    op,        \* the method a thread is in
    copy,      \* each thread's instance
    kept,      \* _pre_save_states[pk]: a row, or Absent when there is no entry
    tries,     \* attempts of with_retry
    calls,     \* saves and removals begun so far
    committed, \* history: the threads whose edit was committed
    replaced,  \* history: the row each thread's write replaced
    fresh,     \* history: threads whose instance misses no other write
    stale,     \* history: a whole instance was saved that missed a write
    crossed,   \* history: two saves of the row overlapped, or one overlapped
               \* its removal
    restorers  \* history: the threads that called restore

saving == <<kept, tries, calls, crossed, restorers>>
vars == <<row, lock, pc, op, copy, committed, replaced, fresh, stale, saving>>

Absent == [exists |-> FALSE, edits |-> {}, active |-> FALSE, version |-> 0]
Rows == [exists : BOOLEAN, edits : SUBSET Threads, active : BOOLEAN, version : Nat]
Ops  == {"save", "soft_delete", "restore", "update_meta", "locked"}

Init ==
    /\ row = [exists |-> TRUE, edits |-> {}, active |-> TRUE, version |-> 1]
    /\ lock = NoThread
    /\ pc = [t \in Threads |-> "idle"]
    /\ op = [t \in Threads |-> "save"]
    /\ copy = [t \in Threads |-> Absent]
    /\ kept = Absent
    /\ tries = [t \in Threads |-> 0]
    /\ calls = 0
    /\ committed = {}
    /\ replaced = [t \in Threads |-> Absent]
    /\ fresh = {}
    /\ stale = FALSE
    /\ crossed = FALSE
    /\ restorers = {}

-----------------------------------------------------------------------------
(* A thread takes a new instance of the row.                                *)
Load(t) ==
    /\ pc[t] \in {"idle", "loaded"}
    /\ row.exists
    /\ copy' = [copy EXCEPT ![t] = row]
    /\ fresh' = fresh \cup {t}
    /\ pc' = [pc EXCEPT ![t] = "loaded"]
    /\ UNCHANGED <<row, lock, op, committed, replaced, stale, saving>>

MidSave == {t \in Threads : pc[t] \in {"write", "log", "commit"}}

(* Mutant of Captured: the instance itself stands for the original.         *)
CapturedCopy(t) == copy[t]

(* capture_pre_save_state reads the row again; a row that is gone leaves    *)
(* the dictionary alone.                                                    *)
Captured(t) == IF row.exists THEN row ELSE kept

(* Mutant of Bumped: the test for a new instance is the wrong way round.    *)
BumpedOnCreate(c) == c

Bumped(c) == [c EXCEPT !.version = @ + 1]

(* save: the version moves in memory, and the receivers of pre_save run.    *)
SaveCall(t, method, instance) ==
    /\ calls < MaxCalls
    /\ calls' = calls + 1
    /\ copy' = [copy EXCEPT ![t] = Bumped(instance)]
    /\ kept' = Captured(t)
    /\ crossed' = (crossed \/ MidSave # {})
    /\ op' = [op EXCEPT ![t] = method]
    /\ pc' = [pc EXCEPT ![t] = "write"]

(* A method of a loaded instance; soft_delete and restore return early when *)
(* the instance, not the row, is already as they would make it.             *)
Call(t) ==
    /\ pc[t] = "loaded"
    /\ \/ SaveCall(t, "save", [copy[t] EXCEPT !.edits = @ \cup {t}])
       \/ copy[t].active /\ SaveCall(t, "soft_delete", [copy[t] EXCEPT !.active = FALSE])
       \/ ~copy[t].active /\ SaveCall(t, "restore", [copy[t] EXCEPT !.active = TRUE])
       \/ SaveCall(t, "update_meta", copy[t])
    /\ restorers' = IF op'[t] = "restore" THEN restorers \cup {t} ELSE restorers
    /\ UNCHANGED <<row, lock, tries, committed, replaced, fresh, stale>>

Whole(method) == method \in {"save", "locked"}

(* Mutant of Written: update_fields is forgotten.                           *)
WrittenWhole(t) == [copy[t] EXCEPT !.exists = TRUE]

(* The row after a write: all columns, or the update_fields of the method.  *)
Written(t) ==
    CASE Whole(op[t]) -> [copy[t] EXCEPT !.exists = TRUE]
      [] op[t] \in {"soft_delete", "restore"} -> [row EXCEPT !.active = copy[t].active]
      [] OTHER -> row

Commit(t) ==
    /\ row' = Written(t)
    /\ fresh' = fresh \cap {t}
    /\ committed' = IF Whole(op[t]) THEN committed \cup {t} ELSE committed

(* Mutant of RowFree: the lock is not taken into account.                   *)
RowFreeAlways(t) == TRUE

RowFree(t) == lock \in {NoThread, t}

(* The UPDATE of a plain save, or the INSERT Django falls back to when the  *)
(* row is gone; with update_fields that is an error instead.                *)
Write(t) ==
    /\ t \in Plain /\ pc[t] = "write"
    /\ RowFree(t)
    /\ row.exists \/ Whole(op[t])
    /\ Commit(t)
    /\ replaced' = [replaced EXCEPT ![t] = row]
    /\ stale' = (stale \/ (Whole(op[t]) /\ t \notin fresh))
    /\ pc' = [pc EXCEPT ![t] = "log"]
    /\ UNCHANGED <<lock, op, copy, saving>>

(* The database refuses the write: the instance keeps what was set on it,   *)
(* and the dictionary what was captured.                                    *)
WriteFails(t) ==
    /\ t \in Plain /\ pc[t] = "write"
    /\ pc' = [pc EXCEPT ![t] = "loaded"]
    /\ UNCHANGED <<row, lock, op, copy, committed, replaced, fresh, stale, saving>>

(* post_save: log_create_update takes the state out of the dictionary and   *)
(* hands it to AuditLog, unless the write was an INSERT.                    *)
Log(t) ==
    /\ pc[t] = "log"
    /\ kept' = IF replaced[t].exists THEN Absent ELSE kept
    /\ replaced' = [replaced EXCEPT ![t] = Absent]
    /\ pc' = [pc EXCEPT ![t] = IF t \in Plain THEN "loaded" ELSE "commit"]
    /\ UNCHANGED <<row, lock, op, copy, tries, calls, committed, fresh, stale, crossed,
                   restorers>>

(* hard_delete.                                                             *)
HardDelete(t) ==
    /\ pc[t] = "loaded" /\ t \in Plain
    /\ row.exists /\ RowFree(t)
    /\ calls < MaxCalls
    /\ calls' = calls + 1
    /\ row' = Absent
    /\ fresh' = {}
    /\ committed' = {}
    /\ crossed' = (crossed \/ MidSave # {})
    /\ pc' = [pc EXCEPT ![t] = "done"]
    /\ UNCHANGED <<lock, op, copy, kept, tries, replaced, stale, restorers>>

-----------------------------------------------------------------------------
(* Mutant of Lockable: get() instead of select_for_update().                *)
LockableAnyway == row.exists

Lockable == lock = NoThread /\ row.exists

(* atomic_update: the row is locked and read, changed and saved in a        *)
(* transaction; the write shows when it commits.                            *)
LockRow(t) ==
    /\ t \in Locking /\ pc[t] = "idle"
    /\ Lockable
    /\ lock' = t
    /\ tries' = [tries EXCEPT ![t] = @ + 1]
    /\ SaveCall(t, "locked", [row EXCEPT !.edits = @ \cup {t}])
    /\ fresh' = fresh \cup {t}
    /\ UNCHANGED <<row, committed, replaced, stale, restorers>>

LockedWrite(t) ==
    /\ t \in Locking /\ pc[t] = "write"
    /\ replaced' = [replaced EXCEPT ![t] = row]
    /\ pc' = [pc EXCEPT ![t] = "log"]
    /\ UNCHANGED <<row, lock, op, copy, committed, fresh, stale, saving>>

LockedCommit(t) ==
    /\ pc[t] = "commit"
    /\ Commit(t)
    /\ lock' = NoThread
    /\ pc' = [pc EXCEPT ![t] = "done"]
    /\ UNCHANGED <<op, copy, replaced, stale, saving>>

(* A database error rolls the transaction back; with_retry tries again.     *)
Rollback(t) ==
    /\ t \in Locking /\ pc[t] \in {"write", "commit"}
    /\ lock' = NoThread
    /\ pc' = [pc EXCEPT ![t] = IF tries[t] < MaxAttempts THEN "idle" ELSE "done"]
    /\ UNCHANGED <<row, op, copy, committed, replaced, fresh, stale, saving>>

Next ==
    \/ \E t \in Plain : Load(t) \/ Call(t) \/ Write(t) \/ WriteFails(t) \/ HardDelete(t)
    \/ \E t \in Threads : Log(t)
    \/ \E t \in Locking : LockRow(t) \/ LockedWrite(t) \/ LockedCommit(t) \/ Rollback(t)

Spec == Init /\ [][Next]_vars

-----------------------------------------------------------------------------
(* The shape of the state; the lock is held exactly by a thread between     *)
(* select_for_update and the end of its transaction.                        *)
TypeOK ==
    /\ row \in Rows
    /\ lock \in Threads \cup {NoThread}
    /\ pc \in [Threads -> {"idle", "loaded", "write", "log", "commit", "done"}]
    /\ op \in [Threads -> Ops]
    /\ copy \in [Threads -> Rows]
    /\ kept \in Rows
    /\ tries \in [Threads -> 0..MaxAttempts]
    /\ calls \in 0..MaxCalls
    /\ committed \in SUBSET Threads
    /\ replaced \in [Threads -> Rows]
    /\ fresh \in SUBSET Threads
    /\ stale \in BOOLEAN
    /\ crossed \in BOOLEAN
    /\ restorers \in SUBSET Threads
    /\ \A t \in Locking : lock = t <=> pc[t] \in {"write", "log", "commit"}

(* An edit that was committed is in the row until the row is removed, unless *)
(* a whole instance that missed a write was saved: the locked updates and    *)
(* the methods that name their fields never undo an edit.                    *)
EditsSurvive == ~stale /\ row.exists => committed \subseteq row.edits

(* Every committed edit moved the version, unless a whole instance that      *)
(* missed a write was saved.                                                 *)
VersionCounts == ~stale /\ row.exists => row.version > Cardinality(committed)

(* A soft-deleted row becomes active again only by a thread that called      *)
(* restore, or by saving a whole instance that missed the deletion.          *)
DeletedStays ==
    [][row.exists /\ ~row.active /\ row'.exists /\ row'.active /\ ~stale' =>
         \E t \in restorers : pc[t] = "write" /\ pc'[t] = "log"]_vars

(* The state that log_create_update reports as the one before an update is   *)
(* the row the update replaced, also after saves that failed, as long as no  *)
(* two saves of the row overlapped.                                          *)
BeforeStateTrue ==
    [][\A t \in Threads :
         pc[t] = "log" /\ pc'[t] # "log" /\ replaced[t].exists /\ ~crossed =>
           kept = replaced[t]]_vars

(* For whoever reads the table, loading, changing and saving is one change   *)
(* made at the moment of the write: Records implements SharedRow, and only   *)
(* the save of a whole instance that missed a write is an Overwrite.         *)
S == INSTANCE SharedRow WITH Writers <- Threads

SharesRow == S!Spec
=============================================================================
