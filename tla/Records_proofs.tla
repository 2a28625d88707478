--------------------------- MODULE Records_proofs ---------------------------
(***************************************************************************)
(* Safety of the saves of one row for any threads and attempts.  A thread   *)
(* whose instance missed no write covers the row (Covers), and as long as   *)
(* saves do not overlap the dictionary holds the row that the save under    *)
(* way replaces (Watched).                                                  *)
(***************************************************************************)
EXTENDS Records, FiniteSetTheorems, TLAPS

Mid == {"write", "log", "commit"}

(* Instances that missed no write: no edit of the row is missing from them, *)
(* their version is ahead once a save was called, and only restore can have *)
(* made them active when the row is not.                                    *)
Covers ==
    \A t \in fresh :
      pc[t] \in {"loaded"} \cup Mid =>
        /\ row.exists
        /\ row.edits \subseteq copy[t].edits
        /\ row.version <= copy[t].version
        /\ pc[t] = "write" \/ (t \in Locking /\ pc[t] \in Mid) => row.version < copy[t].version
        /\ t \in restorers \/ row.active \/ ~copy[t].active

(* A thread in a transaction holds the lock, so it misses no write; one     *)
(* that may begin has an attempt left.                                      *)
Locked ==
    \A t \in Locking :
      /\ pc[t] = "idle" => tries[t] < MaxAttempts
      /\ pc[t] \in Mid => /\ t \in fresh
                          /\ op[t] = "locked"
                          /\ copy[t].active = row.active

(* What each method set on the instance.                                    *)
Meant ==
    \A t \in Threads :
      pc[t] \in Mid =>
        /\ Whole(op[t]) => t \in copy[t].edits
        /\ op[t] = "restore" => t \in restorers
        /\ op[t] = "soft_delete" => (pc[t] = "write" => ~copy[t].active)
        /\ op[t] \in Ops

Watched ==
    ~crossed =>
      /\ \A t, u \in MidSave : t = u
      /\ \A t \in Threads :
           /\ pc[t] = "write" => (row.exists => kept = row)
           /\ pc[t] = "log" => (replaced[t].exists => kept = replaced[t])

IInv == TypeOK /\ Covers /\ Locked /\ Meant /\ Watched /\ EditsSurvive /\ VersionCounts

-----------------------------------------------------------------------------
LEMMA CommittedFinite ==
    ASSUME TypeOK, NEW t \in Threads
    PROVE  /\ Cardinality(committed) \in Nat
           /\ Cardinality(committed \cup {t}) \in Nat
           /\ Cardinality(committed \cup {t}) <= Cardinality(committed) + 1
<1>1. IsFiniteSet(committed)
    BY RecordsAssumption, FS_Subset DEF TypeOK
<1>2. Cardinality(committed) \in Nat
    BY <1>1, FS_CardinalityType
<1>3. \/ Cardinality(committed \cup {t}) = Cardinality(committed)
      \/ Cardinality(committed \cup {t}) = Cardinality(committed) + 1
    BY <1>1, FS_AddElement, Zenon
<1>4. QED
    BY <1>2, <1>3

(* The columns of the row after a write.                                    *)
LEMMA WrittenRow ==
    ASSUME TypeOK, NEW t \in Threads, row.exists \/ Whole(op[t])
    PROVE  /\ Written(t) \in Rows
           /\ Written(t).exists
           /\ Written(t).edits = IF Whole(op[t]) THEN copy[t].edits ELSE row.edits
           /\ Written(t).version = IF Whole(op[t]) THEN copy[t].version ELSE row.version
           /\ Written(t).active =
                IF Whole(op[t]) \/ op[t] \in {"soft_delete", "restore"}
                  THEN copy[t].active ELSE row.active
<1>1. copy[t] \in Rows /\ row \in Rows
    BY DEF TypeOK
<1>2. CASE Whole(op[t])
  <2>1. Written(t) = [copy[t] EXCEPT !.exists = TRUE]
      BY <1>2 DEF Written, Whole
  <2>2. QED
      BY <1>1, <1>2, <2>1 DEF Rows
<1>3. CASE ~Whole(op[t]) /\ op[t] \in {"soft_delete", "restore"}
  <2>1. Written(t) = [row EXCEPT !.active = copy[t].active]
      BY <1>3 DEF Written, Whole
  <2>2. QED
      BY <1>1, <1>3, <2>1 DEF Rows
<1>4. CASE ~Whole(op[t]) /\ op[t] \notin {"soft_delete", "restore"}
  <2>1. Written(t) = row
      BY <1>4 DEF Written, Whole
  <2>2. QED
      BY <1>1, <1>4, <2>1
<1>5. QED
    BY <1>2, <1>3, <1>4

LEMMA BumpedRow ==
    ASSUME NEW c \in Rows
    PROVE  /\ Bumped(c) \in Rows
           /\ Bumped(c).edits = c.edits
           /\ Bumped(c).active = c.active
           /\ Bumped(c).version = c.version + 1
    BY DEF Bumped, Rows

LEMMA AbsentRow == Absent \in Rows /\ ~Absent.exists
    BY DEF Absent, Rows

LEMMA InitIInv == Init => IInv
<1> SUFFICES ASSUME Init PROVE IInv
    OBVIOUS
<1> USE RecordsAssumption DEF Init
<1>1. row \in Rows /\ row.version = 1
    BY DEF Rows
<1>2. TypeOK
  <2>1. /\ copy \in [Threads -> Rows] /\ replaced \in [Threads -> Rows] /\ kept \in Rows
        /\ pc \in [Threads -> {"idle", "loaded", "write", "log", "commit", "done"}]
        /\ op \in [Threads -> Ops]
      BY AbsentRow DEF Ops
  <2>2. tries \in [Threads -> 0..MaxAttempts] /\ calls \in 0..MaxCalls
      OBVIOUS
  <2>3. \A t \in Locking : ~(lock = t) /\ pc[t] = "idle"
      BY DEF Threads
  <2>4. QED
      BY <1>1, <2>1, <2>2, <2>3 DEF TypeOK
<1>3. Covers /\ Locked /\ Meant
    BY DEF Covers, Locked, Meant, Mid, Threads
<1>4. Watched
    BY DEF Watched, MidSave
<1>5. Cardinality(committed) = 0
    BY FS_EmptySet
<1>6. EditsSurvive /\ VersionCounts
    BY <1>1, <1>5 DEF EditsSurvive, VersionCounts
<1>7. QED
    BY <1>2, <1>3, <1>4, <1>6 DEF IInv

-----------------------------------------------------------------------------
LEMMA LoadIInv == ASSUME IInv, NEW t \in Plain, Load(t) PROVE IInv'
<1> USE RecordsAssumption DEF IInv, TypeOK, Threads
<1>1. /\ t \in Threads /\ t \notin Locking
      /\ pc[t] \in {"idle", "loaded"} /\ row.exists
      /\ copy' = [copy EXCEPT ![t] = row]
      /\ fresh' = fresh \cup {t}
      /\ pc' = [pc EXCEPT ![t] = "loaded"]
      /\ UNCHANGED <<row, lock, op, committed, replaced, stale, kept, tries, calls,
                     crossed, restorers>>
    BY DEF Load, saving
<1>2. TypeOK'
    BY <1>1
<1>3. Covers'
    BY <1>1 DEF Covers, Mid, Rows
<1>4. Locked' /\ Meant'
    BY <1>1 DEF Locked, Meant, Mid
<1>5. Watched'
    BY <1>1 DEF Watched, MidSave
<1>6. EditsSurvive' /\ VersionCounts'
    BY <1>1 DEF EditsSurvive, VersionCounts
<1>7. QED
    BY <1>2, <1>3, <1>4, <1>5, <1>6

(* Beginning a save changes an instance only, and captures the row.         *)
LEMMA SaveCallWatched ==
    ASSUME IInv, NEW t \in Threads, NEW method, NEW instance, SaveCall(t, method, instance),
           pc[t] \notin Mid, UNCHANGED <<row, replaced>>
    PROVE  Watched'
<1> USE DEF IInv, TypeOK, Mid
<1>1. /\ kept' = Captured(t)
      /\ crossed' = (crossed \/ MidSave # {})
      /\ pc' = [pc EXCEPT ![t] = "write"]
    BY DEF SaveCall
<1>2. SUFFICES ASSUME ~crossed' PROVE
        /\ \A u, v \in MidSave' : u = v
        /\ \A u \in Threads :
             /\ pc'[u] = "write" => (row.exists => kept' = row)
             /\ pc'[u] = "log" => (replaced[u].exists => kept' = replaced[u])
    BY DEF Watched
<1>3. MidSave = {} /\ MidSave' = {t}
    BY <1>1, <1>2 DEF MidSave
<1>4. row.exists => kept' = row
    BY <1>1 DEF Captured
<1>5. \A u \in Threads : pc'[u] # "log"
    BY <1>1, <1>3 DEF MidSave
<1>6. QED
    BY <1>3, <1>4, <1>5

LEMMA CallIInv == ASSUME IInv, NEW t \in Plain, Call(t) PROVE IInv'
<1> USE RecordsAssumption DEF IInv, TypeOK, Threads
<1>1. /\ t \in Threads /\ t \notin Locking /\ pc[t] = "loaded"
      /\ restorers' = IF op'[t] = "restore" THEN restorers \cup {t} ELSE restorers
      /\ UNCHANGED <<row, lock, tries, committed, replaced, fresh, stale>>
    BY DEF Call
<1>2. PICK method \in {"save", "soft_delete", "restore", "update_meta"}, instance \in Rows :
        /\ SaveCall(t, method, instance)
        /\ instance.version = copy[t].version
        /\ copy[t].edits \subseteq instance.edits
        /\ method = "save" => t \in instance.edits
        /\ method = "soft_delete" => ~instance.active
        /\ method = "restore" \/ copy[t].active \/ ~instance.active
  <2>1. copy[t] \in Rows
      BY <1>1
  <2>2. CASE SaveCall(t, "save", [copy[t] EXCEPT !.edits = @ \cup {t}])
      BY <1>1, <2>1, <2>2 DEF Rows
  <2>3. CASE copy[t].active /\ SaveCall(t, "soft_delete", [copy[t] EXCEPT !.active = FALSE])
      BY <2>1, <2>3 DEF Rows
  <2>4. CASE ~copy[t].active /\ SaveCall(t, "restore", [copy[t] EXCEPT !.active = TRUE])
      BY <2>1, <2>4 DEF Rows
  <2>5. CASE SaveCall(t, "update_meta", copy[t])
      BY <2>1, <2>5 DEF Rows
  <2>6. QED
      BY <2>2, <2>3, <2>4, <2>5 DEF Call
<1>3. /\ copy' = [copy EXCEPT ![t] = Bumped(instance)]
      /\ kept' = Captured(t)
      /\ crossed' = (crossed \/ MidSave # {})
      /\ op' = [op EXCEPT ![t] = method]
      /\ pc' = [pc EXCEPT ![t] = "write"]
      /\ calls' = calls + 1 /\ calls < MaxCalls
    BY <1>2 DEF SaveCall
<1>4. /\ Bumped(instance) \in Rows
      /\ Bumped(instance).edits = instance.edits
      /\ Bumped(instance).active = instance.active
      /\ Bumped(instance).version = copy[t].version + 1
    BY <1>2, BumpedRow
<1>5. TypeOK'
    BY <1>1, <1>3, <1>4 DEF Captured, Ops
<1>6. Covers'
  <2> SUFFICES ASSUME NEW u \in fresh, pc'[u] \in {"loaded"} \cup Mid
               PROVE  /\ row.exists
                      /\ row.edits \subseteq copy'[u].edits
                      /\ row.version <= copy'[u].version
                      /\ pc'[u] = "write" \/ (u \in Locking /\ pc'[u] \in Mid)
                           => row.version < copy'[u].version
                      /\ u \in restorers' \/ row.active \/ ~copy'[u].active
      BY <1>1 DEF Covers
  <2>1. CASE u = t
    <3>1. /\ row.exists /\ row.edits \subseteq copy[t].edits
          /\ row.version <= copy[t].version
          /\ t \in restorers \/ row.active \/ ~copy[t].active
        BY <1>1, <2>1 DEF Covers
    <3>2. row.version \in Nat /\ copy[t].version \in Nat
        BY <1>1 DEF Rows
    <3>3. copy'[t] = Bumped(instance) /\ op'[t] = method
        BY <1>1, <1>3
    <3>4. QED
        BY <1>1, <1>2, <1>4, <2>1, <3>1, <3>2, <3>3
  <2>2. CASE u # t
    <3>1. copy'[u] = copy[u] /\ pc'[u] = pc[u] /\ (u \in restorers => u \in restorers')
        BY <1>1, <1>3, <2>2
    <3>2. QED
        BY <3>1 DEF Covers
  <2>3. QED
      BY <2>1, <2>2
<1>7. Locked'
    BY <1>1, <1>3 DEF Locked, Mid
<1>8. Meant'
    BY <1>1, <1>2, <1>3, <1>4 DEF Meant, Mid, Whole, Ops
<1>9. Watched'
    BY <1>1, <1>2, SaveCallWatched DEF Mid
<1>10. EditsSurvive' /\ VersionCounts'
    BY <1>1 DEF EditsSurvive, VersionCounts
<1>11. QED
    BY <1>5, <1>6, <1>7, <1>8, <1>9, <1>10

-----------------------------------------------------------------------------
(* A write takes the row of the only transaction, if any: the writer covers *)
(* the new row if it covered the old, and everybody else missed a write.    *)
LEMMA CommitIInv ==
    ASSUME IInv, NEW t \in Threads, pc[t] \in {"write", "commit"},
           t \in Locking => pc[t] = "commit", t \notin Locking => pc[t] = "write", row.exists \/ Whole(op[t]), Commit(t),
           UNCHANGED <<copy, op, tries, restorers>>,
           NEW where \in {"log", "done"}, t \in Locking => where = "done",
           pc' = [pc EXCEPT ![t] = where],
           \A u \in Locking \ {t} : pc[u] \notin Mid,
           ~stale' => ~stale /\ (Whole(op[t]) => t \in fresh)
    PROVE  /\ row' \in Rows /\ fresh' \in SUBSET Threads /\ committed' \in SUBSET Threads
           /\ Covers' /\ Locked' /\ Meant' /\ EditsSurvive' /\ VersionCounts'
<1> USE RecordsAssumption DEF IInv, TypeOK, Threads
<1>1. /\ row' = Written(t)
      /\ fresh' = fresh \cap {t}
      /\ committed' = IF Whole(op[t]) THEN committed \cup {t} ELSE committed
    BY DEF Commit
<1>2. /\ row' \in Rows /\ row'.exists
      /\ row'.edits = IF Whole(op[t]) THEN copy[t].edits ELSE row.edits
      /\ row'.version = IF Whole(op[t]) THEN copy[t].version ELSE row.version
      /\ row'.active = IF Whole(op[t]) \/ op[t] \in {"soft_delete", "restore"}
                         THEN copy[t].active ELSE row.active
    BY <1>1, WrittenRow
<1>3. row.version \in Nat /\ copy[t].version \in Nat
    BY DEF Rows
<1>4. fresh' \in SUBSET Threads /\ committed' \in SUBSET Threads
    BY <1>1
<1>5. ASSUME t \in fresh
      PROVE  /\ row.exists /\ row.edits \subseteq copy[t].edits
             /\ row.version <= copy[t].version /\ row.version < copy[t].version
             /\ t \in restorers \/ row.active \/ ~copy[t].active
    BY <1>5 DEF Covers, Mid
<1>6. Covers'
    BY <1>1, <1>2, <1>3, <1>5 DEF Covers, Mid
<1>7. Locked'
    BY DEF Locked, Mid
<1>8. Meant'
    BY DEF Meant, Mid
<1>9. EditsSurvive'
  <2> SUFFICES ASSUME ~stale' PROVE committed' \subseteq row'.edits
      BY DEF EditsSurvive
  <2>1. CASE Whole(op[t])
    <3>1. t \in copy[t].edits
        BY <2>1 DEF Meant, Mid
    <3>2. QED
        BY <1>1, <1>2, <1>5, <2>1, <3>1 DEF EditsSurvive
  <2>2. CASE ~Whole(op[t])
      BY <1>1, <1>2, <2>2 DEF EditsSurvive
  <2>3. QED
      BY <2>1, <2>2
<1>10. VersionCounts'
  <2> SUFFICES ASSUME ~stale' PROVE row'.version > Cardinality(committed')
      BY DEF VersionCounts
  <2>1. CASE Whole(op[t])
      BY <1>1, <1>2, <1>3, <1>5, <2>1, CommittedFinite DEF VersionCounts
  <2>2. CASE ~Whole(op[t])
      BY <1>1, <1>2, <2>2 DEF VersionCounts
  <2>3. QED
      BY <2>1, <2>2
<1>11. QED
    BY <1>2, <1>4, <1>6, <1>7, <1>8, <1>9, <1>10

LEMMA WriteIInv == ASSUME IInv, NEW t \in Plain, Write(t) PROVE IInv'
<1> USE RecordsAssumption DEF IInv, TypeOK, Threads
<1>1. /\ t \in Threads /\ t \notin Locking /\ pc[t] = "write"
      /\ lock \in {NoThread, t} /\ (row.exists \/ Whole(op[t])) /\ Commit(t)
      /\ replaced' = [replaced EXCEPT ![t] = row]
      /\ stale' = (stale \/ (Whole(op[t]) /\ t \notin fresh))
      /\ pc' = [pc EXCEPT ![t] = "log"]
      /\ UNCHANGED <<lock, op, copy, kept, tries, calls, crossed, restorers>>
    BY DEF Write, RowFree, saving
<1>2. \A u \in Locking \ {t} : pc[u] \notin Mid
    BY <1>1 DEF Mid
<1>3. stale' \in BOOLEAN /\ (~stale' => ~stale /\ (Whole(op[t]) => t \in fresh))
    BY <1>1
<1>4. /\ row' \in Rows /\ fresh' \in SUBSET Threads /\ committed' \in SUBSET Threads
      /\ Covers' /\ Locked' /\ Meant' /\ EditsSurvive' /\ VersionCounts'
    BY <1>1, <1>2, <1>3, CommitIInv
<1>5. TypeOK'
    BY <1>1, <1>3, <1>4
<1>6. Watched'
  <2>1. ASSUME ~crossed PROVE MidSave' = MidSave /\ MidSave = {t}
      BY <1>1, <2>1 DEF Watched, MidSave
  <2>2. ASSUME ~crossed, NEW u \in Threads
        PROVE  pc'[u] # "write" /\ (pc'[u] = "log" => u = t)
      BY <1>1, <2>1, <2>2 DEF MidSave
  <2>3. QED
      BY <1>1, <2>1, <2>2 DEF Watched
<1>7. QED
    BY <1>4, <1>5, <1>6

LEMMA WriteFailsIInv == ASSUME IInv, NEW t \in Plain, WriteFails(t) PROVE IInv'
<1> USE RecordsAssumption DEF IInv, TypeOK, Threads
<1>1. /\ t \in Threads /\ t \notin Locking /\ pc[t] = "write"
      /\ pc' = [pc EXCEPT ![t] = "loaded"]
      /\ UNCHANGED <<row, lock, op, copy, committed, replaced, fresh, stale,
                     kept, tries, calls, crossed, restorers>>
    BY DEF WriteFails, saving
<1>2. TypeOK' /\ EditsSurvive' /\ VersionCounts'
    BY <1>1 DEF EditsSurvive, VersionCounts
<1>3. Covers' /\ Locked' /\ Meant'
    BY <1>1 DEF Covers, Locked, Meant, Mid
<1>4. Watched'
    BY <1>1 DEF Watched, MidSave
<1>5. QED
    BY <1>2, <1>3, <1>4

LEMMA LogIInv == ASSUME IInv, NEW t \in Threads, Log(t) PROVE IInv'
<1> USE RecordsAssumption DEF IInv, TypeOK
<1>1. /\ pc[t] = "log"
      /\ kept' = IF replaced[t].exists THEN Absent ELSE kept
      /\ replaced' = [replaced EXCEPT ![t] = Absent]
      /\ pc' = [pc EXCEPT ![t] = IF t \in Plain THEN "loaded" ELSE "commit"]
      /\ UNCHANGED <<row, lock, op, copy, tries, calls, committed, fresh, stale, crossed,
                     restorers>>
    BY DEF Log
<1>2. t \in Locking <=> t \notin Plain
    BY DEF Threads
<1>3. TypeOK'
    BY <1>1, <1>2, AbsentRow
<1>4. EditsSurvive' /\ VersionCounts'
    BY <1>1 DEF EditsSurvive, VersionCounts
<1>5. Covers' /\ Locked' /\ Meant'
    BY <1>1, <1>2 DEF Covers, Locked, Meant, Mid
<1>6. Watched'
  <2>1. ASSUME ~crossed PROVE MidSave = {t} /\ MidSave' \subseteq {t}
      BY <1>1, <2>1 DEF Watched, MidSave
  <2>2. ASSUME ~crossed, NEW u \in Threads PROVE pc'[u] \notin {"write", "log"}
      BY <1>1, <2>1, <2>2 DEF MidSave
  <2>3. QED
      BY <1>1, <2>1, <2>2 DEF Watched
<1>7. QED
    BY <1>3, <1>4, <1>5, <1>6

LEMMA HardDeleteIInv == ASSUME IInv, NEW t \in Plain, HardDelete(t) PROVE IInv'
<1> USE RecordsAssumption DEF IInv, TypeOK, Threads
<1>1. /\ t \in Threads /\ t \notin Locking /\ pc[t] = "loaded"
      /\ lock \in {NoThread, t} /\ calls < MaxCalls /\ calls' = calls + 1
      /\ row' = Absent /\ fresh' = {} /\ committed' = {}
      /\ crossed' = (crossed \/ MidSave # {})
      /\ pc' = [pc EXCEPT ![t] = "done"]
      /\ UNCHANGED <<lock, op, copy, kept, tries, replaced, stale, restorers>>
    BY DEF HardDelete, RowFree
<1>2. TypeOK'
    BY <1>1, AbsentRow
<1>3. \A u \in Locking : pc[u] \notin Mid
    BY <1>1 DEF Mid
<1>4. Covers' /\ Locked' /\ Meant'
    BY <1>1, <1>3 DEF Covers, Locked, Meant, Mid
<1>5. EditsSurvive' /\ VersionCounts'
    BY <1>1, AbsentRow DEF EditsSurvive, VersionCounts
<1>6. Watched'
  <2>1. ASSUME ~crossed' PROVE ~crossed /\ MidSave = {} /\ MidSave' = {}
      BY <1>1, <2>1 DEF MidSave
  <2>2. QED
      BY <2>1 DEF Watched, MidSave
<1>7. QED
    BY <1>2, <1>4, <1>5, <1>6

-----------------------------------------------------------------------------
LEMMA LockRowIInv == ASSUME IInv, NEW t \in Locking, LockRow(t) PROVE IInv'
<1> USE RecordsAssumption DEF IInv, TypeOK, Threads
<1> DEFINE instance == [row EXCEPT !.edits = row.edits \cup {t}]
<1>1. /\ t \in Threads /\ t \notin Plain /\ pc[t] = "idle"
      /\ lock = NoThread /\ row.exists /\ lock' = t
      /\ tries' = [tries EXCEPT ![t] = tries[t] + 1]
      /\ SaveCall(t, "locked", instance)
      /\ fresh' = fresh \cup {t}
      /\ UNCHANGED <<row, committed, replaced, stale, restorers>>
    BY DEF LockRow, Lockable
<1>2. /\ copy' = [copy EXCEPT ![t] = Bumped(instance)]
      /\ kept' = Captured(t)
      /\ crossed' = (crossed \/ MidSave # {})
      /\ op' = [op EXCEPT ![t] = "locked"]
      /\ pc' = [pc EXCEPT ![t] = "write"]
      /\ calls' = calls + 1 /\ calls < MaxCalls
    BY <1>1 DEF SaveCall
<1>3. /\ instance \in Rows /\ instance.edits = row.edits \cup {t}
      /\ instance.active = row.active /\ instance.version = row.version
      /\ row.version \in Nat
    BY <1>1 DEF Rows
<1>4. /\ Bumped(instance) \in Rows
      /\ Bumped(instance).edits = row.edits \cup {t}
      /\ Bumped(instance).active = row.active
      /\ Bumped(instance).version = row.version + 1
    BY <1>3, BumpedRow
<1> HIDE DEF instance
<1>5. \A u \in Locking \ {t} : pc[u] \notin Mid
    BY <1>1 DEF Mid
<1>6. tries' \in [Threads -> 0..MaxAttempts]
    BY <1>1 DEF Locked
<1>7. TypeOK'
    BY <1>1, <1>2, <1>4, <1>5, <1>6 DEF Captured, Ops, Mid
<1>8. Covers'
    BY <1>1, <1>2, <1>3, <1>4 DEF Covers, Mid
<1>9. Locked'
    BY <1>1, <1>2, <1>4, <1>5 DEF Locked, Mid
<1>10. Meant'
    BY <1>1, <1>2, <1>4 DEF Meant, Mid, Whole, Ops
<1>11. Watched'
    BY <1>1, SaveCallWatched DEF Mid
<1>12. EditsSurvive' /\ VersionCounts'
    BY <1>1 DEF EditsSurvive, VersionCounts
<1>13. QED
    BY <1>7, <1>8, <1>9, <1>10, <1>11, <1>12

LEMMA LockedWriteIInv == ASSUME IInv, NEW t \in Locking, LockedWrite(t) PROVE IInv'
<1> USE RecordsAssumption DEF IInv, TypeOK, Threads
<1>1. /\ t \in Threads /\ pc[t] = "write"
      /\ replaced' = [replaced EXCEPT ![t] = row]
      /\ pc' = [pc EXCEPT ![t] = "log"]
      /\ UNCHANGED <<row, lock, op, copy, committed, fresh, stale, kept, tries, calls,
                     crossed, restorers>>
    BY DEF LockedWrite, saving
<1>2. TypeOK' /\ EditsSurvive' /\ VersionCounts'
    BY <1>1 DEF EditsSurvive, VersionCounts
<1>3. Covers' /\ Locked' /\ Meant'
    BY <1>1 DEF Covers, Locked, Meant, Mid
<1>4. Watched'
    BY <1>1 DEF Watched, MidSave
<1>5. QED
    BY <1>2, <1>3, <1>4

LEMMA LockedCommitIInv == ASSUME IInv, NEW t \in Locking, LockedCommit(t) PROVE IInv'
<1> USE RecordsAssumption DEF IInv, TypeOK, Threads
<1>1. /\ t \in Threads /\ pc[t] = "commit" /\ lock = t /\ Commit(t)
      /\ lock' = NoThread
      /\ pc' = [pc EXCEPT ![t] = "done"]
      /\ UNCHANGED <<op, copy, replaced, stale, kept, tries, calls, crossed, restorers>>
    BY DEF LockedCommit, saving
<1>2. t \in fresh /\ op[t] = "locked"
    BY <1>1 DEF Locked, Mid
<1>3. \A u \in Locking \ {t} : pc[u] \notin Mid
    BY <1>1 DEF Mid
<1>4. /\ row' \in Rows /\ fresh' \in SUBSET Threads /\ committed' \in SUBSET Threads
      /\ Covers' /\ Locked' /\ Meant' /\ EditsSurvive' /\ VersionCounts'
    BY <1>1, <1>2, <1>3, CommitIInv DEF Whole
<1>5. TypeOK'
    BY <1>1, <1>3, <1>4 DEF Mid
<1>6. Watched'
  <2>1. ASSUME ~crossed PROVE MidSave = {t} /\ MidSave' = {}
      BY <1>1, <2>1 DEF Watched, MidSave
  <2>2. QED
      BY <1>1, <2>1 DEF Watched, MidSave
<1>7. QED
    BY <1>4, <1>5, <1>6

LEMMA RollbackIInv == ASSUME IInv, NEW t \in Locking, Rollback(t) PROVE IInv'
<1> USE RecordsAssumption DEF IInv, TypeOK, Threads
<1>1. /\ t \in Threads /\ pc[t] \in {"write", "commit"} /\ lock = t /\ lock' = NoThread
      /\ pc' = [pc EXCEPT ![t] = IF tries[t] < MaxAttempts THEN "idle" ELSE "done"]
      /\ UNCHANGED <<row, op, copy, committed, replaced, fresh, stale, kept, tries, calls,
                     crossed, restorers>>
    BY DEF Rollback, saving
<1>2. TypeOK' /\ EditsSurvive' /\ VersionCounts'
    BY <1>1 DEF EditsSurvive, VersionCounts
<1>3. Covers' /\ Locked' /\ Meant'
    BY <1>1 DEF Covers, Locked, Meant, Mid
<1>4. Watched'
    BY <1>1 DEF Watched, MidSave
<1>5. QED
    BY <1>2, <1>3, <1>4

LEMMA StutterIInv == ASSUME IInv, UNCHANGED vars PROVE IInv'
    BY DEF vars, saving, IInv, TypeOK, Covers, Locked, Meant, Watched, MidSave,
           EditsSurvive, VersionCounts

LEMMA NextIInv == IInv /\ [Next]_vars => IInv'
<1> SUFFICES ASSUME IInv, [Next]_vars PROVE IInv'
    OBVIOUS
<1>1. CASE \E t \in Plain : Load(t) \/ Call(t) \/ Write(t) \/ WriteFails(t) \/ HardDelete(t)
    BY <1>1, LoadIInv, CallIInv, WriteIInv, WriteFailsIInv, HardDeleteIInv
<1>2. CASE \E t \in Locking : LockRow(t) \/ LockedWrite(t) \/ LockedCommit(t) \/ Rollback(t)
    BY <1>2, LockRowIInv, LockedWriteIInv, LockedCommitIInv, RollbackIInv
<1>3. QED
    BY <1>1, <1>2, LogIInv, StutterIInv DEF Next

LEMMA Invariance == Spec => []IInv
    BY InitIInv, NextIInv, PTL DEF Spec

-----------------------------------------------------------------------------
(* The state keeps its shape, and one transaction at a time holds the row.  *)
THEOREM TypeCorrect == Spec => []TypeOK
<1>1. IInv => TypeOK
    BY DEF IInv
<1>2. QED
    BY <1>1, Invariance, PTL

(* For any threads and attempts: only saving a whole instance that missed a *)
(* write undoes a committed edit.                                           *)
THEOREM OnlyStaleSavesLoseEdits == Spec => []EditsSurvive
<1>1. IInv => EditsSurvive
    BY DEF IInv
<1>2. QED
    BY <1>1, Invariance, PTL

(* ... and every committed edit moved the version.                          *)
THEOREM VersionCountsEdits == Spec => []VersionCounts
<1>1. IInv => VersionCounts
    BY DEF IInv
<1>2. QED
    BY <1>1, Invariance, PTL

(* For any threads and attempts: a soft-deleted row comes back only through *)
(* a thread that called restore or a whole instance that missed the deletion. *)
THEOREM OnlyRestoreRevives == Spec => DeletedStays
<1>1. ASSUME IInv, Next, row.exists, ~row.active, row'.exists, row'.active, ~stale'
      PROVE  \E t \in restorers : pc[t] = "write" /\ pc'[t] = "log"
  <2> USE DEF IInv, TypeOK, Threads
  <2>1. row' # row
      BY <1>1
  <2>2. \/ \E t \in Plain : Write(t)
        \/ \E t \in Locking : LockedCommit(t)
      BY <1>1, <2>1, AbsentRow DEF Next, Load, Call, WriteFails, HardDelete, Log, LockRow,
                                   LockedWrite, Rollback
  <2>3. ASSUME NEW t \in Locking, LockedCommit(t) PROVE FALSE
    <3>1. copy[t].active = row.active /\ op[t] = "locked"
        BY <1>1, <2>3 DEF LockedCommit, Locked, Mid
    <3>2. row'.active = copy[t].active
        BY <1>1, <2>3, <3>1, WrittenRow DEF LockedCommit, Commit, Whole
    <3>3. QED
        BY <1>1, <3>1, <3>2
  <2>4. ASSUME NEW t \in Plain, Write(t)
        PROVE  t \in restorers /\ pc[t] = "write" /\ pc'[t] = "log"
    <3>1. pc[t] = "write" /\ pc'[t] = "log" /\ t \in Threads
        BY <1>1, <2>4 DEF Write
    <3>2. /\ Whole(op[t]) \/ op[t] \in {"soft_delete", "restore"}
          /\ copy[t].active
        BY <1>1, <2>4, <3>1, WrittenRow DEF Write, Commit
    <3>3. CASE Whole(op[t])
      <4>1. t \in fresh
          BY <1>1, <2>4, <3>3 DEF Write
      <4>2. QED
          BY <1>1, <3>1, <3>2, <4>1 DEF Covers, Mid
    <3>4. CASE op[t] \in {"soft_delete", "restore"}
        BY <1>1, <3>1, <3>2, <3>4 DEF Meant, Mid
    <3>5. QED
        BY <3>1, <3>2, <3>3, <3>4
  <2>5. QED
      BY <2>2, <2>3, <2>4
<1>2. IInv /\ [Next]_vars =>
        [row.exists /\ ~row.active /\ row'.exists /\ row'.active /\ ~stale' =>
           \E t \in restorers : pc[t] = "write" /\ pc'[t] = "log"]_vars
    BY <1>1
<1>3. QED
    BY <1>2, Invariance, PTL DEF Spec, DeletedStays

(* For any threads and attempts: without overlapping saves, the state that  *)
(* the audit receivers report as the one before is the row replaced.        *)
THEOREM AuditReportsReplaced == Spec => BeforeStateTrue
<1>1. IInv /\ [Next]_vars =>
        [\A t \in Threads :
           pc[t] = "log" /\ pc'[t] # "log" /\ replaced[t].exists /\ ~crossed =>
             kept = replaced[t]]_vars
    BY DEF IInv, Watched
<1>2. QED
    BY <1>1, Invariance, PTL DEF Spec, BeforeStateTrue
-----------------------------------------------------------------------------
(* An instance that missed no write has no edits but the row's and its own. *)
Precise ==
    \A t \in fresh :
      pc[t] \in {"loaded"} \cup Mid => copy[t].edits \subseteq row.edits \cup {t}

LEMMA PreciseStep == IInv /\ Precise /\ [Next]_vars => Precise'
<1> SUFFICES ASSUME IInv, Precise, [Next]_vars PROVE Precise'
    OBVIOUS
<1> USE RecordsAssumption DEF TypeOK, Threads, Mid
<1>t. TypeOK
    BY DEF IInv
<1>c. ASSUME NEW t \in Threads, Commit(t), row.exists \/ Whole(op[t]), copy' = copy,
             \A u \in Threads \ {t} : pc'[u] = pc[u], pc[t] \in Mid
      PROVE  Precise'
  <2>1. row'.edits = IF Whole(op[t]) THEN copy[t].edits ELSE row.edits
      BY <1>c, <1>t, WrittenRow DEF Commit
  <2>2. fresh' = fresh \cap {t}
      BY <1>c DEF Commit
  <2>3. QED
      BY <1>c, <2>1, <2>2 DEF Precise
<1>i. ASSUME NEW t \in Threads, NEW method, NEW instance \in Rows,
             SaveCall(t, method, instance), row' = row, fresh' \subseteq fresh \cup {t},
             t \in fresh' => instance.edits \subseteq row.edits \cup {t}
      PROVE  Precise'
  <2>1. copy' = [copy EXCEPT ![t] = Bumped(instance)] /\ pc' = [pc EXCEPT ![t] = "write"]
      BY <1>i DEF SaveCall
  <2>2. Bumped(instance).edits = instance.edits
      BY <1>i, BumpedRow
  <2>3. \A u \in Threads \ {t} : copy'[u] = copy[u] /\ pc'[u] = pc[u]
      BY <1>t, <2>1
  <2>4. copy'[t].edits = instance.edits
      BY <1>t, <2>1, <2>2
  <2>5. fresh' \subseteq Threads
      BY <1>i, <1>t
  <2>6. QED
      BY <1>i, <2>3, <2>4, <2>5 DEF Precise
<1>1. ASSUME NEW t \in Plain, Load(t) PROVE Precise'
    BY <1>1, <1>t DEF Load, Precise
<1>2. ASSUME NEW t \in Plain, Call(t) PROVE Precise'
  <2>1. copy[t] \in Rows /\ pc[t] = "loaded" /\ UNCHANGED <<row, fresh>>
      BY <1>2, <1>t DEF Call
  <2>2. t \in fresh => copy[t].edits \subseteq row.edits \cup {t}
      BY <2>1 DEF Precise
  <2>3. CASE SaveCall(t, "save", [copy[t] EXCEPT !.edits = @ \cup {t}])
    <3>1. /\ [copy[t] EXCEPT !.edits = @ \cup {t}] \in Rows
          /\ [copy[t] EXCEPT !.edits = @ \cup {t}].edits = copy[t].edits \cup {t}
        BY <2>1 DEF Rows
    <3>2. QED
        BY <2>1, <2>2, <2>3, <3>1, <1>i
  <2>4. CASE SaveCall(t, "soft_delete", [copy[t] EXCEPT !.active = FALSE])
    <3>1. /\ [copy[t] EXCEPT !.active = FALSE] \in Rows
          /\ [copy[t] EXCEPT !.active = FALSE].edits = copy[t].edits
        BY <2>1 DEF Rows
    <3>2. QED
        BY <2>1, <2>2, <2>4, <3>1, <1>i
  <2>5. CASE SaveCall(t, "restore", [copy[t] EXCEPT !.active = TRUE])
    <3>1. /\ [copy[t] EXCEPT !.active = TRUE] \in Rows
          /\ [copy[t] EXCEPT !.active = TRUE].edits = copy[t].edits
        BY <2>1 DEF Rows
    <3>2. QED
        BY <2>1, <2>2, <2>5, <3>1, <1>i
  <2>6. CASE SaveCall(t, "update_meta", copy[t])
      BY <2>1, <2>2, <2>6, <1>i
  <2>7. QED
      BY <1>2, <2>3, <2>4, <2>5, <2>6 DEF Call
<1>3. ASSUME NEW t \in Plain, Write(t) PROVE Precise'
    BY <1>3, <1>c, <1>t DEF Write
<1>4. ASSUME NEW t \in Plain, WriteFails(t) PROVE Precise'
    BY <1>4, <1>t DEF WriteFails, Precise
<1>5. ASSUME NEW t \in Plain, HardDelete(t) PROVE Precise'
    BY <1>5 DEF HardDelete, Precise
<1>6. ASSUME NEW t \in Threads, Log(t) PROVE Precise'
    BY <1>6, <1>t DEF Log, Precise
<1>7. ASSUME NEW t \in Locking, LockRow(t) PROVE Precise'
  <2>1. /\ [row EXCEPT !.edits = @ \cup {t}] \in Rows
        /\ [row EXCEPT !.edits = @ \cup {t}].edits = row.edits \cup {t}
      BY <1>t DEF Rows
  <2>2. QED
      BY <1>7, <2>1, <1>i DEF LockRow
<1>8. ASSUME NEW t \in Locking, LockedWrite(t) PROVE Precise'
    BY <1>8, <1>t DEF LockedWrite, Precise
<1>9. ASSUME NEW t \in Locking, LockedCommit(t) PROVE Precise'
  <2>1. Whole(op[t])
      BY <1>9 DEF LockedCommit, IInv, Locked, Whole
  <2>2. QED
      BY <1>9, <2>1, <1>c, <1>t DEF LockedCommit
<1>10. ASSUME NEW t \in Locking, Rollback(t) PROVE Precise'
    BY <1>10, <1>t DEF Rollback, Precise
<1>11. CASE UNCHANGED vars
    BY <1>11 DEF vars, Precise
<1>12. QED
    BY <1>1, <1>2, <1>3, <1>4, <1>5, <1>6, <1>7, <1>8, <1>9, <1>10, <1>11 DEF Next

(* A write is an edit or a switch of the row as it is then, no change at    *)
(* all (update_meta), or an Overwrite.                                      *)
LEMMA CommitIsShared ==
    ASSUME IInv, Precise, NEW t \in Threads, Commit(t), pc[t] \in {"write", "commit"},
           pc[t] = "commit" => t \in Locking, row.exists \/ Whole(op[t]), UNCHANGED restorers,
           stale' = (stale \/ (Whole(op[t]) /\ t \notin fresh))
    PROVE  S!Edit(t) \/ S!Switch(t) \/ S!Overwrite(t) \/ UNCHANGED S!rvars
<1> USE RecordsAssumption DEF IInv, Threads, Mid
<1>1. row' = Written(t) /\ row \in Rows /\ copy[t] \in Rows /\ stale \in BOOLEAN
    BY DEF Commit, TypeOK
<1>2. /\ row'.exists
      /\ row'.edits = IF Whole(op[t]) THEN copy[t].edits ELSE row.edits
      /\ row'.version = IF Whole(op[t]) THEN copy[t].version ELSE row.version
      /\ row'.active = IF Whole(op[t]) \/ op[t] \in {"soft_delete", "restore"}
                         THEN copy[t].active ELSE row.active
    BY <1>1, WrittenRow
<1>3. /\ Whole(op[t]) => t \in copy[t].edits
      /\ op[t] = "restore" => t \in restorers
      /\ op[t] = "soft_delete" => (pc[t] = "write" => ~copy[t].active)
      /\ op[t] \in Ops
    BY DEF Meant
<1>4. CASE Whole(op[t]) /\ t \in fresh
  <2>1. /\ row.exists
        /\ row.edits \subseteq copy[t].edits
        /\ row.version < copy[t].version
        /\ t \in restorers \/ row.active \/ ~copy[t].active
      BY <1>4 DEF Covers
  <2>2. copy[t].edits = row.edits \cup {t}
      BY <1>3, <1>4, <2>1 DEF Precise
  <2>3. row.version \in Nat /\ copy[t].version \in Nat
      BY <1>1 DEF Rows
  <2>4. stale' = stale
      BY <1>1, <1>4
  <2>5. row'.edits = row.edits \cup {t} /\ row'.version = copy[t].version /\ row'.active = copy[t].active
      BY <1>2, <1>4, <2>2
  <2>6. QED
      BY <1>2, <2>1, <2>3, <2>4, <2>5 DEF S!Edit, S!MayBeActive
<1>5. CASE Whole(op[t]) /\ t \notin fresh
    BY <1>2, <1>3, <1>5 DEF S!Overwrite
<1>6. CASE op[t] \in {"soft_delete", "restore"}
  <2>1. row' = [row EXCEPT !.active = copy[t].active] /\ row.exists
      BY <1>1, <1>6 DEF Written, Whole
  <2>2. copy[t].active \in BOOLEAN
      BY <1>1 DEF Rows
  <2>3. pc[t] = "write"
      BY <1>6 DEF Locked
  <2>4. copy[t].active => t \in restorers
      BY <1>3, <1>6, <2>3
  <2>5. stale' = stale
      BY <1>1, <1>6 DEF Whole
  <2>6. QED
      BY <2>1, <2>2, <2>4, <2>5 DEF S!Switch, S!MayBeActive
<1>7. CASE op[t] = "update_meta"
  <2>1. row' = row /\ stale' = stale
      BY <1>1, <1>7 DEF Written, Whole
  <2>2. QED
      BY <2>1 DEF S!rvars
<1>8. QED
    BY <1>3, <1>4, <1>5, <1>6, <1>7 DEF Ops, Whole

LEMMA StepIsShared == IInv /\ Precise /\ [Next]_vars => [S!Next]_(S!rvars)
<1> SUFFICES ASSUME IInv, Precise, [Next]_vars PROVE [S!Next]_(S!rvars)
    OBVIOUS
<1> USE RecordsAssumption DEF Threads
<1>1. ASSUME NEW t \in Plain, Write(t) PROVE [S!Next]_(S!rvars)
  <2>1. S!Edit(t) \/ S!Switch(t) \/ S!Overwrite(t) \/ UNCHANGED S!rvars
      BY <1>1, CommitIsShared DEF Write, saving
  <2>2. QED
      BY <2>1 DEF S!Next
<1>2. ASSUME NEW t \in Locking, LockedCommit(t) PROVE [S!Next]_(S!rvars)
  <2>1. t \in fresh /\ Whole(op[t]) /\ stale \in BOOLEAN
      BY <1>2 DEF LockedCommit, IInv, Locked, Whole, Mid, TypeOK
  <2>2. S!Edit(t) \/ S!Switch(t) \/ S!Overwrite(t) \/ UNCHANGED S!rvars
      BY <1>2, <2>1, CommitIsShared DEF LockedCommit, saving
  <2>3. QED
      BY <2>2 DEF S!Next
<1>3. ASSUME NEW t \in Plain, Call(t) PROVE [S!Next]_(S!rvars)
  <2>1. UNCHANGED <<row, stale>> /\ restorers' \in {restorers, restorers \cup {t}}
      BY <1>3 DEF Call
  <2>2. S!AskRestore(t) \/ UNCHANGED S!rvars
      BY <2>1 DEF S!AskRestore, S!rvars
  <2>3. QED
      BY <2>2 DEF S!Next
<1>4. ASSUME NEW t \in Plain, HardDelete(t) PROVE S!Remove
    BY <1>4 DEF HardDelete, S!Remove, Absent, S!Gone
<1>5. ASSUME NEW t \in Threads,
             \/ t \in Plain /\ (Load(t) \/ WriteFails(t))
             \/ Log(t)
             \/ t \in Locking /\ (LockRow(t) \/ LockedWrite(t) \/ Rollback(t))
      PROVE  UNCHANGED S!rvars
    BY <1>5 DEF Load, WriteFails, Log, LockRow, LockedWrite, Rollback, saving, S!rvars
<1>6. CASE UNCHANGED vars
    BY <1>6 DEF vars, saving, S!rvars
<1>7. QED
    BY <1>1, <1>2, <1>3, <1>4, <1>5, <1>6 DEF Next, S!Next

(* For any threads, attempts and calls: each save is, for whoever reads the *)
(* table, one change made to the row as it is at that moment, unless it     *)
(* saves a whole instance that missed a write.                              *)
THEOREM SavesAreAtomic == Spec => SharesRow
<1>1. Init => S!Init /\ Precise
    BY DEF Init, S!Init, Precise
<1>2. QED
    BY <1>1, PreciseStep, StepIsShared, Invariance, PTL DEF Spec, SharesRow, S!Spec

(* A version in the table is a number until an Overwrite puts it there.     *)
Numbered == ~stale /\ row.exists => row.version \in Nat

(* What follows from that for the reader: until the first Overwrite, edits  *)
(* stay as long as the row does, and the version tells whether there was    *)
(* one.                                                                     *)
THEOREM SharedRowKeepsEdits == S!Spec => S!NothingUndone
<1> USE DEF Numbered
<1>1. S!Init => Numbered
    BY DEF S!Init
<1>2. Numbered /\ [S!Next]_(S!rvars) => Numbered'
    BY DEF S!Next, S!rvars, S!AskRestore, S!Edit, S!Switch, S!Remove, S!Overwrite, S!Gone
<1>3. ASSUME Numbered, [S!Next]_(S!rvars)
      PROVE  [row.exists /\ row'.exists /\ ~stale' =>
                /\ row.edits \subseteq row'.edits
                /\ row.version <= row'.version
                /\ row.version = row'.version => row.edits = row'.edits]_(S!rvars)
    BY <1>3 DEF S!Next, S!rvars, S!AskRestore, S!Edit, S!Switch, S!Remove, S!Overwrite, S!Gone
<1>4. QED
    BY <1>1, <1>2, <1>3, PTL DEF S!Spec, S!NothingUndone

(* The same, said of the code: no save that saw every write before it takes *)
(* an edit or a version out of the table.                                   *)
THEOREM TableKeepsEdits == Spec => S!NothingUndone
    BY SavesAreAtomic, SharedRowKeepsEdits DEF SharesRow
=============================================================================
