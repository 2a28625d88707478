-------------------------- MODULE Snowflake_proofs --------------------------
(***************************************************************************)
(* Safety of the id generator for any contexts, generators, sequence width  *)
(* and wait limit.  The ids of one context increase because the sequence    *)
(* number and the timestamp it keeps are those of the id it returned last,  *)
(* except while it waits and after a wait that failed: NewestInv says so.   *)
(***************************************************************************)
EXTENDS Snowflake, TLAPS

(* Unless a wait is under way or has failed, the stored sequence number is  *)
(* the one of the id returned last.                                         *)
NewestInv ==
    \A c \in Contexts :
        ~Waiting(c) /\ ~stalled[c] => newest[c][2] = sequence[c]

IInv == TypeOK /\ GuardTracksIds /\ NewestInv

-----------------------------------------------------------------------------
LEMMA NextSequenceType ==
    ASSUME TypeOK, NEW c \in Contexts
    PROVE  /\ NextSequence(c) \in 0..MaxSequence
           /\ NextSequence(c) # 0 => NextSequence(c) = sequence[c] + 1
<1>1. sequence[c] \in 0..MaxSequence
    BY DEF TypeOK
<1>2. CASE sequence[c] = MaxSequence
    BY <1>1, <1>2, SnowflakeAssumption DEF NextSequence
<1>3. CASE sequence[c] # MaxSequence
  <2>1. (sequence[c] + 1) % (MaxSequence + 1) = sequence[c] + 1
      BY <1>1, <1>3, SnowflakeAssumption
  <2>2. QED
      BY <2>1, <1>1, <1>3, SnowflakeAssumption DEF NextSequence
<1>4. QED
    BY <1>2, <1>3

LEMMA InitIInv == Init => IInv
    BY SnowflakeAssumption
    DEF Init, IInv, TypeOK, GuardTracksIds, NewestInv, NotWaiting

(* Returning an id keeps the invariant, whether the context has waited or   *)
(* not, provided it does not wait afterwards.                               *)
LEMMA IssueIInv ==
    ASSUME IInv, NEW c \in Contexts, Issue(c),
           waits' \in [Contexts -> NotWaiting..MaxWaits],
           \A d \in Contexts : d # c => waits'[d] = waits[d]
    PROVE  IInv'
<1> USE DEF IInv
<1>1. NextSequence(c) \in 0..MaxSequence
    BY NextSequenceType
<1>2. clock \in 0..MaxClock /\ clock \in -1..MaxClock
    BY SnowflakeAssumption DEF TypeOK
<1>3. TypeOK'
    BY <1>1, <1>2, SnowflakeAssumption DEF TypeOK, Issue
<1>4. GuardTracksIds'
    BY <1>1, <1>2 DEF TypeOK, GuardTracksIds, Issue
<1>5. NewestInv'
  <2> SUFFICES ASSUME NEW d \in Contexts, ~Waiting(d)', ~stalled'[d]
               PROVE  newest'[d][2] = sequence'[d]
      BY DEF NewestInv
  <2>1. CASE d = c
      BY <2>1, <1>1 DEF TypeOK, Issue
  <2>2. CASE d # c
      BY <2>2 DEF TypeOK, NewestInv, Issue, Waiting
  <2>3. QED
      BY <2>1, <2>2
<1>6. QED
    BY <1>3, <1>4, <1>5

LEMMA StepIInv == IInv /\ [Next]_vars => IInv'
<1> SUFFICES ASSUME IInv, [Next]_vars PROVE IInv'
    OBVIOUS
<1> USE SnowflakeAssumption DEF IInv
<1>1. CASE UNCHANGED vars
    BY <1>1 DEF vars, locals, TypeOK, GuardTracksIds, NewestInv, Waiting
<1>2. CASE Tick \/ SetBack
    BY <1>2 DEF Tick, SetBack, locals, TypeOK, GuardTracksIds, NewestInv, Waiting
<1>3. ASSUME NEW c \in Contexts, Generate(c) PROVE IInv'
    BY <1>3, IssueIInv DEF Generate, TypeOK
<1>4. ASSUME NEW c \in Contexts, Refuse(c) PROVE IInv'
    BY <1>4, <1>1 DEF Refuse
<1>5. ASSUME NEW c \in Contexts, StartWait(c) PROVE IInv'
  <2>1. TypeOK'
      BY <1>5 DEF StartWait, TypeOK, NotWaiting
  <2>2. GuardTracksIds'
      BY <1>5 DEF StartWait, GuardTracksIds
  <2>3. NewestInv'
      BY <1>5 DEF StartWait, TypeOK, NewestInv, Waiting, NotWaiting
  <2>4. QED
      BY <2>1, <2>2, <2>3
<1>6. ASSUME NEW c \in Contexts, Sleep(c) PROVE IInv'
  <2>1. TypeOK'
      BY <1>6 DEF Sleep, TypeOK, NotWaiting, Waiting
  <2>2. GuardTracksIds'
      BY <1>6 DEF Sleep, GuardTracksIds
  <2>3. NewestInv'
      BY <1>6 DEF Sleep, TypeOK, NewestInv, Waiting, NotWaiting
  <2>4. QED
      BY <2>1, <2>2, <2>3
<1>7. ASSUME NEW c \in Contexts, WaitSucceeds(c) PROVE IInv'
    BY <1>7, IssueIInv DEF WaitSucceeds, TypeOK, NotWaiting
<1>8. ASSUME NEW c \in Contexts, WaitFails(c) PROVE IInv'
  <2>1. TypeOK'
      BY <1>8 DEF WaitFails, TypeOK, NotWaiting
  <2>2. GuardTracksIds'
      BY <1>8 DEF WaitFails, GuardTracksIds
  <2>3. NewestInv'
      BY <1>8 DEF WaitFails, TypeOK, NewestInv, Waiting
  <2>4. QED
      BY <2>1, <2>2, <2>3
<1>9. ASSUME NEW c \in Contexts, NEW p \in Contexts, Fork(c, p) PROVE IInv'
  <2>1. TypeOK'
      BY <1>9 DEF Fork, TypeOK
  <2>2. GuardTracksIds'
      BY <1>9 DEF Fork, TypeOK, GuardTracksIds
  <2>3. NewestInv'
      BY <1>9 DEF Fork, TypeOK, NewestInv, Waiting
  <2>4. QED
      BY <2>1, <2>2, <2>3
<1>10. QED
    BY <1>1, <1>2, <1>3, <1>4, <1>5, <1>6, <1>7, <1>8, <1>9 DEF Next, WaitStep

-----------------------------------------------------------------------------
THEOREM Inductive == Spec => []IInv
<1>1. QED
    BY InitIInv, StepIInv, PTL DEF Spec

(* The variables keep their types.                                          *)
THEOREM TypeCorrect == Spec => []TypeOK
<1>1. IInv => TypeOK
    BY DEF IInv
<1>2. QED
    BY <1>1, Inductive, PTL

(* The clock guard compares with the id returned last.                      *)
THEOREM GuardIsExact == Spec => []GuardTracksIds
<1>1. IInv => GuardTracksIds
    BY DEF IInv
<1>2. QED
    BY <1>1, Inductive, PTL

(* Ids of one context increase strictly, except within a millisecond in     *)
(* which a wait has failed.                                                 *)
THEOREM IdsAreIncreasing == Spec => IdsIncrease
<1> DEFINE A == \A c \in Contexts : Generate(c) \/ WaitSucceeds(c) =>
                  \/ Later(newest'[c], newest[c])
                  \/ stalled[c] /\ newest'[c][1] = newest[c][1]
<1>1. IInv => A
  <2> SUFFICES ASSUME IInv, NEW c \in Contexts, Generate(c) \/ WaitSucceeds(c)
               PROVE  \/ Later(newest'[c], newest[c])
                      \/ stalled[c] /\ newest'[c][1] = newest[c][1]
      OBVIOUS
  <2> USE DEF IInv
  <2>1. newest'[c] = <<clock, NextSequence(c)>>
      BY DEF Generate, WaitSucceeds, Issue, TypeOK
  <2>2. /\ newest[c][1] = last[c] /\ newest[c][1] \in Int /\ newest[c][2] \in Int
        /\ clock \in Int /\ sequence[c] \in Int
      BY DEF GuardTracksIds, TypeOK
  <2>3. CASE clock > last[c]
      BY <2>1, <2>2, <2>3 DEF Later
  <2>4. CASE clock = last[c] /\ NextSequence(c) # 0 /\ ~Waiting(c)
    <3>1. NextSequence(c) = sequence[c] + 1
        BY <2>4, NextSequenceType
    <3>2. CASE stalled[c]
        BY <3>2, <2>1, <2>2, <2>4
    <3>3. CASE ~stalled[c]
      <4>1. newest[c][2] = sequence[c]
          BY <3>3, <2>4 DEF NewestInv
      <4>2. QED
          BY <4>1, <3>1, <2>1, <2>2, <2>4 DEF Later
    <3>4. QED
        BY <3>2, <3>3
  <2>5. QED
      BY <2>3, <2>4 DEF Generate, WaitSucceeds, LockFree
<1>2. QED
    BY <1>1, Inductive, PTL DEF IdsIncrease

-----------------------------------------------------------------------------
(* An undisturbed step of a context: no wait of it has failed in the        *)
(* millisecond of its last id, and it does not become another task's copy.  *)
Undisturbed(c) == ~stalled[c] /\ \A p \in Contexts : ~Fork(c, p)

AnyId == (-1..MaxClock) \X (0..MaxSequence)

(* An id that lies behind a context stays behind it: a step either leaves   *)
(* newest[c] alone or moves it forward.                                     *)
LEMMA PassedStep ==
    ASSUME NEW c \in Contexts, NEW id \in AnyId,
           IInv, [Next]_vars, [Undisturbed(c)]_vars, Later(newest[c], id)
    PROVE  Later(newest[c], id)'
<1> USE DEF IInv
<1>1. newest \in [Contexts -> AnyId]
    BY DEF TypeOK, AnyId
<1>2. CASE newest'[c] = newest[c]
    BY <1>2 DEF Later
<1>3. CASE Undisturbed(c) /\ (Generate(c) \/ WaitSucceeds(c))
  <2>1. newest'[c] = <<clock, NextSequence(c)>>
      BY <1>3 DEF Generate, WaitSucceeds, Issue, TypeOK
  <2>2. /\ newest[c][1] = last[c] /\ newest[c][1] \in Int /\ newest[c][2] \in Int
        /\ clock \in Int /\ sequence[c] \in Int
      BY DEF GuardTracksIds, TypeOK
  <2>3. id[1] \in Int /\ id[2] \in Int
      BY DEF AnyId
  <2>4. CASE clock > last[c]
      BY <2>1, <2>2, <2>3, <2>4 DEF Later
  <2>5. CASE clock = last[c] /\ NextSequence(c) # 0 /\ ~Waiting(c)
    <3>1. NextSequence(c) = newest[c][2] + 1
        BY <1>3, <2>5, NextSequenceType DEF NewestInv, Undisturbed
    <3>2. QED
        BY <3>1, <2>1, <2>2, <2>3, <2>5 DEF Later
  <2>6. QED
      BY <1>3, <2>4, <2>5 DEF Generate, WaitSucceeds, LockFree
<1>4. CASE Next /\ Undisturbed(c) /\ ~(Generate(c) \/ WaitSucceeds(c))
  <2>1. CASE Tick \/ SetBack
      BY <1>2, <2>1 DEF Tick, SetBack
  <2>2. ASSUME NEW d \in Contexts, Generate(d) \/ WaitSucceeds(d)
        PROVE  newest'[c] = newest[c]
      BY <1>1, <1>4, <2>2 DEF Generate, WaitSucceeds, Issue
  <2>3. ASSUME NEW d \in Contexts,
               Refuse(d) \/ StartWait(d) \/ Sleep(d) \/ WaitFails(d)
        PROVE  newest' = newest
      BY <2>3 DEF Refuse, StartWait, Sleep, WaitFails, vars
  <2>4. ASSUME NEW d \in Contexts, NEW p \in Contexts, Fork(d, p)
        PROVE  newest'[c] = newest[c]
      BY <1>1, <1>4, <2>4 DEF Fork, Undisturbed
  <2>5. QED
      BY <1>2, <1>4, <2>1, <2>2, <2>3, <2>4 DEF Next, WaitStep
<1>5. CASE UNCHANGED vars
    BY <1>2, <1>5 DEF vars
<1>6. QED
    BY <1>2, <1>3, <1>4, <1>5 DEF Undisturbed, vars

(* In a behaviour in which no wait of context c fails and c is never copied *)
(* over, an id that c has passed it never returns to: from then on every id *)
(* it has returned last is later.  IdsIncrease speaks of two neighbouring   *)
(* ids; this is its consequence for the whole life of the context, over     *)
(* clock set-backs and every other context's calls.                         *)
THEOREM IdsNeverReturn ==
    ASSUME NEW c \in Contexts, NEW id \in AnyId
    PROVE  Spec /\ [][Undisturbed(c)]_vars
             => [](Later(newest[c], id) => []Later(newest[c], id))
<1>1. IInv /\ [Next]_vars /\ [Undisturbed(c)]_vars /\ Later(newest[c], id)
        => Later(newest[c], id)'
    BY PassedStep
<1>2. QED
    BY <1>1, Inductive, PTL DEF Spec
=============================================================================
