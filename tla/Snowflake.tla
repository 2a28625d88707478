------------------------------ MODULE Snowflake ------------------------------
(***************************************************************************)
(* DjangoSnowflakeGenerator (apps/tcc/utils/snowflake.py).  Every worker    *)
(* process and thread is configured with the same datacenter and machine,   *)
(* so an id is told apart by its timestamp and its sequence number, and is  *)
(* modelled as that pair.  The generator keeps both in an asgiref Local: a  *)
(* context is a thread, or an asyncio task, which starts with a copy of its *)
(* parent's values.  cache.incr raises on a key nobody has set, and nobody  *)
(* sets one, so every sequence number comes from the local fallback.        *)
(***************************************************************************)
EXTENDS Integers

CONSTANTS
    Contexts,    \* threads and tasks that generate ids
    Generators,  \* generator instances (one per process, or more, see README)
    GeneratorOf, \* the generator, and so the lock, that each context uses
    MaxSequence, \* MAX_SEQUENCE, 2^12 - 1 in the code
    MaxWaits,    \* max_wait_ms, 100 in the code
    MaxClock     \* bound: the model ends when the clock reaches it

ASSUME SnowflakeAssumption ==
    /\ GeneratorOf \in [Contexts -> Generators]
    /\ MaxSequence \in Nat \ {0}
    /\ MaxWaits \in Nat
    /\ MaxClock \in Nat

VARIABLES
    clock,    \* time.time() in ms since the epoch; it may be set back
    sequence, \* _local.sequence of each context
    last,     \* _local.last_timestamp of each context, -1 at first
    waits,    \* wait_count of a context in _wait_for_next_millis, else NotWaiting
    newest,   \* history: the id each context returned last, <<-1, 0>> at first
    stalled   \* history: a wait of the context failed in millisecond last

locals == <<sequence, last, waits>>
vars   == <<clock, locals, newest, stalled>>

NotWaiting == -1

Init ==
    /\ clock \in 0..MaxClock
    /\ sequence = [c \in Contexts |-> 0]
    /\ last = [c \in Contexts |-> -1]
    /\ waits = [c \in Contexts |-> NotWaiting]
    /\ newest = [c \in Contexts |-> <<-1, 0>>]
    /\ stalled = [c \in Contexts |-> FALSE]

-----------------------------------------------------------------------------
Waiting(c) == waits[c] # NotWaiting

(* The lock of c's generator is free: a context that waits holds it.        *)
LockFree(c) == \A d \in Contexts : GeneratorOf[d] = GeneratorOf[c] => ~Waiting(d)

(* Mutant of NextSequence: the mask is left out.                            *)
NextSequenceUnmasked(c) == sequence[c] + 1

NextSequence(c) == (sequence[c] + 1) % (MaxSequence + 1)

(* generate_id returns the id made of the clock and the next sequence.      *)
Issue(c) ==
    /\ sequence' = [sequence EXCEPT ![c] = NextSequence(c)]
    /\ last' = [last EXCEPT ![c] = clock]
    /\ newest' = [newest EXCEPT ![c] = <<clock, NextSequence(c)>>]
    /\ stalled' = [stalled EXCEPT ![c] = @ /\ clock = last[c]]
    /\ UNCHANGED clock

(* Mutant of Generate: an exhausted sequence is not noticed.                *)
GenerateWrapping(c) ==
    /\ LockFree(c)
    /\ clock >= last[c]
    /\ Issue(c)
    /\ UNCHANGED waits

(* In the millisecond of the last id a zero sequence means exhausted; in a  *)
(* later one it is used like any other.                                     *)
Generate(c) ==
    /\ LockFree(c)
    /\ \/ clock > last[c]
       \/ clock = last[c] /\ NextSequence(c) # 0
    /\ Issue(c)
    /\ UNCHANGED waits

(* Mutant of Refuse: the guard is moved back before the exception.          *)
RefuseRewinding(c) ==
    /\ LockFree(c)
    /\ clock < last[c]
    /\ last' = [last EXCEPT ![c] = clock]
    /\ UNCHANGED <<clock, sequence, waits, newest, stalled>>

(* The clock is behind the last id: ClockDriftException.                    *)
Refuse(c) ==
    /\ LockFree(c)
    /\ clock < last[c]
    /\ UNCHANGED vars

(* The sequence is exhausted: wait for the next millisecond, holding the    *)
(* lock.  The wrapped sequence is stored already.                           *)
StartWait(c) ==
    /\ LockFree(c)
    /\ clock = last[c]
    /\ NextSequence(c) = 0
    /\ sequence' = [sequence EXCEPT ![c] = 0]
    /\ waits' = [waits EXCEPT ![c] = 0]
    /\ UNCHANGED <<clock, last, newest, stalled>>

(* Mutant of Sleep: wait_count is not incremented.                          *)
SleepUncounted(c) ==
    /\ Waiting(c)
    /\ clock <= last[c]
    /\ waits[c] < MaxWaits
    /\ UNCHANGED vars

Sleep(c) ==
    /\ Waiting(c)
    /\ clock <= last[c]
    /\ waits[c] < MaxWaits
    /\ waits' = [waits EXCEPT ![c] = @ + 1]
    /\ UNCHANGED <<clock, sequence, last, newest, stalled>>

WaitSucceeds(c) ==
    /\ Waiting(c)
    /\ clock > last[c]
    /\ waits' = [waits EXCEPT ![c] = NotWaiting]
    /\ Issue(c)

(* "Clock did not move forward after 100ms wait": ClockDriftException, and  *)
(* the lock is released.                                                    *)
WaitFails(c) ==
    /\ Waiting(c)
    /\ clock <= last[c]
    /\ waits[c] = MaxWaits
    /\ waits' = [waits EXCEPT ![c] = NotWaiting]
    /\ stalled' = [stalled EXCEPT ![c] = TRUE]
    /\ UNCHANGED <<clock, sequence, last, newest>>

-----------------------------------------------------------------------------
(* A task ends and another one of the process starts, with a copy of the    *)
(* values of context p.                                                     *)
Fork(c, p) ==
    /\ GeneratorOf[c] = GeneratorOf[p]
    /\ ~Waiting(c) /\ ~Waiting(p)
    /\ sequence' = [sequence EXCEPT ![c] = sequence[p]]
    /\ last' = [last EXCEPT ![c] = last[p]]
    /\ newest' = [newest EXCEPT ![c] = newest[p]]
    /\ stalled' = [stalled EXCEPT ![c] = stalled[p]]
    /\ UNCHANGED <<clock, waits>>

(* The wall clock advances, or is set back.                                 *)
Tick    == clock < MaxClock /\ clock' = clock + 1 /\ UNCHANGED <<locals, newest, stalled>>
SetBack == clock' \in 0..(clock - 1) /\ UNCHANGED <<locals, newest, stalled>>

WaitStep(c) == Sleep(c) \/ WaitSucceeds(c) \/ WaitFails(c)

Next ==
    \/ Tick \/ SetBack
    \/ \E c \in Contexts : Generate(c) \/ Refuse(c) \/ StartWait(c) \/ WaitStep(c)
    \/ \E c, p \in Contexts : Fork(c, p)

Spec == Init /\ [][Next]_vars

(* A thread that sleeps in generate_id runs again.  Nothing is assumed about *)
(* the clock: it may stand still for ever.                                  *)
FairSpec == Spec /\ \A c \in Contexts : WF_vars(WaitStep(c))

-----------------------------------------------------------------------------
(* Type invariant.                                                          *)
TypeOK ==
    /\ clock \in 0..MaxClock
    /\ sequence \in [Contexts -> 0..MaxSequence]
    /\ last \in [Contexts -> -1..MaxClock]
    /\ waits \in [Contexts -> NotWaiting..MaxWaits]
    /\ newest \in [Contexts -> (-1..MaxClock) \X (0..MaxSequence)]
    /\ stalled \in [Contexts -> BOOLEAN]

Later(new, old) == new[1] > old[1] \/ (new[1] = old[1] /\ new[2] > old[2])

(* The ids one context returns are strictly increasing, so it never repeats *)
(* one, over sequence wrap-around, clock set-backs and failed calls; only   *)
(* in a millisecond where a wait has failed may it fall back, and even then *)
(* not to an earlier millisecond.                                           *)
IdsIncrease ==
    [][ \A c \in Contexts : Generate(c) \/ WaitSucceeds(c) =>
          \/ Later(newest'[c], newest[c])
          \/ stalled[c] /\ newest'[c][1] = newest[c][1] ]_vars

(* The generator's clock guard compares with the id last returned, not with *)
(* a timestamp some failed call has left behind.                            *)
GuardTracksIds == \A c \in Contexts : last[c] = newest[c][1]

(* A call that waits, and the lock it holds, are released even if the clock *)
(* never moves again.                                                       *)
WaitEnds == \A c \in Contexts : Waiting(c) ~> ~Waiting(c)

(* _get_distributed_sequence: "Distributed sequence using Redis for         *)
(* uniqueness across instances".  Two contexts on different generators do   *)
(* not return the same id.                                                  *)
UniqueAcrossInstances ==
    \A c, d \in Contexts :
        GeneratorOf[c] # GeneratorOf[d] /\ newest[c][1] >= 0 => newest[c] # newest[d]
=============================================================================
