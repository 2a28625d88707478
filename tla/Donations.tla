----------------------------- MODULE Donations ------------------------------
(***************************************************************************)
(* The donations to one fund and the threads, of any worker process, that   *)
(* process their payments (models/donations/donation.py).  A payment saves  *)
(* the donation as completed, adds its amount to the balance on an instance *)
(* of the fund, and saves that instance whole; on any error it saves the    *)
(* donation as failed.  No transaction spans the saves.                     *)
(*                                                                          *)
(* The balance is kept as the number of times it contains the amount of     *)
(* each donation; current_balance is the sum of these amounts.              *)
(***************************************************************************)
EXTENDS Integers, FiniteSets

CONSTANTS
    Threads,
    Donations,
    Recorded,   \* donations that were created as completed
    MaxPays     \* bound on the payments begun

ASSUME DonationsAssumption ==
    /\ Recorded \subseteq Donations
    /\ MaxPays \in Nat

VARIABLES
    row,        \* the row of each donation: its status, and whether it has a receipt
    balance,    \* current_balance of the fund's row
    pc,         \* where each thread stands
    which,      \* the donation a thread has an instance of
    inst,       \* that instance
    fund,       \* the thread's instance of the fund, if it has one
    pays,       \* payments begun so far
    paid,       \* history: donations of which process_payment has credited
                \* the fund and returned True
    fresh,      \* history: threads whose donation misses no other write
    freshFund,  \* history: threads whose fund misses no other write
    late,       \* history: donations saved from an instance that missed a write
    missed,     \* history: a fund was saved that missed a write
    loose,      \* history: the donations whose credit is left on a thread's
                \* fund although saving it failed
    doubt,      \* history: donations that failed, though their credit was saved
    uncredited  \* history: donations that may be completed without a credit:
                \* Recorded, or their payment was killed or has raised

vars == <<row, balance, pc, which, inst, fund, pays, paid, fresh, freshFund, late,
          missed, loose, doubt, uncredited>>

Statuses  == {"pending", "completed", "failed"}
Instances == [status : Statuses, receipt : BOOLEAN]
Nothing   == [d \in Donations |-> 0]
Funds     == [loaded : BOOLEAN, credits : [Donations -> Nat]]
NoFund    == [loaded |-> FALSE, credits |-> Nothing]
Within    == {"save", "fund", "fail"}

Init ==
    /\ row = [d \in Donations |->
                IF d \in Recorded THEN [status |-> "completed", receipt |-> TRUE]
                                  ELSE [status |-> "pending", receipt |-> FALSE]]
    /\ balance = Nothing
    /\ pc = [t \in Threads |-> "idle"]
    /\ which \in [Threads -> Donations]
    /\ inst = [t \in Threads |-> row[which[t]]]
    /\ fund = [t \in Threads |-> NoFund]
    /\ pays = 0
    /\ paid = {}
    /\ fresh = {}
    /\ freshFund = {}
    /\ late = {}
    /\ missed = FALSE
    /\ loose = [t \in Threads |-> {}]
    /\ doubt = {}
    /\ uncredited = Recorded

-----------------------------------------------------------------------------
(* A thread takes a new instance of a donation: from a query of its own, or  *)
(* from the donations of the fund instance it holds, which then is the fund  *)
(* of that donation.                                                         *)
Take(t, d) ==
    /\ pc[t] \in {"idle", "loaded"}
    /\ which' = [which EXCEPT ![t] = d]
    /\ inst' = [inst EXCEPT ![t] = row[d]]
    /\ fresh' = fresh \cup {t}
    /\ pc' = [pc EXCEPT ![t] = "loaded"]
    /\ \/ UNCHANGED <<fund, loose>>
       \/ /\ fund' = [fund EXCEPT ![t] = NoFund]
          /\ loose' = [loose EXCEPT ![t] = {}]
    /\ UNCHANGED <<row, balance, pays, paid, freshFund, late, missed, doubt, uncredited>>

(* A thread takes a new instance of the fund, to go through its donations.   *)
TakeFund(t) ==
    /\ pc[t] = "idle"
    /\ fund' = [fund EXCEPT ![t] = [loaded |-> TRUE, credits |-> balance]]
    /\ loose' = [loose EXCEPT ![t] = {}]
    /\ freshFund' = freshFund \cup {t}
    /\ UNCHANGED <<row, balance, pc, which, inst, pays, paid, fresh, late, missed, doubt,
                   uncredited>>

(* Mutant of Payable: the test for a completed donation is left out.         *)
PayableAlways(t) == TRUE

(* A completed instance is not paid again: process_payment returns True.     *)
Payable(t) == inst[t].status # "completed"

(* Mutant of Receipted: every save sets the receipt anew.                    *)
ReceiptedAnew(i) == [i EXCEPT !.receipt = i.status = "completed"]

(* Donation.save gives an instance that is completed a receipt, and takes    *)
(* none away.                                                                *)
Receipted(i) == [i EXCEPT !.receipt = @ \/ i.status = "completed"]

Marked(t, status) == Receipted([inst[t] EXCEPT !.status = status])

(* process_payment, up to the UPDATE of the donation.                        *)
Pay(t) ==
    /\ pc[t] = "loaded"
    /\ Payable(t)
    /\ pays < MaxPays
    /\ pays' = pays + 1
    /\ inst' = [inst EXCEPT ![t] = Marked(t, "completed")]
    /\ pc' = [pc EXCEPT ![t] = "save"]
    /\ UNCHANGED <<row, balance, which, fund, paid, fresh, freshFund, late, missed, loose,
                   doubt, uncredited>>

(* The instance of a thread becomes the row.                                 *)
WriteRow(t) ==
    LET d == which[t] IN
    /\ row' = [row EXCEPT ![d] = inst[t]]
    /\ fresh' = {u \in fresh : u = t \/ which[u] # d}
    /\ late' = IF t \in fresh THEN late ELSE late \cup {d}

(* Mutant of Attached: nothing loads the fund.                               *)
AttachedNever(t) == fund[t]

(* The fund of the donation after a save: log_create_update has looked at    *)
(* every field of the instance, and so has loaded the fund unless it was     *)
(* there.                                                                    *)
Attached(t) == IF fund[t].loaded THEN fund[t] ELSE [loaded |-> TRUE, credits |-> balance]

(* The same, and whether the instance misses no write.                       *)
Attach(t, credits) ==
    /\ fund' = [fund EXCEPT ![t] = [Attached(t) EXCEPT !.credits = credits]]
    /\ freshFund' = IF fund[t].loaded THEN freshFund ELSE freshFund \cup {t}

(* The donation is saved, and its amount added to the balance in memory.     *)
Saved(t) ==
    /\ pc[t] = "save"
    /\ WriteRow(t)
    /\ Attach(t, [Attached(t).credits EXCEPT ![which[t]] = @ + 1])
    /\ pc' = [pc EXCEPT ![t] = "fund"]
    /\ UNCHANGED <<balance, which, inst, pays, paid, missed, loose, doubt, uncredited>>

(* An error while the donation is saved: before its UPDATE (validation, the  *)
(* database), or after it (a lost acknowledgement, a receiver's query), with *)
(* the fund loaded or not.  The except clause marks the instance as failed.  *)
SaveFails(t) ==
    /\ pc[t] = "save"
    /\ \/ UNCHANGED <<row, fresh, late, fund, freshFund>>
       \/ WriteRow(t) /\ UNCHANGED <<fund, freshFund>>
       \/ WriteRow(t) /\ Attach(t, Attached(t).credits)
    /\ inst' = [inst EXCEPT ![t] = Marked(t, "failed")]
    /\ pc' = [pc EXCEPT ![t] = "fail"]
    /\ UNCHANGED <<balance, which, pays, paid, missed, loose, doubt, uncredited>>

(* Mutant of NewBalance: the amount is not added.                            *)
NewBalanceAsRead(t) == [fund[t].credits EXCEPT ![which[t]] = @ - 1]

(* Mutant of NewBalance: the UPDATE adds the amount once more.              *)
NewBalanceTwice(t) == [fund[t].credits EXCEPT ![which[t]] = @ + 1]

NewBalance(t) == fund[t].credits

(* The fund of a thread becomes the fund's row.                              *)
WriteFund(t) ==
    /\ balance' = NewBalance(t)
    /\ freshFund' = freshFund \cap {t}
    /\ missed' = (missed \/ t \notin freshFund)
    /\ loose' = [loose EXCEPT ![t] = {}]

(* The fund is saved: process_payment returns True.                          *)
Credited(t) ==
    /\ pc[t] = "fund"
    /\ WriteFund(t)
    /\ doubt' = doubt \cup loose[t]
    /\ paid' = paid \cup {which[t]}
    /\ pc' = [pc EXCEPT ![t] = "loaded"]
    /\ UNCHANGED <<row, which, inst, fund, pays, fresh, late, uncredited>>

(* An error while the fund is saved, before its UPDATE (a balance with too   *)
(* many digits is one) or after it.                                          *)
CreditFails(t) ==
    /\ pc[t] = "fund"
    /\ \/ /\ loose' = [loose EXCEPT ![t] = @ \cup {which[t]}]
          /\ UNCHANGED <<balance, freshFund, missed, doubt>>
       \/ /\ WriteFund(t)
          /\ doubt' = doubt \cup loose[t] \cup {which[t]}
    /\ inst' = [inst EXCEPT ![t] = Marked(t, "failed")]
    /\ pc' = [pc EXCEPT ![t] = "fail"]
    /\ UNCHANGED <<row, which, fund, pays, paid, fresh, late, uncredited>>

(* The donation is saved as failed: process_payment returns False, or raises *)
(* when an error came after the UPDATE, maybe before the fund was loaded.    *)
FailSaved(t) ==
    /\ pc[t] = "fail"
    /\ WriteRow(t)
    /\ \/ Attach(t, Attached(t).credits)
       \/ UNCHANGED <<fund, freshFund>>
    /\ pc' = [pc EXCEPT ![t] = "loaded"]
    /\ UNCHANGED <<balance, which, inst, pays, paid, missed, loose, doubt, uncredited>>

(* This save fails too: process_payment raises.                              *)
FailRaises(t) ==
    /\ pc[t] = "fail"
    /\ uncredited' = uncredited \cup {which[t]}
    /\ pc' = [pc EXCEPT ![t] = "loaded"]
    /\ UNCHANGED <<row, balance, which, inst, fund, pays, paid, fresh, freshFund, late,
                   missed, loose, doubt>>

(* The thread drops its instances, or its worker is killed.                  *)
Gone(t) ==
    /\ pc[t] # "idle"
    /\ uncredited' = IF pc[t] \in {"fund", "fail"} THEN uncredited \cup {which[t]}
                                                    ELSE uncredited
    /\ pc' = [pc EXCEPT ![t] = "idle"]
    /\ fund' = [fund EXCEPT ![t] = NoFund]
    /\ loose' = [loose EXCEPT ![t] = {}]
    /\ UNCHANGED <<row, balance, which, inst, pays, paid, fresh, freshFund, late, missed,
                   doubt>>

Next ==
    \E t \in Threads :
      \/ \E d \in Donations : Take(t, d)
      \/ TakeFund(t)
      \/ Pay(t)
      \/ Saved(t) \/ SaveFails(t)
      \/ Credited(t) \/ CreditFails(t)
      \/ FailSaved(t) \/ FailRaises(t)
      \/ Gone(t)

Spec == Init /\ [][Next]_vars

-----------------------------------------------------------------------------
(* The shape of the state; a thread that saves a fund has one, and a thread  *)
(* that holds no fund has no credit left on it.                              *)
TypeOK ==
    /\ row \in [Donations -> Instances]
    /\ balance \in [Donations -> Nat]
    /\ pc \in [Threads -> {"idle", "loaded"} \cup Within]
    /\ which \in [Threads -> Donations]
    /\ inst \in [Threads -> Instances]
    /\ fund \in [Threads -> Funds]
    /\ pays \in 0..MaxPays
    /\ paid \in SUBSET Donations
    /\ fresh \in SUBSET Threads
    /\ freshFund \in SUBSET Threads
    /\ late \in SUBSET Donations
    /\ missed \in BOOLEAN
    /\ loose \in [Threads -> SUBSET Donations]
    /\ doubt \in SUBSET Donations
    /\ uncredited \in SUBSET Donations
    /\ \A t \in Threads : /\ pc[t] = "fund" => fund[t].loaded
                          /\ ~fund[t].loaded => loose[t] = {}

Busy(d) == \E t \in Threads : pc[t] \in Within /\ which[t] = d

(* A donation is completed if and only if the balance contains its amount,   *)
(* then once, whatever failed and was retried: unless a stale instance of    *)
(* it or of the fund was saved, its credit was saved although the payment    *)
(* failed, or its payment never got to an end.                               *)
TotalsAgree ==
    ~missed =>
      \A d \in Donations \ (late \cup doubt \cup uncredited) :
        ~Busy(d) => balance[d] = IF row[d].status = "completed" THEN 1 ELSE 0

(* A donation that was paid stays completed unless a stale instance of it    *)
(* was saved, and its amount in the balance unless a stale fund was saved:   *)
(* no later payment, failure or retry takes them back.                       *)
PaidStays ==
    \A d \in paid \ late :
      /\ row[d].status = "completed"
      /\ ~missed => balance[d] > 0

(* No error or retry credits a donation twice: its amount is in the balance  *)
(* at most once, in the middle of a payment too, and even after a save of a  *)
(* stale fund; only a stale instance of the donation, or a payment that      *)
(* failed although its credit was saved, can add to it again.                *)
CreditedOnce == \A d \in Donations \ (late \cup doubt) : balance[d] <= 1

(* No credit is invented: whatever is stale, fails or is retried, no         *)
(* donation is in the balance more often than payments were begun.           *)
CreditsWerePaid == \A d \in Donations : balance[d] <= pays

(* A donation never loses its receipt, also by saves of stale instances; a   *)
(* completed one has one.                                                    *)
ReceiptsStay ==
    [][\A d \in Donations :
         row[d].receipt \/ row'[d].status = "completed" => row'[d].receipt]_vars

(* What entities/donations.py takes for granted when it reports the balance  *)
(* as the total raised, which models/donations/donation.py computes from the *)
(* completed donations: while no payment is under way, none has failed with  *)
(* its credit saved, and none was cut short, the two agree.                  *)
BalanceIsTotal ==
    (\A d \in Donations : ~Busy(d)) /\ doubt = {} /\ uncredited = {} =>
      \A d \in Donations : balance[d] = IF row[d].status = "completed" THEN 1 ELSE 0
=============================================================================
