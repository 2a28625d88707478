-------------------------- MODULE Donations_proofs --------------------------
(***************************************************************************)
(* Proofs about Donations, from DonationsAssumption alone.                  *)
(***************************************************************************)
EXTENDS Donations, FiniteSetTheorems, TLAPS

(* A thread has an instance of d that misses no write.                      *)
HasFresh(t, d) == pc[t] # "idle" /\ which[t] = d /\ t \in fresh

(* It will not write it: process_payment would return True at once.         *)
IsDone(t) == pc[t] = "loaded" /\ inst[t].status = "completed"

(* What is on the instances, and that a thread within a payment has a       *)
(* receipt on its own.                                                      *)
Receipts ==
    /\ \A d \in Donations : row[d].status = "completed" => row[d].receipt
    /\ \A t \in Threads :
         /\ inst[t].status = "completed" \/ pc[t] \in Within => inst[t].receipt
         /\ pc[t] \in {"save", "fund"} => inst[t].status = "completed"
         /\ pc[t] = "fail" => inst[t].status = "failed"

(* While the fund is saved for a donation, nobody else can write it.        *)
Sole ==
    \A t \in Threads :
      pc[t] = "fund" /\ which[t] \notin late =>
        /\ t \in fresh
        /\ row[which[t]].status = "completed"
        /\ \A u \in Threads \ {t} : HasFresh(u, which[t]) => IsDone(u)

(* Nor can anyone once it is paid.                                          *)
Settled ==
    \A d \in paid \ late :
      /\ row[d].status = "completed"
      /\ \A u \in Threads : HasFresh(u, d) => IsDone(u)

Adding(t, d) == pc[t] = "fund" /\ which[t] = d

(* A fund that misses no write is the row, and what was credited to it.     *)
FundFollows ==
    ~missed =>
      \A t \in freshFund : fund[t].loaded =>
        \A d \in Donations :
          /\ balance[d] <= fund[t].credits[d]
          /\ Adding(t, d) => balance[d] < fund[t].credits[d]
          /\ d \notin loose[t] =>
               fund[t].credits[d] = IF Adding(t, d) THEN balance[d] + 1 ELSE balance[d]

PaidIsCredited == ~missed => \A d \in paid : balance[d] > 0

Regular(d) == ~missed /\ d \notin late \cup doubt \cup uncredited

(* A regular donation: who can still write it has not credited it, and if    *)
(* it is completed without a credit, somebody is about to change that.       *)
Accounted ==
    \A d \in Donations : Regular(d) =>
      /\ balance[d] \in {0, 1}
      /\ balance[d] = 1 => row[d].status = "completed"
      /\ \A t \in Threads : HasFresh(t, d) /\ ~IsDone(t) => balance[d] = 0
      /\ row[d].status = "completed" /\ balance[d] = 0 =>
           \E t \in Threads : pc[t] \in {"fund", "fail"} /\ which[t] = d

IInv == TypeOK /\ Receipts /\ Sole /\ Settled /\ FundFollows /\ PaidIsCredited /\ Accounted


-----------------------------------------------------------------------------
LEMMA InitIInv == Init => IInv
<1> SUFFICES ASSUME Init PROVE IInv
  OBVIOUS
<1> USE DonationsAssumption DEF Init, Nothing, NoFund
<1>1. TypeOK
  <2>1. row \in [Donations -> Instances]
    BY DEF Instances, Statuses
  <2>2. inst \in [Threads -> Instances]
    BY <2>1
  <2>3. Nothing \in [Donations -> Nat] /\ fund \in [Threads -> Funds]
    BY DEF Funds
  <2>4. pc \in [Threads -> {"idle", "loaded"} \cup Within] /\ pays \in 0..MaxPays
    OBVIOUS
  <2>5. QED
    BY <2>1, <2>2, <2>3, <2>4 DEF TypeOK
<1>2. Receipts
  BY DEF Receipts, Within
<1>3. Sole /\ Settled /\ FundFollows /\ PaidIsCredited
  BY DEF Sole, Settled, FundFollows, PaidIsCredited
<1>4. Accounted
  BY DEF Accounted, Regular, HasFresh
<1>5. QED
  BY <1>1, <1>2, <1>3, <1>4 DEF IInv

(* The steps of one thread.                                                 *)
Step(t) ==
    \/ \E d \in Donations : Take(t, d)
    \/ TakeFund(t)
    \/ Pay(t)
    \/ Saved(t)
    \/ SaveFails(t)
    \/ Credited(t)
    \/ CreditFails(t)
    \/ FailSaved(t)
    \/ FailRaises(t)
    \/ Gone(t)

LEMMA TypeStep ==
    ASSUME TypeOK, NEW t \in Threads, Step(t)
    PROVE  TypeOK'
<1> USE DEF TypeOK, Within
<1>a. /\ Marked(t, "completed") \in Instances
      /\ Marked(t, "failed") \in Instances
  BY DEF Marked, Receipted, Instances, Statuses
<1>b. Attached(t) \in Funds /\ Attached(t).loaded
  BY DEF Attached, Funds
<1>c. [Attached(t).credits EXCEPT ![which[t]] = @ + 1] \in [Donations -> Nat]
  BY <1>b DEF Funds
<1>d. WriteRow(t) => /\ row' \in [Donations -> Instances]
                     /\ fresh' \in SUBSET Threads
                     /\ late' \in SUBSET Donations
  BY DEF WriteRow
<1>e. ASSUME NEW c \in [Donations -> Nat], Attach(t, c)
      PROVE  /\ fund' \in [Threads -> Funds]
             /\ fund'[t].loaded
             /\ \A u \in Threads \ {t} : fund'[u] = fund[u]
             /\ freshFund' \in SUBSET Threads
  <2> DEFINE f == [Attached(t) EXCEPT !.credits = c]
  <2>1. f \in Funds /\ f.loaded
    BY <1>b DEF Funds
  <2>2. fund' = [fund EXCEPT ![t] = f] /\ freshFund' \in SUBSET Threads
    BY <1>e DEF Attach
  <2>3. QED
    BY <2>1, <2>2
<1>f. WriteFund(t) => /\ balance' \in [Donations -> Nat]
                      /\ freshFund' \in SUBSET Threads
                      /\ missed' \in BOOLEAN
                      /\ loose' = [loose EXCEPT ![t] = {}]
  BY DEF WriteFund, NewBalance, Funds
<1>g. NoFund \in Funds /\ ~NoFund.loaded
  BY DEF NoFund, Nothing, Funds
<1>h. [loaded |-> TRUE, credits |-> balance] \in Funds
  BY DEF Funds
<1>1. CASE \E d \in Donations : Take(t, d)
  BY <1>1, <1>g DEF Take
<1>2. CASE TakeFund(t)
  BY <1>2, <1>h DEF TakeFund
<1>3. CASE Pay(t)
  BY <1>3, <1>a, DonationsAssumption DEF Pay
<1>4. CASE Saved(t)
  BY <1>4, <1>c, <1>d, <1>e DEF Saved
<1>5. CASE SaveFails(t)
  <2>1. CASE UNCHANGED <<row, fresh, late, fund, freshFund>>
    BY <1>5, <2>1, <1>a DEF SaveFails
  <2>2. CASE WriteRow(t) /\ UNCHANGED <<fund, freshFund>>
    BY <1>5, <2>2, <1>a, <1>d DEF SaveFails
  <2>3. CASE WriteRow(t) /\ Attach(t, Attached(t).credits)
    <3>1. Attached(t).credits \in [Donations -> Nat]
      BY <1>b DEF Funds
    <3>2. QED
      BY <1>5, <2>3, <3>1, <1>a, <1>d, <1>e DEF SaveFails
  <2>4. QED
    BY <1>5, <2>1, <2>2, <2>3 DEF SaveFails
<1>6. CASE Credited(t)
  BY <1>6, <1>f DEF Credited
<1>7. CASE CreditFails(t)
  <2>1. CASE loose' = [loose EXCEPT ![t] = @ \cup {which[t]}]
             /\ UNCHANGED <<balance, freshFund, missed, doubt>>
    BY <1>7, <2>1, <1>a DEF CreditFails
  <2>2. CASE WriteFund(t) /\ doubt' = doubt \cup loose[t] \cup {which[t]}
    BY <1>7, <2>2, <1>a, <1>f DEF CreditFails
  <2>3. QED
    BY <1>7, <2>1, <2>2 DEF CreditFails
<1>8. CASE FailSaved(t)
  <2>1. CASE Attach(t, Attached(t).credits)
    <3>1. Attached(t).credits \in [Donations -> Nat]
      BY <1>b DEF Funds
    <3>2. QED
      BY <1>8, <2>1, <3>1, <1>d, <1>e DEF FailSaved
  <2>2. CASE UNCHANGED <<fund, freshFund>>
    BY <1>8, <2>2, <1>d DEF FailSaved
  <2>3. QED
    BY <1>8, <2>1, <2>2 DEF FailSaved
<1>9. CASE FailRaises(t)
  BY <1>9 DEF FailRaises
<1>10. CASE Gone(t)
  BY <1>10, <1>g DEF Gone
<1>11. QED
  BY <1>1, <1>2, <1>3, <1>4, <1>5, <1>6, <1>7, <1>8, <1>9, <1>10 DEF Step

LEMMA ReceiptsStep ==
    ASSUME TypeOK, Receipts, NEW t \in Threads, Step(t)
    PROVE  Receipts' /\ \A d \in Donations : row[d].receipt => row'[d].receipt
<1> USE DEF TypeOK, Receipts, Within
<1>a. /\ Marked(t, "completed").status = "completed"
      /\ Marked(t, "completed").receipt
      /\ Marked(t, "failed").status = "failed"
      /\ inst[t].receipt => Marked(t, "failed").receipt
  BY DEF Marked, Receipted, Instances, Statuses
<1>b. WriteRow(t) => row' = [row EXCEPT ![which[t]] = inst[t]]
  BY DEF WriteRow
<1>1. CASE \E d \in Donations : Take(t, d)
  BY <1>1 DEF Take
<1>2. CASE TakeFund(t)
  BY <1>2 DEF TakeFund
<1>3. CASE Pay(t)
  BY <1>3, <1>a DEF Pay
<1>4. CASE Saved(t)
  BY <1>4, <1>b DEF Saved
<1>5. CASE SaveFails(t)
  <2>1. row' = row \/ row' = [row EXCEPT ![which[t]] = inst[t]]
    BY <1>5, <1>b DEF SaveFails
  <2>2. QED
    BY <1>5, <2>1, <1>a DEF SaveFails
<1>6. CASE Credited(t)
  BY <1>6 DEF Credited
<1>7. CASE CreditFails(t)
  BY <1>7, <1>a DEF CreditFails
<1>8. CASE FailSaved(t)
  BY <1>8, <1>b DEF FailSaved
<1>9. CASE FailRaises(t)
  BY <1>9 DEF FailRaises
<1>10. CASE Gone(t)
  BY <1>10 DEF Gone
<1>11. QED
  BY <1>1, <1>2, <1>3, <1>4, <1>5, <1>6, <1>7, <1>8, <1>9, <1>10 DEF Step


(* A write of a row: nobody else's instance of the donation is current, and  *)
(* unless it becomes late, the writer's was.                                 *)
LEMMA RowWritten ==
    ASSUME TypeOK, NEW t \in Threads, WriteRow(t)
    PROVE  /\ row'[which[t]] = inst[t]
           /\ \A d \in Donations \ {which[t]} : row'[d] = row[d]
           /\ late \subseteq late'
           /\ which[t] \notin late' => t \in fresh
           /\ \A u \in fresh' : u \in fresh /\ (which[u] = which[t] => u = t)
           /\ \A u \in fresh : which[u] # which[t] => u \in fresh'
           /\ t \in fresh => t \in fresh'
BY DEF TypeOK, WriteRow

(* A thread within a payment either writes the donation, or leaves rows and  *)
(* other instances alone.                                                    *)
LEMMA SettledStep ==
    ASSUME IInv, NEW t \in Threads, Step(t)
    PROVE  Sole' /\ Settled'
<1> USE DEF IInv, TypeOK, Sole, Settled, HasFresh, IsDone, Within
<1>a. ASSUME WriteRow(t), pc[t] \in {"save", "fail"}, which' = which,
             paid' = paid, pc' = [pc EXCEPT ![t] = "loaded"] \/ pc' = [pc EXCEPT ![t] = "fail"],
             \A u \in Threads \ {t} : inst'[u] = inst[u]
      PROVE  Sole' /\ Settled'
  BY <1>a, RowWritten
<1>b. Receipts
  OBVIOUS
<1>c. ASSUME row' = row, fresh' = fresh, late' = late, which' = which, paid' = paid,
             pc[t] \in Within,
             pc' = [pc EXCEPT ![t] = "fail"] \/ pc' = [pc EXCEPT ![t] = "loaded"],
             \A u \in Threads \ {t} : inst'[u] = inst[u]
      PROVE  Sole' /\ Settled'
  BY <1>c
<1>1. CASE \E d \in Donations : Take(t, d)
  BY <1>1 DEF Take
<1>2. CASE TakeFund(t)
  BY <1>2 DEF TakeFund
<1>3. CASE Pay(t)
  BY <1>3 DEF Pay, Payable
<1>4. CASE Saved(t)
  <2>1. inst[t].status = "completed"
    BY <1>4 DEF Saved, Receipts
  <2>2. QED
    BY <1>4, <2>1, RowWritten DEF Saved
<1>5. CASE SaveFails(t)
  BY <1>5, <1>a, <1>c DEF SaveFails
<1>6. CASE Credited(t)
  <2>1. inst[t].status = "completed"
    BY <1>6 DEF Credited, Receipts
  <2>2. QED
    BY <1>6, <2>1 DEF Credited
<1>7. CASE CreditFails(t)
  BY <1>7, <1>c DEF CreditFails
<1>8. CASE FailSaved(t)
  BY <1>8, <1>a DEF FailSaved
<1>9. CASE FailRaises(t)
  BY <1>9, <1>c DEF FailRaises
<1>10. CASE Gone(t)
  BY <1>10 DEF Gone
<1>11. QED
  BY <1>1, <1>2, <1>3, <1>4, <1>5, <1>6, <1>7, <1>8, <1>9, <1>10 DEF Step


(* The fund on a thread's instance after it was attached.                    *)
LEMMA FundAttached ==
    ASSUME TypeOK, NEW t \in Threads, NEW c \in [Donations -> Nat], Attach(t, c)
    PROVE  /\ fund'[t].loaded
           /\ fund'[t].credits = c
           /\ \A u \in Threads \ {t} : fund'[u] = fund[u] /\ (u \in freshFund' <=> u \in freshFund)
           /\ Attached(t) \in Funds
           /\ Attached(t).credits \in [Donations -> Nat]
           /\ fund[t].loaded => Attached(t) = fund[t] /\ (t \in freshFund' <=> t \in freshFund)
           /\ ~fund[t].loaded => Attached(t).credits = balance /\ loose[t] = {}
<1> DEFINE f == [Attached(t) EXCEPT !.credits = c]
<1>1. Attached(t) \in Funds /\ Attached(t).loaded /\ Attached(t).credits \in [Donations -> Nat]
  BY DEF TypeOK, Attached, Funds
<1>2. f.loaded /\ f.credits = c
  BY <1>1 DEF Funds
<1>3. fund' = [fund EXCEPT ![t] = f]
  BY DEF Attach
<1>4. fund'[t] = f /\ \A u \in Threads \ {t} : fund'[u] = fund[u]
  BY <1>3 DEF TypeOK
<1>5. \A u \in Threads \ {t} : u \in freshFund' <=> u \in freshFund
  BY DEF Attach
<1>6. fund[t].loaded => Attached(t) = fund[t] /\ (t \in freshFund' <=> t \in freshFund)
  BY DEF Attached, Attach
<1>7. ~fund[t].loaded => Attached(t).credits = balance /\ loose[t] = {}
  BY DEF Attached, TypeOK
<1>8. QED
  BY <1>1, <1>2, <1>4, <1>5, <1>6, <1>7

(* Everything a fund says of one donation.                                   *)
Follows(t, d) ==
    /\ balance[d] <= fund[t].credits[d]
    /\ Adding(t, d) => balance[d] < fund[t].credits[d]
    /\ d \notin loose[t] =>
         fund[t].credits[d] = IF Adding(t, d) THEN balance[d] + 1 ELSE balance[d]

LEMMA FundStep ==
    ASSUME IInv, NEW t \in Threads, Step(t)
    PROVE  FundFollows'
<1> USE DEF IInv
<1>0. \A u \in Threads, d \in Donations : balance[d] \in Nat /\ fund[u].credits[d] \in Nat
  BY DEF TypeOK, Funds
<1>a. SUFFICES ASSUME ~missed', NEW u \in freshFund', fund'[u].loaded, NEW d \in Donations
               PROVE  Follows(u, d)'
  BY DEF FundFollows, Follows
<1>b. u \in Threads
  <2>1. TypeOK'
    BY TypeStep
  <2>2. QED
    BY <2>1 DEF TypeOK
<1>c. ASSUME ~missed, u \in freshFund, fund[u].loaded PROVE Follows(u, d)
  BY <1>c, <1>b DEF FundFollows, Follows
<1>d. ASSUME NEW c \in [Donations -> Nat], Attach(t, c), pc[t] \in {"save", "fail"},
             UNCHANGED <<balance, missed, loose>>,
             \/ /\ c = Attached(t).credits
                /\ pc' = [pc EXCEPT ![t] = "fail"] \/ pc' = [pc EXCEPT ![t] = "loaded"]
             \/ c = [Attached(t).credits EXCEPT ![which[t]] = @ + 1] /\ pc' = [pc EXCEPT ![t] = "fund"],
             which' = which
      PROVE  Follows(u, d)'
  <2>1. CASE u # t
    BY <2>1, <1>a, <1>b, <1>c, <1>d, FundAttached DEF Follows, Adding, TypeOK
  <2>2. CASE u = t
    <3>1. /\ balance[d] <= Attached(t).credits[d]
          /\ d \notin loose[t] => Attached(t).credits[d] = balance[d]
      BY <2>2, <1>0, <1>a, <1>c, <1>d, FundAttached DEF Follows, Adding
    <3>2. Attached(t).credits \in [Donations -> Nat] /\ which[t] \in Donations
      BY <1>d, FundAttached DEF TypeOK
    <3>3. fund'[t].credits = c
      BY <1>d, FundAttached
    <3>4. CASE /\ c = Attached(t).credits
               /\ pc' = [pc EXCEPT ![t] = "fail"] \/ pc' = [pc EXCEPT ![t] = "loaded"]
      BY <2>2, <3>1, <3>3, <3>4, <1>d DEF Follows, Adding, TypeOK
    <3>5. CASE c = [Attached(t).credits EXCEPT ![which[t]] = @ + 1] /\ pc' = [pc EXCEPT ![t] = "fund"]
      BY <2>2, <3>1, <3>2, <3>3, <3>5, <1>0, <1>d DEF Follows, Adding, TypeOK
    <3>6. QED
      BY <3>4, <3>5, <1>d
  <2>3. QED
    BY <2>1, <2>2
<1>e. ASSUME WriteFund(t), fund' = fund, which' = which,
             pc' = [pc EXCEPT ![t] = "loaded"] \/ pc' = [pc EXCEPT ![t] = "fail"]
      PROVE  Follows(u, d)'
  <2>1. u = t /\ balance' = fund[t].credits
    BY <1>a, <1>e DEF WriteFund, NewBalance
  <2>2. QED
    BY <2>1, <1>0, <1>e DEF Follows, Adding, TypeOK
<1>1. CASE \E e \in Donations : Take(t, e)
  BY <1>1, <1>a, <1>b, <1>c DEF Take, Follows, Adding, TypeOK, NoFund
<1>2. CASE TakeFund(t)
  BY <1>2, <1>0, <1>a, <1>b, <1>c DEF TakeFund, Follows, Adding, TypeOK
<1>3. CASE Pay(t)
  BY <1>3, <1>a, <1>b, <1>c DEF Pay, Follows, Adding, TypeOK
<1>4. CASE Saved(t)
  <2>1. Attached(t).credits \in [Donations -> Nat]
    BY DEF Attached, TypeOK, Funds
  <2>2. \A k \in [Donations -> Nat], e \in Donations :
          [k EXCEPT ![e] = @ + 1] \in [Donations -> Nat]
    OBVIOUS
  <2>3. [Attached(t).credits EXCEPT ![which[t]] = @ + 1] \in [Donations -> Nat]
    BY <2>1, <2>2 DEF TypeOK
  <2>4. QED
    BY <1>4, <2>3, <1>d DEF Saved
<1>5. CASE SaveFails(t)
  <2>1. Attached(t).credits \in [Donations -> Nat]
    BY DEF Attached, TypeOK, Funds
  <2>2. CASE Attach(t, Attached(t).credits)
    BY <1>5, <2>1, <2>2, <1>d DEF SaveFails
  <2>3. CASE UNCHANGED <<fund, freshFund>>
    BY <1>5, <2>3, <1>a, <1>b, <1>c DEF SaveFails, Follows, Adding, TypeOK
  <2>4. QED
    BY <1>5, <2>2, <2>3 DEF SaveFails
<1>6. CASE Credited(t)
  BY <1>6, <1>e DEF Credited
<1>7. CASE CreditFails(t)
  <2>1. CASE WriteFund(t)
    BY <1>7, <2>1, <1>e DEF CreditFails
  <2>2. CASE /\ loose' = [loose EXCEPT ![t] = @ \cup {which[t]}]
             /\ UNCHANGED <<balance, freshFund, missed, doubt>>
    BY <1>7, <2>2, <1>0, <1>a, <1>b, <1>c DEF CreditFails, Follows, Adding, TypeOK
  <2>3. QED
    BY <1>7, <2>1, <2>2 DEF CreditFails
<1>8. CASE FailSaved(t)
  <2>1. Attached(t).credits \in [Donations -> Nat]
    BY DEF Attached, TypeOK, Funds
  <2>2. CASE Attach(t, Attached(t).credits)
    BY <1>8, <2>1, <2>2, <1>d DEF FailSaved
  <2>3. CASE UNCHANGED <<fund, freshFund>>
    BY <1>8, <2>3, <1>a, <1>b, <1>c DEF FailSaved, Follows, Adding, TypeOK
  <2>4. QED
    BY <1>8, <2>2, <2>3 DEF FailSaved
<1>9. CASE FailRaises(t)
  BY <1>9, <1>a, <1>b, <1>c DEF FailRaises, Follows, Adding, TypeOK
<1>10. CASE Gone(t)
  BY <1>10, <1>a, <1>b, <1>c DEF Gone, Follows, Adding, TypeOK, NoFund
<1>11. QED
  BY <1>1, <1>2, <1>3, <1>4, <1>5, <1>6, <1>7, <1>8, <1>9, <1>10 DEF Step


(* Saving a fund that misses no write takes no credit away.                  *)
LEMMA BalanceGrows ==
    ASSUME IInv, NEW t \in Threads, pc[t] = "fund", WriteFund(t), ~missed'
    PROVE  /\ \A d \in Donations : balance'[d] \in Nat /\ balance[d] <= balance'[d]
           /\ balance'[which[t]] > balance[which[t]]
           /\ \A d \in Donations \ loose[t] :
                balance'[d] = IF d = which[t] THEN balance[d] + 1 ELSE balance[d]
<1>1. t \in freshFund /\ ~missed /\ balance' = fund[t].credits
  BY DEF WriteFund, NewBalance
<1>2. fund[t].loaded /\ fund[t].credits \in [Donations -> Nat] /\ which[t] \in Donations
  BY DEF IInv, TypeOK, Funds
<1>3. QED
  BY <1>1, <1>2 DEF IInv, TypeOK, FundFollows, Adding

LEMMA PaidStep ==
    ASSUME IInv, NEW t \in Threads, Step(t)
    PROVE  PaidIsCredited'
<1> USE DEF IInv, PaidIsCredited
<1>0. \A d \in Donations : balance[d] \in Nat
  BY DEF TypeOK
<1>1. CASE \E d \in Donations : Take(t, d)
  BY <1>1 DEF Take
<1>2. CASE TakeFund(t)
  BY <1>2 DEF TakeFund
<1>3. CASE Pay(t)
  BY <1>3 DEF Pay
<1>4. CASE Saved(t)
  BY <1>4 DEF Saved
<1>5. CASE SaveFails(t)
  BY <1>5 DEF SaveFails
<1>6. CASE Credited(t)
  <2>1. SUFFICES ASSUME ~missed', NEW d \in paid' PROVE balance'[d] > 0
    OBVIOUS
  <2>2. ~missed /\ WriteFund(t) /\ pc[t] = "fund" /\ paid' = paid \cup {which[t]}
    BY <1>6, <2>1 DEF Credited, WriteFund
  <2>3. d \in Donations /\ which[t] \in Donations
    BY <2>1, <2>2 DEF TypeOK
  <2>4. QED
    BY <2>1, <2>2, <2>3, <1>0, BalanceGrows
<1>7. CASE CreditFails(t)
  <2>1. SUFFICES ASSUME ~missed', WriteFund(t), NEW d \in paid PROVE balance'[d] > 0
    BY <1>7 DEF CreditFails
  <2>2. ~missed /\ pc[t] = "fund" /\ d \in Donations
    BY <1>7, <2>1 DEF CreditFails, WriteFund, TypeOK
  <2>3. QED
    BY <2>1, <2>2, <1>0, BalanceGrows
<1>8. CASE FailSaved(t)
  BY <1>8 DEF FailSaved
<1>9. CASE FailRaises(t)
  BY <1>9 DEF FailRaises
<1>10. CASE Gone(t)
  BY <1>10 DEF Gone
<1>11. QED
  BY <1>1, <1>2, <1>3, <1>4, <1>5, <1>6, <1>7, <1>8, <1>9, <1>10 DEF Step

LEMMA HistoriesGrow ==
    ASSUME NEW t \in Threads, Step(t)
    PROVE  /\ missed => missed'
           /\ late \subseteq late'
           /\ doubt \subseteq doubt'
           /\ uncredited \subseteq uncredited'
<1> USE DEF Step, Take, TakeFund, Pay, Saved, SaveFails, Credited, CreditFails, FailSaved,
            FailRaises, Gone
<1>1. missed => missed'
  BY DEF WriteFund
<1>2. late \subseteq late'
  BY DEF WriteRow
<1>3. doubt \subseteq doubt'
  OBVIOUS
<1>4. uncredited \subseteq uncredited'
  OBVIOUS
<1>5. QED
  BY <1>1, <1>2, <1>3, <1>4

(* A donation that is regular after a step was so before it; <1>w is the     *)
(* case of a thread that writes the row.                                     *)
LEMMA AccountedStep ==
    ASSUME IInv, NEW t \in Threads, Step(t)
    PROVE  Accounted'
<1> USE DEF IInv
<1>0. \A d \in Donations : balance[d] \in Nat
  BY DEF TypeOK
<1> DEFINE Fine(d) ==
      /\ balance[d] \in {0, 1}
      /\ balance[d] = 1 => row[d].status = "completed"
      /\ \A u \in Threads : HasFresh(u, d) /\ ~IsDone(u) => balance[d] = 0
      /\ row[d].status = "completed" /\ balance[d] = 0 =>
           \E u \in Threads : pc[u] \in {"fund", "fail"} /\ which[u] = d
<1>a. SUFFICES ASSUME NEW d \in Donations, Regular(d)' PROVE Fine(d)'
  BY DEF Accounted
<1>b. Regular(d)
  BY <1>a, HistoriesGrow DEF Regular
<1>c. Fine(d)
  BY <1>b DEF Accounted
<1> HIDE DEF IInv
<1> USE DEF HasFresh, IsDone
<1>d. TypeOK
  BY DEF IInv
<1>1. CASE \E e \in Donations : Take(t, e)
  BY <1>1, <1>c, <1>d DEF Take, TypeOK
<1>2. CASE TakeFund(t)
  BY <1>2, <1>c DEF TakeFund
<1>3. CASE Pay(t)
  BY <1>3, <1>c, <1>d DEF Pay, Payable, TypeOK
<1>w. ASSUME WriteRow(t), balance' = balance, which' = which, pc[t] \in Within,
             \A u \in Threads \ {t} : pc'[u] = pc[u] /\ inst'[u] = inst[u],
             \/ pc'[t] \in {"fund", "fail"} /\ inst[t].status = "completed"
             \/ pc[t] = "fail" /\ pc'[t] = "loaded" /\ inst[t].status # "completed"
      PROVE  Fine(d)'
  <2>1. CASE d = which[t]
    <3>1. t \in fresh
      BY <1>a, <1>w, <1>d, <2>1, RowWritten DEF Regular
    <3>2. balance[d] = 0
      BY <1>c, <1>w, <2>1, <3>1 DEF Within
    <3>3. QED
      BY <1>d, <1>w, <2>1, <3>1, <3>2, RowWritten DEF TypeOK
  <2>2. CASE d # which[t]
    BY <1>c, <1>d, <1>w, <2>2, RowWritten DEF TypeOK
  <2>3. QED
    BY <2>1, <2>2
<1>4. CASE Saved(t)
  <2>1. inst[t].status = "completed"
    BY <1>4 DEF Saved, IInv, Receipts
  <2>2. QED
    BY <1>4, <1>d, <1>w, <2>1 DEF Saved, TypeOK, Within
<1>5. CASE SaveFails(t)
  <2>1. inst[t].status = "completed"
    BY <1>5 DEF SaveFails, IInv, Receipts
  <2>2. CASE WriteRow(t)
    BY <1>5, <1>d, <1>w, <2>1, <2>2 DEF SaveFails, TypeOK, Within
  <2>3. CASE UNCHANGED <<row, fresh, late, fund, freshFund>>
    BY <1>5, <1>c, <1>d, <2>3 DEF SaveFails, TypeOK
  <2>4. QED
    BY <1>5, <2>2, <2>3 DEF SaveFails
<1>6. CASE Credited(t)
  <2>1. pc[t] = "fund" /\ WriteFund(t) /\ ~missed'
    BY <1>6, <1>a DEF Credited, Regular
  <2>2. d \notin loose[t] /\ which[t] \in Donations
    BY <1>6, <1>a, <1>d DEF Credited, Regular, TypeOK
  <2>3. balance'[d] = IF d = which[t] THEN balance[d] + 1 ELSE balance[d]
    BY <2>1, <2>2, BalanceGrows
  <2>4. CASE d = which[t]
    <3>1. /\ t \in fresh
          /\ row[d].status = "completed"
          /\ \A u \in Threads \ {t} : HasFresh(u, d) => IsDone(u)
          /\ inst[t].status = "completed"
      BY <1>b, <2>1, <2>4 DEF IInv, Sole, Regular, Receipts
    <3>2. balance[d] = 0
      BY <1>c, <2>1, <2>4, <3>1
    <3>3. QED
      BY <1>6, <1>d, <2>3, <2>4, <3>1, <3>2 DEF Credited, TypeOK
  <2>5. CASE d # which[t]
    BY <1>6, <1>c, <1>d, <2>3, <2>5 DEF Credited, TypeOK
  <2>6. QED
    BY <2>4, <2>5
<1>7. CASE CreditFails(t)
  <2>1. balance'[d] = balance[d]
    <3>1. CASE UNCHANGED balance
      BY <3>1
    <3>2. CASE WriteFund(t) /\ doubt' = doubt \cup loose[t] \cup {which[t]}
      <4>1. d \notin loose[t] /\ d # which[t] /\ ~missed' /\ pc[t] = "fund"
        BY <1>7, <1>a, <3>2 DEF Regular, CreditFails
      <4>2. QED
        BY <3>2, <4>1, BalanceGrows
    <3>3. QED
      BY <1>7, <3>1, <3>2 DEF CreditFails
  <2>2. QED
    BY <1>7, <1>c, <1>d, <2>1 DEF CreditFails, TypeOK
<1>8. CASE FailSaved(t)
  <2>1. inst[t].status = "failed"
    BY <1>8 DEF FailSaved, IInv, Receipts
  <2>2. QED
    BY <1>8, <1>d, <1>w, <2>1 DEF FailSaved, TypeOK, Within
<1>9. CASE FailRaises(t)
  BY <1>9, <1>a, <1>c, <1>d DEF FailRaises, Regular, TypeOK
<1>10. CASE Gone(t)
  BY <1>10, <1>a, <1>c, <1>d DEF Gone, Regular, TypeOK
<1>11. QED
  BY <1>1, <1>2, <1>3, <1>4, <1>5, <1>6, <1>7, <1>8, <1>9, <1>10 DEF Step

-----------------------------------------------------------------------------
(* What a fund says of a donation is of no weight once its credit is loose   *)
(* on it.                                                                    *)
Says(u, d, n) == d \notin loose[u] => fund[u].credits[d] = n

(* Nothing has credited the donation yet, on the row or on an instance.      *)
Zero(d) == balance[d] = 0 /\ \A u \in Threads : Says(u, d, 0)

(* A donation that no stale instance and no doubtful credit has touched: the *)
(* row and the instances of the fund have it at most once, nobody has it     *)
(* before it is completed, nor while somebody may still pay it, and only the *)
(* thread that is adding it has it in the meantime.                          *)
Once(d) ==
    /\ balance[d] \in {0, 1}
    /\ \A u \in Threads : Says(u, d, 0) \/ Says(u, d, 1)
    /\ row[d].status # "completed" => Zero(d)
    /\ \A t \in Threads : HasFresh(t, d) /\ ~IsDone(t) /\ pc[t] # "fund" => Zero(d)
    /\ \A t \in Threads : Adding(t, d) =>
         /\ balance[d] = 0
         /\ Says(t, d, 1)
         /\ \A u \in Threads \ {t} : Says(u, d, 0)

OnceInv == \A d \in Donations \ (late \cup doubt) : Once(d)

(* Attaching the fund tells a thread nothing that the row or its own fund    *)
(* did not say; other threads hear nothing of it.                            *)
LEMMA AttachedSays ==
    ASSUME TypeOK, NEW t \in Threads, NEW c \in [Donations -> Nat], Attach(t, c),
           loose' = loose, NEW d \in Donations
    PROVE  /\ \A u \in Threads \ {t} : /\ Says(u, d, 0) => Says(u, d, 0)'
                                       /\ Says(u, d, 1) => Says(u, d, 1)'
           /\ c[d] = 0 => Says(t, d, 0)'
           /\ c[d] = 1 => Says(t, d, 1)'
           /\ d \notin loose[t] =>
                Attached(t).credits[d] = balance[d] \/ Attached(t).credits[d] = fund[t].credits[d]
<1>1. fund'[t].credits = c
  BY FundAttached
<1>2. \A u \in Threads \ {t} : fund'[u] = fund[u]
  BY FundAttached
<1>3. Attached(t).credits = balance \/ Attached(t) = fund[t]
  BY DEF Attached
<1>4. QED
  BY <1>1, <1>2, <1>3 DEF Says

LEMMA OnceStep ==
    ASSUME IInv, OnceInv, NEW t \in Threads, Step(t)
    PROVE  OnceInv'
<1>a. SUFFICES ASSUME NEW d \in Donations, d \notin late' \cup doubt' PROVE Once(d)'
  <2>1. OnceInv' <=> \A d \in Donations : d \notin late' \cup doubt' => Once(d)'
    BY DEF OnceInv
  <2>2. QED
    BY <2>1
<1>b. Once(d)
  BY <1>a, HistoriesGrow DEF OnceInv
<1>c. TypeOK /\ Receipts /\ Sole
  BY DEF IInv
<1> USE DEF Once, Zero, HasFresh, IsDone, Adding
<1>1. CASE \E e \in Donations : Take(t, e)
  BY <1>1, <1>b, <1>c DEF Take, TypeOK, Says, NoFund, Nothing
<1>2. CASE TakeFund(t)
  BY <1>2, <1>b, <1>c DEF TakeFund, TypeOK, Says
<1>3. CASE Pay(t)
  BY <1>3, <1>b, <1>c DEF Pay, Payable, TypeOK, Says
<1>w. ASSUME WriteRow(t), pc[t] \in {"save", "fail"}, inst[t].status \in Statuses,
             UNCHANGED <<balance, which, loose>>,
             \A u \in Threads \ {t} : pc'[u] = pc[u] /\ inst'[u] = inst[u],
             \A u \in Threads \ {t} : /\ Says(u, d, 0) => Says(u, d, 0)'
                                      /\ Says(u, d, 1) => Says(u, d, 1)',
             d # which[t] \/ pc'[t] # "fund" =>
               /\ Says(t, d, 0) /\ balance[d] = 0 => Says(t, d, 0)'
               /\ Says(t, d, 0)' \/ Says(t, d, 1)',
             pc'[t] = "fund" /\ d = which[t] /\ Zero(d) =>
               Says(t, d, 1)' /\ inst[t].status = "completed"
      PROVE  Once(d)'
  <2>1. CASE d = which[t]
    <3>1. t \in fresh /\ row'[d] = inst[t]
      BY <1>a, <1>c, <1>w, <2>1, RowWritten
    <3>2. Zero(d)
      BY <1>b, <1>w, <2>1, <3>1
    <3>3. \A u \in Threads \ {t} : ~Adding(u, d)
      <4>1. d \notin late
        BY <1>a, HistoriesGrow
      <4>2. QED
        BY <1>c, <1>w, <2>1, <3>1, <4>1 DEF Sole
    <3>4. \A u \in Threads \ {t} : Says(u, d, 0)'
      BY <1>w, <3>2
    <3>5. \A u \in Threads \ {t} : ~HasFresh(u, d)' /\ ~Adding(u, d)'
      BY <1>c, <1>w, <2>1, <3>3, RowWritten
    <3>6. CASE pc'[t] = "fund"
      <4>1. Says(t, d, 1)' /\ row'[d].status = "completed"
        BY <1>w, <2>1, <3>1, <3>2, <3>6
      <4>2. QED
        BY <1>w, <2>1, <3>2, <3>4, <3>5, <3>6, <4>1
    <3>7. CASE pc'[t] # "fund"
      <4>1. Zero(d)'
        BY <1>w, <2>1, <3>2, <3>4, <3>7
      <4>2. \A u \in Threads : ~Adding(u, d)'
        BY <3>5, <3>7
      <4>3. \A u \in Threads : Says(u, d, 0)'
        BY <4>1
      <4>4. balance'[d] = 0
        BY <4>1
      <4>5. QED
        BY <4>1, <4>2, <4>3, <4>4
    <3>8. QED
      BY <3>6, <3>7
  <2>2. CASE d # which[t]
    <3>1. row'[d] = row[d] /\ ~HasFresh(t, d)' /\ ~Adding(t, d)'
      BY <1>c, <1>w, <2>2, RowWritten
    <3>2. \A u \in Threads \ {t} : /\ HasFresh(u, d)' => HasFresh(u, d)
                                   /\ IsDone(u)' <=> IsDone(u)
                                   /\ Adding(u, d)' <=> Adding(u, d)
                                   /\ pc'[u] = pc[u]
      BY <1>c, <1>w, <2>2, RowWritten
    <3>3. Zero(d) => Zero(d)'
      BY <1>w, <2>2
    <3>4. \A u \in Threads : Says(u, d, 0)' \/ Says(u, d, 1)'
      BY <1>b, <1>w, <2>2
    <3>5. ASSUME NEW u \in Threads, Adding(u, d)'
          PROVE  /\ balance'[d] = 0
                 /\ Says(u, d, 1)'
                 /\ \A v \in Threads \ {u} : Says(v, d, 0)'
      <4>1. u # t /\ Adding(u, d)
        BY <3>1, <3>2, <3>5
      <4>2. QED
        BY <1>b, <1>w, <2>2, <4>1
    <3>6. QED
      BY <1>b, <1>w, <3>1, <3>2, <3>3, <3>4, <3>5
  <2>3. QED
    BY <2>1, <2>2
<1>x. ASSUME NEW c \in [Donations -> Nat], Attach(t, c), loose' = loose, balance' = balance
      PROVE  /\ \A u \in Threads \ {t} : /\ Says(u, d, 0) => Says(u, d, 0)'
                                         /\ Says(u, d, 1) => Says(u, d, 1)'
             /\ c[d] = Attached(t).credits[d] =>
                  /\ Says(t, d, 0) /\ balance[d] = 0 => Says(t, d, 0)'
                  /\ Says(t, d, 0)' \/ Says(t, d, 1)'
             /\ c[d] = Attached(t).credits[d] + 1 /\ Zero(d) => Says(t, d, 1)'
  <2>1. d \in loose[t] => Says(t, d, 0)' /\ Says(t, d, 1)'
    BY <1>x DEF Says
  <2>2. CASE d \notin loose[t]
    <3>1. Says(t, d, 0) => fund[t].credits[d] = 0
      BY <2>2 DEF Says
    <3>2. fund[t].credits[d] \in {0, 1} /\ balance[d] \in {0, 1}
      BY <1>b, <2>2 DEF Says
    <3>3. /\ \A u \in Threads \ {t} : /\ Says(u, d, 0) => Says(u, d, 0)'
                                      /\ Says(u, d, 1) => Says(u, d, 1)'
          /\ c[d] = 0 => Says(t, d, 0)'
          /\ c[d] = 1 => Says(t, d, 1)'
          /\ Attached(t).credits[d] = balance[d] \/ Attached(t).credits[d] = fund[t].credits[d]
      BY <1>c, <1>x, <2>2, AttachedSays
    <3>4. QED
      BY <3>1, <3>2, <3>3
  <2>3. QED
    BY <1>c, <1>x, <2>1, <2>2, AttachedSays
<1>y. Attached(t).credits \in [Donations -> Nat]
  BY <1>c DEF Attached, TypeOK, Funds
<1>z. inst[t].status \in Statuses /\ which[t] \in Donations
  BY <1>c DEF TypeOK, Instances
<1>4. CASE Saved(t)
  <2> DEFINE c == [Attached(t).credits EXCEPT ![which[t]] = @ + 1]
  <2>1. c \in [Donations -> Nat] /\ Attach(t, c)
    <3>1. \A k \in [Donations -> Nat], e \in Donations : [k EXCEPT ![e] = @ + 1] \in [Donations -> Nat]
      OBVIOUS
    <3>2. QED
      BY <1>4, <1>y, <1>z, <3>1 DEF Saved
  <2>2. c[d] = IF d = which[t] THEN Attached(t).credits[d] + 1 ELSE Attached(t).credits[d]
    BY <1>y
  <2>3. pc' = [pc EXCEPT ![t] = "fund"] /\ inst' = inst /\ inst[t].status = "completed"
    BY <1>4, <1>c DEF Saved, Receipts
  <2>4. /\ WriteRow(t) /\ pc[t] = "save" /\ UNCHANGED <<balance, which, loose>>
        /\ pc'[t] = "fund" /\ \A u \in Threads \ {t} : pc'[u] = pc[u]
    BY <1>4, <1>c, <2>3 DEF Saved, TypeOK
  <2> HIDE DEF c
  <2>5. QED
    BY <1>w, <1>x, <1>z, <2>1, <2>2, <2>3, <2>4
<1>u. ASSUME WriteRow(t), pc[t] \in {"save", "fail"},
             UNCHANGED <<balance, which, loose>>,
             pc' = [pc EXCEPT ![t] = "fail"] \/ pc' = [pc EXCEPT ![t] = "loaded"],
             \A u \in Threads \ {t} : inst'[u] = inst[u],
             Attach(t, Attached(t).credits) \/ UNCHANGED <<fund, freshFund>>
      PROVE  Once(d)'
  <2>1. pc'[t] # "fund" /\ \A u \in Threads \ {t} : pc'[u] = pc[u]
    BY <1>c, <1>u DEF TypeOK
  <2>2. CASE Attach(t, Attached(t).credits)
    BY <1>u, <1>w, <1>x, <1>y, <1>z, <2>1, <2>2
  <2>3. CASE UNCHANGED <<fund, freshFund>>
    <3>1. \A u \in Threads : /\ Says(u, d, 0) <=> Says(u, d, 0)'
                             /\ Says(u, d, 1) <=> Says(u, d, 1)'
      BY <1>u, <2>3 DEF Says
    <3>2. QED
      BY <1>b, <1>u, <1>w, <1>z, <2>1, <3>1
  <2>4. QED
    BY <1>u, <2>2, <2>3
<1>5. CASE SaveFails(t)
  <2>1. CASE WriteRow(t)
    <3>1. \A u \in Threads \ {t} : inst'[u] = inst[u]
      BY <1>5, <1>c DEF SaveFails, TypeOK
    <3>2. Attach(t, Attached(t).credits) \/ UNCHANGED <<fund, freshFund>>
      BY <1>5 DEF SaveFails
    <3>3. QED
      BY <1>5, <1>u, <2>1, <3>1, <3>2 DEF SaveFails
  <2>2. CASE UNCHANGED <<row, fresh, late, fund, freshFund>>
    BY <1>5, <1>b, <1>c, <2>2 DEF SaveFails, TypeOK, Says
  <2>3. QED
    BY <1>5, <2>1, <2>2 DEF SaveFails
<1>8. CASE FailSaved(t)
  BY <1>8, <1>u DEF FailSaved
<1>v. ASSUME WriteFund(t), doubt' \in {doubt \cup loose[t], doubt \cup loose[t] \cup {which[t]}},
             fund' = fund
      PROVE  /\ balance'[d] = fund[t].credits[d]
             /\ Says(t, d, balance'[d])
             /\ \A u \in Threads, n \in {0, 1} : u # t /\ Says(u, d, n) => Says(u, d, n)'
             /\ \A n \in {0, 1} : Says(t, d, n) => balance'[d] = n /\ Says(t, d, n)'
  <2>1. d \notin loose[t]
    BY <1>a, <1>v
  <2>2. loose' = [loose EXCEPT ![t] = {}] /\ balance' = fund[t].credits
    BY <1>v DEF WriteFund, NewBalance
  <2>3. QED
    BY <1>c, <1>v, <2>1, <2>2 DEF Says, TypeOK
<1>6. CASE Credited(t)
  <2>1. d \notin late /\ pc[t] = "fund" /\ WriteFund(t) /\ doubt' = doubt \cup loose[t]
    BY <1>6, <1>a DEF Credited
  <2>2. /\ UNCHANGED <<row, which, inst, fund, fresh>>
        /\ pc'[t] = "loaded" /\ \A u \in Threads \ {t} : pc'[u] = pc[u]
    BY <1>6, <1>c DEF Credited, TypeOK
  <2>3. CASE d = which[t]
    <3>1. Says(t, d, 1) /\ \A u \in Threads \ {t} : Says(u, d, 0)
      BY <1>b, <2>1, <2>3
    <3>2. /\ row[d].status = "completed"
          /\ inst[t].status = "completed"
          /\ \A u \in Threads \ {t} : (HasFresh(u, d) => IsDone(u)) /\ ~Adding(u, d)
      <4>1. /\ t \in fresh
            /\ row[d].status = "completed"
            /\ \A u \in Threads \ {t} : HasFresh(u, d) => IsDone(u)
        BY <1>c, <2>1, <2>3 DEF Sole
      <4>2. \A u \in Threads \ {t} : ~Adding(u, d)
        <5>1. SUFFICES ASSUME NEW u \in Threads \ {t}, Adding(u, d) PROVE FALSE
          OBVIOUS
        <5>2. \A v \in Threads \ {u} : HasFresh(v, d) => IsDone(v)
          BY <1>c, <2>1, <5>1 DEF Sole
        <5>3. QED
          BY <2>1, <2>3, <4>1, <5>1, <5>2
      <4>3. QED
        BY <1>c, <2>1, <4>1, <4>2 DEF Receipts
    <3>3. balance'[d] = 1 /\ Says(t, d, 1)' /\ \A u \in Threads \ {t} : Says(u, d, 0)'
      BY <1>v, <2>1, <2>2, <3>1
    <3>4. \A u \in Threads : ~Adding(u, d)' /\ (HasFresh(u, d)' => IsDone(u)')
      BY <2>2, <3>2
    <3>5. row'[d].status = "completed"
      BY <2>2, <3>2
    <3>6. QED
      BY <3>3, <3>4, <3>5
  <2>4. CASE d # which[t]
    <3>1. Says(t, d, 0)' \/ Says(t, d, 1)'
      BY <1>b, <1>v, <2>1, <2>2
    <3>2. balance'[d] \in {0, 1} /\ \A u \in Threads : Says(u, d, 0)' \/ Says(u, d, 1)'
      BY <1>b, <1>v, <2>1, <2>2, <3>1
    <3>3. Zero(d) => Zero(d)'
      BY <1>v, <2>1, <2>2
    <3>4. ~HasFresh(t, d)' /\ ~Adding(t, d)'
      BY <2>2, <2>4
    <3>5. ASSUME NEW u \in Threads \ {t}, Adding(u, d)
          PROVE  /\ balance'[d] = 0
                 /\ Says(u, d, 1)'
                 /\ \A v \in Threads \ {u} : Says(v, d, 0)'
      <4>1. Says(u, d, 1) /\ \A v \in Threads \ {u} : Says(v, d, 0)
        BY <1>b, <3>5
      <4>2. QED
        BY <1>v, <2>1, <2>2, <4>1
    <3>6. \A u \in Threads \ {t} : Adding(u, d)' =>
            /\ balance'[d] = 0
            /\ Says(u, d, 1)'
            /\ \A v \in Threads \ {u} : Says(v, d, 0)'
      BY <2>2, <3>5
    <3>7. QED
      BY <1>b, <2>2, <3>2, <3>3, <3>4, <3>6
  <2>5. QED
    BY <2>3, <2>4
<1>7. CASE CreditFails(t)
  <2>1. /\ pc[t] = "fund" /\ d \notin late /\ which[t] \in Donations
        /\ UNCHANGED <<row, which, fund, fresh>>
        /\ pc'[t] = "fail" /\ \A u \in Threads \ {t} : pc'[u] = pc[u] /\ inst'[u] = inst[u]
    BY <1>7, <1>a, <1>c DEF CreditFails, TypeOK
  <2>2. CASE loose' = [loose EXCEPT ![t] = @ \cup {which[t]}]
             /\ UNCHANGED <<balance, freshFund, missed, doubt>>
    <3>1. /\ \A u \in Threads : (Says(u, d, 0) => Says(u, d, 0)') /\ (Says(u, d, 1) => Says(u, d, 1)')
          /\ d = which[t] => Says(t, d, 0)'
      BY <1>c, <2>1, <2>2 DEF Says, TypeOK
    <3>2. d = which[t] => balance[d] = 0 /\ \A u \in Threads \ {t} : Says(u, d, 0)
      BY <1>b, <2>1
    <3>3. d = which[t] => Zero(d)'
      BY <2>2, <3>1, <3>2
    <3>4. d = which[t] => \A u \in Threads : ~Adding(u, d)'
      <4>1. SUFFICES ASSUME d = which[t], NEW u \in Threads \ {t}, Adding(u, d) PROVE FALSE
        BY <2>1
      <4>2. t \in fresh /\ (HasFresh(t, d) => IsDone(t))
        BY <1>c, <2>1, <4>1 DEF Sole
      <4>3. QED
        BY <2>1, <4>1, <4>2
    <3>5. CASE d = which[t]
      <4>1. balance'[d] = 0 /\ \A u \in Threads : Says(u, d, 0)'
        BY <3>3, <3>5
      <4>2. QED
        BY <3>3, <3>4, <3>5, <4>1
    <3>6. CASE d # which[t]
      <4>1. ~HasFresh(t, d)' /\ ~Adding(t, d)'
        BY <2>1, <3>6
      <4>2. QED
        BY <1>b, <2>1, <2>2, <3>1, <3>6, <4>1
    <3>7. QED
      BY <3>5, <3>6
  <2>3. CASE WriteFund(t) /\ doubt' = doubt \cup loose[t] \cup {which[t]}
    <3>1. d # which[t]
      BY <1>a, <2>3
    <3>2. ~HasFresh(t, d)' /\ ~Adding(t, d)'
      BY <2>1, <3>1
    <3>3. balance'[d] \in {0, 1} /\ \A u \in Threads : Says(u, d, 0)' \/ Says(u, d, 1)'
      BY <1>b, <1>v, <2>1, <2>3
    <3>4. Zero(d) => Zero(d)'
      BY <1>v, <2>1, <2>3
    <3>5. ASSUME NEW u \in Threads \ {t}, Adding(u, d)
          PROVE  /\ balance'[d] = 0
                 /\ Says(u, d, 1)'
                 /\ \A v \in Threads \ {u} : Says(v, d, 0)'
      <4>1. Says(u, d, 1) /\ \A v \in Threads \ {u} : Says(v, d, 0)
        BY <1>b, <3>5
      <4>2. QED
        BY <1>v, <2>1, <2>3, <4>1
    <3>6. \A u \in Threads \ {t} : Adding(u, d)' =>
            /\ balance'[d] = 0
            /\ Says(u, d, 1)'
            /\ \A v \in Threads \ {u} : Says(v, d, 0)'
      BY <2>1, <3>5
    <3>7. QED
      BY <1>b, <2>1, <3>2, <3>3, <3>4, <3>6
  <2>4. QED
    BY <1>7, <2>2, <2>3 DEF CreditFails
<1>9. CASE FailRaises(t)
  BY <1>9, <1>b, <1>c DEF FailRaises, TypeOK, Says
<1>10. CASE Gone(t)
  BY <1>10, <1>b, <1>c DEF Gone, TypeOK, Says, NoFund, Nothing
<1>11. QED
  BY <1>1, <1>2, <1>3, <1>4, <1>5, <1>6, <1>7, <1>8, <1>9, <1>10 DEF Step

-----------------------------------------------------------------------------
LEMMA StepIInv == IInv /\ [Next]_vars => IInv'
<1> SUFFICES ASSUME IInv, [Next]_vars PROVE IInv'
  OBVIOUS
<1>1. CASE UNCHANGED vars
  BY <1>1 DEF vars, IInv, TypeOK, Receipts, Sole, Settled, HasFresh, IsDone, FundFollows,
              Adding, PaidIsCredited, Accounted, Regular
<1>2. ASSUME NEW t \in Threads, Step(t) PROVE IInv'
  <2>1. TypeOK /\ Receipts
    BY DEF IInv
  <2>2. TypeOK' /\ Receipts'
    BY <1>2, <2>1, TypeStep, ReceiptsStep
  <2>3. QED
    BY <1>2, <2>2, SettledStep, FundStep, PaidStep, AccountedStep DEF IInv
<1>3. QED
  BY <1>1, <1>2 DEF Next, Step

(* The inductive invariant holds of every behaviour.                         *)
THEOREM Inductive == Spec => []IInv
<1>1. QED
  BY InitIInv, StepIInv, PTL DEF Spec

(* The variables keep their types, for any threads and donations.            *)
THEOREM TypeCorrect == Spec => []TypeOK
<1>1. IInv => TypeOK
  BY DEF IInv
<1>2. QED
  BY <1>1, Inductive, PTL

(* Outside a payment a donation is completed exactly when the balance        *)
(* contains its amount once, whatever errors and retries came before, save   *)
(* for what the histories name.                                              *)
THEOREM DonationTotals == Spec => []TotalsAgree
<1>1. IInv => TotalsAgree
  <2> SUFFICES ASSUME IInv, NEW d \in Donations, Regular(d), ~Busy(d)
               PROVE  balance[d] = IF row[d].status = "completed" THEN 1 ELSE 0
    BY DEF TotalsAgree, Regular
  <2>1. ~\E t \in Threads : pc[t] \in {"fund", "fail"} /\ which[t] = d
    BY DEF Busy, Within
  <2>2. QED
    BY <2>1 DEF IInv, Accounted
<1>2. QED
  BY <1>1, Inductive, PTL

(* A paid donation stays completed, and stays in the balance, through every  *)
(* later payment, failure and retry.                                         *)
THEOREM PaidIsKept == Spec => []PaidStays
<1>1. IInv => PaidStays
  BY DEF IInv, PaidStays, Settled, PaidIsCredited, TypeOK
<1>2. QED
  BY <1>1, Inductive, PTL

(* Receipts are never lost, and a completed donation has one.                *)
THEOREM ReceiptsAreKept == Spec => ReceiptsStay
<1> DEFINE A == \A d \in Donations :
                  row[d].receipt \/ row'[d].status = "completed" => row'[d].receipt
<1>1. IInv /\ [Next]_vars => A
  <2> SUFFICES ASSUME IInv, [Next]_vars PROVE A
    OBVIOUS
  <2>1. CASE UNCHANGED vars
    BY <2>1 DEF vars, IInv, Receipts
  <2>2. ASSUME NEW t \in Threads, Step(t) PROVE A
    BY <2>2, ReceiptsStep DEF IInv, Receipts
  <2>3. QED
    BY <2>1, <2>2 DEF Next, Step
<1>2. QED
  BY <1>1, Inductive, PTL DEF Spec, ReceiptsStay

(* Errors and retries credit a donation at most once, also where a stale     *)
(* fund was saved.                                                           *)
THEOREM CreditedAtMostOnce == Spec => []CreditedOnce
<1>1. Init => OnceInv
  BY DonationsAssumption
     DEF Init, OnceInv, Once, Zero, Says, Adding, HasFresh, NoFund, Nothing
<1>2. IInv /\ OnceInv /\ [Next]_vars => OnceInv'
  <2> SUFFICES ASSUME IInv, OnceInv, [Next]_vars PROVE OnceInv'
    OBVIOUS
  <2>1. CASE UNCHANGED vars
    BY <2>1 DEF vars, OnceInv, Once, Zero, Says, Adding, HasFresh, IsDone
  <2>2. ASSUME NEW t \in Threads, Step(t) PROVE OnceInv'
    BY <2>2, OnceStep
  <2>3. QED
    BY <2>1, <2>2 DEF Next, Step
<1>3. IInv /\ OnceInv => CreditedOnce
  BY DEF OnceInv, Once, CreditedOnce
<1>4. QED
  BY <1>1, <1>2, <1>3, Inductive, PTL DEF Spec

-----------------------------------------------------------------------------
(* Payments that have not added their amount to a fund yet.                 *)
Pending == {t \in Threads : pc[t] = "save"}

(* Every balance, in the row or on an instance, leaves room for them.       *)
Room(n) == n + Cardinality(Pending) <= pays

Covered ==
    /\ IsFiniteSet(Pending)
    /\ \A d \in Donations : Room(balance[d])
    /\ \A t \in Threads, d \in Donations : Room(fund[t].credits[d])

(* A step that begins no payment and only copies balances keeps the room.   *)
LEMMA CopiesLeaveRoom ==
    ASSUME TypeOK, Covered, pays' = pays, Pending' \subseteq Pending,
           balance' = balance \/ \E t \in Threads : balance' = fund[t].credits,
           \A t \in Threads :
             \/ fund'[t].credits = Nothing
             \/ fund'[t].credits = balance
             \/ fund'[t].credits = fund[t].credits
    PROVE  Covered'
<1>1. /\ IsFiniteSet(Pending')
      /\ Cardinality(Pending') <= Cardinality(Pending)
      /\ Cardinality(Pending') \in Nat /\ Cardinality(Pending) \in Nat
  BY FS_Subset, FS_CardinalityType DEF Covered
<1>2. /\ \A d \in Donations : balance[d] \in Nat
      /\ \A t \in Threads, d \in Donations : fund[t].credits[d] \in Nat
      /\ pays \in Int
  BY DonationsAssumption DEF TypeOK, Funds
<1>3. ASSUME NEW d \in Donations PROVE Room(balance[d])'
  <2>1. Room(balance[d]) /\ \A t \in Threads : Room(fund[t].credits[d])
    BY DEF Covered
  <2>2. QED
    BY <1>1, <1>2, <2>1 DEF Room
<1>4. ASSUME NEW t \in Threads, NEW d \in Donations PROVE Room(fund[t].credits[d])'
  <2>1. Room(balance[d]) /\ Room(fund[t].credits[d])
    BY DEF Covered
  <2>2. Room(0)'
    BY <1>1, <1>2, <2>1 DEF Room
  <2>3. CASE fund'[t].credits = Nothing
    BY <2>2, <2>3 DEF Nothing
  <2>4. QED
    BY <1>1, <1>2, <2>1, <2>3 DEF Room
<1>5. QED
  BY <1>1, <1>3, <1>4 DEF Covered

(* A payment that begins needs room for itself, and has brought it.         *)
LEMMA PayCovered ==
    ASSUME TypeOK, Covered, NEW t \in Threads, Pay(t) PROVE Covered'
<1>1. Pending' = Pending \cup {t} /\ t \notin Pending
  BY DEF Pay, Pending, TypeOK
<1>2. /\ IsFiniteSet(Pending') /\ Cardinality(Pending') = Cardinality(Pending) + 1
      /\ Cardinality(Pending) \in Nat
  BY <1>1, FS_AddElement, FS_CardinalityType DEF Covered
<1>3. /\ \A d \in Donations : balance[d] \in Nat
      /\ \A u \in Threads, d \in Donations : fund[u].credits[d] \in Nat
      /\ pays \in Int
  BY DonationsAssumption DEF TypeOK, Funds
<1>4. QED
  BY <1>2, <1>3 DEF Pay, Covered, Room

(* Adding an amount uses the room the payment has held until now.           *)
LEMMA SavedCovered ==
    ASSUME TypeOK, Covered, NEW t \in Threads, Saved(t) PROVE Covered'
<1>1. Pending' = Pending \ {t} /\ t \in Pending
  BY DEF Saved, Pending, TypeOK
<1>2. /\ IsFiniteSet(Pending') /\ Cardinality(Pending') = Cardinality(Pending) - 1
      /\ Cardinality(Pending) \in Nat
  BY <1>1, FS_RemoveElement, FS_CardinalityType DEF Covered
<1>3. /\ \A d \in Donations : balance[d] \in Nat
      /\ \A u \in Threads, d \in Donations : fund[u].credits[d] \in Nat
      /\ pays \in Int
  BY DonationsAssumption DEF TypeOK, Funds
<1>4. balance' = balance /\ pays' = pays
  BY DEF Saved
<1>5. Attached(t).credits \in [Donations -> Nat] /\ Attached(t) \in Funds
  BY DEF Attached, TypeOK, Funds
<1>6. ASSUME NEW d \in Donations PROVE Room(Attached(t).credits[d])
  BY DEF Attached, Covered
<1>7. ASSUME NEW u \in Threads, NEW d \in Donations PROVE Room(fund[u].credits[d])'
  <2>1. CASE u # t
    <3>1. fund'[u] = fund[u]
      BY <2>1 DEF Saved, Attach, TypeOK
    <3>2. QED
      BY <1>2, <1>3, <1>4, <3>1 DEF Covered, Room
  <2>2. CASE u = t
    <3>1. fund'[t].credits = [Attached(t).credits EXCEPT ![which[t]] = @ + 1]
      BY <1>5 DEF Saved, Attach, TypeOK, Funds
    <3>2. fund'[t].credits[d] <= Attached(t).credits[d] + 1 /\ fund'[t].credits[d] \in Nat
      BY <1>5, <3>1
    <3>3. QED
      BY <1>2, <1>3, <1>4, <1>5, <1>6, <2>2, <3>2 DEF Room
  <2>3. QED
    BY <2>1, <2>2
<1>8. QED
  BY <1>2, <1>3, <1>4, <1>7 DEF Covered, Room

LEMMA CoveredStep ==
    ASSUME TypeOK, Covered, NEW t \in Threads, Step(t) PROVE Covered'
<1>1. \A c : [fund[t] EXCEPT !.credits = c].credits = c
  BY DEF TypeOK, Funds
<1>2. Attached(t).credits \in {balance, fund[t].credits} /\ Attached(t) \in Funds
  BY DEF Attached, TypeOK, Funds
<1>3. \A c : [Attached(t) EXCEPT !.credits = c].credits = c
  BY <1>2 DEF Funds
<1>4. CASE Pay(t)
  BY <1>4, PayCovered
<1>5. CASE Saved(t)
  BY <1>5, SavedCovered
<1>6. CASE (\E d \in Donations : Take(t, d)) \/ TakeFund(t) \/ Gone(t)
  <2>1. \A u \in Threads :
          \/ fund'[u].credits = Nothing
          \/ fund'[u].credits = balance
          \/ fund'[u].credits = fund[u].credits
    BY <1>6 DEF Take, TakeFund, Gone, TypeOK, NoFund
  <2>2. Pending' \subseteq Pending /\ pays' = pays /\ balance' = balance
    BY <1>6 DEF Take, TakeFund, Gone, TypeOK, Pending
  <2>3. QED
    BY <2>1, <2>2, CopiesLeaveRoom
<1>7. CASE SaveFails(t) \/ FailSaved(t)
  <2>1. ASSUME NEW u \in Threads
        PROVE  fund'[u].credits = balance \/ fund'[u].credits = fund[u].credits
    BY <1>2, <1>3, <1>7 DEF SaveFails, FailSaved, Attach, TypeOK
  <2>2. Pending' \subseteq Pending /\ pays' = pays /\ balance' = balance
    BY <1>7 DEF SaveFails, FailSaved, TypeOK, Pending
  <2>3. QED
    BY <2>1, <2>2, CopiesLeaveRoom
<1>8. CASE Credited(t) \/ CreditFails(t) \/ FailRaises(t)
  <2>1. Pending' \subseteq Pending /\ pays' = pays /\ fund' = fund
    BY <1>8 DEF Credited, CreditFails, FailRaises, TypeOK, Pending
  <2>2. balance' = balance \/ balance' = fund[t].credits
    BY <1>8 DEF Credited, CreditFails, FailRaises, WriteFund, NewBalance
  <2>3. QED
    BY <2>1, <2>2, CopiesLeaveRoom
<1>9. QED
  BY <1>4, <1>5, <1>6, <1>7, <1>8 DEF Step

(* Stale or not, killed or retried, payments put no more into a balance than *)
(* was begun: a payment still to be added always finds its room.             *)
THEOREM NothingIsInvented == Spec => []CreditsWerePaid
<1>1. Init => Covered
  <2> SUFFICES ASSUME Init PROVE Covered
    OBVIOUS
  <2>1. Pending = {}
    BY DEF Init, Pending
  <2>2. QED
    BY <2>1, FS_EmptySet DEF Init, Covered, Room, Nothing, NoFund
<1>2. IInv /\ Covered /\ [Next]_vars => Covered'
  <2> SUFFICES ASSUME IInv, Covered, [Next]_vars PROVE Covered'
    OBVIOUS
  <2>1. CASE UNCHANGED vars
    BY <2>1 DEF vars, Covered, Room, Pending
  <2>2. ASSUME NEW t \in Threads, Step(t) PROVE Covered'
    BY <2>2, CoveredStep DEF IInv
  <2>3. QED
    BY <2>1, <2>2 DEF Next, Step
<1>3. IInv /\ Covered => CreditsWerePaid
  <2> SUFFICES ASSUME IInv, Covered, NEW d \in Donations PROVE balance[d] <= pays
    BY DEF CreditsWerePaid
  <2>1. Cardinality(Pending) \in Nat /\ balance[d] \in Nat /\ pays \in Int
    BY FS_CardinalityType, DonationsAssumption DEF Covered, IInv, TypeOK
  <2>2. QED
    BY <2>1 DEF Covered, Room
<1>4. QED
  BY <1>1, <1>2, <1>3, Inductive, PTL DEF Spec
=============================================================================
