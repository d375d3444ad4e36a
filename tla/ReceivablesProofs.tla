------------------------- MODULE ReceivablesProofs -------------------------
(***************************************************************************)
(* Receivables keeps its inductive invariant IInv, for every set of        *)
(* requests, invoices, payments, notes and keys, every bound on amounts    *)
(* and everything clients may ask for.                                     *)
(***************************************************************************)
EXTENDS Statements, AmountsProofs

USE NoOneAssumption, ReceivablesAssumption

\* Every posted credit note of i after the step was one before it, of the same total.
NoNewCredits(i) ==
  \A n \in LiveCredits(i)' : n \in LiveCredits(i) /\ CreditTotals'[n] = CreditTotals[n]

\* The payments of i stay, with their amounts and requestIds.
SamePayments(i) ==
  /\ LivePayments(i)' = LivePayments(i)
  /\ \A p \in LivePayments(i) :
       payment'[p].amount = payment[p].amount /\ payment'[p].key = payment[p].key

\* What a step of somebody else leaves to p: its own job and locks, and every
\* invoice it has locked, with its payments and no credit note it does not know of.
Undisturbed(p) ==
  /\ pc'[p] = pc[p] /\ job'[p] = job[p]
  /\ \A row \in Rows : lock'[row] = p <=> lock[row] = p
  /\ \A i \in Invoices :
       /\ lock[i] = p => \/ invoice[i].status = "NONE"
                         \/ invoice'[i] = invoice[i] /\ NoNewCredits(i) /\ SamePayments(i)
       /\ invoice'[i].status = "NONE" => invoice[i].status = "NONE"
  /\ \A r \in Payments : payment[r].state # "none" =>
       payment'[r].state # "none" /\ payment'[r].invoice = payment[r].invoice

\* What the invariant says of one invoice, its payments and its credit notes.
InvoiceOK(i) ==
  /\ invoice[i].paid = SumOf(LivePayments(i), PaymentAmounts)
  /\ invoice[i].paid <= invoice[i].total /\ Credited(i, {}) <= invoice[i].total
  /\ ~Open(i) => LivePayments(i) = {} /\ LiveCredits(i) = {}
  /\ invoice[i].status = "UNPAID" => invoice[i].paid = 0
  /\ invoice[i].status = "PARTIALLY_PAID" => invoice[i].paid > 0
  /\ invoice[i].out = IF Open(i) THEN 1 ELSE 0
  /\ \A p, r \in LivePayments(i) :
       payment[p].key # NoOne /\ payment[p].key = payment[r].key => p = r

\* The invariant, invoice by invoice.
LEMMA ByInvoice ==
  ASSUME PaymentsHaveMoney
  PROVE  (\A i \in Invoices : InvoiceOK(i))
           <=> /\ PaidMatchesPayments /\ MoneyWithinTotal /\ ClosedInvoicesAreEmpty
               /\ StatusFollowsMoney /\ GoodsMoveOnce /\ OnePaymentPerRequest
<1>1. (\A i \in Invoices : \A p, r \in LivePayments(i) :
         payment[p].key # NoOne /\ payment[p].key = payment[r].key => p = r)
        <=> OnePaymentPerRequest
  BY DEF PaymentsHaveMoney, OnePaymentPerRequest, LivePayments
<1>2. QED
  BY <1>1 DEF InvoiceOK, PaidMatchesPayments, MoneyWithinTotal, ClosedInvoicesAreEmpty,
     StatusFollowsMoney, GoodsMoveOnce

InvoicesOK == \A i \in Invoices : InvoiceOK(i)
RequestsOK == \A q \in Requests : JobsOK(q)

LEMMA InvariantParts == IInv <=> TypeOK /\ PaymentsHaveMoney /\ InvoicesOK /\ RequestsOK
BY ByInvoice DEF IInv, InvoicesOK, RequestsOK

LEMMA InvariantPartsAfter ==
  IInv' <=> TypeOK' /\ PaymentsHaveMoney' /\ InvoicesOK' /\ RequestsOK'
BY InvariantParts, PTL

-----------------------------------------------------------------------------
(* Sums over the payments and the credit notes of an invoice                *)

\* The posted credit notes of an invoice, less some, have a natural total.
LEMMA CreditsAreNat ==
  ASSUME TypeOK, NEW i, NEW but
  PROVE  /\ IsFiniteSet(LiveCredits(i) \ but)
         /\ \A n \in LiveCredits(i) \ but : CreditTotals[n] \in Nat
         /\ Credited(i, but) \in Nat
<1>1. LiveCredits(i) \ but \subseteq Notes
  BY DEF LiveCredits
<1>2. IsFiniteSet(LiveCredits(i) \ but)
  BY <1>1, FS_Subset
<1>3. \A n \in LiveCredits(i) \ but : CreditTotals[n] \in Nat
  BY DEF TypeOK, CreditTotals, LiveCredits, Amount
<1>4. QED
  BY <1>2, <1>3, SumIsNat DEF Credited

\* Without a new credit note, no more is credited than before.
LEMMA CreditsShrink ==
  ASSUME TypeOK, NEW i, NEW but, NoNewCredits(i)
  PROVE  Credited(i, but)' <= Credited(i, but) /\ Credited(i, but)' \in Nat
<1> DEFINE S == LiveCredits(i) \ but
           T == LiveCredits(i)' \ but
<1>1. T \in SUBSET S /\ \A n \in T : CreditTotals'[n] = CreditTotals[n]
  BY DEF NoNewCredits
<1>2. SumOf(T, CreditTotals') = SumOf(T, CreditTotals)
  BY <1>1, SumSame
<1>3. SumOf(T, CreditTotals) <= SumOf(S, CreditTotals)
  BY <1>1, CreditsAreNat, SumSubset
<1>4. SumOf(T, CreditTotals) \in Nat
  BY <1>1, CreditsAreNat, FS_Subset, SumIsNat
<1>5. QED
  BY <1>2, <1>3, <1>4 DEF Credited

\* An invoice that is not written and gets no new credit note asks for no less.
LEMMA NetTotalKept ==
  ASSUME TypeOK, NEW i \in Invoices, NoNewCredits(i), invoice'[i] = invoice[i]
  PROVE  NetTotal(i) \in Int /\ NetTotal(i)' \in Int /\ NetTotal(i) <= NetTotal(i)'
<1>1. invoice[i].total \in Nat
  BY DEF TypeOK, Amount
<1>2. Credited(i, {})' <= Credited(i, {}) /\ Credited(i, {})' \in Nat
  BY CreditsShrink
<1>3. Credited(i, {}) \in Nat
  BY CreditsAreNat
<1>4. QED
  BY <1>1, <1>2, <1>3 DEF NetTotal

\* What an invoice without credit notes asks for is its total.
LEMMA NoCredits ==
  ASSUME NEW i, LiveCredits(i) = {}
  PROVE  Credited(i, {}) = 0
BY SumEmpty DEF Credited

\* Where no note is written, nothing is credited or given back.
LEMMA SameCredits ==
  ASSUME credit' = credit
  PROVE  \A i : /\ LiveCredits(i)' = LiveCredits(i) /\ NoNewCredits(i)
               /\ \A but : Credited(i, but)' = Credited(i, but)
BY DEF LiveCredits, CreditTotals, Credited, NoNewCredits

\* The payments of an invoice are finitely many and have natural amounts.
LEMMA PaymentsAreNat ==
  ASSUME TypeOK, NEW i
  PROVE  /\ IsFiniteSet(LivePayments(i))
         /\ \A p \in LivePayments(i) : PaymentAmounts[p] = payment[p].amount
                                       /\ PaymentAmounts[p] \in Nat
<1>1. IsFiniteSet(LivePayments(i))
  BY FS_Subset DEF LivePayments
<1>2. QED
  BY <1>1 DEF TypeOK, LivePayments, PaymentAmounts, Amount

\* The same payments have the same sum.
LEMMA SamePaymentsSum ==
  ASSUME TypeOK, NEW i, SamePayments(i)
  PROVE  SumOf(LivePayments(i)', PaymentAmounts') = SumOf(LivePayments(i), PaymentAmounts)
<1>1. \A p \in LivePayments(i) : PaymentAmounts'[p] = PaymentAmounts[p]
  BY DEF SamePayments, PaymentAmounts, LivePayments
<1>2. SumOf(LivePayments(i), PaymentAmounts') = SumOf(LivePayments(i), PaymentAmounts)
  BY <1>1, SumSame
<1>3. QED
  BY <1>2 DEF SamePayments

\* An invoice that is not written stays well if its payments and credit notes do.
LEMMA InvoiceKept ==
  ASSUME TypeOK, NEW i \in Invoices, InvoiceOK(i), invoice'[i] = invoice[i],
         SamePayments(i), NoNewCredits(i)
  PROVE  InvoiceOK(i)'
<1>1. SumOf(LivePayments(i), PaymentAmounts)' = SumOf(LivePayments(i), PaymentAmounts)
  BY SamePaymentsSum
<1>2. Credited(i, {})' <= Credited(i, {}) /\ Credited(i, {})' \in Nat
  BY CreditsShrink
<1>3. Credited(i, {}) \in Nat /\ invoice[i].total \in Nat
  <2>1. invoice[i].total \in Nat
    BY DEF TypeOK, Amount
  <2>2. QED
    BY <2>1, CreditsAreNat
<1>4. Credited(i, {})' <= invoice'[i].total
  <2>1. Credited(i, {}) <= invoice[i].total
    BY DEF InvoiceOK
  <2>2. QED
    BY <1>2, <1>3, <2>1
<1>5. LiveCredits(i) = {} => LiveCredits(i)' = {}
  BY DEF NoNewCredits
<1>6. Open(i)' <=> Open(i)
  BY DEF Open
<1>7. \A p, r \in LivePayments(i)' :
        payment'[p].key # NoOne /\ payment'[p].key = payment'[r].key => p = r
  BY DEF InvoiceOK, SamePayments
<1>8. invoice'[i].paid = SumOf(LivePayments(i), PaymentAmounts)'
  BY <1>1 DEF InvoiceOK
<1>9. LivePayments(i)' = LivePayments(i)
  BY DEF SamePayments
<1>10. QED
  BY <1>4, <1>5, <1>6, <1>7, <1>8, <1>9 DEF InvoiceOK

-----------------------------------------------------------------------------
(* Who is disturbed by whom                                                 *)

\* A step that does not disturb p keeps what p relies on.
LEMMA OthersKeep ==
  ASSUME IInv, NEW p \in Requests, Undisturbed(p)
  PROVE  JobsOK(p)'
<1> DEFINE i == job[p].invoice
<1>1. /\ pc'[p] = pc[p] /\ job'[p] = job[p]
      /\ TypeOK /\ JobsOK(p) /\ job[p] \in JobType
  BY DEF IInv, TypeOK, Undisturbed
<1>2. NoMoreLocks(p)'
  BY <1>1 DEF JobsOK, NoMoreLocks
<1>3. InvoiceJob(p)'
  <2> SUFFICES ASSUME job[p].op \in OnInvoice PROVE InvoiceJob(p)'
    BY <1>1 DEF InvoiceJob
  <2>1. i \in Invoices /\ i \in Rows /\ invoice[i].status # "NONE" /\ (i \in job[p].want \/ lock[i] = p)
    BY <1>1 DEF JobsOK, InvoiceJob, Rows
  <2>2. invoice'[i].status # "NONE" /\ (i \in job[p].want \/ lock'[i] = p)
    BY <2>1 DEF Undisturbed
  <2>3. QED
    BY <1>1, <2>1, <2>2 DEF InvoiceJob
<1>4. ASSUME job[p].op \in OnInvoice, pc[p] = "checked"
      PROVE  /\ i \in Invoices /\ invoice'[i] = invoice[i] /\ NoNewCredits(i) /\ SamePayments(i)
             /\ (Open(i)' <=> Open(i))
             /\ NetTotal(i) \in Int /\ NetTotal(i)' \in Int /\ NetTotal(i) <= NetTotal(i)'
             /\ (LiveCredits(i) = {} => LiveCredits(i)' = {})
  <2>1. i \in Invoices /\ invoice[i].status # "NONE" /\ lock[i] = p
    BY <1>1, <1>4 DEF JobsOK, InvoiceJob, NoMoreLocks
  <2>2. invoice'[i] = invoice[i] /\ NoNewCredits(i) /\ SamePayments(i)
    BY <2>1 DEF Undisturbed
  <2>3. QED
    BY <1>1, <2>1, <2>2, NetTotalKept DEF Open, NoNewCredits
<1>5. EditJob(p)'
  <2> SUFFICES ASSUME job[p].op = "edit" PROVE EditJob(p)'
    BY <1>1 DEF EditJob
  <2>1. EditJob(p) /\ job[p].op \in OnInvoice
    BY <1>1 DEF JobsOK, OnInvoice
  <2>2. QED
    BY <1>1, <1>4, <2>1 DEF EditJob
<1>6. ReverseJob(p)'
  <2> SUFFICES ASSUME job[p].op \in {"cancel", "remove"} PROVE ReverseJob(p)'
    BY <1>1 DEF ReverseJob
  <2>1. ReverseJob(p) /\ job[p].op \in OnInvoice
    BY <1>1 DEF JobsOK, OnInvoice
  <2>2. QED
    BY <1>1, <1>4, <2>1 DEF ReverseJob
<1>7. RecordJob(p)'
  <2> SUFFICES ASSUME job[p].op = "record" PROVE RecordJob(p)'
    BY <1>1 DEF RecordJob
  <2>1. RecordJob(p) /\ job[p].op \in OnInvoice
    BY <1>1 DEF JobsOK, OnInvoice
  <2>2. CASE pc[p] = "checked"
    <3>1. job[p].paid \in Int /\ job[p].paid <= NetTotal(i)
      BY <1>1, <2>1, <2>2 DEF RecordJob, JobType, Amount
    <3>2. job[p].paid <= NetTotal(i)'
      BY <1>4, <2>1, <2>2, <3>1
    <3>3. job[p].key # NoOne => \A r \in LivePayments(i)' : payment'[r].key # job[p].key
      BY <1>4, <2>1, <2>2 DEF RecordJob, SamePayments
    <3>4. invoice'[i] = invoice[i] /\ Open(i)'
      BY <1>4, <2>1, <2>2 DEF RecordJob
    <3>5. QED
      BY <1>1, <2>1, <2>2, <3>2, <3>3, <3>4 DEF RecordJob
  <2>3. CASE pc[p] # "checked"
    BY <1>1, <2>1, <2>3 DEF RecordJob
  <2>4. QED
    BY <2>2, <2>3
<1>8. PaymentJob(p)'
  <2> DEFINE r == job[p].payment
  <2> SUFFICES ASSUME job[p].op \in {"update", "delete"} PROVE PaymentJob(p)'
    BY <1>1 DEF PaymentJob
  <2>1. PaymentJob(p) /\ job[p].op \in OnInvoice
    BY <1>1 DEF JobsOK, OnInvoice
  <2>2. /\ r \in Payments /\ payment[r].state # "none" /\ payment[r].invoice = i
        /\ payment'[r].state # "none" /\ payment'[r].invoice = i
    BY <2>1 DEF PaymentJob, Undisturbed
  <2>3. CASE pc[p] = "checked"
    <3>1. r \in LivePayments(i) /\ r \in LivePayments(i)'
      BY <1>4, <2>1, <2>2, <2>3 DEF PaymentJob, LivePayments, SamePayments
    <3>2. payment'[r].state = "live" /\ payment'[r].amount = payment[r].amount
      BY <1>4, <2>1, <2>3, <3>1 DEF LivePayments, SamePayments
    <3>3. job[p].paid \in Int
      BY <1>1 DEF JobType, Amount
    <3>4. job[p].op = "update" => job[p].paid <= NetTotal(i)'
      BY <1>4, <2>1, <2>3, <3>3 DEF PaymentJob
    <3>5. invoice'[i] = invoice[i]
      BY <1>4, <2>1, <2>3
    <3>6. QED
      BY <1>1, <2>1, <2>2, <2>3, <3>2, <3>4, <3>5 DEF PaymentJob
  <2>4. CASE pc[p] # "checked"
    BY <1>1, <2>2, <2>4 DEF PaymentJob
  <2>5. QED
    BY <2>3, <2>4
<1>9. ChequeJob(p)'
  BY <1>1 DEF JobsOK, ChequeJob
<1>10. QED
  BY <1>2, <1>3, <1>5, <1>6, <1>7, <1>8, <1>9 DEF JobsOK

-----------------------------------------------------------------------------
(* Steps that write no row                                                  *)

\* A request that is idle relies on nothing.
LEMMA IdleJob ==
  ASSUME NEW q \in Requests, pc'[q] = "idle", job'[q] = NoJob
  PROVE  JobsOK(q)'
BY DEF JobsOK, NoMoreLocks, InvoiceJob, EditJob, ReverseJob, RecordJob, PaymentJob, ChequeJob,
   NoJob, OnInvoice

LEMMA NoJobType == NoJob \in JobType /\ NoMoney \in EditType
BY DEF NoJob, NoMoney, JobType, EditType, Amount, InvoiceStatuses

\* The end of a transaction frees its own locks and no others.
LEMMA EndType ==
  ASSUME TypeOK, NEW q \in Requests, End(q)
  PROVE  /\ pc' \in [Requests -> {"idle", "first", "checked"}] /\ job' \in [Requests -> JobType]
         /\ lock' \in [Rows -> Requests \cup {NoOne}]
         /\ pc'[q] = "idle" /\ job'[q] = NoJob
         /\ \A p \in Requests \ {q} :
              /\ pc'[p] = pc[p] /\ job'[p] = job[p]
              /\ \A row \in Rows : lock'[row] = p <=> lock[row] = p
BY NoJobType DEF TypeOK, End, Released

\* Where no row is written, every invoice stays as it is.
LEMMA SameRows ==
  ASSUME UNCHANGED <<invoice, payment, credit>>
  PROVE  \A i : /\ SamePayments(i) /\ NoNewCredits(i) /\ NetTotal(i)' = NetTotal(i)
               /\ LivePayments(i)' = LivePayments(i) /\ LiveCredits(i)' = LiveCredits(i)
               /\ (Open(i)' <=> Open(i))
<1>1. \A i : Credited(i, {})' = Credited(i, {}) /\ NoNewCredits(i) /\ LiveCredits(i)' = LiveCredits(i)
  BY SameCredits
<1>2. \A i : SamePayments(i) /\ LivePayments(i)' = LivePayments(i)
  BY DEF SamePayments, LivePayments
<1>3. QED
  BY <1>1, <1>2 DEF NetTotal, Open

\* A step of q that writes no row keeps the invariant if it leaves q a job
\* that may be relied on.
LEMMA ReadStep ==
  ASSUME IInv, NEW q \in Requests, UNCHANGED <<invoice, payment, credit>>,
         pc' \in [Requests -> {"idle", "first", "checked"}], job' \in [Requests -> JobType],
         lock' \in [Rows -> Requests \cup {NoOne}],
         \A p \in Requests \ {q} :
           /\ pc'[p] = pc[p] /\ job'[p] = job[p]
           /\ \A row \in Rows : lock'[row] = p <=> lock[row] = p,
         JobsOK(q)'
  PROVE  IInv'
<1>1. TypeOK' /\ PaymentsHaveMoney'
  BY DEF IInv, TypeOK, PaymentsHaveMoney
<1>2. InvoicesOK'
  <2>1. TypeOK /\ InvoicesOK
    BY InvariantParts
  <2>2. ASSUME NEW i \in Invoices PROVE InvoiceOK(i)'
    BY <2>1, SameRows, InvoiceKept DEF InvoicesOK
  <2>3. QED
    BY <2>2 DEF InvoicesOK
<1>3. RequestsOK'
  <2> SUFFICES ASSUME NEW p \in Requests \ {q} PROVE JobsOK(p)'
    BY DEF RequestsOK
  <2>1. Undisturbed(p)
    BY SameRows DEF Undisturbed
  <2>2. QED
    BY <2>1, OthersKeep
<1>4. QED
  BY <1>1, <1>2, <1>3, InvariantPartsAfter

\* What a handler may be asked for.
ArgsOK(args) ==
  /\ args \in JobType
  /\ args.op \in OnInvoice =>
       /\ args.invoice \in Invoices /\ invoice[args.invoice].status # "NONE"
       /\ args.invoice \in args.want
  /\ args.op = "edit" /\ args.money.amount > 0 => args.money \in ReceiptType
  /\ args.op = "record" => args.money \in ReceiptType
  /\ args.op \in {"update", "delete"} =>
       /\ args.payment \in Payments /\ payment[args.payment].state # "none"
       /\ payment[args.payment].invoice = args.invoice
  /\ args.op \in {"deposit", "reopen"} =>
       args.payment \in Payments /\ args.money.account \in Accounts

\* A request that takes up a handler.
LEMMA BeginStep ==
  ASSUME IInv, NEW q \in Requests, NEW args, ArgsOK(args), Begin(q, args)
  PROVE  IInv'
<1>1. /\ pc' \in [Requests -> {"idle", "first", "checked"}] /\ job' \in [Requests -> JobType]
      /\ lock' = lock /\ job'[q] = args /\ pc'[q] = "first"
      /\ \A p \in Requests \ {q} : pc'[p] = pc[p] /\ job'[p] = job[p]
      /\ UNCHANGED <<invoice, payment, credit>>
  BY DEF IInv, TypeOK, Begin, ArgsOK
<1>2. lock' \in [Rows -> Requests \cup {NoOne}]
  BY <1>1 DEF IInv, TypeOK
<1>3. JobsOK(q)'
  BY <1>1 DEF ArgsOK, JobsOK, NoMoreLocks, InvoiceJob, EditJob, ReverseJob, RecordJob,
     PaymentJob, ChequeJob
<1>4. QED
  BY <1>1, <1>2, <1>3, ReadStep

\* A request that has checked what it is going to commit.
LEMMA ProceedStep ==
  ASSUME IInv, NEW q \in Requests, NEW args \in JobType, Proceed(q, args), JobsOK(q)'
  PROVE  IInv'
<1>1. /\ pc' \in [Requests -> {"idle", "first", "checked"}] /\ job' \in [Requests -> JobType]
      /\ lock' = lock
      /\ \A p \in Requests \ {q} : pc'[p] = pc[p] /\ job'[p] = job[p]
      /\ UNCHANGED <<invoice, payment, credit>>
  BY DEF IInv, TypeOK, Proceed
<1>2. lock' \in [Rows -> Requests \cup {NoOne}]
  BY <1>1 DEF IInv, TypeOK
<1>3. QED
  BY <1>1, <1>2, ReadStep

\* A rollback leaves the request idle.
LEMMA RollbackStep ==
  ASSUME IInv, NEW q \in Requests, Rollback(q)
  PROVE  IInv'
<1>1. End(q) /\ TypeOK
  BY DEF Rollback, IInv
<1>2. JobsOK(q)'
  BY <1>1, EndType, IdleJob
<1>3. QED
  BY <1>1, <1>2, EndType, ReadStep DEF Rollback

\* A granted lock moves from what is wanted to what is held.
LEMMA AcquireStep ==
  ASSUME IInv, NEW q \in Requests, Acquire(q)
  PROVE  IInv'
<1>1. PICK row \in job[q].want :
        /\ lock[row] = NoOne /\ lock' = [lock EXCEPT ![row] = q]
        /\ job' = [job EXCEPT ![q].want = @ \ {row}]
  BY DEF Acquire, CanLock
<1>2. /\ pc' = pc /\ pc[q] = "first" /\ UNCHANGED <<invoice, payment, credit>>
  BY DEF Acquire
<1>3. /\ job[q] \in JobType /\ row \in Rows /\ lock \in [Rows -> Requests \cup {NoOne}]
      /\ job \in [Requests -> JobType] /\ pc \in [Requests -> {"idle", "first", "checked"}]
      /\ JobsOK(q)
  BY DEF IInv, TypeOK, JobType, JobsOK
<1>4. job'[q] = [job[q] EXCEPT !.want = @ \ {row}]
  BY <1>1, <1>3
<1>5. job'[q] \in JobType
  BY <1>3, <1>4 DEF JobType
<1>6. /\ job' \in [Requests -> JobType]
      /\ lock' \in [Rows -> Requests \cup {NoOne}] /\ lock'[row] = q
      /\ \A p \in Requests \ {q} :
           /\ pc'[p] = pc[p] /\ job'[p] = job[p]
           /\ \A s \in Rows : lock'[s] = p <=> lock[s] = p
  BY <1>1, <1>2, <1>3, <1>5
<1>7. /\ job'[q].op = job[q].op /\ job'[q].invoice = job[q].invoice
      /\ job'[q].payment = job[q].payment /\ job'[q].money = job[q].money
      /\ job'[q].want = job[q].want \ {row}
  BY <1>3, <1>4 DEF JobType
<1>8. InvoiceJob(q)'
  <2> SUFFICES ASSUME job[q].op \in OnInvoice PROVE InvoiceJob(q)'
    BY <1>7 DEF InvoiceJob
  <2>1. /\ job[q].invoice \in Invoices /\ invoice[job[q].invoice].status # "NONE"
        /\ job[q].invoice \in Rows /\ (job[q].invoice \in job[q].want \/ lock[job[q].invoice] = q)
    BY <1>3 DEF JobsOK, InvoiceJob, Rows
  <2>2. job[q].invoice \in job'[q].want \/ lock'[job[q].invoice] = q
    BY <1>1, <1>3, <1>6, <1>7, <2>1
  <2>3. QED
    BY <1>2, <1>7, <2>1, <2>2 DEF InvoiceJob
<1>9. JobsOK(q)'
  BY <1>2, <1>3, <1>7, <1>8 DEF JobsOK, NoMoreLocks, EditJob, ReverseJob, RecordJob,
     PaymentJob, ChequeJob
<1>10. QED
  BY <1>2, <1>3, <1>6, <1>9, ReadStep

-----------------------------------------------------------------------------
(* Steps that begin a handler                                               *)

\* The handlers of invoices and of new payments.
LEMMA BeginOnInvoiceStep ==
  ASSUME IInv, NEW q \in Requests, NEW i \in Invoices,
         \/ \E draft \in BOOLEAN, total \in Amount, money \in Receipts \cup {NoMoney} :
              BeginEditInvoice(q, i, draft, total, money)
         \/ \E op \in {"cancel", "remove"} : BeginReverse(q, op, i)
         \/ \E key \in Keys \cup {NoOne}, money \in Receipts : BeginRecord(q, i, key, money)
  PROVE  IInv'
<1>1. /\ i \in Rows /\ Branch \in Rows /\ \A money \in Receipts : money \in ReceiptType
      /\ \A money \in Receipts \cup {NoMoney} : money \in EditType
      /\ NoMoney.amount = 0
  BY NoJobType DEF Rows, ReceiptType, EditType, NoMoney
<1>2. ASSUME NEW draft \in BOOLEAN, NEW total \in Amount, NEW money \in Receipts \cup {NoMoney},
             BeginEditInvoice(q, i, draft, total, money)
      PROVE  IInv'
  <2> DEFINE args == [NoJob EXCEPT !.op = "edit", !.invoice = i, !.draft = draft, !.total = total,
                                   !.money = money, !.want = {Branch, i}]
  <2>1. /\ args \in JobType /\ args.op = "edit" /\ args.invoice = i
        /\ args.want = {Branch, i} /\ args.money = money
    <3>1. NoJob \in JobType /\ money \in EditType /\ {Branch, i} \in SUBSET Rows
      BY <1>1, NoJobType
    <3>2. QED
      BY <3>1 DEF JobType
  <2>2. Begin(q, args) /\ invoice[i].status # "NONE"
    BY <1>2 DEF BeginEditInvoice
  <2>3. ArgsOK(args)
    BY <1>1, <2>1, <2>2 DEF ArgsOK
  <2>4. QED
    BY <2>2, <2>3, BeginStep
<1>3. ASSUME NEW op \in {"cancel", "remove"}, BeginReverse(q, op, i)
      PROVE  IInv'
  <2> DEFINE args == [NoJob EXCEPT !.op = op, !.invoice = i, !.want = {i}]
  <2>1. args \in JobType /\ args.op = op /\ args.invoice = i /\ args.want = {i}
    <3>1. NoJob \in JobType /\ {i} \in SUBSET Rows
      BY <1>1, NoJobType
    <3>2. QED
      BY <3>1 DEF JobType
  <2>2. Begin(q, args) /\ invoice[i].status # "NONE"
    BY <1>3 DEF BeginReverse
  <2>3. ArgsOK(args)
    BY <1>1, <2>1, <2>2 DEF ArgsOK
  <2>4. QED
    BY <2>2, <2>3, BeginStep
<1>4. ASSUME NEW key \in Keys \cup {NoOne}, NEW money \in Receipts, BeginRecord(q, i, key, money)
      PROVE  IInv'
  <2> DEFINE args == [NoJob EXCEPT !.op = "record", !.invoice = i, !.key = key,
                                   !.money = money, !.want = {i}]
  <2>1. /\ args \in JobType /\ args.op = "record" /\ args.invoice = i
        /\ args.want = {i} /\ args.money = money
    <3>1. NoJob \in JobType /\ money \in EditType /\ {i} \in SUBSET Rows
      BY <1>1, NoJobType
    <3>2. QED
      BY <3>1 DEF JobType
  <2>2. Begin(q, args) /\ invoice[i].status # "NONE"
    BY <1>4 DEF BeginRecord
  <2>3. ArgsOK(args)
    BY <1>1, <2>1, <2>2 DEF ArgsOK
  <2>4. QED
    BY <2>2, <2>3, BeginStep
<1>5. QED
  BY <1>2, <1>3, <1>4

\* The handlers of a payment and of its cheque.
LEMMA BeginWithPaymentStep ==
  ASSUME IInv, NEW q \in Requests, NEW p \in Payments,
         \/ \E edit \in Edits : BeginOnPayment(q, "update", p, edit)
         \/ BeginOnPayment(q, "delete", p, NoMoney)
         \/ \E action \in {"deposit", "reopen"} :
              \E bank \in IF action = "deposit" THEN Banks ELSE {"none"} :
                BeginCheque(q, action, p, bank)
  PROVE  IInv'
<1>1. Branch \in Rows /\ PaymentsHaveMoney /\ InvoicesOK
  BY InvariantParts DEF Rows
<1>2. ASSUME NEW op \in {"update", "delete"}, NEW money \in EditType,
             BeginOnPayment(q, op, p, money)
      PROVE  IInv'
  <2> DEFINE i == payment[p].invoice
             args == [NoJob EXCEPT !.op = op, !.payment = p, !.invoice = i,
                                   !.money = money, !.want = {i}]
  <2>1. Begin(q, args) /\ payment[p].state = "live"
    BY <1>2 DEF BeginOnPayment
  <2>2. i \in Invoices /\ i \in Rows /\ p \in LivePayments(i)
    BY <1>1, <2>1 DEF PaymentsHaveMoney, LivePayments, Rows
  <2>3. invoice[i].status # "NONE"
    BY <1>1, <2>2 DEF InvoicesOK, InvoiceOK, Open, Issued
  <2>4. /\ args \in JobType /\ args.op = op /\ args.invoice = i /\ args.payment = p
        /\ args.want = {i}
    <3>1. NoJob \in JobType /\ {i} \in SUBSET Rows
      BY <2>2, NoJobType
    <3>2. QED
      BY <2>2, <3>1 DEF JobType
  <2>5. ArgsOK(args)
    BY <2>1, <2>2, <2>3, <2>4 DEF ArgsOK
  <2>6. QED
    BY <2>1, <2>5, BeginStep
<1>3. ASSUME NEW action \in {"deposit", "reopen"}, NEW bank \in Accounts,
             BeginCheque(q, action, p, bank)
      PROVE  IInv'
  <2> DEFINE args == [NoJob EXCEPT !.op = action, !.payment = p, !.money.account = bank,
                                   !.want = {Branch}]
  <2>1. /\ args \in JobType /\ args.op = action /\ args.payment = p
        /\ args.money.account = bank
    BY <1>1, NoJobType DEF JobType, NoJob, NoMoney, EditType
  <2>2. Begin(q, args)
    BY <1>3 DEF BeginCheque
  <2>3. ArgsOK(args)
    BY <2>1 DEF ArgsOK, OnInvoice
  <2>4. QED
    BY <2>2, <2>3, BeginStep
<1>4. QED
  BY <1>2, <1>3, NoJobType DEF Accounts, Banks

-----------------------------------------------------------------------------
(* Steps that check what a request is going to commit                       *)

\* A payment on record belongs to an open invoice, whose paid amount holds it.
LEMMA PaymentIsPaid ==
  ASSUME IInv, NEW p \in Payments, payment[p].state = "live"
  PROVE  LET i == payment[p].invoice IN
         /\ i \in Invoices /\ p \in LivePayments(i) /\ Open(i)
         /\ payment[p].amount \in Nat /\ payment[p].amount > 0
         /\ payment[p].amount <= invoice[i].paid
<1> DEFINE i == payment[p].invoice
<1>1. TypeOK /\ PaymentsHaveMoney /\ InvoicesOK
  BY InvariantParts
<1>2. i \in Invoices /\ payment[p].amount > 0 /\ p \in LivePayments(i)
  BY <1>1 DEF PaymentsHaveMoney, LivePayments
<1>3. PaymentAmounts[p] <= SumOf(LivePayments(i), PaymentAmounts)
  BY <1>1, <1>2, PaymentsAreNat, SumMember
<1>4. PaymentAmounts[p] = payment[p].amount /\ payment[p].amount \in Nat
  BY <1>1, <1>2, PaymentsAreNat
<1>5. invoice[i].paid = SumOf(LivePayments(i), PaymentAmounts) /\ Open(i)
  BY <1>1, <1>2 DEF InvoicesOK, InvoiceOK
<1>6. QED
  BY <1>2, <1>3, <1>4, <1>5

\* What is left to ask for is at most the total.
LEMMA NetTotalBound ==
  ASSUME TypeOK, NEW i \in Invoices
  PROVE  /\ NetTotal(i) \in Int /\ NetTotal(i) <= invoice[i].total
         /\ invoice[i].total \in Nat /\ invoice[i].total <= MaxAmount
         /\ invoice[i].paid \in Nat
<1>1. invoice[i].total \in Amount /\ invoice[i].paid \in Amount
  BY DEF TypeOK
<1>2. Credited(i, {}) \in Nat
  BY CreditsAreNat
<1>3. QED
  BY <1>1, <1>2 DEF NetTotal, Amount

\* update() has seen that nothing was received or credited.
LEMMA CheckEditStep ==
  ASSUME IInv, NEW q \in Requests, CheckEditInvoice(q)
  PROVE  IInv'
<1> DEFINE i == job[q].invoice
           status == SavedStatus(job[q].draft, job[q].money.amount, job[q].total)
           moves == (IF job[q].draft THEN 0 ELSE 1) - (IF invoice[i].status = "DRAFT" THEN 0 ELSE 1)
           args == [job[q] EXCEPT !.status = status, !.paid = job[q].money.amount, !.moves = moves]
<1>1. /\ job[q] \in JobType /\ job \in [Requests -> JobType] /\ JobsOK(q)
      /\ pc \in [Requests -> {"idle", "first", "checked"}] /\ TypeOK
  BY DEF IInv, TypeOK, JobsOK
<1>2. /\ pc[q] = "first" /\ job[q].op = "edit" /\ job[q].want = {}
      /\ ~invoice[i].deleted /\ invoice[i].status # "CANCELLED" /\ invoice[i].paid <= 0
      /\ invoice[i].status # "DRAFT" => ~job[q].draft
      /\ LiveCredits(i) = {}
      /\ job[q].money.amount <= job[q].total /\ (job[q].draft => job[q].money.amount = 0)
      /\ Proceed(q, args)
  BY DEF CheckEditInvoice, At
<1>3. i \in Invoices /\ invoice[i].status # "NONE" /\ lock[i] = q
  BY <1>1, <1>2 DEF JobsOK, InvoiceJob, OnInvoice
<1>4. invoice[i].paid = 0
  BY <1>1, <1>2, <1>3, NetTotalBound
<1>5. /\ args \in JobType /\ args.op = "edit" /\ args.invoice = i /\ args.want = {}
      /\ args.status = status /\ args.paid = job[q].money.amount /\ args.moves = moves
      /\ args.money = job[q].money /\ args.draft = job[q].draft /\ args.total = job[q].total
  <2>1. job[q].money.amount \in Amount
    BY <1>1 DEF JobType, EditType
  <2>2. status \in InvoiceStatuses
    BY DEF SavedStatus, InvoiceStatuses, Issued
  <2>3. moves \in {-1, 0, 1}
    OBVIOUS
  <2> HIDE DEF status, moves
  <2>4. QED
    BY <1>1, <1>2, <2>1, <2>2, <2>3 DEF JobType
<1>6. /\ job'[q] = args /\ pc'[q] = "checked" /\ lock' = lock
      /\ invoice' = invoice /\ LiveCredits(i)' = LiveCredits(i)
  BY <1>1, <1>2, SameCredits DEF Proceed
<1>7. EditJob(q)'
  BY <1>1, <1>2, <1>4, <1>5, <1>6 DEF EditJob, JobsOK
<1>8. JobsOK(q)'
  BY <1>2, <1>3, <1>5, <1>6, <1>7 DEF JobsOK, NoMoreLocks, InvoiceJob, ReverseJob, RecordJob,
     PaymentJob, ChequeJob
<1>9. QED
  BY <1>2, <1>5, <1>8, ProceedStep

\* cancel() and remove() have seen the same and know where the goods are.
LEMMA CheckReverseStep ==
  ASSUME IInv, NEW q \in Requests, NEW op \in {"cancel", "remove"}, CheckReverse(q, op)
  PROVE  IInv'
<1> DEFINE i == job[q].invoice
           moves == IF invoice[i].status \in Issued THEN -1 ELSE 0
           args == [job[q] EXCEPT !.moves = moves]
<1>1. /\ job[q] \in JobType /\ job \in [Requests -> JobType] /\ JobsOK(q)
      /\ pc \in [Requests -> {"idle", "first", "checked"}] /\ TypeOK
  BY DEF IInv, TypeOK, JobsOK
<1>2. /\ job[q].op = op /\ job[q].want = {} /\ Proceed(q, args)
      /\ ~invoice[i].deleted /\ invoice[i].paid <= 0 /\ LiveCredits(i) = {}
  BY DEF CheckReverse, At
<1>3. i \in Invoices /\ invoice[i].status # "NONE" /\ lock[i] = q
  BY <1>1, <1>2 DEF JobsOK, InvoiceJob, OnInvoice
<1>4. invoice[i].paid = 0
  BY <1>1, <1>2, <1>3, NetTotalBound
<1>5. /\ args \in JobType /\ args.op = op /\ args.invoice = i /\ args.want = {}
      /\ args.moves = moves
  <2>1. moves \in {-1, 0, 1}
    OBVIOUS
  <2> HIDE DEF moves
  <2>2. QED
    BY <1>1, <1>2, <2>1 DEF JobType
<1>6. /\ job'[q] = args /\ pc'[q] = "checked" /\ lock' = lock
      /\ invoice' = invoice /\ LiveCredits(i)' = LiveCredits(i)
  BY <1>1, <1>2, SameCredits DEF Proceed
<1>7. JobsOK(q)'
  BY <1>2, <1>3, <1>4, <1>5, <1>6 DEF JobsOK, NoMoreLocks, InvoiceJob, EditJob, ReverseJob,
     RecordJob, PaymentJob, ChequeJob
<1>8. QED
  BY <1>2, <1>5, <1>7, ProceedStep

\* recordPayment() has seen that the amount is still due.
LEMMA CheckRecordStep ==
  ASSUME IInv, NEW q \in Requests, CheckRecord(q)
  PROVE  IInv'
<1> DEFINE i == job[q].invoice
           paid == invoice[i].paid + job[q].money.amount
           status == IF paid = NetTotal(i) THEN "PAID" ELSE "PARTIALLY_PAID"
           args == [job[q] EXCEPT !.paid = paid, !.status = status]
<1>1. /\ job[q] \in JobType /\ job \in [Requests -> JobType] /\ JobsOK(q)
      /\ pc \in [Requests -> {"idle", "first", "checked"}] /\ TypeOK
  BY DEF IInv, TypeOK, JobsOK
<1>2. /\ pc[q] = "first" /\ job[q].op = "record" /\ job[q].want = {}
      /\ job[q].key # NoOne => \A p \in LivePayments(i) : payment[p].key # job[q].key
      /\ Open(i) /\ job[q].money.amount > 0 /\ paid <= NetTotal(i)
      /\ Proceed(q, args)
  BY DEF CheckRecord, At
<1>3. i \in Invoices /\ invoice[i].status # "NONE" /\ lock[i] = q
  BY <1>1, <1>2 DEF JobsOK, InvoiceJob, OnInvoice
<1>4. job[q].money \in ReceiptType /\ job[q].money.amount \in Nat
  BY <1>1, <1>2 DEF JobsOK, RecordJob, ReceiptType, Amount
<1>5. /\ args \in JobType /\ args.op = "record" /\ args.invoice = i /\ args.want = {}
      /\ args.status = status /\ args.paid = paid
      /\ args.money = job[q].money /\ args.key = job[q].key
  <2>1. paid \in Amount
    BY <1>1, <1>2, <1>3, <1>4, NetTotalBound DEF Amount
  <2>2. status \in InvoiceStatuses
    BY DEF InvoiceStatuses, Issued
  <2> HIDE DEF status, paid
  <2>3. QED
    BY <1>1, <1>2, <2>1, <2>2 DEF JobType
<1>6. /\ job'[q] = args /\ pc'[q] = "checked" /\ lock' = lock
      /\ invoice' = invoice /\ payment' = payment
      /\ NetTotal(i)' = NetTotal(i) /\ LivePayments(i)' = LivePayments(i)
      /\ (Open(i)' <=> Open(i))
  BY <1>1, <1>2, SameRows DEF Proceed
<1>7. RecordJob(q)'
  <2>1. job'[q].invoice = i /\ job'[q].money = job[q].money /\ job'[q].key = job[q].key
        /\ job'[q].paid = paid /\ job'[q].status = status
    BY <1>5, <1>6
  <2>2. job'[q].paid = invoice'[i].paid + job'[q].money.amount /\ job'[q].paid <= NetTotal(i)'
    BY <1>2, <1>6, <2>1
  <2>3. job'[q].status \in {"PARTIALLY_PAID", "PAID"}
    BY <2>1
  <2> HIDE DEF paid, status, args
  <2>4. QED
    BY <1>2, <1>4, <1>6, <2>1, <2>2, <2>3 DEF RecordJob
<1>8. JobsOK(q)'
  BY <1>2, <1>3, <1>5, <1>6, <1>7 DEF JobsOK, NoMoreLocks, InvoiceJob, EditJob, ReverseJob,
     PaymentJob, ChequeJob
<1>9. QED
  BY <1>2, <1>5, <1>8, ProceedStep

\* updatePayment() has seen that the invoice can take the new amount.
LEMMA CheckUpdateStep ==
  ASSUME IInv, NEW q \in Requests, CheckUpdatePayment(q)
  PROVE  IInv'
<1> DEFINE i == job[q].invoice
           p == job[q].payment
           amount == EditedAmount(p, job[q].money)
           paid == invoice[i].paid - payment[p].amount + amount
           status == PaidStatus(paid, NetTotal(i))
           args == [job[q] EXCEPT !.paid = paid, !.status = status, !.money.amount = amount]
<1>1. /\ job[q] \in JobType /\ job \in [Requests -> JobType] /\ JobsOK(q)
      /\ pc \in [Requests -> {"idle", "first", "checked"}] /\ TypeOK
  BY DEF IInv, TypeOK, JobsOK
<1>2. /\ pc[q] = "first" /\ job[q].op = "update" /\ job[q].want = {}
      /\ payment[p].state = "live" /\ paid <= NetTotal(i)
      /\ Proceed(q, args)
  BY DEF CheckUpdatePayment, At
<1>3. /\ i \in Invoices /\ invoice[i].status # "NONE" /\ lock[i] = q
      /\ p \in Payments /\ payment[p].invoice = i
  BY <1>1, <1>2 DEF JobsOK, InvoiceJob, PaymentJob, OnInvoice
<1>4. /\ payment[p].amount \in Nat /\ payment[p].amount > 0
      /\ payment[p].amount <= invoice[i].paid
  BY <1>2, <1>3, PaymentIsPaid
<1>5. amount \in Amount /\ amount \in Nat /\ amount > 0
  <2>1. job[q].money.amount \in Amount /\ payment[p].amount \in Amount
    BY <1>1, <1>3 DEF JobType, EditType, TypeOK
  <2>2. QED
    BY <1>4, <2>1 DEF EditedAmount, Amount
<1> HIDE DEF amount
<1>6. paid \in Amount /\ paid > 0
  <2>1. /\ NetTotal(i) \in Int /\ NetTotal(i) <= invoice[i].total
        /\ invoice[i].total \in Nat /\ invoice[i].total <= MaxAmount /\ invoice[i].paid \in Nat
    BY <1>1, <1>3, NetTotalBound
  <2>2. QED
    BY <1>2, <1>4, <1>5, <2>1 DEF Amount
<1>7. status \in {"PARTIALLY_PAID", "PAID"} /\ status \in InvoiceStatuses
  <2>1. paid \in Int /\ ~(paid <= 0)
    BY <1>6 DEF Amount
  <2>2. QED
    BY <2>1 DEF PaidStatus, InvoiceStatuses, Issued
<1>8. /\ args \in JobType /\ args.op = "update" /\ args.invoice = i /\ args.want = {}
      /\ args.status = status /\ args.paid = paid /\ args.payment = p
      /\ args.money.amount = amount
  <2> HIDE DEF paid, status
  <2>1. job[q].money \in EditType
    BY <1>1 DEF JobType
  <2>2. [job[q].money EXCEPT !.amount = amount] \in EditType
    BY <1>5, <2>1 DEF EditType
  <2>3. QED
    BY <1>1, <1>2, <1>6, <1>7, <2>1, <2>2 DEF JobType, EditType
<1>9. /\ job'[q] = args /\ pc'[q] = "checked" /\ lock' = lock
      /\ invoice' = invoice /\ payment' = payment /\ NetTotal(i)' = NetTotal(i)
  BY <1>1, <1>2, SameRows DEF Proceed
<1>10. PaymentJob(q)'
  <2>1. job'[q].invoice = i /\ job'[q].payment = p /\ job'[q].paid = paid
        /\ job'[q].status = status /\ job'[q].money.amount = amount /\ job'[q].op = "update"
    BY <1>8, <1>9
  <2>2. job'[q].paid = invoice'[i].paid - payment'[p].amount + job'[q].money.amount
        /\ job'[q].paid <= NetTotal(i)'
    BY <1>2, <1>9, <2>1
  <2> HIDE DEF paid, status, args
  <2>3. QED
    BY <1>2, <1>3, <1>5, <1>7, <1>9, <2>1, <2>2 DEF PaymentJob
<1>11. JobsOK(q)'
  BY <1>3, <1>8, <1>9, <1>10 DEF JobsOK, NoMoreLocks, InvoiceJob, EditJob, ReverseJob,
     RecordJob, ChequeJob
<1>12. QED
  BY <1>2, <1>8, <1>11, ProceedStep

\* deletePayment() knows what is left once the payment is gone.
LEMMA CheckDeleteStep ==
  ASSUME IInv, NEW q \in Requests, CheckDeletePayment(q)
  PROVE  IInv'
<1> DEFINE i == job[q].invoice
           p == job[q].payment
           paid == IF invoice[i].paid > payment[p].amount
                   THEN invoice[i].paid - payment[p].amount ELSE 0
           status == IF invoice[i].status = "CANCELLED" THEN "CANCELLED"
                     ELSE PaidStatus(paid, NetTotal(i))
           args == [job[q] EXCEPT !.paid = paid, !.status = status]
<1>1. /\ job[q] \in JobType /\ job \in [Requests -> JobType] /\ JobsOK(q)
      /\ pc \in [Requests -> {"idle", "first", "checked"}] /\ TypeOK
  BY DEF IInv, TypeOK, JobsOK
<1>2. /\ pc[q] = "first" /\ job[q].op = "delete" /\ job[q].want = {}
      /\ payment[p].state = "live" /\ Proceed(q, args)
  BY DEF CheckDeletePayment, At
<1>3. /\ i \in Invoices /\ invoice[i].status # "NONE" /\ lock[i] = q
      /\ p \in Payments /\ payment[p].invoice = i
  BY <1>1, <1>2 DEF JobsOK, InvoiceJob, PaymentJob, OnInvoice
<1>4. /\ payment[p].amount \in Nat /\ payment[p].amount > 0
      /\ payment[p].amount <= invoice[i].paid /\ Open(i)
      /\ invoice[i].paid \in Amount
  <2>1. invoice[i].paid \in Amount
    BY <1>1, <1>3 DEF TypeOK
  <2>2. QED
    BY <1>2, <1>3, <2>1, PaymentIsPaid
<1>5. paid \in Amount /\ paid = invoice[i].paid - payment[p].amount
  BY <1>4 DEF Amount
<1>6. /\ status \in Issued /\ status \in InvoiceStatuses
      /\ status = "UNPAID" => paid = 0
      /\ status = "PARTIALLY_PAID" => paid > 0
  <2>1. status = PaidStatus(paid, NetTotal(i))
    BY <1>4 DEF Open, Issued
  <2>2. paid \in Nat
    BY <1>5 DEF Amount
  <2> HIDE DEF paid, status
  <2>3. QED
    BY <2>1, <2>2 DEF PaidStatus, Issued, InvoiceStatuses
<1> HIDE DEF paid, status
<1>7. /\ args \in JobType /\ args.op = "delete" /\ args.invoice = i /\ args.want = {}
      /\ args.status = status /\ args.paid = paid /\ args.payment = p
  BY <1>1, <1>2, <1>5, <1>6 DEF JobType
<1>8. /\ job'[q] = args /\ pc'[q] = "checked" /\ lock' = lock
      /\ invoice' = invoice /\ payment' = payment
  BY <1>1, <1>2 DEF Proceed
<1>9. PaymentJob(q)'
  BY <1>2, <1>3, <1>5, <1>6, <1>7, <1>8 DEF PaymentJob
<1>10. JobsOK(q)'
  BY <1>3, <1>7, <1>8, <1>9 DEF JobsOK, NoMoreLocks, InvoiceJob, EditJob, ReverseJob,
     RecordJob, ChequeJob
<1>11. QED
  BY <1>2, <1>7, <1>10, ProceedStep

\* cheque() relies on no invoice.
LEMMA CheckChequeStep ==
  ASSUME IInv, NEW q \in Requests, NEW action \in {"deposit", "reopen"}, CheckCheque(q, action)
  PROVE  IInv'
<1>1. /\ job[q] \in JobType /\ job \in [Requests -> JobType] /\ JobsOK(q)
      /\ pc \in [Requests -> {"idle", "first", "checked"}]
  BY DEF IInv, TypeOK, JobsOK
<1>2. job[q].op = action /\ job[q].want = {} /\ Proceed(q, job[q])
  BY DEF CheckCheque, At
<1>3. job'[q] = job[q]
  BY <1>1, <1>2 DEF Proceed
<1>4. JobsOK(q)'
  BY <1>1, <1>2, <1>3 DEF JobsOK, NoMoreLocks, InvoiceJob, EditJob, ReverseJob, RecordJob,
     PaymentJob, ChequeJob, OnInvoice
<1>5. QED
  BY <1>1, <1>2, <1>4, ProceedStep

-----------------------------------------------------------------------------
(* What writing one payment does to the payments of an invoice              *)

InvoiceType == [Invoices -> [status : InvoiceStatuses, total : Amount, paid : Amount,
                             out : Int, deleted : BOOLEAN]]
PaymentRow == [state : {"none", "live", "removed"}, invoice : Invoices \cup {NoOne},
               key : Keys \cup {NoOne}, amount : Amount, method : Methods, account : Accounts,
               event : {"none", "deposit", "reopen"}]

\* An invoice is not concerned by a payment that is on another one.
LEMMA OtherInvoices ==
  ASSUME TypeOK, NEW p \in Payments, NEW new \in PaymentRow,
         payment' = [payment EXCEPT ![p] = new],
         NEW j, p \notin LivePayments(j), new.state # "live" \/ new.invoice # j
  PROVE  SamePayments(j)
<1>1. payment'[p] = new /\ \A r \in Payments \ {p} : payment'[r] = payment[r]
  BY DEF TypeOK
<1>2. LivePayments(j)' = LivePayments(j) /\ p \notin LivePayments(j)
  BY <1>1 DEF LivePayments
<1>3. QED
  BY <1>1, <1>2 DEF SamePayments, LivePayments

\* A new payment adds its amount.
LEMMA PaymentAdded ==
  ASSUME TypeOK, NEW p \in Payments, NEW new \in PaymentRow, new.state = "live",
         payment' = [payment EXCEPT ![p] = new], NEW i, new.invoice = i,
         p \notin LivePayments(i)
  PROVE  /\ LivePayments(i)' = LivePayments(i) \cup {p}
         /\ SumOf(LivePayments(i), PaymentAmounts)'
              = SumOf(LivePayments(i), PaymentAmounts) + new.amount
<1>1. payment'[p] = new /\ \A r \in Payments \ {p} : payment'[r] = payment[r]
  BY DEF TypeOK
<1>2. LivePayments(i)' = LivePayments(i) \cup {p} /\ LivePayments(i) \subseteq Payments
  BY <1>1 DEF LivePayments
<1>3. /\ \A r \in LivePayments(i) : PaymentAmounts'[r] = PaymentAmounts[r]
      /\ PaymentAmounts'[p] = new.amount /\ new.amount \in Nat
  BY <1>1, <1>2 DEF PaymentAmounts, PaymentRow, Amount
<1>4. /\ IsFiniteSet(LivePayments(i))
      /\ \A r \in LivePayments(i) \cup {p} : PaymentAmounts'[r] \in Nat
  BY <1>3, PaymentsAreNat
<1>5. PICK S, f : S = LivePayments(i) /\ f = PaymentAmounts'
  OBVIOUS
<1>6. SumOf(S \cup {p}, f) = SumOf(S, f) + f[p]
  BY <1>4, <1>5, SumAdd
<1>7. SumOf(S, f) = SumOf(LivePayments(i), PaymentAmounts)
  BY <1>3, <1>5, SumSame
<1>8. QED
  BY <1>2, <1>3, <1>5, <1>6, <1>7

\* A payment that is written over changes the sum by the difference.
LEMMA PaymentChanged ==
  ASSUME TypeOK, NEW p \in Payments, NEW new \in PaymentRow, new.state = "live",
         payment' = [payment EXCEPT ![p] = new], NEW i, new.invoice = i,
         p \in LivePayments(i)
  PROVE  /\ LivePayments(i)' = LivePayments(i)
         /\ SumOf(LivePayments(i), PaymentAmounts)'
              = SumOf(LivePayments(i), PaymentAmounts) - payment[p].amount + new.amount
<1>1. payment'[p] = new /\ \A r \in Payments \ {p} : payment'[r] = payment[r]
  BY DEF TypeOK
<1>2. LivePayments(i)' = LivePayments(i) /\ LivePayments(i) \subseteq Payments
  BY <1>1 DEF LivePayments
<1>3. /\ \A r \in LivePayments(i) \ {p} : PaymentAmounts'[r] = PaymentAmounts[r]
      /\ PaymentAmounts'[p] = new.amount /\ new.amount \in Nat
  BY <1>1, <1>2 DEF PaymentAmounts, PaymentRow, Amount
<1>4. /\ IsFiniteSet(LivePayments(i)) /\ PaymentAmounts[p] = payment[p].amount
      /\ \A r \in LivePayments(i) : PaymentAmounts[r] \in Nat
  BY PaymentsAreNat
<1>5. PICK S, f : S = LivePayments(i) /\ f = PaymentAmounts'
  OBVIOUS
<1>6. \A r \in S : f[r] \in Nat
  BY <1>3, <1>4, <1>5
<1>7. SumOf(S, f) = SumOf(S \ {p}, f) + f[p]
  BY <1>4, <1>5, <1>6, SumRemove
<1>8. SumOf(S, PaymentAmounts) = SumOf(S \ {p}, PaymentAmounts) + PaymentAmounts[p]
  BY <1>4, <1>5, SumRemove
<1>9. SumOf(S \ {p}, f) = SumOf(S \ {p}, PaymentAmounts)
  BY <1>3, <1>5, SumSame
<1>10. IsFiniteSet(S \ {p}) /\ SumOf(S \ {p}, f) \in Nat
  BY <1>4, <1>5, <1>6, FS_RemoveElement, SumIsNat
<1>11. SumOf(S, f) = SumOf(S, PaymentAmounts) - PaymentAmounts[p] + f[p]
  BY <1>3, <1>4, <1>5, <1>7, <1>8, <1>9, <1>10
<1>12. QED
  BY <1>2, <1>3, <1>4, <1>5, <1>11

\* A payment that is removed takes its amount off.
LEMMA PaymentRemoved ==
  ASSUME TypeOK, NEW p \in Payments, NEW new \in PaymentRow, new.state # "live",
         payment' = [payment EXCEPT ![p] = new], NEW i, p \in LivePayments(i)
  PROVE  /\ LivePayments(i)' = LivePayments(i) \ {p}
         /\ SumOf(LivePayments(i), PaymentAmounts)'
              = SumOf(LivePayments(i), PaymentAmounts) - payment[p].amount
<1>1. payment'[p] = new /\ \A r \in Payments \ {p} : payment'[r] = payment[r]
  BY DEF TypeOK
<1>2. LivePayments(i)' = LivePayments(i) \ {p} /\ LivePayments(i) \subseteq Payments
  BY <1>1 DEF LivePayments
<1>3. \A r \in LivePayments(i) \ {p} : PaymentAmounts'[r] = PaymentAmounts[r]
  BY <1>1, <1>2 DEF PaymentAmounts
<1>4. /\ IsFiniteSet(LivePayments(i)) /\ PaymentAmounts[p] = payment[p].amount
      /\ \A r \in LivePayments(i) : PaymentAmounts[r] \in Nat
  BY PaymentsAreNat
<1>5. SumOf(LivePayments(i), PaymentAmounts)
        = SumOf(LivePayments(i) \ {p}, PaymentAmounts) + PaymentAmounts[p]
  BY <1>4, SumRemove
<1>6. /\ IsFiniteSet(LivePayments(i) \ {p})
      /\ SumOf(LivePayments(i) \ {p}, PaymentAmounts) \in Nat
  BY <1>4, FS_RemoveElement, SumIsNat
<1>7. SumOf(LivePayments(i) \ {p}, PaymentAmounts') = SumOf(LivePayments(i) \ {p}, PaymentAmounts)
  BY <1>3, SumSame
<1>8. PaymentAmounts[p] \in Nat
  BY <1>4
<1>9. QED
  BY <1>2, <1>4, <1>5, <1>6, <1>7, <1>8

\* An invoice on which nothing was received has no payment.
LEMMA UnpaidHasNoPayment ==
  ASSUME IInv, NEW i \in Invoices, invoice[i].paid = 0
  PROVE  LivePayments(i) = {}
<1> SUFFICES ASSUME NEW p \in LivePayments(i) PROVE FALSE
  OBVIOUS
<1>1. p \in Payments /\ payment[p].state = "live" /\ payment[p].invoice = i
  BY DEF LivePayments
<1>2. payment[p].amount \in Nat /\ payment[p].amount > 0 /\ payment[p].amount <= invoice[i].paid
  BY <1>1, PaymentIsPaid
<1>3. QED
  BY <1>2

-----------------------------------------------------------------------------
(* Steps that write the row and the payments of one invoice                 *)

\* Whoever has not locked the invoice that is written goes on undisturbed.
LEMMA InvoiceWritten ==
  ASSUME IInv, NEW i \in Invoices, credit' = credit,
         \A j \in Invoices \ {i} : invoice'[j] = invoice[j] /\ SamePayments(j),
         \A r \in Payments : payment[r].state # "none" =>
           payment'[r].state # "none" /\ payment'[r].invoice = payment[r].invoice,
         invoice'[i].status # "NONE", InvoiceOK(i)'
  PROVE  /\ InvoicesOK'
         /\ \A p \in Requests :
              /\ pc'[p] = pc[p] /\ job'[p] = job[p]
              /\ \A row \in Rows : lock'[row] = p <=> lock[row] = p
              /\ lock[i] # p \/ invoice[i].status = "NONE"
              => JobsOK(p)'
<1>1. TypeOK /\ InvoicesOK
  BY InvariantParts
<1>2. \A j \in Invoices : NoNewCredits(j)
  BY SameCredits
<1>3. \A j \in Invoices \ {i} : InvoiceOK(j)'
  BY <1>1, <1>2, InvoiceKept DEF InvoicesOK
<1>4. ASSUME NEW p \in Requests, pc'[p] = pc[p] /\ job'[p] = job[p],
             \A row \in Rows : lock'[row] = p <=> lock[row] = p,
             lock[i] # p \/ invoice[i].status = "NONE"
      PROVE  JobsOK(p)'
  <2>1. Undisturbed(p)
    BY <1>2, <1>4 DEF Undisturbed
  <2>2. QED
    BY <2>1, OthersKeep
<1>5. QED
  BY <1>3, <1>4 DEF InvoicesOK

\* The commit of a handler that has locked the invoice.
LEMMA CommitStep ==
  ASSUME IInv, NEW q \in Requests, NEW i \in Invoices, lock[i] = q, End(q), credit' = credit,
         invoice' \in InvoiceType, payment' \in [Payments -> PaymentRow],
         \A j \in Invoices \ {i} : invoice'[j] = invoice[j] /\ SamePayments(j),
         \A r \in Payments : payment[r].state # "none" =>
           payment'[r].state # "none" /\ payment'[r].invoice = payment[r].invoice,
         invoice'[i].status # "NONE", PaymentsHaveMoney', InvoiceOK(i)'
  PROVE  IInv'
<1>1. TypeOK'
  BY EndType DEF IInv, TypeOK, InvoiceType, PaymentRow
<1>2. TypeOK /\ NoOne \notin Requests
  BY DEF IInv
<1>3. JobsOK(q)'
  BY <1>2, EndType, IdleJob
<1>4. \A p \in Requests \ {q} : JobsOK(p)'
  BY <1>2, EndType, InvoiceWritten
<1>5. InvoicesOK' /\ RequestsOK'
  BY <1>3, <1>4, InvoiceWritten DEF RequestsOK
<1>6. QED
  BY <1>1, <1>5, InvariantPartsAfter

\* A payment that is recorded with a new requestId, or none.
LEMMA PaymentInserted ==
  ASSUME IInv, NEW i \in Invoices, NEW key \in Keys \cup {NoOne}, NEW money \in ReceiptType,
         money.amount > 0, NewPayment(i, key, money),
         key # NoOne => \A p \in LivePayments(i) : payment[p].key # key
  PROVE  /\ payment' \in [Payments -> PaymentRow] /\ PaymentsHaveMoney'
         /\ \A j \in Invoices \ {i} : SamePayments(j)
         /\ \A r \in Payments : payment[r].state # "none" =>
              payment'[r].state # "none" /\ payment'[r].invoice = payment[r].invoice
         /\ SumOf(LivePayments(i), PaymentAmounts)'
              = SumOf(LivePayments(i), PaymentAmounts) + money.amount
         /\ \A p, r \in LivePayments(i)' :
              payment'[p].key # NoOne /\ payment'[p].key = payment'[r].key => p = r
<1> DEFINE row == [state |-> "live", invoice |-> i, key |-> key, amount |-> money.amount,
                   method |-> money.method, account |-> money.account, event |-> "none"]
<1>1. PICK p \in Payments : payment[p].state = "none" /\ payment' = [payment EXCEPT ![p] = row]
  BY DEF NewPayment
<1>2. TypeOK /\ PaymentsHaveMoney /\ InvoicesOK /\ payment \in [Payments -> PaymentRow]
  <2>1. TypeOK /\ PaymentsHaveMoney /\ InvoicesOK
    BY InvariantParts
  <2>2. QED
    BY <2>1 DEF TypeOK, PaymentRow
<1>3. PICK new \in PaymentRow :
        /\ new = row /\ new.state = "live" /\ new.invoice = i /\ new.key = key
        /\ new.amount = money.amount
  <2>1. /\ money.amount \in Amount /\ money.method \in Methods /\ money.account \in Accounts
    BY DEF ReceiptType
  <2>2. row \in PaymentRow
    BY <2>1 DEF PaymentRow
  <2>3. QED
    BY <2>2
<1> HIDE DEF row
<1>4. /\ payment'[p] = new /\ \A r \in Payments \ {p} : payment'[r] = payment[r]
      /\ payment' \in [Payments -> PaymentRow]
  BY <1>1, <1>2, <1>3
<1>0. payment' = [payment EXCEPT ![p] = new]
  BY <1>1, <1>3
<1>5. \A j : p \notin LivePayments(j)
  BY <1>1 DEF LivePayments
<1>6. /\ LivePayments(i)' = LivePayments(i) \cup {p}
      /\ SumOf(LivePayments(i), PaymentAmounts)'
           = SumOf(LivePayments(i), PaymentAmounts) + money.amount
  <2>1. p \notin LivePayments(i)
    BY <1>5
  <2>2. /\ LivePayments(i)' = LivePayments(i) \cup {p}
        /\ SumOf(LivePayments(i), PaymentAmounts)'
             = SumOf(LivePayments(i), PaymentAmounts) + new.amount
    BY <1>0, <1>2, <1>3, <2>1, PaymentAdded
  <2>3. QED
    BY <1>3, <2>2
<1>7. \A j \in Invoices \ {i} : SamePayments(j)
  BY <1>0, <1>2, <1>3, <1>5, OtherInvoices
<1>8. PaymentsHaveMoney'
  BY <1>2, <1>3, <1>4 DEF PaymentsHaveMoney
<1>9. \A r, s \in LivePayments(i)' :
        payment'[r].key # NoOne /\ payment'[r].key = payment'[s].key => r = s
  <2>1. \A r \in LivePayments(i) : payment'[r] = payment[r]
    BY <1>4, <1>5 DEF LivePayments
  <2>2. \A r, s \in LivePayments(i) :
          payment[r].key # NoOne /\ payment[r].key = payment[s].key => r = s
    BY <1>2 DEF InvoicesOK, InvoiceOK
  <2>3. QED
    BY <1>3, <1>4, <1>6, <2>1, <2>2
<1>10. QED
  BY <1>1, <1>4, <1>6, <1>7, <1>8, <1>9

\* Where no payment is written, none is disturbed.
LEMMA PaymentsUntouched ==
  ASSUME IInv, payment' = payment
  PROVE  /\ payment' \in [Payments -> PaymentRow] /\ PaymentsHaveMoney'
         /\ \A i : /\ SamePayments(i) /\ LivePayments(i)' = LivePayments(i)
                   /\ SumOf(LivePayments(i), PaymentAmounts)'
                        = SumOf(LivePayments(i), PaymentAmounts)
<1>1. payment \in [Payments -> PaymentRow]
  BY DEF IInv, TypeOK, PaymentRow
<1>2. \A i : SamePayments(i) /\ LivePayments(i)' = LivePayments(i)
  BY DEF SamePayments, LivePayments
<1>3. TypeOK /\ PaymentsHaveMoney
  BY DEF IInv
<1>4. PaymentsHaveMoney'
  BY <1>3 DEF PaymentsHaveMoney
<1>5. QED
  BY <1>1, <1>2, <1>3, <1>4, SamePaymentsSum

\* The edited invoice takes the money it is saved with and its goods.
LEMMA CommitEditStep ==
  ASSUME IInv, NEW q \in Requests, CommitEditInvoice(q)
  PROVE  IInv'
<1>0. PICK i, draft, money, total :
        i = job[q].invoice /\ draft = job[q].draft /\ money = job[q].money /\ total = job[q].total
  OBVIOUS
<1>1. /\ TypeOK /\ JobsOK(q) /\ job[q] \in JobType
      /\ pc[q] = "checked" /\ job[q].op = "edit" /\ job[q].want = {} /\ End(q)
      /\ invoice' = [invoice EXCEPT ![i].status = job[q].status, ![i].total = total,
                                    ![i].paid = job[q].paid, ![i].out = @ + job[q].moves]
      /\ credit' = credit
      /\ IF money.amount > 0 THEN NewPayment(i, NoOne, money) ELSE UNCHANGED payment
  BY <1>0 DEF CommitEditInvoice, At, IInv, TypeOK, JobsOK
<1>2. i \in Invoices /\ invoice[i].status # "NONE" /\ lock[i] = q
  BY <1>0, <1>1 DEF JobsOK, InvoiceJob, OnInvoice
<1>3. /\ money.amount > 0 => money \in ReceiptType
      /\ ~invoice[i].deleted /\ invoice[i].status # "CANCELLED"
      /\ invoice[i].paid = 0 /\ LiveCredits(i) = {}
      /\ draft => invoice[i].status = "DRAFT" /\ money.amount = 0
      /\ money.amount <= total /\ job[q].paid = money.amount
      /\ job[q].status = SavedStatus(draft, money.amount, total)
      /\ job[q].moves = (IF draft THEN 0 ELSE 1) - (IF invoice[i].status = "DRAFT" THEN 0 ELSE 1)
  BY <1>0, <1>1 DEF JobsOK, EditJob
<1>4. /\ money.amount \in Amount /\ money.amount \in Nat /\ total \in Amount /\ total \in Nat
      /\ draft \in BOOLEAN /\ job[q].moves \in Int /\ job[q].status \in InvoiceStatuses
      /\ invoice[i] \in [status : InvoiceStatuses, total : Amount, paid : Amount,
                         out : Int, deleted : BOOLEAN]
  BY <1>0, <1>1, <1>2 DEF JobType, EditType, Amount, TypeOK
<1>5. /\ invoice'[i] = [invoice[i] EXCEPT !.status = job[q].status, !.total = total,
                                          !.paid = job[q].paid, !.out = @ + job[q].moves]
      /\ \A j \in Invoices \ {i} : invoice'[j] = invoice[j]
  BY <1>1, <1>2 DEF TypeOK
<1>6. /\ invoice'[i].status = job[q].status /\ invoice'[i].total = total
      /\ invoice'[i].paid = money.amount /\ invoice'[i].out = invoice[i].out + job[q].moves
      /\ invoice'[i].deleted = invoice[i].deleted
      /\ invoice'[i] \in [status : InvoiceStatuses, total : Amount, paid : Amount,
                          out : Int, deleted : BOOLEAN]
  <2>1. PICK status \in InvoiceStatuses, paid \in Amount, moves \in Int :
          status = job[q].status /\ paid = job[q].paid /\ moves = job[q].moves
    BY <1>3, <1>4
  <2>2. invoice'[i] = [invoice[i] EXCEPT !.status = status, !.total = total,
                                          !.paid = paid, !.out = @ + moves]
    BY <1>5, <2>1
  <2>3. invoice[i].out + moves \in Int
    BY <1>4
  <2>4. QED
    BY <1>3, <1>4, <2>1, <2>2, <2>3
<1>7. invoice' \in InvoiceType
  BY <1>1, <1>2, <1>5, <1>6 DEF TypeOK, InvoiceType
<1>8. LivePayments(i) = {} /\ SumOf(LivePayments(i), PaymentAmounts) = 0
  BY <1>2, <1>3, UnpaidHasNoPayment, SumEmpty
<1>9. /\ payment' \in [Payments -> PaymentRow] /\ PaymentsHaveMoney'
      /\ \A j \in Invoices \ {i} : SamePayments(j)
      /\ \A r \in Payments : payment[r].state # "none" =>
           payment'[r].state # "none" /\ payment'[r].invoice = payment[r].invoice
      /\ SumOf(LivePayments(i), PaymentAmounts)' = money.amount
      /\ \A p, r \in LivePayments(i)' :
           payment'[p].key # NoOne /\ payment'[p].key = payment'[r].key => p = r
      /\ money.amount = 0 => LivePayments(i)' = {}
  <2>1. CASE money.amount > 0
    <3>1. money \in ReceiptType /\ NoOne \in Keys \cup {NoOne} /\ NewPayment(i, NoOne, money)
      BY <1>1, <1>3, <2>1
    <3>2. /\ payment' \in [Payments -> PaymentRow] /\ PaymentsHaveMoney'
          /\ \A j \in Invoices \ {i} : SamePayments(j)
          /\ \A r \in Payments : payment[r].state # "none" =>
               payment'[r].state # "none" /\ payment'[r].invoice = payment[r].invoice
          /\ SumOf(LivePayments(i), PaymentAmounts)'
               = SumOf(LivePayments(i), PaymentAmounts) + money.amount
          /\ \A p, r \in LivePayments(i)' :
               payment'[p].key # NoOne /\ payment'[p].key = payment'[r].key => p = r
      BY <1>2, <2>1, <3>1, PaymentInserted
    <3>3. QED
      BY <1>4, <1>8, <2>1, <3>2
  <2>2. CASE ~(money.amount > 0)
    <3>1. payment' = payment /\ money.amount = 0
      BY <1>1, <1>4, <2>2
    <3>2. QED
      BY <1>8, <3>1, PaymentsUntouched
  <2>3. QED
    BY <2>1, <2>2
<1>10. /\ Open(i)' <=> ~draft
       /\ invoice'[i].status = "UNPAID" => money.amount = 0
       /\ invoice'[i].status = "PARTIALLY_PAID" => money.amount > 0
       /\ invoice'[i].status # "NONE"
  BY <1>3, <1>4, <1>6 DEF Open, SavedStatus, Issued
<1>11. invoice'[i].out = IF Open(i)' THEN 1 ELSE 0
  <2>1. invoice[i].out = IF Open(i) THEN 1 ELSE 0
    BY <1>2, InvariantParts DEF InvoicesOK, InvoiceOK
  <2>2. Open(i) <=> invoice[i].status # "DRAFT"
    BY <1>2, <1>3, <1>4 DEF Open, InvoiceStatuses, Issued
  <2>3. QED
    BY <1>3, <1>6, <1>10, <2>1, <2>2
<1>12. LiveCredits(i)' = {} /\ Credited(i, {})' = 0
  BY <1>1, <1>3, SameCredits, NoCredits
<1>13. InvoiceOK(i)'
  BY <1>3, <1>4, <1>6, <1>9, <1>10, <1>11, <1>12 DEF InvoiceOK
<1>14. QED
  BY <1>1, <1>2, <1>5, <1>7, <1>9, <1>10, <1>13, CommitStep

\* A reversed invoice has its goods back and nothing on it.
LEMMA CommitReverseStep ==
  ASSUME IInv, NEW q \in Requests, NEW op \in {"cancel", "remove"}, CommitReverse(q, op)
  PROVE  IInv'
<1>0. PICK i : i = job[q].invoice
  OBVIOUS
<1>1. /\ TypeOK /\ JobsOK(q) /\ job[q] \in JobType
      /\ pc[q] = "checked" /\ job[q].op = op /\ job[q].want = {} /\ End(q)
      /\ invoice' = [invoice EXCEPT ![i].status = "CANCELLED", ![i].out = @ + job[q].moves,
                                    ![i].deleted = (op = "remove")]
      /\ credit' = credit /\ payment' = payment
  BY <1>0 DEF CommitReverse, At, IInv, TypeOK, JobsOK
<1>2. i \in Invoices /\ invoice[i].status # "NONE" /\ lock[i] = q
  BY <1>0, <1>1 DEF JobsOK, InvoiceJob, OnInvoice
<1>3. /\ ~invoice[i].deleted /\ invoice[i].paid = 0 /\ LiveCredits(i) = {}
      /\ job[q].moves = IF invoice[i].status \in Issued THEN -1 ELSE 0
  BY <1>0, <1>1 DEF JobsOK, ReverseJob
<1>4. invoice[i] \in [status : InvoiceStatuses, total : Amount, paid : Amount,
                      out : Int, deleted : BOOLEAN]
  BY <1>1, <1>2 DEF TypeOK
<1>5. /\ invoice'[i] = [invoice[i] EXCEPT !.status = "CANCELLED", !.out = @ + job[q].moves,
                                          !.deleted = (op = "remove")]
      /\ \A j \in Invoices \ {i} : invoice'[j] = invoice[j]
  BY <1>1, <1>2 DEF TypeOK
<1>6. /\ invoice'[i].status = "CANCELLED" /\ invoice'[i].total = invoice[i].total
      /\ invoice'[i].paid = 0 /\ invoice'[i].out = invoice[i].out + job[q].moves
      /\ invoice'[i] \in [status : InvoiceStatuses, total : Amount, paid : Amount,
                          out : Int, deleted : BOOLEAN]
      /\ invoice[i].total \in Nat
  <2>1. job[q].moves \in Int /\ "CANCELLED" \in InvoiceStatuses /\ (op = "remove") \in BOOLEAN
    BY <1>3 DEF InvoiceStatuses
  <2>2. invoice[i].total \in Nat
    BY <1>4 DEF Amount
  <2>3. PICK moves \in Int, deleted \in BOOLEAN : moves = job[q].moves /\ deleted = (op = "remove")
    BY <2>1
  <2>4. invoice'[i] = [invoice[i] EXCEPT !.status = "CANCELLED", !.out = @ + moves,
                                          !.deleted = deleted]
    BY <1>5, <2>3
  <2>5. invoice[i].out + moves \in Int
    BY <1>4
  <2>6. QED
    BY <1>3, <1>4, <2>1, <2>2, <2>3, <2>4, <2>5
<1>7. invoice' \in InvoiceType
  BY <1>1, <1>2, <1>5, <1>6 DEF TypeOK, InvoiceType
<1>8. LivePayments(i) = {} /\ SumOf(LivePayments(i), PaymentAmounts) = 0
  BY <1>2, <1>3, UnpaidHasNoPayment, SumEmpty
<1>9. /\ payment' \in [Payments -> PaymentRow] /\ PaymentsHaveMoney'
      /\ \A j : SamePayments(j)
      /\ SumOf(LivePayments(i), PaymentAmounts)' = 0 /\ LivePayments(i)' = {}
  BY <1>1, <1>8, PaymentsUntouched
<1>10. ~Open(i)'
  BY <1>6 DEF Open, Issued
<1>11. invoice'[i].out = 0
  <2>1. invoice[i].out = IF Open(i) THEN 1 ELSE 0
    BY <1>2, InvariantParts DEF InvoicesOK, InvoiceOK
  <2>2. Open(i) <=> invoice[i].status \in Issued
    BY <1>3 DEF Open
  <2>3. QED
    BY <1>3, <1>6, <2>1, <2>2
<1>12. LiveCredits(i)' = {} /\ Credited(i, {})' = 0
  BY <1>1, <1>3, SameCredits, NoCredits
<1>13. InvoiceOK(i)'
  BY <1>6, <1>9, <1>10, <1>11, <1>12 DEF InvoiceOK
<1>14. QED
  BY <1>1, <1>2, <1>5, <1>6, <1>7, <1>9, <1>13, CommitStep

\* What Settle writes.
LEMMA SettleWrites ==
  ASSUME TypeOK, NEW q \in Requests, NEW i \in Invoices, i = job[q].invoice, Settle(q)
  PROVE  /\ invoice' \in InvoiceType
         /\ \A j \in Invoices \ {i} : invoice'[j] = invoice[j]
         /\ invoice'[i].status = job[q].status /\ invoice'[i].paid = job[q].paid
         /\ invoice'[i].total = invoice[i].total /\ invoice'[i].out = invoice[i].out
         /\ invoice'[i].deleted = invoice[i].deleted
<1>1. PICK paid \in Amount, status \in InvoiceStatuses :
        paid = job[q].paid /\ status = job[q].status
  BY DEF TypeOK, JobType
<1>2. invoice \in InvoiceType /\ invoice' = [invoice EXCEPT ![i].paid = paid, ![i].status = status]
  BY <1>1 DEF Settle, TypeOK, InvoiceType
<1>3. /\ invoice[i] \in [status : InvoiceStatuses, total : Amount, paid : Amount,
                         out : Int, deleted : BOOLEAN]
      /\ invoice'[i] = [invoice[i] EXCEPT !.paid = paid, !.status = status]
      /\ \A j \in Invoices \ {i} : invoice'[j] = invoice[j]
  BY <1>2 DEF InvoiceType
<1>4. invoice'[i] \in [status : InvoiceStatuses, total : Amount, paid : Amount,
                       out : Int, deleted : BOOLEAN]
  BY <1>3
<1>5. invoice' \in InvoiceType
  BY <1>2, <1>3, <1>4 DEF InvoiceType
<1>6. QED
  BY <1>1, <1>3, <1>5

\* The payment is inserted and the invoice takes what was computed under its lock.
LEMMA CommitRecordStep ==
  ASSUME IInv, NEW q \in Requests, CommitRecord(q)
  PROVE  IInv'
<1>1. PICK i, key, money :
        i = job[q].invoice /\ key = job[q].key /\ money = job[q].money
  OBVIOUS
<1>2. /\ TypeOK /\ JobsOK(q) /\ job[q] \in JobType
      /\ pc[q] = "checked" /\ job[q].op = "record" /\ job[q].want = {} /\ End(q)
      /\ NewPayment(i, key, money) /\ Settle(q) /\ credit' = credit
  BY <1>1 DEF CommitRecord, At, IInv, TypeOK, JobsOK
<1>3. i \in Invoices /\ invoice[i].status # "NONE" /\ lock[i] = q
  BY <1>1, <1>2 DEF JobsOK, InvoiceJob, OnInvoice
<1>4. /\ money \in ReceiptType /\ Open(i) /\ money.amount > 0
      /\ job[q].paid = invoice[i].paid + money.amount /\ job[q].paid <= NetTotal(i)
      /\ job[q].status \in {"PARTIALLY_PAID", "PAID"}
      /\ key # NoOne => \A p \in LivePayments(i) : payment[p].key # key
  BY <1>1, <1>2 DEF JobsOK, RecordJob
<1>5. key \in Keys \cup {NoOne} /\ money.amount \in Nat
  BY <1>1, <1>2, <1>4 DEF JobType, ReceiptType, Amount
<1>6. /\ invoice' \in InvoiceType
      /\ \A j \in Invoices \ {i} : invoice'[j] = invoice[j]
      /\ invoice'[i].status = job[q].status /\ invoice'[i].paid = job[q].paid
      /\ invoice'[i].total = invoice[i].total /\ invoice'[i].out = invoice[i].out
      /\ invoice'[i].deleted = invoice[i].deleted
  BY <1>1, <1>2, <1>3, SettleWrites
<1>7. /\ payment' \in [Payments -> PaymentRow] /\ PaymentsHaveMoney'
      /\ \A j \in Invoices \ {i} : SamePayments(j)
      /\ \A r \in Payments : payment[r].state # "none" =>
           payment'[r].state # "none" /\ payment'[r].invoice = payment[r].invoice
      /\ SumOf(LivePayments(i), PaymentAmounts)'
           = SumOf(LivePayments(i), PaymentAmounts) + money.amount
      /\ \A p, r \in LivePayments(i)' :
           payment'[p].key # NoOne /\ payment'[p].key = payment'[r].key => p = r
  BY <1>2, <1>3, <1>4, <1>5, PaymentInserted
<1>8. InvoiceOK(i)'
  <2>1. InvoiceOK(i)
    BY <1>3, InvariantParts DEF InvoicesOK
  <2>2. /\ NetTotal(i) \in Int /\ NetTotal(i) <= invoice[i].total
        /\ invoice[i].total \in Nat /\ invoice[i].paid \in Nat
    BY <1>2, <1>3, NetTotalBound
  <2>3. /\ invoice'[i].paid = SumOf(LivePayments(i), PaymentAmounts)'
        /\ invoice'[i].paid <= invoice'[i].total /\ invoice'[i].paid > 0
    <3>1. invoice[i].paid = SumOf(LivePayments(i), PaymentAmounts)
      BY <2>1 DEF InvoiceOK
    <3>2. QED
      BY <1>4, <1>5, <1>6, <1>7, <2>2, <3>1
  <2>4. Credited(i, {})' <= invoice'[i].total
    BY <1>2, <1>6, <2>1, SameCredits DEF InvoiceOK
  <2>5. Open(i)' /\ invoice'[i].out = 1 /\ invoice'[i].status # "UNPAID"
    BY <1>4, <1>6, <2>1 DEF InvoiceOK, Open, Issued
  <2>6. QED
    BY <1>7, <2>3, <2>4, <2>5 DEF InvoiceOK
<1>9. invoice'[i].status # "NONE"
  BY <1>4, <1>6
<1>10. QED
  BY <1>2, <1>3, <1>6, <1>7, <1>8, <1>9, CommitStep

\* A payment that is written over, or removed, with the invoice's paid amount.
LEMMA CommitOnPaymentStep ==
  ASSUME IInv, NEW q \in Requests, CommitUpdatePayment(q) \/ CommitDeletePayment(q)
  PROVE  IInv'
<1>1. PICK i, p : i = job[q].invoice /\ p = job[q].payment
  OBVIOUS
<1>2. /\ TypeOK /\ JobsOK(q) /\ job[q] \in JobType /\ PaymentsHaveMoney
      /\ pc[q] = "checked" /\ job[q].op \in {"update", "delete"} /\ job[q].want = {} /\ End(q)
      /\ Settle(q) /\ credit' = credit /\ payment[p].state = "live"
  BY <1>1 DEF CommitUpdatePayment, CommitDeletePayment, At, IInv, TypeOK, JobsOK
<1>3. /\ i \in Invoices /\ lock[i] = q /\ p \in Payments /\ payment[p].invoice = i
  BY <1>1, <1>2 DEF JobsOK, InvoiceJob, PaymentJob, OnInvoice
<1>4. /\ payment[p].amount \in Nat /\ payment[p].amount > 0 /\ p \in LivePayments(i)
      /\ payment[p].amount <= invoice[i].paid /\ Open(i)
  BY <1>2, <1>3, PaymentIsPaid
<1>5. /\ invoice' \in InvoiceType
      /\ \A j \in Invoices \ {i} : invoice'[j] = invoice[j]
      /\ invoice'[i].status = job[q].status /\ invoice'[i].paid = job[q].paid
      /\ invoice'[i].total = invoice[i].total /\ invoice'[i].out = invoice[i].out
      /\ invoice'[i].deleted = invoice[i].deleted
  BY <1>1, <1>2, <1>3, SettleWrites
<1>6. /\ NetTotal(i) \in Int /\ NetTotal(i) <= invoice[i].total
      /\ invoice[i].total \in Nat /\ invoice[i].paid \in Nat /\ job[q].paid \in Nat
  <2>1. job[q].paid \in Nat
    BY <1>2 DEF JobType, Amount
  <2>2. QED
    BY <1>2, <1>3, <2>1, NetTotalBound
<1>7. InvoiceOK(i)
  BY <1>3, InvariantParts DEF InvoicesOK
<1>8. /\ payment \in [Payments -> PaymentRow] /\ payment[p] \in PaymentRow
      /\ \A j \in Invoices \ {i} : p \notin LivePayments(j)
  BY <1>2, <1>3 DEF TypeOK, PaymentRow, LivePayments
<1>9. ASSUME NEW new \in PaymentRow, payment' = [payment EXCEPT ![p] = new],
             new.invoice = i, new.key = payment[p].key, new.amount > 0,
             \/ /\ new.state = "live" /\ job[q].paid <= NetTotal(i)
                /\ job[q].paid = invoice[i].paid - payment[p].amount + new.amount
                /\ job[q].status \in {"PARTIALLY_PAID", "PAID"}
             \/ /\ new.state = "removed" /\ job[q].paid = invoice[i].paid - payment[p].amount
                /\ job[q].status \in Issued
                /\ job[q].status = "UNPAID" => job[q].paid = 0
                /\ job[q].status = "PARTIALLY_PAID" => job[q].paid > 0
      PROVE  IInv'
  <2>1. /\ payment' \in [Payments -> PaymentRow] /\ payment'[p] = new
        /\ \A r \in Payments \ {p} : payment'[r] = payment[r]
    BY <1>3, <1>8, <1>9
  <2>2. /\ PaymentsHaveMoney' /\ new.state # "none"
        /\ \A r \in Payments : payment[r].state # "none" =>
             payment'[r].state # "none" /\ payment'[r].invoice = payment[r].invoice
    BY <1>2, <1>3, <1>9, <2>1 DEF PaymentsHaveMoney
  <2>3. \A j \in Invoices \ {i} : SamePayments(j)
    BY <1>2, <1>3, <1>8, <1>9, OtherInvoices
  <2>4. /\ LivePayments(i)' \subseteq LivePayments(i)
        /\ invoice'[i].paid = SumOf(LivePayments(i), PaymentAmounts)'
    <3>1. invoice[i].paid = SumOf(LivePayments(i), PaymentAmounts)
      BY <1>7 DEF InvoiceOK
    <3>2. CASE new.state = "live"
      <4>1. /\ LivePayments(i)' = LivePayments(i)
            /\ SumOf(LivePayments(i), PaymentAmounts)'
                 = SumOf(LivePayments(i), PaymentAmounts) - payment[p].amount + new.amount
        BY <1>2, <1>3, <1>4, <1>9, <3>2, PaymentChanged
      <4>2. QED
        BY <1>5, <1>9, <3>1, <3>2, <4>1
    <3>3. CASE new.state # "live"
      <4>1. /\ LivePayments(i)' = LivePayments(i) \ {p}
            /\ SumOf(LivePayments(i), PaymentAmounts)'
                 = SumOf(LivePayments(i), PaymentAmounts) - payment[p].amount
        BY <1>2, <1>3, <1>4, <1>9, <3>3, PaymentRemoved
      <4>2. QED
        BY <1>5, <1>9, <3>1, <3>3, <4>1
    <3>4. QED
      BY <3>2, <3>3
  <2>5. \A r, s \in LivePayments(i)' :
          payment'[r].key # NoOne /\ payment'[r].key = payment'[s].key => r = s
    <3>1. \A r \in Payments : payment'[r].key = payment[r].key
      BY <1>9, <2>1
    <3>2. \A r, s \in LivePayments(i) :
            payment[r].key # NoOne /\ payment[r].key = payment[s].key => r = s
      BY <1>7 DEF InvoiceOK
    <3>3. QED
      BY <2>4, <3>1, <3>2 DEF LivePayments
  <2>6. /\ invoice'[i].paid <= invoice'[i].total
        /\ invoice'[i].status = "UNPAID" => invoice'[i].paid = 0
        /\ invoice'[i].status = "PARTIALLY_PAID" => invoice'[i].paid > 0
        /\ invoice'[i].status \in Issued
    <3>1. invoice[i].paid <= invoice[i].total
      BY <1>7 DEF InvoiceOK
    <3>2. new.amount \in Nat
      BY DEF PaymentRow, Amount
    <3>3. CASE new.state = "live"
      BY <1>4, <1>5, <1>6, <1>9, <3>2, <3>3 DEF Issued
    <3>4. CASE new.state # "live"
      BY <1>4, <1>5, <1>6, <1>9, <3>1, <3>4
    <3>5. QED
      BY <3>3, <3>4
  <2>7. Open(i)' /\ invoice'[i].out = 1 /\ invoice'[i].status # "NONE"
    BY <1>4, <1>5, <1>7, <2>6 DEF InvoiceOK, Open, Issued
  <2>8. Credited(i, {})' <= invoice'[i].total
    BY <1>2, <1>5, <1>7, SameCredits DEF InvoiceOK
  <2>9. InvoiceOK(i)'
    BY <2>4, <2>5, <2>6, <2>7, <2>8 DEF InvoiceOK
  <2>10. QED
    BY <1>2, <1>3, <1>5, <2>1, <2>2, <2>3, <2>7, <2>9, CommitStep
<1>10. CASE CommitUpdatePayment(q)
  <2>1. PICK amount \in Amount, method \in Methods, account \in Accounts :
          /\ amount = job[q].money.amount /\ method = EditedMethod(p, job[q].money)
          /\ account = EditedAccount(p, job[q].money)
    <3>1. job[q].money \in EditType /\ payment[p].method \in Methods /\ payment[p].account \in Accounts
      BY <1>2, <1>8 DEF JobType, PaymentRow
    <3>2. QED
      BY <3>1 DEF EditType, EditedMethod, EditedAccount
  <2>2. PICK new \in PaymentRow :
          new = [payment[p] EXCEPT !.amount = amount, !.method = method, !.account = account]
    BY <1>8 DEF PaymentRow
  <2>3. /\ new.state = "live" /\ new.invoice = i /\ new.key = payment[p].key
        /\ new.amount = amount
    BY <1>2, <1>3, <1>8, <2>2 DEF PaymentRow
  <2>4. payment' = [payment EXCEPT ![p] = new]
    BY <1>1, <1>3, <1>8, <1>10, <2>1, <2>2 DEF CommitUpdatePayment
  <2>5. /\ amount > 0 /\ job[q].paid <= NetTotal(i)
        /\ job[q].paid = invoice[i].paid - payment[p].amount + amount
        /\ job[q].status \in {"PARTIALLY_PAID", "PAID"}
    BY <1>1, <1>2, <1>10, <2>1 DEF JobsOK, PaymentJob, CommitUpdatePayment, At
  <2>6. QED
    BY <1>9, <2>3, <2>4, <2>5
<1>11. CASE CommitDeletePayment(q)
  <2>1. PICK new \in PaymentRow : new = [payment[p] EXCEPT !.state = "removed"]
    BY <1>8 DEF PaymentRow
  <2>2. /\ new.state = "removed" /\ new.invoice = i /\ new.key = payment[p].key
        /\ new.amount = payment[p].amount
    BY <1>3, <1>8, <2>1 DEF PaymentRow
  <2>3. payment' = [payment EXCEPT ![p] = new]
    BY <1>1, <1>3, <1>8, <1>11, <2>1 DEF CommitDeletePayment
  <2>4. /\ job[q].paid = invoice[i].paid - payment[p].amount
        /\ job[q].status \in Issued
        /\ job[q].status = "UNPAID" => job[q].paid = 0
        /\ job[q].status = "PARTIALLY_PAID" => job[q].paid > 0
    BY <1>1, <1>2, <1>11 DEF JobsOK, PaymentJob, CommitDeletePayment, At
  <2>5. QED
    BY <1>4, <1>9, <2>2, <2>3, <2>4
<1>12. QED
  BY <1>10, <1>11

-----------------------------------------------------------------------------
(* Steps that lock no invoice                                               *)

\* A cheque's event and account are nobody's balance.
LEMMA CommitChequeStep ==
  ASSUME IInv, NEW q \in Requests, NEW action \in {"deposit", "reopen"}, CommitCheque(q, action)
  PROVE  IInv'
<1>1. /\ TypeOK /\ JobsOK(q) /\ PaymentsHaveMoney /\ InvoicesOK
      /\ job[q].op = action /\ End(q) /\ UNCHANGED <<invoice, credit>>
  BY InvariantParts DEF CommitCheque, At, RequestsOK
<1>2. PICK p \in Payments, account \in Accounts :
        p = job[q].payment /\ account = job[q].money.account
  BY <1>1 DEF JobsOK, ChequeJob
<1>3. /\ payment' = [payment EXCEPT ![p].event = action, ![p].account = account]
      /\ payment \in [Payments -> PaymentRow]
  BY <1>1, <1>2 DEF CommitCheque, TypeOK, PaymentRow
<1>4. /\ payment[p] \in PaymentRow
      /\ payment'[p] = [payment[p] EXCEPT !.event = action, !.account = account]
      /\ \A r \in Payments \ {p} : payment'[r] = payment[r]
  BY <1>3
<1>5. payment'[p] \in PaymentRow
  BY <1>4 DEF PaymentRow
<1>6. \A r \in Payments :
        /\ payment'[r].state = payment[r].state /\ payment'[r].invoice = payment[r].invoice
        /\ payment'[r].amount = payment[r].amount /\ payment'[r].key = payment[r].key
  BY <1>4 DEF PaymentRow
<1>7. payment' \in [Payments -> PaymentRow] /\ PaymentsHaveMoney'
  BY <1>1, <1>3, <1>4, <1>5, <1>6 DEF PaymentsHaveMoney
<1>8. \A i : SamePayments(i) /\ NoNewCredits(i)
  BY <1>1, <1>6, SameCredits DEF SamePayments, LivePayments
<1>9. \A i \in Invoices : InvoiceOK(i)'
  BY <1>1, <1>8, InvoiceKept DEF InvoicesOK
<1>10. \A r \in Requests \ {q} : JobsOK(r)'
  <2> SUFFICES ASSUME NEW r \in Requests \ {q} PROVE JobsOK(r)'
    OBVIOUS
  <2>1. Undisturbed(r)
    BY <1>1, <1>6, <1>8, EndType DEF Undisturbed
  <2>2. QED
    BY <2>1, OthersKeep
<1>11. JobsOK(q)'
  BY <1>1, EndType, IdleJob
<1>12. TypeOK'
  BY <1>1, <1>7, EndType DEF TypeOK, PaymentRow
<1>13. QED
  BY <1>7, <1>9, <1>10, <1>11, <1>12, InvariantPartsAfter DEF InvoicesOK, RequestsOK

\* Nobody can have read an invoice that was not there.
LEMMA CreateInvoiceStep ==
  ASSUME IInv, NEW i \in Invoices, NEW draft \in BOOLEAN, NEW total \in Amount,
         NEW key \in Keys \cup {NoOne}, NEW money \in Receipts \cup {NoMoney},
         CreateInvoice(i, draft, total, key, money)
  PROVE  IInv'
<1>1. /\ TypeOK /\ PaymentsHaveMoney /\ InvoicesOK /\ RequestsOK
      /\ invoice[i].status = "NONE" /\ UNCHANGED <<lock, pc, job, credit>>
      /\ money.amount <= total /\ (draft => money.amount = 0)
      /\ IF money.amount > 0 THEN NewPayment(i, key, money) ELSE UNCHANGED payment
  BY InvariantParts DEF CreateInvoice
<1>2. /\ ~Open(i) /\ LivePayments(i) = {} /\ LiveCredits(i) = {}
      /\ SumOf(LivePayments(i), PaymentAmounts) = 0
  <2>1. ~Open(i)
    BY <1>1 DEF Open, Issued
  <2>2. LivePayments(i) = {} /\ LiveCredits(i) = {}
    BY <1>1, <2>1 DEF InvoicesOK, InvoiceOK
  <2>3. QED
    BY <2>1, <2>2, SumEmpty
<1>3. /\ money.amount > 0 => money \in ReceiptType
      /\ money.amount \in Amount /\ money.amount \in Nat /\ total \in Nat
  BY DEF NoMoney, ReceiptType, Amount
<1>4. PICK status \in InvoiceStatuses, out \in {0, 1} :
        /\ status = SavedStatus(draft, money.amount, total)
        /\ out = IF draft THEN 0 ELSE 1
  BY DEF SavedStatus, InvoiceStatuses, Issued
<1>5. invoice' = [invoice EXCEPT ![i] =
        [status |-> status, total |-> total, paid |-> money.amount, out |-> out,
         deleted |-> FALSE]]
  BY <1>4 DEF CreateInvoice
<1>6. /\ invoice'[i].status = status /\ invoice'[i].total = total
      /\ invoice'[i].paid = money.amount /\ invoice'[i].out = out /\ ~invoice'[i].deleted
      /\ \A j \in Invoices \ {i} : invoice'[j] = invoice[j]
      /\ invoice' \in InvoiceType
  <2>1. [status |-> status, total |-> total, paid |-> money.amount, out |-> out, deleted |-> FALSE]
          \in [status : InvoiceStatuses, total : Amount, paid : Amount, out : Int,
               deleted : BOOLEAN]
    BY <1>3
  <2>2. invoice \in InvoiceType
    BY <1>1 DEF TypeOK, InvoiceType
  <2>3. QED
    BY <1>5, <2>1, <2>2 DEF InvoiceType
<1>7. /\ payment' \in [Payments -> PaymentRow] /\ PaymentsHaveMoney'
      /\ \A j \in Invoices \ {i} : SamePayments(j)
      /\ \A r \in Payments : payment[r].state # "none" =>
           payment'[r].state # "none" /\ payment'[r].invoice = payment[r].invoice
      /\ SumOf(LivePayments(i), PaymentAmounts)' = money.amount
      /\ \A p, r \in LivePayments(i)' :
           payment'[p].key # NoOne /\ payment'[p].key = payment'[r].key => p = r
      /\ money.amount = 0 => LivePayments(i)' = {}
  <2>1. CASE money.amount > 0
    <3>1. money \in ReceiptType /\ NewPayment(i, key, money)
      BY <1>1, <1>3, <2>1
    <3>2. /\ payment' \in [Payments -> PaymentRow] /\ PaymentsHaveMoney'
          /\ \A j \in Invoices \ {i} : SamePayments(j)
          /\ \A r \in Payments : payment[r].state # "none" =>
               payment'[r].state # "none" /\ payment'[r].invoice = payment[r].invoice
          /\ SumOf(LivePayments(i), PaymentAmounts)'
               = SumOf(LivePayments(i), PaymentAmounts) + money.amount
          /\ \A p, r \in LivePayments(i)' :
               payment'[p].key # NoOne /\ payment'[p].key = payment'[r].key => p = r
      BY <1>2, <2>1, <3>1, PaymentInserted
    <3>3. QED
      BY <1>2, <1>3, <2>1, <3>2
  <2>2. CASE ~(money.amount > 0)
    <3>1. payment' = payment /\ money.amount = 0
      BY <1>1, <1>3, <2>2
    <3>2. QED
      BY <1>2, <3>1, PaymentsUntouched
  <2>3. QED
    BY <2>1, <2>2
<1>8. InvoiceOK(i)'
  <2>1. LiveCredits(i)' = {} /\ Credited(i, {})' = 0
    BY <1>1, <1>2, SameCredits, NoCredits
  <2>2. /\ Open(i)' <=> ~draft
        /\ status = "UNPAID" => money.amount = 0
        /\ status = "PARTIALLY_PAID" => money.amount > 0
    BY <1>3, <1>4, <1>6 DEF Open, SavedStatus, Issued
  <2>3. QED
    BY <1>1, <1>3, <1>4, <1>6, <1>7, <2>1, <2>2 DEF InvoiceOK
<1>9. status # "NONE"
  BY <1>4 DEF SavedStatus
<1>10. InvoicesOK' /\ \A p \in Requests : JobsOK(p)'
  <2>1. pc' = pc /\ job' = job /\ lock' = lock /\ credit' = credit
    BY <1>1
  <2>2. QED
    BY <1>1, <1>6, <1>7, <1>8, <1>9, <2>1, InvoiceWritten
<1>11. TypeOK'
  BY <1>1, <1>6, <1>7 DEF TypeOK, InvoiceType, PaymentRow
<1>12. QED
  BY <1>7, <1>10, <1>11, InvariantPartsAfter DEF RequestsOK

\* One credit note is written: posted on an open invoice that nobody has locked and
\* that can bear it, or cancelled.
LEMMA OneNoteWritten ==
  ASSUME IInv, NEW n \in Notes, UNCHANGED <<lock, pc, job, invoice, payment>>,
         NEW new \in [state : {"none", "live", "closed"}, invoice : Invoices \cup {NoOne},
                      total : Amount],
         credit' = [credit EXCEPT ![n] = new],
         \/ new.state = "closed"
         \/ /\ new.state = "live" /\ new.invoice \in Invoices /\ lock[new.invoice] = NoOne
            /\ Open(new.invoice)
            /\ Credited(new.invoice, {n}) + new.total <= invoice[new.invoice].total
  PROVE  IInv'
<1> DEFINE Posts(i) == new.state = "live" /\ new.invoice = i
<1>1. /\ TypeOK /\ PaymentsHaveMoney /\ InvoicesOK /\ RequestsOK
      /\ credit'[n] = new /\ \A m \in Notes \ {n} : credit'[m] = credit[m]
      /\ credit' \in [Notes -> [state : {"none", "live", "closed"},
                                invoice : Invoices \cup {NoOne}, total : Amount]]
  <2>1. TypeOK /\ PaymentsHaveMoney /\ InvoicesOK /\ RequestsOK
    BY InvariantParts
  <2>2. QED
    BY <2>1 DEF TypeOK
<1>2. \A i : /\ ~Posts(i) => LiveCredits(i)' = LiveCredits(i) \ {n}
             /\ Posts(i) => LiveCredits(i)' = (LiveCredits(i) \ {n}) \cup {n}
             /\ \A m \in LiveCredits(i) \ {n} : CreditTotals'[m] = CreditTotals[m]
  BY <1>1 DEF LiveCredits, CreditTotals
<1>3. \A i : ~Posts(i) => NoNewCredits(i)
  BY <1>2 DEF NoNewCredits
<1>4. payment' = payment /\ \A i : SamePayments(i)
  BY PaymentsUntouched
<1>5. ASSUME NEW i \in Invoices PROVE InvoiceOK(i)'
  <2>1. CASE ~Posts(i)
    BY <1>1, <1>3, <1>4, <2>1, InvoiceKept DEF InvoicesOK
  <2>2. CASE Posts(i)
    <3> DEFINE S == LiveCredits(i) \ {n}
               f == CreditTotals'
    <3>1. IsFiniteSet(S) /\ \A m \in S : CreditTotals[m] \in Nat
      BY <1>1, CreditsAreNat
    <3>2. /\ f[n] = new.total /\ new.total \in Nat
          /\ \A m \in S : f[m] = CreditTotals[m]
      BY <1>1, <1>2 DEF CreditTotals, Amount
    <3>3. SumOf(S, f) = SumOf(S, CreditTotals)
      BY <3>2, SumSame
    <3>4. SumOf(S \cup {n}, f) = SumOf(S, f) + f[n]
      <4>1. PICK T, g : T = S /\ g = f
        OBVIOUS
      <4>2. IsFiniteSet(T) /\ n \notin T /\ \A m \in T \cup {n} : g[m] \in Nat
        BY <3>1, <3>2, <4>1
      <4>3. SumOf(T \cup {n}, g) = SumOf(T, g) + g[n]
        BY <4>2, SumAdd
      <4>4. QED
        BY <4>1, <4>3
    <3>5. Credited(i, {})' = SumOf(S \cup {n}, f)
      <4>1. LiveCredits(i)' \ {} = S \cup {n}
        BY <1>2, <2>2
      <4>2. QED
        BY <4>1 DEF Credited
    <3>6. Credited(i, {n}) = SumOf(S, CreditTotals)
      BY DEF Credited
    <3>7. Credited(i, {n}) + new.total <= invoice[i].total /\ Open(i)
      BY <2>2
    <3>8. Credited(i, {})' <= invoice'[i].total
      BY <3>2, <3>3, <3>4, <3>5, <3>6, <3>7
    <3>9. InvoiceOK(i) /\ invoice' = invoice
      BY <1>1 DEF InvoicesOK
    <3>10. SumOf(LivePayments(i), PaymentAmounts)' = SumOf(LivePayments(i), PaymentAmounts)
           /\ LivePayments(i)' = LivePayments(i)
      BY <1>4, PaymentsUntouched
    <3>11. /\ invoice'[i].paid = SumOf(LivePayments(i), PaymentAmounts)'
           /\ \A p, r \in LivePayments(i)' :
                payment'[p].key # NoOne /\ payment'[p].key = payment'[r].key => p = r
      BY <1>4, <3>9, <3>10 DEF InvoiceOK
    <3>12. Open(i)'
      BY <3>7, <3>9 DEF Open
    <3>13. /\ invoice'[i].paid <= invoice'[i].total
           /\ invoice'[i].status = "UNPAID" => invoice'[i].paid = 0
           /\ invoice'[i].status = "PARTIALLY_PAID" => invoice'[i].paid > 0
           /\ invoice'[i].out = 1
      BY <3>7, <3>9 DEF InvoiceOK
    <3>14. QED
      BY <3>8, <3>11, <3>12, <3>13 DEF InvoiceOK
  <2>3. QED
    BY <2>1, <2>2
<1>6. ASSUME NEW p \in Requests PROVE JobsOK(p)'
  <2>1. \A i \in Invoices : lock[i] = p => NoNewCredits(i)
    BY <1>3
  <2>2. Undisturbed(p)
    BY <1>4, <2>1 DEF Undisturbed
  <2>3. QED
    BY <2>2, OthersKeep
<1>7. TypeOK' /\ PaymentsHaveMoney'
  BY <1>1 DEF TypeOK, PaymentsHaveMoney
<1>8. QED
  BY <1>5, <1>6, <1>7, InvariantPartsAfter DEF InvoicesOK, RequestsOK

\* A note is posted under the invoice's lock and cancelled without it.
LEMMA CreditNoteStep ==
  ASSUME IInv, NEW n \in Notes,
         \/ \E i \in Invoices, total \in Amount : PostCredit(n, i, total)
         \/ CancelCredit(n)
  PROVE  IInv'
<1>1. credit[n] \in [state : {"none", "live", "closed"}, invoice : Invoices \cup {NoOne},
                     total : Amount]
  BY DEF IInv, TypeOK
<1>2. ASSUME NEW i \in Invoices, NEW total \in Amount, PostCredit(n, i, total)
      PROVE  IInv'
  <2>1. PICK new \in [state : {"none", "live", "closed"}, invoice : Invoices \cup {NoOne},
                      total : Amount] :
          new = [state |-> "live", invoice |-> i, total |-> total]
    OBVIOUS
  <2>2. /\ new.state = "live" /\ new.invoice = i /\ new.total = total
        /\ credit' = [credit EXCEPT ![n] = new]
        /\ UNCHANGED <<lock, pc, job, invoice, payment>>
        /\ lock[i] = NoOne /\ Open(i) /\ Credited(i, {n}) + total <= invoice[i].total
    BY <1>2, <2>1 DEF PostCredit, ValidReturn, CanLock
  <2>3. QED
    BY <2>2, OneNoteWritten
<1>3. CASE CancelCredit(n)
  <2>1. PICK new \in [state : {"none", "live", "closed"}, invoice : Invoices \cup {NoOne},
                      total : Amount] : new = [credit[n] EXCEPT !.state = "closed"]
    BY <1>1
  <2>2. new.state = "closed" /\ credit' = [credit EXCEPT ![n] = new]
        /\ UNCHANGED <<lock, pc, job, invoice, payment>>
    BY <1>1, <1>3, <2>1 DEF CancelCredit, IInv, TypeOK
  <2>3. QED
    BY <2>2, OneNoteWritten
<1>4. QED
  BY <1>2, <1>3

-----------------------------------------------------------------------------
(* The invariant                                                            *)

LEMMA InitInvariant == Init => IInv
<1> SUFFICES ASSUME Init PROVE IInv
  OBVIOUS
<1>1. TypeOK
  BY NoJobType DEF Init, TypeOK, InvoiceStatuses, Amount, Methods, Accounts
<1>2. PaymentsHaveMoney
  BY DEF Init, PaymentsHaveMoney
<1>3. ASSUME NEW i \in Invoices PROVE InvoiceOK(i)
  <2>1. LivePayments(i) = {} /\ LiveCredits(i) = {}
    BY DEF Init, LivePayments, LiveCredits
  <2>2. SumOf(LivePayments(i), PaymentAmounts) = 0 /\ Credited(i, {}) = 0
    BY <2>1, SumEmpty, NoCredits
  <2>3. /\ invoice[i].status = "NONE" /\ invoice[i].total = 0 /\ invoice[i].paid = 0
        /\ invoice[i].out = 0
    BY DEF Init
  <2>4. QED
    BY <2>1, <2>2, <2>3 DEF InvoiceOK, Open, Issued
<1>4. \A q \in Requests : JobsOK(q)
  BY DEF Init, JobsOK, NoMoreLocks, InvoiceJob, EditJob, ReverseJob, RecordJob, PaymentJob,
     ChequeJob, NoJob, OnInvoice
<1>5. QED
  BY <1>1, <1>2, <1>3, <1>4, InvariantParts DEF InvoicesOK, RequestsOK

\* Every step of every handler, in any interleaving, keeps the invariant.
LEMMA NextInvariant == IInv /\ [Next]_vars => IInv'
<1> SUFFICES ASSUME IInv, [Next]_vars PROVE IInv'
  OBVIOUS
<1>1. CASE UNCHANGED vars
  <2>1. TypeOK' /\ PaymentsHaveMoney'
    BY <1>1 DEF vars, IInv, TypeOK, PaymentsHaveMoney
  <2>2. \A i : SamePayments(i) /\ NoNewCredits(i)
    BY <1>1, SameRows DEF vars
  <2>3. InvoicesOK'
    <3>1. TypeOK /\ InvoicesOK /\ invoice' = invoice
      BY <1>1, InvariantParts DEF vars
    <3>2. QED
      BY <2>2, <3>1, InvoiceKept DEF InvoicesOK
  <2>4. \A p \in Requests : Undisturbed(p)
    BY <1>1, <2>2 DEF vars, Undisturbed
  <2>5. QED
    BY <2>1, <2>3, <2>4, OthersKeep, InvariantPartsAfter DEF RequestsOK
<1>2. CASE \E i \in Invoices, draft \in BOOLEAN, total \in Amount, key \in Keys \cup {NoOne},
              money \in Receipts \cup {NoMoney} : CreateInvoice(i, draft, total, key, money)
  BY <1>2, CreateInvoiceStep
<1>3. CASE \/ \E n \in Notes, i \in Invoices, total \in Amount : PostCredit(n, i, total)
           \/ \E n \in Notes : CancelCredit(n)
  BY <1>3, CreditNoteStep
<1>4. ASSUME NEW q \in Requests, Acquire(q) \/ Rollback(q) PROVE IInv'
  BY <1>4, AcquireStep, RollbackStep
<1>5. ASSUME NEW q \in Requests, InvoiceStep(q) PROVE IInv'
  BY <1>5, BeginOnInvoiceStep, CheckEditStep, CommitEditStep, CheckReverseStep,
     CommitReverseStep DEF InvoiceStep
<1>6. ASSUME NEW q \in Requests, PaymentStep(q) PROVE IInv'
  BY <1>6, BeginOnInvoiceStep, CheckRecordStep, CommitRecordStep, BeginWithPaymentStep,
     CheckUpdateStep, CheckDeleteStep, CommitOnPaymentStep DEF PaymentStep
<1>7. ASSUME NEW q \in Requests, ChequeStep(q) PROVE IInv'
  BY <1>7, BeginWithPaymentStep, CheckChequeStep, CommitChequeStep DEF ChequeStep
<1>8. QED
  BY <1>1, <1>2, <1>3, <1>4, <1>5, <1>6, <1>7 DEF Next

\* What a request in mid-transaction relies on holds in every reachable state.
THEOREM Invariance == Spec => []IInv
BY InitInvariant, NextInvariant, PTL DEF Spec

\* Every variable keeps its type: what was computed in one step and stored in
\* another stays within a money column.
THEOREM TypeCorrect == Spec => []TypeOK
<1>1. IInv => TypeOK
  BY DEF IInv
<1>2. QED
  BY <1>1, Invariance, PTL

\* amountPaid is the sum of the payments, the status follows it and a requestId
\* records one payment, whatever handlers of an invoice run at the same time.
THEOREM ReceivedMoneyAddsUp == Spec => []PaymentsAddUp
<1>1. IInv => PaymentsAddUp
  BY DEF IInv, PaymentsAddUp
<1>2. QED
  BY <1>1, Invariance, PTL

\* Goods are out once, and money and returns are on an invoice, only while it stands.
THEOREM InvoicesAreWhole == Spec => []InvoicesStayWhole
<1>1. IInv => InvoicesStayWhole
  BY DEF IInv, InvoicesStayWhole
<1>2. QED
  BY <1>1, Invariance, PTL

\* Neither the money received nor the credit notes exceed an invoice.
THEOREM InvoicesAreNotOverdrawn == Spec => []MoneyWithinTotal
<1>1. IInv => MoneyWithinTotal
  BY DEF IInv
<1>2. QED
  BY <1>1, Invariance, PTL

-----------------------------------------------------------------------------
(* The statements drawn from the rows                                       *)

\* The payments of some invoices sum to what these invoices say was received.
LEMMA ReceivedByInvoice ==
  ASSUME IInv, NEW S \in SUBSET Invoices
  PROVE  SumOf(PaymentsOf(S), PaymentAmounts) = SumOf(S, PaidAmounts)
<1>0. PICK rows : rows = [i \in Invoices |-> LivePayments(i)]
  OBVIOUS
<1>1. TypeOK /\ InvoicesOK
  BY InvariantParts
<1>2. IsFiniteSet(S) /\ \A i \in S : rows[i] = LivePayments(i)
  BY <1>0, FS_Subset
<1>3. \A i \in S : IsFiniteSet(rows[i]) /\ PaidAmounts[i] = SumOf(rows[i], PaymentAmounts)
  BY <1>1, <1>2, PaymentsAreNat DEF InvoicesOK, InvoiceOK, PaidAmounts
<1>4. \A i \in S : \A p \in rows[i] : PaymentAmounts[p] \in Nat
  BY <1>1, <1>2, PaymentsAreNat
<1>5. \A i, j \in S : i # j => rows[i] \cap rows[j] = {}
  BY <1>2 DEF LivePayments
<1>6. \A p : p \in PaymentsOf(S) <=> \E i \in S : p \in rows[i]
  BY <1>2 DEF PaymentsOf
<1>7. QED
  <2>1. PICK f, h, all : f = PaymentAmounts /\ h = PaidAmounts /\ all = PaymentsOf(S)
    OBVIOUS
  <2>2. \A i \in S : IsFiniteSet(rows[i]) /\ h[i] = SumOf(rows[i], f)
    BY <1>3, <2>1
  <2>3. \A i \in S : \A p \in rows[i] : f[p] \in Nat
    BY <1>4, <2>1
  <2>4. \A p : p \in all <=> \E i \in S : p \in rows[i]
    BY <1>6, <2>1
  <2>5. SumOf(all, f) = SumOf(S, h)
    BY <1>2, <1>5, <2>2, <2>3, <2>4, SumOfSums, SMTT(60)
  <2>6. QED
    BY <2>1, <2>5

\* What the list, the ledger, the printed balance, the report and the group summary
\* say of a customer is the same at every instant between two steps.
THEOREM StatementsAreOne == Spec => []StatementsAgree
<1>1. ASSUME IInv PROVE StatementsAgree
  <2> DEFINE reported == {i \in Invoices : invoice[i].status \notin {"NONE", "DRAFT"}
                                           /\ ~invoice[i].deleted}
  <2>1. TypeOK /\ InvoicesOK
    BY <1>1, InvariantParts
  <2>2. LiveInvoices \in SUBSET Invoices /\ reported \in SUBSET Invoices /\ LiveNotes \in SUBSET Notes
    BY DEF LiveInvoices, LiveNotes
  <2>3. SumOf(LiveInvoices, Totals) \in Nat /\ SumOf(LiveInvoices, PaidAmounts) \in Nat
    <3>1. \A i \in LiveInvoices : Totals[i] \in Nat /\ PaidAmounts[i] \in Nat
      BY <2>1, <2>2 DEF TypeOK, Totals, PaidAmounts, Amount
    <3>2. IsFiniteSet(LiveInvoices)
      BY <2>2, FS_Subset
    <3>3. QED
      BY <3>1, <3>2, SumIsNat
  <2>4. SumOf(LiveNotes, CreditTotals) \in Nat
    <3>1. \A n \in LiveNotes : CreditTotals[n] \in Nat
      BY <2>1, <2>2 DEF TypeOK, CreditTotals, Amount
    <3>2. IsFiniteSet(LiveNotes)
      BY <2>2, FS_Subset
    <3>3. QED
      BY <3>1, <3>2, SumIsNat
  <2>5. SumOf(PaymentsOf(LiveInvoices), PaymentAmounts) = SumOf(LiveInvoices, PaidAmounts)
    BY <1>1, <2>2, ReceivedByInvoice
  <2>6. PaymentsOf(reported) = PaymentsOf(LiveInvoices)
    <3>1. \A i \in LiveInvoices : i \in reported
      BY DEF LiveInvoices, Open, Issued
    <3>2. \A i \in reported : i \notin LiveInvoices => LivePayments(i) = {}
      BY <2>1 DEF LiveInvoices, InvoicesOK, InvoiceOK
    <3>3. QED
      BY <3>1, <3>2 DEF PaymentsOf
  <2>7. CurrentPartyBalance = ListedBalance /\ CurrentPartyBalance = LedgerBalance
    BY <2>3, <2>4, <2>5, StatementsAssumption DEF CurrentPartyBalance, ListedBalance, LedgerBalance
  <2>8. ReportedReceived = SummarisedReceived
    BY <2>6 DEF ReportedReceived, SummarisedReceived
  <2>9. SummarisedReceived = SumOf(LiveInvoices, PaidAmounts)
    BY <2>5 DEF SummarisedReceived
  <2>10. QED
    BY <2>7, <2>8, <2>9 DEF StatementsAgree
<1>2. IInv => StatementsAgree
  BY <1>1
<1>3. QED
  BY <1>2, Invariance, PTL

-----------------------------------------------------------------------------
(* Deposits of cheques.                                                     *)

\* Clients change no account by editing a payment: they deposit and re-open cheques.
EditsKeepAccounts == \A money \in Edits : money.account = "keep"

\* A request for a cheque has the branch when it has no more to lock; one that is going to
\* deposit found the cheque in no account; an edit asks for no other account.
ChequeKept(q) ==
  LET p == job[q].payment IN
  /\ job[q].op \in {"deposit", "reopen"} => Branch \in job[q].want \/ lock[Branch] = q
  /\ job[q].op = "deposit" => job[q].money.account \in Banks
  /\ job[q].op = "deposit" /\ pc[q] = "checked" =>
       job[q].want = {} /\ payment[p].account = "none" /\ payment[p].state # "none"
  /\ job[q].op = "update" => job[q].money.account = "keep"

\* A deposited cheque is in an account.
ChequesKept ==
  /\ \A p \in Payments :
       /\ payment[p].event = "deposit" => payment[p].account # "none"
       /\ payment[p].state = "none" => payment[p].event = "none"
  /\ \A q \in Requests : ChequeKept(q)

\* What a step of somebody else leaves a request for a cheque: its job and its lock.
Unmoved(r) ==
  pc'[r] = pc[r] /\ job'[r] = job[r] /\ (lock[Branch] = r => lock'[Branch] = r)

\* No recorded payment gets another account or event.
AccountsStay ==
  \A p \in Payments :
    IF payment[p].state = "none" THEN payment'[p] = payment[p] \/ payment'[p].event = "none"
    ELSE /\ payment'[p].state # "none" /\ payment'[p].account = payment[p].account
         /\ payment'[p].event = payment[p].event

\* Such a step keeps what deposits rely on.
LEMMA AccountsStayStep ==
  ASSUME IInv, ChequesKept, AccountsStay, \A r \in Requests : Unmoved(r) \/ ChequeKept(r)'
  PROVE  ChequesKept' /\ DepositsAlternateStep
<1>1. \A p \in Payments :
        /\ payment'[p].event = "deposit" => payment'[p].account # "none"
        /\ payment'[p].state = "none" => payment'[p].event = "none"
  BY DEF ChequesKept, AccountsStay
<1>2. ASSUME NEW r \in Requests, Unmoved(r) PROVE ChequeKept(r)'
  <2>1. ChequeKept(r) /\ (job[r].op = "deposit" => job[r].payment \in Payments)
    BY DEF ChequesKept, IInv, JobsOK, ChequeJob
  <2>2. job[r].op = "deposit" /\ pc[r] = "checked" =>
          payment'[job[r].payment].account = "none" /\ payment'[job[r].payment].state # "none"
    BY <2>1 DEF ChequeKept, AccountsStay
  <2>3. QED
    BY <1>2, <2>1, <2>2 DEF ChequeKept, Unmoved
<1>3. DepositsAlternateStep
  BY DEF DepositsAlternateStep, ChequesKept, AccountsStay
<1>4. QED
  BY <1>1, <1>2, <1>3 DEF ChequesKept

\* A request that is begun with its locks still to take, or ends.
LEMMA BegunKept ==
  ASSUME TypeOK, NEW q \in Requests, NEW args, Begin(q, args),
         args.op \in {"deposit", "reopen"} => Branch \in args.want,
         args.op = "deposit" => args.money.account \in Banks,
         args.op = "update" => args.money.account = "keep"
  PROVE  AccountsStay /\ \A r \in Requests : Unmoved(r) \/ ChequeKept(r)'
<1>1. pc'[q] = "first" /\ job'[q] = args /\ UNCHANGED payment
      /\ \A r \in Requests \ {q} : Unmoved(r)
  BY DEF Begin, TypeOK, Unmoved
<1>2. ChequeKept(q)'
  BY <1>1 DEF ChequeKept
<1>3. QED
  BY <1>1, <1>2 DEF AccountsStay

LEMMA EndKept ==
  ASSUME TypeOK, NEW q \in Requests, End(q)
  PROVE  \A r \in Requests : Unmoved(r) \/ ChequeKept(r)'
<1>1. ChequeKept(q)'
  BY EndType DEF ChequeKept, NoJob
<1>2. \A r \in Requests \ {q} : Unmoved(r)
  BY EndType DEF Unmoved, Rows
<1>3. QED
  BY <1>1, <1>2

\* A check keeps the operation, the payment and the account that were asked for.
LEMMA ProceedKept ==
  ASSUME TypeOK, ChequesKept, NEW q \in Requests, NEW args, Proceed(q, args),
         args.op = job[q].op, args.want = job[q].want, args.payment = job[q].payment,
         args.money.account = job[q].money.account,
         job[q].op = "deposit" =>
           /\ job[q].want = {} /\ payment[job[q].payment].account = "none"
           /\ payment[job[q].payment].state # "none"
  PROVE  AccountsStay /\ \A r \in Requests : Unmoved(r) \/ ChequeKept(r)'
<1>1. job'[q] = args /\ UNCHANGED <<lock, payment>> /\ \A r \in Requests \ {q} : Unmoved(r)
  BY DEF Proceed, TypeOK, Unmoved
<1>2. ChequeKept(q)'
  BY <1>1 DEF ChequeKept, ChequesKept
<1>3. QED
  BY <1>1, <1>2 DEF AccountsStay

LEMMA InsertedKept ==
  ASSUME TypeOK, NEW i, NEW key, NEW money, NewPayment(i, key, money) PROVE AccountsStay
BY DEF NewPayment, TypeOK, AccountsStay

LEMMA CommitChequeKept ==
  ASSUME IInv, ChequesKept, NEW q \in Requests, NEW action \in {"deposit", "reopen"},
         CommitCheque(q, action)
  PROVE  ChequesKept' /\ DepositsAlternateStep
<1>1. /\ TypeOK /\ ChequeKept(q) /\ End(q) /\ pc[q] = "checked" /\ job[q].op = action
      /\ job[q].want = {} /\ job[q].payment \in Payments
  BY DEF IInv, JobsOK, ChequeJob, ChequesKept, CommitCheque, At
<1>2. PICK p \in Payments : p = job[q].payment
  BY <1>1
<1>3. PICK account : account = job[q].money.account
  OBVIOUS
<1>4. /\ payment[p].state = "live"
      /\ payment' = [payment EXCEPT ![p].event = action, ![p].account = account]
  BY <1>2, <1>3 DEF CommitCheque
<1>5. /\ payment'[p].state = "live" /\ payment'[p].event = action /\ payment'[p].account = account
      /\ \A r \in Payments \ {p} : payment'[r] = payment[r]
  BY <1>1, <1>4 DEF TypeOK
<1>6. lock[Branch] = q /\ (action = "deposit" => payment[p].account = "none" /\ account # "none")
  BY <1>1, <1>2, <1>3 DEF ChequeKept, Banks
<1>7. \A r \in Payments :
        /\ payment'[r].event = "deposit" => payment'[r].account # "none"
        /\ payment'[r].state = "none" => payment'[r].event = "none"
  BY <1>5, <1>6 DEF ChequesKept
<1>8. ASSUME NEW r \in Requests PROVE ChequeKept(r)'
  <2>1. CASE r = q
    BY <1>1, <2>1, EndType DEF ChequeKept, NoJob
  <2>2. CASE r # q
    <3>1. /\ ChequeKept(r) /\ pc'[r] = pc[r] /\ job'[r] = job[r]
          /\ (lock[Branch] = r => lock'[Branch] = r)
      BY <1>1, <2>2, EndType DEF ChequesKept, Rows
    <3>2. ~(job[r].op = "deposit" /\ pc[r] = "checked")
      BY <1>6, <2>2, <3>1 DEF ChequeKept
    <3>3. QED
      BY <3>1, <3>2 DEF ChequeKept
  <2>3. QED
    BY <2>1, <2>2
<1>9. DepositsAlternateStep
  BY <1>1, <1>5, <1>6 DEF DepositsAlternateStep, ChequesKept
<1>10. QED
  BY <1>7, <1>8, <1>9 DEF ChequesKept

\* An edit that asks for no other account leaves the payment in its own.
LEMMA CommitOnPaymentKept ==
  ASSUME IInv, ChequesKept, NEW q \in Requests, CommitUpdatePayment(q) \/ CommitDeletePayment(q)
  PROVE  AccountsStay
<1>1. TypeOK /\ job[q].payment \in Payments
  BY DEF IInv, JobsOK, PaymentJob, CommitUpdatePayment, CommitDeletePayment, At
<1>2. PICK p \in Payments : p = job[q].payment
  BY <1>1
<1>3. CASE CommitUpdatePayment(q)
  <2>1. PICK amount, method, account :
          /\ payment' = [payment EXCEPT ![p].amount = amount, ![p].method = method,
                                        ![p].account = account]
          /\ account = payment[p].account /\ payment[p].state = "live"
    BY <1>2, <1>3 DEF CommitUpdatePayment, EditedAccount, ChequesKept, ChequeKept, At
  <2>2. /\ payment'[p].state = payment[p].state /\ payment'[p].account = payment[p].account
        /\ payment'[p].event = payment[p].event
        /\ \A r \in Payments \ {p} : payment'[r] = payment[r]
    BY <1>1, <2>1 DEF TypeOK
  <2>3. QED
    BY <2>1, <2>2 DEF AccountsStay
<1>4. CASE CommitDeletePayment(q)
  <2>1. payment' = [payment EXCEPT ![p].state = "removed"] /\ payment[p].state = "live"
    BY <1>2, <1>4 DEF CommitDeletePayment
  <2>2. /\ payment'[p].state = "removed" /\ payment'[p].account = payment[p].account
        /\ payment'[p].event = payment[p].event
        /\ \A r \in Payments \ {p} : payment'[r] = payment[r]
    BY <1>1, <2>1 DEF TypeOK
  <2>3. QED
    BY <2>1, <2>2 DEF AccountsStay
<1>5. QED
  BY <1>3, <1>4

LEMMA NextKeepsCheques ==
  ASSUME EditsKeepAccounts, IInv, ChequesKept, [Next]_vars
  PROVE  ChequesKept' /\ DepositsAlternateStep
<1> USE DEF At
<1>1. TypeOK /\ \A r \in Requests : JobsOK(r)
  BY DEF IInv
<1>2. CASE UNCHANGED vars
  BY <1>2, AccountsStayStep DEF vars, AccountsStay, Unmoved
<1>3. ASSUME NEW i \in Invoices, NEW draft \in BOOLEAN, NEW total \in Amount,
             NEW key \in Keys \cup {NoOne}, NEW money \in Receipts \cup {NoMoney},
             CreateInvoice(i, draft, total, key, money)
      PROVE  ChequesKept' /\ DepositsAlternateStep
  <2>1. AccountsStay
    BY <1>1, <1>3, InsertedKept DEF CreateInvoice, AccountsStay
  <2>2. QED
    BY <1>3, <2>1, AccountsStayStep DEF CreateInvoice, Unmoved
<1>4. CASE \/ \E n \in Notes, i \in Invoices, total \in Amount : PostCredit(n, i, total)
           \/ \E n \in Notes : CancelCredit(n)
  BY <1>4, AccountsStayStep DEF PostCredit, CancelCredit, AccountsStay, Unmoved
<1>5. ASSUME NEW q \in Requests, Acquire(q) PROVE ChequesKept' /\ DepositsAlternateStep
  <2>1. PICK row \in job[q].want :
          /\ CanLock(row) /\ lock' = [lock EXCEPT ![row] = q]
          /\ job' = [job EXCEPT ![q].want = @ \ {row}] /\ pc[q] = "first" /\ UNCHANGED <<pc, payment>>
    BY <1>5 DEF Acquire
  <2>2. row \in Rows /\ lock[row] = NoOne /\ Branch \in Rows
    BY <1>1, <2>1 DEF TypeOK, JobType, CanLock, Rows
  <2>3. \A r \in Requests \ {q} : Unmoved(r)
    BY <1>1, <2>1, <2>2 DEF TypeOK, Unmoved
  <2>4. /\ job'[q].op = job[q].op /\ job'[q].want = job[q].want \ {row}
        /\ job'[q].money = job[q].money /\ pc'[q] = "first"
        /\ lock'[Branch] = IF row = Branch THEN q ELSE lock[Branch]
    BY <1>1, <2>1, <2>2 DEF TypeOK, JobType
  <2>5. ChequeKept(q)'
    BY <2>4 DEF ChequeKept, ChequesKept
  <2>6. AccountsStay
    BY <2>1 DEF AccountsStay
  <2>7. QED
    BY <2>3, <2>5, <2>6, AccountsStayStep
<1>6. ASSUME NEW q \in Requests, Rollback(q) PROVE ChequesKept' /\ DepositsAlternateStep
  BY <1>1, <1>6, EndKept, AccountsStayStep DEF Rollback, AccountsStay
<1>7. ASSUME NEW q \in Requests, InvoiceStep(q) PROVE ChequesKept' /\ DepositsAlternateStep
  <2>1. ASSUME NEW i \in Invoices, NEW draft \in BOOLEAN, NEW total \in Amount,
               NEW money \in Receipts \cup {NoMoney}, BeginEditInvoice(q, i, draft, total, money)
        PROVE  ChequesKept' /\ DepositsAlternateStep
    <3> DEFINE args == [NoJob EXCEPT !.op = "edit", !.invoice = i, !.draft = draft, !.total = total,
                                  !.money = money, !.want = {Branch, i}]
    <3>1. Begin(q, args)
      BY <2>1 DEF BeginEditInvoice
    <3>2. args.op = "edit"
      BY DEF NoJob
    <3> HIDE DEF args
    <3>3. QED
      BY <1>1, <3>1, <3>2, BegunKept, AccountsStayStep
  <2>2. CASE CheckEditInvoice(q)
    <3> DEFINE args == [job[q] EXCEPT
           !.status = SavedStatus(job[q].draft, job[q].money.amount, job[q].total),
           !.paid = job[q].money.amount,
           !.moves = (IF job[q].draft THEN 0 ELSE 1)
                       - (IF invoice[job[q].invoice].status = "DRAFT" THEN 0 ELSE 1)]
    <3>1. Proceed(q, args) /\ job[q].op = "edit"
      BY <2>2 DEF CheckEditInvoice
    <3>2. /\ args.op = job[q].op /\ args.want = job[q].want /\ args.payment = job[q].payment
          /\ args.money.account = job[q].money.account
      BY <1>1 DEF TypeOK, JobType
    <3> HIDE DEF args
    <3>3. QED
      BY <1>1, <3>1, <3>2, ProceedKept, AccountsStayStep
  <2>3. CASE CommitEditInvoice(q)
    <3>1. AccountsStay
      BY <1>1, <2>3, InsertedKept DEF CommitEditInvoice, AccountsStay
    <3>2. QED
      BY <1>1, <2>3, <3>1, EndKept, AccountsStayStep DEF CommitEditInvoice
  <2>4. ASSUME NEW op \in {"cancel", "remove"}, NEW i \in Invoices, BeginReverse(q, op, i)
        PROVE  ChequesKept' /\ DepositsAlternateStep
    BY <1>1, <2>4, BegunKept, AccountsStayStep DEF BeginReverse, NoJob
  <2>5. ASSUME NEW op \in {"cancel", "remove"}, CheckReverse(q, op)
        PROVE  ChequesKept' /\ DepositsAlternateStep
    BY <1>1, <2>5, ProceedKept, AccountsStayStep DEF CheckReverse, TypeOK, JobType
  <2>6. ASSUME NEW op \in {"cancel", "remove"}, CommitReverse(q, op)
        PROVE  ChequesKept' /\ DepositsAlternateStep
    BY <1>1, <2>6, EndKept, AccountsStayStep DEF CommitReverse, AccountsStay
  <2>7. QED
    BY <1>7, <2>1, <2>2, <2>3, <2>4, <2>5, <2>6 DEF InvoiceStep
<1>8. ASSUME NEW q \in Requests, PaymentStep(q) PROVE ChequesKept' /\ DepositsAlternateStep
  <2>1. ASSUME NEW i \in Invoices, NEW key \in Keys \cup {NoOne}, NEW money \in Receipts,
               BeginRecord(q, i, key, money)
        PROVE  ChequesKept' /\ DepositsAlternateStep
    <3> DEFINE args == [NoJob EXCEPT !.op = "record", !.invoice = i, !.key = key, !.money = money,
                                  !.want = {i}]
    <3>1. Begin(q, args)
      BY <2>1 DEF BeginRecord
    <3>2. args.op = "record"
      BY DEF NoJob
    <3> HIDE DEF args
    <3>3. QED
      BY <1>1, <3>1, <3>2, BegunKept, AccountsStayStep
  <2>2. CASE CheckRecord(q)
    <3> DEFINE args == [job[q] EXCEPT
           !.paid = invoice[job[q].invoice].paid + job[q].money.amount,
           !.status = IF invoice[job[q].invoice].paid + job[q].money.amount
                           = NetTotal(job[q].invoice) THEN "PAID" ELSE "PARTIALLY_PAID"]
    <3>1. Proceed(q, args) /\ job[q].op = "record"
      BY <2>2 DEF CheckRecord
    <3>2. /\ args.op = job[q].op /\ args.want = job[q].want /\ args.payment = job[q].payment
          /\ args.money.account = job[q].money.account
      BY <1>1 DEF TypeOK, JobType
    <3> HIDE DEF args
    <3>3. QED
      BY <1>1, <3>1, <3>2, ProceedKept, AccountsStayStep
  <2>3. CASE CommitRecord(q)
    BY <1>1, <2>3, InsertedKept, EndKept, AccountsStayStep DEF CommitRecord
  <2>4. ASSUME NEW p \in Payments, NEW edit \in Edits, BeginOnPayment(q, "update", p, edit)
        PROVE  ChequesKept' /\ DepositsAlternateStep
    <3> DEFINE args == [NoJob EXCEPT !.op = "update", !.payment = p, !.invoice = payment[p].invoice,
                                  !.money = edit, !.want = {payment[p].invoice}]
    <3>1. Begin(q, args)
      BY <2>4 DEF BeginOnPayment
    <3>2. args.op = "update" /\ args.money.account = "keep"
      BY DEF NoJob, EditsKeepAccounts
    <3> HIDE DEF args
    <3>3. QED
      BY <1>1, <3>1, <3>2, BegunKept, AccountsStayStep
  <2>5. CASE CheckUpdatePayment(q)
    <3> DEFINE args == [job[q] EXCEPT
           !.paid = invoice[job[q].invoice].paid - payment[job[q].payment].amount
                      + EditedAmount(job[q].payment, job[q].money),
           !.status = PaidStatus(invoice[job[q].invoice].paid - payment[job[q].payment].amount
                        + EditedAmount(job[q].payment, job[q].money), NetTotal(job[q].invoice)),
           !.money.amount = EditedAmount(job[q].payment, job[q].money)]
    <3>1. Proceed(q, args) /\ job[q].op = "update"
      BY <2>5 DEF CheckUpdatePayment
    <3>2. /\ args.op = job[q].op /\ args.want = job[q].want /\ args.payment = job[q].payment
          /\ args.money.account = job[q].money.account
      BY <1>1 DEF TypeOK, JobType, EditType
    <3> HIDE DEF args
    <3>3. QED
      BY <1>1, <3>1, <3>2, ProceedKept, AccountsStayStep
  <2>6. ASSUME NEW p \in Payments, BeginOnPayment(q, "delete", p, NoMoney)
        PROVE  ChequesKept' /\ DepositsAlternateStep
    <3> DEFINE args == [NoJob EXCEPT !.op = "delete", !.payment = p, !.invoice = payment[p].invoice,
                                  !.money = NoMoney, !.want = {payment[p].invoice}]
    <3>1. Begin(q, args)
      BY <2>6 DEF BeginOnPayment
    <3>2. args.op = "delete"
      BY DEF NoJob
    <3> HIDE DEF args
    <3>3. QED
      BY <1>1, <3>1, <3>2, BegunKept, AccountsStayStep
  <2>7. CASE CheckDeletePayment(q)
    <3> DEFINE args == [job[q] EXCEPT
           !.paid = IF invoice[job[q].invoice].paid > payment[job[q].payment].amount
                    THEN invoice[job[q].invoice].paid - payment[job[q].payment].amount ELSE 0,
           !.status = IF invoice[job[q].invoice].status = "CANCELLED" THEN "CANCELLED"
                      ELSE PaidStatus(IF invoice[job[q].invoice].paid > payment[job[q].payment].amount
                        THEN invoice[job[q].invoice].paid - payment[job[q].payment].amount ELSE 0,
                        NetTotal(job[q].invoice))]
    <3>1. Proceed(q, args) /\ job[q].op = "delete"
      BY <2>7 DEF CheckDeletePayment
    <3>2. /\ args.op = job[q].op /\ args.want = job[q].want /\ args.payment = job[q].payment
          /\ args.money.account = job[q].money.account
      BY <1>1 DEF TypeOK, JobType
    <3> HIDE DEF args
    <3>3. QED
      BY <1>1, <3>1, <3>2, ProceedKept, AccountsStayStep
  <2>8. CASE CommitUpdatePayment(q) \/ CommitDeletePayment(q)
    <3>1. End(q)
      BY <2>8 DEF CommitUpdatePayment, CommitDeletePayment
    <3>2. QED
      BY <1>1, <2>8, <3>1, CommitOnPaymentKept, EndKept, AccountsStayStep
  <2>9. QED
    BY <1>8, <2>1, <2>2, <2>3, <2>4, <2>5, <2>6, <2>7, <2>8 DEF PaymentStep
<1>9. ASSUME NEW q \in Requests, ChequeStep(q) PROVE ChequesKept' /\ DepositsAlternateStep
  <2>1. PICK action \in {"deposit", "reopen"} :
          \/ \E p \in Payments, bank \in IF action = "deposit" THEN Banks ELSE {"none"} :
               BeginCheque(q, action, p, bank)
          \/ CheckCheque(q, action) \/ CommitCheque(q, action)
    BY <1>9 DEF ChequeStep
  <2>2. ASSUME NEW p \in Payments, NEW bank \in IF action = "deposit" THEN Banks ELSE {"none"},
               BeginCheque(q, action, p, bank)
        PROVE  ChequesKept' /\ DepositsAlternateStep
    BY <1>1, <2>2, BegunKept, AccountsStayStep DEF BeginCheque, NoJob, NoMoney
  <2>3. CASE CheckCheque(q, action)
    BY <1>1, <2>3, ProceedKept, AccountsStayStep DEF CheckCheque
  <2>4. CASE CommitCheque(q, action)
    BY <2>4, CommitChequeKept
  <2>5. QED
    BY <2>1, <2>2, <2>3, <2>4
<1>10. QED
  BY <1>2, <1>3, <1>4, <1>5, <1>6, <1>7, <1>8, <1>9 DEF Next

\* A deposited cheque changes account only through a re-opening, however many deposits are
\* requested at once, while clients do not edit the account of a payment.
THEOREM DepositsStayAlternating == ASSUME EditsKeepAccounts PROVE Spec => DepositsAlternate
<1>1. Init => ChequesKept
  BY DEF Init, ChequesKept, ChequeKept, NoJob
<1>2. IInv /\ ChequesKept /\ [Next]_vars => ChequesKept' /\ DepositsAlternateStep
  BY NextKeepsCheques
<1>3. QED
  BY <1>1, <1>2, Invariance, PTL DEF Spec, DepositsAlternate

-----------------------------------------------------------------------------
(* Every handler is one step of the invoice book                            *)

\* The invoice as the book has it.
Entry(i) == [phase |-> Phase(i), total |-> invoice[i].total, paid |-> invoice[i].paid,
             credited |-> Credited(i, {})]

LEMMA BookEntries ==
  /\ AsBook = [i \in Invoices |-> Entry(i)]
  /\ \A i \in Invoices : AsBook[i] = Entry(i)
BY DEF AsBook, Entry

\* The fields of an entry, and what the invariant says of them.
LEMMA EntryFields ==
  ASSUME IInv, NEW i \in Invoices
  PROVE  /\ AsBook[i].phase = Phase(i) /\ AsBook[i].total = invoice[i].total
         /\ AsBook[i].paid = invoice[i].paid /\ AsBook[i].credited = Credited(i, {})
         /\ invoice[i].total \in Amount /\ invoice[i].paid \in Amount
         /\ Credited(i, {}) \in Amount /\ Credited(i, {}) <= invoice[i].total
<1>1. invoice[i].total \in Amount /\ invoice[i].paid \in Amount
  BY DEF IInv, TypeOK
<1>2. TypeOK /\ Credited(i, {}) <= invoice[i].total
  BY DEF IInv, MoneyWithinTotal
<1>3. Credited(i, {}) \in Nat
  BY <1>2, CreditsAreNat
<1>4. QED
  BY <1>1, <1>2, <1>3 DEF AsBook, Amount

\* The statuses of a phase.
LEMMA Phases ==
  ASSUME TypeOK, NEW i \in Invoices
  PROVE  /\ Phase(i) = "none" <=> invoice[i].status = "NONE"
         /\ Phase(i) = "draft" <=> invoice[i].status = "DRAFT"
         /\ Phase(i) = "closed" <=> invoice[i].status = "CANCELLED"
         /\ Phase(i) = "issued" <=> invoice[i].status \in Issued
         /\ Phase(i) \in {"none", "draft", "closed", "issued"}
<1>1. invoice[i].status \in Issued \cup {"NONE", "DRAFT", "CANCELLED"}
  BY DEF TypeOK, InvoiceStatuses
<1>2. QED
  BY <1>1 DEF Phase, Issued

\* Where neither an invoice nor a note is written, the book stays.
LEMMA BookStays ==
  ASSUME invoice' = invoice, credit' = credit
  PROVE  AsBook' = AsBook
<1>1. \A i : Credited(i, {})' = Credited(i, {})
  BY SameCredits
<1>2. \A i : Phase(i)' = Phase(i)
  BY DEF Phase
<1>3. QED
  BY <1>1, <1>2 DEF AsBook

\* Where one invoice is written, one entry of the book is.
LEMMA OneEntry ==
  ASSUME NEW i \in Invoices, credit' = credit,
         \A j \in Invoices \ {i} : invoice'[j] = invoice[j]
  PROVE  /\ AsBook' = [AsBook EXCEPT ![i] =
              [phase |-> Phase(i)', total |-> invoice'[i].total, paid |-> invoice'[i].paid,
               credited |-> Credited(i, {})]]
<1>1. \A j : Credited(j, {})' = Credited(j, {})
  BY SameCredits
<1>2. \A j \in Invoices \ {i} : Phase(j)' = Phase(j)
  BY DEF Phase
<1>3. QED
  BY <1>1, <1>2 DEF AsBook

\* An invoice that is created or edited is a Write of the book.
LEMMA WriteRefines ==
  ASSUME IInv, IInv', NEW i \in Invoices, credit' = credit,
         \A j \in Invoices \ {i} : invoice'[j] = invoice[j],
         Phase(i) \in {"none", "draft", "issued"}, invoice[i].paid = 0, LiveCredits(i) = {},
         Phase(i)' \in {"draft", "issued"}, Phase(i) = "issued" => Phase(i)' = "issued",
         Phase(i)' = "draft" => invoice'[i].paid = 0
  PROVE  Book!Write(i)
<1>1. Credited(i, {}) = 0
  BY NoCredits
<1>2. PICK phase \in {"draft", "issued"}, total \in Amount, paid \in Amount :
        phase = Phase(i)' /\ total = invoice'[i].total /\ paid = invoice'[i].paid
  <2>1. invoice'[i].total \in Amount /\ invoice'[i].paid \in Amount
    BY DEF IInv, TypeOK
  <2>2. QED
    BY <2>1
<1>3. paid <= total
  BY <1>2 DEF IInv, MoneyWithinTotal
<1>4. AsBook' = [AsBook EXCEPT ![i] =
        [phase |-> phase, total |-> total, paid |-> paid, credited |-> 0]]
  BY <1>1, <1>2, OneEntry
<1>5. AsBook[i].phase = Phase(i) /\ AsBook[i].paid = 0 /\ AsBook[i].credited = 0
  BY <1>1, EntryFields
<1>6. /\ Phase(i) = "issued" => phase = "issued"
      /\ phase = "draft" => paid = 0
  BY <1>2
<1>7. QED
  BY <1>2, <1>3, <1>4, <1>5, <1>6 DEF Book!Write, Book!Put, Book!Amount, Amount

\* A payment that comes, changes or goes is a Receive or a Refund of the book.
LEMMA PaidRefines ==
  ASSUME IInv, IInv', NEW i \in Invoices, credit' = credit,
         \A j \in Invoices \ {i} : invoice'[j] = invoice[j],
         invoice'[i].total = invoice[i].total,
         Phase(i) = "issued", Phase(i)' = "issued",
         invoice'[i].paid <= NetTotal(i) \/ invoice'[i].paid < invoice[i].paid
  PROVE  Book!Receive(i) \/ Book!Refund(i)
<1>1. PICK paid \in Amount : paid = invoice'[i].paid
  BY DEF IInv, TypeOK
<1>2. /\ AsBook[i].phase = "issued" /\ AsBook[i].total = invoice[i].total
      /\ AsBook[i].paid = invoice[i].paid /\ AsBook[i].credited = Credited(i, {})
  BY EntryFields
<1>3. AsBook[i] = [phase |-> "issued", total |-> invoice[i].total, paid |-> invoice[i].paid,
                   credited |-> Credited(i, {})]
  BY BookEntries DEF Entry
<1>4. AsBook' = [AsBook EXCEPT ![i] = [AsBook[i] EXCEPT !.paid = paid]]
  <2>1. AsBook' = [AsBook EXCEPT ![i] =
          [phase |-> "issued", total |-> invoice[i].total, paid |-> paid,
           credited |-> Credited(i, {})]]
    BY <1>1, OneEntry
  <2>2. PICK entry : entry = AsBook[i]
    OBVIOUS
  <2>3. [entry EXCEPT !.paid = paid] =
          [phase |-> "issued", total |-> invoice[i].total, paid |-> paid,
           credited |-> Credited(i, {})]
    BY <1>3, <2>2
  <2>4. QED
    BY <2>1, <2>2, <2>3
<1>5. CASE paid <= NetTotal(i)
  BY <1>2, <1>4, <1>5 DEF Book!Receive, Book!Put, Book!Amount, Amount, NetTotal
<1>6. CASE paid < invoice[i].paid
  BY <1>2, <1>4, <1>6 DEF Book!Refund, Book!Put, Book!Amount, Amount
<1>7. QED
  BY <1>1, <1>5, <1>6

\* An invoice that is cancelled or removed is a Close of the book, once.
LEMMA CloseRefines ==
  ASSUME IInv, NEW i \in Invoices, credit' = credit,
         \A j \in Invoices \ {i} : invoice'[j] = invoice[j],
         invoice'[i].total = invoice[i].total, invoice'[i].paid = 0,
         invoice[i].paid = 0, LiveCredits(i) = {}, Phase(i) # "none", Phase(i)' = "closed"
  PROVE  Book!Close(i) \/ AsBook' = AsBook
<1>1. Credited(i, {}) = 0 /\ TypeOK
  BY NoCredits DEF IInv
<1>2. AsBook[i] = [phase |-> Phase(i), total |-> invoice[i].total, paid |-> 0, credited |-> 0]
  BY <1>1, BookEntries DEF Entry
<1>3. AsBook' = [AsBook EXCEPT ![i] =
        [phase |-> "closed", total |-> invoice[i].total, paid |-> 0, credited |-> 0]]
  BY <1>1, OneEntry
<1>4. AsBook' = [AsBook EXCEPT ![i] = [AsBook[i] EXCEPT !.phase = "closed"]]
  <2>1. PICK entry : entry = AsBook[i]
    OBVIOUS
  <2>2. [entry EXCEPT !.phase = "closed"] =
          [phase |-> "closed", total |-> invoice[i].total, paid |-> 0, credited |-> 0]
    BY <1>2, <2>1
  <2>3. QED
    BY <1>3, <2>1, <2>2
<1>5. CASE Phase(i) = "closed"
  BY <1>2, <1>3, <1>5 DEF AsBook
<1>6. CASE Phase(i) # "closed"
  <2>1. Phase(i) \in {"draft", "issued"}
    BY <1>1, <1>6, Phases
  <2>2. QED
    BY <1>2, <1>4, <2>1 DEF Book!Close, Book!Put
<1>7. QED
  BY <1>5, <1>6

\* A credit note that is posted or cancelled is a Credit of the book.
LEMMA CreditRefines ==
  ASSUME IInv, IInv', invoice' = invoice,
         \A i \in Invoices : NoNewCredits(i) \/ Open(i)
  PROVE  Book!Credit
<1> DEFINE credited == [i \in Invoices |-> Credited(i, {})']
<1>1. TypeOK /\ \A i \in Invoices : Phase(i)' = Phase(i)
  BY DEF IInv, Phase
<1>2. ASSUME NEW i \in Invoices
      PROVE  /\ credited[i] \in Amount
             /\ \/ credited[i] <= AsBook[i].credited
                \/ AsBook[i].phase = "issued" /\ credited[i] <= AsBook[i].total
  <2>1. Credited(i, {})' \in Amount /\ Credited(i, {})' <= invoice[i].total
    <3>1. TypeOK' /\ MoneyWithinTotal'
      BY DEF IInv
    <3>2. Credited(i, {})' \in Nat
      <4>1. \A n \in LiveCredits(i)' : CreditTotals'[n] \in Nat
        BY <3>1 DEF TypeOK, LiveCredits, CreditTotals, Amount
      <4>2. IsFiniteSet(LiveCredits(i)')
        BY FS_Subset DEF LiveCredits
      <4>3. PICK S, f : S = LiveCredits(i)' /\ f = CreditTotals'
        OBVIOUS
      <4>4. SumOf(S, f) \in Nat
        BY <4>1, <4>2, <4>3, SumIsNat
      <4>5. S \ {} = S
        OBVIOUS
      <4>6. QED
        BY <4>3, <4>4, <4>5 DEF Credited
    <3>3. Credited(i, {})' <= invoice[i].total
      BY <3>1 DEF MoneyWithinTotal
    <3>4. invoice[i].total \in Amount
      BY <1>1 DEF TypeOK
    <3>5. QED
      BY <3>2, <3>3, <3>4 DEF Amount
  <2>2. AsBook[i].credited = Credited(i, {}) /\ AsBook[i].total = invoice[i].total
        /\ AsBook[i].phase = Phase(i)
    BY EntryFields
  <2>3. CASE NoNewCredits(i)
    BY <1>1, <2>1, <2>2, <2>3, CreditsShrink
  <2>4. CASE Open(i)
    <3>1. Phase(i) = "issued"
      BY <1>1, <2>4, Phases DEF Open
    <3>2. QED
      BY <2>1, <2>2, <3>1
  <2>5. QED
    BY <2>1, <2>3, <2>4
<1>3. PICK amounts \in [Invoices -> Amount] : amounts = credited
  BY <1>2
<1>4. AsBook' = [i \in Invoices |-> [AsBook[i] EXCEPT !.credited = amounts[i]]]
  <2>1. AsBook' = [i \in Invoices |-> [phase |-> Phase(i), total |-> invoice[i].total,
                                       paid |-> invoice[i].paid, credited |-> amounts[i]]]
    BY <1>1, <1>3 DEF AsBook
  <2>2. \A i \in Invoices :
          [AsBook[i] EXCEPT !.credited = amounts[i]]
            = [phase |-> Phase(i), total |-> invoice[i].total, paid |-> invoice[i].paid,
               credited |-> amounts[i]]
    BY BookEntries DEF Entry
  <2>3. QED
    BY <2>1, <2>2
<1>5. \A i \in Invoices :
        \/ amounts[i] <= AsBook[i].credited
        \/ AsBook[i].phase = "issued" /\ amounts[i] <= AsBook[i].total
  BY <1>2, <1>3
<1>6. QED
  BY <1>4, <1>5 DEF Book!Credit, Book!Amount, Amount

\* The commits of the handlers of invoices.
LEMMA InvoiceCommitsRefine ==
  ASSUME IInv, IInv', NEW q \in Requests,
         CommitEditInvoice(q) \/ \E op \in {"cancel", "remove"} : CommitReverse(q, op)
  PROVE  Book!Next \/ AsBook' = AsBook
<1>1. PICK i : i = job[q].invoice
  OBVIOUS
<1>2. /\ TypeOK /\ JobsOK(q) /\ TypeOK'
      /\ pc[q] = "checked" /\ credit' = credit
  BY DEF CommitEditInvoice, CommitReverse, At, IInv, JobsOK
<1>3. i \in Invoices /\ invoice[i].status # "NONE" /\ Phase(i) # "none"
  <2>1. job[q].op \in OnInvoice
    BY DEF CommitEditInvoice, CommitReverse, At, OnInvoice
  <2>2. i \in Invoices /\ invoice[i].status # "NONE"
    BY <1>1, <1>2, <2>1 DEF JobsOK, InvoiceJob
  <2>3. QED
    BY <1>2, <2>2, Phases
<1>4. CASE CommitEditInvoice(q)
  <2>1. /\ invoice[i].status # "CANCELLED" /\ invoice[i].paid = 0 /\ LiveCredits(i) = {}
        /\ job[q].draft => invoice[i].status = "DRAFT" /\ job[q].paid = 0
        /\ job[q].status = SavedStatus(job[q].draft, job[q].money.amount, job[q].total)
    BY <1>1, <1>2, <1>4 DEF JobsOK, EditJob, CommitEditInvoice, At
  <2>2. /\ invoice'[i].status = job[q].status /\ invoice'[i].paid = job[q].paid
        /\ \A j \in Invoices \ {i} : invoice'[j] = invoice[j]
    BY <1>1, <1>2, <1>3, <1>4 DEF CommitEditInvoice, TypeOK
  <2>3. /\ job[q].draft => invoice'[i].status = "DRAFT"
        /\ ~job[q].draft => invoice'[i].status \in Issued
    BY <2>1, <2>2 DEF SavedStatus, Issued
  <2>4. /\ (Phase(i) = "draft" <=> invoice[i].status = "DRAFT")
        /\ (Phase(i) = "closed" <=> invoice[i].status = "CANCELLED")
        /\ Phase(i) \in {"none", "draft", "closed", "issued"}
    BY <1>2, <1>3, Phases
  <2>5. /\ job[q].draft => Phase(i)' = "draft"
        /\ ~job[q].draft => Phase(i)' = "issued"
    BY <2>3 DEF Phase, Issued
  <2>6. /\ Phase(i) \in {"none", "draft", "issued"}
        /\ Phase(i)' \in {"draft", "issued"}
        /\ Phase(i) = "issued" => Phase(i)' = "issued"
        /\ Phase(i)' = "draft" => invoice'[i].paid = 0
    BY <2>1, <2>2, <2>4, <2>5
  <2>7. Book!Write(i)
    BY <1>2, <1>3, <2>1, <2>2, <2>6, WriteRefines
  <2>8. QED
    BY <1>3, <2>7 DEF Book!Next
<1>5. ASSUME NEW op \in {"cancel", "remove"}, CommitReverse(q, op)
      PROVE  Book!Next \/ AsBook' = AsBook
  <2>1. invoice[i].paid = 0 /\ LiveCredits(i) = {}
    BY <1>1, <1>2, <1>5 DEF JobsOK, ReverseJob, CommitReverse, At
  <2>2. /\ invoice'[i].status = "CANCELLED" /\ invoice'[i].paid = 0
        /\ invoice'[i].total = invoice[i].total
        /\ \A j \in Invoices \ {i} : invoice'[j] = invoice[j]
    BY <1>1, <1>2, <1>3, <1>5, <2>1 DEF CommitReverse, TypeOK
  <2>3. Phase(i)' = "closed"
    BY <2>2 DEF Phase
  <2>4. Book!Close(i) \/ AsBook' = AsBook
    BY <1>2, <1>3, <2>1, <2>2, <2>3, CloseRefines
  <2>5. QED
    BY <1>3, <2>4 DEF Book!Next
<1>6. QED
  BY <1>4, <1>5

\* The commits of the handlers of payments.
LEMMA PaymentCommitsRefine ==
  ASSUME IInv, IInv', NEW q \in Requests,
         CommitRecord(q) \/ CommitUpdatePayment(q) \/ CommitDeletePayment(q)
  PROVE  Book!Next
<1>1. PICK i, p : i = job[q].invoice /\ p = job[q].payment
  OBVIOUS
<1>2. /\ TypeOK /\ JobsOK(q) /\ Settle(q)
      /\ pc[q] = "checked" /\ credit' = credit
      /\ job[q].op \in {"record", "update", "delete"}
  BY DEF CommitRecord, CommitUpdatePayment, CommitDeletePayment, At, IInv, JobsOK
<1>3. i \in Invoices
  BY <1>1, <1>2 DEF JobsOK, InvoiceJob, OnInvoice
<1>4. /\ \A j \in Invoices \ {i} : invoice'[j] = invoice[j]
      /\ invoice'[i].status = job[q].status /\ invoice'[i].paid = job[q].paid
      /\ invoice'[i].total = invoice[i].total
  BY <1>1, <1>2, <1>3, SettleWrites
<1>5. /\ Open(i) /\ job[q].status \in Issued
      /\ job[q].paid <= NetTotal(i) \/ job[q].paid < invoice[i].paid
  <2>1. CASE job[q].op = "record"
    BY <1>1, <1>2, <2>1 DEF JobsOK, RecordJob, Issued
  <2>2. CASE job[q].op \in {"update", "delete"}
    <3>1. /\ p \in Payments /\ payment[p].state = "live" /\ payment[p].invoice = i
          /\ job[q].op = "update" =>
               job[q].paid <= NetTotal(i) /\ job[q].status \in {"PARTIALLY_PAID", "PAID"}
          /\ job[q].op = "delete" =>
               job[q].paid = invoice[i].paid - payment[p].amount /\ job[q].status \in Issued
      BY <1>1, <1>2, <2>2 DEF JobsOK, PaymentJob
    <3>2. Open(i) /\ payment[p].amount \in Nat /\ payment[p].amount > 0
      BY <3>1, PaymentIsPaid
    <3>3. invoice[i].paid \in Nat
      BY <1>2, <1>3, NetTotalBound
    <3>4. QED
      BY <2>2, <3>1, <3>2, <3>3 DEF Issued
  <2>3. QED
    BY <1>2, <2>1, <2>2
<1>6. Phase(i) = "issued" /\ Phase(i)' = "issued"
  BY <1>2, <1>3, <1>4, <1>5 DEF Phase, Open, Issued
<1>7. Book!Receive(i) \/ Book!Refund(i)
  BY <1>2, <1>3, <1>4, <1>5, <1>6, PaidRefines
<1>8. QED
  BY <1>3, <1>7 DEF Book!Next

\* An invoice that is created, and a credit note that is posted or cancelled.
LEMMA UnlockedCommitsRefine ==
  ASSUME IInv, IInv',
         \/ \E i \in Invoices, draft \in BOOLEAN, total \in Amount, key \in Keys \cup {NoOne},
               money \in Receipts \cup {NoMoney} : CreateInvoice(i, draft, total, key, money)
         \/ \E n \in Notes, i \in Invoices, total \in Amount : PostCredit(n, i, total)
         \/ \E n \in Notes : CancelCredit(n)
  PROVE  Book!Next
<1>1. TypeOK /\ InvoicesOK
  BY InvariantParts
<1>2. ASSUME NEW i \in Invoices, NEW draft \in BOOLEAN, NEW total \in Amount,
             NEW key \in Keys \cup {NoOne}, NEW money \in Receipts \cup {NoMoney},
             CreateInvoice(i, draft, total, key, money)
      PROVE  Book!Next
  <2>1. /\ invoice[i].status = "NONE" /\ credit' = credit /\ (draft => money.amount = 0)
        /\ \A j \in Invoices \ {i} : invoice'[j] = invoice[j]
        /\ invoice'[i].paid = money.amount
        /\ invoice'[i].status = SavedStatus(draft, money.amount, total)
    BY <1>1, <1>2 DEF CreateInvoice, TypeOK
  <2>2. invoice[i].paid = 0 /\ LiveCredits(i) = {}
    <3>1. LivePayments(i) = {} /\ LiveCredits(i) = {}
          /\ invoice[i].paid = SumOf(LivePayments(i), PaymentAmounts)
      BY <1>1, <2>1 DEF InvoicesOK, InvoiceOK, Open, Issued
    <3>2. QED
      BY <3>1, SumEmpty
  <2>3. /\ draft => Phase(i)' = "draft" /\ invoice'[i].paid = 0
        /\ ~draft => Phase(i)' = "issued"
        /\ Phase(i) = "none"
    BY <2>1 DEF Phase, SavedStatus
  <2>4. Book!Write(i)
    BY <2>1, <2>2, <2>3, WriteRefines
  <2>5. QED
    BY <2>4 DEF Book!Next
<1>3. ASSUME NEW n \in Notes, NEW i \in Invoices, NEW total \in Amount, PostCredit(n, i, total)
      PROVE  Book!Next
  <2>1. /\ invoice' = invoice /\ Open(i)
        /\ credit' = [credit EXCEPT ![n] = [state |-> "live", invoice |-> i, total |-> total]]
    BY <1>3 DEF PostCredit, ValidReturn
  <2>2. \A j \in Invoices \ {i} : NoNewCredits(j)
    BY <1>1, <2>1 DEF TypeOK, NoNewCredits, LiveCredits, CreditTotals
  <2>3. Book!Credit
    BY <2>1, <2>2, CreditRefines
  <2>4. QED
    BY <2>3 DEF Book!Next
<1>4. ASSUME NEW n \in Notes, CancelCredit(n) PROVE Book!Next
  <2>1. invoice' = invoice /\ credit' = [credit EXCEPT ![n].state = "closed"]
    BY <1>4 DEF CancelCredit
  <2>2. \A j \in Invoices : NoNewCredits(j)
    BY <1>1, <2>1 DEF TypeOK, NoNewCredits, LiveCredits, CreditTotals
  <2>3. Book!Credit
    BY <2>1, <2>2, CreditRefines
  <2>4. QED
    BY <2>3 DEF Book!Next
<1>5. QED
  BY <1>2, <1>3, <1>4

LEMMA NextRefines == IInv /\ IInv' /\ [Next]_vars => [Book!Next]_AsBook
<1> SUFFICES ASSUME IInv, IInv', [Next]_vars PROVE Book!Next \/ AsBook' = AsBook
  OBVIOUS
<1>1. CASE UNCHANGED vars
  BY <1>1, BookStays DEF vars
<1>2. CASE \/ \E i \in Invoices, draft \in BOOLEAN, total \in Amount, key \in Keys \cup {NoOne},
                 money \in Receipts \cup {NoMoney} : CreateInvoice(i, draft, total, key, money)
           \/ \E n \in Notes, i \in Invoices, total \in Amount : PostCredit(n, i, total)
           \/ \E n \in Notes : CancelCredit(n)
  BY <1>2, UnlockedCommitsRefine
<1>3. ASSUME NEW q \in Requests, Acquire(q) \/ Rollback(q) PROVE AsBook' = AsBook
  BY <1>3, BookStays DEF Acquire, Rollback
<1>4. ASSUME NEW q \in Requests, InvoiceStep(q) PROVE Book!Next \/ AsBook' = AsBook
  <2>1. CASE CommitEditInvoice(q) \/ \E op \in {"cancel", "remove"} : CommitReverse(q, op)
    BY <2>1, InvoiceCommitsRefine
  <2>2. CASE ~(CommitEditInvoice(q) \/ \E op \in {"cancel", "remove"} : CommitReverse(q, op))
    <3>1. UNCHANGED <<invoice, credit>>
      BY <1>4, <2>2 DEF InvoiceStep, BeginEditInvoice, CheckEditInvoice, BeginReverse,
         CheckReverse, Begin, Proceed
    <3>2. QED
      BY <3>1, BookStays
  <2>3. QED
    BY <2>1, <2>2
<1>5. ASSUME NEW q \in Requests, PaymentStep(q) PROVE Book!Next \/ AsBook' = AsBook
  <2>1. CASE CommitRecord(q) \/ CommitUpdatePayment(q) \/ CommitDeletePayment(q)
    BY <2>1, PaymentCommitsRefine
  <2>2. CASE ~(CommitRecord(q) \/ CommitUpdatePayment(q) \/ CommitDeletePayment(q))
    <3>1. UNCHANGED <<invoice, credit>>
      BY <1>5, <2>2 DEF PaymentStep, BeginRecord, CheckRecord, BeginOnPayment,
         CheckUpdatePayment, CheckDeletePayment, Begin, Proceed
    <3>2. QED
      BY <3>1, BookStays
  <2>3. QED
    BY <2>1, <2>2
<1>6. ASSUME NEW q \in Requests, ChequeStep(q) PROVE AsBook' = AsBook
  <2>1. UNCHANGED <<invoice, credit>>
    BY <1>6 DEF ChequeStep, BeginCheque, CheckCheque, CommitCheque, Begin, Proceed
  <2>2. QED
    BY <2>1, BookStays
<1>7. QED
  BY <1>1, <1>2, <1>3, <1>4, <1>5, <1>6 DEF Next

\* The handlers of invoices, payments and credit notes, however their steps
\* interleave, implement an invoice whose balance is read and changed in one step.
THEOREM HandlersImplementBook == Spec => ImplementsBook
<1>1. Init => Book!Init
  <2> SUFFICES ASSUME Init PROVE Book!Init
    OBVIOUS
  <2>1. \A i \in Invoices : LiveCredits(i) = {} /\ Credited(i, {}) = 0
    BY NoCredits DEF Init, LiveCredits
  <2>2. \A i \in Invoices : Phase(i) = "none" /\ invoice[i].total = 0 /\ invoice[i].paid = 0
    BY DEF Init, Phase
  <2>3. QED
    BY <2>1, <2>2 DEF Book!Init, AsBook
<1>2. QED
  BY <1>1, NextRefines, Invariance, PTL DEF Spec, ImplementsBook, Book!Spec
=============================================================================
