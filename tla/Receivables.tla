---------------------------- MODULE Receivables ----------------------------
(***************************************************************************)
(* What customers owe one branch: sales invoices, the payments received    *)
(* for them, credit notes and the deposit history of cheques               *)
(* (invoices.service.ts; cheque() of finance.service.ts).                  *)
(*                                                                         *)
(* Handlers interleave as RowLocks describes.  Abstracted: a credit note   *)
(* is posted, edited or cancelled in one step (Payables has the steps of   *)
(* these handlers, which debit notes share, one by one; from its           *)
(* validation to its commit such a handler holds the invoice's lock), the  *)
(* goods of an invoice move as one unit, a payment is made by cheque or    *)
(* otherwise, into one of two bank accounts or none.  Credit limit, account checks,  *)
(* numbering and stock refusals and the replays of create and update       *)
(* change nothing: such a request takes the Rollback step.                 *)
(***************************************************************************)
EXTENDS Amounts, RowLocks

CONSTANTS
  Invoices, Notes, Payments,
  Keys,       \* requestIds the clients send with a payment
  MaxAmount,  \* the largest amount a money column holds
  Branch,     \* the branch row
  Receipts,   \* the payments clients record
  Edits,      \* what they ask of updatePayment(); see EditType
  Ops         \* the handlers the clients call

Amount == 0 .. MaxAmount
Methods == {"cheque", "other"}
Banks == {"bank", "second"}
Accounts == Banks \cup {"none"}

\* RecordPaymentDto, and UpdatePaymentDto: its absent amount is 0, its absent
\* method or account "keep".
ReceiptType == [amount : Amount, method : Methods, account : Accounts]
EditType == [amount : Amount, method : Methods \cup {"keep"}, account : Accounts \cup {"keep"}]

ASSUME ReceivablesAssumption ==
  /\ IsFiniteSet(Invoices) /\ IsFiniteSet(Notes) /\ IsFiniteSet(Payments)
  /\ MaxAmount \in Nat /\ Receipts \subseteq ReceiptType /\ Edits \subseteq EditType
  /\ Branch \notin Invoices
  /\ NoOne \notin Invoices \cup Notes \cup Payments \cup Keys

VARIABLES
  invoice,    \* invoice[i]: status, total, paid, how often its goods are out, deleted
  payment,    \* payment[p]: state, invoice, requestId, amount, method, account, last cheque event
  credit      \* credit[n]: state, invoice it refers to, total

vars == <<lock, pc, job, invoice, payment, credit>>

Rows == {Branch} \cup Invoices
Issued == {"UNPAID", "PARTIALLY_PAID", "PAID"}
NoMoney == [amount |-> 0, method |-> "keep", account |-> "keep"]
NoJob == [op |-> "none", want |-> {}, invoice |-> NoOne, payment |-> NoOne, key |-> NoOne,
          draft |-> FALSE, total |-> 0, money |-> NoMoney, paid |-> 0, status |-> "NONE", moves |-> 0]

-----------------------------------------------------------------------------
(* Reads                                                                    *)

LiveCredits(i) == {n \in Notes : credit[n].state = "live" /\ credit[n].invoice = i}
CreditTotals == [n \in Notes |-> credit[n].total]
Credited(i, but) == SumOf(LiveCredits(i) \ but, CreditTotals)

\* A faulty NetTotal: what was returned can be paid again.
FaultyNetTotal(i) == invoice[i].total

\* What the invoice asks for once its posted credit notes are taken off.
NetTotal(i) == invoice[i].total - Credited(i, {})

LivePayments(i) == {p \in Payments : payment[p].state = "live" /\ payment[p].invoice = i}
PaymentAmounts == [p \in Payments |-> payment[p].amount]

\* Open to credit notes: issued, not cancelled, not deleted.
Open(i) == invoice[i].status \in Issued /\ ~invoice[i].deleted

\* The status create() and update() store, and paidStatus() of the others.
SavedStatus(draft, paid, total) ==
  IF draft THEN "DRAFT"
  ELSE IF paid = total THEN "PAID" ELSE IF paid > 0 THEN "PARTIALLY_PAID" ELSE "UNPAID"
PaidStatus(paid, net) ==
  IF paid <= 0 THEN "UNPAID" ELSE IF paid >= net THEN "PAID" ELSE "PARTIALLY_PAID"

\* withCreditBalance(): what is due on an invoice when it is shown.
Due(i) == IF NetTotal(i) > invoice[i].paid THEN NetTotal(i) - invoice[i].paid ELSE 0
DueAmounts == [i \in Invoices |-> Due(i)]

\* The group summary adds up the invoices whose stored status is not PAID.
SummarisedReceivable ==
  SumOf({i \in Invoices : ~invoice[i].deleted
                          /\ invoice[i].status \in {"UNPAID", "PARTIALLY_PAID"}}, DueAmounts)

-----------------------------------------------------------------------------
(* The steps every handler shares                                           *)

Begin(q, args) ==
  /\ pc[q] = "idle" /\ args.op \in Ops
  /\ pc' = [pc EXCEPT ![q] = "first"]
  /\ job' = [job EXCEPT ![q] = args]
  /\ UNCHANGED <<lock, invoice, payment, credit>>

\* The next lock is granted; the branch comes first.
Acquire(q) ==
  /\ pc[q] = "first"
  /\ \E row \in job[q].want :
       /\ Branch \in job[q].want => row = Branch
       /\ CanLock(row)
       /\ lock' = [lock EXCEPT ![row] = q]
       /\ job' = [job EXCEPT ![q].want = @ \ {row}]
  /\ UNCHANGED <<pc, invoice, payment, credit>>

At(q, stage, op) == pc[q] = stage /\ job[q].op = op /\ job[q].want = {}

\* The checks of q have passed; args is what it is going to commit.
Proceed(q, args) ==
  /\ pc' = [pc EXCEPT ![q] = "checked"]
  /\ job' = [job EXCEPT ![q] = args]
  /\ UNCHANGED <<lock, invoice, payment, credit>>

End(q) ==
  /\ pc' = [pc EXCEPT ![q] = "idle"]
  /\ job' = [job EXCEPT ![q] = NoJob]
  /\ lock' = Released(q)

\* A refusal, a replay, a deadlock victim, the time limit and a crash.
Rollback(q) ==
  /\ pc[q] # "idle"
  /\ End(q)
  /\ UNCHANGED <<invoice, payment, credit>>

\* A payment row is inserted.
NewPayment(i, key, money) ==
  \E p \in Payments :
    /\ payment[p].state = "none"
    /\ payment' = [payment EXCEPT ![p] =
         [state |-> "live", invoice |-> i, key |-> key, amount |-> money.amount,
          method |-> money.method, account |-> money.account, event |-> "none"]]

\* The invoice row takes the paid amount and the status the request computed.
Settle(q) ==
  invoice' = [invoice EXCEPT ![job[q].invoice].paid = job[q].paid,
                             ![job[q].invoice].status = job[q].status]

-----------------------------------------------------------------------------
(* Invoices                                                                 *)

\* create() touches no row another handler can have read.
CreateInvoice(i, draft, total, key, money) ==
  /\ "invoice" \in Ops /\ invoice[i].status = "NONE" /\ CanLock(Branch)
  /\ money.amount <= total /\ (draft => money.amount = 0)
  /\ invoice' = [invoice EXCEPT ![i] =
       [status |-> SavedStatus(draft, money.amount, total), total |-> total,
        paid |-> money.amount, out |-> IF draft THEN 0 ELSE 1, deleted |-> FALSE]]
  /\ IF money.amount > 0 THEN NewPayment(i, key, money) ELSE UNCHANGED payment
  /\ UNCHANGED <<lock, pc, job, credit>>

BeginEditInvoice(q, i, draft, total, money) ==
  /\ invoice[i].status # "NONE"
  /\ Begin(q, [NoJob EXCEPT !.op = "edit", !.invoice = i, !.draft = draft, !.total = total,
                            !.money = money, !.want = {Branch, i}])

\* update(): nothing received, nothing credited, an issued invoice stays
\* issued; the goods of the old version come back, those of the new one leave.
CheckEditInvoice(q) ==
  LET i == job[q].invoice IN
  /\ At(q, "first", "edit")
  /\ ~invoice[i].deleted /\ invoice[i].status # "CANCELLED" /\ invoice[i].paid <= 0
  /\ invoice[i].status # "DRAFT" => ~job[q].draft
  /\ LiveCredits(i) = {}
  /\ job[q].money.amount <= job[q].total /\ (job[q].draft => job[q].money.amount = 0)
  /\ Proceed(q, [job[q] EXCEPT
       !.status = SavedStatus(job[q].draft, job[q].money.amount, job[q].total),
       !.paid = job[q].money.amount,
       !.moves = (IF job[q].draft THEN 0 ELSE 1) - (IF invoice[i].status = "DRAFT" THEN 0 ELSE 1)])

CommitEditInvoice(q) ==
  /\ At(q, "checked", "edit")
  /\ LET i == job[q].invoice IN
       invoice' = [invoice EXCEPT ![i].status = job[q].status, ![i].total = job[q].total,
                                  ![i].paid = job[q].paid, ![i].out = @ + job[q].moves]
  /\ IF job[q].money.amount > 0
     THEN NewPayment(job[q].invoice, NoOne, job[q].money) ELSE UNCHANGED payment
  /\ End(q)
  /\ UNCHANGED credit

BeginReverse(q, op, i) ==
  /\ invoice[i].status # "NONE"
  /\ Begin(q, [NoJob EXCEPT !.op = op, !.invoice = i, !.want = {i}])

\* A faulty CheckReverse: brings the goods back whatever the status.
FaultyCheckReverse(q, op) ==
  LET i == job[q].invoice IN
  /\ At(q, "first", op)
  /\ ~invoice[i].deleted /\ invoice[i].paid <= 0 /\ LiveCredits(i) = {}
  /\ Proceed(q, [job[q] EXCEPT !.moves = -1])

\* reverseInvoice(), of cancel() and remove(): the goods come back unless the
\* invoice is a draft or was cancelled before.
CheckReverse(q, op) ==
  LET i == job[q].invoice IN
  /\ At(q, "first", op)
  /\ ~invoice[i].deleted /\ invoice[i].paid <= 0 /\ LiveCredits(i) = {}
  /\ Proceed(q, [job[q] EXCEPT !.moves = IF invoice[i].status \in Issued THEN -1 ELSE 0])

CommitReverse(q, op) ==
  /\ At(q, "checked", op)
  /\ LET i == job[q].invoice IN
       invoice' = [invoice EXCEPT ![i].status = "CANCELLED", ![i].out = @ + job[q].moves,
                                  ![i].deleted = (op = "remove")]
  /\ End(q)
  /\ UNCHANGED <<payment, credit>>

-----------------------------------------------------------------------------
(* Payments received                                                        *)

BeginRecord(q, i, key, money) ==
  /\ invoice[i].status # "NONE"
  /\ Begin(q, [NoJob EXCEPT !.op = "record", !.invoice = i, !.key = key,
                            !.money = money, !.want = {i}])

\* A faulty CheckRecord: does not look the requestId up.
FaultyCheckRecord(q) ==
  LET i == job[q].invoice  paid == invoice[i].paid + job[q].money.amount IN
  /\ At(q, "first", "record")
  /\ Open(i) /\ job[q].money.amount > 0 /\ paid <= NetTotal(i)
  /\ Proceed(q, [job[q] EXCEPT !.paid = paid,
       !.status = IF paid = NetTotal(i) THEN "PAID" ELSE "PARTIALLY_PAID"])

\* recordPayment(): a new requestId, an issued invoice, and no more than is due.
CheckRecord(q) ==
  LET i == job[q].invoice  paid == invoice[i].paid + job[q].money.amount IN
  /\ At(q, "first", "record")
  /\ job[q].key # NoOne => \A p \in LivePayments(i) : payment[p].key # job[q].key
  /\ Open(i) /\ job[q].money.amount > 0 /\ paid <= NetTotal(i)
  /\ Proceed(q, [job[q] EXCEPT !.paid = paid,
       !.status = IF paid = NetTotal(i) THEN "PAID" ELSE "PARTIALLY_PAID"])

CommitRecord(q) ==
  /\ At(q, "checked", "record")
  /\ NewPayment(job[q].invoice, job[q].key, job[q].money)
  /\ Settle(q)
  /\ End(q)
  /\ UNCHANGED credit

\* lockPayment(): the invoice of a payment is read, locked, and both read again.
BeginOnPayment(q, op, p, money) ==
  /\ payment[p].state = "live" /\ ~invoice[payment[p].invoice].deleted
  /\ Begin(q, [NoJob EXCEPT !.op = op, !.payment = p, !.invoice = payment[p].invoice,
                            !.money = money, !.want = {payment[p].invoice}])

ChequeHistory(p) == payment[p].method = "cheque" /\ payment[p].event # "none"

\* The new amount, method and account of payment p under an edit.
EditedAmount(p, money) == IF money.amount = 0 THEN payment[p].amount ELSE money.amount
EditedMethod(p, money) == IF money.method = "keep" THEN payment[p].method ELSE money.method
EditedAccount(p, money) == IF money.account = "keep" THEN payment[p].account ELSE money.account
MoneyChanged(p, money) ==
  \/ EditedAmount(p, money) # payment[p].amount
  \/ EditedMethod(p, money) # payment[p].method
  \/ EditedAccount(p, money) # payment[p].account

\* updatePayment(): a deposited cheque keeps its money, and the invoice can
\* take the new amount.
CheckUpdatePayment(q) ==
  LET i == job[q].invoice  p == job[q].payment  money == job[q].money
      paid == invoice[i].paid - payment[p].amount + EditedAmount(p, money) IN
  /\ At(q, "first", "update")
  /\ payment[p].state = "live" /\ invoice[i].status # "CANCELLED"
  /\ ~(ChequeHistory(p) /\ MoneyChanged(p, money))
  /\ paid <= NetTotal(i)
  /\ Proceed(q, [job[q] EXCEPT !.paid = paid, !.status = PaidStatus(paid, NetTotal(i)),
                               !.money.amount = EditedAmount(p, money)])

CommitUpdatePayment(q) ==
  LET p == job[q].payment IN
  /\ At(q, "checked", "update")
  /\ payment[p].state = "live"
  /\ payment' = [payment EXCEPT ![p].amount = job[q].money.amount,
                                ![p].method = EditedMethod(p, job[q].money),
                                ![p].account = EditedAccount(p, job[q].money)]
  /\ Settle(q)
  /\ End(q)
  /\ UNCHANGED credit

\* deletePayment(): a cancelled invoice keeps its status.
CheckDeletePayment(q) ==
  LET i == job[q].invoice  p == job[q].payment
      paid == IF invoice[i].paid > payment[p].amount
              THEN invoice[i].paid - payment[p].amount ELSE 0 IN
  /\ At(q, "first", "delete")
  /\ payment[p].state = "live" /\ ~ChequeHistory(p)
  /\ Proceed(q, [job[q] EXCEPT !.paid = paid,
       !.status = IF invoice[i].status = "CANCELLED" THEN "CANCELLED"
                  ELSE PaidStatus(paid, NetTotal(i))])

CommitDeletePayment(q) ==
  /\ At(q, "checked", "delete")
  /\ payment[job[q].payment].state = "live"
  /\ payment' = [payment EXCEPT ![job[q].payment].state = "removed"]
  /\ Settle(q)
  /\ End(q)
  /\ UNCHANGED credit

-----------------------------------------------------------------------------
(* Cheques                                                                  *)

\* A faulty BeginCheque: locks nothing.
FaultyBeginCheque(q, action, p, bank) ==
  /\ payment[p].state = "live"
  /\ Begin(q, [NoJob EXCEPT !.op = action, !.payment = p, !.money.account = bank])

\* cheque() locks the branch and no invoice.
BeginCheque(q, action, p, bank) ==
  /\ payment[p].state = "live"
  /\ Begin(q, [NoJob EXCEPT !.op = action, !.payment = p, !.money.account = bank,
                            !.want = {Branch}])

CheckCheque(q, action) ==
  LET p == job[q].payment IN
  /\ At(q, "first", action)
  /\ payment[p].state = "live" /\ payment[p].method = "cheque" /\ Open(payment[p].invoice)
  /\ action = "deposit" <=> payment[p].account = "none"
  /\ Proceed(q, job[q])

\* The row is updated wherever it now stands; a row that is gone is an error.
CommitCheque(q, action) ==
  LET p == job[q].payment IN
  /\ At(q, "checked", action)
  /\ payment[p].state = "live"
  /\ payment' = [payment EXCEPT ![p].event = action,
                    ![p].account = job[q].money.account]
  /\ End(q)
  /\ UNCHANGED <<invoice, credit>>

-----------------------------------------------------------------------------
(* Credit notes, one step each                                              *)

\* A faulty ValidReturn: compares each note with the invoice by itself.
FaultyValidReturn(i, total, n) ==
  CanLock(i) /\ Open(i) /\ total <= invoice[i].total

\* validateReturn(), under the invoice's lock.
ValidReturn(i, total, n) ==
  /\ CanLock(i) /\ Open(i)
  /\ Credited(i, {n}) + total <= invoice[i].total

\* A new or a draft note is posted, or a posted one edited.
PostCredit(n, i, total) ==
  /\ "credit" \in Ops /\ credit[n].state \in {"none", "live"}
  /\ ValidReturn(i, total, n)
  /\ credit' = [credit EXCEPT ![n] = [state |-> "live", invoice |-> i, total |-> total]]
  /\ UNCHANGED <<lock, pc, job, invoice, payment>>

\* updateStatus() to CANCELLED takes no lock of the invoice.
CancelCredit(n) ==
  /\ "credit" \in Ops /\ credit[n].state = "live"
  /\ credit' = [credit EXCEPT ![n].state = "closed"]
  /\ UNCHANGED <<lock, pc, job, invoice, payment>>

-----------------------------------------------------------------------------
Init ==
  /\ lock = [row \in Rows |-> NoOne]
  /\ pc = [q \in Requests |-> "idle"]
  /\ job = [q \in Requests |-> NoJob]
  /\ invoice = [i \in Invoices |-> [status |-> "NONE", total |-> 0, paid |-> 0, out |-> 0,
                                    deleted |-> FALSE]]
  /\ payment = [p \in Payments |->
       [state |-> "none", invoice |-> NoOne, key |-> NoOne, amount |-> 0,
        method |-> "other", account |-> "none", event |-> "none"]]
  /\ credit = [n \in Notes |-> [state |-> "none", invoice |-> NoOne, total |-> 0]]

InvoiceStep(q) ==
  \/ \E i \in Invoices, draft \in BOOLEAN, total \in Amount, money \in Receipts \cup {NoMoney} :
       BeginEditInvoice(q, i, draft, total, money)
  \/ CheckEditInvoice(q) \/ CommitEditInvoice(q)
  \/ \E op \in {"cancel", "remove"} :
       \/ \E i \in Invoices : BeginReverse(q, op, i)
       \/ CheckReverse(q, op) \/ CommitReverse(q, op)

PaymentStep(q) ==
  \/ \E i \in Invoices, key \in Keys \cup {NoOne}, money \in Receipts :
       BeginRecord(q, i, key, money)
  \/ CheckRecord(q) \/ CommitRecord(q)
  \/ \E p \in Payments, edit \in Edits : BeginOnPayment(q, "update", p, edit)
  \/ CheckUpdatePayment(q) \/ CommitUpdatePayment(q)
  \/ \E p \in Payments : BeginOnPayment(q, "delete", p, NoMoney)
  \/ CheckDeletePayment(q) \/ CommitDeletePayment(q)

ChequeStep(q) ==
  \E action \in {"deposit", "reopen"} :
    \/ \E p \in Payments, bank \in IF action = "deposit" THEN Banks ELSE {"none"} :
         BeginCheque(q, action, p, bank)
    \/ CheckCheque(q, action) \/ CommitCheque(q, action)

Next ==
  \/ \E i \in Invoices, draft \in BOOLEAN, total \in Amount, key \in Keys \cup {NoOne},
        money \in Receipts \cup {NoMoney} : CreateInvoice(i, draft, total, key, money)
  \/ \E n \in Notes, i \in Invoices, total \in Amount : PostCredit(n, i, total)
  \/ \E n \in Notes : CancelCredit(n)
  \/ \E q \in Requests :
       Acquire(q) \/ Rollback(q) \/ InvoiceStep(q) \/ PaymentStep(q) \/ ChequeStep(q)

Spec == Init /\ [][Next]_vars

-----------------------------------------------------------------------------
(* Properties                                                               *)

InvoiceStatuses == Issued \cup {"NONE", "DRAFT", "CANCELLED"}

JobType ==
  [op : {"none", "edit", "cancel", "remove", "record", "update", "delete", "deposit", "reopen"},
   want : SUBSET Rows, invoice : Invoices \cup {NoOne}, payment : Payments \cup {NoOne},
   key : Keys \cup {NoOne}, draft : BOOLEAN, total : Amount, money : EditType,
   paid : Amount, status : InvoiceStatuses, moves : {-1, 0, 1}]

\* Every variable has its type; amountPaid, computed in one step and stored in
\* another, stays within a money column and never goes below zero.
TypeOK ==
  /\ lock \in [Rows -> Requests \cup {NoOne}]
  /\ pc \in [Requests -> {"idle", "first", "checked"}]
  /\ job \in [Requests -> JobType]
  /\ invoice \in [Invoices -> [status : InvoiceStatuses, total : Amount, paid : Amount,
                               out : Int, deleted : BOOLEAN]]
  /\ payment \in [Payments ->
       [state : {"none", "live", "removed"}, invoice : Invoices \cup {NoOne},
        key : Keys \cup {NoOne}, amount : Amount, method : Methods, account : Accounts,
        event : {"none", "deposit", "reopen"}]]
  /\ credit \in [Notes -> [state : {"none", "live", "closed"},
                           invoice : Invoices \cup {NoOne}, total : Amount]]

\* amountPaid, which every handler reads, recomputes and writes back, is the
\* sum of the invoice's payments: no update is lost.
PaidMatchesPayments ==
  \A i \in Invoices : invoice[i].paid = SumOf(LivePayments(i), PaymentAmounts)

\* Received money never exceeds the invoice, nor do its posted credit notes,
\* whoever records, corrects, edits and returns at the same time.
MoneyWithinTotal ==
  \A i \in Invoices :
    invoice[i].paid <= invoice[i].total /\ Credited(i, {}) <= invoice[i].total

\* A draft, cancelled or deleted invoice has no payments and no posted credit
\* notes.
ClosedInvoicesAreEmpty ==
  \A i \in Invoices : ~Open(i) => LivePayments(i) = {} /\ LiveCredits(i) = {}

\* The stored status agrees with the money received, although credit notes
\* move the bound it was computed with.
StatusFollowsMoney ==
  \A i \in Invoices :
    /\ invoice[i].status = "UNPAID" => invoice[i].paid = 0
    /\ invoice[i].status = "PARTIALLY_PAID" => invoice[i].paid > 0

\* The goods of an invoice are out once while it is issued and back otherwise,
\* even if it is cancelled or removed twice.
GoodsMoveOnce ==
  \A i \in Invoices : invoice[i].out = IF Open(i) THEN 1 ELSE 0

\* A repeated requestId records one payment on an invoice.
OnePaymentPerRequest ==
  \A p, r \in Payments :
    /\ payment[p].state = "live" /\ payment[r].state = "live" /\ payment[p].key # NoOne
    /\ payment[p].invoice = payment[r].invoice /\ payment[p].key = payment[r].key
    => p = r

\* Together: amountPaid is the sum of the payments, the status follows it, and no
\* payment was recorded twice.
PaymentsAddUp == PaidMatchesPayments /\ StatusFollowsMoney /\ OnePaymentPerRequest

\* Together: goods are out and money is in only while an invoice stands.
InvoicesStayWhole == GoodsMoveOnce /\ ClosedInvoicesAreEmpty

\* A deposited cheque changes account only through a re-opening, however many
\* deposits are requested at once.
DepositsAlternateStep ==
  \A p \in Payments :
    payment[p].event = "deposit" /\ payment'[p].account # payment[p].account
      => payment'[p].event = "reopen"
DepositsAlternate == [][DepositsAlternateStep]_vars

\* A cheque with deposit history keeps its amount and method and is not deleted;
\* its account changes only with a new event.
ChequeHistoryIsFrozen ==
  [][\A p \in Payments :
       payment[p].state = "live" /\ ChequeHistory(p)
         => /\ payment'[p].state = "live"
            /\ payment'[p].amount = payment[p].amount
            /\ payment'[p].method = payment[p].method
            /\ payment'[p].event = payment[p].event => payment'[p].account = payment[p].account]_vars

\* The receivable of the group summary is all that is still due, net of returns.
SummaryIsComplete ==
  SummarisedReceivable = SumOf({i \in Invoices : Open(i)}, DueAmounts)

\* Every handler, however its steps interleave, is one step of the invoice book.
Phase(i) ==
  CASE invoice[i].status = "NONE" -> "none"
    [] invoice[i].status = "DRAFT" -> "draft"
    [] invoice[i].status = "CANCELLED" -> "closed"
    [] OTHER -> "issued"

AsBook == [i \in Invoices |-> [phase |-> Phase(i), total |-> invoice[i].total,
                              paid |-> invoice[i].paid, credited |-> Credited(i, {})]]

Book == INSTANCE InvoiceBook WITH book <- AsBook

ImplementsBook == Book!Spec

-----------------------------------------------------------------------------
(* The inductive invariant of Receivables: what a request in               *)
(* mid-transaction may rely on.  A handler of an invoice holds its lock    *)
(* from the second read to the commit; what it computed under the lock     *)
(* still fits the rows when it writes them.  The handler of a cheque holds *)
(* the branch only and relies on no invoice.                               *)

\* A finished check asks for no more locks.
NoMoreLocks(q) == pc[q] = "checked" => job[q].want = {}

\* Handlers that lock the invoice they read and write.
OnInvoice == {"edit", "cancel", "remove", "record", "update", "delete"}
InvoiceJob(q) ==
  LET i == job[q].invoice IN
  job[q].op \in OnInvoice =>
    /\ i \in Invoices /\ invoice[i].status # "NONE"
    /\ i \in job[q].want \/ lock[i] = q

\* update(): the invoice has neither money nor posted returns.
EditJob(q) ==
  LET i == job[q].invoice  money == job[q].money IN
  job[q].op = "edit" =>
    /\ money.amount > 0 => money \in ReceiptType
    /\ pc[q] = "checked" =>
         /\ ~invoice[i].deleted /\ invoice[i].status # "CANCELLED"
         /\ invoice[i].paid = 0 /\ LiveCredits(i) = {}
         /\ job[q].draft => invoice[i].status = "DRAFT" /\ money.amount = 0
         /\ money.amount <= job[q].total /\ job[q].paid = money.amount
         /\ job[q].status = SavedStatus(job[q].draft, money.amount, job[q].total)
         /\ job[q].moves = (IF job[q].draft THEN 0 ELSE 1)
                             - (IF invoice[i].status = "DRAFT" THEN 0 ELSE 1)

\* cancel() and remove(): the same, and the goods still are where they were.
ReverseJob(q) ==
  LET i == job[q].invoice IN
  job[q].op \in {"cancel", "remove"} /\ pc[q] = "checked" =>
    /\ ~invoice[i].deleted /\ invoice[i].paid = 0 /\ LiveCredits(i) = {}
    /\ job[q].moves = IF invoice[i].status \in Issued THEN -1 ELSE 0

\* recordPayment(): the requestId is new and the amount still due.
RecordJob(q) ==
  LET i == job[q].invoice  money == job[q].money IN
  job[q].op = "record" =>
    /\ money \in ReceiptType
    /\ pc[q] = "checked" =>
         /\ Open(i) /\ money.amount > 0
         /\ job[q].paid = invoice[i].paid + money.amount /\ job[q].paid <= NetTotal(i)
         /\ job[q].status \in {"PARTIALLY_PAID", "PAID"}
         /\ job[q].key # NoOne => \A p \in LivePayments(i) : payment[p].key # job[q].key

\* updatePayment() and deletePayment(): the payment stands as it was read, and
\* the status fits the amount that will be left.
PaymentJob(q) ==
  LET i == job[q].invoice  p == job[q].payment IN
  job[q].op \in {"update", "delete"} =>
    /\ p \in Payments /\ payment[p].state # "none" /\ payment[p].invoice = i
    /\ pc[q] = "checked" =>
         /\ payment[p].state = "live"
         /\ job[q].op = "update" =>
              /\ job[q].money.amount > 0 /\ job[q].paid <= NetTotal(i)
              /\ job[q].paid = invoice[i].paid - payment[p].amount + job[q].money.amount
              /\ job[q].status \in {"PARTIALLY_PAID", "PAID"}
         /\ job[q].op = "delete" =>
              /\ job[q].paid = invoice[i].paid - payment[p].amount
              /\ job[q].status \in Issued
              /\ job[q].status = "UNPAID" => job[q].paid = 0
              /\ job[q].status = "PARTIALLY_PAID" => job[q].paid > 0

\* cheque(): it writes an account into a payment that exists.
ChequeJob(q) ==
  job[q].op \in {"deposit", "reopen"} =>
    job[q].payment \in Payments /\ job[q].money.account \in Accounts

JobsOK(q) ==
  /\ NoMoreLocks(q) /\ InvoiceJob(q) /\ EditJob(q) /\ ReverseJob(q)
  /\ RecordJob(q) /\ PaymentJob(q) /\ ChequeJob(q)

\* A payment that was ever recorded is money for an invoice.
PaymentsHaveMoney ==
  \A p \in Payments : payment[p].state # "none" =>
    payment[p].invoice \in Invoices /\ payment[p].amount > 0

IInv ==
  /\ TypeOK
  /\ PaidMatchesPayments /\ MoneyWithinTotal /\ ClosedInvoicesAreEmpty
  /\ StatusFollowsMoney /\ GoodsMoveOnce /\ OnePaymentPerRequest
  /\ PaymentsHaveMoney
  /\ \A q \in Requests : JobsOK(q)
=============================================================================
