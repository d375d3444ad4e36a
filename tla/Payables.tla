------------------------------ MODULE Payables ------------------------------
(***************************************************************************)
(* What one branch owes one supplier: purchase bills, debit notes that     *)
(* return part of a bill, and Payment-Out receipts that settle bills       *)
(* (documents.service.ts, payment-out.service.ts).                         *)
(*                                                                         *)
(* Handlers interleave as RowLocks describes.  Abstracted: ISSUED and      *)
(* ACCEPTED are one posted status, the rows of a receipt are summed per    *)
(* bill over the payment sources, debit notes return value and no goods    *)
(* (returnStock false), and a bill keeps of its stock movement the flag    *)
(* stockAdjusted.  Account checks, numbering and a refusal for lack of     *)
(* stock change nothing here: such a request takes the Rollback step.      *)
(***************************************************************************)
EXTENDS Amounts, RowLocks

CONSTANTS
  Bills,      \* purchase bills; numbers, so that they have the order of their ids
  Notes,      \* debit notes
  Receipts,   \* Payment-Out receipts
  Keys,       \* requestIds the clients send with a new receipt
  MaxAmount,  \* the largest amount a money column holds
  Branch,     \* the branch row
  Ops         \* the handlers the clients call

ASSUME PayablesAssumption ==
  /\ Bills \subseteq Nat /\ IsFiniteSet(Bills)
  /\ IsFiniteSet(Notes) /\ IsFiniteSet(Receipts)
  /\ MaxAmount \in Nat
  /\ Bills \cap Notes = {} /\ Branch \notin Bills \cup Notes
  /\ NoOne \notin Bills \cup Notes \cup Receipts

VARIABLES
  bill,       \* bill[b]: status, total, paid, stockAdjusted, deleted
  note,       \* note[n]: status, bill it returns to, total, deleted
  receipt,    \* receipt[r]: state, requestId, amount of its rows per bill
  unguarded   \* auxiliary: bills paid by a create that had not locked them

vars == <<lock, pc, job, bill, note, receipt, unguarded>>

Rows == {Branch} \cup Bills \cup Notes
Amount == 0 .. MaxAmount
Statuses == {"NONE", "DRAFT", "ISSUED", "REJECTED", "CANCELLED"}
NoRows == [b \in Bills |-> 0]
NoJob == [op |-> "none", want |-> {}, bill |-> NoOne, note |-> NoOne,
          receipt |-> NoOne, key |-> NoOne, status |-> "NONE", total |-> 0,
          plan |-> NoRows]

-----------------------------------------------------------------------------
(* Reads                                                                    *)

\* A posted return counts against its bill (LIVE_DEBIT_NOTE).
LiveNotes(b) ==
  {n \in Notes : note[n].status = "ISSUED" /\ note[n].bill = b /\ ~note[n].deleted}
NoteTotals == [n \in Notes |-> note[n].total]
Returned(b, but) == SumOf(LiveNotes(b) \ but, NoteTotals)

\* Rows of receipts that are not voided count as paid.
LiveReceipts == {r \in Receipts : receipt[r].state = "live"}
RowsOn(b) == [r \in Receipts |-> receipt[r].rows[b]]

\* A faulty Outstanding: forgets what was returned.
FaultyOutstanding(b) == bill[b].total - bill[b].paid

\* openBills(): issued bills with something left to pay.
Outstanding(b) == bill[b].total - Returned(b, {}) - bill[b].paid
OpenBills ==
  {b \in Bills : bill[b].status = "ISSUED" /\ ~bill[b].deleted /\ Outstanding(b) > 0}

\* The bill's row exists and is not deleted.
Stands(b) == bill[b].status # "NONE" /\ ~bill[b].deleted

BillsOf(r) == {b \in Bills : receipt[r].rows[b] > 0}
Stored(r) == receipt[r].state \in {"live", "voided"}

\* validateReturn(): the source is posted and its returns stay within its total.
ValidReturn(b, total, n) ==
  /\ bill[b].status = "ISSUED" /\ ~bill[b].deleted
  /\ Returned(b, {n}) + total <= bill[b].total

\* updateStatus(): which changes of status a bill or a debit note may make.
StatusMayChange(from, to) ==
  /\ from \in {"DRAFT", "ISSUED", "REJECTED"} /\ from # to
  /\ \/ to \in {"ISSUED", "CANCELLED"}
     \/ to = "REJECTED" /\ from = "DRAFT"

-----------------------------------------------------------------------------
(* The steps every handler shares                                           *)

\* The branch is locked first, a note before its bill, bills by ascending id.
Precedes(s, t) ==
  \/ s = Branch /\ t # Branch
  \/ s \in Notes /\ t \in Bills
  \/ s \in Bills /\ t \in Bills /\ s < t

Begin(q, args) ==
  /\ pc[q] = "idle" /\ args.op \in Ops
  /\ pc' = [pc EXCEPT ![q] = "first"]
  /\ job' = [job EXCEPT ![q] = args]
  /\ UNCHANGED <<lock, bill, note, receipt, unguarded>>

\* The next lock of the request is granted.
Acquire(q) ==
  /\ pc[q] \in {"first", "second"}
  /\ \E row \in job[q].want :
       /\ \A other \in job[q].want : ~Precedes(other, row)
       /\ CanLock(row)
       /\ lock' = [lock EXCEPT ![row] = q]
       /\ job' = [job EXCEPT ![q].want = @ \ {row}]
  /\ UNCHANGED <<pc, bill, note, receipt, unguarded>>

\* q has all the locks it asked for in this stage of handler op.
At(q, stage, op) == pc[q] = stage /\ job[q].op = op /\ job[q].want = {}

Proceed(q, stage, args) ==
  /\ pc' = [pc EXCEPT ![q] = stage]
  /\ job' = [job EXCEPT ![q] = args]
  /\ UNCHANGED <<lock, bill, note, receipt, unguarded>>

End(q) ==
  /\ pc' = [pc EXCEPT ![q] = "idle"]
  /\ job' = [job EXCEPT ![q] = NoJob]
  /\ lock' = Released(q)

\* A refused check, an idempotent replay, a deadlock victim, the 30 s timeout
\* and a crash before COMMIT all end the transaction with nothing written.
Rollback(q) ==
  /\ pc[q] # "idle"
  /\ End(q)
  /\ UNCHANGED <<bill, note, receipt, unguarded>>

-----------------------------------------------------------------------------
(* Payment-Out receipts                                                     *)

\* create(), also reached through recordForBill().
BeginPay(q, key) ==
  Begin(q, [NoJob EXCEPT !.op = "pay", !.key = key, !.want = {Branch}])

\* A faulty ListOpenBills: does not look the requestId up.
FaultyListOpenBills(q) ==
  /\ At(q, "first", "pay")
  /\ Proceed(q, "second", [job[q] EXCEPT !.want = OpenBills])

\* Under the branch lock: no receipt has this requestId yet; list the open
\* bills, which are then locked one by one.
ListOpenBills(q) ==
  /\ At(q, "first", "pay")
  /\ \A r \in Receipts : Stored(r) => receipt[r].key # job[q].key
  /\ Proceed(q, "second", [job[q] EXCEPT !.want = OpenBills])

\* The open bills are read again and the amount is spread over them: by the
\* client's allocations or oldest first, never more than is outstanding.
Allocate(q) ==
  /\ At(q, "second", "pay")
  /\ \E plan \in [Bills -> Amount] :
       /\ \E b \in Bills : plan[b] > 0
       /\ \A b \in Bills :
            plan[b] > 0 => b \in OpenBills /\ plan[b] <= Outstanding(b)
       /\ Proceed(q, "checked", [job[q] EXCEPT !.plan = plan])

\* The rows are inserted and paidAmount incremented; an increment waits for a
\* bill another transaction has locked but checks nothing.
CommitPay(q) ==
  /\ At(q, "checked", "pay")
  /\ \A b \in Bills : job[q].plan[b] > 0 => CanWrite(q, b)
  /\ \E r \in Receipts :
       /\ receipt[r].state = "none"
       /\ receipt' = [receipt EXCEPT ![r] =
            [state |-> "live", key |-> job[q].key, rows |-> job[q].plan]]
  /\ bill' = [b \in Bills |-> [bill[b] EXCEPT !.paid = @ + job[q].plan[b]]]
  /\ unguarded' = unguarded \cup
       {b \in Bills : job[q].plan[b] > 0 /\ lock[b] # q}
  /\ End(q)
  /\ UNCHANGED note

\* void(), restore() and remove() read the bills of a receipt, lock them in
\* order (lockReceipt) and only then read the receipt itself.
BeginOnReceipt(q, op, r) ==
  /\ Stored(r)
  /\ Begin(q, [NoJob EXCEPT !.op = op, !.receipt = r, !.want = BillsOf(r)])

\* A faulty CheckVoid: trusts what was read before the locks.
FaultyCheckVoid(q) ==
  /\ At(q, "first", "void")
  /\ Proceed(q, "checked", [job[q] EXCEPT !.plan = receipt[job[q].receipt].rows])

CheckVoid(q) ==
  /\ At(q, "first", "void")
  /\ receipt[job[q].receipt].state = "live"
  /\ Proceed(q, "checked", [job[q] EXCEPT !.plan = receipt[job[q].receipt].rows])

CommitVoid(q) ==
  /\ At(q, "checked", "void")
  /\ bill' = [b \in Bills |-> [bill[b] EXCEPT !.paid = @ - job[q].plan[b]]]
  /\ receipt' = [receipt EXCEPT ![job[q].receipt].state = "voided"]
  /\ End(q)
  /\ UNCHANGED <<note, unguarded>>

\* A faulty CheckRestore: puts the amounts back without a look at the bills.
FaultyCheckRestore(q) ==
  /\ At(q, "first", "restore")
  /\ receipt[job[q].receipt].state = "voided"
  /\ Proceed(q, "checked", [job[q] EXCEPT !.plan = receipt[job[q].receipt].rows])

\* Every bill must be open with as much outstanding as the receipt took.
CheckRestore(q) ==
  /\ At(q, "first", "restore")
  /\ receipt[job[q].receipt].state = "voided"
  /\ \A b \in BillsOf(job[q].receipt) :
       b \in OpenBills /\ receipt[job[q].receipt].rows[b] <= Outstanding(b)
  /\ Proceed(q, "checked", [job[q] EXCEPT !.plan = receipt[job[q].receipt].rows])

CommitRestore(q) ==
  /\ At(q, "checked", "restore")
  /\ bill' = [b \in Bills |-> [bill[b] EXCEPT !.paid = @ + job[q].plan[b]]]
  /\ receipt' = [receipt EXCEPT ![job[q].receipt].state = "live"]
  /\ End(q)
  /\ UNCHANGED <<note, unguarded>>

\* Only the rows that are not voided come off the bills.
CheckRemove(q) ==
  /\ At(q, "first", "remove")
  /\ Stored(job[q].receipt)
  /\ Proceed(q, "checked",
       IF receipt[job[q].receipt].state = "live"
       THEN [job[q] EXCEPT !.plan = receipt[job[q].receipt].rows] ELSE job[q])

CommitRemove(q) ==
  /\ At(q, "checked", "remove")
  /\ bill' = [b \in Bills |-> [bill[b] EXCEPT !.paid = @ - job[q].plan[b]]]
  /\ receipt' = [receipt EXCEPT ![job[q].receipt].state = "removed"]
  /\ End(q)
  /\ UNCHANGED <<note, unguarded>>

-----------------------------------------------------------------------------
(* Purchase bills                                                           *)

\* create() of a bill touches no row another handler can have read.
CreateBill(b, status, total) ==
  /\ "bill" \in Ops /\ bill[b].status = "NONE" /\ CanLock(Branch)
  /\ bill' = [bill EXCEPT ![b] = [status |-> status, total |-> total, paid |-> 0,
               stockAdjusted |-> status = "ISSUED", deleted |-> FALSE]]
  /\ UNCHANGED <<lock, pc, job, note, receipt, unguarded>>

BeginEditBill(q, b, status, total) ==
  /\ bill[b].status # "NONE"
  /\ Begin(q, [NoJob EXCEPT !.op = "editBill", !.bill = b, !.status = status,
                            !.total = total, !.want = {Branch, b}])

\* A faulty CheckEditBill: does not ask for the payments to be voided first.
FaultyCheckEditBill(q) ==
  LET b == job[q].bill IN
  /\ At(q, "first", "editBill")
  /\ ~bill[b].deleted /\ LiveNotes(b) = {} /\ bill[b].status \in {"DRAFT", "ISSUED"}
  /\ Proceed(q, "checked", job[q])

\* update(): no paid bill and no bill with posted returns is edited, and an
\* issued one stays issued.
CheckEditBill(q) ==
  LET b == job[q].bill IN
  /\ At(q, "first", "editBill")
  /\ ~bill[b].deleted /\ bill[b].paid <= 0 /\ LiveNotes(b) = {}
  /\ \/ bill[b].status = "DRAFT"
     \/ bill[b].status = "ISSUED" /\ job[q].status = "ISSUED"
  /\ Proceed(q, "checked", job[q])

CommitEditBill(q) ==
  LET b == job[q].bill IN
  /\ At(q, "checked", "editBill")
  /\ bill' = [bill EXCEPT ![b].status = job[q].status, ![b].total = job[q].total,
                          ![b].stockAdjusted = job[q].status = "ISSUED"]
  /\ End(q)
  /\ UNCHANGED <<note, receipt, unguarded>>

BeginBillStatus(q, b, status) ==
  /\ bill[b].status # "NONE"
  /\ Begin(q, [NoJob EXCEPT !.op = "billStatus", !.bill = b, !.status = status,
                            !.want = {b}])

\* A faulty CheckBillStatus: cancels whatever hangs on the bill.
FaultyCheckBillStatus(q) ==
  LET b == job[q].bill IN
  /\ At(q, "first", "billStatus")
  /\ ~bill[b].deleted /\ StatusMayChange(bill[b].status, job[q].status)
  /\ Proceed(q, "checked", job[q])

\* updateStatus(): a bill with payments or posted returns is not cancelled.
CheckBillStatus(q) ==
  LET b == job[q].bill IN
  /\ At(q, "first", "billStatus")
  /\ ~bill[b].deleted /\ StatusMayChange(bill[b].status, job[q].status)
  /\ job[q].status = "CANCELLED" => bill[b].paid <= 0 /\ LiveNotes(b) = {}
  /\ Proceed(q, "checked", job[q])

CommitBillStatus(q) ==
  LET b == job[q].bill IN
  /\ At(q, "checked", "billStatus")
  /\ bill' = [bill EXCEPT ![b].status = job[q].status,
       ![b].stockAdjusted = (@ \/ job[q].status = "ISSUED") /\ job[q].status # "CANCELLED"]
  /\ End(q)
  /\ UNCHANGED <<note, receipt, unguarded>>

\* remove() of a document reads its status without a lock or a transaction.
BeginDeleteBill(q, b) ==
  /\ bill[b].status \in {"DRAFT", "CANCELLED"} /\ ~bill[b].deleted
  /\ Begin(q, [NoJob EXCEPT !.op = "deleteBill", !.bill = b])

CommitDeleteBill(q) ==
  LET b == job[q].bill IN
  /\ At(q, "first", "deleteBill")
  /\ CanWrite(q, b)
  /\ bill' = [bill EXCEPT ![b].deleted = TRUE]
  /\ End(q)
  /\ UNCHANGED <<note, receipt, unguarded>>

-----------------------------------------------------------------------------
(* Debit notes                                                              *)

\* create() and update() of a note.  A new note has no row yet (NoOne), and
\* priceDocument() finds its bill before the first lock.
BeginSaveNote(q, n, b, status, total) ==
  /\ IF n = NoOne THEN Stands(b) ELSE note[n].status # "NONE"
  /\ Begin(q, [NoJob EXCEPT !.op = "saveNote", !.note = n, !.bill = b,
       !.status = status, !.total = total, !.want = {Branch} \cup ({n} \ {NoOne})])

\* What update() accepts: an issued note stays issued, its bill is found.
MayEditNote(n, b, status) ==
  /\ ~note[n].deleted /\ Stands(b)
  /\ note[n].status = "DRAFT" \/ (note[n].status = "ISSUED" /\ status = "ISSUED")

\* A faulty ReadSaveNote: validates the return without the bill's lock.
FaultyReadSaveNote(q) ==
  /\ At(q, "first", "saveNote")
  /\ job[q].note # NoOne => MayEditNote(job[q].note, job[q].bill, job[q].status)
  /\ Proceed(q, "second", job[q])

\* A note about to be posted locks its bill before it is validated.
ReadSaveNote(q) ==
  /\ At(q, "first", "saveNote")
  /\ job[q].note # NoOne => MayEditNote(job[q].note, job[q].bill, job[q].status)
  /\ Proceed(q, "second", [job[q] EXCEPT
       !.want = IF job[q].status = "ISSUED" THEN {job[q].bill} ELSE {}])

CheckSaveNote(q) ==
  /\ At(q, "second", "saveNote")
  /\ job[q].status = "ISSUED" => ValidReturn(job[q].bill, job[q].total, job[q].note)
  /\ Proceed(q, "checked", job[q])

CommitSaveNote(q) ==
  /\ At(q, "checked", "saveNote")
  /\ \E n \in Notes :
       /\ IF job[q].note = NoOne THEN note[n].status = "NONE" ELSE n = job[q].note
       /\ note' = [note EXCEPT ![n] = [status |-> job[q].status, bill |-> job[q].bill,
                   total |-> job[q].total, deleted |-> FALSE]]
  /\ End(q)
  /\ UNCHANGED <<bill, receipt, unguarded>>

BeginNoteStatus(q, n, status) ==
  /\ note[n].status # "NONE"
  /\ Begin(q, [NoJob EXCEPT !.op = "noteStatus", !.note = n, !.status = status,
                            !.want = {n}])

\* updateStatus(): posting locks and validates the bill the note returns to.
ReadNoteStatus(q) ==
  LET n == job[q].note IN
  /\ At(q, "first", "noteStatus")
  /\ ~note[n].deleted /\ StatusMayChange(note[n].status, job[q].status)
  /\ Proceed(q, "second", [job[q] EXCEPT !.bill = note[n].bill, !.total = note[n].total,
       !.want = IF job[q].status = "ISSUED" THEN {note[n].bill} ELSE {}])

CheckNoteStatus(q) ==
  /\ At(q, "second", "noteStatus")
  /\ job[q].status = "ISSUED" => ValidReturn(job[q].bill, job[q].total, job[q].note)
  /\ Proceed(q, "checked", job[q])

CommitNoteStatus(q) ==
  /\ At(q, "checked", "noteStatus")
  /\ note' = [note EXCEPT ![job[q].note].status = job[q].status]
  /\ End(q)
  /\ UNCHANGED <<bill, receipt, unguarded>>

BeginDeleteNote(q, n) ==
  /\ note[n].status \in {"DRAFT", "CANCELLED"} /\ ~note[n].deleted
  /\ Begin(q, [NoJob EXCEPT !.op = "deleteNote", !.note = n])

CommitDeleteNote(q) ==
  /\ At(q, "first", "deleteNote")
  /\ CanWrite(q, job[q].note)
  /\ note' = [note EXCEPT ![job[q].note].deleted = TRUE]
  /\ End(q)
  /\ UNCHANGED <<bill, receipt, unguarded>>

-----------------------------------------------------------------------------
Init ==
  /\ lock = [row \in Rows |-> NoOne]
  /\ pc = [q \in Requests |-> "idle"]
  /\ job = [q \in Requests |-> NoJob]
  /\ bill = [b \in Bills |-> [status |-> "NONE", total |-> 0, paid |-> 0,
                              stockAdjusted |-> FALSE, deleted |-> FALSE]]
  /\ note = [n \in Notes |-> [status |-> "NONE", bill |-> NoOne, total |-> 0,
                              deleted |-> FALSE]]
  /\ receipt = [r \in Receipts |-> [state |-> "none", key |-> NoOne, rows |-> NoRows]]
  /\ unguarded = {}

PayStep(q) ==
  \/ \E key \in Keys : BeginPay(q, key)
  \/ ListOpenBills(q) \/ Allocate(q) \/ CommitPay(q)

ReceiptStep(q) ==
  \/ \E r \in Receipts, op \in {"void", "restore", "remove"} : BeginOnReceipt(q, op, r)
  \/ CheckVoid(q) \/ CommitVoid(q)
  \/ CheckRestore(q) \/ CommitRestore(q)
  \/ CheckRemove(q) \/ CommitRemove(q)

BillStep(q) ==
  \/ \E b \in Bills, status \in {"DRAFT", "ISSUED"}, total \in Amount :
       BeginEditBill(q, b, status, total)
  \/ CheckEditBill(q) \/ CommitEditBill(q)
  \/ \E b \in Bills, status \in {"ISSUED", "REJECTED", "CANCELLED"} :
       BeginBillStatus(q, b, status)
  \/ CheckBillStatus(q) \/ CommitBillStatus(q)
  \/ \E b \in Bills : BeginDeleteBill(q, b)
  \/ CommitDeleteBill(q)

NoteStep(q) ==
  \/ \E n \in Notes \cup {NoOne}, b \in Bills, status \in {"DRAFT", "ISSUED"},
        total \in Amount : BeginSaveNote(q, n, b, status, total)
  \/ ReadSaveNote(q) \/ CheckSaveNote(q) \/ CommitSaveNote(q)
  \/ \E n \in Notes, status \in {"ISSUED", "REJECTED", "CANCELLED"} :
       BeginNoteStatus(q, n, status)
  \/ ReadNoteStatus(q) \/ CheckNoteStatus(q) \/ CommitNoteStatus(q)
  \/ \E n \in Notes : BeginDeleteNote(q, n)
  \/ CommitDeleteNote(q)

Next ==
  \/ \E b \in Bills, status \in {"DRAFT", "ISSUED"}, total \in Amount :
       CreateBill(b, status, total)
  \/ \E q \in Requests :
       Acquire(q) \/ Rollback(q) \/ PayStep(q) \/ ReceiptStep(q) \/ BillStep(q) \/ NoteStep(q)

Spec == Init /\ [][Next]_vars

-----------------------------------------------------------------------------
(* Properties                                                               *)

JobType ==
  [op : {"none", "pay", "void", "restore", "remove", "editBill", "billStatus",
         "deleteBill", "saveNote", "noteStatus", "deleteNote"},
   want : SUBSET Rows, bill : Bills \cup {NoOne}, note : Notes \cup {NoOne},
   receipt : Receipts \cup {NoOne}, key : Keys \cup {NoOne}, status : Statuses,
   total : Amount, plan : [Bills -> Amount]]

\* Every variable has its type; in particular no sequence of payments, voids
\* and removals drives a bill's paidAmount below zero.
TypeOK ==
  /\ lock \in [Rows -> Requests \cup {NoOne}]
  /\ pc \in [Requests -> Stages]
  /\ job \in [Requests -> JobType]
  /\ bill \in [Bills -> [status : Statuses, total : Amount, paid : Nat,
                         stockAdjusted : BOOLEAN, deleted : BOOLEAN]]
  /\ note \in [Notes -> [status : Statuses, bill : Bills \cup {NoOne}, total : Amount,
                         deleted : BOOLEAN]]
  /\ receipt \in [Receipts -> [state : {"none", "live", "voided", "removed"},
                               key : Keys \cup {NoOne}, rows : [Bills -> Amount]]]
  /\ unguarded \subseteq Bills

\* A bill's paidAmount, maintained by increments and decrements of five
\* handlers, is the sum of the rows of the receipts that are not voided.
PaidMatchesRows ==
  \A b \in Bills : bill[b].paid = SumOf(LiveReceipts, RowsOn(b))

\* Receipts made, voided and restored concurrently never settle more of a bill
\* than its total, as long as whoever paid it had locked it.
PaidWithinTotal ==
  \A b \in Bills \ unguarded : bill[b].paid <= bill[b].total

\* What was paid is what an issued bill asks for: a draft, rejected or
\* cancelled bill has no money on it (locked payers only).
ClosedBillsUnpaid ==
  \A b \in Bills \ unguarded : bill[b].status # "ISSUED" => bill[b].paid = 0

\* Debit notes posted, edited and re-issued one at a time or together never
\* return more than their bill's total, which they also keep from being edited.
ReturnsWithinTotal ==
  \A b \in Bills : Returned(b, {}) <= bill[b].total

\* A posted debit note always has an issued bill to return to.
ReturnsHaveIssuedBill ==
  \A b \in Bills : LiveNotes(b) # {} => bill[b].status = "ISSUED"

\* Together: posted returns stand, each within its bill and on an issued one.
ReturnsStand == ReturnsWithinTotal /\ ReturnsHaveIssuedBill

\* A client that repeats a requestId gets the receipt it already made.
OneReceiptPerRequest ==
  \A r, s \in Receipts :
    Stored(r) /\ Stored(s) /\ receipt[r].key = receipt[s].key => r = s

\* Money never goes onto a bill beyond what its posted returns leave payable
\* at that moment, although the balance was read in an earlier step.
NoPaymentBeyondBalance ==
  [][\A b \in Bills \ unguarded' :
       bill'[b].paid > bill[b].paid
         => bill'[b].paid <= bill'[b].total - Returned(b, {})']_vars

\* The total and the status of a bill with money on it do not change.
PaidBillIsFrozen ==
  [][\A b \in Bills \ unguarded :
       bill[b].paid > 0 => /\ bill'[b].total = bill[b].total
                           /\ bill'[b].status = bill[b].status]_vars

\* The same bound without the exception.
NeverOverpaid == \A b \in Bills : bill[b].paid <= bill[b].total

\* A deleted bill was a draft or had been cancelled: its stock has been
\* reversed and no money is on it.
DeletedBillIsClosed ==
  \A b \in Bills : bill[b].deleted =>
    /\ bill[b].status \in {"DRAFT", "CANCELLED"}
    /\ ~bill[b].stockAdjusted /\ bill[b].paid = 0

-----------------------------------------------------------------------------
(* The inductive invariant of Payables: what a request in mid-transaction  *)
(* may rely on.  Every part says which locks the request has by then and   *)
(* that what it read under them is still so.                               *)

\* Each of these rows is locked by q or will be before q reads it.
Secures(q, rows) == \A row \in rows : row \in job[q].want \/ lock[row] = q

\* void, restore and remove: the bills of the receipt are secured, so that at
\* the commit the receipt is as it was read and restore's bound still holds.
ReceiptJob(q) ==
  LET r == job[q].receipt IN
  pc[q] # "idle" /\ job[q].op \in {"void", "restore", "remove"} =>
    /\ r \in Receipts /\ receipt[r].state # "none"
    /\ pc[q] \in {"first", "checked"}
    /\ Secures(q, BillsOf(r))
    /\ pc[q] = "first" => job[q].plan = NoRows
    /\ pc[q] = "checked" =>
         /\ job[q].op = "void" => receipt[r].state = "live"
         /\ job[q].op = "restore" => receipt[r].state = "voided"
         /\ Stored(r)
         /\ job[q].plan = IF job[q].op = "remove" /\ receipt[r].state = "voided"
                          THEN NoRows ELSE receipt[r].rows
         /\ job[q].op = "restore" => \A b \in BillsOf(r) :
              bill[b].status = "ISSUED" /\ job[q].plan[b] <= Outstanding(b)

\* create of a receipt: the branch lock keeps its requestId unused, and the
\* bills it has locked can take what it plans to pay.
PayJob(q) ==
  job[q].op = "pay" =>
    /\ job[q].key \in Keys
    /\ pc[q] = "first" => Secures(q, {Branch})
    /\ pc[q] \in {"second", "checked"} =>
         /\ lock[Branch] = q
         /\ \A r \in Receipts : Stored(r) => receipt[r].key # job[q].key
    /\ pc[q] = "checked" => \E b \in Bills : job[q].plan[b] > 0
    /\ pc[q] = "checked" => \A b \in Bills : job[q].plan[b] > 0 =>
         /\ bill[b].status \notin {"NONE", "DRAFT"}
         /\ lock[b] = q => bill[b].status = "ISSUED" /\ job[q].plan[b] <= Outstanding(b)

\* update and updateStatus of a bill: it is secured, and at the commit it has
\* neither money nor posted returns if its total may change or it leaves the
\* status ISSUED.
BillJob(q) ==
  LET b == job[q].bill IN
  pc[q] # "idle" /\ job[q].op \in {"editBill", "billStatus"} =>
    /\ b \in Bills /\ bill[b].status # "NONE"
    /\ pc[q] \in {"first", "checked"}
    /\ Secures(q, {b})
    /\ job[q].status # "NONE"
    /\ pc[q] = "checked" =>
         /\ job[q].status = "DRAFT" => job[q].op = "editBill" /\ bill[b].status = "DRAFT"
         /\ job[q].op = "editBill" \/ job[q].status # "ISSUED" =>
              bill[b].paid = 0 /\ LiveNotes(b) = {}

\* A return of total, posted as note n, fits its bill, which is secured.
Fits(q, b, total, n) ==
  /\ Secures(q, {b})
  /\ pc[q] = "checked" => bill[b].status = "ISSUED" /\ Returned(b, {n}) + total <= bill[b].total

\* create and update of a debit note: the note, if it has a row, is secured; a
\* note to be posted fits its bill.
SaveNoteJob(q) ==
  job[q].op = "saveNote" =>
    /\ job[q].bill \in Bills /\ job[q].status # "NONE"
    /\ job[q].note # NoOne =>
         note[job[q].note].status # "NONE" /\ Secures(q, {job[q].note})
    /\ pc[q] # "first" /\ job[q].status = "ISSUED" =>
         Fits(q, job[q].bill, job[q].total, job[q].note)

\* updateStatus of a debit note: the note is secured and as it was read.
NoteStatusJob(q) ==
  LET n == job[q].note IN
  job[q].op = "noteStatus" =>
    /\ n \in Notes /\ note[n].status # "NONE" /\ job[q].status # "NONE"
    /\ Secures(q, {n})
    /\ pc[q] # "first" =>
         /\ lock[n] = q /\ job[q].bill = note[n].bill /\ job[q].total = note[n].total
         /\ job[q].status = "ISSUED" => Fits(q, job[q].bill, job[q].total, n)

\* Only bills, notes and the branch have handlers that lock them; a request
\* that is idle has no handler.
NoteJob(q) ==
  /\ pc[q] = "idle" => job[q].op = "none"
  /\ SaveNoteJob(q) /\ NoteStatusJob(q)

\* A finished check asks for no more locks.
NoMoreLocks(q) == pc[q] = "checked" => job[q].want = {}

\* A receipt that was ever made has money in it.
ReceiptsHaveRows == \A r \in Receipts : receipt[r].state # "none" => BillsOf(r) # {}

\* A bill that was never issued has no money, not even from an unguarded create.
DraftsUnpaid ==
  \A b \in Bills : bill[b].status \in {"NONE", "DRAFT"} => bill[b].paid = 0

\* A debit note returns to a bill.
NotesHaveBill == \A n \in Notes : note[n].status # "NONE" => note[n].bill \in Bills

IInv ==
  /\ TypeOK
  /\ PaidMatchesRows
  /\ OneReceiptPerRequest
  /\ PaidWithinTotal
  /\ ClosedBillsUnpaid
  /\ ReturnsWithinTotal
  /\ ReturnsHaveIssuedBill
  /\ ReceiptsHaveRows
  /\ DraftsUnpaid
  /\ NotesHaveBill
  /\ \A q \in Requests :
       NoMoreLocks(q) /\ ReceiptJob(q) /\ PayJob(q) /\ BillJob(q) /\ NoteJob(q)
=============================================================================
