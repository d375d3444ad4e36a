--------------------------- MODULE PayablesProofs ---------------------------
(***************************************************************************)
(* Payables keeps its inductive invariant IInv, for every set of requests, *)
(* bills, notes, receipts and keys and every bound on amounts.             *)
(***************************************************************************)
EXTENDS Payables, AmountsProofs

USE NoOneAssumption, PayablesAssumption

JobsOK(p) ==
  NoMoreLocks(p) /\ ReceiptJob(p) /\ PayJob(p) /\ BillJob(p) /\ NoteJob(p)

\* Every posted return of b after the step was one before it, of the same total.
NoNewReturns(b) ==
  \A n \in LiveNotes(b)' : n \in LiveNotes(b) /\ NoteTotals'[n] = NoteTotals[n]

\* What a step of somebody else leaves to p: its own job and locks, every row it
\* has locked, and to a bill it has locked no return it does not know of.
Undisturbed(p) ==
  /\ pc'[p] = pc[p] /\ job'[p] = job[p]
  /\ \A row \in Rows : lock'[row] = p <=> lock[row] = p
  /\ \A r \in Receipts : receipt[r].state # "none" =>
       /\ receipt'[r].rows = receipt[r].rows /\ receipt'[r].state # "none"
       /\ receipt'[r] = receipt[r] \/ \A b \in BillsOf(r) : lock[b] # p
  /\ lock[Branch] = p => \A r \in Receipts :
       Stored(r)' => Stored(r) /\ receipt'[r].key = receipt[r].key
  /\ \A b \in Bills :
       /\ lock[b] = p => bill'[b] = bill[b] \/ bill[b].status = "NONE"
       /\ bill'[b].status = "NONE" => bill[b].status = "NONE"
       /\ bill'[b].status = "DRAFT" => bill[b].status \in {"NONE", "DRAFT"}
  /\ \A b \in Bills : lock[b] = p => NoNewReturns(b)
  /\ \A n \in Notes :
       /\ lock[n] = p => note'[n] = note[n] \/ note[n].status = "NONE"
       /\ note'[n].status = "NONE" => note[n].status = "NONE"

\* The posted returns of a bill, less those of some notes, are an amount.
LEMMA ReturnsAreNat ==
  ASSUME TypeOK, NEW b, NEW but
  PROVE  /\ IsFiniteSet(LiveNotes(b) \ but)
         /\ \A n \in LiveNotes(b) \ but : NoteTotals[n] \in Nat
         /\ Returned(b, but) \in Nat
<1>1. IsFiniteSet(LiveNotes(b) \ but)
  <2>1. LiveNotes(b) \ but \subseteq Notes
    BY DEF LiveNotes
  <2>2. QED
    BY <2>1, FS_Subset
<1>2. \A n \in LiveNotes(b) \ but : NoteTotals[n] \in Nat
  BY DEF TypeOK, NoteTotals, LiveNotes, Amount
<1>3. QED
  BY <1>1, <1>2, SumIsNat DEF Returned

\* Without a new return, no more is returned than before.
LEMMA ReturnsShrink ==
  ASSUME TypeOK, NEW b, NEW but, NoNewReturns(b)
  PROVE  Returned(b, but)' <= Returned(b, but) /\ Returned(b, but)' \in Nat
<1> DEFINE S == LiveNotes(b) \ but
           T == LiveNotes(b)' \ but
<1>1. T \in SUBSET S /\ \A n \in T : NoteTotals'[n] = NoteTotals[n]
  BY DEF NoNewReturns
<1>2. SumOf(T, NoteTotals') = SumOf(T, NoteTotals)
  BY <1>1, SumSame
<1>3. SumOf(T, NoteTotals) <= SumOf(S, NoteTotals)
  BY <1>1, ReturnsAreNat, SumSubset
<1>4. SumOf(T, NoteTotals) \in Nat
  BY <1>1, ReturnsAreNat, FS_Subset, SumIsNat
<1>5. QED
  BY <1>2, <1>3, <1>4 DEF Returned

\* A bill that is not written and gets no new return can take what it could.
LEMMA OutstandingKept ==
  ASSUME TypeOK, NEW b \in Bills, NoNewReturns(b), bill'[b] = bill[b]
  PROVE  /\ Outstanding(b) \in Int /\ Outstanding(b)' \in Int
         /\ Outstanding(b) <= Outstanding(b)'
<1>1. bill[b].total \in Nat /\ bill[b].paid \in Nat
  BY DEF TypeOK, Amount
<1>2. Returned(b, {})' <= Returned(b, {}) /\ Returned(b, {})' \in Nat
  BY ReturnsShrink
<1>3. Returned(b, {}) \in Nat
  BY ReturnsAreNat
<1>4. QED
  BY <1>1, <1>2, <1>3 DEF Outstanding

\* What fits into the outstanding amount fits into the total.
LEMMA OutstandingBound ==
  ASSUME TypeOK, NEW b \in Bills, NEW amount \in Nat, amount <= Outstanding(b)
  PROVE  /\ bill[b].paid + amount <= bill[b].total
         /\ bill[b].paid + amount <= bill[b].total - Returned(b, {})
<1>1. Returned(b, {}) \in Nat
  BY ReturnsAreNat
<1>2. bill[b].total \in Nat /\ bill[b].paid \in Nat
  BY DEF TypeOK, Amount
<1>3. QED
  BY <1>1, <1>2 DEF Outstanding

\* Where no note is written, no bill's returns change.
LEMMA SameReturns ==
  ASSUME note' = note
  PROVE  \A b : /\ LiveNotes(b)' = LiveNotes(b) /\ NoNewReturns(b)
               /\ \A but : Returned(b, but)' = Returned(b, but)
BY DEF LiveNotes, NoteTotals, Returned, NoNewReturns

\* A step that writes no note keeps the returns if a bill with returns keeps its
\* total and leaves the status ISSUED no more than it did.
LEMMA ReturnsKept ==
  ASSUME IInv, note' = note,
         \A b \in Bills :
           \/ bill'[b].total = bill[b].total /\ bill'[b].status = bill[b].status
           \/ bill'[b].total = bill[b].total /\ bill'[b].status = "ISSUED"
           \/ LiveNotes(b) = {} /\ bill'[b].total \in Nat
  PROVE  ReturnsWithinTotal' /\ ReturnsHaveIssuedBill'
<1>1. \A b : LiveNotes(b)' = LiveNotes(b) /\ Returned(b, {})' = Returned(b, {})
  BY SameReturns
<1>2. \A b : LiveNotes(b) = {} => Returned(b, {}) = 0
  BY SumEmpty DEF Returned
<1>3. ReturnsWithinTotal'
  <2> SUFFICES ASSUME NEW b \in Bills PROVE Returned(b, {})' <= bill'[b].total
    BY DEF ReturnsWithinTotal
  <2>1. Returned(b, {}) <= bill[b].total
    BY DEF IInv, ReturnsWithinTotal
  <2>2. QED
    BY <1>1, <1>2, <2>1
<1>4. ReturnsHaveIssuedBill'
  BY <1>1 DEF IInv, ReturnsHaveIssuedBill
<1>5. QED
  BY <1>3, <1>4

\* A step that does not disturb p keeps what p relies on.
LEMMA OthersKeep ==
  ASSUME IInv, NEW p \in Requests, Undisturbed(p)
  PROVE  JobsOK(p)'
<1>1. NoMoreLocks(p)'
  BY DEF IInv, Undisturbed, NoMoreLocks
<1>2. ReceiptJob(p)'
  <2> DEFINE r == job[p].receipt
  <2> SUFFICES ASSUME pc[p] # "idle", job[p].op \in {"void", "restore", "remove"}
               PROVE  ReceiptJob(p)'
    BY DEF Undisturbed, ReceiptJob
  <2>1. ReceiptJob(p) /\ NoMoreLocks(p) /\ ReceiptsHaveRows
    BY DEF IInv
  <2>2. /\ r \in Receipts /\ receipt[r].state # "none" /\ pc[p] \in {"first", "checked"}
        /\ BillsOf(r) # {} /\ BillsOf(r) \subseteq Rows /\ Secures(p, BillsOf(r))
    BY <2>1 DEF ReceiptJob, ReceiptsHaveRows, BillsOf, Rows
  <2>3. BillsOf(r)' = BillsOf(r) /\ receipt'[r].state # "none"
    BY <2>2 DEF Undisturbed, BillsOf
  <2>4. Secures(p, BillsOf(r))'
    BY <2>2, <2>3 DEF Undisturbed, Secures
  <2>5. CASE pc[p] = "first"
    <3>1. job'[p] = job[p] /\ pc'[p] = "first" /\ job[p].plan = NoRows
      BY <2>1, <2>5 DEF Undisturbed, ReceiptJob
    <3>2. QED
      BY <2>2, <2>3, <2>4, <3>1 DEF ReceiptJob
  <2>6. CASE pc[p] = "checked"
    <3>1. \A b \in BillsOf(r) : lock[b] = p
      BY <2>1, <2>2, <2>6 DEF NoMoreLocks, Secures
    <3>2. receipt'[r] = receipt[r]
      BY <2>2, <3>1 DEF Undisturbed
    <3>3. ASSUME job[p].op = "restore", NEW b \in BillsOf(r)
          PROVE  bill'[b].status = "ISSUED" /\ job[p].plan[b] <= Outstanding(b)'
      <4>1. b \in Bills /\ lock[b] = p
        BY <3>1, <3>3 DEF BillsOf
      <4>2. bill[b].status = "ISSUED" /\ job[p].plan[b] <= Outstanding(b)
        BY <2>1, <2>2, <2>6, <3>3 DEF ReceiptJob
      <4>3. bill'[b] = bill[b] /\ NoNewReturns(b)
        BY <4>1, <4>2 DEF Undisturbed
      <4>4. TypeOK /\ job[p].plan[b] \in Int
        BY <4>1 DEF IInv, TypeOK, JobType, Amount
      <4>5. QED
        BY <4>1, <4>2, <4>3, <4>4, OutstandingKept
    <3>4. job'[p] = job[p] /\ pc'[p] = "checked"
      BY <2>6 DEF Undisturbed
    <3>5. QED
      BY <2>1, <2>2, <2>3, <2>4, <2>6, <3>2, <3>3, <3>4 DEF ReceiptJob, Stored
  <2>7. QED
    BY <2>2, <2>5, <2>6
<1>3. PayJob(p)'
  <2> SUFFICES ASSUME job[p].op = "pay" PROVE PayJob(p)'
    BY DEF Undisturbed, PayJob
  <2>1. PayJob(p)
    BY DEF IInv
  <2>2. Branch \in Rows /\ Bills \subseteq Rows
    BY DEF Rows
  <2>3. pc[p] = "first" => Secures(p, {Branch})'
    BY <2>1, <2>2 DEF PayJob, Secures, Undisturbed
  <2>4. pc[p] \in {"second", "checked"} =>
          /\ lock'[Branch] = p
          /\ \A s \in Receipts : Stored(s)' => receipt'[s].key # job'[p].key
    BY <2>1, <2>2 DEF PayJob, Undisturbed
  <2>5. ASSUME pc[p] = "checked", NEW b \in Bills, job[p].plan[b] > 0
        PROVE  /\ bill'[b].status \notin {"NONE", "DRAFT"}
               /\ lock'[b] = p => /\ bill'[b].status = "ISSUED"
                                  /\ job[p].plan[b] <= Outstanding(b)'
    <3>1. /\ bill[b].status \notin {"NONE", "DRAFT"}
          /\ lock[b] = p => /\ bill[b].status = "ISSUED"
                            /\ job[p].plan[b] <= Outstanding(b)
      BY <2>1, <2>5 DEF PayJob
    <3>2. /\ bill'[b].status \notin {"NONE", "DRAFT"}
          /\ lock'[b] = p <=> lock[b] = p
          /\ lock[b] = p => bill'[b] = bill[b] /\ NoNewReturns(b)
      BY <2>2, <3>1 DEF Undisturbed
    <3>3. TypeOK /\ job[p].plan[b] \in Int
      BY DEF IInv, TypeOK, JobType, Amount
    <3>4. QED
      BY <3>1, <3>2, <3>3, OutstandingKept
  <2>6. /\ job'[p] = job[p] /\ pc'[p] = pc[p] /\ job[p].key \in Keys
        /\ pc[p] = "checked" => \E b \in Bills : job[p].plan[b] > 0
    BY <2>1 DEF PayJob, Undisturbed
  <2>7. CASE pc[p] = "checked"
    <3>1. \A b \in Bills : job'[p].plan[b] > 0 =>
            /\ bill'[b].status \notin {"NONE", "DRAFT"}
            /\ lock'[b] = p => /\ bill'[b].status = "ISSUED"
                              /\ job'[p].plan[b] <= Outstanding(b)'
      BY <2>5, <2>6, <2>7
    <3>2. QED
      BY <2>3, <2>4, <2>6, <2>7, <3>1 DEF PayJob
  <2>8. CASE pc[p] # "checked"
    BY <2>3, <2>4, <2>6, <2>8 DEF PayJob
  <2>9. QED
    BY <2>7, <2>8
<1>4. BillJob(p)'
  <2> DEFINE b == job[p].bill
  <2> SUFFICES ASSUME pc[p] # "idle", job[p].op \in {"editBill", "billStatus"}
               PROVE  BillJob(p)'
    BY DEF Undisturbed, BillJob
  <2>1. BillJob(p) /\ NoMoreLocks(p)
    BY DEF IInv
  <2>2. /\ b \in Bills /\ b \in Rows /\ bill[b].status # "NONE" /\ Secures(p, {b})
        /\ pc[p] \in {"first", "checked"} /\ job[p].status # "NONE"
    BY <2>1 DEF BillJob, Rows
  <2>3. bill'[b].status # "NONE" /\ Secures(p, {b})'
    <3>1. bill'[b].status # "NONE"
      BY <2>2 DEF Undisturbed
    <3>2. job'[p] = job[p] /\ (lock'[b] = p <=> lock[b] = p)
      BY <2>2 DEF Undisturbed
    <3>3. QED
      BY <2>2, <3>1, <3>2 DEF Secures
  <2>4. CASE pc[p] = "first"
    BY <2>2, <2>3, <2>4 DEF Undisturbed, BillJob
  <2>5. CASE pc[p] = "checked"
    <3>1. bill'[b] = bill[b] /\ NoNewReturns(b)
      BY <2>1, <2>2, <2>5 DEF Undisturbed, NoMoreLocks, Secures
    <3>2. LiveNotes(b) = {} => LiveNotes(b)' = {}
      BY <3>1 DEF NoNewReturns
    <3>3. job'[p] = job[p] /\ pc'[p] = "checked"
      BY <2>5 DEF Undisturbed
    <3>4. QED
      BY <2>1, <2>2, <2>3, <2>5, <3>1, <3>2, <3>3 DEF BillJob
  <2>6. QED
    BY <2>2, <2>4, <2>5
<1>5. job'[p] = job[p] /\ pc'[p] = pc[p] /\ job[p] \in JobType /\ TypeOK
  BY DEF IInv, TypeOK, Undisturbed
<1>6. ASSUME NEW b \in Bills, NEW total \in Nat, NEW n, Fits(p, b, total, n)
      PROVE  Fits(p, b, total, n)'
  <2>1. b \in Rows /\ NoMoreLocks(p)
    BY DEF Rows, IInv
  <2>2. Secures(p, {b})'
    BY <1>5, <1>6, <2>1 DEF Fits, Secures, Undisturbed
  <2>3. ASSUME pc[p] = "checked"
        PROVE  bill'[b].status = "ISSUED" /\ Returned(b, {n})' + total <= bill'[b].total
    <3>1. lock[b] = p
      BY <1>6, <2>1, <2>3 DEF Fits, Secures, NoMoreLocks
    <3>2. bill[b].status = "ISSUED" /\ Returned(b, {n}) + total <= bill[b].total
      BY <1>6, <2>3 DEF Fits
    <3>3. bill'[b] = bill[b] /\ NoNewReturns(b)
      BY <3>1, <3>2 DEF Undisturbed
    <3>4. Returned(b, {n})' <= Returned(b, {n}) /\ Returned(b, {n})' \in Nat
      BY <1>5, <3>3, ReturnsShrink
    <3>5. Returned(b, {n}) \in Nat
      BY <1>5, ReturnsAreNat
    <3>6. bill[b].total \in Nat
      BY <1>5 DEF TypeOK, Amount
    <3>7. QED
      BY <3>2, <3>3, <3>4, <3>5, <3>6
  <2>4. QED
    BY <1>5, <2>2, <2>3 DEF Fits
<1>7. ASSUME NEW n \in Notes, Secures(p, {n}) PROVE Secures(p, {n})'
  BY <1>5, <1>7 DEF Secures, Undisturbed, Rows
<1>8. SaveNoteJob(p)'
  <2> SUFFICES ASSUME job[p].op = "saveNote" PROVE SaveNoteJob(p)'
    BY <1>5 DEF SaveNoteJob
  <2>1. SaveNoteJob(p) /\ job[p].note \in Notes \cup {NoOne} /\ job[p].total \in Nat
    BY <1>5 DEF IInv, NoteJob, JobType, Amount
  <2>2. job[p].bill \in Bills /\ job[p].status # "NONE"
    BY <2>1 DEF SaveNoteJob
  <2>3. job[p].note # NoOne =>
          note'[job[p].note].status # "NONE" /\ Secures(p, {job[p].note})'
    BY <1>5, <1>7, <2>1 DEF SaveNoteJob, Undisturbed
  <2>4. pc[p] # "first" /\ job[p].status = "ISSUED" =>
          Fits(p, job[p].bill, job[p].total, job[p].note)'
    <3>1. PICK b \in Bills, total \in Nat, n \in Notes \cup {NoOne} :
            b = job[p].bill /\ total = job[p].total /\ n = job[p].note
      BY <2>1, <2>2
    <3>2. pc[p] # "first" /\ job[p].status = "ISSUED" => Fits(p, b, total, n)'
      BY <1>6, <2>1, <3>1 DEF SaveNoteJob
    <3>3. QED
      BY <1>5, <3>1, <3>2
  <2>5. QED
    BY <1>5, <2>2, <2>3, <2>4 DEF SaveNoteJob
<1>9. NoteStatusJob(p)'
  <2> SUFFICES ASSUME job[p].op = "noteStatus" PROVE NoteStatusJob(p)'
    BY <1>5 DEF NoteStatusJob
  <2>1. NoteStatusJob(p) /\ NotesHaveBill /\ job[p].total \in Nat
    BY <1>5 DEF IInv, NoteJob, JobType, Amount
  <2>2. PICK n \in Notes : n = job[p].note
    BY <2>1 DEF NoteStatusJob
  <2>3. /\ note[n].status # "NONE" /\ note'[n].status # "NONE" /\ note[n].bill \in Bills
        /\ job[p].status # "NONE" /\ Secures(p, {n}) /\ Secures(p, {n})'
    BY <1>7, <2>1, <2>2 DEF NoteStatusJob, NotesHaveBill, Undisturbed
  <2>4. CASE pc[p] = "first"
    BY <1>5, <2>2, <2>3, <2>4 DEF NoteStatusJob
  <2>5. CASE pc[p] # "first"
    <3>1. /\ lock[n] = p /\ job[p].bill = note[n].bill /\ job[p].total = note[n].total
          /\ job[p].status = "ISSUED" => Fits(p, job[p].bill, job[p].total, n)
      BY <2>1, <2>2, <2>5 DEF NoteStatusJob
    <3>2. note'[n] = note[n] /\ lock'[n] = p
      BY <2>3, <3>1 DEF Undisturbed, Rows
    <3>3. PICK b \in Bills, total \in Nat : b = job[p].bill /\ total = job[p].total
      BY <2>1, <2>3, <3>1
    <3>4. job[p].status = "ISSUED" => Fits(p, b, total, n)'
      BY <1>6, <3>1, <3>3
    <3>5. QED
      BY <1>5, <2>2, <2>3, <2>5, <3>1, <3>2, <3>3, <3>4 DEF NoteStatusJob
  <2>6. QED
    BY <2>4, <2>5
<1>10. NoteJob(p)'
  BY <1>5, <1>8, <1>9 DEF IInv, NoteJob
<1>11. QED
  BY <1>1, <1>2, <1>3, <1>4, <1>10 DEF JobsOK

-----------------------------------------------------------------------------
(* Steps that write no row                                                  *)

\* A request that is idle relies on nothing.
LEMMA IdleJob ==
  ASSUME NEW q \in Requests, pc'[q] = "idle", job'[q] = NoJob
  PROVE  JobsOK(q)'
BY DEF JobsOK, NoMoreLocks, ReceiptJob, PayJob, BillJob, NoteJob, SaveNoteJob, NoteStatusJob,
   NoJob

\* The empty job and the empty rows have their types.
LEMMA NoJobType == NoJob \in JobType /\ NoRows \in [Bills -> Amount]
BY DEF NoJob, JobType, NoRows, Amount, Statuses

\* The end of a transaction frees its own locks and no others.
LEMMA EndType ==
  ASSUME TypeOK, NEW q \in Requests, End(q)
  PROVE  /\ pc' \in [Requests -> Stages] /\ job' \in [Requests -> JobType]
         /\ lock' \in [Rows -> Requests \cup {NoOne}]
         /\ pc'[q] = "idle" /\ job'[q] = NoJob
         /\ \A p \in Requests \ {q} :
              /\ pc'[p] = pc[p] /\ job'[p] = job[p]
              /\ \A row \in Rows : lock'[row] = p <=> lock[row] = p
BY NoJobType DEF TypeOK, End, Released, Stages

\* A step of q that writes no row keeps the invariant if it leaves q a job
\* that may be relied on.
LEMMA ReadStep ==
  ASSUME IInv, NEW q \in Requests, UNCHANGED <<bill, note, receipt, unguarded>>,
         pc' \in [Requests -> Stages], job' \in [Requests -> JobType],
         lock' \in [Rows -> Requests \cup {NoOne}],
         \A p \in Requests \ {q} :
           /\ pc'[p] = pc[p] /\ job'[p] = job[p]
           /\ \A row \in Rows : lock'[row] = p <=> lock[row] = p,
         JobsOK(q)'
  PROVE  IInv'
<1>1. TypeOK'
  BY DEF IInv, TypeOK
<1>2. \A p \in Requests \ {q} : JobsOK(p)'
  <2> SUFFICES ASSUME NEW p \in Requests \ {q} PROVE JobsOK(p)'
    OBVIOUS
  <2>1. Undisturbed(p)
    BY SameReturns DEF Undisturbed, Stored
  <2>2. QED
    BY <2>1, OthersKeep
<1>3. PaidMatchesRows' /\ OneReceiptPerRequest' /\ PaidWithinTotal' /\ ClosedBillsUnpaid'
  <2>1. LiveReceipts' = LiveReceipts /\ \A b \in Bills : RowsOn(b)' = RowsOn(b)
    BY DEF LiveReceipts, RowsOn
  <2>2. PaidMatchesRows'
    BY <2>1 DEF IInv, PaidMatchesRows
  <2>3. OneReceiptPerRequest'
    BY DEF IInv, OneReceiptPerRequest, Stored
  <2>4. PaidWithinTotal' /\ ClosedBillsUnpaid'
    BY DEF IInv, PaidWithinTotal, ClosedBillsUnpaid
  <2>5. QED
    BY <2>2, <2>3, <2>4
<1>4. ReceiptsHaveRows' /\ DraftsUnpaid' /\ NotesHaveBill'
  BY DEF IInv, ReceiptsHaveRows, DraftsUnpaid, NotesHaveBill, BillsOf
<1>5. ReturnsWithinTotal' /\ ReturnsHaveIssuedBill'
  BY ReturnsKept
<1>6. QED
  BY <1>1, <1>2, <1>3, <1>4, <1>5 DEF IInv, JobsOK

\* A request that takes up a handler.
LEMMA BeginStep ==
  ASSUME IInv, NEW q \in Requests, NEW args \in JobType, Begin(q, args),
         JobsOK(q)'
  PROVE  IInv'
<1>1. /\ pc' \in [Requests -> Stages] /\ job' \in [Requests -> JobType]
      /\ lock' = lock
      /\ \A p \in Requests \ {q} : pc'[p] = pc[p] /\ job'[p] = job[p]
  BY DEF IInv, TypeOK, Begin, Stages
<1>2. lock' \in [Rows -> Requests \cup {NoOne}]
  BY <1>1 DEF IInv, TypeOK
<1>3. QED
  BY <1>1, <1>2, ReadStep DEF Begin

\* A request that moves on to its next stage.
LEMMA ProceedStep ==
  ASSUME IInv, NEW q \in Requests, NEW stage \in Stages, NEW args \in JobType,
         Proceed(q, stage, args), JobsOK(q)'
  PROVE  IInv'
<1>1. /\ pc' \in [Requests -> Stages] /\ job' \in [Requests -> JobType]
      /\ lock' = lock
      /\ \A p \in Requests \ {q} : pc'[p] = pc[p] /\ job'[p] = job[p]
  BY DEF IInv, TypeOK, Proceed
<1>2. lock' \in [Rows -> Requests \cup {NoOne}]
  BY <1>1 DEF IInv, TypeOK
<1>3. QED
  BY <1>1, <1>2, ReadStep DEF Proceed

\* A rollback leaves the request idle.
LEMMA RollbackStep ==
  ASSUME IInv, NEW q \in Requests, Rollback(q)
  PROVE  IInv'
<1>1. End(q) /\ TypeOK
  BY DEF Rollback, IInv
<1>2. JobsOK(q)'
  BY <1>1, EndType, IdleJob
<1>3. QED
  BY <1>1, <1>2, EndType, ReadStep DEF Rollback

\* A granted lock moves from what is wanted to what is held.
LEMMA AcquireStep ==
  ASSUME IInv, NEW q \in Requests, Acquire(q)
  PROVE  IInv'
<1>1. PICK row \in job[q].want :
        /\ lock[row] = NoOne /\ lock' = [lock EXCEPT ![row] = q]
        /\ job' = [job EXCEPT ![q].want = @ \ {row}]
  BY DEF Acquire, CanLock
<1>2. /\ pc' = pc /\ pc[q] \in {"first", "second"} /\ UNCHANGED <<bill, note, receipt, unguarded>>
  BY DEF Acquire
<1>3. job[q] \in JobType /\ row \in Rows /\ lock \in [Rows -> Requests \cup {NoOne}]
      /\ job \in [Requests -> JobType] /\ pc \in [Requests -> Stages]
  BY DEF IInv, TypeOK, JobType
<1>4. job'[q] = [job[q] EXCEPT !.want = @ \ {row}]
  BY <1>1, <1>3
<1>5. job'[q] \in JobType
  BY <1>3, <1>4 DEF JobType
<1>6. /\ job' \in [Requests -> JobType]
      /\ lock' \in [Rows -> Requests \cup {NoOne}]
      /\ \A p \in Requests \ {q} :
           /\ pc'[p] = pc[p] /\ job'[p] = job[p]
           /\ \A s \in Rows : lock'[s] = p <=> lock[s] = p
  BY <1>1, <1>2, <1>3, <1>5
<1>7. /\ job'[q].op = job[q].op /\ job'[q].receipt = job[q].receipt
      /\ job'[q].bill = job[q].bill /\ job'[q].status = job[q].status
      /\ job'[q].key = job[q].key /\ job'[q].note = job[q].note
      /\ job'[q].plan = job[q].plan
      /\ job'[q].want = job[q].want \ {row}
  BY <1>3, <1>4 DEF JobType
<1>8. ASSUME NEW S \in SUBSET Rows, Secures(q, S)
      PROVE  Secures(q, S)'
  BY <1>1, <1>3, <1>7, <1>8 DEF Secures
<1>9. NoMoreLocks(q)'
  BY <1>2 DEF NoMoreLocks
<1>10. ReceiptJob(q)'
  <2>1. ReceiptJob(q)
    BY DEF IInv
  <2>2. \A r \in Receipts : BillsOf(r) \in SUBSET Rows /\ BillsOf(r)' = BillsOf(r)
    BY <1>2 DEF BillsOf, Rows
  <2>3. QED
    BY <2>1, <2>2, <1>2, <1>7, <1>8 DEF ReceiptJob
<1>11. PayJob(q)'
  <2>1. PayJob(q)
    BY DEF IInv
  <2>2. job[q].op = "pay" /\ pc[q] = "second" => lock'[Branch] = q
    BY <2>1, <1>1, <1>3, <1>7 DEF PayJob, Rows
  <2>3. {Branch} \in SUBSET Rows
    BY DEF Rows
  <2>4. CASE job[q].op # "pay"
    BY <2>4, <1>7 DEF PayJob
  <2>5. CASE job[q].op = "pay" /\ pc[q] = "first"
    BY <2>1, <2>3, <2>5, <1>2, <1>7, <1>8 DEF PayJob
  <2>6. CASE job[q].op = "pay" /\ pc[q] = "second"
    BY <2>1, <2>2, <2>6, <1>2, <1>7 DEF PayJob, Stored
  <2>7. QED
    BY <2>4, <2>5, <2>6, <1>2
<1>12. BillJob(q)'
  <2>1. BillJob(q)
    BY DEF IInv
  <2>2. \A b \in Bills : {b} \in SUBSET Rows
    BY DEF Rows
  <2>3. QED
    BY <2>1, <2>2, <1>2, <1>7, <1>8 DEF BillJob
<1>13. NoteJob(q)'
  <2>1. NoteJob(q) /\ NotesHaveBill
    BY DEF IInv
  <2>2. \A row1 \in Bills \cup Notes : {row1} \in SUBSET Rows
    BY DEF Rows
  <2>3. job'[q].total = job[q].total /\ job[q].total \in Amount
    BY <1>3, <1>4 DEF JobType
  <2>4. ASSUME NEW b \in Bills, NEW total \in Amount, NEW n, Fits(q, b, total, n)
        PROVE  Fits(q, b, total, n)'
    BY <1>2, <1>8, <2>2, <2>4 DEF Fits
  <2>5. SaveNoteJob(q)'
    <3> SUFFICES ASSUME job[q].op = "saveNote" PROVE SaveNoteJob(q)'
      BY <1>7 DEF SaveNoteJob
    <3>1. SaveNoteJob(q) /\ job[q].note \in Notes \cup {NoOne}
      BY <1>3, <2>1 DEF NoteJob, JobType
    <3>2. PICK b \in Bills, total \in Amount, n \in Notes \cup {NoOne} :
            b = job[q].bill /\ total = job[q].total /\ n = job[q].note
      BY <2>3, <3>1 DEF SaveNoteJob
    <3>3. n # NoOne => note[n].status # "NONE" /\ Secures(q, {n})'
      BY <1>8, <2>2, <3>1, <3>2 DEF SaveNoteJob
    <3>4. pc[q] # "first" /\ job[q].status = "ISSUED" => Fits(q, b, total, n)'
      BY <2>4, <3>1, <3>2 DEF SaveNoteJob
    <3>5. QED
      BY <1>2, <1>7, <2>3, <3>1, <3>2, <3>3, <3>4 DEF SaveNoteJob
  <2>6. NoteStatusJob(q)'
    <3> SUFFICES ASSUME job[q].op = "noteStatus" PROVE NoteStatusJob(q)'
      BY <1>7 DEF NoteStatusJob
    <3>1. NoteStatusJob(q)
      BY <2>1 DEF NoteJob
    <3>2. PICK n \in Notes, total \in Amount : n = job[q].note /\ total = job[q].total
      BY <2>3, <3>1 DEF NoteStatusJob
    <3>3. /\ note[n].status # "NONE" /\ note[n].bill \in Bills /\ Secures(q, {n})'
          /\ lock[n] = q => lock'[n] = q
      BY <1>1, <1>3, <1>8, <2>1, <2>2, <3>1, <3>2 DEF NoteStatusJob, NotesHaveBill, Rows
    <3>4. PICK b \in Bills : b = note[n].bill
      BY <3>3
    <3>5. pc[q] # "first" =>
            /\ lock'[n] = q /\ job[q].bill = b /\ total = note[n].total
            /\ job[q].status = "ISSUED" => Fits(q, b, total, n)'
      BY <2>4, <3>1, <3>2, <3>3, <3>4 DEF NoteStatusJob
    <3>6. job[q].status # "NONE" /\ note' = note
      BY <1>2, <3>1 DEF NoteStatusJob
    <3>7. QED
      BY <1>2, <1>7, <2>3, <3>2, <3>3, <3>4, <3>5, <3>6 DEF NoteStatusJob
  <2>7. QED
    BY <1>2, <1>7, <2>1, <2>5, <2>6 DEF NoteJob
<1>14. QED
  BY <1>2, <1>3, <1>6, <1>9, <1>10, <1>11, <1>12, <1>13, ReadStep DEF JobsOK

-----------------------------------------------------------------------------
(* Steps that begin a handler or move it to its next stage                  *)

\* Handlers of debit notes and deletions rely on nothing said here.
LEMMA OtherOps ==
  ASSUME NEW q \in Requests, NoMoreLocks(q)', NoteJob(q)',
         job'[q].op \in {"none", "deleteBill", "saveNote", "noteStatus", "deleteNote"}
  PROVE  JobsOK(q)'
BY DEF JobsOK, ReceiptJob, PayJob, BillJob

LEMMA BeginPayStep ==
  ASSUME IInv, NEW q \in Requests, NEW key \in Keys, BeginPay(q, key)
  PROVE  IInv'
<1> DEFINE args == [NoJob EXCEPT !.op = "pay", !.key = key, !.want = {Branch}]
<1>1. args \in JobType /\ args.op = "pay" /\ args.want = {Branch} /\ args.key = key
  BY NoJobType DEF JobType, NoJob, Rows
<1>2. Begin(q, args)
  BY DEF BeginPay
<1>3. job'[q] = args /\ pc'[q] = "first"
  BY <1>2 DEF Begin, IInv, TypeOK
<1>4. JobsOK(q)'
  BY <1>1, <1>3 DEF JobsOK, NoMoreLocks, ReceiptJob, PayJob, BillJob, NoteJob,
     SaveNoteJob, NoteStatusJob, Secures
<1>5. QED
  BY <1>1, <1>2, <1>4, BeginStep

LEMMA BeginOnReceiptStep ==
  ASSUME IInv, NEW q \in Requests, NEW r \in Receipts,
         NEW op \in {"void", "restore", "remove"}, BeginOnReceipt(q, op, r)
  PROVE  IInv'
<1> DEFINE args == [NoJob EXCEPT !.op = op, !.receipt = r, !.want = BillsOf(r)]
<1>1. args \in JobType /\ args.op = op /\ args.want = BillsOf(r) /\ args.receipt = r
      /\ args.plan = NoRows
  BY NoJobType DEF JobType, NoJob, Rows, BillsOf
<1>2. Begin(q, args) /\ Stored(r)
  BY DEF BeginOnReceipt
<1>3. /\ job'[q] = args /\ pc'[q] = "first"
      /\ receipt' = receipt /\ BillsOf(r)' = BillsOf(r)
  BY <1>2 DEF Begin, IInv, TypeOK, BillsOf
<1>4. JobsOK(q)'
  BY <1>1, <1>2, <1>3 DEF JobsOK, NoMoreLocks, ReceiptJob, PayJob, BillJob, NoteJob,
     SaveNoteJob, NoteStatusJob, Secures, Stored
<1>5. QED
  BY <1>1, <1>2, <1>4, BeginStep

LEMMA BeginEditBillStep ==
  ASSUME IInv, NEW q \in Requests, NEW b \in Bills, NEW status \in {"DRAFT", "ISSUED"},
         NEW total \in Amount, BeginEditBill(q, b, status, total)
  PROVE  IInv'
<1> DEFINE args == [NoJob EXCEPT !.op = "editBill", !.bill = b, !.status = status,
                                 !.total = total, !.want = {Branch, b}]
<1>1. /\ args \in JobType /\ args.op = "editBill" /\ args.want = {Branch, b}
      /\ args.bill = b /\ args.status = status
  BY NoJobType DEF JobType, NoJob, Rows, Statuses
<1>2. Begin(q, args) /\ bill[b].status # "NONE"
  BY DEF BeginEditBill
<1>3. job'[q] = args /\ pc'[q] = "first" /\ bill' = bill
  BY <1>2 DEF Begin, IInv, TypeOK
<1>4. JobsOK(q)'
  BY <1>1, <1>2, <1>3 DEF JobsOK, NoMoreLocks, ReceiptJob, PayJob, BillJob, NoteJob,
     SaveNoteJob, NoteStatusJob, Secures
<1>5. QED
  BY <1>1, <1>2, <1>4, BeginStep

LEMMA BeginBillStatusStep ==
  ASSUME IInv, NEW q \in Requests, NEW b \in Bills,
         NEW status \in {"ISSUED", "REJECTED", "CANCELLED"}, BeginBillStatus(q, b, status)
  PROVE  IInv'
<1> DEFINE args == [NoJob EXCEPT !.op = "billStatus", !.bill = b, !.status = status,
                                 !.want = {b}]
<1>1. /\ args \in JobType /\ args.op = "billStatus" /\ args.want = {b}
      /\ args.bill = b /\ args.status = status
  BY NoJobType DEF JobType, NoJob, Rows, Statuses
<1>2. Begin(q, args) /\ bill[b].status # "NONE"
  BY DEF BeginBillStatus
<1>3. job'[q] = args /\ pc'[q] = "first" /\ bill' = bill
  BY <1>2 DEF Begin, IInv, TypeOK
<1>4. JobsOK(q)'
  BY <1>1, <1>2, <1>3 DEF JobsOK, NoMoreLocks, ReceiptJob, PayJob, BillJob, NoteJob,
     SaveNoteJob, NoteStatusJob, Secures
<1>5. QED
  BY <1>1, <1>2, <1>4, BeginStep

\* The handlers that begin without a promise to keep.
LEMMA BeginOthersStep ==
  ASSUME IInv, NEW q \in Requests,
         \/ \E b \in Bills : BeginDeleteBill(q, b)
         \/ \E n \in Notes : BeginDeleteNote(q, n)
         \/ \E n \in Notes, status \in {"ISSUED", "REJECTED", "CANCELLED"} :
              BeginNoteStatus(q, n, status)
         \/ \E n \in Notes \cup {NoOne}, b \in Bills, status \in {"DRAFT", "ISSUED"},
               total \in Amount : BeginSaveNote(q, n, b, status, total)
  PROVE  IInv'
<1>1. ASSUME NEW args \in JobType, Begin(q, args),
             args.op \in {"deleteBill", "saveNote", "noteStatus", "deleteNote"},
             args.op = "saveNote" =>
               /\ args.bill \in Bills /\ args.status # "NONE"
               /\ args.note # NoOne =>
                    args.note \in args.want /\ note[args.note].status # "NONE",
             args.op = "noteStatus" =>
               /\ args.note \in Notes /\ args.status # "NONE"
               /\ args.note \in args.want /\ note[args.note].status # "NONE"
      PROVE  IInv'
  <2>1. job'[q] = args /\ pc'[q] = "first" /\ note' = note
    BY <1>1 DEF Begin, IInv, TypeOK
  <2>2. JobsOK(q)'
    BY <1>1, <2>1, OtherOps DEF NoMoreLocks, NoteJob, SaveNoteJob, NoteStatusJob, Secures
  <2>3. QED
    BY <1>1, <2>2, BeginStep
<1>2. ASSUME NEW b \in Bills, BeginDeleteBill(q, b) PROVE IInv'
  <2> DEFINE args == [NoJob EXCEPT !.op = "deleteBill", !.bill = b]
  <2>1. args \in JobType /\ args.op = "deleteBill"
    BY NoJobType DEF JobType, NoJob
  <2>2. QED
    BY <1>1, <1>2, <2>1 DEF BeginDeleteBill
<1>3. ASSUME NEW n \in Notes, BeginDeleteNote(q, n) PROVE IInv'
  <2> DEFINE args == [NoJob EXCEPT !.op = "deleteNote", !.note = n]
  <2>1. args \in JobType /\ args.op = "deleteNote"
    BY NoJobType DEF JobType, NoJob
  <2>2. QED
    BY <1>1, <1>3, <2>1 DEF BeginDeleteNote
<1>4. ASSUME NEW n \in Notes, NEW status \in {"ISSUED", "REJECTED", "CANCELLED"},
             BeginNoteStatus(q, n, status)
      PROVE  IInv'
  <2> DEFINE args == [NoJob EXCEPT !.op = "noteStatus", !.note = n, !.status = status,
                                   !.want = {n}]
  <2>1. /\ args \in JobType /\ args.op = "noteStatus" /\ args.note = n /\ args.status = status
        /\ n \in args.want
    BY NoJobType DEF JobType, NoJob, Rows, Statuses
  <2>2. QED
    BY <1>1, <1>4, <2>1 DEF BeginNoteStatus
<1>5. ASSUME NEW n \in Notes \cup {NoOne}, NEW b \in Bills, NEW status \in {"DRAFT", "ISSUED"},
             NEW total \in Amount, BeginSaveNote(q, n, b, status, total)
      PROVE  IInv'
  <2> DEFINE args == [NoJob EXCEPT !.op = "saveNote", !.note = n, !.bill = b,
        !.status = status, !.total = total, !.want = {Branch} \cup ({n} \ {NoOne})]
  <2>1. {Branch} \cup ({n} \ {NoOne}) \in SUBSET Rows
    BY DEF Rows
  <2>2. /\ args \in JobType /\ args.op = "saveNote" /\ args.bill = b /\ args.status = status
        /\ args.note = n /\ (n # NoOne => n \in args.want)
    BY <2>1, NoJobType DEF JobType, NoJob, Statuses
  <2>3. QED
    BY <1>1, <1>5, <2>2 DEF BeginSaveNote
<1>6. QED
  BY <1>2, <1>3, <1>4, <1>5

\* A stage of a debit note's handler.
LEMMA NoteStageStep ==
  ASSUME IInv, NEW q \in Requests, ReadSaveNote(q) \/ CheckSaveNote(q) \/
                                   ReadNoteStatus(q) \/ CheckNoteStatus(q)
  PROVE  IInv'
<1>1. /\ job[q] \in JobType /\ pc \in [Requests -> Stages] /\ job \in [Requests -> JobType]
      /\ SaveNoteJob(q) /\ NoteStatusJob(q) /\ NotesHaveBill
      /\ \A n \in Notes : note[n].bill \in Bills \cup {NoOne} /\ note[n].total \in Amount
  BY DEF IInv, TypeOK, NoteJob
<1>2. ASSUME NEW stage \in {"second", "checked"}, NEW args \in JobType,
             Proceed(q, stage, args), args.op \in {"saveNote", "noteStatus"},
             stage = "checked" => args.want = {}, SaveNoteJob(q)', NoteStatusJob(q)'
      PROVE  IInv'
  <2>1. job'[q] = args /\ pc'[q] = stage
    BY <1>1, <1>2 DEF Proceed
  <2>2. JobsOK(q)'
    BY <1>2, <2>1, OtherOps DEF NoMoreLocks, NoteJob
  <2>3. stage \in Stages
    BY DEF Stages
  <2>4. QED
    BY <1>2, <2>2, <2>3, ProceedStep
<1>3. ASSUME CheckSaveNote(q) PROVE IInv'
  <2>1. /\ pc[q] = "second" /\ job[q].op = "saveNote" /\ job[q].want = {}
        /\ Proceed(q, "checked", job[q])
        /\ job[q].status = "ISSUED" => ValidReturn(job[q].bill, job[q].total, job[q].note)
    BY <1>3 DEF CheckSaveNote, At
  <2>2. /\ job'[q] = job[q] /\ pc'[q] = "checked"
        /\ lock' = lock /\ note' = note /\ bill' = bill
    BY <1>1, <2>1 DEF Proceed
  <2>3. job[q].status = "ISSUED" => Fits(q, job[q].bill, job[q].total, job[q].note)'
    BY <1>1, <2>1, <2>2, SameReturns DEF SaveNoteJob, Fits, Secures, ValidReturn
  <2>4. SaveNoteJob(q)'
    BY <1>1, <2>1, <2>2, <2>3 DEF SaveNoteJob, Secures
  <2>5. NoteStatusJob(q)'
    BY <2>1, <2>2 DEF NoteStatusJob
  <2>6. QED
    BY <1>1, <1>2, <2>1, <2>4, <2>5
<1>4. ASSUME CheckNoteStatus(q) PROVE IInv'
  <2>1. /\ pc[q] = "second" /\ job[q].op = "noteStatus" /\ job[q].want = {}
        /\ Proceed(q, "checked", job[q])
        /\ job[q].status = "ISSUED" => ValidReturn(job[q].bill, job[q].total, job[q].note)
    BY <1>4 DEF CheckNoteStatus, At
  <2>2. /\ job'[q] = job[q] /\ pc'[q] = "checked"
        /\ lock' = lock /\ note' = note /\ bill' = bill
    BY <1>1, <2>1 DEF Proceed
  <2>3. job[q].status = "ISSUED" => Fits(q, job[q].bill, job[q].total, job[q].note)'
    BY <1>1, <2>1, <2>2, SameReturns DEF NoteStatusJob, Fits, Secures, ValidReturn
  <2>4. NoteStatusJob(q)'
    BY <1>1, <2>1, <2>2, <2>3 DEF NoteStatusJob, Secures
  <2>5. SaveNoteJob(q)'
    BY <2>1, <2>2 DEF SaveNoteJob
  <2>6. QED
    BY <1>1, <1>2, <2>1, <2>4, <2>5
<1>5. ASSUME ReadSaveNote(q) PROVE IInv'
  <2> DEFINE rows == IF job[q].status = "ISSUED" THEN {job[q].bill} ELSE {}
             args == [job[q] EXCEPT !.want = rows]
  <2>1. /\ pc[q] = "first" /\ job[q].op = "saveNote" /\ job[q].want = {}
        /\ Proceed(q, "second", args)
    BY <1>5 DEF ReadSaveNote, At
  <2>2. /\ job[q].bill \in Bills /\ job[q].status # "NONE"
        /\ job[q].note # NoOne => note[job[q].note].status # "NONE" /\ lock[job[q].note] = q
    BY <1>1, <2>1 DEF SaveNoteJob, Secures
  <2>3. rows \in SUBSET Rows
    BY <2>2 DEF Rows
  <2>4. /\ args \in JobType /\ args.op = "saveNote"
        /\ args.note = job[q].note /\ args.status = job[q].status /\ args.bill = job[q].bill
        /\ args.want = rows
    BY <1>1, <2>1, <2>3 DEF JobType
  <2>5. /\ job'[q] = args /\ pc'[q] = "second"
        /\ lock' = lock /\ note' = note /\ bill' = bill
    BY <1>1, <2>1 DEF Proceed
  <2>6. SaveNoteJob(q)'
    BY <2>2, <2>4, <2>5 DEF SaveNoteJob, Fits, Secures
  <2>7. NoteStatusJob(q)'
    BY <2>4, <2>5 DEF NoteStatusJob
  <2>8. QED
    BY <1>2, <2>1, <2>4, <2>6, <2>7
<1>6. ASSUME ReadNoteStatus(q) PROVE IInv'
  <2> DEFINE n == job[q].note
             rows == IF job[q].status = "ISSUED" THEN {note[n].bill} ELSE {}
             args == [job[q] EXCEPT !.bill = note[n].bill, !.total = note[n].total,
                                    !.want = rows]
  <2>1. /\ pc[q] = "first" /\ job[q].op = "noteStatus" /\ job[q].want = {}
        /\ Proceed(q, "second", args)
    BY <1>6 DEF ReadNoteStatus, At
  <2>2. /\ n \in Notes /\ note[n].status # "NONE" /\ lock[n] = q /\ job[q].status # "NONE"
        /\ note[n].bill \in Bills /\ note[n].total \in Amount
    BY <1>1, <2>1 DEF NoteStatusJob, Secures, NotesHaveBill
  <2>3. rows \in SUBSET Rows
    BY <2>2 DEF Rows
  <2>4. /\ args \in JobType /\ args.op = "noteStatus"
        /\ args.note = n /\ args.status = job[q].status /\ args.bill = note[n].bill
        /\ args.total = note[n].total /\ args.want = rows
    BY <1>1, <2>1, <2>2, <2>3 DEF JobType
  <2>5. /\ job'[q] = args /\ pc'[q] = "second"
        /\ lock' = lock /\ note' = note /\ bill' = bill
    BY <1>1, <2>1 DEF Proceed
  <2>6. NoteStatusJob(q)'
    BY <2>2, <2>4, <2>5 DEF NoteStatusJob, Fits, Secures
  <2>7. SaveNoteJob(q)'
    BY <2>4, <2>5 DEF SaveNoteJob
  <2>8. QED
    BY <1>2, <2>1, <2>4, <2>6, <2>7
<1>7. QED
  BY <1>3, <1>4, <1>5, <1>6

LEMMA ListOpenBillsStep ==
  ASSUME IInv, NEW q \in Requests, ListOpenBills(q)
  PROVE  IInv'
<1> DEFINE args == [job[q] EXCEPT !.want = OpenBills]
<1>1. /\ At(q, "first", "pay") /\ Proceed(q, "second", args)
      /\ \A r \in Receipts : Stored(r) => receipt[r].key # job[q].key
  BY DEF ListOpenBills
<1>2. /\ job[q] \in JobType /\ pc \in [Requests -> Stages] /\ job \in [Requests -> JobType]
      /\ PayJob(q)
  BY DEF IInv, TypeOK
<1>3. /\ args \in JobType /\ args.op = "pay" /\ args.key = job[q].key
      /\ "second" \in Stages
  BY <1>1, <1>2 DEF JobType, OpenBills, Rows, At, Stages
<1>4. /\ job'[q] = args /\ pc'[q] = "second"
      /\ lock' = lock /\ receipt' = receipt
  BY <1>1, <1>2 DEF Proceed
<1>5. lock[Branch] = q
  BY <1>1, <1>2 DEF At, PayJob, Secures
<1>6. job[q].key \in Keys
  BY <1>1, <1>2 DEF At, PayJob
<1>7. PayJob(q)'
  BY <1>1, <1>3, <1>4, <1>5, <1>6 DEF PayJob, Stored
<1>8. JobsOK(q)'
  BY <1>3, <1>4, <1>7 DEF JobsOK, NoMoreLocks, ReceiptJob, BillJob, NoteJob, SaveNoteJob,
     NoteStatusJob
<1>9. QED
  BY <1>1, <1>3, <1>8, ProceedStep

LEMMA AllocateStep ==
  ASSUME IInv, NEW q \in Requests, Allocate(q)
  PROVE  IInv'
<1>1. At(q, "second", "pay")
  BY DEF Allocate
<1>2. PICK plan \in [Bills -> Amount] :
        /\ \E b \in Bills : plan[b] > 0
        /\ \A b \in Bills : plan[b] > 0 => b \in OpenBills /\ plan[b] <= Outstanding(b)
        /\ Proceed(q, "checked", [job[q] EXCEPT !.plan = plan])
  BY DEF Allocate
<1> DEFINE args == [job[q] EXCEPT !.plan = plan]
<1>3. /\ job[q] \in JobType /\ pc \in [Requests -> Stages] /\ job \in [Requests -> JobType]
      /\ PayJob(q) /\ TypeOK
  BY DEF IInv, TypeOK
<1>4. /\ args \in JobType /\ args.op = "pay" /\ args.key = job[q].key /\ args.plan = plan
      /\ args.want = {} /\ "checked" \in Stages
  BY <1>1, <1>3 DEF JobType, At, Stages
<1>5. /\ job'[q] = args /\ pc'[q] = "checked"
      /\ lock' = lock /\ receipt' = receipt /\ bill' = bill
  BY <1>2, <1>3 DEF Proceed
<1>6. \A b \in Bills : plan[b] > 0 =>
        bill'[b].status = "ISSUED" /\ plan[b] <= Outstanding(b)'
  <2>1. \A b \in Bills : Outstanding(b)' = Outstanding(b)
    BY <1>2, <1>5, SameReturns DEF Outstanding, Proceed
  <2>2. QED
    BY <1>2, <1>5, <2>1 DEF OpenBills
<1>7. PayJob(q)'
  BY <1>1, <1>2, <1>3, <1>4, <1>5, <1>6 DEF PayJob, Stored, At
<1>8. JobsOK(q)'
  BY <1>4, <1>5, <1>7 DEF JobsOK, NoMoreLocks, ReceiptJob, BillJob, NoteJob, SaveNoteJob,
     NoteStatusJob
<1>9. QED
  BY <1>2, <1>4, <1>8, ProceedStep

\* The second reads of void, restore and remove.
LEMMA ReceiptStageStep ==
  ASSUME IInv, NEW q \in Requests, CheckVoid(q) \/ CheckRestore(q) \/ CheckRemove(q)
  PROVE  IInv'
<1> DEFINE r == job[q].receipt
           args == [job[q] EXCEPT !.plan = receipt[r].rows]
<1>1. /\ job[q] \in JobType /\ pc \in [Requests -> Stages] /\ job \in [Requests -> JobType]
      /\ ReceiptJob(q) /\ TypeOK /\ PaidMatchesRows /\ "checked" \in Stages
  BY DEF IInv, TypeOK, Stages
<1>2. pc[q] = "first" /\ job[q].want = {} /\ job[q].op \in {"void", "restore", "remove"}
  BY DEF CheckVoid, CheckRestore, CheckRemove, At
<1>3. r \in Receipts /\ receipt[r].state # "none" /\ Secures(q, BillsOf(r))
  BY <1>1, <1>2 DEF ReceiptJob
<1>4. receipt[r].rows \in [Bills -> Amount]
  BY <1>1, <1>3 DEF TypeOK
<1>5. /\ args \in JobType /\ args.op = job[q].op /\ args.receipt = r /\ args.want = {}
      /\ args.plan = receipt[r].rows
  BY <1>1, <1>2, <1>4 DEF JobType
<1>6. ASSUME NEW final \in {args, job[q]}, Proceed(q, "checked", final),
             job[q].op = "void" => receipt[r].state = "live",
             job[q].op = "restore" => receipt[r].state = "voided" /\
               \A b \in BillsOf(r) : b \in OpenBills /\ receipt[r].rows[b] <= Outstanding(b),
             Stored(r),
             final.plan = IF job[q].op = "remove" /\ receipt[r].state = "voided"
                          THEN NoRows ELSE receipt[r].rows
      PROVE  IInv'
  <2>1. /\ final \in JobType /\ final.op = job[q].op /\ final.receipt = r /\ final.want = {}
    BY <1>1, <1>2, <1>5
  <2>2. /\ job'[q] = final /\ pc'[q] = "checked" /\ lock' = lock
        /\ receipt' = receipt /\ bill' = bill
        /\ \A s \in Receipts : BillsOf(s)' = BillsOf(s)
    BY <1>1, <1>6 DEF Proceed, BillsOf
  <2>3. Secures(q, BillsOf(r))'
    BY <1>2, <1>3, <2>1, <2>2 DEF Secures
  <2>4. job[q].op = "restore" => \A b \in BillsOf(r) :
          bill'[b].status = "ISSUED" /\ final.plan[b] <= Outstanding(b)'
    <3> SUFFICES ASSUME job[q].op = "restore", NEW b \in BillsOf(r)
                 PROVE  bill'[b].status = "ISSUED" /\ final.plan[b] <= Outstanding(b)'
      OBVIOUS
    <3>1. final.plan[b] <= Outstanding(b) /\ bill[b].status = "ISSUED"
      BY <1>6 DEF OpenBills
    <3>2. Outstanding(b)' = Outstanding(b)
      BY <1>6, <2>2, SameReturns DEF Outstanding, Proceed
    <3>3. QED
      BY <2>2, <3>1, <3>2
  <2>5. ReceiptJob(q)'
    BY <1>3, <1>6, <2>1, <2>2, <2>3, <2>4 DEF ReceiptJob, Stored
  <2>6. JobsOK(q)'
    BY <1>2, <2>1, <2>2, <2>5 DEF JobsOK, NoMoreLocks, PayJob, BillJob, NoteJob, SaveNoteJob,
       NoteStatusJob
  <2>7. QED
    BY <1>1, <1>6, <2>1, <2>6, ProceedStep
<1>7. CASE CheckVoid(q)
  BY <1>5, <1>6, <1>7 DEF CheckVoid, At, Stored
<1>8. CASE CheckRestore(q)
  BY <1>5, <1>6, <1>8 DEF CheckRestore, At, Stored
<1>9. CASE CheckRemove(q)
  <2>1. Stored(r) /\ job[q].op = "remove"
    BY <1>9 DEF CheckRemove, At
  <2>2. CASE receipt[r].state = "live"
    BY <1>5, <1>6, <1>9, <2>1, <2>2 DEF CheckRemove
  <2>3. CASE receipt[r].state = "voided"
    <3>1. Proceed(q, "checked", job[q])
      BY <1>9, <2>3 DEF CheckRemove
    <3>2. job[q].plan = NoRows
      BY <1>1, <1>2 DEF ReceiptJob
    <3>3. QED
      BY <1>6, <2>1, <2>3, <3>1, <3>2
  <2>4. QED
    BY <2>1, <2>2, <2>3 DEF Stored
<1>10. QED
  BY <1>7, <1>8, <1>9

\* The checks of update and updateStatus of a bill.
LEMMA BillStageStep ==
  ASSUME IInv, NEW q \in Requests, CheckEditBill(q) \/ CheckBillStatus(q)
  PROVE  IInv'
<1> DEFINE b == job[q].bill
<1>1. /\ job[q] \in JobType /\ pc \in [Requests -> Stages] /\ job \in [Requests -> JobType]
      /\ BillJob(q) /\ "checked" \in Stages
  BY DEF IInv, TypeOK, Stages
<1>2. /\ pc[q] = "first" /\ job[q].want = {} /\ job[q].op \in {"editBill", "billStatus"}
      /\ Proceed(q, "checked", job[q])
  BY DEF CheckEditBill, CheckBillStatus, At
<1>3. b \in Bills /\ bill[b].status # "NONE" /\ Secures(q, {b}) /\ job[q].status # "NONE"
  BY <1>1, <1>2 DEF BillJob
<1>4. /\ job'[q] = job[q] /\ pc'[q] = "checked" /\ lock' = lock /\ bill' = bill
      /\ LiveNotes(b)' = LiveNotes(b)
  BY <1>1, <1>2, SameReturns DEF Proceed
<1>5. /\ bill[b].paid \in Nat /\ bill[b].status \in Statuses
      /\ bill[b].status \in {"NONE", "DRAFT"} => bill[b].paid = 0
      /\ job[q].status \in Statuses
      /\ LiveNotes(b) # {} => bill[b].status = "ISSUED"
  BY <1>1, <1>3 DEF IInv, TypeOK, DraftsUnpaid, JobType, ReturnsHaveIssuedBill
<1>6. CASE CheckEditBill(q)
  <2>1. job[q].op = "editBill" /\ bill[b].paid = 0 /\ LiveNotes(b) = {}
    BY <1>5, <1>6 DEF CheckEditBill, At
  <2>2. job[q].status = "DRAFT" => bill[b].status = "DRAFT"
    BY <1>6 DEF CheckEditBill
  <2>3. BillJob(q)'
    BY <1>2, <1>3, <1>4, <2>1, <2>2 DEF BillJob, Secures
  <2>4. JobsOK(q)'
    BY <1>2, <1>4, <2>1, <2>3 DEF JobsOK, NoMoreLocks, ReceiptJob, PayJob, NoteJob, SaveNoteJob,
       NoteStatusJob
  <2>5. QED
    BY <1>1, <1>2, <2>4, ProceedStep
<1>7. CASE CheckBillStatus(q)
  <2>1. job[q].op = "billStatus" /\ StatusMayChange(bill[b].status, job[q].status)
    BY <1>7 DEF CheckBillStatus, At
  <2>2. /\ job[q].status # "DRAFT"
        /\ job[q].status # "ISSUED" => bill[b].paid = 0 /\ LiveNotes(b) = {}
    BY <1>5, <1>7, <2>1 DEF CheckBillStatus, StatusMayChange
  <2>3. BillJob(q)'
    BY <1>2, <1>3, <1>4, <2>1, <2>2 DEF BillJob, Secures
  <2>4. JobsOK(q)'
    BY <1>2, <1>4, <2>1, <2>3 DEF JobsOK, NoMoreLocks, ReceiptJob, PayJob, NoteJob, SaveNoteJob,
       NoteStatusJob
  <2>5. QED
    BY <1>1, <1>2, <2>4, ProceedStep
<1>8. QED
  BY <1>2, <1>6, <1>7

-----------------------------------------------------------------------------
(* Steps that commit                                                        *)

\* A committing step keeps the invariant if it disturbs nobody and leaves the
\* rows as the invariant wants them.
LEMMA WriteStep ==
  ASSUME IInv, NEW q \in Requests, End(q),
         \A p \in Requests \ {q} : Undisturbed(p),
         bill' \in [Bills -> [status : Statuses, total : Amount, paid : Nat,
                              stockAdjusted : BOOLEAN, deleted : BOOLEAN]],
         note' \in [Notes -> [status : Statuses, bill : Bills \cup {NoOne}, total : Amount,
                              deleted : BOOLEAN]],
         receipt' \in [Receipts -> [state : {"none", "live", "voided", "removed"},
                                    key : Keys \cup {NoOne}, rows : [Bills -> Amount]]],
         unguarded' \subseteq Bills,
         PaidMatchesRows', OneReceiptPerRequest', PaidWithinTotal', ClosedBillsUnpaid',
         ReturnsWithinTotal', ReturnsHaveIssuedBill',
         ReceiptsHaveRows', DraftsUnpaid', NotesHaveBill'
  PROVE  IInv'
<1>1. TypeOK'
  BY EndType DEF IInv, TypeOK
<1>2. JobsOK(q)'
  BY EndType, IdleJob DEF IInv
<1>3. \A p \in Requests : JobsOK(p)'
  BY <1>2, OthersKeep
<1>4. QED
  BY <1>1, <1>3 DEF IInv, JobsOK

\* The amounts on a bill add up, whoever looks at them.
LEMMA RowsAreNat ==
  ASSUME TypeOK
  PROVE  /\ IsFiniteSet(LiveReceipts)
         /\ \A b \in Bills, r \in Receipts : RowsOn(b)[r] = receipt[r].rows[b] /\ RowsOn(b)[r] \in Nat
<1>1. IsFiniteSet(LiveReceipts)
  BY FS_Subset DEF LiveReceipts
<1>2. \A b \in Bills, r \in Receipts : RowsOn(b)[r] = receipt[r].rows[b]
  BY DEF RowsOn
<1>3. \A b \in Bills, r \in Receipts : receipt[r].rows[b] \in Nat
  BY DEF TypeOK, Amount
<1>4. QED
  BY <1>1, <1>2, <1>3

\* A live receipt that is voided or removed takes its amount off the sum.
LEMMA OneReceiptLess ==
  ASSUME TypeOK, PaidMatchesRows, NEW r \in Receipts, receipt[r].state = "live",
         NEW state \in {"voided", "removed"},
         receipt' = [receipt EXCEPT ![r].state = state], NEW b \in Bills
  PROVE  /\ receipt[r].rows[b] <= bill[b].paid
         /\ SumOf(LiveReceipts', RowsOn(b)') = bill[b].paid - receipt[r].rows[b]
<1>1. r \in LiveReceipts /\ LiveReceipts' = LiveReceipts \ {r} /\ RowsOn(b)' = RowsOn(b)
  BY DEF TypeOK, LiveReceipts, RowsOn
<1>2. /\ IsFiniteSet(LiveReceipts) /\ RowsOn(b)[r] = receipt[r].rows[b]
      /\ \A s \in LiveReceipts : RowsOn(b)[s] \in Nat
  BY RowsAreNat DEF LiveReceipts
<1>3. SumOf(LiveReceipts, RowsOn(b)) = SumOf(LiveReceipts \ {r}, RowsOn(b)) + RowsOn(b)[r]
  BY <1>1, <1>2, SumRemove
<1>4. RowsOn(b)[r] <= SumOf(LiveReceipts, RowsOn(b))
  BY <1>1, <1>2, SumMember
<1>5. IsFiniteSet(LiveReceipts \ {r}) /\ SumOf(LiveReceipts \ {r}, RowsOn(b)) \in Nat
  BY <1>2, FS_RemoveElement, SumIsNat
<1>6. bill[b].paid = SumOf(LiveReceipts, RowsOn(b)) /\ RowsOn(b)[r] \in Nat
  BY <1>1, <1>2 DEF PaidMatchesRows
<1>7. bill[b].paid - RowsOn(b)[r] = SumOf(LiveReceipts \ {r}, RowsOn(b))
  BY <1>3, <1>5, <1>6, SMT
<1>8. QED
  BY <1>1, <1>2, <1>4, <1>6, <1>7

\* A receipt that becomes live adds its amount to the sum.
LEMMA OneReceiptMore ==
  ASSUME TypeOK, PaidMatchesRows, NEW r \in Receipts, receipt[r].state # "live",
         NEW new \in [state : {"live"}, key : Keys \cup {NoOne}, rows : [Bills -> Amount]],
         receipt' = [receipt EXCEPT ![r] = new], NEW b \in Bills
  PROVE  SumOf(LiveReceipts', RowsOn(b)') = bill[b].paid + new.rows[b]
<1>1. /\ receipt'[r] = new /\ \A s \in Receipts \ {r} : receipt'[s] = receipt[s]
      /\ r \notin LiveReceipts
  BY DEF TypeOK, LiveReceipts
<1>2. LiveReceipts' = LiveReceipts \cup {r} /\ LiveReceipts \subseteq Receipts
  BY <1>1 DEF LiveReceipts
<1>3. /\ IsFiniteSet(LiveReceipts)
      /\ \A s \in LiveReceipts : RowsOn(b)[s] \in Nat
  BY RowsAreNat DEF LiveReceipts
<1>4. /\ \A s \in LiveReceipts : RowsOn(b)'[s] = RowsOn(b)[s]
      /\ RowsOn(b)'[r] = new.rows[b] /\ new.rows[b] \in Nat
  BY <1>1, <1>2 DEF RowsOn, Amount
<1>5. \A s \in LiveReceipts \cup {r} : RowsOn(b)'[s] \in Nat
  BY <1>3, <1>4
<1>6. SumOf(LiveReceipts \cup {r}, RowsOn(b)') = SumOf(LiveReceipts, RowsOn(b)') + RowsOn(b)'[r]
  <2>1. PICK S : S = LiveReceipts
    OBVIOUS
  <2>2. PICK f : f = RowsOn(b)'
    OBVIOUS
  <2>3. IsFiniteSet(S) /\ r \notin S /\ \A s \in S \cup {r} : f[s] \in Nat
    BY <1>1, <1>3, <1>5, <2>1, <2>2
  <2>4. SumOf(S \cup {r}, f) = SumOf(S, f) + f[r]
    BY <2>3, SumAdd
  <2>5. QED
    BY <2>1, <2>2, <2>4
<1>7. SumOf(LiveReceipts, RowsOn(b)') = SumOf(LiveReceipts, RowsOn(b))
  BY <1>4, SumSame
<1>8. QED
  BY <1>2, <1>4, <1>6, <1>7 DEF PaidMatchesRows

\* A receipt that changes its state keeps its rows and its requestId.
LEMMA StateChange ==
  ASSUME TypeOK, NEW r \in Receipts, NEW state \in {"live", "voided", "removed"},
         receipt' = [receipt EXCEPT ![r].state = state]
  PROVE  /\ receipt'[r].rows = receipt[r].rows /\ receipt'[r].key = receipt[r].key
         /\ receipt'[r].state = state
         /\ \A s \in Receipts \ {r} : receipt'[s] = receipt[s]
         /\ receipt' \in [Receipts -> [state : {"none", "live", "voided", "removed"},
                                       key : Keys \cup {NoOne}, rows : [Bills -> Amount]]]
<1>1. /\ receipt[r] \in [state : {"none", "live", "voided", "removed"},
                          key : Keys \cup {NoOne}, rows : [Bills -> Amount]]
      /\ receipt'[r] = [receipt[r] EXCEPT !.state = state]
      /\ \A s \in Receipts \ {r} : receipt'[s] = receipt[s]
  BY DEF TypeOK
<1>2. /\ receipt'[r].rows = receipt[r].rows /\ receipt'[r].key = receipt[r].key
      /\ receipt'[r].state = state
      /\ receipt'[r] \in [state : {"none", "live", "voided", "removed"},
                           key : Keys \cup {NoOne}, rows : [Bills -> Amount]]
  BY <1>1
<1>3. QED
  BY <1>1, <1>2 DEF TypeOK

\* void and remove: the amounts come off bills that q has locked.
LEMMA TakeBackStep ==
  ASSUME IInv, NEW q \in Requests, CommitVoid(q) \/ CommitRemove(q)
  PROVE  IInv'
<1> DEFINE r == job[q].receipt
           plan == job[q].plan
<1>1. PICK state \in {"voided", "removed"} :
        /\ receipt' = [receipt EXCEPT ![r].state = state]
        /\ state = "voided" => job[q].op = "void"
  BY DEF CommitVoid, CommitRemove, At
<1>2. /\ pc[q] = "checked" /\ job[q].op \in {"void", "remove"}
      /\ bill' = [b \in Bills |-> [bill[b] EXCEPT !.paid = @ - plan[b]]]
      /\ End(q) /\ UNCHANGED <<note, unguarded>>
  BY DEF CommitVoid, CommitRemove, At
<1>3. /\ TypeOK /\ ReceiptJob(q) /\ NoMoreLocks(q) /\ PaidMatchesRows
      /\ job[q] \in JobType
  BY DEF IInv, TypeOK
<1>4. /\ r \in Receipts /\ receipt[r].state \in {"live", "voided"} /\ Secures(q, BillsOf(r))
      /\ plan = IF job[q].op = "remove" /\ receipt[r].state = "voided"
                THEN NoRows ELSE receipt[r].rows
      /\ job[q].op = "void" => receipt[r].state = "live"
  BY <1>2, <1>3 DEF ReceiptJob, Stored
<1>5. \A b \in BillsOf(r) : lock[b] = q
  BY <1>2, <1>3, <1>4 DEF Secures, NoMoreLocks
<1>6. /\ receipt'[r].rows = receipt[r].rows /\ receipt'[r].key = receipt[r].key
      /\ receipt'[r].state = state
      /\ \A s \in Receipts \ {r} : receipt'[s] = receipt[s]
      /\ receipt' \in [Receipts -> [state : {"none", "live", "voided", "removed"},
                                    key : Keys \cup {NoOne}, rows : [Bills -> Amount]]]
  BY <1>1, <1>3, <1>4, StateChange
<1>7. \A b \in Bills : /\ plan[b] \in Nat /\ (plan[b] > 0 => lock[b] = q)
                       /\ plan[b] <= bill[b].paid
                       /\ SumOf(LiveReceipts', RowsOn(b)') = bill[b].paid - plan[b]
  <2> SUFFICES ASSUME NEW b \in Bills
               PROVE  /\ plan[b] \in Nat /\ (plan[b] > 0 => lock[b] = q)
                      /\ plan[b] <= bill[b].paid
                      /\ SumOf(LiveReceipts', RowsOn(b)') = bill[b].paid - plan[b]
    OBVIOUS
  <2>1. CASE receipt[r].state = "live"
    <3>1. plan = receipt[r].rows
      BY <1>4, <2>1
    <3>2. plan[b] \in Nat /\ (plan[b] > 0 => lock[b] = q)
      BY <1>3, <1>4, <1>5, <3>1 DEF BillsOf, TypeOK, Amount
    <3>3. QED
      BY <1>1, <1>3, <1>4, <2>1, <3>1, <3>2, OneReceiptLess
  <2>2. CASE receipt[r].state = "voided"
    <3>1. plan[b] = 0
      BY <1>2, <1>4, <2>2 DEF NoRows
    <3>2. bill[b].paid \in Nat
      BY <1>3 DEF TypeOK
    <3>3. LiveReceipts' = LiveReceipts /\ RowsOn(b)' = RowsOn(b)
      BY <1>6, <2>2 DEF LiveReceipts, RowsOn
    <3>4. SumOf(LiveReceipts', RowsOn(b)') = bill[b].paid
      BY <1>3, <3>3 DEF PaidMatchesRows
    <3>5. QED
      BY <3>1, <3>2, <3>4
  <2>3. QED
    BY <1>4, <2>1, <2>2
<1>8. /\ bill' \in [Bills -> [status : Statuses, total : Amount, paid : Nat,
                              stockAdjusted : BOOLEAN, deleted : BOOLEAN]]
      /\ \A b \in Bills : /\ bill'[b].paid = bill[b].paid - plan[b]
                          /\ bill'[b].total = bill[b].total /\ bill'[b].status = bill[b].status
                          /\ plan[b] = 0 => bill'[b] = bill[b]
                          /\ bill[b].paid \in Nat /\ bill[b].total \in Nat
  <2>1. \A b \in Bills : /\ bill[b].paid \in Nat /\ plan[b] \in Nat
                         /\ bill[b].paid - plan[b] \in Nat
    BY <1>3, <1>7 DEF TypeOK
  <2>2. \A b \in Bills : bill[b] \in [status : Statuses, total : Amount, paid : Nat,
                                       stockAdjusted : BOOLEAN, deleted : BOOLEAN]
    BY <1>3 DEF TypeOK
  <2>3. \A b \in Bills : bill'[b] = [bill[b] EXCEPT !.paid = bill[b].paid - plan[b]]
    BY <1>2
  <2>4. QED
    BY <1>2, <2>1, <2>2, <2>3 DEF Amount
<1>9. PaidMatchesRows'
  BY <1>7, <1>8 DEF PaidMatchesRows
<1>10. PaidWithinTotal' /\ ClosedBillsUnpaid' /\ DraftsUnpaid'
  <2>1. \A b \in Bills : bill'[b].paid <= bill[b].paid /\ bill'[b].paid \in Nat
    BY <1>7, <1>8
  <2>2. unguarded' = unguarded
    BY <1>2
  <2>3. PaidWithinTotal'
    BY <1>8, <2>1, <2>2 DEF IInv, PaidWithinTotal
  <2>4. ClosedBillsUnpaid' /\ DraftsUnpaid'
    BY <1>8, <2>1, <2>2 DEF IInv, ClosedBillsUnpaid, DraftsUnpaid
  <2>5. QED
    BY <2>3, <2>4
<1>11. OneReceiptPerRequest' /\ ReceiptsHaveRows' /\ NotesHaveBill'
  <2>1. OneReceiptPerRequest'
    BY <1>4, <1>6 DEF IInv, OneReceiptPerRequest, Stored
  <2>2. ReceiptsHaveRows'
    BY <1>4, <1>6 DEF IInv, ReceiptsHaveRows, BillsOf
  <2>3. NotesHaveBill'
    BY <1>2 DEF IInv, NotesHaveBill
  <2>4. QED
    BY <2>1, <2>2, <2>3
<1>12. ASSUME NEW p \in Requests \ {q} PROVE Undisturbed(p)
  <2>1. /\ pc'[p] = pc[p] /\ job'[p] = job[p]
        /\ \A row \in Rows : lock'[row] = p <=> lock[row] = p
    BY <1>2, <1>3, EndType
  <2>2. \A s \in Receipts : receipt[s].state # "none" =>
          /\ receipt'[s].rows = receipt[s].rows /\ receipt'[s].state # "none"
          /\ receipt'[s] = receipt[s] \/ \A b \in BillsOf(s) : lock[b] # p
    BY <1>5, <1>6
  <2>3. \A s \in Receipts : Stored(s)' => Stored(s) /\ receipt'[s].key = receipt[s].key
    BY <1>4, <1>6 DEF Stored
  <2>4. \A b \in Bills :
          /\ lock[b] = p => bill'[b] = bill[b]
          /\ bill'[b].status = bill[b].status
    BY <1>7, <1>8
  <2>5. QED
    BY <1>2, <2>1, <2>2, <2>3, <2>4, SameReturns DEF Undisturbed
<1>13. /\ note' \in [Notes -> [status : Statuses, bill : Bills \cup {NoOne}, total : Amount,
                               deleted : BOOLEAN]]
       /\ unguarded' \subseteq Bills
  BY <1>2, <1>3 DEF TypeOK
<1>14. ReturnsWithinTotal' /\ ReturnsHaveIssuedBill'
  BY <1>2, <1>8, ReturnsKept
<1>15. QED
  BY <1>2, <1>6, <1>8, <1>9, <1>10, <1>11, <1>12, <1>13, <1>14, WriteStep

\* restore: the bound checked under the locks still holds.
LEMMA CommitRestoreStep ==
  ASSUME IInv, NEW q \in Requests, CommitRestore(q)
  PROVE  IInv'
<1> DEFINE r == job[q].receipt
           plan == job[q].plan
<1>1. receipt' = [receipt EXCEPT ![r].state = "live"]
  BY DEF CommitRestore
<1>2. /\ pc[q] = "checked" /\ job[q].op = "restore"
      /\ bill' = [b \in Bills |-> [bill[b] EXCEPT !.paid = @ + plan[b]]]
      /\ End(q) /\ UNCHANGED <<note, unguarded>>
  BY DEF CommitRestore, At
<1>3. /\ TypeOK /\ ReceiptJob(q) /\ NoMoreLocks(q) /\ PaidMatchesRows
  BY DEF IInv
<1>4. /\ r \in Receipts /\ receipt[r].state = "voided" /\ Secures(q, BillsOf(r))
      /\ plan = receipt[r].rows
      /\ \A b \in BillsOf(r) :
           bill[b].status = "ISSUED" /\ plan[b] <= Outstanding(b)
  BY <1>2, <1>3 DEF ReceiptJob
<1>5. \A b \in BillsOf(r) : lock[b] = q
  BY <1>2, <1>3, <1>4 DEF Secures, NoMoreLocks
<1>6. /\ receipt'[r].rows = receipt[r].rows /\ receipt'[r].key = receipt[r].key
      /\ receipt'[r].state = "live"
      /\ \A s \in Receipts \ {r} : receipt'[s] = receipt[s]
      /\ receipt' \in [Receipts -> [state : {"none", "live", "voided", "removed"},
                                    key : Keys \cup {NoOne}, rows : [Bills -> Amount]]]
  BY <1>1, <1>3, <1>4, StateChange
<1>7. \A b \in Bills : /\ plan[b] \in Nat /\ (plan[b] > 0 => lock[b] = q)
                       /\ plan[b] > 0 => b \in BillsOf(r)
                       /\ SumOf(LiveReceipts', RowsOn(b)') = bill[b].paid + plan[b]
  <2> SUFFICES ASSUME NEW b \in Bills
               PROVE  /\ plan[b] \in Nat /\ (plan[b] > 0 => lock[b] = q)
                      /\ plan[b] > 0 => b \in BillsOf(r)
                      /\ SumOf(LiveReceipts', RowsOn(b)') = bill[b].paid + plan[b]
    OBVIOUS
  <2>1. plan[b] \in Nat /\ (plan[b] > 0 => b \in BillsOf(r))
    BY <1>3, <1>4 DEF BillsOf, TypeOK, Amount
  <2> DEFINE new == [receipt[r] EXCEPT !.state = "live"]
  <2>2. /\ new \in [state : {"live"}, key : Keys \cup {NoOne}, rows : [Bills -> Amount]]
        /\ new.rows = plan /\ receipt' = [receipt EXCEPT ![r] = new]
    <3>1. receipt[r] \in [state : {"none", "live", "voided", "removed"},
                          key : Keys \cup {NoOne}, rows : [Bills -> Amount]]
      BY <1>3, <1>4 DEF TypeOK
    <3>2. receipt' = [receipt EXCEPT ![r] = new]
      BY <1>1
    <3>3. QED
      BY <1>4, <3>1, <3>2
  <2>3. SumOf(LiveReceipts', RowsOn(b)') = bill[b].paid + new.rows[b]
    <3> HIDE DEF new
    <3> QED
      BY <1>3, <1>4, <2>2, OneReceiptMore
  <2>4. QED
    BY <1>5, <2>1, <2>2, <2>3
<1>8. /\ bill' \in [Bills -> [status : Statuses, total : Amount, paid : Nat,
                              stockAdjusted : BOOLEAN, deleted : BOOLEAN]]
      /\ \A b \in Bills : /\ bill'[b].paid = bill[b].paid + plan[b]
                          /\ bill'[b].total = bill[b].total /\ bill'[b].status = bill[b].status
                          /\ plan[b] = 0 => bill'[b] = bill[b]
                          /\ bill[b].paid \in Nat /\ bill[b].total \in Nat
  <2>1. \A b \in Bills : bill[b].paid \in Nat /\ plan[b] \in Nat
    BY <1>3, <1>7 DEF TypeOK
  <2>2. \A b \in Bills : bill[b] \in [status : Statuses, total : Amount, paid : Nat,
                                       stockAdjusted : BOOLEAN, deleted : BOOLEAN]
    BY <1>3 DEF TypeOK
  <2>3. \A b \in Bills : bill'[b] = [bill[b] EXCEPT !.paid = bill[b].paid + plan[b]]
    BY <1>2
  <2>4. QED
    BY <1>2, <2>1, <2>2, <2>3 DEF Amount
<1>9. PaidMatchesRows'
  BY <1>7, <1>8 DEF PaidMatchesRows
<1>10. PaidWithinTotal' /\ ClosedBillsUnpaid' /\ DraftsUnpaid'
  <2>1. \A b \in Bills : plan[b] = 0 \/ (plan[b] > 0 /\ bill[b].status = "ISSUED"
                                        /\ bill'[b].paid <= bill'[b].total)
    BY <1>3, <1>4, <1>7, <1>8, OutstandingBound
  <2>2. unguarded' = unguarded
    BY <1>2
  <2>3. \A b \in Bills : plan[b] = 0 => bill'[b].paid = bill[b].paid
    BY <1>8
  <2>4. PaidWithinTotal'
    BY <1>8, <2>1, <2>2, <2>3 DEF IInv, PaidWithinTotal
  <2>5. ClosedBillsUnpaid' /\ DraftsUnpaid'
    BY <1>8, <2>1, <2>2, <2>3 DEF IInv, ClosedBillsUnpaid, DraftsUnpaid
  <2>6. QED
    BY <2>4, <2>5
<1>11. OneReceiptPerRequest' /\ ReceiptsHaveRows' /\ NotesHaveBill'
  <2>1. OneReceiptPerRequest'
    BY <1>4, <1>6 DEF IInv, OneReceiptPerRequest, Stored
  <2>2. ReceiptsHaveRows'
    BY <1>4, <1>6 DEF IInv, ReceiptsHaveRows, BillsOf
  <2>3. NotesHaveBill'
    BY <1>2 DEF IInv, NotesHaveBill
  <2>4. QED
    BY <2>1, <2>2, <2>3
<1>12. ASSUME NEW p \in Requests \ {q} PROVE Undisturbed(p)
  <2>1. /\ pc'[p] = pc[p] /\ job'[p] = job[p]
        /\ \A row \in Rows : lock'[row] = p <=> lock[row] = p
    BY <1>2, <1>3, EndType
  <2>2. \A s \in Receipts : receipt[s].state # "none" =>
          /\ receipt'[s].rows = receipt[s].rows /\ receipt'[s].state # "none"
          /\ receipt'[s] = receipt[s] \/ \A b \in BillsOf(s) : lock[b] # p
    BY <1>5, <1>6
  <2>3. \A s \in Receipts : Stored(s)' => Stored(s) /\ receipt'[s].key = receipt[s].key
    BY <1>4, <1>6 DEF Stored
  <2>4. \A b \in Bills :
          /\ lock[b] = p => bill'[b] = bill[b]
          /\ bill'[b].status = bill[b].status
    BY <1>7, <1>8
  <2>5. QED
    BY <1>2, <2>1, <2>2, <2>3, <2>4, SameReturns DEF Undisturbed
<1>13. /\ note' \in [Notes -> [status : Statuses, bill : Bills \cup {NoOne}, total : Amount,
                               deleted : BOOLEAN]]
       /\ unguarded' \subseteq Bills
  BY <1>2, <1>3 DEF TypeOK
<1>14. ReturnsWithinTotal' /\ ReturnsHaveIssuedBill'
  BY <1>2, <1>8, ReturnsKept
<1>15. QED
  BY <1>2, <1>6, <1>8, <1>9, <1>10, <1>11, <1>12, <1>13, <1>14, WriteStep

\* create of a receipt: what it pays without a lock it also marks unguarded.
LEMMA CommitPayStep ==
  ASSUME IInv, NEW q \in Requests, CommitPay(q)
  PROVE  IInv'
<1> DEFINE plan == job[q].plan
           new == [state |-> "live", key |-> job[q].key, rows |-> plan]
<1>1. /\ pc[q] = "checked" /\ job[q].op = "pay"
      /\ \A b \in Bills : plan[b] > 0 => CanWrite(q, b)
      /\ bill' = [b \in Bills |-> [bill[b] EXCEPT !.paid = @ + plan[b]]]
      /\ unguarded' = unguarded \cup {b \in Bills : plan[b] > 0 /\ lock[b] # q}
      /\ End(q) /\ note' = note
  BY DEF CommitPay, At
<1>2. PICK r \in Receipts : receipt[r].state = "none" /\ receipt' = [receipt EXCEPT ![r] = new]
  BY DEF CommitPay
<1>3. /\ TypeOK /\ PayJob(q) /\ PaidMatchesRows /\ plan \in [Bills -> Amount]
  BY DEF IInv, TypeOK, JobType
<1>4. /\ job[q].key \in Keys /\ lock[Branch] = q
      /\ \A s \in Receipts : Stored(s) => receipt[s].key # job[q].key
      /\ \E b \in Bills : plan[b] > 0
      /\ \A b \in Bills : plan[b] > 0 =>
           /\ bill[b].status \notin {"NONE", "DRAFT"}
           /\ lock[b] = q => bill[b].status = "ISSUED" /\ plan[b] <= Outstanding(b)
  BY <1>1, <1>3 DEF PayJob
<1>5. new \in [state : {"live"}, key : Keys \cup {NoOne}, rows : [Bills -> Amount]]
      /\ new.rows = plan /\ new.key = job[q].key /\ new.state = "live"
  BY <1>3, <1>4
<1>6. /\ receipt'[r] = new /\ \A s \in Receipts \ {r} : receipt'[s] = receipt[s]
      /\ receipt' \in [Receipts -> [state : {"none", "live", "voided", "removed"},
                                    key : Keys \cup {NoOne}, rows : [Bills -> Amount]]]
  BY <1>2, <1>3, <1>5 DEF TypeOK
<1>7. \A b \in Bills : /\ plan[b] \in Nat
                       /\ SumOf(LiveReceipts', RowsOn(b)') = bill[b].paid + plan[b]
  <2> SUFFICES ASSUME NEW b \in Bills
               PROVE  /\ plan[b] \in Nat
                      /\ SumOf(LiveReceipts', RowsOn(b)') = bill[b].paid + plan[b]
    OBVIOUS
  <2>1. plan[b] \in Nat
    BY <1>3 DEF Amount
  <2>2. SumOf(LiveReceipts', RowsOn(b)') = bill[b].paid + new.rows[b]
    <3> HIDE DEF new
    <3> QED
      BY <1>2, <1>3, <1>5, OneReceiptMore
  <2>3. QED
    BY <1>5, <2>1, <2>2
<1>8. /\ bill' \in [Bills -> [status : Statuses, total : Amount, paid : Nat,
                              stockAdjusted : BOOLEAN, deleted : BOOLEAN]]
      /\ \A b \in Bills : /\ bill'[b].paid = bill[b].paid + plan[b]
                          /\ bill'[b].total = bill[b].total /\ bill'[b].status = bill[b].status
                          /\ plan[b] = 0 => bill'[b] = bill[b]
                          /\ bill[b].paid \in Nat /\ bill[b].total \in Nat
  <2>1. \A b \in Bills : bill[b].paid \in Nat /\ plan[b] \in Nat
    BY <1>3, <1>7 DEF TypeOK
  <2>2. \A b \in Bills : bill[b] \in [status : Statuses, total : Amount, paid : Nat,
                                       stockAdjusted : BOOLEAN, deleted : BOOLEAN]
    BY <1>3 DEF TypeOK
  <2>3. \A b \in Bills : bill'[b] = [bill[b] EXCEPT !.paid = bill[b].paid + plan[b]]
    BY <1>1
  <2>4. QED
    BY <1>1, <2>1, <2>2, <2>3 DEF Amount
<1>9. PaidMatchesRows'
  BY <1>7, <1>8 DEF PaidMatchesRows
<1>10. PaidWithinTotal' /\ ClosedBillsUnpaid' /\ DraftsUnpaid'
  <2>1. \A b \in Bills : plan[b] = 0 \/ plan[b] > 0
    BY <1>3 DEF Amount
  <2>2. \A b \in Bills \ unguarded' :
          b \notin unguarded /\ (plan[b] > 0 => /\ bill[b].status = "ISSUED"
                                               /\ bill'[b].paid <= bill'[b].total)
    BY <1>1, <1>3, <1>4, <1>7, <1>8, OutstandingBound
  <2>3. \A b \in Bills : plan[b] = 0 => bill'[b].paid = bill[b].paid
    BY <1>8
  <2>4. PaidWithinTotal'
    BY <1>8, <2>1, <2>2, <2>3 DEF IInv, PaidWithinTotal
  <2>5. ClosedBillsUnpaid'
    BY <1>8, <2>1, <2>2, <2>3 DEF IInv, ClosedBillsUnpaid
  <2>6. DraftsUnpaid'
    BY <1>4, <1>8, <2>1, <2>3 DEF IInv, DraftsUnpaid
  <2>7. QED
    BY <2>4, <2>5, <2>6
<1>11. OneReceiptPerRequest' /\ ReceiptsHaveRows' /\ NotesHaveBill'
  <2>1. \A s \in Receipts \ {r} : Stored(s)' => receipt'[s].key # new.key
    BY <1>4, <1>5, <1>6 DEF Stored
  <2>2. OneReceiptPerRequest'
    BY <1>6, <2>1 DEF IInv, OneReceiptPerRequest, Stored
  <2>3. ReceiptsHaveRows'
    BY <1>4, <1>5, <1>6 DEF IInv, ReceiptsHaveRows, BillsOf
  <2>4. NotesHaveBill'
    BY <1>1 DEF IInv, NotesHaveBill
  <2>5. QED
    BY <2>2, <2>3, <2>4
<1>12. ASSUME NEW p \in Requests \ {q} PROVE Undisturbed(p)
  <2>1. /\ pc'[p] = pc[p] /\ job'[p] = job[p]
        /\ \A row \in Rows : lock'[row] = p <=> lock[row] = p
    BY <1>1, <1>3, EndType
  <2>2. \A s \in Receipts : receipt[s].state # "none" => receipt'[s] = receipt[s]
    BY <1>2, <1>6
  <2>3. \A b \in Bills :
          /\ lock[b] = p => bill'[b] = bill[b]
          /\ bill'[b].status = bill[b].status
    BY <1>1, <1>7, <1>8 DEF CanWrite
  <2>4. lock[Branch] # p
    BY <1>4
  <2>5. \A n \in Notes : note'[n] = note[n]
    BY <1>1
  <2>6. QED
    BY <1>1, <2>1, <2>2, <2>3, <2>4, <2>5, SameReturns DEF Undisturbed
<1>13. /\ note' \in [Notes -> [status : Statuses, bill : Bills \cup {NoOne}, total : Amount,
                               deleted : BOOLEAN]]
       /\ unguarded' \subseteq Bills
  BY <1>1, <1>3 DEF TypeOK
<1>14. ReturnsWithinTotal' /\ ReturnsHaveIssuedBill'
  BY <1>1, <1>8, ReturnsKept
<1>15. QED
  BY <1>1, <1>6, <1>8, <1>9, <1>10, <1>11, <1>12, <1>13, <1>14, WriteStep

\* A committing step that leaves the receipts alone keeps the invariant if it
\* writes only rows it has locked or that nobody uses, and no money.
LEMMA DocumentStep ==
  ASSUME IInv, NEW q \in Requests, End(q), UNCHANGED <<receipt, unguarded>>,
         bill' \in [Bills -> [status : Statuses, total : Amount, paid : Nat,
                              stockAdjusted : BOOLEAN, deleted : BOOLEAN]],
         note' \in [Notes -> [status : Statuses, bill : Bills \cup {NoOne}, total : Amount,
                              deleted : BOOLEAN]],
         \A b \in Bills :
           /\ bill'[b].paid = bill[b].paid
           /\ bill'[b] = bill[b] \/ lock[b] \in {q, NoOne}
           /\ bill'[b].total = bill[b].total \/ bill[b].paid = 0
           /\ bill'[b].status = bill[b].status \/ bill'[b].status = "ISSUED" \/ bill[b].paid = 0
           /\ bill'[b].status = "NONE" => bill[b].status = "NONE"
           /\ bill'[b].status = "DRAFT" => bill[b].status \in {"NONE", "DRAFT"},
         \A b \in Bills : lock[b] = q \/ NoNewReturns(b),
         \A n \in Notes :
           /\ note'[n] = note[n] \/ lock[n] \in {q, NoOne} \/ note[n].status = "NONE"
           /\ note'[n].status = "NONE" => note[n].status = "NONE"
           /\ note'[n].status # "NONE" => note'[n].bill \in Bills,
         ReturnsWithinTotal', ReturnsHaveIssuedBill'
  PROVE  IInv'
<1>1. TypeOK
  BY DEF IInv
<1>2. \A b \in Bills : bill[b].paid \in Nat /\ bill'[b].total \in Nat
  BY <1>1 DEF TypeOK, Amount
<1>3. ASSUME NEW p \in Requests \ {q} PROVE Undisturbed(p)
  <2>1. /\ pc'[p] = pc[p] /\ job'[p] = job[p]
        /\ \A row \in Rows : lock'[row] = p <=> lock[row] = p
    BY <1>1, EndType
  <2>2. \A b \in Bills : lock[b] = p => bill'[b] = bill[b]
    OBVIOUS
  <2>3. receipt' = receipt
    OBVIOUS
  <2>4. \A b \in Bills : lock[b] = p => NoNewReturns(b)
    OBVIOUS
  <2>5. \A n \in Notes :
          /\ lock[n] = p => note'[n] = note[n] \/ note[n].status = "NONE"
          /\ note'[n].status = "NONE" => note[n].status = "NONE"
    OBVIOUS
  <2>6. QED
    BY <2>1, <2>2, <2>3, <2>4, <2>5 DEF Undisturbed, Stored
<1>4. PaidMatchesRows'
  <2>1. LiveReceipts' = LiveReceipts /\ \A b \in Bills : RowsOn(b)' = RowsOn(b)
    BY DEF LiveReceipts, RowsOn
  <2>2. QED
    BY <2>1 DEF IInv, PaidMatchesRows
<1>5. OneReceiptPerRequest' /\ ReceiptsHaveRows'
  BY DEF IInv, OneReceiptPerRequest, ReceiptsHaveRows, Stored, BillsOf
<1>6. PaidWithinTotal'
  BY <1>2 DEF IInv, PaidWithinTotal
<1>7. ClosedBillsUnpaid' /\ DraftsUnpaid'
  <2>1. \A b \in Bills : bill'[b].status # "ISSUED" =>
          bill'[b].status = bill[b].status \/ bill[b].paid = 0
    OBVIOUS
  <2>2. ClosedBillsUnpaid'
    BY <2>1 DEF IInv, ClosedBillsUnpaid
  <2>3. DraftsUnpaid'
    BY <2>1 DEF IInv, DraftsUnpaid
  <2>4. QED
    BY <2>2, <2>3
<1>8. NotesHaveBill'
  BY DEF NotesHaveBill
<1>9. /\ receipt' \in [Receipts -> [state : {"none", "live", "voided", "removed"},
                                    key : Keys \cup {NoOne}, rows : [Bills -> Amount]]]
      /\ unguarded' \subseteq Bills
  BY <1>1 DEF TypeOK
<1>10. QED
  BY <1>3, <1>4, <1>5, <1>6, <1>7, <1>8, <1>9, WriteStep

\* update and updateStatus of a bill write the bill they have locked.
LEMMA CommitBillStep ==
  ASSUME IInv, NEW q \in Requests, CommitEditBill(q) \/ CommitBillStatus(q)
  PROVE  IInv'
<1> DEFINE b == job[q].bill
<1>1. /\ TypeOK /\ BillJob(q) /\ NoMoreLocks(q) /\ NotesHaveBill
      /\ job[q].total \in Amount /\ job[q].status \in Statuses
  BY DEF IInv, TypeOK, JobType
<1>2. /\ pc[q] = "checked" /\ job[q].op \in {"editBill", "billStatus"}
      /\ End(q) /\ UNCHANGED <<note, receipt, unguarded>>
  BY DEF CommitEditBill, CommitBillStatus, At
<1>3. /\ b \in Bills /\ bill[b].status # "NONE" /\ Secures(q, {b})
      /\ job[q].status # "NONE"
      /\ job[q].status = "DRAFT" => job[q].op = "editBill" /\ bill[b].status = "DRAFT"
      /\ job[q].op = "editBill" \/ job[q].status # "ISSUED" =>
           bill[b].paid = 0 /\ LiveNotes(b) = {}
  BY <1>1, <1>2 DEF BillJob
<1>4. lock[b] = q
  BY <1>1, <1>2, <1>3 DEF Secures, NoMoreLocks
<1>5. ASSUME NEW total \in Amount, NEW stock \in BOOLEAN,
             total = bill[b].total \/ job[q].op = "editBill",
             bill' = [bill EXCEPT ![b].status = job[q].status, ![b].total = total,
                                  ![b].stockAdjusted = stock]
      PROVE  IInv'
  <2>1. /\ bill[b] \in [status : Statuses, total : Amount, paid : Nat,
                        stockAdjusted : BOOLEAN, deleted : BOOLEAN]
        /\ bill'[b] = [bill[b] EXCEPT !.status = job[q].status, !.total = total,
                                      !.stockAdjusted = stock]
        /\ \A c \in Bills \ {b} : bill'[c] = bill[c]
    <3>1. bill \in [Bills -> [status : Statuses, total : Amount, paid : Nat,
                             stockAdjusted : BOOLEAN, deleted : BOOLEAN]]
      BY <1>1 DEF TypeOK
    <3>2. PICK c \in Bills : c = b
      BY <1>3
    <3>3. PICK s : s = job[q].status
      OBVIOUS
    <3>4. bill' = [bill EXCEPT ![c].status = s, ![c].total = total, ![c].stockAdjusted = stock]
      BY <1>5, <3>2, <3>3
    <3>5. /\ bill'[c] = [bill[c] EXCEPT !.status = s, !.total = total, !.stockAdjusted = stock]
          /\ \A d \in Bills \ {c} : bill'[d] = bill[d]
      BY <3>1, <3>4
    <3>6. QED
      BY <3>1, <3>2, <3>3, <3>5
  <2>2. /\ bill'[b] \in [status : Statuses, total : Amount, paid : Nat,
                         stockAdjusted : BOOLEAN, deleted : BOOLEAN]
        /\ bill'[b].paid = bill[b].paid /\ bill'[b].status = job[q].status
        /\ bill'[b].total = total
    <3>1. PICK old \in [status : Statuses, total : Amount, paid : Nat,
                        stockAdjusted : BOOLEAN, deleted : BOOLEAN] : old = bill[b]
      BY <2>1
    <3>2. PICK s \in Statuses : s = job[q].status
      BY <1>1
    <3>3. PICK new : new = [old EXCEPT !.status = s, !.total = total, !.stockAdjusted = stock]
      OBVIOUS
    <3>4. /\ new \in [status : Statuses, total : Amount, paid : Nat,
                      stockAdjusted : BOOLEAN, deleted : BOOLEAN]
          /\ new.paid = old.paid /\ new.status = s /\ new.total = total
      BY <3>3
    <3>5. bill'[b] = new
      BY <2>1, <3>1, <3>2, <3>3
    <3>6. QED
      BY <3>1, <3>2, <3>4, <3>5
  <2>3. bill' \in [Bills -> [status : Statuses, total : Amount, paid : Nat,
                             stockAdjusted : BOOLEAN, deleted : BOOLEAN]]
    BY <1>1, <1>5, <2>1, <2>2 DEF TypeOK
  <2>4. \A c \in Bills :
          /\ bill'[c].paid = bill[c].paid
          /\ bill'[c] = bill[c] \/ lock[c] \in {q, NoOne}
          /\ bill'[c].total = bill[c].total \/ bill[c].paid = 0
          /\ bill'[c].status = bill[c].status \/ bill'[c].status = "ISSUED" \/ bill[c].paid = 0
          /\ bill'[c].status = "NONE" => bill[c].status = "NONE"
          /\ bill'[c].status = "DRAFT" => bill[c].status \in {"NONE", "DRAFT"}
    BY <1>3, <1>4, <1>5, <2>1, <2>2
  <2>5. /\ note' \in [Notes -> [status : Statuses, bill : Bills \cup {NoOne}, total : Amount,
                                deleted : BOOLEAN]]
        /\ \A n \in Notes : /\ note'[n] = note[n]
                            /\ note'[n].status = "NONE" => note[n].status = "NONE"
                            /\ note'[n].status # "NONE" => note'[n].bill \in Bills
    BY <1>1, <1>2 DEF TypeOK, NotesHaveBill
  <2>6. ReturnsWithinTotal' /\ ReturnsHaveIssuedBill'
    <3>1. total \in Nat
      BY DEF Amount
    <3>2. \A c \in Bills :
            \/ bill'[c].total = bill[c].total /\ bill'[c].status = bill[c].status
            \/ bill'[c].total = bill[c].total /\ bill'[c].status = "ISSUED"
            \/ LiveNotes(c) = {} /\ bill'[c].total \in Nat
      BY <1>3, <1>5, <2>1, <2>2, <3>1
    <3>3. QED
      BY <1>2, <3>2, ReturnsKept
  <2>7. \A c \in Bills : NoNewReturns(c)
    BY <1>2, SameReturns
  <2>8. QED
    BY <1>2, <2>3, <2>4, <2>5, <2>6, <2>7, DocumentStep
<1>6. CASE CommitEditBill(q)
  <2>1. /\ job[q].op = "editBill" /\ (job[q].status = "ISSUED") \in BOOLEAN
        /\ bill' = [bill EXCEPT ![b].status = job[q].status, ![b].total = job[q].total,
                                ![b].stockAdjusted = (job[q].status = "ISSUED")]
    BY <1>6 DEF CommitEditBill, At
  <2>2. QED
    BY <1>1, <1>5, <2>1
<1>7. CASE CommitBillStatus(q)
  <2> DEFINE stock == (bill[b].stockAdjusted \/ job[q].status = "ISSUED")
                        /\ job[q].status # "CANCELLED"
  <2>1. bill' = [bill EXCEPT ![b].status = job[q].status, ![b].stockAdjusted = stock]
    BY <1>7 DEF CommitBillStatus
  <2>2. bill[b] \in [status : Statuses, total : Amount, paid : Nat,
                     stockAdjusted : BOOLEAN, deleted : BOOLEAN]
        /\ bill[b].total \in Amount
    BY <1>1, <1>3 DEF TypeOK
  <2>3. stock \in BOOLEAN
    OBVIOUS
  <2>4. bill' = [bill EXCEPT ![b].status = job[q].status, ![b].total = bill[b].total,
                             ![b].stockAdjusted = stock]
    <3> HIDE DEF stock
    <3> QED
      BY <1>1, <1>3, <2>1, <2>2 DEF TypeOK
  <2>5. QED
    <3> HIDE DEF stock
    <3> QED
      BY <1>5, <2>2, <2>3, <2>4
<1>8. QED
  BY <1>6, <1>7

\* The unlocked remove of a bill changes nothing the invariant speaks of.
LEMMA CommitDeleteBillStep ==
  ASSUME IInv, NEW q \in Requests, CommitDeleteBill(q)
  PROVE  IInv'
<1> DEFINE b == job[q].bill
<1>1. /\ TypeOK /\ NotesHaveBill
  BY DEF IInv
<1>2. /\ lock[b] \in {NoOne, q} /\ bill' = [bill EXCEPT ![b].deleted = TRUE]
      /\ End(q) /\ UNCHANGED <<note, receipt, unguarded>>
  BY DEF CommitDeleteBill, CanWrite
<1>3. \A c \in Bills : /\ bill'[c] \in [status : Statuses, total : Amount, paid : Nat,
                                        stockAdjusted : BOOLEAN, deleted : BOOLEAN]
                       /\ bill'[c].paid = bill[c].paid /\ bill'[c].total = bill[c].total
                       /\ bill'[c].status = bill[c].status
                       /\ c # b => bill'[c] = bill[c]
  <2> SUFFICES ASSUME NEW c \in Bills
               PROVE  /\ bill'[c] \in [status : Statuses, total : Amount, paid : Nat,
                                        stockAdjusted : BOOLEAN, deleted : BOOLEAN]
                      /\ bill'[c].paid = bill[c].paid /\ bill'[c].total = bill[c].total
                      /\ bill'[c].status = bill[c].status
                      /\ c # b => bill'[c] = bill[c]
    OBVIOUS
  <2>1. bill \in [Bills -> [status : Statuses, total : Amount, paid : Nat,
                           stockAdjusted : BOOLEAN, deleted : BOOLEAN]]
    BY <1>1 DEF TypeOK
  <2>2. bill'[c] = IF c = b THEN [bill[c] EXCEPT !.deleted = TRUE] ELSE bill[c]
    BY <1>2, <2>1
  <2>3. QED
    BY <2>1, <2>2
<1>4. bill' \in [Bills -> [status : Statuses, total : Amount, paid : Nat,
                           stockAdjusted : BOOLEAN, deleted : BOOLEAN]]
  BY <1>1, <1>2, <1>3 DEF TypeOK
<1>5. \A c \in Bills : bill'[c] = bill[c] \/ lock[c] \in {q, NoOne}
  BY <1>2, <1>3
<1>6. /\ note' \in [Notes -> [status : Statuses, bill : Bills \cup {NoOne}, total : Amount,
                              deleted : BOOLEAN]]
      /\ \A n \in Notes : /\ note'[n] = note[n]
                          /\ note'[n].status = "NONE" => note[n].status = "NONE"
                          /\ note'[n].status # "NONE" => note'[n].bill \in Bills
      /\ \A c \in Bills : NoNewReturns(c)
  BY <1>1, <1>2, SameReturns DEF TypeOK, NotesHaveBill
<1>7. ReturnsWithinTotal' /\ ReturnsHaveIssuedBill'
  BY <1>2, <1>3, ReturnsKept
<1>8. QED
  BY <1>2, <1>3, <1>4, <1>5, <1>6, <1>7, DocumentStep

\* A step that writes one note, n, and posts it only if it fits its bill, keeps
\* the returns of every bill; no bill but the note's own gets a new one.
LEMMA OneNoteWritten ==
  ASSUME IInv, NEW n \in Notes, NEW new, bill' = bill,
         note' = [note EXCEPT ![n] = new],
         new \in [status : Statuses, bill : Bills \cup {NoOne}, total : Amount,
                  deleted : BOOLEAN],
         new.status # "ISSUED" \/ new.deleted \/
           (/\ new.bill \in Bills /\ bill[new.bill].status = "ISSUED"
            /\ Returned(new.bill, {n}) + new.total <= bill[new.bill].total)
  PROVE  /\ ReturnsWithinTotal' /\ ReturnsHaveIssuedBill'
         /\ \A b \in Bills :
              NoNewReturns(b) \/ (new.bill = b /\ new.status = "ISSUED" /\ ~new.deleted)
<1> DEFINE Posts(b) == new.bill = b /\ new.status = "ISSUED" /\ ~new.deleted
<1>1. /\ note'[n] = new /\ \A m \in Notes \ {n} : note'[m] = note[m]
      /\ TypeOK /\ ReturnsWithinTotal /\ ReturnsHaveIssuedBill
  BY DEF IInv, TypeOK
<1>2. \A b \in Bills :
        /\ ~Posts(b) => LiveNotes(b)' = LiveNotes(b) \ {n}
        /\ Posts(b) => LiveNotes(b)' = (LiveNotes(b) \ {n}) \cup {n}
        /\ \A m \in LiveNotes(b) \ {n} : NoteTotals'[m] = NoteTotals[m]
  BY <1>1 DEF LiveNotes, NoteTotals
<1>3. \A b \in Bills : NoNewReturns(b) \/ Posts(b)
  BY <1>2 DEF NoNewReturns
<1>4. ReturnsWithinTotal'
  <2> SUFFICES ASSUME NEW b \in Bills PROVE Returned(b, {})' <= bill[b].total
    BY DEF ReturnsWithinTotal
  <2>1. CASE ~Posts(b)
    <3>1. NoNewReturns(b) /\ TypeOK
      BY <1>1, <1>3, <2>1
    <3>2. Returned(b, {})' <= Returned(b, {}) /\ Returned(b, {})' \in Nat
      BY <3>1, ReturnsShrink
    <3>3. Returned(b, {}) \in Nat
      BY <1>1, ReturnsAreNat
    <3>4. bill[b].total \in Nat /\ Returned(b, {}) <= bill[b].total
      BY <1>1 DEF TypeOK, Amount, ReturnsWithinTotal
    <3>5. QED
      BY <3>2, <3>3, <3>4
  <2>2. CASE Posts(b)
    <3> DEFINE S == LiveNotes(b) \ {n}
               f == NoteTotals'
    <3>1. IsFiniteSet(S) /\ \A m \in S : NoteTotals[m] \in Nat
      BY <1>1, ReturnsAreNat
    <3>2. /\ f[n] = new.total /\ new.total \in Nat
          /\ \A m \in S : f[m] = NoteTotals[m]
      BY <1>1, <1>2 DEF NoteTotals, Amount
    <3>3. SumOf(S, f) = SumOf(S, NoteTotals)
      BY <3>2, SumSame
    <3>4. SumOf(S \cup {n}, f) = SumOf(S, f) + f[n]
      <4>1. PICK T, g : T = S /\ g = f
        OBVIOUS
      <4>2. IsFiniteSet(T) /\ n \notin T /\ \A m \in T \cup {n} : g[m] \in Nat
        BY <3>1, <3>2, <4>1
      <4>3. SumOf(T \cup {n}, g) = SumOf(T, g) + g[n]
        BY <4>2, SumAdd
      <4>4. QED
        BY <4>1, <4>3
    <3>5. Returned(b, {})' = SumOf(S \cup {n}, f)
      <4>1. LiveNotes(b)' \ {} = S \cup {n}
        BY <1>2, <2>2
      <4>2. QED
        BY <4>1 DEF Returned
    <3>6. Returned(b, {n}) = SumOf(S, NoteTotals)
      BY DEF Returned
    <3>7. Returned(b, {n}) + new.total <= bill[b].total
      BY <2>2
    <3>8. QED
      BY <3>2, <3>3, <3>4, <3>5, <3>6, <3>7
  <2>3. QED
    BY <2>1, <2>2
<1>5. ReturnsHaveIssuedBill'
  BY <1>1, <1>2 DEF ReturnsHaveIssuedBill
<1>6. QED
  BY <1>3, <1>4, <1>5

\* What is committed about a debit note concerns its own row, and its bill, which
\* is locked when the note is posted.
LEMMA CommitNoteStep ==
  ASSUME IInv, NEW q \in Requests,
         CommitSaveNote(q) \/ CommitNoteStatus(q) \/ CommitDeleteNote(q)
  PROVE  IInv'
<1>1. /\ TypeOK /\ NotesHaveBill /\ SaveNoteJob(q) /\ NoteStatusJob(q) /\ NoMoreLocks(q)
      /\ job[q].total \in Amount /\ job[q].status \in Statuses
  BY DEF IInv, TypeOK, JobType, NoteJob
<1>2. End(q) /\ UNCHANGED <<bill, receipt, unguarded>>
  BY DEF CommitSaveNote, CommitNoteStatus, CommitDeleteNote
<1>3. \A b \in Bills : bill'[b] = bill[b]
  BY <1>2
<1>4. bill' \in [Bills -> [status : Statuses, total : Amount, paid : Nat,
                           stockAdjusted : BOOLEAN, deleted : BOOLEAN]]
  BY <1>1, <1>2 DEF TypeOK
<1>5. \A n \in Notes : note[n] \in [status : Statuses, bill : Bills \cup {NoOne},
                                     total : Amount, deleted : BOOLEAN]
  BY <1>1 DEF TypeOK
<1>6. ASSUME NEW n \in Notes, NEW new, note' = [note EXCEPT ![n] = new],
             new \in [status : Statuses, bill : Bills \cup {NoOne}, total : Amount,
                      deleted : BOOLEAN],
             new.status # "NONE" => new.bill \in Bills,
             new.status = "NONE" => note[n].status = "NONE",
             lock[n] \in {q, NoOne} \/ note[n].status = "NONE",
             new.status # "ISSUED" \/ new.deleted \/
               (/\ new.bill \in Bills /\ bill[new.bill].status = "ISSUED"
                /\ Returned(new.bill, {n}) + new.total <= bill[new.bill].total
                /\ lock[new.bill] = q)
      PROVE  IInv'
  <2>1. /\ note'[n] = new /\ \A m \in Notes \ {n} : note'[m] = note[m]
        /\ note' \in [Notes -> [status : Statuses, bill : Bills \cup {NoOne},
                                total : Amount, deleted : BOOLEAN]]
    BY <1>1, <1>6 DEF TypeOK
  <2>2. /\ ReturnsWithinTotal' /\ ReturnsHaveIssuedBill'
        /\ \A b \in Bills :
             NoNewReturns(b) \/ (new.bill = b /\ new.status = "ISSUED" /\ ~new.deleted)
    <3>1. new.status # "ISSUED" \/ new.deleted \/
            (/\ new.bill \in Bills /\ bill[new.bill].status = "ISSUED"
             /\ Returned(new.bill, {n}) + new.total <= bill[new.bill].total)
      BY <1>6
    <3>2. bill' = bill
      BY <1>2
    <3>3. QED
      BY <1>6, <3>1, <3>2, OneNoteWritten
  <2>3. \A m \in Notes :
          /\ note'[m] = note[m] \/ lock[m] \in {q, NoOne} \/ note[m].status = "NONE"
          /\ note'[m].status = "NONE" => note[m].status = "NONE"
          /\ note'[m].status # "NONE" => note'[m].bill \in Bills
    BY <1>1, <1>6, <2>1 DEF NotesHaveBill
  <2>4. \A b \in Bills : lock[b] = q \/ NoNewReturns(b)
    BY <1>6, <2>2
  <2>5. QED
    BY <1>2, <1>3, <1>4, <2>1, <2>2, <2>3, <2>4, DocumentStep
<1>7. CASE CommitSaveNote(q)
  <2>1. job[q].op = "saveNote" /\ pc[q] = "checked"
    BY <1>7 DEF CommitSaveNote, At
  <2> DEFINE new == [status |-> job[q].status, bill |-> job[q].bill,
                     total |-> job[q].total, deleted |-> FALSE]
  <2>2. PICK n \in Notes :
          /\ IF job[q].note = NoOne THEN note[n].status = "NONE" ELSE n = job[q].note
          /\ note' = [note EXCEPT ![n] = new]
    BY <1>7 DEF CommitSaveNote
  <2>3. /\ job[q].bill \in Bills /\ job[q].status # "NONE"
        /\ job[q].note # NoOne => lock[job[q].note] = q
        /\ job[q].status = "ISSUED" =>
             /\ lock[job[q].bill] = q /\ bill[job[q].bill].status = "ISSUED"
             /\ Returned(job[q].bill, {job[q].note}) + job[q].total <= bill[job[q].bill].total
    BY <1>1, <2>1 DEF SaveNoteJob, Fits, Secures, NoMoreLocks
  <2>4. PICK b \in Bills : b = job[q].bill
    BY <2>3
  <2>5. Returned(b, {job[q].note}) = Returned(b, {n})
    <3>1. CASE job[q].note = NoOne
      <4>1. n \notin LiveNotes(b) /\ NoOne \notin LiveNotes(b)
        BY <2>2, <3>1 DEF LiveNotes
      <4>2. LiveNotes(b) \ {NoOne} = LiveNotes(b) \ {n}
        BY <4>1
      <4>3. QED
        BY <3>1, <4>2 DEF Returned
    <3>2. CASE job[q].note # NoOne
      BY <2>2, <3>2
    <3>3. QED
      BY <3>1, <3>2
  <2>6. /\ new \in [status : Statuses, bill : Bills \cup {NoOne}, total : Amount,
                    deleted : BOOLEAN]
        /\ new.status = job[q].status /\ new.bill = b /\ new.total = job[q].total
    BY <1>1, <2>4
  <2>7. lock[n] \in {q, NoOne} \/ note[n].status = "NONE"
    BY <2>2, <2>3
  <2> HIDE DEF new
  <2>8. QED
    BY <1>6, <2>2, <2>3, <2>4, <2>5, <2>6, <2>7
<1>8. CASE CommitNoteStatus(q)
  <2>1. job[q].op = "noteStatus" /\ pc[q] = "checked"
    BY <1>8 DEF CommitNoteStatus, At
  <2>2. PICK n \in Notes : n = job[q].note
    BY <1>1, <2>1 DEF NoteStatusJob
  <2> DEFINE new == [note[n] EXCEPT !.status = job[q].status]
  <2>3. note' = [note EXCEPT ![n] = new]
    BY <1>8, <2>2 DEF CommitNoteStatus
  <2>4. /\ note[n].status # "NONE" /\ job[q].status # "NONE" /\ lock[n] = q
        /\ note[n].bill \in Bills
        /\ job[q].status = "ISSUED" => Fits(q, note[n].bill, note[n].total, n)
    BY <1>1, <2>1, <2>2 DEF NoteStatusJob, NotesHaveBill
  <2>5. job[q].status = "ISSUED" =>
          /\ lock[note[n].bill] = q /\ bill[note[n].bill].status = "ISSUED"
          /\ Returned(note[n].bill, {n}) + note[n].total <= bill[note[n].bill].total
    BY <1>1, <2>1, <2>4 DEF Fits, Secures, NoMoreLocks
  <2>6. /\ new \in [status : Statuses, bill : Bills \cup {NoOne}, total : Amount,
                    deleted : BOOLEAN]
        /\ new.status = job[q].status /\ new.bill = note[n].bill
        /\ new.total = note[n].total
    BY <1>1, <1>5
  <2> HIDE DEF new
  <2>7. QED
    BY <1>6, <2>3, <2>4, <2>5, <2>6
<1>9. CASE CommitDeleteNote(q)
  <2>1. note' = [note EXCEPT ![job[q].note].deleted = TRUE] /\ lock[job[q].note] \in {NoOne, q}
    BY <1>9 DEF CommitDeleteNote, CanWrite
  <2>2. CASE job[q].note \in Notes
    <3>1. PICK n \in Notes : n = job[q].note
      BY <2>2
    <3> DEFINE new == [note[n] EXCEPT !.deleted = TRUE]
    <3>2. note' = [note EXCEPT ![n] = new]
      BY <2>1, <3>1
    <3>3. /\ new \in [status : Statuses, bill : Bills \cup {NoOne}, total : Amount,
                      deleted : BOOLEAN]
          /\ new.status = note[n].status /\ new.bill = note[n].bill /\ new.deleted
      BY <1>5
    <3>4. note[n].status # "NONE" => note[n].bill \in Bills
      BY <1>1 DEF NotesHaveBill
    <3> HIDE DEF new
    <3>5. QED
      BY <1>6, <2>1, <3>1, <3>2, <3>3, <3>4
  <2>3. CASE job[q].note \notin Notes
    <3>1. note' = note
      BY <1>1, <2>1, <2>3 DEF TypeOK
    <3>2. ReturnsWithinTotal' /\ ReturnsHaveIssuedBill' /\ \A b \in Bills : NoNewReturns(b)
      BY <1>2, <3>1, ReturnsKept, SameReturns
    <3>3. /\ note' \in [Notes -> [status : Statuses, bill : Bills \cup {NoOne},
                                  total : Amount, deleted : BOOLEAN]]
          /\ \A m \in Notes : note'[m] = note[m] /\
                              (note'[m].status # "NONE" => note'[m].bill \in Bills)
      BY <1>1, <3>1 DEF TypeOK, NotesHaveBill
    <3>4. QED
      BY <1>2, <1>3, <1>4, <3>2, <3>3, DocumentStep
  <2>4. QED
    BY <2>2, <2>3
<1>10. QED
  BY <1>7, <1>8, <1>9

\* A new bill is a row that nobody has used.
LEMMA CreateBillStep ==
  ASSUME IInv, NEW b \in Bills, NEW status \in {"DRAFT", "ISSUED"}, NEW total \in Amount,
         CreateBill(b, status, total)
  PROVE  IInv'
<1> DEFINE new == [status |-> status, total |-> total, paid |-> 0,
                   stockAdjusted |-> (status = "ISSUED"), deleted |-> FALSE]
<1>1. /\ bill[b].status = "NONE" /\ bill' = [bill EXCEPT ![b] = new]
      /\ UNCHANGED <<lock, pc, job, note, receipt, unguarded>>
  BY DEF CreateBill
<1>2. TypeOK /\ DraftsUnpaid
  BY DEF IInv
<1>3. /\ new \in [status : Statuses, total : Amount, paid : Nat,
                  stockAdjusted : BOOLEAN, deleted : BOOLEAN]
      /\ new.paid = 0 /\ new.status = status /\ new.total = total /\ total \in Nat
  BY DEF Statuses, Amount
<1> HIDE DEF new
<1>4. /\ bill'[b] = new /\ \A c \in Bills \ {b} : bill'[c] = bill[c]
      /\ bill' \in [Bills -> [status : Statuses, total : Amount, paid : Nat,
                              stockAdjusted : BOOLEAN, deleted : BOOLEAN]]
  BY <1>1, <1>2, <1>3 DEF TypeOK
<1>5. TypeOK'
  BY <1>1, <1>2, <1>4 DEF TypeOK
<1>6. bill[b].paid = 0 /\ \A c \in Bills : bill'[c].paid = bill[c].paid
  BY <1>1, <1>2, <1>3, <1>4 DEF DraftsUnpaid
<1>7. PaidMatchesRows'
  <2>1. LiveReceipts' = LiveReceipts /\ \A c \in Bills : RowsOn(c)' = RowsOn(c)
    BY <1>1 DEF LiveReceipts, RowsOn
  <2>2. QED
    BY <1>6, <2>1 DEF IInv, PaidMatchesRows
<1>8. OneReceiptPerRequest' /\ ReceiptsHaveRows' /\ NotesHaveBill'
  BY <1>1 DEF IInv, OneReceiptPerRequest, ReceiptsHaveRows, NotesHaveBill, Stored, BillsOf
<1>9. PaidWithinTotal' /\ ClosedBillsUnpaid' /\ DraftsUnpaid'
  BY <1>1, <1>3, <1>4, <1>6 DEF IInv, PaidWithinTotal, ClosedBillsUnpaid, DraftsUnpaid
<1>10. ReturnsWithinTotal' /\ ReturnsHaveIssuedBill'
  <2>1. LiveNotes(b) = {}
    BY <1>1 DEF IInv, ReturnsHaveIssuedBill
  <2>2. \A c \in Bills :
          \/ bill'[c].total = bill[c].total /\ bill'[c].status = bill[c].status
          \/ LiveNotes(c) = {} /\ bill'[c].total \in Nat
    BY <1>3, <1>4, <2>1
  <2>3. QED
    BY <1>1, <2>2, ReturnsKept
<1>11. ASSUME NEW p \in Requests PROVE JobsOK(p)'
  <2>1. \A c \in Bills :
          /\ lock[c] = p => bill'[c] = bill[c] \/ bill[c].status = "NONE"
          /\ bill'[c].status = "NONE" => bill[c].status = "NONE"
          /\ bill'[c].status = "DRAFT" => bill[c].status \in {"NONE", "DRAFT"}
    BY <1>1, <1>3, <1>4
  <2>2. Undisturbed(p)
    BY <1>1, <2>1, SameReturns DEF Undisturbed, Stored
  <2>3. QED
    BY <2>2, OthersKeep
<1>12. QED
  BY <1>5, <1>7, <1>8, <1>9, <1>11, <1>10 DEF IInv, JobsOK

-----------------------------------------------------------------------------
(* The theorems                                                             *)

\* Before the first request nothing is paid and nothing is locked.
LEMMA InitInvariant == Init => IInv
<1> SUFFICES ASSUME Init PROVE IInv
  OBVIOUS
<1>1. TypeOK
  BY NoJobType DEF Init, TypeOK, Stages, Statuses, Amount
<1>2. LiveReceipts = {} /\ \A r \in Receipts : receipt[r].state = "none"
  BY DEF Init, LiveReceipts
<1>3. PaidMatchesRows
  <2> SUFFICES ASSUME NEW b \in Bills PROVE bill[b].paid = SumOf(LiveReceipts, RowsOn(b))
    BY DEF PaidMatchesRows
  <2>1. bill[b].paid = 0
    BY DEF Init
  <2>2. SumOf({}, RowsOn(b)) = 0
    BY SumEmpty
  <2>3. QED
    BY <1>2, <2>1, <2>2
<1>4. OneReceiptPerRequest /\ ReceiptsHaveRows
  BY <1>2 DEF OneReceiptPerRequest, ReceiptsHaveRows, Stored
<1>5. PaidWithinTotal /\ ClosedBillsUnpaid /\ DraftsUnpaid /\ NotesHaveBill
  BY DEF Init, PaidWithinTotal, ClosedBillsUnpaid, DraftsUnpaid, NotesHaveBill
<1>6. ReturnsWithinTotal /\ ReturnsHaveIssuedBill
  <2>1. \A b : LiveNotes(b) = {} /\ Returned(b, {}) = 0
    BY SumEmpty DEF Init, LiveNotes, Returned
  <2>2. QED
    BY <2>1 DEF Init, ReturnsWithinTotal, ReturnsHaveIssuedBill
<1>7. \A q \in Requests :
        NoMoreLocks(q) /\ ReceiptJob(q) /\ PayJob(q) /\ BillJob(q) /\ NoteJob(q)
  BY DEF Init, NoMoreLocks, ReceiptJob, PayJob, BillJob, NoteJob, SaveNoteJob, NoteStatusJob,
     NoJob
<1>8. QED
  BY <1>1, <1>3, <1>4, <1>5, <1>6, <1>7 DEF IInv

\* Every step of every handler, in any interleaving, keeps the invariant.
LEMMA NextInvariant == IInv /\ [Next]_vars => IInv'
<1> SUFFICES ASSUME IInv, [Next]_vars PROVE IInv'
  OBVIOUS
<1>1. CASE UNCHANGED vars
  <2>1. \A p \in Requests : JobsOK(p)'
    <3>1. \A p \in Requests : Undisturbed(p)
      BY <1>1, SameReturns DEF vars, Undisturbed, Stored
    <3>2. QED
      BY <3>1, OthersKeep
  <2>2. TypeOK' /\ OneReceiptPerRequest' /\ ReceiptsHaveRows' /\ NotesHaveBill'
    BY <1>1 DEF vars, IInv, TypeOK, OneReceiptPerRequest, ReceiptsHaveRows, NotesHaveBill,
       Stored, BillsOf
  <2>3. PaidMatchesRows' /\ PaidWithinTotal' /\ ClosedBillsUnpaid' /\ DraftsUnpaid'
    BY <1>1 DEF vars, IInv, PaidMatchesRows, PaidWithinTotal, ClosedBillsUnpaid, DraftsUnpaid,
       LiveReceipts, RowsOn
  <2>4. ReturnsWithinTotal' /\ ReturnsHaveIssuedBill'
    BY <1>1, ReturnsKept DEF vars
  <2>5. QED
    BY <2>1, <2>2, <2>3, <2>4 DEF IInv, JobsOK
<1>2. CASE \E b \in Bills, status \in {"DRAFT", "ISSUED"}, total \in Amount :
             CreateBill(b, status, total)
  BY <1>2, CreateBillStep
<1>3. ASSUME NEW q \in Requests, Acquire(q) \/ Rollback(q) PROVE IInv'
  BY <1>3, AcquireStep, RollbackStep
<1>4. ASSUME NEW q \in Requests, PayStep(q) PROVE IInv'
  BY <1>4, BeginPayStep, ListOpenBillsStep, AllocateStep, CommitPayStep DEF PayStep
<1>5. ASSUME NEW q \in Requests, ReceiptStep(q) PROVE IInv'
  BY <1>5, BeginOnReceiptStep, ReceiptStageStep, TakeBackStep, CommitRestoreStep
     DEF ReceiptStep
<1>6. ASSUME NEW q \in Requests, BillStep(q) PROVE IInv'
  BY <1>6, BeginEditBillStep, BeginBillStatusStep, BeginOthersStep, BillStageStep,
     CommitBillStep, CommitDeleteBillStep DEF BillStep
<1>7. ASSUME NEW q \in Requests, NoteStep(q) PROVE IInv'
  BY <1>7, BeginOthersStep, NoteStageStep, CommitNoteStep DEF NoteStep
<1>8. QED
  BY <1>1, <1>2, <1>3, <1>4, <1>5, <1>6, <1>7 DEF Next

\* The inductive invariant holds in every reachable state.
THEOREM Invariance == Spec => []IInv
BY InitInvariant, NextInvariant, PTL DEF Spec

\* Every variable keeps its type; paidAmount never goes below zero.
THEOREM TypeCorrect == Spec => []TypeOK
<1>1. IInv => TypeOK
  BY DEF IInv
<1>2. QED
  BY <1>1, Invariance, PTL

\* paidAmount of a bill is the sum of its payments that are not voided,
\* whatever create, void, restore and remove of receipts run at the same time.
THEOREM PaidAmountIsSumOfPayments == Spec => []PaidMatchesRows
<1>1. IInv => PaidMatchesRows
  BY DEF IInv
<1>2. QED
  BY <1>1, Invariance, PTL

\* No bill is settled beyond its total, unless a create paid a bill it had not
\* locked.
THEOREM LockedBillsAreNotOverpaid == Spec => []PaidWithinTotal
<1>1. IInv => PaidWithinTotal
  BY DEF IInv
<1>2. QED
  BY <1>1, Invariance, PTL

\* No draft, rejected or cancelled bill has money on it, with the same exception.
THEOREM ClosedBillsAreUnpaid == Spec => []ClosedBillsUnpaid
<1>1. IInv => ClosedBillsUnpaid
  BY DEF IInv
<1>2. QED
  BY <1>1, Invariance, PTL

\* Posted debit notes stay within the total of their bill, which stays issued,
\* whatever create, update and updateStatus of notes and bills run together.
THEOREM PostedReturnsStand == Spec => []ReturnsStand
<1>1. IInv => ReturnsStand
  BY DEF IInv, ReturnsStand
<1>2. QED
  BY <1>1, Invariance, PTL

\* Repeating a requestId never makes a second receipt.
THEOREM RequestsAreIdempotent == Spec => []OneReceiptPerRequest
<1>1. IInv => OneReceiptPerRequest
  BY DEF IInv
<1>2. QED
  BY <1>1, Invariance, PTL

-----------------------------------------------------------------------------
(* What a step may never do                                                 *)

\* What a step of any handler may do to a bill: write neither money up nor the
\* total nor the status; pay what a create or restore has planned; or, where no
\* money is, write the document, which otherwise can only be issued.
LEMMA BillWrites ==
  ASSUME IInv, [Next]_vars, NEW b \in Bills
  PROVE  \/ /\ bill'[b].paid <= bill[b].paid
            /\ bill'[b].total = bill[b].total /\ bill'[b].status = bill[b].status
         \/ /\ bill'[b].paid = bill[b].paid
            /\ bill[b].paid = 0 \/
                 (bill'[b].total = bill[b].total /\ bill'[b].status = "ISSUED")
         \/ \E q \in Requests :
              /\ CommitPay(q) \/ CommitRestore(q)
              /\ job[q].plan[b] \in Nat /\ bill'[b].paid = bill[b].paid + job[q].plan[b]
              /\ bill'[b].total = bill[b].total /\ bill'[b].status = bill[b].status
<1>1. /\ TypeOK /\ bill[b].paid \in Nat /\ \A q \in Requests : job[q] \in JobType
      /\ bill \in [Bills -> [status : Statuses, total : Amount, paid : Nat,
                            stockAdjusted : BOOLEAN, deleted : BOOLEAN]]
  BY DEF IInv, TypeOK
<1> DEFINE Keeps == /\ bill'[b].paid <= bill[b].paid
                    /\ bill'[b].total = bill[b].total /\ bill'[b].status = bill[b].status
           Writes == /\ bill'[b].paid = bill[b].paid
                     /\ bill[b].paid = 0 \/
                          (bill'[b].total = bill[b].total /\ bill'[b].status = "ISSUED")
           Pays(q) == /\ CommitPay(q) \/ CommitRestore(q)
                      /\ job[q].plan[b] \in Nat
                      /\ bill'[b].paid = bill[b].paid + job[q].plan[b]
                      /\ bill'[b].total = bill[b].total /\ bill'[b].status = bill[b].status
<1>2. ASSUME NEW q \in Requests, CommitPay(q) \/ CommitRestore(q)
      PROVE  Pays(q)
  <2>1. bill' = [c \in Bills |-> [bill[c] EXCEPT !.paid = @ + job[q].plan[c]]]
    BY <1>2 DEF CommitPay, CommitRestore
  <2>2. job[q].plan[b] \in Nat
    <3>1. job[q].plan \in [Bills -> Amount]
      BY <1>1 DEF JobType
    <3>2. QED
      BY <3>1 DEF Amount
  <2>3. bill'[b] = [bill[b] EXCEPT !.paid = bill[b].paid + job[q].plan[b]]
    BY <2>1
  <2>4. /\ bill'[b].paid = bill[b].paid + job[q].plan[b]
        /\ bill'[b].total = bill[b].total /\ bill'[b].status = bill[b].status
    <3>1. bill[b] \in [status : Statuses, total : Amount, paid : Nat,
                       stockAdjusted : BOOLEAN, deleted : BOOLEAN]
      BY <1>1
    <3>2. QED
      BY <2>3, <3>1
  <2>5. QED
    BY <1>2, <2>2, <2>4
<1>3. ASSUME NEW q \in Requests, CommitVoid(q) \/ CommitRemove(q)
      PROVE  Keeps
  <2>1. bill' = [c \in Bills |-> [bill[c] EXCEPT !.paid = @ - job[q].plan[c]]]
    BY <1>3 DEF CommitVoid, CommitRemove
  <2>2. job[q].plan[b] \in Nat
    <3>1. job[q].plan \in [Bills -> Amount]
      BY <1>1 DEF JobType
    <3>2. QED
      BY <3>1 DEF Amount
  <2>3. bill'[b] = [bill[b] EXCEPT !.paid = bill[b].paid - job[q].plan[b]]
    BY <2>1
  <2>4. /\ bill'[b].paid = bill[b].paid - job[q].plan[b]
        /\ bill'[b].total = bill[b].total /\ bill'[b].status = bill[b].status
    <3>1. bill[b] \in [status : Statuses, total : Amount, paid : Nat,
                       stockAdjusted : BOOLEAN, deleted : BOOLEAN]
      BY <1>1
    <3>2. QED
      BY <2>3, <3>1
  <2>5. QED
    BY <1>1, <2>2, <2>4
<1>4. ASSUME bill' = bill PROVE Keeps
  BY <1>1, <1>4
<1>5. ASSUME NEW q \in Requests, CommitEditBill(q) \/ CommitBillStatus(q)
      PROVE  Keeps \/ Writes
  <2> DEFINE c == job[q].bill
  <2>1. /\ pc[q] = "checked" /\ job[q].op \in {"editBill", "billStatus"}
        /\ CommitEditBill(q) => job[q].op = "editBill"
    BY <1>5 DEF CommitEditBill, CommitBillStatus, At
  <2>2. /\ c \in Bills
        /\ job[q].op = "editBill" \/ job[q].status # "ISSUED" => bill[c].paid = 0
    BY <2>1 DEF IInv, BillJob
  <2>3. CASE CommitEditBill(q)
    <3>1. bill' = [bill EXCEPT ![c].status = job[q].status, ![c].total = job[q].total,
                               ![c].stockAdjusted = job[q].status = "ISSUED"]
      BY <2>3 DEF CommitEditBill
    <3>2. bill'[b].paid = bill[b].paid /\ (b # c => bill'[b] = bill[b])
      BY <1>1, <2>2, <3>1
    <3>3. QED
      BY <1>1, <2>1, <2>2, <2>3, <3>2
  <2>4. CASE CommitBillStatus(q)
    <3> DEFINE stock == (bill[c].stockAdjusted \/ job[q].status = "ISSUED")
                          /\ job[q].status # "CANCELLED"
    <3>1. bill' = [bill EXCEPT ![c].status = job[q].status, ![c].stockAdjusted = stock]
      BY <2>4 DEF CommitBillStatus
    <3> HIDE DEF stock
    <3>2. /\ bill'[b].paid = bill[b].paid /\ bill'[b].total = bill[b].total
          /\ b # c => bill'[b] = bill[b]
          /\ b = c => bill'[b].status = job[q].status
      BY <1>1, <2>2, <3>1
    <3>3. QED
      BY <1>1, <2>2, <3>2
  <2>5. QED
    BY <1>5, <2>3, <2>4
<1>6. ASSUME NEW q \in Requests, CommitDeleteBill(q) PROVE Keeps
  <2>1. bill' = [bill EXCEPT ![job[q].bill].deleted = TRUE]
    BY <1>6 DEF CommitDeleteBill
  <2>2. QED
    BY <1>1, <2>1
<1>7. ASSUME NEW c \in Bills, NEW status \in {"DRAFT", "ISSUED"}, NEW total \in Amount,
             CreateBill(c, status, total)
      PROVE  Keeps \/ Writes
  <2>1. bill[c].status = "NONE" /\ bill[c].paid = 0
    BY <1>7 DEF CreateBill, IInv, DraftsUnpaid
  <2>2. bill'[b].paid = bill[b].paid /\ (b # c => bill'[b] = bill[b])
    BY <1>1, <1>7, <2>1 DEF CreateBill
  <2>3. QED
    BY <1>1, <2>1, <2>2
<1> HIDE DEF Keeps, Writes, Pays
<1>8. Keeps \/ Writes \/ \E q \in Requests : Pays(q)
  <2>1. ASSUME NEW q \in Requests, Acquire(q) \/ Rollback(q) PROVE bill' = bill
    BY <2>1 DEF Acquire, Rollback
  <2>2. ASSUME NEW q \in Requests, PayStep(q) PROVE bill' = bill \/ CommitPay(q)
    BY <2>2 DEF PayStep, BeginPay, Begin, ListOpenBills, Allocate, Proceed
  <2>3. ASSUME NEW q \in Requests, ReceiptStep(q)
        PROVE  bill' = bill \/ CommitVoid(q) \/ CommitRemove(q) \/ CommitRestore(q)
    BY <2>3 DEF ReceiptStep, BeginOnReceipt, Begin, CheckVoid, CheckRestore, CheckRemove, Proceed
  <2>4. ASSUME NEW q \in Requests, BillStep(q)
        PROVE  bill' = bill \/ CommitEditBill(q) \/ CommitBillStatus(q) \/ CommitDeleteBill(q)
    BY <2>4 DEF BillStep, BeginEditBill, BeginBillStatus, BeginDeleteBill, Begin,
       CheckEditBill, CheckBillStatus, Proceed
  <2>5. ASSUME NEW q \in Requests, NoteStep(q) PROVE bill' = bill
    BY <2>5 DEF NoteStep, BeginSaveNote, BeginNoteStatus, BeginDeleteNote, Begin, ReadSaveNote,
       CheckSaveNote, ReadNoteStatus, CheckNoteStatus, Proceed, CommitSaveNote,
       CommitNoteStatus, CommitDeleteNote
  <2>6. CASE UNCHANGED vars
    BY <1>4, <2>6 DEF vars
  <2>7. CASE Next
    BY <1>2, <1>3, <1>4, <1>5, <1>6, <1>7, <2>1, <2>2, <2>3, <2>4, <2>5, <2>7 DEF Next
  <2>8. QED
    BY <2>6, <2>7
<1>9. QED
  BY <1>8 DEF Keeps, Writes, Pays

\* The bound a create or a restore has checked holds when it writes, except for
\* bills the create has not locked.
LEMMA PlanIsPayable ==
  ASSUME IInv, NEW q \in Requests, CommitPay(q) \/ CommitRestore(q),
         NEW b \in Bills \ unguarded', job[q].plan[b] > 0
  PROVE  job[q].plan[b] <= Outstanding(b) /\ note' = note
<1>1. CASE CommitPay(q)
  <2>1. /\ pc[q] = "checked" /\ job[q].op = "pay" /\ note' = note
        /\ unguarded' = unguarded \cup {c \in Bills : job[q].plan[c] > 0 /\ lock[c] # q}
    BY <1>1 DEF CommitPay, At
  <2>2. lock[b] = q
    BY <2>1
  <2>3. QED
    BY <2>1, <2>2 DEF IInv, PayJob
<1>2. CASE CommitRestore(q)
  <2>1. pc[q] = "checked" /\ job[q].op = "restore" /\ note' = note
    BY <1>2 DEF CommitRestore, At
  <2>2. /\ job[q].plan = receipt[job[q].receipt].rows
        /\ \A c \in BillsOf(job[q].receipt) : job[q].plan[c] <= Outstanding(c)
    BY <2>1 DEF IInv, ReceiptJob
  <2>3. QED
    BY <2>1, <2>2 DEF BillsOf
<1>3. QED
  BY <1>1, <1>2

\* No payment goes onto a bill beyond what its posted returns leave payable,
\* although the balance was read one or two steps before, unless the create had
\* not locked the bill.
THEOREM PaymentsFitTheBalance == Spec => NoPaymentBeyondBalance
<1>1. ASSUME IInv, [Next]_vars, NEW b \in Bills \ unguarded', bill'[b].paid > bill[b].paid
      PROVE  bill'[b].paid <= bill'[b].total - Returned(b, {})'
  <2>1. TypeOK /\ bill[b].paid \in Nat
    BY <1>1 DEF IInv, TypeOK
  <2>2. TypeOK' /\ bill'[b].paid \in Nat
    BY <1>1, NextInvariant DEF IInv, TypeOK
  <2>3. PICK q \in Requests :
          /\ CommitPay(q) \/ CommitRestore(q)
          /\ job[q].plan[b] \in Nat /\ bill'[b].paid = bill[b].paid + job[q].plan[b]
          /\ bill'[b].total = bill[b].total
    BY <1>1, <2>1, <2>2, BillWrites
  <2>4. job[q].plan[b] > 0
    BY <1>1, <2>1, <2>3
  <2>5. job[q].plan[b] <= Outstanding(b) /\ note' = note
    BY <1>1, <2>3, <2>4, PlanIsPayable
  <2>6. bill[b].paid + job[q].plan[b] <= bill[b].total - Returned(b, {})
    BY <2>1, <2>3, <2>5, OutstandingBound
  <2>7. Returned(b, {})' = Returned(b, {})
    BY <2>5, SameReturns
  <2>8. QED
    BY <2>3, <2>6, <2>7
<1>2. IInv /\ [Next]_vars =>
        [\A b \in Bills \ unguarded' : bill'[b].paid > bill[b].paid
           => bill'[b].paid <= bill'[b].total - Returned(b, {})']_vars
  BY <1>1
<1>3. QED
  BY <1>2, Invariance, PTL DEF Spec, NoPaymentBeyondBalance

\* The total and the status of a bill with money on it never change (the money
\* having gone onto a locked bill).
THEOREM PaidBillsAreFrozen == Spec => PaidBillIsFrozen
<1>1. ASSUME IInv, [Next]_vars, NEW b \in Bills \ unguarded, bill[b].paid > 0
      PROVE  bill'[b].total = bill[b].total /\ bill'[b].status = bill[b].status
  <2>1. bill[b].paid # 0 /\ bill[b].status = "ISSUED"
    BY <1>1 DEF IInv, TypeOK, ClosedBillsUnpaid
  <2>2. QED
    BY <1>1, <2>1, BillWrites
<1>2. IInv /\ [Next]_vars =>
        [\A b \in Bills \ unguarded : bill[b].paid > 0
           => /\ bill'[b].total = bill[b].total
              /\ bill'[b].status = bill[b].status]_vars
  BY <1>1
<1>3. QED
  BY <1>2, Invariance, PTL DEF Spec, PaidBillIsFrozen
=============================================================================
