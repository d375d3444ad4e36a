----------------------------- MODULE Statements -----------------------------
(***************************************************************************)
(* What one customer owes, as five different queries add it up: the list   *)
(* of parties and a party's ledger (parties.service.ts), the balance       *)
(* printed on invoices (party-balance.util.ts), the transactions report    *)
(* (reports.service.ts) and the group summary (group-summary.service.ts).  *)
(*                                                                         *)
(* The queries add committed rows of Receivables, whose handlers keep      *)
(* amountPaid in one place and the payments in another.  Each query is     *)
(* taken at one instant; the code runs several SELECTs.  All invoices are  *)
(* the customer's, and all dates lie in the period asked for.              *)
(***************************************************************************)
EXTENDS Receivables

CONSTANT Opening    \* the party's signed opening balance: negative when it is payable

ASSUME StatementsAssumption == Opening \in Int

Totals == [i \in Invoices |-> invoice[i].total]
PaidAmounts == [i \in Invoices |-> invoice[i].paid]

\* The rows: neither deleted, DRAFT nor CANCELLED.
LiveInvoices == {i \in Invoices : Open(i)}
LiveNotes == {n \in Notes : credit[n].state = "live"}
PaymentsOf(S) == UNION {LivePayments(i) : i \in S}

\* currentPartyBalance()
CurrentPartyBalance ==
  (Opening + SumOf(LiveInvoices, Totals))
    - (SumOf(LiveInvoices, PaidAmounts) + SumOf(LiveNotes, CreditTotals))

\* findAll(): billed net of credit notes, less what the invoices say was received.
ListedBalance ==
  LET billed == SumOf(LiveInvoices, Totals) - SumOf(LiveNotes, CreditTotals) IN
  (Opening + billed) - SumOf(LiveInvoices, PaidAmounts)

\* A faulty LedgerBalance: an invoice that was cancelled stays an event.
FaultyLedgerBalance ==
  Opening + SumOf({i \in Invoices : invoice[i].status # "DRAFT" /\ ~invoice[i].deleted}, Totals)
    - SumOf(PaymentsOf(LiveInvoices), PaymentAmounts) - SumOf(LiveNotes, CreditTotals)

\* ledger(): the running balance after its last event, whatever their dates.
LedgerBalance ==
  Opening + SumOf(LiveInvoices, Totals) - SumOf(PaymentsOf(LiveInvoices), PaymentAmounts)
    - SumOf(LiveNotes, CreditTotals)

\* The Payment-In rows of the report: of every invoice that is neither deleted nor a draft.
ReportedReceived ==
  SumOf(PaymentsOf({i \in Invoices : invoice[i].status \notin {"NONE", "DRAFT"} /\ ~invoice[i].deleted}),
        PaymentAmounts)

\* What the group summary calls received.
SummarisedReceived == SumOf(PaymentsOf(LiveInvoices), PaymentAmounts)

-----------------------------------------------------------------------------
(* Properties                                                               *)

\* The list of parties, the party's ledger and the printed balance show one figure, and
\* the report and the group summary one received total, whatever is recorded, corrected,
\* cancelled and returned.
StatementsAgree ==
  /\ CurrentPartyBalance = ListedBalance /\ CurrentPartyBalance = LedgerBalance
  /\ ReportedReceived = SummarisedReceived
  /\ SummarisedReceived = SumOf(LiveInvoices, PaidAmounts)
=============================================================================
