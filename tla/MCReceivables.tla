--------------------------- MODULE MCReceivables ---------------------------
(* Instances of Receivables, and of the statements drawn from it, for TLC. *)
EXTENDS Statements, TLC

AllOps == {"invoice", "edit", "cancel", "remove", "record", "update", "delete", "deposit",
           "reopen", "credit"}
PayOps == {"invoice", "cancel", "record", "update", "delete"}
BookOps == {"invoice", "edit", "cancel", "remove", "record", "update", "delete", "credit"}
ReturnOps == {"invoice", "edit", "record", "credit"}
ChequeOps == {"invoice", "record", "deposit", "reopen", "cancel"}
PartyOps == {"invoice", "edit", "cancel", "record", "delete", "credit"}
HistoryOps == {"invoice", "record", "update", "delete", "deposit"}
SummaryOps == {"invoice", "record", "credit"}

Received(amounts, methods, accounts) ==
  [amount : amounts, method : methods, account : accounts]
Cash == Received(1 .. MaxAmount, {"other"}, {"none"})
ChequeReceipts == Received({1}, {"cheque"}, Accounts)
AllReceipts == Cash \cup ChequeReceipts
Reprices == Received({0, 1}, {"keep"}, {"keep"})
MethodEdits == {[amount |-> 0, method |-> "other", account |-> "keep"],
                [amount |-> 0, method |-> "keep", account |-> "none"]}
NoEdits == {}
Owing == -1

Only(ops) == \A q \in Requests : job[q].op \in ops \cup {NoJob.op}
NotesUsed == {n \in Notes : credit[n].state # "none"}
PaymentsUsed == {p \in Payments : payment[p].state # "none"}
NoRequestIds ==
  /\ \A p \in Payments : payment[p].key = NoOne
  /\ \A q \in Requests : job[q].key = NoOne
NoCheques ==
  /\ \A p \in Payments : payment[p].method # "cheque"
  /\ \A q \in Requests : job[q].money.method # "cheque"
MoneyUpTo(limit) ==
  /\ \A p \in Payments : payment[p].amount <= limit
  /\ \A q \in Requests : job[q].money.amount <= limit
NotesUpTo(limit) == \A n \in Notes : credit[n].total <= limit
AmountsUpTo(limit) ==
  /\ \A i \in Invoices : invoice[i].total <= limit
  /\ \A q \in Requests : job[q].total <= limit
  /\ MoneyUpTo(limit) /\ NotesUpTo(limit)

(* The bound of the run of sales: a behaviour                               *)
(*   - records, corrects and deletes two payments of an invoice,            *)
(*   - edits, cancels, pays and credits an invoice with one payment,        *)
(*   - credits an invoice twice while it is edited and paid,                *)
(*   - deposits and re-opens a cheque (no other edit of a payment: see the  *)
(*     run of histories), or                                                *)
(*   - does all of it to small amounts of one customer.                     *)
SalesApart ==
  \/ Only(PayOps) /\ NotesUsed = {} /\ NoCheques
  \/ /\ Only(BookOps) /\ NoRequestIds /\ NoCheques
     /\ Cardinality(NotesUsed) <= 1 /\ Cardinality(PaymentsUsed) <= 1
     /\ MoneyUpTo(1) /\ NotesUpTo(1)
  \/ /\ Only(ReturnOps) /\ NoRequestIds /\ NoCheques
     /\ Cardinality(PaymentsUsed) <= 1 /\ MoneyUpTo(1)
  \/ /\ Only(ChequeOps) /\ NoRequestIds /\ AmountsUpTo(1)
     /\ NotesUsed = {} /\ Cardinality(PaymentsUsed) <= 1
  \/ Only(PartyOps) /\ NoRequestIds /\ NoCheques /\ AmountsUpTo(1) /\ Cardinality(NotesUsed) <= 1

Symmetry == Permutations(Requests) \cup Permutations(Payments) \cup Permutations(Keys)
              \cup Permutations(Notes) \cup Permutations(Invoices)
=============================================================================
