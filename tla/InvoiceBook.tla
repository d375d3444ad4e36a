---------------------------- MODULE InvoiceBook ----------------------------
(***************************************************************************)
(* What the receivables promise: an invoice as one record whose balance    *)
(* is read and changed in one step.  Receivables implements it with        *)
(* handlers that read, check and commit in steps of their own.             *)
(***************************************************************************)
EXTENDS Integers

CONSTANTS Invoices, MaxAmount

VARIABLE book   \* book[i]: phase, total, paid, credited

Amount == 0 .. MaxAmount

Put(i, record) == book' = [book EXCEPT ![i] = record]

Init == book = [i \in Invoices |-> [phase |-> "none", total |-> 0, paid |-> 0, credited |-> 0]]

\* An invoice is drawn up, or revised before anything is received or credited;
\* it never returns to a draft.
Write(i) ==
  /\ book[i].phase \in {"none", "draft", "issued"}
  /\ book[i].paid = 0 /\ book[i].credited = 0
  /\ \E phase \in {"draft", "issued"}, total, paid \in Amount :
       /\ book[i].phase = "issued" => phase = "issued"
       /\ phase = "draft" => paid = 0
       /\ paid <= total
       /\ Put(i, [phase |-> phase, total |-> total, paid |-> paid, credited |-> 0])

\* Money is received or a payment corrected, within what returns leave due.
Receive(i) ==
  /\ book[i].phase = "issued"
  /\ \E paid \in Amount :
       /\ paid <= book[i].total - book[i].credited
       /\ Put(i, [book[i] EXCEPT !.paid = paid])

\* A payment is taken back, whatever is due.
Refund(i) ==
  /\ book[i].phase = "issued"
  /\ \E paid \in Amount :
       /\ paid < book[i].paid
       /\ Put(i, [book[i] EXCEPT !.paid = paid])

\* Nothing is received or credited on an invoice that is cancelled.
Close(i) ==
  /\ book[i].phase \in {"draft", "issued"}
  /\ book[i].paid = 0 /\ book[i].credited = 0
  /\ Put(i, [book[i] EXCEPT !.phase = "closed"])

\* A credit note is posted, changed, moved to another invoice or cancelled.
Credit ==
  \E credited \in [Invoices -> Amount] :
    /\ \A i \in Invoices :
         \/ credited[i] <= book[i].credited
         \/ book[i].phase = "issued" /\ credited[i] <= book[i].total
    /\ book' = [i \in Invoices |-> [book[i] EXCEPT !.credited = credited[i]]]

Next ==
  \/ \E i \in Invoices : Write(i) \/ Receive(i) \/ Refund(i) \/ Close(i)
  \/ Credit

Spec == Init /\ [][Next]_book
=============================================================================
