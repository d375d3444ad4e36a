----------------------------- MODULE MCPayables -----------------------------
(* Instances of Payables for TLC. *)
EXTENDS Payables, TLC

AllOps == {"bill", "editBill", "billStatus", "deleteBill", "pay", "void", "restore", "remove",
           "saveNote", "noteStatus", "deleteNote"}
ReceiptOps == {"bill", "pay", "void", "restore", "remove", "editBill"}
BalanceOps == {"bill", "pay", "void", "restore", "billStatus", "saveNote", "noteStatus"}
ReturnOps == {"bill", "editBill", "saveNote", "noteStatus"}
GapOps == {"bill", "pay", "void", "restore"}
DeleteOps == {"bill", "billStatus", "deleteBill"}

Only(ops) == \A q \in Requests : job[q].op \in ops \cup {NoJob.op}
NoReceipts == \A r \in Receipts : receipt[r].state = "none"
NotesUsed == {n \in Notes : note[n].status # "NONE"}
AmountsUpTo(limit) ==
  /\ \A b \in Bills : bill[b].total <= limit
  /\ \A n \in Notes : note[n].total <= limit
  /\ \A q \in Requests : job[q].total <= limit

(* The bound of the run of receipts: a behaviour either pays two bills or    *)
(* works on the papers of one bill; the run of returns has both at once.     *)
ReceiptsApart ==
  \/ /\ Only(ReceiptOps) /\ NotesUsed = {}
     /\ \A b \in Bills : ~bill[b].deleted /\ bill[b].status # "CANCELLED"
  \/ NoReceipts /\ Only(AllOps \ {"pay"}) /\ \A b \in Bills \ {1} : bill[b].status = "NONE"

(* The bound of the run of returns: one debit note beside payments and       *)
(* changes of status, or two notes of small amounts beside edits of the bill. *)
ReturnsApart ==
  \/ Only(BalanceOps) /\ Cardinality(NotesUsed) <= 1
  \/ Only(ReturnOps) /\ NoReceipts /\ AmountsUpTo(1)

Symmetry == Permutations(Requests) \cup Permutations(Receipts) \cup Permutations(Keys)
              \cup Permutations(Notes)
=============================================================================
