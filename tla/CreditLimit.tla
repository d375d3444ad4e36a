---------------------------- MODULE CreditLimit -----------------------------
(***************************************************************************)
(* The credit limit of a customer (invoices.service.ts create(), update()).*)
(*                                                                         *)
(* A sale on credit adds up what the customer owes the company, over all   *)
(* its branches, and is refused when it would exceed the limit.  create()  *)
(* reads the limit before its transaction, locks the customer only if it   *)
(* was set then, and reads it again; update() reads the limit under the    *)
(* branch and invoice locks and the debt under the customer's.  Payments,  *)
(* credit notes and cancellations lock the invoice alone, an edit of the   *)
(* customer nothing.                                                       *)
(* Abstracted: the opening balance is part of the limit; what settles an   *)
(* invoice, a payment or a credit note, is one amount.                     *)
(***************************************************************************)
EXTENDS RowLocks, Integers, FiniteSets, FiniteSetsExt

CONSTANTS
  Branches, Parties, Invoices,
  Totals,       \* totals of an invoice
  Limits,       \* credit limits; 0 sets none
  Ops           \* what happens, of "create", "update", "settle", "unsettle", "cancel", "limit"

\* Assumed of the constants.
CreditAssumption == Totals \subseteq Nat \ {0} /\ Limits \subseteq Nat

VARIABLES
  limit,        \* limit[p]: creditLimit of the party
  invoice       \* invoice[i]: [status, branch, party, total, settled]

vars == <<lock, pc, job, limit, invoice>>

Unlimited == 0
NoInvoice == [status |-> "none", branch |-> NoOne, party |-> NoOne, total |-> 0, settled |-> 0]
\* A sale: its form, the limit it goes by and the debt it found; and, to judge it by, the
\* highest limit there was and the settlements undone since it began.
NoSale == [op |-> NoOne, row |-> NoInvoice, id |-> NoOne, limit |-> 0, raises |-> FALSE,
           highest |-> 0, undone |-> 0]

Rows == Branches \cup Parties \cup Invoices

TypeOK ==
  /\ lock \in [Rows -> Requests \cup {NoOne}] /\ pc \in [Requests -> Stages]
  /\ limit \in [Parties -> Limits]
  /\ \A i \in Invoices : invoice[i].settled \in 0..invoice[i].total

Init ==
  /\ lock = [r \in Rows |-> NoOne]
  /\ pc = [q \in Requests |-> "idle"]
  /\ job = [q \in Requests |-> NoSale]
  /\ limit \in [Parties -> Limits]
  /\ invoice = [i \in Invoices |-> NoInvoice]

\* What party p owes, the invoices in X aside.
Debt(p, X) == MapThenSumSet(LAMBDA i : invoice[i].total - invoice[i].settled,
                            {i \in Invoices \ X : invoice[i].party = p /\ invoice[i].status = "issued"})

\* More than all invoices come to makes no difference: the bound of what is noted as undone.
Enough == Cardinality(Invoices) * Max(Totals)

\* A limit that was changed or a settlement that was undone is noted by every sale under way.
Noted(p, newLimit, amount) ==
  job' = [q \in Requests |->
    IF pc[q] = "idle" \/ job[q].row.party # p THEN job[q]
    ELSE [job[q] EXCEPT !.undone = Min({@ + amount, Enough}),
                        !.highest = IF newLimit = Unlimited \/ @ = Unlimited THEN Unlimited ELSE Max({@, newLimit})]]

-----------------------------------------------------------------------------
(* Sales.                                                                  *)

\* create(), up to its transaction: the party is read.  A draft is no debt yet.
Create(q, i, form) ==
  /\ "create" \in Ops /\ pc[q] = "idle"
  /\ invoice[i] = NoInvoice /\ \A r \in Requests : job[r].id # i
  /\ job' = [job EXCEPT ![q] = [op |-> "create", row |-> form, id |-> i, limit |-> limit[form.party],
                                raises |-> form.status = "issued", highest |-> limit[form.party], undone |-> 0]]
  /\ pc' = [pc EXCEPT ![q] = "first"]
  /\ UNCHANGED <<lock, limit, invoice>>

\* create() locks its branch, and goes to its party if the limit it read is set.
CreateInBranch(q) ==
  LET asks == job[q].raises /\ job[q].limit # Unlimited /\ job[q].row.total > job[q].row.settled
  IN
    /\ pc[q] = "first" /\ job[q].op = "create"
    /\ CanLock(job[q].row.branch)
    /\ lock' = [lock EXCEPT ![job[q].row.branch] = q]
    /\ pc' = [pc EXCEPT ![q] = IF asks THEN "second" ELSE "checked"]
    /\ UNCHANGED <<job, limit, invoice>>

\* update(): the branch and the invoice are locked, the old invoice and the party are read.
Update(q, i, form) ==
  /\ "update" \in Ops /\ pc[q] = "idle"
  /\ invoice[i].status \in {"draft", "issued"} /\ invoice[i].settled = 0
  /\ form.branch = invoice[i].branch
  /\ invoice[i].status = "draft" \/ form.status = "issued"
  /\ CanLock(form.branch) /\ CanLock(i)
  /\ lock' = [lock EXCEPT ![form.branch] = q, ![i] = q]
  /\ LET counted == invoice[i].party = form.party /\ invoice[i].status = "issued"
         old == IF counted THEN invoice[i].total ELSE 0
     IN job' = [job EXCEPT ![q] = [op |-> "update", row |-> form, id |-> i, limit |-> limit[form.party],
                                   raises |-> form.status = "issued" /\ form.total - form.settled > old,
                                   highest |-> limit[form.party], undone |-> 0]]
  /\ pc' = [pc EXCEPT ![q] = "second"]
  /\ UNCHANGED <<limit, invoice>>

\* The parties a sale locks: an update also the one the invoice leaves.
ToLock(q) == {job[q].row.party} \cup (IF job[q].op = "update" THEN {invoice[job[q].id].party} ELSE {})
\* The limit a sale goes by: create() reads it again under the lock.
GoesBy(q) == IF job[q].op = "create" THEN limit[job[q].row.party] ELSE job[q].limit
Exceeds(q) ==
  /\ job[q].raises /\ GoesBy(q) # Unlimited
  /\ Debt(job[q].row.party, {job[q].id}) + job[q].row.total - job[q].row.settled > GoesBy(q)

Rollback(q) ==
  /\ lock' = Released(q)
  /\ pc' = [pc EXCEPT ![q] = "idle"]
  /\ job' = [job EXCEPT ![q] = NoSale]
  /\ UNCHANGED <<limit, invoice>>

\* Mutant: the debt is added up with the branch locked, and not the customer.
FaultyWeigh(q) ==
  /\ pc[q] = "second"
  /\ IF Exceeds(q) THEN Rollback(q)
     ELSE pc' = [pc EXCEPT ![q] = "checked"] /\ UNCHANGED <<lock, job, limit, invoice>>
\* The parties are locked, then the debt is added up and compared.
Weigh(q) ==
  /\ pc[q] = "second"
  /\ \A p \in ToLock(q) : CanLock(p)
  /\ IF Exceeds(q) THEN Rollback(q)
     ELSE /\ lock' = [r \in Rows |-> IF r \in ToLock(q) THEN q ELSE lock[r]]
          /\ pc' = [pc EXCEPT ![q] = "checked"]
          /\ UNCHANGED <<job, limit, invoice>>

\* The invoice is written and everything is given back.
Commit(q) ==
  /\ pc[q] = "checked"
  /\ invoice' = [invoice EXCEPT ![job[q].id] = job[q].row]
  /\ lock' = Released(q)
  /\ pc' = [pc EXCEPT ![q] = "idle"]
  /\ job' = [job EXCEPT ![q] = NoSale]
  /\ UNCHANGED limit

-----------------------------------------------------------------------------
(* What changes debts and limits meanwhile, each a short transaction.      *)

\* recordPayment(), or a credit note is posted.
Settle(i) ==
  /\ "settle" \in Ops /\ invoice[i].status = "issued" /\ CanLock(i)
  /\ \E amount \in 1..invoice[i].total - invoice[i].settled :
       invoice' = [invoice EXCEPT ![i].settled = @ + amount]
  /\ UNCHANGED <<lock, pc, job, limit>>

\* deletePayment(), or a credit note is cancelled; nobody asks for the limit.
Unsettle(i) ==
  /\ "unsettle" \in Ops /\ invoice[i].settled > 0 /\ CanLock(i)
  /\ invoice' = [invoice EXCEPT ![i].settled = 0]
  /\ Noted(invoice[i].party, limit[invoice[i].party], invoice[i].settled)
  /\ UNCHANGED <<lock, pc, limit>>

\* cancel().
Cancel(i) ==
  /\ "cancel" \in Ops /\ invoice[i].status \in {"draft", "issued"} /\ invoice[i].settled = 0 /\ CanLock(i)
  /\ invoice' = [invoice EXCEPT ![i].status = "cancelled"]
  /\ UNCHANGED <<lock, pc, job, limit>>

\* parties update() sets another limit; the row must not be locked.
SetLimit(p, new) ==
  /\ "limit" \in Ops /\ CanLock(p) /\ new # limit[p]
  /\ limit' = [limit EXCEPT ![p] = new]
  /\ Noted(p, new, 0)
  /\ UNCHANGED <<lock, pc, invoice>>

Forms == {[status |-> status, branch |-> b, party |-> p, total |-> total, settled |-> paid] :
            status \in {"draft", "issued"}, b \in Branches, p \in Parties, total \in Totals, paid \in {0, 1}}
Sent == {form \in Forms : form.settled <= form.total /\ (form.status = "draft" => form.settled = 0)}

Next ==
  \/ \E q \in Requests, i \in Invoices, form \in Sent : Create(q, i, form) \/ Update(q, i, form)
  \/ \E q \in Requests : CreateInBranch(q) \/ Weigh(q) \/ Commit(q) \/ (pc[q] # "idle" /\ Rollback(q))
  \/ \E i \in Invoices : Settle(i) \/ Unsettle(i) \/ Cancel(i)
  \/ \E p \in Parties, new \in Limits : SetLimit(p, new)

Spec == Init /\ [][Next]_vars

-----------------------------------------------------------------------------
(* Properties.                                                             *)

\* A sale that makes a customer owe more leaves the debt within the limit, however many
\* branches sell to the customer at once: within the highest limit there was since the
\* sale began, and apart from settlements that were undone since.  "Lock mutable balances
\* before reading them": a sale that begins before a limit is set locks no customer and
\* adds to a debt that another sale has just been weighed against.
SalesWithinLimitStep ==
  \A q \in Requests, p \in Parties :
    pc[q] = "checked" /\ pc'[q] = "idle" /\ job[q].row.party = p /\ Debt(p, {})' > Debt(p, {})
      => job[q].highest = Unlimited \/ Debt(p, {})' <= job[q].highest + job[q].undone
SalesWithinLimit == [][SalesWithinLimitStep]_vars
=============================================================================
