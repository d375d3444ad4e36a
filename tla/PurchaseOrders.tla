--------------------------- MODULE PurchaseOrders ---------------------------
(***************************************************************************)
(* Purchase orders of one branch, the bills they become, and the files     *)
(* attached to both (purchase-orders.service.ts, addAttachments() of       *)
(* documents.service.ts).                                                  *)
(*                                                                         *)
(* create(), update(), convertToBill() and remove() hold the branch lock;  *)
(* updateStatus() and the uploads read and write without any.  Check makes *)
(* the reads and keeps the planned writes, Commit makes them.              *)
(* Abstracted: suppliers, lines (a total stands for them), numbers (module *)
(* Numbering), dates, sizes and kinds of files, audit; what a bill does    *)
(* after its creation (module Payables).                                   *)
(***************************************************************************)
EXTENDS RowLocks, Integers, FiniteSets

CONSTANTS
  Orders, Bills,   \* ids
  Totals,          \* totals of an order
  MaxFiles,        \* MAX_ATTACHMENTS and MAX_DOCUMENT_ATTACHMENTS
  Ops              \* the handlers the clients call

\* Assumed of the constants.
PurchaseOrdersAssumption ==
  /\ NoOne \notin Bills /\ Orders \cap Bills = {}
  /\ Totals \subseteq Nat /\ 0 \notin Totals /\ MaxFiles \in Nat

VARIABLES
  order,           \* order[o]: the PurchaseOrder row
  bill,            \* bill[b]: the total of the bill; 0 before it exists
  files            \* files[x]: how many files an order or a bill has

vars == <<order, bill, files, lock, pc, job>>

Statuses == {"DRAFT", "SENT", "CONFIRMED", "PARTIALLY_RECEIVED", "RECEIVED", "CANCELLED", "CLOSED"}
OpenOrder == {"DRAFT", "SENT", "CONFIRMED"}

Nothing == [x \in {} |-> NoOne]
One(x, value) == [y \in {x} |-> value]
Patched(row, patch) == [c \in DOMAIN row |-> IF c \in DOMAIN patch THEN patch[c] ELSE row[c]]

NoOrder == [status |-> "none", total |-> 0, bill |-> NoOne]
NoJob == [order |-> Nothing, bill |-> Nothing, files |-> Nothing]
Deleted == [status |-> "deleted", total |-> 0, bill |-> NoOne]
Exists(o) == order[o].status \notin {"none", "deleted"}

-----------------------------------------------------------------------------
(* The steps every handler shares                                           *)

Check(q, op, rows, orders, bills, added) ==
  /\ op \in Ops /\ pc[q] = "idle" /\ \A r \in rows : CanLock(r)
  /\ pc' = [pc EXCEPT ![q] = "checked"]
  /\ job' = [job EXCEPT ![q] = [order |-> orders, bill |-> bills, files |-> added]]
  /\ lock' = [r \in {"branch"} |-> IF r \in rows THEN q ELSE lock[r]]
  /\ UNCHANGED <<order, bill, files>>

End(q) ==
  /\ pc[q] = "checked"
  /\ pc' = [pc EXCEPT ![q] = "idle"] /\ job' = [job EXCEPT ![q] = NoJob] /\ lock' = Released(q)

\* The update of an order that was deleted fails.
Commit(q) ==
  /\ End(q)
  /\ \A o \in DOMAIN job[q].order : Exists(o) \/ order[o].status = "none"
  /\ \A x \in DOMAIN job[q].files \cap Orders : Exists(x)
  /\ order' = [o \in Orders |-> IF o \in DOMAIN job[q].order
                                THEN Patched(order[o], job[q].order[o]) ELSE order[o]]
  /\ bill' = [b \in Bills |-> IF b \in DOMAIN job[q].bill THEN job[q].bill[b] ELSE bill[b]]
  /\ files' = [x \in Orders \cup Bills |->
       IF x \in Orders /\ order'[x].status = "deleted" THEN 0
       ELSE IF x \in DOMAIN job[q].files THEN files[x] + job[q].files[x] ELSE files[x]]

Rollback(q) == End(q) /\ UNCHANGED <<order, bill, files>>

-----------------------------------------------------------------------------
(* Handlers                                                                 *)

Create(q, o, total, status) ==
  /\ order[o].status = "none"
  /\ Check(q, "create", {"branch"}, One(o, [NoOrder EXCEPT !.status = status, !.total = total]),
           Nothing, Nothing)

ConvertToBill(q, o, b) ==
  /\ Exists(o) /\ order[o].bill = NoOne /\ order[o].status \in OpenOrder /\ bill[b] = 0
  /\ Check(q, "convert", {"branch"}, One(o, [status |-> "RECEIVED", bill |-> b]),
           One(b, order[o].total), One(b, files[o]))

UpdateStatus(q, o, status) ==
  /\ Exists(o)
  /\ order[o].bill # NoOne => status = "RECEIVED"
  /\ order[o].status \in {"CANCELLED", "CLOSED"} => status = order[o].status
  /\ Check(q, "status", {}, One(o, [status |-> status]), Nothing, Nothing)

\* A faulty Update: does not take the branch lock.
FaultyUpdate(q, o, total, status) ==
  /\ Exists(o) /\ order[o].bill = NoOne /\ order[o].status \in OpenOrder
  /\ Check(q, "update", {}, One(o, [total |-> total, status |-> status]), Nothing, Nothing)

\* dto.status ?? existing.status: without a status in the form the one read is written again.
Update(q, o, total, status) ==
  /\ Exists(o) /\ order[o].bill = NoOne /\ order[o].status \in OpenOrder
  /\ Check(q, "update", {"branch"}, One(o, [total |-> total, status |-> status]), Nothing, Nothing)

Remove(q, o) ==
  /\ Exists(o) /\ order[o].bill = NoOne
  /\ Check(q, "remove", {"branch"}, One(o, Deleted), Nothing, Nothing)

\* addAttachments() of both services, n files in one request.
AddAttachments(q, x, n) ==
  /\ IF x \in Orders THEN Exists(x) ELSE bill[x] # 0
  /\ files[x] + n <= MaxFiles
  /\ Check(q, "files", {}, Nothing, Nothing, One(x, n))

\* removeAttachment(): one delete of one row.
RemoveAttachment(o) ==
  /\ "files" \in Ops /\ files[o] > 0
  /\ files' = [files EXCEPT ![o] = @ - 1]
  /\ UNCHANGED <<order, bill, lock, pc, job>>

-----------------------------------------------------------------------------
Init ==
  /\ order = [o \in Orders |-> NoOrder]
  /\ bill = [b \in Bills |-> 0]
  /\ files = [x \in Orders \cup Bills |-> 0]
  /\ lock = [r \in {"branch"} |-> NoOne]
  /\ pc = [q \in Requests |-> "idle"]
  /\ job = [q \in Requests |-> NoJob]

Next ==
  \/ \E q \in Requests :
       \/ Commit(q) \/ Rollback(q)
       \/ \E o \in Orders, total \in Totals, status \in Statuses : Create(q, o, total, status)
       \/ \E o \in Orders, b \in Bills : ConvertToBill(q, o, b)
       \/ \E o \in Orders, status \in Statuses : UpdateStatus(q, o, status)
       \/ \E o \in Orders, total \in Totals, status \in Statuses : Update(q, o, total, status)
       \/ \E o \in Orders : Remove(q, o)
       \/ \E x \in Orders \cup Bills, n \in 1 .. MaxFiles : AddAttachments(q, x, n)
  \/ \E o \in Orders : RemoveAttachment(o)

Spec == Init /\ [][Next]_vars

-----------------------------------------------------------------------------
(* Properties                                                               *)

TypeOK ==
  /\ order \in [Orders -> [status : Statuses \cup {"none", "deleted"}, total : Totals \cup {0},
                           bill : Bills \cup {NoOne}]]
  /\ bill \in [Bills -> Totals \cup {0}] /\ files \in [Orders \cup Bills -> Nat]
  /\ lock \in [{"branch"} -> Requests \cup {NoOne}]
  /\ pc \in [Requests -> {"idle", "checked"}] /\ DOMAIN job = Requests

\* An order is there or has nothing, and what is not a bill yet has no files.
RowsAreWhole ==
  /\ \A o \in Orders : IF Exists(o) THEN order[o].total \in Totals ELSE order[o].bill = NoOne
  /\ \A b \in Bills : bill[b] = 0 => files[b] = 0

Unbilled(o) == Exists(o) /\ order[o].bill = NoOne

Plan(q, orders, bills) ==
  /\ job[q].order = orders /\ job[q].bill = bills
  /\ \A x \in DOMAIN job[q].files : job[q].files[x] \in Nat

\* What a request that has the branch locked read still holds when it writes:
CreatePlan(q, o) == \E total \in Totals, status \in Statuses :
  /\ order[o].status = "none" /\ DOMAIN job[q].files = {}
  /\ Plan(q, One(o, [status |-> status, total |-> total, bill |-> NoOne]), Nothing)
UpdatePlan(q, o) == \E total \in Totals, status \in Statuses :
  /\ Unbilled(o) /\ DOMAIN job[q].files = {}
  /\ Plan(q, One(o, [total |-> total, status |-> status]), Nothing)
RemovePlan(q, o) ==
  Unbilled(o) /\ DOMAIN job[q].files = {} /\ Plan(q, One(o, Deleted), Nothing)
ConvertPlan(q, o) == \E b \in Bills :
  /\ Unbilled(o) /\ bill[b] = 0 /\ DOMAIN job[q].files = {b}
  /\ Plan(q, One(o, [status |-> "RECEIVED", bill |-> b]), One(b, order[o].total))
LockedPlan(q) ==
  \E o \in Orders : CreatePlan(q, o) \/ UpdatePlan(q, o) \/ RemovePlan(q, o) \/ ConvertPlan(q, o)

\* a request without it writes nothing but a status, or files of what is there.
StatusPlan(q) == \E o \in Orders, status \in Statuses :
  /\ order[o].status # "none" /\ DOMAIN job[q].files = {}
  /\ Plan(q, One(o, [status |-> status]), Nothing)
FilesPlan(q) == \E x \in Orders \cup Bills :
  (x \in Bills => bill[x] # 0) /\ DOMAIN job[q].files = {x} /\ Plan(q, Nothing, Nothing)

Planned ==
  \A q \in Requests :
    \/ pc[q] = "idle" /\ lock["branch"] # q
    \/ pc[q] = "checked" /\ lock["branch"] = q /\ LockedPlan(q)
    \/ pc[q] = "checked" /\ lock["branch"] # q /\ (StatusPlan(q) \/ FilesPlan(q))

\* Every bill of the module is the bill of one order, which still exists and still
\* has the lines that the bill was made from.
BilledOrderIsKept ==
  /\ \A b \in Bills : bill[b] # 0 => \E o \in Orders : order[o].bill = b
  /\ \A o \in Orders : order[o].bill # NoOne => order[o].total = bill[order[o].bill]

\* Every step keeps these together, whatever the requests do at the same time.
IInv == TypeOK /\ RowsAreWhole /\ Planned /\ BilledOrderIsKept

\* "Converted purchase orders retain their received status".
ConvertedStayReceived == \A o \in Orders : order[o].bill # NoOne => order[o].status = "RECEIVED"

\* "Closed purchase orders cannot be reopened".
ClosedStayClosedStep ==
  \A o \in Orders : order[o].status \in {"CANCELLED", "CLOSED"}
                    => order'[o].status \in {order[o].status, "deleted"}
ClosedStayClosed == [][ClosedStayClosedStep]_vars

\* "A purchase order can have up to 10 attachments", and so a purchase bill.
FilesWithinLimit == \A x \in Orders \cup Bills : files[x] <= MaxFiles

\* A request that nobody else crosses may still make the writes it planned.
PlansAreCurrent ==
  \A q \in Requests : pc[q] = "checked" =>
    /\ \A o \in DOMAIN job[q].order :
         /\ order[o].bill # NoOne => job[q].order[o].status = "RECEIVED"
         /\ order[o].status \in {"CANCELLED", "CLOSED"}
              => job[q].order[o].status \in {order[o].status, "deleted"}
    /\ \A x \in DOMAIN job[q].files : files[x] + job[q].files[x] <= MaxFiles

\* Every step of one request keeps these, too.
AloneInv == ConvertedStayReceived /\ FilesWithinLimit /\ PlansAreCurrent
=============================================================================
