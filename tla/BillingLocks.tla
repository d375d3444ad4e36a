---------------------------- MODULE BillingLocks ----------------------------
(***************************************************************************)
(* The order in which the handlers lock rows, and how their transactions   *)
(* end (common/utils/billing-transaction.util.ts and its callers).         *)
(*                                                                         *)
(* A handler locks groups of rows one group after the other, and within a  *)
(* group the least id first; it waits for each row that another            *)
(* transaction has.  The ids it is given are of rows of its branch: one of *)
(* another branch is locked and refused.  Some handlers also query outside *)
(* their transaction and take a second connection of the pool for a        *)
(* moment.  InnoDB finds a cycle of waiting transactions and rolls one of  *)
(* them back; billingTransaction starts it again, three times in all.      *)
(* Prisma gives up a transaction that gets no connection or runs too long; *)
(* that is not repeated.                                                   *)
(*                                                                         *)
(* A document is a paper (quotation, proforma, order, challan), a bill of  *)
(* a supplier, or a note (credit or debit note), that returns goods of its *)
(* source, an invoice or a bill.  Documents, accounts and invoices belong  *)
(* to a branch; parties and items are shared by the branches, through the  *)
(* masters they have in common.                                            *)
(***************************************************************************)
EXTENDS RowLocks, Naturals, FiniteSets, Sequences

CONSTANTS
  Branches,   \* branches of the company
  Ids,        \* ids of the rows of one kind, in the order of the database
  Pool,       \* connections of the server's pool
  Tries,      \* times a transaction is started at most
  Ops         \* handlers that are called

Row(kind, branch, id) == [kind |-> kind, branch |-> branch, id |-> id]
Branch(b) == Row("branch", b, 0)
Owned(kind, b) == {Row(kind, b, id) : id \in Ids}
Shared(kind) == Owned(kind, 0)

BranchKinds == {"account", "paper", "note", "bill", "invoice"}
SharedKinds == {"party", "item"}

Rows == UNION ({{Branch(b)} : b \in Branches}
                 \cup {Owned(kind, b) : kind \in BranchKinds, b \in Branches}
                 \cup {Shared(kind) : kind \in SharedKinds})

Document(b) == UNION {Owned(kind, b) : kind \in {"paper", "note", "bill"}}

\* The step of a handler that queries through the pool and not in its transaction.
Outside == {Row("connection", 0, 0)}

AtMostOne(S) == {{}} \cup {{r} : r \in S}
One(S) == {{r} : r \in S}
Some(S) == (SUBSET S) \ {{}}

-----------------------------------------------------------------------------
(* The groups of rows each handler locks, in its order.                    *)

\* billingTransaction of bank accounts, expenses, loans, transfers, numbers, orders: the
\* branch alone.
BranchOnly(b) == {<<{Branch(b)}>>}
\* payment-out create(): the accounts it pays from, then the supplier's open bills.
PayReceipt(b) == {<<{Branch(b)}, Outside, as, ds>> :
                    as \in SUBSET Owned("account", b), ds \in Some(Owned("bill", b))}
\* Mutant: void() and remove() lock the bills in the order of the receipt's payments.
FaultyVoidReceipt(b) == {<<{d}, ds \ {d}>> : d \in Owned("bill", b), ds \in Some(Owned("bill", b))}
\* payment-out void(), remove(): the receipt's bills.
VoidReceipt(b) == {<<ds>> : ds \in Some(Owned("bill", b))}
\* payment-out restore(): the receipt's bills, then its accounts.
RestoreReceipt(b) == {<<ds, as>> : ds \in Some(Owned("bill", b)), as \in SUBSET Owned("account", b)}
\* invoices create(): the party when a limit is set, then the items sold.
CreateInvoice(b) == {<<{Branch(b)}, ps, is>> : ps \in AtMostOne(Shared("party")), is \in SUBSET Shared("item")}
\* invoices update(): the old and the new party, the old items, then the new ones.
UpdateInvoice(b) == {<<{Branch(b)}, v, Outside, ps, old, new>> :
                       v \in One(Owned("invoice", b)), ps \in Some(Shared("party")),
                       old \in SUBSET Shared("item"), new \in SUBSET Shared("item")}
\* recordPayment(), updatePayment(), deletePayment(): the invoice, then the account.
ReceivePayment(b) == {<<v, as>> : v \in One(Owned("invoice", b)), as \in AtMostOne(Owned("account", b))}
\* cancel(), remove(): the invoice, then its items; no branch.
ReverseInvoice(b) == {<<v, is>> : v \in One(Owned("invoice", b)), is \in SUBSET Shared("item")}
\* removeAccount(): the branch, then the account.
RemoveAccount(b) == {<<{Branch(b)}, as>> : as \in One(Owned("account", b))}

\* validateReturn(): the source of a note that is posted.
Source(d, b) == IF d.kind = "note" THEN AtMostOne(Owned("invoice", b) \cup Owned("bill", b)) ELSE {{}}
\* documents create(): the source of a return, then the items.
CreateDocument(b) == {<<{Branch(b)}, source, is>> :
                        source \in AtMostOne(Owned("invoice", b) \cup Owned("bill", b)), is \in SUBSET Shared("item")}
\* documents update(): the old items, and only then the source and the new items.
UpdateDocument(b) == UNION {{<<{Branch(b)}, {d}, Outside, old, source, new>> :
                               old \in SUBSET Shared("item"), source \in Source(d, b), new \in SUBSET Shared("item")} :
                            d \in Document(b)}
\* documents updateStatus(), without the branch: the document, its source, the items; the
\* audit goes through the pool.
UpdateStatus(b) == UNION {{<<{d}, source, is, Outside>> :
                             source \in Source(d, b), is \in SUBSET Shared("item")} : d \in Document(b)}
\* convertToInvoice(), convertToOrderOrChallan(), convertPreSaleDocument(): the document,
\* prices through the pool, and for an invoice what its create() locks; a bill or note is refused.
ConvertDocument(b) == {<<{Branch(b)}, d, Outside, ps, is>> :
                         d \in One(Document(b)), ps \in AtMostOne(Shared("party")), is \in SUBSET Shared("item")}
\* reverseConversion(): the document, then the invoice and its items or the other document.
ReverseConversion(b) == {<<{Branch(b)}, d, v, is>> :
                           d \in One(Owned("paper", b)), v \in One(Owned("invoice", b)), is \in SUBSET Shared("item")}
                        \cup {<<{Branch(b)}, d, t>> : d \in One(Owned("paper", b)), t \in One(Document(b))}
\* purchase orders convertToBill(): prices through the pool, then the items bought.
ConvertOrder(b) == {<<{Branch(b)}, Outside, is>> : is \in SUBSET Shared("item")}
\* transfer between godowns: the same items out and in.
MoveStock(b) == {<<{Branch(b)}, is, is>> : is \in Some(Shared("item"))}
\* items update(): the item, and again when its stock is set.
EditItem(b) == {<<is, is>> : is \in One(Shared("item"))}

PlansIn(op, b) ==
  CASE op = "branchOnly" -> BranchOnly(b)
    [] op = "payReceipt" -> PayReceipt(b)
    [] op = "voidReceipt" -> VoidReceipt(b)
    [] op = "restoreReceipt" -> RestoreReceipt(b)
    [] op = "createInvoice" -> CreateInvoice(b)
    [] op = "updateInvoice" -> UpdateInvoice(b)
    [] op = "receivePayment" -> ReceivePayment(b)
    [] op = "reverseInvoice" -> ReverseInvoice(b)
    [] op = "removeAccount" -> RemoveAccount(b)
    [] op = "createDocument" -> CreateDocument(b)
    [] op = "updateDocument" -> UpdateDocument(b)
    [] op = "updateStatus" -> UpdateStatus(b)
    [] op = "convertDocument" -> ConvertDocument(b)
    [] op = "reverseConversion" -> ReverseConversion(b)
    [] op = "convertOrder" -> ConvertOrder(b)
    [] op = "moveStock" -> MoveStock(b)
    [] op = "editItem" -> EditItem(b)

Handlers == {"branchOnly", "payReceipt", "voidReceipt", "restoreReceipt", "createInvoice", "updateInvoice",
             "receivePayment", "reverseInvoice", "removeAccount", "createDocument", "updateDocument",
             "updateStatus", "convertDocument", "reverseConversion", "convertOrder", "moveStock", "editItem"}
Plans == [op \in Handlers |-> UNION {PlansIn(op, b) : b \in Branches}]

-----------------------------------------------------------------------------
vars == <<lock, pc, job>>

Ended == {"saved", "failed"}
NoJob == [op |-> NoOne, plan |-> <<>>, starts |-> 0]

TypeOK ==
  /\ lock \in [Rows -> Requests \cup {NoOne}]
  /\ pc \in [Requests -> {"idle", "queued", "running", "victim"} \cup Ended]
  /\ \A q \in Requests : job[q].starts \in 0..Tries

Init ==
  /\ lock = [r \in Rows |-> NoOne]
  /\ pc = [q \in Requests |-> "idle"]
  /\ job = [q \in Requests |-> NoJob]

Running == {q \in Requests : pc[q] = "running"}
HasConnection == Cardinality(Running) < Pool

\* What is left of a plan once the empty groups at its head are passed.
Passed(plan) == LET filled == {i \in 1..Len(plan) : plan[i] # {}}
                    first == CHOOSE i \in filled : \A k \in filled : i <= k
                IN IF filled = {} THEN <<>> ELSE SubSeq(plan, first, Len(plan))

\* The plan when a row of the group at its head is locked.
Without(row, plan) == [plan EXCEPT ![1] = @ \ {row}]

\* The row to lock next: the least of the group the handler has come to.
NextRow(q) == LET group == Head(job[q].plan)
              IN CHOOSE r \in group : \A s \in group : r.id <= s.id
LocksNext(q) == pc[q] = "running" /\ job[q].plan # <<>> /\ Head(job[q].plan) # Outside
AsksPool(q) == pc[q] = "running" /\ job[q].plan # <<>> /\ Head(job[q].plan) = Outside

\* q waits for a row of r.
WaitsFor(q, r) == LocksNext(q) /\ r # q /\ lock[NextRow(q)] = r
\* Transactions that all wait for each other.
Circle(C) == /\ C # {}
             /\ \A r \in C : \E s \in C : WaitsFor(r, s)
             /\ \A s \in C : \E r \in C : WaitsFor(r, s)
Deadlocked(q) == \E C \in SUBSET Requests : q \in C /\ Circle(C)

\* A request arrives at handler op.
Submit(q) ==
  /\ pc[q] = "idle"
  /\ \E op \in Ops : job' = [job EXCEPT ![q].op = op]
  /\ pc' = [pc EXCEPT ![q] = "queued"]
  /\ UNCHANGED lock

\* prisma.$transaction begins on a connection of its own.
Begin(q) ==
  /\ pc[q] = "queued"
  /\ HasConnection
  /\ \E plan \in Plans[job[q].op] :
       job' = [job EXCEPT ![q].plan = Passed(plan), ![q].starts = @ + 1]
  /\ pc' = [pc EXCEPT ![q] = "running"]
  /\ UNCHANGED lock

\* SELECT ... FOR UPDATE of one row returns.
Lock(q) ==
  /\ LocksNext(q)
  /\ CanWrite(q, NextRow(q))
  /\ lock' = [lock EXCEPT ![NextRow(q)] = q]
  /\ job' = [job EXCEPT ![q].plan = Passed(Without(NextRow(q), job[q].plan))]
  /\ UNCHANGED pc

\* A query outside the transaction finds a second connection free, and gives it back.
AskPool(q) ==
  /\ AsksPool(q)
  /\ HasConnection
  /\ job' = [job EXCEPT ![q].plan = Passed(Tail(@))]
  /\ UNCHANGED <<lock, pc>>

Commit(q) ==
  /\ pc[q] = "running"
  /\ job[q].plan = <<>>
  /\ lock' = Released(q)
  /\ pc' = [pc EXCEPT ![q] = "saved"]
  /\ UNCHANGED job

Rollback(q, stage) ==
  /\ lock' = Released(q)
  /\ pc' = [pc EXCEPT ![q] = stage]
  /\ job' = [job EXCEPT ![q].plan = <<>>]

\* A check of the handler fails after a lock or a read.
Refuse(q) == pc[q] = "running" /\ Rollback(q, "failed")

\* The 30 seconds of a transaction that waits are over (P2028).
TimeOut(q) == LocksNext(q) /\ ~CanWrite(q, NextRow(q)) /\ Rollback(q, "failed")

\* No connection came in time, for the transaction (maxWait) or for a query beside it (P2024).
PoolTimeOut(q) ==
  /\ pc[q] = "queued" \/ AsksPool(q)
  /\ ~HasConnection
  /\ Rollback(q, "failed")

\* InnoDB rolls back one transaction of a cycle (P2034).
BreakDeadlock(q) == Deadlocked(q) /\ Rollback(q, "victim")

\* Mutant: the loop has no bound.
FaultyRetry(q) ==
  /\ pc[q] = "victim"
  /\ pc' = [pc EXCEPT ![q] = "queued"]
  /\ job' = [job EXCEPT ![q].starts = 0]
  /\ UNCHANGED lock
\* The loop of billingTransaction: start again, or give the error to the caller.
Retry(q) ==
  /\ pc[q] = "victim"
  /\ pc' = [pc EXCEPT ![q] = IF job[q].starts < Tries THEN "queued" ELSE "failed"]
  /\ UNCHANGED <<lock, job>>

Next == \E q \in Requests :
  \/ Submit(q) \/ Begin(q) \/ Lock(q) \/ AskPool(q) \/ Commit(q)
  \/ Refuse(q) \/ TimeOut(q) \/ PoolTimeOut(q) \/ BreakDeadlock(q) \/ Retry(q)

Spec == Init /\ [][Next]_vars

\* Server and database go on with what they can do; nobody need send a request, no
\* check need fail, and no lock wait need last 30 seconds.  A wait for the pool ends.
Progress(q) == Begin(q) \/ Lock(q) \/ AskPool(q) \/ Commit(q) \/ PoolTimeOut(q) \/ Retry(q)
Fairness ==
  /\ \A q \in Requests : WF_vars(Progress(q))
  /\ WF_vars(\E q \in Requests : BreakDeadlock(q))
FairSpec == Spec /\ Fairness

-----------------------------------------------------------------------------
(* Properties.                                                             *)

\* Every request that arrives is answered, with its transaction saved or failed, although
\* lock waits have no limit of their own: deadlocks are broken and repeated boundedly.
RequestsEnd == \A q \in Requests : pc[q] = "queued" ~> pc[q] \in Ended

\* Handlers that keep the order branch, paper, note, invoice, account, bill, party, item, or
\* lock two papers with the branch.  The others do not: restore() of a receipt locks bills
\* before accounts, update() of an invoice or a document old items before new ones, and of
\* a document items before the source.
Orderly == Handlers \ {"restoreReceipt", "updateInvoice", "updateDocument"}

\* Requests that wait in a circle include one of the three handlers that lock against the
\* order; without them nobody is rolled back for a deadlock and repeated, although papers,
\* status changes, reversals and payments lock rows in transactions with and without the
\* branch ("Lock in a fixed order", payment-out.service.ts).
LockedInOneOrder == \A C \in SUBSET Requests : Circle(C) => \E q \in C : job[q].op \notin Orderly

\* A row stays locked only by a transaction that is under way: a request that was
\* answered, refused, timed out or chosen as victim leaves nothing locked.
LocksEndWithTransactions == \A r \in Rows : lock[r] # NoOne => pc[lock[r]] = "running"

\* Every transaction that gives up for deadlock was started as often as allowed, and
\* nobody else than a victim is ever started again: a refusal is not repeated.
OnlyVictimsRestartStep ==
  \A q \in Requests :
    /\ job[q].starts > 0 /\ pc'[q] = "queued" /\ pc[q] # "queued" => pc[q] = "victim"
    /\ pc[q] = "victim" /\ pc'[q] = "failed" => job[q].starts = Tries
OnlyVictimsRestart == [][OnlyVictimsRestartStep]_vars

-----------------------------------------------------------------------------
(* The inductive invariant of BillingLocks.  Handlers of the common order  *)
(* follow it in what they hold and in what they will lock.                 *)

\* Rows can be told apart by their ids, and requests that wait in a circle are finitely many.
LocksAssumption ==
  IsFiniteSet(Requests) /\ Ids \subseteq Nat /\ Tries \in Nat \ {0} /\ Ops \subseteq Handlers

\* The place of a kind of rows in the order.
Level(kind) ==
  CASE kind = "branch" -> 0
    [] kind = "paper" -> 1
    [] kind = "note" -> 2
    [] kind = "invoice" -> 3
    [] kind = "account" -> 4
    [] kind = "bill" -> 5
    [] kind = "party" -> 6
    [] OTHER -> 7

\* Row x may be locked before row y.
Below(x, y) ==
  \/ Level(x.kind) < Level(y.kind)
  \/ Level(x.kind) = Level(y.kind) /\ (x.kind = "paper" \/ x.id < y.id)

-----------------------------------------------------------------------------
Groups == (SUBSET Rows) \cup {Outside}
Held(q) == {r \in Rows : lock[r] = q}
\* The rows that are still to be locked.
Ahead(plan) == (UNION {plan[i] : i \in DOMAIN plan}) \ Outside

\* The rows that a handler of branch b may lock.
RowsOf(b) ==
  {Branch(b)} \cup (UNION {Owned(kind, b) : kind \in BranchKinds})
              \cup (UNION {Shared(kind) : kind \in SharedKinds})

LonePaper(S) == \A x, y \in S : x.kind = "paper" /\ y.kind = "paper" => x = y

\* With the rows of held locked, what is left of the plan follows them in the order; a row
\* that is planned twice is held the second time, and two papers go with the branch.
InOrder(b, held, plan) ==
  /\ plan \in Seq(Groups)
  /\ held \cup Ahead(plan) \subseteq RowsOf(b)
  /\ \A i \in DOMAIN plan : \A x, y \in plan[i] : x.kind = y.kind
  /\ \A i, j \in DOMAIN plan : \A x \in plan[i] \ Outside, y \in plan[j] \ Outside :
       i < j => Below(x, y) \/ y \in held \cup plan[i]
  /\ \A x \in held, y \in Ahead(plan) : Below(x, y) \/ y \in held
  /\ LonePaper(held \cup Ahead(plan)) \/ Branch(b) \in held \cup Ahead(plan)

PlanJob(q) ==
  pc[q] = "running" /\ job[q].op \in Orderly =>
    \E b \in Branches : InOrder(b, Held(q), job[q].plan)

RowsOK ==
  /\ TypeOK
  /\ job \in [Requests -> [op : Ops \cup {NoOne}, plan : Seq(Groups), starts : 0..Tries]]
  /\ \A q \in Requests :
       /\ pc[q] # "idle" => job[q].op \in Ops
       /\ pc[q] = "idle" => job[q].starts = 0
       /\ pc[q] = "queued" => job[q].starts < Tries
       /\ job[q].plan # <<>> => Head(job[q].plan) # {}

IInv ==
  /\ RowsOK
  /\ LocksEndWithTransactions
  /\ \A q \in Requests : PlanJob(q)
=============================================================================
