# Imarrt-BillServer: specification, model checking and proofs

The program is a NestJS server over Prisma and MySQL that keeps the books of
small companies: sales invoices and the money received for them, purchase
bills and the money paid for them, returns, stock, bank and cash accounts,
loans, production orders. Paths below are relative to the repository; `src/src/`
is the server.

## 1. The system

### Components

| part | state | operations | what makes it correct |
| --- | --- | --- | --- |
| transaction layer (`common/utils/billing-transaction.util.ts`) | row locks, connections, the attempt counter | `lockBillingRecord`, `billingTransaction`, `adjustStock` | a balance is read after its row is locked; a deadlock victim is retried; every request is answered and leaves nothing locked |
| payables (`payment-out`, bills and debit notes in `documents`) | bill (status, total, paidAmount), debit note, receipt and its rows | create / void / restore / remove a receipt; create / update / updateStatus / remove a document | paidAmount is the sum of the live rows, never above what is payable; returns never above the bill; one receipt per requestId |
| receivables (`invoices`, credit notes in `documents`, `finance.cheque`) | invoice (status, total, amountPaid), payment, credit note, cheque history, credit limit | create, update, recordPayment, updatePayment, deletePayment, cancel, remove | the same, mirrored; a cheque with history is not changed; nobody owes more than the limit |
| document flow (`documents`) | estimate, proforma, order, challan and their links | create, update, updateStatus, convert, convertToInvoice, reversals, remove | one paper in force per source; goods leave once along a chain |
| purchase orders | order, converted bill, files | create, update, updateStatus, convertToBill, attachments, remove | a converted order keeps its bill and status |
| numbering (invoices, documents, orders, receipts, party codes) | numbers in use | next number, typed numbers, edits | the next number is free |
| stock (`adjustStock`, `inventory`, `items`) | item quantity, godown quantities, movements | in, out, transfer, post, reverse, create, update, remove | the movements explain the quantities; nothing below zero when forbidden |
| cash book (`accounting/finance`) | entry, loan, repayment | transfer, adjustCash, income, loans, updateEntry, removeEntry, convertToLoanPayment | transfers have two legs; loans are not overpaid; one entry per repayment |
| bank accounts, expense categories (`accounting`) | account, expense, category | saveAccount, removeAccount, createExpense, categories | removed accounts are empty; every expense has its category |
| production | order, stages, costs, payments | create, updateStage, costs, recordPayment, updateStatus, updateMaster, confirm, remove | pieces are accounted for; payments are not lost |
| sessions (`auth`) | user, session, refresh token, login counter, second factor | login, refresh, logout, password, MFA, reset | a token is exchanged once; a bounded number of sessions; changes sign out |
| team (`users`) | memberships | create, activate, deactivate, remove | losing the last company signs out |
| branches, companies, workspaces | parent links, isActive, GSTIN, workspace | create, update, archive, remove | no cycle; one active branch; masters shared both ways and in one workspace branch only |
| parties and suppliers | contact, its papers, statements | create, update, remove, list, ledger | contacts with papers stay; all statements show one balance |
| preferences | one JSON column | read, save | a save keeps what it did not send; only valid values are read |
| invoice delivery | attempts | deliver, automatic delivery | every attempt is settled, nothing is sent twice |
| PDF browser | cached promise, processes | render, launch, crash, stop | every paper is printed; one browser; none is left |
| computations (`billing.util`, `amount-words`, `production-summary.util`, `totp.util`) | none | totals, words, figures, codes | exact within the rounding that is promised |
| HTTP layer, encryption, audit, layout | none that another handler relies on | | not modelled, see section 8 |

### How they interact

Every request is one HTTP call served by any process of the server. The parts
share nothing but the database. A money handler runs `billingTransaction`: one
interactive READ COMMITTED transaction that locks rows with
`SELECT ... FOR UPDATE`, reads, checks, writes and commits. Locks are taken on
branch, document, invoice, account, party and item rows; a plain read sees what is
committed when it runs and waits for nobody. Documents call payables for the
payment of a bill and receivables for the invoice a conversion creates; purchase
orders call documents for the bill; `invoices.create` calls the delivery, which calls
the PDF service. An audit row is written after the commit, except that `documents.updateStatus`
writes it through the pool inside its transaction (line 547). Users, branches, companies,
parties, production and sessions take no explicit locks at all: they read, check and write.

### What is hard here

* Interleaving: two requests between one another's reads and writes. A handler
  is safe only if it reads again after the lock, and only for rows it locked.
* Stale reads: some handlers check what they read before the lock
  (`documents.remove`, `updateStatus` of purchase orders, production payments) or
  under another lock than the writer's (`cheque` against `updatePayment`).
* Retries: a client repeats a request it got no answer to; a `requestId` must
  find the first one, finished or still running.
* Long sequences: pay, void, edit, pay, restore; estimate, order, challan, invoice and
  back. Sums maintained by increments of many handlers must equal the rows they summarise.
* Locks out of order, a pool of connections that runs short, outside services that fail or
  whose answers are lost, browsers that crash.
* Crash: a process may die in any step; an open transaction is rolled back.

PROJECT.json lists the hazards at their lines with the properties that catch
them.

## 2. Modules

| module | what it is |
| --- | --- |
| `Amounts`, `AmountsProofs` | sums over a set of rows, without recursion; lemmas about them |
| `RowLocks` | the lock table, the stages of a request, when a lock is granted and given back |
| `Payables`, `PayablesProofs` | bills, debit notes and Payment-Out receipts of one supplier in one branch; the theorems |
| `Receivables`, `ReceivablesProofs` | sales invoices, received payments, credit notes and cheque deposits of one branch; the theorems |
| `InvoiceBook` | what `Receivables` implements: an invoice whose balance is read and changed in one step |
| `Statements` | what a customer owes, as five queries over `Receivables` add it up |
| `CreditLimit` | the credit limit of customers over several branches |
| `DocumentFlow` | estimates to invoices: conversions, reversals, the goods |
| `PurchaseOrders` | orders, the bills they become, files |
| `Numbering` | how the next number of each register is found |
| `Contacts` | editing and removing customers and suppliers while papers are written |
| `CashBook` | cash entries, transfers and loans of one branch |
| `Accounting` | bank accounts and expense categories |
| `StockLedger` | items, godowns and movements |
| `Production`, `ProductionSummary` | an order through its stages and costs; the figures shown of it |
| `AuthSessions` | logins, tokens, second factor, password |
| `SessionChain` | what a session promises, which `AuthSessions` implements |
| `Team`, `BranchTree`, `Companies` | members, branches, companies and workspace branches |
| `Preferences` | the column of preferences |
| `BillingLocks` | in which order every handler locks, deadlocks, retries, the pool |
| `InvoiceDelivery` | sending invoices |
| `PdfBrowser` | the shared browser |
| `BillingMath`, `AmountWords`, `Totp` | totals, amounts in words, one-time codes |
| `MCPayables`, `MCReceivables`, `MCSessions` | instances of one module for TLC |
| `MCPapers`, `MCGoods`, `MCPeople`, `MCServices` | suites: several instances checked in one run, see section 3 |
| `GoodsProofs` | theorems about `CashBook`, `StockLedger`, `Accounting` |
| `ServicesProofs` | theorems about `BillingLocks`, `InvoiceDelivery`, `DocumentFlow` |
| `OfficeProofs` | theorems about `AuthSessions`, `Team`, `BranchTree`, `Companies`, `Preferences`, `Contacts`, `Numbering`, `PurchaseOrders` |
| `Parts`, `SuiteProofs`, `OfficeSuiteProofs` | the variables of a suite; the theorems above for the suites' instances and properties |

### RowLocks: from code to steps

A handler becomes a chain of steps of one request `q`: `Begin` stores its
arguments (and what it read before the first lock), `Acquire` takes one row of
`want` per step, in the order the code does, a read step checks and may ask for
more locks, a commit step writes everything. `pc[q]` is `idle`, `first`, `second`
(the two stages that may wait for locks) or `checked`. All writes of a transaction
become visible in one step, the commit, because the transactions are READ
COMMITTED and InnoDB shows other transactions nothing earlier. `CanWrite` is the
row lock an UPDATE takes by itself: a write of a row another transaction has
locked waits. `Rollback` may happen at any time before the commit. It stands for
every refused check, for an idempotent replay (which writes nothing), for the victim of
a deadlock, for the 30 s limit and for a crash.

The same convention, `Check...` for locking, reading and deciding and `Commit` for writing,
is used wherever the locks make the reads of a handler one step: `CashBook`, `Accounting`,
`StockLedger`, `DocumentFlow`, `PurchaseOrders`. Handlers without locks are a reading
and a writing step with anything in between.

### Payables: state and actions

`bill[b]` is the `BusinessDocument` row of type PURCHASE_INVOICE with its
`grandTotal` (`total`) and `paidAmount` (`paid`), `note[n]` a DEBIT_NOTE, `receipt[r]` a
`PaymentOutReceipt` with its `PurchasePayment` rows summed per bill. `unguarded`
is auxiliary: the bills a create paid without holding their lock.

| handler | steps |
| --- | --- |
| `PaymentOutService.create`, `recordForBill` | `BeginPay`, `ListOpenBills`, `Allocate`, `CommitPay` |
| `void`, `restore`, `remove` of a receipt | `BeginOnReceipt`, `CheckVoid` / `CheckRestore` / `CheckRemove`, `Commit...` |
| `DocumentsService.create` of a bill | `CreateBill` |
| `update` of a bill | `BeginEditBill`, `CheckEditBill`, `CommitEditBill` |
| `updateStatus` of a bill, of a note | `BeginBillStatus` ..., `BeginNoteStatus` ... |
| `create` and `update` of a note | `BeginSaveNote`, `ReadSaveNote`, `CheckSaveNote`, `CommitSaveNote` |
| `remove` of a document | `BeginDeleteBill`, `CommitDeleteBill`, `BeginDeleteNote`, `CommitDeleteNote` |

Abstractions: ISSUED and ACCEPTED are one status (the code treats them alike
here). A receipt's allocation is any plan that respects what is outstanding, which
contains both the client's own allocations and oldest-first. Debit notes return
value and no goods. The account rows a receipt locks, the
numbering, the supplier and stock refusals only ever end a request: `Rollback`.
The edit of a receipt's date and text is left out; it touches no amount.
Amounts are natural numbers because the code computes in whole paise.

### Receivables: state and actions

`invoice[i]` is the `Invoice` row (`total` is `grandTotal`, `paid` is `amountPaid`; `out`
counts how often its goods have left less how often they came back), `payment[p]`
a `PaymentRecord` with the action of its last `ChequeEvent`, `credit[n]` a CREDIT_NOTE
as the invoice handlers see it: posted (`live`) or not.

| handler | steps |
| --- | --- |
| `InvoicesService.create` | `CreateInvoice` |
| `update` | `BeginEditInvoice`, `CheckEditInvoice`, `CommitEditInvoice` |
| `cancel`, `remove` (`reverseInvoice`) | `BeginReverse`, `CheckReverse`, `CommitReverse` |
| `recordPayment` | `BeginRecord`, `CheckRecord`, `CommitRecord` |
| `updatePayment`, `deletePayment` (`lockPayment`) | `BeginOnPayment`, `CheckUpdatePayment` / `CheckDeletePayment`, `Commit...` |
| `FinanceService.cheque` | `BeginCheque`, `CheckCheque`, `CommitCheque` |
| credit notes in `DocumentsService` | `PostCredit`, `CancelCredit` |
| `withCreditBalance`, group summary | `Due`, `SummarisedReceivable` |

Abstractions: a credit note is posted, changed or cancelled in one step. Its handlers
hold the lock of the invoice from `validateReturn` to their commit, so no handler of
the invoice can come between; the same code is modelled step by step for debit
notes in `Payables`. `create` is one step because no other request can reach the new
row before its commit. A repeated `requestId` of create, update or cheque answers
with what is stored and writes nothing: `Rollback`. Goods are one unit per
invoice. Credit limit and account checks only refuse. Two bank accounts are enough to see a
cheque move from one to another.

`InvoiceBook` keeps `book[i]` with phase, total, paid and credited; `AsBook` of `Receivables` is
the mapping. `Statements` extends `Receivables` and adds the five queries.

### Papers and customers

| module | handlers | actions |
| --- | --- | --- |
| `CreditLimit` | `invoices.create`, `update`; payments, credit notes, cancel; party edit | `Create`, `CreateInBranch` or `Update`, `Weigh`, `Commit`; `Settle`, `Unsettle`, `Cancel`; `SetLimit` |
| `DocumentFlow` | `create`, `update`, `updateStatus`, `convertTo...`, `reverseConversion`, `remove` of documents; cancel and remove of the invoice made | `Create`, `Update`, `UpdateStatus`, `Convert`, `ConvertToInvoice`, `ReverseDocument`, `ReverseInvoice`, `Remove`, `CloseInvoice`, then `Commit` |
| `PurchaseOrders` | the service's handlers, `addAttachments` of bills | `Create`, `ConvertToBill`, `UpdateStatus`, `Update`, `Remove`, `AddAttachments`, `RemoveAttachment`, then `Commit` |
| `Numbering` | the number of each new paper, typed numbers, edits of number and date, removal, `generatePartyCode` | `Automatic`, `ByHand`, `Renumber`, `Redate`, `Remove`, `Offer`, `Insert`, `TryAgain` |
| `Contacts` | `update`, `remove` of parties and suppliers; a paper about them | `Update`, `WriteParty`, `WriteSupplier`; `Remove`, `CountLinked`, `MarkDeleted`; `Write`, `CommitPaper`, `RemoveCost` |

A document in `DocumentFlow` has one line of one item, and its bills and notes are in
`Payables` and `Receivables`. In `CreditLimit` what settles an invoice is one amount, and the
opening balance is part of the limit. Numbers are pairs of year and sequence; `Word` is a typed number
that sorts after all padded ones.

### Money, stock, production

| module | handlers | actions |
| --- | --- | --- |
| `CashBook` | `transfer`, `adjustCash`, `income`, loans, `payLoan`, `convertToLoanPayment`, `updateEntry`, `removeEntry`, expense | one `Check` step for each with the branch locked, `Commit`; `CreateExpense` |
| `Accounting` | `saveAccount`, `removeAccount`, categories, payments and entries booked on accounts | a step that locks and decides, `Commit`; `Unbook`, `CancelExpense`, `CreateCategory` |
| `StockLedger` | `adjustStock`, operate, post and reverse a paper, items, godowns | `StockIn`, `StockOut`, `StockTransfer`, `Post`, `Reverse`, `CreateItem`, `UpdateItem`, `RemoveItem`, `CreateWarehouse`, `RemoveWarehouse`, and the commits |
| `Production` | the service's handlers | `Create`; a read and `Commit` of `updateStage`, costs, `recordPayment`, `updateStatus`, `confirm`, `updateMaster`; `RemoveOrder`, `RemoveCost` |
| `ProductionSummary` | `calculateProductionSummary` over an order as it grows | `AddStage`, `RecordWork`, `AddCost` |

### People and places

| module | handlers | actions |
| --- | --- | --- |
| `AuthSessions` | `login`, `verifyMfa`, `refresh`, `logout`, MFA set up / enable / disable, `changePassword`, forgotten password | stages of each, as the code awaits between reading, hashing and writing; `Expire`, `Unlock`, `Stop` |
| `Team` | `create`, `setActive`, `remove` of a member | `TeamMember` reads, `SetActive`, `Remove`, `RemoveCommit` write; `Login` |
| `BranchTree` | `create`, `update`, `remove`, the guard, any record | reading step and `...Commit`; `CanActivate`, `Record` |
| `Companies` | workspace branches and companies: `create`, `update`, `archive`, `remove`; `getLogicalBranchIds`; branches made, renamed, switched and removed | reading step and `...Commit`; `SetBranch`, `RenameBranch`; `LogicalBranches` |
| `Preferences` | `getPreferences`, `updatePreferences` | `Read`, `Write` over a column that may hold anything |

In `Companies` any branch may be switched off or removed; that one of a company stays active is
checked without a lock, and that check is in `BranchTree`. `BranchTree!Record` stands for every handler that writes a paper of a branch:
the foreign key is what keeps the branch, whichever it is.

### Inside the server

| module | handlers | actions |
| --- | --- | --- |
| `BillingLocks` | every handler that locks rows, as the groups of rows it locks in order (`Plans`) | `Submit`, `Begin`, `Lock`, `AskPool`, `Commit`, `Refuse`, `TimeOut`, `PoolTimeOut`, `BreakDeadlock`, `Retry` |
| `InvoiceDelivery` | `deliver`, `sendWhatsApp`, the automatic delivery after `invoices.create`, `cancel` | `Create`, `Deliver`, `Read`, `Open`, `Upload`, `Send`, `MarkSent`, `Audit`, `MarkFailed`, `AuditFailure`, `Finish`; faults `Rejected`, a lost answer of `Send`, `WriteFails`, `PrintFails`, `GiveUp` (the catch block throws), `Stop` |
| `PdfBrowser` | `getBrowser`, `render`, `onModuleDestroy`, `resolvePdfBrowserExecutable` | `Render`, `Launched`, `LaunchFails`, `Crash`, `Disconnected`, `OpenPage`, `ClosePage`, `Install`, `Stop`, `Close`, `Forget` |

The 17 handlers of `BillingLocks`, and what each locks after another (`;`):

| handler | rows |
| --- | --- |
| `branchOnly` | branch (bank accounts, expenses, loans, transfers, numbers, orders) |
| `payReceipt` (Payment-Out `create`) | branch; a query through the pool; accounts; open bills |
| `voidReceipt` (`void`, `remove`) | bills |
| `restoreReceipt` | bills; accounts |
| `createInvoice` | branch; party with a limit; items |
| `updateInvoice` | branch; invoice; pool; old and new party; old items; new items |
| `receivePayment` (three handlers) | invoice; account |
| `reverseInvoice` (`cancel`, `remove`) | invoice; items |
| `removeAccount` | branch; account |
| `createDocument` | branch; source of a return; items |
| `updateDocument` | branch; document; pool; old items; source of a note; new items |
| `updateStatus` | document; source of a note; items; pool |
| `convertDocument` (three handlers) | branch; document; pool; party; items |
| `reverseConversion` | branch; document; then invoice and items, or the document made |
| `convertOrder` | branch; pool; items |
| `moveStock` | branch; items out; items in |
| `editItem` | item; the item again |

What an `UPDATE` or an `INSERT` locks by itself (the written row, the parents of its
foreign keys) is not part of the plans: they cover the explicit locks, the order of which the code
decides. Which rows a foreign key locks depends on the schema and on the plan of the database.

### Computations

`BillingMath`, `AmountWords` and `Totp` translate the functions as operators; their states are inputs
built step by step (a line is added, a byte drawn, a second passes), so that TLC enumerates them.
JavaScript's 32-bit shifts in `totp.util.ts` are modelled as what they keep; amounts past TLC's
integers are split into crores and the rest.

## 3. What TLC checks

A suite is a module with one variable `part` that says which instance the behaviour is of. `Init` is
the disjunction of the instances' initial states, `Next` that of their steps, and each property speaks of
the parts it belongs to. The variables of an instance are substituted by the suite's `a`, `b`, ...; those it
does not have stay `Off`. Parts never meet: a suite checks several instances in one run and
composes nothing. Where components do meet in the code, one module holds both sides
(invoices with credit notes and cheques, bills with receipts and notes, statements over
receivables, creation of an invoice with its delivery, handlers with the locks of others).

| run | question | bounds |
| --- | --- | --- |
| `payables_receipts` | do requests that pay, void, restore, remove and edit keep paidAmount right, and paid bills as they are? | 2 requests, 2 bills, 2 receipts, 2 requestIds, 1 debit note, amounts 0..1; a behaviour pays two bills (no note, no deletion, no cancellation) or works on the papers of one bill without paying (`ReceiptsApart`) |
| `payables_returns` | can returns and payments together exceed a bill, or a return lose it? | 2 requests, 1 bill, 1 receipt, 2 notes; a behaviour has one note with amounts 0..2 beside payments and changes of status, or two notes with amounts 0..1 beside edits of the bill (`ReturnsApart`) |
| `payables_gap` | is every paid bill locked? No: finding 1 | 2 requests, 2 bills, 2 receipts |
| `payables_delete` | is a deleted bill always closed? No: finding 2 | 2 requests, 1 bill |
| `receivables_sales` | do amountPaid, status and goods follow what is recorded, does every handler look like one step on the balance, do all statements agree? | 2 requests, 1 invoice, 2 payments, 2 notes, 1 requestId, amounts 0..2; a behaviour is of one of the five kinds that `SalesApart` lists: two payments with requestIds; one payment and one note beside edits, cancelling and removal; two notes beside edits and a payment; a cheque between 2 accounts; all of it on amounts 0..1 |
| `receivables_history` | is a deposited cheque left alone? No: finding 3 | 2 requests, 1 cheque |
| `receivables_summary` | does the group summary show all that is due? No: finding 4 | 1 invoice, 1 note, 1 payment, amounts 0..2 |
| `sessions` | do logins stay bounded, tokens single, and do changes sign out? | 2 requests, 3 sessions with a limit of 2, 2 failures to a lock, 2 pairs of tokens, 1 change of password, 1 recovery code; a behaviour works with three sessions of a user that stays as it is, with two sessions of a user whose password, recovery code and second factor change, or with three sessions while only the second factor changes (`DevicesOrAccount`): two sessions may be live when the password is changed or reset, and when the second factor is turned on or off |
| `papers` | do limits, conversions, goods, numbers, orders, contacts and printed totals stay right? | limits: 2 requests, 2 branches, 2 invoices, 1 or 2 customers; conversions: 2 requests, 3 documents and an invoice; goods: 1 request, 2 documents, 2 invoices; numbers: 3 rows, 2 years; orders: 2 requests, 2 orders, 2 bills; contacts: 2 requests, 2 papers; totals: papers of up to 2 lines; words: amounts on both sides of every unit |
| `goods` | do money, stock and pieces add up? | 2 requests, 2 requestIds, 1 loan; 3 accounts; 3 categories, 2 expenses; 1 item in 2 godowns, quantities up to 2; 3 stages, 1 cost up to 3; figures of 4000 pieces in 2 stages and a cost, one piece of which is less than a tenth of a percent |
| `people` | do memberships, branches, companies, preferences and one-time codes keep their promises? | 2 requests; 3 companies of a member; 4 branches; 4 companies in 2 workspace branches; 3 preference fields; secrets of up to 5 bytes, clocks off by a period |
| `services` | which requests can wait in a circle, is every request answered, every attempt settled, every paper printed? | 2 requests of receipts with 2 rows of each kind and 3 of invoices, on 2 connections with 3 attempts; 2 requests of any of the 17 handlers with 1 row of each kind; 2 that undo and cancel with 2 rows of each kind; 2 deliveries on 2 channels; 2 papers, 3 browsers, 2 crashes |

Why the bounds are enough. Two requests: each property relates one handler's stale read to one other
handler's commit, and a third adds no kind of step; `services` has three, because a
pool of two can be short only then, and nearly all safety properties are proved without the bound (section 5). Amount 1 tells "paid" from "not paid"; 2 tells a part from the whole. Three documents are the
shortest chain with a middle, three sessions exceed the limit of two, four branches allow a cycle
beside the main one. The constraints `ReceiptsApart`, `ReturnsApart`, `SalesApart` and `DevicesOrAccount` keep kinds of
behaviours apart that would together not finish; each run covers every handler in one of them,
and the theorems hold for all handlers together. A stage pipeline needs a stage before, one after and the final inspection.

Model values that several parts use (`x1`, `x2`, ...) are interchangeable in all of them: no
instance names one of a symmetric set alone, and none is
compared by `CHOOSE` in a way the properties see. `services` uses no symmetry, because it checks
liveness. Every property of a passing run has a mutant: a plausible
bug of a mapped definition (`Faulty...`) under which TLC finds it violated.

Deadlock is checked in the runs of payables, receivables and sessions and in `people`: there a request can
always roll back, log in or read again. `papers`, `goods` and `services` have parts that
really end, when all documents, numbers, requests or inputs are used up, and say `CHECK_DEADLOCK FALSE`.

### Abstract specifications

* `InvoiceBook` (`ImplementsBook` in `receivables_sales`): every interleaving of the
  handlers of an invoice is a sequence of atomic receipts, refunds, credits and closings.
* `SessionChain` (`ChainSpec` in `sessions`): whichever requests race for a refresh token, each pair of
  tokens is exchanged at most once and a closed session gives none.

## 4. Findings

1. `payables_gap`: `create()` (payment-out.service.ts:178-179) lists the open
   bills, locks them, and lists them again. The second list may hold a bill the
   first did not: voiding or removing its receipt, cancelling its debit note or
   issuing it takes no branch lock. That bill is paid without a lock; a concurrent
   `restore` of another receipt, which did lock it, has checked the same balance,
   and the bill ends paid twice. In the model: bill 2 is fully paid by a receipt; q1
   lists bill 1 only and locks it; q2 voids the receipt; q1 reads again, plans to
   pay bill 2; q2 restores the receipt; q1 commits. Paying only the bills it
   locked would close the gap.
2. `payables_delete`: `documents.remove` (lines 656-660) checks the status of a
   document without a lock. A draft bill issued meanwhile is deleted as
   ISSUED, with its stock still booked.

3. `receivables_history`: `lockPayment` counts a cheque's deposit events under the invoice's
   lock, `cheque()` writes them under the branch's lock. A deposit that commits
   after the count and before the update is overlooked: the payment of a deposited
   cheque becomes a cash payment or loses the account it was deposited into, what
   the message of invoices.service.ts:483 refuses. Locking the invoice in `cheque()` would close it.
4. `receivables_summary`: the group summary selects invoices by stored status. An invoice
   of 2 with a credit note of 1 and a payment of 1 is stored as PAID; cancelling the
   note makes 1 due again and the status stays. `withCreditBalance` recomputes the
   status for the invoice list, the summary (group-summary.service.ts:49) does not.

Deadlocks are no finding: the comment "Lock in a fixed order" (payment-out.service.ts) is about the rows of one
group, and three handlers lock groups against the order of the others: `restore()` of a receipt bills before accounts
(lines 240 and 283 against 175 and 178), `update()` of an invoice (invoices.service.ts:262) and of a
document (documents.service.ts:209) old items before new ones, the document also items before its source (line 210), where
`cancel()` has the source first. `LockedInOneOrder` says that every circle of waiting requests has one of these three in it, and
`RequestsEnd` that the database and the retries resolve it.

`unguarded` marks exactly the bills of finding 1, so that everything else is
checked and proved about all other bills, not given up.

### Promises that hold only within the bounds of the suites

The suites check these properties with the operations or the number of requests under which the code
keeps them. TLC finds each violated when the instance is widened as the third column says
(add the property, guarded by its part, to the suite's `.cfg`).

| property | where the code lets it go | instance that shows it |
| --- | --- | --- |
| `DocumentFlow!DeletedWereNotInForce` | documents.service.ts:660, the status is read without a lock; see finding 2 | `Goods` with 2 requests |
| `PurchaseOrders!ConvertedStayReceived`, `ClosedStayClosed` | purchase-orders.service.ts:121, a status validated against an unlocked read | `Attaching` with 2 requests |
| `PurchaseOrders!FilesWithinLimit` | purchase-orders.service.ts:164, files are counted before the insert | `Attaching` with 2 requests |
| `Numbering!NextNumberIsFree` | purchase-orders.service.ts:46 with a typed number without digits; invoices.service.ts:155 with a typed number; documents.service.ts:114 with a date moved to another year | `Series` with those registers in `Typed` or `Redated` |
| `CreditLimit!SalesWithinLimit` | invoices.service.ts:136, a sale that begins before the limit is first set locks nobody | `Debtors` with `Limits` from 0 |
| `Contacts!LinkedContactsRetained` | parties.service.ts:234, papers are counted without a lock | `People` |
| `CashBook!CashNeverNegative` | accounting.service.ts:68, an expense does not ask `ensureCash` | `Spending` |
| `StockLedger!LinkedItemsRetained` | items.service.ts:166, lines are counted without a lock | `Shelf` with 2 requests |
| `Production!PiecesAccounted` | production.service.ts:185, the stage is read before the transaction | `Stages` with 2 operators |
| `Production!CompletedStagesAccounted` | production.service.ts:245, more pieces reach a completed stage | `Stages` |
| `Production!QuantityFixed` | production.service.ts:367, DRAFT may be set on a confirmed order | `Masters` with DRAFT in `Asked` |
| `Production!PaymentsFitCost` | production.service.ts:336, the outstanding cost is an unlocked read | `Costing` |
| `Production!FabricPricedOnce` | production.service.ts:191, each looks for the other's price without a lock | `Costing` with stage 2 priced |
| `Team!RemovalSignsOut` | users.service.ts:122, two removals each count the other's membership | `Members` with 2 administrators |
| `BranchTree!NoCycle`, `SomeActive` | branches.service.ts:111 and 124, the walk and the count run before the write | `Tree` with 2 administrators |
| `Companies!SameCodeShared`, `UnnamedGstinKept` | workspace-scope.util.ts:39 takes every active branch; businesses.service.ts:129 writes the GSTIN it read | `Outlets`; `Taxpayers` |
| `InvoiceDelivery!CancelledIsNotSent`, `FailedWasNotSent` | invoice-delivery.service.ts:27 looks at the status once; line 76, a lost answer or a failed write marks FAILED what went out | `Settled` |

Some things no property claims, because the code plainly does not keep them:

* Failed logins are counted from a user read before the password was hashed (auth.service.ts:107-115). Two
  failures at once count once, and a failure that read an old counter writes `lockedUntil: null` and so
  clears a lock that was taken meanwhile. `LoginsAreBounded` says of the lock only that it comes with enough
  failures, not that it stays.
* A login that has verified the old password (line 104) opens its session after the password was changed and
  the sessions were closed; nothing looks at the password again. `ChangesSignOut` is about the sessions that are open
  at the change.
* Two overlapping saves of preferences (businesses.service.ts:153-158): the later one writes the sections it did
  not send as it had read them, and what the other saved is lost. `SavesKeepTheRest` speaks of saves that are not overtaken.
* The limit of a customer is looked at before it is decided whether to lock the customer (invoices.service.ts:136); so
  two sales that began before the limit was first set may pass it together. `CustomersWithinRules` has limits that are set beforehand.
* Cash in hand (accounting.service.ts:68): an expense or a cash Payment-Out does not ask `ensureCash`. `CashAddsUp` bounds the
  cash of the handlers that ask.
* Production stages, and the two prices of the fabric (production.service.ts:185 and 191), are read before the transaction that
  writes them; the run has one operator for each.
* Two requests that set the status of one order, or attach files to it (purchase-orders.service.ts:121 and 164): the run has one.
* A delivery whose catch block throws (invoice-delivery.service.ts:76-87: the mark FAILED or its audit row cannot be
  written) ends the request, and the remaining channels are never tried. `Failing` has this fault, `Settled`
  and with it `DeliveriesSettle` has not.
* Progress of an order is rounded to tenths of a percent (production-summary.util.ts:53), so that it may be shown as 100 while a
  stage is open. `ProgressIsAShare` says how little may be missing then: one part in 2000 of the work of all stages.

## 5. What is proved

A theorem holds for any numbers of requests, rows, keys and amounts that satisfy the module's
assumption (`PayablesAssumption`, `CashBookAssumption`, `LocksAssumption`, ...: the ids of rows and
requests are different things, amounts and limits are natural numbers, the sets that are summed or counted are
finite). The argument is `Init => IInv`, `IInv /\ [Next]_vars => IInv'`, `IInv => ` the
property; `IInv` ends the component's module. `AmountsProofs` has the lemmas about sums of a set
of rows: a sum changes by what one row changes, is at least each part, a sum of two amounts is the sum of
the sums.

| module | theorem | what holds | under |
| --- | --- | --- | --- |
| `PayablesProofs` | `Invariance`, `TypeCorrect` | the inductive invariant, the types | |
| | `PaidAmountIsSumOfPayments` | paidAmount is the sum of the live rows | |
| | `LockedBillsAreNotOverpaid`, `PaymentsFitTheBalance` | a payer that locked the bill pays at most what payments and posted returns leave | |
| | `RequestsAreIdempotent` | one receipt per requestId | |
| | `ClosedBillsAreUnpaid`, `PaidBillsAreFrozen` | only a posted bill carries money, and then keeps total and status through every step | |
| | `PostedReturnsStand` | posted returns stay within their bill, which stays posted | |
| `ReceivablesProofs` | `Invariance`, `TypeCorrect` | the inductive invariant, the types | |
| | `ReceivedMoneyAddsUp`, `InvoicesAreNotOverdrawn` | amountPaid is the sum of the payments, within the total, and the status says so; one payment per requestId | |
| | `InvoicesAreWhole` | a closed invoice is empty, goods are out exactly while it is issued | |
| | `StatementsAreOne` | the five statements of `Statements` show one balance | |
| | `DepositsStayAlternating` | a deposited cheque changes account only through a re-opening | `EditsKeepAccounts`: edits of payments name no account |
| | `HandlersImplementBook` | `Receivables` implements `InvoiceBook` | |
| `GoodsProofs`: cash | `Invariance`, `TypeCorrect` | the inductive invariant, the types | |
| | `TransfersStayWhole`, `RequestsMoveCashOnce` | both legs of a transfer or none; a requestId is an adjustment or a repayment, not both | |
| | `LoansAreNotOverpaid`, `RepaymentsArePosted` | repayments stay within the principal, each is one entry | |
| | `CashSufficesForAll` | cash in hand is never negative | `"expense" \notin Ops` |
| | `ConversionsKeepCash` | turning an adjustment into a repayment leaves the cash as it was | |
| stock | `StockInvariance`, `QuantitiesAreTyped` | the inductive invariant, the types | |
| | `MovementsAddUp` | the total and every godown's part are what the movements add up to | |
| | `StockIsNotOversold` | no godown and no unallocated rest is below zero | no `AllowNegative` |
| | `UsedGodownsAreRetained` | a removed godown was never used by a movement or a paper | |
| accounts | `AccountInvariance`, `AccountsAreTyped` | the inductive invariant, the types | |
| | `RemovedAccountsStayEmpty` | what is booked is booked on a registered account | |
| | `OneAccountIsPrimary` | a branch with accounts has one primary | |
| | `ExpensesStayFiled` | an expense that stands has its category | |
| `ServicesProofs`: locks | `Invariance`, `TypeCorrect` | the inductive invariant, the types | |
| | `LocksAreReleased` | a transaction that ended, however it ended, leaves nothing locked | |
| | `VictimsAreRetried` | only a deadlock's victim is started again, as often as allowed and no less | |
| | `DeadlocksNeedAnException` | a circle of waiting requests has one of the three exceptional handlers in it | |
| delivery | `DeliveryInvariance`, `DeliveriesAreTyped` | the inductive invariant, the types | |
| | `SentMessagesWereAccepted` | what is on record as SENT was accepted by a provider | |
| | `MessagesGoOutOnce` | an attempt sends one message at most, and an invoice one automatic message a channel | |
| documents | `FlowInvariance`, `PapersAreTyped` | the inductive invariant, the types | |
| | `SourceIsConvertedOnce` | one paper per source stands, and the source is CONVERTED meanwhile | `~Linked`: clients of `create()` name no source |
| | `ConversionsUndoneFromTheEnd` | no paper in force was made from a deleted one | `LinksLast` |
| | `GoodsLeaveByPapers` | the units that left are those of the challans and invoices that stand | `RemovesAlone` |
| `OfficeProofs` | `Invariance`, `TypeCorrect` | the inductive invariant of sessions, the types | |
| | `LoginsStayBounded` | no more live sessions than the limit among those a login has made room for; a lock has its failures | |
| | `SignOuts` | a change of password or second factor closes every session in the same step | |
| | `ChainsAreImplemented` | `AuthSessions` implements `SessionChain` | |
| | `RemovalsSignOut` | the removal from the last company signs a member out | one administrator |
| | `TreeInvariance` | a branch with papers is not removed | |
| | `OneAdministrator` | no cycle of parents, one branch active | one administrator |
| | `FirmsInvariance` | one company per GSTIN, workspace branches exist | |
| | `SavesAreKept` | a save keeps the rest unless overtaken, valid values are read | |
| | `PeopleInvariance` | papers about a removed contact come from requests that crossed the removal | |
| | `NumbersStayFree` | the next number is free | `Typed \subseteq {"code"}`, no document is redated |
| | `BuyingInvariance` | a bill is the bill of one order, which exists with its lines | |

A blank last column: nothing but the module's assumption on its constants. `SuiteProofs` (`CashStaysInOrder`, `StockStaysExplained`, `AccountsStayKept`,
`ConversionsExact`, `MessagesSentOnce`) and `OfficeSuiteProofs` (`RemovalsSignOut`, `BranchesStayTogether`, `MastersStayIsolated`, `SavesAreKept`,
`OnlyCrossingPapers`, `NumbersStayFree`, `OrdersStayKept`) prove the very properties that the suites check, for the suites'
instances, whose sets of requests, rows and amounts stay arbitrary where the suite does not fix them. In each part the suite's step is a step of one instance
(`...Steps`) with the other variables idle (`Same...`), so that the instance's invariant is kept (`...Keeps`). `OrdersStayKept` and `StockStaysExplained` carry the
bounds of their parts with them: one request in the parts `files` and `shelf`, as in section 4.

The assumptions of payables, receivables, sessions and `RowLocks` are `ASSUME`s. Those of the other components are operators, because the suites
instantiate a component more than once with different constants: the theorems name them, and the MC modules have TLC evaluate them for each
instance. That includes `PreferencesAssumption`, which says that the defaults of the table of fields are valid values.

Three things are not stated as theorems although they hold while requests run one at a time, for it is
their being alone that makes them hold: that a converted order stays received and its files within the limit
(purchase-orders.service.ts:121, 164), that an item named on papers is not removed (items.service.ts:166), and that a
deleted paper was not in force (documents.service.ts:660). Section 4 has the races.

Why the invariants are needed.

Payables. No invariant of the runs is inductive by itself. When a void commits, `paid`
stays the sum of the rows only because the receipt is still live and still has
the rows the request read. `IInv` therefore says for every request in
mid-transaction which rows it has secured and what it may still rely on: a
request on a receipt has, or will have before it reads, the locks of all the receipt's bills
(`ReceiptJob`), so two of them exclude each other as every receipt has at
least one bill (`ReceiptsHaveRows`); a create holds the branch, so its
requestId stays unused (`PayJob`); a bill whose total or status is about to change is
locked, unpaid and without posted returns (`BillJob`); a note about to be posted, or moved to
another bill, still fits that bill when it commits, because every other poster of a note waits for the same
bill (`SaveNoteJob`, `NoteStatusJob`). A create may pay bills it did not lock (finding 1);
`DraftsUnpaid` keeps even those issued.

Receivables. The lock of the invoice alone protects: `IInv` says that a checked handler has
computed its paid amount, status and goods from the row as it still is (`EditJob`,
`ReverseJob`, `RecordJob`, `PaymentJob`). The handler of a cheque holds the branch instead, and
the proof that it disturbs no invoice is that it writes methods and accounts of payments only
(`ChequeJob`). For the refinement, each commit is shown to be one action of `InvoiceBook` on the
values before and after, each other step to leave the mapped book unchanged.

Sessions. There are no locks; a request relies on rows that change in one direction only: an
opened session stays opened, a revoked one revoked, an expired one expired. A login that
makes room revokes the sessions it found in excess, and those it left are at most the limit among
those it saw (`TrimJob`); sessions opened later it has not seen, and their own logins make
room. `settled` collects what such logins have seen. The sets seen by logins are ordered by inclusion
(`LooksAreOrdered`), so that the bound carries over from the last look to all of them. That the
excess is all but the limit needs that `newer` is a linear order of the opened sessions
(`UseIsAnOrder`) and a lemma that finds the oldest of finitely many sessions. The chain of tokens is
protected by the conditional write of `rotate` only (`RefreshJob`, `ChainsHold`).

Cash book. Every handler reads, checks and then writes, so that what it checked must still be so
at its commit. It is, because the handler holds the branch (`CheckedJob`): two requests are never
both between check and commit, and an expense waits for the branch as well. `IInv` says of the
tables *as the request will leave them* that they are in order (`InOrder`). Order includes what
the properties do not say: a posted entry has a place and an amount above zero, an adjustment is in
cash (`EntriesHaveMoney`), without which a converted adjustment could be a repayment of nothing, or from
a bank. `ConversionFits` compares the cash of the tables before and after. An expense asks nobody for
cash, and `CashSuffices` is then given up: that `CashNeverNegative` needs the condition is in section 4.

Stock. Who has planned movements of an item holds the item's row, so that the quantities it writes to are
those it has read (`MovesJob`); the total and the parts are incremented in rows of their own, and stay
explained because the movements of one handler are into or out of one place, or as much out of one as into another
(`IsMoves`). A removal of an item or a godown checks without a lock, so that its check may be stale when it deletes. For a
godown the database looks again (movements restrict the delete: `used`), and a godown without `used` holds
nothing (`UseIsRecorded`, `UsedGodownsExist`), so that no quantity is lost with it. Items are only marked as
deleted and nothing looks again:
`LinkedItemsRetained` is not part of the invariant, and section 4 says how two requests break it.

Locks. All handlers but three lock kinds of rows in one order: branch, paper, note, invoice, account, bill, party, item, and within
a kind the least id first (`Level`, `Below`). Two papers (a conversion's undo) have no order between them; they are
locked only with the branch, and the proof is that whoever waits for the second paper holds its branch, and nobody else who holds a paper and waits for
another row of the order below can be in the circle: without the branch a request locks one paper at most (`LonePaper`).
`IInv` says that what a request holds and what it will lock lies in this order (`InOrder`), and that a row named twice (`transfer` of
stock, an item that is edited) is held when its turn comes again. In a circle of orderly requests each waits for a row above all it
holds, and of finitely many such rows one is the last. `restoreReceipt`, `updateInvoice` and `updateDocument` are not `Orderly`, and a circle that one of them is
part of may exist; what becomes of it is `RequestsEnd`.

Documents. `IInv` says of each of the eight writes what it will write and that the rows it was computed from are locked
(`EditJob`, `ConvertJob`, ...): every writer of a source's status locks the source, and every maker of papers holds the branch. `remove()` alone
relies on a row it has not locked, so that what `IInv` says of deleted papers carries the condition `RemovesAlone` (no document is removed while
another request is under way) or `LinksLast` (nor do clients link documents to one that goes away). That a source gives one paper needs neither, only
that no client of `create()` names a source itself.

Accounts. There are two locks: what books on an account locks the branch or the account, and a removal has
both, so that the payments it counts are all there will be.

Deposits. `ChequesKept` says of a request on a cheque that its branch lock has kept the cheque's action and account as it read
them. An edit of the payment that names an account changes both under another lock: without `EditsKeepAccounts` finding 3 refutes it.

Offices. Branches, companies, contacts and preferences have no locks. What survives is what the database checks in the write itself
(foreign keys of papers, the unique GSTIN, the unique number) or what a request took into the write (`Write` of preferences,
whose overtaking `SavesAreKept` excepts). The rest is true of one administrator only, and said so.

Delivery. Nothing is locked and nothing is written together with what it goes with. That an attempt sends once
rests on its row being the request's own (`AttemptsApart`) and on the message following the row, never
the other way (`AttemptJob`, `MessagesAreOnRecord`). That an automatic delivery happens once rests on the
create: only the request that made the invoice delivers it automatically, it serves each channel at most
once, and what it has still to serve had no automatic message (`AutomaticJob`). The steps are of six kinds and
the proof has a lemma for each. Nothing stronger holds: section 4 lists what a lost answer and a cancelling do.

Model-checked only: production (`ProductionAddsUp`), the credit limit (`CustomersWithinRules`), goods along a chain (`GoodsLeaveOnce`), the circles of
the suite's own instances (`LockedInOneOrder`, whose theorem is about `BillingLocks` itself), and all liveness
(`RequestsEnd`, `DeliveriesSettle`, `PapersArePrinted`), which the proof system does not reach. Nor does it reach what
a fold or a recursive definition computes for every input: `BillingMath`, `AmountWords`, `ProductionSummary` and `Totp` are checked over
bounded inputs.

## 6. Fairness and liveness

Only `services` claims liveness, under weak fairness of:

* `BillingLocks!Progress(q)`: the server and the database go on with a request they can go on
  with (begin on a free connection, take a free lock, commit, give up waiting for the pool, repeat a victim).
  Nobody is assumed to send a request, no check to fail, and no lock wait to last its 30 seconds, so
  `RequestsEnd` does not lean on the timeout of locks but on the database's
  breaking of deadlocks (fair, as InnoDB detects them at once) and on Prisma's
  `maxWait` and pool timeouts, which always end. The bound of three attempts
  is what ends a series of deadlocks: the mutant without it livelocks.
* `InvoiceDelivery!Work(q)`: a running server goes on with each delivery, and providers answer or
  are known to have failed (`fetch` and the mail client return or throw). Faults are not fair. With a server that stops, an attempt may stay PENDING for ever: no
  code resumes it, and `DeliveriesSettle` is not claimed for that part.
* `PdfBrowser`: launches and pages end (Puppeteer's timeouts), a disconnect is noticed, whoever got an
  error asks again, an administrator installs a missing browser. Crashes are bounded by
  `MaxCrashes`: with a browser that always crashes no paper is printed.

`RequestsEnd`, `DeliveriesSettle` and `PapersArePrinted` are stated as "from some moment on, nothing is
open": a request arrives once, an attempt is opened once and a printed paper is done, so this says that each is
answered, settled and printed.

## 7. Coverage

`map` in PROJECT.json names for each definition the lines it models: about a third of the server's
implementation. What is left is in section 8. Which actions fire was also checked part by part: every action
of every module is taken in some part of some suite.

## 8. Not modelled, and the plan

* The HTTP layer, DTO validation and guards: what they let through is what the models take as arguments.
* PDF layout and labels: text and coordinates, without state or a property to state.
* Encryption (read back unchanged), audit rows (read by no later step; their failure matters in deliveries and there it is modelled).
* List queries, reports other than the statements, exports: read-only, without arithmetic of their own.
* Import of opening stock, images, e-way bills and transport fields: one write, nothing depends on it.
* Registration, cookies, the upgrade of old password hashes.
* The allocation of a receipt over its sources (`fundAllocations`), beyond what `Payables` allows.
* The requestId of `invoices.update` (line 235), see the hazards.

Not proved, and what it would take:

1. `CreditLimit`: the sum of a customer's invoices over branches is bounded under the customer's lock; needs the lemmas of `AmountsProofs` for a
   sum whose parts are taken from two tables.
2. `Production`: pieces of a pipeline as a sum over stages, for one operator.
3. `GoodsLeaveOnce` for a chain of any length, beyond the units that `GoodsLeaveByPapers` counts.
