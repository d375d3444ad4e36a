----------------------------- MODULE Accounting -----------------------------
(***************************************************************************)
(* The bank accounts of one branch with the payments and expenses booked   *)
(* on them, and the expense categories (accounting.service.ts).            *)
(*                                                                         *)
(* Who books on an account locks either the account (payments received,    *)
(* corrected and restored) or the branch (expenses, finance entries, the   *)
(* history of cheques, an invoice's first payment); removeAccount() locks  *)
(* both.  A Check step takes the locks and decides, Commit writes,         *)
(* Rollback aborts.                                                        *)
(* Abstracted: the details of an account, amounts, and the replay of an    *)
(* expense's requestId, which writes nothing.                              *)
(***************************************************************************)
EXTENDS FiniteSets, RowLocks

CONSTANTS
  Branch,     \* the branch row
  Accounts,   \* bank accounts, registered or not
  Payments,   \* PaymentRecord, PurchasePayment, FinanceEntry and ChequeEvent rows
  Expenses,
  Names,      \* category names, told apart as the database collation does
  Ops         \* the handlers the clients call

\* Assumed of the constants.
AccountingAssumption ==
  Branch \notin Accounts /\ NoOne \notin Accounts \cup Names \cup Payments \cup Expenses

VARIABLES
  account,    \* account[a]: registered or removed, primary
  payment,    \* payment[p]: does it exist, on which account
  expense,    \* expense[e]: its status, account and category name
  category    \* the names in the branch's list (unique index)

data == <<account, payment, expense, category>>
vars == <<lock, pc, job, account, payment, expense, category>>

Rows == {Branch} \cup Accounts
Nothing == [x \in {} |-> NoOne]
NoJob == [account |-> Nothing, payment |-> Nothing, expense |-> Nothing,
          refile |-> Nothing, drop |-> {}, add |-> {}, fresh |-> FALSE]

One(x, value) == [y \in {x} |-> value]
Written(table, rows) ==
  [x \in DOMAIN table |-> IF x \in DOMAIN rows THEN rows[x] ELSE table[x]]

LiveAccounts == {a \in Accounts : account[a].state = "live"}
Usable(a) == a \in LiveAccounts \cup {NoOne}

\* What keeps an account: payments, entries, cheques that were deposited on it or taken
\* back, and expenses, cancelled ones too.
Linked(a) ==
  \/ \E p \in Payments : payment[p].live /\ payment[p].account = a
  \/ \E e \in Expenses : expense[e].status # "none" /\ expense[e].account = a

Filed(n) == {e \in Expenses : expense[e].status # "none" /\ expense[e].category = n}
Refiled(n, m) == [e \in Filed(n) |-> m]

-----------------------------------------------------------------------------
(* The steps every handler shares                                           *)

Check(q, op, rows, changes) ==
  /\ op \in Ops /\ pc[q] = "idle" /\ \A row \in rows : CanLock(row)
  /\ lock' = [row \in Rows |-> IF row \in rows THEN q ELSE lock[row]]
  /\ pc' = [pc EXCEPT ![q] = "checked"]
  /\ job' = [job EXCEPT ![q] = changes]
  /\ UNCHANGED data

End(q) ==
  /\ pc' = [pc EXCEPT ![q] = "idle"]
  /\ job' = [job EXCEPT ![q] = NoJob]
  /\ lock' = Released(q)

\* A renamed category meets the unique index again when it is written.
Commit(q) ==
  /\ pc[q] = "checked"
  /\ job[q].fresh => job[q].add \cap (category \ job[q].drop) = {}
  /\ account' = Written(account, job[q].account)
  /\ payment' = Written(payment, job[q].payment)
  /\ expense' = [e \in Expenses |->
       IF e \in DOMAIN job[q].refile
       THEN [expense[e] EXCEPT !.category = job[q].refile[e]]
       ELSE Written(expense, job[q].expense)[e]]
  /\ category' = (category \ job[q].drop) \cup job[q].add
  /\ End(q)

Rollback(q) == pc[q] = "checked" /\ End(q) /\ UNCHANGED data

-----------------------------------------------------------------------------
(* Accounts                                                                 *)

Live(primary) == [state |-> "live", primary |-> primary]

\* saveAccount(): a new primary account, or the first one, takes the flag from
\* the others.
SaveAccount(q, a, primary) ==
  LET first == primary \/ LiveAccounts = {} IN
  /\ account[a].state # "deleted"
  /\ Check(q, "save", {Branch}, [NoJob EXCEPT !.account =
       [b \in {a} \cup (IF first THEN LiveAccounts ELSE {}) |-> Live(b = a /\ first)]])

\* Which account is primary after a, if that changes: a itself stands for none.
Heirs(a) ==
  IF account[a].primary /\ LiveAccounts # {a} THEN LiveAccounts \ {a} ELSE {a}

\* A faulty RemoveAccount: locks the branch only.
FaultyRemoveAccount(q, a, heir) ==
  /\ a \in LiveAccounts /\ ~Linked(a)
  /\ heir \in Heirs(a)
  /\ Check(q, "remove", {Branch}, [NoJob EXCEPT !.account =
       [b \in {a, heir} |-> IF b = a THEN [state |-> "deleted", primary |-> FALSE]
                                     ELSE Live(TRUE)]])

\* removeAccount(): nothing is booked on it; the oldest of the others, which may
\* be any of them, becomes primary in its place.
RemoveAccount(q, a, heir) ==
  /\ a \in LiveAccounts /\ ~Linked(a)
  /\ heir \in Heirs(a)
  /\ Check(q, "remove", {Branch, a}, [NoJob EXCEPT !.account =
       [b \in {a, heir} |-> IF b = a THEN [state |-> "deleted", primary |-> FALSE]
                                     ELSE Live(TRUE)]])

-----------------------------------------------------------------------------
(* Who books on accounts                                                    *)

\* recordPayment(), updatePayment(), restore() lock the account and see that
\* it is still there.
BookPayment(q, p, a) ==
  /\ a \in LiveAccounts
  /\ Check(q, "pay", {a}, [NoJob EXCEPT !.payment = One(p, [live |-> TRUE, account |-> a])])

\* income(), transfer(), an invoice's first payment and the event that cheque() writes, with
\* the account deposited on or taken back from, lock the branch.
BookEntry(q, p, a) ==
  /\ a \in LiveAccounts /\ ~payment[p].live
  /\ Check(q, "entry", {Branch}, [NoJob EXCEPT !.payment = One(p, [live |-> TRUE, account |-> a])])

\* deletePayment() and removeEntry(), whose own locks are no account's, and a cheque's
\* payment when it is taken back.
Unbook(p) ==
  /\ "pay" \in Ops /\ payment[p].live
  /\ payment' = [payment EXCEPT ![p].live = FALSE]
  /\ UNCHANGED <<lock, pc, job, account, expense, category>>

\* createExpense(): the category is added to the list if it is new.
CreateExpense(q, e, n, a) ==
  /\ expense[e].status = "none" /\ Usable(a)
  /\ Check(q, "expense", {Branch}, [NoJob EXCEPT !.add = {n}, !.expense =
       One(e, [status |-> "ISSUED", account |-> a, category |-> n])])

\* cancelExpense(): one conditional write, no lock of its own.
CancelExpense(e) ==
  /\ "expense" \in Ops /\ expense[e].status # "none"
  /\ expense' = [expense EXCEPT ![e].status = "CANCELLED"]
  /\ UNCHANGED <<lock, pc, job, account, payment, category>>

-----------------------------------------------------------------------------
(* Expense categories                                                       *)

\* createExpenseCategory() takes no lock; the unique index decides.
CreateCategory(n) ==
  /\ "category" \in Ops /\ n \notin category
  /\ category' = category \cup {n}
  /\ UNCHANGED <<lock, pc, job, account, payment, expense>>

\* renameExpenseCategory(), with every expense filed under it.
RenameCategory(q, n, m) ==
  /\ n \in category /\ (m \notin category \/ m = n)
  /\ Check(q, "category", {Branch},
       [NoJob EXCEPT !.drop = {n}, !.add = {m}, !.fresh = TRUE, !.refile = Refiled(n, m)])

\* deleteExpenseCategory(): a category in use needs another one to move to.
DeleteCategory(q, n, target) ==
  /\ n \in category /\ target \in (category \cup {NoOne}) \ {n}
  /\ Filed(n) # {} => target # NoOne
  /\ Check(q, "category", {Branch}, [NoJob EXCEPT !.drop = {n}, !.refile = Refiled(n, target)])

-----------------------------------------------------------------------------
Init ==
  /\ lock = [row \in Rows |-> NoOne]
  /\ pc = [q \in Requests |-> "idle"]
  /\ job = [q \in Requests |-> NoJob]
  /\ account = [a \in Accounts |-> [state |-> "none", primary |-> FALSE]]
  /\ payment = [p \in Payments |-> [live |-> FALSE, account |-> NoOne]]
  /\ expense = [e \in Expenses |-> [status |-> "none", account |-> NoOne, category |-> NoOne]]
  /\ category = {}

AccountStep(q) ==
  \/ \E a \in Accounts, primary \in BOOLEAN : SaveAccount(q, a, primary)
  \/ \E a, heir \in Accounts : RemoveAccount(q, a, heir)
  \/ \E p \in Payments, a \in Accounts : BookPayment(q, p, a) \/ BookEntry(q, p, a)

CategoryStep(q) ==
  \E n \in Names :
    \/ \E e \in Expenses, a \in Accounts \cup {NoOne} : CreateExpense(q, e, n, a)
    \/ \E m \in Names : RenameCategory(q, n, m)
    \/ \E target \in Names \cup {NoOne} : DeleteCategory(q, n, target)

Next ==
  \/ \E q \in Requests : AccountStep(q) \/ CategoryStep(q) \/ Commit(q) \/ Rollback(q)
  \/ \E p \in Payments : Unbook(p)
  \/ \E e \in Expenses : CancelExpense(e)
  \/ \E n \in Names : CreateCategory(n)

Spec == Init /\ [][Next]_vars

-----------------------------------------------------------------------------
(* Properties                                                               *)

\* Every row has its type; an expense always names a category.
TypeOK ==
  /\ lock \in [Rows -> Requests \cup {NoOne}]
  /\ pc \in [Requests -> {"idle", "checked"}]
  /\ account \in [Accounts -> [state : {"none", "live", "deleted"}, primary : BOOLEAN]]
  /\ payment \in [Payments -> [live : BOOLEAN, account : Accounts \cup {NoOne}]]
  /\ category \subseteq Names
  /\ \A e \in Expenses :
       /\ expense[e].status \in {"none", "ISSUED", "CANCELLED"}
       /\ expense[e].account \in Accounts \cup {NoOne}
       /\ expense[e].status # "none" => expense[e].category \in Names

\* Nothing is booked on an account that was removed, whichever of the two locks
\* the booking takes.
RemovedAccountsAreEmpty ==
  \A a \in Accounts : account[a].state = "deleted" => ~Linked(a)

\* At most one account is primary, and never a removed one.
PrimaryIsOne(table) ==
  \A a, b \in Accounts :
    /\ table[a].primary => table[a].state = "live"
    /\ table[a].primary /\ table[b].primary => a = b

OnePrimary == PrimaryIsOne(account)

\* Every expense is filed under a category of the list, although categories are
\* renamed and deleted while expenses are created.
ExpensesAreFiled ==
  \A e \in Expenses : expense[e].status # "none" => expense[e].category \in category

-----------------------------------------------------------------------------
(* The inductive invariant of Accounting: what a request that has checked  *)
(* will write is still right when it commits.  Accounts change under the   *)
(* lock of the branch, and are removed under their own lock as well, so    *)
(* that either lock keeps the account something is booked on.              *)

AccountRow == [state : {"none", "live", "deleted"}, primary : BOOLEAN]
PaymentRow == [live : BOOLEAN, account : Accounts \cup {NoOne}]
ExpenseRow == [status : {"none", "ISSUED", "CANCELLED"}, account : Accounts \cup {NoOne},
               category : Names \cup {NoOne}]

RowsOK ==
  /\ TypeOK
  /\ payment \in [Payments -> PaymentRow] /\ expense \in [Expenses -> ExpenseRow]
  /\ DOMAIN job = Requests

\* An account that will be removed has nothing booked on it.
AccountJob(q) ==
  LET rows == job[q].account IN
  pc[q] = "checked" =>
    /\ rows \in [DOMAIN rows -> [state : {"live", "deleted"}, primary : BOOLEAN]]
    /\ DOMAIN rows # {} =>
         lock[Branch] = q /\ DOMAIN job[q].payment = {} /\ DOMAIN job[q].expense = {}
    /\ PrimaryIsOne(Written(account, rows))
    /\ \A a \in DOMAIN rows \cap Accounts :
         rows[a].state = "deleted" => lock[a] = q /\ ~Linked(a)

\* What will be booked has a usable account, which one of the locks keeps.
BookingJob(q) ==
  LET paid == job[q].payment  spent == job[q].expense IN
  pc[q] = "checked" =>
    /\ \A p \in DOMAIN paid :
         /\ paid[p] \in PaymentRow /\ paid[p].account \in LiveAccounts
         /\ q \in {lock[paid[p].account], lock[Branch]}
    /\ \A e \in DOMAIN spent :
         /\ spent[e] \in ExpenseRow /\ Usable(spent[e].account) /\ lock[Branch] = q
         /\ spent[e].category \in job[q].add

\* With what will be dropped and added, every expense is filed.
FilingJob(q) ==
  LET drop == job[q].drop  add == job[q].add  refile == job[q].refile IN
  pc[q] = "checked" =>
    /\ add \subseteq Names /\ refile \in [DOMAIN refile -> Names]
    /\ drop # {} \/ add # {} \/ DOMAIN refile # {} => lock[Branch] = q
    /\ DOMAIN refile # {} => DOMAIN job[q].expense = {}
    /\ \A e \in Expenses : expense[e].status # "none" =>
         (IF e \in DOMAIN refile THEN refile[e] ELSE expense[e].category)
           \in (category \ drop) \cup add

IInv ==
  /\ RowsOK
  /\ RemovedAccountsAreEmpty /\ OnePrimary /\ ExpensesAreFiled
  /\ \A q \in Requests : AccountJob(q) /\ BookingJob(q) /\ FilingJob(q)
=============================================================================
