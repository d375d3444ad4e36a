------------------------------ MODULE CashBook ------------------------------
(***************************************************************************)
(* The cash and bank book of one branch: transfers, other income, cash     *)
(* adjustments, loans and their repayments (finance.service.ts), and what  *)
(* else moves cash: expenses, payments received and made.                  *)
(*                                                                         *)
(* Every handler of the book locks the branch, then reads and checks, then *)
(* commits: Check steps take the lock and store what will be written,      *)
(* Commit writes it.  A refused or repeated request writes nothing and is  *)
(* no step; Rollback is an abort or a crash of one that had begun.         *)
(* Abstracted: dates, names and notes; income categories; accounts other   *)
(* than cash are told apart, not checked (see Accounting).                 *)
(***************************************************************************)
EXTENDS Amounts, RowLocks

CONSTANTS
  Branch,     \* the branch row
  Keys,       \* requestIds
  Loans,      \* loan accounts, opened or not
  Banks,      \* bank accounts
  MaxAmount,  \* the largest amount the server accepts
  Drawer,     \* the cash held at first from invoices, bills and expenses
  Ops         \* the handlers the clients call

Amount == 0 .. MaxAmount
Places == Banks \cup {"cash"}
Kinds == {"LOAN_OPENING", "LOAN_PAYMENT", "OTHER_INCOME", "CASH_ADJUSTMENT",
          "TRANSFER_OUT", "TRANSFER_IN"}
Editable == {"TRANSFER_IN", "TRANSFER_OUT", "OTHER_INCOME", "CASH_ADJUSTMENT"}

\* Assumed of the constants.
CashBookAssumption ==
  /\ IsFiniteSet(Keys) /\ IsFiniteSet(Loans)
  /\ MaxAmount \in Nat /\ Drawer \in Amount
  /\ "cash" \notin Banks /\ NoOne \notin Keys \cup Loans \cup Places

VARIABLES
  entry,    \* entry[<<key, kind>>]: the FinanceEntry with this requestId and kind (unique index)
  loan,     \* loan[l]: its requestId and principal
  repaid,   \* repaid[<<l, key>>]: the LoanPayment of l with this requestId (unique index)
  drawer    \* cash from invoices, bills and expenses: received less paid

data == <<entry, loan, repaid, drawer>>
vars == <<lock, pc, job, entry, loan, repaid, drawer>>

EntryIds == Keys \X Kinds
RepaymentIds == Loans \X Keys
NoEntry == [place |-> NoOne, amount |-> 0, in |-> FALSE, loan |-> NoOne]
NoLoan == [key |-> NoOne, principal |-> 0]
NoRepayment == [principal |-> 0, interest |-> 0]
Nothing == [x \in {} |-> NoOne]
NoJob == [entry |-> Nothing, loan |-> Nothing, repaid |-> Nothing]

One(x, value) == [y \in {x} |-> value]
Written(table, rows) ==
  [x \in DOMAIN table |-> IF x \in DOMAIN rows THEN rows[x] ELSE table[x]]

-----------------------------------------------------------------------------
(* Reads                                                                    *)

Posted == {e \in EntryIds : entry[e] # NoEntry}
EntryAmounts == [e \in EntryIds |-> entry[e].amount]
CashEntries(in) == {e \in Posted : entry[e].place = "cash" /\ entry[e].in = in}

\* ledgerBalance() of cash in hand.
CashInHand ==
  drawer + SumOf(CashEntries(TRUE), EntryAmounts) - SumOf(CashEntries(FALSE), EntryAmounts)

\* ensureCash(): no more is taken out than is held.
EnsureCash(change) == change < 0 => CashInHand + change >= 0

Repayments(l) == {r \in RepaymentIds : r[1] = l /\ repaid[r] # NoRepayment}
Principals == [r \in RepaymentIds |-> repaid[r].principal]
LoanBalance(l) == loan[l].principal - SumOf(Repayments(l), Principals)

Unused(key) == \A kind \in Kinds : entry[<<key, kind>>] = NoEntry

\* A faulty EntryGroup: forgets the other leg of a transfer.
FaultyEntryGroup(e) == {e}

\* entryGroup(): the entry plus, for a transfer, its other leg.
EntryGroup(e) ==
  IF e[2] \in {"TRANSFER_OUT", "TRANSFER_IN"}
  THEN {e[1]} \X {"TRANSFER_OUT", "TRANSFER_IN"} \cap Posted ELSE {e}

-----------------------------------------------------------------------------
(* The steps every handler shares                                           *)

\* A faulty Check: does not lock the branch.
FaultyCheck(q, op, rows) ==
  /\ op \in Ops /\ pc[q] = "idle"
  /\ pc' = [pc EXCEPT ![q] = "checked"]
  /\ job' = [job EXCEPT ![q] = rows]
  /\ UNCHANGED <<lock, data>>

\* The branch is locked, the checks have passed; rows is what q will write.
Check(q, op, rows) ==
  /\ op \in Ops /\ pc[q] = "idle" /\ CanLock(Branch)
  /\ lock' = [lock EXCEPT ![Branch] = q]
  /\ pc' = [pc EXCEPT ![q] = "checked"]
  /\ job' = [job EXCEPT ![q] = rows]
  /\ UNCHANGED data

End(q) ==
  /\ pc' = [pc EXCEPT ![q] = "idle"]
  /\ job' = [job EXCEPT ![q] = NoJob]
  /\ lock' = Released(q)

Commit(q) ==
  /\ pc[q] = "checked"
  /\ entry' = Written(entry, job[q].entry)
  /\ loan' = Written(loan, job[q].loan)
  /\ repaid' = Written(repaid, job[q].repaid)
  /\ End(q)
  /\ UNCHANGED drawer

Rollback(q) == pc[q] = "checked" /\ End(q) /\ UNCHANGED data

NewEntry(place, amount, in) == [place |-> place, amount |-> amount, in |-> in, loan |-> NoOne]
LoanEntry(place, amount, in, l) ==
  [place |-> place, amount |-> amount, in |-> in, loan |-> l]

-----------------------------------------------------------------------------
(* Handlers                                                                 *)

\* createLoan(): an opening balance, or with an account a new disbursement.
CreateLoan(q, l, key, principal, place) ==
  /\ loan[l] = NoLoan /\ principal > 0
  /\ \A m \in Loans : loan[m].key # key
  /\ place # "none" => entry[<<key, "LOAN_OPENING">>] = NoEntry
  /\ Check(q, "loan", [NoJob EXCEPT
       !.loan = One(l, [key |-> key, principal |-> principal]),
       !.entry = IF place = "none" THEN Nothing
                 ELSE One(<<key, "LOAN_OPENING">>, LoanEntry(place, principal, TRUE, l))])

\* The checks of postLoanPayment().
MayRepay(l, key, principal, interest, place) ==
  /\ loan[l] # NoLoan /\ principal + interest \in 1 .. MaxAmount
  /\ Unused(key) /\ repaid[<<l, key>>] = NoRepayment
  /\ principal <= LoanBalance(l)
  /\ place = "cash" => EnsureCash(-(principal + interest))

\* payLoan(), and adjustCash() with a loan (then from cash).
PayLoan(q, l, key, principal, interest, place) ==
  /\ MayRepay(l, key, principal, interest, place)
  /\ Check(q, "pay", [NoJob EXCEPT
       !.repaid = One(<<l, key>>, [principal |-> principal, interest |-> interest]),
       !.entry = One(<<key, "LOAN_PAYMENT">>, LoanEntry(place, principal + interest, FALSE, l))])

\* income().
Income(q, key, place, amount) ==
  /\ amount > 0 /\ entry[<<key, "OTHER_INCOME">>] = NoEntry
  /\ Check(q, "income",
       [NoJob EXCEPT !.entry = One(<<key, "OTHER_INCOME">>, NewEntry(place, amount, TRUE))])

\* adjustCash() without a loan: no entry of any kind has the requestId.
AdjustCash(q, key, amount, in) ==
  /\ amount > 0 /\ Unused(key)
  /\ ~in => EnsureCash(-amount)
  /\ Check(q, "adjust",
       [NoJob EXCEPT !.entry = One(<<key, "CASH_ADJUSTMENT">>, NewEntry("cash", amount, in))])

\* transfer(): two legs with one requestId.
Transfer(q, key, from, to, amount) ==
  /\ amount > 0 /\ from # to
  /\ entry[<<key, "TRANSFER_OUT">>] = NoEntry /\ entry[<<key, "TRANSFER_IN">>] = NoEntry
  /\ from = "cash" => EnsureCash(-amount)
  /\ Check(q, "transfer", [NoJob EXCEPT !.entry =
       [e \in {<<key, "TRANSFER_OUT">>, <<key, "TRANSFER_IN">>} |->
          IF e[2] = "TRANSFER_OUT" THEN NewEntry(from, amount, FALSE)
                                   ELSE NewEntry(to, amount, TRUE)]])

Signed(row) == IF row.in THEN row.amount ELSE -row.amount

\* updateEntry(): all the legs take the new amount, an adjustment its direction.
UpdateEntry(q, e, amount, in) ==
  LET next == [g \in EntryGroup(e) |->
                 [entry[g] EXCEPT !.amount = amount,
                                  !.in = IF g[2] = "CASH_ADJUSTMENT" THEN in ELSE @]]
      inCash == {g \in EntryGroup(e) : entry[g].place = "cash"} IN
  /\ e \in Posted /\ e[2] \in Editable /\ amount > 0
  /\ \A g \in inCash : EnsureCash(Signed(next[g]) - Signed(entry[g]))
  /\ Check(q, "update", [NoJob EXCEPT !.entry = next])

\* removeEntry() of what the cash and bank screens own.
RemoveEntry(q, e) ==
  /\ e \in Posted /\ e[2] \in Editable
  /\ \A g \in EntryGroup(e) : entry[g].place = "cash" => EnsureCash(-Signed(entry[g]))
  /\ Check(q, "remove", [NoJob EXCEPT !.entry = [g \in EntryGroup(e) |-> NoEntry]])

LoanEntries(l, key) == {e \in Posted : e = <<key, "LOAN_PAYMENT">> /\ entry[e].loan = l}

\* removeLoanPayment(), and removeEntry() of a repayment's entry.
RemoveRepayment(q, l, key) ==
  /\ repaid[<<l, key>>] # NoRepayment
  /\ Check(q, "unpay", [NoJob EXCEPT
       !.repaid = One(<<l, key>>, NoRepayment),
       !.entry = [e \in LoanEntries(l, key) |-> NoEntry]])

\* convertToLoanPayment(): a cash reduction becomes a repayment.
ConvertToLoanPayment(q, key, l, interest) ==
  LET adjustment == entry[<<key, "CASH_ADJUSTMENT">>]
      principal == adjustment.amount - interest IN
  /\ adjustment # NoEntry /\ ~adjustment.in
  /\ loan[l] # NoLoan /\ interest <= adjustment.amount /\ principal <= LoanBalance(l)
  /\ entry[<<key, "LOAN_PAYMENT">>] = NoEntry /\ repaid[<<l, key>>] = NoRepayment
  /\ Check(q, "convert", [NoJob EXCEPT
       !.repaid = One(<<l, key>>, [principal |-> principal, interest |-> interest]),
       !.entry = [e \in {<<key, "CASH_ADJUSTMENT">>, <<key, "LOAN_PAYMENT">>} |->
                    IF e[2] = "LOAN_PAYMENT"
                    THEN LoanEntry("cash", adjustment.amount, FALSE, l) ELSE NoEntry]])

\* createExpense() paid in cash: locks the branch and asks nobody for the cash.
CreateExpense(amount) ==
  /\ "expense" \in Ops /\ CanLock(Branch) /\ drawer - amount >= -MaxAmount
  /\ drawer' = drawer - amount
  /\ UNCHANGED <<lock, pc, job, entry, loan, repaid>>

-----------------------------------------------------------------------------
Init ==
  /\ lock = [row \in {Branch} |-> NoOne]
  /\ pc = [q \in Requests |-> "idle"]
  /\ job = [q \in Requests |-> NoJob]
  /\ entry = [e \in EntryIds |-> NoEntry]
  /\ loan = [l \in Loans |-> NoLoan]
  /\ repaid = [r \in RepaymentIds |-> NoRepayment]
  /\ drawer = Drawer

LoanStep(q) ==
  \E l \in Loans, key \in Keys :
    \/ \E principal \in Amount, place \in Banks \cup {"none"} :
         CreateLoan(q, l, key, principal, place)
    \/ \E principal, interest \in Amount, place \in Places :
         PayLoan(q, l, key, principal, interest, place)
    \/ RemoveRepayment(q, l, key)
    \/ \E interest \in Amount : ConvertToLoanPayment(q, key, l, interest)

EntryStep(q) ==
  \/ \E key \in Keys, amount \in Amount :
       \/ \E place \in Places : Income(q, key, place, amount)
       \/ \E in \in BOOLEAN : AdjustCash(q, key, amount, in)
       \/ \E from, to \in Places : Transfer(q, key, from, to, amount)
  \/ \E e \in EntryIds :
       \/ \E amount \in Amount, in \in BOOLEAN : UpdateEntry(q, e, amount, in)
       \/ RemoveEntry(q, e)

Next ==
  \/ \E q \in Requests : LoanStep(q) \/ EntryStep(q) \/ Commit(q) \/ Rollback(q)
  \/ \E amount \in 1 .. MaxAmount : CreateExpense(amount)

Spec == Init /\ [][Next]_vars

-----------------------------------------------------------------------------
(* Properties                                                               *)

\* Every row has its type; no sum of two amounts leaves the column.
TypeOK ==
  /\ lock \in [{Branch} -> Requests \cup {NoOne}]
  /\ pc \in [Requests -> {"idle", "checked"}]
  /\ entry \in [EntryIds -> [place : Places \cup {NoOne}, amount : Amount, in : BOOLEAN,
                             loan : Loans \cup {NoOne}]]
  /\ loan \in [Loans -> [key : Keys \cup {NoOne}, principal : Amount]]
  /\ repaid \in [RepaymentIds -> [principal : Amount, interest : Amount]]
  /\ drawer \in -MaxAmount .. MaxAmount

\* The two legs of a transfer are posted, edited and removed together.
LegsMatch(entries) ==
  \A key \in Keys :
    LET out == entries[<<key, "TRANSFER_OUT">>]  in == entries[<<key, "TRANSFER_IN">>] IN
    /\ out = NoEntry <=> in = NoEntry
    /\ out # NoEntry => out.amount = in.amount /\ out.place # in.place /\ in.in /\ ~out.in
TransfersBalance == LegsMatch(entry)

\* No loan is repaid beyond its principal, whichever screens the repayments come from.
LoanNotOverpaid == \A l \in Loans : SumOf(Repayments(l), Principals) <= loan[l].principal

\* A repayment and the money that left for it are two rows that stay in step:
\* one entry each, of principal and interest together.
InStep(repayments, entries) ==
  /\ \A r \in RepaymentIds : repayments[r] # NoRepayment =>
       LET e == entries[<<r[2], "LOAN_PAYMENT">>] IN
       e.loan = r[1] /\ ~e.in /\ e.amount = repayments[r].principal + repayments[r].interest
  /\ \A key \in Keys : entries[<<key, "LOAN_PAYMENT">>] # NoEntry =>
       \E l \in Loans : repayments[<<l, key>>] # NoRepayment
RepaymentsPosted == InStep(repaid, entry)

\* One cash request moves the cash once: it never counts both as an adjustment
\* and as the repayment it was turned into, however often the client repeats it.
MovedOnce(entries) ==
  \A key \in Keys :
    entries[<<key, "CASH_ADJUSTMENT">>] = NoEntry \/ entries[<<key, "LOAN_PAYMENT">>] = NoEntry
OneCashEntryPerRequest == MovedOnce(entry)

\* Turning a cash reduction into a repayment leaves cash in hand unchanged.
ConversionKeepsCashStep ==
  \A key \in Keys :
    /\ entry[<<key, "CASH_ADJUSTMENT">>] # NoEntry /\ entry[<<key, "LOAN_PAYMENT">>] = NoEntry
    /\ entry'[<<key, "LOAN_PAYMENT">>] # NoEntry
    => CashInHand' = CashInHand
ConversionKeepsCash == [][ConversionKeepsCashStep]_vars

\* Cash in hand is never below zero.
CashNeverNegative == CashInHand >= 0

-----------------------------------------------------------------------------
(* The inductive invariant of CashBook: whoever has checked holds the      *)
(* branch, and the rows it is going to write leave the book in order.      *)

EntryType ==
  [place : Places \cup {NoOne}, amount : Amount, in : BOOLEAN, loan : Loans \cup {NoOne}]
LoanType == [key : Keys \cup {NoOne}, principal : Amount]
RepaymentType == [principal : Amount, interest : Amount]

\* What an entry adds to the cash, and the cash that a table of entries makes.
Inflow(entries) ==
  [e \in EntryIds |-> IF entries[e].place = "cash" /\ entries[e].in THEN entries[e].amount ELSE 0]
Outflow(entries) ==
  [e \in EntryIds |-> IF entries[e].place = "cash" /\ ~entries[e].in THEN entries[e].amount ELSE 0]
CashOf(entries) ==
  drawer + SumOf(EntryIds, Inflow(entries)) - SumOf(EntryIds, Outflow(entries))

\* An entry that is posted moves money at some place, an adjustment in cash.
EntriesHaveMoney(entries) ==
  \A e \in EntryIds : entries[e] # NoEntry =>
    /\ entries[e].place \in Places /\ entries[e].amount > 0
    /\ e[2] = "CASH_ADJUSTMENT" => entries[e].place = "cash"

PrincipalsOf(repayments) == [r \in RepaymentIds |-> repayments[r].principal]
LoansFit(loans, repayments) ==
  \A l \in Loans : SumOf({l} \X Keys, PrincipalsOf(repayments)) <= loans[l].principal

\* Only an expense takes cash that is not there.
CashSuffices(entries) == "expense" \in Ops \/ CashOf(entries) >= 0

\* The book in order: what holds of its tables between the requests.
InOrder(entries, loans, repayments) ==
  /\ entries \in [EntryIds -> EntryType]
  /\ loans \in [Loans -> LoanType]
  /\ repayments \in [RepaymentIds -> RepaymentType]
  /\ EntriesHaveMoney(entries) /\ LegsMatch(entries) /\ MovedOnce(entries)
  /\ InStep(repayments, entries) /\ LoansFit(loans, repayments)
  /\ CashSuffices(entries)

\* A cash reduction that becomes a repayment is the same cash.
ConversionFits(entries) ==
  \A key \in Keys :
    /\ entry[<<key, "CASH_ADJUSTMENT">>] # NoEntry /\ entry[<<key, "LOAN_PAYMENT">>] = NoEntry
    /\ entries[<<key, "LOAN_PAYMENT">>] # NoEntry
    => CashOf(entries) = CashOf(entry)

EntryAfter(q) == Written(entry, job[q].entry)
LoanAfter(q) == Written(loan, job[q].loan)
RepaidAfter(q) == Written(repaid, job[q].repaid)

\* A request between its checks and its commit.
CheckedJob(q) ==
  pc[q] = "checked" =>
    /\ lock[Branch] = q
    /\ InOrder(EntryAfter(q), LoanAfter(q), RepaidAfter(q))
    /\ ConversionFits(EntryAfter(q))

IInv ==
  /\ TypeOK /\ DOMAIN job = Requests
  /\ InOrder(entry, loan, repaid)
  /\ \A q \in Requests : CheckedJob(q)
=============================================================================
