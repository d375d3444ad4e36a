--------------------------- MODULE GoodsProofs ------------------------------
(***************************************************************************)
(* The theorems about money and goods that are moved within a branch: the  *)
(* cash book (CashBook), the stock of items in godowns (StockLedger, here  *)
(* the instance Stock), bank accounts and categories (Accounting: Bank).   *)
(*                                                                         *)
(* Cash: who has checked has the branch, so that nothing changes between   *)
(* its checks and its commit: each handler is shown to have stored rows    *)
(* that leave the book in order, and the commit writes just these.         *)
(* Stock: quantities have signs, so a total is a sum of what came in less  *)
(* a sum of what went out; one place that changes changes it by as much.   *)
(* Accounts: two locks keep an account, its own and that of the branch;    *)
(* who writes accounts has the branch, who removes one has both.           *)
(***************************************************************************)
EXTENDS CashBook, AmountsProofs

\* The constants and variables of StockLedger that CashBook does not have.
CONSTANTS Items, Godowns, Papers, MaxQty, Bound, AllowNegative, StockOps
VARIABLES item, stock, placed, moved, godown, paper

\* The constants and variables of Accounting that neither has.
CONSTANTS Accounts, Payments, Expenses, Names, BankOps
VARIABLES account, payment, expense, category

Stock == INSTANCE StockLedger WITH place <- placed, Ops <- StockOps
Bank == INSTANCE Accounting WITH Ops <- BankOps

Entries == [EntryIds -> EntryType]
Loaned == [Loans -> LoanType]
Repaid == [RepaymentIds -> RepaymentType]

\* What one row adds to the cash.
Worth(row) == IF row.place = "cash" THEN Signed(row) ELSE 0

-----------------------------------------------------------------------------
(* The cash of a table of entries.                                           *)

LEMMA EntryIdsFinite ==
  ASSUME CashBookAssumption
  PROVE  IsFiniteSet(EntryIds) /\ IsFiniteSet(RepaymentIds)
<1>1. IsFiniteSet(Kinds)
  <2>1. IsFiniteSet({"LOAN_OPENING", "LOAN_PAYMENT", "OTHER_INCOME", "CASH_ADJUSTMENT"}
                      \cup {"TRANSFER_OUT"} \cup {"TRANSFER_IN"})
    <3>1. IsFiniteSet({"LOAN_OPENING"})
      BY FS_Singleton
    <3>2. IsFiniteSet({"LOAN_OPENING"} \cup {"LOAN_PAYMENT"})
      BY <3>1, FS_AddElement
    <3>3. IsFiniteSet({"LOAN_OPENING"} \cup {"LOAN_PAYMENT"} \cup {"OTHER_INCOME"})
      BY <3>2, FS_AddElement
    <3>4. IsFiniteSet({"LOAN_OPENING"} \cup {"LOAN_PAYMENT"} \cup {"OTHER_INCOME"}
                        \cup {"CASH_ADJUSTMENT"})
      BY <3>3, FS_AddElement
    <3>5. {"LOAN_OPENING"} \cup {"LOAN_PAYMENT"} \cup {"OTHER_INCOME"} \cup {"CASH_ADJUSTMENT"}
            = {"LOAN_OPENING", "LOAN_PAYMENT", "OTHER_INCOME", "CASH_ADJUSTMENT"}
      OBVIOUS
    <3>6. IsFiniteSet({"LOAN_OPENING", "LOAN_PAYMENT", "OTHER_INCOME", "CASH_ADJUSTMENT"})
      BY <3>4, <3>5
    <3>7. IsFiniteSet({"LOAN_OPENING", "LOAN_PAYMENT", "OTHER_INCOME", "CASH_ADJUSTMENT"}
                        \cup {"TRANSFER_OUT"})
      BY <3>6, FS_AddElement
    <3>8. QED
      BY <3>7, FS_AddElement
  <2>2. Kinds = {"LOAN_OPENING", "LOAN_PAYMENT", "OTHER_INCOME", "CASH_ADJUSTMENT"}
                  \cup {"TRANSFER_OUT"} \cup {"TRANSFER_IN"}
    BY DEF Kinds
  <2>3. QED
    BY <2>1, <2>2
<1>2. QED
  BY <1>1, FS_Product DEF EntryIds, RepaymentIds, CashBookAssumption

\* Amounts are natural numbers.
LEMMA FlowsAreAmounts ==
  ASSUME CashBookAssumption, NEW t \in Entries
  PROVE  \A e \in EntryIds : Inflow(t)[e] \in Nat /\ Outflow(t)[e] \in Nat
BY DEF CashBookAssumption, Entries, EntryType, Amount, Inflow, Outflow

LEMMA CashIsInteger ==
  ASSUME CashBookAssumption, TypeOK, NEW t \in Entries
  PROVE  CashOf(t) \in Int
<1>1. drawer \in Int
  BY DEF TypeOK, CashBookAssumption
<1>2. SumOf(EntryIds, Inflow(t)) \in Nat /\ SumOf(EntryIds, Outflow(t)) \in Nat
  BY EntryIdsFinite, FlowsAreAmounts, SumIsNat
<1>3. QED
  BY <1>1, <1>2 DEF CashOf

\* ledgerBalance() adds the entries that are in cash.
LEMMA CashInHandIsCash ==
  ASSUME CashBookAssumption, entry \in Entries
  PROVE  CashInHand = CashOf(entry)
<1>1. CashEntries(TRUE) \in SUBSET EntryIds /\ CashEntries(FALSE) \in SUBSET EntryIds
  BY DEF CashEntries, Posted
<1>2. \A e \in EntryIds : entry[e].place = "cash" => entry[e] # NoEntry
  BY DEF CashBookAssumption, NoEntry, Places
<1>3. \A e \in EntryIds : entry[e].in \in BOOLEAN
  BY DEF Entries, EntryType
<1>4. /\ \A e \in CashEntries(TRUE) : EntryAmounts[e] = Inflow(entry)[e]
      /\ \A e \in CashEntries(FALSE) : EntryAmounts[e] = Outflow(entry)[e]
  BY DEF CashEntries, Posted, EntryAmounts, Inflow, Outflow
<1>5. /\ SumOf(CashEntries(TRUE), EntryAmounts) = SumOf(CashEntries(TRUE), Inflow(entry))
      /\ SumOf(CashEntries(FALSE), EntryAmounts) = SumOf(CashEntries(FALSE), Outflow(entry))
  BY <1>4, SumSame
<1>6. \A e \in EntryIds \ CashEntries(TRUE) : Inflow(entry)[e] = 0
  BY <1>2, <1>3 DEF CashEntries, Posted, Inflow
<1>7. \A e \in EntryIds \ CashEntries(FALSE) : Outflow(entry)[e] = 0
  BY <1>2, <1>3 DEF CashEntries, Posted, Outflow
<1>8. /\ SumOf(EntryIds, Inflow(entry)) = SumOf(CashEntries(TRUE), Inflow(entry))
      /\ SumOf(EntryIds, Outflow(entry)) = SumOf(CashEntries(FALSE), Outflow(entry))
  BY <1>1, <1>6, <1>7, SumOfPositive
<1>9. QED
  BY <1>5, <1>8 DEF CashInHand, CashOf

\* One entry changes the cash by what it adds more than before.
LEMMA OneEntryChanges ==
  ASSUME CashBookAssumption, TypeOK, NEW t \in Entries, NEW u \in Entries,
         NEW x \in EntryIds, \A e \in EntryIds \ {x} : u[e] = t[e]
  PROVE  CashOf(u) = CashOf(t) - Worth(t[x]) + Worth(u[x])
<1>1. /\ \A e \in EntryIds : Inflow(t)[e] \in Nat /\ Outflow(t)[e] \in Nat
      /\ \A e \in EntryIds : Inflow(u)[e] \in Nat /\ Outflow(u)[e] \in Nat
  BY FlowsAreAmounts
<1>2. /\ \A e \in EntryIds \ {x} : Inflow(u)[e] = Inflow(t)[e]
      /\ \A e \in EntryIds \ {x} : Outflow(u)[e] = Outflow(t)[e]
  BY DEF Inflow, Outflow
<1>3. IsFiniteSet(EntryIds)
  BY EntryIdsFinite
<1>4. SumOf(EntryIds, Inflow(u)) = SumOf(EntryIds, Inflow(t)) - Inflow(t)[x] + Inflow(u)[x]
  BY <1>1, <1>2, <1>3, SumChange
<1>5. SumOf(EntryIds, Outflow(u)) = SumOf(EntryIds, Outflow(t)) - Outflow(t)[x] + Outflow(u)[x]
  BY <1>1, <1>2, <1>3, SumChange
<1>6. /\ SumOf(EntryIds, Inflow(t)) \in Nat /\ SumOf(EntryIds, Outflow(t)) \in Nat
  BY <1>1, <1>3, SumIsNat
<1>7. drawer \in Int
  BY DEF TypeOK, CashBookAssumption
<1>8. /\ Worth(t[x]) = Inflow(t)[x] - Outflow(t)[x]
      /\ Worth(u[x]) = Inflow(u)[x] - Outflow(u)[x]
  BY DEF Worth, Signed, Inflow, Outflow, Entries, EntryType, Amount, CashBookAssumption
<1>9. QED
  BY <1>1, <1>4, <1>5, <1>6, <1>7, <1>8 DEF CashOf

\* So do two entries.
LEMMA TwoEntriesChange ==
  ASSUME CashBookAssumption, TypeOK, NEW t \in Entries, NEW u \in Entries,
         NEW x \in EntryIds, NEW y \in EntryIds \ {x},
         \A e \in EntryIds \ {x, y} : u[e] = t[e]
  PROVE  CashOf(u) = CashOf(t) - Worth(t[x]) + Worth(u[x]) - Worth(t[y]) + Worth(u[y])
<1> DEFINE v == [e \in EntryIds |-> IF e = x THEN u[e] ELSE t[e]]
<1>1. v \in Entries
  BY DEF Entries
<1>2. CashOf(v) = CashOf(t) - Worth(t[x]) + Worth(v[x])
  <2>1. \A e \in EntryIds \ {x} : v[e] = t[e]
    OBVIOUS
  <2> HIDE DEF v
  <2> QED
    BY <1>1, <2>1, OneEntryChanges
<1>3. CashOf(u) = CashOf(v) - Worth(v[y]) + Worth(u[y])
  <2>1. \A e \in EntryIds \ {y} : u[e] = v[e]
    OBVIOUS
  <2> HIDE DEF v
  <2> QED
    BY <1>1, <2>1, OneEntryChanges
<1>4. v[x] = u[x] /\ v[y] = t[y]
  OBVIOUS
<1>5. CashOf(t) \in Int
  BY CashIsInteger
<1>6. /\ Worth(t[x]) \in Int /\ Worth(u[x]) \in Int
      /\ Worth(t[y]) \in Int /\ Worth(u[y]) \in Int
  BY DEF Worth, Signed, Entries, EntryType, Amount, CashBookAssumption
<1> HIDE DEF v
<1>7. QED
  BY <1>2, <1>3, <1>4, <1>5, <1>6

-----------------------------------------------------------------------------
(* The loans and their repayments.                                           *)

LEMMA PrincipalsAreAmounts ==
  ASSUME CashBookAssumption, NEW t \in Repaid, NEW l \in Loans
  PROVE  /\ \A r \in {l} \X Keys : PrincipalsOf(t)[r] \in Nat
         /\ IsFiniteSet({l} \X Keys) /\ SumOf({l} \X Keys, PrincipalsOf(t)) \in Nat
<1>1. \A r \in {l} \X Keys : PrincipalsOf(t)[r] \in Nat
  BY DEF CashBookAssumption, Repaid, RepaymentType, Amount, PrincipalsOf, RepaymentIds
<1>2. IsFiniteSet({l} \X Keys)
  BY FS_Singleton, FS_Product DEF CashBookAssumption
<1>3. QED
  BY <1>1, <1>2, SumIsNat

\* What LoanBalance() takes off the principal.
LEMMA RepaymentsSum ==
  ASSUME CashBookAssumption, repaid \in Repaid, NEW l \in Loans
  PROVE  SumOf(Repayments(l), Principals) = SumOf({l} \X Keys, PrincipalsOf(repaid))
<1>1. Repayments(l) \in SUBSET ({l} \X Keys)
  BY DEF Repayments, RepaymentIds
<1>2. \A r \in ({l} \X Keys) \ Repayments(l) : PrincipalsOf(repaid)[r] = 0
  BY DEF Repayments, RepaymentIds, PrincipalsOf, NoRepayment
<1>3. Principals = PrincipalsOf(repaid)
  BY DEF Principals, PrincipalsOf
<1>4. QED
  BY <1>1, <1>2, <1>3, SumOfPositive

\* One repayment changes what its loan was repaid, and no other loan.
LEMMA OneRepaymentChanges ==
  ASSUME CashBookAssumption, NEW t \in Repaid, NEW u \in Repaid, NEW l \in Loans, NEW key \in Keys,
         \A r \in RepaymentIds \ {<<l, key>>} : u[r] = t[r]
  PROVE  /\ SumOf({l} \X Keys, PrincipalsOf(u))
              = SumOf({l} \X Keys, PrincipalsOf(t)) - t[<<l, key>>].principal + u[<<l, key>>].principal
         /\ \A m \in Loans \ {l} :
              SumOf({m} \X Keys, PrincipalsOf(u)) = SumOf({m} \X Keys, PrincipalsOf(t))
<1> DEFINE x == <<l, key>>
           S == {l} \X Keys
<1>1. /\ \A r \in S : PrincipalsOf(t)[r] \in Nat /\ PrincipalsOf(u)[r] \in Nat
      /\ IsFiniteSet(S) /\ x \in S
  BY PrincipalsAreAmounts
<1>2. \A r \in S \ {x} : PrincipalsOf(u)[r] = PrincipalsOf(t)[r]
  BY DEF PrincipalsOf, RepaymentIds
<1>3. PrincipalsOf(t)[x] = t[x].principal /\ PrincipalsOf(u)[x] = u[x].principal
  BY DEF PrincipalsOf, RepaymentIds
<1>4. SumOf(S, PrincipalsOf(u)) = SumOf(S, PrincipalsOf(t)) - PrincipalsOf(t)[x] + PrincipalsOf(u)[x]
  <2> HIDE DEF x, S
  <2> QED
    BY <1>1, <1>2, SumChange
<1>5. ASSUME NEW m \in Loans \ {l}
      PROVE  SumOf({m} \X Keys, PrincipalsOf(u)) = SumOf({m} \X Keys, PrincipalsOf(t))
  <2>1. \A r \in {m} \X Keys : PrincipalsOf(u)[r] = PrincipalsOf(t)[r]
    BY DEF PrincipalsOf, RepaymentIds
  <2>2. QED
    BY <2>1, SumSame
<1>6. QED
  BY <1>3, <1>4, <1>5

-----------------------------------------------------------------------------
(* The steps every handler shares.                                           *)

\* Who has checked has the branch, alone.
LEMMA OneChecked ==
  ASSUME IInv, NEW q \in Requests, pc[q] = "checked"
  PROVE  lock[Branch] = q /\ \A r \in Requests : pc[r] = "checked" => r = q
BY DEF IInv, CheckedJob

\* A handler that stores rows which leave the book in order keeps the invariant.
LEMMA CheckKeeps ==
  ASSUME IInv, NEW q \in Requests, NEW op, NEW rows, Check(q, op, rows),
         InOrder(Written(entry, rows.entry), Written(loan, rows.loan), Written(repaid, rows.repaid)),
         ConversionFits(Written(entry, rows.entry))
  PROVE  IInv'
<1>1. /\ lock[Branch] = NoOne /\ lock' = [lock EXCEPT ![Branch] = q]
      /\ pc' = [pc EXCEPT ![q] = "checked"] /\ job' = [job EXCEPT ![q] = rows]
      /\ UNCHANGED <<entry, loan, repaid, drawer>>
  BY DEF Check, CanLock, data
<1>2. TypeOK'
  BY <1>1 DEF IInv, TypeOK
<1>3. \A r \in Requests \ {q} : pc'[r] # "checked"
  BY <1>1, NoOneAssumption DEF IInv, CheckedJob, TypeOK
<1>4. InOrder(entry, loan, repaid)'
  BY <1>1 DEF IInv, InOrder, CashSuffices, CashOf, EntriesHaveMoney, LegsMatch, MovedOnce, InStep,
              LoansFit, Inflow, Outflow, PrincipalsOf
<1>5. CheckedJob(q)'
  <2>1. lock'[Branch] = q
    BY <1>1 DEF IInv, TypeOK
  <2>2. job'[q] = rows
    BY <1>1 DEF IInv, TypeOK
  <2>3. /\ EntryAfter(q)' = Written(entry, rows.entry)
        /\ LoanAfter(q)' = Written(loan, rows.loan)
        /\ RepaidAfter(q)' = Written(repaid, rows.repaid)
    BY <1>1, <2>2 DEF EntryAfter, LoanAfter, RepaidAfter, Written
  <2>4. InOrder(EntryAfter(q), LoanAfter(q), RepaidAfter(q))'
    BY <1>1, <2>3
    DEF InOrder, CashSuffices, CashOf, EntriesHaveMoney, LegsMatch, MovedOnce, InStep, LoansFit,
        Inflow, Outflow, PrincipalsOf
  <2>5. ConversionFits(EntryAfter(q))'
    BY <1>1, <2>3 DEF ConversionFits, CashOf, Inflow, Outflow
  <2>6. QED
    BY <2>1, <2>4, <2>5 DEF CheckedJob
<1>6. DOMAIN job' = Requests
  BY <1>1 DEF IInv
<1>7. QED
  BY <1>2, <1>3, <1>4, <1>5, <1>6 DEF IInv, CheckedJob

\* The end of a transaction.
LEMMA EndEffect ==
  ASSUME IInv, NEW q \in Requests, pc[q] = "checked", End(q)
  PROVE  /\ lock' \in [{Branch} -> Requests \cup {NoOne}]
         /\ pc' \in [Requests -> {"idle", "checked"}] /\ DOMAIN job' = Requests
         /\ \A r \in Requests : pc'[r] # "checked"
<1>1. DOMAIN lock = {Branch}
  BY DEF IInv, TypeOK
<1>2. lock' \in [{Branch} -> Requests \cup {NoOne}]
  BY <1>1 DEF End, Released, IInv, TypeOK
<1>3. QED
  BY <1>2, OneChecked DEF End, IInv, TypeOK

LEMMA CommitKeeps ==
  ASSUME IInv, NEW q \in Requests, Commit(q)
  PROVE  IInv'
<1>1. pc[q] = "checked" /\ End(q) /\ drawer' = drawer
  BY DEF Commit
<1>2. InOrder(EntryAfter(q), LoanAfter(q), RepaidAfter(q))
  BY <1>1 DEF IInv, CheckedJob
<1>3. entry' = EntryAfter(q) /\ loan' = LoanAfter(q) /\ repaid' = RepaidAfter(q)
  BY DEF Commit, EntryAfter, LoanAfter, RepaidAfter
<1>4. InOrder(entry, loan, repaid)'
  BY <1>1, <1>2, <1>3
  DEF InOrder, CashSuffices, CashOf, EntriesHaveMoney, LegsMatch, MovedOnce, InStep, LoansFit,
      Inflow, Outflow, PrincipalsOf
<1>5. TypeOK'
  <2>1. /\ entry' \in [EntryIds -> EntryType]
        /\ loan' \in [Loans -> LoanType] /\ repaid' \in [RepaymentIds -> RepaymentType]
    BY <1>2, <1>3 DEF InOrder
  <2>2. QED
    BY <1>1, <2>1, EndEffect DEF TypeOK, EntryType, LoanType, RepaymentType, IInv
<1>6. QED
  BY <1>1, <1>4, <1>5, EndEffect DEF IInv, CheckedJob

LEMMA RollbackKeeps ==
  ASSUME IInv, NEW q \in Requests, Rollback(q)
  PROVE  IInv'
<1>1. pc[q] = "checked" /\ End(q) /\ UNCHANGED <<entry, loan, repaid, drawer>>
  BY DEF Rollback, data
<1>2. InOrder(entry, loan, repaid)'
  BY <1>1
  DEF IInv, InOrder, CashSuffices, CashOf, EntriesHaveMoney, LegsMatch, MovedOnce, InStep,
      LoansFit, Inflow, Outflow, PrincipalsOf
<1>3. TypeOK'
  BY <1>1, EndEffect DEF TypeOK, IInv
<1>4. QED
  BY <1>1, <1>2, <1>3, EndEffect DEF IInv, CheckedJob

\* An expense waits for the branch; nobody has checked.
LEMMA CreateExpenseKeeps ==
  ASSUME CashBookAssumption, IInv, NEW amount \in 1 .. MaxAmount, CreateExpense(amount)
  PROVE  IInv'
<1>1. /\ "expense" \in Ops /\ UNCHANGED <<lock, pc, job, entry, loan, repaid>>
      /\ lock[Branch] = NoOne /\ drawer' = drawer - amount /\ drawer - amount >= -MaxAmount
  BY DEF CreateExpense, CanLock
<1>2. \A q \in Requests : pc[q] # "checked"
  BY <1>1, NoOneAssumption DEF IInv, CheckedJob
<1>3. InOrder(entry, loan, repaid)'
  BY <1>1
  DEF IInv, InOrder, CashSuffices, EntriesHaveMoney, LegsMatch, MovedOnce, InStep,
      LoansFit, PrincipalsOf
<1>4. drawer' \in -MaxAmount .. MaxAmount
  BY <1>1 DEF IInv, TypeOK, CashBookAssumption
<1>5. TypeOK'
  BY <1>1, <1>4 DEF IInv, TypeOK
<1>6. QED
  BY <1>1, <1>2, <1>3, <1>5 DEF IInv, CheckedJob

-----------------------------------------------------------------------------
(* What the handlers store.                                                  *)

LEMMA WrittenNothing ==
  ASSUME IInv
  PROVE  /\ Written(entry, Nothing) = entry /\ Written(loan, Nothing) = loan
         /\ Written(repaid, Nothing) = repaid
BY DEF Written, Nothing, IInv, TypeOK

\* A row of a table is written.
LEMMA WrittenOne ==
  ASSUME NEW S, NEW T, NEW table \in [S -> T], NEW x \in S, NEW value \in T
  PROVE  /\ Written(table, One(x, value)) \in [S -> T]
         /\ Written(table, One(x, value))[x] = value
         /\ \A y \in S \ {x} : Written(table, One(x, value))[y] = table[y]
BY DEF Written, One

\* Tables of entries with the same repayments among them.
SameRepayments(t, u) == \A key \in Keys : u[<<key, "LOAN_PAYMENT">>] = t[<<key, "LOAN_PAYMENT">>]

\* One entry that is no leg of a transfer and no repayment is made, changed or removed.
LEMMA OneEntry ==
  ASSUME CashBookAssumption, IInv, NEW t \in Entries, NEW x \in EntryIds,
         \A e \in EntryIds \ {x} : t[e] = entry[e],
         x[2] \in {"LOAN_OPENING", "OTHER_INCOME", "CASH_ADJUSTMENT"},
         t[x] # NoEntry => /\ t[x].place \in Places /\ t[x].amount > 0
                           /\ x[2] = "CASH_ADJUSTMENT" => t[x].place = "cash",
         x[2] = "CASH_ADJUSTMENT" => entry[<<x[1], "LOAN_PAYMENT">>] = NoEntry,
         CashInHand >= 0 => CashInHand - Worth(entry[x]) + Worth(t[x]) >= 0
  PROVE  /\ EntriesHaveMoney(t) /\ LegsMatch(t) /\ MovedOnce(t) /\ SameRepayments(entry, t)
         /\ CashSuffices(t) /\ ConversionFits(t)
<1>1. entry \in Entries /\ EntriesHaveMoney(entry) /\ LegsMatch(entry) /\ MovedOnce(entry)
  BY DEF IInv, InOrder, Entries
<1>2. \A key \in Keys : /\ t[<<key, "TRANSFER_OUT">>] = entry[<<key, "TRANSFER_OUT">>]
                        /\ t[<<key, "TRANSFER_IN">>] = entry[<<key, "TRANSFER_IN">>]
                        /\ t[<<key, "LOAN_PAYMENT">>] = entry[<<key, "LOAN_PAYMENT">>]
  BY DEF EntryIds, Kinds
<1>3. EntriesHaveMoney(t)
  BY <1>1 DEF EntriesHaveMoney
<1>4. LegsMatch(t)
  BY <1>1, <1>2 DEF LegsMatch
<1>5. MovedOnce(t)
  <2>1. ASSUME NEW key \in Keys
        PROVE  t[<<key, "CASH_ADJUSTMENT">>] = NoEntry \/ t[<<key, "LOAN_PAYMENT">>] = NoEntry
    <3>1. CASE x = <<key, "CASH_ADJUSTMENT">>
      BY <1>2, <3>1
    <3>2. CASE x # <<key, "CASH_ADJUSTMENT">>
      <4>1. <<key, "CASH_ADJUSTMENT">> \in EntryIds
        BY DEF EntryIds, Kinds
      <4>2. t[<<key, "CASH_ADJUSTMENT">>] = entry[<<key, "CASH_ADJUSTMENT">>]
        BY <3>2, <4>1
      <4>3. QED
        BY <1>1, <1>2, <4>2 DEF MovedOnce
    <3>3. QED
      BY <3>1, <3>2
  <2>2. QED
    BY <2>1 DEF MovedOnce
<1>6. CashSuffices(t)
  <2>1. CashOf(t) = CashOf(entry) - Worth(entry[x]) + Worth(t[x])
    BY <1>1, OneEntryChanges DEF IInv
  <2>2. CashInHand = CashOf(entry)
    BY <1>1, CashInHandIsCash
  <2>3. QED
    BY <2>1, <2>2 DEF CashSuffices, IInv, InOrder
<1>7. QED
  BY <1>2, <1>3, <1>4, <1>5, <1>6 DEF SameRepayments, ConversionFits

\* Both legs of a transfer are made, changed or removed.
LEMMA BothLegs ==
  ASSUME CashBookAssumption, IInv, NEW t \in Entries, NEW key \in Keys,
         \A e \in EntryIds \ {<<key, "TRANSFER_OUT">>, <<key, "TRANSFER_IN">>} : t[e] = entry[e],
         LET out == t[<<key, "TRANSFER_OUT">>]  in == t[<<key, "TRANSFER_IN">>]
             out0 == entry[<<key, "TRANSFER_OUT">>]  in0 == entry[<<key, "TRANSFER_IN">>] IN
         /\ out = NoEntry <=> in = NoEntry
         /\ out # NoEntry => /\ out.amount = in.amount /\ out.place # in.place /\ in.in /\ ~out.in
                             /\ out.amount > 0 /\ out.place \in Places /\ in.place \in Places
         /\ CashInHand >= 0
              => CashInHand - Worth(out0) + Worth(out) - Worth(in0) + Worth(in) >= 0
  PROVE  /\ EntriesHaveMoney(t) /\ LegsMatch(t) /\ MovedOnce(t) /\ SameRepayments(entry, t)
         /\ CashSuffices(t) /\ ConversionFits(t)
<1> DEFINE x == <<key, "TRANSFER_OUT">>
           y == <<key, "TRANSFER_IN">>
<1>1. entry \in Entries /\ EntriesHaveMoney(entry) /\ LegsMatch(entry) /\ MovedOnce(entry)
  BY DEF IInv, InOrder, Entries
<1>2. x \in EntryIds /\ y \in EntryIds \ {x}
  BY DEF EntryIds, Kinds
<1>3. \A k \in Keys :
        /\ t[<<k, "LOAN_PAYMENT">>] = entry[<<k, "LOAN_PAYMENT">>]
        /\ t[<<k, "CASH_ADJUSTMENT">>] = entry[<<k, "CASH_ADJUSTMENT">>]
        /\ k # key => /\ t[<<k, "TRANSFER_OUT">>] = entry[<<k, "TRANSFER_OUT">>]
                      /\ t[<<k, "TRANSFER_IN">>] = entry[<<k, "TRANSFER_IN">>]
  BY DEF EntryIds, Kinds
<1>4. EntriesHaveMoney(t)
  BY <1>1, <1>2 DEF EntriesHaveMoney
<1>5. LegsMatch(t)
  <2>1. ASSUME NEW k \in Keys
        PROVE  LET out == t[<<k, "TRANSFER_OUT">>]  in == t[<<k, "TRANSFER_IN">>] IN
               /\ out = NoEntry <=> in = NoEntry
               /\ out # NoEntry => out.amount = in.amount /\ out.place # in.place /\ in.in /\ ~out.in
    <3>1. CASE k = key
      BY <3>1
    <3>2. CASE k # key
      BY <1>1, <1>3, <3>2 DEF LegsMatch
    <3>3. QED
      BY <3>1, <3>2
  <2>2. QED
    BY <2>1 DEF LegsMatch
<1>6. MovedOnce(t)
  BY <1>1, <1>3 DEF MovedOnce
<1>7. CashSuffices(t)
  <2>1. CashOf(t) = CashOf(entry) - Worth(entry[x]) + Worth(t[x]) - Worth(entry[y]) + Worth(t[y])
    <3> HIDE DEF x, y
    <3> QED
      BY <1>1, <1>2, TwoEntriesChange DEF IInv, x, y
  <2>2. CashInHand = CashOf(entry)
    BY <1>1, CashInHandIsCash
  <2>3. QED
    BY <2>1, <2>2 DEF CashSuffices, IInv, InOrder
<1>8. QED
  BY <1>3, <1>4, <1>5, <1>6, <1>7 DEF SameRepayments, ConversionFits

\* A handler that stores entries and no repayment.
LEMMA EntriesOnly ==
  ASSUME IInv, NEW q \in Requests, NEW op, NEW rows, Check(q, op, [NoJob EXCEPT !.entry = rows]),
         NEW t \in Entries, t = Written(entry, rows),
         EntriesHaveMoney(t), LegsMatch(t), MovedOnce(t), SameRepayments(entry, t),
         CashSuffices(t), ConversionFits(t)
  PROVE  IInv'
<1> DEFINE stored == [NoJob EXCEPT !.entry = rows]
<1>1. stored.entry = rows /\ stored.loan = Nothing /\ stored.repaid = Nothing
  BY DEF NoJob
<1>2. InStep(repaid, t)
  BY DEF IInv, InOrder, InStep, SameRepayments, RepaymentIds
<1>3. InOrder(t, loan, repaid)
  BY <1>2 DEF IInv, InOrder, Entries
<1> HIDE DEF stored
<1>4. /\ Written(entry, stored.entry) = t /\ Written(loan, stored.loan) = loan
      /\ Written(repaid, stored.repaid) = repaid
  BY <1>1, WrittenNothing
<1>5. Check(q, op, stored)
  BY DEF stored
<1>6. QED
  BY <1>3, <1>4, <1>5, CheckKeeps

LEMMA NoEntryType ==
  ASSUME CashBookAssumption
  PROVE  /\ NoEntry \in EntryType /\ Worth(NoEntry) = 0
         /\ \A place \in Places, amount \in Amount, in \in BOOLEAN :
              /\ NewEntry(place, amount, in) \in EntryType
              /\ NewEntry(place, amount, in).place = place
              /\ NewEntry(place, amount, in).amount = amount
              /\ NewEntry(place, amount, in).in = in
              /\ NewEntry(place, amount, in) # NoEntry
<1>1. 0 \in Amount /\ NoOne \notin Places
  BY DEF CashBookAssumption, Amount
<1>2. NoEntry \in EntryType
  BY <1>1 DEF NoEntry, EntryType
<1>3. Worth(NoEntry) = 0
  BY <1>1 DEF NoEntry, Worth, Places
<1>4. ASSUME NEW place \in Places, NEW amount \in Amount, NEW in \in BOOLEAN
      PROVE  /\ NewEntry(place, amount, in) \in EntryType
             /\ NewEntry(place, amount, in).place = place
             /\ NewEntry(place, amount, in).amount = amount
             /\ NewEntry(place, amount, in).in = in
             /\ NewEntry(place, amount, in) # NoEntry
  BY <1>1 DEF NewEntry, EntryType, NoEntry
<1>5. QED
  BY <1>2, <1>3, <1>4

\* What the rows of a table in order are like.
LEMMA EntryRows ==
  ASSUME CashBookAssumption, IInv
  PROVE  /\ entry \in Entries /\ CashInHand \in Int
         /\ \A e \in EntryIds :
              /\ entry[e] \in EntryType /\ entry[e].amount \in Int /\ Worth(entry[e]) \in Int
              /\ entry[e].in \in BOOLEAN
<1>1. entry \in Entries
  BY DEF IInv, InOrder, Entries
<1>2. \A e \in EntryIds : /\ entry[e] \in EntryType
                          /\ entry[e].amount \in Int /\ entry[e].in \in BOOLEAN
  BY <1>1 DEF Entries, EntryType, Amount, CashBookAssumption
<1>3. QED
  BY <1>1, <1>2, CashInHandIsCash, CashIsInteger DEF IInv, Worth, Signed

LEMMA EntryWritten ==
  ASSUME CashBookAssumption, IInv, NEW x \in EntryIds, NEW row \in EntryType
  PROVE  LET t == Written(entry, One(x, row)) IN
         t \in Entries /\ t[x] = row /\ \A e \in EntryIds \ {x} : t[e] = entry[e]
<1>1. entry \in [EntryIds -> EntryType]
  BY EntryRows DEF Entries
<1>2. QED
  BY <1>1 DEF Entries, Written, One

LEMMA IncomeKeeps ==
  ASSUME CashBookAssumption, IInv, NEW q \in Requests, NEW key \in Keys, NEW place \in Places,
         NEW amount \in Amount, Income(q, key, place, amount)
  PROVE  IInv'
<1> DEFINE x == <<key, "OTHER_INCOME">>
           row == NewEntry(place, amount, TRUE)
           t == Written(entry, One(x, row))
<1>1. amount > 0 /\ entry[x] = NoEntry /\ Check(q, "income", [NoJob EXCEPT !.entry = One(x, row)])
  BY DEF Income
<1>2. x \in EntryIds /\ x[2] = "OTHER_INCOME"
  BY DEF EntryIds, Kinds
<1>3. row \in EntryType /\ row.place = place /\ row.amount = amount /\ row.in = TRUE
  BY NoEntryType
<1>4. amount \in Int /\ CashInHand \in Int
  BY EntryRows DEF Amount, CashBookAssumption
<1> HIDE DEF x, row
<1>5. Worth(row) \in Int /\ Worth(row) >= 0 /\ Worth(entry[x]) = 0
  BY <1>1, <1>3, <1>4, NoEntryType DEF Worth, Signed
<1>6. t \in Entries /\ t[x] = row /\ \A e \in EntryIds \ {x} : t[e] = entry[e]
  BY <1>2, <1>3, EntryWritten
<1> HIDE DEF t
<1>7. /\ EntriesHaveMoney(t) /\ LegsMatch(t) /\ MovedOnce(t) /\ SameRepayments(entry, t)
      /\ CashSuffices(t) /\ ConversionFits(t)
  <2>1. t[x].place \in Places /\ t[x].amount > 0
    BY <1>1, <1>3, <1>6
  <2>2. CashInHand >= 0 => CashInHand - Worth(entry[x]) + Worth(t[x]) >= 0
    BY <1>4, <1>5, <1>6
  <2>3. QED
    BY <1>2, <1>6, <2>1, <2>2, OneEntry
<1>8. QED
  BY <1>1, <1>6, <1>7, EntriesOnly DEF t

LEMMA AdjustCashKeeps ==
  ASSUME CashBookAssumption, IInv, NEW q \in Requests, NEW key \in Keys, NEW amount \in Amount,
         NEW in \in BOOLEAN, AdjustCash(q, key, amount, in)
  PROVE  IInv'
<1> DEFINE x == <<key, "CASH_ADJUSTMENT">>
           row == NewEntry("cash", amount, in)
           t == Written(entry, One(x, row))
<1>1. /\ amount > 0 /\ entry[x] = NoEntry /\ entry[<<key, "LOAN_PAYMENT">>] = NoEntry
      /\ ~in => EnsureCash(-amount)
      /\ Check(q, "adjust", [NoJob EXCEPT !.entry = One(x, row)])
  BY DEF AdjustCash, Unused, Kinds
<1>2. x \in EntryIds /\ x[2] = "CASH_ADJUSTMENT" /\ x[1] = key
  BY DEF EntryIds, Kinds
<1>3. row \in EntryType /\ row.place = "cash" /\ row.amount = amount /\ row.in = in
  BY NoEntryType DEF Places
<1>4. amount \in Int /\ CashInHand \in Int
  BY EntryRows DEF Amount, CashBookAssumption
<1> HIDE DEF x, row
<1>5. Worth(row) = (IF in THEN amount ELSE -amount) /\ Worth(entry[x]) = 0
  BY <1>1, <1>3, <1>4, NoEntryType DEF Worth, Signed
<1>6. t \in Entries /\ t[x] = row /\ \A e \in EntryIds \ {x} : t[e] = entry[e]
  BY <1>2, <1>3, EntryWritten
<1> HIDE DEF t
<1>7. /\ EntriesHaveMoney(t) /\ LegsMatch(t) /\ MovedOnce(t) /\ SameRepayments(entry, t)
      /\ CashSuffices(t) /\ ConversionFits(t)
  <2>1. t[x].place \in Places /\ t[x].amount > 0 /\ t[x].place = "cash"
    BY <1>1, <1>3, <1>6 DEF Places
  <2>2. CashInHand >= 0 => CashInHand - Worth(entry[x]) + Worth(t[x]) >= 0
    BY <1>1, <1>4, <1>5, <1>6 DEF EnsureCash
  <2>3. QED
    BY <1>1, <1>2, <1>6, <2>1, <2>2, OneEntry
<1>8. QED
  BY <1>1, <1>6, <1>7, EntriesOnly DEF t

LEMMA LegIds ==
  ASSUME NEW key \in Keys
  PROVE  /\ <<key, "TRANSFER_OUT">> \in EntryIds /\ <<key, "TRANSFER_IN">> \in EntryIds
         /\ <<key, "TRANSFER_OUT">> # <<key, "TRANSFER_IN">>
BY DEF EntryIds, Kinds

LEMMA TransferKeeps ==
  ASSUME CashBookAssumption, IInv, NEW q \in Requests, NEW key \in Keys, NEW from \in Places,
         NEW to \in Places, NEW amount \in Amount, Transfer(q, key, from, to, amount)
  PROVE  IInv'
<1> DEFINE x == <<key, "TRANSFER_OUT">>
           y == <<key, "TRANSFER_IN">>
           out == NewEntry(from, amount, FALSE)
           into == NewEntry(to, amount, TRUE)
           rows == [e \in {x, y} |-> IF e[2] = "TRANSFER_OUT" THEN out ELSE into]
           t == Written(entry, rows)
<1>1. /\ amount > 0 /\ from # to /\ entry[x] = NoEntry /\ entry[y] = NoEntry
      /\ from = "cash" => EnsureCash(-amount)
      /\ Check(q, "transfer", [NoJob EXCEPT !.entry = rows])
  BY DEF Transfer
<1>2. x \in EntryIds /\ y \in EntryIds /\ x # y
  BY LegIds
<1>3. /\ out \in EntryType /\ out.place = from /\ out.amount = amount /\ out.in = FALSE
      /\ into \in EntryType /\ into.place = to /\ into.amount = amount /\ into.in = TRUE
      /\ out # NoEntry /\ into # NoEntry
  BY NoEntryType
<1>4. amount \in Int /\ CashInHand \in Int
  BY EntryRows DEF Amount, CashBookAssumption
<1> HIDE DEF out, into
<1>5. /\ Worth(out) = (IF from = "cash" THEN -amount ELSE 0)
      /\ Worth(into) = (IF to = "cash" THEN amount ELSE 0)
      /\ Worth(entry[x]) = 0 /\ Worth(entry[y]) = 0
  BY <1>1, <1>3, <1>4, NoEntryType DEF Worth, Signed
<1>6. /\ t \in Entries /\ t[x] = out /\ t[y] = into
      /\ \A e \in EntryIds \ {x, y} : t[e] = entry[e]
  BY <1>2, <1>3, EntryRows DEF Entries, Written
<1> HIDE DEF t, rows
<1>7. /\ EntriesHaveMoney(t) /\ LegsMatch(t) /\ MovedOnce(t) /\ SameRepayments(entry, t)
      /\ CashSuffices(t) /\ ConversionFits(t)
  <2>1. CashInHand >= 0
          => CashInHand - Worth(entry[x]) + Worth(t[x]) - Worth(entry[y]) + Worth(t[y]) >= 0
    BY <1>1, <1>4, <1>5, <1>6 DEF EnsureCash
  <2>2. QED
    BY <1>1, <1>3, <1>6, <2>1, BothLegs
<1>8. QED
  BY <1>1, <1>6, <1>7, EntriesOnly DEF t

\* entryGroup(): both legs of a transfer, or the entry alone.
LEMMA Groups ==
  ASSUME CashBookAssumption, IInv, NEW e \in Posted, e[2] \in Editable
  PROVE  \/ /\ e[2] \in {"OTHER_INCOME", "CASH_ADJUSTMENT"} /\ EntryGroup(e) = {e}
         \/ \E key \in Keys :
              /\ EntryGroup(e) = {<<key, "TRANSFER_OUT">>, <<key, "TRANSFER_IN">>}
              /\ entry[<<key, "TRANSFER_OUT">>] # NoEntry /\ entry[<<key, "TRANSFER_IN">>] # NoEntry
<1>1. CASE e[2] \notin {"TRANSFER_OUT", "TRANSFER_IN"}
  BY <1>1 DEF EntryGroup, Editable
<1>2. CASE e[2] \in {"TRANSFER_OUT", "TRANSFER_IN"}
  <2>1. PICK key \in Keys : e = <<key, "TRANSFER_OUT">> \/ e = <<key, "TRANSFER_IN">>
    BY <1>2 DEF Posted, EntryIds
  <2>2. entry[<<key, "TRANSFER_OUT">>] # NoEntry /\ entry[<<key, "TRANSFER_IN">>] # NoEntry
    BY <2>1 DEF Posted, IInv, InOrder, LegsMatch
  <2>3. <<key, "TRANSFER_OUT">> \in Posted /\ <<key, "TRANSFER_IN">> \in Posted
    BY <2>2, LegIds DEF Posted
  <2>4. EntryGroup(e) = ({key} \X {"TRANSFER_OUT", "TRANSFER_IN"}) \cap Posted
    BY <2>1 DEF EntryGroup
  <2>5. {key} \X {"TRANSFER_OUT", "TRANSFER_IN"}
          = {<<key, "TRANSFER_OUT">>, <<key, "TRANSFER_IN">>}
    OBVIOUS
  <2>6. EntryGroup(e) = {<<key, "TRANSFER_OUT">>, <<key, "TRANSFER_IN">>}
    BY <2>3, <2>4, <2>5
  <2>7. QED
    BY <2>2, <2>6
<1>3. QED
  BY <1>1, <1>2

LEMMA UpdateEntryKeeps ==
  ASSUME CashBookAssumption, IInv, NEW q \in Requests, NEW e \in EntryIds, NEW amount \in Amount,
         NEW in \in BOOLEAN, UpdateEntry(q, e, amount, in)
  PROVE  IInv'
<1> DEFINE Into(g) == IF g[2] = "CASH_ADJUSTMENT" THEN in ELSE entry[g].in
           row == [g \in EntryIds |-> [entry[g] EXCEPT !.amount = amount, !.in = Into(g)]]
           rows == [g \in EntryGroup(e) |-> row[g]]
           t == Written(entry, rows)
<1>1. /\ e \in Posted /\ e[2] \in Editable /\ amount > 0 /\ EntryGroup(e) \subseteq EntryIds
      /\ \A g \in EntryGroup(e) :
           entry[g].place = "cash" => EnsureCash(Signed(row[g]) - Signed(entry[g]))
      /\ Check(q, "update", [NoJob EXCEPT !.entry = rows])
  <2>1. e \in Posted /\ e[2] \in Editable /\ amount > 0
    BY DEF UpdateEntry
  <2>2. EntryGroup(e) \subseteq EntryIds
    BY DEF EntryGroup, Posted
  <2> DEFINE next == [g \in EntryGroup(e) |->
                 [entry[g] EXCEPT !.amount = amount,
                                  !.in = IF g[2] = "CASH_ADJUSTMENT" THEN in ELSE @]]
  <2>3. next = rows
    BY <2>2
  <2>4. /\ \A g \in {h \in EntryGroup(e) : entry[h].place = "cash"} :
              EnsureCash(Signed(next[g]) - Signed(entry[g]))
        /\ Check(q, "update", [NoJob EXCEPT !.entry = next])
    BY DEF UpdateEntry
  <2> HIDE DEF next, row
  <2>5. \A g \in EntryGroup(e) : next[g] = row[g]
    BY <2>3
  <2> QED
    BY <2>1, <2>2, <2>3, <2>4, <2>5
<1>2. amount \in Int /\ CashInHand \in Int
  BY EntryRows DEF Amount, CashBookAssumption
<1>3. ASSUME NEW g \in Posted
      PROVE  /\ row[g] \in EntryType /\ row[g] # NoEntry /\ row[g].place = entry[g].place
             /\ row[g].amount = amount /\ row[g].in = Into(g) /\ row[g].place \in Places
  <2>1. g \in EntryIds /\ Into(g) \in BOOLEAN
    BY EntryRows DEF Posted
  <2>2. entry[g] \in EntryType /\ entry[g].place \in Places /\ amount > 0
    BY <1>1, <2>1, EntryRows DEF Posted, IInv, InOrder, EntriesHaveMoney
  <2>3. row[g] = [entry[g] EXCEPT !.amount = amount, !.in = Into(g)]
    BY <2>1
  <2> HIDE DEF row, rows, t, Into
  <2>4. PICK old \in EntryType, to \in BOOLEAN : old = entry[g] /\ to = Into(g)
    BY <2>1, <2>2
  <2>5. row[g] = [old EXCEPT !.amount = amount, !.in = to] /\ old.place \in Places
    BY <2>2, <2>3, <2>4
  <2>6. /\ row[g] \in EntryType /\ row[g].place = old.place
        /\ row[g].amount = amount /\ row[g].in = to
    BY <2>5 DEF EntryType
  <2>7. row[g] # NoEntry
    BY <2>2, <2>6 DEF NoEntry
  <2>8. QED
    BY <2>4, <2>5, <2>6, <2>7
<1> HIDE DEF row
<1>4. ASSUME NEW g \in EntryGroup(e), g \in Posted
      PROVE  /\ Worth(row[g]) \in Int /\ Worth(entry[g]) \in Int
             /\ CashInHand >= 0 => CashInHand - Worth(entry[g]) + Worth(row[g]) >= 0
             /\ row[g].place # "cash" => Worth(row[g]) = 0 /\ Worth(entry[g]) = 0
  <2>0. g \in EntryIds
    BY <1>4 DEF Posted
  <2>1. Worth(entry[g]) \in Int /\ entry[g].amount \in Int
    BY <2>0, EntryRows
  <2>2. Signed(row[g]) \in Int /\ Signed(entry[g]) \in Int
    BY <1>2, <1>3, <1>4, <2>1 DEF Signed
  <2>3. row[g].place = entry[g].place
    BY <1>3, <1>4
  <2>4. entry[g].place = "cash" => EnsureCash(Signed(row[g]) - Signed(entry[g]))
    BY <1>1
  <2>5. QED
    BY <1>2, <2>1, <2>2, <2>3, <2>4 DEF Worth, EnsureCash
<1>5. /\ t \in Entries
      /\ \A g \in EntryIds : t[g] = IF g \in EntryGroup(e) THEN row[g] ELSE entry[g]
  <2>1. \A g \in EntryGroup(e) : row[g] \in EntryType
    <3>1. EntryGroup(e) \subseteq Posted
      BY <1>1 DEF EntryGroup
    <3>2. QED
      BY <1>3, <3>1
  <2>2. QED
    BY <1>1, <2>1, EntryRows DEF Entries, Written
<1> HIDE DEF t, rows
<1>6. /\ EntriesHaveMoney(t) /\ LegsMatch(t) /\ MovedOnce(t) /\ SameRepayments(entry, t)
      /\ CashSuffices(t) /\ ConversionFits(t)
  <2>1. CASE e[2] \in {"OTHER_INCOME", "CASH_ADJUSTMENT"} /\ EntryGroup(e) = {e}
    <3>1. t[e] = row[e] /\ \A g \in EntryIds \ {e} : t[g] = entry[g]
      BY <1>5, <2>1
    <3>2. /\ t[e].place \in Places /\ t[e].amount > 0
          /\ e[2] = "CASH_ADJUSTMENT" => t[e].place = "cash"
      <4>1. e[2] = "CASH_ADJUSTMENT" => entry[e].place = "cash"
        BY <1>1 DEF Posted, IInv, InOrder, EntriesHaveMoney
      <4>2. QED
        BY <1>1, <1>3, <3>1, <4>1
    <3>3. CashInHand >= 0 => CashInHand - Worth(entry[e]) + Worth(t[e]) >= 0
      BY <1>1, <1>4, <2>1, <3>1
    <3>4. e[2] = "CASH_ADJUSTMENT" => entry[<<e[1], "LOAN_PAYMENT">>] = NoEntry
      BY <1>1 DEF Posted, EntryIds, IInv, InOrder, MovedOnce
    <3>5. QED
      BY <1>5, <2>1, <3>1, <3>2, <3>3, <3>4, OneEntry
  <2>2. ASSUME NEW key \in Keys,
               EntryGroup(e) = {<<key, "TRANSFER_OUT">>, <<key, "TRANSFER_IN">>},
               entry[<<key, "TRANSFER_OUT">>] # NoEntry, entry[<<key, "TRANSFER_IN">>] # NoEntry
        PROVE  /\ EntriesHaveMoney(t) /\ LegsMatch(t) /\ MovedOnce(t) /\ SameRepayments(entry, t)
               /\ CashSuffices(t) /\ ConversionFits(t)
    <3> DEFINE x == <<key, "TRANSFER_OUT">>
               y == <<key, "TRANSFER_IN">>
    <3>1. x \in Posted /\ y \in Posted /\ x \in EntryGroup(e) /\ y \in EntryGroup(e)
      BY <2>2, LegIds DEF Posted
    <3>2. /\ t[x] = row[x] /\ t[y] = row[y]
          /\ \A g \in EntryIds \ {x, y} : t[g] = entry[g]
      BY <1>5, <2>2, LegIds
    <3>3. /\ entry[x].place # entry[y].place /\ entry[y].in /\ ~entry[x].in
      BY <2>2 DEF IInv, InOrder, LegsMatch
    <3>4. Into(x) = entry[x].in /\ Into(y) = entry[y].in
      OBVIOUS
    <3>5. /\ t[x] # NoEntry /\ t[y] # NoEntry /\ t[x].amount = t[y].amount
          /\ t[x].place # t[y].place /\ t[y].in /\ ~t[x].in /\ t[x].amount > 0
          /\ t[x].place \in Places /\ t[y].place \in Places
      BY <1>1, <1>3, <3>1, <3>2, <3>3, <3>4
    <3>6. CashInHand >= 0
            => CashInHand - Worth(entry[x]) + Worth(t[x]) - Worth(entry[y]) + Worth(t[y]) >= 0
      BY <1>2, <1>4, <3>1, <3>2, <3>5
    <3> HIDE DEF Into
    <3>7. QED
      BY <1>5, <3>2, <3>5, <3>6, BothLegs
  <2>3. QED
    BY <1>1, <2>1, <2>2, Groups
<1>7. QED
  BY <1>1, <1>5, <1>6, EntriesOnly DEF t

LEMMA RemoveEntryKeeps ==
  ASSUME CashBookAssumption, IInv, NEW q \in Requests, NEW e \in EntryIds, RemoveEntry(q, e)
  PROVE  IInv'
<1> DEFINE rows == [g \in EntryGroup(e) |-> NoEntry]
           t == Written(entry, rows)
<1>1. /\ e \in Posted /\ e[2] \in Editable /\ EntryGroup(e) \subseteq EntryIds
      /\ \A g \in EntryGroup(e) : entry[g].place = "cash" => EnsureCash(-Signed(entry[g]))
      /\ Check(q, "remove", [NoJob EXCEPT !.entry = rows])
  BY DEF RemoveEntry, EntryGroup, Posted
<1>2. CashInHand \in Int
  BY EntryRows
<1>3. ASSUME NEW g \in EntryGroup(e)
      PROVE  /\ Worth(entry[g]) \in Int
             /\ entry[g].place # "cash" => Worth(entry[g]) = 0
             /\ CashInHand >= 0 => CashInHand - Worth(entry[g]) >= 0
  <2>1. g \in EntryIds /\ (entry[g].place = "cash" => EnsureCash(-Signed(entry[g])))
    BY <1>1
  <2>2. Worth(entry[g]) \in Int /\ entry[g].amount \in Int
    BY <2>1, EntryRows
  <2>3. Signed(entry[g]) \in Int
    BY <2>2 DEF Signed
  <2>4. QED
    BY <1>2, <2>1, <2>2, <2>3 DEF Worth, EnsureCash
<1>4. Worth(NoEntry) = 0 /\ NoEntry \in EntryType
  BY NoEntryType
<1>5. /\ t \in Entries
      /\ \A g \in EntryIds : t[g] = IF g \in EntryGroup(e) THEN NoEntry ELSE entry[g]
  BY <1>1, <1>4, EntryRows DEF Entries, Written
<1> HIDE DEF t, rows
<1>6. /\ EntriesHaveMoney(t) /\ LegsMatch(t) /\ MovedOnce(t) /\ SameRepayments(entry, t)
      /\ CashSuffices(t) /\ ConversionFits(t)
  <2>1. CASE e[2] \in {"OTHER_INCOME", "CASH_ADJUSTMENT"} /\ EntryGroup(e) = {e}
    <3>1. t[e] = NoEntry /\ \A g \in EntryIds \ {e} : t[g] = entry[g]
      BY <1>5, <2>1
    <3>2. CashInHand >= 0 => CashInHand - Worth(entry[e]) + Worth(t[e]) >= 0
      BY <1>2, <1>3, <1>4, <2>1, <3>1
    <3>3. e[2] = "CASH_ADJUSTMENT" => entry[<<e[1], "LOAN_PAYMENT">>] = NoEntry
      BY <1>1 DEF Posted, EntryIds, IInv, InOrder, MovedOnce
    <3>4. QED
      BY <1>5, <2>1, <3>1, <3>2, <3>3, OneEntry
  <2>2. ASSUME NEW key \in Keys,
               EntryGroup(e) = {<<key, "TRANSFER_OUT">>, <<key, "TRANSFER_IN">>},
               entry[<<key, "TRANSFER_OUT">>] # NoEntry, entry[<<key, "TRANSFER_IN">>] # NoEntry
        PROVE  /\ EntriesHaveMoney(t) /\ LegsMatch(t) /\ MovedOnce(t) /\ SameRepayments(entry, t)
               /\ CashSuffices(t) /\ ConversionFits(t)
    <3> DEFINE x == <<key, "TRANSFER_OUT">>
               y == <<key, "TRANSFER_IN">>
    <3>1. x \in EntryGroup(e) /\ y \in EntryGroup(e)
      BY <2>2
    <3>2. t[x] = NoEntry /\ t[y] = NoEntry /\ \A g \in EntryIds \ {x, y} : t[g] = entry[g]
      BY <1>5, <2>2, LegIds
    <3>3. entry[x].place # entry[y].place
      BY <2>2 DEF IInv, InOrder, LegsMatch
    <3>4. CashInHand >= 0
            => CashInHand - Worth(entry[x]) + Worth(t[x]) - Worth(entry[y]) + Worth(t[y]) >= 0
      BY <1>2, <1>3, <1>4, <3>1, <3>2, <3>3
    <3>5. QED
      BY <1>5, <3>2, <3>4, BothLegs
  <2>3. QED
    BY <1>1, <2>1, <2>2, Groups
<1>7. QED
  BY <1>1, <1>5, <1>6, EntriesOnly DEF t

-----------------------------------------------------------------------------
(* Loans.                                                                    *)

LEMMA LoanEntryType ==
  ASSUME CashBookAssumption, NEW place \in Places, NEW amount \in Amount, NEW in \in BOOLEAN,
         NEW l \in Loans
  PROVE  LET row == LoanEntry(place, amount, in, l) IN
         /\ row \in EntryType /\ row # NoEntry /\ row.place = place /\ row.amount = amount
         /\ row.in = in /\ row.loan = l
BY DEF LoanEntry, EntryType, NoEntry, CashBookAssumption, Places

LEMMA CreateLoanKeeps ==
  ASSUME CashBookAssumption, IInv, NEW q \in Requests, NEW l \in Loans, NEW key \in Keys,
         NEW principal \in Amount, NEW place \in Banks \cup {"none"},
         CreateLoan(q, l, key, principal, place)
  PROVE  IInv'
<1> DEFINE x == <<key, "LOAN_OPENING">>
           row == LoanEntry(place, principal, TRUE, l)
           made == [key |-> key, principal |-> principal]
           rows == [NoJob EXCEPT !.loan = One(l, made),
                                 !.entry = IF place = "none" THEN Nothing ELSE One(x, row)]
           t == Written(entry, rows.entry)
           u == Written(loan, rows.loan)
<1>1. /\ loan[l] = NoLoan /\ principal > 0 /\ Check(q, "loan", rows)
      /\ place # "none" => entry[x] = NoEntry
  BY DEF CreateLoan
<1>2. /\ rows.loan = One(l, made) /\ rows.repaid = Nothing
      /\ rows.entry = IF place = "none" THEN Nothing ELSE One(x, row)
  BY DEF NoJob
<1>3. entry \in Entries /\ loan \in Loaned /\ repaid \in Repaid /\ LoansFit(loan, repaid)
  BY DEF IInv, InOrder, Entries, Loaned, Repaid
<1>4. /\ u \in Loaned /\ u[l] = made
      /\ \A m \in Loans \ {l} : u[m] = loan[m]
  <2>1. made \in LoanType
    BY DEF LoanType
  <2>2. u = Written(loan, One(l, made))
    BY <1>2
  <2> HIDE DEF made, u
  <2>3. QED
    BY <1>3, <2>1, <2>2 DEF Loaned, Written, One
<1>5. /\ t \in Entries /\ EntriesHaveMoney(t) /\ LegsMatch(t) /\ MovedOnce(t)
      /\ SameRepayments(entry, t) /\ CashSuffices(t) /\ ConversionFits(t)
  <2>1. CASE place = "none"
    <3>1. t = entry
      BY <1>2, <2>1, WrittenNothing
    <3> HIDE DEF t
    <3>2. QED
      BY <1>3, <3>1 DEF IInv, InOrder, SameRepayments, ConversionFits
  <2>2. CASE place # "none"
    <3>1. place \in Places /\ place # "cash"
      BY <2>2 DEF Places, CashBookAssumption
    <3>2. x \in EntryIds /\ x[2] = "LOAN_OPENING"
      BY DEF EntryIds, Kinds
    <3>3. row \in EntryType /\ row.place = place /\ row.amount = principal
      BY <3>1 DEF LoanEntry, EntryType
    <3>4. t = Written(entry, One(x, row))
      BY <1>2, <2>2
    <3> HIDE DEF t, x, row, rows
    <3>5. t \in Entries /\ t[x] = row /\ \A e \in EntryIds \ {x} : t[e] = entry[e]
      BY <3>2, <3>3, <3>4, EntryWritten
    <3>6. Worth(t[x]) = 0 /\ Worth(entry[x]) = 0
      BY <1>1, <2>2, <3>1, <3>3, <3>5, NoEntryType DEF Worth
    <3>7. CashInHand >= 0 => CashInHand - Worth(entry[x]) + Worth(t[x]) >= 0
      BY <3>6, EntryRows
    <3>8. QED
      BY <1>1, <3>1, <3>2, <3>3, <3>5, <3>7, OneEntry
  <2>3. QED
    BY <2>1, <2>2
<1>6. LoansFit(u, repaid)
  <2>1. loan[l].principal = 0
    BY <1>1 DEF NoLoan
  <2>2. u[l].principal = principal /\ principal \in Int
    BY <1>4 DEF Amount, CashBookAssumption
  <2> HIDE DEF u
  <2>3. SumOf({l} \X Keys, PrincipalsOf(repaid)) \in Nat
    BY <1>3, PrincipalsAreAmounts
  <2>4. ASSUME NEW m \in Loans
        PROVE  SumOf({m} \X Keys, PrincipalsOf(repaid)) <= u[m].principal
    <3>1. SumOf({m} \X Keys, PrincipalsOf(repaid)) <= loan[m].principal
      BY <1>3 DEF LoansFit
    <3>2. CASE m = l
      BY <1>1, <2>1, <2>2, <2>3, <3>1, <3>2
    <3>3. CASE m # l
      BY <1>4, <3>1, <3>3
    <3>4. QED
      BY <3>2, <3>3
  <2>5. QED
    BY <2>4 DEF LoansFit
<1> HIDE DEF t, u, rows
<1>7. InStep(repaid, t)
  BY <1>5 DEF IInv, InOrder, InStep, SameRepayments, RepaymentIds
<1>8. InOrder(t, u, repaid)
  BY <1>3, <1>4, <1>5, <1>6, <1>7 DEF InOrder, Entries, Loaned, Repaid
<1>9. Written(repaid, rows.repaid) = repaid
  BY <1>2, WrittenNothing
<1>10. QED
  BY <1>1, <1>5, <1>8, <1>9, CheckKeeps DEF t, u

\* A repayment of l and its entry are made or removed together.
LEMMA OneRepayment ==
  ASSUME CashBookAssumption, IInv, NEW l \in Loans, NEW key \in Keys,
         NEW t \in Entries, NEW u \in Repaid,
         \A e \in EntryIds \ {<<key, "LOAN_PAYMENT">>, <<key, "CASH_ADJUSTMENT">>} : t[e] = entry[e],
         \A r \in RepaymentIds \ {<<l, key>>} : u[r] = repaid[r],
         \A m \in Loans \ {l} : repaid[<<m, key>>] = NoRepayment,
         t[<<key, "CASH_ADJUSTMENT">>] \in {entry[<<key, "CASH_ADJUSTMENT">>], NoEntry},
         t[<<key, "LOAN_PAYMENT">>] = NoEntry <=> u[<<l, key>>] = NoRepayment,
         LET row == t[<<key, "LOAN_PAYMENT">>] IN
           row # NoEntry =>
             /\ row.place \in Places /\ row.amount > 0 /\ row.loan = l /\ ~row.in
             /\ row.amount = u[<<l, key>>].principal + u[<<l, key>>].interest
             /\ t[<<key, "CASH_ADJUSTMENT">>] = NoEntry,
         LoanBalance(l) + repaid[<<l, key>>].principal - u[<<l, key>>].principal >= 0
  PROVE  /\ EntriesHaveMoney(t) /\ LegsMatch(t) /\ MovedOnce(t) /\ InStep(u, t)
         /\ LoansFit(loan, u)
<1> DEFINE x == <<l, key>>
           y == <<key, "LOAN_PAYMENT">>
           z == <<key, "CASH_ADJUSTMENT">>
<1>1. /\ entry \in Entries /\ EntriesHaveMoney(entry) /\ LegsMatch(entry) /\ MovedOnce(entry)
      /\ InStep(repaid, entry) /\ LoansFit(loan, repaid) /\ repaid \in Repaid /\ loan \in Loaned
  BY DEF IInv, InOrder, Entries, Repaid, Loaned
<1>2. y \in EntryIds /\ z \in EntryIds /\ x \in RepaymentIds /\ y[2] # "CASH_ADJUSTMENT"
  BY DEF EntryIds, Kinds, RepaymentIds
<1>3. EntriesHaveMoney(t)
  BY <1>1, <1>2 DEF EntriesHaveMoney
<1>4. LegsMatch(t)
  <2>1. \A k \in Keys : /\ t[<<k, "TRANSFER_OUT">>] = entry[<<k, "TRANSFER_OUT">>]
                        /\ t[<<k, "TRANSFER_IN">>] = entry[<<k, "TRANSFER_IN">>]
    BY DEF EntryIds, Kinds
  <2>2. QED
    BY <1>1, <2>1 DEF LegsMatch
<1>5. \A k \in Keys \ {key} :
        /\ t[<<k, "LOAN_PAYMENT">>] = entry[<<k, "LOAN_PAYMENT">>]
        /\ t[<<k, "CASH_ADJUSTMENT">>] = entry[<<k, "CASH_ADJUSTMENT">>]
        /\ \A m \in Loans : u[<<m, k>>] = repaid[<<m, k>>]
  BY DEF EntryIds, Kinds, RepaymentIds
<1>6. MovedOnce(t)
  BY <1>1, <1>5 DEF MovedOnce
<1>7. \A m \in Loans \ {l} : u[<<m, key>>] = NoRepayment
  BY DEF RepaymentIds
<1>8. InStep(u, t)
  <2>1. ASSUME NEW m \in Loans, NEW k \in Keys, u[<<m, k>>] # NoRepayment
        PROVE  /\ t[<<k, "LOAN_PAYMENT">>].loan = m /\ ~t[<<k, "LOAN_PAYMENT">>].in
               /\ t[<<k, "LOAN_PAYMENT">>].amount = u[<<m, k>>].principal + u[<<m, k>>].interest
    <3>1. CASE k = key
      <4>1. m = l
        BY <1>7, <2>1, <3>1
      <4>2. u[x] # NoRepayment
        BY <2>1, <3>1, <4>1
      <4>3. t[y] # NoEntry
        BY <4>2
      <4>4. /\ t[y].loan = l /\ ~t[y].in
            /\ t[y].amount = u[x].principal + u[x].interest
        BY <4>3
      <4>5. <<m, k>> = x /\ <<k, "LOAN_PAYMENT">> = y
        BY <3>1, <4>1
      <4>6. QED
        BY <4>1, <4>4, <4>5
    <3>2. CASE k # key
      <4>1. <<m, k>> \in RepaymentIds /\ <<m, k>>[1] = m /\ <<m, k>>[2] = k
        BY DEF RepaymentIds
      <4>2. QED
        BY <1>1, <1>5, <2>1, <3>2, <4>1 DEF InStep
    <3>3. QED
      BY <3>1, <3>2
  <2>2. ASSUME NEW k \in Keys, t[<<k, "LOAN_PAYMENT">>] # NoEntry
        PROVE  \E m \in Loans : u[<<m, k>>] # NoRepayment
    <3>1. CASE k = key
      BY <2>2, <3>1
    <3>2. CASE k # key
      <4>1. entry[<<k, "LOAN_PAYMENT">>] # NoEntry
        BY <1>5, <2>2, <3>2
      <4>2. PICK m \in Loans : repaid[<<m, k>>] # NoRepayment
        BY <1>1, <4>1 DEF InStep
      <4>3. QED
        BY <1>5, <3>2, <4>2
    <3>3. QED
      BY <3>1, <3>2
  <2>3. QED
    BY <2>1, <2>2 DEF InStep, RepaymentIds
<1>9. LoansFit(loan, u)
  <2> DEFINE paid(m) == SumOf({m} \X Keys, PrincipalsOf(repaid))
             next(m) == SumOf({m} \X Keys, PrincipalsOf(u))
  <2>1. /\ next(l) = paid(l) - repaid[x].principal + u[x].principal
        /\ \A m \in Loans \ {l} : next(m) = paid(m)
    BY <1>1, OneRepaymentChanges
  <2>2. LoanBalance(l) = loan[l].principal - paid(l)
    BY <1>1, RepaymentsSum DEF LoanBalance
  <2>3. /\ paid(l) \in Nat /\ loan[l].principal \in Int
        /\ repaid[x].principal \in Int /\ u[x].principal \in Int
    <3>1. paid(l) \in Nat
      BY <1>1, PrincipalsAreAmounts
    <3>2. repaid[x] \in RepaymentType /\ u[x] \in RepaymentType /\ loan[l] \in LoanType
      BY <1>1, <1>2 DEF Repaid, Loaned
    <3>3. QED
      BY <3>1, <3>2 DEF RepaymentType, LoanType, Amount, CashBookAssumption
  <2> HIDE DEF paid, next
  <2>4. next(l) <= loan[l].principal
    BY <2>1, <2>2, <2>3
  <2>5. \A m \in Loans : paid(m) <= loan[m].principal
    BY <1>1 DEF LoansFit, paid
  <2>6. \A m \in Loans : next(m) <= loan[m].principal
    BY <2>1, <2>4, <2>5
  <2>7. QED
    BY <2>6 DEF LoansFit, next
<1>10. QED
  BY <1>3, <1>4, <1>6, <1>8, <1>9

\* A handler that stores a repayment and its entries.
LEMMA RepaymentOnly ==
  ASSUME IInv, NEW q \in Requests, NEW op, NEW entries, NEW repayments,
         Check(q, op, [NoJob EXCEPT !.repaid = repayments, !.entry = entries]),
         NEW t \in Entries, t = Written(entry, entries),
         NEW u \in Repaid, u = Written(repaid, repayments),
         EntriesHaveMoney(t), LegsMatch(t), MovedOnce(t), InStep(u, t), LoansFit(loan, u),
         CashSuffices(t), ConversionFits(t)
  PROVE  IInv'
<1> DEFINE stored == [NoJob EXCEPT !.repaid = repayments, !.entry = entries]
<1>1. stored.entry = entries /\ stored.loan = Nothing /\ stored.repaid = repayments
  BY DEF NoJob
<1>2. InOrder(t, loan, u)
  BY DEF IInv, InOrder, Entries, Repaid
<1> HIDE DEF stored
<1>3. /\ Written(entry, stored.entry) = t /\ Written(loan, stored.loan) = loan
      /\ Written(repaid, stored.repaid) = u
  BY <1>1, WrittenNothing
<1>4. Check(q, op, stored)
  BY DEF stored
<1>5. QED
  BY <1>2, <1>3, <1>4, CheckKeeps

\* What a table of repayments in order is like.
LEMMA RepaymentWritten ==
  ASSUME CashBookAssumption, IInv, NEW l \in Loans, NEW key \in Keys, NEW row \in RepaymentType
  PROVE  LET u == Written(repaid, One(<<l, key>>, row)) IN
         /\ u \in Repaid /\ u[<<l, key>>] = row
         /\ \A r \in RepaymentIds \ {<<l, key>>} : u[r] = repaid[r]
<1>1. repaid \in [RepaymentIds -> RepaymentType] /\ <<l, key>> \in RepaymentIds
  BY DEF IInv, InOrder, RepaymentIds
<1>2. QED
  BY <1>1 DEF Repaid, Written, One

\* A request that posted no repayment's entry repaid no loan.
LEMMA NotRepaid ==
  ASSUME CashBookAssumption, IInv, NEW key \in Keys, entry[<<key, "LOAN_PAYMENT">>] = NoEntry
  PROVE  \A m \in Loans : repaid[<<m, key>>] = NoRepayment
<1>1. \A r \in RepaymentIds : repaid[r] # NoRepayment
        => entry[<<r[2], "LOAN_PAYMENT">>].loan = r[1]
  BY DEF IInv, InOrder, InStep
<1>2. \A m \in Loans : <<m, key>> \in RepaymentIds
  BY DEF RepaymentIds
<1>3. entry[<<key, "LOAN_PAYMENT">>].loan \notin Loans
  BY DEF NoEntry, CashBookAssumption
<1>4. QED
  BY <1>1, <1>2, <1>3

\* No loan of a book in order is overpaid.
LEMMA LoanBalanceFits ==
  ASSUME CashBookAssumption, IInv, NEW l \in Loans
  PROVE  /\ LoanBalance(l) \in Int /\ LoanBalance(l) >= 0
         /\ SumOf(Repayments(l), Principals) <= loan[l].principal
<1>1. repaid \in Repaid /\ loan \in Loaned /\ LoansFit(loan, repaid)
  BY DEF IInv, InOrder, Repaid, Loaned
<1>2. /\ SumOf(Repayments(l), Principals) \in Nat
      /\ SumOf(Repayments(l), Principals) <= loan[l].principal
  BY <1>1, RepaymentsSum, PrincipalsAreAmounts DEF LoansFit
<1>3. loan[l].principal \in Int
  BY <1>1 DEF Loaned, LoanType, Amount, CashBookAssumption
<1>4. QED
  BY <1>2, <1>3 DEF LoanBalance

LEMMA PayLoanKeeps ==
  ASSUME CashBookAssumption, IInv, NEW q \in Requests, NEW l \in Loans, NEW key \in Keys,
         NEW principal \in Amount, NEW interest \in Amount, NEW place \in Places,
         PayLoan(q, l, key, principal, interest, place)
  PROVE  IInv'
<1> DEFINE x == <<l, key>>
           y == <<key, "LOAN_PAYMENT">>
           z == <<key, "CASH_ADJUSTMENT">>
           paid == [principal |-> principal, interest |-> interest]
           row == LoanEntry(place, principal + interest, FALSE, l)
           t == Written(entry, One(y, row))
           u == Written(repaid, One(x, paid))
<1>1. /\ principal + interest \in 1 .. MaxAmount /\ entry[y] = NoEntry /\ entry[z] = NoEntry
      /\ repaid[x] = NoRepayment /\ principal <= LoanBalance(l)
      /\ place = "cash" => EnsureCash(-(principal + interest))
      /\ Check(q, "pay", [NoJob EXCEPT !.repaid = One(x, paid), !.entry = One(y, row)])
  BY DEF PayLoan, MayRepay, Unused, Kinds
<1>2. /\ principal \in Int /\ interest \in Int /\ principal + interest \in Amount
      /\ principal + interest > 0 /\ CashInHand \in Int
  BY <1>1, EntryRows DEF Amount, CashBookAssumption
<1>3. y \in EntryIds /\ z \in EntryIds /\ y # z
  BY DEF EntryIds, Kinds
<1>4. /\ row \in EntryType /\ row # NoEntry /\ row.place = place /\ row.in = FALSE /\ row.loan = l
      /\ row.amount = principal + interest
  BY <1>2 DEF LoanEntry, EntryType, NoEntry, CashBookAssumption
<1>5. /\ paid \in RepaymentType /\ paid # NoRepayment
      /\ paid.principal = principal /\ paid.interest = interest
  BY <1>2 DEF RepaymentType, NoRepayment
<1> HIDE DEF row, paid, y
<1>6. t \in Entries /\ t[y] = row /\ \A e \in EntryIds \ {y} : t[e] = entry[e]
  BY <1>3, <1>4, EntryWritten
<1>7. u \in Repaid /\ u[x] = paid /\ \A r \in RepaymentIds \ {x} : u[r] = repaid[r]
  BY <1>5, RepaymentWritten
<1> HIDE DEF t, u
<1>8. \A m \in Loans \ {l} : repaid[<<m, key>>] = NoRepayment
  BY <1>1, NotRepaid DEF y
<1>9. EntriesHaveMoney(t) /\ LegsMatch(t) /\ MovedOnce(t) /\ InStep(u, t) /\ LoansFit(loan, u)
  <2>1. t[z] = entry[z] /\ t[z] = NoEntry
    BY <1>1, <1>3, <1>6
  <2>2. LoanBalance(l) \in Int
    BY LoanBalanceFits
  <2>3. repaid[x].principal = 0
    BY <1>1 DEF NoRepayment
  <2>4. LoanBalance(l) + repaid[x].principal - u[x].principal >= 0
    BY <1>1, <1>2, <1>5, <1>7, <2>2, <2>3
  <2>5. QED
    BY <1>2, <1>4, <1>5, <1>6, <1>7, <1>8, <2>1, <2>4, OneRepayment DEF y
<1>10. CashSuffices(t)
  <2>1. Worth(entry[y]) = 0
    BY <1>1, NoEntryType
  <2>2. Worth(row) = IF place = "cash" THEN -(principal + interest) ELSE 0
    BY <1>2, <1>4 DEF Worth, Signed
  <2>3. CashOf(t) = CashInHand - Worth(entry[y]) + Worth(t[y])
    BY <1>3, <1>6, EntryRows, CashInHandIsCash, OneEntryChanges DEF IInv
  <2>4. CashInHand = CashOf(entry)
    BY EntryRows, CashInHandIsCash
  <2>5. QED
    BY <1>1, <1>2, <1>6, <2>1, <2>2, <2>3, <2>4 DEF CashSuffices, EnsureCash, IInv, InOrder
<1>11. ConversionFits(t)
  <2>1. \A k \in Keys \ {key} : t[<<k, "LOAN_PAYMENT">>] = entry[<<k, "LOAN_PAYMENT">>]
    BY <1>6 DEF EntryIds, Kinds, y
  <2>2. QED
    BY <1>1, <2>1 DEF ConversionFits
<1>12. QED
  BY <1>1, <1>6, <1>7, <1>9, <1>10, <1>11, RepaymentOnly DEF t, u

LEMMA RemoveRepaymentKeeps ==
  ASSUME CashBookAssumption, IInv, NEW q \in Requests, NEW l \in Loans, NEW key \in Keys,
         RemoveRepayment(q, l, key)
  PROVE  IInv'
<1> DEFINE x == <<l, key>>
           y == <<key, "LOAN_PAYMENT">>
           z == <<key, "CASH_ADJUSTMENT">>
           rows == [e \in LoanEntries(l, key) |-> NoEntry]
           t == Written(entry, rows)
           u == Written(repaid, One(x, NoRepayment))
<1>1. /\ repaid[x] # NoRepayment
      /\ Check(q, "unpay", [NoJob EXCEPT !.repaid = One(x, NoRepayment), !.entry = rows])
  BY DEF RemoveRepayment
<1>2. x \in RepaymentIds /\ y \in EntryIds /\ z \in EntryIds /\ y # z
  BY DEF EntryIds, Kinds, RepaymentIds
<1>3. \A r \in RepaymentIds : repaid[r] # NoRepayment
        => /\ entry[<<r[2], "LOAN_PAYMENT">>].loan = r[1]
           /\ ~entry[<<r[2], "LOAN_PAYMENT">>].in
  BY DEF IInv, InOrder, InStep
<1>4. entry[y].loan = l /\ ~entry[y].in /\ entry[y] # NoEntry
  <2>1. entry[y].loan = l /\ ~entry[y].in
    BY <1>1, <1>2, <1>3
  <2>2. QED
    BY <2>1 DEF NoEntry, CashBookAssumption
<1>5. LoanEntries(l, key) = {y}
  BY <1>2, <1>4 DEF LoanEntries, Posted
<1>6. t \in Entries /\ t[y] = NoEntry /\ \A e \in EntryIds \ {y} : t[e] = entry[e]
  BY <1>2, <1>5, NoEntryType, EntryRows DEF Entries, Written
<1>7. NoRepayment \in RepaymentType
  BY DEF NoRepayment, RepaymentType, Amount, CashBookAssumption
<1>8. u \in Repaid /\ u[x] = NoRepayment /\ \A r \in RepaymentIds \ {x} : u[r] = repaid[r]
  BY <1>7, RepaymentWritten
<1>9. \A m \in Loans \ {l} : repaid[<<m, key>>] = NoRepayment
  <2>1. \A m \in Loans \ {l} : <<m, key>> \in RepaymentIds
    BY DEF RepaymentIds
  <2>2. QED
    BY <1>3, <1>4, <2>1
<1> HIDE DEF t, u, rows
<1>10. EntriesHaveMoney(t) /\ LegsMatch(t) /\ MovedOnce(t) /\ InStep(u, t) /\ LoansFit(loan, u)
  <2>1. LoanBalance(l) \in Int /\ LoanBalance(l) >= 0 /\ repaid[x].principal \in Nat
    <3>1. repaid[x] \in RepaymentType
      BY <1>2 DEF IInv, InOrder
    <3>2. QED
      BY <3>1, LoanBalanceFits DEF RepaymentType, Amount, CashBookAssumption
  <2>2. u[x].principal = 0
    BY <1>8 DEF NoRepayment
  <2>3. LoanBalance(l) + repaid[x].principal - u[x].principal >= 0
    BY <2>1, <2>2
  <2>4. t[z] = entry[z]
    BY <1>2, <1>6
  <2>5. QED
    BY <1>6, <1>8, <1>9, <2>3, <2>4, OneRepayment
<1>11. CashSuffices(t)
  <2>1. Worth(t[y]) = 0
    BY <1>6, NoEntryType
  <2>2. Worth(entry[y]) \in Int /\ Worth(entry[y]) <= 0
    <3>1. entry[y].amount \in Nat
      BY <1>2, EntryRows DEF EntryType, Amount, CashBookAssumption
    <3>2. QED
      BY <1>4, <3>1 DEF Worth, Signed
  <2>3. CashOf(t) = CashInHand - Worth(entry[y]) + Worth(t[y])
    BY <1>2, <1>6, EntryRows, CashInHandIsCash, OneEntryChanges DEF IInv
  <2>4. CashInHand = CashOf(entry) /\ CashInHand \in Int
    BY EntryRows, CashInHandIsCash
  <2>5. QED
    BY <2>1, <2>2, <2>3, <2>4 DEF CashSuffices, IInv, InOrder
<1>12. ConversionFits(t)
  <2>1. \A k \in Keys \ {key} : t[<<k, "LOAN_PAYMENT">>] = entry[<<k, "LOAN_PAYMENT">>]
    BY <1>6 DEF EntryIds, Kinds
  <2>2. QED
    BY <1>6, <2>1 DEF ConversionFits
<1>13. QED
  BY <1>1, <1>6, <1>8, <1>10, <1>11, <1>12, RepaymentOnly DEF t, u

\* The adjustment goes, the repayment's entry comes: the same cash from the same drawer.
LEMMA ConvertKeeps ==
  ASSUME CashBookAssumption, IInv, NEW q \in Requests, NEW l \in Loans, NEW key \in Keys,
         NEW interest \in Amount, ConvertToLoanPayment(q, key, l, interest)
  PROVE  IInv'
<1> DEFINE x == <<l, key>>
           y == <<key, "LOAN_PAYMENT">>
           z == <<key, "CASH_ADJUSTMENT">>
           amount == entry[z].amount
           paid == [principal |-> amount - interest, interest |-> interest]
           row == LoanEntry("cash", amount, FALSE, l)
           rows == [e \in {z, y} |-> IF e[2] = "LOAN_PAYMENT" THEN row ELSE NoEntry]
           t == Written(entry, rows)
           u == Written(repaid, One(x, paid))
<1>1. /\ entry[z] # NoEntry /\ ~entry[z].in /\ interest <= amount
      /\ amount - interest <= LoanBalance(l)
      /\ entry[y] = NoEntry /\ repaid[x] = NoRepayment
      /\ Check(q, "convert", [NoJob EXCEPT !.repaid = One(x, paid), !.entry = rows])
  BY DEF ConvertToLoanPayment
<1>2. y \in EntryIds /\ z \in EntryIds /\ y # z /\ z[2] = "CASH_ADJUSTMENT"
  BY DEF EntryIds, Kinds
<1>3. /\ entry[z].place = "cash" /\ amount > 0 /\ amount \in Amount /\ amount \in Int
      /\ interest \in Int /\ amount - interest \in Amount
  <2>1. entry[z].place = "cash" /\ amount > 0
    BY <1>1, <1>2 DEF IInv, InOrder, EntriesHaveMoney
  <2>2. entry[z] \in EntryType
    BY <1>2, EntryRows
  <2>3. amount \in Amount /\ amount \in Int
    BY <2>2 DEF EntryType, Amount, CashBookAssumption
  <2>4. QED
    BY <1>1, <2>1, <2>3 DEF Amount, CashBookAssumption
<1> HIDE DEF amount
<1>4. /\ row \in EntryType /\ row # NoEntry /\ row.place = "cash" /\ row.in = FALSE /\ row.loan = l
      /\ row.amount = amount
  BY <1>3 DEF LoanEntry, EntryType, NoEntry, CashBookAssumption, Places
<1>5. /\ paid \in RepaymentType /\ paid # NoRepayment
      /\ paid.principal = amount - interest /\ paid.interest = interest
  BY <1>3 DEF RepaymentType, NoRepayment
<1> HIDE DEF row, paid
<1>6. /\ t \in Entries /\ t[y] = row /\ t[z] = NoEntry
      /\ \A e \in EntryIds \ {y, z} : t[e] = entry[e]
  <2>1. entry \in [EntryIds -> EntryType]
    BY EntryRows DEF Entries
  <2>2. t \in [EntryIds -> EntryType]
    BY <1>4, <2>1, NoEntryType DEF Written
  <2>3. QED
    BY <1>2, <2>1, <2>2 DEF Entries, Written
<1>7. u \in Repaid /\ u[x] = paid /\ \A r \in RepaymentIds \ {x} : u[r] = repaid[r]
  BY <1>5, RepaymentWritten
<1> HIDE DEF t, u, rows
<1>8. \A m \in Loans \ {l} : repaid[<<m, key>>] = NoRepayment
  BY <1>1, NotRepaid
<1>9. EntriesHaveMoney(t) /\ LegsMatch(t) /\ MovedOnce(t) /\ InStep(u, t) /\ LoansFit(loan, u)
  <2>1. LoanBalance(l) \in Int
    BY LoanBalanceFits
  <2>2. repaid[x].principal = 0
    BY <1>1 DEF NoRepayment
  <2>3. LoanBalance(l) + repaid[x].principal - u[x].principal >= 0
    BY <1>1, <1>3, <1>5, <1>7, <2>1, <2>2
  <2>4. /\ t[y].place \in Places /\ t[y].amount > 0 /\ t[y].loan = l /\ ~t[y].in
        /\ t[y].amount = u[x].principal + u[x].interest
    BY <1>3, <1>4, <1>5, <1>6, <1>7 DEF Places
  <2>5. t[y] # NoEntry /\ u[x] # NoRepayment
    BY <1>4, <1>5, <1>6, <1>7
  <2>6. QED
    BY <1>6, <1>7, <1>8, <2>3, <2>4, <2>5, OneRepayment
<1>10. CashOf(t) = CashOf(entry)
  <2>1. Worth(entry[y]) = 0 /\ Worth(t[z]) = 0
    BY <1>1, <1>6, NoEntryType
  <2>2. Worth(entry[z]) = -amount /\ Worth(t[y]) = -amount
    BY <1>1, <1>3, <1>4, <1>6 DEF Worth, Signed, amount
  <2>3. CashOf(t) = CashOf(entry) - Worth(entry[y]) + Worth(t[y]) - Worth(entry[z]) + Worth(t[z])
    <3> HIDE DEF y, z
    <3> QED
      BY <1>2, <1>6, EntryRows, TwoEntriesChange DEF IInv
  <2>4. CashOf(entry) \in Int
    BY EntryRows, CashIsInteger DEF IInv
  <2>5. QED
    BY <1>3, <2>1, <2>2, <2>3, <2>4
<1>11. CashSuffices(t)
  BY <1>10 DEF CashSuffices, IInv, InOrder
<1>12. ConversionFits(t)
  BY <1>10 DEF ConversionFits
<1>13. QED
  BY <1>1, <1>6, <1>7, <1>9, <1>11, <1>12, RepaymentOnly DEF t, u

-----------------------------------------------------------------------------
(* The invariant                                                             *)

LEMMA InitInvariant ==
  ASSUME CashBookAssumption, Init
  PROVE  IInv
<1>1. /\ lock = [row \in {Branch} |-> NoOne] /\ pc = [q \in Requests |-> "idle"]
      /\ job = [q \in Requests |-> NoJob] /\ entry = [e \in EntryIds |-> NoEntry]
      /\ loan = [l \in Loans |-> NoLoan] /\ repaid = [r \in RepaymentIds |-> NoRepayment]
      /\ drawer = Drawer
  BY DEF Init
<1>2. entry \in [EntryIds -> EntryType]
  BY <1>1, NoEntryType
<1>3. loan \in [Loans -> LoanType] /\ repaid \in [RepaymentIds -> RepaymentType]
  BY <1>1 DEF LoanType, RepaymentType, NoLoan, NoRepayment, Amount, CashBookAssumption
<1>4. drawer \in -MaxAmount .. MaxAmount /\ drawer >= 0
  BY <1>1 DEF Amount, CashBookAssumption
<1>5. TypeOK /\ DOMAIN job = Requests
  BY <1>1, <1>2, <1>3, <1>4 DEF TypeOK, EntryType, LoanType, RepaymentType
<1>6. \A e \in EntryIds : entry[e] = NoEntry
  BY <1>1
<1>7. /\ \A key \in Keys, kind \in Kinds : entry[<<key, kind>>] = NoEntry
      /\ \A r \in RepaymentIds : repaid[r] = NoRepayment
  BY <1>1 DEF EntryIds
<1>8. EntriesHaveMoney(entry) /\ LegsMatch(entry) /\ MovedOnce(entry) /\ InStep(repaid, entry)
  BY <1>6, <1>7 DEF EntriesHaveMoney, LegsMatch, MovedOnce, InStep, Kinds
<1>9. LoansFit(loan, repaid)
  <2>1. ASSUME NEW l \in Loans
        PROVE  SumOf({l} \X Keys, PrincipalsOf(repaid)) <= loan[l].principal
    <3>1. \A r \in {l} \X Keys : PrincipalsOf(repaid)[r] = 0
      BY <1>7 DEF PrincipalsOf, RepaymentIds, NoRepayment
    <3>2. SumOf({l} \X Keys, PrincipalsOf(repaid)) = 0
      BY <3>1, SumOfPositive, SumEmpty
    <3>3. loan[l].principal = 0
      BY <1>1 DEF NoLoan
    <3>4. QED
      BY <3>2, <3>3
  <2>2. QED
    BY <2>1 DEF LoansFit
<1>10. CashSuffices(entry)
  <2>1. \A e \in EntryIds : Inflow(entry)[e] = 0 /\ Outflow(entry)[e] = 0
    BY <1>6 DEF Inflow, Outflow, NoEntry
  <2>2. SumOf(EntryIds, Inflow(entry)) = 0 /\ SumOf(EntryIds, Outflow(entry)) = 0
    BY <2>1, SumOfPositive, SumEmpty
  <2>3. CashOf(entry) >= 0
    BY <1>4, <2>2 DEF CashOf, CashBookAssumption
  <2>4. QED
    BY <2>3 DEF CashSuffices
<1>11. \A q \in Requests : pc[q] # "checked"
  BY <1>1
<1>12. QED
  BY <1>2, <1>3, <1>5, <1>8, <1>9, <1>10, <1>11 DEF IInv, InOrder, CheckedJob

LEMMA StutterKeeps ==
  ASSUME IInv, UNCHANGED vars
  PROVE  IInv'
<1>1. UNCHANGED <<lock, pc, job, entry, loan, repaid, drawer>>
  BY DEF vars
<1>2. InOrder(entry, loan, repaid)'
  BY <1>1
  DEF IInv, InOrder, CashSuffices, CashOf, EntriesHaveMoney, LegsMatch, MovedOnce, InStep,
      LoansFit, Inflow, Outflow, PrincipalsOf
<1>3. ASSUME NEW q \in Requests
      PROVE  CheckedJob(q)'
  <2>1. /\ EntryAfter(q)' = EntryAfter(q) /\ LoanAfter(q)' = LoanAfter(q)
        /\ RepaidAfter(q)' = RepaidAfter(q)
    BY <1>1 DEF EntryAfter, LoanAfter, RepaidAfter, Written
  <2>2. CheckedJob(q)
    BY DEF IInv
  <2>3. InOrder(EntryAfter(q), LoanAfter(q), RepaidAfter(q))
          => InOrder(EntryAfter(q), LoanAfter(q), RepaidAfter(q))'
    BY <1>1, <2>1
    DEF InOrder, CashSuffices, CashOf, EntriesHaveMoney, LegsMatch, MovedOnce, InStep,
        LoansFit, Inflow, Outflow, PrincipalsOf
  <2>4. ConversionFits(EntryAfter(q)) => ConversionFits(EntryAfter(q))'
    BY <1>1, <2>1 DEF ConversionFits, CashOf, Inflow, Outflow
  <2>5. QED
    BY <1>1, <2>2, <2>3, <2>4 DEF CheckedJob
<1>4. TypeOK' /\ DOMAIN job' = Requests
  BY <1>1 DEF IInv, TypeOK
<1>5. QED
  BY <1>2, <1>3, <1>4 DEF IInv

LEMMA LoanStepKeeps ==
  ASSUME CashBookAssumption, IInv, NEW q \in Requests, LoanStep(q)
  PROVE  IInv'
<1>1. PICK l \in Loans, key \in Keys :
        \/ \E principal \in Amount, place \in Banks \cup {"none"} :
             CreateLoan(q, l, key, principal, place)
        \/ \E principal, interest \in Amount, place \in Places :
             PayLoan(q, l, key, principal, interest, place)
        \/ RemoveRepayment(q, l, key)
        \/ \E interest \in Amount : ConvertToLoanPayment(q, key, l, interest)
  BY DEF LoanStep
<1>2. ASSUME NEW principal \in Amount, NEW place \in Banks \cup {"none"},
             CreateLoan(q, l, key, principal, place)
      PROVE  IInv'
  BY <1>2, CreateLoanKeeps
<1>3. ASSUME NEW principal \in Amount, NEW interest \in Amount, NEW place \in Places,
             PayLoan(q, l, key, principal, interest, place)
      PROVE  IInv'
  BY <1>3, PayLoanKeeps
<1>4. CASE RemoveRepayment(q, l, key)
  BY <1>4, RemoveRepaymentKeeps
<1>5. ASSUME NEW interest \in Amount, ConvertToLoanPayment(q, key, l, interest)
      PROVE  IInv'
  BY <1>5, ConvertKeeps
<1>6. QED
  BY <1>1, <1>2, <1>3, <1>4, <1>5

LEMMA EntryStepKeeps ==
  ASSUME CashBookAssumption, IInv, NEW q \in Requests, EntryStep(q)
  PROVE  IInv'
<1>1. ASSUME NEW key \in Keys, NEW amount \in Amount, NEW place \in Places,
             Income(q, key, place, amount)
      PROVE  IInv'
  BY <1>1, IncomeKeeps
<1>2. ASSUME NEW key \in Keys, NEW amount \in Amount, NEW in \in BOOLEAN,
             AdjustCash(q, key, amount, in)
      PROVE  IInv'
  BY <1>2, AdjustCashKeeps
<1>3. ASSUME NEW key \in Keys, NEW amount \in Amount, NEW from \in Places, NEW to \in Places,
             Transfer(q, key, from, to, amount)
      PROVE  IInv'
  BY <1>3, TransferKeeps
<1>4. ASSUME NEW e \in EntryIds, NEW amount \in Amount, NEW in \in BOOLEAN,
             UpdateEntry(q, e, amount, in)
      PROVE  IInv'
  BY <1>4, UpdateEntryKeeps
<1>5. ASSUME NEW e \in EntryIds, RemoveEntry(q, e)
      PROVE  IInv'
  BY <1>5, RemoveEntryKeeps
<1>6. QED
  BY <1>1, <1>2, <1>3, <1>4, <1>5 DEF EntryStep

LEMMA NextInvariant ==
  ASSUME CashBookAssumption, IInv, [Next]_vars
  PROVE  IInv'
<1>1. ASSUME NEW q \in Requests, LoanStep(q) PROVE IInv'
  BY <1>1, LoanStepKeeps
<1>2. ASSUME NEW q \in Requests, EntryStep(q) PROVE IInv'
  BY <1>2, EntryStepKeeps
<1>3. ASSUME NEW q \in Requests, Commit(q) PROVE IInv'
  BY <1>3, CommitKeeps
<1>4. ASSUME NEW q \in Requests, Rollback(q) PROVE IInv'
  BY <1>4, RollbackKeeps
<1>5. ASSUME NEW amount \in 1 .. MaxAmount, CreateExpense(amount) PROVE IInv'
  BY <1>5, CreateExpenseKeeps
<1>6. CASE UNCHANGED vars
  BY <1>6, StutterKeeps
<1>7. QED
  BY <1>1, <1>2, <1>3, <1>4, <1>5, <1>6 DEF Next

\* The rows a request has checked leave the book in order until it commits them.
THEOREM Invariance == ASSUME CashBookAssumption PROVE Spec => []IInv
<1>1. Init => IInv
  BY InitInvariant
<1>2. IInv /\ [Next]_vars => IInv'
  BY NextInvariant
<1>3. QED
  BY <1>1, <1>2, PTL DEF Spec

\* Every row keeps its type: no sum of two amounts leaves the money column.
THEOREM TypeCorrect == ASSUME CashBookAssumption PROVE Spec => []TypeOK
<1>1. IInv => TypeOK
  BY DEF IInv
<1>2. QED
  BY <1>1, Invariance, PTL

-----------------------------------------------------------------------------
(* What the invariant gives                                                  *)

\* Cash in hand is what the rows of the book add up to.
CashIsBooked == CashInHand = CashOf(entry)

LEMMA BookGives ==
  ASSUME CashBookAssumption, IInv
  PROVE  /\ TransfersBalance /\ LoanNotOverpaid /\ RepaymentsPosted /\ OneCashEntryPerRequest
         /\ CashIsBooked
         /\ "expense" \notin Ops => CashNeverNegative
<1>1. LoanNotOverpaid
  BY LoanBalanceFits DEF LoanNotOverpaid
<1>2. TransfersBalance /\ RepaymentsPosted /\ OneCashEntryPerRequest
  BY DEF IInv, InOrder, TransfersBalance, RepaymentsPosted, OneCashEntryPerRequest
<1>3. CashIsBooked
  BY EntryRows, CashInHandIsCash DEF CashIsBooked
<1>4. "expense" \notin Ops => CashNeverNegative
  BY EntryRows, CashInHandIsCash DEF IInv, InOrder, CashSuffices, CashNeverNegative
<1>5. QED
  BY <1>1, <1>2, <1>3, <1>4

\* transfer(), updateEntry() and removeEntry() treat the two legs as one.
THEOREM TransfersStayWhole == ASSUME CashBookAssumption PROVE Spec => []TransfersBalance
<1>1. IInv => TransfersBalance
  BY BookGives
<1>2. QED
  BY <1>1, Invariance, PTL

\* Payments, conversions and their removals never repay more than was lent.
THEOREM LoansAreNotOverpaid == ASSUME CashBookAssumption PROVE Spec => []LoanNotOverpaid
<1>1. IInv => LoanNotOverpaid
  BY BookGives
<1>2. QED
  BY <1>1, Invariance, PTL

\* A repayment has its entry, and a repayment's entry its repayment.
THEOREM RepaymentsArePosted == ASSUME CashBookAssumption PROVE Spec => []RepaymentsPosted
<1>1. IInv => RepaymentsPosted
  BY BookGives
<1>2. QED
  BY <1>1, Invariance, PTL

\* No requestId counts both as an adjustment and as the repayment it became.
THEOREM RequestsMoveCashOnce == ASSUME CashBookAssumption PROVE Spec => []OneCashEntryPerRequest
<1>1. IInv => OneCashEntryPerRequest
  BY BookGives
<1>2. QED
  BY <1>1, Invariance, PTL

\* As long as no expense is paid in cash, nothing else takes cash that is not there:
\* the check of ensureCash() still holds when its rows are written.
THEOREM CashSufficesForAll ==
  ASSUME CashBookAssumption, "expense" \notin Ops PROVE Spec => []CashNeverNegative
<1>1. IInv => CashNeverNegative
  BY BookGives
<1>2. QED
  BY <1>1, Invariance, PTL

\* A commit that turns an adjustment into a repayment leaves the cash as it was:
\* what convertToLoanPayment() read is still so when it writes.
LEMMA CommitKeepsCash ==
  ASSUME CashBookAssumption, IInv, NEW q \in Requests, Commit(q),
         CashIsBooked, CashIsBooked'
  PROVE  ConversionKeepsCashStep
<1>1. pc[q] = "checked" /\ entry' = EntryAfter(q) /\ drawer' = drawer
  BY DEF Commit, EntryAfter
<1>2. ConversionFits(entry')
  BY <1>1 DEF IInv, CheckedJob
<1>3. CashOf(entry)' = CashOf(entry')
  BY <1>1 DEF CashOf, Inflow, Outflow
<1>4. QED
  BY <1>2, <1>3 DEF ConversionFits, ConversionKeepsCashStep, CashIsBooked

\* Until the commit nothing is posted.
LEMMA CheckPostsNothing ==
  ASSUME NEW q, NEW op, NEW rows, Check(q, op, rows)
  PROVE  entry' = entry
BY DEF Check, data

LEMMA HandlersPostNothing ==
  ASSUME NEW q \in Requests, LoanStep(q) \/ EntryStep(q)
  PROVE  entry' = entry
<1>1. ASSUME NEW l, NEW key, NEW principal, NEW place, CreateLoan(q, l, key, principal, place)
      PROVE  entry' = entry
  BY <1>1, CheckPostsNothing DEF CreateLoan
<1>2. ASSUME NEW l, NEW key, NEW principal, NEW interest, NEW place,
             PayLoan(q, l, key, principal, interest, place)
      PROVE  entry' = entry
  BY <1>2, CheckPostsNothing DEF PayLoan
<1>3. ASSUME NEW l, NEW key, RemoveRepayment(q, l, key)
      PROVE  entry' = entry
  BY <1>3, CheckPostsNothing DEF RemoveRepayment
<1>4. ASSUME NEW l, NEW key, NEW interest, ConvertToLoanPayment(q, key, l, interest)
      PROVE  entry' = entry
  BY <1>4, CheckPostsNothing DEF ConvertToLoanPayment
<1>5. ASSUME NEW key, NEW place, NEW amount, Income(q, key, place, amount)
      PROVE  entry' = entry
  BY <1>5, CheckPostsNothing DEF Income
<1>6. ASSUME NEW key, NEW amount, NEW in, AdjustCash(q, key, amount, in)
      PROVE  entry' = entry
  BY <1>6, CheckPostsNothing DEF AdjustCash
<1>7. ASSUME NEW key, NEW from, NEW to, NEW amount, Transfer(q, key, from, to, amount)
      PROVE  entry' = entry
  BY <1>7, CheckPostsNothing DEF Transfer
<1>8. ASSUME NEW e, NEW amount, NEW in, UpdateEntry(q, e, amount, in)
      PROVE  entry' = entry
  BY <1>8, CheckPostsNothing DEF UpdateEntry
<1>9. ASSUME NEW e, RemoveEntry(q, e)
      PROVE  entry' = entry
  BY <1>9, CheckPostsNothing DEF RemoveEntry
<1>10. LoanStep(q) => entry' = entry
  BY <1>1, <1>2, <1>3, <1>4 DEF LoanStep
<1>11. EntryStep(q) => entry' = entry
  BY <1>5, <1>6, <1>7, <1>8, <1>9 DEF EntryStep
<1>12. QED
  BY <1>10, <1>11

LEMMA StepKeepsCash ==
  ASSUME CashBookAssumption, IInv, [Next]_vars,
         CashIsBooked, CashIsBooked'
  PROVE  ConversionKeepsCashStep
<1>1. ASSUME NEW q \in Requests, Commit(q) PROVE ConversionKeepsCashStep
  BY <1>1, CommitKeepsCash
<1>2. CASE entry' = entry
  BY <1>2 DEF ConversionKeepsCashStep
<1>3. ASSUME NEW q \in Requests, Rollback(q) PROVE entry' = entry
  BY <1>3 DEF Rollback, data
<1>4. ASSUME NEW amount, CreateExpense(amount) PROVE entry' = entry
  BY <1>4 DEF CreateExpense
<1>5. UNCHANGED vars => entry' = entry
  BY DEF vars
<1>6. QED
  BY <1>1, <1>2, <1>3, <1>4, <1>5, HandlersPostNothing DEF Next

\* convertToLoanPayment() leaves cash in hand unchanged.
THEOREM ConversionsKeepCash == ASSUME CashBookAssumption PROVE Spec => ConversionKeepsCash
<1>1. IInv => CashIsBooked
  BY BookGives
<1>2. IInv /\ [Next]_vars /\ CashIsBooked /\ CashIsBooked' => ConversionKeepsCashStep
  BY StepKeepsCash
<1>3. QED
  BY <1>1, <1>2, Invariance, PTL DEF Spec, ConversionKeepsCash

-----------------------------------------------------------------------------

-----------------------------------------------------------------------------
(* Sums of signed quantities                                                 *)

\* What lies above and what lies below zero.
Above(f) == [x \in DOMAIN f |-> IF f[x] > 0 THEN f[x] ELSE 0]
Below(f) == [x \in DOMAIN f |-> IF f[x] < 0 THEN -f[x] ELSE 0]

\* The sums of the instance are the sums of Amounts.
LEMMA SameSums ==
  ASSUME NEW S, NEW f
  PROVE  Stock!SumOf(S, f) = SumOf(S, f)
BY DEF Stock!SumOf, Stock!CoinsOf, Stock!Coins, Stock!Cardinality, SumOf, CoinsOf, Coins, Cardinality

LEMMA BalanceParts ==
  ASSUME NEW S, IsFiniteSet(S), NEW f \in [S -> Int]
  PROVE  /\ Stock!Balance(f) = SumOf(S, Above(f)) - SumOf(S, Below(f)) /\ Stock!Balance(f) \in Int
         /\ \A x \in S : Above(f)[x] \in Nat /\ Below(f)[x] \in Nat /\ f[x] = Above(f)[x] - Below(f)[x]
<1> DEFINE P == {x \in S : f[x] > 0}
           N == {x \in S : f[x] < 0}
           minus == [x \in DOMAIN f |-> -f[x]]
<1>1. Stock!Balance(f) = SumOf(P, f) - SumOf(N, minus)
  BY SameSums DEF Stock!Balance
<1>2. \A x \in S : /\ Above(f)[x] \in Nat /\ Below(f)[x] \in Nat
                   /\ f[x] = Above(f)[x] - Below(f)[x]
  BY DEF Above, Below
<1>3. /\ \A x \in P : f[x] = Above(f)[x]
      /\ \A x \in N : minus[x] = Below(f)[x]
  BY DEF Above, Below
<1>4. /\ \A x \in S \ P : Above(f)[x] = 0
      /\ \A x \in S \ N : Below(f)[x] = 0
  BY DEF Above, Below
<1>5. P \in SUBSET S /\ N \in SUBSET S
  OBVIOUS
<1> HIDE DEF P, N, minus
<1>6. SumOf(P, f) = SumOf(P, Above(f)) /\ SumOf(N, minus) = SumOf(N, Below(f))
  BY <1>3, SumSame
<1>7. SumOf(S, Above(f)) = SumOf(P, Above(f)) /\ SumOf(S, Below(f)) = SumOf(N, Below(f))
  BY <1>4, <1>5, SumOfPositive
<1>8. SumOf(S, Above(f)) \in Nat /\ SumOf(S, Below(f)) \in Nat
  BY <1>2, SumIsNat
<1>9. QED
  BY <1>1, <1>2, <1>6, <1>7, <1>8

\* One place changes: the total changes by as much.
LEMMA BalanceChange ==
  ASSUME NEW S, IsFiniteSet(S), NEW f \in [S -> Int], NEW g \in [S -> Int], NEW x \in S,
         \A y \in S \ {x} : g[y] = f[y]
  PROVE  Stock!Balance(g) = Stock!Balance(f) - f[x] + g[x]
<1>1. /\ Stock!Balance(f) = SumOf(S, Above(f)) - SumOf(S, Below(f)) /\ Stock!Balance(f) \in Int
      /\ \A y \in S : Above(f)[y] \in Nat /\ Below(f)[y] \in Nat /\ f[y] = Above(f)[y] - Below(f)[y]
  BY BalanceParts
<1>2. /\ Stock!Balance(g) = SumOf(S, Above(g)) - SumOf(S, Below(g))
      /\ \A y \in S : Above(g)[y] \in Nat /\ Below(g)[y] \in Nat /\ g[y] = Above(g)[y] - Below(g)[y]
  BY BalanceParts
<1>3. \A y \in S \ {x} : Above(g)[y] = Above(f)[y] /\ Below(g)[y] = Below(f)[y]
  BY DEF Above, Below
<1>4. SumOf(S, Above(g)) = SumOf(S, Above(f)) - Above(f)[x] + Above(g)[x]
  BY <1>1, <1>2, <1>3, SumChange
<1>5. SumOf(S, Below(g)) = SumOf(S, Below(f)) - Below(f)[x] + Below(g)[x]
  BY <1>1, <1>2, <1>3, SumChange
<1>6. SumOf(S, Above(f)) \in Nat /\ SumOf(S, Below(f)) \in Nat
  BY <1>1, SumIsNat
<1>7. QED
  BY <1>1, <1>2, <1>4, <1>5, <1>6

\* Where nothing lies there is nothing.
LEMMA BalanceZero ==
  ASSUME NEW S, NEW f \in [S -> Int], \A x \in S : f[x] = 0
  PROVE  Stock!Balance(f) = 0
<1>1. {x \in DOMAIN f : f[x] > 0} = {} /\ {x \in DOMAIN f : f[x] < 0} = {}
  OBVIOUS
<1>2. Stock!Balance(f) = SumOf({}, f) - SumOf({}, [x \in DOMAIN f |-> -f[x]])
  BY <1>1, SameSums DEF Stock!Balance
<1>3. SumOf({}, f) = 0 /\ SumOf({}, [x \in DOMAIN f |-> -f[x]]) = 0
  BY SumEmpty
<1>4. QED
  BY <1>2, <1>3

\* What the movements of one item come to.
LEMMA BalanceOfMoves ==
  ASSUME NEW moves, moves \in [DOMAIN moves -> Int \ {0}]
  PROVE  /\ DOMAIN moves = {} => Stock!Balance(moves) = 0
         /\ \A p : DOMAIN moves = {p} => Stock!Balance(moves) = moves[p]
         /\ \A p, r : p # r /\ DOMAIN moves = {p, r} => Stock!Balance(moves) = moves[p] + moves[r]
<1>1. CASE DOMAIN moves = {}
  BY <1>1, BalanceZero
<1>2. ASSUME NEW p, DOMAIN moves = {p}
      PROVE  Stock!Balance(moves) = moves[p]
  <2> DEFINE zero == [x \in {p} |-> 0]
  <2>1. zero \in [{p} -> Int] /\ zero[p] = 0 /\ \A x \in {p} : zero[x] = 0
    OBVIOUS
  <2>2. moves \in [{p} -> Int] /\ \A y \in {p} \ {p} : moves[y] = zero[y]
    BY <1>2
  <2> HIDE DEF zero
  <2>3. Stock!Balance(zero) = 0
    BY <2>1, BalanceZero
  <2>4. IsFiniteSet({p})
    BY FS_Singleton
  <2>5. Stock!Balance(moves) = Stock!Balance(zero) - zero[p] + moves[p]
    BY <2>1, <2>2, <2>4, BalanceChange
  <2>6. moves[p] \in Int
    BY <2>2
  <2>7. QED
    BY <2>1, <2>3, <2>5, <2>6
<1>3. ASSUME NEW p, NEW r, p # r, DOMAIN moves = {p, r}
      PROVE  Stock!Balance(moves) = moves[p] + moves[r]
  <2> DEFINE zero == [x \in {p, r} |-> 0]
             half == [x \in {p, r} |-> IF x = p THEN moves[p] ELSE 0]
  <2>1. IsFiniteSet({p, r})
    <3>1. IsFiniteSet({p})
      BY FS_Singleton
    <3>2. IsFiniteSet({p} \cup {r})
      BY <3>1, FS_AddElement
    <3>3. {p} \cup {r} = {p, r}
      OBVIOUS
    <3>4. QED
      BY <3>2, <3>3
  <2>2. /\ zero \in [{p, r} -> Int] /\ half \in [{p, r} -> Int] /\ moves \in [{p, r} -> Int]
        /\ zero[p] = 0 /\ zero[r] = 0 /\ half[p] = moves[p] /\ half[r] = 0
    BY <1>3
  <2>3. \A x \in {p, r} : zero[x] = 0
    OBVIOUS
  <2> HIDE DEF zero, half
  <2>4. Stock!Balance(zero) = 0
    BY <2>2, <2>3, BalanceZero
  <2>5. Stock!Balance(half) = Stock!Balance(zero) - zero[p] + half[p]
    <3>1. \A y \in {p, r} \ {p} : half[y] = zero[y]
      BY <2>2
    <3>2. QED
      BY <2>1, <2>2, <3>1, BalanceChange
  <2>6. Stock!Balance(moves) = Stock!Balance(half) - half[r] + moves[r]
    <3>1. \A y \in {p, r} \ {r} : moves[y] = half[y]
      BY <2>2
    <3>2. QED
      BY <2>1, <2>2, <3>1, BalanceChange
  <2>7. moves[p] \in Int /\ moves[r] \in Int
    BY <2>2
  <2>8. QED
    BY <2>2, <2>4, <2>5, <2>6, <2>7
<1>4. QED
  BY <1>1, <1>2, <1>3

\* The godowns' part of an item after its movements, and what is left unallocated.
LEMMA MovesAddUp ==
  ASSUME Stock!StockLedgerAssumption, NEW moves, Stock!IsMoves(moves), NEW f \in [Godowns -> Int],
         NEW g, g = [x \in Godowns |-> f[x] + Stock!Change(moves, x)]
  PROVE  /\ g \in [Godowns -> Int] /\ Stock!Balance(moves) \in Int /\ Stock!Balance(f) \in Int
         /\ Stock!Change(moves, NoOne) \in Int
         /\ Stock!Balance(g) = Stock!Balance(f) + Stock!Balance(moves) - Stock!Change(moves, NoOne)
<1>1. /\ moves \in [DOMAIN moves -> Int \ {0}] /\ IsFiniteSet(Godowns) /\ NoOne \notin Godowns
      /\ Stock!Places = Godowns \cup {NoOne}
  BY DEF Stock!IsMoves, Stock!StockLedgerAssumption, Stock!Places, Stock!IsFiniteSet, IsFiniteSet
<1>2. \A p : Stock!Change(moves, p) \in Int
  BY <1>1 DEF Stock!Change
<1>3. g \in [Godowns -> Int] /\ \A x \in Godowns : g[x] = f[x] + Stock!Change(moves, x)
  BY <1>2
<1>4. Stock!Balance(f) \in Int
  BY <1>1, BalanceParts
<1>5. CASE DOMAIN moves = {}
  <2>1. \A p : Stock!Change(moves, p) = 0
    BY <1>5 DEF Stock!Change
  <2>2. g = f
    BY <1>3, <2>1
  <2>3. Stock!Balance(moves) = 0
    BY <1>1, <1>5, BalanceOfMoves
  <2>4. QED
    BY <1>3, <1>4, <2>1, <2>2, <2>3
<1>6. ASSUME NEW p \in Stock!Places, DOMAIN moves = {p}
      PROVE  /\ Stock!Balance(moves) \in Int
             /\ Stock!Balance(g) = Stock!Balance(f) + Stock!Balance(moves) - Stock!Change(moves, NoOne)
  <2>1. Stock!Balance(moves) = moves[p] /\ moves[p] \in Int
    BY <1>1, <1>6, BalanceOfMoves
  <2>2. Stock!Change(moves, p) = moves[p] /\ \A r : r # p => Stock!Change(moves, r) = 0
    BY <1>6 DEF Stock!Change
  <2>3. CASE p = NoOne
    <3>1. g = f
      BY <1>1, <1>3, <2>2, <2>3
    <3>2. QED
      BY <1>4, <2>1, <2>2, <2>3, <3>1
  <2>4. CASE p \in Godowns
    <3>1. \A y \in Godowns \ {p} : g[y] = f[y]
      BY <1>3, <2>2
    <3>2. Stock!Balance(g) = Stock!Balance(f) - f[p] + g[p]
      BY <1>1, <1>3, <2>4, <3>1, BalanceChange
    <3>3. Stock!Change(moves, NoOne) = 0 /\ g[p] = f[p] + moves[p] /\ f[p] \in Int
      BY <1>1, <1>3, <2>2, <2>4
    <3>4. QED
      BY <1>4, <2>1, <3>2, <3>3
  <2>5. QED
    BY <1>1, <2>3, <2>4
<1>7. ASSUME NEW from \in Stock!Places, NEW to \in Stock!Places, from # to, DOMAIN moves = {from, to},
             moves[from] = -moves[to]
      PROVE  /\ Stock!Balance(moves) \in Int
             /\ Stock!Balance(g) = Stock!Balance(f) + Stock!Balance(moves) - Stock!Change(moves, NoOne)
  <2>1. Stock!Balance(moves) = 0 /\ moves[from] \in Int /\ moves[to] \in Int
    <3>1. moves[from] \in Int /\ moves[to] \in Int
      BY <1>1, <1>7
    <3>2. Stock!Balance(moves) = moves[from] + moves[to]
      BY <1>1, <1>7, BalanceOfMoves
    <3>3. QED
      BY <1>7, <3>1, <3>2
  <2>2. /\ Stock!Change(moves, from) = moves[from] /\ Stock!Change(moves, to) = moves[to]
        /\ \A r : r # from /\ r # to => Stock!Change(moves, r) = 0
    BY <1>7 DEF Stock!Change
  <2>3. CASE from = NoOne
    <3>1. to \in Godowns
      BY <1>1, <1>7, <2>3
    <3>2. \A y \in Godowns \ {to} : g[y] = f[y]
      BY <1>1, <1>3, <2>2, <2>3
    <3>3. Stock!Balance(g) = Stock!Balance(f) - f[to] + g[to]
      BY <1>1, <1>3, <3>1, <3>2, BalanceChange
    <3>4. g[to] = f[to] + moves[to] /\ f[to] \in Int
      BY <1>3, <2>2, <3>1
    <3>5. QED
      BY <1>4, <1>7, <2>1, <2>2, <2>3, <3>3, <3>4
  <2>4. CASE to = NoOne
    <3>1. from \in Godowns
      BY <1>1, <1>7, <2>4
    <3>2. \A y \in Godowns \ {from} : g[y] = f[y]
      BY <1>1, <1>3, <2>2, <2>4
    <3>3. Stock!Balance(g) = Stock!Balance(f) - f[from] + g[from]
      BY <1>1, <1>3, <3>1, <3>2, BalanceChange
    <3>4. g[from] = f[from] + moves[from] /\ f[from] \in Int
      BY <1>3, <2>2, <3>1
    <3>5. QED
      BY <1>4, <1>7, <2>1, <2>2, <2>4, <3>3, <3>4
  <2>5. CASE from \in Godowns /\ to \in Godowns
    <3> DEFINE half == [x \in Godowns |-> IF x = from THEN g[from] ELSE f[x]]
    <3>1. half \in [Godowns -> Int] /\ half[from] = g[from] /\ half[to] = f[to]
      BY <1>3, <1>7, <2>5
    <3>2. \A y \in Godowns \ {from} : half[y] = f[y]
      OBVIOUS
    <3>3. \A y \in Godowns \ {to} : g[y] = half[y]
      BY <1>3, <2>2
    <3> HIDE DEF half
    <3>4. Stock!Balance(half) = Stock!Balance(f) - f[from] + half[from]
      BY <1>1, <2>5, <3>1, <3>2, BalanceChange
    <3>5. Stock!Balance(g) = Stock!Balance(half) - half[to] + g[to]
      BY <1>1, <1>3, <2>5, <3>1, <3>3, BalanceChange
    <3>6. /\ g[from] = f[from] + moves[from] /\ g[to] = f[to] + moves[to]
          /\ f[from] \in Int /\ f[to] \in Int /\ Stock!Change(moves, NoOne) = 0
      BY <1>1, <1>3, <2>2, <2>5
    <3>7. QED
      BY <1>4, <1>7, <2>1, <3>1, <3>4, <3>5, <3>6
  <2>6. QED
    BY <1>1, <2>3, <2>4, <2>5
<1>8. /\ Stock!Balance(moves) \in Int
      /\ Stock!Balance(g) = Stock!Balance(f) + Stock!Balance(moves) - Stock!Change(moves, NoOne)
  <2>1. CASE DOMAIN moves = {}
    <3>1. Stock!Balance(moves) = 0
      BY <1>1, <2>1, BalanceOfMoves
    <3>2. QED
      BY <1>5, <2>1, <3>1
  <2>2. QED
    BY <1>6, <1>7, <2>1 DEF Stock!IsMoves
<1>9. QED
  BY <1>2, <1>3, <1>4, <1>8

-----------------------------------------------------------------------------
(* The invariant                                                             *)

\* What an invariant state says of the rows.
LEMMA RowFacts ==
  ASSUME Stock!StockLedgerAssumption, Stock!IInv
  PROVE  /\ \A i \in Items : /\ stock[i] \in Int /\ placed[i] \in [Godowns -> Int]
                             /\ Stock!Balance(placed[i]) \in Int /\ moved[i] \in [Stock!Places -> Int]
                             /\ \A p \in Stock!Places : Stock!Held(i, p) \in Int
         /\ NoOne \notin Godowns /\ Stock!Places = Godowns \cup {NoOne} /\ IsFiniteSet(Godowns)
<1>1. NoOne \notin Godowns /\ Stock!Places = Godowns \cup {NoOne} /\ IsFiniteSet(Godowns)
  BY DEF Stock!StockLedgerAssumption, Stock!Places, Stock!IsFiniteSet, IsFiniteSet
<1>2. ASSUME NEW i \in Items
      PROVE  stock[i] \in Int /\ placed[i] \in [Godowns -> Int] /\ moved[i] \in [Stock!Places -> Int]
  BY DEF Stock!IInv, Stock!RowsOK, Stock!TypeOK
<1>3. \A i \in Items : Stock!Balance(placed[i]) \in Int
  BY <1>1, <1>2, BalanceParts
<1>4. ASSUME NEW i \in Items, NEW p \in Stock!Places
      PROVE  Stock!Held(i, p) \in Int
  <2>1. CASE p = NoOne
    BY <1>2, <1>3, <2>1 DEF Stock!Held
  <2>2. CASE p \in Godowns
    BY <1>1, <1>2, <2>2 DEF Stock!Held
  <2>3. QED
    BY <1>1, <2>1, <2>2
<1>5. QED
  BY <1>1, <1>2, <1>3, <1>4

\* The tables are as they were.
LEMMA TablesKept ==
  ASSUME Stock!IInv, UNCHANGED <<item, stock, placed, moved, godown, paper>>
  PROVE  /\ Stock!TypeOK' /\ Stock!MovementsExplainStock' /\ Stock!NothingBelowZero'
         /\ Stock!UseIsRecorded' /\ Stock!UsedGodownsExist'
         /\ paper' \in [Papers -> Stock!PaperType]
         /\ \A k \in Papers : paper'[k].state = "posted" => paper'[k].item \in Items /\ paper'[k].n # 0
         /\ \A i, p : Stock!Held(i, p)' = Stock!Held(i, p)
<1>1. \A i, p : Stock!Held(i, p)' = Stock!Held(i, p)
  BY DEF Stock!Held
<1>2. Stock!TypeOK' /\ Stock!UseIsRecorded' /\ Stock!UsedGodownsExist'
  BY DEF Stock!IInv, Stock!RowsOK, Stock!TypeOK, Stock!UseIsRecorded, Stock!UsedGodownsExist
<1>3. Stock!MovementsExplainStock' /\ Stock!NothingBelowZero'
  BY <1>1 DEF Stock!IInv, Stock!MovementsExplainStock, Stock!NothingBelowZero
<1>4. QED
  BY <1>1, <1>2, <1>3 DEF Stock!IInv, Stock!RowsOK

\* The end of a transaction, for those that go on.
LEMMA StockEndEffect ==
  ASSUME Stock!IInv, NEW q \in Requests, Stock!End(q)
  PROVE  /\ lock' \in [Items -> Requests \cup {NoOne}]
         /\ pc' \in [Requests -> {"idle", "checked"}] /\ DOMAIN job' = Requests
         /\ pc'[q] = "idle" /\ pc[q] = "checked"
         /\ \A r \in Requests \ {q} : pc'[r] = pc[r] /\ job'[r] = job[r]
         /\ \A i \in Items, r \in Requests \ {q} : lock[i] = r => lock'[i] = r
<1>1. DOMAIN lock = Items
  BY DEF Stock!IInv, Stock!RowsOK
<1>2. lock' \in [Items -> Requests \cup {NoOne}]
  BY <1>1 DEF Stock!End, Stock!Released, Stock!IInv, Stock!RowsOK
<1>3. \A i \in Items, r \in Requests \ {q} : lock[i] = r => lock'[i] = r
  BY <1>1 DEF Stock!End, Stock!Released
<1>4. QED
  BY <1>2, <1>3 DEF Stock!End, Stock!IInv, Stock!RowsOK

LEMMA StockRollbackKeeps ==
  ASSUME Stock!IInv, NEW q \in Requests, Stock!Rollback(q)
  PROVE  Stock!IInv'
<1>1. Stock!End(q) /\ UNCHANGED <<item, stock, placed, moved, godown, paper>>
  BY DEF Stock!Rollback
<1>2. Stock!RowsOK'
  BY <1>1, StockEndEffect, TablesKept DEF Stock!RowsOK
<1>3. ASSUME NEW r \in Requests
      PROVE  Stock!MovesJob(r)' /\ Stock!RemovalJob(r)'
  <2>1. CASE r = q
    BY <1>1, <2>1, StockEndEffect DEF Stock!MovesJob, Stock!RemovalJob
  <2>2. CASE r # q
    <3>1. Stock!MovesJob(r) /\ Stock!RemovalJob(r)
      BY DEF Stock!IInv
    <3>2. pc'[r] = pc[r] /\ job'[r] = job[r] /\ \A i \in Items : lock[i] = r => lock'[i] = r
      BY <1>1, <2>2, StockEndEffect
    <3>3. \A i, p : Stock!Held(i, p)' = Stock!Held(i, p)
      BY <1>1, TablesKept
    <3>4. QED
      BY <3>1, <3>2, <3>3 DEF Stock!MovesJob, Stock!RemovalJob
  <2>3. QED
    BY <2>1, <2>2
<1>4. QED
  BY <1>1, <1>2, <1>3, TablesKept DEF Stock!IInv

\* A handler that only checks and plans.
LEMMA StockCheckKeeps ==
  ASSUME Stock!IInv, NEW q \in Requests, NEW op, NEW rows \in SUBSET Items, NEW j, Stock!Check(q, op, rows, j),
         NEW planned, planned = [j EXCEPT !.op = op],
         op \notin {"removeItem", "removeGodown"} =>
           /\ planned.op = op /\ rows = {planned.item}
           /\ Stock!IsMoves(planned.moves) /\ Stock!PaperFits(planned.moves, planned.paper)
           /\ ~AllowNegative => \A p \in DOMAIN planned.moves : Stock!Held(planned.item, p) + planned.moves[p] >= 0,
         op = "removeItem" => planned.op = op /\ planned.item \in Items,
         op = "removeGodown" => planned.op = op /\ planned.godown \in Godowns
  PROVE  Stock!IInv'
<1>1. /\ pc[q] = "idle" /\ \A r \in rows : lock[r] = NoOne
      /\ pc' = [pc EXCEPT ![q] = "checked"] /\ job' = [job EXCEPT ![q] = planned]
      /\ lock' = [r \in Items |-> IF r \in rows THEN q ELSE lock[r]]
      /\ UNCHANGED <<item, stock, placed, moved, godown, paper>>
  BY DEF Stock!Check, Stock!CanLock
<1>2. /\ pc \in [Requests -> {"idle", "checked"}] /\ DOMAIN job = Requests
      /\ lock \in [Items -> Requests \cup {NoOne}]
  BY DEF Stock!IInv, Stock!RowsOK
<1>3. /\ pc' \in [Requests -> {"idle", "checked"}] /\ DOMAIN job' = Requests
      /\ lock' \in [Items -> Requests \cup {NoOne}]
      /\ job'[q] = planned /\ pc'[q] = "checked"
      /\ \A r \in Requests \ {q} : pc'[r] = pc[r] /\ job'[r] = job[r]
  BY <1>1, <1>2
<1>4. Stock!RowsOK'
  BY <1>1, <1>3, TablesKept DEF Stock!RowsOK
<1>5. \A i, p : Stock!Held(i, p)' = Stock!Held(i, p)
  BY <1>1, TablesKept
<1>6. ASSUME NEW r \in Requests \ {q}
      PROVE  Stock!MovesJob(r)' /\ Stock!RemovalJob(r)'
  <2>1. Stock!MovesJob(r) /\ Stock!RemovalJob(r)
    BY DEF Stock!IInv
  <2>2. \A i \in Items : lock[i] = r => lock'[i] = r
    BY <1>1, NoOneAssumption
  <2>3. QED
    BY <1>3, <1>5, <2>1, <2>2 DEF Stock!MovesJob, Stock!RemovalJob
<1>7. Stock!MovesJob(q)'
  <2>1. CASE op \notin {"removeItem", "removeGodown"}
    <3>1. planned.item \in Items /\ lock'[planned.item] = q
      BY <1>1, <2>1
    <3>2. QED
      BY <1>3, <1>5, <2>1, <3>1 DEF Stock!MovesJob
  <2>2. CASE op \in {"removeItem", "removeGodown"}
    BY <1>3, <2>2 DEF Stock!MovesJob
  <2>3. QED
    BY <2>1, <2>2
<1>8. Stock!RemovalJob(q)'
  BY <1>3 DEF Stock!RemovalJob
<1>9. QED
  BY <1>1, <1>4, <1>6, <1>7, <1>8, TablesKept DEF Stock!IInv

\* adjustStock() of one item.
LEMMA AdjustKeeps ==
  ASSUME Stock!IInv, NEW q \in Requests, NEW op, op \notin {"removeItem", "removeGodown"},
         NEW i \in Items, NEW moves, NEW papers, Stock!Adjust(q, op, i, moves, papers),
         Stock!IsMoves(moves), Stock!PaperFits(moves, papers),
         ~AllowNegative => \A p \in DOMAIN moves : Stock!Held(i, p) + moves[p] >= 0
  PROVE  Stock!IInv'
<1> DEFINE j == [Stock!NoJob EXCEPT !.item = i, !.moves = moves, !.paper = papers]
<1>1. PICK planned : planned = [j EXCEPT !.op = op]
  OBVIOUS
<1>2. planned.op = op /\ planned.item = i /\ planned.moves = moves /\ planned.paper = papers
  BY <1>1 DEF Stock!NoJob
<1>3. Stock!Check(q, op, {i}, j)
  BY DEF Stock!Adjust
<1> HIDE DEF j
<1>4. QED
  BY <1>1, <1>2, <1>3, StockCheckKeeps

\* One place is moved.
LEMMA OneMove ==
  ASSUME NEW p \in Stock!Places, NEW n \in Int \ {0}
  PROVE  Stock!IsMoves(Stock!One(p, n)) /\ DOMAIN Stock!One(p, n) = {p} /\ Stock!One(p, n)[p] = n
BY DEF Stock!IsMoves, Stock!One

LEMMA NoPaperFits ==
  ASSUME NEW moves
  PROVE  Stock!PaperFits(moves, Stock!Nothing)
BY DEF Stock!PaperFits, Stock!Nothing

LEMMA NothingMoves == Stock!IsMoves(Stock!Nothing) /\ DOMAIN Stock!Nothing = {}
BY DEF Stock!IsMoves, Stock!Nothing

\* What is held is not below zero as long as that is forbidden.
LEMMA HeldNotBelow ==
  ASSUME Stock!StockLedgerAssumption, Stock!IInv, ~AllowNegative
  PROVE  \A i \in Items, p \in Stock!Places : Stock!Held(i, p) \in Int /\ Stock!Held(i, p) >= 0
BY RowFacts DEF Stock!IInv, Stock!NothingBelowZero

LEMMA CreateItemKeeps ==
  ASSUME Stock!StockLedgerAssumption, Stock!IInv, NEW q \in Requests, NEW i \in Items, NEW n \in 0 .. MaxQty,
         Stock!CreateItem(q, i, n)
  PROVE  Stock!IInv'
<1>1. n \in Int /\ n >= 0 /\ NoOne \in Stock!Places
  BY DEF Stock!StockLedgerAssumption, Stock!Places
<1>2. CASE n = 0
  <2>1. Stock!Adjust(q, "create", i, Stock!Nothing, Stock!Nothing)
    BY <1>2 DEF Stock!CreateItem
  <2>2. QED
    BY <2>1, NothingMoves, NoPaperFits, AdjustKeeps
<1>3. CASE n # 0
  <2>1. Stock!Adjust(q, "create", i, Stock!One(NoOne, n), Stock!Nothing)
    BY <1>3 DEF Stock!CreateItem
  <2>2. Stock!IsMoves(Stock!One(NoOne, n)) /\ DOMAIN Stock!One(NoOne, n) = {NoOne} /\ Stock!One(NoOne, n)[NoOne] = n
    BY <1>1, <1>3, OneMove
  <2>3. ~AllowNegative => Stock!Held(i, NoOne) + n >= 0
    BY <1>1, HeldNotBelow
  <2>4. QED
    BY <2>1, <2>2, <2>3, NoPaperFits, AdjustKeeps
<1>4. QED
  BY <1>2, <1>3

LEMMA UpdateItemKeeps ==
  ASSUME Stock!StockLedgerAssumption, Stock!IInv, NEW q \in Requests, NEW i \in Items, NEW n \in 0 .. MaxQty,
         Stock!UpdateItem(q, i, n)
  PROVE  Stock!IInv'
<1>1. n \in Int /\ NoOne \in Stock!Places /\ stock[i] \in Int /\ Stock!Held(i, NoOne) \in Int
  BY RowFacts DEF Stock!StockLedgerAssumption, Stock!Places
<1>2. /\ stock[i] # n
      /\ stock[i] > n => Stock!Enough(i, NoOne, stock[i] - n)
      /\ Stock!Adjust(q, "update", i, Stock!One(NoOne, n - stock[i]), Stock!Nothing)
  BY DEF Stock!UpdateItem
<1> DEFINE d == n - stock[i]
<1>3. d \in Int \ {0}
  BY <1>1, <1>2
<1>4. ~AllowNegative => Stock!Held(i, NoOne) + d >= 0
  <2>1. SUFFICES ASSUME ~AllowNegative PROVE Stock!Held(i, NoOne) + d >= 0
    OBVIOUS
  <2>2. Stock!Held(i, NoOne) >= 0
    BY <1>1, <2>1, HeldNotBelow
  <2>3. CASE stock[i] > n
    BY <1>1, <1>2, <2>1, <2>3 DEF Stock!Enough
  <2>4. CASE stock[i] <= n
    BY <1>1, <2>2, <2>4
  <2>5. QED
    BY <1>1, <2>3, <2>4
<1> HIDE DEF d
<1>5. Stock!IsMoves(Stock!One(NoOne, d)) /\ DOMAIN Stock!One(NoOne, d) = {NoOne} /\ Stock!One(NoOne, d)[NoOne] = d
  BY <1>1, <1>3, OneMove
<1>6. QED
  BY <1>2, <1>4, <1>5, NoPaperFits, AdjustKeeps DEF d

LEMMA RemoveItemKeeps ==
  ASSUME Stock!IInv, NEW q \in Requests, NEW i \in Items, Stock!RemoveItem(q, i)
  PROVE  Stock!IInv'
<1> DEFINE j == [Stock!NoJob EXCEPT !.item = i]
<1>1. PICK planned : planned = [j EXCEPT !.op = "removeItem"]
  OBVIOUS
<1>2. planned.op = "removeItem" /\ planned.item = i
  BY <1>1 DEF Stock!NoJob
<1>3. Stock!Check(q, "removeItem", {}, j)
  BY DEF Stock!RemoveItem
<1> HIDE DEF j
<1>4. QED
  BY <1>1, <1>2, <1>3, StockCheckKeeps

LEMMA RemoveWarehouseKeeps ==
  ASSUME Stock!IInv, NEW q \in Requests, NEW g \in Godowns, Stock!RemoveWarehouse(q, g)
  PROVE  Stock!IInv'
<1> DEFINE j == [Stock!NoJob EXCEPT !.godown = g]
<1>1. PICK planned : planned = [j EXCEPT !.op = "removeGodown"]
  OBVIOUS
<1>2. planned.op = "removeGodown" /\ planned.godown = g
  BY <1>1 DEF Stock!NoJob
<1>3. Stock!Check(q, "removeGodown", {}, j)
  BY DEF Stock!RemoveWarehouse
<1> HIDE DEF j
<1>4. QED
  BY <1>1, <1>2, <1>3, StockCheckKeeps

LEMMA StockInKeeps ==
  ASSUME Stock!StockLedgerAssumption, Stock!IInv, NEW q \in Requests, NEW i \in Items, NEW p \in Stock!Places,
         NEW n \in Stock!Quantities, Stock!StockIn(q, i, p, n)
  PROVE  Stock!IInv'
<1>1. n \in Int \ {0} /\ n > 0
  BY DEF Stock!Quantities, Stock!StockLedgerAssumption
<1>2. Stock!Adjust(q, "operate", i, Stock!One(p, n), Stock!Nothing)
  BY DEF Stock!StockIn
<1>3. Stock!IsMoves(Stock!One(p, n)) /\ DOMAIN Stock!One(p, n) = {p} /\ Stock!One(p, n)[p] = n
  BY <1>1, OneMove
<1>4. ~AllowNegative => Stock!Held(i, p) + n >= 0
  BY <1>1, HeldNotBelow
<1>5. QED
  BY <1>2, <1>3, <1>4, NoPaperFits, AdjustKeeps

LEMMA StockOutKeeps ==
  ASSUME Stock!StockLedgerAssumption, Stock!IInv, NEW q \in Requests, NEW i \in Items, NEW p \in Stock!Places,
         NEW n \in Stock!Quantities, Stock!StockOut(q, i, p, n)
  PROVE  Stock!IInv'
<1>1. n \in Int /\ -n \in Int \ {0} /\ Stock!Held(i, p) \in Int
  BY RowFacts DEF Stock!Quantities, Stock!StockLedgerAssumption
<1>2. Stock!Enough(i, p, n) /\ Stock!Adjust(q, "operate", i, Stock!One(p, -n), Stock!Nothing)
  BY DEF Stock!StockOut
<1>3. ~AllowNegative => Stock!Held(i, p) + (-n) >= 0
  BY <1>1, <1>2 DEF Stock!Enough
<1>4. PICK m : m = -n
  OBVIOUS
<1>5. Stock!IsMoves(Stock!One(p, m)) /\ DOMAIN Stock!One(p, m) = {p} /\ Stock!One(p, m)[p] = m
  BY <1>1, <1>4, OneMove
<1>6. QED
  BY <1>2, <1>3, <1>4, <1>5, NoPaperFits, AdjustKeeps

LEMMA StockTransferKeeps ==
  ASSUME Stock!StockLedgerAssumption, Stock!IInv, NEW q \in Requests, NEW i \in Items, NEW from \in Stock!Places,
         NEW to \in Godowns, NEW n \in Stock!Quantities, Stock!StockTransfer(q, i, from, to, n)
  PROVE  Stock!IInv'
<1> DEFINE moves == [p \in {from, to} |-> IF p = to THEN n ELSE -n]
<1>1. /\ from # to /\ to \in Stock!Places /\ n \in Int /\ n > 0
      /\ Stock!Held(i, from) \in Int /\ Stock!Held(i, to) \in Int
  BY RowFacts DEF Stock!StockTransfer, Stock!Quantities, Stock!Places, Stock!StockLedgerAssumption
<1>2. Stock!Enough(i, from, n) /\ Stock!Adjust(q, "operate", i, moves, Stock!Nothing)
  BY DEF Stock!StockTransfer
<1>3. DOMAIN moves = {from, to} /\ moves[from] = -n /\ moves[to] = n
  BY <1>1
<1>4. moves \in [{from, to} -> Int \ {0}]
  BY <1>1
<1> HIDE DEF moves
<1>5. Stock!IsMoves(moves)
  BY <1>1, <1>3, <1>4 DEF Stock!IsMoves
<1>6. ASSUME ~AllowNegative, NEW p \in DOMAIN moves
      PROVE  Stock!Held(i, p) + moves[p] >= 0
  <2>1. CASE p = from
    BY <1>1, <1>2, <1>3, <1>6, <2>1 DEF Stock!Enough
  <2>2. CASE p = to
    BY <1>1, <1>3, <1>6, <2>2, HeldNotBelow
  <2>3. QED
    BY <1>3, <2>1, <2>2
<1>7. QED
  BY <1>2, <1>5, <1>6, NoPaperFits, AdjustKeeps

\* A sale or a bill.
LEMMA PostKeeps ==
  ASSUME Stock!StockLedgerAssumption, Stock!IInv, NEW q \in Requests, NEW k \in Papers, NEW i \in Items,
         NEW p \in Stock!Places, NEW n \in Int, n \in Stock!Quantities \/ -n \in Stock!Quantities, Stock!Post(q, k, i, p, n)
  PROVE  Stock!IInv'
<1> DEFINE row == [state |-> "posted", item |-> i, at |-> p, n |-> n]
<1>1. n # 0 /\ n \in -MaxQty .. MaxQty /\ Stock!Held(i, p) \in Int
  BY RowFacts DEF Stock!Quantities, Stock!StockLedgerAssumption
<1>2. /\ n < 0 => Stock!Enough(i, p, -n)
      /\ Stock!Adjust(q, "post", i, Stock!One(p, n), Stock!One(k, row))
  BY DEF Stock!Post
<1>3. Stock!IsMoves(Stock!One(p, n)) /\ DOMAIN Stock!One(p, n) = {p} /\ Stock!One(p, n)[p] = n
  BY <1>1, OneMove
<1>4. ~AllowNegative => Stock!Held(i, p) + n >= 0
  <2>1. CASE n < 0
    BY <1>1, <1>2, <2>1 DEF Stock!Enough
  <2>2. CASE n >= 0
    BY <1>1, <2>2, HeldNotBelow
  <2>3. QED
    BY <2>1, <2>2
<1>5. row \in Stock!PaperType /\ row.at = p /\ row.item = i /\ row.n # 0
  BY <1>1 DEF Stock!PaperType
<1> HIDE DEF row
<1>6. Stock!PaperFits(Stock!One(p, n), Stock!One(k, row))
  BY <1>3, <1>5 DEF Stock!PaperFits, Stock!One
<1>7. QED
  BY <1>2, <1>3, <1>4, <1>6, AdjustKeeps

\* Its goods go back to where they were, or come from there.
LEMMA ReverseKeeps ==
  ASSUME Stock!StockLedgerAssumption, Stock!IInv, NEW q \in Requests, NEW k \in Papers, Stock!Reverse(q, k)
  PROVE  Stock!IInv'
<1>1. PICK r : r = paper[k]
  OBVIOUS
<1>2. /\ r \in Stock!PaperType /\ r.item \in Items /\ r.n # 0 /\ r.at \in Stock!Places
  BY <1>1 DEF Stock!Reverse, Stock!IInv, Stock!RowsOK, Stock!PaperType
<1>3. PICK m, back : m = -r.n /\ back = [r EXCEPT !.state = "reversed"]
  OBVIOUS
<1>4. /\ r.n > 0 => Stock!Enough(r.item, r.at, r.n)
      /\ Stock!Adjust(q, "post", r.item, Stock!One(r.at, m), Stock!One(k, back))
  BY <1>1, <1>3 DEF Stock!Reverse
<1>5. /\ r.n \in Int /\ m \in Int \ {0} /\ Stock!Held(r.item, r.at) \in Int
  BY <1>2, <1>3, RowFacts DEF Stock!PaperType, Stock!StockLedgerAssumption
<1>6. /\ Stock!IsMoves(Stock!One(r.at, m)) /\ DOMAIN Stock!One(r.at, m) = {r.at} /\ Stock!One(r.at, m)[r.at] = m
  BY <1>2, <1>5, OneMove
<1>7. ~AllowNegative => Stock!Held(r.item, r.at) + m >= 0
  <2>1. CASE r.n > 0
    BY <1>3, <1>4, <1>5, <2>1 DEF Stock!Enough
  <2>2. CASE r.n <= 0
    BY <1>2, <1>3, <1>5, <2>2, HeldNotBelow
  <2>3. QED
    BY <1>5, <2>1, <2>2
<1>8. back \in Stock!PaperType /\ back.at = r.at /\ back.state = "reversed"
  BY <1>2, <1>3 DEF Stock!PaperType
<1>9. Stock!PaperFits(Stock!One(r.at, m), Stock!One(k, back))
  BY <1>6, <1>8 DEF Stock!PaperFits, Stock!One
<1>10. QED
  BY <1>2, <1>4, <1>6, <1>7, <1>9, AdjustKeeps

\* The movements are made on the quantities they were planned for.
LEMMA CommitMovesKeeps ==
  ASSUME Stock!StockLedgerAssumption, Stock!IInv, NEW q \in Requests, Stock!CommitMoves(q)
  PROVE  Stock!IInv'
<1>1. PICK i, moves, papers : i = job[q].item /\ moves = job[q].moves /\ papers = job[q].paper
  OBVIOUS
<1>2. /\ \A p \in DOMAIN moves : Stock!Exists(p)
      /\ Stock!End(q) /\ job[q].op \notin {"removeItem", "removeGodown"}
  BY <1>1 DEF Stock!CommitMoves
<1>3. /\ i \in Items /\ lock[i] = q /\ Stock!IsMoves(moves) /\ Stock!PaperFits(moves, papers)
      /\ ~AllowNegative => \A p \in DOMAIN moves : Stock!Held(i, p) + moves[p] >= 0
  BY <1>1, <1>2 DEF Stock!IInv, Stock!MovesJob, Stock!End
<1>4. /\ item' = [item EXCEPT ![i] = IF @ = "none" THEN "live" ELSE @]
      /\ stock' = [stock EXCEPT ![i] = @ + Stock!Balance(moves)]
      /\ placed' = [placed EXCEPT ![i] = [g \in Godowns |-> @[g] + Stock!Change(moves, g)]]
      /\ moved' = [moved EXCEPT ![i] = [p \in Stock!Places |-> @[p] + Stock!Change(moves, p)]]
      /\ godown' = [g \in Godowns |-> IF Stock!Change(moves, g) # 0 THEN [godown[g] EXCEPT !.used = TRUE]
                                      ELSE godown[g]]
      /\ paper' = [k \in Papers |-> IF k \in DOMAIN papers THEN papers[k] ELSE paper[k]]
  BY <1>1 DEF Stock!CommitMoves
<1>5. PICK next : next = [g \in Godowns |-> placed[i][g] + Stock!Change(moves, g)]
  OBVIOUS
<1>6. /\ next \in [Godowns -> Int] /\ Stock!Balance(moves) \in Int /\ Stock!Change(moves, NoOne) \in Int
      /\ Stock!Balance(placed[i]) \in Int
      /\ Stock!Balance(next) = Stock!Balance(placed[i]) + Stock!Balance(moves) - Stock!Change(moves, NoOne)
  BY <1>3, <1>5, RowFacts, MovesAddUp
<1>7. /\ \A p : Stock!Change(moves, p) \in Int
      /\ \A p : p \notin DOMAIN moves => Stock!Change(moves, p) = 0
      /\ \A p \in DOMAIN moves : Stock!Change(moves, p) = moves[p] /\ moves[p] # 0
      /\ DOMAIN moves \in SUBSET Stock!Places
  <2>1. \A p \in DOMAIN moves : moves[p] \in Int /\ moves[p] # 0
    BY <1>3 DEF Stock!IsMoves
  <2>2. DOMAIN moves \in SUBSET Stock!Places
    BY <1>3 DEF Stock!IsMoves
  <2>3. QED
    BY <2>1, <2>2 DEF Stock!Change
<1>8. /\ DOMAIN item = Items /\ DOMAIN stock = Items /\ DOMAIN placed = Items /\ DOMAIN moved = Items
      /\ godown \in [Godowns -> [exists : BOOLEAN, used : BOOLEAN]]
      /\ item \in [Items -> {"none", "live", "deleted"}]
  BY DEF Stock!IInv, Stock!RowsOK, Stock!TypeOK
<1>9. /\ stock'[i] = stock[i] + Stock!Balance(moves) /\ placed'[i] = next
      /\ moved'[i] = [p \in Stock!Places |-> moved[i][p] + Stock!Change(moves, p)]
      /\ item'[i] \in {"live", "deleted"}
      /\ \A x \in Items \ {i} : /\ stock'[x] = stock[x] /\ placed'[x] = placed[x]
                                /\ moved'[x] = moved[x] /\ item'[x] = item[x]
      /\ DOMAIN item' = Items /\ DOMAIN stock' = Items /\ DOMAIN placed' = Items /\ DOMAIN moved' = Items
  BY <1>3, <1>4, <1>5, <1>8
<1>10. \A x \in Items \ {i}, p \in Stock!Places : Stock!Held(x, p)' = Stock!Held(x, p)
  BY <1>9 DEF Stock!Held
<1>11. ASSUME NEW p \in Stock!Places
       PROVE  /\ Stock!Held(i, p) \in Int /\ Stock!Held(i, p)' = Stock!Held(i, p) + Stock!Change(moves, p)
  <2>1. Stock!Held(i, p) \in Int /\ stock[i] \in Int
    BY <1>3, RowFacts
  <2>2. CASE p = NoOne
    <3>1. Stock!Held(i, p) = stock[i] - Stock!Balance(placed[i]) /\ Stock!Held(i, p)' = stock'[i] - Stock!Balance(placed'[i])
      BY <2>2 DEF Stock!Held
    <3>2. QED
      BY <1>6, <1>9, <2>1, <2>2, <3>1
  <2>3. CASE p \in Godowns
    <3>1. Stock!Held(i, p) = placed[i][p] /\ Stock!Held(i, p)' = placed'[i][p]
      BY <2>3, RowFacts DEF Stock!Held
    <3>2. QED
      BY <1>5, <1>9, <2>1, <2>3, <3>1
  <2>4. QED
    BY <2>2, <2>3 DEF Stock!Places
<1>12. Stock!MovementsExplainStock'
  <2>1. ASSUME NEW x \in Items, NEW p \in Stock!Places
        PROVE  moved'[x][p] = Stock!Held(x, p)'
    <3>1. moved[x][p] = Stock!Held(x, p)
      BY DEF Stock!IInv, Stock!MovementsExplainStock
    <3>2. CASE x = i
      <4>1. moved'[i][p] = moved[i][p] + Stock!Change(moves, p)
        BY <1>9
      <4>2. QED
        BY <1>11, <3>1, <3>2, <4>1
    <3>3. CASE x # i
      BY <1>9, <1>10, <3>1, <3>3
    <3>4. QED
      BY <3>2, <3>3
  <2>2. QED
    BY <2>1 DEF Stock!MovementsExplainStock
<1>13. Stock!NothingBelowZero'
  <2>1. ASSUME ~AllowNegative, NEW x \in Items, NEW p \in Stock!Places
        PROVE  Stock!Held(x, p)' >= 0
    <3>1. Stock!Held(x, p) >= 0
      BY <2>1 DEF Stock!IInv, Stock!NothingBelowZero
    <3>2. CASE x = i /\ p \in DOMAIN moves
      <4>1. Stock!Held(i, p)' = Stock!Held(i, p) + moves[p]
        BY <1>7, <1>11, <3>2
      <4>2. QED
        BY <1>3, <2>1, <3>2, <4>1
    <3>3. CASE x = i /\ p \notin DOMAIN moves
      BY <1>7, <1>11, <3>1, <3>3
    <3>4. CASE x # i
      BY <1>10, <3>1, <3>4
    <3>5. QED
      BY <3>2, <3>3, <3>4
  <2>2. QED
    BY <2>1 DEF Stock!NothingBelowZero
<1>14. ASSUME NEW g \in Godowns
       PROVE  /\ godown'[g] \in [exists : BOOLEAN, used : BOOLEAN]
              /\ godown'[g].exists = godown[g].exists
              /\ godown'[g].used = (godown[g].used \/ Stock!Change(moves, g) # 0)
  BY <1>4, <1>8
<1>15. ASSUME NEW k \in Papers
       PROVE  /\ paper'[k] \in Stock!PaperType
              /\ paper'[k].state = "posted" => paper'[k].item \in Items /\ paper'[k].n # 0
              /\ paper'[k].at \in DOMAIN moves \/ paper'[k].at = paper[k].at
  BY <1>3, <1>4 DEF Stock!PaperFits, Stock!IInv, Stock!RowsOK
<1>16. Stock!UseIsRecorded'
  <2>1. ASSUME NEW g \in Godowns, ~godown'[g].used
        PROVE  /\ \A x \in Items : moved'[x][g] = 0
               /\ \A k \in Papers : paper'[k].at # g
    <3>1. ~godown[g].used /\ Stock!Change(moves, g) = 0 /\ g \in Stock!Places
      BY <1>14, <2>1 DEF Stock!Places
    <3>2. /\ \A x \in Items : moved[x][g] = 0
          /\ \A k \in Papers : paper[k].at # g
      BY <3>1 DEF Stock!IInv, Stock!UseIsRecorded
    <3>3. \A x \in Items : moved'[x][g] = 0
      BY <1>3, <1>9, <3>1, <3>2
    <3>4. g \notin DOMAIN moves
      BY <1>7, <3>1
    <3>5. QED
      BY <1>15, <3>2, <3>3, <3>4
  <2>2. QED
    BY <2>1 DEF Stock!UseIsRecorded
<1>17. Stock!UsedGodownsExist'
  <2>1. ASSUME NEW g \in Godowns, godown'[g].used
        PROVE  godown'[g].exists
    <3>1. CASE godown[g].used
      BY <1>14, <3>1 DEF Stock!IInv, Stock!UsedGodownsExist
    <3>2. CASE Stock!Change(moves, g) # 0
      <4>1. g \in DOMAIN moves /\ g # NoOne
        BY <1>7, <3>2, RowFacts
      <4>2. QED
        BY <1>2, <1>14, <4>1 DEF Stock!Exists
    <3>3. QED
      BY <1>14, <2>1, <3>1, <3>2
  <2>2. QED
    BY <2>1 DEF Stock!UsedGodownsExist
<1>18. Stock!RowsOK'
  <2>1. \A x \in Items : /\ item'[x] \in {"none", "live", "deleted"} /\ stock'[x] \in Int
                         /\ placed'[x] \in [Godowns -> Int] /\ moved'[x] \in [Stock!Places -> Int]
    <3>1. \A x \in Items : /\ item[x] \in {"none", "live", "deleted"} /\ stock[x] \in Int
                           /\ placed[x] \in [Godowns -> Int] /\ moved[x] \in [Stock!Places -> Int]
      BY DEF Stock!IInv, Stock!RowsOK, Stock!TypeOK
    <3>2. moved'[i] \in [Stock!Places -> Int] /\ stock'[i] \in Int /\ placed'[i] \in [Godowns -> Int]
      BY <1>3, <1>6, <1>7, <1>9, <3>1
    <3>3. QED
      BY <1>9, <3>1, <3>2
  <2>2. /\ item' \in [Items -> {"none", "live", "deleted"}] /\ stock' \in [Items -> Int]
        /\ placed' \in [Items -> [Godowns -> Int]] /\ moved' \in [Items -> [Stock!Places -> Int]]
    <3>1. /\ item' = [x \in Items |-> item'[x]] /\ stock' = [x \in Items |-> stock'[x]]
          /\ placed' = [x \in Items |-> placed'[x]] /\ moved' = [x \in Items |-> moved'[x]]
      BY <1>4, <1>8
    <3>2. QED
      BY <2>1, <3>1
  <2>3. /\ godown' \in [Godowns -> [exists : BOOLEAN, used : BOOLEAN]]
        /\ paper' \in [Papers -> Stock!PaperType]
    BY <1>4, <1>14, <1>15
  <2>4. \A k \in Papers : paper'[k].n \in -MaxQty .. MaxQty /\ paper'[k].at \in Stock!Places
    BY <2>3 DEF Stock!PaperType
  <2>5. \A x \in Items : item'[x] = "none" => \A p \in Stock!Places : moved'[x][p] = 0
    BY <1>9 DEF Stock!IInv, Stock!RowsOK, Stock!TypeOK
  <2>6. QED
    BY <1>2, <1>15, <2>2, <2>3, <2>4, <2>5, StockEndEffect DEF Stock!RowsOK, Stock!TypeOK
<1>19. ASSUME NEW r \in Requests
       PROVE  Stock!MovesJob(r)' /\ Stock!RemovalJob(r)'
  <2>1. CASE r = q
    BY <1>2, <2>1, StockEndEffect DEF Stock!MovesJob, Stock!RemovalJob
  <2>2. CASE r # q
    <3>1. Stock!MovesJob(r) /\ Stock!RemovalJob(r)
      BY DEF Stock!IInv
    <3>2. pc'[r] = pc[r] /\ job'[r] = job[r] /\ \A x \in Items : lock[x] = r => lock'[x] = r
      BY <1>2, <2>2, StockEndEffect
    <3>3. \A x \in Items, p \in Stock!Places : lock[x] = r => Stock!Held(x, p)' = Stock!Held(x, p)
      BY <1>3, <1>10, <2>2
    <3>4. Stock!IsMoves(job[r].moves) => DOMAIN job[r].moves \in SUBSET Stock!Places
      BY DEF Stock!IsMoves
    <3>5. QED
      BY <3>1, <3>2, <3>3, <3>4 DEF Stock!MovesJob, Stock!RemovalJob
  <2>3. QED
    BY <2>1, <2>2
<1>20. QED
  BY <1>12, <1>13, <1>16, <1>17, <1>18, <1>19 DEF Stock!IInv

\* An item is removed: its quantities stay.
LEMMA CommitRemoveItemKeeps ==
  ASSUME Stock!StockLedgerAssumption, Stock!IInv, NEW q \in Requests, Stock!CommitRemoveItem(q)
  PROVE  Stock!IInv'
<1>1. PICK i : i = job[q].item
  OBVIOUS
<1>2. /\ Stock!End(q) /\ item' = [item EXCEPT ![i] = "deleted"]
      /\ UNCHANGED <<stock, placed, moved, godown, paper>> /\ job[q].op = "removeItem"
  BY <1>1 DEF Stock!CommitRemoveItem
<1>3. i \in Items
  BY <1>1, <1>2 DEF Stock!IInv, Stock!RemovalJob, Stock!End
<1>4. \A x, p : Stock!Held(x, p)' = Stock!Held(x, p)
  BY <1>2 DEF Stock!Held
<1>5. Stock!TypeOK'
  BY <1>2, <1>3 DEF Stock!IInv, Stock!RowsOK, Stock!TypeOK
<1>6. Stock!RowsOK'
  BY <1>2, <1>5, StockEndEffect DEF Stock!IInv, Stock!RowsOK
<1>7. Stock!MovementsExplainStock' /\ Stock!NothingBelowZero' /\ Stock!UseIsRecorded' /\ Stock!UsedGodownsExist'
  BY <1>2, <1>4
  DEF Stock!IInv, Stock!MovementsExplainStock, Stock!NothingBelowZero, Stock!UseIsRecorded, Stock!UsedGodownsExist
<1>8. ASSUME NEW r \in Requests
      PROVE  Stock!MovesJob(r)' /\ Stock!RemovalJob(r)'
  <2>1. CASE r = q
    BY <1>2, <2>1, StockEndEffect DEF Stock!MovesJob, Stock!RemovalJob
  <2>2. CASE r # q
    <3>1. Stock!MovesJob(r) /\ Stock!RemovalJob(r)
      BY DEF Stock!IInv
    <3>2. pc'[r] = pc[r] /\ job'[r] = job[r] /\ \A x \in Items : lock[x] = r => lock'[x] = r
      BY <1>2, <2>2, StockEndEffect
    <3>3. QED
      BY <1>4, <3>1, <3>2 DEF Stock!MovesJob, Stock!RemovalJob
  <2>3. QED
    BY <2>1, <2>2
<1>9. QED
  BY <1>6, <1>7, <1>8 DEF Stock!IInv

\* A godown without movements is removed: nothing lay there.
LEMMA CommitRemoveWarehouseKeeps ==
  ASSUME Stock!StockLedgerAssumption, Stock!IInv, NEW q \in Requests, Stock!CommitRemoveWarehouse(q)
  PROVE  Stock!IInv'
<1>1. PICK g : g = job[q].godown
  OBVIOUS
<1>2. /\ Stock!End(q) /\ job[q].op = "removeGodown" /\ godown[g].exists /\ ~godown[g].used
      /\ placed' = [i \in Items |-> [placed[i] EXCEPT ![g] = 0]]
      /\ godown' = [godown EXCEPT ![g].exists = FALSE]
      /\ UNCHANGED <<item, stock, moved, paper>>
  BY <1>1 DEF Stock!CommitRemoveWarehouse
<1>3. g \in Godowns
  BY <1>1, <1>2 DEF Stock!IInv, Stock!RemovalJob, Stock!End
<1>4. ASSUME NEW i \in Items
      PROVE  placed[i] \in [Godowns -> Int] /\ placed[i][g] = 0
  <2>1. moved[i][g] = 0
    BY <1>2, <1>3 DEF Stock!IInv, Stock!UseIsRecorded
  <2>2. moved[i][g] = Stock!Held(i, g)
    BY <1>3, RowFacts DEF Stock!IInv, Stock!MovementsExplainStock
  <2>3. QED
    BY <1>3, <2>1, <2>2, RowFacts DEF Stock!Held
<1>5. placed' = placed
  <2>1. \A i \in Items : [placed[i] EXCEPT ![g] = 0] = placed[i]
    BY <1>4
  <2>2. placed \in [Items -> [Godowns -> Int]]
    BY DEF Stock!IInv, Stock!RowsOK, Stock!TypeOK
  <2>3. QED
    BY <1>2, <2>1, <2>2
<1>6. \A x, p : Stock!Held(x, p)' = Stock!Held(x, p)
  BY <1>2, <1>5 DEF Stock!Held
<1>7. /\ godown' \in [Godowns -> [exists : BOOLEAN, used : BOOLEAN]]
      /\ \A h \in Godowns : /\ godown'[h].used = godown[h].used
                            /\ h # g => godown'[h].exists = godown[h].exists
  <2>1. godown \in [Godowns -> [exists : BOOLEAN, used : BOOLEAN]]
    BY DEF Stock!IInv, Stock!RowsOK, Stock!TypeOK
  <2>2. QED
    BY <1>2, <1>3, <2>1
<1>8. Stock!TypeOK'
  BY <1>2, <1>5, <1>7 DEF Stock!IInv, Stock!RowsOK, Stock!TypeOK
<1>9. Stock!RowsOK'
  BY <1>2, <1>8, StockEndEffect DEF Stock!IInv, Stock!RowsOK
<1>10. Stock!MovementsExplainStock' /\ Stock!NothingBelowZero'
  BY <1>2, <1>6 DEF Stock!IInv, Stock!MovementsExplainStock, Stock!NothingBelowZero
<1>11. Stock!UseIsRecorded' /\ Stock!UsedGodownsExist'
  BY <1>2, <1>7 DEF Stock!IInv, Stock!UseIsRecorded, Stock!UsedGodownsExist
<1>12. ASSUME NEW r \in Requests
       PROVE  Stock!MovesJob(r)' /\ Stock!RemovalJob(r)'
  <2>1. CASE r = q
    BY <1>2, <2>1, StockEndEffect DEF Stock!MovesJob, Stock!RemovalJob
  <2>2. CASE r # q
    <3>1. Stock!MovesJob(r) /\ Stock!RemovalJob(r)
      BY DEF Stock!IInv
    <3>2. pc'[r] = pc[r] /\ job'[r] = job[r] /\ \A x \in Items : lock[x] = r => lock'[x] = r
      BY <1>2, <2>2, StockEndEffect
    <3>3. QED
      BY <1>6, <3>1, <3>2 DEF Stock!MovesJob, Stock!RemovalJob
  <2>3. QED
    BY <2>1, <2>2
<1>13. QED
  BY <1>9, <1>10, <1>11, <1>12 DEF Stock!IInv

LEMMA CreateWarehouseKeeps ==
  ASSUME Stock!IInv, NEW g \in Godowns, Stock!CreateWarehouse(g)
  PROVE  Stock!IInv'
<1>1. /\ godown' = [godown EXCEPT ![g].exists = TRUE]
      /\ UNCHANGED <<item, stock, placed, moved, paper, lock, pc, job>>
  BY DEF Stock!CreateWarehouse
<1>2. /\ godown' \in [Godowns -> [exists : BOOLEAN, used : BOOLEAN]]
      /\ \A h \in Godowns : /\ godown'[h].used = godown[h].used
                            /\ godown[h].exists => godown'[h].exists
  <2>1. godown \in [Godowns -> [exists : BOOLEAN, used : BOOLEAN]]
    BY DEF Stock!IInv, Stock!RowsOK, Stock!TypeOK
  <2>2. QED
    BY <1>1, <2>1
<1>3. \A x, p : Stock!Held(x, p)' = Stock!Held(x, p)
  BY <1>1 DEF Stock!Held
<1>4. Stock!TypeOK'
  BY <1>1, <1>2 DEF Stock!IInv, Stock!RowsOK, Stock!TypeOK
<1>5. Stock!RowsOK'
  BY <1>1, <1>4 DEF Stock!IInv, Stock!RowsOK
<1>6. Stock!MovementsExplainStock' /\ Stock!NothingBelowZero'
  BY <1>1, <1>3 DEF Stock!IInv, Stock!MovementsExplainStock, Stock!NothingBelowZero
<1>7. Stock!UseIsRecorded' /\ Stock!UsedGodownsExist'
  BY <1>1, <1>2 DEF Stock!IInv, Stock!UseIsRecorded, Stock!UsedGodownsExist
<1>8. \A r \in Requests : Stock!MovesJob(r)' /\ Stock!RemovalJob(r)'
  BY <1>1, <1>3 DEF Stock!IInv, Stock!MovesJob, Stock!RemovalJob
<1>9. QED
  BY <1>5, <1>6, <1>7, <1>8 DEF Stock!IInv

LEMMA StockInitInvariant ==
  ASSUME Stock!StockLedgerAssumption, Stock!Init
  PROVE  Stock!IInv
<1>1. /\ item = [i \in Items |-> "none"] /\ stock = [i \in Items |-> 0]
      /\ placed = [i \in Items |-> [g \in Godowns |-> 0]]
      /\ moved = [i \in Items |-> [p \in Stock!Places |-> 0]]
      /\ godown = [g \in Godowns |-> [exists |-> FALSE, used |-> FALSE]]
      /\ paper = [k \in Papers |-> Stock!NoPaper]
      /\ lock = [r \in Items |-> NoOne]
      /\ pc = [q \in Requests |-> "idle"] /\ job = [q \in Requests |-> Stock!NoJob]
  BY DEF Stock!Init
<1>2. NoOne \notin Godowns /\ Stock!Places = Godowns \cup {NoOne}
  BY DEF Stock!StockLedgerAssumption, Stock!Places
<1>3. Stock!NoPaper \in Stock!PaperType /\ Stock!NoPaper.at = NoOne /\ Stock!NoPaper.state = "none"
  BY DEF Stock!NoPaper, Stock!PaperType, Stock!Places, Stock!StockLedgerAssumption
<1>4. ASSUME NEW i \in Items, NEW p \in Stock!Places
      PROVE  Stock!Held(i, p) = 0
  <2>1. stock[i] = 0 /\ placed[i] \in [Godowns -> Int] /\ \A g \in Godowns : placed[i][g] = 0
    BY <1>1
  <2>2. Stock!Balance(placed[i]) = 0
    BY <2>1, BalanceZero
  <2>3. QED
    BY <1>2, <2>1, <2>2 DEF Stock!Held
<1>5. paper \in [Papers -> Stock!PaperType]
  BY <1>1, <1>3
<1>6. Stock!TypeOK
  BY <1>1, <1>5 DEF Stock!TypeOK, Stock!PaperType
<1>7. Stock!RowsOK
  BY <1>1, <1>3, <1>5, <1>6 DEF Stock!RowsOK
<1>8. Stock!MovementsExplainStock /\ Stock!NothingBelowZero
  BY <1>1, <1>4 DEF Stock!MovementsExplainStock, Stock!NothingBelowZero
<1>9. Stock!UseIsRecorded /\ Stock!UsedGodownsExist
  BY <1>1, <1>2, <1>3 DEF Stock!UseIsRecorded, Stock!UsedGodownsExist
<1>10. \A q \in Requests : Stock!MovesJob(q) /\ Stock!RemovalJob(q)
  BY <1>1 DEF Stock!MovesJob, Stock!RemovalJob
<1>11. QED
  BY <1>7, <1>8, <1>9, <1>10 DEF Stock!IInv

LEMMA StockStutterKeeps ==
  ASSUME Stock!IInv, UNCHANGED Stock!vars
  PROVE  Stock!IInv'
<1>1. UNCHANGED <<item, stock, placed, moved, godown, paper, lock, pc, job>>
  BY DEF Stock!vars
<1>2. Stock!RowsOK'
  BY <1>1, TablesKept DEF Stock!IInv, Stock!RowsOK
<1>3. \A r \in Requests : Stock!MovesJob(r)' /\ Stock!RemovalJob(r)'
  BY <1>1, TablesKept DEF Stock!IInv, Stock!MovesJob, Stock!RemovalJob
<1>4. QED
  BY <1>1, <1>2, <1>3, TablesKept DEF Stock!IInv

LEMMA StockNextInvariant ==
  ASSUME Stock!StockLedgerAssumption, Stock!IInv, [Stock!Next]_(Stock!vars)
  PROVE  Stock!IInv'
<1>1. ASSUME NEW q \in Requests,
             Stock!CommitMoves(q) \/ Stock!Rollback(q) \/ Stock!CommitRemoveItem(q) \/ Stock!CommitRemoveWarehouse(q)
      PROVE  Stock!IInv'
  BY <1>1, CommitMovesKeeps, StockRollbackKeeps, CommitRemoveItemKeeps, CommitRemoveWarehouseKeeps
<1>2. ASSUME NEW q \in Requests, NEW i \in Items, NEW n \in 0 .. MaxQty,
             Stock!CreateItem(q, i, n) \/ Stock!UpdateItem(q, i, n)
      PROVE  Stock!IInv'
  BY <1>2, CreateItemKeeps, UpdateItemKeeps
<1>3. ASSUME NEW q \in Requests, NEW i \in Items, Stock!RemoveItem(q, i)
      PROVE  Stock!IInv'
  BY <1>3, RemoveItemKeeps
<1>4. ASSUME NEW q \in Requests, NEW i \in Items, NEW p \in Stock!Places, NEW n \in Stock!Quantities,
             Stock!StockIn(q, i, p, n) \/ Stock!StockOut(q, i, p, n)
      PROVE  Stock!IInv'
  BY <1>4, StockInKeeps, StockOutKeeps
<1>5. ASSUME NEW q \in Requests, NEW i \in Items, NEW p \in Stock!Places, NEW n \in Stock!Quantities,
             NEW to \in Godowns, Stock!StockTransfer(q, i, p, to, n)
      PROVE  Stock!IInv'
  BY <1>5, StockTransferKeeps
<1>6. ASSUME NEW q \in Requests, NEW i \in Items, NEW p \in Stock!Places, NEW n \in Stock!Quantities,
             NEW k \in Papers, Stock!Post(q, k, i, p, n) \/ Stock!Post(q, k, i, p, -n)
      PROVE  Stock!IInv'
  <2>1. PICK m : m = -n
    OBVIOUS
  <2>2. n \in Int /\ m \in Int /\ -m = n
    BY <2>1 DEF Stock!Quantities, Stock!StockLedgerAssumption
  <2>3. CASE Stock!Post(q, k, i, p, n)
    BY <2>2, <2>3, PostKeeps
  <2>4. CASE Stock!Post(q, k, i, p, m)
    BY <2>2, <2>4, PostKeeps
  <2>5. QED
    BY <1>6, <2>1, <2>3, <2>4
<1>7. ASSUME NEW q \in Requests, NEW k \in Papers, Stock!Reverse(q, k)
      PROVE  Stock!IInv'
  BY <1>7, ReverseKeeps
<1>8. ASSUME NEW q \in Requests, NEW g \in Godowns, Stock!RemoveWarehouse(q, g)
      PROVE  Stock!IInv'
  BY <1>8, RemoveWarehouseKeeps
<1>9. ASSUME NEW g \in Godowns, Stock!CreateWarehouse(g)
      PROVE  Stock!IInv'
  BY <1>9, CreateWarehouseKeeps
<1>10. CASE UNCHANGED Stock!vars
  BY <1>10, StockStutterKeeps
<1>11. QED
  BY <1>1, <1>2, <1>3, <1>4, <1>5, <1>6, <1>7, <1>8, <1>9, <1>10 DEF Stock!Next

\* What a request has planned still fits when it commits.
THEOREM StockInvariance == ASSUME Stock!StockLedgerAssumption PROVE Stock!Spec => []Stock!IInv
<1>1. Stock!Init => Stock!IInv
  BY StockInitInvariant
<1>2. Stock!IInv /\ [Stock!Next]_(Stock!vars) => Stock!IInv'
  BY StockNextInvariant
<1>3. QED
  BY <1>1, <1>2, PTL DEF Stock!Spec

\* Quantities are whole numbers, and what was never created never moved.
THEOREM QuantitiesAreTyped == ASSUME Stock!StockLedgerAssumption PROVE Stock!Spec => []Stock!TypeOK
<1>1. Stock!IInv => Stock!TypeOK
  BY DEF Stock!IInv, Stock!RowsOK
<1>2. QED
  BY <1>1, StockInvariance, PTL

\* The total and the part of every godown, which handlers increment in rows of their
\* own, are what the movements of adjustStock() add up to.
THEOREM MovementsAddUp == ASSUME Stock!StockLedgerAssumption PROVE Stock!Spec => []Stock!MovementsExplainStock
<1>1. Stock!IInv => Stock!MovementsExplainStock
  BY DEF Stock!IInv
<1>2. QED
  BY <1>1, StockInvariance, PTL

\* Without negativeStock neither a godown nor the unallocated rest goes below zero.
THEOREM StockIsNotOversold == ASSUME Stock!StockLedgerAssumption PROVE Stock!Spec => []Stock!NothingBelowZero
<1>1. Stock!IInv => Stock!NothingBelowZero
  BY DEF Stock!IInv
<1>2. QED
  BY <1>1, StockInvariance, PTL

\* A removed godown was never used by a movement or a paper that is on record.
THEOREM UsedGodownsAreRetained == ASSUME Stock!StockLedgerAssumption PROVE Stock!Spec => []Stock!GodownsRetained
<1>1. Stock!IInv => Stock!GodownsRetained
  BY DEF Stock!IInv, Stock!UseIsRecorded, Stock!UsedGodownsExist, Stock!GodownsRetained
<1>2. QED
  BY <1>1, StockInvariance, PTL

-----------------------------------------------------------------------------
(* Items that papers name.  remove() of items.service.ts counts the papers   *)
(* without a lock, so this is shown of one request at a time, and of any     *)
(* number of requests as long as no item is removed.                         *)

\* No paper has a line of item i.
Paperless(i) == \A k \in Papers : paper[k].item # i

\* What a request has checked of items and papers is what LinkJob says of its plan.
LEMMA LinkCheckKeeps ==
  ASSUME Stock!IInv, Stock!LinksHold, NEW q \in Requests, NEW op, NEW rows, NEW j,
         Stock!Check(q, op, rows, j), NEW planned, planned = [j EXCEPT !.op = op], planned.op = op,
         op = "removeItem" => Paperless(planned.item),
         op \notin {"removeItem", "removeGodown"} =>
           /\ item[planned.item] # "deleted"
           /\ \A k \in DOMAIN planned.paper : planned.paper[k].item = planned.item
  PROVE  Stock!LinksHold'
<1>1. /\ op \in StockOps /\ pc' = [pc EXCEPT ![q] = "checked"] /\ job' = [job EXCEPT ![q] = planned]
      /\ UNCHANGED <<item, paper>>
  BY DEF Stock!Check
<1>2. pc \in [Requests -> {"idle", "checked"}] /\ DOMAIN job = Requests
  BY DEF Stock!IInv, Stock!RowsOK
<1>3. job'[q] = planned /\ \A r \in Requests \ {q} : pc'[r] = pc[r] /\ job'[r] = job[r]
  BY <1>1, <1>2
<1>4. SUFFICES ASSUME Stock!ItemsAlone'
               PROVE  Stock!LinkedItemsRetained' /\ \A r \in Requests : Stock!LinkJob(r)'
  BY DEF Stock!LinksHold
<1>5. Stock!LinkedItemsRetained /\ \A r \in Requests : Stock!LinkJob(r)
  BY <1>4 DEF Stock!LinksHold, Stock!ItemsAlone
<1>6. Stock!LinkedItemsRetained'
  BY <1>1, <1>5 DEF Stock!LinkedItemsRetained
<1>7. Stock!LinkJob(q)'
  BY <1>1, <1>3 DEF Stock!LinkJob, Paperless
<1>8. ASSUME NEW r \in Requests \ {q}
      PROVE  Stock!LinkJob(r)'
  BY <1>1, <1>3, <1>5 DEF Stock!LinkJob
<1>9. QED
  BY <1>6, <1>7, <1>8

LEMMA LinkAdjustKeeps ==
  ASSUME Stock!IInv, Stock!LinksHold, NEW q \in Requests, NEW op, NEW i, NEW moves, NEW papers,
         Stock!Adjust(q, op, i, moves, papers), op \notin {"removeItem", "removeGodown"},
         item[i] # "deleted", \A k \in DOMAIN papers : papers[k].item = i
  PROVE  Stock!LinksHold'
<1> DEFINE j == [Stock!NoJob EXCEPT !.item = i, !.moves = moves, !.paper = papers]
           planned == [j EXCEPT !.op = op]
<1>1. Stock!Check(q, op, {i}, j)
  BY DEF Stock!Adjust
<1>2. planned.op = op /\ planned.item = i /\ planned.paper = papers
  BY DEF Stock!NoJob
<1> HIDE DEF j
<1>3. QED
  BY <1>1, <1>2, LinkCheckKeeps

\* A request ends with nothing planned; the others' plans, items and papers as P says.
LEMMA LinkEndKeeps ==
  ASSUME Stock!IInv, Stock!LinksHold, NEW q \in Requests, Stock!End(q),
         Stock!ItemsAlone => Stock!LinkedItemsRetained',
         Stock!ItemsAlone => \A r \in Requests \ {q} : Stock!LinkJob(r)'
  PROVE  Stock!LinksHold'
<1>1. pc'[q] = "idle"
  BY StockEndEffect
<1>2. Stock!LinkJob(q)'
  BY <1>1 DEF Stock!LinkJob
<1>3. QED
  BY <1>2 DEF Stock!LinksHold, Stock!ItemsAlone

LEMMA LinkCommitMoves ==
  ASSUME Stock!StockLedgerAssumption, Stock!IInv, Stock!LinksHold, NEW q \in Requests,
         Stock!CommitMoves(q)
  PROVE  Stock!LinksHold'
<1> DEFINE i == job[q].item
           papers == job[q].paper
<1>1. /\ job[q].op \notin {"removeItem", "removeGodown"} /\ Stock!End(q)
      /\ item' = [item EXCEPT ![i] = IF @ = "none" THEN "live" ELSE @]
      /\ paper' = [k \in Papers |-> IF k \in DOMAIN papers THEN papers[k] ELSE paper[k]]
  BY DEF Stock!CommitMoves
<1>2. pc[q] = "checked" /\ \A r \in Requests \ {q} : pc'[r] = pc[r] /\ job'[r] = job[r]
  BY <1>1, StockEndEffect
<1>3. item \in [Items -> {"none", "live", "deleted"}] /\ i \in Items
  BY <1>1, <1>2 DEF Stock!IInv, Stock!RowsOK, Stock!TypeOK, Stock!MovesJob
<1>4. ASSUME Stock!ItemsAlone
      PROVE  Stock!LinkedItemsRetained /\ \A r \in Requests : Stock!LinkJob(r)
  BY <1>4 DEF Stock!LinksHold
<1>5. ASSUME Stock!ItemsAlone
      PROVE  /\ item'[i] = "live" /\ \A x \in Items \ {i} : item'[x] = item[x]
             /\ \A k \in DOMAIN papers : papers[k].item = i
  <2>1. item[i] # "deleted" /\ \A k \in DOMAIN papers : papers[k].item = i
    BY <1>1, <1>2, <1>4, <1>5 DEF Stock!LinkJob
  <2> HIDE DEF i
  <2>2. QED
    BY <1>1, <1>3, <2>1
<1> HIDE DEF i, papers
<1>6. ASSUME Stock!ItemsAlone
      PROVE  Stock!LinkedItemsRetained'
  <2>1. SUFFICES ASSUME NEW k \in Papers, paper'[k].item # NoOne
                 PROVE  item'[paper'[k].item] = "live"
    BY DEF Stock!LinkedItemsRetained
  <2>2. CASE k \in DOMAIN papers
    <3>1. paper'[k] = papers[k] /\ papers[k].item = i
      BY <1>1, <1>5, <1>6, <2>2
    <3>2. QED
      BY <1>5, <1>6, <3>1
  <2>3. CASE k \notin DOMAIN papers
    <3>1. paper'[k] = paper[k] /\ paper[k] \in Stock!PaperType
      BY <1>1, <2>3 DEF Stock!IInv, Stock!RowsOK
    <3>2. paper[k].item \in Items /\ item[paper[k].item] = "live"
      BY <1>4, <1>6, <2>1, <3>1 DEF Stock!LinkedItemsRetained, Stock!PaperType
    <3>3. QED
      BY <1>5, <1>6, <3>1, <3>2
  <2>4. QED
    BY <2>2, <2>3
<1>7. ASSUME Stock!ItemsAlone, NEW r \in Requests \ {q}
      PROVE  Stock!LinkJob(r)'
  <2>1. Stock!LinkJob(r) /\ Stock!MovesJob(r) /\ pc'[r] = pc[r] /\ job'[r] = job[r]
    BY <1>2, <1>4, <1>7 DEF Stock!IInv
  <2>2. "removeItem" \notin StockOps
    BY <1>7 DEF Stock!ItemsAlone
  <2>3. SUFFICES ASSUME pc[r] = "checked"
                 PROVE  /\ job[r].op \in StockOps
                        /\ job[r].op \notin {"removeItem", "removeGodown"} =>
                             /\ item'[job[r].item] # "deleted"
                             /\ \A k \in DOMAIN job[r].paper : job[r].paper[k].item = job[r].item
    BY <2>1, <2>2 DEF Stock!LinkJob
  <2>4. job[r].op \notin {"removeItem", "removeGodown"} => job[r].item \in Items
    BY <2>1, <2>3 DEF Stock!MovesJob
  <2>5. job[r].op \notin {"removeItem", "removeGodown"} => item'[job[r].item] # "deleted"
    BY <1>5, <1>7, <2>1, <2>3, <2>4 DEF Stock!LinkJob
  <2>6. QED
    BY <2>1, <2>3, <2>5 DEF Stock!LinkJob
<1>8. QED
  BY <1>1, <1>6, <1>7, LinkEndKeeps

LEMMA LinkCommitRemoveItem ==
  ASSUME Stock!IInv, Stock!LinksHold, NEW q \in Requests, Stock!CommitRemoveItem(q)
  PROVE  Stock!LinksHold'
<1> DEFINE i == job[q].item
<1>1. /\ job[q].op = "removeItem" /\ Stock!End(q)
      /\ item' = [item EXCEPT ![i] = "deleted"] /\ paper' = paper
  BY DEF Stock!CommitRemoveItem
<1>2. pc[q] = "checked"
  BY <1>1, StockEndEffect
<1>3. item \in [Items -> {"none", "live", "deleted"}] /\ paper \in [Papers -> Stock!PaperType]
  BY DEF Stock!IInv, Stock!RowsOK, Stock!TypeOK
<1>4. ASSUME Stock!ItemsAlone
      PROVE  /\ Stock!LinkedItemsRetained /\ \A k \in Papers : paper[k].item # i
             /\ \A r \in Requests : r = q
  <2>1. Stock!LinkedItemsRetained /\ Stock!LinkJob(q)
    BY <1>4 DEF Stock!LinksHold
  <2>2. "removeItem" \in StockOps /\ \A k \in Papers : paper[k].item # i
    BY <1>1, <1>2, <2>1 DEF Stock!LinkJob
  <2>3. QED
    BY <1>4, <2>1, <2>2 DEF Stock!ItemsAlone
<1> HIDE DEF i
<1>5. ASSUME Stock!ItemsAlone
      PROVE  Stock!LinkedItemsRetained'
  BY <1>1, <1>3, <1>4, <1>5 DEF Stock!LinkedItemsRetained, Stock!PaperType
<1>6. ASSUME Stock!ItemsAlone, NEW r \in Requests \ {q}
      PROVE  Stock!LinkJob(r)'
  BY <1>4, <1>6
<1>7. QED
  BY <1>1, <1>5, <1>6, LinkEndKeeps

\* The other ends write neither items nor papers.
LEMMA LinkOtherEnds ==
  ASSUME Stock!IInv, Stock!LinksHold, NEW q \in Requests, Stock!End(q), UNCHANGED <<item, paper>>
  PROVE  Stock!LinksHold'
<1>1. \A r \in Requests \ {q} : pc'[r] = pc[r] /\ job'[r] = job[r]
  BY StockEndEffect
<1>2. ASSUME Stock!ItemsAlone
      PROVE  Stock!LinkedItemsRetained /\ \A r \in Requests : Stock!LinkJob(r)
  BY <1>2 DEF Stock!LinksHold
<1>3. ASSUME Stock!ItemsAlone
      PROVE  Stock!LinkedItemsRetained'
  BY <1>2, <1>3 DEF Stock!LinkedItemsRetained
<1>4. ASSUME Stock!ItemsAlone, NEW r \in Requests \ {q}
      PROVE  Stock!LinkJob(r)'
  BY <1>1, <1>2, <1>4 DEF Stock!LinkJob
<1>5. QED
  BY <1>3, <1>4, LinkEndKeeps

LEMMA LinkAdjustments ==
  ASSUME Stock!StockLedgerAssumption, Stock!IInv, Stock!LinksHold, NEW q \in Requests, NEW i \in Items,
         \/ \E n : Stock!CreateItem(q, i, n) \/ Stock!UpdateItem(q, i, n)
         \/ \E p, n : Stock!StockIn(q, i, p, n) \/ Stock!StockOut(q, i, p, n)
         \/ \E p, to, n : Stock!StockTransfer(q, i, p, to, n)
  PROVE  Stock!LinksHold'
<1>1. \A k \in DOMAIN Stock!Nothing : Stock!Nothing[k].item = i
  BY NothingMoves
<1>2. ASSUME NEW n, Stock!CreateItem(q, i, n)
      PROVE  Stock!LinksHold'
  <2>1. PICK m : Stock!Adjust(q, "create", i, m, Stock!Nothing) /\ item[i] = "none"
    BY <1>2 DEF Stock!CreateItem
  <2>2. QED
    BY <1>1, <2>1, LinkAdjustKeeps
<1>3. ASSUME NEW n, Stock!UpdateItem(q, i, n)
      PROVE  Stock!LinksHold'
  <2>1. PICK m : Stock!Adjust(q, "update", i, m, Stock!Nothing) /\ item[i] = "live"
    BY <1>3 DEF Stock!UpdateItem
  <2>2. QED
    BY <1>1, <2>1, LinkAdjustKeeps
<1>4. ASSUME NEW p, NEW n, NEW to,
             Stock!StockIn(q, i, p, n) \/ Stock!StockOut(q, i, p, n) \/ Stock!StockTransfer(q, i, p, to, n)
      PROVE  Stock!LinksHold'
  <2>1. PICK m : Stock!Adjust(q, "operate", i, m, Stock!Nothing) /\ item[i] = "live"
    BY <1>4 DEF Stock!StockIn, Stock!StockOut, Stock!StockTransfer
  <2>2. QED
    BY <1>1, <2>1, LinkAdjustKeeps
<1>5. QED
  BY <1>2, <1>3, <1>4

LEMMA LinkPost ==
  ASSUME Stock!StockLedgerAssumption, Stock!IInv, Stock!LinksHold, NEW q \in Requests, NEW k \in Papers,
         NEW i \in Items, NEW p, NEW n, Stock!Post(q, k, i, p, n)
  PROVE  Stock!LinksHold'
<1> DEFINE papers == Stock!One(k, [state |-> "posted", item |-> i, at |-> p, n |-> n])
<1>1. Stock!Adjust(q, "post", i, Stock!One(p, n), papers) /\ item[i] = "live"
  BY DEF Stock!Post
<1>2. \A x \in DOMAIN papers : papers[x].item = i
  BY DEF Stock!One
<1> HIDE DEF papers
<1>3. QED
  BY <1>1, <1>2, LinkAdjustKeeps

LEMMA LinkReverse ==
  ASSUME Stock!StockLedgerAssumption, Stock!IInv, Stock!LinksHold, NEW q \in Requests, NEW k \in Papers,
         Stock!Reverse(q, k)
  PROVE  Stock!LinksHold'
<1> DEFINE r == paper[k]
           papers == Stock!One(k, [r EXCEPT !.state = "reversed"])
<1>1. r.state = "posted" /\ Stock!Adjust(q, "post", r.item, Stock!One(r.at, -r.n), papers)
  BY DEF Stock!Reverse
<1>2. r \in Stock!PaperType /\ r.item \in Items
  BY <1>1 DEF Stock!IInv, Stock!RowsOK
<1>3. \A x \in DOMAIN papers : papers[x].item = r.item
  BY <1>2 DEF Stock!One, Stock!PaperType
<1>4. CASE Stock!ItemsAlone
  <2>1. r.item # NoOne
    BY <1>2 DEF Stock!StockLedgerAssumption
  <2>2. item[r.item] # "deleted"
    BY <1>4, <2>1 DEF Stock!LinksHold, Stock!LinkedItemsRetained
  <2> HIDE DEF r, papers
  <2>3. QED
    BY <1>1, <1>3, <2>2, LinkAdjustKeeps
<1>5. CASE ~Stock!ItemsAlone
  BY <1>5 DEF Stock!LinksHold, Stock!ItemsAlone
<1>6. QED
  BY <1>4, <1>5

LEMMA LinkRemovals ==
  ASSUME Stock!IInv, Stock!LinksHold, NEW q \in Requests,
         \/ \E i \in Items : Stock!RemoveItem(q, i)
         \/ \E g \in Godowns : Stock!RemoveWarehouse(q, g)
  PROVE  Stock!LinksHold'
<1>1. ASSUME NEW i \in Items, Stock!RemoveItem(q, i)
      PROVE  Stock!LinksHold'
  <2> DEFINE j == [Stock!NoJob EXCEPT !.item = i]
             planned == [j EXCEPT !.op = "removeItem"]
  <2>1. Stock!Check(q, "removeItem", {}, j) /\ Paperless(i)
    BY <1>1 DEF Stock!RemoveItem, Paperless
  <2>2. planned.op = "removeItem" /\ planned.item = i
    BY DEF Stock!NoJob
  <2> HIDE DEF j
  <2>3. QED
    BY <2>1, <2>2, LinkCheckKeeps
<1>2. ASSUME NEW g \in Godowns, Stock!RemoveWarehouse(q, g)
      PROVE  Stock!LinksHold'
  <2> DEFINE j == [Stock!NoJob EXCEPT !.godown = g]
             planned == [j EXCEPT !.op = "removeGodown"]
  <2>1. Stock!Check(q, "removeGodown", {}, j)
    BY <1>2 DEF Stock!RemoveWarehouse
  <2>2. planned.op = "removeGodown"
    BY DEF Stock!NoJob
  <2> HIDE DEF j
  <2>3. QED
    BY <2>1, <2>2, LinkCheckKeeps
<1>3. QED
  BY <1>1, <1>2

LEMMA LinksInit ==
  ASSUME Stock!Init
  PROVE  Stock!LinksHold
BY DEF Stock!Init, Stock!NoPaper, Stock!LinksHold, Stock!LinkedItemsRetained, Stock!LinkJob

LEMMA LinksNext ==
  ASSUME Stock!StockLedgerAssumption, Stock!IInv, Stock!LinksHold, [Stock!Next]_(Stock!vars)
  PROVE  Stock!LinksHold'
<1>1. ASSUME NEW q \in Requests,
             Stock!CommitMoves(q) \/ Stock!Rollback(q) \/ Stock!CommitRemoveItem(q) \/ Stock!CommitRemoveWarehouse(q)
      PROVE  Stock!LinksHold'
  <2>1. CASE Stock!Rollback(q) \/ Stock!CommitRemoveWarehouse(q)
    BY <2>1, LinkOtherEnds DEF Stock!Rollback, Stock!CommitRemoveWarehouse
  <2>2. QED
    BY <1>1, <2>1, LinkCommitMoves, LinkCommitRemoveItem
<1>2. ASSUME NEW q \in Requests, NEW i \in Items, NEW n,
             Stock!CreateItem(q, i, n) \/ Stock!UpdateItem(q, i, n)
      PROVE  Stock!LinksHold'
  BY <1>2, LinkAdjustments
<1>3. ASSUME NEW q \in Requests, NEW i \in Items, Stock!RemoveItem(q, i)
      PROVE  Stock!LinksHold'
  BY <1>3, LinkRemovals
<1>4. ASSUME NEW q \in Requests, NEW i \in Items, NEW p, NEW n,
             Stock!StockIn(q, i, p, n) \/ Stock!StockOut(q, i, p, n)
      PROVE  Stock!LinksHold'
  BY <1>4, LinkAdjustments
<1>5. ASSUME NEW q \in Requests, NEW i \in Items, NEW p, NEW n, NEW to, Stock!StockTransfer(q, i, p, to, n)
      PROVE  Stock!LinksHold'
  BY <1>5, LinkAdjustments
<1>6. ASSUME NEW q \in Requests, NEW i \in Items, NEW p, NEW n, NEW k \in Papers,
             Stock!Post(q, k, i, p, n) \/ Stock!Post(q, k, i, p, -n)
      PROVE  Stock!LinksHold'
  <2>1. PICK m : m = -n
    OBVIOUS
  <2>2. QED
    BY <1>6, <2>1, LinkPost
<1>7. ASSUME NEW q \in Requests, NEW k \in Papers, Stock!Reverse(q, k)
      PROVE  Stock!LinksHold'
  BY <1>7, LinkReverse
<1>8. ASSUME NEW q \in Requests, NEW g \in Godowns, Stock!RemoveWarehouse(q, g)
      PROVE  Stock!LinksHold'
  BY <1>8, LinkRemovals
<1>9. CASE UNCHANGED <<item, paper, pc, job>>
  BY <1>9 DEF Stock!LinksHold, Stock!LinkedItemsRetained, Stock!LinkJob, Stock!ItemsAlone
<1>10. ASSUME NEW g \in Godowns, Stock!CreateWarehouse(g)
       PROVE  Stock!LinksHold'
  BY <1>9, <1>10 DEF Stock!CreateWarehouse
<1>11. CASE UNCHANGED Stock!vars
  BY <1>9, <1>11 DEF Stock!vars
<1>12. QED
  BY <1>1, <1>2, <1>3, <1>4, <1>5, <1>6, <1>7, <1>8, <1>10, <1>11 DEF Stock!Next

-----------------------------------------------------------------------------
(* The bank accounts of a branch, and the categories of its expenses.        *)

LEMMA AccountTypes ==
  ASSUME Bank!IInv
  PROVE  /\ lock \in [Bank!Rows -> Requests \cup {NoOne}] /\ pc \in [Requests -> {"idle", "checked"}]
         /\ account \in [Accounts -> Bank!AccountRow] /\ payment \in [Payments -> Bank!PaymentRow]
         /\ expense \in [Expenses -> Bank!ExpenseRow] /\ category \subseteq Names
         /\ DOMAIN job = Requests
BY DEF Bank!IInv, Bank!RowsOK, Bank!TypeOK, Bank!AccountRow

\* The rows of the tables are enough for their types.
LEMMA AccountTypesBack ==
  ASSUME lock' \in [Bank!Rows -> Requests \cup {NoOne}], pc' \in [Requests -> {"idle", "checked"}],
         account' \in [Accounts -> Bank!AccountRow], payment' \in [Payments -> Bank!PaymentRow],
         expense' \in [Expenses -> Bank!ExpenseRow], category' \subseteq Names,
         DOMAIN job' = Requests, Bank!ExpensesAreFiled'
  PROVE  Bank!RowsOK'
BY DEF Bank!RowsOK, Bank!TypeOK, Bank!AccountRow, Bank!PaymentRow, Bank!ExpenseRow, Bank!ExpensesAreFiled

\* What ends leaves its request with nothing, and takes no lock from others.
LEMMA AccountEnd ==
  ASSUME Bank!IInv, NEW q \in Requests, Bank!End(q)
  PROVE  /\ lock' \in [Bank!Rows -> Requests \cup {NoOne}] /\ pc' \in [Requests -> {"idle", "checked"}]
         /\ pc'[q] = "idle" /\ DOMAIN job' = Requests
         /\ \A r \in Requests \ {q} :
              /\ pc'[r] = pc[r] /\ job'[r] = job[r]
              /\ \A row \in Bank!Rows : lock[row] = r => lock'[row] = r
BY AccountTypes DEF Bank!End, Bank!Released

LEMMA AccountInit ==
  ASSUME Bank!AccountingAssumption, Bank!Init
  PROVE  Bank!IInv
<1>1. Bank!RowsOK
  BY DEF Bank!Init, Bank!RowsOK, Bank!TypeOK, Bank!PaymentRow, Bank!ExpenseRow
<1>2. Bank!RemovedAccountsAreEmpty /\ Bank!OnePrimary /\ Bank!ExpensesAreFiled
  BY DEF Bank!Init, Bank!RemovedAccountsAreEmpty, Bank!OnePrimary, Bank!PrimaryIsOne, Bank!ExpensesAreFiled
<1>3. \A q \in Requests : Bank!AccountJob(q) /\ Bank!BookingJob(q) /\ Bank!FilingJob(q)
  BY DEF Bank!Init, Bank!AccountJob, Bank!BookingJob, Bank!FilingJob
<1>4. QED
  BY <1>1, <1>2, <1>3 DEF Bank!IInv

\* A request that checks leaves the tables alone, so that only its own plan is new.
LEMMA AccountCheck ==
  ASSUME Bank!IInv, NEW q \in Requests, NEW op, NEW rows \in SUBSET Bank!Rows, NEW changes,
         Bank!Check(q, op, rows, changes),
         Bank!AccountJob(q)', Bank!BookingJob(q)', Bank!FilingJob(q)'
  PROVE  Bank!IInv'
<1>1. /\ UNCHANGED <<account, payment, expense, category>>
      /\ pc[q] = "idle" /\ pc' = [pc EXCEPT ![q] = "checked"]
      /\ job' = [job EXCEPT ![q] = changes]
      /\ lock' = [row \in Bank!Rows |-> IF row \in rows THEN q ELSE lock[row]]
      /\ \A row \in rows : lock[row] = NoOne
  BY DEF Bank!Check, Bank!data, Bank!CanLock
<1>2. \A r \in Requests \ {q} :
        /\ pc'[r] = pc[r] /\ job'[r] = job[r]
        /\ \A row \in Bank!Rows : lock[row] = r => lock'[row] = r
  BY <1>1, AccountTypes, NoOneAssumption
<1>3. Bank!RowsOK'
  <2>1. Bank!ExpensesAreFiled'
    BY <1>1 DEF Bank!IInv, Bank!ExpensesAreFiled
  <2>2. lock' \in [Bank!Rows -> Requests \cup {NoOne}] /\ pc' \in [Requests -> {"idle", "checked"}]
        /\ DOMAIN job' = Requests
    BY <1>1, AccountTypes
  <2>3. QED
    BY <1>1, <2>1, <2>2, AccountTypes, AccountTypesBack
<1>4. Bank!RemovedAccountsAreEmpty' /\ Bank!OnePrimary' /\ Bank!ExpensesAreFiled'
  BY <1>1 DEF Bank!IInv, Bank!RemovedAccountsAreEmpty, Bank!Linked, Bank!OnePrimary, Bank!PrimaryIsOne, Bank!ExpensesAreFiled
<1>5. ASSUME NEW r \in Requests \ {q}
      PROVE  Bank!AccountJob(r)' /\ Bank!BookingJob(r)' /\ Bank!FilingJob(r)'
  <2>1. Bank!AccountJob(r) /\ Bank!BookingJob(r) /\ Bank!FilingJob(r)
    BY DEF Bank!IInv
  <2>2. Bank!AccountJob(r)'
    <3>1. Bank!PrimaryIsOne(Bank!Written(account, job[r].account))' <=> Bank!PrimaryIsOne(Bank!Written(account, job[r].account))
      BY <1>1, <1>2 DEF Bank!PrimaryIsOne, Bank!Written
    <3>2. \A a : Bank!Linked(a)' <=> Bank!Linked(a)
      BY <1>1 DEF Bank!Linked
    <3>3. Branch \in Bank!Rows /\ Accounts \subseteq Bank!Rows
      BY DEF Bank!Rows
    <3>4. QED
      BY <1>2, <2>1, <3>1, <3>2, <3>3 DEF Bank!AccountJob
  <2>3. Bank!BookingJob(r)'
    <3>1. Bank!LiveAccounts' = Bank!LiveAccounts /\ Bank!LiveAccounts \subseteq Bank!Rows /\ Branch \in Bank!Rows
      BY <1>1 DEF Bank!LiveAccounts, Bank!Rows
    <3>2. QED
      BY <1>2, <2>1, <3>1 DEF Bank!BookingJob, Bank!Usable
  <2>4. Bank!FilingJob(r)'
    BY <1>1, <1>2, <2>1 DEF Bank!FilingJob, Bank!Rows
  <2>5. QED
    BY <2>2, <2>3, <2>4
<1>6. QED
  BY <1>3, <1>4, <1>5 DEF Bank!IInv

\* The plan with nothing in it.
LEMMA EmptyPlan ==
  /\ Bank!NoJob.account = Bank!Nothing /\ Bank!NoJob.payment = Bank!Nothing /\ Bank!NoJob.expense = Bank!Nothing
  /\ Bank!NoJob.refile = Bank!Nothing /\ Bank!NoJob.drop = {} /\ Bank!NoJob.add = {} /\ DOMAIN Bank!Nothing = {}
BY DEF Bank!NoJob, Bank!Nothing

LEMMA NothingWritten ==
  ASSUME NEW table
  PROVE  \A x \in DOMAIN table : Bank!Written(table, Bank!Nothing)[x] = table[x]
BY EmptyPlan DEF Bank!Written

-----------------------------------------------------------------------------
\* saveAccount()
LEMMA SaveAccountKeeps ==
  ASSUME Bank!AccountingAssumption, Bank!IInv, NEW q \in Requests, NEW a \in Accounts,
         NEW primary \in BOOLEAN, Bank!SaveAccount(q, a, primary)
  PROVE  Bank!IInv'
<1> DEFINE first == primary \/ Bank!LiveAccounts = {}
           rows == [b \in {a} \cup (IF first THEN Bank!LiveAccounts ELSE {}) |-> Bank!Live(b = a /\ first)]
           j == [Bank!NoJob EXCEPT !.account = rows]
<1>1. Bank!Check(q, "save", {Branch}, j)
  BY DEF Bank!SaveAccount
<1>2. /\ UNCHANGED <<account, payment, expense, category>>
      /\ job'[q] = j /\ pc'[q] = "checked" /\ lock'[Branch] = q
  BY <1>1, AccountTypes DEF Bank!Check, Bank!data, Bank!Rows
<1>3. /\ j.account = rows /\ j.payment = Bank!Nothing /\ j.expense = Bank!Nothing /\ j.refile = Bank!Nothing
      /\ j.drop = {} /\ j.add = {}
  BY EmptyPlan DEF Bank!NoJob
<1>4. Bank!AccountJob(q)'
  <2>1. rows \in [DOMAIN rows -> [state : {"live", "deleted"}, primary : BOOLEAN]]
        /\ \A b \in DOMAIN rows : rows[b].state = "live" /\ (rows[b].primary <=> b = a /\ first)
    BY DEF Bank!Live
  <2>2. \A b \in Accounts : account[b].primary => b \in Bank!LiveAccounts
    BY DEF Bank!IInv, Bank!OnePrimary, Bank!PrimaryIsOne, Bank!LiveAccounts
  <2>3. Bank!PrimaryIsOne(Bank!Written(account', rows))
    <3>1. \A b \in Accounts : Bank!Written(account', rows)[b] = IF b \in DOMAIN rows THEN rows[b] ELSE account[b]
      BY <1>2, AccountTypes DEF Bank!Written
    <3>2. \A b \in Accounts : b \in DOMAIN rows <=> b = a \/ (first /\ b \in Bank!LiveAccounts)
      OBVIOUS
    <3> HIDE DEF rows, first
    <3>3. QED
      BY <2>1, <2>2, <3>1, <3>2 DEF Bank!IInv, Bank!OnePrimary, Bank!PrimaryIsOne
  <2> HIDE DEF rows, j
  <2>4. QED
    BY <1>2, <1>3, <2>1, <2>3, EmptyPlan DEF Bank!AccountJob
<1>5. Bank!BookingJob(q)' /\ Bank!FilingJob(q)'
  <2> HIDE DEF rows, j
  <2>1. Bank!BookingJob(q)'
    BY <1>2, <1>3, EmptyPlan DEF Bank!BookingJob
  <2>2. Bank!FilingJob(q)'
    BY <1>2, <1>3, EmptyPlan DEF Bank!FilingJob, Bank!IInv, Bank!ExpensesAreFiled
  <2>3. QED
    BY <2>1, <2>2
<1>6. QED
  BY <1>1, <1>4, <1>5, AccountCheck DEF Bank!Rows

\* removeAccount()
LEMMA RemoveAccountKeeps ==
  ASSUME Bank!AccountingAssumption, Bank!IInv, NEW q \in Requests, NEW a \in Accounts, NEW heir \in Accounts,
         Bank!RemoveAccount(q, a, heir)
  PROVE  Bank!IInv'
<1> DEFINE rows == [b \in {a, heir} |-> IF b = a THEN [state |-> "deleted", primary |-> FALSE]
                                                 ELSE Bank!Live(TRUE)]
           j == [Bank!NoJob EXCEPT !.account = rows]
<1>1. Bank!Check(q, "remove", {Branch, a}, j) /\ a \in Bank!LiveAccounts /\ ~Bank!Linked(a) /\ heir \in Bank!Heirs(a)
  BY DEF Bank!RemoveAccount
<1>2. /\ UNCHANGED <<account, payment, expense, category>>
      /\ job'[q] = j /\ pc'[q] = "checked" /\ lock'[Branch] = q /\ lock'[a] = q
  BY <1>1, AccountTypes DEF Bank!Check, Bank!data, Bank!Rows
<1>3. /\ j.account = rows /\ j.payment = Bank!Nothing /\ j.expense = Bank!Nothing /\ j.refile = Bank!Nothing
      /\ j.drop = {} /\ j.add = {}
  BY EmptyPlan DEF Bank!NoJob
<1>4. Bank!AccountJob(q)'
  <2>1. /\ rows \in [DOMAIN rows -> [state : {"live", "deleted"}, primary : BOOLEAN]]
        /\ DOMAIN rows = {a, heir} /\ rows[a].state = "deleted" /\ ~rows[a].primary
        /\ heir # a => rows[heir].state = "live" /\ rows[heir].primary
    BY DEF Bank!Live
  <2>2. heir # a => account[a].primary
    BY <1>1 DEF Bank!Heirs
  <2>3. Bank!PrimaryIsOne(Bank!Written(account', rows))
    <3>1. \A b \in Accounts : Bank!Written(account', rows)[b] = IF b \in {a, heir} THEN rows[b] ELSE account[b]
      BY <1>2, <2>1, AccountTypes DEF Bank!Written
    <3> HIDE DEF rows
    <3>2. QED
      BY <2>1, <2>2, <3>1 DEF Bank!IInv, Bank!OnePrimary, Bank!PrimaryIsOne
  <2>4. \A b \in DOMAIN rows \cap Accounts : rows[b].state = "deleted" => lock'[b] = q /\ ~Bank!Linked(b)'
    BY <1>1, <1>2, <2>1 DEF Bank!Linked
  <2> HIDE DEF rows, j
  <2>5. QED
    BY <1>2, <1>3, <2>1, <2>3, <2>4, EmptyPlan DEF Bank!AccountJob
<1>5. Bank!BookingJob(q)' /\ Bank!FilingJob(q)'
  <2> HIDE DEF rows, j
  <2>1. Bank!BookingJob(q)'
    BY <1>2, <1>3, EmptyPlan DEF Bank!BookingJob
  <2>2. Bank!FilingJob(q)'
    BY <1>2, <1>3, EmptyPlan DEF Bank!FilingJob, Bank!IInv, Bank!ExpensesAreFiled
  <2>3. QED
    BY <2>1, <2>2
<1>6. QED
  BY <1>1, <1>4, <1>5, AccountCheck DEF Bank!Rows

-----------------------------------------------------------------------------
\* A request that writes no accounts leaves the primary account as it is.
LEMMA NoAccountPlan ==
  ASSUME Bank!IInv, NEW q \in Requests, account' = account, job'[q].account = Bank!Nothing
  PROVE  Bank!AccountJob(q)'
<1>1. Bank!PrimaryIsOne(account)
  BY DEF Bank!IInv, Bank!OnePrimary
<1>2. DOMAIN account = Accounts
  BY AccountTypes
<1>3. Bank!PrimaryIsOne(Bank!Written(account', Bank!Nothing))
  BY <1>1, <1>2, EmptyPlan DEF Bank!PrimaryIsOne, Bank!Written
<1>4. QED
  BY <1>3, EmptyPlan DEF Bank!AccountJob

\* recordPayment(), updatePayment(), restore()
LEMMA BookPaymentKeeps ==
  ASSUME Bank!AccountingAssumption, Bank!IInv, NEW q \in Requests, NEW p \in Payments, NEW a \in Accounts,
         Bank!BookPayment(q, p, a)
  PROVE  Bank!IInv'
<1> DEFINE row == [live |-> TRUE, account |-> a]
           paid == Bank!One(p, row)
           j == [Bank!NoJob EXCEPT !.payment = paid]
<1>1. Bank!Check(q, "pay", {a}, j) /\ a \in Bank!LiveAccounts
  BY DEF Bank!BookPayment
<1>2. /\ UNCHANGED <<account, payment, expense, category>>
      /\ job'[q] = j /\ pc'[q] = "checked" /\ lock'[a] = q
  BY <1>1, AccountTypes DEF Bank!Check, Bank!data, Bank!Rows
<1>3. /\ j.payment = paid /\ j.account = Bank!Nothing /\ j.expense = Bank!Nothing /\ j.refile = Bank!Nothing
      /\ j.drop = {} /\ j.add = {}
  BY EmptyPlan DEF Bank!NoJob
<1>4. DOMAIN paid = {p} /\ paid[p] = row /\ row \in Bank!PaymentRow /\ row.account = a
  BY DEF Bank!One, Bank!PaymentRow
<1>5. a \in Bank!LiveAccounts'
  BY <1>1, <1>2 DEF Bank!LiveAccounts
<1> HIDE DEF row, paid, j
<1>6. Bank!AccountJob(q)'
  BY <1>2, <1>3, NoAccountPlan
<1>7. Bank!BookingJob(q)'
  BY <1>2, <1>3, <1>4, <1>5, EmptyPlan DEF Bank!BookingJob, Bank!PaymentRow
<1>8. Bank!FilingJob(q)'
  BY <1>2, <1>3, EmptyPlan DEF Bank!FilingJob, Bank!IInv, Bank!ExpensesAreFiled
<1>9. QED
  BY <1>1, <1>6, <1>7, <1>8, AccountCheck DEF Bank!Rows

\* income(), transfer(), an invoice's first payment
LEMMA BookEntryKeeps ==
  ASSUME Bank!AccountingAssumption, Bank!IInv, NEW q \in Requests, NEW p \in Payments, NEW a \in Accounts,
         Bank!BookEntry(q, p, a)
  PROVE  Bank!IInv'
<1> DEFINE row == [live |-> TRUE, account |-> a]
           paid == Bank!One(p, row)
           j == [Bank!NoJob EXCEPT !.payment = paid]
<1>1. Bank!Check(q, "entry", {Branch}, j) /\ a \in Bank!LiveAccounts
  BY DEF Bank!BookEntry
<1>2. /\ UNCHANGED <<account, payment, expense, category>>
      /\ job'[q] = j /\ pc'[q] = "checked" /\ lock'[Branch] = q
  BY <1>1, AccountTypes DEF Bank!Check, Bank!data, Bank!Rows
<1>3. /\ j.payment = paid /\ j.account = Bank!Nothing /\ j.expense = Bank!Nothing /\ j.refile = Bank!Nothing
      /\ j.drop = {} /\ j.add = {}
  BY EmptyPlan DEF Bank!NoJob
<1>4. DOMAIN paid = {p} /\ paid[p] = row /\ row \in Bank!PaymentRow /\ row.account = a
  BY DEF Bank!One, Bank!PaymentRow
<1>5. a \in Bank!LiveAccounts'
  BY <1>1, <1>2 DEF Bank!LiveAccounts
<1> HIDE DEF row, paid, j
<1>6. Bank!AccountJob(q)'
  BY <1>2, <1>3, NoAccountPlan
<1>7. Bank!BookingJob(q)'
  BY <1>2, <1>3, <1>4, <1>5, EmptyPlan DEF Bank!BookingJob, Bank!PaymentRow
<1>8. Bank!FilingJob(q)'
  BY <1>2, <1>3, EmptyPlan DEF Bank!FilingJob, Bank!IInv, Bank!ExpensesAreFiled
<1>9. QED
  BY <1>1, <1>6, <1>7, <1>8, AccountCheck DEF Bank!Rows

\* createExpense()
LEMMA BankCreateExpenseKeeps ==
  ASSUME Bank!AccountingAssumption, Bank!IInv, NEW q \in Requests, NEW e \in Expenses, NEW n \in Names,
         NEW a \in Accounts \cup {NoOne}, Bank!CreateExpense(q, e, n, a)
  PROVE  Bank!IInv'
<1> DEFINE row == [status |-> "ISSUED", account |-> a, category |-> n]
           spent == Bank!One(e, row)
           j == [Bank!NoJob EXCEPT !.add = {n}, !.expense = spent]
<1>1. Bank!Check(q, "expense", {Branch}, j) /\ Bank!Usable(a)
  BY DEF Bank!CreateExpense
<1>2. /\ UNCHANGED <<account, payment, expense, category>>
      /\ job'[q] = j /\ pc'[q] = "checked" /\ lock'[Branch] = q
  BY <1>1, AccountTypes DEF Bank!Check, Bank!data, Bank!Rows
<1>3. /\ j.expense = spent /\ j.account = Bank!Nothing /\ j.payment = Bank!Nothing /\ j.refile = Bank!Nothing
      /\ j.drop = {} /\ j.add = {n}
  BY EmptyPlan DEF Bank!NoJob
<1>4. DOMAIN spent = {e} /\ spent[e] = row /\ row \in Bank!ExpenseRow /\ row.account = a /\ row.category = n
  BY DEF Bank!One, Bank!ExpenseRow
<1>5. Bank!Usable(a)'
  BY <1>1, <1>2 DEF Bank!LiveAccounts, Bank!Usable
<1> HIDE DEF row, spent, j
<1>6. Bank!AccountJob(q)'
  BY <1>2, <1>3, NoAccountPlan
<1>7. Bank!BookingJob(q)'
  BY <1>2, <1>3, <1>4, <1>5, EmptyPlan DEF Bank!BookingJob, Bank!Usable
<1>8. Bank!FilingJob(q)'
  BY <1>2, <1>3, EmptyPlan DEF Bank!FilingJob, Bank!IInv, Bank!ExpensesAreFiled
<1>9. QED
  BY <1>1, <1>6, <1>7, <1>8, AccountCheck DEF Bank!Rows

\* renameExpenseCategory()
LEMMA RenameCategoryKeeps ==
  ASSUME Bank!AccountingAssumption, Bank!IInv, NEW q \in Requests, NEW n \in Names, NEW m \in Names,
         Bank!RenameCategory(q, n, m)
  PROVE  Bank!IInv'
<1> DEFINE j == [Bank!NoJob EXCEPT !.drop = {n}, !.add = {m}, !.fresh = TRUE, !.refile = Bank!Refiled(n, m)]
<1>1. Bank!Check(q, "category", {Branch}, j)
  BY DEF Bank!RenameCategory
<1>2. /\ UNCHANGED <<account, payment, expense, category>>
      /\ job'[q] = j /\ pc'[q] = "checked" /\ lock'[Branch] = q
  BY <1>1, AccountTypes DEF Bank!Check, Bank!data, Bank!Rows
<1>3. /\ j.expense = Bank!Nothing /\ j.account = Bank!Nothing /\ j.payment = Bank!Nothing /\ j.refile = Bank!Refiled(n, m)
      /\ j.drop = {n} /\ j.add = {m}
  BY EmptyPlan DEF Bank!NoJob
<1>4. /\ Bank!Refiled(n, m) \in [DOMAIN Bank!Refiled(n, m) -> Names]
      /\ \A e \in DOMAIN Bank!Refiled(n, m) : Bank!Refiled(n, m)[e] = m
      /\ \A e \in Expenses : expense[e].status # "none" /\ e \notin DOMAIN Bank!Refiled(n, m) =>
            expense[e].category # n
  BY DEF Bank!Refiled, Bank!Filed
<1> HIDE DEF j
<1>5. Bank!AccountJob(q)'
  BY <1>2, <1>3, NoAccountPlan
<1>6. Bank!BookingJob(q)'
  BY <1>2, <1>3, EmptyPlan DEF Bank!BookingJob
<1>7. Bank!FilingJob(q)'
  <2>1. \A e \in Expenses : expense[e].status # "none" =>
          (IF e \in DOMAIN Bank!Refiled(n, m) THEN Bank!Refiled(n, m)[e] ELSE expense[e].category)
            \in (category \ {n}) \cup {m}
    BY <1>4 DEF Bank!IInv, Bank!ExpensesAreFiled
  <2> DEFINE refile == job'[q].refile
  <2>2. refile = Bank!Refiled(n, m) /\ job'[q].add = {m} /\ job'[q].drop = {n} /\ DOMAIN job'[q].expense = {}
    BY <1>2, <1>3, EmptyPlan
  <2>3. refile \in [DOMAIN refile -> Names]
    BY <2>2, <1>4
  <2>4. \A e \in Expenses : expense'[e].status # "none" =>
          (IF e \in DOMAIN refile THEN refile[e] ELSE expense'[e].category)
            \in (category' \ {n}) \cup {m}
    BY <1>2, <2>1, <2>2
  <2>5. QED
    BY <1>2, <2>2, <2>3, <2>4 DEF Bank!FilingJob
<1>8. QED
  BY <1>1, <1>5, <1>6, <1>7, AccountCheck DEF Bank!Rows

\* deleteExpenseCategory()
LEMMA DeleteCategoryKeeps ==
  ASSUME Bank!AccountingAssumption, Bank!IInv, NEW q \in Requests, NEW n \in Names,
         NEW target \in Names \cup {NoOne}, Bank!DeleteCategory(q, n, target)
  PROVE  Bank!IInv'
<1> DEFINE j == [Bank!NoJob EXCEPT !.drop = {n}, !.refile = Bank!Refiled(n, target)]
<1>1. /\ Bank!Check(q, "category", {Branch}, j)
      /\ target \in (category \cup {NoOne}) \ {n}
      /\ Bank!Filed(n) # {} => target # NoOne
  BY DEF Bank!DeleteCategory
<1>2. /\ UNCHANGED <<account, payment, expense, category>>
      /\ job'[q] = j /\ pc'[q] = "checked" /\ lock'[Branch] = q
  BY <1>1, AccountTypes DEF Bank!Check, Bank!data, Bank!Rows
<1>3. /\ j.expense = Bank!Nothing /\ j.account = Bank!Nothing /\ j.payment = Bank!Nothing
      /\ j.refile = Bank!Refiled(n, target) /\ j.drop = {n} /\ j.add = {}
  BY EmptyPlan DEF Bank!NoJob
<1>4. /\ DOMAIN Bank!Refiled(n, target) = Bank!Filed(n)
      /\ \A e \in DOMAIN Bank!Refiled(n, target) : Bank!Refiled(n, target)[e] = target
      /\ \A e \in Expenses : expense[e].status # "none" /\ e \notin DOMAIN Bank!Refiled(n, target) =>
            expense[e].category # n
  BY DEF Bank!Refiled, Bank!Filed
<1>5. Bank!Filed(n) # {} => target \in Names /\ target \in category \ {n}
  BY <1>1
<1>6. Bank!Refiled(n, target) \in [DOMAIN Bank!Refiled(n, target) -> Names]
  BY <1>5 DEF Bank!Refiled
<1> HIDE DEF j
<1>7. Bank!AccountJob(q)'
  BY <1>2, <1>3, NoAccountPlan
<1>8. Bank!BookingJob(q)'
  BY <1>2, <1>3, EmptyPlan DEF Bank!BookingJob
<1>9. Bank!FilingJob(q)'
  <2>1. \A e \in Expenses : expense[e].status # "none" =>
          (IF e \in DOMAIN Bank!Refiled(n, target) THEN Bank!Refiled(n, target)[e] ELSE expense[e].category)
            \in (category \ {n}) \cup {}
    <3>1. SUFFICES ASSUME NEW e \in Expenses, expense[e].status # "none"
                   PROVE  (IF e \in DOMAIN Bank!Refiled(n, target) THEN Bank!Refiled(n, target)[e]
                           ELSE expense[e].category) \in category \ {n}
      OBVIOUS
    <3>2. CASE e \in DOMAIN Bank!Refiled(n, target)
      BY <1>4, <1>5, <3>2
    <3>3. CASE e \notin DOMAIN Bank!Refiled(n, target)
      BY <1>4, <3>1, <3>3 DEF Bank!IInv, Bank!ExpensesAreFiled
    <3>4. QED
      BY <3>2, <3>3
  <2> DEFINE refile == job'[q].refile
  <2>2. refile = Bank!Refiled(n, target) /\ job'[q].add = {} /\ job'[q].drop = {n} /\ DOMAIN job'[q].expense = {}
    BY <1>2, <1>3, EmptyPlan
  <2>3. refile \in [DOMAIN refile -> Names]
    BY <2>2, <1>6
  <2>4. \A e \in Expenses : expense'[e].status # "none" =>
          (IF e \in DOMAIN refile THEN refile[e] ELSE expense'[e].category)
            \in (category' \ {n}) \cup {}
    BY <1>2, <2>1, <2>2
  <2>5. QED
    BY <1>2, <2>2, <2>3, <2>4 DEF Bank!FilingJob
<1>10. QED
  BY <1>1, <1>7, <1>8, <1>9, AccountCheck DEF Bank!Rows

-----------------------------------------------------------------------------
\* What a request that checked is about to write, and which locks let it.
LEMMA AccountPlans ==
  ASSUME Bank!IInv, NEW q \in Requests, pc[q] = "checked"
  PROVE  Bank!AccountJob(q) /\ Bank!BookingJob(q) /\ Bank!FilingJob(q)
BY DEF Bank!IInv

\* The branch is one request's at a time: nobody else writes accounts, expenses or categories.
LEMMA BranchIsOnes ==
  ASSUME Bank!IInv, NEW q \in Requests, pc[q] = "checked", lock[Branch] # q
  PROVE  /\ DOMAIN job[q].account = {} /\ DOMAIN job[q].expense = {} /\ DOMAIN job[q].refile = {}
         /\ job[q].drop = {} /\ job[q].add = {}
<1>1. Bank!AccountJob(q) /\ Bank!BookingJob(q) /\ Bank!FilingJob(q)
  BY AccountPlans
<1>2. DOMAIN job[q].account = {}
  BY <1>1 DEF Bank!AccountJob
<1>3. DOMAIN job[q].expense = {}
  BY <1>1 DEF Bank!BookingJob
<1>4. DOMAIN job[q].refile = {} /\ job[q].drop = {} /\ job[q].add = {}
  BY <1>1 DEF Bank!FilingJob
<1>5. QED
  BY <1>2, <1>3, <1>4

\* COMMIT
LEMMA CommitTables ==
  ASSUME Bank!AccountingAssumption, Bank!IInv, NEW q \in Requests, Bank!Commit(q)
  PROVE  /\ account' = Bank!Written(account, job[q].account)
         /\ \A p \in Payments :
              payment'[p] = IF p \in DOMAIN job[q].payment THEN job[q].payment[p] ELSE payment[p]
         /\ \A e \in Expenses : e \in DOMAIN job[q].refile =>
              /\ expense'[e].status = expense[e].status /\ expense'[e].account = expense[e].account
              /\ expense'[e].category = job[q].refile[e]
         /\ \A e \in Expenses : e \notin DOMAIN job[q].refile =>
              expense'[e] = IF e \in DOMAIN job[q].expense THEN job[q].expense[e] ELSE expense[e]
         /\ category' = (category \ job[q].drop) \cup job[q].add
         /\ DOMAIN account' = Accounts /\ DOMAIN payment' = Payments /\ DOMAIN expense' = Expenses
<1>1. /\ account \in [Accounts -> Bank!AccountRow] /\ payment \in [Payments -> Bank!PaymentRow]
      /\ expense \in [Expenses -> Bank!ExpenseRow]
  BY AccountTypes
<1>2. \A e \in Expenses : e \in DOMAIN job[q].refile =>
        expense'[e] = [expense[e] EXCEPT !.category = job[q].refile[e]]
  BY DEF Bank!Commit
<1>3. \A e \in Expenses : expense[e] \in Bank!ExpenseRow
  BY <1>1
<1>4. \A e \in Expenses : e \in DOMAIN job[q].refile =>
        /\ expense'[e].status = expense[e].status /\ expense'[e].account = expense[e].account
        /\ expense'[e].category = job[q].refile[e]
  BY <1>2, <1>3 DEF Bank!ExpenseRow
<1>5. \A e \in Expenses : e \notin DOMAIN job[q].refile =>
        expense'[e] = IF e \in DOMAIN job[q].expense THEN job[q].expense[e] ELSE expense[e]
  BY <1>1 DEF Bank!Commit, Bank!Written
<1>6. \A p \in Payments :
        payment'[p] = IF p \in DOMAIN job[q].payment THEN job[q].payment[p] ELSE payment[p]
  BY <1>1 DEF Bank!Commit, Bank!Written
<1>7. DOMAIN account' = Accounts /\ DOMAIN payment' = Payments /\ DOMAIN expense' = Expenses
  BY <1>1 DEF Bank!Commit, Bank!Written
<1>8. QED
  BY <1>4, <1>5, <1>6, <1>7 DEF Bank!Commit

LEMMA CommitTypes ==
  ASSUME Bank!AccountingAssumption, Bank!IInv, NEW q \in Requests, Bank!Commit(q)
  PROVE  /\ account' \in [Accounts -> Bank!AccountRow] /\ payment' \in [Payments -> Bank!PaymentRow]
         /\ expense' \in [Expenses -> Bank!ExpenseRow] /\ category' \subseteq Names
<1>1. pc[q] = "checked"
  BY DEF Bank!Commit
<1>2. Bank!AccountJob(q) /\ Bank!BookingJob(q) /\ Bank!FilingJob(q)
  BY <1>1, AccountPlans
<1>3. account' \in [Accounts -> Bank!AccountRow]
  <2>1. \A a \in DOMAIN job[q].account : job[q].account[a] \in Bank!AccountRow
    BY <1>1, <1>2 DEF Bank!AccountJob, Bank!AccountRow
  <2>2. \A a \in Accounts :
          account'[a] = IF a \in DOMAIN job[q].account THEN job[q].account[a] ELSE account[a]
    BY AccountTypes, CommitTables DEF Bank!Written
  <2>3. account' = [a \in Accounts |-> account'[a]]
    BY AccountTypes DEF Bank!Commit, Bank!Written
  <2>4. QED
    BY <2>1, <2>2, <2>3, AccountTypes
<1>4. payment' \in [Payments -> Bank!PaymentRow]
  <2>1. \A p \in DOMAIN job[q].payment : job[q].payment[p] \in Bank!PaymentRow
    BY <1>1, <1>2 DEF Bank!BookingJob
  <2>2. payment' = [p \in Payments |-> payment'[p]]
    BY AccountTypes DEF Bank!Commit, Bank!Written
  <2>3. QED
    BY <2>1, <2>2, AccountTypes, CommitTables
<1>5. expense' \in [Expenses -> Bank!ExpenseRow]
  <2>1. \A e \in DOMAIN job[q].expense : job[q].expense[e] \in Bank!ExpenseRow
    BY <1>1, <1>2 DEF Bank!BookingJob
  <2>2. \A e \in DOMAIN job[q].refile : job[q].refile[e] \in Names
    BY <1>1, <1>2 DEF Bank!FilingJob
  <2>3. ASSUME NEW e \in Expenses
        PROVE  expense'[e] \in Bank!ExpenseRow
    <3>1. CASE e \in DOMAIN job[q].refile
      <4>1. expense'[e] = [expense[e] EXCEPT !.category = job[q].refile[e]]
        BY <3>1 DEF Bank!Commit
      <4>2. expense[e] \in Bank!ExpenseRow
        BY AccountTypes
      <4>3. QED
        BY <2>2, <3>1, <4>1, <4>2 DEF Bank!ExpenseRow
    <3>2. CASE e \notin DOMAIN job[q].refile
      BY <2>1, <3>2, AccountTypes, CommitTables
    <3>3. QED
      BY <3>1, <3>2
  <2>4. expense' = [e \in Expenses |-> expense'[e]]
    BY DEF Bank!Commit
  <2>5. QED
    BY <2>3, <2>4
<1>6. category' \subseteq Names
  BY <1>1, <1>2, AccountTypes, CommitTables DEF Bank!FilingJob
<1>7. QED
  BY <1>3, <1>4, <1>5, <1>6

\* Nothing is committed on an account that was removed, or is removed now.
LEMMA CommitBooks ==
  ASSUME Bank!AccountingAssumption, Bank!IInv, NEW q \in Requests, Bank!Commit(q), NEW a \in Accounts, Bank!Linked(a)'
  PROVE  \/ Bank!Linked(a)
         \/ a \in Bank!LiveAccounts /\ q \in {lock[a], lock[Branch]} /\ DOMAIN job[q].account = {}
<1>1. pc[q] = "checked"
  BY DEF Bank!Commit
<1>2. Bank!AccountJob(q) /\ Bank!BookingJob(q)
  BY <1>1, AccountPlans
<1>3. CASE \E p \in Payments : payment'[p].live /\ payment'[p].account = a
  <2>1. PICK p \in Payments : payment'[p].live /\ payment'[p].account = a
    BY <1>3
  <2>2. CASE p \in DOMAIN job[q].payment
    <3>1. job[q].payment[p].account = a
      BY <2>1, <2>2, CommitTables
    <3>2. DOMAIN job[q].account = {}
      BY <1>1, <1>2, <2>2 DEF Bank!AccountJob
    <3>3. QED
      BY <1>1, <1>2, <2>2, <3>1, <3>2 DEF Bank!BookingJob
  <2>3. CASE p \notin DOMAIN job[q].payment
    BY <2>1, <2>3, CommitTables DEF Bank!Linked
  <2>4. QED
    BY <2>2, <2>3
<1>4. CASE \E e \in Expenses : expense'[e].status # "none" /\ expense'[e].account = a
  <2>1. PICK e \in Expenses : expense'[e].status # "none" /\ expense'[e].account = a
    BY <1>4
  <2>2. CASE e \in DOMAIN job[q].refile
    BY <2>1, <2>2, CommitTables DEF Bank!Linked
  <2>3. CASE e \notin DOMAIN job[q].refile /\ e \notin DOMAIN job[q].expense
    BY <2>1, <2>3, CommitTables DEF Bank!Linked
  <2>4. CASE e \notin DOMAIN job[q].refile /\ e \in DOMAIN job[q].expense
    <3>1. job[q].expense[e].account = a
      BY <2>1, <2>4, CommitTables
    <3>2. DOMAIN job[q].account = {}
      BY <1>1, <1>2, <2>4 DEF Bank!AccountJob
    <3>3. Bank!Usable(a) /\ a # NoOne /\ lock[Branch] = q
      BY <1>1, <1>2, <2>4, <3>1 DEF Bank!BookingJob, Bank!AccountingAssumption
    <3>4. QED
      BY <3>2, <3>3 DEF Bank!Usable
  <2>5. QED
    BY <2>2, <2>3, <2>4
<1>5. QED
  BY <1>3, <1>4 DEF Bank!Linked

LEMMA CommitKeepsTables ==
  ASSUME Bank!AccountingAssumption, Bank!IInv, NEW q \in Requests, Bank!Commit(q)
  PROVE  Bank!RemovedAccountsAreEmpty' /\ Bank!OnePrimary' /\ Bank!ExpensesAreFiled'
<1>1. pc[q] = "checked"
  BY DEF Bank!Commit
<1>2. Bank!AccountJob(q) /\ Bank!BookingJob(q) /\ Bank!FilingJob(q)
  BY <1>1, AccountPlans
<1>3. \A a \in Accounts :
        account'[a] = IF a \in DOMAIN job[q].account THEN job[q].account[a] ELSE account[a]
  BY AccountTypes, CommitTables DEF Bank!Written
<1>4. ASSUME NEW a \in Accounts, account'[a].state = "deleted", Bank!Linked(a)'
      PROVE  FALSE
  <2>1. CASE a \in DOMAIN job[q].account
    BY <1>1, <1>2, <1>3, <1>4, <2>1, CommitBooks DEF Bank!AccountJob
  <2>2. CASE a \notin DOMAIN job[q].account
    <3>1. account[a].state = "deleted"
      BY <1>3, <1>4, <2>2
    <3>2. ~Bank!Linked(a) /\ a \notin Bank!LiveAccounts
      BY <3>1 DEF Bank!IInv, Bank!RemovedAccountsAreEmpty, Bank!LiveAccounts
    <3>3. QED
      BY <1>4, <3>2, CommitBooks
  <2>3. QED
    BY <2>1, <2>2
<1>5. Bank!OnePrimary'
  <2>1. Bank!PrimaryIsOne(Bank!Written(account, job[q].account))
    BY <1>1, <1>2 DEF Bank!AccountJob
  <2>2. account' = Bank!Written(account, job[q].account)
    BY CommitTables
  <2>3. Bank!PrimaryIsOne(account')
    BY <2>1, <2>2
  <2>4. QED
    BY <2>3 DEF Bank!OnePrimary, Bank!PrimaryIsOne
<1>6. ASSUME NEW e \in Expenses, expense'[e].status # "none"
      PROVE  expense'[e].category \in category'
  <2>1. CASE e \in DOMAIN job[q].refile
    BY <1>1, <1>2, <1>6, <2>1, CommitTables DEF Bank!FilingJob
  <2>2. CASE e \notin DOMAIN job[q].refile /\ e \in DOMAIN job[q].expense
    BY <1>1, <1>2, <2>2, CommitTables DEF Bank!BookingJob
  <2>3. CASE e \notin DOMAIN job[q].refile /\ e \notin DOMAIN job[q].expense
    BY <1>1, <1>2, <1>6, <2>3, CommitTables DEF Bank!FilingJob
  <2>4. QED
    BY <2>1, <2>2, <2>3
<1>7. QED
  BY <1>4, <1>5, <1>6 DEF Bank!RemovedAccountsAreEmpty, Bank!ExpensesAreFiled

\* What another request has checked is still right.
LEMMA CommitKeepsPlans ==
  ASSUME Bank!AccountingAssumption, Bank!IInv, NEW q \in Requests, Bank!Commit(q), NEW r \in Requests \ {q}
  PROVE  Bank!AccountJob(r)' /\ Bank!BookingJob(r)' /\ Bank!FilingJob(r)'
<1>1. SUFFICES ASSUME pc'[r] = "checked"
               PROVE  Bank!AccountJob(r)' /\ Bank!BookingJob(r)' /\ Bank!FilingJob(r)'
  BY DEF Bank!AccountJob, Bank!BookingJob, Bank!FilingJob
<1>2. /\ pc[r] = "checked" /\ job'[r] = job[r] /\ pc[q] = "checked"
      /\ \A row \in Bank!Rows : lock[row] = r => lock'[row] = r
  BY <1>1, AccountEnd DEF Bank!Commit
<1>3. Bank!AccountJob(r) /\ Bank!BookingJob(r) /\ Bank!FilingJob(r)
  BY <1>2, AccountPlans
<1>4. Bank!AccountJob(q) /\ Bank!BookingJob(q) /\ Bank!FilingJob(q)
  BY <1>2, AccountPlans
<1>5. /\ Branch \in Bank!Rows /\ Accounts \subseteq Bank!Rows
      /\ \A a \in Accounts :
           account'[a] = IF a \in DOMAIN job[q].account THEN job[q].account[a] ELSE account[a]
  BY AccountTypes, CommitTables DEF Bank!Written, Bank!Rows
<1>6. lock[Branch] = r => /\ DOMAIN job[q].account = {} /\ DOMAIN job[q].expense = {}
                          /\ DOMAIN job[q].refile = {} /\ job[q].drop = {} /\ job[q].add = {}
  BY <1>2, BranchIsOnes
<1>7. Bank!RemovedAccountsAreEmpty' /\ Bank!OnePrimary' /\ Bank!ExpensesAreFiled'
  BY CommitKeepsTables
<1>8. Bank!AccountJob(r)'
  <2>1. CASE DOMAIN job[r].account = {}
    <3>1. Bank!PrimaryIsOne(Bank!Written(account', job[r].account))
      BY <1>7, <2>1, CommitTables DEF Bank!OnePrimary, Bank!PrimaryIsOne, Bank!Written
    <3>2. QED
      BY <1>2, <1>3, <2>1, <3>1 DEF Bank!AccountJob
  <2>2. CASE DOMAIN job[r].account # {}
    <3>1. lock[Branch] = r /\ DOMAIN job[q].account = {}
      BY <1>2, <1>3, <1>6, <2>2 DEF Bank!AccountJob
    <3>2. \A a \in Accounts : account'[a] = account[a]
      BY <1>5, <3>1
    <3>3. Bank!PrimaryIsOne(Bank!Written(account', job[r].account))
      <4>1. Bank!PrimaryIsOne(Bank!Written(account, job[r].account))
        BY <1>2, <1>3 DEF Bank!AccountJob
      <4>2. \A a \in Accounts : Bank!Written(account', job[r].account)[a] = Bank!Written(account, job[r].account)[a]
        BY <3>2, AccountTypes, CommitTables DEF Bank!Written
      <4>3. QED
        BY <4>1, <4>2 DEF Bank!PrimaryIsOne
    <3>4. ASSUME NEW a \in DOMAIN job[r].account \cap Accounts, job[r].account[a].state = "deleted"
          PROVE  lock'[a] = r /\ ~Bank!Linked(a)'
      <4>1. lock[a] = r /\ ~Bank!Linked(a)
        BY <1>2, <1>3, <3>4 DEF Bank!AccountJob
      <4>2. QED
        BY <1>2, <1>5, <3>1, <4>1, CommitBooks
    <3>5. QED
      BY <1>2, <1>3, <1>5, <3>1, <3>3, <3>4 DEF Bank!AccountJob
  <2>3. QED
    BY <2>1, <2>2
<1>9. Bank!BookingJob(r)'
  <2>1. ASSUME NEW a \in Bank!LiveAccounts, r \in {lock[a], lock[Branch]}
        PROVE  a \in Bank!LiveAccounts' /\ r \in {lock'[a], lock'[Branch]}
    <3>1. a \in Accounts /\ account[a].state = "live"
      BY DEF Bank!LiveAccounts
    <3>2. account'[a].state = "live"
      <4>1. CASE a \in DOMAIN job[q].account
        <5>1. lock[Branch] = q /\ job[q].account[a].state \in {"live", "deleted"}
          BY <1>2, <1>4, <4>1 DEF Bank!AccountJob
        <5>2. job[q].account[a].state = "deleted" => lock[a] = q
          BY <1>2, <1>4, <3>1, <4>1 DEF Bank!AccountJob
        <5>3. QED
          BY <1>5, <2>1, <3>1, <4>1, <5>1, <5>2
      <4>2. CASE a \notin DOMAIN job[q].account
        BY <1>5, <3>1, <4>2
      <4>3. QED
        BY <4>1, <4>2
    <3>3. QED
      BY <1>2, <1>5, <2>1, <3>1, <3>2 DEF Bank!LiveAccounts
  <2>2. \A p \in DOMAIN job[r].payment :
          /\ job[r].payment[p] \in Bank!PaymentRow /\ job[r].payment[p].account \in Bank!LiveAccounts'
          /\ r \in {lock'[job[r].payment[p].account], lock'[Branch]}
    BY <1>2, <1>3, <2>1 DEF Bank!BookingJob
  <2>3. \A e \in DOMAIN job[r].expense :
          /\ job[r].expense[e] \in Bank!ExpenseRow /\ lock'[Branch] = r
          /\ job[r].expense[e].account \in Bank!LiveAccounts' \cup {NoOne}
          /\ job[r].expense[e].category \in job[r].add
    BY <1>2, <1>3, <1>5, <2>1 DEF Bank!BookingJob, Bank!Usable
  <2>4. QED
    BY <1>2, <2>2, <2>3 DEF Bank!BookingJob, Bank!Usable
<1>10. Bank!FilingJob(r)'
  <2>1. CASE job[r].drop # {} \/ job[r].add # {} \/ DOMAIN job[r].refile # {}
    <3>1. lock[Branch] = r
      BY <1>2, <1>3, <2>1 DEF Bank!FilingJob
    <3>2. category' = category /\ \A e \in Expenses : expense'[e] = expense[e]
      BY <1>6, <3>1, CommitTables
    <3>3. QED
      BY <1>2, <1>3, <1>5, <3>1, <3>2 DEF Bank!FilingJob
  <2>2. CASE job[r].drop = {} /\ job[r].add = {} /\ DOMAIN job[r].refile = {}
    BY <1>2, <1>3, <1>7, <2>2 DEF Bank!FilingJob, Bank!ExpensesAreFiled
  <2>3. QED
    BY <2>1, <2>2
<1>11. QED
  BY <1>8, <1>9, <1>10

LEMMA BankCommitKeeps ==
  ASSUME Bank!AccountingAssumption, Bank!IInv, NEW q \in Requests, Bank!Commit(q)
  PROVE  Bank!IInv'
<1>1. Bank!End(q)
  BY DEF Bank!Commit
<1>2. Bank!RemovedAccountsAreEmpty' /\ Bank!OnePrimary' /\ Bank!ExpensesAreFiled'
  BY CommitKeepsTables
<1>3. Bank!RowsOK'
  BY <1>1, <1>2, CommitTypes, AccountEnd, AccountTypesBack
<1>4. pc'[q] = "idle"
  BY <1>1, AccountEnd
<1>5. Bank!AccountJob(q)' /\ Bank!BookingJob(q)' /\ Bank!FilingJob(q)'
  BY <1>4 DEF Bank!AccountJob, Bank!BookingJob, Bank!FilingJob
<1>6. \A r \in Requests \ {q} : Bank!AccountJob(r)' /\ Bank!BookingJob(r)' /\ Bank!FilingJob(r)'
  BY CommitKeepsPlans
<1>7. QED
  BY <1>2, <1>3, <1>5, <1>6 DEF Bank!IInv

-----------------------------------------------------------------------------
\* ROLLBACK gives the locks back and leaves the tables as they were.
LEMMA RollbackAccount ==
  ASSUME Bank!AccountingAssumption, Bank!IInv, NEW q \in Requests, Bank!Rollback(q)
  PROVE  Bank!IInv'
<1>1. Bank!End(q) /\ account' = account /\ payment' = payment /\ expense' = expense /\ category' = category
  BY DEF Bank!Rollback, Bank!data
<1>2. Bank!RemovedAccountsAreEmpty' /\ Bank!OnePrimary' /\ Bank!ExpensesAreFiled'
  BY <1>1 DEF Bank!IInv, Bank!RemovedAccountsAreEmpty, Bank!Linked, Bank!OnePrimary, Bank!PrimaryIsOne, Bank!ExpensesAreFiled
<1>3. Bank!RowsOK'
  BY <1>1, <1>2, AccountTypes, AccountEnd, AccountTypesBack
<1>4. Bank!AccountJob(q)' /\ Bank!BookingJob(q)' /\ Bank!FilingJob(q)'
  BY <1>1, AccountEnd DEF Bank!AccountJob, Bank!BookingJob, Bank!FilingJob
<1>5. ASSUME NEW r \in Requests \ {q}
      PROVE  Bank!AccountJob(r)' /\ Bank!BookingJob(r)' /\ Bank!FilingJob(r)'
  <2>1. /\ pc'[r] = pc[r] /\ job'[r] = job[r]
        /\ \A row \in Bank!Rows : lock[row] = r => lock'[row] = r
    BY <1>1, AccountEnd
  <2>2. Bank!AccountJob(r) /\ Bank!BookingJob(r) /\ Bank!FilingJob(r)
    BY DEF Bank!IInv
  <2>3. Bank!AccountJob(r)'
    <3>1. Bank!PrimaryIsOne(Bank!Written(account, job[r].account))' <=> Bank!PrimaryIsOne(Bank!Written(account, job[r].account))
      BY <1>1, <2>1 DEF Bank!PrimaryIsOne, Bank!Written
    <3>2. \A a : Bank!Linked(a)' <=> Bank!Linked(a)
      BY <1>1 DEF Bank!Linked
    <3>3. Branch \in Bank!Rows /\ Accounts \subseteq Bank!Rows
      BY DEF Bank!Rows
    <3>4. QED
      BY <2>1, <2>2, <3>1, <3>2, <3>3 DEF Bank!AccountJob
  <2>4. Bank!BookingJob(r)'
    <3>1. Bank!LiveAccounts' = Bank!LiveAccounts /\ Bank!LiveAccounts \subseteq Bank!Rows /\ Branch \in Bank!Rows
      BY <1>1 DEF Bank!LiveAccounts, Bank!Rows
    <3>2. QED
      BY <2>1, <2>2, <3>1 DEF Bank!BookingJob, Bank!Usable
  <2>5. Bank!FilingJob(r)'
    BY <1>1, <2>1, <2>2 DEF Bank!FilingJob, Bank!Rows
  <2>6. QED
    BY <2>3, <2>4, <2>5
<1>6. QED
  BY <1>2, <1>3, <1>4, <1>5 DEF Bank!IInv

\* deletePayment(), removeEntry()
LEMMA UnbookKeeps ==
  ASSUME Bank!AccountingAssumption, Bank!IInv, NEW p \in Payments, Bank!Unbook(p)
  PROVE  Bank!IInv'
<1>1. /\ UNCHANGED <<lock, pc, job, account, expense, category>>
      /\ payment' = [payment EXCEPT ![p].live = FALSE]
  BY DEF Bank!Unbook
<1>2. payment' \in [Payments -> Bank!PaymentRow]
      /\ \A x \in Payments : payment'[x].account = payment[x].account
                           /\ (payment'[x].live => payment[x].live)
  BY <1>1, AccountTypes DEF Bank!PaymentRow
<1>3. \A a : Bank!Linked(a)' => Bank!Linked(a)
  BY <1>1, <1>2 DEF Bank!Linked
<1>4. Bank!RemovedAccountsAreEmpty' /\ Bank!OnePrimary' /\ Bank!ExpensesAreFiled'
  BY <1>1, <1>3 DEF Bank!IInv, Bank!RemovedAccountsAreEmpty, Bank!OnePrimary, Bank!PrimaryIsOne, Bank!ExpensesAreFiled
<1>5. Bank!RowsOK'
  BY <1>1, <1>2, <1>4, AccountTypes, AccountTypesBack
<1>6. ASSUME NEW r \in Requests
      PROVE  Bank!AccountJob(r)' /\ Bank!BookingJob(r)' /\ Bank!FilingJob(r)'
  <2>1. Bank!AccountJob(r) /\ Bank!BookingJob(r) /\ Bank!FilingJob(r)
    BY DEF Bank!IInv
  <2>2. Bank!AccountJob(r)'
    <3>1. Bank!PrimaryIsOne(Bank!Written(account, job[r].account))' <=> Bank!PrimaryIsOne(Bank!Written(account, job[r].account))
      BY <1>1 DEF Bank!PrimaryIsOne, Bank!Written
    <3>2. QED
      BY <1>1, <1>3, <2>1, <3>1 DEF Bank!AccountJob
  <2>3. Bank!BookingJob(r)'
    <3>1. Bank!LiveAccounts' = Bank!LiveAccounts
      BY <1>1 DEF Bank!LiveAccounts
    <3>2. QED
      BY <1>1, <2>1, <3>1 DEF Bank!BookingJob, Bank!Usable
  <2>4. Bank!FilingJob(r)'
    BY <1>1, <2>1 DEF Bank!FilingJob
  <2>5. QED
    BY <2>2, <2>3, <2>4
<1>7. QED
  BY <1>4, <1>5, <1>6 DEF Bank!IInv

\* cancelExpense()
LEMMA CancelExpenseKeeps ==
  ASSUME Bank!AccountingAssumption, Bank!IInv, NEW e \in Expenses, Bank!CancelExpense(e)
  PROVE  Bank!IInv'
<1>1. /\ UNCHANGED <<lock, pc, job, account, payment, category>>
      /\ expense' = [expense EXCEPT ![e].status = "CANCELLED"] /\ expense[e].status # "none"
  BY DEF Bank!CancelExpense
<1>2. expense' \in [Expenses -> Bank!ExpenseRow]
      /\ \A x \in Expenses : /\ expense'[x].account = expense[x].account
                            /\ expense'[x].category = expense[x].category
                            /\ (expense'[x].status # "none" <=> expense[x].status # "none")
  BY <1>1, AccountTypes DEF Bank!ExpenseRow
<1>3. \A a : Bank!Linked(a)' <=> Bank!Linked(a)
  BY <1>1, <1>2 DEF Bank!Linked
<1>4. Bank!RemovedAccountsAreEmpty' /\ Bank!OnePrimary' /\ Bank!ExpensesAreFiled'
  BY <1>1, <1>2, <1>3 DEF Bank!IInv, Bank!RemovedAccountsAreEmpty, Bank!OnePrimary, Bank!PrimaryIsOne, Bank!ExpensesAreFiled
<1>5. Bank!RowsOK'
  BY <1>1, <1>2, <1>4, AccountTypes, AccountTypesBack
<1>6. ASSUME NEW r \in Requests
      PROVE  Bank!AccountJob(r)' /\ Bank!BookingJob(r)' /\ Bank!FilingJob(r)'
  <2>1. Bank!AccountJob(r) /\ Bank!BookingJob(r) /\ Bank!FilingJob(r)
    BY DEF Bank!IInv
  <2>2. Bank!AccountJob(r)'
    <3>1. Bank!PrimaryIsOne(Bank!Written(account, job[r].account))' <=> Bank!PrimaryIsOne(Bank!Written(account, job[r].account))
      BY <1>1 DEF Bank!PrimaryIsOne, Bank!Written
    <3>2. QED
      BY <1>1, <1>3, <2>1, <3>1 DEF Bank!AccountJob
  <2>3. Bank!BookingJob(r)'
    <3>1. Bank!LiveAccounts' = Bank!LiveAccounts
      BY <1>1 DEF Bank!LiveAccounts
    <3>2. QED
      BY <1>1, <2>1, <3>1 DEF Bank!BookingJob, Bank!Usable
  <2>4. Bank!FilingJob(r)'
    BY <1>1, <1>2, <2>1 DEF Bank!FilingJob
  <2>5. QED
    BY <2>2, <2>3, <2>4
<1>7. QED
  BY <1>4, <1>5, <1>6 DEF Bank!IInv

\* createExpenseCategory()
LEMMA CreateCategoryKeeps ==
  ASSUME Bank!AccountingAssumption, Bank!IInv, NEW n \in Names, Bank!CreateCategory(n)
  PROVE  Bank!IInv'
<1>1. /\ UNCHANGED <<lock, pc, job, account, payment, expense>>
      /\ category' = category \cup {n}
  BY DEF Bank!CreateCategory
<1>2. Bank!RemovedAccountsAreEmpty' /\ Bank!OnePrimary' /\ Bank!ExpensesAreFiled'
  BY <1>1 DEF Bank!IInv, Bank!RemovedAccountsAreEmpty, Bank!Linked, Bank!OnePrimary, Bank!PrimaryIsOne, Bank!ExpensesAreFiled
<1>3. Bank!RowsOK'
  BY <1>1, <1>2, AccountTypes, AccountTypesBack
<1>4. ASSUME NEW r \in Requests
      PROVE  Bank!AccountJob(r)' /\ Bank!BookingJob(r)' /\ Bank!FilingJob(r)'
  <2>1. Bank!AccountJob(r) /\ Bank!BookingJob(r) /\ Bank!FilingJob(r)
    BY DEF Bank!IInv
  <2>2. Bank!AccountJob(r)'
    <3>1. Bank!PrimaryIsOne(Bank!Written(account, job[r].account))' <=> Bank!PrimaryIsOne(Bank!Written(account, job[r].account))
      BY <1>1 DEF Bank!PrimaryIsOne, Bank!Written
    <3>2. \A a : Bank!Linked(a)' <=> Bank!Linked(a)
      BY <1>1 DEF Bank!Linked
    <3>3. QED
      BY <1>1, <2>1, <3>1, <3>2 DEF Bank!AccountJob
  <2>3. Bank!BookingJob(r)'
    <3>1. Bank!LiveAccounts' = Bank!LiveAccounts
      BY <1>1 DEF Bank!LiveAccounts
    <3>2. QED
      BY <1>1, <2>1, <3>1 DEF Bank!BookingJob, Bank!Usable
  <2>4. Bank!FilingJob(r)'
    <3>1. \A x : x \in (category \ job[r].drop) \cup job[r].add =>
                   x \in (category' \ job[r].drop) \cup job[r].add \/ x \in job[r].drop
      BY <1>1
    <3>2. \A x : x \in (category \ job[r].drop) \cup job[r].add =>
                   x \in (category' \ job[r].drop) \cup job[r].add
      BY <1>1
    <3>3. QED
      BY <1>1, <2>1, <3>2 DEF Bank!FilingJob
  <2>5. QED
    BY <2>2, <2>3, <2>4
<1>5. QED
  BY <1>2, <1>3, <1>4 DEF Bank!IInv

LEMMA AccountNext ==
  ASSUME Bank!AccountingAssumption, Bank!IInv, [Bank!Next]_(Bank!vars)
  PROVE  Bank!IInv'
<1>1. CASE UNCHANGED Bank!vars
  <2>1. Bank!RowsOK' /\ Bank!RemovedAccountsAreEmpty' /\ Bank!OnePrimary' /\ Bank!ExpensesAreFiled'
    <3>1. Bank!RemovedAccountsAreEmpty' /\ Bank!OnePrimary' /\ Bank!ExpensesAreFiled'
      BY <1>1 DEF Bank!vars, Bank!IInv, Bank!RemovedAccountsAreEmpty, Bank!Linked, Bank!OnePrimary, Bank!PrimaryIsOne, Bank!ExpensesAreFiled
    <3>2. QED
      BY <1>1, <3>1, AccountTypes, AccountTypesBack DEF Bank!vars
  <2>2. ASSUME NEW r \in Requests
        PROVE  Bank!AccountJob(r)' /\ Bank!BookingJob(r)' /\ Bank!FilingJob(r)'
    <3>1. Bank!AccountJob(r) /\ Bank!BookingJob(r) /\ Bank!FilingJob(r)
      BY DEF Bank!IInv
    <3>2. Bank!AccountJob(r)'
      BY <1>1, <3>1 DEF Bank!vars, Bank!AccountJob, Bank!PrimaryIsOne, Bank!Written, Bank!Linked
    <3>3. Bank!BookingJob(r)' /\ Bank!FilingJob(r)'
      BY <1>1, <3>1 DEF Bank!vars, Bank!BookingJob, Bank!FilingJob, Bank!Usable, Bank!LiveAccounts
    <3>4. QED
      BY <3>2, <3>3
  <2>3. QED
    BY <2>1, <2>2 DEF Bank!IInv
<1>2. CASE \E q \in Requests : Bank!AccountStep(q)
  BY <1>2, SaveAccountKeeps, RemoveAccountKeeps, BookPaymentKeeps, BookEntryKeeps DEF Bank!AccountStep
<1>3. CASE \E q \in Requests : Bank!CategoryStep(q)
  BY <1>3, BankCreateExpenseKeeps, RenameCategoryKeeps, DeleteCategoryKeeps DEF Bank!CategoryStep
<1>4. CASE \E q \in Requests : Bank!Commit(q) \/ Bank!Rollback(q)
  BY <1>4, BankCommitKeeps, RollbackAccount
<1>5. CASE \E p \in Payments : Bank!Unbook(p)
  BY <1>5, UnbookKeeps
<1>6. CASE \E e \in Expenses : Bank!CancelExpense(e)
  BY <1>6, CancelExpenseKeeps
<1>7. CASE \E n \in Names : Bank!CreateCategory(n)
  BY <1>7, CreateCategoryKeeps
<1>8. QED
  BY <1>1, <1>2, <1>3, <1>4, <1>5, <1>6, <1>7 DEF Bank!Next

-----------------------------------------------------------------------------
(* The theorems of the bank accounts *)

\* The invariant that the locks of the branch and of the accounts keep between them.
THEOREM AccountInvariance ==
  ASSUME Bank!AccountingAssumption
  PROVE  Bank!Spec => []Bank!IInv
<1>1. Bank!Init => Bank!IInv
  BY AccountInit
<1>2. Bank!IInv /\ [Bank!Next]_(Bank!vars) => Bank!IInv'
  BY AccountNext
<1>3. QED
  BY <1>1, <1>2, PTL DEF Bank!Spec

\* The rows of accounts, payments and expenses keep their types.
THEOREM AccountsAreTyped ==
  ASSUME Bank!AccountingAssumption
  PROVE  Bank!Spec => []Bank!TypeOK
<1>1. Bank!IInv => Bank!TypeOK
  BY DEF Bank!IInv, Bank!RowsOK
<1>2. QED
  BY <1>1, AccountInvariance, PTL

\* removeAccount() and whoever books take different locks, and still nothing is ever
\* booked on an account that was removed.
THEOREM RemovedAccountsStayEmpty ==
  ASSUME Bank!AccountingAssumption
  PROVE  Bank!Spec => []Bank!RemovedAccountsAreEmpty
<1>1. Bank!IInv => Bank!RemovedAccountsAreEmpty
  BY DEF Bank!IInv
<1>2. QED
  BY <1>1, AccountInvariance, PTL

\* saveAccount() and removeAccount() pass the primary flag on and never double it.
THEOREM OneAccountIsPrimary ==
  ASSUME Bank!AccountingAssumption
  PROVE  Bank!Spec => []Bank!OnePrimary
<1>1. Bank!IInv => Bank!OnePrimary
  BY DEF Bank!IInv
<1>2. QED
  BY <1>1, AccountInvariance, PTL

\* Renaming or deleting a category never leaves an expense outside the list.
THEOREM ExpensesStayFiled ==
  ASSUME Bank!AccountingAssumption
  PROVE  Bank!Spec => []Bank!ExpensesAreFiled
<1>1. Bank!IInv => Bank!ExpensesAreFiled
  BY DEF Bank!IInv
<1>2. QED
  BY <1>1, AccountInvariance, PTL
=============================================================================
