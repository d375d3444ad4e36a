---------------------------- MODULE SuiteProofs -----------------------------
(***************************************************************************)
(* The theorems of the suites MCGoods and MCServices, and those of         *)
(* MCPapers about documents: what each part was shown to keep by the       *)
(* proofs of its component, for every value of the constants, the suite    *)
(* keeps as well.                                                          *)
(*                                                                         *)
(* For each part the proofs are instantiated with the rows of the part (a  *)
(* constant or variable of a component the part does not run is given any  *)
(* value). Same says that the component of the suite and that of the       *)
(* proofs are one, Keeps that the steps of the suite keep its invariant.   *)
(***************************************************************************)
EXTENDS MCGoods, MCPapers, MCServices, TLAPS

\* The parts "loans", "places" and "banking".
FirstGoods == INSTANCE GoodsProofs WITH
  entry <- a, loan <- b, repaid <- c, drawer <- d,
  Keys <- TwoKeys, Loans <- {z1}, Banks <- {z2}, MaxAmount <- 2, Drawer <- 2, Ops <- LoanOps,
  item <- a, stock <- b, placed <- c, moved <- d, godown <- e, paper <- f,
  Items <- {z1}, Godowns <- {y1, y2}, Papers <- {x1}, MaxQty <- 2, Bound <- 3,
  AllowNegative <- FALSE, StockOps <- PlaceOps,
  account <- a, payment <- b, expense <- c, category <- d,
  Accounts <- {x1, x2, z1}, Payments <- {y1, y2}, Expenses <- Nobody, Names <- Nobody,
  BankOps <- AccountOps

\* The parts "entries", "godowns" and "filing".
NextGoods == INSTANCE GoodsProofs WITH
  entry <- a, loan <- b, repaid <- c, drawer <- d,
  Keys <- TwoKeys, Loans <- Nobody, Banks <- {z2}, MaxAmount <- 2, Drawer <- 1, Ops <- EntryOps,
  item <- a, stock <- b, placed <- c, moved <- d, godown <- e, paper <- f,
  Items <- {z1}, Godowns <- {y1, y2}, Papers <- {x1}, MaxQty <- 1, Bound <- 1,
  AllowNegative <- TRUE, StockOps <- GodownOps,
  account <- a, payment <- b, expense <- c, category <- d,
  Accounts <- {z1}, Payments <- Nobody, Expenses <- {y1, y2}, Names <- {x1, x2, z2},
  BankOps <- CategoryOps

\* The part "spending".
LastGoods == INSTANCE GoodsProofs WITH
  entry <- a, loan <- b, repaid <- c, drawer <- d,
  Keys <- TwoKeys, Loans <- Nobody, Banks <- {z2}, MaxAmount <- 1, Drawer <- 1, Ops <- SpendOps,
  StockOps <- Nobody, item <- a, stock <- a, placed <- a, moved <- a, godown <- a, paper <- a,
  Items <- Nobody, Godowns <- Nobody, Papers <- Nobody, MaxQty <- 1, Bound <- 0,
  AllowNegative <- FALSE,
  BankOps <- Nobody, account <- a, payment <- a, expense <- a, category <- a,
  Accounts <- Nobody, Payments <- Nobody, Expenses <- Nobody, Names <- Nobody

\* The part "shelf".
ShelfGoods == INSTANCE GoodsProofs WITH
  Ops <- Nobody, entry <- a, loan <- a, repaid <- a, drawer <- a,
  Keys <- Nobody, Loans <- Nobody, Banks <- Nobody, MaxAmount <- 0, Drawer <- 0,
  Requests <- {q1}, item <- a, stock <- b, placed <- c, moved <- d, godown <- e, paper <- f,
  Items <- {x1, x2}, Godowns <- {z1}, Papers <- {y1, y2}, MaxQty <- 1, Bound <- 1,
  AllowNegative <- FALSE, StockOps <- ItemOps,
  BankOps <- Nobody, account <- a, payment <- a, expense <- a, category <- a,
  Accounts <- Nobody, Payments <- Nobody, Expenses <- Nobody, Names <- Nobody

\* The parts "chain" and "settled".
FirstServices == INSTANCE ServicesProofs WITH
  Ops <- Nobody, Branches <- Nobody, Ids <- Nobody, Pool <- 1, Tries <- 1,
  invoice <- a, attempt <- b, outbox <- c, Nobody <- NoOne,
  Invoices <- {x1, x2}, Attempts <- {y1, y2, y3, y4}, Channels <- {"EMAIL", "WHATSAPP"},
  TwoStep <- {"WHATSAPP"}, Reachable <- {"WHATSAPP"},
  Sending <- {"create", "cancel"}, Faults <- {"reject", "lose", "write"},
  doc <- a, sold <- b, out <- c,
  Docs <- {x1, x2, x3}, Sold <- {y1}, MaxQty <- 1, Linked <- FALSE,
  PaperOps <- {"create", "status", "convert", "invoice", "reverse"}

\* The part "failing".
NextServices == INSTANCE ServicesProofs WITH
  Ops <- Nobody, Branches <- Nobody, Ids <- Nobody, Pool <- 1, Tries <- 1,
  invoice <- a, attempt <- b, outbox <- c, Nobody <- NoOne,
  Invoices <- {x1}, Attempts <- {y1, y2}, Channels <- {"EMAIL", "WHATSAPP"},
  TwoStep <- {"WHATSAPP"}, Reachable <- {"EMAIL", "WHATSAPP"},
  Sending <- {"create", "deliver"}, Faults <- {"reject", "lose", "write", "catch", "print", "stop"},
  PaperOps <- Nobody, doc <- a, sold <- a, out <- a,
  Docs <- Nobody, Sold <- Nobody, MaxQty <- 1, Linked <- FALSE

-----------------------------------------------------------------------------
\* A step of the suite is one of its part, or leaves the rows of the part alone.
LEMMA GoodsSteps ==
  ASSUME [GoodsNext]_vars
  PROVE  /\ part' = part
         /\ part = "loans" => [Lending!Next]_(Lending!vars)
         /\ part = "entries" => [Entries!Next]_(Entries!vars)
         /\ part = "spending" => [Spending!Next]_(Spending!vars)
         /\ part = "places" => [Places!Next]_(Places!vars)
         /\ part = "godowns" => [Warehouses!Next]_(Warehouses!vars)
         /\ part = "shelf" => [Shelf!Next]_(Shelf!vars)
         /\ part = "banking" => [Banking!Next]_(Banking!vars)
         /\ part = "filing" => [Filing!Next]_(Filing!vars)
BY DEF GoodsNext, LoansStep, EntriesStep, SpendingStep, BankingStep, FilingStep, PlacesStep,
       GodownsStep, ShelfStep, StagesStep, MastersStep, CostsStep, FiguresStep, vars,
       Lending!vars, Entries!vars, Spending!vars, Places!vars, Warehouses!vars, Shelf!vars,
       Banking!vars, Filing!vars

\* A step of the suite is one of its part, or leaves the rows of the part alone.
LEMMA PapersSteps ==
  ASSUME [PapersNext]_vars
  PROVE  /\ part' = part
         /\ part = "chain" => [Chain!Next]_(Chain!vars)
BY DEF PapersNext, PartiesStep, DebtsStep, ContactsStep, SeriesStep, CodesStep, ChainStep,
       GoodsStep, OrdersStep, FilesStep, BillsStep, WordsStep, more, requests, vars, Chain!vars

\* A step of the suite is one of its part, or leaves the rows of the part alone.
LEMMA ServicesSteps ==
  ASSUME [ServicesNext]_vars
  PROVE  /\ part' = part
         /\ part = "settled" => [Settled!Next]_(Settled!vars)
         /\ part = "failing" => [Failing!Next]_(Failing!vars)
BY DEF ServicesNext, LocksStep, CrowdStep, OrderStep, ChainsStep, SettledStep, FailingStep,
       PrintingStep, StoppingStep, OfLocks, OfMessages, OfBrowsers, vars, Settled!vars,
       Failing!vars

-----------------------------------------------------------------------------
(* The cash book: GoodsProofs itself.                                      *)

LEMMA LendingSame ==
  /\ Lending!CashBookAssumption => FirstGoods!CashBookAssumption
  /\ Lending!Init => FirstGoods!Init
  /\ [Lending!Next]_(Lending!vars) => [FirstGoods!Next]_(FirstGoods!vars)
  /\ (Lending!IInv <=> FirstGoods!IInv) /\ (Lending!IInv' <=> FirstGoods!IInv')
  /\ FirstGoods!LoanNotOverpaid => Lending!LoanNotOverpaid
  /\ FirstGoods!RepaymentsPosted => Lending!RepaymentsPosted
  /\ FirstGoods!OneCashEntryPerRequest => Lending!OneCashEntryPerRequest
  /\ FirstGoods!ConversionKeepsCashStep => Lending!ConversionKeepsCashStep
BY Zenon DEF
     Lending!Init, Lending!Next, Lending!vars, Lending!IInv, Lending!CashBookAssumption,
     Lending!LoanNotOverpaid, Lending!RepaymentsPosted, Lending!OneCashEntryPerRequest,
     Lending!ConversionKeepsCashStep, Lending!NoJob, Lending!EntryIds, Lending!NoEntry,
     Lending!NoLoan, Lending!RepaymentIds, Lending!NoRepayment, Lending!LoanStep,
     Lending!EntryStep, Lending!Commit, Lending!Rollback, Lending!CreateExpense, Lending!TypeOK,
     Lending!InOrder, Lending!CheckedJob, Lending!Amount, Lending!Places, Lending!SumOf,
     Lending!Repayments, Lending!Principals, Lending!InStep, Lending!MovedOnce,
     Lending!CashInHand, Lending!Nothing, Lending!Kinds, Lending!CreateLoan, Lending!PayLoan,
     Lending!RemoveRepayment, Lending!ConvertToLoanPayment, Lending!Income, Lending!AdjustCash,
     Lending!Transfer, Lending!UpdateEntry, Lending!RemoveEntry, Lending!Written, Lending!End,
     Lending!data, Lending!CanLock, Lending!EntryType, Lending!LoanType, Lending!RepaymentType,
     Lending!EntriesHaveMoney, Lending!LegsMatch, Lending!LoansFit, Lending!CashSuffices,
     Lending!EntryAfter, Lending!LoanAfter, Lending!RepaidAfter, Lending!ConversionFits,
     Lending!CoinsOf, Lending!CashEntries, Lending!EntryAmounts, Lending!Check, Lending!One,
     Lending!LoanEntry, Lending!MayRepay, Lending!LoanEntries, Lending!LoanBalance,
     Lending!NewEntry, Lending!Unused, Lending!EnsureCash, Lending!EntryGroup, Lending!Posted,
     Lending!Editable, Lending!Signed, Lending!Released, Lending!PrincipalsOf, Lending!CashOf,
     Lending!Coins, Lending!Inflow, Lending!Outflow, Lending!Cardinality, Lending!IsFiniteSet,
     FirstGoods!Init, FirstGoods!Next, FirstGoods!vars, FirstGoods!IInv,
     FirstGoods!CashBookAssumption, FirstGoods!LoanNotOverpaid, FirstGoods!RepaymentsPosted,
     FirstGoods!OneCashEntryPerRequest, FirstGoods!ConversionKeepsCashStep, FirstGoods!NoJob,
     FirstGoods!EntryIds, FirstGoods!NoEntry, FirstGoods!NoLoan, FirstGoods!RepaymentIds,
     FirstGoods!NoRepayment, FirstGoods!LoanStep, FirstGoods!EntryStep, FirstGoods!Commit,
     FirstGoods!Rollback, FirstGoods!CreateExpense, FirstGoods!TypeOK, FirstGoods!InOrder,
     FirstGoods!CheckedJob, FirstGoods!Amount, FirstGoods!Places, FirstGoods!SumOf,
     FirstGoods!Repayments, FirstGoods!Principals, FirstGoods!InStep, FirstGoods!MovedOnce,
     FirstGoods!CashInHand, FirstGoods!Nothing, FirstGoods!Kinds, FirstGoods!CreateLoan,
     FirstGoods!PayLoan, FirstGoods!RemoveRepayment, FirstGoods!ConvertToLoanPayment,
     FirstGoods!Income, FirstGoods!AdjustCash, FirstGoods!Transfer, FirstGoods!UpdateEntry,
     FirstGoods!RemoveEntry, FirstGoods!Written, FirstGoods!End, FirstGoods!data,
     FirstGoods!CanLock, FirstGoods!EntryType, FirstGoods!LoanType, FirstGoods!RepaymentType,
     FirstGoods!EntriesHaveMoney, FirstGoods!LegsMatch, FirstGoods!LoansFit,
     FirstGoods!CashSuffices, FirstGoods!EntryAfter, FirstGoods!LoanAfter,
     FirstGoods!RepaidAfter, FirstGoods!ConversionFits, FirstGoods!CoinsOf,
     FirstGoods!CashEntries, FirstGoods!EntryAmounts, FirstGoods!Check, FirstGoods!One,
     FirstGoods!LoanEntry, FirstGoods!MayRepay, FirstGoods!LoanEntries, FirstGoods!LoanBalance,
     FirstGoods!NewEntry, FirstGoods!Unused, FirstGoods!EnsureCash, FirstGoods!EntryGroup,
     FirstGoods!Posted, FirstGoods!Editable, FirstGoods!Signed, FirstGoods!Released,
     FirstGoods!PrincipalsOf, FirstGoods!CashOf, FirstGoods!Coins, FirstGoods!Inflow,
     FirstGoods!Outflow, FirstGoods!Cardinality, FirstGoods!IsFiniteSet

LEMMA LendingKeeps ==
  ASSUME part = "loans"
  PROVE  /\ GoodsInit => Lending!IInv
         /\ Lending!IInv /\ [GoodsNext]_vars => Lending!IInv'
<1>1. FirstGoods!CashBookAssumption
  BY LendingSame, CashAssumption
<1>2. GoodsInit => Lending!IInv
  BY <1>1, LendingSame, PartsAssumption, FirstGoods!InitInvariant DEF GoodsInit
<1>3. QED
  BY <1>1, <1>2, GoodsSteps, LendingSame, PartsAssumption, FirstGoods!NextInvariant

LEMMA EntriesSame ==
  /\ Entries!CashBookAssumption => NextGoods!CashBookAssumption
  /\ Entries!Init => NextGoods!Init
  /\ [Entries!Next]_(Entries!vars) => [NextGoods!Next]_(NextGoods!vars)
  /\ (Entries!IInv <=> NextGoods!IInv) /\ (Entries!IInv' <=> NextGoods!IInv')
  /\ NextGoods!TransfersBalance => Entries!TransfersBalance
  /\ NextGoods!CashNeverNegative => Entries!CashNeverNegative
BY Zenon DEF
     Entries!Init, Entries!Next, Entries!vars, Entries!IInv, Entries!CashBookAssumption,
     Entries!TransfersBalance, Entries!CashNeverNegative, Entries!NoJob, Entries!EntryIds,
     Entries!NoEntry, Entries!NoLoan, Entries!RepaymentIds, Entries!NoRepayment,
     Entries!LoanStep, Entries!EntryStep, Entries!Commit, Entries!Rollback,
     Entries!CreateExpense, Entries!TypeOK, Entries!InOrder, Entries!CheckedJob, Entries!Amount,
     Entries!Places, Entries!LegsMatch, Entries!CashInHand, Entries!Nothing, Entries!Kinds,
     Entries!CreateLoan, Entries!PayLoan, Entries!RemoveRepayment, Entries!ConvertToLoanPayment,
     Entries!Income, Entries!AdjustCash, Entries!Transfer, Entries!UpdateEntry,
     Entries!RemoveEntry, Entries!Written, Entries!End, Entries!data, Entries!CanLock,
     Entries!EntryType, Entries!LoanType, Entries!RepaymentType, Entries!EntriesHaveMoney,
     Entries!MovedOnce, Entries!InStep, Entries!LoansFit, Entries!CashSuffices,
     Entries!EntryAfter, Entries!LoanAfter, Entries!RepaidAfter, Entries!ConversionFits,
     Entries!SumOf, Entries!CashEntries, Entries!EntryAmounts, Entries!Check, Entries!One,
     Entries!LoanEntry, Entries!MayRepay, Entries!LoanEntries, Entries!LoanBalance,
     Entries!NewEntry, Entries!Unused, Entries!EnsureCash, Entries!EntryGroup, Entries!Posted,
     Entries!Editable, Entries!Signed, Entries!Released, Entries!PrincipalsOf, Entries!CashOf,
     Entries!CoinsOf, Entries!Repayments, Entries!Principals, Entries!Inflow, Entries!Outflow,
     Entries!Coins, Entries!Cardinality, Entries!IsFiniteSet, NextGoods!Init, NextGoods!Next,
     NextGoods!vars, NextGoods!IInv, NextGoods!CashBookAssumption, NextGoods!TransfersBalance,
     NextGoods!CashNeverNegative, NextGoods!NoJob, NextGoods!EntryIds, NextGoods!NoEntry,
     NextGoods!NoLoan, NextGoods!RepaymentIds, NextGoods!NoRepayment, NextGoods!LoanStep,
     NextGoods!EntryStep, NextGoods!Commit, NextGoods!Rollback, NextGoods!CreateExpense,
     NextGoods!TypeOK, NextGoods!InOrder, NextGoods!CheckedJob, NextGoods!Amount,
     NextGoods!Places, NextGoods!LegsMatch, NextGoods!CashInHand, NextGoods!Nothing,
     NextGoods!Kinds, NextGoods!CreateLoan, NextGoods!PayLoan, NextGoods!RemoveRepayment,
     NextGoods!ConvertToLoanPayment, NextGoods!Income, NextGoods!AdjustCash, NextGoods!Transfer,
     NextGoods!UpdateEntry, NextGoods!RemoveEntry, NextGoods!Written, NextGoods!End,
     NextGoods!data, NextGoods!CanLock, NextGoods!EntryType, NextGoods!LoanType,
     NextGoods!RepaymentType, NextGoods!EntriesHaveMoney, NextGoods!MovedOnce, NextGoods!InStep,
     NextGoods!LoansFit, NextGoods!CashSuffices, NextGoods!EntryAfter, NextGoods!LoanAfter,
     NextGoods!RepaidAfter, NextGoods!ConversionFits, NextGoods!SumOf, NextGoods!CashEntries,
     NextGoods!EntryAmounts, NextGoods!Check, NextGoods!One, NextGoods!LoanEntry,
     NextGoods!MayRepay, NextGoods!LoanEntries, NextGoods!LoanBalance, NextGoods!NewEntry,
     NextGoods!Unused, NextGoods!EnsureCash, NextGoods!EntryGroup, NextGoods!Posted,
     NextGoods!Editable, NextGoods!Signed, NextGoods!Released, NextGoods!PrincipalsOf,
     NextGoods!CashOf, NextGoods!CoinsOf, NextGoods!Repayments, NextGoods!Principals,
     NextGoods!Inflow, NextGoods!Outflow, NextGoods!Coins, NextGoods!Cardinality,
     NextGoods!IsFiniteSet

LEMMA EntriesKeeps ==
  ASSUME part = "entries"
  PROVE  /\ GoodsInit => Entries!IInv
         /\ Entries!IInv /\ [GoodsNext]_vars => Entries!IInv'
<1>1. NextGoods!CashBookAssumption
  BY EntriesSame, CashAssumption
<1>2. GoodsInit => Entries!IInv
  BY <1>1, EntriesSame, PartsAssumption, NextGoods!InitInvariant DEF GoodsInit
<1>3. QED
  BY <1>1, <1>2, GoodsSteps, EntriesSame, PartsAssumption, NextGoods!NextInvariant

LEMMA SpendingSame ==
  /\ Spending!CashBookAssumption => LastGoods!CashBookAssumption
  /\ Spending!Init => LastGoods!Init
  /\ [Spending!Next]_(Spending!vars) => [LastGoods!Next]_(LastGoods!vars)
  /\ (Spending!IInv <=> LastGoods!IInv) /\ (Spending!IInv' <=> LastGoods!IInv')
  /\ LastGoods!TransfersBalance => Spending!TransfersBalance
BY Zenon DEF
     Spending!Init, Spending!Next, Spending!vars, Spending!IInv, Spending!CashBookAssumption,
     Spending!TransfersBalance, Spending!NoJob, Spending!EntryIds, Spending!NoEntry,
     Spending!NoLoan, Spending!RepaymentIds, Spending!NoRepayment, Spending!LoanStep,
     Spending!EntryStep, Spending!Commit, Spending!Rollback, Spending!CreateExpense,
     Spending!TypeOK, Spending!InOrder, Spending!CheckedJob, Spending!Amount, Spending!Places,
     Spending!LegsMatch, Spending!Nothing, Spending!Kinds, Spending!CreateLoan, Spending!PayLoan,
     Spending!RemoveRepayment, Spending!ConvertToLoanPayment, Spending!Income,
     Spending!AdjustCash, Spending!Transfer, Spending!UpdateEntry, Spending!RemoveEntry,
     Spending!Written, Spending!End, Spending!data, Spending!CanLock, Spending!EntryType,
     Spending!LoanType, Spending!RepaymentType, Spending!EntriesHaveMoney, Spending!MovedOnce,
     Spending!InStep, Spending!LoansFit, Spending!CashSuffices, Spending!EntryAfter,
     Spending!LoanAfter, Spending!RepaidAfter, Spending!ConversionFits, Spending!Check,
     Spending!One, Spending!LoanEntry, Spending!MayRepay, Spending!LoanEntries,
     Spending!LoanBalance, Spending!NewEntry, Spending!Unused, Spending!EnsureCash,
     Spending!EntryGroup, Spending!Posted, Spending!Editable, Spending!Signed, Spending!Released,
     Spending!SumOf, Spending!PrincipalsOf, Spending!CashOf, Spending!Repayments,
     Spending!Principals, Spending!CashInHand, Spending!CoinsOf, Spending!Inflow,
     Spending!Outflow, Spending!CashEntries, Spending!EntryAmounts, Spending!Coins,
     Spending!Cardinality, Spending!IsFiniteSet, LastGoods!Init, LastGoods!Next, LastGoods!vars,
     LastGoods!IInv, LastGoods!CashBookAssumption, LastGoods!TransfersBalance, LastGoods!NoJob,
     LastGoods!EntryIds, LastGoods!NoEntry, LastGoods!NoLoan, LastGoods!RepaymentIds,
     LastGoods!NoRepayment, LastGoods!LoanStep, LastGoods!EntryStep, LastGoods!Commit,
     LastGoods!Rollback, LastGoods!CreateExpense, LastGoods!TypeOK, LastGoods!InOrder,
     LastGoods!CheckedJob, LastGoods!Amount, LastGoods!Places, LastGoods!LegsMatch,
     LastGoods!Nothing, LastGoods!Kinds, LastGoods!CreateLoan, LastGoods!PayLoan,
     LastGoods!RemoveRepayment, LastGoods!ConvertToLoanPayment, LastGoods!Income,
     LastGoods!AdjustCash, LastGoods!Transfer, LastGoods!UpdateEntry, LastGoods!RemoveEntry,
     LastGoods!Written, LastGoods!End, LastGoods!data, LastGoods!CanLock, LastGoods!EntryType,
     LastGoods!LoanType, LastGoods!RepaymentType, LastGoods!EntriesHaveMoney,
     LastGoods!MovedOnce, LastGoods!InStep, LastGoods!LoansFit, LastGoods!CashSuffices,
     LastGoods!EntryAfter, LastGoods!LoanAfter, LastGoods!RepaidAfter, LastGoods!ConversionFits,
     LastGoods!Check, LastGoods!One, LastGoods!LoanEntry, LastGoods!MayRepay,
     LastGoods!LoanEntries, LastGoods!LoanBalance, LastGoods!NewEntry, LastGoods!Unused,
     LastGoods!EnsureCash, LastGoods!EntryGroup, LastGoods!Posted, LastGoods!Editable,
     LastGoods!Signed, LastGoods!Released, LastGoods!SumOf, LastGoods!PrincipalsOf,
     LastGoods!CashOf, LastGoods!Repayments, LastGoods!Principals, LastGoods!CashInHand,
     LastGoods!CoinsOf, LastGoods!Inflow, LastGoods!Outflow, LastGoods!CashEntries,
     LastGoods!EntryAmounts, LastGoods!Coins, LastGoods!Cardinality, LastGoods!IsFiniteSet

LEMMA SpendingKeeps ==
  ASSUME part = "spending"
  PROVE  /\ GoodsInit => Spending!IInv
         /\ Spending!IInv /\ [GoodsNext]_vars => Spending!IInv'
<1>1. LastGoods!CashBookAssumption
  BY SpendingSame, CashAssumption
<1>2. GoodsInit => Spending!IInv
  BY <1>1, SpendingSame, PartsAssumption, LastGoods!InitInvariant DEF GoodsInit
<1>3. QED
  BY <1>1, <1>2, GoodsSteps, SpendingSame, PartsAssumption, LastGoods!NextInvariant

CashKept ==
  /\ part = "loans" => Lending!IInv
  /\ part = "entries" => Entries!IInv
  /\ part = "spending" => Spending!IInv

LEMMA CashKeptAlways ==
  /\ GoodsInit => CashKept
  /\ CashKept /\ [GoodsNext]_vars => CashKept'
BY GoodsSteps, LendingKeeps, EntriesKeeps, SpendingKeeps DEF CashKept

\* The suite's CashAddsUp: the book stays in order, transfers whole, loans within what was
\* lent, cash not below zero without expenses, and a conversion moves no cash.
THEOREM CashStaysInOrder == GoodsSpec => CashAddsUp
<1> DEFINE Booked == part = "loans" => FirstGoods!CashIsBooked
           Converts == part = "loans" => Lending!ConversionKeepsCashStep
<1>1. GoodsInit => CashKept
  BY CashKeptAlways
<1>2. CashKept /\ [GoodsNext]_vars => CashKept'
  BY CashKeptAlways
<1>3. FirstGoods!CashBookAssumption /\ NextGoods!CashBookAssumption /\ LastGoods!CashBookAssumption
  BY LendingSame, EntriesSame, SpendingSame, CashAssumption
<1>4. CashKept => Booked
  BY <1>3, LendingSame, PartsAssumption, FirstGoods!BookGives DEF CashKept
<1>5. CashKept => (part = "loans" =>
         Lending!LoanNotOverpaid /\ Lending!RepaymentsPosted /\ Lending!OneCashEntryPerRequest)
  BY <1>3, LendingSame, PartsAssumption, FirstGoods!BookGives DEF CashKept
<1>6. CashKept => (part = "entries" => Entries!TransfersBalance /\ Entries!CashNeverNegative)
  <2>1. "expense" \notin EntryOps
    BY DEF EntryOps
  <2>2. QED
    BY <1>3, <2>1, EntriesSame, PartsAssumption, NextGoods!BookGives DEF CashKept
<1>7. CashKept => (part = "spending" => Spending!TransfersBalance)
  BY <1>3, SpendingSame, PartsAssumption, LastGoods!BookGives DEF CashKept
<1>8. CashKept /\ Booked /\ Booked' /\ [GoodsNext]_vars => Converts
  <2>1. SUFFICES ASSUME CashKept, Booked, Booked', [GoodsNext]_vars, part = "loans"
                 PROVE  Lending!ConversionKeepsCashStep
    OBVIOUS
  <2>2. part' = part /\ [Lending!Next]_(Lending!vars)
    BY <2>1, GoodsSteps
  <2>3. FirstGoods!CashIsBooked /\ FirstGoods!CashIsBooked'
    BY <2>1, <2>2
  <2>4. FirstGoods!IInv /\ [FirstGoods!Next]_(FirstGoods!vars)
    BY <2>1, <2>2, LendingSame DEF CashKept
  <2>5. FirstGoods!ConversionKeepsCashStep
    BY <1>3, <2>3, <2>4, PartsAssumption, FirstGoods!StepKeepsCash
  <2>6. QED
    BY <2>5, LendingSame
<1>9. CashKept => /\ part = "entries" => Entries!IInv
                  /\ part = "spending" => Spending!IInv
                  /\ part = "loans" => Lending!IInv
  BY DEF CashKept
<1> HIDE DEF Booked
<1>10. QED
  BY <1>1, <1>2, <1>4, <1>5, <1>6, <1>7, <1>8, <1>9, PTL DEF GoodsSpec, CashAddsUp

-----------------------------------------------------------------------------
(* Stock: the instance Stock of GoodsProofs.                               *)

LEMMA PlacesSame ==
  /\ Places!StockLedgerAssumption => FirstGoods!Stock!StockLedgerAssumption
  /\ Places!Init => FirstGoods!Stock!Init
  /\ [Places!Next]_(Places!vars) => [FirstGoods!Stock!Next]_(FirstGoods!Stock!vars)
  /\ (Places!IInv <=> FirstGoods!Stock!IInv) /\ (Places!IInv' <=> FirstGoods!Stock!IInv')
  /\ (Places!LinksHold <=> FirstGoods!Stock!LinksHold) /\ (Places!LinksHold' <=> FirstGoods!Stock!LinksHold')
BY Zenon DEF
     Places!Init, Places!Next, Places!vars, Places!IInv, Places!LinksHold,
     Places!StockLedgerAssumption, Places!Places, Places!NoPaper, Places!NoJob,
     Places!CommitMoves, Places!Rollback, Places!CommitRemoveItem, Places!CommitRemoveWarehouse,
     Places!CreateItem, Places!UpdateItem, Places!RemoveItem, Places!Quantities, Places!StockIn,
     Places!StockOut, Places!StockTransfer, Places!Post, Places!Reverse, Places!RemoveWarehouse,
     Places!CreateWarehouse, Places!RowsOK, Places!MovementsExplainStock,
     Places!NothingBelowZero, Places!UseIsRecorded, Places!UsedGodownsExist, Places!MovesJob,
     Places!RemovalJob, Places!ItemsAlone, Places!LinkedItemsRetained, Places!LinkJob,
     Places!Nothing, Places!Exists, Places!End, Places!Balance, Places!Change, Places!CanWrite,
     Places!Adjust, Places!One, Places!Enough, Places!Check, Places!TypeOK, Places!PaperType,
     Places!Held, Places!IsMoves, Places!PaperFits, Places!Released, Places!SumOf,
     Places!CanLock, Places!CoinsOf, Places!Coins, Places!Cardinality, Places!IsFiniteSet,
     FirstGoods!Stock!Init, FirstGoods!Stock!Next, FirstGoods!Stock!vars, FirstGoods!Stock!IInv,
     FirstGoods!Stock!LinksHold, FirstGoods!Stock!StockLedgerAssumption, FirstGoods!Stock!Places,
     FirstGoods!Stock!NoPaper, FirstGoods!Stock!NoJob, FirstGoods!Stock!CommitMoves,
     FirstGoods!Stock!Rollback, FirstGoods!Stock!CommitRemoveItem,
     FirstGoods!Stock!CommitRemoveWarehouse, FirstGoods!Stock!CreateItem,
     FirstGoods!Stock!UpdateItem, FirstGoods!Stock!RemoveItem, FirstGoods!Stock!Quantities,
     FirstGoods!Stock!StockIn, FirstGoods!Stock!StockOut, FirstGoods!Stock!StockTransfer,
     FirstGoods!Stock!Post, FirstGoods!Stock!Reverse, FirstGoods!Stock!RemoveWarehouse,
     FirstGoods!Stock!CreateWarehouse, FirstGoods!Stock!RowsOK,
     FirstGoods!Stock!MovementsExplainStock, FirstGoods!Stock!NothingBelowZero,
     FirstGoods!Stock!UseIsRecorded, FirstGoods!Stock!UsedGodownsExist,
     FirstGoods!Stock!MovesJob, FirstGoods!Stock!RemovalJob, FirstGoods!Stock!ItemsAlone,
     FirstGoods!Stock!LinkedItemsRetained, FirstGoods!Stock!LinkJob, FirstGoods!Stock!Nothing,
     FirstGoods!Stock!Exists, FirstGoods!Stock!End, FirstGoods!Stock!Balance,
     FirstGoods!Stock!Change, FirstGoods!Stock!CanWrite, FirstGoods!Stock!Adjust,
     FirstGoods!Stock!One, FirstGoods!Stock!Enough, FirstGoods!Stock!Check,
     FirstGoods!Stock!TypeOK, FirstGoods!Stock!PaperType, FirstGoods!Stock!Held,
     FirstGoods!Stock!IsMoves, FirstGoods!Stock!PaperFits, FirstGoods!Stock!Released,
     FirstGoods!Stock!SumOf, FirstGoods!Stock!CanLock, FirstGoods!Stock!CoinsOf,
     FirstGoods!Stock!Coins, FirstGoods!Stock!Cardinality, FirstGoods!Stock!IsFiniteSet

LEMMA PlacesKeeps ==
  ASSUME part = "places"
  PROVE  /\ GoodsInit => Places!IInv /\ Places!LinksHold
         /\ Places!IInv /\ Places!LinksHold /\ [GoodsNext]_vars => Places!IInv' /\ Places!LinksHold'
<1>1. FirstGoods!Stock!StockLedgerAssumption
  BY PlacesSame, StockAssumption
<1>2. GoodsInit => Places!IInv /\ Places!LinksHold
  BY <1>1, PlacesSame, PartsAssumption, FirstGoods!StockInitInvariant, FirstGoods!LinksInit DEF
     GoodsInit
<1>3. QED
  BY <1>1, <1>2, GoodsSteps, PlacesSame, PartsAssumption, FirstGoods!StockNextInvariant,
     FirstGoods!LinksNext

LEMMA WarehousesSame ==
  /\ Warehouses!StockLedgerAssumption => NextGoods!Stock!StockLedgerAssumption
  /\ Warehouses!Init => NextGoods!Stock!Init
  /\ [Warehouses!Next]_(Warehouses!vars) => [NextGoods!Stock!Next]_(NextGoods!Stock!vars)
  /\ (Warehouses!IInv <=> NextGoods!Stock!IInv) /\ (Warehouses!IInv' <=> NextGoods!Stock!IInv')
  /\ (Warehouses!LinksHold <=> NextGoods!Stock!LinksHold) /\ (Warehouses!LinksHold' <=> NextGoods!Stock!LinksHold')
BY Zenon DEF
     Warehouses!Init, Warehouses!Next, Warehouses!vars, Warehouses!IInv, Warehouses!LinksHold,
     Warehouses!StockLedgerAssumption, Warehouses!Places, Warehouses!NoPaper, Warehouses!NoJob,
     Warehouses!CommitMoves, Warehouses!Rollback, Warehouses!CommitRemoveItem,
     Warehouses!CommitRemoveWarehouse, Warehouses!CreateItem, Warehouses!UpdateItem,
     Warehouses!RemoveItem, Warehouses!Quantities, Warehouses!StockIn, Warehouses!StockOut,
     Warehouses!StockTransfer, Warehouses!Post, Warehouses!Reverse, Warehouses!RemoveWarehouse,
     Warehouses!CreateWarehouse, Warehouses!RowsOK, Warehouses!MovementsExplainStock,
     Warehouses!NothingBelowZero, Warehouses!UseIsRecorded, Warehouses!UsedGodownsExist,
     Warehouses!MovesJob, Warehouses!RemovalJob, Warehouses!ItemsAlone,
     Warehouses!LinkedItemsRetained, Warehouses!LinkJob, Warehouses!Nothing, Warehouses!Exists,
     Warehouses!End, Warehouses!Balance, Warehouses!Change, Warehouses!CanWrite,
     Warehouses!Adjust, Warehouses!One, Warehouses!Enough, Warehouses!Check, Warehouses!TypeOK,
     Warehouses!PaperType, Warehouses!Held, Warehouses!IsMoves, Warehouses!PaperFits,
     Warehouses!Released, Warehouses!SumOf, Warehouses!CanLock, Warehouses!CoinsOf,
     Warehouses!Coins, Warehouses!Cardinality, Warehouses!IsFiniteSet, NextGoods!Stock!Init,
     NextGoods!Stock!Next, NextGoods!Stock!vars, NextGoods!Stock!IInv, NextGoods!Stock!LinksHold,
     NextGoods!Stock!StockLedgerAssumption, NextGoods!Stock!Places, NextGoods!Stock!NoPaper,
     NextGoods!Stock!NoJob, NextGoods!Stock!CommitMoves, NextGoods!Stock!Rollback,
     NextGoods!Stock!CommitRemoveItem, NextGoods!Stock!CommitRemoveWarehouse,
     NextGoods!Stock!CreateItem, NextGoods!Stock!UpdateItem, NextGoods!Stock!RemoveItem,
     NextGoods!Stock!Quantities, NextGoods!Stock!StockIn, NextGoods!Stock!StockOut,
     NextGoods!Stock!StockTransfer, NextGoods!Stock!Post, NextGoods!Stock!Reverse,
     NextGoods!Stock!RemoveWarehouse, NextGoods!Stock!CreateWarehouse, NextGoods!Stock!RowsOK,
     NextGoods!Stock!MovementsExplainStock, NextGoods!Stock!NothingBelowZero,
     NextGoods!Stock!UseIsRecorded, NextGoods!Stock!UsedGodownsExist, NextGoods!Stock!MovesJob,
     NextGoods!Stock!RemovalJob, NextGoods!Stock!ItemsAlone, NextGoods!Stock!LinkedItemsRetained,
     NextGoods!Stock!LinkJob, NextGoods!Stock!Nothing, NextGoods!Stock!Exists,
     NextGoods!Stock!End, NextGoods!Stock!Balance, NextGoods!Stock!Change,
     NextGoods!Stock!CanWrite, NextGoods!Stock!Adjust, NextGoods!Stock!One,
     NextGoods!Stock!Enough, NextGoods!Stock!Check, NextGoods!Stock!TypeOK,
     NextGoods!Stock!PaperType, NextGoods!Stock!Held, NextGoods!Stock!IsMoves,
     NextGoods!Stock!PaperFits, NextGoods!Stock!Released, NextGoods!Stock!SumOf,
     NextGoods!Stock!CanLock, NextGoods!Stock!CoinsOf, NextGoods!Stock!Coins,
     NextGoods!Stock!Cardinality, NextGoods!Stock!IsFiniteSet

LEMMA WarehousesKeeps ==
  ASSUME part = "godowns"
  PROVE  /\ GoodsInit => Warehouses!IInv /\ Warehouses!LinksHold
         /\ Warehouses!IInv /\ Warehouses!LinksHold /\ [GoodsNext]_vars => Warehouses!IInv' /\ Warehouses!LinksHold'
<1>1. NextGoods!Stock!StockLedgerAssumption
  BY WarehousesSame, StockAssumption
<1>2. GoodsInit => Warehouses!IInv /\ Warehouses!LinksHold
  BY <1>1, WarehousesSame, PartsAssumption, NextGoods!StockInitInvariant, NextGoods!LinksInit
     DEF GoodsInit
<1>3. QED
  BY <1>1, <1>2, GoodsSteps, WarehousesSame, PartsAssumption, NextGoods!StockNextInvariant,
     NextGoods!LinksNext

LEMMA ShelfSame ==
  /\ Shelf!StockLedgerAssumption => ShelfGoods!Stock!StockLedgerAssumption
  /\ Shelf!Init => ShelfGoods!Stock!Init
  /\ [Shelf!Next]_(Shelf!vars) => [ShelfGoods!Stock!Next]_(ShelfGoods!Stock!vars)
  /\ (Shelf!IInv <=> ShelfGoods!Stock!IInv) /\ (Shelf!IInv' <=> ShelfGoods!Stock!IInv')
  /\ (Shelf!LinksHold <=> ShelfGoods!Stock!LinksHold) /\ (Shelf!LinksHold' <=> ShelfGoods!Stock!LinksHold')
BY Zenon DEF
     Shelf!Init, Shelf!Next, Shelf!vars, Shelf!IInv, Shelf!LinksHold,
     Shelf!StockLedgerAssumption, Shelf!Places, Shelf!NoPaper, Shelf!NoJob, Shelf!CommitMoves,
     Shelf!Rollback, Shelf!CommitRemoveItem, Shelf!CommitRemoveWarehouse, Shelf!CreateItem,
     Shelf!UpdateItem, Shelf!RemoveItem, Shelf!Quantities, Shelf!StockIn, Shelf!StockOut,
     Shelf!StockTransfer, Shelf!Post, Shelf!Reverse, Shelf!RemoveWarehouse,
     Shelf!CreateWarehouse, Shelf!RowsOK, Shelf!MovementsExplainStock, Shelf!NothingBelowZero,
     Shelf!UseIsRecorded, Shelf!UsedGodownsExist, Shelf!MovesJob, Shelf!RemovalJob,
     Shelf!ItemsAlone, Shelf!LinkedItemsRetained, Shelf!LinkJob, Shelf!Nothing, Shelf!Exists,
     Shelf!End, Shelf!Balance, Shelf!Change, Shelf!CanWrite, Shelf!Adjust, Shelf!One,
     Shelf!Enough, Shelf!Check, Shelf!TypeOK, Shelf!PaperType, Shelf!Held, Shelf!IsMoves,
     Shelf!PaperFits, Shelf!Released, Shelf!SumOf, Shelf!CanLock, Shelf!CoinsOf, Shelf!Coins,
     Shelf!Cardinality, Shelf!IsFiniteSet, ShelfGoods!Stock!Init, ShelfGoods!Stock!Next,
     ShelfGoods!Stock!vars, ShelfGoods!Stock!IInv, ShelfGoods!Stock!LinksHold,
     ShelfGoods!Stock!StockLedgerAssumption, ShelfGoods!Stock!Places, ShelfGoods!Stock!NoPaper,
     ShelfGoods!Stock!NoJob, ShelfGoods!Stock!CommitMoves, ShelfGoods!Stock!Rollback,
     ShelfGoods!Stock!CommitRemoveItem, ShelfGoods!Stock!CommitRemoveWarehouse,
     ShelfGoods!Stock!CreateItem, ShelfGoods!Stock!UpdateItem, ShelfGoods!Stock!RemoveItem,
     ShelfGoods!Stock!Quantities, ShelfGoods!Stock!StockIn, ShelfGoods!Stock!StockOut,
     ShelfGoods!Stock!StockTransfer, ShelfGoods!Stock!Post, ShelfGoods!Stock!Reverse,
     ShelfGoods!Stock!RemoveWarehouse, ShelfGoods!Stock!CreateWarehouse, ShelfGoods!Stock!RowsOK,
     ShelfGoods!Stock!MovementsExplainStock, ShelfGoods!Stock!NothingBelowZero,
     ShelfGoods!Stock!UseIsRecorded, ShelfGoods!Stock!UsedGodownsExist,
     ShelfGoods!Stock!MovesJob, ShelfGoods!Stock!RemovalJob, ShelfGoods!Stock!ItemsAlone,
     ShelfGoods!Stock!LinkedItemsRetained, ShelfGoods!Stock!LinkJob, ShelfGoods!Stock!Nothing,
     ShelfGoods!Stock!Exists, ShelfGoods!Stock!End, ShelfGoods!Stock!Balance,
     ShelfGoods!Stock!Change, ShelfGoods!Stock!CanWrite, ShelfGoods!Stock!Adjust,
     ShelfGoods!Stock!One, ShelfGoods!Stock!Enough, ShelfGoods!Stock!Check,
     ShelfGoods!Stock!TypeOK, ShelfGoods!Stock!PaperType, ShelfGoods!Stock!Held,
     ShelfGoods!Stock!IsMoves, ShelfGoods!Stock!PaperFits, ShelfGoods!Stock!Released,
     ShelfGoods!Stock!SumOf, ShelfGoods!Stock!CanLock, ShelfGoods!Stock!CoinsOf,
     ShelfGoods!Stock!Coins, ShelfGoods!Stock!Cardinality, ShelfGoods!Stock!IsFiniteSet

LEMMA ShelfKeeps ==
  ASSUME part = "shelf"
  PROVE  /\ GoodsInit => Shelf!IInv /\ Shelf!LinksHold
         /\ Shelf!IInv /\ Shelf!LinksHold /\ [GoodsNext]_vars => Shelf!IInv' /\ Shelf!LinksHold'
<1>1. ShelfGoods!Stock!StockLedgerAssumption
  BY ShelfSame, StockAssumption
<1>2. GoodsInit => Shelf!IInv /\ Shelf!LinksHold
  BY <1>1, ShelfSame, PartsAssumption, ShelfGoods!StockInitInvariant, ShelfGoods!LinksInit DEF
     GoodsInit
<1>3. QED
  BY <1>1, <1>2, GoodsSteps, ShelfSame, PartsAssumption, ShelfGoods!StockNextInvariant,
     ShelfGoods!LinksNext

StockKept ==
  /\ part = "places" => Places!IInv /\ Places!LinksHold
  /\ part = "godowns" => Warehouses!IInv /\ Warehouses!LinksHold
  /\ part = "shelf" => Shelf!IInv /\ Shelf!LinksHold

LEMMA StockKeptAlways ==
  /\ GoodsInit => StockKept
  /\ StockKept /\ [GoodsNext]_vars => StockKept'
BY GoodsSteps, PlacesKeeps, WarehousesKeeps, ShelfKeeps DEF StockKept

\* The suite's StockIsExplained: movements explain the stock, it is not oversold, and what
\* papers name is retained.
THEOREM StockStaysExplained == GoodsSpec => []StockIsExplained
<1>1. GoodsInit => StockKept
  BY StockKeptAlways
<1>2. StockKept /\ [GoodsNext]_vars => StockKept'
  BY StockKeptAlways
<1>3. Warehouses!IInv => Warehouses!GodownsRetained
  BY DEF Warehouses!IInv, Warehouses!UseIsRecorded, Warehouses!UsedGodownsExist,
         Warehouses!GodownsRetained
<1>4. Shelf!LinksHold => Shelf!LinkedItemsRetained
  BY DEF Shelf!LinksHold, Shelf!ItemsAlone
<1>5. StockKept => StockIsExplained
  BY <1>3, <1>4 DEF StockKept, StockIsExplained
<1>6. QED
  BY <1>1, <1>2, <1>5, PTL DEF GoodsSpec

-----------------------------------------------------------------------------
(* Bank accounts and categories: the instance Bank of GoodsProofs.         *)

LEMMA BankingSame ==
  /\ Banking!AccountingAssumption => FirstGoods!Bank!AccountingAssumption
  /\ Banking!Init => FirstGoods!Bank!Init
  /\ [Banking!Next]_(Banking!vars) => [FirstGoods!Bank!Next]_(FirstGoods!Bank!vars)
  /\ (Banking!IInv <=> FirstGoods!Bank!IInv) /\ (Banking!IInv' <=> FirstGoods!Bank!IInv')
BY Zenon DEF
     Banking!Init, Banking!Next, Banking!vars, Banking!IInv, Banking!AccountingAssumption,
     Banking!Rows, Banking!NoJob, Banking!AccountStep, Banking!CategoryStep, Banking!Commit,
     Banking!Rollback, Banking!Unbook, Banking!CancelExpense, Banking!CreateCategory,
     Banking!RowsOK, Banking!RemovedAccountsAreEmpty, Banking!OnePrimary,
     Banking!ExpensesAreFiled, Banking!AccountJob, Banking!BookingJob, Banking!FilingJob,
     Banking!Nothing, Banking!SaveAccount, Banking!RemoveAccount, Banking!BookPayment,
     Banking!BookEntry, Banking!CreateExpense, Banking!RenameCategory, Banking!DeleteCategory,
     Banking!Written, Banking!End, Banking!data, Banking!TypeOK, Banking!PaymentRow,
     Banking!ExpenseRow, Banking!Linked, Banking!PrimaryIsOne, Banking!LiveAccounts,
     Banking!Usable, Banking!Check, Banking!Live, Banking!Heirs, Banking!One, Banking!Refiled,
     Banking!Filed, Banking!Released, Banking!CanLock, FirstGoods!Bank!Init,
     FirstGoods!Bank!Next, FirstGoods!Bank!vars, FirstGoods!Bank!IInv,
     FirstGoods!Bank!AccountingAssumption, FirstGoods!Bank!Rows, FirstGoods!Bank!NoJob,
     FirstGoods!Bank!AccountStep, FirstGoods!Bank!CategoryStep, FirstGoods!Bank!Commit,
     FirstGoods!Bank!Rollback, FirstGoods!Bank!Unbook, FirstGoods!Bank!CancelExpense,
     FirstGoods!Bank!CreateCategory, FirstGoods!Bank!RowsOK,
     FirstGoods!Bank!RemovedAccountsAreEmpty, FirstGoods!Bank!OnePrimary,
     FirstGoods!Bank!ExpensesAreFiled, FirstGoods!Bank!AccountJob, FirstGoods!Bank!BookingJob,
     FirstGoods!Bank!FilingJob, FirstGoods!Bank!Nothing, FirstGoods!Bank!SaveAccount,
     FirstGoods!Bank!RemoveAccount, FirstGoods!Bank!BookPayment, FirstGoods!Bank!BookEntry,
     FirstGoods!Bank!CreateExpense, FirstGoods!Bank!RenameCategory,
     FirstGoods!Bank!DeleteCategory, FirstGoods!Bank!Written, FirstGoods!Bank!End,
     FirstGoods!Bank!data, FirstGoods!Bank!TypeOK, FirstGoods!Bank!PaymentRow,
     FirstGoods!Bank!ExpenseRow, FirstGoods!Bank!Linked, FirstGoods!Bank!PrimaryIsOne,
     FirstGoods!Bank!LiveAccounts, FirstGoods!Bank!Usable, FirstGoods!Bank!Check,
     FirstGoods!Bank!Live, FirstGoods!Bank!Heirs, FirstGoods!Bank!One, FirstGoods!Bank!Refiled,
     FirstGoods!Bank!Filed, FirstGoods!Bank!Released, FirstGoods!Bank!CanLock

LEMMA BankingKeeps ==
  ASSUME part = "banking"
  PROVE  /\ GoodsInit => Banking!IInv
         /\ Banking!IInv /\ [GoodsNext]_vars => Banking!IInv'
<1>1. FirstGoods!Bank!AccountingAssumption
  BY BankingSame, AccountsAssumption
<1>2. GoodsInit => Banking!IInv
  BY <1>1, BankingSame, PartsAssumption, FirstGoods!AccountInit DEF GoodsInit
<1>3. QED
  BY <1>1, <1>2, GoodsSteps, BankingSame, PartsAssumption, FirstGoods!AccountNext

LEMMA FilingSame ==
  /\ Filing!AccountingAssumption => NextGoods!Bank!AccountingAssumption
  /\ Filing!Init => NextGoods!Bank!Init
  /\ [Filing!Next]_(Filing!vars) => [NextGoods!Bank!Next]_(NextGoods!Bank!vars)
  /\ (Filing!IInv <=> NextGoods!Bank!IInv) /\ (Filing!IInv' <=> NextGoods!Bank!IInv')
BY Zenon DEF
     Filing!Init, Filing!Next, Filing!vars, Filing!IInv, Filing!AccountingAssumption,
     Filing!Rows, Filing!NoJob, Filing!AccountStep, Filing!CategoryStep, Filing!Commit,
     Filing!Rollback, Filing!Unbook, Filing!CancelExpense, Filing!CreateCategory, Filing!RowsOK,
     Filing!RemovedAccountsAreEmpty, Filing!OnePrimary, Filing!ExpensesAreFiled,
     Filing!AccountJob, Filing!BookingJob, Filing!FilingJob, Filing!Nothing, Filing!SaveAccount,
     Filing!RemoveAccount, Filing!BookPayment, Filing!BookEntry, Filing!CreateExpense,
     Filing!RenameCategory, Filing!DeleteCategory, Filing!Written, Filing!End, Filing!data,
     Filing!TypeOK, Filing!PaymentRow, Filing!ExpenseRow, Filing!Linked, Filing!PrimaryIsOne,
     Filing!LiveAccounts, Filing!Usable, Filing!Check, Filing!Live, Filing!Heirs, Filing!One,
     Filing!Refiled, Filing!Filed, Filing!Released, Filing!CanLock, NextGoods!Bank!Init,
     NextGoods!Bank!Next, NextGoods!Bank!vars, NextGoods!Bank!IInv,
     NextGoods!Bank!AccountingAssumption, NextGoods!Bank!Rows, NextGoods!Bank!NoJob,
     NextGoods!Bank!AccountStep, NextGoods!Bank!CategoryStep, NextGoods!Bank!Commit,
     NextGoods!Bank!Rollback, NextGoods!Bank!Unbook, NextGoods!Bank!CancelExpense,
     NextGoods!Bank!CreateCategory, NextGoods!Bank!RowsOK,
     NextGoods!Bank!RemovedAccountsAreEmpty, NextGoods!Bank!OnePrimary,
     NextGoods!Bank!ExpensesAreFiled, NextGoods!Bank!AccountJob, NextGoods!Bank!BookingJob,
     NextGoods!Bank!FilingJob, NextGoods!Bank!Nothing, NextGoods!Bank!SaveAccount,
     NextGoods!Bank!RemoveAccount, NextGoods!Bank!BookPayment, NextGoods!Bank!BookEntry,
     NextGoods!Bank!CreateExpense, NextGoods!Bank!RenameCategory, NextGoods!Bank!DeleteCategory,
     NextGoods!Bank!Written, NextGoods!Bank!End, NextGoods!Bank!data, NextGoods!Bank!TypeOK,
     NextGoods!Bank!PaymentRow, NextGoods!Bank!ExpenseRow, NextGoods!Bank!Linked,
     NextGoods!Bank!PrimaryIsOne, NextGoods!Bank!LiveAccounts, NextGoods!Bank!Usable,
     NextGoods!Bank!Check, NextGoods!Bank!Live, NextGoods!Bank!Heirs, NextGoods!Bank!One,
     NextGoods!Bank!Refiled, NextGoods!Bank!Filed, NextGoods!Bank!Released,
     NextGoods!Bank!CanLock

LEMMA FilingKeeps ==
  ASSUME part = "filing"
  PROVE  /\ GoodsInit => Filing!IInv
         /\ Filing!IInv /\ [GoodsNext]_vars => Filing!IInv'
<1>1. NextGoods!Bank!AccountingAssumption
  BY FilingSame, AccountsAssumption
<1>2. GoodsInit => Filing!IInv
  BY <1>1, FilingSame, PartsAssumption, NextGoods!AccountInit DEF GoodsInit
<1>3. QED
  BY <1>1, <1>2, GoodsSteps, FilingSame, PartsAssumption, NextGoods!AccountNext

AccountsKept ==
  /\ part = "banking" => Banking!IInv
  /\ part = "filing" => Filing!IInv

LEMMA AccountsKeptAlways ==
  /\ GoodsInit => AccountsKept
  /\ AccountsKept /\ [GoodsNext]_vars => AccountsKept'
BY GoodsSteps, BankingKeeps, FilingKeeps DEF AccountsKept

\* The suite's AccountsAreKept: one primary account, nothing booked on a removed one, and
\* every expense filed under a category of the list.
THEOREM AccountsStayKept == GoodsSpec => []AccountsAreKept
<1>1. GoodsInit => AccountsKept
  BY AccountsKeptAlways
<1>2. AccountsKept /\ [GoodsNext]_vars => AccountsKept'
  BY AccountsKeptAlways
<1>3. AccountsKept => AccountsAreKept
  BY DEF AccountsKept, AccountsAreKept
<1>4. QED
  BY <1>1, <1>2, <1>3, PTL DEF GoodsSpec

-----------------------------------------------------------------------------
(* Documents: the instance Flow of ServicesProofs.                         *)

LEMMA ChainSame ==
  /\ Chain!DocumentFlowAssumption => FirstServices!Flow!DocumentFlowAssumption
  /\ Chain!Init => FirstServices!Flow!Init
  /\ [Chain!Next]_(Chain!vars) => [FirstServices!Flow!Next]_(FirstServices!Flow!vars)
  /\ (Chain!IInv <=> FirstServices!Flow!IInv) /\ (Chain!IInv' <=> FirstServices!Flow!IInv')
  /\ FirstServices!Flow!ConversionsAreExact => Chain!ConversionsAreExact
BY Zenon DEF
     Chain!Init, Chain!Next, Chain!vars, Chain!IInv, Chain!DocumentFlowAssumption,
     Chain!ConversionsAreExact, Chain!NoDoc, Chain!NoInvoice, Chain!Rows, Chain!NoJob,
     Chain!Commit, Chain!Rollback, Chain!Kinds, Chain!Create, Chain!Update, Chain!Asked,
     Chain!UpdateStatus, Chain!ConvertToInvoice, Chain!Convert, Chain!ReverseInvoice,
     Chain!ReverseDocument, Chain!Remove, Chain!CloseInvoice, Chain!RowsOK, Chain!DocOK,
     Chain!MadeOnce, Chain!RemovesAlone, Chain!GoodsLeaveOnce, Chain!DeletedWereNotInForce,
     Chain!LinksLast, Chain!LaterConversionsFirst, Chain!CheckedJob, Chain!OnePaperPerSource,
     Chain!Nothing, Chain!End, Chain!CanWrite, Chain!Written, Chain!NewDoc, Chain!Fresh,
     Chain!Live, Chain!Check, Chain!One, Chain!Moved, Chain!MovesStock, Chain!MadeFrom,
     Chain!PreSale, Chain!Closed, Chain!Conversions, Chain!Two, Chain!Reopened,
     Chain!ReversedUnits, Chain!TypeOK, Chain!OutByPapers, Chain!CreateJob, Chain!EditJob,
     Chain!InvoiceJob, Chain!ConvertJob, Chain!ReverseInvoiceJob, Chain!ReverseDocumentJob,
     Chain!RemoveJob, Chain!CloseJob, Chain!Papers, Chain!Released, Chain!Patched, Chain!CanLock,
     Chain!DocRow, Chain!InvoiceRow, Chain!SumOf, Chain!ShippedUnits, Chain!Planned,
     Chain!LiveInvoices, Chain!CoinsOf, Chain!Coins, Chain!Cardinality, Chain!IsFiniteSet,
     FirstServices!Flow!Init, FirstServices!Flow!Next, FirstServices!Flow!vars,
     FirstServices!Flow!IInv, FirstServices!Flow!DocumentFlowAssumption,
     FirstServices!Flow!ConversionsAreExact, FirstServices!Flow!NoDoc,
     FirstServices!Flow!NoInvoice, FirstServices!Flow!Rows, FirstServices!Flow!NoJob,
     FirstServices!Flow!Commit, FirstServices!Flow!Rollback, FirstServices!Flow!Kinds,
     FirstServices!Flow!Create, FirstServices!Flow!Update, FirstServices!Flow!Asked,
     FirstServices!Flow!UpdateStatus, FirstServices!Flow!ConvertToInvoice,
     FirstServices!Flow!Convert, FirstServices!Flow!ReverseInvoice,
     FirstServices!Flow!ReverseDocument, FirstServices!Flow!Remove,
     FirstServices!Flow!CloseInvoice, FirstServices!Flow!RowsOK, FirstServices!Flow!DocOK,
     FirstServices!Flow!MadeOnce, FirstServices!Flow!RemovesAlone,
     FirstServices!Flow!GoodsLeaveOnce, FirstServices!Flow!DeletedWereNotInForce,
     FirstServices!Flow!LinksLast, FirstServices!Flow!LaterConversionsFirst,
     FirstServices!Flow!CheckedJob, FirstServices!Flow!OnePaperPerSource,
     FirstServices!Flow!Nothing, FirstServices!Flow!End, FirstServices!Flow!CanWrite,
     FirstServices!Flow!Written, FirstServices!Flow!NewDoc, FirstServices!Flow!Fresh,
     FirstServices!Flow!Live, FirstServices!Flow!Check, FirstServices!Flow!One,
     FirstServices!Flow!Moved, FirstServices!Flow!MovesStock, FirstServices!Flow!MadeFrom,
     FirstServices!Flow!PreSale, FirstServices!Flow!Closed, FirstServices!Flow!Conversions,
     FirstServices!Flow!Two, FirstServices!Flow!Reopened, FirstServices!Flow!ReversedUnits,
     FirstServices!Flow!TypeOK, FirstServices!Flow!OutByPapers, FirstServices!Flow!CreateJob,
     FirstServices!Flow!EditJob, FirstServices!Flow!InvoiceJob, FirstServices!Flow!ConvertJob,
     FirstServices!Flow!ReverseInvoiceJob, FirstServices!Flow!ReverseDocumentJob,
     FirstServices!Flow!RemoveJob, FirstServices!Flow!CloseJob, FirstServices!Flow!Papers,
     FirstServices!Flow!Released, FirstServices!Flow!Patched, FirstServices!Flow!CanLock,
     FirstServices!Flow!DocRow, FirstServices!Flow!InvoiceRow, FirstServices!Flow!SumOf,
     FirstServices!Flow!ShippedUnits, FirstServices!Flow!Planned,
     FirstServices!Flow!LiveInvoices, FirstServices!Flow!CoinsOf, FirstServices!Flow!Coins,
     FirstServices!Flow!Cardinality, FirstServices!Flow!IsFiniteSet

LEMMA ChainKeeps ==
  ASSUME part = "chain"
  PROVE  /\ PapersInit => Chain!IInv
         /\ Chain!IInv /\ [PapersNext]_vars => Chain!IInv'
<1>1. FirstServices!Flow!DocumentFlowAssumption
  BY ChainSame, DocumentsAssumption
<1>2. PapersInit => Chain!IInv
  BY <1>1, ChainSame, PartsAssumption, FirstServices!FlowInitInv DEF PapersInit
<1>3. QED
  BY <1>1, <1>2, PapersSteps, ChainSame, PartsAssumption, FirstServices!StepInv

FlowKept ==
  /\ part = "chain" => Chain!IInv

LEMMA FlowKeptAlways ==
  /\ PapersInit => FlowKept
  /\ FlowKept /\ [PapersNext]_vars => FlowKept'
BY PapersSteps, ChainKeeps DEF FlowKept

\* The suite's ConversionsAreExact: a source gives at most one paper that stands, whoever
\* converts at the same time.
THEOREM ConversionsExact == PapersSpec => []ConversionsAreExact
<1>1. PapersInit => FlowKept
  BY FlowKeptAlways
<1>2. FlowKept /\ [PapersNext]_vars => FlowKept'
  BY FlowKeptAlways
<1>3. FirstServices!Flow!IInv => FirstServices!Flow!ConversionsAreExact
  <2>1. FirstServices!Flow!DocumentFlowAssumption
    BY ChainSame, DocumentsAssumption
  <2>2. FirstServices!Flow!RemovesAlone
    BY DEF FirstServices!Flow!RemovesAlone
  <2>3. QED
    BY <2>1, <2>2, PartsAssumption, FirstServices!ExactConversions
<1>4. FlowKept => ConversionsAreExact
  BY <1>3, ChainSame DEF FlowKept, ConversionsAreExact
<1>5. QED
  BY <1>1, <1>2, <1>4, PTL DEF PapersSpec

-----------------------------------------------------------------------------
(* Deliveries: the instance Delivery of ServicesProofs.                    *)

LEMMA SettledSame ==
  /\ Settled!Init => FirstServices!Delivery!Init
  /\ [Settled!Next]_(Settled!vars) => [FirstServices!Delivery!Next]_(FirstServices!Delivery!vars)
  /\ (Settled!IInv <=> FirstServices!Delivery!IInv) /\ (Settled!IInv' <=> FirstServices!Delivery!IInv')
BY Zenon DEF
     Settled!Init, Settled!Next, Settled!vars, Settled!IInv, Settled!Unused, Settled!Idle,
     Settled!Create, Settled!Deliver, Settled!Cancel, Settled!Work, Settled!PrintFails,
     Settled!Rejected, Settled!WriteFails, Settled!GiveUp, Settled!Stop, Settled!RowsOK,
     Settled!AttemptsApart, Settled!MessagesAreOnRecord, Settled!AttemptJob,
     Settled!AutomaticJob, Settled!SentWasAccepted, Settled!AutomaticOnce, Settled!Start,
     Settled!Read, Settled!RecordFailure, Settled!Open, Settled!Finish, Settled!Upload,
     Settled!Send, Settled!MarkSent, Settled!Audit, Settled!MarkFailed, Settled!AuditFailure,
     Settled!End, Settled!Goto, Settled!TypeOK, Settled!AttemptRow, Settled!Message,
     Settled!JobRow, Settled!UnderWay, Settled!Unsent, Settled!NewAttempt, Settled!Mark,
     Settled!Steps, Settled!Statuses, FirstServices!Delivery!Init, FirstServices!Delivery!Next,
     FirstServices!Delivery!vars, FirstServices!Delivery!IInv, FirstServices!Delivery!Unused,
     FirstServices!Delivery!Idle, FirstServices!Delivery!Create, FirstServices!Delivery!Deliver,
     FirstServices!Delivery!Cancel, FirstServices!Delivery!Work,
     FirstServices!Delivery!PrintFails, FirstServices!Delivery!Rejected,
     FirstServices!Delivery!WriteFails, FirstServices!Delivery!GiveUp,
     FirstServices!Delivery!Stop, FirstServices!Delivery!RowsOK,
     FirstServices!Delivery!AttemptsApart, FirstServices!Delivery!MessagesAreOnRecord,
     FirstServices!Delivery!AttemptJob, FirstServices!Delivery!AutomaticJob,
     FirstServices!Delivery!SentWasAccepted, FirstServices!Delivery!AutomaticOnce,
     FirstServices!Delivery!Start, FirstServices!Delivery!Read,
     FirstServices!Delivery!RecordFailure, FirstServices!Delivery!Open,
     FirstServices!Delivery!Finish, FirstServices!Delivery!Upload, FirstServices!Delivery!Send,
     FirstServices!Delivery!MarkSent, FirstServices!Delivery!Audit,
     FirstServices!Delivery!MarkFailed, FirstServices!Delivery!AuditFailure,
     FirstServices!Delivery!End, FirstServices!Delivery!Goto, FirstServices!Delivery!TypeOK,
     FirstServices!Delivery!AttemptRow, FirstServices!Delivery!Message,
     FirstServices!Delivery!JobRow, FirstServices!Delivery!UnderWay,
     FirstServices!Delivery!Unsent, FirstServices!Delivery!NewAttempt,
     FirstServices!Delivery!Mark, FirstServices!Delivery!Steps, FirstServices!Delivery!Statuses

LEMMA SettledKeeps ==
  ASSUME part = "settled"
  PROVE  /\ ServicesInit => Settled!IInv
         /\ Settled!IInv /\ [ServicesNext]_vars => Settled!IInv'
<1>1. ServicesInit => Settled!IInv
  BY SettledSame, PartsAssumption, FirstServices!DeliveryInitInv DEF ServicesInit
<1>2. QED
  BY <1>1, ServicesSteps, SettledSame, PartsAssumption, FirstServices!DeliveryNextInv

LEMMA FailingSame ==
  /\ Failing!Init => NextServices!Delivery!Init
  /\ [Failing!Next]_(Failing!vars) => [NextServices!Delivery!Next]_(NextServices!Delivery!vars)
  /\ (Failing!IInv <=> NextServices!Delivery!IInv) /\ (Failing!IInv' <=> NextServices!Delivery!IInv')
BY Zenon DEF
     Failing!Init, Failing!Next, Failing!vars, Failing!IInv, Failing!Unused, Failing!Idle,
     Failing!Create, Failing!Deliver, Failing!Cancel, Failing!Work, Failing!PrintFails,
     Failing!Rejected, Failing!WriteFails, Failing!GiveUp, Failing!Stop, Failing!RowsOK,
     Failing!AttemptsApart, Failing!MessagesAreOnRecord, Failing!AttemptJob,
     Failing!AutomaticJob, Failing!SentWasAccepted, Failing!AutomaticOnce, Failing!Start,
     Failing!Read, Failing!RecordFailure, Failing!Open, Failing!Finish, Failing!Upload,
     Failing!Send, Failing!MarkSent, Failing!Audit, Failing!MarkFailed, Failing!AuditFailure,
     Failing!End, Failing!Goto, Failing!TypeOK, Failing!AttemptRow, Failing!Message,
     Failing!JobRow, Failing!UnderWay, Failing!Unsent, Failing!NewAttempt, Failing!Mark,
     Failing!Steps, Failing!Statuses, NextServices!Delivery!Init, NextServices!Delivery!Next,
     NextServices!Delivery!vars, NextServices!Delivery!IInv, NextServices!Delivery!Unused,
     NextServices!Delivery!Idle, NextServices!Delivery!Create, NextServices!Delivery!Deliver,
     NextServices!Delivery!Cancel, NextServices!Delivery!Work, NextServices!Delivery!PrintFails,
     NextServices!Delivery!Rejected, NextServices!Delivery!WriteFails,
     NextServices!Delivery!GiveUp, NextServices!Delivery!Stop, NextServices!Delivery!RowsOK,
     NextServices!Delivery!AttemptsApart, NextServices!Delivery!MessagesAreOnRecord,
     NextServices!Delivery!AttemptJob, NextServices!Delivery!AutomaticJob,
     NextServices!Delivery!SentWasAccepted, NextServices!Delivery!AutomaticOnce,
     NextServices!Delivery!Start, NextServices!Delivery!Read,
     NextServices!Delivery!RecordFailure, NextServices!Delivery!Open,
     NextServices!Delivery!Finish, NextServices!Delivery!Upload, NextServices!Delivery!Send,
     NextServices!Delivery!MarkSent, NextServices!Delivery!Audit,
     NextServices!Delivery!MarkFailed, NextServices!Delivery!AuditFailure,
     NextServices!Delivery!End, NextServices!Delivery!Goto, NextServices!Delivery!TypeOK,
     NextServices!Delivery!AttemptRow, NextServices!Delivery!Message,
     NextServices!Delivery!JobRow, NextServices!Delivery!UnderWay, NextServices!Delivery!Unsent,
     NextServices!Delivery!NewAttempt, NextServices!Delivery!Mark, NextServices!Delivery!Steps,
     NextServices!Delivery!Statuses

LEMMA FailingKeeps ==
  ASSUME part = "failing"
  PROVE  /\ ServicesInit => Failing!IInv
         /\ Failing!IInv /\ [ServicesNext]_vars => Failing!IInv'
<1>1. ServicesInit => Failing!IInv
  BY FailingSame, PartsAssumption, NextServices!DeliveryInitInv DEF ServicesInit
<1>2. QED
  BY <1>1, ServicesSteps, FailingSame, PartsAssumption, NextServices!DeliveryNextInv

MailKept ==
  /\ part = "settled" => Settled!IInv
  /\ part = "failing" => Failing!IInv

LEMMA MailKeptAlways ==
  /\ ServicesInit => MailKept
  /\ MailKept /\ [ServicesNext]_vars => MailKept'
BY ServicesSteps, SettledKeeps, FailingKeeps DEF MailKept

\* The suite's MessagesAreSentOnce: what is on record as SENT was accepted, and nothing is
\* sent twice automatically.
THEOREM MessagesSentOnce == ServicesSpec => []MessagesAreSentOnce
<1>1. ServicesInit => MailKept
  BY MailKeptAlways
<1>2. MailKept /\ [ServicesNext]_vars => MailKept'
  BY MailKeptAlways
<1>3. Settled!IInv => Settled!SentWasAccepted /\ Settled!AutomaticOnce
  BY DEF Settled!IInv
<1>4. MailKept => MessagesAreSentOnce
  BY <1>3 DEF MailKept, MessagesAreSentOnce
<1>5. QED
  BY <1>1, <1>2, <1>4, PTL DEF ServicesSpec

=============================================================================
