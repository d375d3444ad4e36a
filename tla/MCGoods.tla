------------------------------ MODULE MCGoods -------------------------------
(* Cash, accounts, stock and production: instances of components that share *)
(* no rows, as parts of one suite (Parts).                                  *)
EXTENDS Parts, Integers, TLC
CONSTANTS Branch

TwoKeys == {x1, x2}
LoanOps == {"income", "loan", "pay", "adjust", "convert", "unpay"}
EntryOps == {"adjust", "transfer", "update", "remove"}
SpendOps == {"adjust", "transfer", "expense"}
AccountOps == {"save", "remove", "pay", "entry"}
CategoryOps == {"save", "remove", "expense", "category"}
PlaceOps == {"create", "update", "operate", "post"}
GodownOps == {"create", "operate", "post", "removeGodown"}
ItemOps == {"create", "operate", "post", "removeItem"}
StageOps == {"confirm", "status", "stage"}
MasterOps == {"master", "confirm", "status", "remove"}
CostOps == {"cost", "pay", "remove"}

\* What updateStage() is asked for, with quantities up to one; the prices of a cost;
\* every status but going back to the draft, and the ones that stages lead to.
Pieces == 0 .. 1
StageForms ==
  [status : {"PENDING", "IN_PROGRESS", "COMPLETED"}, completed : Pieces, rejected : Pieces]
    \cup [planned : Pieces, issued : Pieces]
PriceForms == [priced : BOOLEAN]
Forward == {"CONFIRMED", "IN_PRODUCTION", "READY", "DISPATCHED", "COMPLETED", "CANCELLED"}
Closing == {"IN_PRODUCTION", "READY", "CANCELLED"}

\* Loans are taken and repaid; cash reductions turn into repayments.
Lending == INSTANCE CashBook WITH entry <- a, loan <- b, repaid <- c, drawer <- d,
  Keys <- TwoKeys, Loans <- {z1}, Banks <- {z2}, MaxAmount <- 2, Drawer <- 2, Ops <- LoanOps
\* Transfers and adjustments are made, edited and removed.
Entries == INSTANCE CashBook WITH entry <- a, loan <- b, repaid <- c, drawer <- d,
  Keys <- TwoKeys, Loans <- Nobody, Banks <- {z2}, MaxAmount <- 2, Drawer <- 1, Ops <- EntryOps
\* Expenses are paid from the cash that transfers move.
Spending == INSTANCE CashBook WITH entry <- a, loan <- b, repaid <- c, drawer <- d,
  Keys <- TwoKeys, Loans <- Nobody, Banks <- {z2}, MaxAmount <- 1, Drawer <- 1, Ops <- SpendOps
\* Bank accounts are saved, removed and used by payments and entries.
Banking == INSTANCE Accounting WITH account <- a, payment <- b, expense <- c, category <- d,
  Accounts <- {x1, x2, z1}, Payments <- {y1, y2}, Expenses <- Nobody, Names <- Nobody,
  Ops <- AccountOps
\* Expense categories are saved and removed while expenses name them.
Filing == INSTANCE Accounting WITH account <- a, payment <- b, expense <- c, category <- d,
  Accounts <- {z1}, Payments <- Nobody, Expenses <- {y1, y2}, Names <- {x1, x2, z2},
  Ops <- CategoryOps
\* An item moves between two godowns and in and out by papers.
Places == INSTANCE StockLedger WITH
  item <- a, stock <- b, place <- c, moved <- d, godown <- e, paper <- f,
  Items <- {z1}, Godowns <- {y1, y2}, Papers <- {x1}, MaxQty <- 2, Bound <- 3,
  AllowNegative <- FALSE, Ops <- PlaceOps
\* Godowns are removed while stock moves, which may go below zero.
Warehouses == INSTANCE StockLedger WITH
  item <- a, stock <- b, place <- c, moved <- d, godown <- e, paper <- f,
  Items <- {z1}, Godowns <- {y1, y2}, Papers <- {x1}, MaxQty <- 1, Bound <- 1,
  AllowNegative <- TRUE, Ops <- GodownOps
\* Items are removed while papers name them, one request at a time.
Shelf == INSTANCE StockLedger WITH Requests <- {q1},
  item <- a, stock <- b, place <- c, moved <- d, godown <- e, paper <- f,
  Items <- {x1, x2}, Godowns <- {z1}, Papers <- {y1, y2}, MaxQty <- 1, Bound <- 1,
  AllowNegative <- FALSE, Ops <- ItemOps
\* The stages of an order, one request at a time.
Stages == INSTANCE Production WITH order <- a, stage <- b, cost <- c, payments <- d,
  Operators <- {q1}, Last <- 3, MaxQty <- 1, Forms <- StageForms, Asked <- Closing,
  Costs <- Nobody, MaxAmount <- 0, Ops <- StageOps
\* An order is redrafted, confirmed and removed.
Masters == INSTANCE Production WITH order <- a, stage <- b, cost <- c, payments <- d,
  Operators <- {q1}, Last <- 3, MaxQty <- 4, Forms <- StageForms, Asked <- Forward,
  Costs <- Nobody, MaxAmount <- 0, Ops <- MasterOps
\* A cost is edited and paid by two requests.
Costing == INSTANCE Production WITH order <- a, stage <- b, cost <- c, payments <- d,
  Operators <- Requests, Last <- 3, MaxQty <- 1, Forms <- PriceForms, Asked <- Forward,
  Costs <- {z2}, MaxAmount <- 3, Ops <- CostOps
\* The figures of orders of up to two stages and a material, by the piece and by weight;
\* one piece of 4000 that is still to be made is less than rounding shows.
Figures == INSTANCE ProductionSummary WITH saleRate <- a, stages <- b, costs <- c,
  OrderedQty <- 4000, SaleRates <- {0, 199}, Pieces <- {0, 3999, 4001}, Weights <- {0, 1333},
  StageRates <- {33}, OtherCosts <- {5}, CostAmounts <- {101}, MaxStages <- 2, MaxCosts <- 1

ASSUME CashAssumption ==
  Lending!CashBookAssumption /\ Entries!CashBookAssumption /\ Spending!CashBookAssumption
ASSUME AccountsAssumption == Banking!AccountingAssumption /\ Filing!AccountingAssumption
ASSUME StockAssumption ==
  Places!StockLedgerAssumption /\ Warehouses!StockLedgerAssumption /\ Shelf!StockLedgerAssumption
ASSUME OrdersAssumption ==
  Stages!ProductionAssumption /\ Masters!ProductionAssumption /\ Costing!ProductionAssumption

FourTables == e = Off /\ f = Off
NoLocks == FourTables /\ lock = Off

GoodsInit ==
  \/ part = "loans" /\ Lending!Init /\ FourTables
  \/ part = "entries" /\ Entries!Init /\ FourTables
  \/ part = "spending" /\ Spending!Init /\ FourTables
  \/ part = "banking" /\ Banking!Init /\ FourTables
  \/ part = "filing" /\ Filing!Init /\ FourTables
  \/ part = "places" /\ Places!Init
  \/ part = "godowns" /\ Warehouses!Init
  \/ part = "shelf" /\ Shelf!Init
  \/ part = "stages" /\ Stages!Init /\ NoLocks
  \/ part = "masters" /\ Masters!Init /\ NoLocks
  \/ part = "costs" /\ Costing!Init /\ NoLocks
  \/ part = "figures" /\ Figures!Init /\ NoLocks /\ pc = Off /\ job = Off /\ d = Off

LoansStep == part = "loans" /\ Lending!Next /\ UNCHANGED <<part, e, f>>
EntriesStep == part = "entries" /\ Entries!Next /\ UNCHANGED <<part, e, f>>
SpendingStep == part = "spending" /\ Spending!Next /\ UNCHANGED <<part, e, f>>
BankingStep == part = "banking" /\ Banking!Next /\ UNCHANGED <<part, e, f>>
FilingStep == part = "filing" /\ Filing!Next /\ UNCHANGED <<part, e, f>>
PlacesStep == part = "places" /\ Places!Next /\ UNCHANGED part
GodownsStep == part = "godowns" /\ Warehouses!Next /\ UNCHANGED part
ShelfStep == part = "shelf" /\ Shelf!Next /\ UNCHANGED part
StagesStep == part = "stages" /\ Stages!Next /\ UNCHANGED <<part, lock, e, f>>
MastersStep == part = "masters" /\ Masters!Next /\ UNCHANGED <<part, lock, e, f>>
CostsStep == part = "costs" /\ Costing!Next /\ UNCHANGED <<part, lock, e, f>>
FiguresStep == part = "figures" /\ Figures!Next /\ UNCHANGED <<part, lock, pc, job, d, e, f>>

GoodsNext ==
  \/ LoansStep \/ EntriesStep \/ SpendingStep \/ BankingStep \/ FilingStep
  \/ PlacesStep \/ GodownsStep \/ ShelfStep \/ StagesStep \/ MastersStep \/ CostsStep
  \/ FiguresStep

GoodsSpec == GoodsInit /\ [][GoodsNext]_vars

-----------------------------------------------------------------------------
\* The legs of a transfer stay together, the book takes no more cash than there is as long
\* as no expense does, loans are not overpaid, every repayment is one entry of the book, one
\* request moves the cash once, also when it is turned into a repayment (CashBook); what
\* was checked leaves the book in order when it is written (CashBook).
CashAddsUp ==
  /\ [](part = "entries" => Entries!TransfersBalance /\ Entries!CashNeverNegative)
  /\ [](part = "spending" => Spending!TransfersBalance)
  /\ [](part = "loans" =>
         Lending!LoanNotOverpaid /\ Lending!RepaymentsPosted /\ Lending!OneCashEntryPerRequest)
  /\ [][part = "loans" => Lending!ConversionKeepsCashStep]_vars
  /\ [](part = "entries" => Entries!IInv)
  /\ [](part = "spending" => Spending!IInv)
  /\ [](part = "loans" => Lending!IInv)

\* One primary account, removed ones empty, and no expense without its category, also with
\* what was checked and is about to be written (IInv of Accounting, of which these are parts).
AccountsAreKept ==
  /\ part = "banking" => Banking!IInv
  /\ part = "filing" => Filing!IInv

\* Movements explain the stock, it is not below zero where that is forbidden, and godowns
\* and items that papers name are retained (StockLedger); what was planned still fits when
\* it commits (IInv of StockLedger, of which the first two are parts).
StockIsExplained ==
  /\ part = "places" => Places!IInv /\ Places!LinksHold
  /\ part = "godowns" => Warehouses!IInv /\ Warehouses!GodownsRetained
  /\ part = "shelf" => Shelf!IInv /\ Shelf!LinksHold /\ Shelf!LinkedItemsRetained

\* Pieces are accounted for from stage to stage, finished orders have passed the final
\* inspection, what was confirmed keeps its quantity while it is not set back to a draft,
\* and a cost's payments are not lost (Production); the figures printed side by side agree,
\* and progress is a share of the work, rounded to tenths of a percent (ProductionSummary).
ProductionAddsUp ==
  /\ [](part = "stages" => Stages!PiecesAccounted /\ Stages!FinalInspected)
  /\ [][part = "masters" => Masters!QuantityFixedStep]_vars
  /\ [](part = "costs" => Costing!PaidMatchesPayments)
  /\ [](part = "figures" => Figures!FiguresAgree /\ Figures!ProgressIsAShare)

GoodsSymmetry ==
  Permutations(Requests) \cup Permutations({x1, x2}) \cup Permutations({y1, y2})
=============================================================================
