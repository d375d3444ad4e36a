------------------------------ MODULE MCPapers ------------------------------
(* Customers, their papers and purchase orders, and what is computed for    *)
(* them: instances of components that share no rows, as parts of one suite  *)
(* (Parts).                                                                 *)
EXTENDS Parts, Integers, TLC
CONSTANTS Word

requests == <<lock, pc, job>>
more == <<e, f>>

SomeQuantities == {<<5, 2>>, <<333, 1000>>}
SomePrices == {<<3333, 100>>, <<199, 2>>, <<49, 100>>}
SomeRates == {<<0, 1>>, <<18, 1>>, <<25, 10>>}
SomeDiscounts == {0, 51, 10000}

\* Amounts on both sides of every unit, rounding up included.
SomeCrores == {0, 1, 20, 115, 999, 1000, 99998, 123456}
SomeRests == {0, 1, 19, 20, 21, 99, 100, 999, 1000, 1019, 99999, 100000, 999999, 1000000, 1234567,
              9999999}
SomeTenths == {0, 4, 5, 994, 995}

\* Sales of two branches that move between two customers.
Movers == INSTANCE CreditLimit WITH limit <- a, invoice <- b,
  Branches <- {y1, y2}, Parties <- {z1, z2}, Invoices <- {x1, x2},
  Totals <- {1, 2}, Limits <- {0, 2}, Ops <- {"create", "update"}
\* Sales to one customer while a limit changes and settlements come and go.
Debtors == INSTANCE CreditLimit WITH limit <- a, invoice <- b,
  Branches <- {y1, y2}, Parties <- {z1}, Invoices <- {x1, x2}, Totals <- {1, 2},
  Limits <- {2, 3}, Ops <- {"create", "update", "settle", "unsettle", "cancel", "limit"}
\* A customer and a supplier that two requests edit, bill and remove.
People == INSTANCE Contacts WITH contact <- a, paper <- b, crossed <- c,
  Parties <- {z1}, Suppliers <- {z2}, Papers <- {x1, x2}, Gstins <- {"g1"}
\* Numbers the server gives, and codes that users type.
Series == INSTANCE Numbering WITH row <- a, offered <- b,
  Registers <- {"invoice", "document", "order", "receipt"}, Rows <- {x1, x2, x3},
  Years <- {z1, z2}, Typed <- {}, Redated <- {"receipt"}, Limit <- 5
PartyCodes == INSTANCE Numbering WITH row <- a, offered <- b,
  Registers <- {"code"}, Rows <- {x1, x2, x3},
  Years <- {z1}, Typed <- {"code"}, Redated <- {}, Limit <- 5
\* Two requests convert quotations, orders and challans up to an invoice.
Chain == INSTANCE DocumentFlow WITH doc <- a, invoice <- b, out <- c,
  Docs <- {x1, x2, x3}, Invoices <- {y1}, MaxQty <- 1, Linked <- FALSE,
  Ops <- {"create", "status", "convert", "invoice", "reverse"}
\* One request moves goods of a linked item through challans and invoices.
Goods == INSTANCE DocumentFlow WITH doc <- a, invoice <- b, out <- c, Requests <- {q1},
  Docs <- {x1, x2}, Invoices <- {y1, y2}, MaxQty <- 2, Linked <- TRUE,
  Ops <- {"create", "update", "status", "convert", "invoice", "reverse", "close", "remove"}
\* Purchase orders become bills, are edited and removed.
Buying == INSTANCE PurchaseOrders WITH order <- a, bill <- b, files <- c,
  Orders <- {x1, x2}, Bills <- {y1, y2}, Totals <- {1, 2}, MaxFiles <- 1,
  Ops <- {"create", "convert", "update", "remove"}
\* One order and its bill get files, and change status.
Attaching == INSTANCE PurchaseOrders WITH order <- a, bill <- b, files <- c, Requests <- {q1},
  Orders <- {x1, x2}, Bills <- {y1}, Totals <- {1}, MaxFiles <- 2,
  Ops <- {"create", "convert", "status", "remove", "files"}
\* Papers of up to two lines, their taxes and totals rounded or not.
Bills == INSTANCE BillingMath WITH lines <- a, discount <- b, preferences <- c, sales <- d,
  Quantities <- SomeQuantities, Prices <- SomePrices, Rates <- SomeRates,
  Discounts <- SomeDiscounts, MaxLines <- 2
\* Amounts printed in both groupings.
Words == INSTANCE AmountWords WITH amount <- a, format <- b,
  Crores <- SomeCrores, Rests <- SomeRests, Tenths <- SomeTenths

ASSUME CustomersAssumption == Movers!CreditAssumption /\ Debtors!CreditAssumption
ASSUME ContactsAssumption == People!ContactsAssumption
ASSUME RegistersAssumption == Series!NumberingAssumption /\ PartyCodes!NumberingAssumption
ASSUME DocumentsAssumption == Chain!DocumentFlowAssumption /\ Goods!DocumentFlowAssumption
ASSUME PurchasesAssumption == Buying!PurchaseOrdersAssumption /\ Attaching!PurchaseOrdersAssumption

NoRequests == lock = Off /\ pc = Off /\ job = Off
TwoTables == c = Off /\ d = Off

PapersInit ==
  /\ e = Off /\ f = Off
  /\ \/ part = "parties" /\ Movers!Init /\ TwoTables
     \/ part = "debts" /\ Debtors!Init /\ TwoTables
     \/ part = "contacts" /\ People!Init /\ lock = Off /\ d = Off
     \/ part = "series" /\ Series!Init /\ NoRequests /\ TwoTables
     \/ part = "codes" /\ PartyCodes!Init /\ NoRequests /\ TwoTables
     \/ part = "chain" /\ Chain!Init /\ d = Off
     \/ part = "goods" /\ Goods!Init /\ d = Off
     \/ part = "orders" /\ Buying!Init /\ d = Off
     \/ part = "files" /\ Attaching!Init /\ d = Off
     \/ part = "bills" /\ Bills!Init /\ NoRequests
     \/ part = "words" /\ Words!Init /\ NoRequests /\ TwoTables

PartiesStep == part = "parties" /\ Movers!Next /\ UNCHANGED <<part, c, d, more>>
DebtsStep == part = "debts" /\ Debtors!Next /\ UNCHANGED <<part, c, d, more>>
ContactsStep == part = "contacts" /\ People!Next /\ UNCHANGED <<part, lock, d, more>>
SeriesStep == part = "series" /\ Series!Next /\ UNCHANGED <<part, requests, c, d, more>>
CodesStep == part = "codes" /\ PartyCodes!Next /\ UNCHANGED <<part, requests, c, d, more>>
ChainStep == part = "chain" /\ Chain!Next /\ UNCHANGED <<part, d, more>>
GoodsStep == part = "goods" /\ Goods!Next /\ UNCHANGED <<part, d, more>>
OrdersStep == part = "orders" /\ Buying!Next /\ UNCHANGED <<part, d, more>>
FilesStep == part = "files" /\ Attaching!Next /\ UNCHANGED <<part, d, more>>
BillsStep == part = "bills" /\ Bills!Next /\ UNCHANGED <<part, requests, more>>
WordsStep == part = "words" /\ Words!Next /\ UNCHANGED <<part, requests, c, d, more>>

PapersNext ==
  \/ PartiesStep \/ DebtsStep \/ ContactsStep \/ SeriesStep \/ CodesStep
  \/ ChainStep \/ GoodsStep \/ OrdersStep \/ FilesStep
  \/ BillsStep \/ WordsStep

PapersSpec == PapersInit /\ [][PapersNext]_vars

-----------------------------------------------------------------------------
\* A sale leaves the customer within the limit, however many branches sell at once
\* (CreditLimit), and an edit leaves a GSTIN only where the type has one (Contacts).
CustomersWithinRules ==
  [][/\ part = "parties" => Movers!SalesWithinLimitStep
     /\ part = "debts" => Debtors!SalesWithinLimitStep
     /\ part = "contacts" => People!GstinFitsTypeStep]_vars

\* The papers about a removed contact come from requests that crossed its removal (Contacts).
OnlyCrossingPapersAreLeft == part = "contacts" => People!IInv

\* The number a form offers, or the server gives, is free in its register (Numbering).
NextNumberIsFree ==
  /\ part = "series" => Series!IInv /\ Series!NextNumberIsFree
  /\ part = "codes" => PartyCodes!IInv /\ PartyCodes!NextNumberIsFree

\* A source gives at most one paper that stands, whoever converts at the same time, and
\* papers are reversed from the last conversion backwards (DocumentFlow).
ConversionsAreExact == part = "chain" => Chain!IInv /\ Chain!ConversionsAreExact

\* Goods leave the shelf once on their way through challan and invoice, and only papers
\* that were not in force are deleted (DocumentFlow).
GoodsLeaveOnce == part = "goods" => Goods!IInv /\ Goods!GoodsLeaveOnce /\ Goods!DeletedWereNotInForce

\* An order whose bill stands is not removed; while nobody else changes it, it keeps its
\* received status, is not opened again once it is closed, and neither it nor its bill gets
\* more files than allowed (PurchaseOrders).
OrdersAreKept ==
  /\ [](part = "orders" => Buying!IInv)
  /\ [](part = "files" => Attaching!IInv /\ Attaching!AloneInv)
  /\ [][part = "files" => Attaching!ClosedStayClosedStep]_vars


PapersSymmetry ==
  Permutations(Requests) \cup Permutations({x1, x2, x3}) \cup Permutations({y1, y2})
=============================================================================
