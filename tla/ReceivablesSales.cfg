SPECIFICATION Spec
CONSTANTS
  Requests = {q1, q2}
  NoOne = NoOne
  Branch = Branch
  Invoices = {i1}
  Notes = {n1, n2}
  Payments = {p1, p2}
  Keys = {k1}
  MaxAmount = 2
  Receipts <- AllReceipts
  Edits <- Reprices
  Ops <- AllOps
  Opening <- Owing
CONSTRAINT SalesApart
SYMMETRY Symmetry
INVARIANTS IInv PaymentsAddUp InvoicesStayWhole MoneyWithinTotal StatementsAgree
PROPERTIES ImplementsBook DepositsAlternate
