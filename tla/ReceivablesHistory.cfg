SPECIFICATION Spec
CONSTANTS
  Requests = {q1, q2}
  NoOne = NoOne
  Branch = Branch
  Invoices = {i1}
  Notes = {}
  Payments = {p1}
  Keys = {}
  MaxAmount = 1
  Receipts <- ChequeReceipts
  Edits <- MethodEdits
  Ops <- HistoryOps
  Opening <- Owing
SYMMETRY Symmetry
PROPERTIES ChequeHistoryIsFrozen
