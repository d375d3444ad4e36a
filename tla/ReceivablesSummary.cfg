SPECIFICATION Spec
CONSTANTS
  Requests = {q1, q2}
  NoOne = NoOne
  Branch = Branch
  Invoices = {i1}
  Notes = {n1}
  Payments = {p1}
  Keys = {}
  MaxAmount = 2
  Receipts <- Cash
  Edits <- NoEdits
  Ops <- SummaryOps
  Opening <- Owing
SYMMETRY Symmetry
INVARIANTS SummaryIsComplete
