SPECIFICATION Spec
CONSTANTS
  Requests = {q1, q2}
  NoOne = NoOne
  Branch = Branch
  Bills = {1, 2}
  Notes = {n1}
  Receipts = {r1, r2}
  Keys = {k1, k2}
  MaxAmount = 1
  Ops <- AllOps
CONSTRAINT ReceiptsApart
SYMMETRY Symmetry
INVARIANTS IInv PaidMatchesRows PaidWithinTotal OneReceiptPerRequest
PROPERTIES PaidBillIsFrozen
