SPECIFICATION Spec
CONSTANTS
  Requests = {q1, q2}
  NoOne = NoOne
  Branch = Branch
  Bills = {1}
  Notes = {n1, n2}
  Receipts = {r1}
  Keys = {k1}
  MaxAmount = 2
  Ops <- AllOps
CONSTRAINT ReturnsApart
SYMMETRY Symmetry
INVARIANTS ClosedBillsUnpaid ReturnsStand
PROPERTIES NoPaymentBeyondBalance
