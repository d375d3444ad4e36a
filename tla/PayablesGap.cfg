SPECIFICATION Spec
CONSTANTS
  Requests = {q1, q2}
  NoOne = NoOne
  Branch = Branch
  Bills = {1, 2}
  Notes = {}
  Receipts = {r1, r2}
  Keys = {k1, k2}
  MaxAmount = 1
  Ops <- GapOps
SYMMETRY Symmetry
INVARIANTS NeverOverpaid
