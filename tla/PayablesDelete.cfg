SPECIFICATION Spec
CONSTANTS
  Requests = {q1, q2}
  NoOne = NoOne
  Branch = Branch
  Bills = {1}
  Notes = {}
  Receipts = {r1}
  Keys = {k1}
  MaxAmount = 1
  Ops <- DeleteOps
SYMMETRY Symmetry
INVARIANTS DeletedBillIsClosed
