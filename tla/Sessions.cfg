SPECIFICATION Spec
CONSTANTS
  Requests = {q1, q2}
  NoOne = NoOne
  Sessions = {s1, s2, s3}
  Codes = {c1}
  MaxSessions = 2
  MaxFailed = 2
  MaxTokens = 2
  MaxChanges = 1
  Ops <- AllOps
CONSTRAINT DevicesOrAccount
SYMMETRY Symmetry
INVARIANTS IInv LoginsAreBounded
PROPERTIES ChainSpec ChangesSignOut
