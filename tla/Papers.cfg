\* Papers that are used up leave a behaviour of some parts with nothing to do.
SPECIFICATION PapersSpec
CONSTANTS
  Requests = {q1, q2}
  NoOne = NoOne
  q1 = q1
  q2 = q2
  q3 = q3
  x1 = x1
  x2 = x2
  x3 = x3
  y1 = y1
  y2 = y2
  y3 = y3
  y4 = y4
  z1 = z1
  z2 = z2
  Word = Word
SYMMETRY PapersSymmetry
INVARIANTS OnlyCrossingPapersAreLeft NextNumberIsFree ConversionsAreExact GoodsLeaveOnce 
PROPERTIES CustomersWithinRules OrdersAreKept
CHECK_DEADLOCK FALSE
