-------------------------------- MODULE Parts --------------------------------
(* What the suites MCGoods, MCPapers, MCPeople and MCServices share: each   *)
(* runs instances of components that have no rows in common.  A behaviour   *)
(* runs one of them, the value of part; lock, pc and job are its requests,  *)
(* a to f its tables, and what it does not have stays Off.                  *)
CONSTANTS
  Requests,            \* requests being served at the same time
  NoOne,               \* the owner of a free lock, the missing value of a field
  q1, q2, q3, x1, x2, x3, y1, y2, y3, y4, z1, z2   \* requests and rows of the parts

\* NoOne makes no request.
ASSUME PartsAssumption == NoOne \notin Requests \cup {q1, q2, q3}

VARIABLES part, lock, pc, job, a, b, c, d, e, f

vars == <<part, lock, pc, job, a, b, c, d, e, f>>

Off == "off"
Nobody == {}
=============================================================================
