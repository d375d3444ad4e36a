----------------------------- MODULE Numbering ------------------------------
(***************************************************************************)
(* How the numbers of papers and the codes of parties are chosen: a count  *)
(* plus one (invoices, documents), the number after the greatest string    *)
(* (purchase orders, Payment-Out receipts), or the number after the        *)
(* greatest number (party codes).                                          *)
(*                                                                         *)
(* A number is its year and its sequence; Word stands for a typed number   *)
(* with the year's prefix and no digits after it, which is greater as a    *)
(* string than every padded sequence.  The branch lock makes each step     *)
(* atomic; party codes are read without a lock and inserted under a unique *)
(* index, as the two steps Offer and Insert.                               *)
(* Abstracted: the branch's code and the label of the prefix; sequences    *)
(* stay below the width they are padded to, where the order of strings is  *)
(* the order of numbers.                                                   *)
(***************************************************************************)
EXTENDS Naturals, FiniteSets

CONSTANTS
  Registers,  \* those in use, of "invoice", "document", "order", "receipt", "code"
  Rows,       \* ids of rows
  Years,
  Typed,      \* registers where users type numbers (for invoices: autoNumbering is off)
  Redated,    \* registers where an edit may move the date into another year
  Limit,      \* bound of a sequence
  Word, NoOne

\* Assumed of the constants.
NumberingAssumption ==
  /\ Registers \subseteq {"invoice", "document", "order", "receipt", "code"}
  /\ Typed \cup Redated \subseteq Registers /\ Limit \in Nat /\ Word \notin Nat
  /\ IsFiniteSet(Rows) /\ Years # {}

VARIABLES
  row,        \* row[r]: its register, number, the year of its date, and whether it is gone
  offered     \* the party code that a request has read but not yet inserted, or NoOne

vars == <<row, offered>>

NoRow == [in |-> "none", year |-> NoOne, n |-> NoOne, dated |-> NoOne, gone |-> FALSE]

\* The rows of register g that queries over all rows see: those soft-deleted, too.
In(g) == {r \in Rows : row[r].in = g}
Numbered(g, y) == {r \in In(g) : row[r].year = y}
Peers(r) == {x \in Rows : row[x].in = row[r].in /\ row[x].year = row[r].year}
Used(g) == {<<row[r].year, row[r].n>> : r \in In(g)}

Highest(S) == CHOOSE n \in S \cup {0} : \A m \in S : m <= n
Sequences(R) == {row[r].n : r \in R} \ {Word}

-----------------------------------------------------------------------------
(* The number that is next                                                  *)

\* nextNumber(), nextReceiptNumber(): parseInt of the greatest string, or 0.
AfterLatest(g, y) ==
  IF \E r \in Numbered(g, y) : row[r].n = Word THEN 1 ELSE Highest(Sequences(Numbered(g, y))) + 1

\* A faulty NextSequence: counts the rows.
FaultyNextSequence(g, y) == Cardinality(Numbered(g, y)) + 1

NextSequence(g, y) ==
  CASE g = "invoice" -> Cardinality(Numbered(g, y)) + 1
    [] g = "document" -> Cardinality({r \in In(g) : row[r].dated = y}) + 1
    [] g = "code" -> Highest(Sequences(In(g))) + 1
    [] OTHER -> AfterLatest(g, y)

-----------------------------------------------------------------------------
Fits(n) == n \in 1 .. Limit \cup {Word}

\* The row is inserted; the unique index refuses a number that is used.
Inserted(r, g, y, n) ==
  /\ row[r] = NoRow /\ g \in Registers /\ Fits(n) /\ <<y, n>> \notin Used(g)
  /\ row' = [row EXCEPT ![r] = [in |-> g, year |-> y, n |-> n, dated |-> y, gone |-> FALSE]]

\* A paper is made and takes the next number.
Automatic(r, g, y) ==
  g # "code" /\ Inserted(r, g, y, NextSequence(g, y)) /\ UNCHANGED offered

\* A paper is made with the number its form says.
ByHand(r, g, y, n) == g \in Typed /\ Inserted(r, g, y, n) /\ UNCHANGED offered

\* An edit types another number; the old one is free again.
Renumber(r, n) ==
  LET g == row[r].in IN
  /\ g \in Typed \cap {"invoice", "order", "code"} /\ ~row[r].gone /\ <<row[r].year, n>> \notin Used(g)
  /\ row' = [row EXCEPT ![r].n = n] /\ UNCHANGED offered

\* An edit moves the date and keeps the number.
Redate(r, y) ==
  /\ row[r].in \in Redated /\ ~row[r].gone
  /\ row' = [row EXCEPT ![r].dated = y] /\ UNCHANGED offered

\* remove(): orders and receipts are deleted, the others are only marked.
Remove(r) ==
  /\ row[r] # NoRow /\ ~row[r].gone
  /\ row' = [row EXCEPT ![r] = IF row[r].in \in {"order", "receipt"}
                               THEN [NoRow EXCEPT !.gone = TRUE] ELSE [row[r] EXCEPT !.gone = TRUE]]
  /\ UNCHANGED offered

\* generatePartyCode() without a lock, and the insert that follows.
Offer(y) ==
  /\ "code" \in Registers /\ offered = NoOne /\ Fits(NextSequence("code", y))
  /\ offered' = NextSequence("code", y) /\ UNCHANGED row

Insert(r, y) == offered # NoOne /\ Inserted(r, "code", y, offered) /\ offered' = NoOne

\* P2002: "Could not assign a party code. Please try again."
TryAgain(y) ==
  offered # NoOne /\ <<y, offered>> \in Used("code") /\ offered' = NoOne /\ UNCHANGED row

-----------------------------------------------------------------------------
Init == row = [r \in Rows |-> NoRow] /\ offered = NoOne

\* Codes have no year: they use the first one.
Year == CHOOSE y \in Years : TRUE

Next ==
  \/ \E r \in Rows, g \in Registers, y \in Years :
       \/ Automatic(r, g, y)
       \/ \E n \in 1 .. Limit \cup {Word} : (g = "code" => y = Year) /\ ByHand(r, g, y, n)
  \/ \E r \in Rows :
       \/ \E n \in 1 .. Limit \cup {Word} : Renumber(r, n)
       \/ \E y \in Years : Redate(r, y)
       \/ Remove(r) \/ Insert(r, Year)
  \/ Offer(Year) \/ TryAgain(Year)

Spec == Init /\ [][Next]_vars

-----------------------------------------------------------------------------
(* Properties                                                               *)

TypeOK ==
  /\ row \in [Rows -> [in : Registers \cup {"none"}, year : Years \cup {NoOne},
                       n : 1 .. Limit \cup {Word, NoOne}, dated : Years \cup {NoOne},
                       gone : BOOLEAN]]
  /\ offered \in 1 .. Limit \cup {NoOne}

\* A row that is in a register has a number, and a word for one only where users type it.
NumbersAreGiven ==
  \A r \in Rows : row[r].in # "none" =>
    /\ row[r].n \in 1 .. Limit \cup {Word} /\ row[r].year \in Years
    /\ row[r].n = Word => row[r].in \in Typed

\* Where the next number is a count, the rows of a year are numbered up to their count, and
\* a document has the date its number was given for.
CountsReachNumbers ==
  \A r \in Rows : row[r].in \in {"invoice", "document"} =>
    /\ row[r].n <= Cardinality(Peers(r))
    /\ row[r].in = "document" => row[r].dated = row[r].year

\* Every step keeps these together where users type codes only and no document is redated.
IInv == TypeOK /\ NumbersAreGiven /\ CountsReachNumbers

\* The number that a register offers next is not in use: the insert is never refused,
\* and so the register never stops handing out numbers.
NextNumberIsFree ==
  \A g \in Registers, y \in Years : <<y, NextSequence(g, y)>> \notin Used(g)
=============================================================================
