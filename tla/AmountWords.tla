---------------------------- MODULE AmountWords -----------------------------
(***************************************************************************)
(* Amounts written out in words on printed papers (pdf/amount-words.ts).   *)
(*                                                                         *)
(* Words are a sequence of records: the number words One to Ninety count   *)
(* their value, a unit word (Hundred, Thousand, ...) multiplies what was   *)
(* said before it.  An amount is <<crores, rupees below a crore, tenths of *)
(* a paisa>>, so that amounts past the integers of the checker, where the  *)
(* crores themselves are written in crores, are reached too.               *)
(***************************************************************************)
EXTENDS Integers, Sequences, SequencesExt

CONSTANTS
  Crores,      \* numbers of crores, below ten million
  Rests,       \* rupees below a crore
  Tenths       \* tenths of a paisa below a rupee, as a price with more decimals leaves them

VARIABLES amount, format

vars == <<amount, format>>

\* Entries of the tables ONES and TENS; past their ends there is no word.
One(n) == [value |-> n, unit |-> FALSE, known |-> n \in 1..19]
Ten(k) == [value |-> k * 10, unit |-> FALSE, known |-> k \in 2..9]
Unit(n) == [value |-> n, unit |-> TRUE, known |-> TRUE]

\* belowThousand(): ONES up to Nineteen, TENS from Twenty.
BelowThousand(n) ==
  LET rest == n % 100
  IN (IF n >= 100 THEN <<One(n \div 100), Unit(100)>> ELSE <<>>)
     \o (IF rest >= 20 THEN <<Ten(rest \div 10)>> \o (IF rest % 10 > 0 THEN <<One(rest % 10)>> ELSE <<>>)
         ELSE IF rest > 0 THEN <<One(rest)>> ELSE <<>>)

\* One turn of the loop of wholeToWords().
Group(n, size) == IF n >= size THEN BelowThousand(n \div size) \o <<Unit(size)>> ELSE <<>>

Crore == 10000000
Lakh == 100000
Thousand == 1000

\* What wholeToWords() writes of a number below a crore, in Indian grouping.
BelowCrore(n) == Group(n, Lakh) \o Group(n % Lakh, Thousand) \o BelowThousand(n % Thousand)

IndianWords(crores, rest) ==
  LET count == IF crores >= 1000 THEN BelowCrore(crores) ELSE BelowThousand(crores)
  IN (IF crores > 0 THEN count \o <<Unit(Crore)>> ELSE <<>>) \o BelowCrore(rest)

\* Thousands, millions and billions of an amount of less than a thousand billion.
InternationalWords(crores, rest) ==
  LET millions == (crores % 100) * 10 + rest \div 1000000
  IN (IF crores >= 100 THEN BelowThousand(crores \div 100) \o <<Unit(1000000000)>> ELSE <<>>)
     \o (IF millions > 0 THEN BelowThousand(millions) \o <<Unit(1000000)>> ELSE <<>>)
     \o Group(rest % 1000000, Thousand) \o BelowThousand(rest % Thousand)

\* Mutant: a whole rupee left by rounding the paise is lost.
FaultyCarried(a) ==
  LET paise == ((a[3] + 5) \div 10) % 100
  IN [crores |-> a[1], rest |-> a[2], paise |-> paise]
\* Math.round((safe - rupees) * 100), and the rupee it may carry.
Carried(a) ==
  LET paise == (a[3] + 5) \div 10
      rupees == a[2] + (IF paise = 100 THEN 1 ELSE 0)
  IN [crores |-> a[1] + rupees \div Crore, rest |-> rupees % Crore, paise |-> paise % 100]

WholeToWords(crores, rest) ==
  IF format = "indian" THEN IndianWords(crores, rest) ELSE InternationalWords(crores, rest)

\* amountToWords(): rupees, then paise when there are any; no words stand for Zero.
AmountToWords(a) ==
  LET c == Carried(a)
  IN [rupees |-> WholeToWords(c.crores, c.rest), paise |-> BelowThousand(c.paise)]

-----------------------------------------------------------------------------
(* Reading words aloud: a reader adds up number words, multiplies by       *)
(* Hundred at once, by Crore everything said before, and by any other unit *)
(* what was said since the last one.                                       *)

\* The number a reader makes of words, as [crores, rest].
Read(words) ==
  LET step(acc, w) ==
        IF ~w.unit THEN [acc EXCEPT !.group = @ + w.value]
        ELSE IF w.value = 100 THEN [acc EXCEPT !.group = @ * 100]
        ELSE IF w.value = Crore THEN [crores |-> acc.crores + acc.rest + acc.group, rest |-> 0, group |-> 0]
        ELSE IF w.value = 1000000000 THEN [acc EXCEPT !.crores = @ + acc.group * 100, !.group = 0]
        ELSE IF w.value = 1000000
             THEN [crores |-> acc.crores + acc.group \div 10,
                   rest |-> acc.rest + (acc.group % 10) * 1000000, group |-> 0]
        ELSE [acc EXCEPT !.rest = @ + acc.group * w.value, !.group = 0]
      read == FoldLeft(step, [crores |-> 0, rest |-> 0, group |-> 0], words)
  IN [crores |-> read.crores, rest |-> read.rest + read.group]

-----------------------------------------------------------------------------
Amounts == Crores \X Rests \X Tenths

\* The amounts the international words have units for.
Writable(a) == format = "indian" \/ a[1] < 99999

Init == amount \in Amounts /\ format \in {"indian", "international"}

\* The next paper is printed.
WriteOut(a) == amount' = a /\ UNCHANGED format
Next == \E a \in Amounts : WriteOut(a)

Spec == Init /\ [][Next]_vars

\* The words of an amount read back as that amount, rounded to a whole paisa, in both
\* groupings, with and without a carry out of the paise or into the crores.
WordsReadBack ==
  Writable(amount) =>
    LET words == AmountToWords(amount)
        read == Read(words.rupees)
        paise == Read(words.paise).rest
        written == ((read.crores - amount[1]) * Crore + read.rest - amount[2]) * 100 + paise
    IN /\ paise \in 0..99
       /\ written * 10 - amount[3] \in -4..5

\* No word is left blank: every number the code looks up is in its tables.
EveryWordIsKnown ==
  Writable(amount) =>
    LET words == AmountToWords(amount)
    IN \A i \in 1..Len(words.rupees) : words.rupees[i].known
=============================================================================
