---------------------------- MODULE BillingMath -----------------------------
(***************************************************************************)
(* The arithmetic of invoices and documents (common/utils/billing.util.ts, *)
(* invoices/invoice-calc.util.ts).                                         *)
(*                                                                         *)
(* Amounts are integers of paise.  Quantities, prices and rates are        *)
(* decimals written as fractions <<n, d>> with d > 0, so that every        *)
(* product and division is rounded where the code rounds it.  A draft is   *)
(* built line by line, as the editor sends it to be priced.                *)
(***************************************************************************)
EXTENDS Integers, Sequences, FiniteSetsExt

CONSTANTS
  Quantities,   \* quantities of a line, fractions
  Prices,       \* unit prices in rupees, fractions
  Rates,        \* tax rates in percent, fractions
  Discounts,    \* discounts of a paper, in paise
  MaxLines      \* lines of a paper at most

VARIABLES
  lines,        \* the lines entered so far
  discount,
  preferences,  \* of the company: autoRoundOff, roundOffTax, compositionScheme
  sales         \* TRUE on an outward paper, FALSE on a purchase

vars == <<lines, discount, preferences, sales>>

\* totalsOptionsFor(): the composition scheme charges no tax, on sales only.
options == [roundOff |-> preferences.autoRoundOff,
            roundTax |-> preferences.roundOffTax,
            noTax |-> sales /\ preferences.compositionScheme]

Abs(n) == IF n < 0 THEN -n ELSE n

\* divideRound(): to the nearest integer, halves away from zero.
DivideRound(n, d) == LET rounded == (Abs(n) * 2 + d) \div (d * 2)
                     IN IF n < 0 THEN -rounded ELSE rounded

\* scaled(): a decimal in units of 1 / 10^digits; here paise.
Paise(value) == DivideRound(value[1] * 100, value[2])
MultiplyMoney(a, b) == DivideRound(a[1] * b[1] * 100, a[2] * b[2])
PercentMoney(paise, rate) == DivideRound(paise * rate[1], rate[2] * 100)
\* Math.round() of an amount in rupees: halves upwards.
WholeRupees(paise) == ((paise + 50) \div 100) * 100

Zero == <<0, 1>>

\* One line of computeBilling().
PricedLine(raw) ==
  LET rate == IF options.noTax THEN Zero ELSE raw.taxRate
      gross == MultiplyMoney(raw.quantity, raw.unitPrice)
      base == IF raw.taxInclusive /\ rate[1] > 0
              THEN DivideRound(gross * 100 * rate[2], 100 * rate[2] + rate[1])
              ELSE gross
      tax == IF raw.taxInclusive THEN gross - base ELSE PercentMoney(base, rate)
  IN [subTotal |-> base, tax |-> tax, total |-> base + tax]

\* computeBilling().
ComputeBilling ==
  LET priced == [i \in 1..Len(lines) |-> PricedLine(lines[i])]
      sumOf(f) == MapThenSumSet(LAMBDA i : priced[i][f], 1..Len(lines))
      summedTax == sumOf("tax")
      taxTotal == IF options.roundTax THEN WholeRupees(summedTax) ELSE summedTax
      total == sumOf("subTotal") + taxTotal - discount
      grandTotal == IF options.roundOff /\ total > 0 THEN WholeRupees(total) ELSE total
  IN [subTotal |-> sumOf("subTotal"), summedTax |-> summedTax, taxTotal |-> taxTotal, total |-> total,
      grandTotal |-> grandTotal, roundOff |-> grandTotal - total]

-----------------------------------------------------------------------------
Line == [quantity : Quantities, unitPrice : Prices, taxRate : Rates, taxInclusive : BOOLEAN]
Preferences == [autoRoundOff : BOOLEAN, roundOffTax : BOOLEAN, compositionScheme : BOOLEAN]

Init ==
  /\ lines = <<>>
  /\ discount \in Discounts
  /\ preferences \in Preferences
  /\ sales \in BOOLEAN

AddLine ==
  /\ Len(lines) < MaxLines
  /\ \E line \in Line : lines' = Append(lines, line)
  /\ UNCHANGED <<discount, preferences, sales>>

Next == AddLine
Spec == Init /\ [][Next]_vars

-----------------------------------------------------------------------------
(* Properties.                                                             *)

\* A price that includes its tax and the same goods priced without it agree to a paisa:
\* the tax taken out of the gross is the rate of what is left, however the two divisions round.
InclusiveTaxIsTheRate ==
  \A i \in 1..Len(lines) :
    LET line == lines[i]
        priced == PricedLine(line)
        rate == IF options.noTax THEN Zero ELSE line.taxRate
    IN /\ line.taxInclusive => priced.total = MultiplyMoney(line.quantity, line.unitPrice)
       /\ Abs(priced.tax - PercentMoney(priced.subTotal, rate)) <= 1

\* Rounding moves a bill by half a rupee at most each time it is asked for, the amount
\* printed as round-off is exactly what the total was moved by, and a bill to pay is never
\* turned into one to pay out.
RoundingIsBounded ==
  LET bill == ComputeBilling
      exact == bill.subTotal + bill.summedTax - discount
  IN /\ Abs(bill.roundOff) <= 50
     /\ bill.grandTotal = bill.subTotal + bill.taxTotal - discount + bill.roundOff
     /\ Abs(bill.grandTotal - exact) <= 50 * Cardinality({k \in {"roundOff", "roundTax"} : options[k]})
     /\ bill.total > 0 => bill.grandTotal >= 0
     /\ bill.total <= 0 => bill.grandTotal = bill.total
=============================================================================
