-------------------------- MODULE ProductionSummary -------------------------
(***************************************************************************)
(* The summary of a production order (production-summary.util.ts): what it *)
(* earns, what its stages and materials cost, how far it has come.         *)
(*                                                                         *)
(* Quantities are pieces, weights grams, rates and costs paise per piece   *)
(* or per kilogram.  Sums are kept in thousandths of a paisa and rounded   *)
(* where the code calls toFixed(2).  A stage is planned for all pieces of  *)
(* the order or without a quantity, so that the shares of the stages are   *)
(* fractions of OrderedQty and progress is rounded from the exact quotient *)
(* where the code calls toFixed(1).  Stages and costs grow in any order,   *)
(* as an order is worked on.  The quotients printed beside these figures   *)
(* (cost per piece, margin) are left out.                                  *)
(***************************************************************************)
EXTENDS Integers, Sequences, FiniteSetsExt

CONSTANTS
  OrderedQty, SaleRates,   \* pieces ordered; what a piece sells for
  Pieces, Weights,         \* pieces completed or rejected at a stage; grams put out
  StageRates, OtherCosts,  \* rate and other cost of a stage
  CostAmounts,             \* a material cost of the order
  MaxStages, MaxCosts

VARIABLES
  saleRate, stages, costs

vars == <<saleRate, stages, costs>>

\* toFixed(2): to the nearest paisa, halves away from zero.
ToFixed(milli) == IF milli < 0 THEN -((500 - milli) \div 1000) ELSE (milli + 500) \div 1000

\* What a stage costs: its output in kilograms, or the pieces it finished or spoilt.
StageCost(s) ==
  (IF s.rateUnit = "KG" THEN s.outputGrams * s.rate ELSE (s.completedQty + s.rejectedQty) * s.rate * 1000)
  + s.otherCost * 1000

SumOver(seq, f(_)) == MapThenSumSet(LAMBDA i : f(seq[i]), DOMAIN seq)

Smaller(a, b) == IF a < b THEN a ELSE b

\* Mutant: a finished stage adds the pieces it counted.
FaultyStageProgress(s) == Smaller(s.plannedQty, s.completedQty)

\* How far a stage has come, in pieces of the order.
StageProgress(s) ==
  IF s.status = "COMPLETED" THEN OrderedQty ELSE Smaller(s.plannedQty, s.completedQty)

\* toFixed(1) of the mean share: to the nearest tenth of a percent, halves up.
ProgressPercent ==
  LET whole == OrderedQty * Len(stages)
  IN IF whole = 0 THEN 0 ELSE (2000 * SumOver(stages, StageProgress) + whole) \div (2 * whole)

\* Mutant: material is counted in the process cost as well.
FaultyCalculateProductionSummary ==
  LET revenue == OrderedQty * saleRate * 1000
      processCost == SumOver(stages, StageCost)
      materialCost == SumOver(costs, LAMBDA c : c * 1000)
  IN [revenue |-> ToFixed(revenue), processCost |-> ToFixed(processCost),
      materialCost |-> ToFixed(materialCost), totalMakingCost |-> ToFixed(processCost + materialCost),
      profit |-> ToFixed(revenue - processCost - 2 * materialCost),
      progress |-> ProgressPercent]
\* calculateProductionSummary().
CalculateProductionSummary ==
  LET revenue == OrderedQty * saleRate * 1000
      processCost == SumOver(stages, StageCost)
      materialCost == SumOver(costs, LAMBDA c : c * 1000)
  IN [revenue |-> ToFixed(revenue), processCost |-> ToFixed(processCost),
      materialCost |-> ToFixed(materialCost), totalMakingCost |-> ToFixed(processCost + materialCost),
      profit |-> ToFixed(revenue - processCost - materialCost),
      progress |-> ProgressPercent]

-----------------------------------------------------------------------------
NewStage == [plannedQty : {0, OrderedQty}, rateUnit : {"PIECE", "KG"}, rate : StageRates, otherCost : OtherCosts]

Init ==
  /\ saleRate \in SaleRates
  /\ stages = <<>>
  /\ costs = <<>>

\* A stage is planned.
AddStage ==
  /\ Len(stages) < MaxStages
  /\ \E s \in NewStage :
       stages' = Append(stages, [plannedQty |-> s.plannedQty, rateUnit |-> s.rateUnit, rate |-> s.rate,
                                 otherCost |-> s.otherCost, completedQty |-> 0, rejectedQty |-> 0,
                                 outputGrams |-> 0, status |-> "PENDING"])
  /\ UNCHANGED <<saleRate, costs>>

\* Work at a stage is recorded, with its output; it may end the stage.
RecordWork ==
  /\ \E i \in DOMAIN stages, completed \in Pieces, rejected \in Pieces, grams \in Weights,
        status \in {"IN_PROGRESS", "COMPLETED"} :
       /\ stages[i].status = "PENDING"
       /\ stages' = [stages EXCEPT ![i].completedQty = completed, ![i].rejectedQty = rejected,
                                   ![i].outputGrams = grams, ![i].status = status]
  /\ UNCHANGED <<saleRate, costs>>

AddCost ==
  /\ Len(costs) < MaxCosts
  /\ \E c \in CostAmounts : costs' = Append(costs, c)
  /\ UNCHANGED <<saleRate, stages>>

Next == AddStage \/ RecordWork \/ AddCost
Spec == Init /\ [][Next]_vars

-----------------------------------------------------------------------------
(* Properties.                                                             *)

\* The figures printed side by side agree although each is rounded by itself: process
\* and material cost make the making cost, revenue less making cost the profit to a paisa.
FiguresAgree ==
  LET sum == CalculateProductionSummary
  IN /\ sum.processCost + sum.materialCost = sum.totalMakingCost
     /\ sum.revenue - sum.totalMakingCost - sum.profit \in -1..1

\* The work of a stage that is still to be done, in pieces of the order.
Missing(s) ==
  IF s.status = "COMPLETED" THEN 0
  ELSE IF s.plannedQty = 0 THEN OrderedQty ELSE s.plannedQty - Smaller(s.plannedQty, s.completedQty)

\* Progress is a share of the work: never above 100 percent, and 100 when every stage is
\* over.  Rounded to tenths it may be 100 while a stage is open, but then no more than one
\* part in 2000 of the work of all stages is missing.
ProgressIsAShare ==
  LET progress == CalculateProductionSummary.progress
      missing == SumOver(stages, Missing)
  IN /\ progress \in 0..1000
     /\ stages # <<>> /\ missing = 0 => progress = 1000
     /\ progress = 1000 => 2000 * missing <= OrderedQty * Len(stages)
=============================================================================
