----------------------------- MODULE Production -----------------------------
(***************************************************************************)
(* One production order, its pipeline of stages and its costs              *)
(* (production.service.ts, production-pipeline.util.ts).                   *)
(*                                                                         *)
(* No handler takes a lock.  Each reads the order with its stages and      *)
(* costs, checks, and then writes: a Read step makes the checks and keeps  *)
(* the columns it will write, Commit writes them.  A column that a form    *)
(* does not list is left as it is.                                         *)
(* Abstracted: customers, suppliers, sizes and colours, images, dates, the *)
(* weights of rates per kilogram (only a refusal), audit; amounts are in   *)
(* units above the 0.01 tolerance of the checks.                           *)
(***************************************************************************)
EXTENDS Integers, FiniteSets

CONSTANTS
  Operators,  \* requests being served at the same time
  NoOne,
  Last,       \* the stages are 1 (MASTER), 2 (FABRIC_PURCHASE), .. Last (FINAL)
  MaxQty,     \* bound of the ordered quantity
  Forms,      \* what updateStage() may be asked to change: functions from columns to values
  Asked,      \* the statuses that updateStatus() is asked for
  Costs,      \* ids of material costs
  MaxAmount,  \* bound of a cost and of a payment
  Ops         \* the handlers the clients call

\* Assumed of the constants.
ProductionAssumption ==
  /\ Last \in Nat /\ Last > 2 /\ MaxQty \in Nat \ {0} /\ MaxAmount \in Nat

VARIABLES
  order,      \* its status, quantity, and whether confirmedAt is set
  stage,      \* stage[i]: the row of the i-th stage
  cost,       \* cost[k]: the ProductionCost row
  payments,   \* payments[k]: the sum of its ProductionPayment rows
  pc, job

vars == <<order, stage, cost, payments, pc, job>>

Stages == 1 .. Last
Columns == {"status", "planned", "issued", "completed", "rejected", "priced"}
Statuses == {"DRAFT", "CONFIRMED", "IN_PRODUCTION", "READY", "DISPATCHED", "COMPLETED", "CANCELLED"}
Closing == {"READY", "DISPATCHED", "COMPLETED"}

Nothing == [x \in {} |-> NoOne]
One(x, value) == [y \in {x} |-> value]
Patched(row, patch) == [c \in DOMAIN row |-> IF c \in DOMAIN patch THEN patch[c] ELSE row[c]]

NoCost == [state |-> "none", category |-> "OTHER", amount |-> 0, paid |-> 0, opening |-> 0]
NoJob == [order |-> Nothing, stage |-> Nothing, recount |-> FALSE, cost |-> Nothing,
          payment |-> Nothing]

Exists == order.status \notin {"none", "removed"}
Fabric == {k \in Costs : cost[k].state = "live" /\ cost[k].category = "FABRIC"}

-----------------------------------------------------------------------------
(* The pipeline                                                             *)

\* buildInitialProductionStages(), with the two columns create() overrides.
InitialStage(i, qty) ==
  [status |-> "PENDING", planned |-> IF i = 1 THEN qty ELSE 0, issued |-> 0, completed |-> 0,
   rejected |-> 0, priced |-> FALSE]

Processed(row) == row.completed + row.rejected

\* A faulty MayTransfer: does not look at what the next stage has done.
FaultyMayTransfer(i, completed) == TRUE

\* getNextStageTransfer(): the next stage is issued the good pieces; it must not
\* have processed more already.
MayTransfer(i, completed) == i < Last => Processed(stage[i + 1]) <= completed
Transfer(i, completed) ==
  IF i = Last THEN Nothing
  ELSE One(i + 1, [planned |-> completed, issued |-> completed,
                   status |-> IF stage[i + 1].status = "PENDING" /\ completed > 0
                              THEN "IN_PROGRESS" ELSE stage[i + 1].status])

\* The order's status after a stage was written.
Recounted(rows) ==
  IF \A i \in Stages : rows[i].status = "COMPLETED" THEN "READY"
  ELSE IF \E i \in Stages : rows[i].status # "PENDING" THEN "IN_PRODUCTION" ELSE "CONFIRMED"

-----------------------------------------------------------------------------
(* The steps every handler shares                                           *)

Read(q, op, changes) ==
  /\ op \in Ops /\ pc[q] = "idle" /\ Exists
  /\ pc' = [pc EXCEPT ![q] = "checked"] /\ job' = [job EXCEPT ![q] = changes]
  /\ UNCHANGED <<order, stage, cost, payments>>

End(q) == pc' = [pc EXCEPT ![q] = "idle"] /\ job' = [job EXCEPT ![q] = NoJob]

\* One transaction; the update of a row that is gone fails.
Commit(q) ==
  LET rows == [i \in Stages |-> IF i \in DOMAIN job[q].stage
                                THEN Patched(stage[i], job[q].stage[i]) ELSE stage[i]]
      paid(k) == [cost[k] EXCEPT !.paid = @ + job[q].payment[k]] IN
  /\ pc[q] = "checked" /\ Exists /\ End(q)
  /\ \A k \in DOMAIN job[q].payment : cost[k].state = "live"
  /\ \A k \in DOMAIN job[q].cost :
       cost[k].state = IF "state" \in DOMAIN job[q].cost[k] THEN "none" ELSE "live"
  /\ stage' = rows
  /\ order' = IF job[q].recount THEN [order EXCEPT !.status = Recounted(rows)]
              ELSE Patched(order, job[q].order)
  /\ cost' = [k \in Costs |-> IF k \in DOMAIN job[q].payment THEN paid(k)
                              ELSE IF k \in DOMAIN job[q].cost
                              THEN Patched(cost[k], job[q].cost[k]) ELSE cost[k]]
  /\ payments' = [k \in Costs |-> IF k \in DOMAIN job[q].payment
                                  THEN payments[k] + job[q].payment[k] ELSE payments[k]]

Rollback(q) == pc[q] = "checked" /\ End(q) /\ UNCHANGED <<order, stage, cost, payments>>

-----------------------------------------------------------------------------
(* The order                                                                *)

\* create(): a draft, with all its stages.
Create(qty) ==
  /\ order.status = "none"
  /\ order' = [status |-> "DRAFT", qty |-> qty, confirmed |-> FALSE]
  /\ stage' = [i \in Stages |-> InitialStage(i, qty)]
  /\ UNCHANGED <<cost, payments, pc, job>>

\* updateMaster(): the quantity is fixed once the order is confirmed.
UpdateMaster(q, qty) ==
  /\ order.status # "DRAFT" => qty = order.qty
  /\ Read(q, "master", [NoJob EXCEPT
       !.order = [qty |-> qty],
       !.stage = IF order.status = "DRAFT" THEN One(1, [planned |-> qty]) ELSE Nothing])

\* confirm(): the master stage is done, the fabric is to be bought.
Confirm(q) ==
  /\ order.status = "DRAFT"
  /\ Read(q, "confirm", [NoJob EXCEPT
       !.order = [status |-> "IN_PRODUCTION", confirmed |-> TRUE],
       !.stage = [i \in {1, 2} |->
         IF i = 1 THEN [issued |-> order.qty, completed |-> order.qty, status |-> "COMPLETED"]
         ELSE [planned |-> order.qty, issued |-> order.qty, status |-> "IN_PROGRESS"]]])

\* updateStatus(): any status, the closing ones after the final inspection.
UpdateStatus(q, status) ==
  /\ order.status # "DRAFT"
  /\ status \in Closing => stage[Last].status = "COMPLETED"
  /\ Read(q, "status", [NoJob EXCEPT !.order = [status |-> status]])

\* updateStage(): the form is laid over the row that was read and checked.
UpdateStage(q, i, form) ==
  LET next == Patched(stage[i], form) IN
  /\ order.status \notin {"DRAFT", "COMPLETED", "CANCELLED"}
  /\ next.issued <= next.planned /\ Processed(next) <= next.issued
  /\ i = 2 /\ next.priced => Fabric = {}
  /\ next.status = "COMPLETED" => Processed(next) = next.issued
  /\ i > 1 /\ stage[i - 1].status # "COMPLETED"
       => next.status = "PENDING" /\ next.issued = 0 /\ Processed(next) = 0
  /\ next.status = "COMPLETED" => MayTransfer(i, next.completed)
  /\ Read(q, "stage", [NoJob EXCEPT !.recount = TRUE, !.stage =
       [j \in {i} \cup (IF next.status = "COMPLETED" /\ i < Last THEN {i + 1} ELSE {}) |->
          IF j = i THEN form ELSE Transfer(i, next.completed)[j]]])

\* removeOrder(), which takes the stages, costs and payments with it.
RemoveOrder ==
  /\ "remove" \in Ops /\ Exists
  /\ order' = [order EXCEPT !.status = "removed"]
  /\ cost' = [k \in Costs |-> IF cost[k].state = "live" THEN [cost[k] EXCEPT !.state = "removed"]
                              ELSE cost[k]]
  /\ payments' = [k \in Costs |-> 0]
  /\ UNCHANGED <<stage, pc, job>>

-----------------------------------------------------------------------------
(* Its costs                                                                *)

\* addCost(): the form may say that some of it is paid already.
AddCost(q, k, category, amount, paid) ==
  /\ cost[k].state = "none"
  /\ category = "FABRIC" => ~stage[2].priced
  /\ Read(q, "cost", [NoJob EXCEPT !.cost = One(k,
       [state |-> "live", category |-> category, amount |-> amount, paid |-> paid,
        opening |-> paid])])

\* updateCost(): not below what is paid.
UpdateCost(q, k, category, amount) ==
  /\ cost[k].state = "live" /\ amount >= cost[k].paid
  /\ category = "FABRIC" /\ cost[k].category # "FABRIC" => ~stage[2].priced
  /\ Read(q, "cost", [NoJob EXCEPT !.cost =
       One(k, [category |-> category, amount |-> amount])])

\* recordPayment(): within what is outstanding.
RecordPayment(q, k, amount) ==
  /\ cost[k].state = "live" /\ amount > 0 /\ amount <= cost[k].amount - cost[k].paid
  /\ Read(q, "pay", [NoJob EXCEPT !.payment = One(k, amount)])

\* removeCost() takes the payments with it.
RemoveCost(k) ==
  /\ "remove" \in Ops /\ Exists /\ cost[k].state = "live"
  /\ cost' = [cost EXCEPT ![k].state = "removed"]
  /\ payments' = [payments EXCEPT ![k] = 0]
  /\ UNCHANGED <<order, stage, pc, job>>

-----------------------------------------------------------------------------
Init ==
  /\ order = [status |-> "none", qty |-> 0, confirmed |-> FALSE]
  /\ stage = [i \in Stages |-> InitialStage(i, 0)]
  /\ cost = [k \in Costs |-> NoCost]
  /\ payments = [k \in Costs |-> 0]
  /\ pc = [q \in Operators |-> "idle"]
  /\ job = [q \in Operators |-> NoJob]

OrderStep(q) ==
  \/ \E qty \in 1 .. MaxQty : UpdateMaster(q, qty)
  \/ Confirm(q)
  \/ \E status \in Asked : UpdateStatus(q, status)
  \/ \E i \in Stages, form \in Forms : UpdateStage(q, i, form)

CostStep(q) ==
  \E k \in Costs :
    \/ \E category \in {"FABRIC", "OTHER"}, amount \in 0 .. MaxAmount :
         \/ \E paid \in 0 .. MaxAmount : AddCost(q, k, category, amount, paid)
         \/ UpdateCost(q, k, category, amount)
    \/ \E amount \in 1 .. MaxAmount : RecordPayment(q, k, amount)

Next ==
  \/ \E qty \in 1 .. MaxQty : Create(qty)
  \/ \E q \in Operators : OrderStep(q) \/ CostStep(q) \/ Commit(q) \/ Rollback(q)
  \/ RemoveOrder
  \/ \E k \in Costs : RemoveCost(k)

Spec == Init /\ [][Next]_vars

-----------------------------------------------------------------------------
(* Properties                                                               *)

\* Every row has its type; what a draft orders is what its master stage plans.
TypeOK ==
  /\ order \in [status : Statuses \cup {"none", "removed"}, qty : 0 .. MaxQty, confirmed : BOOLEAN]
  /\ order.status = "DRAFT" /\ ~order.confirmed => stage[1].planned = order.qty
  /\ \A i \in Stages : /\ stage[i].status \in {"PENDING", "IN_PROGRESS", "COMPLETED"}
                       /\ \A c \in Columns \ {"status", "priced"} : stage[i][c] \in 0 .. MaxQty
                       /\ stage[i].priced \in BOOLEAN
  /\ \A k \in Costs : cost[k].state \in {"none", "live", "removed"} /\ payments[k] \in Nat

\* No stage has processed more pieces than it was issued, nor been issued more
\* than it planned, although completing a stage rewrites the next one.
PiecesAccounted ==
  \A i \in Stages : Processed(stage[i]) <= stage[i].issued /\ stage[i].issued <= stage[i].planned

\* "Completed and rejected quantities must equal the issued quantity before
\* completing a stage": a completed stage has processed all it was issued.
CompletedStagesAccounted ==
  \A i \in Stages : stage[i].status = "COMPLETED" => Processed(stage[i]) = stage[i].issued

\* "Complete final inspection before marking this order ready or complete": an
\* order that is ready, dispatched or completed has passed it.
FinalInspected == order.status \in Closing => stage[Last].status = "COMPLETED"

\* "Order quantity cannot change after confirmation."
QuantityFixedStep == order.confirmed => order'.qty = order.qty
QuantityFixed == [][QuantityFixedStep]_vars

\* "Record its price in one place only": fabric is either a material cost or
\* priced in its stage.
FabricPricedOnce == Exists /\ stage[2].priced => Fabric = {}

\* What is paid of a cost is what was paid at first and its payments, however
\* many payments are recorded at once.
PaidMatchesPayments ==
  \A k \in Costs : cost[k].state = "live" => cost[k].paid = cost[k].opening + payments[k]

\* "Payment amount exceeds the outstanding cost": no payment brings what is paid
\* beyond the cost.
PaymentsFitCost ==
  [][\A k \in Costs : payments'[k] > payments[k] => cost'[k].paid <= cost'[k].amount]_vars
=============================================================================
