---------------------------- MODULE StockLedger -----------------------------
(***************************************************************************)
(* The stock of items: one total per item, its distribution over godowns,  *)
(* and the movements that explain both (adjustStock() of                   *)
(* billing-transaction.util.ts, inventory.service.ts, items.service.ts).   *)
(*                                                                         *)
(* adjustStock() locks the item's row before it reads quantities, so a     *)
(* Check step locks, checks and plans the movements and Commit makes them. *)
(* The two removals check without a lock and write later.                  *)
(* Abstracted: names, prices, images, several items in one paper; the      *)
(* paper stands for an invoice (out) or a bill (in) of one item, whose     *)
(* rules are in Receivables and Payables; the branch lock, which           *)
(* serialises less than the item's lock; isActive of a godown, which       *)
(* nothing changes.                                                        *)
(***************************************************************************)
EXTENDS Amounts, RowLocks

CONSTANTS
  Items, Godowns, Papers,  \* ids
  MaxQty,                  \* bound of one quantity
  Bound,                   \* bound of what an operation leaves in one place
  AllowNegative,           \* the preference transaction.negativeStock
  Ops                      \* the handlers the clients call

\* Assumed of the constants.
StockLedgerAssumption ==
  /\ IsFiniteSet(Godowns) /\ NoOne \notin Godowns \cup Items
  /\ MaxQty \in Nat \ {0} /\ Bound \in Nat /\ AllowNegative \in BOOLEAN

VARIABLES
  item,     \* item[i]: "none", "live" or "deleted"
  stock,    \* stock[i]: Item.stockQty
  place,    \* place[i][g]: WarehouseStock.quantity
  moved,    \* moved[i][p]: the sum of the item's movements at place p
  godown,   \* godown[g]: [exists, used]; used: some movement names it
  paper     \* paper[k]: its item, place and signed quantity; state

vars == <<item, stock, place, moved, godown, paper, lock, pc, job>>

\* A quantity lies in a godown, or in none (unallocated).
Places == Godowns \cup {NoOne}
Quantities == 1 .. MaxQty

Nothing == [x \in {} |-> NoOne]
One(x, value) == [y \in {x} |-> value]
NoPaper == [state |-> "none", item |-> NoOne, at |-> NoOne, n |-> 0]
NoJob == [op |-> "none", item |-> NoOne, moves |-> Nothing, paper |-> Nothing, godown |-> NoOne]

Exists(p) == p = NoOne \/ (p \in Godowns /\ godown[p].exists)

\* The sum of signed quantities.
Balance(f) == SumOf({x \in DOMAIN f : f[x] > 0}, f)
              - SumOf({x \in DOMAIN f : f[x] < 0}, [x \in DOMAIN f |-> -f[x]])

\* What lies in place p; what godowns do not hold is unallocated.
Held(i, p) == IF p = NoOne THEN stock[i] - Balance(place[i]) ELSE place[i][p]

\* adjustStock() lets n units leave place p.
Enough(i, p, n) == AllowNegative \/ (Held(i, p) >= n /\ stock[i] >= n)

-----------------------------------------------------------------------------
(* The steps every handler shares                                           *)

Check(q, op, rows, j) ==
  /\ op \in Ops /\ pc[q] = "idle" /\ \A r \in rows : CanLock(r)
  /\ pc' = [pc EXCEPT ![q] = "checked"] /\ job' = [job EXCEPT ![q] = [j EXCEPT !.op = op]]
  /\ lock' = [r \in Items |-> IF r \in rows THEN q ELSE lock[r]]
  /\ UNCHANGED <<item, stock, place, moved, godown, paper>>

\* adjustStock() of one item: movements are signed quantities by place.
Adjust(q, op, i, moves, papers) ==
  /\ \A p \in DOMAIN moves : Exists(p)
  /\ Check(q, op, {i}, [NoJob EXCEPT !.item = i, !.moves = moves, !.paper = papers])

End(q) ==
  /\ pc[q] = "checked"
  /\ pc' = [pc EXCEPT ![q] = "idle"] /\ job' = [job EXCEPT ![q] = NoJob] /\ lock' = Released(q)

Rollback(q) == End(q) /\ UNCHANGED <<item, stock, place, moved, godown, paper>>

\* The change of place p by planned movements.
Change(moves, p) == IF p \in DOMAIN moves THEN moves[p] ELSE 0

\* A faulty CommitMoves: the total is reduced, but not raised, by a transfer.
FaultyCommitMoves(q) ==
  LET i == job[q].item  moves == job[q].moves IN
  /\ job[q].op \notin {"removeItem", "removeGodown"} /\ \A p \in DOMAIN moves : Exists(p)
  /\ End(q)
  /\ item' = [item EXCEPT ![i] = IF @ = "none" THEN "live" ELSE @]
  /\ stock' = [stock EXCEPT ![i] = @ + Balance([p \in {x \in DOMAIN moves : moves[x] < 0 \/ DOMAIN moves = {x}} |-> moves[p]])]
  /\ place' = [place EXCEPT ![i] = [g \in Godowns |-> @[g] + Change(moves, g)]]
  /\ moved' = [moved EXCEPT ![i] = [p \in Places |-> @[p] + Change(moves, p)]]
  /\ godown' = [g \in Godowns |-> IF Change(moves, g) # 0 THEN [godown[g] EXCEPT !.used = TRUE]
                                  ELSE godown[g]]
  /\ paper' = [k \in Papers |-> IF k \in DOMAIN job[q].paper THEN job[q].paper[k] ELSE paper[k]]

\* The movements are inserted (their godowns must still exist), the godown's row and
\* the total are incremented.
CommitMoves(q) ==
  LET i == job[q].item  moves == job[q].moves IN
  /\ job[q].op \notin {"removeItem", "removeGodown"} /\ \A p \in DOMAIN moves : Exists(p)
  /\ End(q)
  /\ item' = [item EXCEPT ![i] = IF @ = "none" THEN "live" ELSE @]
  /\ stock' = [stock EXCEPT ![i] = @ + Balance(moves)]
  /\ place' = [place EXCEPT ![i] = [g \in Godowns |-> @[g] + Change(moves, g)]]
  /\ moved' = [moved EXCEPT ![i] = [p \in Places |-> @[p] + Change(moves, p)]]
  /\ godown' = [g \in Godowns |-> IF Change(moves, g) # 0 THEN [godown[g] EXCEPT !.used = TRUE]
                                  ELSE godown[g]]
  /\ paper' = [k \in Papers |-> IF k \in DOMAIN job[q].paper THEN job[q].paper[k] ELSE paper[k]]

-----------------------------------------------------------------------------
(* items.service.ts                                                         *)

\* create(), with an opening quantity (0: no movement).
CreateItem(q, i, n) ==
  /\ item[i] = "none"
  /\ Adjust(q, "create", i, IF n = 0 THEN Nothing ELSE One(NoOne, n), Nothing)

\* update() of stockQty: the difference to the locked total is a movement.
UpdateItem(q, i, n) ==
  /\ item[i] = "live" /\ stock[i] # n
  /\ stock[i] > n => Enough(i, NoOne, stock[i] - n)
  /\ Adjust(q, "update", i, One(NoOne, n - stock[i]), Nothing)

\* remove(): no paper may have a line of the item; asked without a lock.
RemoveItem(q, i) ==
  /\ item[i] = "live" /\ \A k \in Papers : paper[k].item # i
  /\ Check(q, "removeItem", {}, [NoJob EXCEPT !.item = i])

CommitRemoveItem(q) ==
  /\ job[q].op = "removeItem" /\ CanWrite(q, job[q].item) /\ End(q)
  /\ item' = [item EXCEPT ![job[q].item] = "deleted"]
  /\ UNCHANGED <<stock, place, moved, godown, paper>>

-----------------------------------------------------------------------------
(* inventory.service.ts                                                     *)

\* operate() of kind IN and OUT.
StockIn(q, i, p, n) == item[i] = "live" /\ Adjust(q, "operate", i, One(p, n), Nothing)

StockOut(q, i, p, n) ==
  item[i] = "live" /\ Enough(i, p, n) /\ Adjust(q, "operate", i, One(p, -n), Nothing)

\* operate() of kind TRANSFER.
StockTransfer(q, i, from, to, n) ==
  /\ item[i] = "live" /\ to \in Godowns /\ from # to /\ Enough(i, from, n)
  /\ Adjust(q, "operate", i, [p \in {from, to} |-> IF p = to THEN n ELSE -n], Nothing)

CreateWarehouse(g) ==
  /\ ~godown[g].exists /\ ~godown[g].used
  /\ godown' = [godown EXCEPT ![g].exists = TRUE]
  /\ UNCHANGED <<item, stock, place, moved, paper, lock, pc, job>>

\* removeWarehouse(): the plain reads of its transaction.
RemoveWarehouse(q, g) ==
  /\ godown[g].exists /\ ~godown[g].used /\ \A i \in Items : place[i][g] = 0
  /\ Check(q, "removeGodown", {}, [NoJob EXCEPT !.godown = g])

\* Its deletes; movements keep the godown they name (ON DELETE RESTRICT).
CommitRemoveWarehouse(q) ==
  LET g == job[q].godown IN
  /\ job[q].op = "removeGodown" /\ godown[g].exists /\ ~godown[g].used /\ End(q)
  /\ place' = [i \in Items |-> [place[i] EXCEPT ![g] = 0]]
  /\ godown' = [godown EXCEPT ![g].exists = FALSE]
  /\ UNCHANGED <<item, stock, moved, paper>>

-----------------------------------------------------------------------------
(* Papers                                                                   *)

\* A sale (n < 0) or a bill (n > 0) with a line of the item is posted.
Post(q, k, i, p, n) ==
  /\ paper[k].state = "none" /\ item[i] = "live"
  /\ n < 0 => Enough(i, p, -n)
  /\ Adjust(q, "post", i, One(p, n),
            One(k, [state |-> "posted", item |-> i, at |-> p, n |-> n]))

\* Its goods go back: those of a sale always, those of a bill if they are still there.
Reverse(q, k) ==
  LET r == paper[k] IN
  /\ r.state = "posted"
  /\ r.n > 0 => Enough(r.item, r.at, r.n)
  /\ Adjust(q, "post", r.item, One(r.at, -r.n), One(k, [r EXCEPT !.state = "reversed"]))

-----------------------------------------------------------------------------
Init ==
  /\ item = [i \in Items |-> "none"] /\ stock = [i \in Items |-> 0]
  /\ place = [i \in Items |-> [g \in Godowns |-> 0]]
  /\ moved = [i \in Items |-> [p \in Places |-> 0]]
  /\ godown = [g \in Godowns |-> [exists |-> FALSE, used |-> FALSE]]
  /\ paper = [k \in Papers |-> NoPaper]
  /\ lock = [r \in Items |-> NoOne]
  /\ pc = [q \in Requests |-> "idle"] /\ job = [q \in Requests |-> NoJob]

Next ==
  \/ \E q \in Requests :
       \/ CommitMoves(q) \/ Rollback(q)
       \/ CommitRemoveItem(q) \/ CommitRemoveWarehouse(q)
       \/ \E i \in Items, n \in 0 .. MaxQty : CreateItem(q, i, n) \/ UpdateItem(q, i, n)
       \/ \E i \in Items : RemoveItem(q, i)
       \/ \E i \in Items, p \in Places, n \in Quantities :
            \/ moved[i][p] + n <= Bound /\ StockIn(q, i, p, n)
            \/ moved[i][p] - n >= -Bound /\ StockOut(q, i, p, n)
            \/ moved[i][p] - n >= -Bound
               /\ \E to \in Godowns : moved[i][to] + n <= Bound /\ StockTransfer(q, i, p, to, n)
            \/ \E k \in Papers : moved[i][p] + n <= Bound /\ Post(q, k, i, p, n)
            \/ \E k \in Papers : moved[i][p] - n >= -Bound /\ Post(q, k, i, p, -n)
       \/ \E k \in Papers : Reverse(q, k)
       \/ \E g \in Godowns : RemoveWarehouse(q, g)
  \/ \E g \in Godowns : CreateWarehouse(g)

Spec == Init /\ [][Next]_vars

-----------------------------------------------------------------------------
(* Properties                                                               *)

TypeOK ==
  /\ item \in [Items -> {"none", "live", "deleted"}] /\ stock \in [Items -> Int]
  /\ place \in [Items -> [Godowns -> Int]] /\ moved \in [Items -> [Places -> Int]]
  /\ godown \in [Godowns -> [exists : BOOLEAN, used : BOOLEAN]]
  /\ \A k \in Papers : paper[k].n \in -MaxQty .. MaxQty /\ paper[k].at \in Places
  /\ \A i \in Items : item[i] = "none" => \A p \in Places : moved[i][p] = 0

\* The movements explain the total and every godown's part of it.
MovementsExplainStock ==
  \A i \in Items : \A p \in Places : moved[i][p] = Held(i, p)

\* Without negativeStock no godown, and no unallocated rest, goes below zero, whatever
\* transfers, edits, sales and reversals come together.
NothingBelowZero == ~AllowNegative => \A i \in Items, p \in Places : Held(i, p) >= 0

\* "Godowns with stock or linked transactions must be retained".
GodownsRetained ==
  \A g \in Godowns : ~godown[g].exists
    => /\ ~godown[g].used /\ \A k \in Papers : paper[k].at # g
       /\ \A i \in Items : moved[i][g] = 0

\* "This record has linked transactions and must be retained".
LinkedItemsRetained == \A k \in Papers : paper[k].item # NoOne => item[paper[k].item] = "live"

-----------------------------------------------------------------------------
(* The inductive invariant of StockLedger: who has planned movements of an *)
(* item holds the item, so that its quantities are those it has read, and  *)
(* a godown that was never used holds nothing.                             *)

PaperType == [state : {"none", "posted", "reversed"}, item : Items \cup {NoOne}, at : Places,
              n : -MaxQty .. MaxQty]

RowsOK ==
  /\ TypeOK
  /\ paper \in [Papers -> PaperType]
  /\ \A k \in Papers : paper[k].state = "posted" => paper[k].item \in Items /\ paper[k].n # 0
  /\ lock \in [Items -> Requests \cup {NoOne}]
  /\ pc \in [Requests -> {"idle", "checked"}]
  /\ DOMAIN job = Requests

\* Movements of one item: none, one place, or as much out of one place as into another.
IsMoves(moves) ==
  /\ moves \in [DOMAIN moves -> Int \ {0}]
  /\ \/ DOMAIN moves = {}
     \/ \E p \in Places : DOMAIN moves = {p}
     \/ \E from, to \in Places :
          from # to /\ DOMAIN moves = {from, to} /\ moves[from] = -moves[to]

\* The paper that is written with the movements names their place.
PaperFits(moves, papers) ==
  \A k \in DOMAIN papers \cap Papers :
    /\ papers[k] \in PaperType /\ papers[k].at \in DOMAIN moves
    /\ papers[k].state = "posted" => papers[k].item \in Items /\ papers[k].n # 0

\* A request that is about to move an item still has what its movements take.
MovesJob(q) ==
  LET i == job[q].item  moves == job[q].moves IN
  pc[q] = "checked" /\ job[q].op \notin {"removeItem", "removeGodown"} =>
    /\ i \in Items /\ lock[i] = q
    /\ IsMoves(moves) /\ PaperFits(moves, job[q].paper)
    /\ ~AllowNegative => \A p \in DOMAIN moves : Held(i, p) + moves[p] >= 0

RemovalJob(q) ==
  pc[q] = "checked" =>
    /\ job[q].op = "removeItem" => job[q].item \in Items
    /\ job[q].op = "removeGodown" => job[q].godown \in Godowns

\* What lies in a godown, or ever did, is on record as its use.
UseIsRecorded ==
  \A g \in Godowns : ~godown[g].used =>
    /\ \A i \in Items : moved[i][g] = 0
    /\ \A k \in Papers : paper[k].at # g

UsedGodownsExist == \A g \in Godowns : godown[g].used => godown[g].exists

\* One request at a time, or no item is removed: remove() of items.service.ts counts papers
\* without a lock, so that a paper may be posted before its write.
ItemsAlone == "removeItem" \notin Ops \/ \A q, r \in Requests : q = r

\* What is about to be removed has no paper, and the paper about to be posted a live item.
LinkJob(q) ==
  pc[q] = "checked" =>
    /\ job[q].op \in Ops
    /\ job[q].op = "removeItem" => \A k \in Papers : paper[k].item # job[q].item
    /\ job[q].op \notin {"removeItem", "removeGodown"} =>
         /\ item[job[q].item] # "deleted"
         /\ \A k \in DOMAIN job[q].paper : job[q].paper[k].item = job[q].item

LinksHold == ItemsAlone => LinkedItemsRetained /\ \A q \in Requests : LinkJob(q)

IInv ==
  /\ RowsOK
  /\ MovementsExplainStock /\ NothingBelowZero
  /\ UseIsRecorded /\ UsedGodownsExist
  /\ \A q \in Requests : MovesJob(q) /\ RemovalJob(q)
=============================================================================
