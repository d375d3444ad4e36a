------------------------------ MODULE RowLocks ------------------------------
(***************************************************************************)
(* Row locks of the billing transactions (billing-transaction.util.ts).    *)
(*                                                                         *)
(* A request runs one interactive READ COMMITTED transaction: it locks     *)
(* rows with SELECT ... FOR UPDATE, reads, checks, and commits all of its  *)
(* writes together.  A plain read sees what is committed when it runs and  *)
(* waits for nobody; a lock or a write of a row waits until no other       *)
(* transaction has the row locked; every lock is kept until the end.       *)
(*                                                                         *)
(* Each ledger EXTENDS this module and gives every handler the stages      *)
(*   idle -> first -> second -> checked -> idle                            *)
(* "first" and "second" take the locks named by the request's want set     *)
(* before a read that may ask for more, "checked" holds the values read    *)
(* and the plan to commit.                                                 *)
(***************************************************************************)
CONSTANTS
  Requests,   \* requests being served at the same time, by any server process
  NoOne       \* the owner of a free lock; also the missing value of a field

ASSUME NoOneAssumption == NoOne \notin Requests

VARIABLES
  lock,       \* lock[row]: the request that has the row locked, or NoOne
  pc,         \* pc[q]: the stage of request q
  job         \* job[q]: its arguments and what its reads returned

Stages == {"idle", "first", "second", "checked"}

\* SELECT ... FOR UPDATE of a row returns: the row is free.
CanLock(row) == lock[row] = NoOne

\* An UPDATE of a row by q goes through: no other transaction has it locked.
CanWrite(q, row) == lock[row] \in {NoOne, q}

\* COMMIT and ROLLBACK give back every lock of q.
Released(q) == [row \in DOMAIN lock |-> IF lock[row] = q THEN NoOne ELSE lock[row]]
=============================================================================
