------------------------------- MODULE Amounts -------------------------------
(***************************************************************************)
(* Sums of money over a set of rows.                                       *)
(*                                                                         *)
(* The billing code adds integer paise (scaled(), toPaise()), so every     *)
(* amount of the models is a natural number.  The sum of f over S is the   *)
(* number of unit coins lying under the graph of f: a definition without   *)
(* recursion, so that facts about it can be proved and not only checked.   *)
(***************************************************************************)
EXTENDS Integers, FiniteSets

\* The coins of row x, and those of all the rows of S.
Coins(x, f) == {x} \X (1 .. f[x])
CoinsOf(S, f) == UNION {Coins(x, f) : x \in S}

\* The sum of f[x] for x in S.
SumOf(S, f) == Cardinality(CoinsOf(S, f))
=============================================================================
