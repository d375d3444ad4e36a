---------------------------- MODULE AmountsProofs ----------------------------
(***************************************************************************)
(* What SumOf computes: the empty sum, one row more, one row less, equal   *)
(* rows, and the bounds the ledgers' invariants need.                      *)
(***************************************************************************)
EXTENDS Amounts, FiniteSetTheorems, TLAPS

\* The coins of one row are finite and as many as its amount.
LEMMA CoinsCount ==
  ASSUME NEW x, NEW f, f[x] \in Nat
  PROVE  /\ IsFiniteSet(Coins(x, f))
         /\ Cardinality(Coins(x, f)) = f[x]
<1>1. IsFiniteSet({x}) /\ Cardinality({x}) = 1
  BY FS_Singleton
<1>2. IsFiniteSet(1 .. f[x]) /\ Cardinality(1 .. f[x]) = f[x]
  BY FS_Interval
<1>3. /\ IsFiniteSet({x} \X (1 .. f[x]))
      /\ Cardinality({x} \X (1 .. f[x])) = Cardinality({x}) * Cardinality(1 .. f[x])
  BY <1>1, <1>2, FS_Product, Zenon
<1>4. Cardinality({x}) * Cardinality(1 .. f[x]) = f[x]
  BY <1>1, <1>2, SMT
<1>5. QED
  BY <1>3, <1>4, Zenon DEF Coins

\* The coins of a finite set of rows are finite, so their sum is a natural.
LEMMA SumIsNat ==
  ASSUME NEW S, IsFiniteSet(S), NEW f, \A x \in S : f[x] \in Nat
  PROVE  IsFiniteSet(CoinsOf(S, f)) /\ SumOf(S, f) \in Nat
<1> DEFINE T == {Coins(x, f) : x \in S}
           g == [x \in S |-> Coins(x, f)]
<1>1. g \in Surjection(S, T)
  BY DEF Surjection
<1>2. IsFiniteSet(T)
  BY <1>1, FS_Surjection
<1>3. \A t \in T : IsFiniteSet(t)
  BY CoinsCount
<1>4. IsFiniteSet(UNION T)
  BY <1>2, <1>3, FS_UNION
<1>5. QED
  BY <1>4, FS_CardinalityType DEF CoinsOf, SumOf

\* No row, no money.
LEMMA SumEmpty ==
  ASSUME NEW f
  PROVE  SumOf({}, f) = 0
<1>1. CoinsOf({}, f) = {}
  BY DEF CoinsOf
<1>2. QED
  BY <1>1, FS_EmptySet DEF SumOf

\* Rows with the same amounts have the same sum.
LEMMA SumSame ==
  ASSUME NEW S, NEW f, NEW g, \A x \in S : f[x] = g[x]
  PROVE  SumOf(S, f) = SumOf(S, g)
<1>1. CoinsOf(S, f) = CoinsOf(S, g)
  BY DEF CoinsOf, Coins
<1>2. QED
  BY <1>1 DEF SumOf

\* One more row adds its amount.
LEMMA SumAdd ==
  ASSUME NEW S, IsFiniteSet(S), NEW x, x \notin S, NEW f,
         \A y \in S \cup {x} : f[y] \in Nat
  PROVE  SumOf(S \cup {x}, f) = SumOf(S, f) + f[x]
<1>1. CoinsOf(S \cup {x}, f) = CoinsOf(S, f) \cup Coins(x, f)
  BY DEF CoinsOf
<1>2. CoinsOf(S, f) \cap Coins(x, f) = {}
  BY DEF CoinsOf, Coins
<1>3. IsFiniteSet(CoinsOf(S, f)) /\ SumOf(S, f) \in Nat
  BY SumIsNat
<1>4. IsFiniteSet(Coins(x, f)) /\ Cardinality(Coins(x, f)) = f[x]
  BY CoinsCount
<1>5. Cardinality(CoinsOf(S, f) \cup Coins(x, f))
        = Cardinality(CoinsOf(S, f)) + Cardinality(Coins(x, f)) - Cardinality({})
  BY <1>2, <1>3, <1>4, FS_Union
<1>6. Cardinality(CoinsOf(S, f) \cup Coins(x, f)) = SumOf(S, f) + f[x] - Cardinality({})
  BY <1>4, <1>5, Zenon DEF SumOf
<1>7. Cardinality({}) = 0
  BY FS_EmptySet
<1>8. SumOf(S, f) + f[x] - 0 = SumOf(S, f) + f[x]
  BY <1>3, SMT
<1>9. QED
  BY <1>1, <1>6, <1>7, <1>8, Zenon DEF SumOf

\* One row less takes its amount off.
LEMMA SumRemove ==
  ASSUME NEW S, IsFiniteSet(S), NEW x \in S, NEW f,
         \A y \in S : f[y] \in Nat
  PROVE  SumOf(S, f) = SumOf(S \ {x}, f) + f[x]
<1>1. IsFiniteSet(S \ {x}) /\ x \notin S \ {x} /\ (S \ {x}) \cup {x} = S
  BY FS_RemoveElement
<1>2. SumOf((S \ {x}) \cup {x}, f) = SumOf(S \ {x}, f) + f[x]
  BY <1>1, SumAdd
<1>3. QED
  BY <1>1, <1>2

\* A row of the set is at most the sum.
LEMMA SumMember ==
  ASSUME NEW S, IsFiniteSet(S), NEW x \in S, NEW f,
         \A y \in S : f[y] \in Nat
  PROVE  f[x] <= SumOf(S, f)
<1>1. SumOf(S, f) = SumOf(S \ {x}, f) + f[x]
  BY SumRemove
<1>2. SumOf(S \ {x}, f) \in Nat
  BY FS_RemoveElement, SumIsNat
<1>3. QED
  BY <1>1, <1>2

\* Fewer rows sum to no more.
LEMMA SumSubset ==
  ASSUME NEW S, IsFiniteSet(S), NEW T \in SUBSET S, NEW f,
         \A y \in S : f[y] \in Nat
  PROVE  SumOf(T, f) <= SumOf(S, f)
<1>1. CoinsOf(T, f) \in SUBSET CoinsOf(S, f)
  BY DEF CoinsOf
<1>2. IsFiniteSet(CoinsOf(S, f))
  BY SumIsNat
<1>3. QED
  BY <1>1, <1>2, FS_Subset DEF SumOf

\* Rows without an amount do not count.
LEMMA SumOfPositive ==
  ASSUME NEW S, NEW T \in SUBSET S, NEW f, \A x \in S \ T : f[x] = 0
  PROVE  SumOf(S, f) = SumOf(T, f)
<1>1. \A x \in S \ T : Coins(x, f) = {}
  BY DEF Coins
<1>2. CoinsOf(S, f) = CoinsOf(T, f)
  BY <1>1 DEF CoinsOf
<1>3. QED
  BY <1>2 DEF SumOf

\* When one row changes, so does the sum, by as much.
LEMMA SumChange ==
  ASSUME NEW S, IsFiniteSet(S), NEW x \in S, NEW f, NEW g,
         \A y \in S : f[y] \in Nat /\ g[y] \in Nat,
         \A y \in S \ {x} : g[y] = f[y]
  PROVE  SumOf(S, g) = SumOf(S, f) - f[x] + g[x]
<1>1. SumOf(S, f) = SumOf(S \ {x}, f) + f[x]
  BY SumRemove
<1>2. SumOf(S, g) = SumOf(S \ {x}, g) + g[x]
  BY SumRemove
<1>3. SumOf(S \ {x}, f) = SumOf(S \ {x}, g)
  BY SumSame
<1>4. SumOf(S \ {x}, f) \in Nat
  BY FS_RemoveElement, SumIsNat
<1>5. QED
  BY <1>1, <1>2, <1>3, <1>4

\* Rows are sorted into disjoint groups: the sum of all rows is the sum of the
\* groups' sums.
LEMMA SumOfSums ==
  ASSUME NEW S, IsFiniteSet(S), NEW rows, NEW all, NEW f, NEW h,
         \A x : x \in all <=> \E i \in S : x \in rows[i],
         \A i \in S : IsFiniteSet(rows[i]) /\ h[i] = SumOf(rows[i], f),
         \A i \in S : \A x \in rows[i] : f[x] \in Nat,
         \A i, j \in S : i # j => rows[i] \cap rows[j] = {}
  PROVE  SumOf(all, f) = SumOf(S, h)
<1> DEFINE From == CoinsOf(S, h)
           To == CoinsOf(all, f)
           count == [i \in S |-> CHOOSE b : b \in Bijection(1 .. h[i], CoinsOf(rows[i], f))]
           k == [c \in From |-> count[c[1]][c[2]]]
<1>1. \A i \in S : h[i] \in Nat /\ count[i] \in Bijection(1 .. h[i], CoinsOf(rows[i], f))
  <2> SUFFICES ASSUME NEW i \in S
               PROVE  h[i] \in Nat /\ count[i] \in Bijection(1 .. h[i], CoinsOf(rows[i], f))
    OBVIOUS
  <2>1. IsFiniteSet(rows[i]) /\ h[i] = Cardinality(CoinsOf(rows[i], f))
    BY DEF SumOf
  <2>2. IsFiniteSet(CoinsOf(rows[i], f))
    BY <2>1, SumIsNat
  <2>3. h[i] \in Nat /\ ExistsBijection(1 .. h[i], CoinsOf(rows[i], f))
    BY <2>1, <2>2, FS_CardinalityType
  <2>4. QED
    BY <2>3 DEF ExistsBijection
<1> HIDE DEF count
<1>2. \A i \in S : /\ count[i] \in [1 .. h[i] -> CoinsOf(rows[i], f)]
                   /\ \A m, n \in 1 .. h[i] : count[i][m] = count[i][n] => m = n
                   /\ \A t \in CoinsOf(rows[i], f) : \E n \in 1 .. h[i] : count[i][n] = t
  <2> SUFFICES ASSUME NEW i \in S
               PROVE  /\ count[i] \in [1 .. h[i] -> CoinsOf(rows[i], f)]
                      /\ \A m, n \in 1 .. h[i] : count[i][m] = count[i][n] => m = n
                      /\ \A t \in CoinsOf(rows[i], f) : \E n \in 1 .. h[i] : count[i][n] = t
    OBVIOUS
  <2>1. PICK b : b = count[i] /\ b \in Bijection(1 .. h[i], CoinsOf(rows[i], f))
    BY <1>1
  <2>2. /\ b \in [1 .. h[i] -> CoinsOf(rows[i], f)]
        /\ \A m, n \in 1 .. h[i] : b[m] = b[n] => m = n
        /\ \A t \in CoinsOf(rows[i], f) : \E n \in 1 .. h[i] : b[n] = t
    BY <2>1 DEF Bijection, Injection, Surjection, IsInjective
  <2>3. QED
    BY <2>1, <2>2
<1>3. \A c \in From : /\ c[1] \in S /\ c[2] \in 1 .. h[c[1]] /\ c = <<c[1], c[2]>>
  BY DEF CoinsOf, Coins
<1>4. \A i \in S : \A n \in 1 .. h[i] : <<i, n>> \in From
  BY DEF CoinsOf, Coins
<1>5. \A i \in S : \A t \in CoinsOf(rows[i], f) : t \in To /\ t[1] \in rows[i]
  BY DEF CoinsOf, Coins
<1>6. \A t \in To : \E i \in S : t \in CoinsOf(rows[i], f)
  BY DEF CoinsOf, Coins
<1> HIDE DEF From, To
<1>7. k \in [From -> To]
  <2>1. ASSUME NEW c \in From PROVE count[c[1]][c[2]] \in To
    <3>1. PICK i, n : i \in S /\ i = c[1] /\ n = c[2] /\ n \in 1 .. h[i]
      BY <1>3
    <3>2. count[i] \in [1 .. h[i] -> CoinsOf(rows[i], f)]
      BY <1>2, <3>1
    <3>3. count[i][n] \in CoinsOf(rows[i], f)
      BY <3>1, <3>2
    <3>4. QED
      BY <1>5, <3>1, <3>3
  <2>2. QED
    BY <2>1
<1>8. ASSUME NEW c \in From, NEW d \in From, k[c] = k[d] PROVE c = d
  <2>1. k[c] = count[c[1]][c[2]] /\ k[d] = count[d[1]][d[2]]
    OBVIOUS
  <2>2. k[c] \in CoinsOf(rows[c[1]], f) /\ k[d] \in CoinsOf(rows[d[1]], f)
    <3>1. \A i \in S : \A n \in 1 .. h[i] : count[i][n] \in CoinsOf(rows[i], f)
      BY <1>2
    <3>2. QED
      BY <1>3, <2>1, <3>1
  <2>3. k[c][1] \in rows[c[1]] /\ k[c][1] \in rows[d[1]]
    BY <1>3, <1>5, <1>8, <2>2
  <2>4. c[1] = d[1]
    BY <1>3, <2>3
  <2>5. c[2] = d[2]
    BY <1>2, <1>3, <1>8, <2>1, <2>4
  <2>6. QED
    BY <1>3, <2>4, <2>5
<1>9. ASSUME NEW t \in To PROVE \E c \in From : k[c] = t
  <2>1. PICK i \in S : t \in CoinsOf(rows[i], f)
    BY <1>6
  <2>2. PICK n \in 1 .. h[i] : count[i][n] = t
    BY <1>2, <2>1
  <2>3. <<i, n>> \in From /\ k[<<i, n>>] = t
    BY <1>4, <2>2
  <2>4. QED
    BY <2>3
<1> HIDE DEF k
<1>10. k \in Bijection(From, To)
  BY <1>7, <1>8, <1>9 DEF Bijection, Injection, Surjection, IsInjective
<1>11. IsFiniteSet(From)
  BY <1>1, SumIsNat DEF From
<1>12. Cardinality(To) = Cardinality(From)
  BY <1>10, <1>11, FS_Bijection DEF ExistsBijection
<1>13. QED
  BY <1>12 DEF SumOf, From, To
=============================================================================
