--------------------------- MODULE ServicesProofs ---------------------------
(***************************************************************************)
(* Theorems about what papers go through: the order in which handlers lock *)
(* rows (BillingLocks), the delivery of invoices (InvoiceDelivery, here    *)
(* the instance Delivery) and the documents (DocumentFlow, the instance    *)
(* Flow).                                                                  *)
(*                                                                         *)
(* Locks: the argument is the usual one of ordered resources: who waits    *)
(* holds rows below the one it waits for, so that along a circle the rows  *)
(* would climb for ever.  Papers, which have no order among themselves,    *)
(* are held two at a time only with their branch, which one request has.   *)
(* Delivery: each step is one of six kinds: the request goes on with what  *)
(* it has, ends, starts, opens an attempt, sends, or only the invoice      *)
(* changes; a lemma for each kind keeps the invariant.                     *)
(* Flow: a request that has checked is going to make one of eight writes;  *)
(* IInv says of each on what it relies.  Committing says what the commit   *)
(* of each does to the rows, Respects what it leaves to everybody else:    *)
(* then a commit is looked at once for each table invariant, and what a    *)
(* request relies on once for all steps of others.                         *)
(***************************************************************************)
EXTENDS BillingLocks, AmountsProofs, WellFoundedInduction

\* The constants and variables of InvoiceDelivery that BillingLocks does not have.
CONSTANTS Invoices, Attempts, Channels, TwoStep, Reachable, Nobody, Faults, Sending
VARIABLES invoice, attempt, outbox

Delivery == INSTANCE InvoiceDelivery WITH Ops <- Sending

\* The constants and variables of DocumentFlow that neither has.
CONSTANTS Docs, Sold, MaxQty, Linked, PaperOps
VARIABLES doc, sold, out

Flow == INSTANCE DocumentFlow WITH Invoices <- Sold, invoice <- sold, Ops <- PaperOps

-----------------------------------------------------------------------------
(* First and least elements.                                                 *)

\* In a finite order something has nothing above it.
LEMMA SomeLast ==
  ASSUME NEW C, IsFiniteSet(C), C # {}, NEW above \in [C -> SUBSET C],
         \A s \in C : s \notin above[s],
         \A s, t \in C : t \in above[s] => above[t] \subseteq above[s]
  PROVE  \E s \in C : above[s] = {}
<1> DEFINE T == {above[s] : s \in C}
<1>1. IsWellFoundedOn(StrictSubsetOrdering(C), FiniteSubsetsOf(C))
  BY FS_StrictSubsetOrderingWellFounded
<1>2. T \subseteq FiniteSubsetsOf(C) /\ T # {}
  <2>1. FiniteSubsetsOf(C) = SUBSET C
    BY FS_FiniteSubsetsOfFinite
  <2>2. PICK s \in C : TRUE
    OBVIOUS
  <2>3. above[s] \in T
    BY <2>2
  <2>4. QED
    BY <2>1, <2>3
<1>3. PICK b \in T : \A c \in T : <<c, b>> \notin StrictSubsetOrdering(C)
  BY <1>1, <1>2, WFMin
<1>4. PICK s \in C : b = above[s]
  OBVIOUS
<1>5. SUFFICES ASSUME NEW t \in above[s] PROVE FALSE
  OBVIOUS
<1>6. above[t] \subseteq above[s] /\ t \notin above[t]
  OBVIOUS
<1>7. <<above[t], above[s]>> \in StrictSubsetOrdering(C)
  BY <1>5, <1>6 DEF StrictSubsetOrdering
<1>8. QED
  BY <1>3, <1>4, <1>7

LEMMA LeastNumber ==
  ASSUME NEW S \in SUBSET Nat, S # {}
  PROVE  \E m \in S : \A n \in S : m <= n
<1>1. PICK k \in S : TRUE
  OBVIOUS
<1> DEFINE C == {n \in S : n <= k}
           above == [n \in C |-> {m \in C : m < n}]
<1>2. IsFiniteSet(C)
  <2>1. C \in SUBSET Nat /\ k \in Nat /\ \A n \in C : n <= k
    OBVIOUS
  <2>2. QED
    BY <2>1, FS_BoundedSetOfNaturals
<1>3. C # {} /\ above \in [C -> SUBSET C] /\ \A n \in C : n \notin above[n]
  BY <1>1
<1>4. \A n, m \in C : m \in above[n] => above[m] \subseteq above[n]
  <2>1. \A i, n, m \in Nat : i < m /\ m < n => i < n
    OBVIOUS
  <2>2. C \subseteq Nat
    OBVIOUS
  <2> HIDE DEF C
  <2>3. QED
    BY <2>1, <2>2
<1>5. PICK m \in C : above[m] = {}
  <2> HIDE DEF C, above
  <2> QED
    BY <1>2, <1>3, <1>4, SomeLast
<1>6. \A n \in S : m <= n
  <2>1. ASSUME NEW n \in S, ~(m <= n)
        PROVE  FALSE
    <3>1. m \in Nat /\ n \in Nat /\ k \in Nat /\ m <= k
      OBVIOUS
    <3>2. n < m /\ n <= k
      BY <2>1, <3>1
    <3>3. n \in {i \in C : i < m}
      BY <3>2
    <3>4. QED
      BY <1>5, <3>3
  <2>2. QED
    BY <2>1
<1>7. QED
  BY <1>6

LEMMA VictimsWait ==
  ASSUME NEW q \in Requests, Deadlocked(q)
  PROVE  LocksNext(q)
<1>1. PICK C \in SUBSET Requests : q \in C /\ Circle(C)
  BY DEF Deadlocked
<1>2. PICK r \in C : WaitsFor(q, r)
  BY <1>1 DEF Circle
<1>3. QED
  BY <1>2 DEF WaitsFor

\* Rows of one branch can be told apart by their kind and id.
LEMMA OneRowPerId ==
  ASSUME NEW b, NEW x \in RowsOf(b), NEW y \in RowsOf(b), x.kind = y.kind, x.id = y.id
  PROVE  x = y
<1> DEFINE home(r) == IF r.kind \in SharedKinds THEN 0 ELSE b
<1>1. ASSUME NEW r \in RowsOf(b)
      PROVE  r = Row(r.kind, home(r), r.id)
  <2>1. CASE r = Branch(b)
    BY <2>1 DEF Branch, Row, SharedKinds
  <2>2. ASSUME NEW kind \in BranchKinds, r \in Owned(kind, b)
        PROVE  r = Row(r.kind, home(r), r.id)
    BY <2>2 DEF Owned, Row, BranchKinds, SharedKinds
  <2>3. ASSUME NEW kind \in SharedKinds, r \in Shared(kind)
        PROVE  r = Row(r.kind, home(r), r.id)
    BY <2>3 DEF Shared, Owned, Row
  <2>4. \/ r = Branch(b)
        \/ \E kind \in BranchKinds : r \in Owned(kind, b)
        \/ \E kind \in SharedKinds : r \in Shared(kind)
    BY DEF RowsOf
  <2>5. QED
    BY <2>1, <2>2, <2>3, <2>4
<1>2. home(x) = home(y)
  OBVIOUS
<1> HIDE DEF home
<1>3. QED
  BY <1>1, <1>2

LEMMA RowsAreKnown ==
  ASSUME LocksAssumption
  PROVE  \A r \in Rows : r.id \in Nat /\ r.kind # "connection"
<1>1. SUFFICES ASSUME NEW r \in Rows PROVE r.id \in Nat /\ r.kind # "connection"
  OBVIOUS
<1>2. CASE \E b \in Branches : r = Branch(b)
  BY <1>2 DEF Branch, Row
<1>3. ASSUME NEW kind \in BranchKinds \cup SharedKinds, NEW b, r \in Owned(kind, b)
      PROVE  r.id \in Nat /\ r.kind # "connection"
  BY <1>3 DEF LocksAssumption, Owned, Row, BranchKinds, SharedKinds
<1>4. \/ \E b \in Branches : r = Branch(b)
      \/ \E kind \in BranchKinds, b \in Branches : r \in Owned(kind, b)
      \/ \E kind \in SharedKinds : r \in Owned(kind, 0)
  BY DEF Rows, Shared
<1>5. QED
  BY <1>2, <1>3, <1>4

\* The row that NextRow() chooses is there.
LEMMA LeastOfGroup ==
  ASSUME LocksAssumption, NEW G \in SUBSET Rows, G # {}
  PROVE  \E r \in G : \A s \in G : r.id <= s.id
<1> DEFINE S == {r.id : r \in G}
<1>1. S \in SUBSET Nat /\ S # {}
  BY RowsAreKnown
<1>2. PICK m \in S : \A n \in S : m <= n
  <2> HIDE DEF S
  <2> QED
    BY <1>1, LeastNumber
<1>3. QED
  BY <1>2

\* Passed() drops the empty groups at the head of a plan and nothing else.
LEMMA Passing ==
  ASSUME NEW G, NEW plan \in Seq(G)
  PROVE  /\ Passed(plan) \in Seq(G)
         /\ Passed(plan) # <<>> => Head(Passed(plan)) # {}
         /\ \E d \in Nat : /\ Len(plan) = Len(Passed(plan)) + d
                           /\ \A i \in 1..Len(Passed(plan)) : Passed(plan)[i] = plan[i + d]
                           /\ \A i \in 1..d : plan[i] = {}
<1> DEFINE filled == {i \in 1..Len(plan) : plan[i] # {}}
           first == CHOOSE i \in filled : \A k \in filled : i <= k
<1>1. CASE filled = {}
  <2>1. Passed(plan) = <<>>
    BY <1>1 DEF Passed
  <2>2. QED
    BY <1>1, <2>1
<1>2. CASE filled # {}
  <2>1. first \in filled /\ \A k \in filled : first <= k
    <3>1. filled \in SUBSET Nat
      OBVIOUS
    <3>2. \E m \in filled : \A k \in filled : m <= k
      <4> HIDE DEF filled
      <4> QED
        BY <1>2, <3>1, LeastNumber
    <3>3. QED
      BY <3>2
  <2>2. Passed(plan) = SubSeq(plan, first, Len(plan))
    BY <1>2 DEF Passed
  <2> HIDE DEF first
  <2>3. /\ Passed(plan) \in Seq(G) /\ Len(Passed(plan)) = Len(plan) - first + 1
        /\ \A i \in 1..Len(Passed(plan)) : Passed(plan)[i] = plan[first + i - 1]
    BY <2>1, <2>2
  <2>4. Head(Passed(plan)) # {}
    BY <2>1, <2>3
  <2>5. \A i \in 1..(first - 1) : plan[i] = {}
    BY <2>1
  <2>6. /\ first - 1 \in Nat /\ Len(plan) = Len(Passed(plan)) + (first - 1)
        /\ \A i \in 1..Len(Passed(plan)) : Passed(plan)[i] = plan[i + (first - 1)]
    <3>1. \A i \in 1..Len(Passed(plan)) : first + i - 1 = i + (first - 1)
      BY <2>1, <2>3
    <3>2. QED
      BY <2>1, <2>3, <3>1
  <2>7. QED
    BY <2>3, <2>4, <2>5, <2>6
<1>3. QED
  BY <1>1, <1>2

-----------------------------------------------------------------------------
(* Plans.                                                                    *)

\* What is ahead of a handler does not depend on empty groups, nor does its order.
LEMMA PassedInOrder ==
  ASSUME NEW b, NEW held, NEW plan, InOrder(b, held, plan)
  PROVE  InOrder(b, held, Passed(plan))
<1> DEFINE p == Passed(plan)
<1>1. plan \in Seq(Groups) /\ p \in Seq(Groups)
  <2>1. plan \in Seq(Groups)
    BY DEF InOrder
  <2>2. QED
    BY <2>1, Passing
<1>2. PICK d \in Nat : /\ Len(plan) = Len(p) + d
                       /\ \A i \in 1..Len(p) : p[i] = plan[i + d]
                       /\ \A i \in 1..d : plan[i] = {}
  BY <1>1, Passing
<1> HIDE DEF p
<1>3. \A i \in DOMAIN p : i \in Nat /\ i + d \in DOMAIN plan /\ p[i] = plan[i + d]
  BY <1>1, <1>2
<1>4. Ahead(p) = Ahead(plan)
  <2>1. \A i \in DOMAIN plan : plan[i] # {} => \E j \in DOMAIN p : p[j] = plan[i]
    <3>1. SUFFICES ASSUME NEW i \in DOMAIN plan, plan[i] # {}
                   PROVE  \E j \in DOMAIN p : p[j] = plan[i]
      OBVIOUS
    <3>2. i \in 1..Len(plan) /\ i \notin 1..d /\ DOMAIN p = 1..Len(p)
      BY <1>1, <1>2, <3>1
    <3>3. i - d \in 1..Len(p) /\ (i - d) + d = i
      BY <1>1, <1>2, <3>2
    <3>4. QED
      BY <1>2, <3>2, <3>3
  <2>2. QED
    BY <1>3, <2>1 DEF Ahead
<1>5. \A i \in DOMAIN p : \A x, y \in p[i] : x.kind = y.kind
  BY <1>3 DEF InOrder
<1>6. \A i, j \in DOMAIN p : i < j => i + d < j + d
  BY <1>3
<1>7. \A i, j \in DOMAIN p : \A x \in p[i] \ Outside, y \in p[j] \ Outside :
        i < j => Below(x, y) \/ y \in held \cup p[i]
  BY <1>3, <1>6 DEF InOrder
<1>8. QED
  BY <1>1, <1>4, <1>5, <1>7 DEF InOrder, p

\* A query through the pool locks nothing.
LEMMA AskedInOrder ==
  ASSUME NEW b, NEW held, NEW plan, InOrder(b, held, plan),
         plan # <<>>, Head(plan) = Outside
  PROVE  InOrder(b, held, Tail(plan))
<1> DEFINE p == Tail(plan)
<1>1. plan \in Seq(Groups)
  BY DEF InOrder
<1>2. p \in Seq(Groups) /\ Len(plan) = Len(p) + 1 /\ plan[1] = Outside
  BY <1>1
<1>3. \A i \in DOMAIN p : i \in Nat /\ i + 1 \in DOMAIN plan /\ p[i] = plan[i + 1]
  BY <1>1, <1>2
<1> HIDE DEF p
<1>4. Ahead(p) = Ahead(plan)
  <2>1. \A i \in DOMAIN plan : i = 1 \/ \E j \in DOMAIN p : p[j] = plan[i]
    <3>1. SUFFICES ASSUME NEW i \in DOMAIN plan, i # 1
                   PROVE  \E j \in DOMAIN p : p[j] = plan[i]
      OBVIOUS
    <3>2. i - 1 \in DOMAIN p /\ (i - 1) + 1 = i
      BY <1>1, <1>2, <3>1
    <3>3. QED
      BY <1>3, <3>2
  <2>2. QED
    BY <1>2, <1>3, <2>1 DEF Ahead
<1>5. \A i \in DOMAIN p : \A x, y \in p[i] : x.kind = y.kind
  BY <1>3 DEF InOrder
<1>6. \A i, j \in DOMAIN p : i < j => i + 1 < j + 1
  BY <1>3
<1>7. \A i, j \in DOMAIN p : \A x \in p[i] \ Outside, y \in p[j] \ Outside :
        i < j => Below(x, y) \/ y \in held \cup p[i]
  BY <1>3, <1>6 DEF InOrder
<1>8. QED
  BY <1>2, <1>4, <1>5, <1>7 DEF InOrder, p

\* The least row of the group at the head is locked.
LEMMA LockedInOrder ==
  ASSUME LocksAssumption, NEW b, NEW held, NEW plan, InOrder(b, held, plan),
         plan # <<>>, Head(plan) # Outside,
         NEW n \in Head(plan), \A r \in Head(plan) : n.id <= r.id
  PROVE  InOrder(b, held \cup {n}, Without(n, plan))
<1> DEFINE p == Without(n, plan)
<1>1. plan \in Seq(Groups) /\ Head(plan) = plan[1] /\ 1 \in DOMAIN plan
  BY DEF InOrder
<1>2. plan[1] \in SUBSET Rows
  BY <1>1 DEF Groups
<1>3. plan[1] \ {n} \in Groups
  BY <1>2 DEF Groups
<1>4. /\ p \in Seq(Groups) /\ DOMAIN p = DOMAIN plan
      /\ p[1] = plan[1] \ {n} /\ \A i \in DOMAIN plan \ {1} : p[i] = plan[i]
  BY <1>1, <1>3 DEF Without
<1> HIDE DEF p
<1>5. \A i \in DOMAIN p : p[i] \subseteq plan[i]
  BY <1>4
<1>6. n \in Ahead(plan)
  <2>1. n \notin Outside
    BY <1>1, <1>2, RowsAreKnown DEF Outside, Row
  <2>2. QED
    BY <1>1, <2>1 DEF Ahead
<1>7. Ahead(p) \subseteq Ahead(plan) /\ Ahead(plan) \subseteq Ahead(p) \cup {n}
  BY <1>4, <1>5 DEF Ahead
<1>8. held \cup {n} \cup Ahead(p) = held \cup Ahead(plan)
  BY <1>6, <1>7
\* What shares the head with n has a greater id, what follows is above n.
<1>9. \A y \in Ahead(plan) : Below(n, y) \/ y \in held \cup {n}
  <2>1. SUFFICES ASSUME NEW j \in DOMAIN plan, NEW y \in plan[j] \ Outside, y # n, y \notin held
                 PROVE  Below(n, y)
    BY DEF Ahead
  <2>2. CASE y \in plan[1]
    <3>1. n.kind = y.kind
      BY <1>1, <2>2 DEF InOrder
    <3>2. n.id # y.id
      <4>1. n \in RowsOf(b) /\ y \in RowsOf(b)
        BY <1>6, <2>1 DEF InOrder, Ahead
      <4>2. QED
        BY <2>1, <3>1, <4>1, OneRowPerId
    <3>3. n.id \in Nat /\ y.id \in Nat /\ n.id <= y.id
      BY <1>1, <1>2, <2>2, RowsAreKnown
    <3>4. QED
      BY <3>1, <3>2, <3>3 DEF Below
  <2>3. CASE y \notin plan[1]
    <3>1. j # 1 /\ 1 < j
      BY <1>1, <2>3
    <3>2. n \in plan[1] \ Outside
      BY <1>1, <1>6 DEF Ahead
    <3>3. QED
      BY <1>1, <2>1, <2>3, <3>1, <3>2 DEF InOrder
  <2>4. QED
    BY <2>2, <2>3
<1>10. \A i \in DOMAIN p : \A x, y \in p[i] : x.kind = y.kind
  BY <1>4, <1>5 DEF InOrder
<1>11. \A i, j \in DOMAIN p : \A x \in p[i] \ Outside, y \in p[j] \ Outside :
         i < j => Below(x, y) \/ y \in (held \cup {n}) \cup p[i]
  <2>1. SUFFICES ASSUME NEW i \in DOMAIN p, NEW j \in DOMAIN p, i < j,
                        NEW x \in p[i] \ Outside, NEW y \in p[j] \ Outside
                 PROVE  Below(x, y) \/ y \in (held \cup {n}) \cup p[i]
    OBVIOUS
  <2>2. x \in plan[i] \ Outside /\ y \in plan[j] \ Outside /\ plan[i] \subseteq p[i] \cup {n}
    BY <1>4, <1>5, <2>1
  <2>3. Below(x, y) \/ y \in held \cup plan[i]
    BY <1>4, <2>1, <2>2 DEF InOrder
  <2>4. QED
    BY <2>2, <2>3
<1>12. \A x \in held \cup {n}, y \in Ahead(p) :
         Below(x, y) \/ y \in held \cup {n}
  <2>1. \A x \in held, y \in Ahead(plan) : Below(x, y) \/ y \in held
    BY DEF InOrder
  <2>2. QED
    BY <1>7, <1>9, <2>1
<1>13. InOrder(b, held \cup {n}, p)
  BY <1>4, <1>8, <1>10, <1>11, <1>12 DEF InOrder
<1>14. QED
  BY <1>13 DEF p

-----------------------------------------------------------------------------
(* The plans of the handlers.                                                *)

\* The rows of one kind that a handler of branch b may lock.
Kin(kind, b) == {r \in RowsOf(b) : r.kind = kind}

LEMMA RowsOfKind ==
  ASSUME NEW b \in Branches
  PROVE  /\ RowsOf(b) \subseteq Rows
         /\ {Branch(b)} \subseteq Kin("branch", b)
         /\ \A kind \in BranchKinds : Owned(kind, b) \subseteq Kin(kind, b)
         /\ \A kind \in SharedKinds : Shared(kind) \subseteq Kin(kind, b)
<1>1. \A kind \in BranchKinds : Owned(kind, b) \subseteq Rows
  BY DEF Rows
<1>2. \A kind \in SharedKinds : Shared(kind) \subseteq Rows
  BY DEF Rows
<1>3. Branch(b) \in Rows
  <2>1. {Branch(b)} \in {{Branch(c)} : c \in Branches}
    OBVIOUS
  <2> HIDE DEF Branch
  <2> DEFINE own == {Owned(kind, c) : kind \in BranchKinds, c \in Branches}
             shared == {Shared(kind) : kind \in SharedKinds}
  <2>2. Rows = UNION ({{Branch(c)} : c \in Branches} \cup own \cup shared)
    BY DEF Rows
  <2> HIDE DEF own, shared
  <2>3. QED
    BY <2>1, <2>2
<1>4. RowsOf(b) \subseteq Rows
  <2>1. SUFFICES ASSUME NEW r \in RowsOf(b) PROVE r \in Rows
    OBVIOUS
  <2>2. \/ r = Branch(b)
        \/ \E kind \in BranchKinds : r \in Owned(kind, b)
        \/ \E kind \in SharedKinds : r \in Shared(kind)
    BY DEF RowsOf
  <2>3. QED
    BY <1>1, <1>2, <1>3, <2>2
<1>5. \A kind \in BranchKinds : Owned(kind, b) \subseteq RowsOf(b)
  BY DEF RowsOf
<1>6. \A kind \in SharedKinds : Shared(kind) \subseteq RowsOf(b)
  BY DEF RowsOf
<1>7. \A kind, c : \A r \in Owned(kind, c) : r.kind = kind
  BY DEF Owned, Row
<1>8. {Branch(b)} \subseteq Kin("branch", b)
  BY DEF Kin, RowsOf, Branch, Row
<1>9. \A kind \in BranchKinds : Owned(kind, b) \subseteq Kin(kind, b)
  BY <1>5, <1>7 DEF Kin
<1>10. \A kind \in SharedKinds : Shared(kind) \subseteq Kin(kind, b)
  BY <1>6, <1>7 DEF Kin, Shared
<1>11. QED
  BY <1>4, <1>8, <1>9, <1>10

\* A plan whose groups are of kinds that follow each other, or repeat a group, is in order,
\* if it begins with the branch or has one paper at most.
LEMMA LayersInOrder ==
  ASSUME NEW b \in Branches, NEW plan, NEW kinds, plan \in Seq(Groups),
         \A i \in DOMAIN plan : \/ plan[i] = Outside
                                \/ plan[i] \subseteq Kin(kinds[i], b),
         \A i, j \in DOMAIN plan : i < j =>
           \/ plan[i] = Outside \/ plan[j] = Outside \/ plan[i] = plan[j]
           \/ Level(kinds[i]) < Level(kinds[j]) \/ (kinds[i] = "paper" /\ kinds[j] = "paper"),
         \/ 1 \in DOMAIN plan /\ plan[1] = {Branch(b)}
         \/ \E r : \A i \in DOMAIN plan : kinds[i] = "paper" => plan[i] \subseteq {r}
  PROVE  InOrder(b, {}, plan)
<1>1. \A i \in DOMAIN plan : \A x \in plan[i] \ Outside :
        x.kind = kinds[i] /\ x \in RowsOf(b) /\ plan[i] # Outside
  BY DEF Kin
<1>2. \A i \in DOMAIN plan : \A x, y \in plan[i] : x.kind = y.kind
  BY DEF Kin, Outside
<1>3. \A x \in Ahead(plan) : x \in RowsOf(b)
  BY <1>1 DEF Ahead
<1>4. \A i, j \in DOMAIN plan : \A x \in plan[i] \ Outside, y \in plan[j] \ Outside :
        i < j => Below(x, y) \/ y \in {} \cup plan[i]
  <2>1. SUFFICES ASSUME NEW i \in DOMAIN plan, NEW j \in DOMAIN plan, i < j,
                        NEW x \in plan[i] \ Outside, NEW y \in plan[j] \ Outside
                 PROVE  Below(x, y) \/ y \in plan[i]
    OBVIOUS
  <2>2. CASE plan[i] = plan[j]
    BY <2>2
  <2>3. CASE Level(kinds[i]) < Level(kinds[j]) \/ (kinds[i] = "paper" /\ kinds[j] = "paper")
    BY <1>1, <2>3 DEF Below
  <2>4. QED
    BY <1>1, <2>1, <2>2, <2>3
<1>5. LonePaper(Ahead(plan)) \/ Branch(b) \in Ahead(plan)
  <2>1. CASE 1 \in DOMAIN plan /\ plan[1] = {Branch(b)}
    <3>1. Branch(b) \notin Outside
      BY DEF Branch, Outside, Row
    <3>2. QED
      BY <2>1, <3>1 DEF Ahead
  <2>2. ASSUME NEW r, \A i \in DOMAIN plan : kinds[i] = "paper" => plan[i] \subseteq {r}
        PROVE  LonePaper(Ahead(plan))
    BY <1>1, <2>2 DEF LonePaper, Ahead
  <2>3. QED
    BY <2>1, <2>2
<1>6. QED
  <2>1. {} \cup Ahead(plan) = Ahead(plan)
    OBVIOUS
  <2>2. QED
    BY <1>2, <1>3, <1>4, <1>5, <2>1 DEF InOrder

\* Groups of rows of one branch, and the query through the pool, can be in a plan.
LEMMA GroupsOfBranch ==
  ASSUME NEW b \in Branches
  PROVE  /\ Outside \in Groups /\ {Branch(b)} \in Groups /\ {} \in Groups
         /\ \A kind \in BranchKinds : SUBSET Owned(kind, b) \subseteq Groups
         /\ \A kind \in SharedKinds : SUBSET Shared(kind) \subseteq Groups
BY RowsOfKind DEF Groups, Kin

LEMMA BranchOnlyInOrder ==
  ASSUME NEW b \in Branches
  PROVE  InOrder(b, {}, <<{Branch(b)}>>)
<1> DEFINE plan == <<{Branch(b)}>>
           kinds == <<"branch">>
<1>1. {Branch(b)} \in Groups
  BY GroupsOfBranch DEF BranchKinds, SharedKinds
<1>2. {Branch(b)} \subseteq Kin("branch", b)
  BY RowsOfKind DEF BranchKinds, SharedKinds
<1>3. plan \in Seq(Groups) /\ DOMAIN plan = 1..1
  BY <1>1
<1>4. /\ plan[1] = {Branch(b)}
      /\ kinds[1] = "branch"
  OBVIOUS
<1> HIDE DEF plan, kinds
<1>5. \A i \in DOMAIN plan : plan[i] = Outside \/ plan[i] \subseteq Kin(kinds[i], b)
  BY <1>2, <1>3, <1>4
<1>6. \A i, j \in DOMAIN plan : i < j =>
        \/ plan[i] = Outside \/ plan[j] = Outside \/ plan[i] = plan[j]
        \/ Level(kinds[i]) < Level(kinds[j]) \/ (kinds[i] = "paper" /\ kinds[j] = "paper")
  BY <1>3, <1>4 DEF Level
<1>7. 1 \in DOMAIN plan /\ plan[1] = {Branch(b)}
  BY <1>3, <1>4
<1>8. InOrder(b, {}, plan)
  BY <1>3, <1>5, <1>6, <1>7, LayersInOrder
<1>9. QED
  BY <1>8 DEF plan

LEMMA PayReceiptInOrder ==
  ASSUME NEW b \in Branches, NEW rs \in SUBSET Owned("account", b), NEW d \in SUBSET Owned("bill", b)
  PROVE  InOrder(b, {}, <<{Branch(b)}, Outside, rs, d>>)
<1> DEFINE plan == <<{Branch(b)}, Outside, rs, d>>
           kinds == <<"branch", "connection", "account", "bill">>
<1>1. {Branch(b)} \in Groups /\ Outside \in Groups /\ rs \in Groups /\ d \in Groups
  BY GroupsOfBranch DEF BranchKinds, SharedKinds
<1>2. {Branch(b)} \subseteq Kin("branch", b) /\ rs \subseteq Kin("account", b) /\ d \subseteq Kin("bill", b)
  BY RowsOfKind DEF BranchKinds, SharedKinds
<1>3. plan \in Seq(Groups) /\ DOMAIN plan = 1..4
  BY <1>1
<1>4. /\ plan[1] = {Branch(b)} /\ plan[2] = Outside /\ plan[3] = rs /\ plan[4] = d
      /\ kinds[1] = "branch" /\ kinds[2] = "connection" /\ kinds[3] = "account" /\ kinds[4] = "bill"
  OBVIOUS
<1> HIDE DEF plan, kinds
<1>5. \A i \in DOMAIN plan : plan[i] = Outside \/ plan[i] \subseteq Kin(kinds[i], b)
  BY <1>2, <1>3, <1>4
<1>6. \A i, j \in DOMAIN plan : i < j =>
        \/ plan[i] = Outside \/ plan[j] = Outside \/ plan[i] = plan[j]
        \/ Level(kinds[i]) < Level(kinds[j]) \/ (kinds[i] = "paper" /\ kinds[j] = "paper")
  BY <1>3, <1>4 DEF Level
<1>7. 1 \in DOMAIN plan /\ plan[1] = {Branch(b)}
  BY <1>3, <1>4
<1>8. InOrder(b, {}, plan)
  BY <1>3, <1>5, <1>6, <1>7, LayersInOrder
<1>9. QED
  BY <1>8 DEF plan

LEMMA VoidReceiptInOrder ==
  ASSUME NEW b \in Branches, NEW d \in SUBSET Owned("bill", b)
  PROVE  InOrder(b, {}, <<d>>)
<1> DEFINE plan == <<d>>
           kinds == <<"bill">>
<1>1. d \in Groups
  BY GroupsOfBranch DEF BranchKinds, SharedKinds
<1>2. d \subseteq Kin("bill", b)
  BY RowsOfKind DEF BranchKinds, SharedKinds
<1>3. plan \in Seq(Groups) /\ DOMAIN plan = 1..1
  BY <1>1
<1>4. /\ plan[1] = d
      /\ kinds[1] = "bill"
  OBVIOUS
<1> HIDE DEF plan, kinds
<1>5. \A i \in DOMAIN plan : plan[i] = Outside \/ plan[i] \subseteq Kin(kinds[i], b)
  BY <1>2, <1>3, <1>4
<1>6. \A i, j \in DOMAIN plan : i < j =>
        \/ plan[i] = Outside \/ plan[j] = Outside \/ plan[i] = plan[j]
        \/ Level(kinds[i]) < Level(kinds[j]) \/ (kinds[i] = "paper" /\ kinds[j] = "paper")
  BY <1>3, <1>4 DEF Level
<1>7. \E r : \A i \in DOMAIN plan : kinds[i] = "paper" => plan[i] \subseteq {r}
  BY <1>3, <1>4
<1>8. InOrder(b, {}, plan)
  BY <1>3, <1>5, <1>6, <1>7, LayersInOrder
<1>9. QED
  BY <1>8 DEF plan

LEMMA CreateInvoiceInOrder ==
  ASSUME NEW b \in Branches, NEW ps \in SUBSET Shared("party"), NEW is \in SUBSET Shared("item")
  PROVE  InOrder(b, {}, <<{Branch(b)}, ps, is>>)
<1> DEFINE plan == <<{Branch(b)}, ps, is>>
           kinds == <<"branch", "party", "item">>
<1>1. {Branch(b)} \in Groups /\ ps \in Groups /\ is \in Groups
  BY GroupsOfBranch DEF BranchKinds, SharedKinds
<1>2. {Branch(b)} \subseteq Kin("branch", b) /\ ps \subseteq Kin("party", b) /\ is \subseteq Kin("item", b)
  BY RowsOfKind DEF BranchKinds, SharedKinds
<1>3. plan \in Seq(Groups) /\ DOMAIN plan = 1..3
  BY <1>1
<1>4. /\ plan[1] = {Branch(b)} /\ plan[2] = ps /\ plan[3] = is
      /\ kinds[1] = "branch" /\ kinds[2] = "party" /\ kinds[3] = "item"
  OBVIOUS
<1> HIDE DEF plan, kinds
<1>5. \A i \in DOMAIN plan : plan[i] = Outside \/ plan[i] \subseteq Kin(kinds[i], b)
  BY <1>2, <1>3, <1>4
<1>6. \A i, j \in DOMAIN plan : i < j =>
        \/ plan[i] = Outside \/ plan[j] = Outside \/ plan[i] = plan[j]
        \/ Level(kinds[i]) < Level(kinds[j]) \/ (kinds[i] = "paper" /\ kinds[j] = "paper")
  BY <1>3, <1>4 DEF Level
<1>7. 1 \in DOMAIN plan /\ plan[1] = {Branch(b)}
  BY <1>3, <1>4
<1>8. InOrder(b, {}, plan)
  BY <1>3, <1>5, <1>6, <1>7, LayersInOrder
<1>9. QED
  BY <1>8 DEF plan

LEMMA ReceivePaymentInOrder ==
  ASSUME NEW b \in Branches, NEW v \in SUBSET Owned("invoice", b), NEW rs \in SUBSET Owned("account", b)
  PROVE  InOrder(b, {}, <<v, rs>>)
<1> DEFINE plan == <<v, rs>>
           kinds == <<"invoice", "account">>
<1>1. v \in Groups /\ rs \in Groups
  BY GroupsOfBranch DEF BranchKinds, SharedKinds
<1>2. v \subseteq Kin("invoice", b) /\ rs \subseteq Kin("account", b)
  BY RowsOfKind DEF BranchKinds, SharedKinds
<1>3. plan \in Seq(Groups) /\ DOMAIN plan = 1..2
  BY <1>1
<1>4. /\ plan[1] = v /\ plan[2] = rs
      /\ kinds[1] = "invoice" /\ kinds[2] = "account"
  OBVIOUS
<1> HIDE DEF plan, kinds
<1>5. \A i \in DOMAIN plan : plan[i] = Outside \/ plan[i] \subseteq Kin(kinds[i], b)
  BY <1>2, <1>3, <1>4
<1>6. \A i, j \in DOMAIN plan : i < j =>
        \/ plan[i] = Outside \/ plan[j] = Outside \/ plan[i] = plan[j]
        \/ Level(kinds[i]) < Level(kinds[j]) \/ (kinds[i] = "paper" /\ kinds[j] = "paper")
  BY <1>3, <1>4 DEF Level
<1>7. \E r : \A i \in DOMAIN plan : kinds[i] = "paper" => plan[i] \subseteq {r}
  BY <1>3, <1>4
<1>8. InOrder(b, {}, plan)
  BY <1>3, <1>5, <1>6, <1>7, LayersInOrder
<1>9. QED
  BY <1>8 DEF plan

LEMMA ReverseInvoiceInOrder ==
  ASSUME NEW b \in Branches, NEW v \in SUBSET Owned("invoice", b), NEW is \in SUBSET Shared("item")
  PROVE  InOrder(b, {}, <<v, is>>)
<1> DEFINE plan == <<v, is>>
           kinds == <<"invoice", "item">>
<1>1. v \in Groups /\ is \in Groups
  BY GroupsOfBranch DEF BranchKinds, SharedKinds
<1>2. v \subseteq Kin("invoice", b) /\ is \subseteq Kin("item", b)
  BY RowsOfKind DEF BranchKinds, SharedKinds
<1>3. plan \in Seq(Groups) /\ DOMAIN plan = 1..2
  BY <1>1
<1>4. /\ plan[1] = v /\ plan[2] = is
      /\ kinds[1] = "invoice" /\ kinds[2] = "item"
  OBVIOUS
<1> HIDE DEF plan, kinds
<1>5. \A i \in DOMAIN plan : plan[i] = Outside \/ plan[i] \subseteq Kin(kinds[i], b)
  BY <1>2, <1>3, <1>4
<1>6. \A i, j \in DOMAIN plan : i < j =>
        \/ plan[i] = Outside \/ plan[j] = Outside \/ plan[i] = plan[j]
        \/ Level(kinds[i]) < Level(kinds[j]) \/ (kinds[i] = "paper" /\ kinds[j] = "paper")
  BY <1>3, <1>4 DEF Level
<1>7. \E r : \A i \in DOMAIN plan : kinds[i] = "paper" => plan[i] \subseteq {r}
  BY <1>3, <1>4
<1>8. InOrder(b, {}, plan)
  BY <1>3, <1>5, <1>6, <1>7, LayersInOrder
<1>9. QED
  BY <1>8 DEF plan

LEMMA RemoveAccountInOrder ==
  ASSUME NEW b \in Branches, NEW rs \in SUBSET Owned("account", b)
  PROVE  InOrder(b, {}, <<{Branch(b)}, rs>>)
<1> DEFINE plan == <<{Branch(b)}, rs>>
           kinds == <<"branch", "account">>
<1>1. {Branch(b)} \in Groups /\ rs \in Groups
  BY GroupsOfBranch DEF BranchKinds, SharedKinds
<1>2. {Branch(b)} \subseteq Kin("branch", b) /\ rs \subseteq Kin("account", b)
  BY RowsOfKind DEF BranchKinds, SharedKinds
<1>3. plan \in Seq(Groups) /\ DOMAIN plan = 1..2
  BY <1>1
<1>4. /\ plan[1] = {Branch(b)} /\ plan[2] = rs
      /\ kinds[1] = "branch" /\ kinds[2] = "account"
  OBVIOUS
<1> HIDE DEF plan, kinds
<1>5. \A i \in DOMAIN plan : plan[i] = Outside \/ plan[i] \subseteq Kin(kinds[i], b)
  BY <1>2, <1>3, <1>4
<1>6. \A i, j \in DOMAIN plan : i < j =>
        \/ plan[i] = Outside \/ plan[j] = Outside \/ plan[i] = plan[j]
        \/ Level(kinds[i]) < Level(kinds[j]) \/ (kinds[i] = "paper" /\ kinds[j] = "paper")
  BY <1>3, <1>4 DEF Level
<1>7. 1 \in DOMAIN plan /\ plan[1] = {Branch(b)}
  BY <1>3, <1>4
<1>8. InOrder(b, {}, plan)
  BY <1>3, <1>5, <1>6, <1>7, LayersInOrder
<1>9. QED
  BY <1>8 DEF plan

LEMMA CreateDocumentInOrder ==
  ASSUME NEW b \in Branches, NEW kind \in {"invoice", "bill"}, NEW v \in SUBSET Owned(kind, b), NEW is \in SUBSET Shared("item")
  PROVE  InOrder(b, {}, <<{Branch(b)}, v, is>>)
<1> DEFINE plan == <<{Branch(b)}, v, is>>
           kinds == <<"branch", kind, "item">>
<1>1. {Branch(b)} \in Groups /\ v \in Groups /\ is \in Groups
  BY GroupsOfBranch DEF BranchKinds, SharedKinds
<1>2. {Branch(b)} \subseteq Kin("branch", b) /\ v \subseteq Kin(kind, b) /\ is \subseteq Kin("item", b)
  BY RowsOfKind DEF BranchKinds, SharedKinds
<1>3. plan \in Seq(Groups) /\ DOMAIN plan = 1..3
  BY <1>1
<1>4. /\ plan[1] = {Branch(b)} /\ plan[2] = v /\ plan[3] = is
      /\ kinds[1] = "branch" /\ kinds[2] = kind /\ kinds[3] = "item"
  OBVIOUS
<1> HIDE DEF plan, kinds
<1>5. \A i \in DOMAIN plan : plan[i] = Outside \/ plan[i] \subseteq Kin(kinds[i], b)
  BY <1>2, <1>3, <1>4
<1>6. \A i, j \in DOMAIN plan : i < j =>
        \/ plan[i] = Outside \/ plan[j] = Outside \/ plan[i] = plan[j]
        \/ Level(kinds[i]) < Level(kinds[j]) \/ (kinds[i] = "paper" /\ kinds[j] = "paper")
  BY <1>3, <1>4 DEF Level
<1>7. 1 \in DOMAIN plan /\ plan[1] = {Branch(b)}
  BY <1>3, <1>4
<1>8. InOrder(b, {}, plan)
  BY <1>3, <1>5, <1>6, <1>7, LayersInOrder
<1>9. QED
  BY <1>8 DEF plan

\* A paper or bill has no source: then the group is empty, of any kind that fits.
LEMMA UpdateStatusInOrder ==
  ASSUME NEW b \in Branches, NEW kind \in {"paper", "note", "bill"}, NEW d \in Owned(kind, b), 
         NEW source, NEW of \in {"invoice", "bill", "party"}, source \in Groups, source \subseteq Kin(of, b), 
         kind = "note" \/ of = "party", NEW is \in SUBSET Shared("item")
  PROVE  InOrder(b, {}, <<{d}, source, is, Outside>>)
<1> DEFINE plan == <<{d}, source, is, Outside>>
           kinds == <<kind, of, "item", "connection">>
<1>1. {d} \in Groups /\ source \in Groups /\ is \in Groups /\ Outside \in Groups
  BY GroupsOfBranch DEF BranchKinds, SharedKinds
<1>2. {d} \subseteq Kin(kind, b) /\ source \subseteq Kin(of, b) /\ is \subseteq Kin("item", b)
  BY RowsOfKind DEF BranchKinds, SharedKinds
<1>3. plan \in Seq(Groups) /\ DOMAIN plan = 1..4
  BY <1>1
<1>4. /\ plan[1] = {d} /\ plan[2] = source /\ plan[3] = is /\ plan[4] = Outside
      /\ kinds[1] = kind /\ kinds[2] = of /\ kinds[3] = "item" /\ kinds[4] = "connection"
  OBVIOUS
<1> HIDE DEF plan, kinds
<1>5. \A i \in DOMAIN plan : plan[i] = Outside \/ plan[i] \subseteq Kin(kinds[i], b)
  BY <1>2, <1>3, <1>4
<1>6. \A i, j \in DOMAIN plan : i < j =>
        \/ plan[i] = Outside \/ plan[j] = Outside \/ plan[i] = plan[j]
        \/ Level(kinds[i]) < Level(kinds[j]) \/ (kinds[i] = "paper" /\ kinds[j] = "paper")
  BY <1>3, <1>4 DEF Level
<1>7. \A i \in DOMAIN plan : kinds[i] = "paper" => plan[i] \subseteq {d}
  BY <1>3, <1>4
<1>8. InOrder(b, {}, plan)
  BY <1>3, <1>5, <1>6, <1>7, LayersInOrder
<1>9. QED
  BY <1>8 DEF plan

LEMMA ConvertInOrder ==
  ASSUME NEW b \in Branches, NEW kind \in {"paper", "note", "bill"}, NEW d \in SUBSET Owned(kind, b), NEW ps \in SUBSET Shared("party"), NEW is \in SUBSET Shared("item")
  PROVE  InOrder(b, {}, <<{Branch(b)}, d, Outside, ps, is>>)
<1> DEFINE plan == <<{Branch(b)}, d, Outside, ps, is>>
           kinds == <<"branch", kind, "connection", "party", "item">>
<1>1. {Branch(b)} \in Groups /\ d \in Groups /\ Outside \in Groups /\ ps \in Groups /\ is \in Groups
  BY GroupsOfBranch DEF BranchKinds, SharedKinds
<1>2. {Branch(b)} \subseteq Kin("branch", b) /\ d \subseteq Kin(kind, b) /\ ps \subseteq Kin("party", b) /\ is \subseteq Kin("item", b)
  BY RowsOfKind DEF BranchKinds, SharedKinds
<1>3. plan \in Seq(Groups) /\ DOMAIN plan = 1..5
  BY <1>1
<1>4. /\ plan[1] = {Branch(b)} /\ plan[2] = d /\ plan[3] = Outside /\ plan[4] = ps /\ plan[5] = is
      /\ kinds[1] = "branch" /\ kinds[2] = kind /\ kinds[3] = "connection" /\ kinds[4] = "party" /\ kinds[5] = "item"
  OBVIOUS
<1> HIDE DEF plan, kinds
<1>5. \A i \in DOMAIN plan : plan[i] = Outside \/ plan[i] \subseteq Kin(kinds[i], b)
  BY <1>2, <1>3, <1>4
<1>6. \A i, j \in DOMAIN plan : i < j =>
        \/ plan[i] = Outside \/ plan[j] = Outside \/ plan[i] = plan[j]
        \/ Level(kinds[i]) < Level(kinds[j]) \/ (kinds[i] = "paper" /\ kinds[j] = "paper")
  BY <1>3, <1>4 DEF Level
<1>7. 1 \in DOMAIN plan /\ plan[1] = {Branch(b)}
  BY <1>3, <1>4
<1>8. InOrder(b, {}, plan)
  BY <1>3, <1>5, <1>6, <1>7, LayersInOrder
<1>9. QED
  BY <1>8 DEF plan

LEMMA UndoInvoiceInOrder ==
  ASSUME NEW b \in Branches, NEW d \in SUBSET Owned("paper", b), NEW v \in SUBSET Owned("invoice", b), NEW is \in SUBSET Shared("item")
  PROVE  InOrder(b, {}, <<{Branch(b)}, d, v, is>>)
<1> DEFINE plan == <<{Branch(b)}, d, v, is>>
           kinds == <<"branch", "paper", "invoice", "item">>
<1>1. {Branch(b)} \in Groups /\ d \in Groups /\ v \in Groups /\ is \in Groups
  BY GroupsOfBranch DEF BranchKinds, SharedKinds
<1>2. {Branch(b)} \subseteq Kin("branch", b) /\ d \subseteq Kin("paper", b) /\ v \subseteq Kin("invoice", b) /\ is \subseteq Kin("item", b)
  BY RowsOfKind DEF BranchKinds, SharedKinds
<1>3. plan \in Seq(Groups) /\ DOMAIN plan = 1..4
  BY <1>1
<1>4. /\ plan[1] = {Branch(b)} /\ plan[2] = d /\ plan[3] = v /\ plan[4] = is
      /\ kinds[1] = "branch" /\ kinds[2] = "paper" /\ kinds[3] = "invoice" /\ kinds[4] = "item"
  OBVIOUS
<1> HIDE DEF plan, kinds
<1>5. \A i \in DOMAIN plan : plan[i] = Outside \/ plan[i] \subseteq Kin(kinds[i], b)
  BY <1>2, <1>3, <1>4
<1>6. \A i, j \in DOMAIN plan : i < j =>
        \/ plan[i] = Outside \/ plan[j] = Outside \/ plan[i] = plan[j]
        \/ Level(kinds[i]) < Level(kinds[j]) \/ (kinds[i] = "paper" /\ kinds[j] = "paper")
  BY <1>3, <1>4 DEF Level
<1>7. 1 \in DOMAIN plan /\ plan[1] = {Branch(b)}
  BY <1>3, <1>4
<1>8. InOrder(b, {}, plan)
  BY <1>3, <1>5, <1>6, <1>7, LayersInOrder
<1>9. QED
  BY <1>8 DEF plan

LEMMA UndoDocumentInOrder ==
  ASSUME NEW b \in Branches, NEW d \in SUBSET Owned("paper", b), NEW kind \in {"paper", "note", "bill"}, NEW t \in SUBSET Owned(kind, b)
  PROVE  InOrder(b, {}, <<{Branch(b)}, d, t>>)
<1> DEFINE plan == <<{Branch(b)}, d, t>>
           kinds == <<"branch", "paper", kind>>
<1>1. {Branch(b)} \in Groups /\ d \in Groups /\ t \in Groups
  BY GroupsOfBranch DEF BranchKinds, SharedKinds
<1>2. {Branch(b)} \subseteq Kin("branch", b) /\ d \subseteq Kin("paper", b) /\ t \subseteq Kin(kind, b)
  BY RowsOfKind DEF BranchKinds, SharedKinds
<1>3. plan \in Seq(Groups) /\ DOMAIN plan = 1..3
  BY <1>1
<1>4. /\ plan[1] = {Branch(b)} /\ plan[2] = d /\ plan[3] = t
      /\ kinds[1] = "branch" /\ kinds[2] = "paper" /\ kinds[3] = kind
  OBVIOUS
<1> HIDE DEF plan, kinds
<1>5. \A i \in DOMAIN plan : plan[i] = Outside \/ plan[i] \subseteq Kin(kinds[i], b)
  BY <1>2, <1>3, <1>4
<1>6. \A i, j \in DOMAIN plan : i < j =>
        \/ plan[i] = Outside \/ plan[j] = Outside \/ plan[i] = plan[j]
        \/ Level(kinds[i]) < Level(kinds[j]) \/ (kinds[i] = "paper" /\ kinds[j] = "paper")
  BY <1>3, <1>4 DEF Level
<1>7. 1 \in DOMAIN plan /\ plan[1] = {Branch(b)}
  BY <1>3, <1>4
<1>8. InOrder(b, {}, plan)
  BY <1>3, <1>5, <1>6, <1>7, LayersInOrder
<1>9. QED
  BY <1>8 DEF plan

LEMMA ConvertOrderInOrder ==
  ASSUME NEW b \in Branches, NEW is \in SUBSET Shared("item")
  PROVE  InOrder(b, {}, <<{Branch(b)}, Outside, is>>)
<1> DEFINE plan == <<{Branch(b)}, Outside, is>>
           kinds == <<"branch", "connection", "item">>
<1>1. {Branch(b)} \in Groups /\ Outside \in Groups /\ is \in Groups
  BY GroupsOfBranch DEF BranchKinds, SharedKinds
<1>2. {Branch(b)} \subseteq Kin("branch", b) /\ is \subseteq Kin("item", b)
  BY RowsOfKind DEF BranchKinds, SharedKinds
<1>3. plan \in Seq(Groups) /\ DOMAIN plan = 1..3
  BY <1>1
<1>4. /\ plan[1] = {Branch(b)} /\ plan[2] = Outside /\ plan[3] = is
      /\ kinds[1] = "branch" /\ kinds[2] = "connection" /\ kinds[3] = "item"
  OBVIOUS
<1> HIDE DEF plan, kinds
<1>5. \A i \in DOMAIN plan : plan[i] = Outside \/ plan[i] \subseteq Kin(kinds[i], b)
  BY <1>2, <1>3, <1>4
<1>6. \A i, j \in DOMAIN plan : i < j =>
        \/ plan[i] = Outside \/ plan[j] = Outside \/ plan[i] = plan[j]
        \/ Level(kinds[i]) < Level(kinds[j]) \/ (kinds[i] = "paper" /\ kinds[j] = "paper")
  BY <1>3, <1>4 DEF Level
<1>7. 1 \in DOMAIN plan /\ plan[1] = {Branch(b)}
  BY <1>3, <1>4
<1>8. InOrder(b, {}, plan)
  BY <1>3, <1>5, <1>6, <1>7, LayersInOrder
<1>9. QED
  BY <1>8 DEF plan

LEMMA MoveStockInOrder ==
  ASSUME NEW b \in Branches, NEW is \in SUBSET Shared("item")
  PROVE  InOrder(b, {}, <<{Branch(b)}, is, is>>)
<1> DEFINE plan == <<{Branch(b)}, is, is>>
           kinds == <<"branch", "item", "item">>
<1>1. {Branch(b)} \in Groups /\ is \in Groups
  BY GroupsOfBranch DEF BranchKinds, SharedKinds
<1>2. {Branch(b)} \subseteq Kin("branch", b) /\ is \subseteq Kin("item", b)
  BY RowsOfKind DEF BranchKinds, SharedKinds
<1>3. plan \in Seq(Groups) /\ DOMAIN plan = 1..3
  BY <1>1
<1>4. /\ plan[1] = {Branch(b)} /\ plan[2] = is /\ plan[3] = is
      /\ kinds[1] = "branch" /\ kinds[2] = "item" /\ kinds[3] = "item"
  OBVIOUS
<1> HIDE DEF plan, kinds
<1>5. \A i \in DOMAIN plan : plan[i] = Outside \/ plan[i] \subseteq Kin(kinds[i], b)
  BY <1>2, <1>3, <1>4
<1>6. \A i, j \in DOMAIN plan : i < j =>
        \/ plan[i] = Outside \/ plan[j] = Outside \/ plan[i] = plan[j]
        \/ Level(kinds[i]) < Level(kinds[j]) \/ (kinds[i] = "paper" /\ kinds[j] = "paper")
  BY <1>3, <1>4 DEF Level
<1>7. 1 \in DOMAIN plan /\ plan[1] = {Branch(b)}
  BY <1>3, <1>4
<1>8. InOrder(b, {}, plan)
  BY <1>3, <1>5, <1>6, <1>7, LayersInOrder
<1>9. QED
  BY <1>8 DEF plan

LEMMA EditItemInOrder ==
  ASSUME NEW b \in Branches, NEW is \in SUBSET Shared("item")
  PROVE  InOrder(b, {}, <<is, is>>)
<1> DEFINE plan == <<is, is>>
           kinds == <<"item", "item">>
<1>1. is \in Groups
  BY GroupsOfBranch DEF BranchKinds, SharedKinds
<1>2. is \subseteq Kin("item", b)
  BY RowsOfKind DEF BranchKinds, SharedKinds
<1>3. plan \in Seq(Groups) /\ DOMAIN plan = 1..2
  BY <1>1
<1>4. /\ plan[1] = is /\ plan[2] = is
      /\ kinds[1] = "item" /\ kinds[2] = "item"
  OBVIOUS
<1> HIDE DEF plan, kinds
<1>5. \A i \in DOMAIN plan : plan[i] = Outside \/ plan[i] \subseteq Kin(kinds[i], b)
  BY <1>2, <1>3, <1>4
<1>6. \A i, j \in DOMAIN plan : i < j =>
        \/ plan[i] = Outside \/ plan[j] = Outside \/ plan[i] = plan[j]
        \/ Level(kinds[i]) < Level(kinds[j]) \/ (kinds[i] = "paper" /\ kinds[j] = "paper")
  BY <1>3, <1>4 DEF Level
<1>7. \E r : \A i \in DOMAIN plan : kinds[i] = "paper" => plan[i] \subseteq {r}
  BY <1>3, <1>4
<1>8. InOrder(b, {}, plan)
  BY <1>3, <1>5, <1>6, <1>7, LayersInOrder
<1>9. QED
  BY <1>8 DEF plan

-----------------------------------------------------------------------------
(* What handlers may begin with.                                            *)

\* Each handler of the common order starts with a plan that is in order.
LEMMA PlansInOrder ==
  ASSUME NEW op \in Orderly, NEW plan \in Plans[op]
  PROVE  \E b \in Branches : InOrder(b, {}, plan)
<1>1. PICK b \in Branches : plan \in PlansIn(op, b)
  BY DEF Plans, Orderly
<1>2. CASE op = "branchOnly"
  <2>1. plan \in BranchOnly(b)
    BY <1>1, <1>2 DEF PlansIn
  <2>2. plan = <<{Branch(b)}>>
    BY <2>1 DEF BranchOnly
  <2>3. QED
    BY <2>2, BranchOnlyInOrder
<1>3. CASE op = "payReceipt"
  <2>1. plan \in PayReceipt(b)
    BY <1>1, <1>3 DEF PlansIn
  <2>2. PICK rs \in SUBSET Owned("account", b), d \in SUBSET Owned("bill", b) : plan = <<{Branch(b)}, Outside, rs, d>>
    BY <2>1 DEF PayReceipt, Some
  <2>3. QED
    BY <2>2, PayReceiptInOrder
<1>4. CASE op = "voidReceipt"
  <2>1. plan \in VoidReceipt(b)
    BY <1>1, <1>4 DEF PlansIn
  <2>2. PICK d \in SUBSET Owned("bill", b) : plan = <<d>>
    BY <2>1 DEF VoidReceipt, Some
  <2>3. QED
    BY <2>2, VoidReceiptInOrder
<1>5. CASE op = "createInvoice"
  <2>1. plan \in CreateInvoice(b)
    BY <1>1, <1>5 DEF PlansIn
  <2>2. PICK ps \in SUBSET Shared("party"), is \in SUBSET Shared("item") : plan = <<{Branch(b)}, ps, is>>
    BY <2>1 DEF CreateInvoice, AtMostOne
  <2>3. QED
    BY <2>2, CreateInvoiceInOrder
<1>6. CASE op = "receivePayment"
  <2>1. plan \in ReceivePayment(b)
    BY <1>1, <1>6 DEF PlansIn
  <2>2. PICK v \in SUBSET Owned("invoice", b), rs \in SUBSET Owned("account", b) : plan = <<v, rs>>
    BY <2>1 DEF ReceivePayment, One, AtMostOne
  <2>3. QED
    BY <2>2, ReceivePaymentInOrder
<1>7. CASE op = "reverseInvoice"
  <2>1. plan \in ReverseInvoice(b)
    BY <1>1, <1>7 DEF PlansIn
  <2>2. PICK v \in SUBSET Owned("invoice", b), is \in SUBSET Shared("item") : plan = <<v, is>>
    BY <2>1 DEF ReverseInvoice, One
  <2>3. QED
    BY <2>2, ReverseInvoiceInOrder
<1>8. CASE op = "removeAccount"
  <2>1. plan \in RemoveAccount(b)
    BY <1>1, <1>8 DEF PlansIn
  <2>2. PICK rs \in SUBSET Owned("account", b) : plan = <<{Branch(b)}, rs>>
    BY <2>1 DEF RemoveAccount, One
  <2>3. QED
    BY <2>2, RemoveAccountInOrder
<1>9. CASE op = "convertOrder"
  <2>1. plan \in ConvertOrder(b)
    BY <1>1, <1>9 DEF PlansIn
  <2>2. PICK is \in SUBSET Shared("item") : plan = <<{Branch(b)}, Outside, is>>
    BY <2>1 DEF ConvertOrder
  <2>3. QED
    BY <2>2, ConvertOrderInOrder
<1>10. CASE op = "moveStock"
  <2>1. plan \in MoveStock(b)
    BY <1>1, <1>10 DEF PlansIn
  <2>2. PICK is \in SUBSET Shared("item") : plan = <<{Branch(b)}, is, is>>
    BY <2>1 DEF MoveStock, Some
  <2>3. QED
    BY <2>2, MoveStockInOrder
<1>11. CASE op = "editItem"
  <2>1. plan \in EditItem(b)
    BY <1>1, <1>11 DEF PlansIn
  <2>2. PICK is \in SUBSET Shared("item") : plan = <<is, is>>
    BY <2>1 DEF EditItem, One
  <2>3. QED
    BY <2>2, EditItemInOrder
<1>12. CASE op = "createDocument"
  <2>1. plan \in CreateDocument(b)
    BY <1>1, <1>12 DEF PlansIn
  <2>2. PICK v \in AtMostOne(Owned("invoice", b) \cup Owned("bill", b)), is \in SUBSET Shared("item") :
          plan = <<{Branch(b)}, v, is>>
    BY <2>1 DEF CreateDocument
  <2>3. v \in SUBSET Owned("invoice", b) \/ v \in SUBSET Owned("bill", b)
    BY <2>2 DEF AtMostOne
  <2>4. QED
    BY <2>2, <2>3, CreateDocumentInOrder
<1>13. CASE op = "updateStatus"
  <2>1. plan \in UpdateStatus(b)
    BY <1>1, <1>13 DEF PlansIn
  <2>8. PICK d \in Document(b) : \E source \in Source(d, b), is \in SUBSET Shared("item") :
          plan = <<{d}, source, is, Outside>>
    BY <2>1 DEF UpdateStatus
  <2>2. PICK source \in Source(d, b), is \in SUBSET Shared("item") : plan = <<{d}, source, is, Outside>>
    BY <2>8
  <2>3. PICK kind \in {"paper", "note", "bill"} : d \in Owned(kind, b)
    BY DEF Document
  <2>4. d.kind = kind
    BY <2>3 DEF Owned, Row
  <2>5. CASE source = {}
    <3>1. source \in Groups /\ source \subseteq Kin("party", b)
      BY <2>5, GroupsOfBranch
    <3>2. QED
      BY <2>2, <2>3, <3>1, UpdateStatusInOrder
  <2>6. CASE source # {}
    <3>1. kind = "note" /\ source \in AtMostOne(Owned("invoice", b) \cup Owned("bill", b))
      BY <2>2, <2>4, <2>6 DEF Source
    <3>2. PICK of \in {"invoice", "bill"} : source \in SUBSET Owned(of, b)
      BY <3>1 DEF AtMostOne
    <3>3. source \in Groups /\ source \subseteq Kin(of, b)
      BY <3>2, GroupsOfBranch, RowsOfKind DEF BranchKinds
    <3>4. QED
      BY <2>2, <2>3, <3>1, <3>3, UpdateStatusInOrder
  <2>7. QED
    BY <2>5, <2>6
<1>14. CASE op = "convertDocument"
  <2>1. plan \in ConvertDocument(b)
    BY <1>1, <1>14 DEF PlansIn
  <2>2. PICK d \in One(Document(b)), ps \in SUBSET Shared("party"), is \in SUBSET Shared("item") :
          plan = <<{Branch(b)}, d, Outside, ps, is>>
    BY <2>1 DEF ConvertDocument, AtMostOne
  <2>3. PICK kind \in {"paper", "note", "bill"} : d \in SUBSET Owned(kind, b)
    BY <2>2 DEF One, Document
  <2>4. QED
    BY <2>2, <2>3, ConvertInOrder
<1>15. CASE op = "reverseConversion"
  <2>1. plan \in ReverseConversion(b)
    BY <1>1, <1>15 DEF PlansIn
  <2>2. ASSUME NEW d \in One(Owned("paper", b)), NEW v \in One(Owned("invoice", b)),
               NEW is \in SUBSET Shared("item"), plan = <<{Branch(b)}, d, v, is>>
        PROVE  InOrder(b, {}, plan)
    <3>1. d \in SUBSET Owned("paper", b) /\ v \in SUBSET Owned("invoice", b)
      BY DEF One
    <3>2. QED
      BY <2>2, <3>1, UndoInvoiceInOrder
  <2>3. ASSUME NEW d \in One(Owned("paper", b)), NEW t \in One(Document(b)), plan = <<{Branch(b)}, d, t>>
        PROVE  InOrder(b, {}, plan)
    <3>1. d \in SUBSET Owned("paper", b)
      BY DEF One
    <3>2. PICK kind \in {"paper", "note", "bill"} : t \in SUBSET Owned(kind, b)
      BY DEF One, Document
    <3>3. QED
      BY <2>3, <3>1, <3>2, UndoDocumentInOrder
  <2>4. InOrder(b, {}, plan)
    BY <2>1, <2>2, <2>3 DEF ReverseConversion
  <2>5. QED
    BY <2>4
<1>16. QED
  BY <1>2, <1>3, <1>4, <1>5, <1>6, <1>7, <1>8, <1>9, <1>10, <1>11, <1>12, <1>13, <1>14, <1>15 DEF Orderly, Handlers

\* The plans of all handlers, in order or not, are made of groups of rows.
LEMMA PlansTyped ==
  ASSUME NEW op \in Handlers, NEW plan \in Plans[op]
  PROVE  plan \in Seq(Groups)
<1>1. PICK b \in Branches : plan \in PlansIn(op, b)
  BY DEF Plans
<1>2. CASE op \in Orderly
  BY <1>2, PlansInOrder DEF InOrder
<1>3. CASE op = "restoreReceipt"
  <2>1. PICK d \in SUBSET Owned("bill", b), rs \in SUBSET Owned("account", b) : plan = <<d, rs>>
    BY <1>1, <1>3 DEF PlansIn, RestoreReceipt, Some
  <2>2. d \in Groups /\ rs \in Groups
    BY <2>1, GroupsOfBranch DEF BranchKinds
  <2>3. QED
    BY <2>1, <2>2
<1>4. CASE op = "updateInvoice"
  <2>1. PICK v \in SUBSET Owned("invoice", b), ps \in SUBSET Shared("party"),
             old \in SUBSET Shared("item"), new \in SUBSET Shared("item") :
          plan = <<{Branch(b)}, v, Outside, ps, old, new>>
    BY <1>1, <1>4 DEF PlansIn, UpdateInvoice, One, Some
  <2>2. /\ {Branch(b)} \in Groups /\ v \in Groups /\ Outside \in Groups
        /\ ps \in Groups /\ old \in Groups /\ new \in Groups
    BY <2>1, GroupsOfBranch DEF BranchKinds, SharedKinds
  <2>3. QED
    BY <2>1, <2>2
<1>5. CASE op = "updateDocument"
  <2>1. plan \in UpdateDocument(b)
    BY <1>1, <1>5 DEF PlansIn
  <2>7. PICK d \in Document(b) : \E old \in SUBSET Shared("item"), source \in Source(d, b),
                                    new \in SUBSET Shared("item") :
          plan = <<{Branch(b)}, {d}, Outside, old, source, new>>
    BY <2>1 DEF UpdateDocument
  <2>2. PICK old \in SUBSET Shared("item"), source \in Source(d, b), new \in SUBSET Shared("item") :
          plan = <<{Branch(b)}, {d}, Outside, old, source, new>>
    BY <2>7
  <2>3. {d} \in Groups
    <3>1. PICK kind \in {"paper", "note", "bill"} : d \in Owned(kind, b)
      BY DEF Document
    <3>2. {d} \in SUBSET Owned(kind, b)
      BY <3>1
    <3>3. QED
      BY <3>2, GroupsOfBranch DEF BranchKinds
  <2>4. source \in Groups
    <3>1. \/ source = {} \/ source \in SUBSET Owned("invoice", b) \/ source \in SUBSET Owned("bill", b)
      BY <2>2 DEF Source, AtMostOne
    <3>2. QED
      BY <3>1, GroupsOfBranch DEF BranchKinds
  <2>5. {Branch(b)} \in Groups /\ Outside \in Groups /\ old \in Groups /\ new \in Groups
    BY <2>2, GroupsOfBranch DEF SharedKinds
  <2>6. QED
    BY <2>2, <2>3, <2>4, <2>5
<1>6. QED
  BY <1>2, <1>3, <1>4, <1>5 DEF Orderly

-----------------------------------------------------------------------------
(* Steps.                                                                    *)

JobType == [op : Ops \cup {NoOne}, plan : Seq(Groups), starts : 0..Tries]

\* One request goes on, with a job of its own; the others stay where they are.
LEMMA OneGoesOn ==
  ASSUME RowsOK, NEW q \in Requests,
         NEW stage \in {"idle", "queued", "running", "victim"} \cup Ended, NEW new \in JobType,
         pc' = [pc EXCEPT ![q] = stage], job' = [job EXCEPT ![q] = new],
         lock' \in [Rows -> Requests \cup {NoOne}],
         stage # "idle", new.op \in Ops,
         stage = "queued" => new.starts < Tries,
         new.plan # <<>> => Head(new.plan) # {}
  PROVE  /\ RowsOK' /\ pc'[q] = stage /\ job'[q] = new
         /\ \A r \in Requests \ {q} : pc'[r] = pc[r] /\ job'[r] = job[r]
<1>1. /\ pc \in [Requests -> {"idle", "queued", "running", "victim"} \cup Ended]
      /\ job \in [Requests -> JobType]
  BY DEF RowsOK, TypeOK, JobType
<1>2. /\ pc'[q] = stage /\ job'[q] = new
      /\ \A r \in Requests \ {q} : pc'[r] = pc[r] /\ job'[r] = job[r]
      /\ pc' \in [Requests -> {"idle", "queued", "running", "victim"} \cup Ended]
      /\ job' \in [Requests -> JobType]
  BY <1>1
<1>3. \A r \in Requests : job'[r].starts \in 0..Tries
  BY <1>2 DEF JobType
<1>4. \A r \in Requests :
        /\ pc'[r] # "idle" => job'[r].op \in Ops
        /\ pc'[r] = "idle" => job'[r].starts = 0
        /\ pc'[r] = "queued" => job'[r].starts < Tries
        /\ job'[r].plan # <<>> => Head(job'[r].plan) # {}
  <2>1. SUFFICES ASSUME NEW r \in Requests
                 PROVE  /\ pc'[r] # "idle" => job'[r].op \in Ops
                        /\ pc'[r] = "idle" => job'[r].starts = 0
                        /\ pc'[r] = "queued" => job'[r].starts < Tries
                        /\ job'[r].plan # <<>> => Head(job'[r].plan) # {}
    OBVIOUS
  <2>2. CASE r = q
    BY <1>2, <2>2
  <2>3. CASE r # q
    BY <1>2, <2>3 DEF RowsOK
  <2>4. QED
    BY <2>2, <2>3
<1>5. QED
  BY <1>2, <1>3, <1>4 DEF RowsOK, TypeOK, JobType

\* The invariant, when one request went on and the locks of the others are theirs.
LEMMA OthersKeep ==
  ASSUME IInv, NEW q \in Requests, RowsOK', LocksEndWithTransactions', PlanJob(q)',
         \A r \in Requests \ {q} : pc'[r] = pc[r] /\ job'[r] = job[r] /\ Held(r)' = Held(r)
  PROVE  IInv'
<1>1. \A r \in Requests \ {q} : PlanJob(r)'
  BY DEF IInv, PlanJob
<1>2. QED
  BY <1>1 DEF IInv

\* Who is not running holds nothing.
LEMMA NothingHeld ==
  ASSUME IInv, NEW q \in Requests, pc[q] # "running"
  PROVE  Held(q) = {}
BY NoOneAssumption DEF IInv, LocksEndWithTransactions, Held

\* COMMIT and ROLLBACK give back what q holds and nothing else.
LEMMA Release ==
  ASSUME IInv, NEW q \in Requests, lock' = Released(q),
         \A r \in Requests \ {q} : pc'[r] = pc[r]
  PROVE  /\ lock' \in [Rows -> Requests \cup {NoOne}]
         /\ \A r \in Requests \ {q} : Held(r)' = Held(r)
         /\ LocksEndWithTransactions'
<1>1. lock \in [Rows -> Requests \cup {NoOne}]
  BY DEF IInv, RowsOK, TypeOK
<1>2. lock' = [row \in Rows |-> IF lock[row] = q THEN NoOne ELSE lock[row]]
  BY <1>1 DEF Released
<1>3. \A r \in Requests \ {q} : Held(r)' = Held(r)
  BY <1>2, NoOneAssumption DEF Held
<1>4. LocksEndWithTransactions'
  BY <1>1, <1>2, NoOneAssumption DEF IInv, LocksEndWithTransactions
<1>5. QED
  BY <1>1, <1>2, <1>3, <1>4

LEMMA SubmitStep ==
  ASSUME LocksAssumption, IInv, NEW q \in Requests, Submit(q)
  PROVE  IInv'
<1>1. PICK op \in Ops : job' = [job EXCEPT ![q].op = op]
  BY DEF Submit
<1>2. pc[q] = "idle" /\ pc' = [pc EXCEPT ![q] = "queued"] /\ lock' = lock
  BY DEF Submit
<1>3. RowsOK /\ job[q] \in JobType /\ job[q].starts = 0
  BY <1>2 DEF IInv, RowsOK, JobType
<1> DEFINE new == [job[q] EXCEPT !.op = op]
<1>4. /\ new \in JobType /\ new.op = op /\ new.starts = 0 /\ new.plan = job[q].plan
      /\ job' = [job EXCEPT ![q] = new]
  BY <1>1, <1>3 DEF JobType
<1>5. new.plan # <<>> => Head(new.plan) # {}
  BY <1>4 DEF IInv, RowsOK
<1> HIDE DEF new
<1>6. lock' \in [Rows -> Requests \cup {NoOne}] /\ new.starts < Tries
  BY <1>2, <1>3, <1>4 DEF RowsOK, TypeOK, LocksAssumption
<1>7. /\ RowsOK' /\ pc'[q] = "queued"
      /\ \A r \in Requests \ {q} : pc'[r] = pc[r] /\ job'[r] = job[r]
  BY <1>2, <1>3, <1>4, <1>5, <1>6, OneGoesOn
<1>8. \A r \in Requests \ {q} : Held(r)' = Held(r)
  BY <1>2 DEF Held
<1>9. LocksEndWithTransactions'
  <2>1. \A row \in Rows : lock[row] # q
    BY <1>2, NothingHeld DEF Held
  <2>2. \A row \in Rows : lock[row] \in Requests \cup {NoOne}
    BY <1>3 DEF RowsOK, TypeOK
  <2>3. QED
    BY <1>2, <1>7, <2>1, <2>2 DEF IInv, LocksEndWithTransactions
<1>10. PlanJob(q)'
  BY <1>7 DEF PlanJob
<1>11. QED
  BY <1>7, <1>8, <1>9, <1>10, OthersKeep

LEMMA BeginStep ==
  ASSUME LocksAssumption, IInv, NEW q \in Requests, Begin(q)
  PROVE  IInv'
<1>1. /\ pc[q] = "queued" /\ pc' = [pc EXCEPT ![q] = "running"] /\ lock' = lock
      /\ \E plan \in Plans[job[q].op] :
           job' = [job EXCEPT ![q].plan = Passed(plan), ![q].starts = @ + 1]
  BY DEF Begin
<1>2. PICK plan \in Plans[job[q].op] :
        job' = [job EXCEPT ![q].plan = Passed(plan), ![q].starts = @ + 1]
  BY <1>1
<1>3. RowsOK /\ job[q] \in JobType /\ job[q].op \in Ops /\ job[q].starts < Tries
  BY <1>1 DEF IInv, RowsOK, JobType
<1>4. plan \in Seq(Groups)
  BY <1>3, PlansTyped DEF LocksAssumption
<1>5. Passed(plan) \in Seq(Groups) /\ (Passed(plan) # <<>> => Head(Passed(plan)) # {})
  BY <1>4, Passing
<1> DEFINE rest == Passed(plan)
           new == [job[q] EXCEPT !.plan = rest, !.starts = job[q].starts + 1]
<1>6. job' = [job EXCEPT ![q] = new]
  BY <1>2, <1>3 DEF IInv, RowsOK
<1> HIDE DEF rest
<1>7. rest \in Seq(Groups) /\ (rest # <<>> => Head(rest) # {})
  BY <1>5 DEF rest
<1>8. new \in JobType /\ new.op = job[q].op /\ new.plan = rest
  <2>1. job[q].starts + 1 \in 0..Tries
    BY <1>3 DEF JobType, LocksAssumption
  <2>2. QED
    BY <1>3, <1>7, <2>1 DEF JobType
<1> HIDE DEF new
<1>9. lock' \in [Rows -> Requests \cup {NoOne}]
  BY <1>1, <1>3 DEF RowsOK, TypeOK
<1>10. /\ RowsOK' /\ pc'[q] = "running" /\ job'[q] = new
       /\ \A r \in Requests \ {q} : pc'[r] = pc[r] /\ job'[r] = job[r]
  BY <1>1, <1>3, <1>6, <1>7, <1>8, <1>9, OneGoesOn
<1>11. \A r \in Requests : Held(r)' = Held(r)
  BY <1>1 DEF Held
<1>12. LocksEndWithTransactions'
  <2>1. \A row \in Rows : lock[row] # q
    BY <1>1, NothingHeld DEF Held
  <2>2. \A row \in Rows : lock[row] \in Requests \cup {NoOne}
    BY <1>3 DEF RowsOK, TypeOK
  <2>3. QED
    BY <1>1, <1>10, <2>1, <2>2 DEF IInv, LocksEndWithTransactions
<1>13. PlanJob(q)'
  <2>1. SUFFICES ASSUME job[q].op \in Orderly
                 PROVE  \E b \in Branches : InOrder(b, Held(q)', job'[q].plan)
    BY <1>8, <1>10 DEF PlanJob
  <2>2. PICK b \in Branches : InOrder(b, {}, plan)
    BY <2>1, PlansInOrder
  <2>3. InOrder(b, {}, rest)
    BY <2>2, PassedInOrder DEF rest
  <2>4. Held(q)' = {}
    BY <1>1, <1>11, NothingHeld
  <2>5. QED
    BY <1>8, <1>10, <2>3, <2>4
<1>14. QED
  BY <1>10, <1>11, <1>12, <1>13, OthersKeep

\* A running request goes on with another plan: what the next two steps share.
GoesOnWith(q, rest) == pc' = pc /\ job' = [job EXCEPT ![q].plan = rest]

LEMMA PlanChange ==
  ASSUME RowsOK, NEW q \in Requests, NEW rest, rest \in Seq(Groups),
         rest # <<>> => Head(rest) # {},
         pc[q] = "running", GoesOnWith(q, rest),
         lock' \in [Rows -> Requests \cup {NoOne}]
  PROVE  /\ RowsOK' /\ job'[q].plan = rest /\ job'[q].op = job[q].op
         /\ \A r \in Requests \ {q} : pc'[r] = pc[r] /\ job'[r] = job[r]
<1> DEFINE new == [job[q] EXCEPT !.plan = rest]
<1>1. job[q] \in JobType /\ job[q].op \in Ops
  BY DEF RowsOK, JobType
<1>2. new \in JobType /\ new.plan = rest /\ new.op = job[q].op /\ job' = [job EXCEPT ![q] = new]
  BY <1>1 DEF JobType, GoesOnWith
<1>3. pc' = [pc EXCEPT ![q] = "running"]
  BY DEF RowsOK, TypeOK, GoesOnWith
<1>4. new.op \in Ops /\ (new.plan # <<>> => Head(new.plan) # {})
  BY <1>1, <1>2
<1> HIDE DEF new
<1>5. "running" \in {"idle", "queued", "running", "victim"} \cup Ended
  OBVIOUS
<1>6. /\ RowsOK' /\ job'[q] = new
      /\ \A r \in Requests \ {q} : pc'[r] = pc[r] /\ job'[r] = job[r]
  BY <1>2, <1>3, <1>4, <1>5, OneGoesOn
<1>7. QED
  BY <1>2, <1>6

\* The row that is locked next is the least of the group at the head.
LEMMA NextRowIsLeast ==
  ASSUME LocksAssumption, RowsOK, NEW q \in Requests, LocksNext(q)
  PROVE  /\ job[q].plan \in Seq(Groups) /\ job[q].plan # <<>> /\ Head(job[q].plan) # Outside
         /\ Head(job[q].plan) \in SUBSET Rows
         /\ NextRow(q) \in Head(job[q].plan)
         /\ \A r \in Head(job[q].plan) : NextRow(q).id <= r.id
<1>1. /\ job[q].plan \in Seq(Groups) /\ job[q].plan # <<>>
      /\ Head(job[q].plan) # Outside /\ Head(job[q].plan) # {}
  BY DEF RowsOK, LocksNext
<1>2. Head(job[q].plan) \in SUBSET Rows
  BY <1>1 DEF Groups
<1>3. \E r \in Head(job[q].plan) : \A s \in Head(job[q].plan) : r.id <= s.id
  BY <1>1, <1>2, LeastOfGroup
<1>4. QED
  BY <1>1, <1>2, <1>3 DEF NextRow

LEMMA LockStep ==
  ASSUME LocksAssumption, IInv, NEW q \in Requests, Lock(q)
  PROVE  IInv'
<1> DEFINE n == NextRow(q)
           plan == job[q].plan
           left == Without(n, plan)
           rest == Passed(left)
<1>1. /\ LocksNext(q) /\ pc[q] = "running" /\ pc' = pc /\ lock[n] \in {NoOne, q}
      /\ lock' = [lock EXCEPT ![n] = q]
      /\ job' = [job EXCEPT ![q].plan = rest]
  BY DEF Lock, LocksNext, CanWrite
<1>3. RowsOK /\ job[q] \in JobType
  BY DEF IInv, RowsOK, JobType
<1>4. /\ plan \in Seq(Groups) /\ plan # <<>> /\ Head(plan) # Outside /\ Head(plan) \in SUBSET Rows
      /\ n \in Head(plan) /\ \A r \in Head(plan) : n.id <= r.id
  BY <1>1, <1>3, NextRowIsLeast
<1>5. left \in Seq(Groups)
  <2>1. Head(plan) = plan[1] /\ plan[1] \ {n} \in Groups
    BY <1>4 DEF Groups
  <2>2. QED
    BY <1>4, <2>1 DEF Without
<1>6. rest \in Seq(Groups) /\ (rest # <<>> => Head(rest) # {})
  <2> HIDE DEF left
  <2>1. QED
    BY <1>5, Passing
<1>7. n \in Rows
  BY <1>4
<1> HIDE DEF n, left, rest
<1>8. lock \in [Rows -> Requests \cup {NoOne}]
  BY <1>3 DEF RowsOK, TypeOK
<1>9. lock' \in [Rows -> Requests \cup {NoOne}]
  BY <1>1, <1>8
<1>10. /\ RowsOK' /\ job'[q].plan = rest /\ job'[q].op = job[q].op
       /\ \A r \in Requests \ {q} : pc'[r] = pc[r] /\ job'[r] = job[r]
  BY <1>1, <1>3, <1>6, <1>9, PlanChange DEF GoesOnWith
<1>11. Held(q)' = Held(q) \cup {n} /\ \A r \in Requests \ {q} : Held(r)' = Held(r)
  BY <1>1, <1>7, <1>8, NoOneAssumption DEF Held
<1>12. LocksEndWithTransactions'
  BY <1>1, <1>7, <1>8 DEF IInv, LocksEndWithTransactions
<1>13. PlanJob(q)'
  <2>1. SUFFICES ASSUME job[q].op \in Orderly
                 PROVE  \E b \in Branches : InOrder(b, Held(q)', job'[q].plan)
    BY <1>10 DEF PlanJob
  <2>2. PICK b \in Branches : InOrder(b, Held(q), plan)
    BY <1>1, <2>1 DEF IInv, PlanJob
  <2>3. InOrder(b, Held(q) \cup {n}, left)
    BY <1>4, <2>2, LockedInOrder DEF left
  <2>4. InOrder(b, Held(q) \cup {n}, rest)
    BY <2>3, PassedInOrder DEF rest
  <2>5. QED
    BY <1>10, <1>11, <2>4
<1>14. QED
  BY <1>10, <1>11, <1>12, <1>13, OthersKeep

LEMMA AskPoolStep ==
  ASSUME LocksAssumption, IInv, NEW q \in Requests, AskPool(q)
  PROVE  IInv'
<1> DEFINE plan == job[q].plan
           rest == Passed(Tail(plan))
<1>1. /\ pc[q] = "running" /\ plan # <<>> /\ Head(plan) = Outside /\ pc' = pc /\ lock' = lock
      /\ job' = [job EXCEPT ![q].plan = rest]
  BY DEF AskPool, AsksPool
<1>2. RowsOK /\ plan \in Seq(Groups)
  BY DEF IInv, RowsOK
<1>3. rest \in Seq(Groups) /\ (rest # <<>> => Head(rest) # {})
  <2>1. Tail(plan) \in Seq(Groups)
    BY <1>1, <1>2
  <2>2. QED
    BY <2>1, Passing
<1> HIDE DEF rest
<1>4. lock' \in [Rows -> Requests \cup {NoOne}]
  BY <1>1, <1>2 DEF RowsOK, TypeOK
<1>5. /\ RowsOK' /\ job'[q].plan = rest /\ job'[q].op = job[q].op
      /\ \A r \in Requests \ {q} : pc'[r] = pc[r] /\ job'[r] = job[r]
  BY <1>1, <1>2, <1>3, <1>4, PlanChange DEF GoesOnWith
<1>6. \A r \in Requests : Held(r)' = Held(r)
  BY <1>1 DEF Held
<1>7. LocksEndWithTransactions'
  BY <1>1 DEF IInv, LocksEndWithTransactions
<1>8. PlanJob(q)'
  <2>1. SUFFICES ASSUME job[q].op \in Orderly
                 PROVE  \E b \in Branches : InOrder(b, Held(q)', job'[q].plan)
    BY <1>5 DEF PlanJob
  <2>2. PICK b \in Branches : InOrder(b, Held(q), plan)
    BY <1>1, <2>1 DEF IInv, PlanJob
  <2>3. InOrder(b, Held(q), Tail(plan))
    BY <1>1, <2>2, AskedInOrder
  <2>4. InOrder(b, Held(q), rest)
    BY <2>3, PassedInOrder DEF rest
  <2>5. QED
    BY <1>5, <1>6, <2>4
<1>9. QED
  BY <1>5, <1>6, <1>7, <1>8, OthersKeep

LEMMA CommitStep ==
  ASSUME LocksAssumption, IInv, NEW q \in Requests, Commit(q)
  PROVE  IInv'
<1>1. /\ pc[q] = "running" /\ lock' = Released(q) /\ job' = job
      /\ pc' = [pc EXCEPT ![q] = "saved"]
  BY DEF Commit
<1>2. RowsOK /\ job[q] \in JobType /\ job[q].op \in Ops /\ (job[q].plan # <<>> => Head(job[q].plan) # {})
  BY <1>1 DEF IInv, RowsOK, JobType
<1>3. job' = [job EXCEPT ![q] = job[q]] /\ \A r \in Requests \ {q} : pc'[r] = pc[r]
  BY <1>1, <1>2 DEF RowsOK, TypeOK
<1>4. /\ lock' \in [Rows -> Requests \cup {NoOne}] /\ LocksEndWithTransactions'
      /\ \A r \in Requests \ {q} : Held(r)' = Held(r)
  BY <1>1, <1>3, Release
<1>5. /\ RowsOK' /\ pc'[q] = "saved"
      /\ \A r \in Requests \ {q} : pc'[r] = pc[r] /\ job'[r] = job[r]
  BY <1>1, <1>2, <1>3, <1>4, OneGoesOn DEF Ended
<1>6. PlanJob(q)'
  BY <1>5 DEF PlanJob
<1>7. QED
  BY <1>4, <1>5, <1>6, OthersKeep

LEMMA RollbackStep ==
  ASSUME LocksAssumption, IInv, NEW q \in Requests, pc[q] # "idle",
         NEW stage \in {"failed", "victim"}, Rollback(q, stage)
  PROVE  IInv'
<1>1. /\ lock' = Released(q) /\ pc' = [pc EXCEPT ![q] = stage]
      /\ job' = [job EXCEPT ![q].plan = <<>>]
  BY DEF Rollback
<1>2. RowsOK /\ job[q] \in JobType /\ job[q].op \in Ops
  BY DEF IInv, RowsOK, JobType
<1> DEFINE new == [job[q] EXCEPT !.plan = <<>>]
<1>3. new \in JobType /\ new.op = job[q].op /\ new.plan = <<>> /\ job' = [job EXCEPT ![q] = new]
  <2>1. <<>> \in Seq(Groups)
    OBVIOUS
  <2>2. new \in JobType /\ new.op = job[q].op /\ new.plan = <<>>
    BY <1>2, <2>1 DEF JobType
  <2>3. job' = [job EXCEPT ![q] = new]
    BY <1>1
  <2>4. QED
    BY <2>2, <2>3
<1>4. \A r \in Requests \ {q} : pc'[r] = pc[r]
  BY <1>1, <1>2 DEF RowsOK, TypeOK
<1>5. /\ lock' \in [Rows -> Requests \cup {NoOne}] /\ LocksEndWithTransactions'
      /\ \A r \in Requests \ {q} : Held(r)' = Held(r)
  BY <1>1, <1>4, Release
<1> HIDE DEF new
<1>6. /\ stage \in {"idle", "queued", "running", "victim"} \cup Ended
      /\ stage # "idle" /\ stage # "queued" /\ new.op \in Ops
  BY <1>2, <1>3 DEF Ended
<1>7. /\ RowsOK' /\ pc'[q] = stage
      /\ \A r \in Requests \ {q} : pc'[r] = pc[r] /\ job'[r] = job[r]
  BY <1>1, <1>2, <1>3, <1>5, <1>6, OneGoesOn
<1>8. PlanJob(q)'
  BY <1>6, <1>7 DEF PlanJob
<1>9. QED
  BY <1>5, <1>7, <1>8, OthersKeep

LEMMA RetryStep ==
  ASSUME LocksAssumption, IInv, NEW q \in Requests, Retry(q)
  PROVE  IInv'
<1> DEFINE stage == IF job[q].starts < Tries THEN "queued" ELSE "failed"
<1>1. pc[q] = "victim" /\ pc' = [pc EXCEPT ![q] = stage] /\ lock' = lock /\ job' = job
  BY DEF Retry
<1>2. RowsOK /\ job[q] \in JobType /\ job[q].op \in Ops /\ (job[q].plan # <<>> => Head(job[q].plan) # {})
  BY <1>1 DEF IInv, RowsOK, JobType
<1>3. /\ job' = [job EXCEPT ![q] = job[q]] /\ lock' \in [Rows -> Requests \cup {NoOne}]
      /\ stage \in {"queued", "failed"} /\ (stage = "queued" => job[q].starts < Tries)
  BY <1>1, <1>2 DEF RowsOK, TypeOK
<1> HIDE DEF stage
<1>4. /\ RowsOK' /\ pc'[q] = stage
      /\ \A r \in Requests \ {q} : pc'[r] = pc[r] /\ job'[r] = job[r]
  BY <1>1, <1>2, <1>3, OneGoesOn DEF Ended
<1>5. \A r \in Requests : Held(r)' = Held(r)
  BY <1>1 DEF Held
<1>6. LocksEndWithTransactions'
  <2>1. \A row \in Rows : lock[row] # q
    BY <1>1, NothingHeld DEF Held
  <2>2. \A row \in Rows : lock[row] \in Requests \cup {NoOne}
    BY <1>2 DEF RowsOK, TypeOK
  <2>3. QED
    BY <1>1, <1>4, <2>1, <2>2 DEF IInv, LocksEndWithTransactions
<1>7. PlanJob(q)'
  BY <1>3, <1>4 DEF PlanJob
<1>8. QED
  BY <1>4, <1>5, <1>6, <1>7, OthersKeep

LEMMA InitInv ==
  ASSUME LocksAssumption, Init
  PROVE  IInv
<1>1. RowsOK
  <2>1. <<>> \in Seq(Groups)
    OBVIOUS
  <2>2. /\ lock \in [Rows -> Requests \cup {NoOne}]
        /\ pc \in [Requests -> {"idle", "queued", "running", "victim"} \cup Ended]
    BY DEF Init
  <2>3. NoJob \in JobType /\ NoJob.starts = 0 /\ NoJob.plan = <<>>
    BY <2>1 DEF NoJob, JobType, LocksAssumption
  <2>4. job \in [Requests -> JobType] /\ \A q \in Requests : job[q] = NoJob /\ pc[q] = "idle"
    BY <2>3 DEF Init
  <2>5. \A q \in Requests : job[q].starts \in 0..Tries
    BY <2>4, Zenon DEF JobType
  <2>6. QED
    BY <2>2, <2>3, <2>4, <2>5 DEF RowsOK, TypeOK, JobType
<1>2. LocksEndWithTransactions
  BY DEF Init, LocksEndWithTransactions
<1>3. \A q \in Requests : PlanJob(q)
  BY DEF Init, PlanJob
<1>4. QED
  BY <1>1, <1>2, <1>3 DEF IInv

LEMMA NextInv ==
  ASSUME LocksAssumption, IInv, [Next]_vars
  PROVE  IInv'
<1>1. CASE UNCHANGED vars
  <2>1. lock' = lock /\ pc' = pc /\ job' = job
    BY <1>1 DEF vars
  <2>2. \A q \in Requests : Held(q)' = Held(q)
    BY <2>1 DEF Held
  <2>3. RowsOK' /\ LocksEndWithTransactions'
    BY <2>1 DEF IInv, RowsOK, TypeOK, LocksEndWithTransactions
  <2>4. \A q \in Requests : PlanJob(q)'
    BY <2>1, <2>2 DEF IInv, PlanJob
  <2>5. QED
    BY <2>3, <2>4 DEF IInv
<1>2. ASSUME NEW q \in Requests, Refuse(q) \/ TimeOut(q) \/ PoolTimeOut(q)
      PROVE  IInv'
  <2>1. pc[q] # "idle" /\ Rollback(q, "failed")
    BY <1>2 DEF Refuse, TimeOut, PoolTimeOut, LocksNext, AsksPool
  <2>2. QED
    BY <2>1, RollbackStep
<1>3. ASSUME NEW q \in Requests, BreakDeadlock(q)
      PROVE  IInv'
  <2>1. LocksNext(q) /\ Rollback(q, "victim")
    BY <1>3, VictimsWait DEF BreakDeadlock
  <2>2. pc[q] # "idle"
    BY <2>1 DEF LocksNext
  <2>3. QED
    BY <2>1, <2>2, RollbackStep
<1>4. QED
  BY <1>1, <1>2, <1>3, SubmitStep, BeginStep, LockStep, AskPoolStep, CommitStep, RetryStep DEF
     Next

-----------------------------------------------------------------------------
(* No circle.                                                                *)

LEMMA KindsOfRows ==
  ASSUME NEW b \in Branches, NEW r \in RowsOf(b)
  PROVE  /\ r.kind \in {"branch"} \cup BranchKinds \cup SharedKinds
         /\ r.kind \in BranchKinds => r.branch = b
         /\ r.kind = "branch" => r.id = 0
<1>1. CASE r = Branch(b)
  BY <1>1 DEF Branch, Row, BranchKinds
<1>2. ASSUME NEW kind \in BranchKinds, r \in Owned(kind, b)
      PROVE  r.kind = kind /\ r.branch = b
  BY <1>2 DEF Owned, Row
<1>3. ASSUME NEW kind \in SharedKinds, r \in Shared(kind)
      PROVE  r.kind = kind
  BY <1>3 DEF Shared, Owned, Row
<1>4. \/ r = Branch(b)
      \/ \E kind \in BranchKinds : r \in Owned(kind, b)
      \/ \E kind \in SharedKinds : r \in Shared(kind)
  BY DEF RowsOf
<1>5. QED
  BY <1>1, <1>2, <1>3, <1>4 DEF BranchKinds, SharedKinds

\* Row x comes before row y; among papers none does.
Under(x, y) == Below(x, y) /\ ~(x.kind = "paper" /\ y.kind = "paper")

\* Who waits holds only rows that may be locked before the one it waits for; with a paper
\* in both places it holds the branch of both.
LEMMA WaitsUpwards ==
  ASSUME LocksAssumption, IInv, NEW s \in Requests, NEW r, WaitsFor(s, r),
         job[s].op \in Orderly, NEW x \in Held(s)
  PROVE  /\ Below(x, NextRow(s))
         /\ x.kind = "paper" /\ NextRow(s).kind = "paper" =>
              \E b \in Branches : Branch(b) \in Held(s) /\ x.branch = b /\ NextRow(s).branch = b
<1> DEFINE n == NextRow(s)
           plan == job[s].plan
<1>1. LocksNext(s) /\ pc[s] = "running" /\ lock[n] = r /\ r # s
  BY DEF WaitsFor, LocksNext
<1>2. PICK b \in Branches : InOrder(b, Held(s), plan)
  BY <1>1 DEF IInv, PlanJob
<1>3. plan \in Seq(Groups) /\ plan # <<>> /\ Head(plan) \in SUBSET Rows /\ n \in Head(plan)
  BY <1>1, NextRowIsLeast DEF IInv
<1> HIDE DEF n
<1>4. n \in Ahead(plan)
  <2>1. n \in plan[1] /\ 1 \in DOMAIN plan
    BY <1>3
  <2>2. n \notin Outside
    BY <1>3, RowsAreKnown DEF Outside, Row
  <2>3. QED
    BY <2>1, <2>2 DEF Ahead
<1>5. n \notin Held(s)
  BY <1>1 DEF Held
<1>6. Below(x, n)
  BY <1>2, <1>4, <1>5 DEF InOrder
<1>7. ASSUME x.kind = "paper", n.kind = "paper"
      PROVE  Branch(b) \in Held(s) /\ x.branch = b /\ n.branch = b
  <2>1. x \in RowsOf(b) /\ n \in RowsOf(b)
    BY <1>2, <1>4 DEF InOrder
  <2>2. x.branch = b /\ n.branch = b
    BY <1>7, <2>1, KindsOfRows DEF BranchKinds
  <2>3. ~LonePaper(Held(s) \cup Ahead(plan))
    BY <1>4, <1>5, <1>7 DEF LonePaper
  <2>4. Branch(b) \in Held(s) \/ Branch(b) \in Ahead(plan)
    BY <1>2, <2>3 DEF InOrder
  <2>5. ~Below(x, Branch(b))
    <3>1. Branch(b).kind = "branch"
      BY DEF Branch, Row
    <3>2. QED
      BY <1>7, <3>1 DEF Below, Level
  <2>6. QED
    BY <1>2, <2>2, <2>4, <2>5 DEF InOrder
<1>8. QED
  BY <1>6, <1>7 DEF n

LEMMA UnderIsAnOrder ==
  ASSUME LocksAssumption
  PROVE  /\ \A x \in Rows : ~Under(x, x)
         /\ \A x, y, z \in Rows : Under(x, y) /\ Under(y, z) => Under(x, z)
         /\ \A x, y, z \in Rows : Below(x, y) /\ ~Under(x, y) /\ Below(y, z) /\ ~Under(x, z) =>
              x.kind = "paper" /\ y.kind = "paper" /\ z.kind = "paper"
<1>1. \A x \in Rows : x.id \in Nat /\ Level(x.kind) \in Nat /\ (Level(x.kind) = 1 <=> x.kind = "paper")
  BY RowsAreKnown DEF Level
<1>2. QED
  BY <1>1 DEF Under, Below

\* What the rows climb to is a paper, that somebody waits for with the branch; the one who
\* has it waits for a paper too, with the same branch.
LEMMA NoCircle ==
  ASSUME LocksAssumption, IInv
  PROVE  LockedInOneOrder
<1>1. SUFFICES ASSUME NEW C \in SUBSET Requests, Circle(C), \A q \in C : job[q].op \in Orderly
               PROVE  FALSE
  BY DEF LockedInOneOrder
<1>2. \A s \in C : /\ NextRow(s) \in Rows
                   /\ \E t \in C : WaitsFor(s, t) /\ t # s /\ lock[NextRow(s)] = t /\ NextRow(s) \in Held(t)
  <2>1. SUFFICES ASSUME NEW s \in C
                 PROVE  /\ NextRow(s) \in Rows
                        /\ \E t \in C : WaitsFor(s, t) /\ t # s /\ lock[NextRow(s)] = t /\ NextRow(s) \in Held(t)
    OBVIOUS
  <2>2. PICK t \in C : WaitsFor(s, t)
    BY <1>1 DEF Circle
  <2>3. LocksNext(s) /\ lock[NextRow(s)] = t /\ t # s
    BY <2>2 DEF WaitsFor
  <2>4. NextRow(s) \in Rows
    BY <2>3, NextRowIsLeast DEF IInv
  <2>5. QED
    BY <2>2, <2>3, <2>4 DEF Held
<1> DEFINE above == [s \in C |-> {t \in C : Under(NextRow(s), NextRow(t))}]
<1>3. above \in [C -> SUBSET C]
  OBVIOUS
<1>4. \A s \in C : s \notin above[s]
  BY <1>2, UnderIsAnOrder
<1>5. \A s, t \in C : t \in above[s] => above[t] \subseteq above[s]
  BY <1>2, UnderIsAnOrder
<1>6. IsFiniteSet(C) /\ C # {}
  BY <1>1, FS_Subset DEF LocksAssumption, Circle
<1>7. \E s \in C : above[s] = {}
  <2> HIDE DEF above
  <2> QED
    BY <1>3, <1>4, <1>5, <1>6, SomeLast
<1>8. PICK s \in C : \A t \in C : ~Under(NextRow(s), NextRow(t))
  BY <1>7
<1>9. PICK t \in C : t # s /\ NextRow(s) \in Held(t)
  BY <1>2
<1>10. PICK u \in C : WaitsFor(t, u) /\ u # t /\ NextRow(t) \in Held(u)
  BY <1>2
<1>11. PICK v \in C : WaitsFor(u, v)
  BY <1>2
<1>12. Below(NextRow(s), NextRow(t)) /\ Below(NextRow(t), NextRow(u))
  BY <1>1, <1>9, <1>10, <1>11, WaitsUpwards
<1>13. NextRow(s).kind = "paper" /\ NextRow(t).kind = "paper" /\ NextRow(u).kind = "paper"
  BY <1>2, <1>8, <1>12, UnderIsAnOrder
<1>14. PICK b \in Branches : Branch(b) \in Held(t) /\ NextRow(t).branch = b
  BY <1>1, <1>9, <1>10, <1>13, WaitsUpwards
<1>15. PICK c \in Branches : Branch(c) \in Held(u) /\ NextRow(t).branch = c
  BY <1>1, <1>10, <1>11, <1>13, WaitsUpwards
<1>16. QED
  BY <1>10, <1>14, <1>15 DEF Held

-----------------------------------------------------------------------------
(* The theorems.                                                             *)

\* What a handler has locked and will lock stays in its order.
THEOREM Invariance == ASSUME LocksAssumption PROVE Spec => []IInv
<1>1. Init => IInv
  BY InitInv
<1>2. IInv /\ [Next]_vars => IInv'
  BY NextInv
<1>3. QED
  BY <1>1, <1>2, PTL DEF Spec

\* Every row is locked by a request or free, and no transaction is started more
\* often than billingTransaction allows.
THEOREM TypeCorrect == ASSUME LocksAssumption PROVE Spec => []TypeOK
<1>1. IInv => TypeOK
  BY DEF IInv, RowsOK
<1>2. QED
  BY <1>1, Invariance, PTL

\* A request that was answered, refused, timed out or rolled back leaves nothing locked.
THEOREM LocksAreReleased == ASSUME LocksAssumption PROVE Spec => []LocksEndWithTransactions
<1>1. IInv => LocksEndWithTransactions
  BY DEF IInv
<1>2. QED
  BY <1>1, Invariance, PTL

\* billingTransaction starts nobody again but the victim of a deadlock, and gives a
\* victim up only when it was started as often as allowed.
THEOREM VictimsAreRetried == ASSUME LocksAssumption PROVE Spec => OnlyVictimsRestart
<1>1. IInv /\ [Next]_vars => [OnlyVictimsRestartStep]_vars
  <2>1. SUFFICES ASSUME IInv, Next PROVE OnlyVictimsRestartStep
    OBVIOUS
  <2>2. pc \in [Requests -> {"idle", "queued", "running", "victim"} \cup Ended]
    BY <2>1 DEF IInv, RowsOK, TypeOK
  <2>3. PICK q \in Requests : \/ Submit(q) \/ Begin(q) \/ Lock(q) \/ AskPool(q) \/ Commit(q)
                              \/ Refuse(q) \/ TimeOut(q) \/ PoolTimeOut(q) \/ BreakDeadlock(q)
                              \/ Retry(q)
    BY <2>1 DEF Next
  <2>4. \A r \in Requests \ {q} : pc'[r] = pc[r]
    BY <2>2, <2>3 DEF Submit, Begin, Lock, AskPool, Commit, Refuse, TimeOut, PoolTimeOut,
                      BreakDeadlock, Retry, Rollback
  <2>5. job[q].starts > 0 /\ pc'[q] = "queued" /\ pc[q] # "queued" => pc[q] = "victim"
    <3>1. job[q].starts > 0 => ~Submit(q)
      BY <2>1 DEF IInv, RowsOK, Submit
    <3>2. QED
      BY <2>2, <2>3, <3>1 DEF Begin, Lock, AskPool, Commit, Refuse, TimeOut, PoolTimeOut,
                              BreakDeadlock, Retry, Rollback
  <2>6. pc[q] = "victim" /\ pc'[q] = "failed" => job[q].starts = Tries
    <3>1. pc[q] = "victim" => Retry(q)
      BY <2>3, VictimsWait DEF Submit, Begin, Lock, AskPool, Commit, Refuse, TimeOut, PoolTimeOut,
                               BreakDeadlock, LocksNext, AsksPool
    <3>2. job[q].starts \in 0..Tries
      BY <2>1 DEF IInv, RowsOK, TypeOK
    <3>3. QED
      BY <2>2, <3>1, <3>2 DEF Retry, LocksAssumption
  <2>7. QED
    BY <2>4, <2>5, <2>6 DEF OnlyVictimsRestartStep
<1>2. QED
  BY <1>1, Invariance, PTL DEF Spec, OnlyVictimsRestart

\* Whatever the requests, branches and rows are, requests that wait for each other in a
\* circle include one of the three handlers that lock against the order: no deadlock comes
\* from the others alone, although some of them lock papers, notes and invoices without
\* their branch.
THEOREM DeadlocksNeedAnException ==
  ASSUME LocksAssumption PROVE Spec => []LockedInOneOrder
<1>1. IInv => LockedInOneOrder
  BY NoCircle
<1>2. QED
  BY <1>1, Invariance, PTL

-----------------------------------------------------------------------------
(* The delivery of invoices, for any invoices, channels, attempts, requests  *)
(* and faults.                                                               *)

\* The row of a free attempt is free: what NewAttempt chooses is there.
LEMMA FreeIsFree ==
  ASSUME {b \in Attempts : attempt[b].status = "none"} # {}
  PROVE  LET a == CHOOSE b \in {b \in Attempts : attempt[b].status = "none"} : TRUE
         IN a \in Attempts /\ attempt[a].status = "none"
OBVIOUS

\* Only request q moves: the others stay where they are, with what they have.
OnlyMoves(q) ==
  /\ pc' \in [Requests -> Delivery!Steps]
  /\ job' \in [Requests -> Delivery!JobRow]
  /\ \A r \in Requests \ {q} : pc'[r] = pc[r] /\ job'[r] = job[r]

LEMMA GotoMoves ==
  ASSUME Delivery!IInv, NEW q \in Requests, NEW s \in Delivery!Steps, Delivery!Goto(q, s), UNCHANGED job
  PROVE  OnlyMoves(q) /\ pc'[q] = s /\ job'[q] = job[q]
BY DEF Delivery!IInv, Delivery!RowsOK, Delivery!TypeOK, Delivery!Goto, OnlyMoves

-----------------------------------------------------------------------------
(* A request that goes on with its attempt, or without one.                *)

\* The step s follows the present one with the attempt as it is.
Follows(q, s) ==
  /\ pc[q] # "idle" /\ s \in Delivery!Steps \ {"idle"}
  /\ s \in Delivery!UnderWay => pc[q] \in Delivery!UnderWay
  /\ s \in Delivery!Unsent => pc[q] \in Delivery!Unsent
  /\ s # "sent"

\* Only the status of rows changes, for q's own attempt to a settled one.
Settles(q) ==
  /\ attempt' \in [Attempts -> Delivery!AttemptRow]
  /\ \A a \in Attempts :
       /\ attempt'[a].invoice = attempt[a].invoice
       /\ attempt'[a].channel = attempt[a].channel
       /\ attempt[a].status # "none" => attempt'[a].status # "none"
       /\ attempt'[a].status = "SENT" =>
            attempt[a].status = "SENT" \/ (pc[q] = "sent" /\ a = job[q].attempt)

LEMMA SameSettles ==
  ASSUME Delivery!IInv, NEW q \in Requests, UNCHANGED attempt
  PROVE  Settles(q)
BY DEF Delivery!IInv, Delivery!RowsOK, Settles

LEMMA MarkSettles ==
  ASSUME Delivery!IInv, NEW q \in Requests, pc[q] \in Delivery!UnderWay, NEW s \in {"SENT", "FAILED"}, Delivery!Mark(q, s),
         s = "SENT" => pc[q] = "sent"
  PROVE  Settles(q)
<1>1. job[q].attempt \in Attempts /\ attempt \in [Attempts -> Delivery!AttemptRow]
  BY DEF Delivery!IInv, Delivery!RowsOK, Delivery!AttemptJob
<1>2. PICK a \in Attempts : a = job[q].attempt
  BY <1>1
<1>3. attempt' = [attempt EXCEPT ![a].status = s]
  BY <1>2 DEF Delivery!Mark
<1>4. [attempt[a] EXCEPT !.status = s] \in Delivery!AttemptRow
  BY <1>1 DEF Delivery!AttemptRow, Delivery!Statuses
<1>5. attempt' \in [Attempts -> Delivery!AttemptRow]
  BY <1>1, <1>3, <1>4
<1>6. \A b \in Attempts \ {a} : attempt'[b] = attempt[b]
  BY <1>1, <1>3
<1>7. attempt'[a] = [attempt[a] EXCEPT !.status = s]
  BY <1>1, <1>3
<1>8. /\ attempt'[a].invoice = attempt[a].invoice
      /\ attempt'[a].channel = attempt[a].channel
      /\ attempt'[a].status = s
  BY <1>1, <1>7 DEF Delivery!AttemptRow
<1>9. QED
  BY <1>2, <1>5, <1>6, <1>8 DEF Settles

LEMMA DeliveryGoesOnInv ==
  ASSUME Delivery!IInv, NEW q \in Requests, NEW s, Follows(q, s), Delivery!Goto(q, s), Settles(q),
         UNCHANGED <<invoice, outbox, job>>
  PROVE  Delivery!IInv'
<1>1. OnlyMoves(q) /\ pc'[q] = s /\ job'[q] = job[q]
  BY GotoMoves DEF Follows
<1>2. invoice' = invoice /\ outbox' = outbox /\ job' = job
  OBVIOUS
<1>3. Delivery!RowsOK'
  <2>1. \A m \in outbox : m.attempt \in Attempts
    BY DEF Delivery!IInv, Delivery!RowsOK, Delivery!Message
  <2>2. \A a \in Attempts : attempt'[a].status \in Delivery!Statuses
    BY DEF Settles, Delivery!AttemptRow
  <2>3. Delivery!TypeOK'
    BY <1>1, <1>2, <2>1, <2>2 DEF Delivery!IInv, Delivery!RowsOK, Delivery!TypeOK, Settles,
       OnlyMoves, Delivery!Statuses
  <2>4. \A r \in Requests : pc'[r] # "idle" => job'[r].invoice \in Invoices
    BY <1>1, <1>2 DEF Delivery!IInv, Delivery!RowsOK, OnlyMoves, Follows
  <2>5. QED
    BY <1>1, <1>2, <2>3, <2>4 DEF Delivery!IInv, Delivery!RowsOK, Settles, OnlyMoves
<1>4. Delivery!AttemptsApart'
  BY <1>1, <1>2 DEF Delivery!IInv, Delivery!AttemptsApart, OnlyMoves, Follows
<1>5. Delivery!MessagesAreOnRecord'
  <2>1. \A m \in outbox : m.attempt \in Attempts
    BY DEF Delivery!IInv, Delivery!RowsOK, Delivery!Message
  <2>2. QED
    BY <1>2, <2>1 DEF Delivery!IInv, Delivery!MessagesAreOnRecord, Settles
<1>6. \A r \in Requests : Delivery!AttemptJob(r)'
  <2>1. SUFFICES ASSUME NEW r \in Requests, pc'[r] \in Delivery!UnderWay PROVE Delivery!AttemptJob(r)'
    BY DEF Delivery!AttemptJob
  <2>2. pc[r] \in Delivery!UnderWay /\ (pc'[r] \in Delivery!Unsent => pc[r] \in Delivery!Unsent) /\ (pc'[r] = "sent" => pc[r] = "sent")
    BY <1>1, <2>1 DEF OnlyMoves, Follows
  <2>3. Delivery!AttemptJob(r)
    BY DEF Delivery!IInv
  <2>4. QED
    BY <1>2, <2>2, <2>3 DEF Delivery!AttemptJob, Settles
<1>7. \A r \in Requests : Delivery!AutomaticJob(r)'
  <2>1. \A r \in Requests : /\ pc[r] # "idle" => pc'[r] # "idle"
                            /\ pc'[r] \in Delivery!Unsent => pc[r] \in Delivery!Unsent
    BY <1>1 DEF OnlyMoves, Follows
  <2>2. QED
    BY <1>2, <2>1 DEF Delivery!IInv, Delivery!AutomaticJob
<1>8. Delivery!SentWasAccepted'
  BY <1>2 DEF Delivery!IInv, Delivery!SentWasAccepted, Settles, Delivery!AttemptJob,
     Delivery!UnderWay
<1>9. Delivery!AutomaticOnce'
  BY <1>2 DEF Delivery!IInv, Delivery!AutomaticOnce
<1>10. QED
  BY <1>3, <1>4, <1>5, <1>6, <1>7, <1>8, <1>9 DEF Delivery!IInv

-----------------------------------------------------------------------------
(* A request that ends, and one that starts.                               *)

\* What is on record stays; a request that moves has no attempt under way.
LEMMA DeliveryBetweenInv ==
  ASSUME Delivery!IInv, NEW q \in Requests, OnlyMoves(q), UNCHANGED <<attempt, outbox>>,
         invoice' \in [Invoices -> {"none", "draft", "issued", "cancelled"}],
         \A i \in Invoices : invoice[i] # "none" => invoice'[i] # "none",
         pc'[q] \notin Delivery!UnderWay,
         pc'[q] # "idle" => job'[q].invoice \in Invoices,
         Delivery!AutomaticJob(q)',
         job'[q].auto => \A r \in Requests \ {q} : job[r].auto => job[r].invoice # job'[q].invoice
  PROVE  Delivery!IInv'
<1>1. attempt' = attempt /\ outbox' = outbox
  OBVIOUS
<1>2. \A r \in Requests \ {q} : pc'[r] = pc[r] /\ job'[r] = job[r]
  BY DEF OnlyMoves
<1>3. Delivery!RowsOK'
  <2>1. Delivery!TypeOK'
    BY <1>1 DEF Delivery!IInv, Delivery!RowsOK, Delivery!TypeOK, OnlyMoves
  <2>2. \A r \in Requests : pc'[r] # "idle" => job'[r].invoice \in Invoices
    BY <1>2 DEF Delivery!IInv, Delivery!RowsOK
  <2>3. QED
    BY <1>1, <2>1, <2>2 DEF Delivery!IInv, Delivery!RowsOK, OnlyMoves
<1>4. Delivery!AttemptsApart'
  BY <1>2 DEF Delivery!IInv, Delivery!AttemptsApart
<1>5. Delivery!MessagesAreOnRecord'
  <2>1. \A m \in outbox : m.invoice \in Invoices
    BY DEF Delivery!IInv, Delivery!RowsOK, Delivery!Message
  <2>2. QED
    BY <1>1, <2>1 DEF Delivery!IInv, Delivery!MessagesAreOnRecord
<1>6. \A r \in Requests : Delivery!AttemptJob(r)'
  <2>1. Delivery!AttemptJob(q)'
    BY DEF Delivery!AttemptJob
  <2>2. \A r \in Requests \ {q} : Delivery!AttemptJob(r)'
    BY <1>1, <1>2 DEF Delivery!IInv, Delivery!AttemptJob
  <2>3. QED
    BY <2>1, <2>2
<1>7. \A r \in Requests : Delivery!AutomaticJob(r)'
  <2>1. SUFFICES ASSUME NEW r \in Requests \ {q}, job[r].auto PROVE Delivery!AutomaticJob(r)'
    BY <1>2 DEF Delivery!AutomaticJob
  <2>2. Delivery!AutomaticJob(r) /\ job'[r] = job[r] /\ pc'[r] = pc[r]
    BY <1>2 DEF Delivery!IInv
  <2>3. job[r].invoice \in Invoices
    BY <2>1, <2>2 DEF Delivery!IInv, Delivery!RowsOK, Delivery!AutomaticJob
  <2>4. \A u \in Requests \ {r} : job'[u].auto => job'[u].invoice # job[r].invoice
    BY <1>2, <2>1, <2>2 DEF Delivery!AutomaticJob
  <2>5. QED
    BY <1>1, <2>1, <2>2, <2>3, <2>4 DEF Delivery!AutomaticJob
<1>8. Delivery!SentWasAccepted' /\ Delivery!AutomaticOnce'
  BY <1>1 DEF Delivery!IInv, Delivery!SentWasAccepted, Delivery!AutomaticOnce
<1>9. QED
  BY <1>3, <1>4, <1>5, <1>6, <1>7, <1>8 DEF Delivery!IInv

LEMMA DeliveryEndInv ==
  ASSUME Delivery!IInv, NEW q \in Requests, Delivery!End(q), UNCHANGED <<invoice, attempt, outbox>>
  PROVE  Delivery!IInv'
<1>1. Delivery!Idle \in Delivery!JobRow /\ Delivery!Idle.auto = FALSE
  BY DEF Delivery!Idle, Delivery!JobRow
<1>2. pc' = [pc EXCEPT ![q] = "idle"] /\ job' = [job EXCEPT ![q] = Delivery!Idle]
  BY DEF Delivery!End, Delivery!Goto
<1>3. OnlyMoves(q) /\ pc'[q] = "idle" /\ job'[q] = Delivery!Idle
  BY <1>1, <1>2 DEF Delivery!IInv, Delivery!RowsOK, Delivery!TypeOK, OnlyMoves, Delivery!Steps
<1>4. Delivery!AutomaticJob(q)'
  BY <1>1, <1>3 DEF Delivery!AutomaticJob
<1>5. QED
  BY <1>1, <1>3, <1>4, DeliveryBetweenInv DEF Delivery!UnderWay, Delivery!IInv, Delivery!RowsOK,
     Delivery!TypeOK

\* An automatic delivery starts with an invoice that was not there before, of which no
\* message went out and nobody else delivers.
LEMMA DeliveryStartInv ==
  ASSUME Delivery!IInv, NEW q \in Requests, pc[q] = "idle", NEW i \in Invoices,
         NEW channels \in SUBSET Channels, NEW auto \in BOOLEAN, Delivery!Start(q, i, channels, auto),
         UNCHANGED <<attempt, outbox>>,
         invoice' \in [Invoices -> {"none", "draft", "issued", "cancelled"}],
         \A x \in Invoices : invoice[x] # "none" => invoice'[x] # "none",
         auto => invoice[i] = "none" /\ invoice'[i] # "none"
  PROVE  Delivery!IInv'
<1> DEFINE row == [Delivery!Idle EXCEPT !.invoice = i, !.left = channels, !.auto = auto]
<1>1. row \in Delivery!JobRow /\ row.invoice = i /\ row.left = channels /\ row.auto = auto
  BY DEF Delivery!Idle, Delivery!JobRow
<1>2. pc' = [pc EXCEPT ![q] = "deliver"] /\ job' = [job EXCEPT ![q] = row]
  BY DEF Delivery!Start, Delivery!Goto
<1>3. OnlyMoves(q) /\ pc'[q] = "deliver" /\ job'[q] = row
  <2> HIDE DEF row
  <2> QED
    BY <1>1, <1>2 DEF Delivery!IInv, Delivery!RowsOK, Delivery!TypeOK, OnlyMoves, Delivery!Steps
<1> HIDE DEF row
<1>4. auto => \A r \in Requests \ {q} : job[r].auto => job[r].invoice # i
  BY DEF Delivery!IInv, Delivery!AutomaticJob
<1>5. auto => \A m \in outbox : m.auto => m.invoice # i
  BY DEF Delivery!IInv, Delivery!MessagesAreOnRecord
<1>6. Delivery!AutomaticJob(q)'
  BY <1>1, <1>3, <1>4, <1>5 DEF Delivery!AutomaticJob, OnlyMoves
<1>7. QED
  BY <1>1, <1>3, <1>4, <1>6, DeliveryBetweenInv DEF Delivery!UnderWay

\* Only the status of an invoice changes.
LEMMA DeliveryInvoiceInv ==
  ASSUME Delivery!IInv, UNCHANGED <<attempt, outbox, pc, job>>,
         invoice' \in [Invoices -> {"none", "draft", "issued", "cancelled"}],
         \A x \in Invoices : invoice[x] # "none" => invoice'[x] # "none"
  PROVE  Delivery!IInv'
<1>1. attempt' = attempt /\ outbox' = outbox /\ pc' = pc /\ job' = job
  OBVIOUS
<1>2. Delivery!RowsOK'
  BY <1>1 DEF Delivery!IInv, Delivery!RowsOK, Delivery!TypeOK
<1>3. Delivery!MessagesAreOnRecord'
  BY <1>1 DEF Delivery!IInv, Delivery!MessagesAreOnRecord, Delivery!RowsOK, Delivery!Message
<1>4. \A r \in Requests : Delivery!AutomaticJob(r)'
  BY <1>1 DEF Delivery!IInv, Delivery!AutomaticJob, Delivery!RowsOK
<1>5. QED
  BY <1>1, <1>2, <1>3, <1>4 DEF Delivery!IInv, Delivery!AttemptsApart, Delivery!AttemptJob,
     Delivery!SentWasAccepted, Delivery!AutomaticOnce

-----------------------------------------------------------------------------
(* A new attempt.                                                          *)

LEMMA DeliveryNewAttemptInv ==
  ASSUME Delivery!IInv, NEW q \in Requests, pc[q] = "next", NEW c \in job[q].left,
         NEW status \in {"PENDING", "FAILED"}, Delivery!NewAttempt(q, c, status),
         NEW s \in {"next"} \cup Delivery!Unsent, pc' = [pc EXCEPT ![q] = s],
         UNCHANGED <<invoice, outbox>>
  PROVE  Delivery!IInv'
<1>1. PICK a \in Attempts :
        /\ attempt[a].status = "none"
        /\ attempt' = [attempt EXCEPT ![a] = [invoice |-> job[q].invoice, channel |-> c, status |-> status]]
        /\ job' = [job EXCEPT ![q].attempt = a, ![q].channel = c, ![q].left = @ \ {c}]
  BY FreeIsFree, Zenon DEF Delivery!NewAttempt
<1>2. /\ job \in [Requests -> Delivery!JobRow] /\ job[q].invoice \in Invoices /\ c \in Channels
      /\ attempt \in [Attempts -> Delivery!AttemptRow] /\ pc \in [Requests -> Delivery!Steps]
  BY DEF Delivery!IInv, Delivery!RowsOK, Delivery!TypeOK, Delivery!JobRow
<1> DEFINE row == [invoice |-> job[q].invoice, channel |-> c, status |-> status]
           mine == [job[q] EXCEPT !.attempt = a, !.channel = c, !.left = @ \ {c}]
<1>3. row \in Delivery!AttemptRow /\ row.invoice = job[q].invoice /\ row.channel = c /\ row.status = status
  BY <1>2 DEF Delivery!AttemptRow, Delivery!Statuses
<1>4. /\ mine \in Delivery!JobRow /\ mine.attempt = a /\ mine.channel = c /\ mine.left = job[q].left \ {c}
      /\ mine.invoice = job[q].invoice /\ mine.auto = job[q].auto
  BY <1>2 DEF Delivery!JobRow
<1>5. job' = [job EXCEPT ![q] = mine] /\ attempt' = [attempt EXCEPT ![a] = row]
  BY <1>1, <1>2
<1> HIDE DEF row, mine
<1>6. /\ OnlyMoves(q) /\ pc'[q] = s /\ job'[q] = mine
      /\ attempt' \in [Attempts -> Delivery!AttemptRow] /\ attempt'[a] = row
      /\ \A b \in Attempts \ {a} : attempt'[b] = attempt[b]
  BY <1>2, <1>3, <1>4, <1>5 DEF OnlyMoves, Delivery!Steps, Delivery!Unsent
<1>7. invoice' = invoice /\ outbox' = outbox
  OBVIOUS
<1>8. \A m \in outbox : m.attempt \in Attempts \ {a}
  BY <1>1 DEF Delivery!IInv, Delivery!RowsOK, Delivery!Message, Delivery!MessagesAreOnRecord
<1>9. \A r \in Requests \ {q} : pc'[r] = pc[r] /\ job'[r] = job[r]
  BY <1>6 DEF OnlyMoves
<1>10. \A r \in Requests \ {q} : pc[r] \in Delivery!UnderWay => job[r].attempt \in Attempts \ {a}
  BY <1>1 DEF Delivery!IInv, Delivery!AttemptJob
<1>11. Delivery!RowsOK'
  <2>1. \A b \in Attempts : attempt'[b].status \in Delivery!Statuses
    BY <1>6 DEF Delivery!AttemptRow
  <2>2. \A m \in outbox : attempt'[m.attempt].invoice = m.invoice /\ attempt'[m.attempt].channel = m.channel
    BY <1>6, <1>8 DEF Delivery!IInv, Delivery!RowsOK, Delivery!TypeOK
  <2>3. Delivery!TypeOK'
    BY <1>6, <1>7, <2>1, <2>2 DEF Delivery!IInv, Delivery!RowsOK, Delivery!TypeOK, OnlyMoves,
       Delivery!Statuses
  <2>4. \A r \in Requests : pc'[r] # "idle" => job'[r].invoice \in Invoices
    BY <1>2, <1>4, <1>6, <1>9 DEF Delivery!IInv, Delivery!RowsOK
  <2>5. QED
    BY <1>6, <1>7, <2>3, <2>4 DEF Delivery!IInv, Delivery!RowsOK, OnlyMoves
<1>12. Delivery!AttemptsApart'
  BY <1>4, <1>6, <1>9, <1>10 DEF Delivery!IInv, Delivery!AttemptsApart
<1>13. Delivery!MessagesAreOnRecord'
  BY <1>6, <1>7, <1>8 DEF Delivery!IInv, Delivery!MessagesAreOnRecord
<1>14. Delivery!AttemptJob(q)'
  BY <1>2, <1>3, <1>4, <1>6, <1>7, <1>8 DEF Delivery!AttemptJob, Delivery!Unsent
<1>15. \A r \in Requests \ {q} : Delivery!AttemptJob(r)'
  BY <1>6, <1>7, <1>9, <1>10 DEF Delivery!IInv, Delivery!AttemptJob
<1>16. \A r \in Requests : Delivery!AutomaticJob(r)'
  <2>1. ASSUME job[q].auto PROVE Delivery!AutomaticJob(q)'
    <3>1. Delivery!AutomaticJob(q) /\ c \in job[q].left
      BY DEF Delivery!IInv
    <3>2. /\ invoice[job[q].invoice] # "none"
          /\ \A r \in Requests \ {q} : job[r].auto => job[r].invoice # job[q].invoice
          /\ \A m \in outbox : m.auto /\ m.invoice = job[q].invoice => m.channel \notin job[q].left
      BY <2>1, <3>1 DEF Delivery!AutomaticJob
    <3>3. s # "idle"
      BY DEF Delivery!Unsent
    <3>4. QED
      BY <1>4, <1>6, <1>7, <1>9, <3>1, <3>2, <3>3 DEF Delivery!AutomaticJob
  <2>2. \A r \in Requests \ {q} : Delivery!AutomaticJob(r)'
    BY <1>4, <1>6, <1>7, <1>9 DEF Delivery!IInv, Delivery!AutomaticJob
  <2>3. QED
    BY <1>4, <1>6, <2>1, <2>2 DEF Delivery!AutomaticJob
<1>17. Delivery!SentWasAccepted'
  BY <1>3, <1>6, <1>7 DEF Delivery!IInv, Delivery!SentWasAccepted
<1>18. Delivery!AutomaticOnce'
  BY <1>7 DEF Delivery!IInv, Delivery!AutomaticOnce
<1>19. QED
  BY <1>11, <1>12, <1>13, <1>14, <1>15, <1>16, <1>17, <1>18 DEF Delivery!IInv

-----------------------------------------------------------------------------
(* A message is accepted.                                                  *)

LEMMA DeliverySendInv ==
  ASSUME Delivery!IInv, NEW q \in Requests, Delivery!Send(q)
  PROVE  Delivery!IInv'
<1> DEFINE sent == [attempt |-> job[q].attempt, invoice |-> job[q].invoice,
                    channel |-> job[q].channel, auto |-> job[q].auto,
                    cancelled |-> invoice[job[q].invoice] = "cancelled"]
<1>1. pc[q] = "send" /\ outbox' = outbox \cup {sent}
  BY DEF Delivery!Send
<1>2. invoice' = invoice /\ attempt' = attempt /\ job' = job
  BY DEF Delivery!Send
<1>3. PICK s \in {"sent", "failed"} : Delivery!Goto(q, s)
  BY DEF Delivery!Send
<1>4. OnlyMoves(q) /\ pc'[q] = s
  BY <1>2, <1>3, GotoMoves DEF Delivery!Steps
<1>5. /\ Delivery!AttemptJob(q) /\ Delivery!AutomaticJob(q) /\ job[q] \in Delivery!JobRow /\ job[q].invoice \in Invoices
      /\ pc[q] \in Delivery!Unsent /\ pc[q] \in Delivery!UnderWay
  BY <1>1 DEF Delivery!IInv, Delivery!RowsOK, Delivery!Unsent, Delivery!UnderWay
<1>6. /\ job[q].attempt \in Attempts /\ job[q].channel \in Channels \ job[q].left
      /\ attempt[job[q].attempt].status # "none"
      /\ attempt[job[q].attempt].invoice = job[q].invoice
      /\ attempt[job[q].attempt].channel = job[q].channel
      /\ \A m \in outbox : m.attempt # job[q].attempt
  BY <1>5 DEF Delivery!AttemptJob
<1>7. /\ sent \in Delivery!Message /\ sent.attempt = job[q].attempt /\ sent.invoice = job[q].invoice
      /\ sent.channel = job[q].channel /\ sent.auto = job[q].auto
  BY <1>5, <1>6 DEF Delivery!Message, Delivery!JobRow
<1> HIDE DEF sent
<1>8. \A r \in Requests \ {q} : pc'[r] = pc[r]
  BY <1>4 DEF OnlyMoves
<1>9. Delivery!RowsOK'
  <2>1. Delivery!TypeOK'
    BY <1>1, <1>2, <1>4, <1>6, <1>7 DEF Delivery!IInv, Delivery!RowsOK, Delivery!TypeOK,
       OnlyMoves
  <2>2. \A r \in Requests : pc'[r] # "idle" => job'[r].invoice \in Invoices
    BY <1>2, <1>5, <1>8 DEF Delivery!IInv, Delivery!RowsOK
  <2>3. QED
    BY <1>1, <1>2, <1>7, <2>1, <2>2 DEF Delivery!IInv, Delivery!RowsOK
<1>10. Delivery!AttemptsApart'
  BY <1>2, <1>4, <1>5, <1>8 DEF Delivery!IInv, Delivery!AttemptsApart
<1>11. Delivery!MessagesAreOnRecord'
  BY <1>1, <1>2, <1>5, <1>6, <1>7 DEF Delivery!IInv, Delivery!MessagesAreOnRecord,
     Delivery!AutomaticJob
<1>12. Delivery!AttemptJob(q)'
  BY <1>1, <1>2, <1>4, <1>6, <1>7 DEF Delivery!AttemptJob, Delivery!Unsent
<1>13. ASSUME NEW r \in Requests \ {q} PROVE Delivery!AttemptJob(r)'
  <2>1. Delivery!AttemptJob(r) /\ pc'[r] = pc[r]
    BY <1>8 DEF Delivery!IInv
  <2>2. pc[r] \in Delivery!UnderWay => job[r].attempt # job[q].attempt
    BY <1>5 DEF Delivery!IInv, Delivery!AttemptsApart
  <2>3. QED
    BY <1>1, <1>2, <1>7, <2>1, <2>2 DEF Delivery!AttemptJob
<1>14. Delivery!AutomaticJob(q)'
  BY <1>1, <1>2, <1>4, <1>5, <1>6, <1>7 DEF Delivery!AutomaticJob, Delivery!Unsent
<1>15. ASSUME NEW r \in Requests \ {q} PROVE Delivery!AutomaticJob(r)'
  <2>1. Delivery!AutomaticJob(r) /\ pc'[r] = pc[r]
    BY <1>8 DEF Delivery!IInv
  <2>2. job[r].auto /\ job[q].auto => job[q].invoice # job[r].invoice
    BY <2>1 DEF Delivery!AutomaticJob
  <2>3. QED
    BY <1>1, <1>2, <1>7, <2>1, <2>2 DEF Delivery!AutomaticJob
<1>16. Delivery!SentWasAccepted'
  BY <1>1, <1>2 DEF Delivery!IInv, Delivery!SentWasAccepted
<1>17. Delivery!AutomaticOnce'
  <2>1. \A m \in outbox : ~(m.auto /\ sent.auto /\ m.invoice = sent.invoice /\ m.channel = sent.channel)
    BY <1>5, <1>7 DEF Delivery!AutomaticJob
  <2>2. \A m \in outbox : m.attempt # sent.attempt
    BY <1>6, <1>7
  <2>3. QED
    BY <1>1, <2>1, <2>2 DEF Delivery!IInv, Delivery!AutomaticOnce
<1>18. QED
  BY <1>9, <1>10, <1>11, <1>12, <1>13, <1>14, <1>15, <1>16, <1>17 DEF Delivery!IInv

-----------------------------------------------------------------------------
(* Every step.                                                             *)

LEMMA DeliveryInitInv ==
  ASSUME Delivery!Init
  PROVE  Delivery!IInv
<1>1. Delivery!Unused \in Delivery!AttemptRow /\ Delivery!Unused.status = "none" /\ Delivery!Idle \in Delivery!JobRow /\ Delivery!Idle.auto = FALSE
  BY DEF Delivery!Unused, Delivery!Idle, Delivery!AttemptRow, Delivery!JobRow, Delivery!Statuses
<1>2. \A a \in Attempts : attempt[a] = Delivery!Unused
  BY DEF Delivery!Init
<1>3. \A q \in Requests : pc[q] = "idle" /\ job[q] = Delivery!Idle
  BY DEF Delivery!Init
<1>4. Delivery!RowsOK
  BY <1>1, <1>2, <1>3 DEF Delivery!Init, Delivery!RowsOK, Delivery!TypeOK, Delivery!Steps
<1>5. \A q \in Requests : Delivery!AttemptJob(q) /\ Delivery!AutomaticJob(q)
  BY <1>1, <1>3 DEF Delivery!AttemptJob, Delivery!AutomaticJob, Delivery!UnderWay
<1>6. Delivery!AttemptsApart
  BY <1>3 DEF Delivery!AttemptsApart, Delivery!UnderWay
<1>7. Delivery!MessagesAreOnRecord /\ Delivery!SentWasAccepted /\ Delivery!AutomaticOnce
  BY <1>1, <1>2 DEF Delivery!Init, Delivery!MessagesAreOnRecord, Delivery!SentWasAccepted,
     Delivery!AutomaticOnce
<1>8. QED
  BY <1>4, <1>5, <1>6, <1>7 DEF Delivery!IInv

LEMMA DeliveryCreateInv ==
  ASSUME Delivery!IInv, NEW q \in Requests, NEW i \in Invoices, NEW draft \in BOOLEAN, NEW automatic \in BOOLEAN,
         Delivery!Create(q, i, draft, automatic)
  PROVE  Delivery!IInv'
<1>1. invoice' = [invoice EXCEPT ![i] = IF draft THEN "draft" ELSE "issued"]
  BY DEF Delivery!Create
<1>2. invoice \in [Invoices -> {"none", "draft", "issued", "cancelled"}]
  BY DEF Delivery!IInv, Delivery!RowsOK, Delivery!TypeOK
<1>3. /\ invoice' \in [Invoices -> {"none", "draft", "issued", "cancelled"}]
      /\ \A x \in Invoices : invoice[x] # "none" => invoice'[x] # "none"
      /\ invoice'[i] # "none"
  BY <1>1, <1>2
<1>4. CASE ~draft /\ automatic
  <2>1. Delivery!Start(q, i, Channels, TRUE) /\ pc[q] = "idle" /\ invoice[i] = "none" /\ UNCHANGED <<attempt, outbox>>
    BY <1>4 DEF Delivery!Create
  <2>2. Channels \in SUBSET Channels
    OBVIOUS
  <2>3. QED
    BY <1>3, <2>1, <2>2, DeliveryStartInv
<1>5. CASE ~(~draft /\ automatic)
  <2>1. UNCHANGED <<attempt, outbox, pc, job>>
    BY <1>5 DEF Delivery!Create
  <2>2. QED
    BY <1>3, <2>1, DeliveryInvoiceInv
<1>6. QED
  BY <1>4, <1>5

LEMMA DeliveryCancelInv ==
  ASSUME Delivery!IInv, NEW i \in Invoices, Delivery!Cancel(i)
  PROVE  Delivery!IInv'
<1>1. invoice' = [invoice EXCEPT ![i] = "cancelled"] /\ UNCHANGED <<attempt, outbox, pc, job>>
  BY DEF Delivery!Cancel
<1>2. invoice \in [Invoices -> {"none", "draft", "issued", "cancelled"}]
  BY DEF Delivery!IInv, Delivery!RowsOK, Delivery!TypeOK
<1>3. /\ invoice' \in [Invoices -> {"none", "draft", "issued", "cancelled"}]
      /\ \A x \in Invoices : invoice[x] # "none" => invoice'[x] # "none"
  BY <1>1, <1>2
<1>4. QED
  BY <1>1, <1>3, DeliveryInvoiceInv

LEMMA DeliveryNextInv ==
  ASSUME Delivery!IInv, [Delivery!Next]_(Delivery!vars)
  PROVE  Delivery!IInv'
<1>1. CASE UNCHANGED Delivery!vars
  <2>1. invoice' = invoice /\ attempt' = attempt /\ outbox' = outbox /\ pc' = pc /\ job' = job
    BY <1>1 DEF Delivery!vars
  <2>2. QED
    BY <2>1 DEF Delivery!IInv, Delivery!RowsOK, Delivery!TypeOK, Delivery!AttemptsApart,
       Delivery!MessagesAreOnRecord, Delivery!AttemptJob, Delivery!AutomaticJob,
                Delivery!SentWasAccepted, Delivery!AutomaticOnce
<1>2. ASSUME NEW q \in Requests, NEW i \in Invoices, NEW draft \in BOOLEAN, NEW automatic \in BOOLEAN,
             Delivery!Create(q, i, draft, automatic)
      PROVE  Delivery!IInv'
  BY <1>2, DeliveryCreateInv
<1>3. ASSUME NEW q \in Requests, NEW i \in Invoices, NEW channels \in (SUBSET Channels) \ {{}},
             Delivery!Deliver(q, i, channels)
      PROVE  Delivery!IInv'
  <2>1. /\ pc[q] = "idle" /\ Delivery!Start(q, i, channels, FALSE) /\ UNCHANGED <<attempt, outbox>>
        /\ invoice' = invoice /\ channels \in SUBSET Channels
    BY <1>3 DEF Delivery!Deliver
  <2>2. invoice' \in [Invoices -> {"none", "draft", "issued", "cancelled"}]
    BY <2>1 DEF Delivery!IInv, Delivery!RowsOK, Delivery!TypeOK
  <2>3. QED
    BY <2>1, <2>2, DeliveryStartInv
<1>4. ASSUME NEW i \in Invoices, Delivery!Cancel(i) PROVE Delivery!IInv'
  BY <1>4, DeliveryCancelInv
<1>5. ASSUME NEW q \in Requests, Delivery!Read(q) PROVE Delivery!IInv'
  <2>1. CASE Delivery!End(q)
    BY <1>5, <2>1, DeliveryEndInv DEF Delivery!Read
  <2>2. CASE Delivery!Goto(q, "next") /\ UNCHANGED job
    <3>1. Follows(q, "next") /\ UNCHANGED <<invoice, attempt, outbox, job>>
      BY <1>5, <2>2 DEF Delivery!Read, Follows, Delivery!Steps, Delivery!UnderWay,
         Delivery!Unsent
    <3>2. QED
      BY <2>2, <3>1, SameSettles, DeliveryGoesOnInv
  <2>3. QED
    BY <1>5, <2>1, <2>2 DEF Delivery!Read
<1>6. ASSUME NEW q \in Requests,
             Delivery!PrintFails(q) \/ Delivery!Finish(q) \/ Delivery!GiveUp(q) \/ Delivery!Stop(q)
      PROVE  Delivery!IInv'
  <2>1. Delivery!End(q) /\ UNCHANGED <<invoice, attempt, outbox>>
    BY <1>6 DEF Delivery!PrintFails, Delivery!Finish, Delivery!GiveUp, Delivery!Stop
  <2>2. QED
    BY <2>1, DeliveryEndInv
<1>7. ASSUME NEW q \in Requests, Delivery!RecordFailure(q) PROVE Delivery!IInv'
  <2>1. PICK c \in job[q].left : Delivery!NewAttempt(q, c, "FAILED")
    BY <1>7 DEF Delivery!RecordFailure
  <2>2. pc[q] = "next" /\ UNCHANGED <<invoice, outbox>> /\ pc' = pc
    BY <1>7 DEF Delivery!RecordFailure
  <2>3. pc' = [pc EXCEPT ![q] = "next"]
    BY <2>2 DEF Delivery!IInv, Delivery!RowsOK, Delivery!TypeOK
  <2>4. QED
    BY <2>1, <2>2, <2>3, DeliveryNewAttemptInv
<1>8. ASSUME NEW q \in Requests, Delivery!Open(q) PROVE Delivery!IInv'
  <2>1. PICK c \in job[q].left : Delivery!NewAttempt(q, c, "PENDING") /\ Delivery!Goto(q, IF c \in TwoStep THEN "upload" ELSE "send")
    BY <1>8 DEF Delivery!Open
  <2>2. pc[q] = "next" /\ UNCHANGED <<invoice, outbox>>
    BY <1>8 DEF Delivery!Open
  <2>3. PICK s \in Delivery!Unsent : pc' = [pc EXCEPT ![q] = s]
    BY <2>1 DEF Delivery!Goto, Delivery!Unsent
  <2>4. QED
    BY <2>1, <2>2, <2>3, DeliveryNewAttemptInv
<1>9. ASSUME NEW q \in Requests, \/ Delivery!Upload(q) \/ Delivery!Rejected(q) \/ Delivery!Audit(q)
                                \/ Delivery!AuditFailure(q) \/ Delivery!WriteFails(q)
      PROVE  Delivery!IInv'
  <2>1. PICK s : Delivery!Goto(q, s) /\ Follows(q, s)
    BY <1>9 DEF Delivery!Upload, Delivery!Rejected, Delivery!Audit, Delivery!AuditFailure, Delivery!WriteFails,
       Follows, Delivery!Steps, Delivery!UnderWay, Delivery!Unsent
  <2>2. UNCHANGED <<invoice, attempt, outbox, job>>
    BY <1>9 DEF Delivery!Upload, Delivery!Rejected, Delivery!Audit, Delivery!AuditFailure, Delivery!WriteFails
  <2>3. QED
    BY <2>1, <2>2, SameSettles, DeliveryGoesOnInv
<1>10. ASSUME NEW q \in Requests, Delivery!Send(q) PROVE Delivery!IInv'
  BY <1>10, DeliverySendInv
<1>11. ASSUME NEW q \in Requests, Delivery!MarkSent(q) PROVE Delivery!IInv'
  <2>1. pc[q] = "sent" /\ Delivery!Mark(q, "SENT") /\ Delivery!Goto(q, "audit") /\ UNCHANGED <<invoice, outbox, job>>
    BY <1>11 DEF Delivery!MarkSent
  <2>2. Settles(q)
    BY <2>1, MarkSettles DEF Delivery!UnderWay
  <2>3. Follows(q, "audit")
    BY <2>1 DEF Follows, Delivery!Steps, Delivery!UnderWay, Delivery!Unsent
  <2>4. QED
    BY <2>1, <2>2, <2>3, DeliveryGoesOnInv
<1>12. ASSUME NEW q \in Requests, Delivery!MarkFailed(q) PROVE Delivery!IInv'
  <2>1. pc[q] = "failed" /\ Delivery!Mark(q, "FAILED") /\ Delivery!Goto(q, "noted") /\ UNCHANGED <<invoice, outbox, job>>
    BY <1>12 DEF Delivery!MarkFailed
  <2>2. Settles(q)
    BY <2>1, MarkSettles DEF Delivery!UnderWay
  <2>3. Follows(q, "noted")
    BY <2>1 DEF Follows, Delivery!Steps, Delivery!UnderWay, Delivery!Unsent
  <2>4. QED
    BY <2>1, <2>2, <2>3, DeliveryGoesOnInv
<1>13. QED
  BY <1>1, <1>2, <1>3, <1>4, <1>5, <1>6, <1>7, <1>8, <1>9, <1>10, <1>11, <1>12 DEF
     Delivery!Next, Delivery!Work

-----------------------------------------------------------------------------
(* The theorems.                                                           *)

\* An attempt under way is one request's own, and what an automatic delivery has still to
\* serve had no automatic message.
THEOREM DeliveryInvariance == Delivery!Spec => []Delivery!IInv
<1>1. Delivery!Init => Delivery!IInv
  BY DeliveryInitInv
<1>2. Delivery!IInv /\ [Delivery!Next]_(Delivery!vars) => Delivery!IInv'
  BY DeliveryNextInv
<1>3. QED
  BY <1>1, <1>2, PTL DEF Delivery!Spec

\* Rows keep their types, and a message its invoice and its channel.
THEOREM DeliveriesAreTyped == Delivery!Spec => []Delivery!TypeOK
<1>1. Delivery!IInv => Delivery!TypeOK
  BY DEF Delivery!IInv, Delivery!RowsOK
<1>2. QED
  BY <1>1, DeliveryInvariance, PTL

\* What is on record as SENT was accepted by a provider.
THEOREM SentMessagesWereAccepted == Delivery!Spec => []Delivery!SentWasAccepted
<1>1. Delivery!IInv => Delivery!SentWasAccepted
  BY DEF Delivery!IInv
<1>2. QED
  BY <1>1, DeliveryInvariance, PTL

\* No attempt sends two messages, and the party gets the automatic message of an invoice at
\* most once on each channel.
THEOREM MessagesGoOutOnce == Delivery!Spec => []Delivery!AutomaticOnce
<1>1. Delivery!IInv => Delivery!AutomaticOnce
  BY DEF Delivery!IInv
<1>2. QED
  BY <1>1, DeliveryInvariance, PTL

-----------------------------------------------------------------------------
(* Documents: rows and what is written of them.                            *)

LEMMA EditedRow ==
  ASSUME NEW row \in Flow!DocRow, NEW s \in Flow!Asked \cup {"CONVERTED"}, NEW b \in BOOLEAN,
         NEW n \in 0 .. MaxQty,
         NEW p, p = Flow!Patched(row, [status |-> s, qty |-> n, stockAdjusted |-> b])
  PROVE
         /\ p \in Flow!DocRow /\ p.status = s /\ p.qty = n /\ p.stockAdjusted = b /\ p.kind = row.kind
         /\ p.deleted = row.deleted /\ p.source = row.source /\ p.converted = row.converted
BY DEF Flow!Patched, Flow!DocRow

LEMMA StatusRow ==
  ASSUME NEW row \in Flow!DocRow, NEW s \in Flow!Asked \cup {"CONVERTED"}, NEW b \in BOOLEAN,
         NEW p, p = Flow!Patched(row, [status |-> s, stockAdjusted |-> b])
  PROVE
         /\ p \in Flow!DocRow /\ p.status = s /\ p.qty = row.qty /\ p.stockAdjusted = b
         /\ p.kind = row.kind
         /\ p.deleted = row.deleted /\ p.source = row.source /\ p.converted = row.converted
BY DEF Flow!Patched, Flow!DocRow

LEMMA InvoicedRow ==
  ASSUME NEW row \in Flow!DocRow, NEW s \in Flow!Asked \cup {"CONVERTED"},
         NEW i \in Sold \cup {NoOne},
         NEW p, p = Flow!Patched(row, [status |-> s, converted |-> i])
  PROVE
         /\ p \in Flow!DocRow /\ p.status = s /\ p.qty = row.qty
         /\ p.stockAdjusted = row.stockAdjusted /\ p.kind = row.kind
         /\ p.deleted = row.deleted /\ p.source = row.source /\ p.converted = i
BY DEF Flow!Patched, Flow!DocRow

LEMMA ConvertedRow ==
  ASSUME NEW row \in Flow!DocRow,
         NEW p, p = Flow!Patched(row, [status |-> "CONVERTED"])
  PROVE
         /\ p \in Flow!DocRow /\ p.status = "CONVERTED" /\ p.qty = row.qty
         /\ p.stockAdjusted = row.stockAdjusted /\ p.kind = row.kind
         /\ p.deleted = row.deleted /\ p.source = row.source /\ p.converted = row.converted
BY DEF Flow!Patched, Flow!DocRow

LEMMA UndoneRow ==
  ASSUME NEW row \in Flow!DocRow,
         NEW p, p = Flow!Patched(row, [status |-> "CANCELLED", deleted |-> TRUE])
  PROVE
         /\ p \in Flow!DocRow /\ p.status = "CANCELLED" /\ p.qty = row.qty
         /\ p.stockAdjusted = row.stockAdjusted /\ p.kind = row.kind
         /\ p.deleted = TRUE /\ p.source = row.source /\ p.converted = row.converted
BY DEF Flow!Patched, Flow!DocRow, Flow!Asked

LEMMA DeletedRow ==
  ASSUME NEW row \in Flow!DocRow,
         NEW p, p = Flow!Patched(row, [deleted |-> TRUE])
  PROVE
         /\ p \in Flow!DocRow /\ p.status = row.status /\ p.qty = row.qty
         /\ p.stockAdjusted = row.stockAdjusted /\ p.kind = row.kind
         /\ p.deleted = TRUE /\ p.source = row.source /\ p.converted = row.converted
BY DEF Flow!Patched, Flow!DocRow

LEMMA SoldRow ==
  ASSUME NEW row \in Flow!InvoiceRow, NEW n \in 0 .. MaxQty,
         NEW p, p = Flow!Patched(row, [status |-> "UNPAID", qty |-> n])
  PROVE
         p \in Flow!InvoiceRow /\ p.status = "UNPAID" /\ p.qty = n
BY DEF Flow!Patched, Flow!InvoiceRow

LEMMA ClosedRow ==
  ASSUME NEW row \in Flow!InvoiceRow, NEW s \in {"CANCELLED", "removed"},
         NEW p, p = Flow!Patched(row, [status |-> s])
  PROVE
         p \in Flow!InvoiceRow /\ p.status = s /\ p.qty = row.qty
BY DEF Flow!Patched, Flow!InvoiceRow

-----------------------------------------------------------------------------
(* What the commits do                                                      *)

OnlyDoc(d) == doc' \in [Docs -> Flow!DocRow] /\ \A x \in Docs \ {d} : doc'[x] = doc[x]
OnlyDocs(d, e) == doc' \in [Docs -> Flow!DocRow] /\ \A x \in Docs \ {d, e} : doc'[x] = doc[x]
OnlyInvoice(i) ==
  sold' \in [Sold -> Flow!InvoiceRow] /\ \A j \in Sold \ {i} : sold'[j] = sold[j]
SameOrigin(d) == doc'[d].kind = doc[d].kind /\ doc'[d].source = doc[d].source

Creating(q, d, kind, status, qty, source) ==
  /\ lock["branch"] = q /\ lock[d] \in {NoOne, q} /\ Flow!Fresh(d)
  /\ source # NoOne => Linked /\ ~Flow!Fresh(source) /\ (Flow!RemovesAlone => Flow!Live(source))
  /\ OnlyDoc(d)
  /\ doc'[d].kind = kind /\ doc'[d].status = status /\ doc'[d].deleted = FALSE
  /\ doc'[d].qty = qty /\ doc'[d].stockAdjusted = Flow!MovesStock(kind, status)
  /\ doc'[d].source = source /\ doc'[d].converted = NoOne
  /\ sold' = sold /\ out' = out + Flow!Moved(Flow!MovesStock(kind, status), qty)

Editing(q, d) ==
  /\ lock[d] = q /\ Flow!Live(d) /\ doc[d].status \notin {"CONVERTED", "CANCELLED"}
  /\ OnlyDoc(d) /\ SameOrigin(d) /\ doc'[d].status \in Flow!Asked
  /\ doc'[d].deleted = doc[d].deleted /\ doc'[d].converted = doc[d].converted
  /\ doc'[d].stockAdjusted =>
       doc[d].kind = "DELIVERY_CHALLAN" /\ doc'[d].status \notin {"DRAFT", "CANCELLED"}
  /\ sold' = sold
  /\ out' = out + (Flow!Moved(doc'[d].stockAdjusted, doc'[d].qty)
                   - Flow!Moved(doc[d].stockAdjusted, doc[d].qty))

Invoicing(q, d, i) ==
  /\ lock["branch"] = q /\ lock[d] = q /\ Flow!Live(d) /\ doc[d].status \notin Flow!Closed
  /\ sold[i].status = "none"
  /\ OnlyDoc(d) /\ SameOrigin(d) /\ doc'[d].status = "CONVERTED" /\ doc'[d].converted = i
  /\ doc'[d].deleted = doc[d].deleted /\ doc'[d].stockAdjusted = doc[d].stockAdjusted
  /\ OnlyInvoice(i) /\ sold'[i].status = "UNPAID" /\ sold'[i].qty = doc[d].qty
  /\ out' = out + Flow!Moved(~doc[d].stockAdjusted, doc[d].qty)

Converting(q, d, e, target) ==
  /\ lock["branch"] = q /\ lock[d] = q /\ lock[e] \in {NoOne, q}
  /\ Flow!Live(d) /\ doc[d].status \notin Flow!Closed
  /\ <<doc[d].kind, target>> \in Flow!Conversions /\ Flow!Fresh(e)
  /\ OnlyDocs(d, e) /\ SameOrigin(d) /\ doc'[d].status = "CONVERTED"
  /\ doc'[d].deleted = doc[d].deleted /\ doc'[d].stockAdjusted = doc[d].stockAdjusted
  /\ doc'[d].converted = doc[d].converted
  /\ doc'[e].kind = target /\ doc'[e].status = "DRAFT" /\ doc'[e].deleted = FALSE
  /\ doc'[e].stockAdjusted = FALSE /\ doc'[e].source = d /\ doc'[e].converted = NoOne
  /\ sold' = sold /\ out' = out

ReversingInvoice(q, d, i) ==
  /\ lock["branch"] = q /\ lock[d] = q /\ lock[i] = q /\ i = doc[d].converted
  /\ Flow!Live(d) /\ doc[d].kind \in Flow!PreSale /\ doc[d].status = "CONVERTED"
  /\ OnlyDoc(d) /\ SameOrigin(d) /\ doc'[d].status = "DRAFT" /\ doc'[d].converted = NoOne
  /\ doc'[d].deleted = doc[d].deleted /\ doc'[d].stockAdjusted = doc[d].stockAdjusted
  /\ OnlyInvoice(i) /\ sold'[i].status = "removed"
  /\ out' = out - Flow!ReversedUnits(i)

ReversingDocument(q, d, e) ==
  /\ lock["branch"] = q /\ lock[d] = q /\ lock[e] = q
  /\ Flow!Live(d) /\ doc[d].kind \in Flow!PreSale /\ doc[d].status = "CONVERTED" /\ doc[d].converted = NoOne
  /\ Flow!Live(e) /\ doc[e].source = d /\ doc[e].converted = NoOne /\ ~doc[e].stockAdjusted
  /\ doc[e].status # "CONVERTED"
  /\ \A f \in Flow!MadeFrom(e) : doc[f].status = "CANCELLED"
  /\ OnlyDocs(d, e) /\ SameOrigin(d) /\ SameOrigin(e)
  /\ doc'[d].status = "DRAFT" /\ doc'[d].converted = NoOne
  /\ doc'[d].deleted = doc[d].deleted /\ doc'[d].stockAdjusted = doc[d].stockAdjusted
  /\ doc'[e].status = "CANCELLED" /\ doc'[e].deleted = TRUE
  /\ doc'[e].stockAdjusted = doc[e].stockAdjusted /\ doc'[e].converted = doc[e].converted
  /\ sold' = sold /\ out' = out

Removing(q, d) ==
  /\ "remove" \in PaperOps /\ ~Flow!Fresh(d) /\ lock[d] \in {NoOne, q}
  /\ Flow!RemovesAlone => Flow!Live(d) /\ doc[d].status \in {"DRAFT", "CANCELLED"}
  /\ OnlyDoc(d) /\ SameOrigin(d) /\ doc'[d].status = doc[d].status /\ doc'[d].deleted = TRUE
  /\ doc'[d].stockAdjusted = doc[d].stockAdjusted /\ doc'[d].converted = doc[d].converted
  /\ sold' = sold /\ out' = out

Closing(q, i) ==
  /\ lock[i] = q /\ sold[i].status \in {"UNPAID", "CANCELLED"}
  /\ OnlyInvoice(i) /\ sold'[i].status \in {"CANCELLED", "removed"}
  /\ doc' = doc /\ out' = out - Flow!ReversedUnits(i)

\* What q's commit does to the tables.
Committing(q) ==
  \/ \E d \in Docs, kind \in Flow!Kinds, status \in {"DRAFT", "ISSUED"}, qty \in 0 .. MaxQty,
        source \in Docs \cup {NoOne} : Creating(q, d, kind, status, qty, source)
  \/ \E d \in Docs : Editing(q, d)
  \/ \E d \in Docs, i \in Sold : Invoicing(q, d, i)
  \/ \E d, e \in Docs, target \in Flow!Kinds : Converting(q, d, e, target)
  \/ \E d \in Docs, i \in Sold : ReversingInvoice(q, d, i)
  \/ \E d, e \in Docs : ReversingDocument(q, d, e)
  \/ \E d \in Docs : Removing(q, d)
  \/ \E i \in Sold : Closing(q, i)

LEMMA NothingWritten ==
  ASSUME Flow!TypeOK
  PROVE  Flow!Written(doc, Flow!Nothing) = doc /\ Flow!Written(sold, Flow!Nothing) = sold
<1>1. \A table, S, R : table \in [S -> R] => Flow!Written(table, Flow!Nothing) = table
  BY DEF Flow!Written, Flow!Nothing
<1>2. QED
  BY <1>1 DEF Flow!TypeOK

LEMMA DocWritten ==
  ASSUME Flow!TypeOK, NEW d \in Docs, NEW p, Flow!Patched(doc[d], p) \in Flow!DocRow,
         doc' = Flow!Written(doc, Flow!One(d, p))
  PROVE  OnlyDoc(d) /\ doc'[d] = Flow!Patched(doc[d], p)
BY DEF Flow!Written, Flow!One, OnlyDoc, Flow!TypeOK

LEMMA DocsWritten ==
  ASSUME Flow!TypeOK, NEW d \in Docs, NEW p, NEW e \in Docs, NEW w, d # e,
         Flow!Patched(doc[d], p) \in Flow!DocRow, Flow!Patched(doc[e], w) \in Flow!DocRow,
         doc' = Flow!Written(doc, Flow!Two(d, p, e, w))
  PROVE  OnlyDocs(d, e) /\ doc'[d] = Flow!Patched(doc[d], p) /\ doc'[e] = Flow!Patched(doc[e], w)
BY DEF Flow!Written, Flow!Two, OnlyDocs, Flow!TypeOK

LEMMA InvoiceWritten ==
  ASSUME Flow!TypeOK, NEW i \in Sold, NEW p, Flow!Patched(sold[i], p) \in Flow!InvoiceRow,
         sold' = Flow!Written(sold, Flow!One(i, p))
  PROVE  OnlyInvoice(i) /\ sold'[i] = Flow!Patched(sold[i], p)
BY DEF Flow!Written, Flow!One, OnlyInvoice, Flow!TypeOK

LEMMA CommitWrites ==
  ASSUME Flow!TypeOK, NEW q \in Requests, Flow!Commit(q),
         NEW docs, NEW invoices, NEW units, Flow!Planned(q, docs, invoices, units)
  PROVE  /\ doc' = Flow!Written(doc, docs) /\ sold' = Flow!Written(sold, invoices)
         /\ out' = out + units
         /\ \A r \in DOMAIN docs : lock[r] \in {NoOne, q}
BY DEF Flow!Commit, Flow!Planned, Flow!CanWrite

LEMMA CreateCommits ==
  ASSUME Flow!TypeOK, NEW q \in Requests, Flow!Commit(q), Flow!CreateJob(q), Flow!DocumentFlowAssumption
  PROVE  Committing(q)
<1>1. PICK d \in Docs, kind \in Flow!Kinds, status \in {"DRAFT", "ISSUED"}, qty \in 1 .. MaxQty,
           source \in Docs \cup {NoOne} :
        /\ lock["branch"] = q /\ Flow!Fresh(d)
        /\ source # NoOne => Linked /\ ~Flow!Fresh(source) /\ (Flow!RemovesAlone => Flow!Live(source))
        /\ Flow!Planned(q, Flow!One(d, Flow!NewDoc(kind, status, qty, source)), Flow!Nothing,
                   Flow!Moved(Flow!NewDoc(kind, status, qty, source).stockAdjusted, qty))
  BY DEF Flow!CreateJob
<1>a. PICK row : row = Flow!NewDoc(kind, status, qty, source)
  OBVIOUS
<1>2. qty \in 0 .. MaxQty /\ doc[d] \in Flow!DocRow
  BY DEF Flow!TypeOK, Flow!DocumentFlowAssumption
<1>3. /\ doc' = Flow!Written(doc, Flow!One(d, row)) /\ sold' = Flow!Written(sold, Flow!Nothing)
      /\ out' = out + Flow!Moved(row.stockAdjusted, qty)
      /\ \A r \in DOMAIN Flow!One(d, row) : lock[r] \in {NoOne, q}
  BY <1>1, <1>a, CommitWrites
<1>4. LET p == Flow!Patched(doc[d], row) IN
         /\ p \in Flow!DocRow /\ p.status = status /\ p.qty = qty
         /\ p.stockAdjusted = Flow!MovesStock(kind, status) /\ p.kind = kind
         /\ p.deleted = FALSE /\ p.source = source /\ p.converted = NoOne
         /\ row.stockAdjusted = Flow!MovesStock(kind, status)
  BY <1>2, <1>a DEF Flow!Patched, Flow!DocRow, Flow!NewDoc, Flow!NoDoc, Flow!MovesStock,
     Flow!Asked
<1>5. OnlyDoc(d) /\ doc'[d] = Flow!Patched(doc[d], row)
  BY <1>3, <1>4, DocWritten
<1>6. sold' = sold
  BY <1>3, NothingWritten
<1>7. lock[d] \in {NoOne, q}
  BY <1>3 DEF Flow!One
<1>8. Creating(q, d, kind, status, qty, source)
  BY <1>1, <1>3, <1>4, <1>5, <1>6, <1>7 DEF Creating
<1>9. QED
  BY <1>2, <1>8 DEF Committing

LEMMA EditCommits ==
  ASSUME Flow!TypeOK, NEW q \in Requests, Flow!Commit(q), Flow!EditJob(q)
  PROVE  Committing(q)
<1>1. PICK d \in Docs :
        /\ lock[d] = q /\ Flow!Live(d) /\ doc[d].status \notin {"CONVERTED", "CANCELLED"}
        /\ \E status \in Flow!Asked, adjusted \in BOOLEAN, qty \in 0 .. MaxQty :
             /\ adjusted => doc[d].kind = "DELIVERY_CHALLAN" /\ status \notin {"DRAFT", "CANCELLED"}
             /\ \/ job[q].doc = Flow!One(d, [status |-> status, qty |-> qty, stockAdjusted |-> adjusted])
                \/ /\ job[q].doc = Flow!One(d, [status |-> status, stockAdjusted |-> adjusted])
                   /\ qty = doc[d].qty
             /\ Flow!Planned(q, job[q].doc, Flow!Nothing,
                        Flow!Moved(adjusted, qty) - Flow!Moved(doc[d].stockAdjusted, doc[d].qty))
  BY DEF Flow!EditJob
<1>2. PICK status \in Flow!Asked, adjusted \in BOOLEAN, qty \in 0 .. MaxQty :
             /\ adjusted => doc[d].kind = "DELIVERY_CHALLAN" /\ status \notin {"DRAFT", "CANCELLED"}
             /\ \/ job[q].doc = Flow!One(d, [status |-> status, qty |-> qty, stockAdjusted |-> adjusted])
                \/ /\ job[q].doc = Flow!One(d, [status |-> status, stockAdjusted |-> adjusted])
                   /\ qty = doc[d].qty
             /\ Flow!Planned(q, job[q].doc, Flow!Nothing,
                        Flow!Moved(adjusted, qty) - Flow!Moved(doc[d].stockAdjusted, doc[d].qty))
  BY <1>1
<1>3. doc[d] \in Flow!DocRow
  BY DEF Flow!TypeOK
<1>4. PICK p : /\ job[q].doc = Flow!One(d, p) /\ Flow!Patched(doc[d], p) \in Flow!DocRow
               /\ Flow!Patched(doc[d], p).status = status /\ Flow!Patched(doc[d], p).qty = qty
               /\ Flow!Patched(doc[d], p).stockAdjusted = adjusted
               /\ Flow!Patched(doc[d], p).kind = doc[d].kind
               /\ Flow!Patched(doc[d], p).deleted = doc[d].deleted
               /\ Flow!Patched(doc[d], p).source = doc[d].source
               /\ Flow!Patched(doc[d], p).converted = doc[d].converted
  <2>1. CASE job[q].doc = Flow!One(d, [status |-> status, qty |-> qty, stockAdjusted |-> adjusted])
    BY <2>1, <1>3, EditedRow
  <2>2. CASE /\ job[q].doc = Flow!One(d, [status |-> status, stockAdjusted |-> adjusted])
             /\ qty = doc[d].qty
    BY <2>2, <1>3, StatusRow
  <2>3. QED
    BY <1>2, <2>1, <2>2
<1>5. /\ doc' = Flow!Written(doc, Flow!One(d, p)) /\ sold' = Flow!Written(sold, Flow!Nothing)
      /\ out' = out + (Flow!Moved(adjusted, qty) - Flow!Moved(doc[d].stockAdjusted, doc[d].qty))
  BY <1>2, <1>4, CommitWrites
<1>6. OnlyDoc(d) /\ doc'[d] = Flow!Patched(doc[d], p)
  BY <1>4, <1>5, DocWritten
<1>7. sold' = sold
  BY <1>5, NothingWritten
<1>8. Editing(q, d)
  BY <1>1, <1>2, <1>4, <1>5, <1>6, <1>7 DEF Editing, SameOrigin
<1>9. QED
  BY <1>8 DEF Committing

LEMMA InvoiceCommits ==
  ASSUME Flow!TypeOK, NEW q \in Requests, Flow!Commit(q), Flow!InvoiceJob(q)
  PROVE  Committing(q)
<1>1. PICK d \in Docs, i \in Sold :
        /\ lock["branch"] = q /\ lock[d] = q /\ Flow!Live(d) /\ doc[d].status \notin Flow!Closed
        /\ sold[i].status = "none"
        /\ Flow!Planned(q, Flow!One(d, [status |-> "CONVERTED", converted |-> i]),
                   Flow!One(i, [status |-> "UNPAID", qty |-> doc[d].qty]),
                   Flow!Moved(~doc[d].stockAdjusted, doc[d].qty))
  BY DEF Flow!InvoiceJob
<1> DEFINE p == [status |-> "CONVERTED", converted |-> i]
           s == [status |-> "UNPAID", qty |-> doc[d].qty]
<1>2. doc[d] \in Flow!DocRow /\ sold[i] \in Flow!InvoiceRow /\ doc[d].qty \in 0 .. MaxQty
  BY DEF Flow!TypeOK, Flow!DocRow
<1>3. /\ Flow!Patched(doc[d], p) \in Flow!DocRow
      /\ Flow!Patched(doc[d], p).status = "CONVERTED" /\ Flow!Patched(doc[d], p).converted = i
      /\ Flow!Patched(doc[d], p).kind = doc[d].kind /\ Flow!Patched(doc[d], p).source = doc[d].source
      /\ Flow!Patched(doc[d], p).deleted = doc[d].deleted
      /\ Flow!Patched(doc[d], p).stockAdjusted = doc[d].stockAdjusted
  BY <1>2, InvoicedRow
<1>4. /\ Flow!Patched(sold[i], s) \in Flow!InvoiceRow /\ Flow!Patched(sold[i], s).status = "UNPAID"
      /\ Flow!Patched(sold[i], s).qty = doc[d].qty
  BY <1>2, SoldRow
<1> HIDE DEF p, s
<1>5. /\ doc' = Flow!Written(doc, Flow!One(d, p)) /\ sold' = Flow!Written(sold, Flow!One(i, s))
      /\ out' = out + Flow!Moved(~doc[d].stockAdjusted, doc[d].qty)
  BY <1>1, CommitWrites DEF p, s
<1>6. OnlyDoc(d) /\ doc'[d] = Flow!Patched(doc[d], p)
  BY <1>3, <1>5, DocWritten
<1>7. OnlyInvoice(i) /\ sold'[i] = Flow!Patched(sold[i], s)
  BY <1>4, <1>5, InvoiceWritten
<1>8. Invoicing(q, d, i)
  BY <1>1, <1>3, <1>4, <1>5, <1>6, <1>7 DEF Invoicing, SameOrigin
<1>9. QED
  BY <1>8 DEF Committing

LEMMA ConvertCommits ==
  ASSUME Flow!TypeOK, NEW q \in Requests, Flow!Commit(q), Flow!ConvertJob(q)
  PROVE  Committing(q)
<1>1. PICK d \in Docs, e \in Docs, target \in Flow!Kinds :
        /\ lock["branch"] = q /\ lock[d] = q /\ Flow!Live(d) /\ doc[d].status \notin Flow!Closed
        /\ <<doc[d].kind, target>> \in Flow!Conversions /\ Flow!Fresh(e)
        /\ Flow!Planned(q, Flow!Two(d, [status |-> "CONVERTED"], e, Flow!NewDoc(target, "DRAFT", doc[d].qty, d)),
                   Flow!Nothing, 0)
  BY DEF Flow!ConvertJob
<1> DEFINE p == [status |-> "CONVERTED"]
           w == Flow!NewDoc(target, "DRAFT", doc[d].qty, d)
<1>2. doc[d] \in Flow!DocRow /\ doc[e] \in Flow!DocRow /\ doc[d].qty \in 0 .. MaxQty
  BY DEF Flow!TypeOK, Flow!DocRow
<1>3. d # e
  BY <1>1 DEF Flow!Live, Flow!Fresh
<1>4. /\ Flow!Patched(doc[d], p) \in Flow!DocRow /\ Flow!Patched(doc[d], p).status = "CONVERTED"
      /\ Flow!Patched(doc[d], p).kind = doc[d].kind /\ Flow!Patched(doc[d], p).source = doc[d].source
      /\ Flow!Patched(doc[d], p).deleted = doc[d].deleted
      /\ Flow!Patched(doc[d], p).stockAdjusted = doc[d].stockAdjusted
      /\ Flow!Patched(doc[d], p).converted = doc[d].converted
  BY <1>2, ConvertedRow
<1>5. ~Flow!MovesStock(target, "DRAFT") /\ d \in Docs \cup {NoOne}
  BY DEF Flow!MovesStock
<1>6. /\ Flow!Patched(doc[e], w) \in Flow!DocRow /\ Flow!Patched(doc[e], w).status = "DRAFT"
      /\ Flow!Patched(doc[e], w).stockAdjusted = Flow!MovesStock(target, "DRAFT")
      /\ Flow!Patched(doc[e], w).kind = target /\ Flow!Patched(doc[e], w).deleted = FALSE
      /\ Flow!Patched(doc[e], w).source = d /\ Flow!Patched(doc[e], w).converted = NoOne
  <2>1. w = Flow!NewDoc(target, "DRAFT", doc[d].qty, d) /\ "DRAFT" \in {"DRAFT", "ISSUED"}
    OBVIOUS
  <2> HIDE DEF w
  <2>2. QED
    BY <1>2, <1>5, <2>1 DEF Flow!Patched, Flow!DocRow, Flow!NewDoc, Flow!NoDoc, Flow!MovesStock,
       Flow!Asked
<1> HIDE DEF p, w
<1>7. /\ doc' = Flow!Written(doc, Flow!Two(d, p, e, w)) /\ sold' = Flow!Written(sold, Flow!Nothing)
      /\ out' = out + 0 /\ \A r \in DOMAIN Flow!Two(d, p, e, w) : lock[r] \in {NoOne, q}
  BY <1>1, CommitWrites DEF p, w
<1>8. OnlyDocs(d, e) /\ doc'[d] = Flow!Patched(doc[d], p) /\ doc'[e] = Flow!Patched(doc[e], w)
  BY <1>3, <1>4, <1>6, <1>7, DocsWritten
<1>9. sold' = sold /\ out' = out
  BY <1>7, NothingWritten DEF Flow!TypeOK
<1>10. lock[e] \in {NoOne, q}
  BY <1>7 DEF Flow!Two
<1>11. doc'[e].stockAdjusted = FALSE
  BY <1>5, <1>6, <1>8 DEF Flow!MovesStock
<1>12. Converting(q, d, e, target)
  BY <1>1, <1>4, <1>6, <1>8, <1>9, <1>10, <1>11 DEF Converting, SameOrigin
<1>13. QED
  BY <1>12 DEF Committing

LEMMA ReverseInvoiceCommits ==
  ASSUME Flow!TypeOK, NEW q \in Requests, Flow!Commit(q), Flow!ReverseInvoiceJob(q)
  PROVE  Committing(q)
<1>1. PICK d \in Docs :
        /\ lock["branch"] = q /\ lock[d] = q /\ doc[d].converted # NoOne
        /\ lock[doc[d].converted] = q
        /\ Flow!Live(d) /\ doc[d].kind \in Flow!PreSale /\ doc[d].status = "CONVERTED"
        /\ Flow!Planned(q, Flow!One(d, Flow!Reopened), Flow!One(doc[d].converted, [status |-> "removed"]),
                   -Flow!ReversedUnits(doc[d].converted))
  BY DEF Flow!ReverseInvoiceJob
<1>2. PICK i \in Sold : i = doc[d].converted
  BY <1>1 DEF Flow!TypeOK, Flow!DocRow
<1> DEFINE s == [status |-> "removed"]
<1>3. doc[d] \in Flow!DocRow /\ sold[i] \in Flow!InvoiceRow /\ "DRAFT" \in Flow!Asked
  BY DEF Flow!TypeOK, Flow!Asked
<1>4. /\ Flow!Patched(doc[d], Flow!Reopened) \in Flow!DocRow /\ Flow!Patched(doc[d], Flow!Reopened).status = "DRAFT"
      /\ Flow!Patched(doc[d], Flow!Reopened).kind = doc[d].kind
      /\ Flow!Patched(doc[d], Flow!Reopened).source = doc[d].source
      /\ Flow!Patched(doc[d], Flow!Reopened).deleted = doc[d].deleted
      /\ Flow!Patched(doc[d], Flow!Reopened).stockAdjusted = doc[d].stockAdjusted
      /\ Flow!Patched(doc[d], Flow!Reopened).converted = NoOne
  BY <1>3, InvoicedRow DEF Flow!Reopened
<1>5. Flow!Patched(sold[i], s) \in Flow!InvoiceRow /\ Flow!Patched(sold[i], s).status = "removed"
  BY <1>3, ClosedRow
<1> HIDE DEF s
<1>6. /\ doc' = Flow!Written(doc, Flow!One(d, Flow!Reopened)) /\ sold' = Flow!Written(sold, Flow!One(i, s))
      /\ out' = out + (-Flow!ReversedUnits(i))
  BY <1>1, <1>2, CommitWrites DEF s
<1>7. OnlyDoc(d) /\ doc'[d] = Flow!Patched(doc[d], Flow!Reopened)
  BY <1>4, <1>6, DocWritten
<1>8. OnlyInvoice(i) /\ sold'[i] = Flow!Patched(sold[i], s)
  BY <1>5, <1>6, InvoiceWritten
<1>9. Flow!ReversedUnits(i) \in Int
  BY <1>3 DEF Flow!ReversedUnits, Flow!InvoiceRow
<1>10. out' = out - Flow!ReversedUnits(i)
  BY <1>6, <1>9 DEF Flow!TypeOK
<1>11. ReversingInvoice(q, d, i)
  BY <1>1, <1>2, <1>4, <1>5, <1>7, <1>8, <1>10 DEF ReversingInvoice, SameOrigin
<1>12. QED
  BY <1>11 DEF Committing

LEMMA ReverseDocumentCommits ==
  ASSUME Flow!TypeOK, NEW q \in Requests, Flow!Commit(q), Flow!ReverseDocumentJob(q)
  PROVE  Committing(q)
<1>1. PICK d \in Docs, e \in Docs :
        /\ lock["branch"] = q /\ lock[d] = q /\ lock[e] = q
        /\ Flow!Live(d) /\ doc[d].kind \in Flow!PreSale /\ doc[d].status = "CONVERTED"
        /\ doc[d].converted = NoOne
        /\ Flow!Live(e) /\ doc[e].source = d /\ doc[e].converted = NoOne /\ ~doc[e].stockAdjusted
        /\ doc[e].status # "CONVERTED"
        /\ \A f \in Flow!MadeFrom(e) : doc[f].status = "CANCELLED"
        /\ Flow!Planned(q, Flow!Two(d, Flow!Reopened, e, [status |-> "CANCELLED", deleted |-> TRUE]), Flow!Nothing, 0)
  BY DEF Flow!ReverseDocumentJob
<1> DEFINE w == [status |-> "CANCELLED", deleted |-> TRUE]
<1>2. doc[d] \in Flow!DocRow /\ doc[e] \in Flow!DocRow /\ "DRAFT" \in Flow!Asked /\ d # e
  BY <1>1 DEF Flow!TypeOK, Flow!Asked
<1>3. /\ Flow!Patched(doc[d], Flow!Reopened) \in Flow!DocRow /\ Flow!Patched(doc[d], Flow!Reopened).status = "DRAFT"
      /\ Flow!Patched(doc[d], Flow!Reopened).kind = doc[d].kind
      /\ Flow!Patched(doc[d], Flow!Reopened).source = doc[d].source
      /\ Flow!Patched(doc[d], Flow!Reopened).deleted = doc[d].deleted
      /\ Flow!Patched(doc[d], Flow!Reopened).stockAdjusted = doc[d].stockAdjusted
      /\ Flow!Patched(doc[d], Flow!Reopened).converted = NoOne
  BY <1>2, InvoicedRow DEF Flow!Reopened
<1>4. /\ Flow!Patched(doc[e], w) \in Flow!DocRow /\ Flow!Patched(doc[e], w).status = "CANCELLED"
      /\ Flow!Patched(doc[e], w).kind = doc[e].kind /\ Flow!Patched(doc[e], w).source = doc[e].source
      /\ Flow!Patched(doc[e], w).deleted = TRUE
      /\ Flow!Patched(doc[e], w).stockAdjusted = doc[e].stockAdjusted
      /\ Flow!Patched(doc[e], w).converted = doc[e].converted
  BY <1>2, UndoneRow
<1> HIDE DEF w
<1>5. /\ doc' = Flow!Written(doc, Flow!Two(d, Flow!Reopened, e, w)) /\ sold' = Flow!Written(sold, Flow!Nothing)
      /\ out' = out + 0
  BY <1>1, CommitWrites DEF w
<1>6. OnlyDocs(d, e) /\ doc'[d] = Flow!Patched(doc[d], Flow!Reopened) /\ doc'[e] = Flow!Patched(doc[e], w)
  BY <1>2, <1>3, <1>4, <1>5, DocsWritten
<1>7. sold' = sold /\ out' = out
  BY <1>5, NothingWritten DEF Flow!TypeOK
<1>8. ReversingDocument(q, d, e)
  BY <1>1, <1>3, <1>4, <1>6, <1>7 DEF ReversingDocument, SameOrigin
<1>9. QED
  BY <1>8 DEF Committing

LEMMA RemoveCommits ==
  ASSUME Flow!TypeOK, NEW q \in Requests, Flow!Commit(q), Flow!RemoveJob(q)
  PROVE  Committing(q)
<1>1. PICK d \in Docs :
        /\ "remove" \in PaperOps /\ ~Flow!Fresh(d)
        /\ Flow!RemovesAlone => Flow!Live(d) /\ doc[d].status \in {"DRAFT", "CANCELLED"}
        /\ Flow!Planned(q, Flow!One(d, [deleted |-> TRUE]), Flow!Nothing, 0)
  BY DEF Flow!RemoveJob
<1> DEFINE p == [deleted |-> TRUE]
<1>2. /\ Flow!Patched(doc[d], p) \in Flow!DocRow /\ Flow!Patched(doc[d], p).status = doc[d].status
      /\ Flow!Patched(doc[d], p).kind = doc[d].kind /\ Flow!Patched(doc[d], p).source = doc[d].source
      /\ Flow!Patched(doc[d], p).deleted = TRUE
      /\ Flow!Patched(doc[d], p).stockAdjusted = doc[d].stockAdjusted
      /\ Flow!Patched(doc[d], p).converted = doc[d].converted
  BY DeletedRow DEF Flow!TypeOK
<1> HIDE DEF p
<1>3. /\ doc' = Flow!Written(doc, Flow!One(d, p)) /\ sold' = Flow!Written(sold, Flow!Nothing)
      /\ out' = out + 0 /\ \A r \in DOMAIN Flow!One(d, p) : lock[r] \in {NoOne, q}
  BY <1>1, CommitWrites DEF p
<1>4. OnlyDoc(d) /\ doc'[d] = Flow!Patched(doc[d], p)
  BY <1>2, <1>3, DocWritten
<1>5. sold' = sold /\ out' = out
  BY <1>3, NothingWritten DEF Flow!TypeOK
<1>6. lock[d] \in {NoOne, q}
  BY <1>3 DEF Flow!One
<1>7. Removing(q, d)
  BY <1>1, <1>2, <1>4, <1>5, <1>6 DEF Removing, SameOrigin
<1>8. QED
  BY <1>7 DEF Committing

LEMMA CloseCommits ==
  ASSUME Flow!TypeOK, NEW q \in Requests, Flow!Commit(q), Flow!CloseJob(q)
  PROVE  Committing(q)
<1>1. PICK i \in Sold, status \in {"CANCELLED", "removed"} :
        /\ lock[i] = q /\ sold[i].status \in {"UNPAID", "CANCELLED"}
        /\ Flow!Planned(q, Flow!Nothing, Flow!One(i, [status |-> status]), -Flow!ReversedUnits(i))
  BY DEF Flow!CloseJob
<1> DEFINE s == [status |-> status]
<1>2. Flow!Patched(sold[i], s) \in Flow!InvoiceRow /\ Flow!Patched(sold[i], s).status = status
  BY ClosedRow DEF Flow!TypeOK
<1> HIDE DEF s
<1>3. /\ doc' = Flow!Written(doc, Flow!Nothing) /\ sold' = Flow!Written(sold, Flow!One(i, s))
      /\ out' = out + (-Flow!ReversedUnits(i))
  BY <1>1, CommitWrites DEF s
<1>4. doc' = doc
  BY <1>3, NothingWritten
<1>5. OnlyInvoice(i) /\ sold'[i] = Flow!Patched(sold[i], s)
  BY <1>2, <1>3, InvoiceWritten
<1>6. sold[i] \in Flow!InvoiceRow
  BY DEF Flow!TypeOK
<1>7. Flow!ReversedUnits(i) \in Int
  BY <1>6 DEF Flow!ReversedUnits, Flow!InvoiceRow
<1>8. out' = out - Flow!ReversedUnits(i)
  BY <1>3, <1>7 DEF Flow!TypeOK
<1>9. Closing(q, i)
  BY <1>1, <1>2, <1>4, <1>5, <1>8 DEF Closing
<1>10. QED
  BY <1>9 DEF Committing

LEMMA CommitCommits ==
  ASSUME Flow!DocumentFlowAssumption, Flow!TypeOK, NEW q \in Requests, Flow!Commit(q), Flow!CheckedJob(q)
  PROVE  Committing(q)
<1>1. pc[q] = "checked"
  BY DEF Flow!Commit, Flow!End
<1>2. QED
  BY <1>1, CreateCommits, EditCommits, InvoiceCommits, ConvertCommits, ReverseInvoiceCommits,
     ReverseDocumentCommits, RemoveCommits, CloseCommits DEF Flow!CheckedJob

-----------------------------------------------------------------------------
(* What a request that has checked relies on                                *)

\* Nothing is created twice, comes back from deletion or from its cancellation.
Onward ==
  \A d \in Docs : ~Flow!Fresh(d) =>
    /\ doc'[d].status # "none" /\ SameOrigin(d)
    /\ doc[d].status = "CANCELLED" => doc'[d].status = "CANCELLED"
    /\ doc[d].deleted => doc'[d].deleted

\* What a step leaves to a request r that takes no part in it.
Respects(r) ==
  /\ \A d \in Docs : lock[d] = r => doc'[d] = doc[d]
  /\ \A i \in Sold : lock[i] = r /\ sold[i].status # "none" => sold'[i] = sold[i]
  /\ lock["branch"] = r =>
       /\ \A d \in Docs : doc[d].status = "none" => doc'[d].status = "none"
       /\ \A i \in Sold : sold[i].status = "none" => sold'[i].status = "none"
       /\ Flow!RemovesAlone =>
            \A d \in Docs : Flow!Live(d) => doc'[d].status # "none" /\ ~doc'[d].deleted
  /\ Onward

\* r goes on as it was.
Waits(r) ==
  /\ \A x \in Flow!Rows : lock[x] = r => lock'[x] = r
  /\ job'[r] = job[r] /\ pc'[r] = pc[r]

LEMMA CommitRespects ==
  ASSUME Flow!TypeOK, \A d \in Docs : Flow!DocOK(d), NoOne \notin Requests,
         NEW q \in Requests, NEW r \in Requests, q # r, Committing(q)
  PROVE  Respects(r)
<1>1. ASSUME NEW d \in Docs, NEW kind \in Flow!Kinds, NEW status \in {"DRAFT", "ISSUED"},
             NEW qty \in 0 .. MaxQty, NEW source \in Docs \cup {NoOne},
             Creating(q, d, kind, status, qty, source)
      PROVE  Respects(r)
  BY <1>1 DEF Creating, Respects, Onward, SameOrigin, OnlyDoc, Flow!Fresh, Flow!Live
<1>2. ASSUME NEW d \in Docs, Editing(q, d)
      PROVE  Respects(r)
  BY <1>2 DEF Editing, Respects, Onward, SameOrigin, OnlyDoc, Flow!Fresh, Flow!Live, Flow!Asked
<1>3. ASSUME NEW d \in Docs, NEW i \in Sold, Invoicing(q, d, i)
      PROVE  Respects(r)
  BY <1>3 DEF Invoicing, Respects, Onward, SameOrigin, OnlyDoc, OnlyInvoice, Flow!Fresh,
     Flow!Live, Flow!Closed
<1>4. ASSUME NEW d \in Docs, NEW e \in Docs, NEW target \in Flow!Kinds, Converting(q, d, e, target)
      PROVE  Respects(r)
  BY <1>4 DEF Converting, Respects, Onward, SameOrigin, OnlyDocs, Flow!Fresh, Flow!Live,
     Flow!Closed
<1>5. ASSUME NEW d \in Docs, NEW i \in Sold, ReversingInvoice(q, d, i)
      PROVE  Respects(r)
  BY <1>5 DEF ReversingInvoice, Respects, Onward, SameOrigin, OnlyDoc, OnlyInvoice, Flow!Fresh,
     Flow!Live
<1>6. ASSUME NEW d \in Docs, NEW e \in Docs, ReversingDocument(q, d, e)
      PROVE  Respects(r)
  BY <1>6 DEF ReversingDocument, Respects, Onward, SameOrigin, OnlyDocs, Flow!Fresh, Flow!Live
<1>7. ASSUME NEW d \in Docs, Removing(q, d)
      PROVE  Respects(r)
  BY <1>7 DEF Removing, Respects, Onward, SameOrigin, OnlyDoc, Flow!Fresh, Flow!Live,
     Flow!RemovesAlone
<1>8. ASSUME NEW i \in Sold, Closing(q, i)
      PROVE  Respects(r)
  BY <1>8 DEF Closing, Respects, Onward, SameOrigin, OnlyInvoice, Flow!Fresh, Flow!Live
<1>9. QED
  BY <1>1, <1>2, <1>3, <1>4, <1>5, <1>6, <1>7, <1>8 DEF Committing

LEMMA StillRespects ==
  ASSUME UNCHANGED <<doc, sold>>, NEW r
  PROVE  Respects(r)
BY DEF Respects, Onward, SameOrigin, Flow!Live, Flow!Fresh

LEMMA CreateJobKept ==
  ASSUME NEW r \in Requests, Respects(r), Waits(r), Flow!CreateJob(r)
  PROVE  Flow!CreateJob(r)'
<1>1. PICK d \in Docs, kind \in Flow!Kinds, status \in {"DRAFT", "ISSUED"}, qty \in 1 .. MaxQty,
           source \in Docs \cup {NoOne} :
        /\ lock["branch"] = r /\ Flow!Fresh(d)
        /\ source # NoOne => Linked /\ ~Flow!Fresh(source) /\ (Flow!RemovesAlone => Flow!Live(source))
        /\ Flow!Planned(r, Flow!One(d, Flow!NewDoc(kind, status, qty, source)), Flow!Nothing,
                   Flow!Moved(Flow!NewDoc(kind, status, qty, source).stockAdjusted, qty))
  BY DEF Flow!CreateJob
<1>2. lock'["branch"] = r
  BY <1>1 DEF Waits, Flow!Rows
<1>3. Flow!Fresh(d)'
  BY <1>1 DEF Respects, Flow!Fresh
<1>4. source # NoOne => Linked /\ ~Flow!Fresh(source)' /\ (Flow!RemovesAlone => Flow!Live(source)')
  <2>1. CASE source \in Docs
    BY <2>1, <1>1 DEF Respects, Onward, Flow!Fresh, Flow!Live
  <2>2. CASE source = NoOne
    BY <2>2
  <2>3. QED
    BY <2>1, <2>2
<1>5. Flow!Planned(r, Flow!One(d, Flow!NewDoc(kind, status, qty, source)), Flow!Nothing,
              Flow!Moved(Flow!NewDoc(kind, status, qty, source).stockAdjusted, qty))'
  BY <1>1 DEF Flow!Planned, Waits
<1>6. QED
  BY <1>2, <1>3, <1>4, <1>5 DEF Flow!CreateJob

LEMMA EditJobKept ==
  ASSUME NEW r \in Requests, Respects(r), Waits(r), Flow!EditJob(r)
  PROVE  Flow!EditJob(r)'
<1>1. PICK d \in Docs :
        /\ lock[d] = r /\ Flow!Live(d) /\ doc[d].status \notin {"CONVERTED", "CANCELLED"}
        /\ \E status \in Flow!Asked, adjusted \in BOOLEAN, qty \in 0 .. MaxQty :
             /\ adjusted => doc[d].kind = "DELIVERY_CHALLAN" /\ status \notin {"DRAFT", "CANCELLED"}
             /\ \/ job[r].doc = Flow!One(d, [status |-> status, qty |-> qty, stockAdjusted |-> adjusted])
                \/ /\ job[r].doc = Flow!One(d, [status |-> status, stockAdjusted |-> adjusted])
                   /\ qty = doc[d].qty
             /\ Flow!Planned(r, job[r].doc, Flow!Nothing,
                        Flow!Moved(adjusted, qty) - Flow!Moved(doc[d].stockAdjusted, doc[d].qty))
  BY DEF Flow!EditJob
<1>2. doc'[d] = doc[d] /\ lock'[d] = r
  BY <1>1 DEF Respects, Waits, Flow!Rows
<1>3. job'[r] = job[r]
  BY DEF Waits
<1>4. QED
  BY <1>1, <1>2, <1>3 DEF Flow!EditJob, Flow!Live, Flow!Planned

LEMMA InvoiceJobKept ==
  ASSUME NEW r \in Requests, Respects(r), Waits(r), Flow!InvoiceJob(r)
  PROVE  Flow!InvoiceJob(r)'
<1>1. PICK d \in Docs, i \in Sold :
        /\ lock["branch"] = r /\ lock[d] = r /\ Flow!Live(d) /\ doc[d].status \notin Flow!Closed
        /\ sold[i].status = "none"
        /\ Flow!Planned(r, Flow!One(d, [status |-> "CONVERTED", converted |-> i]),
                   Flow!One(i, [status |-> "UNPAID", qty |-> doc[d].qty]),
                   Flow!Moved(~doc[d].stockAdjusted, doc[d].qty))
  BY DEF Flow!InvoiceJob
<1>2. doc'[d] = doc[d] /\ lock'[d] = r /\ lock'["branch"] = r /\ sold'[i].status = "none"
  BY <1>1 DEF Respects, Waits, Flow!Rows
<1>3. job'[r] = job[r]
  BY DEF Waits
<1>4. QED
  BY <1>1, <1>2, <1>3 DEF Flow!InvoiceJob, Flow!Live, Flow!Planned

LEMMA ConvertJobKept ==
  ASSUME NEW r \in Requests, Respects(r), Waits(r), Flow!ConvertJob(r)
  PROVE  Flow!ConvertJob(r)'
<1>1. PICK d \in Docs, e \in Docs, target \in Flow!Kinds :
        /\ lock["branch"] = r /\ lock[d] = r /\ Flow!Live(d) /\ doc[d].status \notin Flow!Closed
        /\ <<doc[d].kind, target>> \in Flow!Conversions /\ Flow!Fresh(e)
        /\ Flow!Planned(r, Flow!Two(d, [status |-> "CONVERTED"], e, Flow!NewDoc(target, "DRAFT", doc[d].qty, d)),
                   Flow!Nothing, 0)
  BY DEF Flow!ConvertJob
<1>2. doc'[d] = doc[d] /\ lock'[d] = r /\ lock'["branch"] = r /\ Flow!Fresh(e)'
  BY <1>1 DEF Respects, Waits, Flow!Rows, Flow!Fresh
<1>3. job'[r] = job[r]
  BY DEF Waits
<1>4. QED
  BY <1>1, <1>2, <1>3 DEF Flow!ConvertJob, Flow!Live, Flow!Planned

LEMMA ReverseInvoiceJobKept ==
  ASSUME Flow!TypeOK, \A d \in Docs : Flow!DocOK(d),
         NEW r \in Requests, Respects(r), Waits(r), Flow!ReverseInvoiceJob(r)
  PROVE  Flow!ReverseInvoiceJob(r)'
<1>1. PICK d \in Docs :
        /\ lock["branch"] = r /\ lock[d] = r /\ doc[d].converted # NoOne
        /\ lock[doc[d].converted] = r
        /\ Flow!Live(d) /\ doc[d].kind \in Flow!PreSale /\ doc[d].status = "CONVERTED"
        /\ Flow!Planned(r, Flow!One(d, Flow!Reopened), Flow!One(doc[d].converted, [status |-> "removed"]),
                   -Flow!ReversedUnits(doc[d].converted))
  BY DEF Flow!ReverseInvoiceJob
<1>2. PICK i \in Sold : i = doc[d].converted
  BY <1>1 DEF Flow!TypeOK, Flow!DocRow
<1>3. sold[i].status # "none"
  BY <1>1, <1>2 DEF Flow!DocOK
<1>4. /\ doc'[d] = doc[d] /\ sold'[i] = sold[i]
      /\ lock'[d] = r /\ lock'["branch"] = r /\ lock'[i] = r
  BY <1>1, <1>2, <1>3 DEF Respects, Waits, Flow!Rows
<1>5. Flow!ReversedUnits(i)' = Flow!ReversedUnits(i)
  BY <1>4 DEF Flow!ReversedUnits
<1>6. job'[r] = job[r]
  BY DEF Waits
<1>7. Flow!Planned(r, Flow!One(d, Flow!Reopened), Flow!One(i, [status |-> "removed"]), -Flow!ReversedUnits(i))'
  BY <1>1, <1>2, <1>5, <1>6 DEF Flow!Planned
<1>8. QED
  BY <1>1, <1>2, <1>4, <1>7 DEF Flow!ReverseInvoiceJob, Flow!Live

LEMMA ReverseDocumentJobKept ==
  ASSUME NEW r \in Requests, Respects(r), Waits(r), Flow!ReverseDocumentJob(r)
  PROVE  Flow!ReverseDocumentJob(r)'
<1>1. PICK d \in Docs, e \in Docs :
        /\ lock["branch"] = r /\ lock[d] = r /\ lock[e] = r
        /\ Flow!Live(d) /\ doc[d].kind \in Flow!PreSale /\ doc[d].status = "CONVERTED"
        /\ doc[d].converted = NoOne
        /\ Flow!Live(e) /\ doc[e].source = d /\ doc[e].converted = NoOne /\ ~doc[e].stockAdjusted
        /\ doc[e].status # "CONVERTED"
        /\ \A f \in Flow!MadeFrom(e) : doc[f].status = "CANCELLED"
        /\ Flow!Planned(r, Flow!Two(d, Flow!Reopened, e, [status |-> "CANCELLED", deleted |-> TRUE]), Flow!Nothing, 0)
  BY DEF Flow!ReverseDocumentJob
<1>2. doc'[d] = doc[d] /\ doc'[e] = doc[e] /\ lock'[d] = r /\ lock'[e] = r /\ lock'["branch"] = r
  BY <1>1 DEF Respects, Waits, Flow!Rows
<1>3. \A f \in Flow!MadeFrom(e)' : doc'[f].status = "CANCELLED"
  <2> SUFFICES ASSUME NEW f \in Docs, Flow!Live(f)', doc'[f].source = e
               PROVE  doc'[f].status = "CANCELLED"
    BY DEF Flow!MadeFrom
  <2>1. ~Flow!Fresh(f)
    BY <1>1 DEF Respects, Flow!Live, Flow!Fresh
  <2>2. Flow!Live(f) /\ doc[f].source = e
    BY <2>1 DEF Respects, Onward, SameOrigin, Flow!Live, Flow!Fresh
  <2>3. doc[f].status = "CANCELLED"
    BY <1>1, <2>2 DEF Flow!MadeFrom
  <2>4. QED
    BY <2>1, <2>3 DEF Respects, Onward
<1>4. job'[r] = job[r]
  BY DEF Waits
<1>5. QED
  BY <1>1, <1>2, <1>3, <1>4 DEF Flow!ReverseDocumentJob, Flow!Live, Flow!Planned

\* A remove() relies on nothing but, where it runs alone, on the row it has read.
LEMMA RemoveJobKept ==
  ASSUME NEW q \in Requests, NEW r \in Requests, q # r, Respects(r), Waits(r), Flow!RemoveJob(r)
  PROVE  Flow!RemoveJob(r)'
<1>1. PICK d \in Docs :
        /\ "remove" \in PaperOps /\ ~Flow!Fresh(d)
        /\ Flow!RemovesAlone => Flow!Live(d) /\ doc[d].status \in {"DRAFT", "CANCELLED"}
        /\ Flow!Planned(r, Flow!One(d, [deleted |-> TRUE]), Flow!Nothing, 0)
  BY DEF Flow!RemoveJob
<1>2. ~Flow!RemovesAlone
  BY <1>1 DEF Flow!RemovesAlone
<1>3. ~Flow!Fresh(d)' /\ job'[r] = job[r]
  BY <1>1 DEF Respects, Onward, Flow!Fresh, Waits
<1>4. QED
  BY <1>1, <1>2, <1>3 DEF Flow!RemoveJob, Flow!Planned

LEMMA CloseJobKept ==
  ASSUME NEW r \in Requests, Respects(r), Waits(r), Flow!CloseJob(r)
  PROVE  Flow!CloseJob(r)'
<1>1. PICK i \in Sold, status \in {"CANCELLED", "removed"} :
        /\ lock[i] = r /\ sold[i].status \in {"UNPAID", "CANCELLED"}
        /\ Flow!Planned(r, Flow!Nothing, Flow!One(i, [status |-> status]), -Flow!ReversedUnits(i))
  BY DEF Flow!CloseJob
<1>2. sold'[i] = sold[i] /\ lock'[i] = r /\ job'[r] = job[r]
  BY <1>1 DEF Respects, Waits, Flow!Rows
<1>3. Flow!ReversedUnits(i)' = Flow!ReversedUnits(i)
  BY <1>2 DEF Flow!ReversedUnits
<1>4. QED
  BY <1>1, <1>2, <1>3 DEF Flow!CloseJob, Flow!Planned

LEMMA JobKept ==
  ASSUME Flow!TypeOK, \A d \in Docs : Flow!DocOK(d), NEW q \in Requests, NEW r \in Requests, q # r,
         Respects(r), Waits(r), Flow!CheckedJob(r)
  PROVE  Flow!CheckedJob(r)'
<1>1. SUFFICES ASSUME pc[r] = "checked"
               PROVE  Flow!CheckedJob(r)'
  BY DEF Flow!CheckedJob, Waits
<1>2. \/ Flow!CreateJob(r) \/ Flow!EditJob(r) \/ Flow!InvoiceJob(r) \/ Flow!ConvertJob(r)
      \/ Flow!ReverseInvoiceJob(r) \/ Flow!ReverseDocumentJob(r) \/ Flow!RemoveJob(r) \/ Flow!CloseJob(r)
  BY <1>1 DEF Flow!CheckedJob
<1>3. CASE Flow!CreateJob(r)
  BY <1>3, CreateJobKept DEF Flow!CheckedJob
<1>4. CASE Flow!EditJob(r)
  BY <1>4, EditJobKept DEF Flow!CheckedJob
<1>5. CASE Flow!InvoiceJob(r)
  BY <1>5, InvoiceJobKept DEF Flow!CheckedJob
<1>6. CASE Flow!ConvertJob(r)
  BY <1>6, ConvertJobKept DEF Flow!CheckedJob
<1>7. CASE Flow!ReverseInvoiceJob(r)
  BY <1>7, ReverseInvoiceJobKept DEF Flow!CheckedJob
<1>8. CASE Flow!ReverseDocumentJob(r)
  BY <1>8, ReverseDocumentJobKept DEF Flow!CheckedJob
<1>9. CASE Flow!RemoveJob(r)
  BY <1>9, RemoveJobKept DEF Flow!CheckedJob
<1>10. CASE Flow!CloseJob(r)
  BY <1>10, CloseJobKept DEF Flow!CheckedJob
<1>11. QED
  BY <1>2, <1>3, <1>4, <1>5, <1>6, <1>7, <1>8, <1>9, <1>10

-----------------------------------------------------------------------------
(* The tables after a commit                                                *)

LEMMA UnitsAreInt ==
  ASSUME Flow!TypeOK, Flow!DocumentFlowAssumption
  PROVE  /\ \A d \in Docs : doc[d].qty \in Nat /\ Flow!ShippedUnits(d) \in Nat
         /\ \A i \in Sold : Flow!ReversedUnits(i) \in Nat
BY DEF Flow!TypeOK, Flow!DocRow, Flow!InvoiceRow, Flow!DocumentFlowAssumption,
   Flow!ShippedUnits, Flow!ReversedUnits, Flow!Moved

LEMMA CommitTypes ==
  ASSUME Flow!TypeOK, Flow!DocumentFlowAssumption, NEW q \in Requests, Committing(q)
  PROVE  doc' \in [Docs -> Flow!DocRow] /\ sold' \in [Sold -> Flow!InvoiceRow] /\ out' \in Int
<1> USE DEF OnlyDoc, OnlyDocs, OnlyInvoice
<1>0. \A i \in Sold : Flow!ReversedUnits(i) \in Int
  BY UnitsAreInt
<1>t. /\ doc \in [Docs -> Flow!DocRow] /\ sold \in [Sold -> Flow!InvoiceRow] /\ out \in Int
  BY DEF Flow!TypeOK
<1>m. \A b \in BOOLEAN, n \in 0 .. MaxQty : Flow!Moved(b, n) \in Int
  BY DEF Flow!Moved
<1>1. ASSUME NEW d \in Docs, NEW kind \in Flow!Kinds, NEW status \in {"DRAFT", "ISSUED"},
             NEW qty \in 0 .. MaxQty, NEW source \in Docs \cup {NoOne},
             Creating(q, d, kind, status, qty, source)
      PROVE  doc' \in [Docs -> Flow!DocRow] /\ sold' = sold /\ out' \in Int
  BY <1>1, <1>t DEF Creating, Flow!Moved
<1>2. ASSUME NEW d \in Docs, Editing(q, d)
      PROVE  doc' \in [Docs -> Flow!DocRow] /\ sold' = sold /\ out' \in Int
  <2>1. doc' \in [Docs -> Flow!DocRow] /\ sold' = sold
    BY <1>2 DEF Editing
  <2>2. doc'[d] \in Flow!DocRow /\ doc[d] \in Flow!DocRow
    BY <2>1, <1>t
  <2>3. doc'[d].qty \in 0 .. MaxQty /\ doc[d].qty \in 0 .. MaxQty
    BY <2>2 DEF Flow!DocRow
  <2>4. out' \in Int
    BY <1>2, <2>3, <1>t DEF Editing, Flow!Moved
  <2>5. QED
    BY <2>1, <2>4
<1>3. ASSUME NEW d \in Docs, NEW i \in Sold, Invoicing(q, d, i)
      PROVE  doc' \in [Docs -> Flow!DocRow] /\ sold' \in [Sold -> Flow!InvoiceRow] /\ out' \in Int
  <2>1. doc[d].qty \in 0 .. MaxQty
    BY <1>t DEF Flow!DocRow
  <2>2. out' \in Int
    BY <1>3, <2>1, <1>t DEF Invoicing, Flow!Moved
  <2>3. QED
    BY <1>3, <2>2 DEF Invoicing
<1>4. ASSUME NEW d \in Docs, NEW e \in Docs, NEW target \in Flow!Kinds, Converting(q, d, e, target)
      PROVE  doc' \in [Docs -> Flow!DocRow] /\ sold' = sold /\ out' \in Int
  BY <1>4, <1>t DEF Converting
<1>5. ASSUME NEW d \in Docs, NEW i \in Sold, ReversingInvoice(q, d, i)
      PROVE  doc' \in [Docs -> Flow!DocRow] /\ sold' \in [Sold -> Flow!InvoiceRow] /\ out' \in Int
  BY <1>5, <1>t, <1>0 DEF ReversingInvoice
<1>6. ASSUME NEW d \in Docs, NEW e \in Docs, ReversingDocument(q, d, e)
      PROVE  doc' \in [Docs -> Flow!DocRow] /\ sold' = sold /\ out' \in Int
  BY <1>6, <1>t DEF ReversingDocument
<1>7. ASSUME NEW d \in Docs, Removing(q, d)
      PROVE  doc' \in [Docs -> Flow!DocRow] /\ sold' = sold /\ out' \in Int
  BY <1>7, <1>t DEF Removing
<1>8. ASSUME NEW i \in Sold, Closing(q, i)
      PROVE  doc' = doc /\ sold' \in [Sold -> Flow!InvoiceRow] /\ out' \in Int
  BY <1>8, <1>t, <1>0 DEF Closing
<1>9. QED
  BY <1>t, <1>1, <1>2, <1>3, <1>4, <1>5, <1>6, <1>7, <1>8 DEF Committing

LEMMA CommitRowsOK ==
  ASSUME Flow!TypeOK, Flow!DocumentFlowAssumption, \A d \in Docs : Flow!DocOK(d), NEW q \in Requests,
         Committing(q), NEW x \in Docs
  PROVE  Flow!DocOK(x)'
<1> USE DEF OnlyDoc, OnlyDocs, OnlyInvoice, Flow!Live, Flow!Fresh
<1>t. /\ doc \in [Docs -> Flow!DocRow] /\ sold \in [Sold -> Flow!InvoiceRow]
      /\ doc' \in [Docs -> Flow!DocRow]
  BY CommitTypes DEF Flow!TypeOK
<1>s. Flow!DocOK(x) /\ doc[x] \in Flow!DocRow /\ doc[x].source \in Docs \cup {NoOne}
      /\ doc[x].converted \in Sold \cup {NoOne}
  BY <1>t DEF Flow!DocRow
<1>1. ASSUME NEW d \in Docs, NEW kind \in Flow!Kinds, NEW status \in {"DRAFT", "ISSUED"},
             NEW qty \in 0 .. MaxQty, NEW source \in Docs \cup {NoOne},
             Creating(q, d, kind, status, qty, source)
      PROVE  Flow!DocOK(x)'
  <2>1. CASE x = d
    <3>1. source # NoOne => source \in Docs \ {d} /\ doc'[source] = doc[source]
      BY <1>1 DEF Creating
    <3>2. doc'[x].source # NoOne => doc'[doc'[x].source].status # "none"
      BY <1>1, <2>1, <3>1 DEF Creating
    <3>3. QED
      BY <1>1, <2>1, <3>2 DEF Creating, Flow!DocOK, Flow!MovesStock
  <2>2. CASE x # d
    BY <1>1, <1>s, <2>2 DEF Creating, Flow!DocOK
  <2>3. QED
    BY <2>1, <2>2
<1>2. ASSUME NEW d \in Docs, Editing(q, d)
      PROVE  Flow!DocOK(x)'
  BY <1>2, <1>s, <1>t DEF Editing, Flow!DocOK, SameOrigin, Flow!Asked
<1>3. ASSUME NEW d \in Docs, NEW i \in Sold, Invoicing(q, d, i)
      PROVE  Flow!DocOK(x)'
  BY <1>3, <1>s, <1>t DEF Invoicing, Flow!DocOK, SameOrigin
<1>4. ASSUME NEW d \in Docs, NEW e \in Docs, NEW target \in Flow!Kinds, Converting(q, d, e, target)
      PROVE  Flow!DocOK(x)'
  BY <1>4, <1>s, <1>t DEF Converting, Flow!DocOK, SameOrigin
<1>5. ASSUME NEW d \in Docs, NEW i \in Sold, ReversingInvoice(q, d, i)
      PROVE  Flow!DocOK(x)'
  BY <1>5, <1>s, <1>t DEF ReversingInvoice, Flow!DocOK, SameOrigin, Flow!PreSale
<1>6. ASSUME NEW d \in Docs, NEW e \in Docs, ReversingDocument(q, d, e)
      PROVE  Flow!DocOK(x)'
  BY <1>6, <1>s, <1>t DEF ReversingDocument, Flow!DocOK, SameOrigin, Flow!PreSale
<1>7. ASSUME NEW d \in Docs, Removing(q, d)
      PROVE  Flow!DocOK(x)'
  BY <1>7, <1>s, <1>t DEF Removing, Flow!DocOK, SameOrigin
<1>8. ASSUME NEW i \in Sold, Closing(q, i)
      PROVE  Flow!DocOK(x)'
  BY <1>8, <1>s, <1>t DEF Closing, Flow!DocOK
<1>9. QED
  BY <1>1, <1>2, <1>3, <1>4, <1>5, <1>6, <1>7, <1>8 DEF Committing

\* While clients do not link documents themselves, a source is in at most one other paper.
LEMMA CommitMadeOnce ==
  ASSUME Flow!TypeOK, Flow!DocumentFlowAssumption, \A d \in Docs : Flow!DocOK(d), ~Linked, Flow!MadeOnce,
         NEW q \in Requests, Committing(q)
  PROVE  Flow!MadeOnce'
<1> USE DEF OnlyDoc, OnlyDocs, OnlyInvoice, Flow!Live, Flow!Fresh, Flow!MadeFrom
<1>t. /\ doc \in [Docs -> Flow!DocRow] /\ sold \in [Sold -> Flow!InvoiceRow]
      /\ doc' \in [Docs -> Flow!DocRow] /\ NoOne \notin Docs \cup Sold
  BY CommitTypes DEF Flow!TypeOK, Flow!DocumentFlowAssumption
<1>s. \A e \in Docs : /\ doc[e].source \in Docs \cup {NoOne}
                      /\ doc[e].converted \in Sold \cup {NoOne}
  BY <1>t DEF Flow!DocRow
\* A document that was not touched and is in force stays the only one, if its source stays
\* as it is and nothing new is made from it.
<1>m. ASSUME NEW e \in Docs, Flow!Live(e), doc[e].source # NoOne
      PROVE  /\ doc[e].source \in Docs /\ doc[doc[e].source].status = "CONVERTED"
             /\ doc[doc[e].source].converted = NoOne
             /\ \A f \in Docs : Flow!Live(f) /\ doc[f].source = doc[e].source => f = e
  BY <1>m, <1>s DEF Flow!MadeOnce
<1> SUFFICES ASSUME NEW e \in Docs, Flow!Live(e)', doc'[e].source # NoOne
             PROVE  /\ doc'[doc'[e].source].status = "CONVERTED"
                    /\ doc'[doc'[e].source].converted = NoOne
                    /\ \A f \in Docs : Flow!Live(f)' /\ doc'[f].source = doc'[e].source => f = e
  BY DEF Flow!MadeOnce
<1> DEFINE Goal == /\ doc'[doc'[e].source].status = "CONVERTED"
                   /\ doc'[doc'[e].source].converted = NoOne
                   /\ \A f \in Docs : Flow!Live(f)' /\ doc'[f].source = doc'[e].source => f = e
<1>1. ASSUME NEW d \in Docs, NEW kind \in Flow!Kinds, NEW status \in {"DRAFT", "ISSUED"},
             NEW qty \in 0 .. MaxQty, NEW source \in Docs \cup {NoOne},
             Creating(q, d, kind, status, qty, source)
      PROVE  Goal
  <2>1. doc'[d].source = NoOne /\ doc[d].status = "none" /\ \A x \in Docs \ {d} : doc'[x] = doc[x]
    BY <1>1 DEF Creating
  <2>2. QED
    BY <2>1, <1>m
<1>2. ASSUME NEW d \in Docs, Editing(q, d)
      PROVE  Goal
  <2>1. /\ doc'[d].source = doc[d].source /\ doc'[d].converted = doc[d].converted
        /\ Flow!Live(d) /\ doc[d].status # "CONVERTED" /\ \A x \in Docs \ {d} : doc'[x] = doc[x]
    BY <1>2 DEF Editing, SameOrigin
  <2>2. QED
    BY <2>1, <1>m
<1>3. ASSUME NEW d \in Docs, NEW i \in Sold, Invoicing(q, d, i)
      PROVE  Goal
  <2>1. /\ doc'[d].source = doc[d].source
        /\ Flow!Live(d) /\ doc[d].status # "CONVERTED" /\ \A x \in Docs \ {d} : doc'[x] = doc[x]
    BY <1>3 DEF Invoicing, SameOrigin, Flow!Closed
  <2>2. QED
    BY <2>1, <1>m
<1>4. ASSUME NEW d \in Docs, NEW c \in Docs, NEW target \in Flow!Kinds, Converting(q, d, c, target)
      PROVE  Goal
  <2>1. /\ doc'[d].source = doc[d].source /\ doc'[d].converted = doc[d].converted
        /\ Flow!Live(d) /\ doc[d].status # "CONVERTED" /\ \A x \in Docs \ {d, c} : doc'[x] = doc[x]
        /\ doc'[d].status = "CONVERTED" /\ doc'[c].source = d /\ doc[c].status = "none"
    BY <1>4 DEF Converting, SameOrigin, Flow!Closed
  <2>2. doc[d].converted = NoOne
    BY <2>1 DEF Flow!DocOK
  <2>3. \A f \in Docs : Flow!Live(f) => doc[f].source # d
    BY <2>1, <1>m, <1>t
  <2>4. \A f \in Docs : Flow!Live(f) => doc[f].source # c
    BY <2>1, <1>m, <1>t
  <2>5. CASE e = c
    BY <2>1, <2>2, <2>3, <2>5
  <2>6. CASE e # c
    <3>1. Flow!Live(e) /\ doc'[e].source = doc[e].source
      BY <2>1, <2>6
    <3>2. doc[e].source \in Docs \ {d, c}
      BY <3>1, <2>3, <2>4, <1>m
    <3>3. QED
      BY <3>1, <3>2, <2>1, <1>m
  <2>7. QED
    BY <2>5, <2>6
<1>5. ASSUME NEW d \in Docs, NEW i \in Sold, ReversingInvoice(q, d, i)
      PROVE  Goal
  <2>1. /\ doc'[d].source = doc[d].source /\ doc[d].converted # NoOne
        /\ Flow!Live(d) /\ \A x \in Docs \ {d} : doc'[x] = doc[x]
    BY <1>5, <1>t DEF ReversingInvoice, SameOrigin
  <2>2. QED
    BY <2>1, <1>m
<1>6. ASSUME NEW d \in Docs, NEW c \in Docs, ReversingDocument(q, d, c)
      PROVE  Goal
  <2>1. /\ doc'[d].source = doc[d].source /\ doc'[c].source = d
        /\ Flow!Live(d) /\ Flow!Live(c) /\ doc[c].source = d /\ \A x \in Docs \ {d, c} : doc'[x] = doc[x]
        /\ doc'[c].deleted /\ doc[c].status # "CONVERTED"
    BY <1>6 DEF ReversingDocument, SameOrigin
  <2>2. e # c /\ Flow!Live(e) /\ doc'[e].source = doc[e].source
    BY <2>1
  <2>3. doc[e].source # d /\ doc[e].source # c
    BY <2>1, <2>2, <1>m, <1>t
  <2>4. QED
    BY <2>1, <2>2, <2>3, <1>m
<1>7. ASSUME NEW d \in Docs, Removing(q, d)
      PROVE  Goal
  <2>1. /\ doc'[d].source = doc[d].source /\ doc'[d].deleted /\ doc'[d].status = doc[d].status
        /\ doc'[d].converted = doc[d].converted /\ \A x \in Docs \ {d} : doc'[x] = doc[x]
    BY <1>7 DEF Removing, SameOrigin
  <2>2. QED
    BY <2>1, <1>m
<1>8. ASSUME NEW i \in Sold, Closing(q, i)
      PROVE  Goal
  BY <1>8, <1>m DEF Closing
<1>9. QED
  BY <1>1, <1>2, <1>3, <1>4, <1>5, <1>6, <1>7, <1>8 DEF Committing

LEMMA CommitDeleted ==
  ASSUME Flow!TypeOK, Flow!DocumentFlowAssumption, Flow!RemovesAlone, Flow!DeletedWereNotInForce,
         NEW q \in Requests, Committing(q)
  PROVE  Flow!DeletedWereNotInForce'
<1> USE DEF OnlyDoc, OnlyDocs, OnlyInvoice, Flow!Live, Flow!Fresh
<1> SUFFICES ASSUME NEW x \in Docs, doc'[x].deleted
             PROVE  doc'[x].status \in {"DRAFT", "CANCELLED"}
  BY DEF Flow!DeletedWereNotInForce
<1>d. doc[x].deleted => doc[x].status \in {"DRAFT", "CANCELLED"}
  BY DEF Flow!DeletedWereNotInForce
<1>1. ASSUME NEW d \in Docs, NEW kind \in Flow!Kinds, NEW status \in {"DRAFT", "ISSUED"},
             NEW qty \in 0 .. MaxQty, NEW source \in Docs \cup {NoOne},
             Creating(q, d, kind, status, qty, source)
      PROVE  doc'[x].status \in {"DRAFT", "CANCELLED"}
  BY <1>1, <1>d DEF Creating
<1>2. ASSUME NEW d \in Docs, Editing(q, d)
      PROVE  doc'[x].status \in {"DRAFT", "CANCELLED"}
  BY <1>2, <1>d DEF Editing
<1>3. ASSUME NEW d \in Docs, NEW i \in Sold, Invoicing(q, d, i)
      PROVE  doc'[x].status \in {"DRAFT", "CANCELLED"}
  BY <1>3, <1>d DEF Invoicing
<1>4. ASSUME NEW d \in Docs, NEW e \in Docs, NEW target \in Flow!Kinds, Converting(q, d, e, target)
      PROVE  doc'[x].status \in {"DRAFT", "CANCELLED"}
  BY <1>4, <1>d DEF Converting
<1>5. ASSUME NEW d \in Docs, NEW i \in Sold, ReversingInvoice(q, d, i)
      PROVE  doc'[x].status \in {"DRAFT", "CANCELLED"}
  BY <1>5, <1>d DEF ReversingInvoice
<1>6. ASSUME NEW d \in Docs, NEW e \in Docs, ReversingDocument(q, d, e)
      PROVE  doc'[x].status \in {"DRAFT", "CANCELLED"}
  BY <1>6, <1>d DEF ReversingDocument
<1>7. ASSUME NEW d \in Docs, Removing(q, d)
      PROVE  doc'[x].status \in {"DRAFT", "CANCELLED"}
  BY <1>7, <1>d DEF Removing
<1>8. ASSUME NEW i \in Sold, Closing(q, i)
      PROVE  doc'[x].status \in {"DRAFT", "CANCELLED"}
  BY <1>8, <1>d DEF Closing
<1>9. QED
  BY <1>1, <1>2, <1>3, <1>4, <1>5, <1>6, <1>7, <1>8 DEF Committing

LEMMA CommitLast ==
  ASSUME Flow!TypeOK, Flow!DocumentFlowAssumption, \A d \in Docs : Flow!DocOK(d), Flow!LinksLast,
         ~Linked => Flow!MadeOnce, Flow!LaterConversionsFirst, NEW q \in Requests, Committing(q)
  PROVE  Flow!LaterConversionsFirst'
<1> USE DEF OnlyDoc, OnlyDocs, OnlyInvoice, Flow!Live, Flow!Fresh
<1>t. /\ doc \in [Docs -> Flow!DocRow] /\ doc' \in [Docs -> Flow!DocRow] /\ NoOne \notin Docs
  BY CommitTypes DEF Flow!TypeOK, Flow!DocumentFlowAssumption
<1>s. \A e \in Docs : doc[e].source \in Docs \cup {NoOne}
  BY <1>t DEF Flow!DocRow
<1>l. \A e \in Docs : Flow!Live(e) /\ doc[e].status # "CANCELLED" /\ doc[e].source # NoOne
                      => Flow!Live(doc[e].source)
  BY DEF Flow!LaterConversionsFirst
<1> SUFFICES ASSUME NEW x \in Docs, Flow!Live(x)', doc'[x].status # "CANCELLED", doc'[x].source # NoOne
             PROVE  doc'[doc'[x].source].status # "none" /\ ~doc'[doc'[x].source].deleted
  BY DEF Flow!LaterConversionsFirst
<1> DEFINE Goal == doc'[doc'[x].source].status # "none" /\ ~doc'[doc'[x].source].deleted
<1>1. ASSUME NEW d \in Docs, NEW kind \in Flow!Kinds, NEW status \in {"DRAFT", "ISSUED"},
             NEW qty \in 0 .. MaxQty, NEW source \in Docs \cup {NoOne},
             Creating(q, d, kind, status, qty, source)
      PROVE  Goal
  <2>1. /\ \A y \in Docs \ {d} : doc'[y] = doc[y]
        /\ doc'[d].source = source /\ doc'[d].status # "none" /\ ~doc'[d].deleted
        /\ source # NoOne => Flow!Live(source)
    BY <1>1 DEF Creating, Flow!LinksLast
  <2>2. QED
    BY <2>1, <1>l, <1>s
<1>2. ASSUME NEW d \in Docs, Editing(q, d)
      PROVE  Goal
  <2>1. /\ \A y \in Docs \ {d} : doc'[y] = doc[y]
        /\ doc'[d].source = doc[d].source /\ Flow!Live(d) /\ doc[d].status # "CANCELLED"
        /\ doc'[d].status # "none" /\ ~doc'[d].deleted
    BY <1>2 DEF Editing, SameOrigin, Flow!Asked
  <2>2. QED
    BY <2>1, <1>l, <1>s
<1>3. ASSUME NEW d \in Docs, NEW i \in Sold, Invoicing(q, d, i)
      PROVE  Goal
  <2>1. /\ \A y \in Docs \ {d} : doc'[y] = doc[y]
        /\ doc'[d].source = doc[d].source /\ Flow!Live(d) /\ doc[d].status # "CANCELLED"
        /\ doc'[d].status # "none" /\ ~doc'[d].deleted
    BY <1>3 DEF Invoicing, SameOrigin, Flow!Closed
  <2>2. QED
    BY <2>1, <1>l, <1>s
<1>4. ASSUME NEW d \in Docs, NEW e \in Docs, NEW target \in Flow!Kinds, Converting(q, d, e, target)
      PROVE  Goal
  <2>1. /\ \A y \in Docs \ {d, e} : doc'[y] = doc[y]
        /\ doc'[d].source = doc[d].source /\ Flow!Live(d) /\ doc[d].status # "CANCELLED"
        /\ doc'[d].status # "none" /\ ~doc'[d].deleted
        /\ doc'[e].source = d /\ doc'[e].status # "none" /\ ~doc'[e].deleted
    BY <1>4 DEF Converting, SameOrigin, Flow!Closed
  <2>2. QED
    BY <2>1, <1>l, <1>s
<1>5. ASSUME NEW d \in Docs, NEW i \in Sold, ReversingInvoice(q, d, i)
      PROVE  Goal
  <2>1. /\ \A y \in Docs \ {d} : doc'[y] = doc[y]
        /\ doc'[d].source = doc[d].source /\ Flow!Live(d) /\ doc[d].status # "CANCELLED"
        /\ doc'[d].status # "none" /\ ~doc'[d].deleted
    BY <1>5 DEF ReversingInvoice, SameOrigin
  <2>2. QED
    BY <2>1, <1>l, <1>s
<1>6. ASSUME NEW d \in Docs, NEW e \in Docs, ReversingDocument(q, d, e)
      PROVE  Goal
  <2>1. /\ \A y \in Docs \ {d, e} : doc'[y] = doc[y]
        /\ doc'[d].source = doc[d].source /\ Flow!Live(d) /\ doc[d].status # "CANCELLED"
        /\ doc'[d].status # "none" /\ ~doc'[d].deleted /\ doc'[e].deleted
        /\ doc[e].source = d /\ Flow!Live(e)
        /\ \A f \in Docs : Flow!Live(f) /\ doc[f].source = e => doc[f].status = "CANCELLED"
    BY <1>6 DEF ReversingDocument, SameOrigin, Flow!MadeFrom
  <2>3. CASE x = d
    BY <2>1, <2>3, <1>l, <1>s
  <2>4. CASE x # d
    BY <2>1, <2>4, <1>l, <1>s
  <2>5. QED
    BY <2>3, <2>4
<1>7. ASSUME NEW d \in Docs, Removing(q, d)
      PROVE  Goal
  <2>1. /\ \A y \in Docs \ {d} : doc'[y] = doc[y]
        /\ doc'[d].deleted /\ doc[d].status # "CONVERTED" /\ ~Linked
    BY <1>7 DEF Removing, Flow!LinksLast
  <2>2. x # d /\ doc'[x] = doc[x]
    BY <2>1
  <2>3. doc[doc[x].source].status = "CONVERTED"
    BY <2>1, <2>2 DEF Flow!MadeOnce
  <2>4. QED
    BY <2>1, <2>2, <2>3, <1>l, <1>s
<1>8. ASSUME NEW i \in Sold, Closing(q, i)
      PROVE  Goal
  BY <1>8, <1>l, <1>s DEF Closing
<1>9. QED
  BY <1>1, <1>2, <1>3, <1>4, <1>5, <1>6, <1>7, <1>8 DEF Committing

LEMMA FlowSums ==
  ASSUME NEW S, NEW f
  PROVE  Flow!SumOf(S, f) = SumOf(S, f)
BY DEF Flow!SumOf, Flow!CoinsOf, Flow!Coins, Flow!Cardinality, SumOf, CoinsOf, Coins,
   Cardinality

\* The units that papers account for follow the rows that change.
LEMMA UnitsChange ==
  ASSUME Flow!TypeOK, Flow!DocumentFlowAssumption, doc' \in [Docs -> Flow!DocRow],
         sold' \in [Sold -> Flow!InvoiceRow], NEW a \in Int, NEW b \in Int,
         \/ /\ a = 0 /\ \A x \in Docs : Flow!ShippedUnits(x)' = Flow!ShippedUnits(x)
         \/ \E d \in Docs : /\ a = Flow!ShippedUnits(d)' - Flow!ShippedUnits(d)
                            /\ \A x \in Docs \ {d} : Flow!ShippedUnits(x)' = Flow!ShippedUnits(x),
         \/ /\ b = 0 /\ \A x \in Sold : Flow!ReversedUnits(x)' = Flow!ReversedUnits(x)
         \/ \E i \in Sold : /\ b = Flow!ReversedUnits(i)' - Flow!ReversedUnits(i)
                                /\ \A x \in Sold \ {i} : Flow!ReversedUnits(x)' = Flow!ReversedUnits(x),
         Flow!GoodsLeaveOnce, out' = out + a + b
  PROVE  Flow!GoodsLeaveOnce'
<1> DEFINE f == [d \in Docs |-> Flow!ShippedUnits(d)]
           f2 == [d \in Docs |-> Flow!ShippedUnits(d)']
           g == [i \in Sold |-> Flow!ReversedUnits(i)]
           g2 == [i \in Sold |-> Flow!ReversedUnits(i)']
<1>1. /\ \A x \in Docs : f[x] \in Nat /\ f2[x] \in Nat
      /\ \A x \in Sold : g[x] \in Nat /\ g2[x] \in Nat
  BY DEF Flow!TypeOK, Flow!DocRow, Flow!InvoiceRow, Flow!DocumentFlowAssumption,
     Flow!ShippedUnits, Flow!ReversedUnits, Flow!Moved
<1>2. IsFiniteSet(Docs) /\ IsFiniteSet(Sold)
  BY DEF Flow!DocumentFlowAssumption, Flow!IsFiniteSet, IsFiniteSet
<1>3. /\ out = SumOf(Docs, f) + SumOf(Sold, g)
      /\ Flow!GoodsLeaveOnce' <=> out' = SumOf(Docs, f2) + SumOf(Sold, g2)
  BY FlowSums DEF Flow!GoodsLeaveOnce, Flow!OutByPapers
<1>4. /\ SumOf(Docs, f) \in Nat /\ SumOf(Docs, f2) \in Nat
      /\ SumOf(Sold, g) \in Nat /\ SumOf(Sold, g2) \in Nat
  BY <1>1, <1>2, SumIsNat
<1>5. SumOf(Docs, f2) = SumOf(Docs, f) + a
  <2>1. CASE a = 0 /\ \A x \in Docs : Flow!ShippedUnits(x)' = Flow!ShippedUnits(x)
    <3>1. \A x \in Docs : f2[x] = f[x]
      BY <2>1
    <3>2. SumOf(Docs, f2) = SumOf(Docs, f)
      BY <3>1, SumSame
    <3>3. QED
      BY <3>2, <2>1, <1>4
  <2>2. CASE \E d \in Docs : /\ a = Flow!ShippedUnits(d)' - Flow!ShippedUnits(d)
                             /\ \A x \in Docs \ {d} : Flow!ShippedUnits(x)' = Flow!ShippedUnits(x)
    <3>1. PICK d \in Docs : /\ a = f2[d] - f[d]
                            /\ \A x \in Docs \ {d} : f2[x] = f[x]
      BY <2>2
    <3> HIDE DEF f, f2
    <3>2. SumOf(Docs, f2) = SumOf(Docs, f) - f[d] + f2[d]
      BY <3>1, <1>1, <1>2, SumChange
    <3>3. QED
      BY <3>1, <3>2, <1>1, <1>4
  <2>3. QED
    BY <2>1, <2>2
<1>6. SumOf(Sold, g2) = SumOf(Sold, g) + b
  <2>1. CASE b = 0 /\ \A x \in Sold : Flow!ReversedUnits(x)' = Flow!ReversedUnits(x)
    <3>1. \A x \in Sold : g2[x] = g[x]
      BY <2>1
    <3>2. SumOf(Sold, g2) = SumOf(Sold, g)
      BY <3>1, SumSame
    <3>3. QED
      BY <3>2, <2>1, <1>4
  <2>2. CASE \E d \in Sold : /\ b = Flow!ReversedUnits(d)' - Flow!ReversedUnits(d)
                             /\ \A x \in Sold \ {d} : Flow!ReversedUnits(x)' = Flow!ReversedUnits(x)
    <3>1. PICK d \in Sold : /\ b = g2[d] - g[d]
                            /\ \A x \in Sold \ {d} : g2[x] = g[x]
      BY <2>2
    <3> HIDE DEF g, g2
    <3>2. SumOf(Sold, g2) = SumOf(Sold, g) - g[d] + g2[d]
      BY <3>1, <1>1, <1>2, SumChange
    <3>3. QED
      BY <3>1, <3>2, <1>1, <1>4
  <2>3. QED
    BY <2>1, <2>2
<1> HIDE DEF f, f2, g, g2
<1>7. QED
  BY <1>3, <1>4, <1>5, <1>6

LEMMA CommitGoods ==
  ASSUME Flow!TypeOK, Flow!DocumentFlowAssumption, \A d \in Docs : Flow!DocOK(d), Flow!RemovesAlone, Flow!GoodsLeaveOnce,
         NEW q \in Requests, Committing(q)
  PROVE  Flow!GoodsLeaveOnce'
<1> USE DEF OnlyDoc, OnlyDocs, OnlyInvoice
<1>t. /\ doc' \in [Docs -> Flow!DocRow] /\ sold' \in [Sold -> Flow!InvoiceRow]
      /\ out \in Int /\ out' \in Int
  BY CommitTypes DEF Flow!TypeOK
<1>u. /\ \A x \in Docs : doc[x] = doc'[x] => Flow!ShippedUnits(x)' = Flow!ShippedUnits(x)
      /\ \A x \in Sold : sold[x] = sold'[x] => Flow!ReversedUnits(x)' = Flow!ReversedUnits(x)
  BY DEF Flow!ShippedUnits, Flow!ReversedUnits, Flow!Live
<1>v. /\ \A x \in Docs : doc[x].qty \in Nat /\ doc'[x].qty \in Nat
      /\ \A x \in Docs : Flow!ShippedUnits(x) \in Nat /\ Flow!ShippedUnits(x)' \in Nat
      /\ \A x \in Sold : Flow!ReversedUnits(x) \in Nat /\ Flow!ReversedUnits(x)' \in Nat
  BY <1>t DEF Flow!TypeOK, Flow!DocRow, Flow!InvoiceRow, Flow!DocumentFlowAssumption,
     Flow!ShippedUnits, Flow!ReversedUnits, Flow!Moved
<1>1. ASSUME NEW d \in Docs, NEW kind \in Flow!Kinds, NEW status \in {"DRAFT", "ISSUED"},
             NEW qty \in 0 .. MaxQty, NEW source \in Docs \cup {NoOne},
             Creating(q, d, kind, status, qty, source)
      PROVE  Flow!GoodsLeaveOnce'
  <2>1. \A x \in Docs \ {d} : Flow!ShippedUnits(x)' = Flow!ShippedUnits(x)
    BY <1>1, <1>u DEF Creating
  <2>2. Flow!ShippedUnits(d) = 0
    BY <1>1 DEF Creating, Flow!ShippedUnits, Flow!Live, Flow!Fresh, Flow!Moved
  <2>3. Flow!ShippedUnits(d)' = Flow!Moved(Flow!MovesStock(kind, status), qty)
    BY <1>1 DEF Creating, Flow!ShippedUnits, Flow!Live, Flow!Moved
  <2>4. out' = out + (Flow!ShippedUnits(d)' - Flow!ShippedUnits(d)) + 0
    BY <1>1, <2>2, <2>3, <1>v, <1>t DEF Creating
  <2>5. \A x \in Sold : Flow!ReversedUnits(x)' = Flow!ReversedUnits(x)
    BY <1>1, <1>u DEF Creating
  <2>6. Flow!ShippedUnits(d)' - Flow!ShippedUnits(d) \in Int
    BY <1>v
  <2>7. QED
    BY <2>1, <2>4, <2>5, <2>6, <1>t, UnitsChange
<1>2. ASSUME NEW d \in Docs, Editing(q, d)
      PROVE  Flow!GoodsLeaveOnce'
  <2>1. \A x \in Docs \ {d} : Flow!ShippedUnits(x)' = Flow!ShippedUnits(x)
    BY <1>2, <1>u DEF Editing
  <2>2. Flow!ShippedUnits(d) = Flow!Moved(doc[d].stockAdjusted, doc[d].qty)
    BY <1>2 DEF Editing, Flow!ShippedUnits, Flow!Live, Flow!Moved
  <2>3. Flow!ShippedUnits(d)' = Flow!Moved(doc'[d].stockAdjusted, doc'[d].qty)
    BY <1>2 DEF Editing, Flow!ShippedUnits, Flow!Live, Flow!Moved, Flow!Asked
  <2>4. out' = out + (Flow!ShippedUnits(d)' - Flow!ShippedUnits(d)) + 0
    BY <1>2, <2>2, <2>3, <1>v, <1>t DEF Editing
  <2>5. \A x \in Sold : Flow!ReversedUnits(x)' = Flow!ReversedUnits(x)
    BY <1>2, <1>u DEF Editing
  <2>6. Flow!ShippedUnits(d)' - Flow!ShippedUnits(d) \in Int
    BY <1>v
  <2>7. QED
    BY <2>1, <2>4, <2>5, <2>6, <1>t, UnitsChange
<1>3. ASSUME NEW d \in Docs, NEW i \in Sold, Invoicing(q, d, i)
      PROVE  Flow!GoodsLeaveOnce'
  <2>1. /\ \A x \in Docs \ {d} : Flow!ShippedUnits(x)' = Flow!ShippedUnits(x)
        /\ \A x \in Sold \ {i} : Flow!ReversedUnits(x)' = Flow!ReversedUnits(x)
    BY <1>3, <1>u DEF Invoicing
  <2>2. Flow!ShippedUnits(d) = Flow!Moved(doc[d].stockAdjusted, doc[d].qty) /\ Flow!ShippedUnits(d)' = 0
    BY <1>3 DEF Invoicing, Flow!ShippedUnits, Flow!Live, Flow!Moved, Flow!Closed
  <2>3. Flow!ReversedUnits(i) = 0 /\ Flow!ReversedUnits(i)' = doc[d].qty
    BY <1>3 DEF Invoicing, Flow!ReversedUnits
  <2>4. Flow!Moved(~doc[d].stockAdjusted, doc[d].qty)
          = doc[d].qty - Flow!Moved(doc[d].stockAdjusted, doc[d].qty)
    BY <1>v DEF Flow!Moved
  <2>5. out' = out + (Flow!ShippedUnits(d)' - Flow!ShippedUnits(d)) + (Flow!ReversedUnits(i)' - Flow!ReversedUnits(i))
    BY <1>3, <2>2, <2>3, <2>4, <1>v, <1>t DEF Invoicing
  <2>6. Flow!ShippedUnits(d)' - Flow!ShippedUnits(d) \in Int /\ Flow!ReversedUnits(i)' - Flow!ReversedUnits(i) \in Int
    BY <1>v
  <2>7. QED
    BY <2>1, <2>5, <2>6, <1>t, UnitsChange
<1>4. ASSUME NEW d \in Docs, NEW e \in Docs, NEW target \in Flow!Kinds, Converting(q, d, e, target)
      PROVE  Flow!GoodsLeaveOnce'
  <2>1. ~doc[d].stockAdjusted
    BY <1>4 DEF Converting, Flow!Conversions, Flow!DocOK
  <2>2. \A x \in Docs : Flow!ShippedUnits(x)' = Flow!ShippedUnits(x)
    BY <1>4, <1>u, <2>1 DEF Converting, Flow!ShippedUnits, Flow!Moved, Flow!Live, Flow!Fresh
  <2>3. \A x \in Sold : Flow!ReversedUnits(x)' = Flow!ReversedUnits(x)
    BY <1>4, <1>u DEF Converting
  <2>4. out' = out + 0 + 0
    BY <1>4, <1>t DEF Converting
  <2>5. QED
    BY <2>2, <2>3, <2>4, <1>t, UnitsChange
<1>5. ASSUME NEW d \in Docs, NEW i \in Sold, ReversingInvoice(q, d, i)
      PROVE  Flow!GoodsLeaveOnce'
  <2>1. ~doc[d].stockAdjusted
    BY <1>5 DEF ReversingInvoice, Flow!PreSale, Flow!DocOK
  <2>2. \A x \in Docs : Flow!ShippedUnits(x)' = Flow!ShippedUnits(x)
    BY <1>5, <1>u, <2>1 DEF ReversingInvoice, Flow!ShippedUnits, Flow!Moved
  <2>3. \A x \in Sold \ {i} : Flow!ReversedUnits(x)' = Flow!ReversedUnits(x)
    BY <1>5, <1>u DEF ReversingInvoice
  <2>4. Flow!ReversedUnits(i)' = 0
    BY <1>5 DEF ReversingInvoice, Flow!ReversedUnits
  <2>5. PICK b \in Int : b = Flow!ReversedUnits(i)' - Flow!ReversedUnits(i)
    BY <1>v
  <2>6. PICK a \in Int : a = 0
    OBVIOUS
  <2>7. out' = out + a + b
    BY <1>5, <2>4, <2>5, <2>6, <1>v, <1>t DEF ReversingInvoice
  <2>8. \E x \in Sold : /\ b = Flow!ReversedUnits(x)' - Flow!ReversedUnits(x)
                            /\ \A y \in Sold \ {x} : Flow!ReversedUnits(y)' = Flow!ReversedUnits(y)
    BY <2>3, <2>5
  <2>9. QED
    BY <2>2, <2>6, <2>7, <2>8, <1>t, UnitsChange
<1>6. ASSUME NEW d \in Docs, NEW e \in Docs, ReversingDocument(q, d, e)
      PROVE  Flow!GoodsLeaveOnce'
  <2>1. ~doc[d].stockAdjusted
    BY <1>6 DEF ReversingDocument, Flow!PreSale, Flow!DocOK
  <2>2. \A x \in Docs : Flow!ShippedUnits(x)' = Flow!ShippedUnits(x)
    BY <1>6, <1>u, <2>1 DEF ReversingDocument, Flow!ShippedUnits, Flow!Moved
  <2>3. \A x \in Sold : Flow!ReversedUnits(x)' = Flow!ReversedUnits(x)
    BY <1>6, <1>u DEF ReversingDocument
  <2>4. out' = out + 0 + 0
    BY <1>6, <1>t DEF ReversingDocument
  <2>5. QED
    BY <2>2, <2>3, <2>4, <1>t, UnitsChange
<1>7. ASSUME NEW d \in Docs, Removing(q, d)
      PROVE  Flow!GoodsLeaveOnce'
  <2>1. ~doc[d].stockAdjusted
    BY <1>7 DEF Removing, Flow!DocOK
  <2>2. \A x \in Docs : Flow!ShippedUnits(x)' = Flow!ShippedUnits(x)
    BY <1>7, <1>u, <2>1 DEF Removing, Flow!ShippedUnits, Flow!Moved
  <2>3. \A x \in Sold : Flow!ReversedUnits(x)' = Flow!ReversedUnits(x)
    BY <1>7, <1>u DEF Removing
  <2>4. out' = out + 0 + 0
    BY <1>7, <1>t DEF Removing
  <2>5. QED
    BY <2>2, <2>3, <2>4, <1>t, UnitsChange
<1>8. ASSUME NEW i \in Sold, Closing(q, i)
      PROVE  Flow!GoodsLeaveOnce'
  <2>1. \A x \in Docs : Flow!ShippedUnits(x)' = Flow!ShippedUnits(x)
    BY <1>8, <1>u DEF Closing
  <2>2. \A x \in Sold \ {i} : Flow!ReversedUnits(x)' = Flow!ReversedUnits(x)
    BY <1>8, <1>u DEF Closing
  <2>3. Flow!ReversedUnits(i)' = 0
    BY <1>8 DEF Closing, Flow!ReversedUnits
  <2>4. PICK b \in Int : b = Flow!ReversedUnits(i)' - Flow!ReversedUnits(i)
    BY <1>v
  <2>5. PICK a \in Int : a = 0
    OBVIOUS
  <2>6. out' = out + a + b
    BY <1>8, <2>3, <2>4, <2>5, <1>v, <1>t DEF Closing
  <2>7. \E d \in Sold : /\ b = Flow!ReversedUnits(d)' - Flow!ReversedUnits(d)
                            /\ \A x \in Sold \ {d} : Flow!ReversedUnits(x)' = Flow!ReversedUnits(x)
    BY <2>2, <2>4
  <2>8. QED
    BY <2>1, <2>5, <2>6, <2>7, <1>t, UnitsChange
<1>9. QED
  BY <1>1, <1>2, <1>3, <1>4, <1>5, <1>6, <1>7, <1>8 DEF Committing

-----------------------------------------------------------------------------
(* The checks                                                               *)

\* A check leaves the tables and the other requests as they are.
LEMMA OthersWait ==
  ASSUME Flow!RowsOK, NoOne \notin Requests, NEW q \in Requests, NEW op,
         NEW rows, NEW docs, NEW invoices, NEW units,
         Flow!Check(q, op, rows, docs, invoices, units)
  PROVE  Flow!RowsOK' /\ \A r \in Requests \ {q} : Waits(r)
<1>1. /\ UNCHANGED <<doc, sold, out>>
      /\ lock' = [x \in Flow!Rows |-> IF x \in rows THEN q ELSE lock[x]]
      /\ pc' = [pc EXCEPT ![q] = "checked"]
      /\ job' = [job EXCEPT ![q] = [doc |-> docs, invoice |-> invoices, out |-> units]]
      /\ \A x \in rows : lock[x] = NoOne
  BY DEF Flow!Check, Flow!CanLock
<1>2. lock' \in [Flow!Rows -> Requests \cup {NoOne}]
  BY <1>1 DEF Flow!RowsOK, Flow!TypeOK
<1>3. pc' \in [Requests -> {"idle", "checked"}] /\ DOMAIN job' = Requests
  BY <1>1 DEF Flow!RowsOK
<1>4. Flow!RowsOK'
  BY <1>1, <1>2, <1>3 DEF Flow!RowsOK, Flow!TypeOK
<1>5. \A r \in Requests \ {q} : Waits(r)
  BY <1>1 DEF Waits, Flow!RowsOK
<1>6. QED
  BY <1>4, <1>5

LEMMA Handled ==
  ASSUME Flow!IInv, Flow!DocumentFlowAssumption, NoOne \notin Requests, NEW q \in Requests,
         Flow!RowsOK', UNCHANGED <<doc, sold, out>>, \A r \in Requests \ {q} : Waits(r),
         Flow!CheckedJob(q)'
  PROVE  Flow!IInv'
<1>1. /\ (\A d \in Docs : Flow!DocOK(d))' /\ (~Linked => Flow!MadeOnce)'
      /\ (Flow!RemovesAlone => Flow!GoodsLeaveOnce /\ Flow!DeletedWereNotInForce)'
      /\ (Flow!LinksLast => Flow!LaterConversionsFirst)'
  BY DEF Flow!IInv, Flow!DocOK, Flow!MadeOnce, Flow!MadeFrom, Flow!GoodsLeaveOnce,
     Flow!OutByPapers, Flow!ShippedUnits,
         Flow!ReversedUnits, Flow!DeletedWereNotInForce, Flow!LaterConversionsFirst, Flow!Live, Flow!Fresh,
         Flow!RemovesAlone, Flow!LinksLast
<1>2. ASSUME NEW r \in Requests \ {q}
      PROVE  Flow!CheckedJob(r)'
  BY StillRespects, JobKept DEF Flow!IInv, Flow!RowsOK
<1>3. QED
  BY <1>1, <1>2 DEF Flow!IInv

LEMMA CreateChecks ==
  ASSUME Flow!IInv, Flow!DocumentFlowAssumption, NoOne \notin Requests, NEW q \in Requests,
         NEW d \in Docs, NEW kind \in Flow!Kinds, NEW status \in {"DRAFT", "ISSUED"},
         NEW qty \in 1 .. MaxQty, NEW source \in Docs \cup {NoOne},
         Flow!Create(q, d, kind, status, qty, source)
  PROVE  Flow!IInv'
<1>0. Flow!RowsOK
  BY DEF Flow!IInv
<1> DEFINE row == Flow!NewDoc(kind, status, qty, source)
           units == Flow!Moved(row.stockAdjusted, qty)
<1>1. /\ Flow!Fresh(d) /\ (source # NoOne => Linked /\ Flow!Live(source))
      /\ Flow!Check(q, "create", {"branch"}, Flow!One(d, row), Flow!Nothing, units)
  BY DEF Flow!Create
<1> HIDE DEF row, units
<1>2. /\ UNCHANGED <<doc, sold, out>> /\ lock'["branch"] = q
      /\ job'[q] = [doc |-> Flow!One(d, row), invoice |-> Flow!Nothing, out |-> units]
  BY <1>0, <1>1 DEF Flow!Check, Flow!RowsOK, Flow!Rows
<1>w. Flow!RowsOK' /\ \A r \in Requests \ {q} : Waits(r)
  BY <1>0, <1>1, OthersWait
<1>3. Flow!CreateJob(q)'
  BY <1>1, <1>2 DEF Flow!CreateJob, Flow!Fresh, Flow!Live, row, units, Flow!Planned
<1>4. QED
  BY <1>2, <1>3, <1>w, Handled DEF Flow!CheckedJob

LEMMA UpdateChecks ==
  ASSUME Flow!IInv, Flow!DocumentFlowAssumption, NoOne \notin Requests, NEW q \in Requests,
         NEW d \in Docs, NEW asked \in {"DRAFT", "ISSUED"}, NEW qty \in 1 .. MaxQty,
         Flow!Update(q, d, asked, qty)
  PROVE  Flow!IInv'
<1>0. Flow!RowsOK
  BY DEF Flow!IInv
<1> DEFINE status == IF doc[d].status = "DRAFT" THEN asked ELSE doc[d].status
           adjusted == Flow!MovesStock(doc[d].kind, status)
           row == [status |-> status, qty |-> qty, stockAdjusted |-> adjusted]
           units == Flow!Moved(adjusted, qty) - Flow!Moved(doc[d].stockAdjusted, doc[d].qty)
<1>1. /\ Flow!Live(d) /\ doc[d].status \in {"DRAFT", "ISSUED", "ACCEPTED"}
      /\ Flow!Check(q, "update", {"branch", d}, Flow!One(d, row), Flow!Nothing, units)
  BY DEF Flow!Update
<1>2. /\ status \in {"DRAFT", "ISSUED", "ACCEPTED"} /\ adjusted \in BOOLEAN /\ qty \in 0 .. MaxQty
      /\ adjusted => doc[d].kind = "DELIVERY_CHALLAN" /\ status \notin {"DRAFT", "CANCELLED"}
  BY <1>1 DEF Flow!MovesStock, Flow!DocumentFlowAssumption
<1> HIDE DEF row, units, status, adjusted
<1>3. /\ UNCHANGED <<doc, sold, out>> /\ lock'[d] = q
      /\ job'[q] = [doc |-> Flow!One(d, row), invoice |-> Flow!Nothing, out |-> units]
  BY <1>0, <1>1 DEF Flow!Check, Flow!RowsOK, Flow!Rows
<1>w. Flow!RowsOK' /\ \A r \in Requests \ {q} : Waits(r)
  BY <1>0, <1>1, OthersWait
<1>4. Flow!EditJob(q)'
  <2>1. PICK s, b : s = status /\ b = adjusted
    OBVIOUS
  <2>2. /\ job'[q].doc = Flow!One(d, [status |-> s, qty |-> qty, stockAdjusted |-> b])
        /\ job'[q] = [doc |-> job'[q].doc, invoice |-> Flow!Nothing,
                      out |-> Flow!Moved(b, qty) - Flow!Moved(doc[d].stockAdjusted, doc[d].qty)]
    BY <1>3, <2>1 DEF row, units
  <2>3. s \in Flow!Asked /\ b \in BOOLEAN /\ qty \in 0 .. MaxQty
        /\ (b => doc[d].kind = "DELIVERY_CHALLAN" /\ s \notin {"DRAFT", "CANCELLED"})
    BY <1>2, <2>1 DEF Flow!Asked
  <2>4. QED
    BY <1>1, <1>3, <2>2, <2>3 DEF Flow!EditJob, Flow!Live, Flow!Planned
<1>5. QED
  BY <1>3, <1>4, <1>w, Handled DEF Flow!CheckedJob

LEMMA StatusChecks ==
  ASSUME Flow!IInv, Flow!DocumentFlowAssumption, NoOne \notin Requests, NEW q \in Requests,
         NEW d \in Docs, NEW asked \in Flow!Asked, Flow!UpdateStatus(q, d, asked)
  PROVE  Flow!IInv'
<1>0. Flow!RowsOK
  BY DEF Flow!IInv
<1> DEFINE adjusted == \/ doc[d].stockAdjusted /\ asked # "CANCELLED"
                       \/ doc[d].kind = "DELIVERY_CHALLAN" /\ asked \in {"ISSUED", "ACCEPTED"}
           row == [status |-> asked, stockAdjusted |-> adjusted]
           units == Flow!Moved(adjusted, doc[d].qty) - Flow!Moved(doc[d].stockAdjusted, doc[d].qty)
<1>1. /\ Flow!Live(d) /\ doc[d].status \notin {"CONVERTED", "CANCELLED"}
      /\ doc[d].status # "DRAFT" => asked # "DRAFT"
      /\ Flow!Check(q, "status", {d}, Flow!One(d, row), Flow!Nothing, units)
  BY DEF Flow!UpdateStatus
<1>2. doc[d].qty \in 0 .. MaxQty /\ adjusted \in BOOLEAN
  BY DEF Flow!IInv, Flow!RowsOK, Flow!TypeOK, Flow!DocRow
<1>3. adjusted => doc[d].kind = "DELIVERY_CHALLAN" /\ asked \notin {"DRAFT", "CANCELLED"}
  BY <1>1 DEF Flow!IInv, Flow!DocOK
<1> HIDE DEF row, units, adjusted
<1>4. /\ UNCHANGED <<doc, sold, out>> /\ lock'[d] = q
      /\ job'[q] = [doc |-> Flow!One(d, row), invoice |-> Flow!Nothing, out |-> units]
  BY <1>0, <1>1 DEF Flow!Check, Flow!RowsOK, Flow!Rows
<1>w. Flow!RowsOK' /\ \A r \in Requests \ {q} : Waits(r)
  BY <1>0, <1>1, OthersWait
<1>5. Flow!EditJob(q)'
  BY <1>1, <1>2, <1>3, <1>4 DEF Flow!EditJob, Flow!Live, row, units, Flow!Planned
<1>6. QED
  BY <1>4, <1>5, <1>w, Handled DEF Flow!CheckedJob

LEMMA InvoiceChecks ==
  ASSUME Flow!IInv, Flow!DocumentFlowAssumption, NoOne \notin Requests, NEW q \in Requests,
         NEW d \in Docs, NEW i \in Sold, Flow!ConvertToInvoice(q, d, i)
  PROVE  Flow!IInv'
<1>0. Flow!RowsOK
  BY DEF Flow!IInv
<1> DEFINE row == [status |-> "CONVERTED", converted |-> i]
           sale == [status |-> "UNPAID", qty |-> doc[d].qty]
           units == Flow!Moved(~doc[d].stockAdjusted, doc[d].qty)
<1>1. /\ Flow!Live(d) /\ doc[d].status \notin Flow!Closed /\ sold[i].status = "none"
      /\ Flow!Check(q, "invoice", {"branch", d}, Flow!One(d, row), Flow!One(i, sale), units)
  BY DEF Flow!ConvertToInvoice
<1> HIDE DEF row, sale, units
<1>2. /\ UNCHANGED <<doc, sold, out>> /\ lock'[d] = q /\ lock'["branch"] = q
      /\ job'[q] = [doc |-> Flow!One(d, row), invoice |-> Flow!One(i, sale), out |-> units]
  BY <1>0, <1>1 DEF Flow!Check, Flow!RowsOK, Flow!Rows
<1>w. Flow!RowsOK' /\ \A r \in Requests \ {q} : Waits(r)
  BY <1>0, <1>1, OthersWait
<1>3. Flow!InvoiceJob(q)'
  BY <1>1, <1>2 DEF Flow!InvoiceJob, Flow!Live, row, sale, units, Flow!Planned
<1>4. QED
  BY <1>2, <1>3, <1>w, Handled DEF Flow!CheckedJob

LEMMA ConvertChecks ==
  ASSUME Flow!IInv, Flow!DocumentFlowAssumption, NoOne \notin Requests, NEW q \in Requests,
         NEW d \in Docs, NEW e \in Docs, NEW target \in Flow!Kinds, Flow!Convert(q, d, target, e)
  PROVE  Flow!IInv'
<1>0. Flow!RowsOK
  BY DEF Flow!IInv
<1> DEFINE rows == Flow!Two(d, [status |-> "CONVERTED"], e, Flow!NewDoc(target, "DRAFT", doc[d].qty, d))
<1>1. /\ Flow!Live(d) /\ doc[d].status \notin Flow!Closed /\ Flow!Fresh(e)
      /\ <<doc[d].kind, target>> \in Flow!Conversions
      /\ Flow!Check(q, "convert", {"branch", d}, rows, Flow!Nothing, 0)
  BY DEF Flow!Convert
<1> HIDE DEF rows
<1>2. /\ UNCHANGED <<doc, sold, out>> /\ lock'[d] = q /\ lock'["branch"] = q
      /\ job'[q] = [doc |-> rows, invoice |-> Flow!Nothing, out |-> 0]
  BY <1>0, <1>1 DEF Flow!Check, Flow!RowsOK, Flow!Rows
<1>w. Flow!RowsOK' /\ \A r \in Requests \ {q} : Waits(r)
  BY <1>0, <1>1, OthersWait
<1>3. Flow!ConvertJob(q)'
  BY <1>1, <1>2 DEF Flow!ConvertJob, Flow!Live, Flow!Fresh, rows, Flow!Planned
<1>4. QED
  BY <1>2, <1>3, <1>w, Handled DEF Flow!CheckedJob

LEMMA ReverseInvoiceChecks ==
  ASSUME Flow!IInv, Flow!DocumentFlowAssumption, NoOne \notin Requests, NEW q \in Requests,
         NEW d \in Docs, Flow!ReverseInvoice(q, d)
  PROVE  Flow!IInv'
<1>0. Flow!RowsOK
  BY DEF Flow!IInv
<1> DEFINE i == doc[d].converted
           rows == Flow!One(i, [status |-> "removed"])
<1>1. /\ Flow!Live(d) /\ doc[d].kind \in Flow!PreSale /\ doc[d].status = "CONVERTED" /\ i # NoOne
      /\ Flow!Check(q, "reverse", {"branch", d, i}, Flow!One(d, Flow!Reopened), rows, -Flow!ReversedUnits(i))
  BY DEF Flow!ReverseInvoice
<1>2. i \in Sold
  BY <1>1 DEF Flow!IInv, Flow!RowsOK, Flow!TypeOK, Flow!DocRow
<1> HIDE DEF rows, i
<1>3. /\ UNCHANGED <<doc, sold, out>>
      /\ lock'[d] = q /\ lock'[i] = q /\ lock'["branch"] = q
      /\ job'[q] = [doc |-> Flow!One(d, Flow!Reopened), invoice |-> rows, out |-> -Flow!ReversedUnits(i)]
  BY <1>0, <1>1, <1>2 DEF Flow!Check, Flow!RowsOK, Flow!Rows
<1>w. Flow!RowsOK' /\ \A r \in Requests \ {q} : Waits(r)
  BY <1>0, <1>1, OthersWait
<1>4. Flow!ReverseInvoiceJob(q)'
  BY <1>1, <1>3 DEF Flow!ReverseInvoiceJob, Flow!Live, Flow!ReversedUnits, rows, i, Flow!Planned
<1>5. QED
  BY <1>3, <1>4, <1>w, Handled DEF Flow!CheckedJob

LEMMA ReverseDocumentChecks ==
  ASSUME Flow!IInv, Flow!DocumentFlowAssumption, NoOne \notin Requests, NEW q \in Requests,
         NEW d \in Docs, NEW e \in Docs, Flow!ReverseDocument(q, d, e)
  PROVE  Flow!IInv'
<1>0. Flow!RowsOK
  BY DEF Flow!IInv
<1> DEFINE rows == Flow!Two(d, Flow!Reopened, e, [status |-> "CANCELLED", deleted |-> TRUE])
<1>1. /\ Flow!Live(d) /\ doc[d].kind \in Flow!PreSale /\ doc[d].status = "CONVERTED"
      /\ doc[d].converted = NoOne
      /\ e \in Flow!MadeFrom(d) /\ doc[e].status # "CONVERTED" /\ doc[e].converted = NoOne
      /\ \A f \in Flow!MadeFrom(e) : doc[f].status = "CANCELLED"
      /\ ~doc[e].stockAdjusted
      /\ Flow!Check(q, "reverse", {"branch", d, e}, rows, Flow!Nothing, 0)
  BY DEF Flow!ReverseDocument
<1>2. Flow!Live(e) /\ doc[e].source = d
  BY <1>1 DEF Flow!MadeFrom
<1> HIDE DEF rows
<1>3. /\ UNCHANGED <<doc, sold, out>>
      /\ lock'[d] = q /\ lock'[e] = q /\ lock'["branch"] = q
      /\ job'[q] = [doc |-> rows, invoice |-> Flow!Nothing, out |-> 0]
  BY <1>0, <1>1 DEF Flow!Check, Flow!RowsOK, Flow!Rows
<1>w. Flow!RowsOK' /\ \A r \in Requests \ {q} : Waits(r)
  BY <1>0, <1>1, OthersWait
<1>4. Flow!ReverseDocumentJob(q)'
  BY <1>1, <1>2, <1>3 DEF Flow!ReverseDocumentJob, Flow!Live, Flow!MadeFrom, rows, Flow!Planned
<1>5. QED
  BY <1>3, <1>4, <1>w, Handled DEF Flow!CheckedJob

LEMMA RemoveChecks ==
  ASSUME Flow!IInv, Flow!DocumentFlowAssumption, NoOne \notin Requests, NEW q \in Requests,
         NEW d \in Docs, Flow!Remove(q, d)
  PROVE  Flow!IInv'
<1>0. Flow!RowsOK
  BY DEF Flow!IInv
<1>1. /\ Flow!Live(d) /\ doc[d].status \in {"DRAFT", "CANCELLED"}
      /\ Flow!Check(q, "remove", {}, Flow!One(d, [deleted |-> TRUE]), Flow!Nothing, 0)
  BY DEF Flow!Remove
<1>2. /\ UNCHANGED <<doc, sold, out>> /\ "remove" \in PaperOps
      /\ job'[q] = [doc |-> Flow!One(d, [deleted |-> TRUE]), invoice |-> Flow!Nothing, out |-> 0]
  BY <1>0, <1>1 DEF Flow!Check, Flow!RowsOK, Flow!Rows
<1>w. Flow!RowsOK' /\ \A r \in Requests \ {q} : Waits(r)
  BY <1>0, <1>1, OthersWait
<1>3. Flow!RemoveJob(q)'
  BY <1>1, <1>2 DEF Flow!RemoveJob, Flow!Live, Flow!Fresh, Flow!Planned
<1>4. QED
  BY <1>2, <1>3, <1>w, Handled DEF Flow!CheckedJob

LEMMA CloseChecks ==
  ASSUME Flow!IInv, Flow!DocumentFlowAssumption, NoOne \notin Requests, NEW q \in Requests,
         NEW i \in Sold, NEW status \in {"CANCELLED", "removed"}, Flow!CloseInvoice(q, i, status)
  PROVE  Flow!IInv'
<1>0. Flow!RowsOK
  BY DEF Flow!IInv
<1> DEFINE rows == Flow!One(i, [status |-> status])
<1>1. /\ sold[i].status \in {"UNPAID", "CANCELLED"}
      /\ Flow!Check(q, "close", {i}, Flow!Nothing, rows, -Flow!ReversedUnits(i))
  BY DEF Flow!CloseInvoice
<1> HIDE DEF rows
<1>2. /\ UNCHANGED <<doc, sold, out>> /\ lock'[i] = q
      /\ job'[q] = [doc |-> Flow!Nothing, invoice |-> rows, out |-> -Flow!ReversedUnits(i)]
  BY <1>0, <1>1 DEF Flow!Check, Flow!RowsOK, Flow!Rows
<1>w. Flow!RowsOK' /\ \A r \in Requests \ {q} : Waits(r)
  BY <1>0, <1>1, OthersWait
<1>3. Flow!CloseJob(q)'
  BY <1>1, <1>2 DEF Flow!CloseJob, Flow!ReversedUnits, rows, Flow!Planned
<1>4. QED
  BY <1>2, <1>3, <1>w, Handled DEF Flow!CheckedJob

-----------------------------------------------------------------------------
(* The theorems                                                             *)

LEMMA EndReleases ==
  ASSUME Flow!RowsOK, NoOne \notin Requests, NEW q \in Requests, Flow!End(q)
  PROVE  /\ lock' \in [Flow!Rows -> Requests \cup {NoOne}]
         /\ pc' \in [Requests -> {"idle", "checked"}] /\ DOMAIN job' = Requests
         /\ pc'[q] = "idle" /\ \A r \in Requests \ {q} : Waits(r)
<1>1. /\ lock' = [x \in Flow!Rows |-> IF lock[x] = q THEN NoOne ELSE lock[x]]
      /\ pc' = [pc EXCEPT ![q] = "idle"] /\ job' = [job EXCEPT ![q] = Flow!NoJob]
  BY DEF Flow!End, Flow!Released, Flow!RowsOK, Flow!TypeOK
<1>2. lock' \in [Flow!Rows -> Requests \cup {NoOne}]
  BY <1>1 DEF Flow!RowsOK, Flow!TypeOK
<1>3. /\ pc' \in [Requests -> {"idle", "checked"}] /\ DOMAIN job' = Requests
      /\ pc'[q] = "idle"
  BY <1>1 DEF Flow!RowsOK
<1>4. \A r \in Requests \ {q} : Waits(r)
  BY <1>1 DEF Waits, Flow!RowsOK
<1>5. QED
  BY <1>2, <1>3, <1>4

LEMMA CommitInv ==
  ASSUME Flow!IInv, Flow!DocumentFlowAssumption, NoOne \notin Requests, NEW q \in Requests, Flow!Commit(q)
  PROVE  Flow!IInv'
<1>1. /\ Flow!RowsOK /\ Flow!TypeOK /\ (\A d \in Docs : Flow!DocOK(d)) /\ (~Linked => Flow!MadeOnce)
      /\ (Flow!RemovesAlone => Flow!GoodsLeaveOnce /\ Flow!DeletedWereNotInForce)
      /\ (Flow!LinksLast => Flow!LaterConversionsFirst) /\ \A r \in Requests : Flow!CheckedJob(r)
  BY DEF Flow!IInv, Flow!RowsOK
<1>2. Committing(q)
  BY <1>1, CommitCommits
<1>3. Flow!RowsOK'
  <2>1. Flow!End(q)
    BY DEF Flow!Commit
  <2>2. QED
    BY <1>1, <1>2, <2>1, CommitTypes, EndReleases DEF Flow!RowsOK, Flow!TypeOK
<1>4. (\A d \in Docs : Flow!DocOK(d))'
  BY <1>1, <1>2, CommitRowsOK
<1>5. (~Linked => Flow!MadeOnce)'
  BY <1>1, <1>2, CommitMadeOnce
<1>6. (Flow!RemovesAlone => Flow!GoodsLeaveOnce /\ Flow!DeletedWereNotInForce)'
  BY <1>1, <1>2, CommitGoods, CommitDeleted DEF Flow!RemovesAlone
<1>7. (Flow!LinksLast => Flow!LaterConversionsFirst)'
  BY <1>1, <1>2, CommitLast DEF Flow!RemovesAlone, Flow!LinksLast
<1>8. ASSUME NEW r \in Requests
      PROVE  Flow!CheckedJob(r)'
  <2>1. Flow!End(q)
    BY DEF Flow!Commit
  <2>2. CASE r = q
    BY <1>1, <2>1, <2>2, EndReleases DEF Flow!CheckedJob
  <2>3. CASE r # q
    <3>1. Respects(r)
      BY <1>1, <1>2, <2>3, CommitRespects
    <3>2. Waits(r)
      BY <1>1, <2>1, <2>3, EndReleases
    <3>3. QED
      BY <1>1, <2>3, <3>1, <3>2, JobKept
  <2>4. QED
    BY <2>2, <2>3
<1>9. QED
  BY <1>3, <1>4, <1>5, <1>6, <1>7, <1>8 DEF Flow!IInv

LEMMA RollbackInv ==
  ASSUME Flow!IInv, Flow!DocumentFlowAssumption, NoOne \notin Requests, NEW q \in Requests, Flow!Rollback(q)
  PROVE  Flow!IInv'
<1>1. Flow!RowsOK /\ Flow!End(q) /\ UNCHANGED <<doc, sold, out>>
  BY DEF Flow!Rollback, Flow!IInv
<1>2. /\ lock' \in [Flow!Rows -> Requests \cup {NoOne}]
      /\ pc' \in [Requests -> {"idle", "checked"}] /\ DOMAIN job' = Requests
      /\ pc'[q] = "idle" /\ \A r \in Requests \ {q} : Waits(r)
  BY <1>1, EndReleases
<1>3. Flow!RowsOK'
  BY <1>1, <1>2 DEF Flow!RowsOK, Flow!TypeOK
<1>4. Flow!CheckedJob(q)'
  BY <1>2 DEF Flow!CheckedJob
<1>5. QED
  BY <1>1, <1>2, <1>3, <1>4, Handled

LEMMA StutterInv ==
  ASSUME Flow!IInv, Flow!DocumentFlowAssumption, NoOne \notin Requests, UNCHANGED Flow!vars
  PROVE  Flow!IInv'
<1>1. Flow!RowsOK' /\ UNCHANGED <<doc, sold, out>> /\ \A r \in Requests : Waits(r)
  BY DEF Flow!vars, Flow!IInv, Flow!RowsOK, Flow!TypeOK, Waits
<1>2. CASE Requests = {}
  BY <1>1, <1>2 DEF Flow!IInv, Flow!DocOK, Flow!MadeOnce, Flow!MadeFrom, Flow!GoodsLeaveOnce,
     Flow!OutByPapers, Flow!ShippedUnits,
         Flow!ReversedUnits, Flow!DeletedWereNotInForce, Flow!LaterConversionsFirst, Flow!Live, Flow!Fresh,
         Flow!RemovesAlone, Flow!LinksLast
<1>3. CASE Requests # {}
  <2>1. PICK q \in Requests : TRUE
    BY <1>3
  <2>2. CASE pc[q] # "checked"
    BY <1>1, <2>2, Handled DEF Flow!vars, Flow!CheckedJob
  <2>3. CASE pc[q] = "checked"
    <3>1. \A d \in Docs : Flow!DocOK(d)
      BY DEF Flow!IInv
    <3>2. Flow!TypeOK /\ Flow!RemoveJob(q) => Flow!RemoveJob(q)'
      BY <1>1 DEF Flow!RemoveJob, Flow!Fresh, Flow!Live, Flow!Planned, Waits, Flow!IInv,
         Flow!RowsOK
    <3>3. Flow!CheckedJob(q)'
      BY <1>1, <2>3, <3>1, <3>2, StillRespects, CreateJobKept, EditJobKept, InvoiceJobKept,
         ConvertJobKept, ReverseInvoiceJobKept, ReverseDocumentJobKept, CloseJobKept
         DEF Flow!CheckedJob, Flow!IInv, Flow!RowsOK
    <3>4. QED
      BY <1>1, <3>3, Handled
  <2>4. QED
    BY <2>2, <2>3
<1>4. QED
  BY <1>2, <1>3

LEMMA FlowInitInv ==
  ASSUME Flow!DocumentFlowAssumption, Flow!Init
  PROVE  Flow!IInv
<1>1. /\ doc = [d \in Docs |-> Flow!NoDoc] /\ sold = [i \in Sold |-> Flow!NoInvoice] /\ out = 0
      /\ lock = [r \in Flow!Rows |-> NoOne] /\ pc = [q \in Requests |-> "idle"]
      /\ job = [q \in Requests |-> Flow!NoJob]
  BY DEF Flow!Init
<1>2. Flow!NoDoc \in Flow!DocRow /\ Flow!NoInvoice \in Flow!InvoiceRow
  BY DEF Flow!NoDoc, Flow!NoInvoice, Flow!DocRow, Flow!InvoiceRow, Flow!DocumentFlowAssumption
<1>3. Flow!RowsOK
  BY <1>1, <1>2 DEF Flow!RowsOK, Flow!TypeOK
<1>4. /\ \A d \in Docs : Flow!DocOK(d)
      /\ Flow!MadeOnce /\ Flow!DeletedWereNotInForce /\ Flow!LaterConversionsFirst
  BY <1>1 DEF Flow!DocOK, Flow!MadeOnce, Flow!DeletedWereNotInForce, Flow!LaterConversionsFirst,
     Flow!Live, Flow!Fresh, Flow!NoDoc
<1>5. Flow!GoodsLeaveOnce
  <2> DEFINE f == [d \in Docs |-> Flow!ShippedUnits(d)]
             g == [i \in Sold |-> Flow!ReversedUnits(i)]
  <2>1. /\ \A d \in Docs : f[d] = 0
        /\ \A i \in Sold : g[i] = 0
    BY <1>1 DEF Flow!ShippedUnits, Flow!ReversedUnits, Flow!Moved, Flow!NoDoc, Flow!NoInvoice
  <2> HIDE DEF f, g
  <2>2. SumOf(Docs, f) = SumOf({}, f)
    BY <2>1, SumOfPositive
  <2>3. SumOf(Sold, g) = SumOf({}, g)
    BY <2>1, SumOfPositive
  <2>4. SumOf(Docs, f) + SumOf(Sold, g) = 0
    BY <2>2, <2>3, SumEmpty
  <2>5. SumOf(Docs, f) + SumOf(Sold, g) = Flow!SumOf(Docs, f) + Flow!SumOf(Sold, g)
    BY FlowSums
  <2>6. QED
    BY <1>1, <2>4, <2>5 DEF Flow!GoodsLeaveOnce, Flow!OutByPapers, f, g
<1>6. \A q \in Requests : Flow!CheckedJob(q)
  BY <1>1 DEF Flow!CheckedJob
<1>7. QED
  BY <1>3, <1>4, <1>5, <1>6 DEF Flow!IInv

LEMMA StepInv ==
  ASSUME Flow!IInv, Flow!DocumentFlowAssumption, NoOne \notin Requests, [Flow!Next]_(Flow!vars)
  PROVE  Flow!IInv'
<1>1. CASE UNCHANGED Flow!vars
  BY <1>1, StutterInv
<1>2. CASE Flow!Next
  <2>1. PICK q \in Requests :
          \/ Flow!Commit(q) \/ Flow!Rollback(q)
          \/ \E d \in Docs, kind \in Flow!Kinds, status \in {"DRAFT", "ISSUED"}, qty \in 1 .. MaxQty,
                source \in Docs \cup {NoOne} : Flow!Create(q, d, kind, status, qty, source)
          \/ \E d \in Docs, asked \in {"DRAFT", "ISSUED"}, qty \in 1 .. MaxQty :
               Flow!Update(q, d, asked, qty)
          \/ \E d \in Docs, asked \in Flow!Asked : Flow!UpdateStatus(q, d, asked)
          \/ \E d \in Docs, i \in Sold : Flow!ConvertToInvoice(q, d, i)
          \/ \E d, e \in Docs, target \in Flow!Kinds : Flow!Convert(q, d, target, e)
          \/ \E d \in Docs : Flow!ReverseInvoice(q, d)
          \/ \E d, e \in Docs : Flow!ReverseDocument(q, d, e)
          \/ \E d \in Docs : Flow!Remove(q, d)
          \/ \E i \in Sold, status \in {"CANCELLED", "removed"} : Flow!CloseInvoice(q, i, status)
    BY <1>2 DEF Flow!Next
  <2>2. CASE Flow!Commit(q)
    BY <2>2, CommitInv
  <2>3. CASE Flow!Rollback(q)
    BY <2>3, RollbackInv
  <2>4. CASE \E d \in Docs, kind \in Flow!Kinds, status \in {"DRAFT", "ISSUED"}, qty \in 1 .. MaxQty,
                source \in Docs \cup {NoOne} : Flow!Create(q, d, kind, status, qty, source)
    BY <2>4, CreateChecks
  <2>5. CASE \E d \in Docs, asked \in {"DRAFT", "ISSUED"}, qty \in 1 .. MaxQty :
               Flow!Update(q, d, asked, qty)
    BY <2>5, UpdateChecks
  <2>6. CASE \E d \in Docs, asked \in Flow!Asked : Flow!UpdateStatus(q, d, asked)
    BY <2>6, StatusChecks
  <2>7. CASE \E d \in Docs, i \in Sold : Flow!ConvertToInvoice(q, d, i)
    BY <2>7, InvoiceChecks
  <2>8. CASE \E d, e \in Docs, target \in Flow!Kinds : Flow!Convert(q, d, target, e)
    BY <2>8, ConvertChecks
  <2>9. CASE \E d \in Docs : Flow!ReverseInvoice(q, d)
    BY <2>9, ReverseInvoiceChecks
  <2>10. CASE \E d, e \in Docs : Flow!ReverseDocument(q, d, e)
    BY <2>10, ReverseDocumentChecks
  <2>11. CASE \E d \in Docs : Flow!Remove(q, d)
    BY <2>11, RemoveChecks
  <2>12. CASE \E i \in Sold, status \in {"CANCELLED", "removed"} : Flow!CloseInvoice(q, i, status)
    BY <2>12, CloseChecks
  <2>13. QED
    BY <2>1, <2>2, <2>3, <2>4, <2>5, <2>6, <2>7, <2>8, <2>9, <2>10, <2>11, <2>12
<1>3. QED
  BY <1>1, <1>2

\* What a request has checked holds until it commits, and the tables stay in order, for
\* any requests that create, edit, convert, undo, cancel and remove papers.
THEOREM FlowInvariance ==
  ASSUME Flow!DocumentFlowAssumption
  PROVE  Flow!Spec => []Flow!IInv
<1>1. Flow!Init => Flow!IInv
  BY FlowInitInv
<1>2. Flow!IInv /\ [Flow!Next]_(Flow!vars) => Flow!IInv'
  BY StepInv, NoOneAssumption
<1>3. QED
  BY <1>1, <1>2, PTL DEF Flow!Spec

LEMMA OnePaper ==
  ASSUME Flow!IInv, Flow!DocumentFlowAssumption, ~Linked
  PROVE  Flow!OnePaperPerSource
<1>1. SUFFICES ASSUME NEW d \in Docs
               PROVE  /\ Cardinality(Flow!Papers(d)) <= 1
                      /\ Flow!Papers(d) # {} => doc[d].status = "CONVERTED"
  BY Zenon DEF Flow!OnePaperPerSource, Flow!Cardinality, Cardinality
<1>2. NoOne \notin Docs \cup Sold /\ doc[d].converted \in Sold \cup {NoOne}
  BY DEF Flow!IInv, Flow!RowsOK, Flow!TypeOK, Flow!DocRow, Flow!DocumentFlowAssumption
<1>3. \A e \in Flow!MadeFrom(d) : /\ doc[d].status = "CONVERTED" /\ doc[d].converted = NoOne
                             /\ \A f \in Flow!MadeFrom(d) : f = e
  BY <1>2 DEF Flow!IInv, Flow!MadeOnce, Flow!MadeFrom
<1>4. \A i \in Flow!LiveInvoices(d) : i = doc[d].converted /\ doc[d].status = "CONVERTED" /\ i # NoOne
  BY <1>2 DEF Flow!IInv, Flow!DocOK, Flow!LiveInvoices
<1>5. Flow!Papers(d) # {} => doc[d].status = "CONVERTED"
  BY <1>3, <1>4 DEF Flow!Papers
<1>6. \A x, y \in Flow!Papers(d) : x = y
  BY <1>3, <1>4 DEF Flow!Papers
<1>7. Cardinality(Flow!Papers(d)) <= 1
  <2>1. CASE Flow!Papers(d) = {}
    <3>1. Cardinality(Flow!Papers(d)) = 0
      BY <2>1, FS_EmptySet
    <3>2. QED
      BY <3>1
  <2>2. CASE Flow!Papers(d) # {}
    <3>1. PICK x : Flow!Papers(d) = {x}
      BY <1>6, <2>2
    <3>2. Cardinality({x}) = 1
      BY FS_Singleton
    <3>3. QED
      BY <3>1, <3>2
  <2>3. QED
    BY <2>1, <2>2
<1>8. QED
  BY <1>5, <1>7

\* Every document and invoice keeps its type, and every row is locked by a request or free.
THEOREM PapersAreTyped ==
  ASSUME Flow!DocumentFlowAssumption
  PROVE  Flow!Spec => []Flow!TypeOK
<1>1. Flow!IInv => Flow!TypeOK
  BY DEF Flow!IInv, Flow!RowsOK
<1>2. QED
  BY <1>1, FlowInvariance, PTL

\* While clients name no source themselves, at most one paper in force was made from a
\* document, and then the document is CONVERTED.
THEOREM SourceIsConvertedOnce ==
  ASSUME Flow!DocumentFlowAssumption, ~Linked
  PROVE  Flow!Spec => []Flow!OnePaperPerSource
<1>1. Flow!IInv => Flow!OnePaperPerSource
  BY OnePaper
<1>2. QED
  BY <1>1, FlowInvariance, PTL

\* While no document is removed in the middle of another request, or one that clients
\* linked to, a document in force was not made from a deleted one.
THEOREM ConversionsUndoneFromTheEnd ==
  ASSUME Flow!DocumentFlowAssumption, Flow!LinksLast
  PROVE  Flow!Spec => []Flow!LaterConversionsFirst
<1>1. Flow!IInv => Flow!LaterConversionsFirst
  BY DEF Flow!IInv
<1>2. QED
  BY <1>1, FlowInvariance, PTL

\* While no document is removed in the middle of another request, the units that left are
\* those of the challans in force and of the invoices.
THEOREM GoodsLeaveByPapers ==
  ASSUME Flow!DocumentFlowAssumption, Flow!RemovesAlone
  PROVE  Flow!Spec => []Flow!GoodsLeaveOnce
<1>1. Flow!IInv => Flow!GoodsLeaveOnce
  BY DEF Flow!IInv
<1>2. QED
  BY <1>1, FlowInvariance, PTL

LEMMA ExactConversions ==
  ASSUME Flow!IInv, Flow!DocumentFlowAssumption, ~Linked, Flow!RemovesAlone
  PROVE  Flow!ConversionsAreExact
<1>1. Flow!LinksLast
  BY DEF Flow!LinksLast
<1>2. QED
  BY <1>1, OnePaper DEF Flow!IInv, Flow!ConversionsAreExact

\* Where both hold, conversions are exact: one paper in force for each source, undone from
\* the end of the chain.
THEOREM ConversionsStayExact ==
  ASSUME Flow!DocumentFlowAssumption, ~Linked, Flow!RemovesAlone
  PROVE  Flow!Spec => []Flow!ConversionsAreExact
<1>1. Flow!IInv => Flow!ConversionsAreExact
  BY ExactConversions
<1>2. QED
  BY <1>1, FlowInvariance, PTL
=============================================================================
