-------------------------- MODULE QueryListsProof ---------------------------
(***************************************************************************)
(* Theorems about QueryLists, for every set of keys and page sizes and     *)
(* every number of rows, readers' steps, insertions and deletions.         *)
(***************************************************************************)
EXTENDS QueryLists, FiniteSetTheorems, FunctionTheorems,
        SequenceTheorems, WellFoundedInduction, TLAPS

-----------------------------------------------------------------------------
(* Facts about the operators of the model                                  *)

\* A non-empty set of natural numbers has a least member.
LEMMA LeastIn ==
    ASSUME NEW T \in SUBSET Nat, T # {}
    PROVE  \E x \in T : \A y \in T : x <= y
<1>1. PICK x \in T : \A y \in T : ~(<<y, x>> \in OpToRel(<, Nat))
    BY WFMin, NatLessThanWellFounded
<1>2. \A y \in T : ~(y < x)
    BY <1>1 DEF OpToRel
<1>3. ASSUME NEW y \in T PROVE x <= y
  <2>1. x \in Nat /\ y \in Nat /\ ~(y < x)
      BY <1>2
  <2>2. QED
      BY <2>1
<1>4. QED
    BY <1>3

\* R orders the members of S strictly and totally.
Orders(R, S) ==
    /\ \A x \in S : <<x, x>> \notin R
    /\ \A x, y \in S : x # y => <<x, y>> \in R \/ <<y, x>> \in R
    /\ \A x, y, z \in S : <<x, y>> \in R /\ <<y, z>> \in R => <<x, z>> \in R

\* x comes after every other member of S.
IsLast(x, S, R) == x \in S /\ \A y \in S : y # x => <<y, x>> \in R

\* An ordered set that is finite and not empty has a last member: otherwise a
\* smallest set without one, less one of its members, would have none either.
LEMMA LastExists ==
    ASSUME NEW S, NEW R, IsFiniteSet(S), S # {}, Orders(R, S)
    PROVE  \E x \in S : IsLast(x, S, R)
<1> DEFINE Without(T) == T # {} /\ ~\E x \in T : IsLast(x, T, R)
           Sizes == {k \in Nat : \E T \in SUBSET S : Cardinality(T) = k /\ Without(T)}
<1>f. \A T \in SUBSET S : IsFiniteSet(T) /\ Cardinality(T) \in Nat
    BY FS_Subset, FS_CardinalityType
<1>1. ASSUME Sizes # {} PROVE FALSE
  <2>1. PICK k \in Sizes : \A y \in Sizes : k <= y
    <3>1. Sizes \in SUBSET Nat
        OBVIOUS
    <3> HIDE DEF Sizes
    <3>2. QED
        BY <1>1, <3>1, LeastIn
  <2>2. PICK T \in SUBSET S : Cardinality(T) = k /\ Without(T)
      OBVIOUS
  <2>3. PICK x \in T : TRUE
      BY <2>2
  <2> DEFINE U == T \ {x}
  <2>4. U \in SUBSET S /\ Cardinality(U) = k - 1 /\ k - 1 \in Nat
    <3>1. U \in SUBSET S
        OBVIOUS
    <3>2. Cardinality(U) = k - 1
        BY <1>f, <2>2, <2>3, FS_RemoveElement
    <3>3. QED
        BY <1>f, <3>1, <3>2
  <2>5. ~Without(U)
    <3>1. k \in Nat /\ k - 1 \notin Sizes
        BY <2>1, <2>4
    <3>2. QED
        BY <2>4, <3>1
  <2>6. CASE U = {}
    <3>1. IsLast(x, T, R)
        BY <2>3, <2>6 DEF IsLast
    <3>2. QED
        BY <2>2, <2>3, <3>1
  <2>7. CASE U # {}
    <3>1. PICK m \in U : IsLast(m, U, R)
        BY <2>5, <2>7
    <3>2. x \in S /\ m \in S /\ m # x /\ m \in T
        BY <2>2, <2>3
    <3>3. CASE <<m, x>> \in R
      <4>1. ASSUME NEW y \in T, y # x PROVE <<y, x>> \in R
        <5>1. y \in U /\ y \in S
            BY <4>1
        <5>2. CASE y = m
            BY <3>3, <5>2
        <5>3. CASE y # m
            BY <3>1, <3>2, <3>3, <5>1, <5>3 DEF IsLast, Orders
        <5>4. QED
            BY <5>2, <5>3
      <4>2. QED
          BY <2>2, <2>3, <4>1 DEF IsLast
    <3>4. CASE <<x, m>> \in R
      <4>1. \A y \in T : y # m => <<y, m>> \in R
          BY <3>1, <3>4 DEF IsLast
      <4>2. QED
          BY <2>2, <3>2, <4>1 DEF IsLast
    <3>5. QED
        BY <3>2, <3>3, <3>4 DEF Orders
  <2>8. QED
      BY <2>6, <2>7
<1>2. ~Without(S)
    BY <1>f, <1>1
<1>3. QED
    BY <1>2

\* q lists the members of S in the order R.
Lists(q, S, R) ==
    /\ q \in [1..Cardinality(S) -> S]
    /\ \A i, j \in 1..Cardinality(S) : i < j => <<q[i], q[j]>> \in R

\* Every ordered finite set can be listed: otherwise a smallest one that cannot,
\* less its last member, could not either.
LEMMA ListExists ==
    ASSUME NEW S, NEW R, IsFiniteSet(S), Orders(R, S)
    PROVE  \E q : Lists(q, S, R)
<1> DEFINE Without(T) == ~\E q : Lists(q, T, R)
           Sizes == {k \in Nat : \E T \in SUBSET S : Cardinality(T) = k /\ Without(T)}
<1>f. \A T \in SUBSET S : IsFiniteSet(T) /\ Cardinality(T) \in Nat /\ Orders(R, T)
  <2>1. \A T \in SUBSET S : IsFiniteSet(T) /\ Cardinality(T) \in Nat
      BY FS_Subset, FS_CardinalityType
  <2>2. \A T \in SUBSET S : Orders(R, T)
      BY DEF Orders
  <2>3. QED
      BY <2>1, <2>2
<1>1. ASSUME Sizes # {} PROVE FALSE
  <2>1. PICK k \in Sizes : \A y \in Sizes : k <= y
    <3>1. Sizes \in SUBSET Nat
        OBVIOUS
    <3> HIDE DEF Sizes
    <3>2. QED
        BY <1>1, <3>1, LeastIn
  <2>2. PICK T \in SUBSET S : Cardinality(T) = k /\ Without(T)
      OBVIOUS
  <2>3. T # {}
    <3>1. SUFFICES ASSUME T = {} PROVE FALSE
        OBVIOUS
    <3>2. Cardinality(T) = 0 /\ 1..0 = {}
        BY <3>1, FS_EmptySet
    <3>3. Lists([i \in {} |-> i], T, R)
        BY <3>2 DEF Lists
    <3>4. QED
        BY <2>2, <3>3
  <2>4. PICK m \in T : IsLast(m, T, R)
      BY <1>f, <2>3, LastExists
  <2> DEFINE U == T \ {m}
  <2>5. U \in SUBSET S /\ Cardinality(U) = k - 1 /\ k - 1 \in Nat
    <3>1. U \in SUBSET S
        OBVIOUS
    <3>2. Cardinality(U) = k - 1
        BY <1>f, <2>2, <2>4, FS_RemoveElement
    <3>3. QED
        BY <1>f, <3>1, <3>2
  <2>6. ~Without(U)
    <3>1. k \in Nat /\ k - 1 \notin Sizes
        BY <2>1, <2>5
    <3>2. QED
        BY <2>5, <3>1
  <2>7. PICK f : Lists(f, U, R)
      BY <2>6
  <2> DEFINE g == [i \in 1..k |-> IF i = k THEN m ELSE f[i]]
  <2>8. k \in Nat /\ \A i \in 1..k : i # k => i \in 1..k - 1
      BY <2>5
  <2>9. \A i \in 1..k - 1 : f[i] \in U
      BY <2>5, <2>7 DEF Lists
  <2>10. g \in [1..k -> T]
      BY <2>4, <2>8, <2>9
  <2>11. ASSUME NEW i \in 1..k, NEW j \in 1..k, i < j PROVE <<g[i], g[j]>> \in R
    <3>1. i \in 1..k - 1 /\ g[i] = f[i]
        BY <2>8, <2>11
    <3>2. f[i] \in T /\ f[i] # m
        BY <2>9, <3>1
    <3>3. CASE j = k
      <4>1. g[j] = m
          BY <3>3
      <4>2. QED
          BY <2>4, <3>1, <3>2, <4>1 DEF IsLast
    <3>4. CASE j # k
      <4>1. j \in 1..k - 1 /\ g[j] = f[j]
          BY <2>8, <3>4
      <4>2. QED
          BY <2>5, <2>7, <2>11, <3>1, <4>1 DEF Lists
    <3>5. QED
        BY <3>3, <3>4
  <2>12. Lists(g, T, R)
    <3> HIDE DEF g
    <3>1. QED
        BY <2>2, <2>10, <2>11 DEF Lists
  <2>13. QED
      BY <2>2, <2>12
<1>2. QED
    BY <1>f, <1>1

\* Listing lists the members of an ordered finite set.
LEMMA ListingLists ==
    ASSUME NEW S, NEW R, IsFiniteSet(S), Orders(R, S)
    PROVE  Lists(Listing(S, R), S, R)
<1>1. \E q \in [1..Cardinality(S) -> S] :
          \A i, j \in 1..Cardinality(S) : i < j => <<q[i], q[j]>> \in R
    BY ListExists DEF Lists
<1>2. QED
    BY <1>1 DEF Lists, Listing

\* A list shows every member of the set, at one place.
LEMMA ListsOnto ==
    ASSUME NEW S, NEW R, NEW q, IsFiniteSet(S), Orders(R, S), Lists(q, S, R)
    PROVE  /\ Cardinality(S) \in Nat
           /\ \A i, j \in 1..Cardinality(S) : q[i] = q[j] => i = j
           /\ \A x \in S : \E i \in 1..Cardinality(S) : q[i] = x
<1> DEFINE n == Cardinality(S)
<1>1. n \in Nat
    BY FS_CardinalityType
<1>2. q \in [1..n -> S] /\ \A i, j \in 1..n : i < j => <<q[i], q[j]>> \in R
    BY DEF Lists
<1> HIDE DEF n
<1>3. \A i, j \in 1..n : q[i] = q[j] => i = j
  <2>1. SUFFICES ASSUME NEW i \in 1..n, NEW j \in 1..n, q[i] = q[j], i # j PROVE FALSE
      OBVIOUS
  <2>2. q[i] \in S /\ <<q[i], q[i]>> \notin R
      BY <1>2 DEF Orders
  <2>3. i < j \/ j < i
      BY <1>1, <2>1
  <2>4. QED
      BY <1>2, <2>1, <2>2, <2>3
<1>4. q \in Injection(1..n, S)
    BY <1>2, <1>3, Fun_IsInj
<1>5. IsFiniteSet(1..n) /\ Cardinality(1..n) = n
    BY <1>1, FS_Interval
<1>6. q \in Surjection(1..n, S)
    BY <1>4, <1>5, FS_Injection DEF n
<1>7. QED
    BY <1>1, <1>3, <1>6 DEF Surjection, n

\* The place of a member in the list is the number of members before it, plus one.
LEMMA ListsRank ==
    ASSUME NEW S, NEW R, NEW q, IsFiniteSet(S), Orders(R, S), Lists(q, S, R),
           NEW i \in 1..Cardinality(S)
    PROVE  Cardinality({x \in S : <<x, q[i]>> \in R}) = i - 1
<1> DEFINE n == Cardinality(S)
           B == {x \in S : <<x, q[i]>> \in R}
           f == [j \in 1..i - 1 |-> q[j]]
<1>1. /\ n \in Nat /\ i \in 1..n /\ q \in [1..n -> S]
      /\ \A j, k \in 1..n : q[j] = q[k] => j = k
      /\ \A x \in S : \E j \in 1..n : q[j] = x
      /\ \A j, k \in 1..n : j < k => <<q[j], q[k]>> \in R
  <2>1. /\ n \in Nat
        /\ \A j, k \in 1..n : q[j] = q[k] => j = k
        /\ \A x \in S : \E j \in 1..n : q[j] = x
      BY ListsOnto
  <2>2. q \in [1..n -> S] /\ \A j, k \in 1..n : j < k => <<q[j], q[k]>> \in R
      BY DEF Lists
  <2>3. QED
      BY <2>1, <2>2
<1> HIDE DEF n
<1>2. \A j \in 1..i - 1 : j \in 1..n /\ j < i /\ q[j] \in B
    BY <1>1
<1>3. f \in [1..i - 1 -> B]
    BY <1>2
<1>4. \A j, k \in 1..i - 1 : f[j] = f[k] => j = k
    BY <1>1, <1>2
<1>5. ASSUME NEW x \in B PROVE \E j \in 1..i - 1 : f[j] = x
  <2>1. PICK j \in 1..n : q[j] = x
      BY <1>1
  <2>2. j # i
      BY <1>1, <2>1 DEF Orders
  <2>3. ~(i < j)
    <3>1. SUFFICES ASSUME i < j PROVE FALSE
        OBVIOUS
    <3>2. <<q[i], x>> \in R /\ <<x, q[i]>> \in R /\ q[i] \in S /\ x \in S
        BY <1>1, <2>1, <3>1
    <3>3. <<x, x>> \in R
        BY <3>2 DEF Orders
    <3>4. QED
        BY <3>2, <3>3 DEF Orders
  <2>4. j \in 1..i - 1
      BY <1>1, <2>2, <2>3
  <2>5. QED
      BY <2>1, <2>4
<1> HIDE DEF f, B
<1>6. f \in Bijection(1..i - 1, B)
    BY <1>3, <1>4, <1>5, Fun_IsBij
<1>7. i - 1 \in Nat
    BY <1>1
<1>8. QED
    BY <1>6, <1>7, FS_CountingElements DEF ExistsBijection, B

\* There is one way only to list an ordered set.
LEMMA ListsUnique ==
    ASSUME NEW S, NEW R, NEW q, NEW r, IsFiniteSet(S), Orders(R, S),
           Lists(q, S, R), Lists(r, S, R)
    PROVE  q = r
<1> DEFINE n == Cardinality(S)
<1>1. n \in Nat /\ q \in [1..n -> S] /\ r \in [1..n -> S]
    BY ListsOnto DEF Lists
<1>2. ASSUME NEW i \in 1..n PROVE q[i] = r[i]
  <2>1. PICK j \in 1..n : r[j] = q[i]
    <3>1. q[i] \in S
        BY <1>1
    <3>2. QED
        BY <3>1, ListsOnto
  <2>2. Cardinality({x \in S : <<x, q[i]>> \in R}) = i - 1
      BY ListsRank
  <2>3. Cardinality({x \in S : <<x, r[j]>> \in R}) = j - 1
      BY ListsRank
  <2>4. i = j
      BY <1>1, <2>1, <2>2, <2>3
  <2>5. QED
      BY <2>1, <2>4
<1> HIDE DEF n
<1>3. QED
    BY <1>1, <1>2

-----------------------------------------------------------------------------
(* The rows and the order of a query                                       *)

\* What a query is asked with.
Params == [order : {"asc", "desc"}, page_num : Nat \ {0}, page_size : PageSizes,
           key : Keys \cup {None}, like : BOOLEAN,
           before : 0..MaxTime, after : 0..MaxTime, cursor : 0..MaxId,
           direction : {"next", "prev"}, total : -1..MaxId]

\* No two rows have one id, and no query has an id that was not given out.
RowsOK ==
    /\ table \in {"domain", "client"}
    /\ rows \subseteq Row
    /\ now \in 1..MaxTime
    /\ last_id \in 0..MaxId
    /\ \A r, s \in rows : r.id = s.id => r = s
    /\ table = "domain" => \A r \in rows : r.id <= last_id

\* There are no more rows than ids.
LEMMA RowsFinite ==
    ASSUME RowsOK, NEW T \in SUBSET rows
    PROVE  IsFiniteSet(T) /\ Cardinality(T) \in 0..MaxId
<1> DEFINE f == [r \in T |-> r.id]
<1>1. f \in [T -> 1..MaxId] /\ \A r, s \in T : f[r] = f[s] => r = s
    BY DEF RowsOK, Row
<1>2. f \in Injection(T, 1..MaxId)
  <2> HIDE DEF f
  <2>1. QED
      BY <1>1, Fun_IsInj
<1>3. IsFiniteSet(1..MaxId) /\ Cardinality(1..MaxId) = MaxId
    BY ListsAssumption, FS_Interval
<1>4. IsFiniteSet(T) /\ Cardinality(T) <= MaxId
    BY <1>2, <1>3, FS_Injection
<1>5. QED
    BY <1>4, FS_CardinalityType, ListsAssumption

\* MaxOf finds the largest id.
LEMMA MaxOfIds ==
    ASSUME NEW R \in SUBSET Row
    PROVE  /\ MaxOf(Ids(R)) \in 0..MaxId
           /\ \A r \in R : r.id <= MaxOf(Ids(R))
           /\ MaxOf(Ids(R)) = 0 \/ \E r \in R : r.id = MaxOf(Ids(R))
<1> DEFINE I == Ids(R)
<1>1. I \subseteq 1..MaxId /\ (\A r \in R : r.id \in I) /\ \A i \in I : \E r \in R : r.id = i
    BY DEF Row, Ids
<1>2. CASE I = {}
    BY <1>1, <1>2, ListsAssumption DEF MaxOf
<1>3. CASE I # {}
  <2> DEFINE T == {MaxId - i : i \in I}
  <2>1. T \in SUBSET Nat /\ T # {}
    <3>1. \A i \in I : MaxId - i \in Nat
        BY <1>1, ListsAssumption
    <3>2. QED
        BY <1>3, <3>1
  <2>2. PICK x \in T : \A y \in T : x <= y
    <3> HIDE DEF T
    <3>1. QED
        BY <2>1, LeastIn
  <2>3. PICK m \in I : x = MaxId - m
      OBVIOUS
  <2> HIDE DEF I
  <2>4. \A i \in I : m >= i
    <3>1. SUFFICES ASSUME NEW i \in I PROVE m >= i
        OBVIOUS
    <3>2. MaxId - m <= MaxId - i
        BY <2>2, <2>3
    <3>3. QED
        BY <1>1, <3>2, ListsAssumption
  <2>5. Max(I) \in I /\ \A i \in I : Max(I) >= i
      BY <2>4 DEF Max
  <2>6. MaxOf(I) = Max(I)
      BY <1>3 DEF MaxOf
  <2>7. MaxOf(I) \in I /\ MaxOf(I) \in 1..MaxId /\ \A i \in I : i <= MaxOf(I)
      BY <1>1, <2>5, <2>6, ListsAssumption
  <2> QED
      BY <1>1, <2>7 DEF I
<1>4. QED
    BY <1>2, <1>3

\* The pairs of rows that ORDER BY puts one before the other.
OrderPairs(p) == {w \in rows \X rows : OrderBy(p, w[1], w[2])}

\* ORDER BY leaves no two rows in either order.
LEMMA OrdersRows ==
    ASSUME RowsOK, NEW p, NEW T \in SUBSET rows
    PROVE  Orders(OrderPairs(p), T)
<1>1. \A r \in T : r \in rows /\ r.id \in Nat /\ r.ts \in Nat
    BY DEF RowsOK, Row
<1>2. \A x, y \in T : x # y => x.id # y.id
    BY DEF RowsOK
<1>3. \A x, y \in T : <<x, y>> \in OrderPairs(p) <=> OrderBy(p, x, y)
    BY <1>1 DEF OrderPairs
<1>4. \A x \in T : ~OrderBy(p, x, x)
    BY <1>1 DEF OrderBy, Less
<1>5. \A x, y \in T : x # y => OrderBy(p, x, y) \/ OrderBy(p, y, x)
    BY <1>1, <1>2 DEF OrderBy, Less
<1>6. \A x, y, z \in T : OrderBy(p, x, y) /\ OrderBy(p, y, z) => OrderBy(p, x, z)
    BY <1>1 DEF OrderBy, Less
<1>7. QED
    BY <1>3, <1>4, <1>5, <1>6 DEF Orders

\* A query finds its rows in their order.
LEMMA SortedLists ==
    ASSUME RowsOK, NEW p
    PROVE  /\ Selected(p) \in SUBSET rows
           /\ IsFiniteSet(Selected(p)) /\ Cardinality(Selected(p)) \in Nat
           /\ Orders(OrderPairs(p), Selected(p))
           /\ Lists(Sorted(p), Selected(p), OrderPairs(p))
<1>1. Selected(p) \in SUBSET rows
    BY DEF Selected
<1>2. /\ IsFiniteSet(Selected(p)) /\ Cardinality(Selected(p)) \in Nat
      /\ Orders(OrderPairs(p), Selected(p))
    BY <1>1, RowsFinite, OrdersRows, ListsAssumption
<1>3. Sorted(p) = Listing(Selected(p), OrderPairs(p))
    BY DEF Sorted, OrderPairs
<1>4. QED
    BY <1>1, <1>2, <1>3, ListingLists

\* The smaller of two numbers.
LEMMA MinOfTwo ==
    ASSUME NEW a \in Nat, NEW b \in Nat
    PROVE  Min({a, b}) = IF a <= b THEN a ELSE b
<1>1. \E x \in {a, b} : \A y \in {a, b} : x <= y
    OBVIOUS
<1>2. Min({a, b}) \in {a, b} /\ \A y \in {a, b} : Min({a, b}) <= y
    BY <1>1 DEF Min
<1>3. QED
    BY <1>2

\* How many rows of the n found OFFSET and LIMIT leave.
Fill(n, o, size) == IF n <= o THEN 0 ELSE IF n <= o + size THEN n - o ELSE size

\* OFFSET and LIMIT leave the rows from one place on, as many as asked for if
\* there are as many.
LEMMA LimitedPlaces ==
    ASSUME RowsOK, NEW p \in Params
    PROVE  LET n == Cardinality(Selected(p))
           IN  /\ Offset(p) \in Nat
               /\ Limited(p) \in Seq(Selected(p))
               /\ Len(Limited(p)) = Fill(n, Offset(p), p.page_size)
               /\ \A i \in 1..Len(Limited(p)) : /\ Offset(p) + i \in 1..n
                                                /\ Limited(p)[i] = Sorted(p)[Offset(p) + i]
<1> DEFINE n == Cardinality(Selected(p))
           o == Offset(p)
           m == Min({n, o + p.page_size})
           q == Sorted(p)
<1>1. n \in Nat /\ q \in [1..n -> Selected(p)]
    BY SortedLists DEF Lists
<1>2. p.page_size \in Nat \ {0} /\ p.page_num \in Nat \ {0}
    BY ListsAssumption DEF Params
<1>3. o \in Nat
    BY <1>2 DEF Offset
<1>4. q \in Seq(Selected(p)) /\ Len(q) = n
    BY <1>1, SeqDef
<1>5. m = IF n <= o + p.page_size THEN n ELSE o + p.page_size
    BY <1>1, <1>2, <1>3, MinOfTwo
<1>6. Limited(p) = SubSeq(q, o + 1, m)
    BY <1>4 DEF Limited
<1> HIDE DEF n, o, m, q
<1>7. SubSeq(q, o + 1, m) = [i \in 1..(m - o) |-> q[o + i]]
  <2>1. SubSeq(q, o + 1, m) = [i \in 1..(1 + m - (o + 1)) |-> q[i + (o + 1) - 1]]
      BY <1>1, <1>2, <1>3, <1>4, <1>5
  <2>2. m \in Int /\ o \in Int
      BY <1>1, <1>2, <1>3, <1>5
  <2>3. 1..(1 + m - (o + 1)) = 1..(m - o)
      BY <2>2
  <2>4. \A i \in 1..(m - o) : i + (o + 1) - 1 = o + i
      BY <2>2
  <2>5. QED
      BY <2>1, <2>3, <2>4
<1>8. \A i \in 1..(m - o) : o + i \in 1..n /\ q[o + i] \in Selected(p)
    BY <1>1, <1>2, <1>3, <1>5
<1>9. 1..(m - o) = 1..Fill(n, o, p.page_size) /\ Fill(n, o, p.page_size) \in Nat
    BY <1>1, <1>2, <1>3, <1>5 DEF Fill
<1>10. Limited(p) \in [1..Fill(n, o, p.page_size) -> Selected(p)]
    BY <1>6, <1>7, <1>8, <1>9
<1>11. Limited(p) \in Seq(Selected(p)) /\ Len(Limited(p)) = Fill(n, o, p.page_size)
    BY <1>9, <1>10, SeqDef
<1>12. \A i \in 1..Len(Limited(p)) : o + i \in 1..n /\ Limited(p)[i] = q[o + i]
    BY <1>6, <1>7, <1>8, <1>9, <1>11
<1>13. QED
    BY <1>3, <1>11, <1>12 DEF n, o, q

\* A page shows rows that were found, none twice and no more than were asked for.
LEMMA GetListRows ==
    ASSUME RowsOK, NEW p \in Params
    PROVE  LET q == GetList(p)
           IN  /\ q \in Seq(Selected(p)) /\ q \in Seq(Row)
               /\ Len(q) = Len(Limited(p)) /\ Len(q) <= p.page_size
               /\ \A i \in DOMAIN q : q[i] \in Selected(p) /\ q[i] \in rows
               /\ \A i \in DOMAIN q : \E j \in DOMAIN Limited(p) : q[i] = Limited(p)[j]
               /\ \A j \in DOMAIN Limited(p) : \E i \in DOMAIN q : q[i] = Limited(p)[j]
<1> DEFINE l == Limited(p)
           n == Len(l)
           q == GetList(p)
<1>1. l \in Seq(Selected(p)) /\ n \in Nat /\ DOMAIN l = 1..n /\ l \in [1..n -> Selected(p)]
    BY LimitedPlaces
<1>2. n <= p.page_size
  <2>1. /\ Cardinality(Selected(p)) \in Nat /\ Offset(p) \in Nat
        /\ n = Fill(Cardinality(Selected(p)), Offset(p), p.page_size)
      BY LimitedPlaces, SortedLists
  <2>2. p.page_size \in Nat
      BY ListsAssumption DEF Params
  <2>3. QED
      BY <2>1, <2>2 DEF Fill
<1>3. Selected(p) \subseteq rows /\ rows \subseteq Row
    BY SortedLists DEF RowsOK
<1>4. q = l \/ q = [i \in 1..n |-> l[n - i + 1]]
    BY DEF GetList, Reverse
<1> HIDE DEF l, n, q
<1>5. \A i \in 1..n : n - i + 1 \in 1..n /\ n - (n - i + 1) + 1 = i
    BY <1>1
<1>6. q \in [1..n -> Selected(p)]
    BY <1>1, <1>4, <1>5
<1>7. q \in Seq(Selected(p)) /\ Len(q) = n /\ DOMAIN q = 1..n
    BY <1>1, <1>6, SeqDef
<1>8. q \in Seq(Row)
  <2>1. q \in [1..n -> Row]
      BY <1>3, <1>6
  <2>2. QED
      BY <1>1, <2>1, SeqDef
<1>9. \A i \in 1..n : q[i] \in Selected(p) /\ q[i] \in rows
    BY <1>3, <1>6
<1>10. /\ \A i \in 1..n : \E j \in 1..n : q[i] = l[j]
       /\ \A j \in 1..n : \E i \in 1..n : q[i] = l[j]
  <2>1. CASE q = l
      BY <2>1
  <2>2. CASE q = [i \in 1..n |-> l[n - i + 1]]
    <3>1. \A i \in 1..n : q[i] = l[n - i + 1]
        BY <2>2
    <3>2. \A j \in 1..n : q[n - j + 1] = l[j]
        BY <1>5, <3>1
    <3>3. QED
        BY <1>5, <3>1, <3>2
  <2>3. QED
      BY <1>4, <2>1, <2>2
<1>11. QED
    BY <1>1, <1>2, <1>7, <1>8, <1>9, <1>10 DEF l, n, q

\* A page shows no row at two of its places.
LEMMA GetListOnce ==
    ASSUME RowsOK, NEW p \in Params
    PROVE  \A i, j \in DOMAIN GetList(p) : GetList(p)[i] = GetList(p)[j] => i = j
<1> DEFINE l == Limited(p)
           n == Len(l)
           q == GetList(p)
           o == Offset(p)
           s == Sorted(p)
           c == Cardinality(Selected(p))
<1>1. n \in Nat /\ DOMAIN l = 1..n /\ o \in Nat
    BY LimitedPlaces
<1>2. \A i \in 1..n : o + i \in 1..c /\ l[i] = s[o + i]
    BY LimitedPlaces
<1>3. \A i, j \in 1..c : s[i] = s[j] => i = j
  <2>1. /\ IsFiniteSet(Selected(p)) /\ Orders(OrderPairs(p), Selected(p))
        /\ Lists(Sorted(p), Selected(p), OrderPairs(p))
      BY SortedLists
  <2>2. QED
      BY <2>1, ListsOnto
<1>4. q = l \/ q = [i \in 1..n |-> l[n - i + 1]]
    BY DEF GetList, Reverse
<1> HIDE DEF l, n, q, o, s, c
<1>5. \A i, j \in 1..n : l[i] = l[j] => i = j
  <2>1. SUFFICES ASSUME NEW i \in 1..n, NEW j \in 1..n, l[i] = l[j] PROVE i = j
      OBVIOUS
  <2>2. o + i = o + j
      BY <1>2, <1>3, <2>1
  <2>3. QED
      BY <1>1, <2>2
<1>6. DOMAIN q = 1..n /\ \A i, j \in 1..n : q[i] = q[j] => i = j
  <2>1. CASE q = l
      BY <1>1, <1>5, <2>1
  <2>2. CASE q = [i \in 1..n |-> l[n - i + 1]]
    <3>1. DOMAIN q = 1..n
        BY <2>2
    <3>2. ASSUME NEW i \in 1..n, NEW j \in 1..n, q[i] = q[j] PROVE i = j
      <4>1. n - i + 1 \in 1..n /\ n - j + 1 \in 1..n
          BY <1>1
      <4>2. l[n - i + 1] = l[n - j + 1]
          BY <2>2, <3>2
      <4>3. n - i + 1 = n - j + 1
          BY <1>5, <4>1, <4>2
      <4>4. QED
          BY <1>1, <4>3
    <3>3. QED
        BY <3>1, <3>2
  <2>3. QED
      BY <1>4, <2>1, <2>2
<1>7. QED
    BY <1>6 DEF q

-----------------------------------------------------------------------------
(* The inductive invariant                                                 *)

ReaderOK ==
    /\ browse \in [pc : {"idle", "count", "shown"}, page : Seq(Row),
                   seen : SUBSET (1..MaxId), watched : SUBSET Ids(rows),
                   twice : BOOLEAN, ordered : BOOLEAN, top_deleted : BOOLEAN,
                   p : Params]
    /\ browse.p.page_num = 1
    /\ Len(browse.page) <= browse.p.page_size

\* The row that has the id of a row of the page is that row still: its id was not
\* given out again.
PageOK ==
    /\ \A i \in DOMAIN browse.page :
          /\ table = "domain" => browse.page[i].id <= last_id
          /\ table = "client" /\ ~browse.top_deleted => browse.page[i].id <= MaxOf(Ids(rows))
    /\ table = "domain" \/ ~browse.top_deleted =>
          \A r \in rows, i \in DOMAIN browse.page :
              r.id = browse.page[i].id => r.key = browse.page[i].key

\* The pages follow the ids.
Followed == Supported(browse.p) /\ (browse.ordered \/ ~OrderedByTime(browse.p))

\* What was seen ends with the last row of the page; what is watched and not yet
\* seen comes after it, and the page is full.
SeenOK ==
    /\ browse.p.direction = "prev" =>
          browse.seen = {} /\ browse.watched = {} /\ ~browse.twice
    /\ Followed =>
          /\ ~browse.twice
          /\ browse.page # << >> =>
                \A i \in browse.seen : \/ i = Last(browse.page).id
                                       \/ InOrder(browse.p, i, Last(browse.page).id)
          /\ \A w \in browse.watched \ browse.seen :
                /\ browse.page # << >>
                /\ Len(browse.page) = browse.p.page_size
                /\ InOrder(browse.p, Last(browse.page).id, w)
          /\ \A r \in rows : r.id \in browse.watched => Matches(browse.p, r)

ListsInv == RowsOK /\ ReaderOK /\ PageOK /\ SeenOK

-----------------------------------------------------------------------------
(* The pages and the ids                                                   *)

\* The order of a query that follows the cursor is that of the ids, turned round
\* for the page before; that of the first page is, when the times agree with it.
LEMMA OrderIsById ==
    ASSUME RowsOK, NEW p \in Params, Supported(p),
           \/ p.cursor # None
           \/ p.direction = "next" /\ p.total = -1 /\ (Ordered(rows) \/ ~OrderedByTime(p)),
           NEW a \in rows, NEW b \in rows
    PROVE  /\ p.direction = "next" => (OrderBy(p, a, b) <=> InOrder(p, a.id, b.id))
           /\ p.direction = "prev" => (OrderBy(p, a, b) <=> InOrder(p, b.id, a.id))
<1>1. /\ a.id \in Nat /\ b.id \in Nat /\ a.ts \in Nat /\ b.ts \in Nat
      /\ a.id = b.id => a = b
    BY DEF RowsOK, Row
<1>2. p.direction \in {"next", "prev"} /\ p.order \in {"asc", "desc"} /\ table \in {"domain", "client"}
    BY DEF RowsOK, Params
<1>3. Less(p, a, b) <=> a.id < b.id
  <2>1. CASE ~OrderTimestampFirst(p)
      BY <2>1 DEF Less
  <2>2. CASE OrderTimestampFirst(p)
    <3>1. Ordered(rows)
        BY <2>2 DEF OrderTimestampFirst, OrderedByTime
    <3>2. (a.id < b.id => a.ts <= b.ts) /\ (b.id < a.id => b.ts <= a.ts)
        BY <3>1 DEF Ordered
    <3>3. QED
        BY <1>1, <3>2 DEF Less
  <2>3. QED
      BY <2>1, <2>2
<1>4. Less(p, b, a) <=> b.id < a.id
  <2>1. CASE ~OrderTimestampFirst(p)
      BY <2>1 DEF Less
  <2>2. CASE OrderTimestampFirst(p)
    <3>1. Ordered(rows)
        BY <2>2 DEF OrderTimestampFirst, OrderedByTime
    <3>2. (a.id < b.id => a.ts <= b.ts) /\ (b.id < a.id => b.ts <= a.ts)
        BY <3>1 DEF Ordered
    <3>3. QED
        BY <1>1, <3>2 DEF Less
  <2>3. QED
      BY <2>1, <2>2
<1>5. p.direction = "next" => (OrderDesc(p) <=> p.order = "desc")
    BY <1>2 DEF OrderDesc, DescOrder, Asc, Supported
<1>6. p.direction = "prev" => (OrderDesc(p) <=> p.order = "asc")
    BY <1>2 DEF OrderDesc, DescOrder, Asc, Supported, HasCursor
<1>7. QED
    BY <1>1, <1>2, <1>3, <1>4, <1>5, <1>6 DEF OrderBy, InOrder

\* The cursor id takes the place of the bound it stands for.
LEMMA CursorBounds ==
    ASSUME RowsOK, NEW p \in Params, Supported(p), p.cursor # None, NEW r \in rows
    PROVE  /\ p.direction = "next" =>
                 /\ Where(p, r) => InOrder(p, p.cursor, r.id)
                 /\ Matches(p, r) /\ InOrder(p, p.cursor, r.id) => Where(p, r)
           /\ p.direction = "prev" =>
                 /\ Where(p, r) => InOrder(p, r.id, p.cursor)
                 /\ Matches(p, r) /\ InOrder(p, r.id, p.cursor) => Where(p, r)
<1>1. r.id \in Nat /\ r.ts \in Nat /\ p.cursor \in Nat
    BY ListsAssumption DEF RowsOK, Row, Params
<1>2. p.order \in {"asc", "desc"} /\ table \in {"domain", "client"}
    BY DEF RowsOK, Params
<1>3. ASSUME p.direction = "next"
      PROVE  /\ p.order = "desc" => IdBelow(p) /\ ~IdAbove(p)
             /\ p.order = "asc" => IdAbove(p) /\ ~IdBelow(p)
    BY <1>2, <1>3 DEF Supported, IdBelow, IdAbove, BeforeByCursor, AfterByCursor,
                      CursorAlone, Asc, DescOrder, HasCursor
<1>4. ASSUME p.direction = "prev"
      PROVE  /\ p.order = "desc" => IdAbove(p) /\ ~IdBelow(p)
             /\ p.order = "asc" => IdBelow(p) /\ ~IdAbove(p)
    BY <1>2, <1>4 DEF Supported, IdBelow, IdAbove, BeforeByCursor, AfterByCursor,
                      CursorAlone, Asc, DescOrder, HasCursor
<1>5. CASE p.direction = "next"
    BY <1>1, <1>2, <1>3, <1>5 DEF Where, Matches, InOrder
<1>6. CASE p.direction = "prev"
    BY <1>1, <1>2, <1>4, <1>6 DEF Where, Matches, InOrder
<1>7. QED
    BY <1>5, <1>6

\* Without a cursor the time bounds are as they were given.
LEMMA FirstBounds ==
    ASSUME NEW p, p.cursor = None, NEW r
    PROVE  Where(p, r) <=> Matches(p, r)
BY DEF Where, Matches, IdBelow, IdAbove, BeforeByCursor, AfterByCursor, CursorAlone

\* A page that is read forward in the order of the ids ends before every row
\* that was found and is not on it, and is full when there is such a row.
LEMMA PageEnds ==
    ASSUME RowsOK, NEW p \in Params, p.direction = "next", Offset(p) = 0,
           \A a, b \in rows : OrderBy(p, a, b) <=> InOrder(p, a.id, b.id)
    PROVE  LET q == GetList(p)
           IN  /\ \A i, j \in DOMAIN q : i < j => InOrder(p, q[i].id, q[j].id)
               /\ q # << >> =>
                     \A i \in Ids(Range(q)) : i = Last(q).id \/ InOrder(p, i, Last(q).id)
               /\ \A r \in Selected(p) : r.id \notin Ids(Range(q)) =>
                     /\ q # << >> /\ Len(q) = p.page_size
                     /\ InOrder(p, Last(q).id, r.id)
<1> DEFINE S == Selected(p)
           n == Cardinality(S)
           q == GetList(p)
           k == Len(q)
           s == Sorted(p)
<1>1. q = Limited(p)
    BY DEF GetList
<1>2. /\ S \subseteq rows /\ n \in Nat /\ s \in [1..n -> S]
      /\ \A i, j \in 1..n : i < j => OrderBy(p, s[i], s[j])
      /\ \A r \in S : \E i \in 1..n : s[i] = r
  <2>1. S \in SUBSET rows /\ n \in Nat /\ Lists(s, S, OrderPairs(p))
      BY SortedLists
  <2>2. \A r \in S : \E i \in 1..n : s[i] = r
      BY SortedLists, ListsOnto
  <2>3. s \in [1..n -> S] /\ \A i, j \in 1..n : i < j => <<s[i], s[j]>> \in OrderPairs(p)
      BY <2>1 DEF Lists
  <2>4. \A i, j \in 1..n : i < j => OrderBy(p, s[i], s[j])
    <3> HIDE DEF s, n
    <3>1. QED
        BY <2>3 DEF OrderPairs
  <2>5. QED
      BY <2>1, <2>2, <2>3, <2>4
<1>3. p.page_size \in Nat \ {0}
    BY ListsAssumption DEF Params
<1>4. /\ k \in Nat /\ DOMAIN q = 1..k /\ q \in Seq(S)
      /\ k = IF n <= p.page_size THEN n ELSE p.page_size
      /\ \A i \in 1..k : i \in 1..n /\ q[i] = s[i]
  <2>1. /\ Limited(p) \in Seq(S) /\ k = Fill(n, 0, p.page_size)
        /\ \A i \in 1..k : 0 + i \in 1..n /\ q[i] = s[0 + i]
      BY <1>1, LimitedPlaces
  <2>2. \A i \in 1..k : 0 + i = i
      OBVIOUS
  <2>3. k = IF n <= p.page_size THEN n ELSE p.page_size
      BY <1>2, <1>3, <2>1 DEF Fill
  <2>4. QED
      BY <1>1, <2>1, <2>2, <2>3
<1> HIDE DEF S, n, q, k, s
<1>5. \A i, j \in 1..n : i < j => InOrder(p, s[i].id, s[j].id)
  <2>1. \A i \in 1..n : s[i] \in rows
      BY <1>2
  <2>2. QED
      BY <1>2, <2>1
<1>6. \A i, j \in DOMAIN q : i < j => InOrder(p, q[i].id, q[j].id)
    BY <1>4, <1>5
<1>7. q # << >> => k \in 1..k /\ Last(q) = q[k]
    BY <1>4 DEF Last, k
<1>8. ASSUME q # << >>, NEW i \in Ids(Range(q))
      PROVE  i = Last(q).id \/ InOrder(p, i, Last(q).id)
  <2>1. PICK j \in 1..k : i = q[j].id
      BY <1>4, <1>8 DEF Ids, Range
  <2>2. j = k \/ j < k
      BY <1>4
  <2>3. QED
      BY <1>4, <1>6, <1>7, <1>8, <2>1, <2>2
<1>9. ASSUME NEW r \in S, r.id \notin Ids(Range(q))
      PROVE  q # << >> /\ k = p.page_size /\ InOrder(p, Last(q).id, r.id)
  <2>1. PICK i \in 1..n : s[i] = r
      BY <1>2
  <2>2. i \notin 1..k
    <3>1. SUFFICES ASSUME i \in 1..k PROVE FALSE
        OBVIOUS
    <3>2. i \in DOMAIN q /\ q[i] = r
        BY <1>4, <2>1, <3>1
    <3>3. QED
        BY <1>9, <3>2 DEF Ids, Range
  <2>3. k = p.page_size /\ k < i /\ k \in 1..k
      BY <1>2, <1>3, <1>4, <2>2
  <2>4. q # << >>
      BY <1>4, <2>3
  <2>5. q[k] = s[k] /\ k \in 1..n
      BY <1>4, <2>3
  <2>6. QED
      BY <1>5, <1>7, <2>1, <2>3, <2>4, <2>5
<1>10. QED
    BY <1>6, <1>8, <1>9 DEF S, q, k

-----------------------------------------------------------------------------
(* The writers                                                             *)

\* A write that changes no row that stays watched leaves the reader as it is.
LEMMA WrittenKeeps ==
    ASSUME ListsInv, UNCHANGED table,
           NEW W \in SUBSET browse.watched, NEW t \in BOOLEAN,
           browse' = [browse EXCEPT !.watched = W, !.top_deleted = t],
           W \subseteq Ids(rows'), \A r \in rows' : r.id \in W => r \in rows
    PROVE  ReaderOK' /\ SeenOK'
<1>1. /\ browse'.p = browse.p /\ browse'.page = browse.page /\ browse'.seen = browse.seen
      /\ browse'.twice = browse.twice /\ browse'.ordered = browse.ordered
      /\ browse'.watched = W
    BY DEF ListsInv, ReaderOK
<1>2. ReaderOK'
    BY <1>1 DEF ListsInv, ReaderOK
<1>3. Followed' <=> Followed
    BY <1>1 DEF Followed, Supported, OrderedByTime
<1>4. \A r \in rows' : Matches(browse.p, r)' <=> Matches(browse.p, r)
    BY <1>1 DEF Matches
<1>5. SeenOK'
  <2>1. browse'.p.direction = "prev" =>
            browse'.seen = {} /\ browse'.watched = {} /\ ~browse'.twice
      BY <1>1 DEF ListsInv, SeenOK
  <2>2. ASSUME Followed
        PROVE  /\ ~browse'.twice
               /\ browse'.page # << >> =>
                     \A i \in browse'.seen : \/ i = Last(browse'.page).id
                                             \/ InOrder(browse'.p, i, Last(browse'.page).id)
               /\ \A w \in browse'.watched \ browse'.seen :
                     /\ browse'.page # << >>
                     /\ Len(browse'.page) = browse'.p.page_size
                     /\ InOrder(browse'.p, Last(browse'.page).id, w)
               /\ \A r \in rows' : r.id \in browse'.watched => Matches(browse'.p, r)
      BY <1>1, <2>2 DEF ListsInv, SeenOK
  <2>3. QED
      BY <1>3, <2>1, <2>2 DEF SeenOK
<1>6. QED
    BY <1>2, <1>5

\* A new row takes an id that no row has.
LEMMA NewIdIsNew ==
    ASSUME RowsOK
    PROVE  /\ NewId \in Nat \ {0} /\ \A r \in rows : r.id < NewId
           /\ table = "domain" => NewId = last_id + 1
           /\ table = "client" => NewId = MaxOf(Ids(rows)) + 1
<1>1. MaxOf(Ids(rows)) \in Nat /\ \A r \in rows : r.id <= MaxOf(Ids(rows))
    BY MaxOfIds, ListsAssumption DEF RowsOK
<1>2. \A r \in rows : r.id \in Nat
    BY DEF RowsOK, Row
<1>3. QED
    BY <1>1, <1>2 DEF RowsOK, NewId

\* insert_domain and insert_client keep the invariant.
LEMMA InsertKeepsInv ==
    ASSUME ListsInv, NEW key \in Keys, NEW ts \in 1..MaxTime, Insert(key, ts)
    PROVE  ListsInv'
<1> DEFINE known == {r \in rows : table = "client" /\ r.key = key}
           W == browse.watched \ Ids(known)
<1>r. RowsOK /\ ReaderOK /\ PageOK
    BY DEF ListsInv
<1>0. /\ browse' = [browse EXCEPT !.watched = W, !.top_deleted = browse.top_deleted]
      /\ UNCHANGED <<table, now>> /\ browse.top_deleted \in BOOLEAN
      /\ browse'.page = browse.page /\ browse'.top_deleted = browse.top_deleted
    BY <1>r DEF Insert, ReaderOK
<1>1. CASE known = {}
  <2> DEFINE new == [id |-> NewId, ts |-> ts, key |-> key]
  <2>1. NewId <= MaxId /\ rows' = rows \cup {new} /\ last_id' = NewId /\ W = browse.watched
      BY <1>1 DEF Insert, Ids
  <2>2. /\ NewId \in 1..MaxId /\ \A r \in rows : r.id < NewId /\ r.id # NewId
        /\ last_id \in Nat /\ (table = "domain" => NewId = last_id + 1)
        /\ table = "client" => NewId = MaxOf(Ids(rows)) + 1
    <3>1. NewId \in Nat \ {0} /\ \A r \in rows : r.id < NewId /\ r.id \in Nat
        BY <1>r, NewIdIsNew DEF RowsOK, Row
    <3>2. QED
        BY <1>r, <2>1, <3>1, NewIdIsNew, ListsAssumption DEF RowsOK
  <2>3. RowsOK'
    <3>1. new \in Row /\ new.id = NewId
        BY <2>2 DEF Row
    <3> HIDE DEF new
    <3>2. \A r, s \in rows' : r.id = s.id => r = s
        BY <1>r, <2>1, <2>2, <3>1 DEF RowsOK
    <3>3. table = "domain" => \A r \in rows' : r.id <= last_id'
      <4>1. \A r \in rows : r.id \in Nat /\ r.id <= NewId
          BY <1>r, <2>2 DEF RowsOK, Row
      <4>2. QED
          BY <2>1, <2>2, <3>1, <4>1
    <3>4. QED
        BY <1>r, <1>0, <2>1, <2>2, <3>1, <3>2, <3>3, ListsAssumption DEF RowsOK
  <2>4. /\ W \subseteq Ids(rows') /\ W \in SUBSET browse.watched
        /\ \A r \in rows' : r.id \in W => r \in rows
    <3>1. W \subseteq Ids(rows)
        BY <1>r, <2>1 DEF ReaderOK
    <3>2. NewId \notin Ids(rows) /\ new.id = NewId
        BY <2>2 DEF Ids
    <3>3. Ids(rows) \subseteq Ids(rows')
        BY <2>1 DEF Ids
    <3> HIDE DEF new, W
    <3>4. QED
        BY <2>1, <3>1, <3>2, <3>3
  <2>5. ReaderOK' /\ SeenOK'
    <3> HIDE DEF W
    <3>1. QED
        BY <1>0, <2>4, WrittenKeeps
  <2>6. ASSUME NEW i \in DOMAIN browse.page
        PROVE  /\ table = "domain" => browse.page[i].id <= last_id'
               /\ table = "client" /\ ~browse.top_deleted =>
                     browse.page[i].id <= MaxOf(Ids(rows'))
               /\ table = "domain" \/ ~browse.top_deleted =>
                     \A r \in rows' : r.id = browse.page[i].id => r.key = browse.page[i].key
    <3>1. browse.page[i].id \in Nat
      <4>1. browse.page \in Seq(Row)
          BY <1>r DEF ReaderOK
      <4>2. browse.page[i] \in Row
          BY <4>1
      <4>3. QED
          BY <4>2 DEF Row
    <3>2. table = "domain" \/ ~browse.top_deleted => browse.page[i].id < NewId
      <4>1. MaxOf(Ids(rows)) \in Nat
          BY <1>r, MaxOfIds DEF RowsOK
      <4>2. QED
          BY <1>r, <2>2, <3>1, <4>1 DEF PageOK, RowsOK
    <3>3. new \in rows' /\ new.id = NewId
        BY <2>1
    <3>4. NewId <= MaxOf(Ids(rows')) /\ MaxOf(Ids(rows')) \in Nat
      <4>1. rows' \in SUBSET Row
          BY <2>3 DEF RowsOK
      <4> HIDE DEF new
      <4>2. QED
          BY <3>3, <4>1, MaxOfIds
    <3> HIDE DEF new
    <3>5. \A r \in rows' : r \in rows \/ r.id = NewId
        BY <2>1, <3>3
    <3>6. table = "domain" \/ ~browse.top_deleted =>
             \A r \in rows' : r.id = browse.page[i].id => r.key = browse.page[i].key
        BY <1>r, <2>2, <3>1, <3>2, <3>5 DEF PageOK
    <3>7. QED
        BY <2>1, <2>2, <3>1, <3>2, <3>4, <3>6
  <2>7. PageOK'
      BY <1>0, <2>6 DEF PageOK
  <2>8. QED
      BY <2>3, <2>5, <2>7 DEF ListsInv
<1>2. CASE known # {}
  <2> DEFINE upd == {[r EXCEPT !.ts = ts] : r \in known}
  <2>1. rows' = (rows \ known) \cup upd /\ last_id' = last_id
      BY <1>2 DEF Insert
  <2>2. \A r \in known : r \in rows /\ [r EXCEPT !.ts = ts] \in Row
                         /\ [r EXCEPT !.ts = ts].id = r.id /\ [r EXCEPT !.ts = ts].key = r.key
      BY <1>r DEF RowsOK, Row
  <2>3. \A u \in upd : u \in Row /\ \E r \in known : /\ u = [r EXCEPT !.ts = ts]
                                                    /\ u.id = r.id /\ u.key = r.key
      BY <2>2
  <2>4. \A r \in known : \E u \in upd : u.id = r.id
      BY <2>2
  <2> HIDE DEF upd
  <2>5. \A r \in rows' : r \in Row /\ \E s \in rows : r.id = s.id /\ r.key = s.key
      BY <1>r, <2>1, <2>2, <2>3 DEF RowsOK
  <2>6. RowsOK'
    <3>1. \A r, s \in rows' : r.id = s.id => r = s
      <4>1. SUFFICES ASSUME NEW r \in rows', NEW s \in rows', r.id = s.id PROVE r = s
          OBVIOUS
      <4>2. CASE r \in rows \ known /\ s \in rows \ known
          BY <1>r, <4>1, <4>2 DEF RowsOK
      <4>3. CASE r \in upd /\ s \in upd
        <5>1. PICK a \in known : r = [a EXCEPT !.ts = ts] /\ r.id = a.id
            BY <2>3, <4>3
        <5>2. PICK b \in known : s = [b EXCEPT !.ts = ts] /\ s.id = b.id
            BY <2>3, <4>3
        <5>3. a = b
            BY <1>r, <4>1, <5>1, <5>2 DEF RowsOK
        <5>4. QED
            BY <5>1, <5>2, <5>3
      <4>4. \A u \in upd, v \in rows \ known : u.id # v.id
        <5>1. SUFFICES ASSUME NEW u \in upd, NEW v \in rows \ known, u.id = v.id PROVE FALSE
            OBVIOUS
        <5>2. PICK a \in known : u.id = a.id
            BY <2>3
        <5>3. a = v
            BY <1>r, <5>1, <5>2 DEF RowsOK
        <5>4. QED
            BY <5>3
      <4>5. QED
          BY <2>1, <4>1, <4>2, <4>3, <4>4
    <3>2. table = "domain" => \A r \in rows' : r.id <= last_id'
        BY <1>r, <2>1, <2>5 DEF RowsOK
    <3>3. rows' \subseteq Row
        BY <2>5
    <3>4. QED
        BY <1>r, <1>0, <2>1, <3>1, <3>2, <3>3 DEF RowsOK
  <2>7. Ids(rows') = Ids(rows)
    <3>1. \A r \in rows : \E s \in rows' : s.id = r.id
        BY <2>1, <2>4
    <3>2. QED
        BY <2>5, <3>1 DEF Ids
  <2>8. /\ W \subseteq Ids(rows') /\ W \in SUBSET browse.watched
        /\ \A r \in rows' : r.id \in W => r \in rows
    <3>1. \A u \in upd : u.id \in Ids(known)
        BY <2>3 DEF Ids
    <3>2. QED
        BY <1>r, <2>1, <2>7, <3>1 DEF ReaderOK
  <2>9. ReaderOK' /\ SeenOK'
    <3> HIDE DEF W
    <3>1. QED
        BY <1>0, <2>8, WrittenKeeps
  <2>10. PageOK'
    <3>1. ASSUME table = "domain" \/ ~browse.top_deleted,
                 NEW r \in rows', NEW i \in DOMAIN browse.page, r.id = browse.page[i].id
          PROVE  r.key = browse.page[i].key
      <4>1. PICK s \in rows : r.id = s.id /\ r.key = s.key
          BY <2>5
      <4>2. QED
          BY <1>r, <3>1, <4>1 DEF PageOK
    <3>2. table = "domain" \/ ~browse.top_deleted =>
             \A r \in rows', i \in DOMAIN browse.page :
                 r.id = browse.page[i].id => r.key = browse.page[i].key
        BY <3>1
    <3>3. \A i \in DOMAIN browse.page :
             /\ table = "domain" => browse.page[i].id <= last_id
             /\ table = "client" /\ ~browse.top_deleted =>
                   browse.page[i].id <= MaxOf(Ids(rows))
        BY <1>r DEF PageOK
    <3>4. QED
        BY <1>0, <2>1, <2>7, <3>2, <3>3 DEF PageOK
  <2>11. QED
      BY <2>6, <2>9, <2>10 DEF ListsInv
<1>3. QED
    BY <1>1, <1>2

\* So does every deletion, whichever rows it finds.
LEMMA DeleteKeepsInv ==
    ASSUME ListsInv, NEW R \in SUBSET rows, DeleteRows(R)
    PROVE  ListsInv'
<1> DEFINE W == browse.watched \ Ids(R)
           t == browse.top_deleted \/ MaxOf(Ids(rows)) \in Ids(R)
<1>r. RowsOK /\ ReaderOK /\ PageOK
    BY DEF ListsInv
<1>1. /\ rows' = rows \ R /\ UNCHANGED <<table, last_id, now>>
      /\ browse' = [browse EXCEPT !.watched = W, !.top_deleted = t]
      /\ t \in BOOLEAN
      /\ browse'.page = browse.page /\ browse'.top_deleted = t
    BY <1>r DEF DeleteRows, ReaderOK
<1>2. RowsOK'
    BY <1>r, <1>1 DEF RowsOK
<1>3. ReaderOK' /\ SeenOK'
  <2>1. W \subseteq Ids(rows') /\ W \in SUBSET browse.watched
    <3>1. browse.watched \subseteq Ids(rows)
        BY <1>r DEF ReaderOK
    <3>2. Ids(rows) \ Ids(R) \subseteq Ids(rows')
        BY <1>1 DEF Ids
    <3>3. QED
        BY <3>1, <3>2
  <2>2. \A r \in rows' : r \in rows
      BY <1>1
  <2> HIDE DEF W, t
  <2>3. QED
      BY <1>1, <2>1, <2>2, WrittenKeeps
<1>4. ASSUME NEW i \in DOMAIN browse.page, table = "client", ~t
      PROVE  browse.page[i].id <= MaxOf(Ids(rows'))
  <2>1. browse.page[i].id \in Nat \ {0}
    <3>1. browse.page \in Seq(Row)
        BY <1>r DEF ReaderOK
    <3>2. browse.page[i] \in Row
        BY <3>1
    <3>3. QED
        BY <3>2 DEF Row
  <2>2. browse.page[i].id <= MaxOf(Ids(rows))
      BY <1>r, <1>4 DEF PageOK
  <2>3. rows \in SUBSET Row /\ rows' \in SUBSET Row
      BY <1>r, <1>2 DEF RowsOK
  <2>4. MaxOf(Ids(rows)) \in 0..MaxId /\ MaxOf(Ids(rows')) \in 0..MaxId
      BY <2>3, MaxOfIds
  <2>5. PICK r \in rows : r.id = MaxOf(Ids(rows))
    <3>1. MaxOf(Ids(rows)) # 0
        BY <2>1, <2>2, <2>4
    <3>2. QED
        BY <2>3, <3>1, MaxOfIds
  <2>6. r \in rows'
      BY <1>1, <1>4, <2>5 DEF Ids
  <2>7. r.id <= MaxOf(Ids(rows'))
      BY <2>3, <2>6, MaxOfIds
  <2>8. QED
      BY <2>1, <2>2, <2>4, <2>5, <2>7, ListsAssumption
<1>5. PageOK'
  <2>1. table = "domain" \/ ~t => table = "domain" \/ ~browse.top_deleted
      OBVIOUS
  <2> HIDE DEF t
  <2>2. \A r \in rows' : r \in rows
      BY <1>1
  <2>3. \A i \in DOMAIN browse.page :
           /\ table = "domain" => browse.page[i].id <= last_id
           /\ table = "client" /\ ~t => browse.page[i].id <= MaxOf(Ids(rows'))
      BY <1>r, <1>4 DEF PageOK
  <2>4. table = "domain" \/ ~t =>
           \A r \in rows', i \in DOMAIN browse.page :
               r.id = browse.page[i].id => r.key = browse.page[i].key
      BY <1>r, <2>1, <2>2 DEF PageOK
  <2>5. QED
      BY <1>1, <2>3, <2>4 DEF PageOK
<1>6. QED
    BY <1>2, <1>3, <1>5 DEF ListsInv

-----------------------------------------------------------------------------
(* The reader                                                              *)

\* A page shown fresh: its rows are in the table.
LEMMA ShownKeeps ==
    ASSUME ListsInv, NEW p \in Params, p.page_num = 1, Shown(p, GetList(p))
    PROVE  /\ RowsOK' /\ ReaderOK' /\ PageOK'
           /\ browse'.p = p /\ browse'.page = GetList(p)
           /\ UNCHANGED <<table, rows>>
<1> DEFINE q == GetList(p)
<1>r. RowsOK /\ ReaderOK
    BY DEF ListsInv
<1>1. UNCHANGED <<table, rows, last_id, now>>
    BY DEF Shown
<1>2. RowsOK'
    BY <1>r, <1>1 DEF RowsOK
<1>3. /\ q \in Seq(Row) /\ Len(q) <= p.page_size
      /\ \A i \in DOMAIN q : q[i] \in rows
    BY <1>r, GetListRows
<1>4. Ids(Range(q)) \subseteq 1..MaxId /\ Ids(Selected(p)) \subseteq Ids(rows)
  <2>1. Ids(Range(q)) \subseteq Ids(rows)
      BY <1>3 DEF Ids, Range
  <2>2. Ids(rows) \subseteq 1..MaxId
      BY <1>r DEF RowsOK, Row, Ids
  <2>3. QED
      BY <2>1, <2>2 DEF Ids, Selected
<1> HIDE DEF q
<1>5. browse' = [browse EXCEPT
              !.p = p, !.page = q, !.top_deleted = FALSE,
              !.pc      = IF HasCursor(p) THEN "shown" ELSE "count",
              !.seen    = IF p.direction = "prev" THEN {}
                          ELSE IF p.cursor = None THEN Ids(Range(q))
                          ELSE browse.seen \cup Ids(Range(q)),
              !.twice   = /\ ~(p.direction = "prev") /\ ~(p.cursor = None)
                          /\ browse.twice \/ browse.seen \cap Ids(Range(q)) # {},
              !.ordered = IF p.cursor = None THEN Ordered(rows) ELSE browse.ordered,
              !.watched = IF p.direction = "prev" THEN {}
                          ELSE IF p.cursor = None THEN Ids(Selected(p)) ELSE browse.watched]
    BY DEF Shown, q
<1>6. Ordered(rows) \in BOOLEAN
    BY DEF Ordered
<1>7. /\ browse'.p = p /\ browse'.page = q
      /\ browse'.pc \in {"idle", "count", "shown"}
      /\ browse'.seen \in SUBSET (1..MaxId) /\ browse'.watched \in SUBSET Ids(rows)
      /\ browse'.twice \in BOOLEAN /\ browse'.ordered \in BOOLEAN
      /\ browse'.top_deleted \in BOOLEAN
    BY <1>r, <1>4, <1>5, <1>6 DEF ReaderOK
<1>8. ReaderOK'
  <2>1. browse' = [pc |-> browse'.pc, page |-> q, seen |-> browse'.seen,
                   watched |-> browse'.watched, twice |-> browse'.twice,
                   ordered |-> browse'.ordered, top_deleted |-> browse'.top_deleted,
                   p |-> p]
      BY <1>r, <1>5 DEF ReaderOK
  <2>2. QED
      BY <1>1, <1>3, <1>7, <2>1 DEF ReaderOK
<1>9. PageOK'
  <2>1. \A i \in DOMAIN q : /\ table = "domain" => q[i].id <= last_id
                            /\ q[i].id <= MaxOf(Ids(rows))
      BY <1>r, <1>3, MaxOfIds DEF RowsOK
  <2>2. \A r \in rows, i \in DOMAIN q : r.id = q[i].id => r.key = q[i].key
      BY <1>r, <1>3 DEF RowsOK
  <2>3. QED
      BY <1>1, <1>7, <2>1, <2>2 DEF PageOK
<1>10. QED
    BY <1>1, <1>2, <1>7, <1>8, <1>9 DEF q

\* A first page has seen nothing yet and watches all that was found.
LEMMA FirstPageKeepsInv ==
    ASSUME ListsInv, NEW p \in Requests, FirstPage(p)
    PROVE  ListsInv'
<1> DEFINE q == GetList(p)
<1>r. RowsOK /\ ReaderOK
    BY DEF ListsInv
<1>1. /\ p \in Params /\ p.page_num = 1 /\ p.cursor = None /\ p.direction = "next"
      /\ p.total = -1 /\ Shown(p, q)
    BY ListsAssumption DEF FirstPage, Requests, Params, None
<1>2. /\ RowsOK' /\ ReaderOK' /\ PageOK' /\ browse'.p = p /\ browse'.page = q
      /\ UNCHANGED <<table, rows>>
    BY <1>1, ShownKeeps
<1>3. /\ browse'.seen = Ids(Range(q)) /\ browse'.watched = Ids(Selected(p))
      /\ browse'.twice = FALSE /\ browse'.ordered = Ordered(rows)
    BY <1>r, <1>1 DEF Shown, ReaderOK
<1>4. ASSUME Followed'
      PROVE  /\ q # << >> =>
                   \A i \in Ids(Range(q)) : i = Last(q).id \/ InOrder(p, i, Last(q).id)
             /\ \A r \in Selected(p) : r.id \notin Ids(Range(q)) =>
                   /\ q # << >> /\ Len(q) = p.page_size
                   /\ InOrder(p, Last(q).id, r.id)
  <2>1. Supported(p) /\ (Ordered(rows) \/ ~OrderedByTime(p))
      BY <1>2, <1>3, <1>4 DEF Followed, Supported, OrderedByTime
  <2>2. \A a, b \in rows : OrderBy(p, a, b) <=> InOrder(p, a.id, b.id)
      BY <1>r, <1>1, <2>1, OrderIsById
  <2>3. Offset(p) = 0
    <3>1. p.page_size \in Nat
        BY <1>1, ListsAssumption DEF Params
    <3>2. QED
        BY <1>1, <3>1 DEF Offset
  <2>4. QED
      BY <1>r, <1>1, <2>2, <2>3, PageEnds
<1>5. \A r \in rows : r.id \in Ids(Selected(p)) => Matches(p, r)
  <2>1. SUFFICES ASSUME NEW r \in rows, r.id \in Ids(Selected(p)) PROVE Matches(p, r)
      OBVIOUS
  <2>2. PICK s \in Selected(p) : s.id = r.id
      BY <2>1 DEF Ids
  <2>3. r = s
      BY <1>r, <2>2 DEF RowsOK, Selected
  <2>4. Where(p, r)
      BY <2>2, <2>3 DEF Selected
  <2>5. QED
      BY <1>1, <2>4, FirstBounds
<1> HIDE DEF q
<1>6. SeenOK'
  <2>1. ASSUME Followed', NEW w \in Ids(Selected(p)) \ Ids(Range(q))
        PROVE  q # << >> /\ Len(q) = p.page_size /\ InOrder(p, Last(q).id, w)
    <3>1. PICK r \in Selected(p) : r.id = w
        BY DEF Ids
    <3>2. QED
        BY <1>4, <2>1, <3>1
  <2>2. QED
      BY <1>1, <1>2, <1>3, <1>4, <1>5, <2>1 DEF SeenOK
<1>7. QED
    BY <1>2, <1>6 DEF ListsInv

\* The request that a step of the cursor makes.
Turned(direction) == [browse.p EXCEPT !.direction = direction,
                         !.cursor = IF direction = "next" THEN Last(browse.page).id
                                                          ELSE Head(browse.page).id]

\* The cursor is the id of a row of the page.
LEMMA TurnedAsks ==
    ASSUME ListsInv, NEW direction \in {"next", "prev"}, Step(direction)
    PROVE  LET p == Turned(direction)
           IN  /\ p \in Params /\ p.page_num = 1 /\ p.direction = direction
               /\ p.cursor # None /\ HasCursor(p) /\ Offset(p) = 0
               /\ browse.page # << >>
               /\ p.cursor = (IF direction = "next" THEN Last(browse.page).id
                                                    ELSE Head(browse.page).id)
               /\ \E r \in Range(browse.page) : r.id = p.cursor
               /\ p.order = browse.p.order /\ p.key = browse.p.key
               /\ p.before = browse.p.before /\ p.after = browse.p.after
               /\ p.like = browse.p.like /\ p.page_size = browse.p.page_size
               /\ Shown(p, GetList(p))
<1> DEFINE p == Turned(direction)
<1>1. /\ browse.page \in Seq(Row) /\ browse.page # << >> /\ Shown(p, GetList(p))
      /\ browse.p \in Params /\ browse.p.page_num = 1
    BY DEF ListsInv, ReaderOK, Step, Turned
<1>2. /\ 1 \in DOMAIN browse.page /\ Len(browse.page) \in DOMAIN browse.page
      /\ Head(browse.page) = browse.page[1]
      /\ Last(browse.page) = browse.page[Len(browse.page)]
    BY <1>1 DEF Last
<1>3. /\ Head(browse.page) \in Range(browse.page) /\ Head(browse.page) \in Row
      /\ Last(browse.page) \in Range(browse.page) /\ Last(browse.page) \in Row
    BY <1>1, <1>2 DEF Range
<1>4. /\ p.cursor = (IF direction = "next" THEN Last(browse.page).id
                                           ELSE Head(browse.page).id)
      /\ p.cursor \in 1..MaxId /\ \E r \in Range(browse.page) : r.id = p.cursor
  <2>1. p.cursor = (IF direction = "next" THEN Last(browse.page).id
                                          ELSE Head(browse.page).id)
      BY <1>1 DEF Turned, Params
  <2>2. CASE direction = "next"
      BY <1>3, <2>1, <2>2 DEF Row
  <2>3. CASE direction = "prev"
      BY <1>3, <2>1, <2>3 DEF Row
  <2>4. QED
      BY <2>1, <2>2, <2>3
<1>5. /\ p.page_num = 1 /\ p.direction = direction /\ p.order = browse.p.order
      /\ p.key = browse.p.key /\ p.before = browse.p.before /\ p.after = browse.p.after
      /\ p.like = browse.p.like /\ p.page_size = browse.p.page_size
    BY <1>1 DEF Turned, Params
<1>6. p \in Params
  <2>1. p.cursor \in 0..MaxId
      BY <1>4, ListsAssumption
  <2>2. p = [browse.p EXCEPT !.direction = direction, !.cursor = p.cursor]
      BY <1>1, <1>4 DEF Turned
  <2> HIDE DEF p
  <2>3. QED
      BY <1>1, <2>1, <2>2 DEF Params
<1>7. p.cursor # None
    BY <1>4, ListsAssumption DEF None
<1>8. HasCursor(p) /\ Offset(p) = 0
    BY <1>7 DEF HasCursor, Offset
<1>9. QED
    BY <1>1, <1>4, <1>5, <1>6, <1>7, <1>8

\* A step of the cursor goes on where the page ended, or begins anew when it goes back.
LEMMA StepKeepsInv ==
    ASSUME ListsInv, NEW direction \in {"next", "prev"}, Step(direction)
    PROVE  ListsInv'
<1> DEFINE p == Turned(direction)
           q == GetList(p)
<1>r. RowsOK /\ ReaderOK /\ SeenOK
    BY DEF ListsInv
<1>1. /\ p \in Params /\ p.page_num = 1 /\ p.direction = direction /\ p.cursor # None
      /\ Offset(p) = 0 /\ browse.page # << >> /\ Shown(p, q)
      /\ direction = "next" => p.cursor = Last(browse.page).id
      /\ p.order = browse.p.order /\ p.key = browse.p.key
      /\ p.before = browse.p.before /\ p.after = browse.p.after
      /\ p.like = browse.p.like /\ p.page_size = browse.p.page_size
    BY TurnedAsks
<1> HIDE DEF p
<1>2. /\ RowsOK' /\ ReaderOK' /\ PageOK' /\ browse'.p = p /\ browse'.page = q
      /\ UNCHANGED <<table, rows>>
    BY <1>1, ShownKeeps
<1>3. CASE direction = "prev"
  <2>1. browse'.seen = {} /\ browse'.watched = {} /\ browse'.twice = FALSE
      BY <1>r, <1>1, <1>3 DEF Shown, ReaderOK
  <2>2. SeenOK'
      BY <1>1, <1>2, <1>3, <2>1 DEF SeenOK
  <2>3. QED
      BY <1>2, <2>2 DEF ListsInv
<1>4. CASE direction = "next"
  <2>1. /\ browse'.seen = browse.seen \cup Ids(Range(q))
        /\ browse'.watched = browse.watched
        /\ browse'.twice = (browse.twice \/ browse.seen \cap Ids(Range(q)) # {})
        /\ browse'.ordered = browse.ordered
      BY <1>r, <1>1, <1>4 DEF Shown, ReaderOK
  <2>2. SUFFICES ASSUME Followed'
                 PROVE  /\ ~browse'.twice
                        /\ q # << >> =>
                              \A i \in browse'.seen :
                                  i = Last(q).id \/ InOrder(p, i, Last(q).id)
                        /\ \A w \in browse'.watched \ browse'.seen :
                              /\ q # << >> /\ Len(q) = p.page_size
                              /\ InOrder(p, Last(q).id, w)
                        /\ \A r \in rows : r.id \in browse'.watched => Matches(p, r)
    <3> HIDE DEF q
    <3>1. QED
        BY <1>1, <1>2, <1>4, <2>2 DEF SeenOK, ListsInv
  <2>3. Supported(p)
      BY <1>2, <2>2 DEF Followed, Supported
  <2>4. /\ \A a, b \in rows : OrderBy(p, a, b) <=> InOrder(p, a.id, b.id)
        /\ \A r \in rows : /\ Where(p, r) => InOrder(p, p.cursor, r.id)
                           /\ Matches(p, r) /\ InOrder(p, p.cursor, r.id) => Where(p, r)
      BY <1>r, <1>1, <1>4, <2>3, OrderIsById, CursorBounds
  <2>5. /\ q # << >> => \A i \in Ids(Range(q)) : i = Last(q).id \/ InOrder(p, i, Last(q).id)
        /\ \A r \in Selected(p) : r.id \notin Ids(Range(q)) =>
              q # << >> /\ Len(q) = p.page_size /\ InOrder(p, Last(q).id, r.id)
      BY <1>r, <1>1, <1>4, <2>4, PageEnds
  <2>6. /\ \A i \in Ids(Range(q)) : i \in 1..MaxId /\ InOrder(p, p.cursor, i)
        /\ q # << >> => Last(q).id \in Ids(Range(q))
    <3>1. /\ q \in Seq(Selected(p)) /\ \A i \in DOMAIN q : q[i] \in Selected(p) /\ q[i] \in rows
        BY <1>r, <1>1, GetListRows
    <3> HIDE DEF q
    <3>2. \A i \in DOMAIN q : Where(p, q[i]) /\ q[i] \in Row
        BY <1>r, <3>1 DEF Selected, RowsOK
    <3>3. \A i \in DOMAIN q : q[i].id \in 1..MaxId /\ InOrder(p, p.cursor, q[i].id)
        BY <2>4, <3>1, <3>2 DEF Row
    <3>4. q # << >> => Len(q) \in DOMAIN q /\ Last(q) = q[Len(q)]
        BY <3>1 DEF Last
    <3>5. QED
        BY <3>3, <3>4 DEF Ids, Range
  <2>7. /\ p.order \in {"asc", "desc"} /\ p.cursor \in Nat
        /\ browse.seen \in SUBSET (1..MaxId) /\ browse.watched \in SUBSET Ids(rows)
        /\ MaxId \in Nat
      BY <1>r, <1>1, ListsAssumption DEF Params, ReaderOK
  <2>8. /\ ~browse.twice
        /\ \A i \in browse.seen : i = p.cursor \/ InOrder(p, i, p.cursor)
        /\ \A w \in browse.watched \ browse.seen : InOrder(p, p.cursor, w)
        /\ \A r \in rows : r.id \in browse.watched => Matches(p, r)
    <3>1. CASE browse.p.direction = "prev"
        BY <1>r, <3>1 DEF SeenOK
    <3>2. CASE browse.p.direction = "next"
      <4>1. Followed
          BY <1>1, <1>2, <1>4, <2>1, <2>2, <3>2 DEF Followed, Supported, OrderedByTime
      <4>2. \A i, j : InOrder(p, i, j) <=> InOrder(browse.p, i, j)
          BY <1>1 DEF InOrder
      <4>3. \A r : Matches(p, r) <=> Matches(browse.p, r)
          BY <1>1 DEF Matches
      <4>4. QED
          BY <1>r, <1>1, <1>4, <4>1, <4>2, <4>3 DEF SeenOK
    <3>3. QED
        BY <1>r, <3>1, <3>2 DEF ReaderOK, Params
  <2> HIDE DEF q
  <2>9. browse.seen \cap Ids(Range(q)) = {}
    <3>1. SUFFICES ASSUME NEW i \in browse.seen, i \in Ids(Range(q)) PROVE FALSE
        OBVIOUS
    <3>2. InOrder(p, p.cursor, i) /\ (i = p.cursor \/ InOrder(p, i, p.cursor)) /\ i \in Nat
        BY <2>6, <2>7, <2>8, <3>1
    <3>3. QED
        BY <2>7, <3>2 DEF InOrder
  <2>10. ASSUME q # << >>, NEW i \in browse'.seen
         PROVE  i = Last(q).id \/ InOrder(p, i, Last(q).id)
    <3>1. CASE i \in Ids(Range(q))
        BY <2>5, <2>10, <3>1
    <3>2. CASE i \in browse.seen
      <4>1. /\ i \in Nat /\ Last(q).id \in Nat /\ InOrder(p, p.cursor, Last(q).id)
            /\ i = p.cursor \/ InOrder(p, i, p.cursor)
          BY <2>6, <2>7, <2>8, <2>10, <3>2
      <4>2. QED
          BY <2>7, <4>1 DEF InOrder
    <3>3. QED
        BY <2>1, <3>1, <3>2
  <2>11. ASSUME NEW w \in browse'.watched \ browse'.seen
         PROVE  q # << >> /\ Len(q) = p.page_size /\ InOrder(p, Last(q).id, w)
    <3>1. w \in browse.watched \ browse.seen /\ w \notin Ids(Range(q))
        BY <2>1
    <3>2. PICK r \in rows : r.id = w
        BY <2>7, <3>1 DEF Ids
    <3>3. Where(p, r)
        BY <2>4, <2>8, <3>1, <3>2
    <3>4. r \in Selected(p)
        BY <3>3 DEF Selected
    <3>5. QED
        BY <2>5, <3>1, <3>2, <3>4
  <2>12. QED
      BY <2>1, <2>8, <2>9, <2>10, <2>11
<1>5. QED
    BY <1>3, <1>4

\* The second query of a request changes the total alone.
LEMMA CountKeepsInv ==
    ASSUME ListsInv, Count
    PROVE  ListsInv'
<1>1. /\ browse' = [browse EXCEPT !.pc = "shown", !.p.total = GetListCount(browse.p)]
      /\ UNCHANGED <<table, rows, last_id, now>>
    BY DEF Count
<1>2. GetListCount(browse.p) \in -1..MaxId
  <2>1. Cardinality(Selected(browse.p)) \in 0..MaxId
      BY RowsFinite DEF ListsInv, Selected
  <2>2. QED
      BY <2>1, ListsAssumption DEF GetListCount
<1>3. /\ browse'.p = [browse.p EXCEPT !.total = GetListCount(browse.p)]
      /\ browse'.page = browse.page /\ browse'.seen = browse.seen
      /\ browse'.watched = browse.watched /\ browse'.twice = browse.twice
      /\ browse'.ordered = browse.ordered /\ browse'.top_deleted = browse.top_deleted
      /\ browse'.pc = "shown"
    BY <1>1 DEF ListsInv, ReaderOK
<1>4. /\ browse'.p \in Params /\ browse'.p.page_num = browse.p.page_num
      /\ browse'.p.order = browse.p.order /\ browse'.p.key = browse.p.key
      /\ browse'.p.like = browse.p.like /\ browse'.p.page_size = browse.p.page_size
      /\ browse'.p.before = browse.p.before /\ browse'.p.after = browse.p.after
      /\ browse'.p.cursor = browse.p.cursor /\ browse'.p.direction = browse.p.direction
  <2>1. browse.p \in Params
      BY DEF ListsInv, ReaderOK
  <2>2. QED
      BY <1>2, <1>3, <2>1 DEF Params
<1>5. RowsOK' /\ PageOK'
    BY <1>1, <1>3 DEF ListsInv, RowsOK, PageOK
<1>6. ReaderOK'
  <2>1. browse' \in [pc : {"idle", "count", "shown"}, page : Seq(Row),
                     seen : SUBSET (1..MaxId), watched : SUBSET Ids(rows),
                     twice : BOOLEAN, ordered : BOOLEAN, top_deleted : BOOLEAN,
                     p : Params]
    <3>1. browse' = [browse EXCEPT !.pc = "shown", !.p = browse'.p]
        BY <1>1, <1>3 DEF ListsInv, ReaderOK
    <3>2. QED
        BY <1>4, <3>1 DEF ListsInv, ReaderOK
  <2>2. QED
      BY <1>1, <1>3, <1>4, <2>1 DEF ListsInv, ReaderOK
<1>7. SeenOK'
  <2>1. Followed' <=> Followed
      BY <1>1, <1>3, <1>4 DEF Followed, Supported, OrderedByTime
  <2>2. \A i, j : InOrder(browse'.p, i, j) <=> InOrder(browse.p, i, j)
      BY <1>4 DEF InOrder
  <2>3. \A r : Matches(browse'.p, r) <=> Matches(browse.p, r)
      BY <1>4 DEF Matches
  <2>4. QED
      BY <1>1, <1>3, <1>4, <2>1, <2>2, <2>3 DEF ListsInv, SeenOK
<1>8. QED
    BY <1>5, <1>6, <1>7 DEF ListsInv

\* A reader that has asked for nothing yet.
LEMMA NobodyIsOK ==
    RowsOK /\ browse = Nobody => ReaderOK /\ PageOK /\ SeenOK
<1> SUFFICES ASSUME RowsOK, browse = Nobody
             PROVE  ReaderOK /\ PageOK /\ SeenOK
    OBVIOUS
<1>1. Min(PageSizes) \in PageSizes
  <2>1. PageSizes \in SUBSET Nat /\ PageSizes # {}
      BY ListsAssumption
  <2>2. \E x \in PageSizes : \A y \in PageSizes : x <= y
      BY <2>1, LeastIn
  <2>3. QED
      BY <2>2 DEF Min
<1>2. Nobody.p \in Params
    BY <1>1, ListsAssumption DEF Nobody, Params, None
<1>3. << >> \in Seq(Row) /\ Len(<< >>) = 0 /\ DOMAIN << >> = {}
    OBVIOUS
<1>4. ReaderOK
  <2>1. Nobody.p.page_num = 1 /\ Nobody.page = << >> /\ Nobody.p.page_size \in Nat
      BY <1>1, ListsAssumption DEF Nobody
  <2>2. Nobody \in [pc : {"idle", "count", "shown"}, page : Seq(Row),
                    seen : SUBSET (1..MaxId), watched : SUBSET Ids(rows),
                    twice : BOOLEAN, ordered : BOOLEAN, top_deleted : BOOLEAN,
                    p : Params]
      BY <1>2, <1>3 DEF Nobody
  <2>3. QED
      BY <1>3, <2>1, <2>2 DEF ReaderOK
<1>5. PageOK
    BY <1>3 DEF PageOK, Nobody
<1>6. SeenOK
    BY DEF SeenOK, Nobody
<1>7. QED
    BY <1>4, <1>5, <1>6

\* At first there are no rows, and nobody reads.
LEMMA InitInv ==
    ASSUME ListsInit
    PROVE  ListsInv
<1>1. RowsOK
    BY ListsAssumption DEF ListsInit, RowsOK
<1>2. QED
    BY <1>1, NobodyIsOK DEF ListsInit, ListsInv

\* The invariant is inductive.
LEMMA NextKeepsInv ==
    ASSUME ListsInv, [ListsNext]_vars
    PROVE  ListsInv'
<1>1. CASE UNCHANGED vars
    BY <1>1 DEF vars, ListsInv, RowsOK, ReaderOK, PageOK, SeenOK, Followed,
                Supported, OrderedByTime, Matches
<1>2. ASSUME NEW key \in Keys, NEW ts \in {Max({1, now - 1}), now}, Insert(key, ts)
      PROVE  ListsInv'
  <2>1. now \in 1..MaxTime
      BY DEF ListsInv, RowsOK
  <2>2. Max({1, now - 1}) \in 1..MaxTime
    <3>1. \E x \in {1, now - 1} : \A y \in {1, now - 1} : x >= y
        BY <2>1
    <3>2. Max({1, now - 1}) \in {1, now - 1} /\ Max({1, now - 1}) >= 1
        BY <3>1 DEF Max
    <3>3. QED
        BY <2>1, <3>2, ListsAssumption
  <2>3. QED
      BY <1>2, <2>1, <2>2, InsertKeepsInv
<1>3. ASSUME NEW i \in DOMAIN browse.page, DeleteById(i) PROVE ListsInv'
    BY <1>3, DeleteKeepsInv DEF DeleteById
<1>4. ASSUME NEW id \in 1..MaxId, DeleteOther(id) PROVE ListsInv'
    BY <1>4, DeleteKeepsInv DEF DeleteOther
<1>5. ASSUME NEW time \in 1..MaxTime, DeleteBefore(time) PROVE ListsInv'
    BY <1>5, DeleteKeepsInv DEF DeleteBefore
<1>6. ASSUME NEW p \in Requests, FirstPage(p) PROVE ListsInv'
    BY <1>6, FirstPageKeepsInv
<1>7. ASSUME NEW direction \in {"next", "prev"}, Step(direction) PROVE ListsInv'
    BY <1>7, StepKeepsInv
<1>8. CASE Tick
  <2>1. RowsOK'
      BY <1>8, ListsAssumption DEF Tick, ListsInv, RowsOK
  <2>2. ReaderOK' /\ PageOK' /\ SeenOK'
      BY <1>8 DEF Tick, ListsInv, ReaderOK, PageOK, SeenOK, Followed, Supported,
                  OrderedByTime, Matches
  <2>3. QED
      BY <2>1, <2>2 DEF ListsInv
<1>9. CASE Count
    BY <1>9, CountKeepsInv
<1>10. CASE Leave
  <2>1. browse' = Nobody /\ RowsOK'
      BY <1>10 DEF Leave, ListsInv, RowsOK
  <2>2. ReaderOK' /\ PageOK' /\ SeenOK'
    <3>1. (RowsOK /\ browse = Nobody => ReaderOK /\ PageOK /\ SeenOK)'
        BY NobodyIsOK, PTL
    <3>2. QED
        BY <2>1, <3>1
  <2>3. QED
      BY <2>1, <2>2 DEF ListsInv
<1>11. QED
    BY <1>1, <1>2, <1>3, <1>4, <1>5, <1>6, <1>7, <1>8, <1>9, <1>10 DEF ListsNext

-----------------------------------------------------------------------------
(* The theorems                                                            *)

\* The rows keep distinct ids, and the reader's page, what it has seen and what it
\* still has to see keep in step (all of db.rs that reads or writes the lists).
THEOREM ListsInvariant == ListsSpec => []ListsInv
<1>1. ListsInit => ListsInv
    BY InitInv
<1>2. ListsInv /\ [ListsNext]_vars => ListsInv'
    BY NextKeepsInv
<1>3. QED
    BY <1>1, <1>2, PTL DEF ListsSpec

\* The rows and the pages are well formed, and no page is longer than was asked
\* for (LIMIT of get_domain_list and get_client_list).
THEOREM ListsTypes == ListsSpec => []ListsTypeOK
<1>1. ListsInv => ListsTypeOK
    BY DEF ListsInv, RowsOK, ReaderOK, Params, ListsTypeOK
<1>2. QED
    BY <1>1, ListsInvariant, PTL

\* Following the cursor to a page that is not full shows every row that nobody
\* touched, and none twice (get_domain_sql_where, get_client_sql_where).
THEOREM BrowseIsComplete == ListsSpec => []BrowseComplete
<1>1. ListsInv => BrowseComplete
  <2>1. SUFFICES ASSUME ListsInv, Supported(browse.p),
                        browse.ordered \/ ~OrderedByTime(browse.p)
                 PROVE  /\ ~browse.twice
                        /\ Len(browse.page) < browse.p.page_size =>
                              browse.watched \subseteq browse.seen
      BY DEF BrowseComplete
  <2>2. Followed /\ SeenOK
      BY <2>1 DEF Followed, ListsInv
  <2>3. Len(browse.page) \in Nat /\ browse.p.page_size \in Nat
    <3>1. browse.page \in Seq(Row) /\ browse.p \in Params
        BY <2>1 DEF ListsInv, ReaderOK
    <3>2. browse.p.page_size \in Nat
        BY <3>1, ListsAssumption DEF Params
    <3>3. Len(browse.page) \in Nat
        BY <3>1
    <3>4. QED
        BY <3>2, <3>3
  <2>4. QED
      BY <2>2, <2>3 DEF SeenOK
<1>2. QED
    BY <1>1, ListsInvariant, PTL

\* Deleting a row of the page deletes that row or nothing
\* (delete_domain_by_id, delete_client_by_id).
THEOREM DeletesAreShown == ListsSpec => DeletesShown
<1>1. ListsInv /\ [ListsNext]_vars =>
         [\A i \in DOMAIN browse.page :
             DeleteById(i) /\ (table = "domain" \/ ~browse.top_deleted) =>
                \A r \in rows \ rows' : r.key = browse.page[i].key]_vars
  <2>1. SUFFICES ASSUME ListsInv, NEW i \in DOMAIN browse.page, DeleteById(i),
                        table = "domain" \/ ~browse.top_deleted, NEW r \in rows \ rows'
                 PROVE  r.key = browse.page[i].key
      OBVIOUS
  <2>2. r \in rows /\ r.id = browse.page[i].id
      BY <2>1 DEF DeleteById, DeleteRows
  <2>3. QED
      BY <2>1, <2>2 DEF ListsInv, PageOK
<1>2. QED
    BY <1>1, ListsInvariant, PTL DEF ListsSpec, DeletesShown

-----------------------------------------------------------------------------
(* The neighbours of the cursor                                            *)

\* The pairs of rows that the list shows one before the other.
IdPairs(p) == {w \in rows \X rows : InOrder(p, w[1].id, w[2].id)}

\* A step of the cursor finds the rows on its side that match the filters.
LEMMA StepSelects ==
    ASSUME ListsInv, NEW direction \in {"next", "prev"}, Step(direction),
           NEW p, p = Turned(direction), Supported(p),
           p.before # None \/ p.after # None =>
              /\ Ordered(rows \cup Range(browse.page))
              /\ \A r \in Range(browse.page) : Matches(p, r)
    PROVE  Selected(p) = {r \in rows : /\ Matches(p, r)
                                       /\ IF p.direction = "next" THEN InOrder(p, p.cursor, r.id)
                                                                  ELSE InOrder(p, r.id, p.cursor)}
<1>r. RowsOK
    BY DEF ListsInv
<1>1. /\ p \in Params /\ p.direction = direction /\ p.cursor # None
      /\ \E c \in Range(browse.page) : c.id = p.cursor
    BY TurnedAsks
<1>2. PICK c \in Range(browse.page) : c.id = p.cursor
    BY <1>1
<1>3. c \in Row /\ c.id \in Nat /\ c.ts \in Nat
  <2>1. browse.page \in Seq(Row)
      BY DEF ListsInv, ReaderOK
  <2>2. c \in Row
      BY <2>1 DEF Range
  <2>3. QED
      BY <2>2 DEF Row
<1>4. ASSUME NEW r \in rows, Where(p, r)
      PROVE  Matches(p, r)
  <2>1. /\ direction = "next" => InOrder(p, p.cursor, r.id)
        /\ direction = "prev" => InOrder(p, r.id, p.cursor)
      BY <1>r, <1>1, <1>4, CursorBounds
  <2>2. r.id \in Nat /\ r.ts \in Nat
      BY <1>r DEF RowsOK, Row
  <2>3. p.before \in Nat /\ p.after \in Nat /\ p.order \in {"asc", "desc"}
      BY <1>1, ListsAssumption DEF Params
  <2>4. CASE p.before = None /\ p.after = None
      BY <1>4, <2>4 DEF Where, Matches
  <2>5. CASE p.before # None \/ p.after # None
    <3>1. Matches(p, c) /\ (c.id < r.id => c.ts <= r.ts) /\ (r.id < c.id => r.ts <= c.ts)
      <4>1. /\ Ordered(rows \cup Range(browse.page))
            /\ \A s \in Range(browse.page) : Matches(p, s)
          BY <2>5
      <4>2. QED
          BY <4>1 DEF Ordered
    <3>2. p.before # None => r.ts <= p.before
      <4>1. CASE ~BeforeByCursor(p)
          BY <1>4, <4>1 DEF Where
      <4>2. CASE BeforeByCursor(p)
        <5>1. r.id < c.id
          <6>1. IdBelow(p)
              BY <4>2 DEF IdBelow
          <6>2. QED
              BY <1>2, <1>4, <6>1 DEF Where
        <5>2. QED
            BY <1>3, <2>2, <2>3, <3>1, <5>1 DEF Matches
      <4>3. QED
          BY <4>1, <4>2
    <3>3. p.after # None => r.ts >= p.after
      <4>1. CASE ~AfterByCursor(p)
          BY <1>4, <4>1 DEF Where
      <4>2. CASE AfterByCursor(p)
        <5>1. c.id < r.id
          <6>1. IdAbove(p)
              BY <4>2 DEF IdAbove
          <6>2. QED
              BY <1>2, <1>3, <1>4, <2>2, <6>1 DEF Where
        <5>2. QED
            BY <1>3, <2>2, <2>3, <3>1, <5>1 DEF Matches
      <4>3. QED
          BY <4>1, <4>2
    <3>4. QED
        BY <1>4, <3>2, <3>3 DEF Where, Matches
  <2>6. QED
      BY <2>4, <2>5
<1>5. \A r \in rows : Where(p, r) <=>
                         /\ Matches(p, r)
                         /\ IF p.direction = "next" THEN InOrder(p, p.cursor, r.id)
                                                    ELSE InOrder(p, r.id, p.cursor)
    BY <1>r, <1>1, <1>4, CursorBounds
<1>6. QED
    BY <1>5 DEF Selected

\* The page that a step of the cursor shows lists the rows nearest to it: a row
\* is at the place of the rows before it, and the first page_size places are shown.
LEMMA StepShowsNearest ==
    ASSUME RowsOK, NEW p \in Params, Supported(p), p.cursor # None, Offset(p) = 0
    PROVE  LET S == Selected(p)
               near(r) == {s \in S : IF p.direction = "next" THEN InOrder(p, s.id, r.id)
                                                             ELSE InOrder(p, r.id, s.id)}
           IN  GetList(p) = Listing({r \in S : Cardinality(near(r)) < p.page_size}, IdPairs(p))
<1> DEFINE S == Selected(p)
           near(r) == {s \in S : IF p.direction = "next" THEN InOrder(p, s.id, r.id)
                                                         ELSE InOrder(p, r.id, s.id)}
           T == {r \in S : Cardinality(near(r)) < p.page_size}
           n == Cardinality(S)
           s == Sorted(p)
           l == Limited(p)
           k == Len(l)
           q == GetList(p)
<1>1. p.direction \in {"next", "prev"} /\ p.page_size \in Nat \ {0} /\ p.order \in {"asc", "desc"}
    BY ListsAssumption DEF Params
<1>2. /\ \A a, b \in rows : /\ p.direction = "next" => (OrderBy(p, a, b) <=> InOrder(p, a.id, b.id))
                            /\ p.direction = "prev" => (OrderBy(p, a, b) <=> InOrder(p, b.id, a.id))
    BY OrderIsById
<1>3. /\ S \in SUBSET rows /\ n \in Nat /\ s \in [1..n -> S]
      /\ \A r \in S : \E i \in 1..n : s[i] = r
      /\ \A i, j \in 1..n : s[i] = s[j] => i = j
      /\ \A i, j \in 1..n : i < j => OrderBy(p, s[i], s[j])
  <2>1. S \in SUBSET rows /\ n \in Nat /\ Lists(s, S, OrderPairs(p))
      BY SortedLists
  <2>2. /\ \A r \in S : \E i \in 1..n : s[i] = r
        /\ \A i, j \in 1..n : s[i] = s[j] => i = j
      BY SortedLists, ListsOnto
  <2>3. s \in [1..n -> S] /\ \A i, j \in 1..n : i < j => <<s[i], s[j]>> \in OrderPairs(p)
      BY <2>1 DEF Lists
  <2>4. \A i, j \in 1..n : i < j => OrderBy(p, s[i], s[j])
    <3> HIDE DEF s, n
    <3>1. QED
        BY <2>3 DEF OrderPairs
  <2>5. QED
      BY <2>1, <2>2, <2>3, <2>4
<1>4. \A i \in 1..n : Cardinality(near(s[i])) = i - 1
  <2>1. SUFFICES ASSUME NEW i \in 1..n PROVE Cardinality(near(s[i])) = i - 1
      OBVIOUS
  <2>2. Cardinality({x \in S : <<x, s[i]>> \in OrderPairs(p)}) = i - 1
      BY SortedLists, ListsRank
  <2>3. near(s[i]) = {x \in S : <<x, s[i]>> \in OrderPairs(p)}
    <3>1. s[i] \in rows /\ \A x \in S : x \in rows
        BY <1>3
    <3> HIDE DEF s, S
    <3>2. \A x \in S : <<x, s[i]>> \in OrderPairs(p) <=> OrderBy(p, x, s[i])
        BY <3>1 DEF OrderPairs
    <3>3. QED
        BY <1>1, <1>2, <3>1, <3>2
  <2>4. QED
      BY <2>2, <2>3
<1>5. /\ k \in Nat /\ l \in Seq(S) /\ DOMAIN l = 1..k
      /\ k = IF n <= p.page_size THEN n ELSE p.page_size
      /\ \A i \in 1..k : i \in 1..n /\ l[i] = s[i]
  <2>1. /\ l \in Seq(S) /\ k = Fill(n, 0, p.page_size)
        /\ \A i \in 1..k : 0 + i \in 1..n /\ l[i] = s[0 + i]
      BY LimitedPlaces
  <2>2. \A i \in 1..k : 0 + i = i
      OBVIOUS
  <2>3. k = IF n <= p.page_size THEN n ELSE p.page_size
      BY <1>1, <1>3, <2>1 DEF Fill
  <2>4. QED
      BY <2>1, <2>2, <2>3
<1> HIDE DEF S, n, s, l, k
<1>6. T = {s[i] : i \in 1..k}
  <2>1. \A i \in 1..n : s[i] \in T <=> i \in 1..k
    <3>1. SUFFICES ASSUME NEW i \in 1..n PROVE s[i] \in T <=> i \in 1..k
        OBVIOUS
    <3>2. s[i] \in S /\ Cardinality(near(s[i])) = i - 1
        BY <1>3, <1>4
    <3> HIDE DEF near
    <3>3. s[i] \in T <=> i - 1 < p.page_size
        BY <3>2
    <3>4. QED
        BY <1>1, <1>3, <1>5, <3>3
  <2>2. \A r \in T : r \in S
      OBVIOUS
  <2> HIDE DEF T
  <2>3. QED
      BY <1>3, <1>5, <2>1, <2>2
<1> HIDE DEF T, near
<1>7. /\ q = IF p.direction = "prev" THEN [i \in 1..k |-> l[k - i + 1]] ELSE l
      /\ \A i \in 1..k : k - i + 1 \in 1..k /\ k - (k - i + 1) + 1 = i
  <2>1. HasCursor(p)
      BY DEF HasCursor
  <2>2. q = IF p.direction = "prev" THEN [i \in 1..k |-> l[k - i + 1]] ELSE l
      BY <2>1 DEF GetList, Reverse, l, k
  <2>3. \A i \in 1..k : k - i + 1 \in 1..k /\ k - (k - i + 1) + 1 = i
      BY <1>5
  <2>4. QED
      BY <2>2, <2>3
<1> HIDE DEF q
<1>8. /\ q \in [1..k -> T]
      /\ \A i, j \in 1..k : q[i] = q[j] => i = j
      /\ \A r \in T : \E i \in 1..k : q[i] = r
      /\ \A i, j \in 1..k : i < j => InOrder(p, q[i].id, q[j].id)
  <2>1. \A i \in 1..k : l[i] \in T /\ l[i] \in rows
      BY <1>3, <1>5, <1>6
  <2>2. CASE p.direction = "next"
    <3>1. q = l
        BY <1>7, <2>2
    <3>2. q \in [1..k -> T]
        BY <1>5, <2>1, <3>1
    <3>3. \A i, j \in 1..k : i < j => InOrder(p, q[i].id, q[j].id)
        BY <1>2, <1>3, <1>5, <2>1, <2>2, <3>1
    <3>4. QED
        BY <1>3, <1>5, <1>6, <3>1, <3>2, <3>3
  <2>3. CASE p.direction = "prev"
    <3>1. /\ q = [i \in 1..k |-> l[k - i + 1]]
          /\ \A i \in 1..k : q[i] = l[k - i + 1] /\ k - i + 1 \in 1..k
        BY <1>7, <2>3
    <3>2. q \in [1..k -> T]
        BY <2>1, <3>1
    <3>3. ASSUME NEW i \in 1..k, NEW j \in 1..k, i < j PROVE InOrder(p, q[i].id, q[j].id)
      <4>1. k - j + 1 \in 1..k /\ k - i + 1 \in 1..k /\ k - j + 1 < k - i + 1
        <5>1. k \in Nat
            BY <1>5
        <5>2. QED
            BY <3>3, <5>1
      <4>2. OrderBy(p, l[k - j + 1], l[k - i + 1])
          BY <1>3, <1>5, <4>1
      <4>3. QED
          BY <1>2, <2>1, <2>3, <3>1, <4>1, <4>2
    <3>4. \A i, j \in 1..k : q[i] = q[j] => i = j
      <4>1. SUFFICES ASSUME NEW i \in 1..k, NEW j \in 1..k, q[i] = q[j] PROVE i = j
          OBVIOUS
      <4>2. s[k - i + 1] = s[k - j + 1] /\ k - i + 1 \in 1..n /\ k - j + 1 \in 1..n
          BY <1>5, <3>1, <4>1
      <4>3. k - i + 1 = k - j + 1
          BY <1>3, <4>2
      <4>4. QED
          BY <1>5, <4>3
    <3>5. ASSUME NEW r \in T PROVE \E i \in 1..k : q[i] = r
      <4>1. PICK j \in 1..k : s[j] = r
          BY <1>6
      <4>2. k - j + 1 \in 1..k /\ q[k - j + 1] = l[k - (k - j + 1) + 1]
          BY <1>7, <3>1
      <4>3. q[k - j + 1] = r
          BY <1>5, <1>7, <4>1, <4>2
      <4>4. QED
          BY <4>2, <4>3
    <3>6. QED
        BY <3>2, <3>3, <3>4, <3>5
  <2>4. QED
      BY <1>1, <2>2, <2>3
<1>9. T \in SUBSET rows /\ IsFiniteSet(T) /\ Cardinality(T) = k
  <2>1. T \in SUBSET rows
      BY <1>3 DEF T
  <2>2. q \in Bijection(1..k, T)
      BY <1>8, Fun_IsBij
  <2>3. Cardinality(T) = k
      BY <1>5, <2>2, FS_CountingElements DEF ExistsBijection
  <2>4. QED
      BY <2>1, <2>3, RowsFinite
<1>10. Orders(IdPairs(p), T)
  <2>1. \A x \in T : x \in rows /\ x.id \in Nat
      BY <1>9 DEF RowsOK, Row
  <2>2. \A x, y \in T : x # y => x.id # y.id
      BY <2>1 DEF RowsOK
  <2>3. \A x, y \in T : <<x, y>> \in IdPairs(p) <=> InOrder(p, x.id, y.id)
      BY <2>1 DEF IdPairs
  <2>4. QED
      BY <2>1, <2>2, <2>3 DEF Orders, InOrder
<1>11. Lists(q, T, IdPairs(p))
  <2>1. \A i, j \in 1..k : i < j => <<q[i], q[j]>> \in IdPairs(p)
    <3>1. \A i \in 1..k : q[i] \in rows
        BY <1>8, <1>9
    <3>2. QED
        BY <1>8, <3>1 DEF IdPairs
  <2>2. QED
      BY <1>8, <1>9, <2>1 DEF Lists
<1>12. Lists(Listing(T, IdPairs(p)), T, IdPairs(p))
    BY <1>9, <1>10, ListingLists
<1>13. q = Listing(T, IdPairs(p))
    BY <1>9, <1>10, <1>11, <1>12, ListsUnique
<1>14. QED
    BY <1>13 DEF S, near, T, q

\* A step of the cursor shows the rows next to the page shown, in the order of the
\* list (get_domain_sql_where, get_client_sql_where, get_domain_list, get_client_list).
THEOREM CursorIsExact == ListsSpec => CursorExact
<1>1. ASSUME ListsInv, NEW direction \in {"next", "prev"}, Step(direction),
             Supported(browse'.p),
             browse'.p.before # None \/ browse'.p.after # None =>
                /\ table = "domain"
                /\ Ordered(rows \cup Range(browse.page))
                /\ \A r \in Range(browse.page) : Matches(browse'.p, r)
      PROVE  browse'.page = Neighbours(browse'.p)
  <2> DEFINE p == Turned(direction)
             S == Selected(p)
             side == {r \in rows : /\ Matches(p, r)
                                   /\ IF p.direction = "next" THEN InOrder(p, p.cursor, r.id)
                                                              ELSE InOrder(p, r.id, p.cursor)}
  <2>1. /\ p \in Params /\ p.page_num = 1 /\ p.cursor # None /\ Offset(p) = 0
        /\ Shown(p, GetList(p))
      BY <1>1, TurnedAsks
  <2>2. browse'.p = p /\ browse'.page = GetList(p)
      BY <1>1, <2>1, ShownKeeps
  <2> HIDE DEF p
  <2>3. Supported(p)
      BY <1>1, <2>2
  <2>4. S = side
    <3>1. p.before # None \/ p.after # None =>
             /\ Ordered(rows \cup Range(browse.page))
             /\ \A r \in Range(browse.page) : Matches(p, r)
        BY <1>1, <2>2
    <3>2. p = Turned(direction)
        BY DEF p
    <3>3. QED
        BY <1>1, <2>3, <3>1, <3>2, StepSelects
  <2>5. GetList(p) = LET near(r) == {s \in S : IF p.direction = "next" THEN InOrder(p, s.id, r.id)
                                                                      ELSE InOrder(p, r.id, s.id)}
                     IN  Listing({r \in S : Cardinality(near(r)) < p.page_size}, IdPairs(p))
      BY <1>1, <2>1, <2>3, StepShowsNearest DEF ListsInv
  <2> HIDE DEF S
  <2>6. GetList(p) = Neighbours(p)
      BY <2>4, <2>5 DEF Neighbours, IdPairs
  <2>7. QED
      BY <2>2, <2>6
<1>2. ListsInv /\ [ListsNext]_vars =>
         [(\E direction \in {"next", "prev"} : Step(direction)) =>
             LET p == browse'.p
                 windowed == p.before # None \/ p.after # None
                 ordered  == /\ table = "domain"
                             /\ Ordered(rows \cup Range(browse.page))
                             /\ \A r \in Range(browse.page) : Matches(p, r)
             IN  Supported(p) /\ (windowed => ordered) => browse'.page = Neighbours(p)]_vars
    BY <1>1
<1>3. QED
    BY <1>2, ListsInvariant, PTL DEF ListsSpec, CursorExact

-----------------------------------------------------------------------------
(* The pages by number                                                     *)

\* Every place is on one of the pages, and every page has one of the places.
LEMMA PlacesOnPages ==
    ASSUME NEW count \in Nat, NEW size \in Nat \ {0}
    PROVE  /\ TotalPage(count, size) \in Nat
           /\ \A i \in 1..count : \E n \in 1..TotalPage(count, size) :
                 (n - 1) * size < i /\ i <= (n - 1) * size + size
           /\ \A n \in 1..TotalPage(count, size) : (n - 1) * size \in Nat /\ (n - 1) * size < count
<1> DEFINE d == count \div size
           m == count % size
           t == TotalPage(count, size)
<1>1. d \in Nat /\ m \in 0..(size - 1) /\ count = size * d + m
    OBVIOUS
<1>2. t = IF m # 0 THEN d + 1 ELSE d
    BY <1>1 DEF TotalPage
<1> HIDE DEF d, m, t
<1>3. t \in Nat
    BY <1>1, <1>2
<1>4. \A a, b \in Nat : size * a < size * b => a < b
    OBVIOUS
<1>5. \A a, b \in Nat : a <= b => size * a <= size * b
    OBVIOUS
<1>6. ASSUME NEW i \in 1..count
      PROVE  \E n \in 1..t : (n - 1) * size < i /\ i <= (n - 1) * size + size
  <2> DEFINE e == (i - 1) \div size
             f == (i - 1) % size
  <2>1. i - 1 \in Nat /\ e \in Nat /\ f \in 0..(size - 1) /\ i - 1 = size * e + f
      OBVIOUS
  <2> HIDE DEF e, f
  <2>2. e * size = size * e /\ (e + 1) - 1 = e
      BY <2>1
  <2>3. e * size < i /\ i <= e * size + size
      BY <2>1, <2>2
  <2>4. e + 1 \in 1..t
    <3>1. CASE m = 0
      <4>1. size * e < size * d
          BY <1>1, <2>1, <3>1
      <4>2. QED
          BY <1>1, <1>2, <1>4, <2>1, <3>1, <4>1
    <3>2. CASE m # 0
      <4>1. size * (d + 1) = size * d + size
          BY <1>1
      <4>2. size * e < size * (d + 1)
          BY <1>1, <2>1, <4>1
      <4>3. QED
          BY <1>1, <1>2, <1>4, <2>1, <3>2, <4>2
    <3>3. QED
        BY <3>1, <3>2
  <2>5. \A n \in 1..t : n = e + 1 => (n - 1) * size < i /\ i <= (n - 1) * size + size
      BY <2>2, <2>3, Zenon
  <2>6. QED
      BY <2>4, <2>5
<1>7. ASSUME NEW n \in 1..t
      PROVE  (n - 1) * size \in Nat /\ (n - 1) * size < count
  <2>1. n - 1 \in Nat /\ (n - 1) * size = size * (n - 1) /\ (n - 1) * size \in Nat
      BY <1>3
  <2>2. CASE m = 0
    <3>1. d - 1 \in Nat /\ n - 1 <= d - 1
        BY <1>1, <1>2, <2>2
    <3>2. size * (d - 1) = size * d - size
        BY <1>1
    <3>3. size * (n - 1) <= size * (d - 1)
        BY <1>5, <2>1, <3>1
    <3>4. size * (n - 1) \in Nat /\ size * d \in Nat
        BY <1>1, <2>1
    <3>5. QED
        BY <1>1, <2>1, <2>2, <3>2, <3>3, <3>4
  <2>3. CASE m # 0
    <3>1. n - 1 <= d
        BY <1>1, <1>2, <2>3
    <3>2. size * (n - 1) <= size * d
        BY <1>1, <1>5, <2>1, <3>1
    <3>3. size * (n - 1) \in Nat /\ size * d \in Nat
        BY <1>1, <2>1
    <3>4. QED
        BY <1>1, <2>1, <2>3, <3>2, <3>3
  <2>4. QED
      BY <2>2, <2>3
<1>8. QED
    BY <1>3, <1>6, <1>7 DEF t

\* A place is on one page only.
LEMMA SamePage ==
    ASSUME NEW x \in Nat, NEW y \in Nat, NEW size \in Nat \ {0},
           NEW a \in 1..size, NEW b \in 1..size, x * size + a = y * size + b
    PROVE  x = y
<1>1. \A v, w \in Nat : v < w => v * size + size <= w * size
  <2>1. SUFFICES ASSUME NEW v \in Nat, NEW w \in Nat, v < w PROVE v * size + size <= w * size
      OBVIOUS
  <2>2. PICK d \in Nat : w = v + 1 + d
    <3>1. w - v - 1 \in Nat /\ w = v + 1 + (w - v - 1)
        BY <2>1
    <3>2. QED
        BY <3>1
  <2>3. w * size = v * size + size + d * size
      BY <2>2
  <2>4. d * size \in Nat /\ v * size \in Nat
      OBVIOUS
  <2>5. QED
      BY <2>3, <2>4
<1>2. x * size \in Nat /\ y * size \in Nat
    OBVIOUS
<1>3. ~(x < y)
  <2>1. SUFFICES ASSUME x < y PROVE FALSE
      OBVIOUS
  <2>2. x * size + size <= y * size
      BY <1>1, <2>1
  <2>3. QED
      BY <1>2, <2>2
<1>4. ~(y < x)
  <2>1. SUFFICES ASSUME y < x PROVE FALSE
      OBVIOUS
  <2>2. y * size + size <= x * size
      BY <1>1, <2>1
  <2>3. QED
      BY <1>2, <2>2
<1>5. QED
    BY <1>3, <1>4

\* Pages asked for by number, from the first to the total of the answer, show every
\* row at one place of one page, and none of them is empty (page_num, page_size and total_page of
\* api_domain_get_list and api_client_get_list).
THEOREM PagesArePartition == ListsSpec => []PagesPartition
<1>1. ListsInv => PagesPartition
  <2> DEFINE p == browse.p
             S == Selected(p)
             count == Cardinality(S)
             size == p.page_size
             page(n) == GetList([p EXCEPT !.page_num = n])
             pages == TotalPage(count, size)
  <2>1. SUFFICES ASSUME ListsInv, p.cursor = None, p.total = GetListCount(p)
                 PROVE  /\ UNION {Range(page(n)) : n \in 1..pages} = S
                        /\ \A n \in 1..pages : page(n) # << >>
                        /\ \A n, m \in 1..pages :
                              \A i \in DOMAIN page(n), j \in DOMAIN page(m) :
                                 page(n)[i] = page(m)[j] => n = m /\ i = j
      BY DEF PagesPartition, GetListCount
  <2>2. RowsOK /\ p \in Params
      BY <2>1 DEF ListsInv, ReaderOK
  <2>3. count \in Nat /\ size \in Nat \ {0}
    <3>1. count \in Nat
        BY <2>2, SortedLists
    <3>2. QED
        BY <2>2, <3>1, ListsAssumption DEF Params
  <2> HIDE DEF p
  <2>4. /\ pages \in Nat
        /\ \A i \in 1..count : \E n \in 1..pages :
              (n - 1) * size < i /\ i <= (n - 1) * size + size
        /\ \A n \in 1..pages : (n - 1) * size \in Nat /\ (n - 1) * size < count
      BY <2>3, PlacesOnPages
  <2>5. ASSUME NEW n \in 1..pages
        PROVE  LET o == (n - 1) * size
                   k == Fill(count, o, size)
               IN  /\ k \in Nat \ {0} /\ Len(page(n)) = k /\ DOMAIN page(n) = 1..k
                   /\ \A i \in DOMAIN page(n) : page(n)[i] \in S
                   /\ \A j \in 1..k : \E i \in DOMAIN page(n) : page(n)[i] = Sorted(p)[o + j]
                   /\ \A i \in DOMAIN page(n) : \E j \in 1..k : page(n)[i] = Sorted(p)[o + j]
                   /\ \A i, j \in DOMAIN page(n) : page(n)[i] = page(n)[j] => i = j
                   /\ k <= size
    <3> DEFINE r == [p EXCEPT !.page_num = n]
               o == (n - 1) * size
               k == Fill(count, o, size)
    <3>1. /\ r \in Params /\ r.page_num = n /\ r.page_size = size /\ r.cursor = None
          /\ r.order = p.order /\ r.key = p.key /\ r.like = p.like /\ r.before = p.before
          /\ r.after = p.after /\ r.direction = p.direction /\ r.total = p.total
          /\ p.cursor = None
      <4>1. n \in Nat \ {0}
          BY <2>4
      <4>2. QED
          BY <2>1, <2>2, <4>1 DEF Params
    <3> HIDE DEF r
    <3>2. Offset(r) = o /\ o \in Nat /\ o < count
        BY <2>4, <3>1 DEF Offset
    <3>3. \A w : Where(r, w) <=> Where(p, w)
        BY <3>1, FirstBounds DEF Matches
    <3>4. /\ OrderTimestampFirst(r) <=> OrderTimestampFirst(p)
          /\ OrderDesc(r) <=> OrderDesc(p)
        BY <3>1 DEF OrderTimestampFirst, OrderDesc, DescOrder, Asc, HasCursor
    <3>5. \A a, b : OrderBy(r, a, b) <=> OrderBy(p, a, b)
        BY <3>4 DEF OrderBy, Less
    <3>6. Selected(r) = S
        BY <3>3 DEF Selected
    <3>7. Sorted(r) = Sorted(p)
      <4>1. OrderPairs(r) = OrderPairs(p)
          BY <3>5 DEF OrderPairs
      <4>2. Sorted(r) = Listing(Selected(r), OrderPairs(r)) /\ Sorted(p) = Listing(S, OrderPairs(p))
          BY DEF Sorted, OrderPairs
      <4>3. QED
          BY <3>6, <4>1, <4>2
    <3>8. k \in Nat \ {0} /\ k <= size
        BY <2>3, <3>2 DEF Fill
    <3>9. /\ Len(Limited(r)) = k /\ DOMAIN Limited(r) = 1..k
           /\ \A j \in 1..k : Limited(r)[j] = Sorted(p)[o + j]
      <4>1. /\ Limited(r) \in Seq(Selected(r))
            /\ Len(Limited(r)) = Fill(Cardinality(Selected(r)), Offset(r), r.page_size)
            /\ \A j \in 1..Len(Limited(r)) : Limited(r)[j] = Sorted(r)[Offset(r) + j]
          BY <2>2, <3>1, LimitedPlaces
      <4>2. QED
          BY <3>1, <3>2, <3>6, <3>7, <4>1
    <3>10. /\ page(n) = GetList(r)
           /\ GetList(r) \in Seq(Selected(r)) /\ Len(GetList(r)) = Len(Limited(r))
           /\ \A i \in DOMAIN GetList(r) : GetList(r)[i] \in Selected(r)
           /\ \A j \in DOMAIN Limited(r) : \E i \in DOMAIN GetList(r) :
                 GetList(r)[i] = Limited(r)[j]
           /\ \A i \in DOMAIN GetList(r) : \E j \in DOMAIN Limited(r) :
                 GetList(r)[i] = Limited(r)[j]
        BY <2>2, <3>1, GetListRows DEF r
    <3>a. \A i, j \in DOMAIN page(n) : page(n)[i] = page(n)[j] => i = j
      <4>1. page(n) = GetList(r)
          BY <3>10
      <4> HIDE DEF page
      <4>2. QED
          BY <2>2, <3>1, <4>1, GetListOnce
    <3> HIDE DEF page, k, o
    <3>11. /\ Len(page(n)) = k /\ DOMAIN page(n) = 1..k
           /\ \A i \in DOMAIN page(n) : page(n)[i] \in S
           /\ \A j \in 1..k : \E i \in DOMAIN page(n) : page(n)[i] = Sorted(p)[o + j]
           /\ \A i \in DOMAIN page(n) : \E j \in 1..k : page(n)[i] = Sorted(p)[o + j]
      <4> DEFINE g == GetList(r)
                 l == Limited(r)
                 z == Sorted(p)
      <4>1. /\ page(n) = g /\ g \in Seq(S) /\ Len(g) = k
            /\ \A i \in DOMAIN g : g[i] \in S
          BY <3>6, <3>9, <3>10
      <4>2. /\ \A j \in 1..k : l[j] = z[o + j]
            /\ \A i \in DOMAIN g : \E j \in 1..k : g[i] = l[j]
            /\ \A j \in 1..k : \E i \in DOMAIN g : g[i] = l[j]
          BY <3>9, <3>10
      <4> HIDE DEF g, l, z
      <4>3. DOMAIN g = 1..k
          BY <4>1
      <4>4. Len(page(n)) = k /\ DOMAIN page(n) = 1..k /\ \A i \in DOMAIN page(n) : page(n)[i] \in S
          BY <4>1, <4>3
      <4>5. ASSUME NEW i \in DOMAIN page(n) PROVE \E j \in 1..k : page(n)[i] = Sorted(p)[o + j]
        <5>1. PICK j \in 1..k : page(n)[i] = l[j]
            BY <4>1, <4>2
        <5>2. page(n)[i] = Sorted(p)[o + j]
            BY <4>2, <5>1 DEF z
        <5>3. QED
            BY <5>2
      <4>6. ASSUME NEW j \in 1..k PROVE \E i \in DOMAIN page(n) : page(n)[i] = Sorted(p)[o + j]
        <5>1. PICK i \in DOMAIN page(n) : page(n)[i] = l[j]
            BY <4>1, <4>2
        <5>2. page(n)[i] = Sorted(p)[o + j]
            BY <4>2, <5>1 DEF z
        <5>3. QED
            BY <5>2
      <4>7. QED
          BY <4>4, <4>5, <4>6
    <3>12. QED
        BY <3>8, <3>a, <3>11 DEF k, o
  <2>6. /\ \A x \in S : \E i \in 1..count : Sorted(p)[i] = x
        /\ \A i, j \in 1..count : Sorted(p)[i] = Sorted(p)[j] => i = j
    <3>1. Lists(Sorted(p), S, OrderPairs(p))
        BY <2>2, SortedLists
    <3>2. QED
        BY <2>2, <3>1, SortedLists, ListsOnto
  <2> HIDE DEF page, pages, S, count, size
  <2>7. \A n \in 1..pages : Range(page(n)) \subseteq S
      BY <2>5 DEF Range
  <2>8. ASSUME NEW x \in S
        PROVE  \E n \in 1..pages : x \in Range(page(n))
    <3>1. PICK i \in 1..count : Sorted(p)[i] = x
        BY <2>6
    <3>2. PICK n \in 1..pages : (n - 1) * size < i /\ i <= (n - 1) * size + size
        BY <2>4
    <3> DEFINE o == (n - 1) * size
               k == Fill(count, o, size)
    <3>3. \A j \in 1..k : \E z \in DOMAIN page(n) : page(n)[z] = Sorted(p)[o + j]
        BY <2>5
    <3>4. o \in Nat /\ o < i /\ i <= o + size
        BY <2>4, <3>2
    <3> HIDE DEF o
    <3>5. i - o \in 1..k /\ o + (i - o) = i
        BY <2>3, <3>4 DEF Fill
    <3>6. PICK z \in DOMAIN page(n) : page(n)[z] = Sorted(p)[o + (i - o)]
        BY <3>3, <3>5
    <3>7. page(n)[z] = x
        BY <3>1, <3>5, <3>6
    <3>8. QED
        BY <3>7 DEF Range
  <2>9. UNION {Range(page(n)) : n \in 1..pages} = S
      BY <2>7, <2>8
  <2>10. \A n \in 1..pages : page(n) # << >>
    <3>1. SUFFICES ASSUME NEW n \in 1..pages, page(n) = << >> PROVE FALSE
        OBVIOUS
    <3>2. Len(page(n)) = Fill(count, (n - 1) * size, size)
          /\ Fill(count, (n - 1) * size, size) \in Nat \ {0}
        BY <2>5
    <3>3. Len(page(n)) = 0
        BY <3>1
    <3>4. QED
        BY <3>2, <3>3
  <2>11. ASSUME NEW n \in 1..pages, NEW m \in 1..pages,
                NEW i \in DOMAIN page(n), NEW j \in DOMAIN page(m), page(n)[i] = page(m)[j]
         PROVE  n = m /\ i = j
    <3> DEFINE o == (n - 1) * size
               u == (m - 1) * size
               s == Sorted(p)
    <3>1. PICK a \in 1..Fill(count, o, size) : page(n)[i] = s[o + a]
        BY <2>5
    <3>2. PICK b \in 1..Fill(count, u, size) : page(m)[j] = s[u + b]
        BY <2>5
    <3>3. o \in Nat /\ o < count /\ u \in Nat /\ u < count
        BY <2>4
    <3> HIDE DEF s
    <3>4. a \in 1..size /\ b \in 1..size /\ o + a \in 1..count /\ u + b \in 1..count
      <4> HIDE DEF o, u
      <4>1. QED
          BY <2>3, <3>3 DEF Fill
    <3>5. o + a = u + b
      <4>1. \A x, y \in 1..count : s[x] = s[y] => x = y
          BY <2>6 DEF s
      <4> HIDE DEF o, u
      <4>2. s[o + a] = s[u + b]
          BY <2>11, <3>1, <3>2
      <4>3. QED
          BY <3>4, <4>1, <4>2
    <3>6. n = m
      <4>1. n - 1 \in Nat /\ m - 1 \in Nat
          BY <2>4
      <4>2. (n - 1) * size + a = (m - 1) * size + b
          BY <3>5
      <4>3. n - 1 = m - 1
          BY <2>3, <3>4, <4>1, <4>2, SamePage
      <4>4. QED
          BY <2>4, <4>3
    <3>7. QED
        BY <2>5, <2>11, <3>6
  <2>12. QED
      BY <2>9, <2>10, <2>11
<1>2. QED
    BY <1>1, ListsInvariant, PTL
=============================================================================
