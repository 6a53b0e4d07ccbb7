------------------------ MODULE PagedQueries_proofs ------------------------
(***************************************************************************)
(* Proofs about PagedQueries, for whatever tables the schema allows and    *)
(* whatever a client asks for.                                             *)
(***************************************************************************)
EXTENDS PagedQueries, WellFoundedInduction, FiniteSetTheorems, FunctionTheorems, SequenceTheorems, TLAPS

(***************************************************************************)
(* Lists: what SetToSeq, Sorted and RowsAt make of finite sets.            *)
(***************************************************************************)
\* A set of numbers that holds something holds a least one: what takes the
\* place of an induction in the proofs below.
LEMMA LeastNumber ==
  ASSUME NEW T \in SUBSET Nat, T # {}
  PROVE  \E x \in T : \A y \in T : x <= y
<1> DEFINE R == OpToRel(<, Nat)
<1>1. IsWellFoundedOn(R, Nat)
  BY NatLessThanWellFounded
<1>2. \E x \in T : \A y \in T : ~(<<y, x>> \in R)
  <2> HIDE DEF R
  <2> QED BY <1>1, WFMin
<1>3. PICK x \in T : \A y \in T : ~(<<y, x>> \in R)
  BY <1>2
<1>4. ASSUME NEW y \in T, y < x PROVE FALSE
  <2>1. <<y, x>> \in R
    BY <1>4 DEF OpToRel
  <2> QED BY <1>3, <2>1
<1>5. \A y \in T : x <= y
  <2> HIDE DEF R
  <2> SUFFICES ASSUME NEW y \in T PROVE x <= y
    OBVIOUS
  <2>1. ~(y < x) BY <1>4
  <2>2. x \in Nat /\ y \in Nat OBVIOUS
  <2> HIDE <1>3
  <2> QED BY ONLY <2>1, <2>2
<1> QED BY <1>5

\* In a strict total order of finitely many things every place is taken: for
\* each number below theirs there is one thing with that many before it.
LEMMA Places ==
  ASSUME NEW S, IsFiniteSet(S), NEW R,
         \A i \in S : <<i, i>> \notin R,
         \A i, j \in S : i # j => <<i, j>> \in R \/ <<j, i>> \in R,
         \A i, j, k \in S : <<i, j>> \in R /\ <<j, k>> \in R => <<i, k>> \in R
  PROVE  /\ Cardinality(S) \in Nat
         /\ \A k \in 1..Cardinality(S) : \E i \in S : Cardinality({j \in S : <<j, i>> \in R}) = k - 1
<1> DEFINE n == Cardinality(S)
           before(i) == {j \in S : <<j, i>> \in R}
           place == [i \in S |-> Cardinality(before(i)) + 1]
<1>1. n \in Nat
  BY FS_CardinalityType
<1>2. ASSUME NEW i \in S
      PROVE  IsFiniteSet(before(i)) /\ Cardinality(before(i)) \in Nat /\ i \notin before(i)
  <2>1. before(i) \in SUBSET S /\ i \notin before(i)
    OBVIOUS
  <2> HIDE DEF before
  <2> QED BY <2>1, FS_Subset, FS_CardinalityType
<1>3. ASSUME NEW i \in S PROVE place[i] \in 1..n
  <2>1. before(i) \in SUBSET S /\ before(i) # S
    BY <1>2
  <2>2. Cardinality(before(i)) \in Nat
    BY <1>2
  <2>3. place[i] = Cardinality(before(i)) + 1
    OBVIOUS
  <2> HIDE DEF before, place
  <2>4. Cardinality(before(i)) <= n /\ Cardinality(before(i)) # n
    BY <2>1, FS_Subset
  <2> HIDE DEF n
  <2> QED BY <1>1, <2>2, <2>3, <2>4
<1>4. ASSUME NEW i \in S, NEW j \in S, <<i, j>> \in R
      PROVE  Cardinality(before(i)) < Cardinality(before(j))
  <2>1. before(i) \subseteq before(j) /\ i \in before(j) /\ i \notin before(i)
    BY <1>4
  <2>2. IsFiniteSet(before(j)) /\ Cardinality(before(i)) \in Nat /\ Cardinality(before(j)) \in Nat
    BY <1>2
  <2> HIDE DEF before
  <2>3. before(i) \in SUBSET before(j) /\ before(i) # before(j)
    BY <2>1
  <2>4. Cardinality(before(i)) <= Cardinality(before(j)) /\ Cardinality(before(i)) # Cardinality(before(j))
    BY <2>2, <2>3, FS_Subset
  <2> QED BY <2>2, <2>4
<1>5. ASSUME NEW i \in S, NEW j \in S, i # j, place[i] = place[j] PROVE FALSE
  <2>1. Cardinality(before(i)) \in Nat /\ Cardinality(before(j)) \in Nat
    BY <1>2
  <2>2. <<i, j>> \in R \/ <<j, i>> \in R
    BY <1>5
  <2>3. Cardinality(before(i)) < Cardinality(before(j)) \/ Cardinality(before(j)) < Cardinality(before(i))
    <3> HIDE DEF before, place, n
    <3> QED BY <1>4, <2>2
  <2>4. Cardinality(before(i)) + 1 = Cardinality(before(j)) + 1
    BY <1>5
  <2> HIDE DEF before, place
  <2> QED BY <2>1, <2>3, <2>4
<1>6. place \in Injection(S, 1..n)
  <2>1. place \in [S -> 1..n] BY <1>3
  <2> HIDE DEF place
  <2> QED BY <1>5, <2>1 DEF Injection, IsInjective
<1>7. place \in Surjection(S, 1..n)
  <2>1. IsFiniteSet(1..n) /\ Cardinality(1..n) = n
    BY <1>1, FS_Interval
  <2> HIDE DEF place
  <2> QED BY <1>6, <2>1, FS_Injection
<1>8. ASSUME NEW k \in 1..n PROVE \E i \in S : Cardinality(before(i)) = k - 1
  <2>1. PICK i \in S : place[i] = k
    <3> HIDE DEF place
    <3> QED BY <1>7 DEF Surjection
  <2>2. Cardinality(before(i)) + 1 = k BY <2>1
  <2>3. Cardinality(before(i)) \in Nat BY <1>2
  <2> HIDE DEF before, place
  <2> QED BY <2>2, <2>3
<1> QED BY <1>1, <1>8

\* SetToSeq lists a finite set, each element once.
LEMMA SetsAreListed ==
  ASSUME NEW S, IsFiniteSet(S)
  PROVE  /\ Cardinality(S) \in Nat
         /\ SetToSeq(S) \in [1..Cardinality(S) -> S]
         /\ \A i, j \in 1..Cardinality(S) : SetToSeq(S)[i] = SetToSeq(S)[j] => i = j
<1>1. Cardinality(S) \in Nat /\ ExistsBijection(1..Cardinality(S), S)
  BY FS_CardinalityType
<1>2. PICK f : f \in Bijection(1..Cardinality(S), S)
  BY <1>1 DEF ExistsBijection
<1>3. f \in [1..Cardinality(S) -> S] /\ IsInjective(f)
  BY <1>2 DEF Bijection, Injection
<1>4. SetToSeq(S) \in [1..Cardinality(S) -> S] /\ IsInjective(SetToSeq(S))
  BY <1>3 DEF SetToSeq
<1>5. \A n, s : s \in [1..n -> S] /\ IsInjective(s) => \A i, j \in 1..n : s[i] = s[j] => i = j
  BY DEF IsInjective
<1>6. \A i, j \in 1..Cardinality(S) : SetToSeq(S)[i] = SetToSeq(S)[j] => i = j
  BY <1>4, <1>5, Zenon
<1> QED BY <1>1, <1>4, <1>6

\* The rows kept are rows, as many as their positions.
LEMMA RowsAreKept ==
  ASSUME NEW n \in Nat, NEW S, NEW rows \in [1..n -> S], NEW kept \in SUBSET (1..n)
  PROVE  /\ Cardinality(kept) \in 0..n
         /\ RowsAt(rows, kept) \in [1..Cardinality(kept) -> S]
<1> DEFINE R == {p \in kept \X kept : p[1] < p[2]}
           before(i) == {j \in kept : j < i}
<1>1. IsFiniteSet(1..n) /\ Cardinality(1..n) = n
  BY FS_Interval
<1>2. IsFiniteSet(kept) /\ Cardinality(kept) \in Nat /\ Cardinality(kept) <= n
  <2> DEFINE P == 1..n
  <2>1. IsFiniteSet(P) /\ Cardinality(P) = n /\ kept \in SUBSET P
    BY <1>1
  <2> HIDE DEF P
  <2>2. IsFiniteSet(kept) /\ Cardinality(kept) <= Cardinality(P)
    BY <2>1, FS_Subset
  <2> QED BY <2>1, <2>2, FS_CardinalityType
<1>3. \A k \in 1..Cardinality(kept) : \E i \in kept : Cardinality({j \in kept : <<j, i>> \in R}) = k - 1
  <2>1. /\ \A i \in kept : <<i, i>> \notin R
        /\ \A i, j \in kept : i # j => <<i, j>> \in R \/ <<j, i>> \in R
        /\ \A i, j, k \in kept : <<i, j>> \in R /\ <<j, k>> \in R => <<i, k>> \in R
    OBVIOUS
  <2>2. IsFiniteSet(kept) BY <1>2
  <2> HIDE DEF R, before
  <2> QED BY ONLY <2>1, <2>2, Places, ZenonT(20)
<1>4. \A i \in kept : {j \in kept : <<j, i>> \in R} = before(i)
  OBVIOUS
<1>5. \A k \in 1..Cardinality(kept) : \E i \in kept : Cardinality(before(i)) = k - 1
  <2> HIDE DEF R, before
  <2> QED BY <1>3, <1>4
<1>6. ASSUME NEW k \in 1..Cardinality(kept)
      PROVE  (CHOOSE i \in kept : Cardinality(before(i)) = k - 1) \in kept
  <2> HIDE DEF before
  <2> QED BY <1>5
<1> DEFINE at(k) == CHOOSE i \in kept : Cardinality(before(i)) = k - 1
<1>7. RowsAt(rows, kept) = [k \in 1..Cardinality(kept) |-> rows[at(k)]]
  BY DEF RowsAt
<1>8. \A k \in 1..Cardinality(kept) : at(k) \in kept
  BY <1>6
<1> DEFINE m == Cardinality(kept)
<1> HIDE DEF at, m
<1>9. RowsAt(rows, kept) \in [1..m -> S]
  <2>1. \A k \in 1..m : rows[at(k)] \in S
    BY <1>8 DEF m
  <2> QED BY <1>7, <2>1 DEF m
<1> QED BY <1>2, <1>9 DEF m

\* Which of two rows InOrder lists first: the first of their ranks that
\* differs tells, and of rows with equal ranks none is ahead.
Precedes(a, b) ==
  \/ a[1] < b[1]
  \/ a[1] = b[1] /\ a[2] < b[2]
  \/ a[1] = b[1] /\ a[2] = b[2] /\ a[3] < b[3]
  \/ a[1] = b[1] /\ a[2] = b[2] /\ a[3] = b[3] /\ a[4] < b[4]
Ranks == Int \X Int \X Int \X Int

\* Before compares rank by rank, as Precedes spells out.
LEMMA RanksDecide ==
  ASSUME NEW a \in Ranks, NEW b \in Ranks, NEW x, NEW y, x # y
  PROVE  Before([i \in 1..4 |-> <<a[i], b[i]>>], x, y) <=> Precedes(a, b)
<1> DEFINE r == [i \in 1..4 |-> <<a[i], b[i]>>]
<1>1. DOMAIN r = 1..4 /\ \A i \in 1..4 : r[i] = <<a[i], b[i]>>
  OBVIOUS
<1>2. \A i \in 1..4 : r[i][1] = a[i] /\ r[i][2] = b[i]
  OBVIOUS
<1>3. a[1] \in Int /\ a[2] \in Int /\ a[3] \in Int /\ a[4] \in Int
  BY DEF Ranks
<1>4. b[1] \in Int /\ b[2] \in Int /\ b[3] \in Int /\ b[4] \in Int
  BY DEF Ranks
<1> HIDE DEF r
<1>5. Before(r, x, y) <=> \E i \in 1..4 : /\ a[i] # b[i] /\ a[i] < b[i]
                                           /\ \A j \in 1..(i - 1) : a[j] = b[j]
  <2>1. \A i \in 1..4 : \A j \in 1..(i - 1) : r[j][1] = r[j][2] <=> a[j] = b[j]
    BY <1>2
  <2>2. ASSUME Before(r, x, y)
        PROVE  \E i \in 1..4 : a[i] # b[i] /\ a[i] < b[i] /\ \A j \in 1..(i - 1) : a[j] = b[j]
    <3>1. PICK i \in 1..4 : /\ r[i][1] # r[i][2] /\ r[i][1] < r[i][2]
                            /\ \A j \in 1..(i - 1) : r[j][1] = r[j][2]
      BY <1>1, <2>2 DEF Before
    <3> QED BY <1>2, <2>1, <3>1
  <2>3. ASSUME NEW i \in 1..4, a[i] # b[i], a[i] < b[i], \A j \in 1..(i - 1) : a[j] = b[j]
        PROVE  Before(r, x, y)
    <3>1. /\ r[i][1] # r[i][2] /\ r[i][1] < r[i][2]
          /\ \A j \in 1..(i - 1) : r[j][1] = r[j][2]
      BY <1>2, <2>1, <2>3
    <3> QED BY <1>1, <3>1 DEF Before
  <2> QED BY <2>2, <2>3
<1>6. ASSUME Before(r, x, y) PROVE Precedes(a, b)
  <2>1. PICK i \in 1..4 : a[i] < b[i] /\ \A j \in 1..(i - 1) : a[j] = b[j]
    BY <1>5, <1>6
  <2>2. CASE i = 1 BY <2>1, <2>2 DEF Precedes
  <2>3. CASE i = 2 BY <2>1, <2>3 DEF Precedes
  <2>4. CASE i = 3 BY <2>1, <2>4 DEF Precedes
  <2>5. CASE i = 4 BY <2>1, <2>5 DEF Precedes
  <2> QED BY <2>2, <2>3, <2>4, <2>5
<1>7. ASSUME Precedes(a, b) PROVE Before(r, x, y)
  <2>1. \E i \in 1..4 : a[i] # b[i] /\ a[i] < b[i] /\ \A j \in 1..(i - 1) : a[j] = b[j]
    <3>1. CASE a[1] < b[1]
      BY <1>3, <1>4, <3>1
    <3>2. CASE a[1] = b[1] /\ a[2] < b[2]
      BY <1>3, <1>4, <3>2
    <3>3. CASE a[1] = b[1] /\ a[2] = b[2] /\ a[3] < b[3]
      BY <1>3, <1>4, <3>3
    <3>4. CASE a[1] = b[1] /\ a[2] = b[2] /\ a[3] = b[3] /\ a[4] < b[4]
      BY <1>3, <1>4, <3>4
    <3> QED BY <1>7, <3>1, <3>2, <3>3, <3>4 DEF Precedes
  <2> QED BY <1>5, <2>1
<1> QED BY <1>6, <1>7 DEF r

\* It is a strict order, and to be level with one another is transitive.
LEMMA RanksAreOrdered ==
  ASSUME NEW a \in Ranks, NEW b \in Ranks, NEW c \in Ranks
  PROVE  /\ ~Precedes(a, a)
         /\ Precedes(a, b) => ~Precedes(b, a)
         /\ Precedes(a, b) /\ Precedes(b, c) => Precedes(a, c)
         /\ ~Precedes(a, b) /\ ~Precedes(b, c) => ~Precedes(a, c)
<1>1. /\ a[1] \in Int /\ a[2] \in Int /\ a[3] \in Int /\ a[4] \in Int
      /\ b[1] \in Int /\ b[2] \in Int /\ b[3] \in Int /\ b[4] \in Int
      /\ c[1] \in Int /\ c[2] \in Int /\ c[3] \in Int /\ c[4] \in Int
  BY DEF Ranks
<1>2. ~Precedes(a, a) /\ (Precedes(a, b) => ~Precedes(b, a))
  BY ONLY <1>1 DEF Precedes
<1>3. Precedes(a, b) /\ Precedes(b, c) => Precedes(a, c)
  BY ONLY <1>1 DEF Precedes
<1>4. ~Precedes(a, b) /\ ~Precedes(b, c) => ~Precedes(a, c)
  BY ONLY <1>1 DEF Precedes
<1> QED BY <1>2, <1>3, <1>4

\* Sorting a list puts each of its rows at one place: a relation that orders
\* the ranks strictly, with the positions for those that tie, is an order.
LEMMA SortedLists ==
  ASSUME NEW n \in Nat, NEW S, NEW rows \in [1..n -> S], NEW rank \in [1..n -> Ranks]
  PROVE  \A k \in 1..n : \E i \in 1..n :
           Cardinality({j \in 1..n : \/ Precedes(rank[j], rank[i])
                                     \/ j < i /\ ~Precedes(rank[i], rank[j])}) = k - 1
<1> DEFINE R == {p \in (1..n) \X (1..n) : \/ Precedes(rank[p[1]], rank[p[2]])
                                          \/ p[1] < p[2] /\ ~Precedes(rank[p[2]], rank[p[1]])}
<1>1. IsFiniteSet(1..n) /\ Cardinality(1..n) = n
  BY FS_Interval
<1>2. \A a, b, c \in Ranks :
        /\ ~Precedes(a, a)
        /\ Precedes(a, b) => ~Precedes(b, a)
        /\ Precedes(a, b) /\ Precedes(b, c) => Precedes(a, c)
        /\ ~Precedes(a, b) /\ ~Precedes(b, c) => ~Precedes(a, c)
  BY RanksAreOrdered
<1>3. \A i, j \in 1..n : <<i, j>> \in R <=> \/ Precedes(rank[i], rank[j])
                                            \/ i < j /\ ~Precedes(rank[j], rank[i])
  OBVIOUS
<1> HIDE DEF R
<1>4. \A i \in 1..n : <<i, i>> \notin R
  BY <1>2, <1>3
<1>5. \A i, j \in 1..n : i # j => <<i, j>> \in R \/ <<j, i>> \in R
  BY <1>2, <1>3
<1>6. ASSUME NEW i \in 1..n, NEW j \in 1..n, NEW k \in 1..n, <<i, j>> \in R, <<j, k>> \in R
      PROVE  <<i, k>> \in R
  <2>1. rank[i] \in Ranks /\ rank[j] \in Ranks /\ rank[k] \in Ranks
    OBVIOUS
  <2>2. Precedes(rank[i], rank[j]) \/ (i < j /\ ~Precedes(rank[j], rank[i]))
    BY <1>3, <1>6
  <2>3. Precedes(rank[j], rank[k]) \/ (j < k /\ ~Precedes(rank[k], rank[j]))
    BY <1>3, <1>6
  <2>4. Precedes(rank[i], rank[k]) \/ (i < k /\ ~Precedes(rank[k], rank[i]))
    BY <1>2, <2>1, <2>2, <2>3
  <2> QED BY <1>3, <2>4
<1>7. \A i, j, k \in 1..n : <<i, j>> \in R /\ <<j, k>> \in R => <<i, k>> \in R
  BY <1>6
<1>8. \A k \in 1..Cardinality(1..n) : \E i \in 1..n : Cardinality({j \in 1..n : <<j, i>> \in R}) = k - 1
  <2> DEFINE P == 1..n
  <2>1. /\ IsFiniteSet(P)
        /\ \A i \in P : <<i, i>> \notin R
        /\ \A i, j \in P : i # j => <<i, j>> \in R \/ <<j, i>> \in R
        /\ \A i, j, k \in P : <<i, j>> \in R /\ <<j, k>> \in R => <<i, k>> \in R
    BY <1>1, <1>4, <1>5, <1>7
  <2> HIDE DEF P
  <2>2. \A k \in 1..Cardinality(P) : \E i \in P : Cardinality({j \in P : <<j, i>> \in R}) = k - 1
    BY <2>1, Places
  <2> QED BY <2>2 DEF P
<1>9. \A i \in 1..n : {j \in 1..n : <<j, i>> \in R}
                        = {j \in 1..n : \/ Precedes(rank[j], rank[i])
                                        \/ j < i /\ ~Precedes(rank[i], rank[j])}
  BY <1>3
<1> QED BY <1>1, <1>8, <1>9

\* The order of a query lists rows of the set it is given, as many as it has.
LEMMA RowsInOrder ==
  ASSUME NEW db, TablesHold(db), NEW kind \in Paged \cup {"dependencies"},
         NEW found \in SUBSET RowsOf(kind, db)
  PROVE  /\ IsFiniteSet(found) /\ Cardinality(found) \in Nat
         /\ InOrder(kind, found) \in [1..Cardinality(found) -> found]
<1> DEFINE q == SetToSeq(found)
           n == Cardinality(found)
           rank == [i \in 1..n |-> RankOf(kind, q[i])]
           Ahead(left, right) == Before([i \in 1..4 |-> <<RankOf(kind, left)[i], RankOf(kind, right)[i]>>], left, right)
           before(i) == {j \in DOMAIN q : Ahead(q[j], q[i]) \/ (j < i /\ ~Ahead(q[i], q[j]))}
           at(k) == CHOOSE i \in DOMAIN q : Cardinality(before(i)) = k - 1
<1>1. IsFiniteSet(found)
  <2>1. IsFiniteSet(RowsOf(kind, db))
    BY DEF TablesHold, HaveKeys, RowsOf, Paged
  <2> QED BY <2>1, FS_Subset
<1>2. \A row \in found : RankOf(kind, row) \in Ranks
  <2>1. CASE kind = "symbols"
    BY <2>1 DEF TablesHold, RowsOf, RankOf, Ranks, SymbolRow
  <2>2. CASE kind = "fields"
    BY <2>2 DEF TablesHold, RowsOf, RankOf, Ranks, FieldRow
  <2>3. CASE kind = "fieldDependencies"
    BY <2>3 DEF TablesHold, RowsOf, RankOf, Ranks, UseRow
  <2>4. CASE kind = "dependencies"
    BY <2>4 DEF TablesHold, RowsOf, RankOf, Ranks, DependencyRow
  <2> QED BY <2>1, <2>2, <2>3, <2>4 DEF Paged
<1>3. n \in Nat /\ q \in [1..n -> found]
  BY <1>1, SetsAreListed
<1>4. rank \in [1..n -> Ranks]
  BY <1>2, <1>3
<1>5. ASSUME NEW i \in 1..n, NEW j \in 1..n PROVE Ahead(q[i], q[j]) <=> Precedes(rank[i], rank[j])
  <2>1. CASE q[i] # q[j]
    <3>1. RankOf(kind, q[i]) \in Ranks /\ RankOf(kind, q[j]) \in Ranks
      BY <1>2, <1>3
    <3>2. rank[i] = RankOf(kind, q[i]) /\ rank[j] = RankOf(kind, q[j])
      OBVIOUS
    <3> HIDE DEF q, n, rank
    <3> QED BY <2>1, <3>1, <3>2, RanksDecide
  <2>2. CASE q[i] = q[j]
    <3>1. ~Ahead(q[i], q[j])
      BY <2>2 DEF Before
    <3>2. rank[i] \in Ranks /\ rank[i] = rank[j]
      BY <1>4, <2>2
    <3>3. ~Precedes(rank[i], rank[j])
      <4> HIDE DEF rank, q, n
      <4> QED BY <3>2 DEF Precedes, Ranks
    <3> QED BY <3>1, <3>3
  <2> QED BY <2>1, <2>2
<1>6. InOrder(kind, found) = [k \in DOMAIN q |-> q[at(k)]]
  BY DEF InOrder, Sorted
<1>7. \A i \in 1..n : before(i) = {j \in 1..n : \/ Precedes(rank[j], rank[i])
                                                \/ j < i /\ ~Precedes(rank[i], rank[j])}
  <2>1. DOMAIN q = 1..n BY <1>3
  <2>2. \A i, j \in 1..n : Ahead(q[i], q[j]) <=> Precedes(rank[i], rank[j])
    BY <1>5
  <2> HIDE DEF Ahead, rank, q, n
  <2> SUFFICES ASSUME NEW i \in 1..n, NEW j
               PROVE  j \in before(i) <=> /\ j \in 1..n
                                          /\ \/ Precedes(rank[j], rank[i])
                                             \/ j < i /\ ~Precedes(rank[i], rank[j])
    OBVIOUS
  <2> QED BY <2>1, <2>2
<1>8. ASSUME NEW k \in 1..n PROVE at(k) \in 1..n
  <2>1. DOMAIN q = 1..n BY <1>3
  <2>2. \E i \in 1..n : Cardinality({j \in 1..n : \/ Precedes(rank[j], rank[i])
                                                  \/ j < i /\ ~Precedes(rank[i], rank[j])}) = k - 1
    <3> HIDE DEF rank, q, n
    <3> QED BY <1>3, <1>4, SortedLists
  <2> HIDE DEF Ahead, rank, q, n, before
  <2>3. \E i \in DOMAIN q : Cardinality(before(i)) = k - 1
    BY <1>7, <2>1, <2>2
  <2> QED BY <2>1, <2>3
<1>9. InOrder(kind, found) \in [1..n -> found]
  <2> HIDE DEF q, n, rank, Ahead, at
  <2> QED BY <1>3, <1>6, <1>8
<1> QED BY <1>1, <1>3, <1>9

-----------------------------------------------------------------------------
(***************************************************************************)
(* Pages.                                                                  *)
(***************************************************************************)
LEMMA LeastAndGreatest ==
  ASSUME NEW a \in Int, NEW b \in Int
  PROVE  Min({a, b}) = (IF a <= b THEN a ELSE b) /\ Max({a, b}) = (IF a >= b THEN a ELSE b)
<1>1. Min({a, b}) = IF a <= b THEN a ELSE b
  BY DEF Min
<1>2. Max({a, b}) = IF a >= b THEN a ELSE b
  BY DEF Max
<1> QED BY <1>1, <1>2

\* The pages of a size hold all the rows, and the last of them one at least.
LEMMA PagesHoldAll ==
  ASSUME NEW total \in Nat, NEW size \in Nat \ {0}
  PROVE  /\ PageCountOf(total, size) \in Nat
         /\ total <= PageCountOf(total, size) * size
         /\ PageCountOf(total, size) * size < total + size
         /\ PageCountOf(total, size) = 0 <=> total = 0
<1>1. PageCountOf(total, size) = (total + size - 1) \div size
  BY DEF PageCountOf
<1>2. (total + size - 1) \div size \in Nat
  OBVIOUS
<1>3. total <= ((total + size - 1) \div size) * size
  OBVIOUS
<1>4. ((total + size - 1) \div size) * size < total + size
  OBVIOUS
<1>5. (total + size - 1) \div size = 0 <=> total = 0
  OBVIOUS
<1> QED BY <1>1, <1>2, <1>3, <1>4, <1>5

\* What normalizePagination returns: where a page begins and how much it takes.
PageBounds == [page : Nat, pageSize : Nat \ {0}, pageCount : Nat, offset : Nat]
PageSizeOf(pageSize) == Min({Max({pageSize, 1}), MaxPageSize})

\* What normalizePagination makes of any page and size a client asks for.
LEMMA Pagination ==
  ASSUME NEW page \in Int, NEW pageSize \in Int, NEW total \in Nat
  PROVE  LET p == NormalizePagination(page, pageSize, total)
         IN  /\ p \in PageBounds
             /\ p.pageSize = PageSizeOf(pageSize) /\ p.pageSize \in Nat \ {0}
             /\ p.pageCount = PageCountOf(total, p.pageSize)
             /\ p.offset \in Nat
             /\ page \in 1..p.pageCount => p.offset = (page - 1) * p.pageSize
<1> DEFINE size == PageSizeOf(pageSize)
           count == PageCountOf(total, size)
           safe == IF count = 0 THEN 1 ELSE Min({Max({page, 1}), count})
<1>1. size \in Nat \ {0}
  <2>1. Max({pageSize, 1}) \in Int /\ Max({pageSize, 1}) >= 1
    BY LeastAndGreatest
  <2>2. size = IF Max({pageSize, 1}) <= MaxPageSize THEN Max({pageSize, 1}) ELSE MaxPageSize
    BY <2>1, LeastAndGreatest DEF PageSizeOf, MaxPageSize
  <2> QED BY <2>1, <2>2 DEF MaxPageSize
<1>2. count \in Nat
  <2> HIDE DEF size
  <2> QED BY <1>1, PagesHoldAll
<1>3. safe \in Nat \ {0} /\ (page \in 1..count => safe = page)
  <2> HIDE DEF count
  <2>1. Max({page, 1}) = IF page >= 1 THEN page ELSE 1
    BY LeastAndGreatest
  <2>2. Min({Max({page, 1}), count}) = IF Max({page, 1}) <= count THEN Max({page, 1}) ELSE count
    BY <1>2, <2>1, LeastAndGreatest
  <2> QED BY <1>2, <2>1, <2>2
<1>4. (safe - 1) * size \in Nat
  <2> HIDE DEF safe, size
  <2> QED BY <1>1, <1>3
<1>5. NormalizePagination(page, pageSize, total)
        = [page |-> safe, pageSize |-> size, pageCount |-> count, offset |-> (safe - 1) * size]
  BY DEF NormalizePagination, PageSizeOf
<1> HIDE DEF safe, size, count
<1>6. (page \in 1..count => (safe - 1) * size = (page - 1) * size)
  BY <1>3
<1>7. NormalizePagination(page, pageSize, total) \in PageBounds
  BY <1>1, <1>2, <1>3, <1>4, <1>5 DEF PageBounds
<1> QED BY <1>1, <1>4, <1>5, <1>6, <1>7 DEF count, size

\* The rows of a page are rows of the list.
CutSize(pages, n) ==
  LET last == Min({pages.offset + pages.pageSize, n})
  IN IF pages.offset < last THEN last - pages.offset ELSE 0

\* The place in the list of the i-th row of a page.
PlaceIn(pages, i) == pages.offset + i

\* A page cut from a list is a stretch of it.
LEMMA CutsAreRows ==
  ASSUME NEW n \in Nat, NEW S, NEW rows \in [1..n -> S], NEW pages \in PageBounds
  PROVE  /\ CutSize(pages, n) \in Nat
         /\ Cut(rows, pages) \in [1..CutSize(pages, n) -> S]
         /\ \A i \in 1..CutSize(pages, n) : /\ PlaceIn(pages, i) \in 1..n
                                            /\ Cut(rows, pages)[i] = rows[PlaceIn(pages, i)]
<1> DEFINE last == Min({pages.offset + pages.pageSize, n})
           size == IF pages.offset < last THEN last - pages.offset ELSE 0
<1>1. pages.offset \in Nat /\ pages.pageSize \in Nat \ {0}
  BY DEF PageBounds
<1>2. last \in Nat /\ last <= n
  BY <1>1, LeastAndGreatest
<1>3. Len(rows) = n
  OBVIOUS
<1>4. Cut(rows, pages) = SubSeq(rows, pages.offset + 1, last)
  BY <1>3 DEF Cut
<1> HIDE DEF last
<1>5. size \in Nat /\ \A i \in 1..size : pages.offset + i \in 1..n
  BY <1>1, <1>2
<1>6. /\ SubSeq(rows, pages.offset + 1, last) \in [1..size -> S]
      /\ \A i \in 1..size : SubSeq(rows, pages.offset + 1, last)[i] = rows[PlaceIn(pages, i)]
  <2> DEFINE o == pages.offset
  <2>1. \A i \in (o + 1)..last : rows[i] \in S
    BY <1>1, <1>2
  <2>2. o + 1 \in Int /\ last \in Int /\ o \in Nat /\ \A i : PlaceIn(pages, i) = o + i
    BY <1>1, <1>2 DEF PlaceIn
  <2>3. size = (IF o + 1 <= last THEN last - (o + 1) + 1 ELSE 0) /\ size \in Nat
    BY <1>1, <1>2
  <2> HIDE DEF o, size
  <2>4. /\ SubSeq(rows, o + 1, last) \in Seq(S)
        /\ Len(SubSeq(rows, o + 1, last)) = size
        /\ \A i \in 1..(last - (o + 1) + 1) : SubSeq(rows, o + 1, last)[i] = rows[o + 1 + i - 1]
    BY <2>1, <2>2, <2>3, SubSeqProperties
  <2>5. \A i \in 1..size : SubSeq(rows, o + 1, last)[i] = rows[o + i]
    BY <2>2, <2>3, <2>4
  <2> DEFINE cut == SubSeq(rows, o + 1, last)
  <2>6. cut \in [1..size -> S]
    <3>1. cut \in Seq(S) /\ Len(cut) = size
      BY <2>4
    <3> HIDE DEF cut
    <3> QED BY <3>1
  <2>7. \A i \in 1..size : cut[i] = rows[PlaceIn(pages, i)]
    BY <2>2, <2>5
  <2> QED BY <2>6, <2>7 DEF o
<1>7. CutSize(pages, n) = size
  BY DEF CutSize, last
<1>8. \A i \in 1..size : PlaceIn(pages, i) \in 1..n
  BY <1>5 DEF PlaceIn
<1> HIDE DEF size
<1>9. size \in Nat
  BY <1>5
<1> QED BY <1>4, <1>6, <1>7, <1>8, <1>9

\* Turning the pages shows the whole list: what is shown up to a page is the
\* list up to its last row.
LEMMA PagesMakeTheList ==
  ASSUME NEW S, NEW items \in Seq(S), NEW size \in Nat \ {0}, NEW pages,
         pages = [n \in 1..PageCountOf(Len(items), size) |->
                   SubSeq(items, (n - 1) * size + 1, Min({(n - 1) * size + size, Len(items)}))]
  PROVE  FlattenSeq(pages) = items
<1> DEFINE total == Len(items)
           count == PageCountOf(total, size)
           last(n) == Min({n * size, total})
           upTo == [n \in 1..count |-> SubSeq(items, 1, last(n))]
           Follows(f) == f = [n \in 1..count |-> IF n = 1 THEN pages[n] ELSE f[n - 1] \o pages[n]]
<1>1. total \in Nat /\ count \in Nat /\ total <= count * size /\ (count = 0 <=> total = 0)
  <2>1. total \in Nat OBVIOUS
  <2> QED BY <2>1, PagesHoldAll
<1>2. Len(pages) = count
  <2>1. pages \in [1..count -> {pages[n] : n \in 1..count}]
    OBVIOUS
  <2>2. count \in Nat BY <1>1
  <2> HIDE DEF count
  <2> QED BY ONLY <2>1, <2>2
<1>3. CASE count = 0
  <2>1. items = <<>> BY <1>1, <1>3, EmptySeq
  <2>2. pages = <<>>
    BY <1>2, <1>3
  <2> QED BY <1>2, <1>3, <2>1, <2>2 DEF FlattenSeq
<1>4. CASE count # 0
  <2>1. \A n \in 1..count : pages[n] = SubSeq(items, (n - 1) * size + 1, Min({(n - 1) * size + size, total}))
    OBVIOUS
  <2>2. ASSUME NEW n \in 1..count
        PROVE  /\ (n - 1) * size \in Nat /\ n * size \in Nat /\ (n - 1) * size + size = n * size
               /\ last(n) \in 0..total /\ last(n) = IF n * size <= total THEN n * size ELSE total
    <3>1. n \in Nat /\ n - 1 \in Nat BY <1>1
    <3>2. (n - 1) * size \in Nat /\ n * size \in Nat /\ (n - 1) * size + size = n * size
      BY <3>1
    <3> DEFINE m == n * size
    <3>3. m \in Nat BY <3>2
    <3>4. last(n) = Min({m, total}) OBVIOUS
    <3> HIDE DEF m, last, total
    <3>5. last(n) \in 0..total /\ last(n) = IF m <= total THEN m ELSE total
      BY <1>1, <3>3, <3>4, LeastAndGreatest
    <3> QED BY <3>2, <3>5 DEF m
  <2>3. ASSUME NEW n \in 1..count
        PROVE  pages[n] = SubSeq(items, (n - 1) * size + 1, last(n))
    BY <2>1, <2>2
  <2>4. last(count) = total
    <3> HIDE DEF count
    <3> QED BY <1>1, <1>4, <2>2
  <2>5. ASSUME NEW n \in 2..count
        PROVE  upTo[n - 1] \o pages[n] = upTo[n]
    <3> DEFINE done == (n - 1) * size
    <3>1. n \in 1..count /\ n - 1 \in 1..count BY <1>1
    <3>2. upTo[n - 1] = SubSeq(items, 1, last(n - 1)) /\ upTo[n] = SubSeq(items, 1, last(n))
      BY <3>1
    <3>3. pages[n] = SubSeq(items, done + 1, last(n))
      BY <2>3, <3>1
    <3>4. done \in Nat /\ last(n - 1) = (IF done <= total THEN done ELSE total)
      BY <2>2, <3>1
    <3>5. last(n) = (IF done + size <= total THEN done + size ELSE total)
      BY <2>2, <3>1
    <3> HIDE DEF last, done, upTo, total
    <3>6. CASE done <= total
      <4>1. last(n - 1) = done /\ done \in 0..total /\ last(n) \in done..total
        BY <1>1, <3>4, <3>5, <3>6
      <4>2. SubSeq(items, 1, done) \o SubSeq(items, done + 1, last(n)) = SubSeq(items, 1, last(n))
        <5>1. 1 \in 1..(Len(items) + 1) /\ done \in (1 - 1)..Len(items) /\ last(n) \in done..Len(items)
          BY <1>1, <4>1 DEF total
        <5> QED BY <5>1, ConcatAdjacentSubSeq
      <4> QED BY <3>2, <3>3, <4>1, <4>2
    <3>7. CASE done > total
      <4>1. last(n - 1) = total /\ last(n) = total
        BY <1>1, <3>4, <3>5, <3>7
      <4>2. SubSeq(items, done + 1, total) = <<>>
        BY <1>1, <3>4, <3>7, SubSeqEmpty
      <4>3. SubSeq(items, 1, total) \in Seq(S)
        BY <1>1, SubSeqFull DEF total
      <4> DEFINE all == SubSeq(items, 1, total)
      <4>4. all \o <<>> = all
        <5> HIDE DEF all
        <5> QED BY <4>3, ConcatEmptySeq DEF all
      <4>5. upTo[n - 1] = all /\ upTo[n] = all /\ pages[n] = <<>>
        BY <3>2, <3>3, <4>1, <4>2
      <4> QED BY ONLY <4>4, <4>5
    <3>8. done <= total \/ done > total
      BY <1>1, <3>4
    <3> QED BY <3>6, <3>7, <3>8
  <2>6. upTo[1] = pages[1] /\ 1 \in 1..count
    <3>1. 1 \in 1..count BY <1>1, <1>4
    <3>2. pages[1] = SubSeq(items, (1 - 1) * size + 1, last(1)) BY <2>3, <3>1
    <3>3. (1 - 1) * size + 1 = 1 OBVIOUS
    <3> HIDE DEF last
    <3> QED BY <3>1, <3>2, <3>3
  <2> HIDE DEF last
  <2>7. Follows(upTo)
    <3>1. ASSUME NEW n \in 1..count
          PROVE  upTo[n] = IF n = 1 THEN pages[n] ELSE upTo[n - 1] \o pages[n]
      <4>1. CASE n = 1 BY <2>6, <4>1
      <4>2. CASE n # 1
        <5>1. n \in 2..count BY <1>1, <4>2
        <5> QED BY <2>5, <4>2, <5>1
      <4> QED BY <4>1, <4>2
    <3>2. upTo \in [1..count -> {upTo[n] : n \in 1..count}]
      OBVIOUS
    <3> HIDE DEF upTo, count
    <3> QED BY ONLY <3>1, <3>2
  <2> DEFINE flat == CHOOSE f : Follows(f)
  <2>8. Follows(flat)
    <3> HIDE DEF Follows
    <3> QED BY <2>7
  <2>9. \A n \in 1..count : flat[n] = upTo[n]
    <3> DEFINE T == {n \in 1..count : flat[n] # upTo[n]}
    <3> SUFFICES ASSUME T # {} PROVE FALSE
      OBVIOUS
    <3>1. T \in SUBSET Nat
      <4> HIDE DEF flat, upTo, count
      <4> QED OBVIOUS
    <3>2. PICK n \in T : \A m \in T : n <= m
      <4> HIDE DEF T
      <4> QED BY <3>1, LeastNumber
    <3>3. n \in 1..count /\ flat[n] # upTo[n] /\ n \in Nat
      BY <3>1
    <3>4. flat = [k \in 1..count |-> IF k = 1 THEN pages[k] ELSE flat[k - 1] \o pages[k]]
      BY <2>8
    <3>5. n # 1
      <4> HIDE DEF flat, upTo, T
      <4> QED BY <2>6, <3>3, <3>4
    <3>6. n \in 2..count /\ n - 1 \in 1..count /\ n - 1 \notin T
      <4> HIDE DEF T, flat, upTo
      <4> QED BY <1>1, <3>2, <3>3, <3>5
    <3>7. flat[n - 1] = upTo[n - 1]
      BY <3>6
    <3> HIDE DEF flat, upTo, T
    <3> QED BY <2>5, <3>3, <3>4, <3>5, <3>6, <3>7
  <2>10. FlattenSeq(pages) = flat[count]
    BY <1>2, <1>4 DEF FlattenSeq
  <2>11. upTo[count] = items
    <3>1. count \in 1..count BY <1>1, <1>4
    <3>2. upTo[count] = SubSeq(items, 1, total) BY <2>4, <3>1
    <3> QED BY <3>2, SubSeqFull
  <2>12. count \in 1..count BY <1>1, <1>4
  <2> HIDE DEF flat, upTo
  <2> QED BY <2>9, <2>10, <2>11, <2>12
<1> QED BY <1>3, <1>4

-----------------------------------------------------------------------------
(***************************************************************************)
(* Matching and naming.                                                    *)
(***************************************************************************)
\* The row of a key is found by it.
LEMMA KeysFindRows ==
  ASSUME NEW rows, HaveKeys(rows), NEW row \in rows, NEW column, NEW fallback
  PROVE  Lookup(rows, row.id, column, fallback) = row[column]
<1>1. \A other \in rows : other.id = row.id <=> other = row
  BY DEF HaveKeys
<1>2. (CHOOSE other \in rows : other.id = row.id) = row
  BY <1>1
<1> QED BY <1>1, <1>2 DEF Lookup

\* The requests for pages of PagedInputs.
PageInput ==
  [kind : PageKinds, search : SUBSET Nat, table : Nat, only : SUBSET STRING, target : SUBSET STRING,
   texts : SUBSET Nat, severity : 0..Critical, critical : BOOLEAN, files : SUBSET Nat,
   hide : BOOLEAN, page : Int, pageSize : Int]

\* What the first statements of a page have found.
Finds(found, in, db) ==
  /\ found.files = MatchingFiles(in, db) /\ found.symbols = MatchingSymbols(in, db)
  /\ found.fields = MatchingFields(in, db) /\ found.tableFields = TableFields(in, db)

\* The condition of the SQL query, with the ids that were found for the names,
\* selects the rows that the query in memory keeps.
LEMMA ConditionsAgree ==
  ASSUME NEW db, TablesHold(db), NEW in \in PageInput, in.kind \in Paged,
         NEW found, Finds(found, in, db), NEW row \in RowsOf(in.kind, db)
  PROVE  WhereCondition(in, row, found) <=> MatchesInMemory(in, row, db)
<1>1. CASE in.kind = "symbols"
  <2>1. row \in db.symbols BY <1>1 DEF RowsOf
  <2>2. PICK file \in db.files : file.id = row.file
    BY <2>1 DEF TablesHold, Ids
  <2>3. NameIn(db.files, row.file, Absent) = file.name
    <3>1. HaveKeys(db.files) BY DEF TablesHold
    <3>2. Lookup(db.files, file.id, "name", Absent) = file["name"]
      BY <3>1, KeysFindRows
    <3> QED BY <2>2, <3>2 DEF NameIn
  <2>4. Named(in.kind, row, db).shown = file.name
    BY <1>1, <2>3 DEF Named
  <2>5. in.search # {} => (row.file \in found.files <=> file.name \in in.search)
    <3>1. \A other \in db.files : other.id = row.file <=> other = file
      BY <2>2 DEF TablesHold, HaveKeys
    <3> QED BY <2>2, <3>1 DEF Finds, MatchingFiles, IdsWhere
  <2>6. WhereCondition(in, row, found)
          <=> IsAskedFor(in, row.type) /\ (Hits(in, {row.name}) \/ row.file \in found.files)
    BY <1>1 DEF WhereCondition
  <2>7. MatchesInMemory(in, row, db) <=> IsAskedFor(in, row.type) /\ Hits(in, {row.name, file.name})
    BY <1>1, <2>4 DEF MatchesInMemory
  <2> QED BY <2>5, <2>6, <2>7 DEF Hits
<1>2. CASE in.kind = "fields"
  BY <1>2 DEF WhereCondition, MatchesInMemory
<1>3. CASE in.kind = "fieldDependencies"
  <2>1. row \in db.fieldDependencies BY <1>3 DEF RowsOf
  <2>2. PICK field \in db.fields : field.id = row.field
    BY <2>1 DEF TablesHold, Ids
  <2>3. PICK symbol \in db.symbols : symbol.id = row.symbol
    BY <2>1 DEF TablesHold, Ids
  <2>4. /\ Lookup(db.fields, row.field, "table", Absent) = field.table
        /\ NameIn(db.fields, row.field, Absent) = field.name
    <3>1. HaveKeys(db.fields) BY DEF TablesHold
    <3>2. Lookup(db.fields, field.id, "table", Absent) = field["table"]
      BY <3>1, KeysFindRows
    <3>3. Lookup(db.fields, field.id, "name", Absent) = field["name"]
      BY <3>1, KeysFindRows
    <3> QED BY <2>2, <3>2, <3>3 DEF NameIn
  <2>5. NameIn(db.symbols, row.symbol, NameOfMissing(row.symbol)) = symbol.name
    <3>1. HaveKeys(db.symbols) BY DEF TablesHold
    <3>2. Lookup(db.symbols, symbol.id, "name", NameOfMissing(row.symbol)) = symbol["name"]
      BY <3>1, KeysFindRows
    <3> QED BY <2>3, <3>2 DEF NameIn
  <2>6. Named(in.kind, row, db).shown = <<field.table, field.name, symbol.name>>
    BY <1>3, <2>4, <2>5 DEF Named
  <2>7. /\ \A other \in db.fields : other.id = row.field <=> other = field
        /\ \A other \in db.symbols : other.id = row.symbol <=> other = symbol
    BY <2>2, <2>3 DEF TablesHold, HaveKeys
  <2>8. in.search # {} => /\ row.field \in found.fields <=> {field.table, field.name} \cap in.search # {}
                          /\ row.symbol \in found.symbols <=> symbol.name \in in.search
    BY <2>2, <2>3, <2>7 DEF Finds, MatchingFields, MatchingSymbols, IdsWhere
  <2>9. row.field \in found.tableFields <=> field.table = in.table
    BY <2>2, <2>7 DEF Finds, TableFields, IdsWhere
  <2>10. WhereCondition(in, row, found)
           <=> /\ IsAskedFor(in, row.op) /\ (in.table = Absent \/ row.field \in found.tableFields)
               /\ Hits(in, {row.context}) \/ row.field \in found.fields \/ row.symbol \in found.symbols
    BY <1>3 DEF WhereCondition
  <2>11. MatchesInMemory(in, row, db)
           <=> /\ in.table \in {Absent, field.table} /\ IsAskedFor(in, row.op)
               /\ Hits(in, {field.table, field.name, symbol.name, row.context})
    BY <1>3, <2>6 DEF MatchesInMemory
  <2> QED BY <2>8, <2>9, <2>10, <2>11 DEF Hits
<1> QED BY <1>1, <1>2, <1>3 DEF Paged

\* The rows a query on the tables is about.
RowsWanted(in, db) == {row \in RowsOf(in.kind, db) : MatchesInMemory(in, row, db)}

\* The WHERE clause of the SQL selects the rows the query in memory keeps.
LEMMA SameRowsAreSelected ==
  ASSUME NEW db, TablesHold(db), NEW in \in PageInput, in.kind \in Paged,
         NEW found, Finds(found, in, db)
  PROVE  Selected(in, db, found) = RowsWanted(in, db)
BY ConditionsAgree DEF Selected, RowsWanted

\* The items of a query in memory, but for risks and rules, are its rows with
\* their names.
LEMMA ItemsAreRows ==
  ASSUME NEW db, TablesHold(db), NEW in \in PageInput, in.kind \in Paged \cup {"dependencies"}
  PROVE  LET wanted == RowsWanted(in, db)
             n == Cardinality(wanted)
             rows == InOrder(in.kind, wanted)
         IN  /\ IsFiniteSet(wanted) /\ n \in Nat /\ rows \in [1..n -> wanted]
             /\ ItemsInMemory(in, db) = [i \in 1..n |-> Named(in.kind, rows[i], db)]
             /\ Len(ItemsInMemory(in, db)) = n
<1> DEFINE wanted == RowsWanted(in, db)
           n == Cardinality(wanted)
           rows == InOrder(in.kind, wanted)
<1>1. wanted \in SUBSET RowsOf(in.kind, db)
  BY DEF RowsWanted
<1>2. IsFiniteSet(wanted) /\ n \in Nat /\ rows \in [1..n -> wanted]
  <2> HIDE DEF wanted
  <2> QED BY <1>1, RowsInOrder
<1>3. in.kind \notin GroupedKinds
  BY DEF GroupedKinds, Paged
<1>4. ItemsInMemory(in, db) = [i \in DOMAIN rows |-> Named(in.kind, rows[i], db)]
  BY <1>3 DEF ItemsInMemory, SeqMap, RowsWanted
<1>5. DOMAIN rows = 1..n
  BY <1>2
<1>6. ItemsInMemory(in, db) = [i \in 1..n |-> Named(in.kind, rows[i], db)]
  <2> HIDE DEF rows, n
  <2> QED BY <1>4, <1>5
<1>7. Len(ItemsInMemory(in, db)) = n
  <2> HIDE DEF rows, n
  <2> QED BY <1>2, <1>6
<1> QED BY <1>2, <1>6, <1>7

-----------------------------------------------------------------------------
(***************************************************************************)
(* The statements of a request.                                            *)
(***************************************************************************)
Found == [files : SUBSET Nat, symbols : SUBSET Nat, fields : SUBSET Nat, tableFields : SUBSET Nat,
          total : Nat, rows : {<<>>}]

\* A request is at one of its statements, with the numbers its statements have
\* returned; the tables changed only if an analysis was committed.
PageTypeOK ==
  /\ tables \in Databases /\ asked \in Databases /\ input \in Inputs
  /\ replaced \in Nat /\ (replaced = 0 => tables = asked)
  /\ step \in {"match", "count", "select", "names", "done"}
  /\ step = "match" => read = NoRead
  /\ step \in {"count", "select"} => input.kind \in Paged /\ read \in Found
  /\ step = "names" => input.kind \in Paged \cup {"dependencies"} /\ read.total \in Nat

\* What the query in memory returns, by the kind of the request.  Of risks and rules,
\* which come from it in another order, nothing is said here.
AnswerIsRight ==
  /\ input.kind = "snapshot" => answer = SnapshotInMemory(tables)
  /\ input.kind = "dependencies" =>
       LET wanted == PageInMemory(input, tables)
       IN  /\ [answer EXCEPT !.items = <<>>] = [wanted EXCEPT !.items = <<>>]
           /\ Len(answer.items) = Len(wanted.items)
  /\ input.kind \notin {"snapshot", "dependencies"} \cup GroupedKinds => answer = PageInMemory(input, tables)

\* While nothing was committed a page is put together from what the query in
\* memory would have found.
SqlInv ==
  replaced = 0 =>
    /\ step \in {"count", "select"} => Finds(read, input, tables)
    /\ step = "select" => read.total = Cardinality(RowsWanted(input, tables))
    /\ step = "names" /\ input.kind \in Paged =>
         LET wanted == RowsWanted(input, tables)
         IN  /\ read.total = Cardinality(wanted)
             /\ read.rows = Cut(InOrder(input.kind, wanted),
                                NormalizePagination(input.page, input.pageSize, read.total))
    /\ step = "names" /\ input.kind = "dependencies" =>
         read.rows = InOrderOfIds(tables.dependencies)
    /\ step = "done" => AnswerIsRight

\* The assumptions, for one request and for the tables of one analysis.
LEMMA PageInputs ==
  ASSUME NEW in \in Inputs, in.kind \in PageKinds
  PROVE  in \in PageInput
BY PagedInputs DEF PageInput

LEMMA TablesAreHeld ==
  ASSUME NEW db \in Databases
  PROVE  TablesHold(db)
BY PagedDatabases

\* The ids that stand for the joins are ids.
LEMMA IdsAreNumbers ==
  ASSUME NEW db \in Databases, NEW in
  PROVE  /\ MatchingFiles(in, db) \in SUBSET Nat /\ MatchingSymbols(in, db) \in SUBSET Nat
         /\ MatchingFields(in, db) \in SUBSET Nat /\ TableFields(in, db) \in SUBSET Nat
<1>1. TablesHold(db) BY TablesAreHeld
<1>2. MatchingFiles(in, db) \in SUBSET Nat
  BY <1>1 DEF TablesHold, FileRow, MatchingFiles, IdsWhere
<1>3. MatchingSymbols(in, db) \in SUBSET Nat
  BY <1>1 DEF TablesHold, SymbolRow, MatchingSymbols, IdsWhere
<1>4. MatchingFields(in, db) \in SUBSET Nat
  BY <1>1 DEF TablesHold, FieldRow, MatchingFields, IdsWhere
<1>5. TableFields(in, db) \in SUBSET Nat
  BY <1>1 DEF TablesHold, FieldRow, TableFields, IdsWhere
<1> QED BY <1>2, <1>3, <1>4, <1>5

\* What a query selects is counted, and listed in its order.
LEMMA SelectionsAreFinite ==
  ASSUME NEW db \in Databases, NEW in, in.kind \in Paged, NEW found
  PROVE  /\ Selected(in, db, found) \in SUBSET RowsOf(in.kind, db)
         /\ Cardinality(Selected(in, db, found)) \in Nat
         /\ InOrder(in.kind, Selected(in, db, found))
              \in [1..Cardinality(Selected(in, db, found)) -> Selected(in, db, found)]
<1>1. Selected(in, db, found) \in SUBSET RowsOf(in.kind, db)
  BY DEF Selected
<1> QED BY <1>1, TablesAreHeld, RowsInOrder

\* The variables have their types, and every statement leaves them so.
LEMMA PageTypeInit == PageInit => PageTypeOK
BY DEF PageInit, PageTypeOK

LEMMA PageTypeStep == PageTypeOK /\ [PageNext]_pageVars => PageTypeOK'
<1> SUFFICES ASSUME PageTypeOK, [PageNext]_pageVars PROVE PageTypeOK'
  OBVIOUS
<1> USE DEF PageTypeOK
<1>1. CASE SnapshotQuery
  BY <1>1 DEF SnapshotQuery, ReadsOnly
<1>2. CASE MatchNames
  <2>1. /\ MatchingFiles(input, tables) \in SUBSET Nat /\ MatchingSymbols(input, tables) \in SUBSET Nat
        /\ MatchingFields(input, tables) \in SUBSET Nat /\ TableFields(input, tables) \in SUBSET Nat
    BY IdsAreNumbers
  <2>2. read' \in Found
    BY <1>2, <2>1 DEF MatchNames, Found
  <2> QED BY <1>2, <2>2 DEF MatchNames, ReadsOnly
<1>3. CASE CountMatches
  <2>1. Cardinality(Selected(input, tables, read)) \in Nat
    BY <1>3, SelectionsAreFinite DEF CountMatches
  <2>2. read' \in Found
    BY <1>3, <2>1 DEF CountMatches, Found
  <2> QED BY <1>3, <2>2 DEF CountMatches, ReadsOnly
<1>4. CASE SelectPage
  <2>1. read'.total = read.total /\ read.total \in Nat
    BY <1>4 DEF SelectPage, Found
  <2> QED BY <1>4, <2>1 DEF SelectPage, ReadsOnly
<1>5. CASE LoadNames
  BY <1>5 DEF LoadNames, ReadsOnly
<1>6. CASE GroupedPage
  BY <1>6 DEF GroupedPage, ReadsOnly
<1>7. CASE SelectDependencies
  <2>1. \A listed : [NoRead EXCEPT !.rows = listed].total = 0
    BY DEF NoRead
  <2>2. read'.total = 0
    BY <1>7, <2>1 DEF SelectDependencies
  <2>3. /\ input.kind = "dependencies" /\ step' = "names"
        /\ UNCHANGED <<tables, asked, input, replaced>>
    BY <1>7 DEF SelectDependencies, ReadsOnly
  <2> HIDE <1>7
  <2> QED BY <2>2, <2>3
<1>8. CASE DependencyPage
  BY <1>8 DEF DependencyPage, ReadsOnly
<1>9. CASE ReplaceTables
  BY <1>9 DEF ReplaceTables
<1>10. CASE UNCHANGED pageVars
  BY <1>10 DEF pageVars
<1> QED BY <1>1, <1>2, <1>3, <1>4, <1>5, <1>6, <1>7, <1>8, <1>9, <1>10 DEF PageNext

\* The summaries are lists: what is kept of a list is one, and to map or to sort
\* it leaves its places.
IsList(rows) == \E n \in Nat : DOMAIN rows = 1..n /\ rows = [i \in 1..n |-> rows[i]]

\* What is kept of a list is a list.
LEMMA KeptLists ==
  ASSUME NEW rows, IsList(rows), NEW kept \in SUBSET (DOMAIN rows)
  PROVE  IsList(RowsAt(rows, kept))
<1>1. PICK n \in Nat : DOMAIN rows = 1..n /\ rows = [i \in 1..n |-> rows[i]]
  BY DEF IsList
<1> DEFINE S == {rows[i] : i \in 1..n}
           m == Cardinality(kept)
           listed == RowsAt(rows, kept)
<1>2. kept \in SUBSET (1..n) /\ rows \in [1..n -> S]
  BY <1>1
<1>3. m \in 0..n /\ listed \in [1..m -> S]
  <2> HIDE DEF S
  <2> QED BY <1>2, RowsAreKept
<1> HIDE DEF m, listed, S
<1>4. IsList(listed)
  BY <1>3 DEF IsList
<1> QED BY <1>4 DEF listed

\* groupRisks and groupRules return a list, whatever their filters.
LEMMA GroupsAreLists ==
  ASSUME NEW rows, IsList(rows), NEW options
  PROVE  IsList(GroupRows(rows, options))
<1> DEFINE firsts == {i \in DOMAIN rows : \A j \in 1..(i - 1) : DedupeKey(rows[j]) # DedupeKey(rows[i])}
           keys == RowsAt(rows, firsts)
           found == DedupeOccurrences(rows)
           kept == {i \in DOMAIN found : Matches(found[i], options)}
           shown == RowsAt(found, kept)
           texts == {i \in DOMAIN shown : \A j \in 1..(i - 1) : Text(shown[j]) # Text(shown[i])}
           named == RowsAt(shown, texts)
<1>1. IsList(keys)
  <2>1. firsts \in SUBSET (DOMAIN rows) OBVIOUS
  <2> HIDE DEF firsts
  <2> QED BY <2>1, KeptLists
<1>2. IsList(found)
  <2>1. \E row : found = [i \in DOMAIN keys |-> row[i]]
    <3> DEFINE row == [i \in DOMAIN keys |-> Deduped(WithKey(rows, DedupeKey, DedupeKey(keys[i])))]
    <3>1. found = row
      BY DEF DedupeOccurrences, SeqMap, KeysInOrder
    <3> HIDE DEF found
    <3>2. row = [i \in DOMAIN keys |-> row[i]]
      OBVIOUS
    <3> QED BY <3>1, <3>2
  <2> HIDE DEF found, keys
  <2> QED BY <1>1, <2>1 DEF IsList
<1> HIDE DEF found
<1>3. IsList(shown)
  <2>1. kept \in SUBSET (DOMAIN found) OBVIOUS
  <2> HIDE DEF kept
  <2> QED BY <1>2, <2>1, KeptLists
<1> HIDE DEF shown
<1>4. IsList(named)
  <2>1. texts \in SUBSET (DOMAIN shown) OBVIOUS
  <2> HIDE DEF texts
  <2> QED BY <1>3, <2>1, KeptLists
<1> HIDE DEF named
<1>5. shown = Filtered(found, LAMBDA row : Matches(row, options))
  BY DEF Filtered, shown
<1> DEFINE groups == SeqMap(KeysInOrder(shown, Text), LAMBDA text : Grouped(WithKey(shown, Text, text)))
<1>6. DOMAIN groups = DOMAIN named
  BY DEF SeqMap, KeysInOrder, named
<1> HIDE DEF groups
<1>7. GroupRows(rows, options)
        = IF options.hideDuplicates THEN Sorted(groups, WorstGroupFirst) ELSE Sorted(shown, WorstFirst)
  BY <1>5 DEF GroupRows, groups, found
<1>8. ASSUME NEW l, NEW n \in Nat, DOMAIN l = 1..n
      PROVE  IsList(Sorted(l, WorstGroupFirst)) /\ IsList(Sorted(l, WorstFirst))
  <2> DEFINE groupAt(k) == l[CHOOSE i \in DOMAIN l : Cardinality(
                 {j \in DOMAIN l : WorstGroupFirst(l[j], l[i]) \/ (j < i /\ ~WorstGroupFirst(l[i], l[j]))}) = k - 1]
             rowAt(k) == l[CHOOSE i \in DOMAIN l : Cardinality(
                 {j \in DOMAIN l : WorstFirst(l[j], l[i]) \/ (j < i /\ ~WorstFirst(l[i], l[j]))}) = k - 1]
  <2>1. Sorted(l, WorstGroupFirst) = [k \in DOMAIN l |-> groupAt(k)]
    BY DEF Sorted
  <2>2. Sorted(l, WorstFirst) = [k \in DOMAIN l |-> rowAt(k)]
    BY DEF Sorted
  <2> HIDE DEF groupAt, rowAt
  <2> QED BY <1>8, <2>1, <2>2 DEF IsList
<1>9. (\E n \in Nat : DOMAIN groups = 1..n) /\ (\E n \in Nat : DOMAIN shown = 1..n)
  BY <1>3, <1>4, <1>6 DEF IsList
<1> QED BY <1>7, <1>8, <1>9

\* A sorted list is one.
LEMMA SortedByReport ==
  ASSUME NEW l, NEW n \in Nat, DOMAIN l = 1..n
  PROVE  IsList(Sorted(l, RiskFirst)) /\ IsList(Sorted(l, RuleFirst))
<1> DEFINE riskAt(k) == l[CHOOSE i \in DOMAIN l : Cardinality(
               {j \in DOMAIN l : RiskFirst(l[j], l[i]) \/ (j < i /\ ~RiskFirst(l[i], l[j]))}) = k - 1]
           ruleAt(k) == l[CHOOSE i \in DOMAIN l : Cardinality(
               {j \in DOMAIN l : RuleFirst(l[j], l[i]) \/ (j < i /\ ~RuleFirst(l[i], l[j]))}) = k - 1]
<1>1. Sorted(l, RiskFirst) = [k \in DOMAIN l |-> riskAt(k)]
  BY DEF Sorted
<1>2. Sorted(l, RuleFirst) = [k \in DOMAIN l |-> ruleAt(k)]
  BY DEF Sorted
<1> HIDE DEF riskAt, ruleAt
<1> QED BY <1>1, <1>2 DEF IsList

\* Every query for pages has a list of items.
LEMMA ItemsAreLists ==
  ASSUME NEW db \in Databases, NEW in \in Inputs, in.kind \in PageKinds
  PROVE  \E S : ItemsInMemory(in, db) \in Seq(S)
<1>1. TablesHold(db) BY TablesAreHeld
<1>2. CASE in.kind \in GroupedKinds
  <2> DEFINE found == Findings(in, db)
             rows == InReportOrder(in, found)
  <2>1. IsList(rows)
    <3>1. found \in Seq(FindingRow) BY <1>1 DEF TablesHold, Findings
    <3> HIDE DEF found
    <3>2. PICK n \in Nat : DOMAIN found = 1..n
      BY <3>1
    <3>3. rows = Sorted(found, RiskFirst) \/ rows = Sorted(found, RuleFirst)
      BY DEF InReportOrder
    <3> QED BY <3>2, <3>3, SortedByReport
  <2>2. ItemsInMemory(in, db) = GroupRows(rows, FilterOf(in))
    BY <1>2 DEF ItemsInMemory, GroupsInMemory
  <2> DEFINE items == ItemsInMemory(in, db)
  <2> HIDE DEF rows
  <2>3. IsList(items)
    BY <2>1, <2>2, GroupsAreLists
  <2> HIDE DEF items
  <2>4. PICK n \in Nat : items = [i \in 1..n |-> items[i]]
    BY <2>3 DEF IsList
  <2>5. items \in Seq({items[i] : i \in 1..n})
    BY <2>4
  <2> QED BY <2>5 DEF items
<1>3. CASE in.kind \in Paged \cup {"dependencies"}
  <2> DEFINE rows == InOrder(in.kind, RowsWanted(in, db))
             n == Cardinality(RowsWanted(in, db))
             shown(i) == Named(in.kind, rows[i], db)
  <2>1. n \in Nat /\ ItemsInMemory(in, db) = [i \in 1..n |-> shown(i)]
    BY <1>1, <1>3, PageInputs, ItemsAreRows
  <2> HIDE DEF n, shown
  <2>2. ItemsInMemory(in, db) \in Seq({shown(i) : i \in 1..n})
    BY <2>1
  <2> QED BY <2>2
<1> QED BY <1>2, <1>3 DEF PageKinds

\* The items of a query do not depend on the page that is asked for.
LEMMA PageLeavesItems ==
  ASSUME NEW db, NEW in \in PageInput, NEW n \in Nat
  PROVE  LET other == [in EXCEPT !.page = n]
         IN  /\ ItemsInMemory(other, db) = ItemsInMemory(in, db)
             /\ other.page = n /\ other.pageSize = in.pageSize
<1> DEFINE other == [in EXCEPT !.page = n]
<1>1. /\ other.kind = in.kind /\ other.search = in.search /\ other.table = in.table
      /\ other.only = in.only /\ other.target = in.target /\ other.texts = in.texts
      /\ other.severity = in.severity /\ other.critical = in.critical /\ other.files = in.files
      /\ other.hide = in.hide /\ other.pageSize = in.pageSize /\ other.page = n
  BY DEF PageInput
<1> HIDE DEF other
<1>2. GroupsInMemory(other, db) = GroupsInMemory(in, db)
  BY <1>1 DEF GroupsInMemory, Findings, InReportOrder, FilterOf
<1>3. ASSUME NEW row PROVE MatchesInMemory(other, row, db) <=> MatchesInMemory(in, row, db)
  BY <1>1 DEF MatchesInMemory, Hits, IsAskedFor
<1>4. {row \in RowsOf(other.kind, db) : MatchesInMemory(other, row, db)}
        = {row \in RowsOf(in.kind, db) : MatchesInMemory(in, row, db)}
  BY <1>1, <1>3
<1>5. ItemsInMemory(other, db) = ItemsInMemory(in, db)
  BY <1>1, <1>2, <1>4 DEF ItemsInMemory
<1> QED BY <1>1, <1>5 DEF other

\* The pages of a request follow one another without a gap or an overlap.
LEMMA PagesPartition == PageTypeOK => PagesPartitionItems
<1> SUFFICES ASSUME PageTypeOK, input.kind \in PageKinds
             PROVE  LET page(n) == PageInMemory([input EXCEPT !.page = n], asked)
                    IN FlattenSeq([n \in 1..page(1).pageCount |-> page(n).items]) = ItemsInMemory(input, asked)
  BY DEF PagesPartitionItems
<1> DEFINE page(n) == PageInMemory([input EXCEPT !.page = n], asked)
           items == ItemsInMemory(input, asked)
           total == Len(items)
           size == PageSizeOf(input.pageSize)
           count == PageCountOf(total, size)
           pages == [n \in 1..count |-> page(n).items]
           cut(n) == SubSeq(items, (n - 1) * size + 1, Min({(n - 1) * size + size, total}))
<1>1. input \in PageInput /\ asked \in Databases /\ input \in Inputs
  BY PageInputs DEF PageTypeOK
<1>2. PICK S : items \in Seq(S)
  BY <1>1, ItemsAreLists
<1>3. total \in Nat /\ input.pageSize \in Int
  <2> HIDE DEF items
  <2> QED BY <1>1, <1>2 DEF PageInput
<1> HIDE DEF items
<1>4. ASSUME NEW n \in Nat
      PROVE  /\ page(n).pageCount = count /\ size \in Nat \ {0}
             /\ n \in 1..count => page(n).items = cut(n)
  <2> DEFINE p == NormalizePagination(n, input.pageSize, total)
  <2>1. page(n) = PaginateItems(items, n, input.pageSize)
    BY <1>1, PageLeavesItems DEF PageInMemory, items
  <2>2. page(n).pageCount = p.pageCount /\ page(n).items = Cut(items, p)
    BY <2>1 DEF PaginateItems, PageFrom
  <2>3. /\ p.pageSize = size /\ size \in Nat \ {0} /\ p.pageCount = count
        /\ n \in 1..count => p.offset = (n - 1) * size
    <3> HIDE DEF total
    <3>1. n \in Int OBVIOUS
    <3>2. LET q == NormalizePagination(n, input.pageSize, total)
          IN  /\ q \in PageBounds
              /\ q.pageSize = PageSizeOf(input.pageSize) /\ q.pageSize \in Nat \ {0}
              /\ q.pageCount = PageCountOf(total, q.pageSize)
              /\ q.offset \in Nat
              /\ n \in 1..q.pageCount => q.offset = (n - 1) * q.pageSize
      BY ONLY <1>3, <3>1, Pagination
    <3>3. /\ p.pageSize = size /\ p.pageSize \in Nat \ {0}
          /\ p.pageCount = PageCountOf(total, p.pageSize)
          /\ n \in 1..p.pageCount => p.offset = (n - 1) * p.pageSize
      BY ONLY <3>2 DEF p, size
    <3> HIDE DEF p
    <3> QED BY <3>3
  <2> HIDE DEF page, size, count
  <2>4. Cut(items, p) = SubSeq(items, p.offset + 1, Min({p.offset + p.pageSize, total}))
    BY DEF Cut
  <2> HIDE DEF p, total
  <2>5. ASSUME n \in 1..count PROVE page(n).items = cut(n)
    BY <2>2, <2>3, <2>4, <2>5
  <2> QED BY <2>2, <2>3, <2>5
<1>5. count = page(1).pageCount /\ size \in Nat \ {0}
  BY <1>4
<1>6. pages = [n \in 1..count |-> cut(n)]
  <2>1. count \in Nat
    <3> HIDE DEF total, size
    <3> QED BY <1>3, <1>5, PagesHoldAll
  <2> HIDE DEF page, cut, count
  <2>2. ASSUME NEW n \in 1..count PROVE page(n).items = cut(n)
    <3>1. n \in Nat BY <2>1
    <3> QED BY <1>4, <3>1
  <2> QED BY <2>2
<1>7. FlattenSeq(pages) = items
  <2> DEFINE flat == pages
  <2>1. flat = [n \in 1..PageCountOf(Len(items), size) |->
                 SubSeq(items, (n - 1) * size + 1, Min({(n - 1) * size + size, Len(items)}))]
    <3> HIDE DEF page, size
    <3> QED BY <1>6
  <2> HIDE DEF flat, size
  <2>2. FlattenSeq(flat) = items
    BY <1>2, <1>5, <2>1, PagesMakeTheList
  <2> QED BY <2>2 DEF flat
<1>8. FlattenSeq([n \in 1..page(1).pageCount |-> page(n).items]) = items
  <2> HIDE DEF page, count
  <2> QED BY <1>5, <1>7
<1> QED BY ONLY <1>8 DEF page, items

\* Turning the pages from the first to the last shows every item once and in
\* order, whatever is asked for and whatever the tables hold.
THEOREM PagesShowEveryItem == PageSpec => []PagesPartitionItems
<1>1. PageSpec => []PageTypeOK
  BY PageTypeInit, PageTypeStep, PTL DEF PageSpec
<1> QED BY <1>1, PagesPartition, PTL

-----------------------------------------------------------------------------
(***************************************************************************)
(* A page that an analysis overtakes.                                      *)
(***************************************************************************)
\* The dependencies of an analysis in the order of their ids.
LEMMA DependenciesAreListed ==
  ASSUME NEW db, TablesHold(db)
  PROVE  LET rows == InOrderOfIds(db.dependencies)
             n == Cardinality(db.dependencies)
         IN  /\ n \in Nat /\ rows \in [1..n -> db.dependencies]
             /\ \A i, j \in 1..n : rows[i] = rows[j] => i = j
<1> DEFINE found == db.dependencies
           q == SetToSeq(found)
           n == Cardinality(found)
           rank == [i \in 1..n |-> <<q[i].id, 0, 0, 0>>]
           before(i) == {j \in DOMAIN q : q[j].id < q[i].id \/ (j < i /\ ~(q[i].id < q[j].id))}
           at(k) == CHOOSE i \in DOMAIN q : Cardinality(before(i)) = k - 1
<1>1. IsFiniteSet(found) /\ \A row \in found : row.id \in Nat
  BY DEF TablesHold, HaveKeys, DependencyRow
<1>2. n \in Nat /\ q \in [1..n -> found] /\ DOMAIN q = 1..n
  BY <1>1, SetsAreListed
<1>3. \A i, j \in 1..n : q[i] = q[j] => i = j
  BY <1>1, SetsAreListed
<1>4. rank \in [1..n -> Ranks] /\ \A i \in 1..n : rank[i] = <<q[i].id, 0, 0, 0>> /\ q[i].id \in Nat
  BY <1>1, <1>2 DEF Ranks
<1>5. \A i, j \in 1..n : Precedes(rank[i], rank[j]) <=> q[i].id < q[j].id
  <2> HIDE DEF q, n, rank
  <2> QED BY <1>4 DEF Precedes
<1>6. InOrderOfIds(found) = [k \in DOMAIN q |-> q[at(k)]]
  BY DEF InOrderOfIds, Sorted
<1>7. ASSUME NEW k \in 1..n PROVE at(k) \in 1..n /\ Cardinality(before(at(k))) = k - 1
  <2>1. \E i \in 1..n : Cardinality({j \in 1..n : \/ Precedes(rank[j], rank[i])
                                                  \/ j < i /\ ~Precedes(rank[i], rank[j])}) = k - 1
    <3> HIDE DEF rank, q, n
    <3> QED BY <1>2, <1>4, SortedLists
  <2>2. \A i \in 1..n : before(i) = {j \in 1..n : \/ Precedes(rank[j], rank[i])
                                                  \/ j < i /\ ~Precedes(rank[i], rank[j])}
    <3> HIDE DEF rank, q, n
    <3> QED BY <1>2, <1>5
  <2> HIDE DEF rank, q, n, before
  <2> QED BY <1>2, <2>1, <2>2
<1> HIDE DEF at, before
<1> DEFINE rows == InOrderOfIds(found)
<1>8. ASSUME NEW i \in 1..n, NEW j \in 1..n, at(i) = at(j) PROVE i = j
  <2> HIDE DEF n, q
  <2>1. i - 1 = j - 1 BY <1>7, <1>8
  <2> QED BY <1>2, <2>1
<1>9. rows \in [1..n -> found] /\ \A k \in 1..n : rows[k] = q[at(k)]
  <2> HIDE DEF n, q, found
  <2> QED BY <1>2, <1>6, <1>7
<1>10. \A i, j \in 1..n : rows[i] = rows[j] => i = j
  <2> HIDE DEF n, q, found, rows
  <2> QED BY <1>3, <1>7, <1>8, <1>9
<1> QED BY <1>2, <1>9, <1>10

\* A name that is looked up later is the one it was, or is not there.
LEMMA NamesStayOrGo ==
  ASSUME NEW rows, NEW later, HaveKeys(rows), HaveKeys(later), NamesStay(rows, later),
         NEW id \in Ids(rows), NEW fallback
  PROVE  NameIn(later, id, fallback) \in {NameIn(rows, id, fallback), fallback}
<1>1. PICK row \in rows : row.id = id
  BY DEF Ids
<1>2. NameIn(rows, id, fallback) = row.name
  <2>1. Lookup(rows, row.id, "name", fallback) = row["name"]
    BY KeysFindRows
  <2> QED BY <1>1, <2>1 DEF NameIn
<1>3. CASE \E other \in later : other.id = id
  <2>1. PICK other \in later : other.id = id
    BY <1>3
  <2>2. Lookup(later, other.id, "name", fallback) = other["name"]
    BY KeysFindRows
  <2>3. other.name = row.name
    BY <1>1, <2>1 DEF NamesStay
  <2> QED BY <1>2, <2>1, <2>2, <2>3 DEF NameIn
<1>4. CASE ~\E other \in later : other.id = id
  BY <1>4 DEF NameIn, Lookup
<1> QED BY <1>3, <1>4

\* An item shows the name its row has in the tables it was read from, or none.
ShowsRowOf(item, kind, db) ==
  \E row \in RowsOf(kind, db) :
    /\ row.id = item.id
    /\ item.shown \in {Named(kind, row, db).shown, Absent} \cup
                     (IF kind = "symbols" THEN {} ELSE {NameOfMissing(row.from)})

\* A row named from the tables of a later analysis gets its own names or none.
LEMMA RowsKeepTheirNames ==
  ASSUME NEW db \in Databases, NEW later \in Databases, NEW kind \in {"symbols", "dependencies"},
         NEW row \in RowsOf(kind, db)
  PROVE  ShowsRowOf(Named(kind, row, later), kind, db)
<1>1. TablesHold(db) /\ TablesHold(later) /\ NamesStay(db.files, later.files) /\ NamesStay(db.symbols, later.symbols)
  BY PagedDatabases
<1>2. CASE kind = "symbols"
  <2>1. row \in db.symbols BY <1>2 DEF RowsOf
  <2>2. row.file \in Ids(db.files) /\ HaveKeys(db.files) /\ HaveKeys(later.files)
    BY <1>1, <2>1 DEF TablesHold
  <2>3. NameIn(later.files, row.file, Absent) \in {NameIn(db.files, row.file, Absent), Absent}
    BY <1>1, <2>2, NamesStayOrGo
  <2>4. \A held : Named(kind, row, held).id = row.id
                     /\ Named(kind, row, held).shown = NameIn(held.files, row.file, Absent)
    BY <1>2 DEF Named
  <2> QED BY <2>3, <2>4 DEF ShowsRowOf
<1>3. CASE kind = "dependencies"
  <2> DEFINE none == NameOfMissing(row.from)
  <2>1. row \in db.dependencies BY <1>3 DEF RowsOf
  <2>2. row.from \in Ids(db.symbols) /\ HaveKeys(db.symbols) /\ HaveKeys(later.symbols)
    BY <1>1, <2>1 DEF TablesHold
  <2>3. NameIn(later.symbols, row.from, none) \in {NameIn(db.symbols, row.from, none), none}
    BY <1>1, <2>2, NamesStayOrGo
  <2>4. \A held : Named(kind, row, held).id = row.id
                     /\ Named(kind, row, held).shown = NameIn(held.symbols, row.from, none)
    BY <1>3 DEF Named
  <2> QED BY <1>3, <2>3, <2>4 DEF ShowsRowOf
<1> QED BY <1>2, <1>3

\* What the proof needs: between its statements a page holds rows of one
\* analysis, whichever is in the tables by then.
OvertakenInv ==
  /\ step = "names" /\ input.kind \in {"symbols", "dependencies"} =>
       \E db \in Databases : \E n \in Nat : read.rows \in [1..n -> RowsOf(input.kind, db)]
  /\ OvertakenPageNamesItsRows

\* Each statement of a page keeps the invariant, and so does an analysis between
\* two of them.
LEMMA OvertakenStep == PageTypeOK /\ OvertakenInv /\ [PageNext]_pageVars => OvertakenInv'
<1> SUFFICES ASSUME PageTypeOK, OvertakenInv, [PageNext]_pageVars PROVE OvertakenInv'
  OBVIOUS
<1>1. OvertakenPageNamesItsRows <=>
        (step = "done" /\ input.kind \in {"symbols", "dependencies"} =>
           \E db \in Databases : \A item \in ToSet(answer.items) : ShowsRowOf(item, input.kind, db))
  BY DEF OvertakenPageNamesItsRows, ShowsRowOf
<1>2. OvertakenPageNamesItsRows' <=>
        (step' = "done" /\ input'.kind \in {"symbols", "dependencies"} =>
           \E db \in Databases : \A item \in ToSet(answer'.items) : ShowsRowOf(item, input'.kind, db))
  BY DEF OvertakenPageNamesItsRows, ShowsRowOf
<1>3. CASE SnapshotQuery
  BY <1>3, <1>2 DEF SnapshotQuery, ReadsOnly, OvertakenInv
<1>4. CASE MatchNames
  BY <1>4, <1>2 DEF MatchNames, ReadsOnly, OvertakenInv
<1>5. CASE CountMatches
  BY <1>5, <1>2 DEF CountMatches, ReadsOnly, OvertakenInv
<1>6. CASE SelectPage
  <2> DEFINE found == Selected(input, tables, read)
             n == Cardinality(found)
             rows == InOrder(input.kind, found)
             pages == NormalizePagination(input.page, input.pageSize, read.total)
  <2>1. /\ step = "select" /\ input.kind \in Paged /\ read \in Found /\ tables \in Databases /\ input \in Inputs
    BY <1>6 DEF SelectPage, PageTypeOK
  <2>2. n \in Nat /\ rows \in [1..n -> RowsOf(input.kind, tables)]
    BY <2>1, SelectionsAreFinite
  <2>3. pages \in PageBounds
    <3>1. input.page \in Int /\ input.pageSize \in Int
      BY <2>1, PageInputs DEF PageInput, PageKinds
    <3>2. read.total \in Nat
      BY <2>1 DEF Found
    <3> QED BY <3>1, <3>2, Pagination
  <2> HIDE DEF n, rows, pages
  <2>4. \E m \in Nat : Cut(rows, pages) \in [1..m -> RowsOf(input.kind, tables)]
    BY <2>2, <2>3, CutsAreRows
  <2>5. read'.rows = Cut(rows, pages)
    <3>1. \A cut : [read EXCEPT !.rows = cut].rows = cut
      BY <2>1 DEF Found
    <3> QED BY <1>6, <3>1 DEF SelectPage, rows, pages
  <2>6. step' = "names" /\ UNCHANGED <<tables, input>>
    BY <1>6 DEF SelectPage, ReadsOnly
  <2> QED BY <1>2, <2>1, <2>4, <2>5, <2>6 DEF OvertakenInv
<1>7. CASE LoadNames
  <2>1. step = "names" /\ input.kind \in Paged /\ step' = "done" /\ UNCHANGED input /\ tables \in Databases
    BY <1>7 DEF LoadNames, ReadsOnly, PageTypeOK
  <2>2. SUFFICES ASSUME input.kind = "symbols"
                 PROVE  \E db \in Databases : \A item \in ToSet(answer'.items) : ShowsRowOf(item, input.kind, db)
    BY <1>2, <2>1 DEF OvertakenInv, Paged
  <2>3. PICK db \in Databases, n \in Nat : read.rows \in [1..n -> RowsOf(input.kind, db)]
    BY <2>1, <2>2 DEF OvertakenInv
  <2>4. answer'.items = [i \in DOMAIN read.rows |-> Named(input.kind, read.rows[i], tables)]
    BY <1>7 DEF LoadNames, PageFrom, SeqMap
  <2>5. ASSUME NEW item \in ToSet(answer'.items)
        PROVE  ShowsRowOf(item, input.kind, db)
    <3>1. PICK i \in 1..n : item = Named(input.kind, read.rows[i], tables)
      BY <2>3, <2>4 DEF ToSet
    <3>2. read.rows[i] \in RowsOf(input.kind, db)
      BY <2>3
    <3> QED BY <2>1, <2>2, <3>1, <3>2, RowsKeepTheirNames
  <2> QED BY <2>5
<1>8. CASE GroupedPage
  BY <1>8, <1>2 DEF GroupedPage, ReadsOnly, OvertakenInv, GroupedKinds
<1>9. CASE SelectDependencies
  <2> DEFINE listed == InOrderOfIds(tables.dependencies)
             n == Cardinality(tables.dependencies)
  <2>1. /\ step = "match" /\ input.kind = "dependencies" /\ tables \in Databases /\ step' = "names"
        /\ UNCHANGED <<tables, input>> /\ read = NoRead
    BY <1>9 DEF SelectDependencies, ReadsOnly, PageTypeOK
  <2>2. n \in Nat /\ listed \in [1..n -> tables.dependencies]
    BY <2>1, TablesAreHeld, DependenciesAreListed
  <2>3. read'.rows = listed
    <3>1. \A rows : [NoRead EXCEPT !.rows = rows].rows = rows
      BY DEF NoRead
    <3> QED BY <1>9, <2>1, <3>1 DEF SelectDependencies
  <2> HIDE DEF listed, n
  <2>4. RowsOf(input.kind, tables) = tables.dependencies
    BY <2>1 DEF RowsOf
  <2> QED BY <1>2, <2>1, <2>2, <2>3, <2>4 DEF OvertakenInv
<1>10. CASE DependencyPage
  <2> DEFINE kept == {i \in DOMAIN read.rows : MatchesInMemory(input, read.rows[i], tables)}
             rows == RowsAt(read.rows, kept)
             m == Cardinality(kept)
             items == [i \in DOMAIN rows |-> Named("dependencies", rows[i], tables)]
             pages == NormalizePagination(input.page, input.pageSize, Len(items))
  <2>1. /\ step = "names" /\ input.kind = "dependencies" /\ step' = "done" /\ UNCHANGED input
        /\ tables \in Databases /\ input \in Inputs
    BY <1>10 DEF DependencyPage, ReadsOnly, PageTypeOK
  <2>2. PICK db \in Databases, n \in Nat : read.rows \in [1..n -> RowsOf("dependencies", db)]
    BY <2>1 DEF OvertakenInv
  <2>3. kept \in SUBSET (1..n) /\ m \in 0..n /\ rows \in [1..m -> RowsOf("dependencies", db)]
    <3>1. kept \in SUBSET (1..n)
      BY <2>2
    <3> HIDE DEF kept
    <3> QED BY <2>2, <3>1, RowsAreKept
  <2> DEFINE S == {Named("dependencies", row, tables) : row \in RowsOf("dependencies", db)}
  <2>4. items \in [1..m -> S] /\ m \in Nat
    <3> HIDE DEF rows, m, kept
    <3> QED BY <2>3
  <2>5. answer'.items = Cut(items, pages)
    BY <1>10 DEF DependencyPage, PaginateItems, PageFrom, SeqMap, Filtered
  <2>6. pages \in PageBounds
    <3>1. input.page \in Int /\ input.pageSize \in Int
      BY <2>1, PageInputs DEF PageInput, PageKinds
    <3>2. Len(items) \in Nat
      <4> HIDE DEF items, m
      <4> QED BY <2>4
    <3> HIDE DEF items
    <3> QED BY <3>1, <3>2, Pagination
  <2> HIDE DEF items, m, pages
  <2>7. \E size \in Nat : Cut(items, pages) \in [1..size -> S]
    <3> HIDE DEF S
    <3> QED BY <2>4, <2>6, CutsAreRows
  <2>8. \A item \in ToSet(answer'.items) : item \in S
    <3> HIDE DEF S
    <3> QED BY <2>5, <2>7 DEF ToSet
  <2>9. \A item \in S : ShowsRowOf(item, "dependencies", db)
    BY <2>1, RowsKeepTheirNames
  <2> QED BY <1>2, <2>1, <2>8, <2>9 DEF OvertakenInv
<1>11. CASE ReplaceTables
  BY <1>11, <1>1, <1>2 DEF ReplaceTables, OvertakenInv
<1>12. CASE UNCHANGED pageVars
  BY <1>12, <1>1, <1>2 DEF pageVars, OvertakenInv
<1> QED BY <1>3, <1>4, <1>5, <1>6, <1>7, <1>8, <1>9, <1>10, <1>11, <1>12 DEF PageNext

\* A page that an analysis overtakes shows rows of one analysis only, and next
\* to a row its name there or none.
THEOREM OvertakenPagesAreHonest == PageSpec => []OvertakenPageNamesItsRows
<1>1. PageSpec => []PageTypeOK
  BY PageTypeInit, PageTypeStep, PTL DEF PageSpec
<1>2. PageInit => OvertakenInv
  BY DEF PageInit, OvertakenInv, OvertakenPageNamesItsRows
<1>3. OvertakenInv => OvertakenPageNamesItsRows
  BY DEF OvertakenInv
<1> QED BY <1>1, <1>2, <1>3, OvertakenStep, PTL DEF PageSpec

-----------------------------------------------------------------------------
(***************************************************************************)
(* Sums.                                                                   *)
(***************************************************************************)
\* Functions of the subsets of a finite set agree on it if they agree on the
\* empty set and on each other one as soon as they do without one of its elements.
LEMMA ElementByElement ==
  ASSUME NEW S, IsFiniteSet(S), NEW f, NEW g, f[{}] = g[{}],
         \A s \in SUBSET S : s # {} => \E x \in s : f[s \ {x}] = g[s \ {x}] => f[s] = g[s]
  PROVE  f[S] = g[S]
<1> DEFINE Differ == {s \in SUBSET S : f[s] # g[s]}
           Sizes == {Cardinality(s) : s \in Differ}
<1>1. ASSUME NEW s \in SUBSET S PROVE IsFiniteSet(s) /\ Cardinality(s) \in Nat
  BY FS_Subset, FS_CardinalityType
<1>2. ASSUME Differ # {} PROVE FALSE
  <2>1. \A s \in Differ : Cardinality(s) \in Nat
    BY <1>1
  <2>2. PICK least \in Sizes : \A size \in Sizes : least <= size
    <3>1. Sizes \in SUBSET Nat /\ Sizes # {}
      <4> HIDE DEF Differ
      <4> QED BY <1>2, <2>1
    <3> HIDE DEF Sizes
    <3> QED BY <3>1, LeastNumber
  <2>3. PICK s \in Differ : Cardinality(s) = least
    OBVIOUS
  <2>4. \A t \in Differ : Cardinality(s) <= Cardinality(t)
    BY <2>2, <2>3
  <2> HIDE DEF Sizes
  <2>5. s \in SUBSET S /\ f[s] # g[s]
    OBVIOUS
  <2> HIDE DEF Differ
  <2>6. s # {}
    BY <2>5
  <2>7. PICK x \in s : f[s \ {x}] = g[s \ {x}] => f[s] = g[s]
    BY <2>5, <2>6
  <2>8. Cardinality(s \ {x}) = Cardinality(s) - 1 /\ Cardinality(s) \in Nat
    BY <1>1, <2>5, FS_RemoveElement
  <2>9. s \ {x} \notin Differ
    BY <2>4, <2>8
  <2>10. s \ {x} \in SUBSET S /\ f[s \ {x}] # g[s \ {x}]
    BY <2>5, <2>7
  <2> QED BY <2>9, <2>10 DEF Differ
<1>3. S \notin Differ
  BY <1>2
<1> QED BY <1>3

\* The uses of the fields of a set are those of each of them.
UsesIn(deps, fields, ops) == Cardinality({d \in deps : d.op \in ops /\ \E f \in fields : f.id = d.field})

\* Keys are unique, so a use is counted with one field only.
LEMMA UsesAddUp ==
  ASSUME NEW deps, IsFiniteSet(deps), NEW fields, HaveKeys(fields), NEW ops
  PROVE  /\ UsesIn(deps, {}, ops) = 0
         /\ \A s \in SUBSET fields : \A x \in s :
              UsesIn(deps, s, ops) = UsesOf(deps, x.id, ops) + UsesIn(deps, s \ {x}, ops)
<1> DEFINE uses(s) == {d \in deps : d.op \in ops /\ \E f \in s : f.id = d.field}
           of(x) == {d \in deps : d.field = x.id /\ d.op \in ops}
<1>1. uses({}) = {} OBVIOUS
<1>2. ASSUME NEW s \in SUBSET fields, NEW x \in s
      PROVE  Cardinality(uses(s)) = Cardinality(of(x)) + Cardinality(uses(s \ {x}))
  <2> DEFINE rest == uses(s \ {x})
             mine == of(x)
  <2>1. uses(s) = mine \cup rest
    OBVIOUS
  <2>2. mine \cap rest = {}
    <3> SUFFICES ASSUME NEW d \in mine, d \in rest PROVE FALSE
      OBVIOUS
    <3>1. PICK f \in s \ {x} : f.id = d.field
      OBVIOUS
    <3>2. f \in fields /\ x \in fields /\ f.id = x.id /\ f # x
      BY <3>1
    <3> QED BY <3>2 DEF HaveKeys
  <2>3. mine \in SUBSET deps /\ rest \in SUBSET deps
    OBVIOUS
  <2> HIDE DEF mine, rest
  <2>4. IsFiniteSet(mine) /\ IsFiniteSet(rest)
    BY <2>3, FS_Subset
  <2>5. Cardinality(mine) \in Nat /\ Cardinality(rest) \in Nat
    BY <2>4, FS_CardinalityType
  <2>6. Cardinality(mine \cup rest) = Cardinality(mine) + Cardinality(rest) - Cardinality(mine \cap rest)
    BY <2>4, FS_Union
  <2>7. Cardinality(mine \cap rest) = 0
    BY <2>2, FS_EmptySet
  <2>8. Cardinality(mine \cup rest) = Cardinality(mine) + Cardinality(rest)
    BY <2>5, <2>6, <2>7
  <2> QED BY <2>1, <2>8 DEF mine, rest
<1>3. \A s, x : UsesIn(deps, s, ops) = Cardinality(uses(s)) /\ UsesOf(deps, x.id, ops) = Cardinality(of(x))
  BY DEF UsesIn, UsesOf
<1>4. Cardinality(uses({})) = 0
  BY <1>1, FS_EmptySet
<1> HIDE DEF uses, of
<1> QED BY <1>2, <1>3, <1>4

\* The sum over the fields of a table counts the uses of any of them.
LEMMA SumOfUses ==
  ASSUME NEW deps, IsFiniteSet(deps), NEW fields, HaveKeys(fields), NEW ops
  PROVE  MapThenSumSet(LAMBDA f : UsesOf(deps, f.id, ops), fields) = UsesIn(deps, fields, ops)
<1> DEFINE total == [s \in SUBSET fields |-> UsesIn(deps, s, ops)]
           Iter(f) == [s \in SUBSET fields |-> IF s = {} THEN 0
                         ELSE UsesOf(deps, (CHOOSE x \in s : TRUE).id, ops) + f[s \ {CHOOSE x \in s : TRUE}]]
           it == CHOOSE f : f = Iter(f)
<1>1. /\ \A s \in SUBSET fields : total[s] = UsesIn(deps, s, ops)
      /\ total = [s \in SUBSET fields |-> total[s]]
  OBVIOUS
<1>2. /\ UsesIn(deps, {}, ops) = 0
      /\ \A s \in SUBSET fields : \A x \in s :
           UsesIn(deps, s, ops) = UsesOf(deps, x.id, ops) + UsesIn(deps, s \ {x}, ops)
  BY UsesAddUp
<1> HIDE DEF total
<1>3. ASSUME NEW f PROVE Iter(f) = [s \in SUBSET fields |-> Iter(f)[s]] /\ Iter(f)[{}] = 0
  OBVIOUS
<1>4. ASSUME NEW f, NEW s \in SUBSET fields, s # {}
      PROVE  \E x \in s : Iter(f)[s] = UsesOf(deps, x.id, ops) + f[s \ {x}]
  <2> DEFINE one == CHOOSE x \in s : TRUE
  <2>1. Iter(f)[s] = UsesOf(deps, one.id, ops) + f[s \ {one}]
    BY <1>4
  <2>2. one \in s
    BY <1>4
  <2> HIDE DEF Iter, one
  <2> QED BY <2>1, <2>2
<1> HIDE DEF Iter
<1>5. total = Iter(total)
  <2>1. ASSUME NEW s \in SUBSET fields PROVE total[s] = Iter(total)[s]
    <3>1. CASE s = {}
      BY <1>1, <1>2, <1>3, <3>1
    <3>2. CASE s # {}
      <4>1. PICK x \in s : Iter(total)[s] = UsesOf(deps, x.id, ops) + total[s \ {x}]
        BY <1>4, <3>2
      <4>2. s \ {x} \in SUBSET fields
        OBVIOUS
      <4> QED BY <1>1, <1>2, <4>1, <4>2
    <3> QED BY <3>1, <3>2
  <2>2. Iter(total) = [s \in SUBSET fields |-> Iter(total)[s]]
    BY <1>3
  <2> QED BY <1>1, <2>1, <2>2
<1>6. it = Iter(it)
  BY <1>5
<1> HIDE DEF it
<1>7. it[fields] = total[fields]
  <2>1. it[{}] = total[{}]
    BY <1>3, <1>5, <1>6
  <2>2. ASSUME NEW s \in SUBSET fields, s # {}
        PROVE  \E x \in s : it[s \ {x}] = total[s \ {x}] => it[s] = total[s]
    <3>1. PICK x \in s : Iter(it)[s] = UsesOf(deps, x.id, ops) + it[s \ {x}]
      BY <1>4, <2>2
    <3>2. total[s] = UsesOf(deps, x.id, ops) + total[s \ {x}]
      <4>1. s \ {x} \in SUBSET fields
        OBVIOUS
      <4> QED BY <1>1, <1>2, <4>1
    <3>3. it[s] = Iter(it)[s]
      BY <1>6
    <3> QED BY <3>1, <3>2, <3>3
  <2>3. IsFiniteSet(fields) BY DEF HaveKeys
  <2> QED BY <2>1, <2>2, <2>3, ElementByElement
<1>8. MapThenSumSet(LAMBDA f : UsesOf(deps, f.id, ops), fields) = it[fields]
  BY DEF MapThenSumSet, MapThenFoldSet, it, Iter
<1>9. total[fields] = UsesIn(deps, fields, ops)
  BY <1>1
<1> QED BY <1>7, <1>8, <1>9

-----------------------------------------------------------------------------
(***************************************************************************)
(* The queries in SQL and in memory.                                       *)
(***************************************************************************)
LEMMA FieldTablesAgree ==
  ASSUME NEW db, TablesHold(db)
  PROVE  FieldTablesInSql(db, db) = FieldTablesInMemory(db)
<1> DEFINE deps == db.fieldDependencies
           fieldsOf(table) == {f \in db.fields : f.table = table}
           sum(table, ops) == MapThenSumSet(LAMBDA f : UsesOf(deps, f.id, ops), fieldsOf(table))
           used == {f.table : f \in {g \in db.fields : \E d \in deps : d.field = g.id}}
           joined(table) == FieldTable(Cardinality(fieldsOf(table)), deps, db.fields, table)
           summed(table) == [fieldCount |-> Cardinality(fieldsOf(table)),
                             readCount |-> sum(table, {"read"}), writeCount |-> sum(table, {"write"}),
                             referenceCount |-> sum(table, {"read", "write", "calculate"})]
<1>1. ASSUME NEW table, NEW ops PROVE sum(table, ops) = OfTable(deps, db.fields, table, ops)
  <2> DEFINE mine == fieldsOf(table)
  <2>1. IsFiniteSet(deps) /\ HaveKeys(mine)
    <3>1. IsFiniteSet(mine)
      <4>1. mine \in SUBSET db.fields /\ IsFiniteSet(db.fields)
        BY DEF TablesHold, HaveKeys
      <4> HIDE DEF mine
      <4> QED BY <4>1, FS_Subset
    <3> QED BY <3>1 DEF TablesHold, HaveKeys
  <2>2. {d \in deps : d.op \in ops /\ \E f \in mine : f.id = d.field}
          = {d \in deps : d.op \in ops /\ \E f \in db.fields : f.id = d.field /\ f.table = table}
    OBVIOUS
  <2>3. UsesIn(deps, mine, ops) = OfTable(deps, db.fields, table, ops)
    BY <2>2 DEF UsesIn, OfTable
  <2> HIDE DEF mine, deps
  <2>4. MapThenSumSet(LAMBDA f : UsesOf(deps, f.id, ops), mine) = UsesIn(deps, mine, ops)
    BY <2>1, SumOfUses
  <2> QED BY <2>3, <2>4 DEF mine
<1>2. ASSUME NEW table PROVE joined(table) = summed(table)
  <2> HIDE DEF sum, deps
  <2> QED BY <1>1 DEF FieldTable
<1>3. Tables(db.fields) \cup used = Tables(db.fields)
  BY DEF Tables
<1>4. FieldTablesInSql(db, db) = [table \in Tables(db.fields) \cup used |-> joined(table)]
  BY DEF FieldTablesInSql
<1>5. FieldTablesInMemory(db) = [table \in Tables(db.fields) |-> summed(table)]
  BY DEF FieldTablesInMemory
<1> HIDE DEF joined, summed, used
<1> QED BY <1>2, <1>3, <1>4, <1>5

\* Of rows listed once each, as many are kept as there are of the wanted ones.
LEMMA KeptAreWanted ==
  ASSUME NEW S, IsFiniteSet(S), NEW n, n = Cardinality(S), NEW rows \in [1..n -> S],
         \A i, j \in 1..n : rows[i] = rows[j] => i = j, NEW wanted \in SUBSET S
  PROVE  Cardinality({i \in 1..n : rows[i] \in wanted}) = Cardinality(wanted)
<1> DEFINE places == 1..n
           kept == {i \in places : rows[i] \in wanted}
           place == [i \in kept |-> rows[i]]
<1>1. IsFiniteSet(places) /\ Cardinality(places) = n
  BY FS_CardinalityType, FS_Interval
<1>2. rows \in [places -> S] /\ \A i, j \in places : rows[i] = rows[j] => i = j
  OBVIOUS
<1>3. kept \in SUBSET places
  OBVIOUS
<1> HIDE DEF places
<1>4. rows \in Injection(places, S)
  BY <1>2 DEF Injection, IsInjective
<1>5. rows \in Surjection(places, S)
  BY <1>1, <1>4, FS_Injection
<1>6. place \in [kept -> wanted]
  OBVIOUS
<1>7. \A i, j \in kept : place[i] = place[j] => i = j
  BY <1>2
<1>8. \A row \in wanted : \E i \in kept : place[i] = row
  <2> SUFFICES ASSUME NEW row \in wanted PROVE \E i \in kept : place[i] = row
    OBVIOUS
  <2>1. PICK i \in places : rows[i] = row
    BY <1>5 DEF Surjection
  <2> QED BY <2>1
<1>9. IsFiniteSet(kept)
  BY <1>1, <1>3, FS_Subset
<1> HIDE DEF place, kept
<1>10. place \in Bijection(kept, wanted)
  BY <1>6, <1>7, <1>8 DEF Bijection, Injection, Surjection, IsInjective
<1>11. Cardinality(wanted) = Cardinality(kept)
  BY <1>9, <1>10, FS_Bijection DEF ExistsBijection
<1> QED BY <1>11 DEF kept, places

\* Pages of as many items differ in nothing but the items they show.
AlikePages(left, right) ==
  /\ [left EXCEPT !.items = <<>>] = [right EXCEPT !.items = <<>>]
  /\ Len(left.items) = Len(right.items)

\* Lists of the same length make pages alike, whatever is in them.
LEMMA PagesOfSameLength ==
  ASSUME NEW m \in Nat, NEW S, NEW T, NEW one \in [1..m -> S], NEW other \in [1..m -> T],
         NEW page \in Int, NEW pageSize \in Int
  PROVE  AlikePages(PaginateItems(one, page, pageSize), PaginateItems(other, page, pageSize))
<1> DEFINE p == NormalizePagination(page, pageSize, m)
           size == CutSize(p, m)
<1>1. Len(one) = m /\ Len(other) = m
  OBVIOUS
<1>2. PaginateItems(one, page, pageSize) = PageFrom(Cut(one, p), m, p)
      /\ PaginateItems(other, page, pageSize) = PageFrom(Cut(other, p), m, p)
  BY <1>1 DEF PaginateItems
<1>3. p \in PageBounds
  BY Pagination
<1> HIDE DEF p
<1>4. size \in Nat /\ Cut(one, p) \in [1..size -> S] /\ Cut(other, p) \in [1..size -> T]
  BY <1>3, CutsAreRows
<1> HIDE DEF size
<1>5. Len(Cut(one, p)) = size /\ Len(Cut(other, p)) = size
  BY <1>4
<1>6. \A items : [PageFrom(items, m, p) EXCEPT !.items = <<>>] = PageFrom(<<>>, m, p)
  BY DEF PageFrom
<1>7. \A items : PageFrom(items, m, p).items = items
  BY DEF PageFrom
<1> QED BY <1>2, <1>5, <1>6, <1>7 DEF AlikePages

\* With nothing committed meanwhile the answers are right, but for risks and rules.
LEMMA RightAnswers == SqlInv => (input.kind \notin GroupedKinds => SqlAnswersLikeMemory)
<1> SUFFICES ASSUME SqlInv, input.kind \notin GroupedKinds, step = "done", replaced = 0
             PROVE  SqlAnswersLikeMemory
  BY DEF SqlAnswersLikeMemory
<1>1. AnswerIsRight
  BY DEF SqlInv
<1>2. CASE input.kind = "snapshot"
  BY <1>1, <1>2 DEF SqlAnswersLikeMemory, AnswerIsRight
<1>3. CASE input.kind = "dependencies"
  BY <1>1, <1>3 DEF SqlAnswersLikeMemory, AnswerIsRight
<1>4. CASE input.kind \notin {"snapshot", "dependencies"}
  BY <1>1, <1>4 DEF SqlAnswersLikeMemory, AnswerIsRight
<1> QED BY <1>2, <1>3, <1>4

\* Lists of the same length are cut at the same places.
CutAlike(items, rows, n, pages) ==
  /\ Cut(items, pages) = [k \in DOMAIN Cut(rows, pages) |-> Cut(items, pages)[k]]
  /\ \A k \in DOMAIN Cut(rows, pages) :
       \E i \in 1..n : Cut(rows, pages)[k] = rows[i] /\ Cut(items, pages)[k] = items[i]

\* A row and the item made of it are shown on the same page.
LEMMA CutsOfTwoLists ==
  ASSUME NEW n \in Nat, NEW S, NEW T, NEW rows \in [1..n -> S], NEW items \in [1..n -> T],
         NEW pages \in PageBounds
  PROVE  CutAlike(items, rows, n, pages)
<1> DEFINE size == CutSize(pages, n)
           ofRows == Cut(rows, pages)
           ofItems == Cut(items, pages)
<1>1. ofRows \in [1..size -> S]
  BY CutsAreRows
<1>2. ofItems \in [1..size -> T]
  BY CutsAreRows
<1>3. \A k \in 1..size : PlaceIn(pages, k) \in 1..n
  BY CutsAreRows
<1>4. \A k \in 1..size : ofRows[k] = rows[PlaceIn(pages, k)]
  BY <1>1, CutsAreRows
<1>5. \A k \in 1..size : ofItems[k] = items[PlaceIn(pages, k)]
  BY <1>2, CutsAreRows
<1> HIDE DEF size, ofRows, ofItems
<1>6. DOMAIN ofRows = 1..size /\ ofItems = [k \in DOMAIN ofRows |-> ofItems[k]]
  BY <1>1, <1>2
<1>7. \A k \in DOMAIN ofRows : \E i \in 1..n : ofRows[k] = rows[i] /\ ofItems[k] = items[i]
  BY <1>3, <1>4, <1>6, <1>5
<1> QED BY <1>6, <1>7 DEF CutAlike, ofRows, ofItems

\* A page with all its names loaded is the page in memory.
LEMMA NamedPage ==
  ASSUME NEW db \in Databases, NEW in \in Inputs, in.kind \in Paged, NEW total, NEW rows,
         total = Cardinality(RowsWanted(in, db)),
         rows = Cut(InOrder(in.kind, RowsWanted(in, db)), NormalizePagination(in.page, in.pageSize, total))
  PROVE  PageInMemory(in, db)
           = PageFrom(SeqMap(rows, LAMBDA row : Named(in.kind, row, db)), total,
                      NormalizePagination(in.page, in.pageSize, total))
<1> DEFINE wanted == RowsWanted(in, db)
           list == InOrder(in.kind, wanted)
           items == ItemsInMemory(in, db)
           p == NormalizePagination(in.page, in.pageSize, total)
           S == {Named(in.kind, row, db) : row \in wanted}
<1>1. TablesHold(db) /\ in \in PageInput
  BY TablesAreHeld, PageInputs DEF PageKinds
<1>2. /\ total \in Nat /\ list \in [1..total -> wanted]
      /\ items = [i \in 1..total |-> Named(in.kind, list[i], db)] /\ Len(items) = total
  BY <1>1, ItemsAreRows
<1>3. p \in PageBounds
  BY <1>1, <1>2, Pagination DEF PageInput
<1> HIDE DEF list, p, wanted, items
<1>4. \A i \in 1..total : items[i] = Named(in.kind, list[i], db)
  BY <1>2
<1>5. items \in [1..total -> S]
  BY <1>2
<1> HIDE DEF S
<1>6. rows = Cut(list, p)
  BY DEF list, p, wanted
<1>7. SeqMap(rows, LAMBDA row : Named(in.kind, row, db)) = Cut(items, p)
  <2>1. total \in Nat /\ list \in [1..total -> wanted]
    BY <1>2
  <2>2. CutAlike(items, list, total, p)
    BY <1>3, <1>5, <2>1, CutsOfTwoLists
  <2>3. /\ Cut(items, p) = [k \in DOMAIN Cut(list, p) |-> Cut(items, p)[k]]
        /\ \A k \in DOMAIN Cut(list, p) :
             \E i \in 1..total : Cut(list, p)[k] = list[i] /\ Cut(items, p)[k] = items[i]
    BY <2>2 DEF CutAlike
  <2>4. \A k \in DOMAIN rows : Cut(items, p)[k] = Named(in.kind, rows[k], db)
    BY <1>4, <1>6, <2>3
  <2>5. SeqMap(rows, LAMBDA row : Named(in.kind, row, db)) = [k \in DOMAIN rows |-> Named(in.kind, rows[k], db)]
    BY DEF SeqMap
  <2>6. Cut(items, p) = [k \in DOMAIN rows |-> Cut(items, p)[k]]
    BY <1>6, <2>3
  <2> QED BY <2>4, <2>5, <2>6
<1>8. PageInMemory(in, db) = PageFrom(Cut(items, p), total, p)
  BY <1>2 DEF PageInMemory, PaginateItems, items, p
<1> QED BY <1>7, <1>8 DEF p

\* Each statement keeps the invariant as long as no analysis commits.
LEMMA SqlStep == PageTypeOK /\ PageTypeOK' /\ SqlInv /\ [PageNext]_pageVars => SqlInv'
<1> SUFFICES ASSUME PageTypeOK, PageTypeOK', SqlInv, [PageNext]_pageVars, replaced' = 0 PROVE SqlInv'
  BY DEF SqlInv
<1>2. CASE SnapshotQuery
  <2>1. /\ step' = "done" /\ replaced = 0 /\ input.kind = "snapshot" /\ asked = tables
        /\ UNCHANGED <<tables, input>>
    BY <1>2 DEF SnapshotQuery, ReadsOnly, PageTypeOK
  <2>2. TablesHold(tables)
    BY TablesAreHeld DEF PageTypeOK
  <2>3. PICK seen \in [Statements -> {asked, tables}] :
          answer' = SnapshotFrom(seen, tables, FieldTablesInSql(seen.tableCounts, seen.tableUsage))
    BY <1>2 DEF SnapshotQuery
  <2>4. seen = AllOf(tables)
    BY <2>1 DEF AllOf
  <2>5. seen.tableCounts = tables /\ seen.tableUsage = tables
    BY <2>1 DEF Statements
  <2>6. answer' = SnapshotInMemory(tables)
    BY <2>2, <2>3, <2>4, <2>5, FieldTablesAgree DEF SnapshotInMemory
  <2> QED BY <2>1, <2>6 DEF SqlInv, AnswerIsRight
<1>3. CASE MatchNames
  <2>1. /\ replaced = 0 /\ input.kind \in Paged /\ UNCHANGED <<tables, input>>
        /\ tables \in Databases /\ input \in Inputs
    BY <1>3 DEF MatchNames, ReadsOnly, PageTypeOK
  <2>2. Finds(read', input, tables)
    BY <1>3 DEF MatchNames, Finds
  <2>3. CASE step' = "done"
    <3>1. /\ input.kind = "fieldDependencies" /\ input.table # Absent /\ TableFields(input, tables) = {}
          /\ answer' = PaginateItems(<<>>, input.page, input.pageSize)
      BY <1>3, <2>3 DEF MatchNames
    <3>2. TablesHold(tables) /\ input \in PageInput
      BY <2>1, TablesAreHeld, PageInputs DEF PageKinds
    <3>3. ASSUME NEW row \in RowsOf(input.kind, tables) PROVE ~MatchesInMemory(input, row, tables)
      <4>1. WhereCondition(input, row, read') <=> MatchesInMemory(input, row, tables)
        BY <2>1, <2>2, <3>2, ConditionsAgree
      <4>2. ~WhereCondition(input, row, read')
        BY <2>2, <3>1 DEF WhereCondition, Finds
      <4> QED BY <4>1, <4>2
    <3>4. RowsWanted(input, tables) = {}
      BY <3>3 DEF RowsWanted
    <3>5. ItemsInMemory(input, tables) = <<>>
      <4>1. Cardinality(RowsWanted(input, tables)) = 0
        BY <3>4, FS_EmptySet
      <4>2. ItemsInMemory(input, tables)
              = [i \in 1..0 |-> Named(input.kind, InOrder(input.kind, RowsWanted(input, tables))[i], tables)]
        BY <2>1, <3>2, <4>1, ItemsAreRows
      <4> QED BY <4>2
    <3>6. answer' = PageInMemory(input, tables)
      BY <3>1, <3>5 DEF PageInMemory
    <3> QED BY <2>1, <2>3, <3>1, <3>6 DEF SqlInv, AnswerIsRight
  <2>4. CASE step' = "count"
    BY <2>1, <2>2, <2>4 DEF SqlInv
  <2> QED BY <1>3, <2>3, <2>4 DEF MatchNames
<1>4. CASE CountMatches
  <2>1. /\ replaced = 0 /\ input.kind \in Paged /\ UNCHANGED <<tables, input>> /\ step = "count"
        /\ step' = "select" /\ tables \in Databases /\ input \in Inputs /\ read \in Found
    BY <1>4 DEF CountMatches, ReadsOnly, PageTypeOK
  <2>2. Finds(read, input, tables)
    BY <2>1 DEF SqlInv
  <2>3. Selected(input, tables, read) = RowsWanted(input, tables)
    BY <2>1, <2>2, TablesAreHeld, PageInputs, SameRowsAreSelected DEF PageKinds
  <2>4. Finds(read', input, tables) /\ read'.total = Cardinality(RowsWanted(input, tables))
    BY <1>4, <2>1, <2>2, <2>3 DEF CountMatches, Finds, Found
  <2> QED BY <2>1, <2>4 DEF SqlInv
<1>5. CASE SelectPage
  <2>1. /\ replaced = 0 /\ input.kind \in Paged /\ UNCHANGED <<tables, input>> /\ step = "select"
        /\ step' = "names" /\ tables \in Databases /\ input \in Inputs /\ read \in Found
    BY <1>5 DEF SelectPage, ReadsOnly, PageTypeOK
  <2>2. Finds(read, input, tables) /\ read.total = Cardinality(RowsWanted(input, tables))
    BY <2>1 DEF SqlInv
  <2>3. Selected(input, tables, read) = RowsWanted(input, tables)
    BY <2>1, <2>2, TablesAreHeld, PageInputs, SameRowsAreSelected DEF PageKinds
  <2>4. \A rows : [read EXCEPT !.rows = rows].total = read.total /\ [read EXCEPT !.rows = rows].rows = rows
    BY <2>1 DEF Found
  <2>5. /\ read'.total = read.total
        /\ read'.rows = Cut(InOrder(input.kind, RowsWanted(input, tables)),
                            NormalizePagination(input.page, input.pageSize, read.total))
    BY <1>5, <2>3, <2>4 DEF SelectPage
  <2>6. input.kind # "dependencies"
    BY <2>1 DEF Paged
  <2> QED BY <2>1, <2>2, <2>5, <2>6 DEF SqlInv
<1>6. CASE LoadNames
  <2>1. /\ replaced = 0 /\ input.kind \in Paged /\ UNCHANGED <<tables, input>> /\ step = "names"
        /\ step' = "done" /\ tables \in Databases /\ input \in Inputs
        /\ answer' = PageFrom(SeqMap(read.rows, LAMBDA row : Named(input.kind, row, tables)), read.total,
                              NormalizePagination(input.page, input.pageSize, read.total))
    BY <1>6 DEF LoadNames, ReadsOnly, PageTypeOK
  <2>2. /\ read.total = Cardinality(RowsWanted(input, tables))
        /\ read.rows = Cut(InOrder(input.kind, RowsWanted(input, tables)),
                           NormalizePagination(input.page, input.pageSize, read.total))
    BY <2>1 DEF SqlInv
  <2>3. answer' = PageInMemory(input, tables)
    BY <2>1, <2>2, NamedPage
  <2>4. input.kind \notin {"snapshot", "dependencies"}
    BY <2>1 DEF Paged
  <2> QED BY <2>1, <2>3, <2>4 DEF SqlInv, AnswerIsRight
<1>7. CASE GroupedPage
  <2>1. input.kind \in GroupedKinds /\ UNCHANGED <<tables, input>> /\ step' = "done"
    BY <1>7 DEF GroupedPage, ReadsOnly
  <2> QED BY <2>1 DEF SqlInv, AnswerIsRight, GroupedKinds
<1>8. CASE SelectDependencies
  <2>1. /\ input.kind = "dependencies" /\ step = "match" /\ step' = "names" /\ read = NoRead
        /\ UNCHANGED <<tables, input>>
    BY <1>8 DEF SelectDependencies, ReadsOnly, PageTypeOK
  <2>2. \A rows : [NoRead EXCEPT !.rows = rows].rows = rows
    BY DEF NoRead
  <2>3. read'.rows = InOrderOfIds(tables.dependencies)
    BY <1>8, <2>1, <2>2 DEF SelectDependencies
  <2>4. input.kind \notin Paged
    BY <2>1 DEF Paged
  <2> QED BY <2>1, <2>3, <2>4 DEF SqlInv
<1>9. CASE DependencyPage
  <2> DEFINE n == Cardinality(tables.dependencies)
             wanted == RowsWanted(input, tables)
             m == Cardinality(wanted)
             kept == {i \in DOMAIN read.rows : MatchesInMemory(input, read.rows[i], tables)}
             rows == RowsAt(read.rows, kept)
             items == [i \in DOMAIN rows |-> Named("dependencies", rows[i], tables)]
             inMemory == ItemsInMemory(input, tables)
             S == {Named("dependencies", row, tables) : row \in tables.dependencies}
             T == {Named(input.kind, row, tables) : row \in wanted}
  <2>1. /\ replaced = 0 /\ input.kind = "dependencies" /\ step = "names" /\ step' = "done"
        /\ UNCHANGED <<tables, input>> /\ tables \in Databases /\ input \in Inputs
    BY <1>9 DEF DependencyPage, ReadsOnly, PageTypeOK
  <2>2. TablesHold(tables) /\ input \in PageInput /\ IsFiniteSet(tables.dependencies)
    BY <2>1, TablesAreHeld, PageInputs DEF PageKinds, TablesHold, HaveKeys
  <2>3. read.rows = InOrderOfIds(tables.dependencies)
    BY <2>1 DEF SqlInv
  <2>4. /\ n \in Nat /\ read.rows \in [1..n -> tables.dependencies]
        /\ \A i, j \in 1..n : read.rows[i] = read.rows[j] => i = j
    BY <2>2, <2>3, DependenciesAreListed
  <2>5. wanted \in SUBSET tables.dependencies
        /\ \A row \in tables.dependencies : row \in wanted <=> MatchesInMemory(input, row, tables)
    BY <2>1 DEF RowsWanted, RowsOf
  <2>6. kept = {i \in 1..n : read.rows[i] \in wanted}
    BY <2>4, <2>5
  <2>7. Cardinality(kept) = m
    <3> HIDE DEF kept, wanted
    <3> QED BY <2>2, <2>4, <2>5, <2>6, KeptAreWanted
  <2>8. kept \in SUBSET (1..n)
    BY <2>6
  <2> HIDE DEF kept
  <2>9. m \in Nat /\ rows \in [1..m -> tables.dependencies]
    <3> HIDE DEF n, m, rows
    <3>1. Cardinality(kept) \in 0..n /\ RowsAt(read.rows, kept) \in [1..Cardinality(kept) -> tables.dependencies]
      BY <2>4, <2>8, RowsAreKept
    <3> QED BY <2>4, <2>7, <3>1 DEF rows
  <2>10. items \in [1..m -> S]
    <3> HIDE DEF rows, m
    <3> QED BY <2>9
  <2>11. inMemory \in [1..m -> T]
    <3> DEFINE list == InOrder(input.kind, wanted)
    <3>1. list \in [1..m -> wanted] /\ inMemory = [i \in 1..m |-> Named(input.kind, list[i], tables)]
      BY <2>1, <2>2, ItemsAreRows
    <3> HIDE DEF list, inMemory, wanted, m
    <3> QED BY <3>1
  <2>12. answer' = PaginateItems(items, input.page, input.pageSize)
    BY <1>9 DEF DependencyPage, SeqMap, Filtered, kept
  <2>13. input.page \in Int /\ input.pageSize \in Int
    BY <2>2 DEF PageInput
  <2>14. PageInMemory(input, tables) = PaginateItems(inMemory, input.page, input.pageSize)
    BY DEF PageInMemory
  <2> HIDE DEF items, inMemory, m, S, T
  <2> DEFINE right == PaginateItems(inMemory, input.page, input.pageSize)
  <2>15. AlikePages(PaginateItems(items, input.page, input.pageSize),
                    PaginateItems(inMemory, input.page, input.pageSize))
    <3> DEFINE page == input.page
               pageSize == input.pageSize
    <3>1. m \in Nat /\ page \in Int /\ pageSize \in Int
      BY <2>9, <2>13
    <3> HIDE DEF page, pageSize
    <3>2. AlikePages(PaginateItems(items, page, pageSize), PaginateItems(inMemory, page, pageSize))
      BY <3>1, <2>10, <2>11, PagesOfSameLength
    <3> QED BY <3>2 DEF page, pageSize
  <2>16. AlikePages(answer', PageInMemory(input, tables))
    BY <2>12, <2>14, <2>15
  <2>17. AnswerIsRight'
    BY <2>1, <2>16 DEF AnswerIsRight, AlikePages
  <2> QED BY <2>1, <2>17 DEF SqlInv
<1>10. CASE ReplaceTables
  BY <1>10 DEF ReplaceTables, PageTypeOK
<1>11. CASE UNCHANGED pageVars
  BY <1>11 DEF pageVars, SqlInv, AnswerIsRight
<1> QED BY <1>2, <1>3, <1>4, <1>5, <1>6, <1>7, <1>8, <1>9, <1>10, <1>11 DEF PageNext

\* With nothing committed meanwhile, what the statements in the database return of
\* symbols, fields, dependencies and the overview is what the query in memory does.
THEOREM SqlAnswers == PageSpec => [](input.kind \notin GroupedKinds => SqlAnswersLikeMemory)
<1>1. PageSpec => []PageTypeOK
  BY PageTypeInit, PageTypeStep, PTL DEF PageSpec
<1>2. PageInit => SqlInv
  BY DEF PageInit, SqlInv
<1> QED BY <1>1, <1>2, RightAnswers, SqlStep, PTL DEF PageSpec
=============================================================================
