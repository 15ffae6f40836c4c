---------------------------- MODULE NumberLemmas ----------------------------
(***************************************************************************)
(* Facts about natural numbers that the proofs about times of day, parts   *)
(* of a bundle and paths of receipts share: division, for the provers know *)
(* only its axioms, induction, as the least member of a set, and what      *)
(* counting the members above or below one says of a finite set.           *)
(***************************************************************************)
EXTENDS Integers, TLAPS, WellFoundedInduction, FiniteSetTheorems

-----------------------------------------------------------------------------
(* Division *)

\* Division by n: the quotient is the one multiple of n below.
LEMMA Division ==
    ASSUME NEW a \in Nat, NEW n \in Nat \ {0}
    PROVE  /\ a \div n \in Nat
           /\ a % n \in 0 .. n - 1
           /\ a = n * (a \div n) + (a % n)
  OBVIOUS

LEMMA DivisionIsMonotone ==
    ASSUME NEW a \in Nat, NEW b \in Nat, NEW n \in Nat \ {0}, a <= b
    PROVE  a \div n <= b \div n
  OBVIOUS

LEMMA ProductIsMonotone ==
    ASSUME NEW a \in Nat, NEW b \in Nat, NEW n \in Nat, a <= b
    PROVE  a * n \in Nat /\ a * n <= b * n
  OBVIOUS

\* The quotient lies on the side of q that the dividend is on.
LEMMA QuotientBounds ==
    ASSUME NEW a \in Nat, NEW n \in Nat \ {0}, NEW q \in Nat
    PROVE  /\ q <= a \div n <=> q * n <= a
           /\ (a \div n) * n = a - (a % n)
  <1> DEFINE d == a \div n
             r == a % n
  <1>1. d \in Nat /\ r \in 0 .. n - 1 /\ a = n * d + r
    BY Division
  <1>2. (a \div n) * n = a - (a % n)
    BY <1>1
  <1> HIDE DEF d, r
  <1>3. d * n \in Nat /\ a = d * n + r
    BY <1>1
  <1>4. q <= d => q * n <= a
    BY <1>1, <1>3, ProductIsMonotone
  <1>5. ASSUME d < q PROVE a < q * n
    <2>1. (d + 1) * n <= q * n
      BY <1>1, <1>5, ProductIsMonotone
    <2>2. (d + 1) * n = d * n + n
      BY <1>1
    <2> QED
      BY <1>1, <1>3, <2>1, <2>2
  <1>6. q * n \in Nat
    BY ProductIsMonotone
  <1> QED
    BY <1>1, <1>2, <1>3, <1>4, <1>5, <1>6 DEF d

\* Rounding down keeps what is above a multiple of the unit above it.
LEMMA RoundingKeepsMultiples ==
    ASSUME NEW a \in Nat, NEW n \in Nat \ {0}, NEW q \in Nat, q * n <= a
    PROVE  q * n <= a - (a % n)
  <1>1. q <= a \div n /\ (a \div n) * n = a - (a % n)
    BY QuotientBounds
  <1>2. a \div n \in Nat
    BY Division
  <1> QED
    BY <1>1, <1>2, ProductIsMonotone

-----------------------------------------------------------------------------
(* Induction *)

\* A set of naturals has a least member.
LEMMA LeastElement ==
    ASSUME NEW S \in SUBSET Nat, S # {}
    PROVE  \E x \in S : \A y \in S : x <= y
  <1> DEFINE R == {ss \in Nat \X Nat : ss[1] < ss[2]}
  <1>1. IsWellFoundedOn(R, Nat)
    BY NatLessThanWellFounded DEF OpToRel
  <1>2. \A y \in Nat, z \in Nat : y < z => <<y, z>> \in R
    OBVIOUS
  <1> HIDE DEF R
  <1>3. PICK x \in S : \A y \in S : ~ (<<y, x>> \in R)
    BY <1>1, WFMin
  <1>4. \A y \in S : ~ (y < x)
    BY <1>2, <1>3
  <1>5. \A y \in S : x <= y
    BY <1>4
  <1> QED
    BY <1>5

-----------------------------------------------------------------------------
(* Counting *)

Above(S, k) == {m \in S : m > k}
Beneath(S, k) == {m \in S : m < k}

LEMMA PartsAreCounted ==
    ASSUME NEW S, IsFiniteSet(S), NEW T \in SUBSET S
    PROVE  /\ IsFiniteSet(T)
           /\ Cardinality(T) \in Nat /\ Cardinality(S) \in Nat
           /\ Cardinality(T) <= Cardinality(S)
  BY FS_Subset, FS_CardinalityType

\* The first M + 1 members are all there are, if there are no more than M of
\* them: what a query with a limit returns when the limit is not reached.
LEMMA NothingIsCutOff ==
    ASSUME NEW S \in SUBSET Nat, IsFiniteSet(S), NEW M \in Nat,
           Cardinality({i \in S : Cardinality(Beneath(S, i)) < M + 1}) <= M
    PROVE  \A i \in S : Cardinality(Beneath(S, i)) < M + 1
  <1> DEFINE first == {i \in S : Cardinality(Beneath(S, i)) < M + 1}
             rest == S \ first
  <1>1. SUFFICES ASSUME rest # {} PROVE FALSE
    OBVIOUS
  <1>2. PICK l \in rest : \A y \in rest : l <= y
    BY <1>1, LeastElement
  <1>3. Beneath(S, l) \subseteq first
    <2> SUFFICES ASSUME NEW x \in Beneath(S, l) PROVE x \in first
      OBVIOUS
    <2>1. x \in S /\ x < l
      BY DEF Beneath
    <2>2. l \in Nat /\ x \in Nat
      BY <2>1
    <2> QED
      BY <1>2, <2>1, <2>2
  <1>4. IsFiniteSet(first) /\ Cardinality(first) \in Nat
    <2>1. first \in SUBSET S
      OBVIOUS
    <2> QED
      BY <2>1, PartsAreCounted
  <1>5. Cardinality(Beneath(S, l)) \in Nat /\ Cardinality(Beneath(S, l)) <= Cardinality(first)
    BY <1>3, <1>4, PartsAreCounted
  <1>6. ~ (Cardinality(Beneath(S, l)) < M + 1)
    OBVIOUS
  <1>7. Cardinality(first) <= M
    OBVIOUS
  <1> HIDE DEF first, rest
  <1> QED
    BY <1>4, <1>5, <1>6, <1>7

\* The greater a member, the fewer are above it.
LEMMA RanksFall ==
    ASSUME NEW S \in SUBSET Nat, IsFiniteSet(S), NEW k \in S, NEW m \in S, k < m
    PROVE  /\ Cardinality(Above(S, m)) \in Nat
           /\ Cardinality(Above(S, k)) \in Nat
           /\ Cardinality(Above(S, m)) < Cardinality(Above(S, k))
  <1>1. Above(S, k) \in SUBSET S /\ Above(S, m) \in SUBSET Above(S, k)
    <2>1. k \in Nat /\ m \in Nat
      OBVIOUS
    <2>2. \A x \in S : x > m => x > k
      BY <2>1
    <2> QED
      BY <2>2 DEF Above
  <1>2. m \in Above(S, k) /\ m \notin Above(S, m)
    BY DEF Above
  <1>3. IsFiniteSet(Above(S, k)) /\ Cardinality(Above(S, k)) \in Nat
    BY <1>1, PartsAreCounted
  <1>4. Cardinality(Above(S, m)) \in Nat /\ Cardinality(Above(S, m)) <= Cardinality(Above(S, k))
    BY <1>1, <1>3, PartsAreCounted
  <1>5. Cardinality(Above(S, m)) # Cardinality(Above(S, k))
    BY <1>1, <1>2, <1>3, FS_Subset
  <1> QED
    BY <1>3, <1>4, <1>5

LEMMA RanksAreNaturals ==
    ASSUME NEW S \in SUBSET Nat, IsFiniteSet(S), NEW k
    PROVE  Cardinality(Above(S, k)) \in Nat
  <1>1. Above(S, k) \in SUBSET S
    BY DEF Above
  <1> QED
    BY <1>1, PartsAreCounted

LEMMA RanksGrow ==
    ASSUME NEW T \in SUBSET Nat, IsFiniteSet(T), NEW S \in SUBSET T, NEW k
    PROVE  /\ Cardinality(Above(S, k)) \in Nat /\ Cardinality(Above(T, k)) \in Nat
           /\ Cardinality(Above(S, k)) <= Cardinality(Above(T, k))
  <1>1. Above(T, k) \in SUBSET T /\ Above(S, k) \in SUBSET Above(T, k)
    BY DEF Above
  <1> QED
    BY <1>1, PartsAreCounted

\* A finite set of naturals has a greatest member: one with the fewest above.
LEMMA GreatestElement ==
    ASSUME NEW S \in SUBSET Nat, IsFiniteSet(S), S # {}
    PROVE  \E x \in S : \A y \in S : y <= x
  <1> DEFINE R(x) == Cardinality(Above(S, x))
             ranks == {R(x) : x \in S}
  <1>1. ranks \in SUBSET Nat /\ ranks # {}
    BY RanksAreNaturals
  <1>2. PICK x \in S : \A y \in S : R(x) <= R(y)
    <2>1. PICK r \in ranks : \A y \in ranks : r <= y
      BY <1>1, LeastElement
    <2> QED
      BY <2>1
  <1>3. ASSUME NEW y \in S, x < y PROVE FALSE
    <2>1. R(y) \in Nat /\ R(x) \in Nat /\ R(y) < R(x)
      BY <1>3, RanksFall
    <2>2. R(x) <= R(y)
      BY <1>2
    <2> HIDE DEF R
    <2> QED
      BY <2>1, <2>2
  <1>4. \A y \in S : y \in Nat /\ x \in Nat
    OBVIOUS
  <1> QED
    BY <1>3, <1>4

\* A page of L members after the a greatest: no more than L, and L of them if
\* any member comes after it.
Page(S, a, L) == {k \in S : Cardinality(Above(S, k)) \in a .. a + L - 1}

LEMMA PageIsNoLonger ==
    ASSUME NEW S \in SUBSET Nat, IsFiniteSet(S), NEW a \in Nat, NEW L \in Nat
    PROVE  /\ IsFiniteSet(Page(S, a, L))
           /\ Cardinality(Page(S, a, L)) \in Nat
           /\ Cardinality(Page(S, a, L)) <= L
  <1> DEFINE K == Page(S, a, L)
             ranks == a .. a + L - 1
             f == [k \in K |-> Cardinality(Above(S, k))]
  <1>1. IsFiniteSet(ranks) /\ Cardinality(ranks) = L
    <2>1. IsFiniteSet(ranks)
          /\ Cardinality(ranks) = IF a > a + L - 1 THEN 0 ELSE (a + L - 1) - a + 1
      BY FS_Interval
    <2> QED
      BY <2>1
  <1>2. f \in [K -> ranks]
    BY DEF Page
  <1>3. ASSUME NEW x \in K, NEW y \in K, f[x] = f[y] PROVE x = y
    <2>1. x \in S /\ y \in S /\ x \in Nat /\ y \in Nat
      BY DEF Page
    <2>2. Cardinality(Above(S, x)) = Cardinality(Above(S, y))
      BY <1>3
    <2>3. CASE x < y
      BY <2>1, <2>2, <2>3, RanksFall
    <2>4. CASE y < x
      BY <2>1, <2>2, <2>4, RanksFall
    <2> QED
      BY <2>1, <2>3, <2>4
  <1>4. f \in Injection(K, ranks)
    BY <1>2, <1>3 DEF Injection, IsInjective
  <1> HIDE DEF K, ranks, f
  <1>5. IsFiniteSet(K) /\ Cardinality(K) <= L
    BY <1>1, <1>4, FS_Injection
  <1>6. Cardinality(K) \in Nat
    BY <1>5, FS_CardinalityType
  <1> QED
    BY <1>5, <1>6 DEF K

LEMMA PageIsFull ==
    ASSUME NEW S \in SUBSET Nat, IsFiniteSet(S), NEW a \in Nat, NEW L \in Nat,
           NEW k \in S, Cardinality(Above(S, k)) >= a + L
    PROVE  Cardinality(Page(S, a, L)) >= L
  <1> DEFINE R(x) == Cardinality(Above(S, x))
             K == Page(S, a, L)
             U == {x \in S : R(x) < a}
             T == {x \in S : R(x) < a + L}
             beyond == {x \in S : R(x) >= a + L}
             late == {R(x) : x \in beyond}
  <1>0. \A x : R(x) \in Nat
    BY RanksAreNaturals
  <1>1. PICK l \in beyond : \A x \in beyond : R(l) <= R(x)
    <2>1. late \in SUBSET Nat /\ late # {}
      BY <1>0
    <2>2. PICK r \in late : \A y \in late : r <= y
      BY <2>1, LeastElement
    <2> QED
      BY <2>2
  <1>2. l \in S /\ R(l) >= a + L
    OBVIOUS
  <1>3. Above(S, l) \in SUBSET T
    <2> SUFFICES ASSUME NEW x \in Above(S, l) PROVE x \in T
      OBVIOUS
    <2>1. x \in S /\ l < x
      BY <1>2 DEF Above
    <2>2. R(x) < R(l)
      BY <1>2, <2>1, RanksFall
    <2>3. x \notin beyond
      <3>1. R(x) \in Nat /\ R(l) \in Nat
        BY <1>0
      <3>2. x \in beyond => R(l) <= R(x)
        BY <1>1
      <3> HIDE DEF R, beyond
      <3> QED
        BY <2>2, <3>1, <3>2
    <2> QED
      BY <1>0, <2>1, <2>3
  <1>4. T \in SUBSET S /\ U \in SUBSET S /\ K \in SUBSET S /\ T = K \cup U
    <2>1. \A x \in S : x \in K <=> R(x) >= a /\ R(x) < a + L
      BY <1>0 DEF Page
    <2>2. K \in SUBSET S
      BY DEF Page
    <2>3. \A x \in S : x \in T <=> x \in K \/ x \in U
      <3> SUFFICES ASSUME NEW x \in S PROVE x \in T <=> x \in K \/ x \in U
        OBVIOUS
      <3>1. x \in T <=> R(x) < a + L
        OBVIOUS
      <3>2. x \in U <=> R(x) < a
        OBVIOUS
      <3>3. R(x) \in Nat /\ (x \in K <=> R(x) >= a /\ R(x) < a + L)
        BY <1>0, <2>1
      <3> HIDE DEF R, K, U, T
      <3> QED
        BY <3>1, <3>2, <3>3
    <2>4. T \in SUBSET S /\ U \in SUBSET S
      OBVIOUS
    <2> HIDE DEF R, K, U, T
    <2> QED
      BY <2>2, <2>3, <2>4
  <1>5. Cardinality(U) <= a
    <2>1. CASE U = {}
      BY <2>1, FS_EmptySet
    <2>2. CASE U # {}
      <3>1. PICK u \in U : \A y \in U : u <= y
        BY <2>2, <1>4, LeastElement
      <3>2. U \in SUBSET (Above(S, u) \cup {u})
        <4> SUFFICES ASSUME NEW y \in U PROVE y \in Above(S, u) \cup {u}
          OBVIOUS
        <4>1. y \in Nat /\ u \in Nat /\ y \in S
          BY <1>4
        <4>2. u <= y
          BY <3>1
        <4> QED
          BY <4>1, <4>2 DEF Above
      <3>3. Above(S, u) \in SUBSET S /\ u \notin Above(S, u)
        BY DEF Above
      <3>4. IsFiniteSet(Above(S, u))
        BY <3>3, PartsAreCounted
      <3>5. IsFiniteSet(Above(S, u) \cup {u}) /\ Cardinality(Above(S, u) \cup {u}) = R(u) + 1
        BY <3>3, <3>4, FS_AddElement
      <3>6. Cardinality(U) \in Nat /\ Cardinality(U) <= R(u) + 1
        BY <3>2, <3>5, PartsAreCounted
      <3>7. R(u) < a /\ R(u) \in Nat
        BY <1>0
      <3> HIDE DEF R, U
      <3> QED
        BY <3>6, <3>7
    <2> QED
      BY <2>1, <2>2
  <1>6. IsFiniteSet(T) /\ IsFiniteSet(U) /\ IsFiniteSet(K)
    BY <1>4, PartsAreCounted
  <1>7. /\ Cardinality(T) \in Nat /\ Cardinality(U) \in Nat /\ Cardinality(K) \in Nat
        /\ R(l) <= Cardinality(T)
    BY <1>3, <1>6, PartsAreCounted, FS_CardinalityType
  <1>8. Cardinality(T) <= Cardinality(K) + Cardinality(U)
    <2>1. Cardinality(K \cup U) = Cardinality(K) + Cardinality(U) - Cardinality(K \cap U)
      BY <1>6, FS_Union
    <2>2. K \cap U \in SUBSET K
      OBVIOUS
    <2>3. Cardinality(K \cap U) \in Nat
      BY <2>2, <1>6, PartsAreCounted
    <2>4. Cardinality(T) = Cardinality(K \cup U)
      BY <1>4
    <2> HIDE DEF T, K, U
    <2> QED
      BY <1>7, <2>1, <2>3, <2>4
  <1>9. R(l) \in Nat
    BY <1>0
  <1> HIDE DEF R, K, U, T
  <1> QED
    BY <1>2, <1>5, <1>7, <1>8, <1>9 DEF K

\* What comes after a page is below all of it.
LEMMA UnreadStayBelow ==
    ASSUME NEW S \in SUBSET Nat, IsFiniteSet(S), NEW a \in Nat, NEW L \in Nat,
           NEW k \in S, Cardinality(Above(S, k)) >= a, k \notin Page(S, a, L)
    PROVE  /\ Cardinality(Above(S, k)) >= a + L
           /\ Cardinality(Page(S, a, L)) >= L
           /\ \A m \in Page(S, a, L) : k < m
  <1>1. Cardinality(Above(S, k)) \in Nat
    BY RanksAreNaturals
  <1>2. Cardinality(Above(S, k)) >= a + L
    BY <1>1 DEF Page
  <1>3. ASSUME NEW m \in Page(S, a, L) PROVE k < m
    <2>1. m \in S /\ Cardinality(Above(S, m)) \in a .. a + L - 1
      BY DEF Page
    <2>2. k \in Nat /\ m \in Nat
      BY <2>1
    <2>3. CASE m < k
      <3>1. Cardinality(Above(S, k)) < Cardinality(Above(S, m))
        BY <2>1, <2>3, RanksFall
      <3> QED
        BY <1>1, <1>2, <2>1, <3>1
    <2>4. CASE m = k
      BY <1>3, <2>4
    <2> QED
      BY <2>2, <2>3, <2>4
  <1> QED
    BY <1>2, <1>3, PageIsFull
=============================================================================
