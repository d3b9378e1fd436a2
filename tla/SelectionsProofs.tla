--------------------------- MODULE SelectionsProofs ---------------------------
(* What is kept of a sequence: elements of it, each from a place of its own. *)
EXTENDS Selections, Integers, FiniteSetTheorems, WellFoundedInduction, TLAPS

LEMMA LeastNatural ==
    ASSUME NEW B, B \subseteq Nat, B # {}
    PROVE  \E m \in B : \A n \in B : m =< n
<1> DEFINE R == OpToRel(<, Nat)
<1>1. IsWellFoundedOn(R, Nat)
  BY NatLessThanWellFounded
<1>2. \A n, m \in Nat : <<n, m>> \notin R => ~(n < m)
  BY DEF OpToRel
<1> HIDE DEF R
<1>3. PICK m \in B : \A n \in B : <<n, m>> \notin R
  BY <1>1, WFMin
<1>4. ASSUME NEW n \in B PROVE m =< n
  <2>1. m \in Nat /\ n \in Nat /\ ~(n < m)
    BY <1>2, <1>3
  <2> QED BY <2>1
<1> QED BY <1>4

LEMMA CountedIndices ==
    ASSUME NEW n \in Nat, NEW I, I \subseteq 1..n
    PROVE  IsFiniteSet(I) /\ Cardinality(I) \in Nat /\ Cardinality(I) =< n
<1>1. IsFiniteSet(1..n) /\ Cardinality(1..n) = n
  BY FS_Interval
<1>2. IsFiniteSet(I) /\ Cardinality(I) =< Cardinality(1..n)
  BY <1>1, FS_Subset
<1>3. Cardinality(I) \in Nat
  BY <1>2, FS_CardinalityType
<1> QED BY <1>1, <1>2, <1>3

(* A finite set of indices has as many as it counts. *)
LEMMA NthExists ==
    ASSUME NEW n \in Nat, NEW I, I \subseteq 1..n, NEW k \in 1..Cardinality(I)
    PROVE  Nth(I, k) \in I /\ Cardinality({j \in I : j =< Nth(I, k)}) = k
<1> DEFINE Up(m) == {j \in I : j =< m}
           B == {m \in Nat : Cardinality(Up(m)) >= k}
<1>1. IsFiniteSet(I) /\ Cardinality(I) \in Nat /\ k \in Nat \ {0}
  <2>1. IsFiniteSet(I) /\ Cardinality(I) \in Nat
    BY CountedIndices
  <2> QED BY <2>1
<1>2. \A m \in Nat : IsFiniteSet(Up(m)) /\ Cardinality(Up(m)) \in Nat
  <2>1. ASSUME NEW m \in Nat PROVE IsFiniteSet(Up(m)) /\ Cardinality(Up(m)) \in Nat
    <3>1. IsFiniteSet(Up(m))
      BY <1>1, FS_Subset
    <3> QED BY <3>1, FS_CardinalityType
  <2> QED BY <2>1
<1>3. n \in B
  <2>1. \A j \in I : j =< n
    OBVIOUS
  <2>2. Up(n) = I
    BY <2>1, Zenon
  <2> QED BY <1>1, <2>2
<1>4. PICK m \in B : \A l \in B : m =< l
  <2>1. B \subseteq Nat
    OBVIOUS
  <2> HIDE DEF B
  <2> QED BY <1>3, <2>1, LeastNatural
<1>5. m \in Nat /\ Cardinality(Up(m)) >= k
  OBVIOUS
<1>6. m # 0
  <2> SUFFICES ASSUME m = 0 PROVE FALSE
    OBVIOUS
  <2>1. \A j \in I : ~(j =< 0)
    OBVIOUS
  <2>2. Up(0) = {}
    BY <2>1, Zenon
  <2>3. Cardinality(Up(0)) = 0
    BY <2>2, FS_EmptySet
  <2> QED BY <1>1, <1>5, <2>3
<1>7. m - 1 \in Nat /\ ~(Cardinality(Up(m - 1)) >= k)
  <2>1. m - 1 \in Nat /\ ~(m =< m - 1)
    BY <1>5, <1>6
  <2>2. m - 1 \notin B
    BY <1>4, <2>1
  <2> QED BY <2>1, <2>2
<1>8. m \in I
  <2> SUFFICES ASSUME m \notin I PROVE FALSE
    OBVIOUS
  <2>1. \A j \in I : j =< m <=> j =< m - 1
    BY <1>5
  <2>2. Up(m) = Up(m - 1)
    BY <2>1, Zenon
  <2> QED BY <1>5, <1>7, <2>2
<1>9. Cardinality(Up(m)) = k
  <2>1. (\A j \in I : j =< m <=> (j =< m - 1 \/ j = m)) /\ ~(m =< m - 1)
    BY <1>5
  <2>2. Up(m) = Up(m - 1) \cup {m} /\ m \notin Up(m - 1)
    BY <1>8, <2>1, Zenon
  <2>3. IsFiniteSet(Up(m - 1)) /\ Cardinality(Up(m - 1)) \in Nat
    BY <1>2, <1>7
  <2> HIDE DEF Up
  <2>4. Cardinality(Up(m)) = Cardinality(Up(m - 1)) + 1
    BY <2>2, <2>3, FS_AddElement
  <2> QED BY <1>1, <1>5, <1>7, <2>3, <2>4
<1> QED BY <1>8, <1>9 DEF Nth

(* Every element of what is kept of a sequence comes from a place of its    *)
(* own; the result is no longer.                                            *)
LEMMA KeptFacts ==
    ASSUME NEW S, NEW s \in Seq(S), NEW P
    PROVE  /\ Kept(s, P) \in Seq(S) /\ Len(Kept(s, P)) =< Len(s)
           /\ \A k \in DOMAIN Kept(s, P) : \E i \in DOMAIN s : Kept(s, P)[k] = s[i] /\ s[i] \in P
           /\ \A k, l \in DOMAIN Kept(s, P) :
                 k # l => \E i, j \in DOMAIN s :
                             i # j /\ Kept(s, P)[k] = s[i] /\ Kept(s, P)[l] = s[j]
<1> DEFINE at == {i \in DOMAIN s : s[i] \in P}
           n == Cardinality(at)
<1>1. Len(s) \in Nat /\ DOMAIN s = 1..Len(s) /\ at \subseteq 1..Len(s)
  OBVIOUS
<1>3. Kept(s, P) = [k \in 1..n |-> s[Nth(at, k)]]
  BY DEF Kept
<1>5. \A i \in at : i \in DOMAIN s /\ s[i] \in P /\ s[i] \in S
  OBVIOUS
<1> HIDE DEF at
<1>2. n \in Nat /\ n =< Len(s)
  BY <1>1, CountedIndices
<1>4. \A k \in 1..n : Nth(at, k) \in at /\ Cardinality({j \in at : j =< Nth(at, k)}) = k
  BY <1>1, NthExists
<1>6. \A k, l \in 1..n : k # l => Nth(at, k) # Nth(at, l)
  BY <1>4, Zenon
<1> HIDE DEF n
<1>8. \A k \in 1..n : Nth(at, k) \in DOMAIN s /\ s[Nth(at, k)] \in P /\ s[Nth(at, k)] \in S
  BY <1>4, <1>5
<1>7. Kept(s, P) \in Seq(S) /\ Len(Kept(s, P)) = n /\ DOMAIN Kept(s, P) = 1..n
  BY <1>2, <1>3, <1>8
<1> QED BY <1>2, <1>3, <1>6, <1>7, <1>8

(* What is kept is all of it, in the order it had. *)
LEMMA KeptInOrder ==
    ASSUME NEW S, NEW s \in Seq(S), NEW P
    PROVE  /\ \A i \in DOMAIN s : s[i] \in P => \E k \in DOMAIN Kept(s, P) : Kept(s, P)[k] = s[i]
           /\ \A k, l \in DOMAIN Kept(s, P) :
                 k < l => \E i, j \in DOMAIN s :
                             i < j /\ Kept(s, P)[k] = s[i] /\ Kept(s, P)[l] = s[j]
<1> DEFINE at == {i \in DOMAIN s : s[i] \in P}
           n == Cardinality(at)
           Up(i) == {j \in at : j =< i}
<1>1. Len(s) \in Nat /\ DOMAIN s = 1..Len(s) /\ at \subseteq 1..Len(s)
  OBVIOUS
<1>2. Kept(s, P) = [k \in 1..n |-> s[Nth(at, k)]]
  BY DEF Kept
<1>3. \A i \in at : i \in DOMAIN s /\ i \in Nat
  OBVIOUS
<1>4. \A i \in DOMAIN s : s[i] \in P => i \in at
  OBVIOUS
<1> HIDE DEF at
<1>5. IsFiniteSet(at) /\ n \in Nat
  BY <1>1, CountedIndices
<1>6. \A k \in 1..n : Nth(at, k) \in at /\ Cardinality(Up(Nth(at, k))) = k
  BY <1>1, NthExists
<1>7. ASSUME NEW i \in at, NEW j \in at, i < j
      PROVE  Cardinality(Up(i)) < Cardinality(Up(j))
  <2>1. (\A x \in at : x =< i => x =< j) /\ ~(j =< i) /\ j =< j
    BY <1>3, <1>7
  <2>2. Up(i) \subseteq Up(j) /\ j \notin Up(i) /\ j \in Up(j)
    BY <2>1
  <2>3. IsFiniteSet(Up(j))
    BY <1>5, FS_Subset
  <2> HIDE DEF Up
  <2>4. /\ Cardinality(Up(i)) =< Cardinality(Up(j)) /\ Cardinality(Up(i)) # Cardinality(Up(j))
        /\ IsFiniteSet(Up(i))
    BY <2>2, <2>3, FS_Subset
  <2>5. Cardinality(Up(i)) \in Nat /\ Cardinality(Up(j)) \in Nat
    BY <2>3, <2>4, FS_CardinalityType
  <2> QED BY <2>4, <2>5
<1>8. \A i \in at : Cardinality(Up(i)) \in 1..n
  <2> SUFFICES ASSUME NEW i \in at PROVE Cardinality(Up(i)) \in 1..n
    OBVIOUS
  <2>1. Up(i) \subseteq at /\ i \in Up(i)
    BY <1>1
  <2> HIDE DEF Up
  <2>2. IsFiniteSet(Up(i)) /\ Cardinality(Up(i)) =< n
    BY <1>5, <2>1, FS_Subset
  <2>3. Cardinality(Up(i)) \in Nat /\ Cardinality(Up(i)) # 0
    BY <2>1, <2>2, FS_CardinalityType, FS_EmptySet
  <2> QED BY <1>5, <2>2, <2>3
<1>9. \A i \in at : Nth(at, Cardinality(Up(i))) = i
  <2> SUFFICES ASSUME NEW i \in at PROVE Nth(at, Cardinality(Up(i))) = i
    OBVIOUS
  <2> DEFINE k == Cardinality(Up(i))
             j == Nth(at, k)
  <2>1. k \in 1..n
    BY <1>8
  <2>2. j \in at /\ Cardinality(Up(j)) = k
    BY <1>6, <2>1
  <2>3. ~(k < k) /\ i \in Nat /\ j \in Nat
    BY <1>3, <2>1, <2>2
  <2> HIDE DEF j, k
  <2>4. ~(i < j) /\ ~(j < i)
    <3> USE DEF k
    <3> HIDE DEF Up
    <3> QED BY <1>7, <2>2, <2>3
  <2>5. i = j
    BY <2>3, <2>4
  <2> QED BY <2>5 DEF j, k
<1>10. \A k, l \in 1..n : k < l => Nth(at, k) < Nth(at, l)
  <2> SUFFICES ASSUME NEW k \in 1..n, NEW l \in 1..n, k < l PROVE Nth(at, k) < Nth(at, l)
    OBVIOUS
  <2>1. Nth(at, k) \in Nat /\ Nth(at, l) \in Nat
    BY <1>3, <1>6
  <2>2. ~(Nth(at, l) < Nth(at, k)) /\ Nth(at, k) # Nth(at, l)
    <3> HIDE DEF Up, n
    <3>1. k # l /\ ~(l < k)
      OBVIOUS
    <3> QED BY <1>6, <1>7, <3>1
  <2> QED BY <2>1, <2>2
<1> HIDE DEF n, Up
<1>11. DOMAIN Kept(s, P) = 1..n /\ \A k \in 1..n : Kept(s, P)[k] = s[Nth(at, k)]
  BY <1>2
<1>12. ASSUME NEW i \in DOMAIN s, s[i] \in P
       PROVE  \E k \in DOMAIN Kept(s, P) : Kept(s, P)[k] = s[i]
  BY <1>4, <1>8, <1>9, <1>11, <1>12
<1>13. ASSUME NEW k \in 1..n, NEW l \in 1..n, k < l
       PROVE  \E i, j \in DOMAIN s : i < j /\ Kept(s, P)[k] = s[i] /\ Kept(s, P)[l] = s[j]
  BY <1>3, <1>6, <1>10, <1>11, <1>13
<1> QED BY <1>11, <1>12, <1>13
-----------------------------------------------------------------------------
(* Every member of a finite set that is put in a strict total order has a   *)
(* place of its own, and stands before those that come after it.            *)
LEMMA RankedFacts ==
    ASSUME NEW S, IsFiniteSet(S), NEW order,
           \A x \in S : <<x, x>> \notin order,
           \A x, y \in S : x # y => <<x, y>> \in order \/ <<y, x>> \in order,
           \A x, y, z \in S : <<x, y>> \in order /\ <<y, z>> \in order => <<x, z>> \in order
    PROVE  /\ Ranked(S, order) \in Seq(S) /\ Len(Ranked(S, order)) = Cardinality(S)
           /\ \A k, l \in DOMAIN Ranked(S, order) :
                 k < l => <<Ranked(S, order)[k], Ranked(S, order)[l]>> \in order
<1> DEFINE Below(x) == {y \in S : <<x, y>> \notin order}
           n == Cardinality(S)
           place == [x \in S |-> Cardinality(Below(x))]
<1>1. n \in Nat
  BY FS_CardinalityType
<1>2. \A x \in S : IsFiniteSet(Below(x)) /\ place[x] \in 1..n
  <2> SUFFICES ASSUME NEW x \in S PROVE IsFiniteSet(Below(x)) /\ Cardinality(Below(x)) \in 1..n
    OBVIOUS
  <2>1. Below(x) \subseteq S /\ x \in Below(x)
    OBVIOUS
  <2> HIDE DEF Below
  <2>2. IsFiniteSet(Below(x)) /\ Cardinality(Below(x)) =< n
    BY <2>1, FS_Subset
  <2>3. Cardinality(Below(x)) \in Nat /\ Cardinality(Below(x)) # 0
    BY <2>1, <2>2, FS_CardinalityType, FS_EmptySet
  <2> QED BY <1>1, <2>2, <2>3
<1>3. ASSUME NEW x \in S, NEW y \in S, <<x, y>> \in order
      PROVE  place[x] < place[y]
  <2>1. Below(x) \subseteq Below(y) /\ y \in Below(y) /\ y \notin Below(x)
    <3>1. ASSUME NEW z \in S, <<x, z>> \notin order, <<y, z>> \in order PROVE FALSE
      BY <1>3, <3>1
    <3> QED BY <1>3, <3>1
  <2>2. IsFiniteSet(Below(y)) /\ place[x] = Cardinality(Below(x)) /\ place[y] = Cardinality(Below(y))
    BY <1>2
  <2>3. Cardinality(Below(x)) =< Cardinality(Below(y)) /\ Cardinality(Below(x)) # Cardinality(Below(y))
    <3> HIDE DEF Below
    <3> QED BY <2>1, <2>2, FS_Subset
  <2>4. place[x] \in Nat /\ place[y] \in Nat
    BY <1>2
  <2> HIDE DEF place, Below
  <2> QED BY <2>2, <2>3, <2>4
<1>10. /\ place \in [S -> {place[x] : x \in S}]
       /\ \A x \in S : PlaceOf(x, S, order) = place[x]
  BY DEF PlaceOf
<1> HIDE DEF place
<1>4. \A x, y \in S : place[x] = place[y] => x = y
  <2> SUFFICES ASSUME NEW x \in S, NEW y \in S, place[x] = place[y], x # y PROVE FALSE
    OBVIOUS
  <2>1. place[x] < place[y] \/ place[y] < place[x]
    BY <1>3
  <2>2. place[x] \in Nat
    <3> HIDE DEF Below, n
    <3> QED BY <1>1, <1>2
  <2> QED BY <2>1, <2>2
<1>5. \A k \in 1..n : \E x \in S : place[x] = k
  <2> DEFINE T == {place[x] : x \in S}
  <2>1. place \in Bijection(S, T)
    <3>1. place \in Injection(S, T)
      BY <1>4, <1>10 DEF Injection, IsInjective
    <3>2. place \in Surjection(S, T)
      BY <1>10 DEF Surjection
    <3> QED BY <3>1, <3>2 DEF Bijection
  <2>2. IsFiniteSet(T) /\ Cardinality(T) = n
    <3> HIDE DEF T, n
    <3>1. place \in Surjection(S, T) /\ place \in Injection(S, T)
      BY <2>1 DEF Bijection
    <3> QED BY <3>1, FS_Surjection DEF n
  <2>3. T \subseteq 1..n
    BY <1>2
  <2>4. IsFiniteSet(1..n) /\ Cardinality(1..n) = n
    BY <1>1, FS_Interval
  <2>5. T = 1..n
    <3> HIDE DEF T, n
    <3> QED BY <2>2, <2>3, <2>4, FS_Subset
  <2> QED BY <2>5
<1>6. Ranked(S, order) = [k \in 1..n |-> CHOOSE x \in S : PlaceOf(x, S, order) = k]
  BY DEF Ranked
<1>7. \A k \in 1..n : Ranked(S, order)[k] \in S /\ place[Ranked(S, order)[k]] = k
  BY <1>5, <1>6, <1>10
<1> HIDE DEF n
<1>8. DOMAIN Ranked(S, order) = 1..n /\ Ranked(S, order) \in Seq(S) /\ Len(Ranked(S, order)) = n
  BY <1>1, <1>6, <1>7
<1>9. ASSUME NEW k \in 1..n, NEW l \in 1..n, k < l
      PROVE  <<Ranked(S, order)[k], Ranked(S, order)[l]>> \in order
  <2> DEFINE x == Ranked(S, order)[k]
             y == Ranked(S, order)[l]
  <2>1. x \in S /\ y \in S /\ place[x] = k /\ place[y] = l
    BY <1>7
  <2> HIDE DEF x, y
  <2>2. x # y /\ ~(place[y] < place[x])
    BY <1>9, <2>1
  <2>3. <<x, y>> \in order
    BY <1>3, <2>1, <2>2
  <2> QED BY <2>3 DEF x, y
<1> QED BY <1>8, <1>9 DEF n
=============================================================================
