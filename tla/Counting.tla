------------------------------- MODULE Counting -------------------------------
(***************************************************************************)
(* Facts about finite sets of numbers that several proofs need: the        *)
(* elements of such a set are numbered in increasing order.                *)
(***************************************************************************)
EXTENDS Integers, FiniteSets, FiniteSetTheorems, NaturalsInduction,
        WellFoundedInduction, TLAPS

\* A set of numbers that is not empty has a least one.
LEMMA LeastNumber ==
    ASSUME NEW T \in SUBSET Nat, T # {}
    PROVE  \E n \in T : \A m \in T : n <= m
<1>1. PICK n \in T : \A m \in T : ~(<<m, n>> \in OpToRel(<, Nat))
    BY NatLessThanWellFounded, WFMin
<1>2. \A m \in T : ~(m < n)
    BY <1>1 DEF OpToRel
<1> QED
    BY <1>2

\* The numbers from 1 to n.
LEMMA UpTo ==
    ASSUME NEW n \in Nat
    PROVE  IsFiniteSet(1 .. n) /\ Cardinality(1 .. n) = n
<1>1. 1 \in Int /\ n \in Int
    OBVIOUS
<1>2. /\ IsFiniteSet(1 .. n)
      /\ Cardinality(1 .. n) = IF 1 > n THEN 0 ELSE n - 1 + 1
    BY <1>1, FS_Interval
<1> QED
    BY <1>2

\* The number of v in S.
Count(S, v) == Cardinality({u \in S : u <= v})

LEMMA CountType ==
    ASSUME NEW S \in SUBSET Int, IsFiniteSet(S), NEW v \in S
    PROVE  /\ Count(S, v) \in Nat \ {0}
           /\ Count(S, v) <= Cardinality(S)
           /\ Cardinality(S) \in Nat
<1> DEFINE below == {u \in S : u <= v}
<1>1. below \in SUBSET S /\ v \in below
    OBVIOUS
<1>2. IsFiniteSet(below) /\ Cardinality(below) <= Cardinality(S)
    BY <1>1, FS_Subset
<1>3. Cardinality(below) \in Nat /\ Cardinality(S) \in Nat
    BY <1>2, FS_CardinalityType
<1>4. Cardinality(below) # 0
    BY <1>1, <1>2, FS_EmptySet
<1> QED
    BY <1>2, <1>3, <1>4 DEF Count

LEMMA CountIncreases ==
    ASSUME NEW S \in SUBSET Int, IsFiniteSet(S), NEW v \in S, NEW w \in S, v < w
    PROVE  Count(S, v) < Count(S, w)
<1> DEFINE a == {u \in S : u <= v}
           b == {u \in S : u <= w}
<1>1. w \in b /\ a \subseteq b \ {w}
  <2>1. v \in Int /\ w \in Int
      OBVIOUS
  <2>2. \A u \in S : u <= v => u <= w /\ u # w
      BY <2>1
  <2>3. w \in b
      BY <2>1
  <2> QED
      BY <2>2, <2>3
<1>2. a \in SUBSET S /\ b \in SUBSET S
    OBVIOUS
<1> HIDE DEF a, b
<1>3. /\ IsFiniteSet(a) /\ IsFiniteSet(b)
      /\ Cardinality(a) \in Nat /\ Cardinality(b) \in Nat
    BY <1>2, FS_Subset, FS_CardinalityType
<1>4. IsFiniteSet(b \ {w}) /\ Cardinality(b \ {w}) = Cardinality(b) - 1
    BY <1>1, <1>3, FS_RemoveElement
<1>5. Cardinality(a) <= Cardinality(b \ {w})
    BY <1>1, <1>4, FS_Subset
<1>6. Cardinality(a) < Cardinality(b)
    BY <1>3, <1>4, <1>5
<1> QED
    BY <1>6 DEF Count, a, b

LEMMA CountApart ==
    ASSUME NEW S \in SUBSET Int, IsFiniteSet(S), NEW v \in S, NEW w \in S,
           Count(S, v) = Count(S, w)
    PROVE  v = w
<1>1. Count(S, v) \in Nat /\ Count(S, w) \in Nat
    BY CountType
<1>2. ~(v < w) /\ ~(w < v)
    BY <1>1, CountIncreases
<1> QED
    BY <1>2

LEMMA CountOnto ==
    ASSUME NEW S \in SUBSET Int, IsFiniteSet(S), NEW n \in 1 .. Cardinality(S)
    PROVE  \E v \in S : Count(S, v) = n
<1> DEFINE c == Cardinality(S)
           r == [v \in S |-> Count(S, v)]
<1>1. c \in Nat
    BY FS_CardinalityType
<1>2. r \in [S -> 1 .. c]
    BY <1>1, CountType
<1>3. \A v, w \in S : r[v] = r[w] => v = w
    BY CountApart
<1> HIDE DEF c, r
<1>4. IsFiniteSet(1 .. c) /\ Cardinality(1 .. c) = c
    BY <1>1, UpTo
<1>5. r \in Injection(S, 1 .. c)
    BY <1>2, <1>3 DEF Injection, IsInjective
<1>6. r \in Surjection(S, 1 .. c)
    BY <1>4, <1>5, FS_Injection DEF c
<1>7. PICK v \in S : r[v] = n
    BY <1>6 DEF Surjection, c
<1> QED
    BY <1>7 DEF r

\* A map that is one to one and onto.
LEMMA SameNumber ==
    ASSUME NEW S, IsFiniteSet(S), NEW T, NEW f \in [S -> T],
           \A x, y \in S : f[x] = f[y] => x = y,
           \A z \in T : \E x \in S : f[x] = z
    PROVE  IsFiniteSet(T) /\ Cardinality(T) = Cardinality(S)
<1>1. f \in Injection(S, T) /\ f \in Surjection(S, T)
    BY DEF Injection, IsInjective, Surjection
<1> QED
    BY <1>1, FS_Surjection

\* Sets that have no element in common.
LEMMA CountUnion ==
    ASSUME NEW S, IsFiniteSet(S), NEW T, IsFiniteSet(T), S \cap T = {}
    PROVE  /\ IsFiniteSet(S \cup T)
           /\ Cardinality(S \cup T) = Cardinality(S) + Cardinality(T)
<1>1. /\ IsFiniteSet(S \cup T)
      /\ Cardinality(S \cup T) =
            Cardinality(S) + Cardinality(T) - Cardinality(S \cap T)
    BY FS_Union
<1>2. Cardinality(S \cap T) = 0
    BY FS_EmptySet
<1>3. Cardinality(S) \in Nat /\ Cardinality(T) \in Nat
    BY FS_CardinalityType
<1> QED
    BY <1>1, <1>2, <1>3
===============================================================================
