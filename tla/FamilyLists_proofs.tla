-------------------------- MODULE FamilyLists_proofs --------------------------
(***************************************************************************)
(* Proofs about FamilyLists.tla, for any number of processes and of exit   *)
(* records.                                                                *)
(***************************************************************************)
EXTENDS FamilyLists, Counting, SequenceTheorems

-----------------------------------------------------------------------------
(* Lists that end at NULL.                                                  *)

\* From h on, link leads along the n elements of s and then to NULL.
IsChain(link, h, n, s) ==
    /\ n \in Nat /\ n <= Cardinality(DOMAIN link)
    /\ s \in [1 .. n -> DOMAIN link]
    /\ n = 0 => h = NULL
    /\ n > 0 => s[1] = h /\ link[s[n]] = NULL
    /\ \A k \in 1 .. n - 1 : link[s[k]] = s[k + 1]
    /\ \A k \in 1 .. n : s[k] # NULL

\* The list from h on is that chain.
LEMMA ListChain ==
    ASSUME NEW link, IsFiniteSet(DOMAIN link), NEW h, NEW n, NEW s,
           IsChain(link, h, n, s)
    PROVE  List(link, h) = s
<1> DEFINE N == Cardinality(DOMAIN link)
           E(f) == f = [k \in 1 .. N |->
                          IF k = 1 THEN h
                          ELSE IF f[k - 1] = NULL THEN NULL ELSE link[f[k - 1]]]
           cell == CHOOSE f : E(f)
           g == [k \in 1 .. N |-> IF k <= n THEN s[k] ELSE NULL]
<1>0. n \in Nat /\ N \in Nat /\ n <= N
    BY FS_CardinalityType DEF IsChain
<1> HIDE DEF N
<1>1. E(g)
  <2>1. ASSUME NEW k \in 1 .. N
        PROVE  g[k] = IF k = 1 THEN h
                      ELSE IF g[k - 1] = NULL THEN NULL ELSE link[g[k - 1]]
    <3>1. CASE k = 1
        BY <1>0, <3>1 DEF IsChain
    <3>2. CASE k # 1 /\ k <= n
      <4>1. /\ k - 1 \in 1 .. n - 1 /\ (k - 1) + 1 = k /\ k - 1 \in 1 .. n
            /\ k - 1 \in 1 .. N /\ k - 1 <= n
          BY <1>0, <3>2
      <4>2. link[s[k - 1]] = s[k] /\ s[k - 1] # NULL
          BY <4>1 DEF IsChain
      <4> QED
          BY <3>2, <4>1, <4>2
    <3>3. CASE k # 1 /\ k = n + 1
      <4>1. k - 1 = n /\ n \in 1 .. N /\ n > 0 /\ n \in 1 .. n /\ ~(k <= n)
          BY <1>0, <3>3
      <4>2. link[s[n]] = NULL /\ s[n] # NULL
          BY <4>1 DEF IsChain
      <4> QED
          BY <1>0, <3>3, <4>1, <4>2
    <3>4. CASE k # 1 /\ k > n + 1
      <4>1. k - 1 \in 1 .. N /\ ~(k - 1 <= n) /\ ~(k <= n)
          BY <1>0, <3>4
      <4> QED
          BY <3>4, <4>1
    <3> QED
        BY <1>0, <3>1, <3>2, <3>3, <3>4
  <2> QED
      BY <2>1
<1>2. E(cell)
    BY <1>1
<1> HIDE DEF cell
<1>3. \A k \in 1 .. N :
          cell[k] = IF k = 1 THEN h
                    ELSE IF cell[k - 1] = NULL THEN NULL ELSE link[cell[k - 1]]
    BY <1>2
<1>4. \A k \in 1 .. N :
          g[k] = IF k = 1 THEN h
                 ELSE IF g[k - 1] = NULL THEN NULL ELSE link[g[k - 1]]
    BY <1>1
<1> HIDE DEF g
<1>5. \A k \in 1 .. N : cell[k] = g[k]
  <2> DEFINE T == {k \in 1 .. N : cell[k] # g[k]}
  <2> SUFFICES ASSUME T # {}
               PROVE  FALSE
      OBVIOUS
  <2>1. T \in SUBSET Nat
      BY <1>0
  <2> HIDE DEF T
  <2>2. PICK k \in T : \A m \in T : k <= m
      BY <2>1, LeastNumber
  <2>3. k \in 1 .. N /\ cell[k] # g[k]
      BY <2>2 DEF T
  <2>4. k # 1
      BY <1>3, <1>4, <2>3
  <2>5. k - 1 \in 1 .. N /\ ~(k <= k - 1)
      BY <1>0, <2>3, <2>4
  <2>6. cell[k - 1] = g[k - 1]
      BY <2>2, <2>5 DEF T
  <2> QED
      BY <1>3, <1>4, <2>3, <2>4, <2>6
<1>6. {k \in 1 .. N : cell[k] # NULL} = 1 .. n
  <2>1. \A k \in 1 .. N : cell[k] # NULL <=> k <= n
      BY <1>0, <1>5 DEF g, IsChain
  <2> QED
      BY <1>0, <2>1
<1>7. Cardinality({k \in 1 .. N : cell[k] # NULL}) = n
    BY <1>0, <1>6, UpTo
<1>8. \A k \in 1 .. n : cell[k] = s[k]
    BY <1>0, <1>5 DEF g
<1>9. [k \in 1 .. n |-> cell[k]] = s
    BY <1>8 DEF IsChain
<1>10. List(link, h) = [k \in 1 .. Cardinality({k \in 1 .. N : cell[k] # NULL})
                          |-> cell[k]]
    BY Zenon DEF List, cell, N
<1> QED
    BY <1>7, <1>9, <1>10

-----------------------------------------------------------------------------
(* Children lists.  The links are described by the order of the process     *)
(* ids, so that the steps need no sequences.                                *)

\* x is the least (greatest) element of K, or NULL if there is none.
Least(K, x) ==
    IF x = NULL THEN K = {} ELSE x \in K /\ \A d \in K : x <= d
Greatest(K, x) ==
    IF x = NULL THEN K = {} ELSE x \in K /\ \A d \in K : d <= x

\* x is the element of K after (before) c, or NULL if there is none.
Follows(K, c, x) ==
    IF x = NULL THEN \A d \in K : d <= c
    ELSE x \in K /\ c < x /\ \A d \in K : d <= c \/ x <= d
Precedes(K, c, x) ==
    IF x = NULL THEN \A d \in K : c <= d
    ELSE x \in K /\ x < c /\ \A d \in K : c <= d \/ d <= x

Linked(K, hd, tl, nx, pv) ==
    /\ Least(K, hd) /\ Greatest(K, tl)
    /\ \A c \in K : Follows(K, c, nx[c]) /\ Precedes(K, c, pv[c])

LEMMA ProcFinite ==
    /\ MaxPid \in Nat \ {0} /\ Proc \subseteq Nat /\ NULL \notin Proc
    /\ IsFiniteSet(Proc)
    /\ Cardinality(Proc) \in Nat
<1>1. MaxPid \in Nat \ {0}
    BY FamilyListsAssumption
<1>2. IsFiniteSet(0 .. MaxPid)
  <2>1. 0 \in Int /\ MaxPid \in Int
      BY <1>1
  <2> QED
      BY <2>1, FS_Interval
<1> QED
    BY <1>1, <1>2, FS_CardinalityType DEF Proc, NULL

\* The sequence s has the elements of K in increasing order.
Sorted(K, s) ==
    /\ Cardinality(K) \in Nat /\ Cardinality(K) <= Cardinality(Proc)
    /\ s \in [1 .. Cardinality(K) -> K]
    /\ \A c \in K : \E k \in 1 .. Cardinality(K) : s[k] = c
    /\ \A i, j \in 1 .. Cardinality(K) : i < j => s[i] < s[j]

LEMMA SortedExists ==
    ASSUME NEW K \in SUBSET Proc
    PROVE  \E s : Sorted(K, s)
<1> DEFINE n == Cardinality(K)
           s == [k \in 1 .. n |-> CHOOSE c \in K : Count(K, c) = k]
<1>1. IsFiniteSet(K) /\ n \in Nat /\ n <= Cardinality(Proc) /\ K \in SUBSET Int
  <2>1. IsFiniteSet(K) /\ n <= Cardinality(Proc)
      BY ProcFinite, FS_Subset
  <2>2. n \in Nat
      BY <2>1, FS_CardinalityType
  <2>3. K \in SUBSET Int
      BY ProcFinite
  <2> QED
      BY <2>1, <2>2, <2>3
<1>2. \A k \in 1 .. n : s[k] \in K /\ Count(K, s[k]) = k
  <2> SUFFICES ASSUME NEW k \in 1 .. n
               PROVE  s[k] \in K /\ Count(K, s[k]) = k
      OBVIOUS
  <2>1. \E c \in K : Count(K, c) = k
      BY <1>1, CountOnto
  <2> QED
      BY <2>1
<1>3. s \in [1 .. n -> K]
    BY <1>2
<1> HIDE DEF s
<1>4. ASSUME NEW c \in K
      PROVE  \E k \in 1 .. n : s[k] = c
  <2>1. Count(K, c) \in 1 .. n
      BY <1>1, CountType
  <2>2. PICK d \in K : d = s[Count(K, c)] /\ Count(K, d) = Count(K, c)
      BY <1>2, <2>1
  <2>3. d = c
      BY <1>1, <2>2, CountApart
  <2> QED
      BY <2>1, <2>2, <2>3
<1>5. ASSUME NEW i \in 1 .. n, NEW j \in 1 .. n, i < j
      PROVE  s[i] < s[j]
  <2>1. s[i] \in Int /\ s[j] \in Int /\ s[i] \in K /\ s[j] \in K
      BY <1>1, <1>2
  <2>2. s[i] # s[j]
      BY <1>2, <1>5
  <2>3. ~(s[j] < s[i])
    <3>1. s[j] < s[i] => Count(K, s[j]) < Count(K, s[i])
        BY <1>1, <2>1, CountIncreases
    <3> QED
        BY <1>1, <1>2, <1>5, <3>1
  <2> QED
      BY <2>1, <2>2, <2>3
<1>6. Sorted(K, s)
    BY <1>1, <1>3, <1>4, <1>5 DEF Sorted
<1> QED
    BY <1>6

\* In a sorted sequence places are ordered as elements are.
LEMMA SortedPlaces ==
    ASSUME NEW K \in SUBSET Proc, NEW s, Sorted(K, s),
           NEW i \in 1 .. Cardinality(K), NEW j \in 1 .. Cardinality(K),
           s[i] <= s[j]
    PROVE  i <= j
<1>1. i \in Nat /\ j \in Nat /\ s[i] \in Nat /\ s[j] \in Nat
  <2>1. s[i] \in K /\ s[j] \in K /\ Cardinality(K) \in Nat
      BY DEF Sorted
  <2>2. i \in Nat /\ j \in Nat
      BY <2>1
  <2>3. K \subseteq Nat
      BY ProcFinite
  <2> QED
      BY <2>1, <2>2, <2>3
<1>2. ~(j < i)
  <2>1. j < i => s[j] < s[i]
      BY DEF Sorted
  <2> QED
      BY <1>1, <2>1
<1> QED
    BY <1>1, <1>2

\* The lists along the links are the sorted sequence and its reverse.
LEMMA LinkedForth ==
    ASSUME NEW K \in SUBSET Proc, NEW hd, NEW tl, NEW nx, NEW pv,
           DOMAIN nx = Proc, Linked(K, hd, tl, nx, pv), NEW s, Sorted(K, s)
    PROVE  List(nx, hd) = s
<1> DEFINE n == Cardinality(K)
<1>1. /\ n \in Nat /\ n <= Cardinality(Proc) /\ s \in [1 .. n -> K]
      /\ \A c \in K : \E k \in 1 .. n : s[k] = c
      /\ \A i, j \in 1 .. n : i < j => s[i] < s[j]
      /\ \A k \in 1 .. n : s[k] \in Nat /\ s[k] # NULL /\ s[k] \in Proc
    BY ProcFinite DEF Sorted
<1>2. \A i, j \in 1 .. n : s[i] <= s[j] => i <= j
    BY SortedPlaces
<1> HIDE DEF n
<1>3. ASSUME NEW k \in 1 .. n - 1
      PROVE  nx[s[k]] = s[k + 1]
  <2>1. k \in 1 .. n /\ k + 1 \in 1 .. n
      BY <1>1
  <2>2. s[k + 1] \in K /\ ~(s[k + 1] <= s[k])
      BY <1>1, <2>1
  <2>3. /\ nx[s[k]] \in K /\ nx[s[k]] > s[k] /\ nx[s[k]] <= s[k + 1]
      BY <1>1, <2>1, <2>2 DEF Linked, Follows
  <2>4. PICK j \in 1 .. n : s[j] = nx[s[k]]
      BY <1>1, <2>3
  <2>5. j <= k + 1
      BY <1>2, <2>1, <2>3, <2>4
  <2>6. ~(j <= k)
    <3>1. ~(s[j] <= s[k])
        BY <1>1, <2>1, <2>3, <2>4
    <3>2. j < k => s[j] < s[k]
        BY <1>1, <2>1
    <3> QED
        BY <1>1, <2>1, <3>1, <3>2
  <2>7. j = k + 1
      BY <2>1, <2>5, <2>6
  <2> QED
      BY <2>4, <2>7
<1>4. ASSUME n > 0
      PROVE  s[1] = hd /\ nx[s[n]] = NULL
  <2>1. 1 \in 1 .. n /\ n \in 1 .. n
      BY <1>1, <1>4
  <2>2. hd \in K /\ hd <= s[1]
      BY <1>1, <2>1 DEF Linked, Least
  <2>3. PICK j \in 1 .. n : s[j] = hd
      BY <1>1, <2>2
  <2>4. j = 1
      BY <1>1, <1>2, <2>1, <2>2, <2>3
  <2>5. ASSUME NEW d \in K, d > s[n]
        PROVE  FALSE
    <3>1. PICK i \in 1 .. n : s[i] = d
        BY <1>1
    <3>2. i < n \/ i = n
        BY <1>1
    <3> QED
        BY <1>1, <2>1, <2>5, <3>1, <3>2
  <2>6. nx[s[n]] = NULL
      BY <1>1, <2>1, <2>5 DEF Linked, Follows
  <2> QED
      BY <2>3, <2>4, <2>6
<1>5. n = 0 => hd = NULL
  <2>1. n = 0 => K = {}
      BY <1>1
  <2> QED
      BY <2>1 DEF Linked, Least
<1>6. IsChain(nx, hd, n, s)
    BY <1>1, <1>3, <1>4, <1>5 DEF IsChain
<1> QED
    BY <1>6, ListChain, ProcFinite

LEMMA LinkedBack ==
    ASSUME NEW K \in SUBSET Proc, NEW hd, NEW tl, NEW nx, NEW pv,
           DOMAIN pv = Proc, Linked(K, hd, tl, nx, pv), NEW s, Sorted(K, s)
    PROVE  List(pv, tl) = [i \in 1 .. Cardinality(K) |->
                             s[(Cardinality(K) - i) + 1]]
<1> DEFINE n == Cardinality(K)
           z == [i \in 1 .. n |-> s[(n - i) + 1]]
<1>1. /\ n \in Nat /\ n <= Cardinality(Proc) /\ s \in [1 .. n -> K]
      /\ \A c \in K : \E k \in 1 .. n : s[k] = c
      /\ \A i, j \in 1 .. n : i < j => s[i] < s[j]
      /\ \A k \in 1 .. n : s[k] \in Nat /\ s[k] # NULL /\ s[k] \in Proc
    BY ProcFinite DEF Sorted
<1>2. \A i, j \in 1 .. n : s[i] <= s[j] => i <= j
    BY SortedPlaces
<1> HIDE DEF n
<1>3. ASSUME NEW k \in 2 .. n
      PROVE  pv[s[k]] = s[k - 1]
  <2>1. k \in 1 .. n /\ k - 1 \in 1 .. n /\ k - 1 < k
      BY <1>1
  <2>2. s[k - 1] \in K /\ ~(s[k] <= s[k - 1])
      BY <1>1, <2>1
  <2>3. /\ pv[s[k]] \in K /\ pv[s[k]] < s[k] /\ s[k - 1] <= pv[s[k]]
      BY <1>1, <2>1, <2>2 DEF Linked, Precedes
  <2>4. PICK j \in 1 .. n : s[j] = pv[s[k]]
      BY <1>1, <2>3
  <2>5. k - 1 <= j
      BY <1>2, <2>1, <2>3, <2>4
  <2>6. ~(k <= j)
    <3>1. ~(s[k] <= s[j])
        BY <1>1, <2>1, <2>3, <2>4
    <3>2. k < j => s[k] < s[j]
        BY <1>1, <2>1
    <3> QED
        BY <1>1, <2>1, <3>1, <3>2
  <2>7. j = k - 1
      BY <2>1, <2>5, <2>6
  <2> QED
      BY <2>4, <2>7
<1>4. ASSUME n > 0
      PROVE  s[n] = tl /\ pv[s[1]] = NULL
  <2>1. 1 \in 1 .. n /\ n \in 1 .. n
      BY <1>1, <1>4
  <2>2. tl \in K /\ s[n] <= tl
      BY <1>1, <2>1 DEF Linked, Greatest
  <2>3. PICK j \in 1 .. n : s[j] = tl
      BY <1>1, <2>2
  <2>4. j = n
      BY <1>1, <1>2, <2>1, <2>2, <2>3
  <2>5. ASSUME NEW d \in K, d < s[1]
        PROVE  FALSE
    <3>1. PICK i \in 1 .. n : s[i] = d
        BY <1>1
    <3>2. 1 < i \/ i = 1
        BY <1>1
    <3> QED
        BY <1>1, <2>1, <2>5, <3>1, <3>2
  <2>6. pv[s[1]] = NULL
      BY <1>1, <2>1, <2>5 DEF Linked, Precedes
  <2> QED
      BY <2>3, <2>4, <2>6
<1>5. n = 0 => tl = NULL
  <2>1. n = 0 => K = {}
      BY <1>1
  <2> QED
      BY <2>1 DEF Linked, Greatest
<1>6. \A i \in 1 .. n : (n - i) + 1 \in 1 .. n
    BY <1>1
<1>7. z \in [1 .. n -> Proc] /\ \A i \in 1 .. n : z[i] = s[(n - i) + 1]
    BY <1>1, <1>6
<1> HIDE DEF z
<1>8. \A i \in 1 .. n - 1 : pv[z[i]] = z[i + 1]
  <2> SUFFICES ASSUME NEW i \in 1 .. n - 1
               PROVE  pv[z[i]] = z[i + 1]
      OBVIOUS
  <2>1. /\ i \in 1 .. n /\ i + 1 \in 1 .. n /\ (n - i) + 1 \in 2 .. n
        /\ ((n - i) + 1) - 1 = (n - (i + 1)) + 1
      BY <1>1
  <2> QED
      BY <1>3, <1>7, <2>1
<1>9. n > 0 => z[1] = tl /\ pv[z[n]] = NULL
  <2> SUFFICES ASSUME n > 0
               PROVE  z[1] = tl /\ pv[z[n]] = NULL
      OBVIOUS
  <2>1. 1 \in 1 .. n /\ n \in 1 .. n /\ (n - 1) + 1 = n /\ (n - n) + 1 = 1
      BY <1>1
  <2> QED
      BY <1>4, <1>7, <2>1
<1>10. \A k \in 1 .. n : z[k] # NULL
    BY <1>7, ProcFinite
<1>11. IsChain(pv, tl, n, z)
    BY <1>1, <1>5, <1>7, <1>8, <1>9, <1>10 DEF IsChain
<1>12. List(pv, tl) = z
    BY <1>11, ListChain, ProcFinite
<1> QED
    BY <1>12 DEF z, n

\* What the lists of a process with children K look like.
LEMMA LinkedLists ==
    ASSUME NEW K \in SUBSET Proc, NEW hd, NEW tl, NEW nx, NEW pv,
           DOMAIN nx = Proc, DOMAIN pv = Proc, Linked(K, hd, tl, nx, pv)
    PROVE  /\ ToSet(List(nx, hd)) = K
           /\ \A i, j \in 1 .. Len(List(nx, hd)) :
                 i < j => List(nx, hd)[i] < List(nx, hd)[j]
           /\ List(pv, tl) = Reverse(List(nx, hd))
<1>1. PICK s : Sorted(K, s)
    BY SortedExists
<1> DEFINE n == Cardinality(K)
<1>2. List(nx, hd) = s /\ List(pv, tl) = [i \in 1 .. n |-> s[(n - i) + 1]]
    BY <1>1, LinkedForth, LinkedBack
<1>3. n \in Nat /\ s \in [1 .. n -> K] /\ Len(s) = n
    BY <1>1 DEF Sorted
<1>4. ToSet(s) = K
    BY <1>1, <1>3 DEF ToSet, Sorted
<1>5. \A i, j \in 1 .. Len(s) : i < j => s[i] < s[j]
    BY <1>1, <1>3 DEF Sorted
<1>6. Reverse(s) = [i \in 1 .. n |-> s[(n - i) + 1]]
    BY <1>3 DEF Reverse
<1> QED
    BY <1>2, <1>4, <1>5, <1>6

-----------------------------------------------------------------------------
(* What the operations do to the links of one list.                         *)

LEMMA LinkedFrame ==
    ASSUME NEW K, NEW hd, NEW tl, NEW nx, NEW pv, Linked(K, hd, tl, nx, pv),
           NEW nx2, NEW pv2, \A c \in K : nx2[c] = nx[c] /\ pv2[c] = pv[c]
    PROVE  Linked(K, hd, tl, nx2, pv2)
  BY DEF Linked

\* ForkFunc puts the child, whose id is the highest, at the tail.
LEMMA LinkedPush ==
    ASSUME NEW K \in SUBSET Proc, NEW hd, NEW tl, NEW nx, NEW pv,
           Linked(K, hd, tl, nx, pv),
           NEW c \in Proc, \A d \in K : d < c,
           NEW hd2, hd2 = IF hd = NULL THEN c ELSE hd, NEW nx2, NEW pv2,
           nx2[c] = NULL, pv2[c] = tl,
           \A d \in K : nx2[d] = IF d = tl THEN c ELSE nx[d],
           \A d \in K : pv2[d] = pv[d]
    PROVE  Linked(K \cup {c}, hd2, c, nx2, pv2)
<1>0. /\ c \in Nat /\ c # NULL
      /\ \A d \in K : d \in Nat /\ d # NULL /\ d < c /\ d # c
  <2>1. K \subseteq Nat /\ c \in Nat /\ NULL \notin K /\ NULL # c
      BY ProcFinite
  <2> QED
      BY <2>1
<1>1. Least(K \cup {c}, hd2)
    BY <1>0 DEF Linked, Least
<1>2. Greatest(K \cup {c}, c)
    BY <1>0 DEF Greatest
<1>3. ASSUME NEW d \in K
      PROVE  Follows(K \cup {c}, d, nx2[d])
  <2>1. CASE d = tl
      BY <1>0, <2>1 DEF Linked, Greatest, Follows
  <2>2. CASE d # tl
    <3>1. tl \in K /\ ~(tl <= d)
      <4>1. tl \in K /\ d <= tl
          BY DEF Linked, Greatest
      <4> QED
          BY <1>0, <2>2, <4>1
    <3>2. nx[d] # NULL /\ nx[d] \in K /\ d < nx[d]
          /\ \A e \in K : e <= d \/ nx[d] <= e
        BY <3>1 DEF Linked, Follows
    <3>3. nx2[d] = nx[d] /\ nx[d] <= c
      <4>1. nx2[d] = nx[d]
          BY <2>2
      <4>2. nx[d] \in Nat /\ nx[d] < c
          BY <1>0, <3>2
      <4> QED
          BY <1>0, <4>1, <4>2
    <3>4. \A e \in K \cup {c} : e <= d \/ nx[d] <= e
        BY <3>2, <3>3
    <3> QED
        BY <3>2, <3>3, <3>4 DEF Follows
  <2> QED
      BY <2>1, <2>2
<1>4. ASSUME NEW d \in K
      PROVE  Precedes(K \cup {c}, d, pv2[d])
    BY <1>0 DEF Linked, Precedes
<1>5. Follows(K \cup {c}, c, nx2[c])
    BY <1>0 DEF Follows
<1>6. Precedes(K \cup {c}, c, pv2[c])
  <2>1. CASE tl = NULL
      BY <1>0, <2>1 DEF Linked, Greatest, Precedes
  <2>2. CASE tl # NULL
    <3>1. tl \in K /\ \A d \in K : d <= tl
        BY <2>2 DEF Linked, Greatest
    <3>2. tl < c /\ \A d \in K \cup {c} : c <= d \/ d <= tl
        BY <1>0, <3>1
    <3> QED
        BY <2>2, <3>1, <3>2 DEF Precedes
  <2> QED
      BY <2>1, <2>2
<1> QED
    BY <1>1, <1>2, <1>3, <1>4, <1>5, <1>6 DEF Linked

\* The pointers once c has been taken out of the list of K.
Unlinked(K, c, hd, tl, nx, pv, hd2, tl2, nx2, pv2) ==
    /\ hd2 = IF hd = c THEN nx[c] ELSE hd
    /\ tl2 = IF tl = c THEN pv[c] ELSE tl
    /\ \A d \in K \ {c} : nx2[d] = IF d = pv[c] THEN nx[c] ELSE nx[d]
    /\ \A d \in K \ {c} : pv2[d] = IF d = nx[c] THEN pv[c] ELSE pv[d]

\* RemoveChildFromParent takes child c out.
LEMMA LinkedRemove ==
    ASSUME NEW K \in SUBSET Proc, NEW hd, NEW tl, NEW nx, NEW pv,
           Linked(K, hd, tl, nx, pv), NEW c \in K,
           NEW hd2, NEW tl2, NEW nx2, NEW pv2,
           Unlinked(K, c, hd, tl, nx, pv, hd2, tl2, nx2, pv2)
    PROVE  Linked(K \ {c}, hd2, tl2, nx2, pv2)
<1> USE DEF Unlinked
<1> DEFINE L == K \ {c}
<1>0. \A d \in K : d \in Nat /\ d # NULL
  <2>1. K \subseteq Nat /\ NULL \notin K
      BY ProcFinite
  <2> QED
      BY <2>1
<1>1. /\ hd \in K /\ \A d \in K : hd <= d
      /\ tl \in K /\ \A d \in K : d <= tl
    BY DEF Linked, Least, Greatest
<1>2. /\ \A d \in K : Follows(K, d, nx[d]) /\ Precedes(K, d, pv[d])
      /\ Follows(K, c, nx[c]) /\ Precedes(K, c, pv[c])
    BY DEF Linked
<1>3. Least(L, hd2)
    BY <1>0, <1>1, <1>2 DEF Least, Follows
<1>4. Greatest(L, tl2)
    BY <1>0, <1>1, <1>2 DEF Greatest, Precedes
<1>5. ASSUME NEW d \in L
      PROVE  Follows(L, d, nx2[d])
  <2>1. CASE d = pv[c]
      BY <1>0, <1>2, <2>1 DEF Follows, Precedes
  <2>2. CASE d # pv[c]
    <3>1. nx[d] # c
        BY <1>0, <1>2, <2>2 DEF Follows, Precedes
    <3> QED
        BY <1>0, <1>2, <2>2, <3>1 DEF Follows
  <2> QED
      BY <2>1, <2>2
<1>6. ASSUME NEW d \in L
      PROVE  Precedes(L, d, pv2[d])
  <2>1. CASE d = nx[c]
    <3>1. c < d /\ \A e \in K : e <= c \/ d <= e
        BY <1>0, <1>2, <2>1 DEF Follows
    <3>2. \A e \in L : c <= e => d <= e
        BY <1>0, <3>1
    <3> QED
        BY <1>0, <1>2, <2>1, <3>1, <3>2 DEF Precedes
  <2>2. CASE d # nx[c]
    <3>1. pv[d] # c
        BY <1>0, <1>2, <2>2 DEF Follows, Precedes
    <3> QED
        BY <1>0, <1>2, <2>2, <3>1 DEF Precedes
  <2> QED
      BY <2>1, <2>2
<1> QED
    BY <1>3, <1>4, <1>5, <1>6 DEF Linked

-----------------------------------------------------------------------------
(* Families.                                                                *)

TypesOK ==
    /\ next_proc_id \in 2 .. MaxPid + 1
    /\ dead \subseteq 1 .. next_proc_id - 1
    /\ parent \in [Proc -> Proc \cup {NULL}]
    /\ children_head \in [Proc -> Proc \cup {NULL}]
    /\ children_tail \in [Proc -> Proc \cup {NULL}]
    /\ next_sibling \in [Proc -> Proc \cup {NULL}]
    /\ prev_sibling \in [Proc -> Proc \cup {NULL}]

\* A parent is alive and older than its child.
ParentsOK ==
    \A c \in Live : parent[c] # NULL => parent[c] \in Live /\ parent[c] < c

LinksOK ==
    \A p \in Live : Linked(Reachable(p), children_head[p], children_tail[p],
                           next_sibling, prev_sibling)

\* A process that is still to be forked has no children and no sibling.
FreshOK ==
    \A p \in Proc : p >= next_proc_id =>
        /\ children_head[p] = NULL /\ children_tail[p] = NULL
        /\ next_sibling[p] = NULL

\* A process that waits is alive and has a child.
WaitersOK == \A p \in waiting : p \in Live /\ Reachable(p) # {}

ChildInv == TypesOK /\ ParentsOK /\ LinksOK /\ FreshOK /\ WaitersOK

LEMMA LiveType ==
    ASSUME TypesOK
    PROVE  /\ Live \subseteq Proc /\ next_proc_id \in Nat
           /\ \A p \in Live : p \in Nat /\ p < next_proc_id /\ p # NULL
           /\ \A p : Reachable(p) \subseteq Live
           /\ \A p : Reachable(p) \in SUBSET Proc
           /\ 1 <= MaxPid
  BY ProcFinite DEF TypesOK, Live, Proc, init, Reachable, NULL

\* The list that ExitFunc goes through holds the children.
LEMMA KidsFound ==
    ASSUME ChildInv, NEW p \in Live
    PROVE  ToSet(Children(p)) = Reachable(p)
<1>1. /\ DOMAIN next_sibling = Proc /\ DOMAIN prev_sibling = Proc
      /\ Reachable(p) \in SUBSET Proc
    BY LiveType DEF ChildInv, TypesOK
<1>2. Linked(Reachable(p), children_head[p], children_tail[p], next_sibling,
             prev_sibling)
    BY DEF ChildInv, LinksOK
<1> QED
    BY <1>1, <1>2, LinkedLists DEF Children

LEMMA ForkStep ==
    ASSUME ChildInv, NEW p \in Live \ waiting, ForkFunc(p)
    PROVE  /\ ChildInv' /\ Live' = Live \cup {next_proc_id}
           /\ next_proc_id \in Proc /\ next_proc_id \notin Live
<1> DEFINE t == children_tail[p]
           K == Reachable(p)
<1>c. PICK c : c = next_proc_id
    OBVIOUS
<1>0. /\ TypesOK /\ ParentsOK /\ LinksOK /\ FreshOK /\ WaitersOK
      /\ p \in Live /\ p \in Proc
    BY LiveType DEF ChildInv
<1>1. /\ c <= MaxPid /\ next_proc_id' = c + 1
      /\ parent' = [parent EXCEPT ![c] = p]
      /\ prev_sibling' = [prev_sibling EXCEPT ![c] = t]
      /\ children_head' = IF children_head[p] = NULL
                          THEN [children_head EXCEPT ![p] = c]
                          ELSE children_head
      /\ next_sibling' = IF children_head[p] = NULL THEN next_sibling
                         ELSE [next_sibling EXCEPT ![t] = c]
      /\ children_tail' = [children_tail EXCEPT ![p] = c]
      /\ UNCHANGED <<dead, waiting, exitVars>>
    BY <1>c DEF ForkFunc
<1>2. /\ c \in Nat /\ c \in Proc /\ c \notin Live /\ c > 1
      /\ \A x \in Live : x < c
  <2>1. c \in Nat /\ c > 1 /\ c <= MaxPid
      BY <1>0, <1>1, <1>c, ProcFinite DEF TypesOK
  <2>2. \A x \in Live : x \in Nat /\ x < c
      BY <1>0, <1>c, LiveType
  <2> QED
      BY <2>1, <2>2, ProcFinite DEF Proc
<1>3. Live' = Live \cup {c}
  <2>1. \A d \in dead : d \in Nat /\ d < c
      BY <1>0, <1>2, <1>c DEF TypesOK
  <2>2. Live' = (1 .. c) \ dead /\ Live = (1 .. c - 1) \ dead
      BY <1>1, <1>2, <1>c DEF Live, init
  <2>3. 1 .. c = (1 .. c - 1) \cup {c}
      BY <1>2
  <2>4. c \notin dead
      BY <1>2, <2>1
  <2> QED
      BY <2>2, <2>3, <2>4
<1>4. TypesOK'
  <2>1. dead' \subseteq 1 .. next_proc_id' - 1 /\ next_proc_id' \in 2 .. MaxPid + 1
      BY <1>0, <1>1, <1>2, <1>c, ProcFinite DEF TypesOK
  <2>2. children_head[p] # NULL => t \in Proc
    <3>1. Linked(K, children_head[p], t, next_sibling, prev_sibling)
        BY <1>0 DEF LinksOK
    <3>2. K \subseteq Proc
        BY <1>0, LiveType
    <3> QED
        BY <1>0, <3>1, <3>2 DEF Linked, Least, Greatest
  <2> QED
      BY <1>0, <1>1, <1>2, <2>1, <2>2 DEF TypesOK
<1>5. /\ \A x \in Live : parent'[x] = parent[x]
      /\ parent'[c] = p
    BY <1>0, <1>1, <1>2, LiveType DEF TypesOK
<1>6. ParentsOK'
    BY <1>0, <1>2, <1>3, <1>5 DEF ParentsOK
<1>7. /\ \A x \in Live \ {p} : Reachable(x)' = Reachable(x)
      /\ Reachable(p)' = K \cup {c}
      /\ Reachable(c)' = {}
  <2>1. \A x \in Live : parent[x] # c
      BY <1>0, <1>2, ProcFinite DEF ParentsOK
  <2>2. p # c
      BY <1>0, <1>2
  <2>3. \A x : Reachable(x)' = {d \in Live \cup {c} : parent'[d] = x}
      BY <1>3 DEF Reachable
  <2>4. \A x : x # p => Reachable(x)' = {d \in Live : parent[d] = x}
      BY <1>5, <2>3
  <2>5. Reachable(p)' = {d \in Live : parent[d] = p} \cup {c}
      BY <1>5, <2>3
  <2>6. {d \in Live : parent[d] = c} = {}
      BY <2>1
  <2> QED
      BY <2>2, <2>4, <2>5, <2>6 DEF Reachable
<1>8. \A x \in Live : Linked(Reachable(x), children_head[x], children_tail[x],
                             next_sibling, prev_sibling)
    BY <1>0 DEF LinksOK
<1>9. Linked(K \cup {c}, children_head'[p], children_tail'[p], next_sibling',
             prev_sibling')
  <2>1. children_head'[p] = IF children_head[p] = NULL THEN c ELSE children_head[p]
      BY <1>0, <1>1 DEF TypesOK
  <2>2. children_tail'[p] = c /\ prev_sibling'[c] = t
      BY <1>0, <1>1, <1>2 DEF TypesOK
  <2>3. K \in SUBSET Proc /\ K \subseteq Live
      BY <1>0, LiveType
  <2>4. /\ children_head[p] = NULL => K = {}
        /\ children_head[p] # NULL => t \in K
      BY <1>0, <1>8 DEF Linked, Least, Greatest
  <2>5. next_sibling'[c] = NULL
    <3>1. next_sibling[c] = NULL
        BY <1>0, <1>2, <1>c DEF FreshOK
    <3>2. children_head[p] # NULL => t # c
        BY <1>2, <2>3, <2>4
    <3> QED
        BY <1>0, <1>1, <1>2, <3>1, <3>2 DEF TypesOK
  <2>6. ASSUME NEW d \in K
        PROVE  /\ next_sibling'[d] = IF d = t THEN c ELSE next_sibling[d]
               /\ prev_sibling'[d] = prev_sibling[d]
      BY <1>0, <1>1, <1>2, <2>3, <2>4 DEF TypesOK
  <2>7. \A d \in K : d < c
      BY <1>2, <2>3
  <2>8. Linked(K, children_head[p], t, next_sibling, prev_sibling)
      BY <1>0, <1>8
  <2> HIDE DEF K, t
  <2>9. Linked(K \cup {c}, children_head'[p], c, next_sibling', prev_sibling')
      BY <1>2, <2>1, <2>2, <2>3, <2>5, <2>6, <2>7, <2>8, LinkedPush
  <2> QED
      BY <2>2, <2>9
<1>10. LinksOK'
  <2>1. ASSUME NEW x \in Live \ {p}
        PROVE  Linked(Reachable(x), children_head'[x], children_tail'[x],
                      next_sibling', prev_sibling')
    <3>1. x \in Proc /\ Reachable(x) \subseteq Live /\ Reachable(x) \subseteq Proc
        BY <1>0, LiveType
    <3>2. children_head'[x] = children_head[x] /\ children_tail'[x] = children_tail[x]
        BY <1>0, <1>1, <3>1 DEF TypesOK
    <3>3. children_head[p] # NULL => t \in K
        BY <1>0, <1>8 DEF Linked, Least, Greatest
    <3>4. Reachable(x) \cap K = {}
        BY <2>1 DEF Reachable
    <3>5. \A d \in Reachable(x) : /\ next_sibling'[d] = next_sibling[d]
                                  /\ prev_sibling'[d] = prev_sibling[d]
        BY <1>0, <1>1, <1>2, <3>1, <3>3, <3>4 DEF TypesOK
    <3>6. Linked(Reachable(x), children_head[x], children_tail[x], next_sibling,
                 prev_sibling)
        BY <1>8, <2>1
    <3> QED
        BY <3>2, <3>5, <3>6, LinkedFrame
  <2>2. Linked({}, children_head'[c], children_tail'[c], next_sibling',
               prev_sibling')
    <3>1. c # p
        BY <1>0, <1>2
    <3>2. children_head[c] = NULL /\ children_tail[c] = NULL
        BY <1>0, <1>2, <1>c DEF FreshOK
    <3>3. children_head'[c] = NULL /\ children_tail'[c] = NULL
        BY <1>0, <1>1, <1>2, <3>1, <3>2 DEF TypesOK
    <3> QED
        BY <3>3 DEF Linked, Least, Greatest
  <2> QED
      BY <1>3, <1>7, <1>9, <2>1, <2>2 DEF LinksOK
<1>11. FreshOK'
  <2> SUFFICES ASSUME NEW x \in Proc, x >= c + 1
               PROVE  /\ children_head'[x] = NULL /\ children_tail'[x] = NULL
                      /\ next_sibling'[x] = NULL
      BY <1>1 DEF FreshOK
  <2>1. x \in Nat /\ x >= c /\ x # p /\ x # c
    <3>1. x \in Nat
        BY ProcFinite
    <3> QED
        BY <1>0, <1>2, <3>1
  <2>2. children_head[p] # NULL => t # x
    <3>1. children_head[p] # NULL => t \in K
        BY <1>0, <1>8 DEF Linked, Least, Greatest
    <3>2. \A d \in K : d \in Live /\ d < c
        BY <1>2 DEF Reachable
    <3>3. children_head[p] # NULL => t < c
        BY <3>1, <3>2
    <3> QED
        BY <1>2, <2>1, <3>3
  <2> QED
      BY <1>0, <1>1, <1>c, <2>1, <2>2 DEF FreshOK, TypesOK
<1>12. WaitersOK'
  <2>1. \A x \in waiting : x \in Live \ {p} /\ Reachable(x) # {}
      BY <1>0 DEF WaitersOK
  <2> QED
      BY <1>1, <1>3, <1>7, <2>1 DEF WaitersOK
<1> QED
    BY <1>2, <1>3, <1>c, <1>4, <1>6, <1>10, <1>11, <1>12 DEF ChildInv

\* RemoveChildFromParent, in all its cases.
LEMMA RemoveLinks ==
    ASSUME ChildInv, NEW p \in Live, NEW q \in Live, q = parent[p],
           RemoveChildFromParent(p, q)
    PROVE  LET nx == next_sibling[p]
               pv == prev_sibling[p]
           IN  /\ children_head' \in [Proc -> Proc \cup {NULL}]
               /\ children_tail' \in [Proc -> Proc \cup {NULL}]
               /\ next_sibling' \in [Proc -> Proc \cup {NULL}]
               /\ prev_sibling' \in [Proc -> Proc \cup {NULL}]
               /\ \A x \in Proc \ {q} : /\ children_head'[x] = children_head[x]
                                        /\ children_tail'[x] = children_tail[x]
               /\ children_head'[q] = IF children_head[q] = p THEN nx
                                      ELSE children_head[q]
               /\ children_tail'[q] = IF children_tail[q] = p THEN pv
                                      ELSE children_tail[q]
               /\ \A d \in Proc \ {p} :
                     /\ next_sibling'[d] = IF d = pv THEN nx ELSE next_sibling[d]
                     /\ prev_sibling'[d] = IF d = nx THEN pv ELSE prev_sibling[d]
               /\ nx # NULL => nx \in Reachable(q)
               /\ pv # NULL => pv \in Reachable(q)
<1> DEFINE K == Reachable(q)
           h == children_head[q]
           t == children_tail[q]
           nx == next_sibling[p]
           pv == prev_sibling[p]
<1>0. /\ p \in Proc /\ q \in Proc /\ p \in K
      /\ \A d \in K : d \in Proc /\ d \in Nat /\ d # NULL
    BY LiveType DEF ChildInv, Reachable
<1>1. /\ children_head \in [Proc -> Proc \cup {NULL}]
      /\ children_tail \in [Proc -> Proc \cup {NULL}]
      /\ next_sibling \in [Proc -> Proc \cup {NULL}]
      /\ prev_sibling \in [Proc -> Proc \cup {NULL}]
    BY DEF ChildInv, TypesOK
<1>2. /\ Least(K, h) /\ Greatest(K, t)
      /\ Follows(K, p, nx) /\ Precedes(K, p, pv)
    BY <1>0 DEF ChildInv, LinksOK, Linked
<1>3. /\ h \in K /\ t \in K
      /\ nx # NULL => nx \in K /\ nx \in Proc
      /\ pv # NULL => pv \in K /\ pv \in Proc
    BY <1>0, <1>2 DEF Least, Greatest, Follows, Precedes
<1>4. h = p <=> pv = NULL
  <2>1. ASSUME h = p, pv # NULL
        PROVE  FALSE
    <3>1. pv \in K /\ pv < p /\ p <= pv
        BY <1>0, <1>2, <2>1 DEF Least, Precedes
    <3> QED
        BY <1>0, <3>1
  <2>2. ASSUME h # p, pv = NULL
        PROVE  FALSE
    <3>1. h \in K /\ h <= p /\ p <= h
        BY <1>0, <1>2, <1>3, <2>2 DEF Least, Precedes
    <3> QED
        BY <1>0, <2>2, <3>1
  <2> QED
      BY <2>1, <2>2
<1>5. t = p <=> nx = NULL
  <2>1. ASSUME t = p, nx # NULL
        PROVE  FALSE
    <3>1. nx \in K /\ p < nx /\ nx <= p
        BY <1>0, <1>2, <2>1 DEF Greatest, Follows
    <3> QED
        BY <1>0, <3>1
  <2>2. ASSUME t # p, nx = NULL
        PROVE  FALSE
    <3>1. t \in K /\ t <= p /\ p <= t
        BY <1>0, <1>2, <1>3, <2>2 DEF Greatest, Follows
    <3> QED
        BY <1>0, <2>2, <3>1
  <2> QED
      BY <2>1, <2>2
<1>6. \A d \in Proc : d # NULL
    BY ProcFinite
<1> HIDE DEF K
<1>7. CASE h = p /\ t = p
  <2>1. /\ children_head' = [children_head EXCEPT ![q] = NULL]
        /\ children_tail' = [children_tail EXCEPT ![q] = NULL]
        /\ next_sibling' = [next_sibling EXCEPT ![p] = NULL]
        /\ prev_sibling' = [prev_sibling EXCEPT ![p] = NULL]
      BY <1>7 DEF RemoveChildFromParent
  <2> QED
      BY <1>0, <1>1, <1>3, <1>4, <1>5, <1>6, <1>7, <2>1 DEF K
<1>8. CASE h = p /\ t # p
  <2>1. /\ children_head' = [children_head EXCEPT ![q] = nx]
        /\ prev_sibling' = [prev_sibling EXCEPT ![nx] = NULL]
        /\ UNCHANGED <<next_sibling, children_tail>>
      BY <1>8 DEF RemoveChildFromParent
  <2> QED
      BY <1>0, <1>1, <1>3, <1>4, <1>5, <1>6, <1>8, <2>1 DEF K
<1>9. CASE h # p /\ t = p
  <2>1. /\ children_tail' = [children_tail EXCEPT ![q] = pv]
        /\ next_sibling' = [next_sibling EXCEPT ![pv] = NULL]
        /\ UNCHANGED <<prev_sibling, children_head>>
      BY <1>9 DEF RemoveChildFromParent
  <2> QED
      BY <1>0, <1>1, <1>3, <1>4, <1>5, <1>6, <1>9, <2>1 DEF K
<1>10. CASE h # p /\ t # p
  <2>1. /\ next_sibling' = [next_sibling EXCEPT ![pv] = nx]
        /\ prev_sibling' = [prev_sibling EXCEPT ![nx] = pv]
        /\ UNCHANGED <<children_head, children_tail>>
      BY <1>10 DEF RemoveChildFromParent
  <2> QED
      BY <1>0, <1>1, <1>3, <1>4, <1>5, <1>6, <1>10, <2>1 DEF K
<1> QED
    BY <1>7, <1>8, <1>9, <1>10

LEMMA ExitStep ==
    ASSUME ChildInv, NEW p \in Live \ waiting, NEW s, ExitFunc(p, s)
    PROVE  /\ ChildInv' /\ Live' = Live \ {p}
           /\ \A c \in Live' : parent'[c] = IF parent[c] = p THEN NULL
                                            ELSE parent[c]
<1>0. /\ TypesOK /\ ParentsOK /\ LinksOK /\ FreshOK /\ WaitersOK
      /\ p \in Live /\ p \in Proc /\ p # NULL
    BY LiveType DEF ChildInv
<1>1. PICK q \in Proc \cup {NULL} : q = parent[p]
    BY <1>0 DEF TypesOK
<1>2. /\ dead' = dead \cup {p} /\ waiting' = waiting \ {q}
      /\ next_proc_id' = next_proc_id
      /\ parent' = [c \in Proc |-> IF c \in Reachable(p) THEN NULL ELSE parent[c]]
      /\ \/ q = NULL /\ UNCHANGED childVars
         \/ q # NULL /\ RemoveChildFromParent(p, q)
  <2>1. ToSet(Children(p)) = Reachable(p)
      BY KidsFound
  <2> QED
      BY <1>1, <2>1 DEF ExitFunc
<1>3. Live' = Live \ {p}
    BY <1>2 DEF Live
<1>4. \A c \in Live : parent'[c] = IF parent[c] = p THEN NULL ELSE parent[c]
    BY <1>0, <1>2, LiveType DEF Reachable
<1>5. q # NULL => q \in Live /\ q # p /\ q < p
  <2>1. q # NULL => q \in Live /\ q < p
      BY <1>0, <1>1 DEF ParentsOK
  <2>2. \A x \in Live : x \in Nat
      BY <1>0, LiveType
  <2> QED
      BY <1>0, <2>1, <2>2
<1>6. ParentsOK'
    BY <1>0, <1>3, <1>4 DEF ParentsOK
<1>7. \A x \in Live \ {p} : Reachable(x)' = Reachable(x) \ {p}
  <2>1. \A x : Reachable(x)' = {c \in Live \ {p} : parent'[c] = x}
      BY <1>3 DEF Reachable
  <2>2. \A x \in Live : x # NULL
      BY <1>0, LiveType
  <2>3. \A x \in Live \ {p} : {c \in Live \ {p} : parent'[c] = x}
                                = {c \in Live : parent[c] = x} \ {p}
      BY <1>4, <2>2
  <2> QED
      BY <2>1, <2>3 DEF Reachable
<1>8. \A x \in Live : x # q => Reachable(x) \ {p} = Reachable(x)
    BY <1>1 DEF Reachable
<1>9. \A x \in Live : Linked(Reachable(x), children_head[x], children_tail[x],
                             next_sibling, prev_sibling)
    BY <1>0 DEF LinksOK
<1>10. CASE q = NULL
  <2>1. UNCHANGED childVars
      BY <1>2, <1>10
  <2>2. \A x \in Live \ {p} : Reachable(x)' = Reachable(x)
    <3>1. \A x \in Live : x # q
        BY <1>0, <1>10, LiveType
    <3> QED
        BY <1>7, <1>8, <3>1
  <2>3. TypesOK'
    <3>1. p \in 1 .. next_proc_id - 1
        BY <1>0 DEF Live, init
    <3> QED
        BY <1>0, <1>2, <2>1, <3>1 DEF TypesOK, childVars
  <2>4. LinksOK'
      BY <1>3, <1>9, <2>1, <2>2 DEF LinksOK, childVars
  <2>5. FreshOK'
      BY <1>0, <1>2, <2>1 DEF FreshOK, childVars
  <2>6. WaitersOK'
      BY <1>0, <1>2, <1>3, <2>2 DEF WaitersOK
  <2> QED
      BY <1>3, <1>4, <1>6, <2>3, <2>4, <2>5, <2>6 DEF ChildInv
<1>11. CASE q # NULL
  <2> DEFINE nx == next_sibling[p]
             pv == prev_sibling[p]
             K == Reachable(q)
  <2>1. /\ q \in Live /\ q # p /\ q \in Proc /\ p \in K
        /\ RemoveChildFromParent(p, q)
      BY <1>0, <1>1, <1>2, <1>5, <1>11, LiveType DEF Reachable
  <2>2. /\ children_head' \in [Proc -> Proc \cup {NULL}]
        /\ children_tail' \in [Proc -> Proc \cup {NULL}]
        /\ next_sibling' \in [Proc -> Proc \cup {NULL}]
        /\ prev_sibling' \in [Proc -> Proc \cup {NULL}]
        /\ \A x \in Proc \ {q} : /\ children_head'[x] = children_head[x]
                                 /\ children_tail'[x] = children_tail[x]
        /\ children_head'[q] = IF children_head[q] = p THEN nx
                               ELSE children_head[q]
        /\ children_tail'[q] = IF children_tail[q] = p THEN pv
                               ELSE children_tail[q]
        /\ \A d \in Proc \ {p} :
              /\ next_sibling'[d] = IF d = pv THEN nx ELSE next_sibling[d]
              /\ prev_sibling'[d] = IF d = nx THEN pv ELSE prev_sibling[d]
        /\ nx # NULL => nx \in K
        /\ pv # NULL => pv \in K
      BY <1>1, <2>1, RemoveLinks
  <2>3. TypesOK'
    <3>1. p \in 1 .. next_proc_id - 1
        BY <1>0 DEF Live, init
    <3> QED
        BY <1>0, <1>2, <2>2, <3>1 DEF TypesOK
  <2>4. Linked(K \ {p}, children_head'[q], children_tail'[q], next_sibling',
               prev_sibling')
    <3>1. K \in SUBSET Proc
        BY <1>0, LiveType
    <3>2. Linked(K, children_head[q], children_tail[q], next_sibling,
                 prev_sibling)
        BY <1>9, <2>1
    <3>3. PICK h2, t2, n2, p2 :
              /\ h2 = children_head'[q] /\ t2 = children_tail'[q]
              /\ n2 = next_sibling' /\ p2 = prev_sibling'
        OBVIOUS
    <3>4. \A d \in K \ {p} : d \in Proc \ {p}
        BY <3>1
    <3> HIDE DEF K
    <3>5. \A d \in K \ {p} : n2[d] = IF d = prev_sibling[p] THEN next_sibling[p]
                                    ELSE next_sibling[d]
        BY <2>2, <3>3, <3>4
    <3>6. \A d \in K \ {p} : p2[d] = IF d = next_sibling[p] THEN prev_sibling[p]
                                    ELSE prev_sibling[d]
        BY <2>2, <3>3, <3>4
    <3>7. /\ h2 = IF children_head[q] = p THEN next_sibling[p]
                ELSE children_head[q]
          /\ t2 = IF children_tail[q] = p THEN prev_sibling[p]
                ELSE children_tail[q]
        BY <2>2, <3>3
    <3>8. p \in K
        BY <2>1
    <3>9. Unlinked(K, p, children_head[q], children_tail[q], next_sibling,
                   prev_sibling, h2, t2, n2, p2)
        BY <3>5, <3>6, <3>7 DEF Unlinked
    <3>10. Linked(K \ {p}, h2, t2, n2, p2)
        BY <3>1, <3>2, <3>8, <3>9, LinkedRemove
    <3> QED
        BY <3>3, <3>10
  <2>5. ASSUME NEW x \in Live \ {p}, x # q
        PROVE  Linked(Reachable(x), children_head'[x], children_tail'[x],
                      next_sibling', prev_sibling')
    <3>1. x \in Proc /\ Reachable(x) \subseteq Proc
        BY <1>0, LiveType
    <3>2. Reachable(x) \cap K = {} /\ \A d \in Reachable(x) : d # NULL
        BY <1>0, <2>5, LiveType DEF Reachable
    <3>3. \A d \in Reachable(x) : /\ next_sibling'[d] = next_sibling[d]
                                  /\ prev_sibling'[d] = prev_sibling[d]
        BY <2>1, <2>2, <3>1, <3>2
    <3>4. Linked(Reachable(x), children_head[x], children_tail[x], next_sibling,
                 prev_sibling)
        BY <1>9, <2>5
    <3> QED
        BY <2>2, <2>5, <3>1, <3>3, <3>4, LinkedFrame
  <2>6. LinksOK'
    <3>1. \A x \in Live \ {p} : Linked(Reachable(x)', children_head'[x],
                                       children_tail'[x], next_sibling',
                                       prev_sibling')
        BY <1>7, <1>8, <2>1, <2>4, <2>5
    <3> QED
        BY <1>3, <3>1 DEF LinksOK
  <2>7. FreshOK'
    <3> SUFFICES ASSUME NEW x \in Proc, x >= next_proc_id
                 PROVE  /\ children_head'[x] = NULL /\ children_tail'[x] = NULL
                        /\ next_sibling'[x] = NULL
        BY <1>2 DEF FreshOK
    <3>1. x \notin Live /\ x # NULL
      <4>1. x \in Nat /\ x # NULL /\ \A y \in Live : y \in Nat /\ y < next_proc_id
          BY <1>0, ProcFinite, LiveType
      <4> QED
          BY <1>0, <4>1, LiveType
    <3>2. x # p /\ x # q /\ x # pv
        BY <1>0, <2>1, <2>2, <3>1 DEF Reachable
    <3> QED
        BY <1>0, <2>2, <3>2 DEF FreshOK
  <2>8. WaitersOK'
    <3>1. \A x \in waiting : x \in Live /\ x # p /\ Reachable(x) # {}
        BY <1>0 DEF WaitersOK
    <3>2. \A x \in waiting' : x \in waiting /\ x # q
        BY <1>2
    <3>3. \A x \in waiting' : x \in Live \ {p} /\ Reachable(x)' # {}
        BY <1>7, <1>8, <3>1, <3>2
    <3> QED
        BY <1>3, <3>3 DEF WaitersOK
  <2> QED
      BY <1>3, <1>4, <1>6, <2>3, <2>6, <2>7, <2>8 DEF ChildInv
<1> QED
    BY <1>10, <1>11

\* A process blocks in Wait for a child that it has.
LEMMA WaitStep ==
    ASSUME ChildInv, NEW p \in Live \ waiting, WaitFunc(p)
    PROVE  /\ ChildInv' /\ Live' = Live /\ parent' = parent
           /\ waiting' # waiting => Reachable(p) # {}
<1>0. /\ TypesOK /\ ParentsOK /\ LinksOK /\ FreshOK /\ WaitersOK
      /\ p \in Live
    BY DEF ChildInv
<1>1. /\ next_proc_id' = next_proc_id /\ dead' = dead /\ parent' = parent
      /\ UNCHANGED childVars
      /\ \/ waiting' = waiting
         \/ waiting' = waiting \cup {p} /\ children_head[p] # NULL
    BY DEF WaitFunc
<1>2. Live' = Live /\ \A x : Reachable(x)' = Reachable(x)
    BY <1>1 DEF Live, Reachable
<1>3. children_head[p] # NULL => Reachable(p) # {}
    BY <1>0 DEF LinksOK, Linked, Least
<1>4. TypesOK'
    BY <1>0, <1>1 DEF TypesOK, childVars
<1>5. ParentsOK' /\ LinksOK'
    BY <1>0, <1>1, <1>2 DEF ParentsOK, LinksOK, childVars
<1>6. FreshOK'
    BY <1>0, <1>1 DEF FreshOK, childVars
<1>7. WaitersOK'
    BY <1>0, <1>1, <1>2, <1>3 DEF WaitersOK
<1> QED
    BY <1>1, <1>2, <1>3, <1>4, <1>5, <1>6, <1>7 DEF ChildInv

LEMMA ChildInvInit ==
    ASSUME Init
    PROVE  ChildInv /\ Live = {init}
<1>1. Live = {init}
    BY DEF Init, Live, init
<1>2. TypesOK
    BY FamilyListsAssumption DEF Init, TypesOK
<1>3. \A x \in Proc : parent[x] = NULL
    BY DEF Init
<1>4. init \in Proc /\ init # NULL
    BY FamilyListsAssumption DEF init, Proc, NULL
<1>5. ParentsOK /\ Reachable(init) = {}
    BY <1>1, <1>3, <1>4 DEF ParentsOK, Reachable
<1>6. LinksOK
    BY <1>1, <1>4, <1>5 DEF LinksOK, Linked, Least, Greatest, Init
<1>7. FreshOK /\ WaitersOK
    BY DEF Init, FreshOK, WaitersOK
<1> QED
    BY <1>1, <1>2, <1>5, <1>6, <1>7 DEF ChildInv

LEMMA ChildInvariant == Spec => []ChildInv
<1>1. Init => ChildInv
    BY ChildInvInit
<1>2. ChildInv /\ [Next]_vars => ChildInv'
  <2>1. ASSUME ChildInv, Next
        PROVE  ChildInv'
    <3>1. PICK p \in Live \ waiting : \/ ForkFunc(p)
                                      \/ \E s \in ExitStatus : ExitFunc(p, s)
                                      \/ WaitFunc(p)
        BY <2>1 DEF Next
    <3>2. CASE ForkFunc(p)
        BY <2>1, <3>2, ForkStep
    <3>3. CASE \E s \in ExitStatus : ExitFunc(p, s)
        BY <2>1, <3>3, ExitStep
    <3>4. CASE WaitFunc(p)
        BY <2>1, <3>4, WaitStep
    <3> QED
        BY <3>1, <3>2, <3>3, <3>4
  <2>2. ASSUME ChildInv, UNCHANGED vars
        PROVE  ChildInv'
    <3>1. Live' = Live /\ \A x : Reachable(x)' = Reachable(x)
        BY <2>2 DEF vars, Live, Reachable
    <3> QED
        BY <2>2, <3>1 DEF vars, childVars, ChildInv, TypesOK, ParentsOK,
                          LinksOK, FreshOK, WaitersOK
  <2> QED
      BY <2>1, <2>2
<1> QED
    BY <1>1, <1>2, PTL DEF Spec

\* The children lists of FamilyLists.tla are right, whatever the order of the
\* forks and the exits: RemoveChildFromParent takes a child out of the list of
\* its parent and leaves every other list, and every other place in that list,
\* as it was.
THEOREM ChildrenLinkedCorrect == Spec => []ChildrenLinked
<1>1. ASSUME ChildInv
      PROVE  ChildrenLinked
  <2> SUFFICES ASSUME NEW p \in Live
               PROVE  /\ ToSet(Children(p)) = Reachable(p)
                      /\ \A i, j \in 1 .. Len(Children(p)) :
                            i < j => Children(p)[i] < Children(p)[j]
                      /\ List(prev_sibling, children_tail[p])
                            = Reverse(Children(p))
      BY DEF ChildrenLinked
  <2>1. /\ DOMAIN next_sibling = Proc /\ DOMAIN prev_sibling = Proc
        /\ Reachable(p) \in SUBSET Proc
      BY <1>1, LiveType DEF ChildInv, TypesOK
  <2>2. Linked(Reachable(p), children_head[p], children_tail[p], next_sibling,
               prev_sibling)
      BY <1>1 DEF ChildInv, LinksOK
  <2>3. PICK s : s = Children(p)
      OBVIOUS
  <2>4. /\ ToSet(s) = Reachable(p)
        /\ \A i, j \in 1 .. Len(s) : i < j => s[i] < s[j]
        /\ List(prev_sibling, children_tail[p]) = Reverse(s)
    <3>1. s = List(next_sibling, children_head[p])
        BY <2>3 DEF Children
    <3>2. PICK hd, tl : hd = children_head[p] /\ tl = children_tail[p]
        OBVIOUS
    <3>3. Linked(Reachable(p), hd, tl, next_sibling, prev_sibling)
        BY <2>2, <3>2
    <3>4. ToSet(List(next_sibling, hd)) = Reachable(p)
        BY <2>1, <3>3, LinkedLists
    <3>5. List(prev_sibling, tl) = Reverse(List(next_sibling, hd))
        BY <2>1, <3>3, LinkedLists
    <3>6. \A i, j \in 1 .. Len(List(next_sibling, hd)) :
             i < j => List(next_sibling, hd)[i] < List(next_sibling, hd)[j]
        BY <2>1, <3>3, LinkedLists
    <3> QED
        BY <3>1, <3>2, <3>4, <3>5, <3>6
  <2> QED
      BY <2>3, <2>4
<1> QED
    BY <1>1, ChildInvariant, PTL

\* As long as a process is alive one of them can run: a process blocked in Wait
\* has a live child, children are younger than their parents, and so the
\* youngest process is not blocked.
THEOREM WaitsEndCorrect == Spec => []WaitsEnd
<1>1. ASSUME ChildInv
      PROVE  WaitsEnd
  <2> SUFFICES ASSUME Live # {}
               PROVE  Live \ waiting # {}
      BY DEF WaitsEnd, F!SomeoneRunnable, F!Runnable
  <2>1. Live \in SUBSET Nat /\ \A p \in Live : p \in Nat /\ p < next_proc_id
      BY <1>1, LiveType DEF ChildInv
  <2>2. next_proc_id \in Nat
      BY <1>1, LiveType DEF ChildInv
  <2> DEFINE T == {n \in Nat : \E p \in Live : n = next_proc_id - p}
  <2>3. T # {} /\ \A c \in Live : next_proc_id - c \in T
    <3>1. \A c \in Live : next_proc_id - c \in Nat
        BY <2>1, <2>2
    <3> QED
        BY <3>1
  <2>4. PICK n \in T : \A m \in T : n <= m
    <3>1. T \in SUBSET Nat
        OBVIOUS
    <3> QED
        BY <2>3, <3>1, LeastNumber
  <2>5. PICK p \in Live : n = next_proc_id - p
      BY <2>4
  <2> HIDE DEF T
  <2>6. \A c \in Live : c <= p
    <3>1. \A c \in Live : next_proc_id - p <= next_proc_id - c
        BY <2>3, <2>4, <2>5
    <3> QED
        BY <2>1, <2>2, <2>5, <3>1
  <2>7. p # NULL
      BY <1>1, LiveType DEF ChildInv
  <2>8. Reachable(p) = {}
    <3>1. \A c \in Live : parent[c] = p => p < c
        BY <1>1, <2>7 DEF ChildInv, ParentsOK
    <3>2. \A c \in Live : parent[c] # p
        BY <2>1, <2>6, <3>1
    <3> QED
        BY <3>2 DEF Reachable
  <2> QED
      BY <1>1, <2>8 DEF ChildInv, WaitersOK
<1> QED
    BY <1>1, ChildInvariant, PTL

-----------------------------------------------------------------------------
(* Exit records.                                                            *)

\* From h to t, nx leads along s.
Strung(h, t, nx, s) ==
    /\ s \in Seq(Item)
    /\ IF s = <<>> THEN h = NULL
       ELSE h = s[1] /\ t = s[Len(s)] /\ nx[t] = NULL
    /\ \A k \in 1 .. Len(s) - 1 : nx[s[k]] = s[k + 1]

\* What the programs are told of the items in s.
Told(rec, s) == [k \in 1 .. Len(s) |-> rec[s[k]]]

LEMMA ItemType == NULL \notin Item /\ IsFiniteSet(Item)
  BY FamilyListsAssumption DEF NULL

LEMMA SeqLen ==
    ASSUME NEW s \in Seq(Item)
    PROVE  /\ Len(s) \in Nat /\ s \in [1 .. Len(s) -> Item]
           /\ s = <<>> <=> Len(s) = 0
  BY LenProperties, EmptySeq

LEMMA StrungFrame ==
    ASSUME NEW h, NEW t, NEW nx, NEW s, Strung(h, t, nx, s), NEW nx2,
           \A k \in 1 .. Len(s) : nx2[s[k]] = nx[s[k]]
    PROVE  Strung(h, t, nx2, s)
<1>1. Len(s) \in Nat /\ (s = <<>> <=> Len(s) = 0)
    BY SeqLen DEF Strung
<1>2. s # <<>> => Len(s) \in 1 .. Len(s)
    BY <1>1
<1>3. \A k \in 1 .. Len(s) - 1 : k \in 1 .. Len(s)
    BY <1>1
<1> QED
    BY <1>2, <1>3 DEF Strung

\* PushExitToExited: item i at the end.
LEMMA StrungPush ==
    ASSUME NEW h, NEW t, NEW nx, NEW s, Strung(h, t, nx, s), NEW i \in Item,
           NEW nx2, nx2[i] = NULL, NEW h2,
           IF h = NULL THEN h2 = i ELSE h2 = h /\ nx2[t] = i,
           \A k \in 1 .. Len(s) : s[k] # t => nx2[s[k]] = nx[s[k]],
           \A k, l \in 1 .. Len(s) : s[k] = s[l] => k = l
    PROVE  Strung(h2, i, nx2, Append(s, i))
<1> DEFINE n == Len(s)
           u == Append(s, i)
<1>0. s \in Seq(Item) /\ n \in Nat /\ (s = <<>> <=> n = 0)
    BY SeqLen DEF Strung
<1>1. /\ u \in Seq(Item) /\ Len(u) = n + 1 /\ u[n + 1] = i
      /\ \A k \in 1 .. n : u[k] = s[k]
    BY <1>0, AppendProperties
<1>2. u # <<>>
    BY <1>0, <1>1, SeqLen
<1>3. h = NULL <=> n = 0
  <2>1. n # 0 => s[1] \in Item
      BY <1>0, SeqLen
  <2> QED
      BY <1>0, <2>1, ItemType DEF Strung
<1>4. h2 = u[1]
  <2>1. CASE n = 0
      BY <1>1, <1>3, <2>1
  <2>2. CASE n # 0
    <3>1. 1 \in 1 .. n /\ h = s[1]
        BY <1>0, <2>2 DEF Strung
    <3> QED
        BY <1>1, <1>3, <2>2, <3>1
  <2> QED
      BY <2>1, <2>2
<1>5. ASSUME NEW k \in 1 .. Len(u) - 1
      PROVE  nx2[u[k]] = u[k + 1]
  <2>1. k \in 1 .. n /\ n # 0 /\ n \in 1 .. n
      BY <1>0, <1>1
  <2>2. t = s[n] /\ h # NULL /\ u[k] = s[k]
      BY <1>0, <1>1, <1>3, <2>1 DEF Strung
  <2>3. CASE k = n
      BY <1>1, <2>1, <2>2, <2>3
  <2>4. CASE k # n
    <3>1. k \in 1 .. n - 1 /\ k + 1 \in 1 .. n
        BY <1>0, <2>1, <2>4
    <3>2. s[k] # t
        BY <2>1, <2>2, <2>4
    <3>3. nx2[s[k]] = nx[s[k]]
        BY <2>1, <3>2
    <3>4. nx[s[k]] = s[k + 1] /\ u[k + 1] = s[k + 1]
        BY <1>1, <3>1 DEF Strung
    <3> QED
        BY <2>2, <3>3, <3>4
  <2> QED
      BY <2>3, <2>4
<1> HIDE DEF u, n
<1> QED
    BY <1>1, <1>2, <1>4, <1>5 DEF Strung, u

\* RemoveHeadFromExitQueue, with more than one item.
LEMMA StrungPop ==
    ASSUME NEW h, NEW t, NEW nx, NEW s, Strung(h, t, nx, s), h # NULL, h # t
    PROVE  s # <<>> /\ Strung(nx[h], t, nx, Tail(s))
<1> DEFINE n == Len(s)
           u == Tail(s)
<1>0. s \in Seq(Item) /\ n \in Nat /\ (s = <<>> <=> n = 0)
    BY SeqLen DEF Strung
<1>1. s # <<>> /\ n # 0 /\ h = s[1] /\ t = s[n] /\ nx[t] = NULL
    BY <1>0 DEF Strung
<1>2. n >= 2
    BY <1>0, <1>1
<1>3. /\ u \in Seq(Item) /\ Len(u) = n - 1
      /\ \A k \in 1 .. n - 1 : u[k] = s[k + 1]
    BY <1>0, <1>1, HeadTailProperties
<1>4. u # <<>>
  <2>1. Len(u) # 0
      BY <1>0, <1>2, <1>3
  <2> HIDE DEF u
  <2> QED
      BY <1>3, <2>1, SeqLen
<1>5. nx[h] = u[1] /\ t = u[Len(u)]
  <2>1. 1 \in 1 .. n - 1 /\ n - 1 \in 1 .. n - 1 /\ (n - 1) + 1 = n
      BY <1>0, <1>2
  <2>2. nx[s[1]] = s[1 + 1] /\ u[1] = s[1 + 1]
      BY <1>3, <2>1 DEF Strung
  <2> QED
      BY <1>1, <1>3, <2>1, <2>2
<1>6. ASSUME NEW k \in 1 .. Len(u) - 1
      PROVE  nx[u[k]] = u[k + 1]
  <2>1. /\ k \in 1 .. n - 1 /\ k + 1 \in 1 .. n - 1
      BY <1>0, <1>2, <1>3
  <2>2. nx[s[k + 1]] = s[(k + 1) + 1]
      BY <2>1 DEF Strung
  <2> QED
      BY <1>3, <2>1, <2>2
<1> HIDE DEF u, n
<1> QED
    BY <1>1, <1>3, <1>4, <1>5, <1>6 DEF Strung, u

\* What List finds.
LEMMA StrungList ==
    ASSUME NEW h, NEW t, NEW nx, NEW s, Strung(h, t, nx, s),
           DOMAIN nx = Item,
           \A k, l \in 1 .. Len(s) : s[k] = s[l] => k = l
    PROVE  List(nx, h) = s
<1> DEFINE n == Len(s)
<1>0. /\ n \in Nat /\ s \in [1 .. n -> Item] /\ (s = <<>> <=> n = 0)
    BY SeqLen DEF Strung
<1>1. Cardinality(Item) \in Nat
    BY ItemType, FS_CardinalityType
<1>2. n <= Cardinality(Item)
  <2> HIDE DEF n
  <2>1. IsFiniteSet(1 .. n) /\ Cardinality(1 .. n) = n
      BY <1>0, UpTo
  <2>2. \A k, l \in 1 .. n : s[k] = s[l] => k = l
      BY DEF n
  <2>3. s \in Injection(1 .. n, Item)
      BY <1>0, <2>2 DEF Injection, IsInjective
  <2> QED
      BY <2>1, <2>3, ItemType, FS_Injection
<1>3. \A k \in 1 .. n : s[k] # NULL
    BY <1>0, ItemType
<1>4. n > 0 => s[1] = h /\ nx[s[n]] = NULL
    BY <1>0 DEF Strung
<1>5. n = 0 => h = NULL
    BY <1>0 DEF Strung
<1>6. \A k \in 1 .. n - 1 : nx[s[k]] = s[k + 1]
    BY DEF Strung
<1>7. IsChain(nx, h, n, s)
  <2> HIDE DEF n
  <2> QED
      BY <1>0, <1>2, <1>3, <1>4, <1>5, <1>6 DEF IsChain
<1> QED
    BY <1>7, ItemType, ListChain

\* The items in s are about the same processes in rec and in rec2.
SameTold(rec, rec2, s) == \A k \in 1 .. Len(s) : rec2[s[k]] = rec[s[k]]

LEMMA ToldAppend ==
    ASSUME NEW s \in Seq(Item), NEW i \in Item, NEW rec, NEW rec2,
           SameTold(rec, rec2, s)
    PROVE  Told(rec2, Append(s, i)) = Append(Told(rec, s), rec2[i])
<1> DEFINE n == Len(s)
           u == Append(s, i)
<1>0. n \in Nat
    BY SeqLen
<1>1. /\ Len(u) = n + 1 /\ u[n + 1] = i /\ \A k \in 1 .. n : u[k] = s[k]
    BY AppendProperties
<1>2. Told(rec, s) = [k \in 1 .. n |-> rec[s[k]]]
    BY DEF Told
<1>3. Told(rec2, u) = [k \in 1 .. n + 1 |-> rec2[u[k]]]
    BY <1>1 DEF Told
<1> HIDE DEF u, n
<1>4. \A k \in 1 .. n + 1 : rec2[u[k]] = IF k = n + 1 THEN rec2[i] ELSE rec[s[k]]
  <2>1. ASSUME NEW k \in 1 .. n + 1, k # n + 1
        PROVE  k \in 1 .. n
      BY <1>0, <2>1
  <2>2. \A k \in 1 .. n : rec2[s[k]] = rec[s[k]]
      BY DEF n, SameTold
  <2> QED
      BY <1>1, <2>1, <2>2
<1>5. Append([k \in 1 .. n |-> rec[s[k]]], rec2[i])
        = [k \in 1 .. n + 1 |-> IF k = n + 1 THEN rec2[i] ELSE rec[s[k]]]
    BY <1>0
<1>6. Told(rec2, u) = [k \in 1 .. n + 1 |-> IF k = n + 1 THEN rec2[i] ELSE rec[s[k]]]
    BY <1>3, <1>4
<1> QED
    BY <1>2, <1>5, <1>6 DEF u

LEMMA ToldTail ==
    ASSUME NEW s \in Seq(Item), s # <<>>, NEW rec
    PROVE  Told(rec, s) # <<>> /\ Told(rec, Tail(s)) = Tail(Told(rec, s))
<1> DEFINE n == Len(s)
           u == Tail(s)
           v == [k \in 1 .. n |-> rec[s[k]]]
<1>0. n \in Nat /\ n # 0
    BY SeqLen
<1>1. Len(u) = n - 1 /\ \A k \in 1 .. n - 1 : u[k] = s[k + 1]
    BY HeadTailProperties
<1>2. Told(rec, s) = v
    BY DEF Told
<1>3. Told(rec, u) = [k \in 1 .. n - 1 |-> rec[u[k]]]
    BY <1>1 DEF Told
<1> HIDE DEF u, n
<1>4. Tail(v) = [k \in 1 .. n - 1 |-> rec[s[k + 1]]] /\ v # <<>>
    BY <1>0
<1>5. Told(rec, u) = [k \in 1 .. n - 1 |-> rec[s[k + 1]]]
    BY <1>1, <1>3
<1> QED
    BY <1>2, <1>4, <1>5 DEF u

ExitTypes ==
    /\ heap \subseteq Item /\ DOMAIN record = Item
    /\ next \in [Item -> Item \cup {NULL}]
    /\ exited_children_head \in [Proc -> Item \cup {NULL}]
    /\ exited_children_tail \in [Proc -> Item \cup {NULL}]

\* f[q] are the items on the list of q, which may have exited: they are
\* allocated, and no two of them, on whatever lists, are about the same process.
Filed(f) ==
    /\ f \in [Proc -> Seq(Item)]
    /\ \A q \in Proc : Strung(exited_children_head[q], exited_children_tail[q],
                              next, f[q])
    /\ \A q \in Proc : \A k \in 1 .. Len(f[q]) :
          f[q][k] \in heap /\ record[f[q][k]].pid \in dead
    /\ \A q, r \in Proc : \A k \in 1 .. Len(f[q]), l \in 1 .. Len(f[r]) :
          record[f[q][k]].pid = record[f[r][l]].pid => q = r /\ k = l

ExitInv == ExitTypes /\ \E f : Filed(f)

LEMMA FiledType ==
    ASSUME NEW f, Filed(f), NEW q \in Proc
    PROVE  /\ f[q] \in Seq(Item) /\ Len(f[q]) \in Nat
           /\ f[q] \in [1 .. Len(f[q]) -> Item]
           /\ \A k, l \in 1 .. Len(f[q]) : f[q][k] = f[q][l] => k = l
<1>1. f[q] \in Seq(Item)
    BY DEF Filed
<1>2. \A k, l \in 1 .. Len(f[q]) : f[q][k] = f[q][l] => k = l
    BY DEF Filed
<1> QED
    BY <1>1, <1>2, SeqLen

LEMMA FiledLists ==
    ASSUME ExitTypes, NEW f, Filed(f), NEW q \in Proc
    PROVE  /\ Exited(q) = f[q]
           /\ [k \in 1 .. Len(Exited(q)) |-> record[Exited(q)[k]]]
                 = Told(record, f[q])
<1>1. PICK s, h, t : /\ s = f[q] /\ h = exited_children_head[q]
                     /\ t = exited_children_tail[q]
    OBVIOUS
<1>2. Strung(h, t, next, s)
    BY <1>1 DEF Filed
<1>3. \A k, l \in 1 .. Len(s) : s[k] = s[l] => k = l
    BY <1>1, FiledType
<1>4. DOMAIN next = Item
    BY DEF ExitTypes
<1>5. List(next, h) = s
    BY <1>2, <1>3, <1>4, StrungList
<1>6. Exited(q) = f[q]
    BY <1>1, <1>5 DEF Exited
<1> QED
    BY <1>6 DEF Told

\* A record for a process that has just exited goes to the end of the list of q,
\* in an item that no list holds.
LEMMA PushFiled ==
    ASSUME ExitTypes, NEW f, Filed(f), NEW q \in Proc, NEW i \in Item \ heap,
           NEW p, NEW s, p \notin dead, dead' = dead \cup {p},
           PushExitToExited(i, [pid |-> p, status |-> s], q)
    PROVE  LET g == [f EXCEPT ![q] = Append(f[q], i)]
           IN  /\ ExitTypes' /\ Filed(g)'
               /\ Told(record', g[q]) = Append(Told(record, f[q]),
                                               [pid |-> p, status |-> s])
               /\ \A x \in Proc : x # q => Told(record', g[x]) = Told(record, f[x])
<1> DEFINE g == [f EXCEPT ![q] = Append(f[q], i)]
           h == exited_children_head[q]
           t == exited_children_tail[q]
           n == Len(f[q])
<1>0. /\ i \in Item /\ i \notin heap /\ i # NULL
      /\ f \in [Proc -> Seq(Item)] /\ n \in Nat /\ f[q] \in Seq(Item)
      /\ f[q] \in [1 .. n -> Item]
    BY ItemType, FiledType DEF Filed
<1>1. /\ heap' = heap \cup {i}
      /\ DOMAIN record' = DOMAIN record
      /\ record'[i] = [pid |-> p, status |-> s]
      /\ \A d \in Item : d # i => record'[d] = record[d]
      /\ exited_children_tail' = [exited_children_tail EXCEPT ![q] = i]
      /\ exited_children_head' = IF h = NULL
                                 THEN [exited_children_head EXCEPT ![q] = i]
                                 ELSE exited_children_head
    BY <1>0 DEF PushExitToExited, ExitTypes
<1>2. h = NULL <=> n = 0
  <2>1. /\ Strung(h, t, next, f[q]) /\ (f[q] = <<>> <=> n = 0)
        /\ (n # 0 => f[q][1] # NULL)
      BY <1>0, SeqLen, ItemType DEF Filed
  <2> QED
      BY <2>1 DEF Strung
<1>3. h # NULL => t = f[q][n] /\ t \in heap /\ t \in Item /\ t # i /\ n \in 1 .. n
  <2>1. Strung(h, t, next, f[q]) /\ (f[q] = <<>> <=> n = 0)
      BY <1>0, SeqLen DEF Filed
  <2>2. h # NULL => t = f[q][n] /\ n \in 1 .. n
      BY <1>0, <1>2, <2>1 DEF Strung
  <2>3. n \in 1 .. n => f[q][n] \in heap
      BY DEF Filed
  <2> QED
      BY <1>0, <2>2, <2>3 DEF ExitTypes
<1>4. /\ next' \in [Item -> Item \cup {NULL}]
      /\ next'[i] = NULL /\ (h # NULL => next'[t] = i)
      /\ \A d \in Item : d # i /\ (h # NULL => d # t) => next'[d] = next[d]
  <2>1. CASE h = NULL
    <3>1. next' = [next EXCEPT ![i] = NULL]
        BY <2>1 DEF PushExitToExited
    <3> QED
        BY <1>0, <2>1, <3>1 DEF ExitTypes
  <2>2. CASE h # NULL
    <3>1. next' = [next EXCEPT ![i] = NULL, ![t] = i]
        BY <2>2 DEF PushExitToExited
    <3> QED
        BY <1>0, <1>3, <2>2, <3>1 DEF ExitTypes
  <2> QED
      BY <2>1, <2>2
<1>5. ExitTypes'
    BY <1>0, <1>1, <1>4 DEF ExitTypes
<1>6. \A x \in Proc : \A k \in 1 .. Len(f[x]) :
          /\ f[x][k] \in heap /\ f[x][k] \in Item /\ f[x][k] # i
          /\ record[f[x][k]].pid \in dead
          /\ record'[f[x][k]] = record[f[x][k]]
  <2>1. \A x \in Proc : \A k \in 1 .. Len(f[x]) :
            f[x][k] \in heap /\ record[f[x][k]].pid \in dead
      BY DEF Filed
  <2> QED
      BY <1>0, <1>1, <2>1 DEF ExitTypes
<1>7. /\ g \in [Proc -> Seq(Item)] /\ g[q] = Append(f[q], i)
      /\ \A x \in Proc : x # q => g[x] = f[x]
  <2>1. Append(f[q], i) \in Seq(Item)
      BY <1>0, AppendProperties
  <2> QED
      BY <1>0, <2>1
<1>8. /\ Len(g[q]) = n + 1 /\ g[q][n + 1] = i
      /\ \A k \in 1 .. n : g[q][k] = f[q][k]
    BY <1>0, <1>7, AppendProperties
<1> HIDE DEF g
<1>9. Strung(exited_children_head'[q], exited_children_tail'[q], next', g[q])
  <2>1. PICK h2, n2, u : /\ h2 = exited_children_head'[q] /\ n2 = next'
                         /\ u = f[q]
      OBVIOUS
  <2>2. exited_children_tail'[q] = i
      BY <1>1 DEF ExitTypes
  <2>3. IF h = NULL THEN h2 = i ELSE h2 = h /\ n2[t] = i
      BY <1>1, <1>4, <2>1 DEF ExitTypes
  <2>4. \A k \in 1 .. Len(u) : u[k] # t => n2[u[k]] = next[u[k]]
      BY <1>4, <1>6, <2>1
  <2>5. \A k, l \in 1 .. Len(u) : u[k] = u[l] => k = l
      BY <2>1, FiledType
  <2>6. Strung(h, t, next, u) /\ n2[i] = NULL
      BY <1>4, <2>1 DEF Filed
  <2>7. Strung(h2, i, n2, Append(u, i))
    <3> HIDE DEF h, t
    <3> QED
        BY <1>0, <2>3, <2>4, <2>5, <2>6, StrungPush
  <2> QED
      BY <1>7, <2>1, <2>2, <2>7
<1>10. ASSUME NEW x \in Proc, x # q
       PROVE  Strung(exited_children_head'[x], exited_children_tail'[x], next',
                     g[x])
  <2>1. Strung(exited_children_head[x], exited_children_tail[x], next, f[x])
      BY DEF Filed
  <2>2. /\ exited_children_head'[x] = exited_children_head[x]
        /\ exited_children_tail'[x] = exited_children_tail[x]
      BY <1>1, <1>10 DEF ExitTypes
  <2>3. \A k \in 1 .. Len(f[x]) : h # NULL => f[x][k] # t
    <3>1. \A k \in 1 .. Len(f[x]) : \A l \in 1 .. n : f[x][k] # f[q][l]
        BY <1>10 DEF Filed
    <3> QED
        BY <1>3, <3>1
  <2>4. \A k \in 1 .. Len(f[x]) : next'[f[x][k]] = next[f[x][k]]
      BY <1>4, <1>6, <2>3
  <2>5. Strung(exited_children_head[x], exited_children_tail[x], next', f[x])
      BY <2>1, <2>4, StrungFrame
  <2> QED
      BY <1>7, <1>10, <2>2, <2>5
<1>11. \A x \in Proc : \A k \in 1 .. Len(g[x]) :
          \/ x = q /\ k = n + 1 /\ g[x][k] = i
          \/ k \in 1 .. Len(f[x]) /\ g[x][k] = f[x][k]
  <2>1. \A k \in 1 .. n + 1 : k = n + 1 \/ k \in 1 .. n
      BY <1>0
  <2> QED
      BY <1>7, <1>8, <2>1
<1>12. \A x \in Proc : \A k \in 1 .. Len(g[x]) :
          g[x][k] \in heap' /\ record'[g[x][k]].pid \in dead'
    BY <1>1, <1>6, <1>11
<1>13. ASSUME NEW x \in Proc, NEW y \in Proc, NEW k \in 1 .. Len(g[x]),
              NEW l \in 1 .. Len(g[y]),
              record'[g[x][k]].pid = record'[g[y][l]].pid
       PROVE  x = y /\ k = l
  <2>1. record'[i].pid = p
      BY <1>1
  <2>2. CASE k \in 1 .. Len(f[x]) /\ g[x][k] = f[x][k]
    <3>1. record'[g[x][k]].pid = record[f[x][k]].pid
        BY <1>6, <2>2
    <3>2. l \in 1 .. Len(f[y]) /\ g[y][l] = f[y][l]
        BY <1>6, <1>11, <1>13, <2>1, <2>2, <3>1
    <3>3. record'[g[y][l]].pid = record[f[y][l]].pid
        BY <1>6, <3>2
    <3> QED
        BY <1>13, <2>2, <3>1, <3>2, <3>3 DEF Filed
  <2>3. CASE x = q /\ k = n + 1 /\ g[x][k] = i
    <3>1. ~(l \in 1 .. Len(f[y]) /\ g[y][l] = f[y][l])
        BY <1>6, <1>13, <2>1, <2>3
    <3> QED
        BY <1>11, <2>3, <3>1
  <2> QED
      BY <1>11, <2>2, <2>3
<1>14. Filed(g)'
  <2>1. \A x \in Proc : Strung(exited_children_head'[x], exited_children_tail'[x],
                               next', g[x])
      BY <1>9, <1>10
  <2> QED
      BY <1>7, <1>12, <1>13, <2>1 DEF Filed
<1>15. Told(record', g[q]) = Append(Told(record, f[q]), [pid |-> p, status |-> s])
  <2>1. PICK rec, rec2, u : rec = record /\ rec2 = record' /\ u = f[q]
      OBVIOUS
  <2>2. u \in Seq(Item) /\ \A k \in 1 .. Len(u) : rec2[u[k]] = rec[u[k]]
      BY <1>0, <1>6, <2>1
  <2>3. Told(rec2, Append(u, i)) = Append(Told(rec, u), rec2[i])
    <3>1. u \in Seq(Item)
        BY <2>2
    <3>2. SameTold(rec, rec2, u)
        BY <2>2 DEF SameTold
    <3> QED
        BY <1>0, <3>1, <3>2, ToldAppend
  <2> QED
      BY <1>1, <1>7, <2>1, <2>3
<1>16. \A x \in Proc : x # q => Told(record', g[x]) = Told(record, f[x])
    BY <1>6, <1>7 DEF Told
<1> QED
    BY <1>5, <1>14, <1>15, <1>16 DEF g

\* The oldest record leaves the list of p, and its item is free.
LEMMA PopFiled ==
    ASSUME ExitTypes, NEW f, Filed(f), NEW p \in Proc,
           exited_children_head[p] # NULL, dead' = dead,
           RemoveHeadFromExitQueue(p)
    PROVE  LET g == [f EXCEPT ![p] = Tail(f[p])]
           IN  /\ ExitTypes' /\ Filed(g)'
               /\ Told(record, f[p]) # <<>>
               /\ Told(record', g[p]) = Tail(Told(record, f[p]))
               /\ \A x \in Proc : x # p => Told(record', g[x]) = Told(record, f[x])
<1> DEFINE g == [f EXCEPT ![p] = Tail(f[p])]
           h == exited_children_head[p]
           t == exited_children_tail[p]
           n == Len(f[p])
<1>0. /\ f \in [Proc -> Seq(Item)] /\ n \in Nat /\ f[p] \in Seq(Item)
      /\ f[p] \in [1 .. n -> Item]
    BY FiledType DEF Filed
<1>1. /\ h # t /\ heap' = heap \ {h} /\ record' = record /\ next' = next
      /\ exited_children_tail' = exited_children_tail
      /\ exited_children_head' = [exited_children_head EXCEPT ![p] = next[h]]
    BY DEF RemoveHeadFromExitQueue
<1>2. /\ f[p] # <<>> /\ h = f[p][1] /\ n # 0
      /\ Strung(next[h], t, next, Tail(f[p]))
  <2>1. PICK u : u = f[p]
      OBVIOUS
  <2>2. Strung(h, t, next, u)
      BY <2>1 DEF Filed
  <2>3. u # <<>> /\ Strung(next[h], t, next, Tail(u))
    <3> HIDE DEF h, t
    <3>1. h # NULL /\ h # t
        BY <1>1 DEF h
    <3> QED
        BY <2>2, <3>1, StrungPop
  <2>4. h = u[1]
      BY <2>2, <2>3 DEF Strung
  <2> QED
      BY <1>0, <2>1, <2>3, <2>4, SeqLen
<1>3. h \in Item /\ 1 \in 1 .. n
    BY <1>0, <1>2
<1>4. ExitTypes'
    BY <1>1, <1>3 DEF ExitTypes
<1>5. /\ Tail(f[p]) \in Seq(Item) /\ Len(Tail(f[p])) = n - 1
      /\ \A k \in 1 .. n - 1 : Tail(f[p])[k] = f[p][k + 1]
    BY <1>0, <1>2, HeadTailProperties
<1>6. /\ g \in [Proc -> Seq(Item)] /\ g[p] = Tail(f[p])
      /\ \A x \in Proc : x # p => g[x] = f[x]
    BY <1>0, <1>5
<1> HIDE DEF g
<1>7. \A x \in Proc : Strung(exited_children_head'[x], exited_children_tail'[x],
                             next', g[x])
  <2>1. ASSUME NEW x \in Proc, x # p
        PROVE  Strung(exited_children_head'[x], exited_children_tail'[x], next',
                      g[x])
    <3>1. Strung(exited_children_head[x], exited_children_tail[x], next, f[x])
        BY DEF Filed
    <3>2. exited_children_head'[x] = exited_children_head[x]
        BY <1>1, <2>1 DEF ExitTypes
    <3> QED
        BY <1>1, <1>6, <2>1, <3>1, <3>2
  <2>2. exited_children_head'[p] = next[h]
      BY <1>1 DEF ExitTypes
  <2>3. Strung(exited_children_head'[p], exited_children_tail'[p], next', g[p])
      BY <1>1, <1>2, <1>6, <2>2
  <2> QED
      BY <2>1, <2>3
\* Item k of the list of x was item k or, if it is the list of p, k + 1.
<1>8. \A x \in Proc : \A k \in 1 .. Len(g[x]) :
          \/ x = p /\ k + 1 \in 1 .. Len(f[x]) /\ g[x][k] = f[x][k + 1]
          \/ x # p /\ k \in 1 .. Len(f[x]) /\ g[x][k] = f[x][k]
  <2>1. \A k \in 1 .. n - 1 : k + 1 \in 1 .. n
      BY <1>0
  <2> QED
      BY <1>5, <1>6, <2>1
<1>9. \A x \in Proc : \A k \in 1 .. Len(f[x]) : f[x][k] = h => x = p /\ k = 1
    BY <1>2, <1>3 DEF Filed
<1>10. \A x \in Proc : \A k \in 1 .. Len(g[x]) :
          g[x][k] \in heap' /\ record'[g[x][k]].pid \in dead'
  <2>1. \A x \in Proc : \A k \in 1 .. Len(f[x]) :
            f[x][k] \in heap /\ record[f[x][k]].pid \in dead
      BY DEF Filed
  <2>2. \A x \in Proc : Len(g[x]) \in Nat
      BY <1>6, SeqLen
  <2>3. \A x \in Proc : \A k \in 1 .. Len(g[x]) : k + 1 # 1
      BY <2>2
  <2>4. ASSUME NEW x \in Proc, NEW k \in 1 .. Len(g[x])
        PROVE  g[x][k] \in heap' /\ record'[g[x][k]].pid \in dead'
    <3>1. PICK a \in 1 .. Len(f[x]) : g[x][k] = f[x][a] /\ ~(x = p /\ a = 1)
        BY <1>8, <2>3
    <3>2. f[x][a] \in heap /\ f[x][a] # h /\ record[f[x][a]].pid \in dead
        BY <1>9, <2>1, <3>1
    <3> QED
        BY <1>1, <3>1, <3>2
  <2> QED
      BY <2>4
<1>11. ASSUME NEW x \in Proc, NEW y \in Proc, NEW k \in 1 .. Len(g[x]),
              NEW l \in 1 .. Len(g[y]),
              record'[g[x][k]].pid = record'[g[y][l]].pid
       PROVE  x = y /\ k = l
  <2>1. Len(g[x]) \in Nat /\ Len(g[y]) \in Nat
      BY <1>6, SeqLen
  <2>2. k + 1 = l + 1 => k = l
      BY <2>1
  <2>3. PICK a \in 1 .. Len(f[x]) : /\ a = IF x = p THEN k + 1 ELSE k
                                    /\ g[x][k] = f[x][a]
      BY <1>8
  <2>4. PICK b \in 1 .. Len(f[y]) : /\ b = IF y = p THEN l + 1 ELSE l
                                    /\ g[y][l] = f[y][b]
      BY <1>8
  <2>5. x = y /\ a = b
      BY <1>1, <1>11, <2>3, <2>4 DEF Filed
  <2> QED
      BY <2>2, <2>3, <2>4, <2>5
<1>12. Filed(g)'
    BY <1>6, <1>7, <1>10, <1>11 DEF Filed
<1>13. /\ Told(record, f[p]) # <<>>
       /\ Told(record', g[p]) = Tail(Told(record, f[p]))
  <2>1. PICK rec, u : rec = record /\ u = f[p]
      OBVIOUS
  <2>2. u \in Seq(Item) /\ u # <<>>
      BY <1>0, <1>2, <2>1
  <2>3. Told(rec, u) # <<>> /\ Told(rec, Tail(u)) = Tail(Told(rec, u))
      BY <2>2, ToldTail
  <2> QED
      BY <1>1, <1>6, <2>1, <2>3
<1>14. \A x \in Proc : x # p => Told(record', g[x]) = Told(record, f[x])
    BY <1>1, <1>6
<1> QED
    BY <1>4, <1>12, <1>13, <1>14 DEF g

LEMMA FiledFrame ==
    ASSUME ExitTypes, NEW f, Filed(f), UNCHANGED exitVars, dead \subseteq dead'
    PROVE  /\ ExitTypes' /\ Filed(f)'
           /\ \A x \in Proc : Told(record', f[x]) = Told(record, f[x])
<1>1. /\ exited_children_head' = exited_children_head
      /\ exited_children_tail' = exited_children_tail
      /\ heap' = heap /\ record' = record /\ next' = next
    BY DEF exitVars
<1>2. ExitTypes'
    BY <1>1 DEF ExitTypes
<1>3. Filed(f)'
    BY <1>1 DEF Filed
<1> QED
    BY <1>1, <1>2, <1>3

\* What ExitFunc does to the records: one more for the parent of p, if it has
\* one.
LEMMA ExitRecords ==
    ASSUME ChildInv, ExitTypes, NEW f, Filed(f), NEW p \in Live \ waiting, NEW s,
           ExitFunc(p, s)
    PROVE  \E g : /\ ExitTypes' /\ Filed(g)'
                  /\ \A x \in Proc : Told(record', g[x]) =
                        IF x = parent[p]
                        THEN Append(Told(record, f[x]), [pid |-> p, status |-> s])
                        ELSE Told(record, f[x])
<1>1. p \in Live /\ p \in Proc /\ p \notin dead /\ TypesOK
    BY LiveType DEF ChildInv, Live
<1>2. dead' = dead \cup {p}
    BY DEF ExitFunc
<1>3. CASE parent[p] = NULL
  <2>1. UNCHANGED exitVars
      BY <1>3 DEF ExitFunc
  <2>2. \A x \in Proc : x # parent[p]
      BY <1>3, ProcFinite
  <2>3. /\ ExitTypes' /\ Filed(f)'
        /\ \A x \in Proc : Told(record', f[x]) = Told(record, f[x])
      BY <1>2, <2>1, FiledFrame
  <2> QED
      BY <2>2, <2>3
<1>4. CASE parent[p] # NULL
  <2>1. PICK q \in Proc : q = parent[p]
      BY <1>1, <1>4 DEF TypesOK
  <2>2. PICK i \in Item \ heap : PushExitToExited(i, [pid |-> p, status |-> s], q)
      BY <1>4, <2>1 DEF ExitFunc
  <2> DEFINE g == [f EXCEPT ![q] = Append(f[q], i)]
  <2>3. /\ ExitTypes' /\ Filed(g)'
        /\ Told(record', g[q]) = Append(Told(record, f[q]),
                                        [pid |-> p, status |-> s])
        /\ \A x \in Proc : x # q => Told(record', g[x]) = Told(record, f[x])
      BY <1>1, <1>2, <2>2, PushFiled
  <2> HIDE DEF g
  <2> QED
      BY <2>1, <2>3
<1> QED
    BY <1>3, <1>4

\* What WaitFunc does to them: nothing, or the oldest is collected.
LEMMA WaitRecords ==
    ASSUME ChildInv, ExitTypes, NEW f, Filed(f), NEW p \in Live \ waiting,
           WaitFunc(p)
    PROVE  \E g : /\ ExitTypes' /\ Filed(g)'
                  /\ \/ /\ Told(record, f[p]) = <<>>
                        /\ children_head[p] # NULL
                        /\ waiting' = waiting \cup {p}
                        /\ \A x \in Proc : Told(record', g[x]) = Told(record, f[x])
                     \/ /\ Told(record, f[p]) # <<>>
                        /\ waiting' = waiting
                        /\ \A x \in Proc : Told(record', g[x]) =
                              IF x = p THEN Tail(Told(record, f[x]))
                              ELSE Told(record, f[x])
<1>1. p \in Proc /\ dead' = dead
    BY LiveType DEF ChildInv, WaitFunc
<1>2. CASE exited_children_head[p] = NULL
  <2>1. /\ children_head[p] # NULL /\ waiting' = waiting \cup {p}
        /\ UNCHANGED exitVars
      BY <1>2 DEF WaitFunc
  <2>2. /\ ExitTypes' /\ Filed(f)'
        /\ \A x \in Proc : Told(record', f[x]) = Told(record, f[x])
      BY <1>1, <2>1, FiledFrame
  <2>3. Strung(NULL, exited_children_tail[p], next, f[p])
      BY <1>1, <1>2 DEF Filed
  <2>4. f[p] = <<>>
    <3>1. f[p] # <<>> => f[p][1] \in Item
        BY <1>1, FiledType, SeqLen
    <3> QED
        BY <2>3, <3>1, ItemType DEF Strung
  <2>5. Told(record, f[p]) = <<>>
      BY <2>4 DEF Told
  <2> QED
      BY <2>1, <2>2, <2>5
<1>3. CASE exited_children_head[p] # NULL
  <2>1. RemoveHeadFromExitQueue(p) /\ waiting' = waiting
      BY <1>3 DEF WaitFunc
  <2> DEFINE g == [f EXCEPT ![p] = Tail(f[p])]
  <2>2. /\ ExitTypes' /\ Filed(g)' /\ Told(record, f[p]) # <<>>
        /\ Told(record', g[p]) = Tail(Told(record, f[p]))
        /\ \A x \in Proc : x # p => Told(record', g[x]) = Told(record, f[x])
      BY <1>1, <1>3, <2>1, PopFiled
  <2> HIDE DEF g
  <2> QED
      BY <2>1, <2>2
<1> QED
    BY <1>2, <1>3

LEMMA ExitInvInit ==
    ASSUME Init
    PROVE  ExitTypes /\ Filed([p \in Proc |-> <<>>])
<1> DEFINE f == [p \in Proc |-> <<>>]
<1>1. ExitTypes
    BY DEF Init, ExitTypes
<1>2. /\ f \in [Proc -> Seq(Item)]
      /\ \A q \in Proc : f[q] = <<>> /\ Len(f[q]) = 0
    OBVIOUS
<1>3. \A q \in Proc : Strung(exited_children_head[q], exited_children_tail[q],
                             next, <<>>)
    BY DEF Init, Strung
<1>4. \A q \in Proc : 1 .. Len(f[q]) = {}
    BY <1>2
<1> HIDE DEF f
<1>5. Filed(f)
    BY <1>2, <1>3, <1>4 DEF Filed
<1> QED
    BY <1>1, <1>5 DEF f

LEMMA ExitInvariant == Spec => [](ChildInv /\ ExitInv)
<1>1. Init => ChildInv /\ ExitInv
    BY ChildInvInit, ExitInvInit DEF ExitInv
<1>2. ChildInv /\ ExitInv /\ [Next]_vars => ExitInv'
  <2> SUFFICES ASSUME ChildInv, ExitInv, [Next]_vars
               PROVE  ExitInv'
      OBVIOUS
  <2>1. PICK f : ExitTypes /\ Filed(f)
      BY DEF ExitInv
  <2>2. CASE Next
    <3>1. PICK p \in Live \ waiting : \/ ForkFunc(p)
                                      \/ \E s \in ExitStatus : ExitFunc(p, s)
                                      \/ WaitFunc(p)
        BY <2>2 DEF Next
    <3>2. CASE ForkFunc(p)
      <4>1. UNCHANGED exitVars /\ dead' = dead
          BY <3>2 DEF ForkFunc
      <4> QED
          BY <2>1, <4>1, FiledFrame DEF ExitInv
    <3>3. CASE \E s \in ExitStatus : ExitFunc(p, s)
        BY <2>1, <3>3, ExitRecords DEF ExitInv
    <3>4. CASE WaitFunc(p)
        BY <2>1, <3>4, WaitRecords DEF ExitInv
    <3> QED
        BY <3>1, <3>2, <3>3, <3>4
  <2>3. CASE UNCHANGED vars
    <3>1. UNCHANGED exitVars /\ dead' = dead
        BY <2>3 DEF vars
    <3> QED
        BY <2>1, <3>1, FiledFrame DEF ExitInv
  <2> QED
      BY <2>2, <2>3
<1> QED
    BY <1>1, <1>2, ChildInvariant, PTL DEF Spec

\* A process leaves at most one exit record, on one list, and only after it has
\* exited, although the items of records that Wait collected are used again.
THEOREM ReportedOnceCorrect == Spec => []ReportedOnce
<1>1. ASSUME ChildInv, ExitInv
      PROVE  ReportedOnce
  <2>1. PICK f : ExitTypes /\ Filed(f)
      BY <1>1 DEF ExitInv
  <2>2. Live \subseteq Proc
      BY <1>1, LiveType DEF ChildInv
  <2>3. \A p \in Live : Exited(p) = f[p] /\ p \in Proc
      BY <2>1, <2>2, FiledLists
  <2>4. \A p \in Live : IsInjective(Exited(p))
    <3>1. \A p \in Live : DOMAIN f[p] = 1 .. Len(f[p])
        BY <2>1, <2>3, FiledType
    <3>2. \A p \in Live : \A k, l \in DOMAIN f[p] : f[p][k] = f[p][l] => k = l
        BY <2>1, <2>3, <3>1, FiledType
    <3> QED
        BY <2>3, <3>2 DEF IsInjective
  <2> DEFINE listed == UNION {{p} \X ToSet(Exited(p)) : p \in Live}
  <2>5. ASSUME NEW x \in listed
        PROVE  \E p \in Live : \E k \in 1 .. Len(f[p]) : x = <<p, f[p][k]>>
    <3>1. PICK p \in Live : x \in {p} \X ToSet(Exited(p))
        BY <2>5
    <3>2. PICK i \in ToSet(Exited(p)) : x = <<p, i>>
        BY <3>1
    <3>3. f[p] \in [1 .. Len(f[p]) -> Item] /\ Exited(p) = f[p]
        BY <2>1, <2>3, FiledType
    <3>4. \E k \in 1 .. Len(f[p]) : i = f[p][k]
        BY <3>2, <3>3 DEF ToSet
    <3> QED
        BY <3>2, <3>4
  <2> HIDE DEF listed
  <2>6. ASSUME NEW x \in listed, NEW y \in listed
        PROVE  /\ record[x[2]].pid \in dead
               /\ record[x[2]].pid = record[y[2]].pid => x = y
    <3>1. PICK p \in Live : \E k \in 1 .. Len(f[p]) : x = <<p, f[p][k]>>
        BY <2>5
    <3>2. PICK k \in 1 .. Len(f[p]) : x = <<p, f[p][k]>>
        BY <3>1
    <3>3. PICK q \in Live : \E l \in 1 .. Len(f[q]) : y = <<q, f[q][l]>>
        BY <2>5
    <3>4. PICK l \in 1 .. Len(f[q]) : y = <<q, f[q][l]>>
        BY <3>3
    <3>5. x[2] = f[p][k] /\ y[2] = f[q][l]
        BY <3>2, <3>4
    <3>6. record[f[p][k]].pid \in dead
        BY <2>1, <2>3 DEF Filed
    <3>7. record[f[p][k]].pid = record[f[q][l]].pid => p = q /\ k = l
        BY <2>1, <2>3 DEF Filed
    <3> QED
        BY <3>2, <3>4, <3>5, <3>6, <3>7
  <2> QED
      BY <2>4, <2>6 DEF ReportedOnce, listed
<1> QED
    BY <1>1, ExitInvariant, PTL

-----------------------------------------------------------------------------
(* FamilyLists.tla implements Family.tla.                                   *)

AbsParent == [p \in Proc |-> IF p \in Live THEN parent[p] ELSE NULL]
AbsRecords == [p \in Proc |-> [k \in 1 .. Len(Exited(p)) |->
                                 record[Exited(p)[k]]]]

LEMMA RecordsFiled ==
    ASSUME ExitTypes, NEW f, Filed(f)
    PROVE  AbsRecords = [p \in Proc |-> Told(record, f[p])]
  BY FiledLists DEF AbsRecords

LEMMA RefineInit ==
    ASSUME Init
    PROVE  F!Init
<1> DEFINE f == [p \in Proc |-> <<>>]
<1>1. ChildInv /\ Live = {init} /\ ExitTypes /\ Filed(f)
    BY ChildInvInit, ExitInvInit
<1>2. AbsRecords = [p \in Proc |-> Told(record, f[p])]
    BY <1>1, RecordsFiled
<1>3. \A p \in Proc : Told(record, f[p]) = <<>>
    BY DEF Told
<1>4. AbsRecords = [p \in Proc |-> <<>>]
    BY <1>2, <1>3
<1>5. AbsParent = [p \in Proc |-> NULL]
    BY DEF AbsParent, Init
<1> QED
    BY <1>1, <1>4, <1>5 DEF F!Init, Init, AbsRecords, AbsParent, F!Proc, Proc,
                            F!NULL, NULL, F!init, init

LEMMA RefineFork ==
    ASSUME ChildInv, ExitTypes, NEW f, Filed(f), NEW p \in Live \ waiting,
           ForkFunc(p)
    PROVE  F!Fork(p)
<1>1. PICK c : c = next_proc_id
    OBVIOUS
<1>2. /\ c <= MaxPid /\ next_proc_id' = c + 1 /\ c \in Proc
      /\ parent' = [parent EXCEPT ![c] = p] /\ waiting' = waiting /\ dead' = dead
      /\ UNCHANGED exitVars
    BY <1>1 DEF ForkFunc, ChildInv, TypesOK, Proc
<1>3. Live' = Live \cup {c} /\ parent \in [Proc -> Proc \cup {NULL}]
    BY <1>1, ForkStep DEF ChildInv, TypesOK
<1>4. AbsRecords' = AbsRecords
  <2>1. ExitTypes' /\ Filed(f)'
        /\ \A x \in Proc : Told(record', f[x]) = Told(record, f[x])
      BY <1>2, FiledFrame
  <2>2. AbsRecords' = [x \in Proc |-> Told(record', f[x])]
      BY <1>2, FiledLists, <2>1 DEF AbsRecords, exitVars, Exited
  <2> QED
      BY <2>1, <2>2, RecordsFiled
<1>5. AbsParent' = [AbsParent EXCEPT ![c] = p]
    BY <1>2, <1>3 DEF AbsParent
<1> QED
    BY <1>1, <1>2, <1>3, <1>4, <1>5 DEF F!Fork, AbsRecords, AbsParent

\* RecordsFiled in the state after a step.
LEMMA RecordsFiledNext ==
    ASSUME ExitTypes', NEW f, Filed(f)'
    PROVE  AbsRecords' = [p \in Proc |-> Told(record', f[p])]
<1>1. ASSUME NEW q \in Proc
      PROVE  Exited(q)' = f[q]
  <2>1. PICK s, h, t, nx : /\ s = f[q] /\ h = exited_children_head'[q]
                           /\ t = exited_children_tail'[q] /\ nx = next'
      OBVIOUS
  <2>2. Strung(h, t, nx, s)
      BY <2>1 DEF Filed
  <2>3. \A k, l \in 1 .. Len(s) : s[k] = s[l] => k = l
      BY <2>1 DEF Filed
  <2>4. DOMAIN nx = Item
      BY <2>1 DEF ExitTypes
  <2>5. List(nx, h) = s
      BY <2>2, <2>3, <2>4, StrungList
  <2> QED
      BY <2>1, <2>5 DEF Exited
<1> QED
    BY <1>1 DEF AbsRecords, Told

LEMMA RefineExit ==
    ASSUME ChildInv, ExitTypes, NEW f, Filed(f), NEW p \in Live \ waiting,
           NEW s \in ExitStatus, ExitFunc(p, s)
    PROVE  F!Terminate(p, s)
<1>1. PICK q : q = parent[p]
    OBVIOUS
<1>2. /\ p \in Live /\ p \in Proc /\ Live \subseteq Proc
      /\ parent \in [Proc -> Proc \cup {NULL}] /\ q \in Proc \cup {NULL}
      /\ NULL \notin Proc
    BY <1>1, LiveType, ProcFinite DEF ChildInv, TypesOK
<1>3. /\ Live' = Live \ {p} /\ next_proc_id' = next_proc_id
      /\ waiting' = waiting \ {q}
      /\ \A c \in Live' : parent'[c] = IF parent[c] = p THEN NULL ELSE parent[c]
    BY <1>1, ExitStep DEF ExitFunc
<1>4. /\ AbsParent[p] = q
      /\ \A c \in Proc : AbsParent[c] = IF c \in Live THEN parent[c] ELSE NULL
    BY <1>1, <1>2 DEF AbsParent
<1>5. AbsParent' = [c \in Proc |-> IF c = p \/ AbsParent[c] = p THEN NULL
                                                               ELSE AbsParent[c]]
  <2>1. AbsParent' = [c \in Proc |-> IF c \in Live' THEN parent'[c] ELSE NULL]
      BY DEF AbsParent
  <2>2. \A c \in Proc : (IF c \in Live' THEN parent'[c] ELSE NULL)
            = IF c = p \/ AbsParent[c] = p THEN NULL ELSE AbsParent[c]
      BY <1>2, <1>3, <1>4
  <2> QED
      BY <2>1, <2>2
<1>6. AbsRecords' = IF q = NULL THEN AbsRecords
                    ELSE [AbsRecords EXCEPT
                             ![q] = Append(@, [pid |-> p, status |-> s])]
  <2>1. PICK g : /\ ExitTypes' /\ Filed(g)'
                 /\ \A x \in Proc : Told(record', g[x]) =
                       IF x = q
                       THEN Append(Told(record, f[x]), [pid |-> p, status |-> s])
                       ELSE Told(record, f[x])
      BY <1>1, ExitRecords
  <2>2. AbsRecords' = [x \in Proc |-> Told(record', g[x])]
      BY <2>1, RecordsFiledNext
  <2>3. AbsRecords = [x \in Proc |-> Told(record, f[x])]
      BY RecordsFiled
  <2>4. CASE q = NULL
      BY <1>2, <2>1, <2>2, <2>3, <2>4
  <2>5. CASE q # NULL
    <3>1. \A x \in Proc : Told(record', g[x]) =
             [AbsRecords EXCEPT ![q] = Append(@, [pid |-> p, status |-> s])][x]
        BY <1>2, <2>1, <2>3, <2>5
    <3>2. DOMAIN [AbsRecords EXCEPT ![q] = Append(@, [pid |-> p, status |-> s])]
            = Proc
        BY <2>3
    <3> QED
        BY <2>2, <2>3, <2>5, <3>1, <3>2
  <2> QED
      BY <2>4, <2>5
<1> QED
    BY <1>3, <1>4, <1>5, <1>6 DEF F!Terminate, AbsRecords, AbsParent, F!Proc, Proc,
                                  F!NULL, NULL

LEMMA RefineWait ==
    ASSUME ChildInv, ExitTypes, NEW f, Filed(f), NEW p \in Live \ waiting,
           WaitFunc(p)
    PROVE  F!Block(p) \/ F!Collect(p)
<1>1. PICK g :
          /\ ExitTypes' /\ Filed(g)'
          /\ \/ /\ Told(record, f[p]) = <<>>
                /\ children_head[p] # NULL
                /\ waiting' = waiting \cup {p}
                /\ \A x \in Proc : Told(record', g[x]) = Told(record, f[x])
             \/ /\ Told(record, f[p]) # <<>>
                /\ waiting' = waiting
                /\ \A x \in Proc : Told(record', g[x]) =
                      IF x = p THEN Tail(Told(record, f[x]))
                      ELSE Told(record, f[x])
    BY WaitRecords
<1>2. /\ Live' = Live /\ parent' = parent /\ next_proc_id' = next_proc_id
      /\ p \in Live /\ p \in Proc /\ Live \subseteq Proc
    BY WaitStep, LiveType DEF ChildInv, WaitFunc
<1>3. AbsParent' = AbsParent
    BY <1>2 DEF AbsParent
<1>4. AbsRecords' = [x \in Proc |-> Told(record', g[x])]
    BY <1>1, RecordsFiledNext
<1>5. AbsRecords = [x \in Proc |-> Told(record, f[x])]
    BY RecordsFiled
<1>6. CASE Told(record, f[p]) = <<>>
  <2>1. AbsRecords[p] = <<>> /\ AbsRecords' = AbsRecords
      BY <1>1, <1>2, <1>4, <1>5, <1>6
  <2>2. children_head[p] # NULL /\ waiting' = waiting \cup {p}
      BY <1>1, <1>6
  <2>3. \E c \in Live : AbsParent[c] = p
    <3>1. Reachable(p) # {}
        BY <1>2, <2>2 DEF ChildInv, LinksOK, Linked, Least
    <3>2. PICK c \in Live : parent[c] = p
        BY <3>1 DEF Reachable
    <3> QED
        BY <1>2, <3>2 DEF AbsParent
  <2> QED
      BY <1>2, <1>3, <2>1, <2>2, <2>3 DEF F!Block, AbsRecords, AbsParent
<1>7. CASE Told(record, f[p]) # <<>>
  <2>1. AbsRecords[p] # <<>> /\ waiting' = waiting
      BY <1>1, <1>2, <1>5, <1>7
  <2>2. AbsRecords' = [AbsRecords EXCEPT ![p] = Tail(@)]
    <3>1. \A x \in Proc : Told(record', g[x]) = [AbsRecords EXCEPT ![p] = Tail(@)][x]
        BY <1>1, <1>2, <1>5, <1>7
    <3>2. DOMAIN [AbsRecords EXCEPT ![p] = Tail(@)] = Proc
        BY <1>5
    <3> QED
        BY <1>4, <1>5, <3>1, <3>2
  <2> QED
      BY <1>2, <1>3, <2>1, <2>2 DEF F!Collect, AbsRecords, AbsParent
<1> QED
    BY <1>6, <1>7

\* The linked lists of FamilyLists.tla keep the promises of Family.tla: a process
\* is an orphan once its parent is gone, and Wait hands out the exit records in
\* the order of the exits, once each.
THEOREM FamilyListsRefinement == Spec => FamilyListsSpec
<1>1. Init => F!Init
    BY RefineInit
<1>2. ChildInv /\ ExitInv /\ [Next]_vars => [F!Next]_(F!vars)
  <2> SUFFICES ASSUME ChildInv, ExitInv, [Next]_vars
               PROVE  [F!Next]_(F!vars)
      OBVIOUS
  <2>1. PICK f : ExitTypes /\ Filed(f)
      BY DEF ExitInv
  <2>2. CASE Next
    <3>1. PICK p \in Live \ waiting : \/ ForkFunc(p)
                                      \/ \E s \in ExitStatus : ExitFunc(p, s)
                                      \/ WaitFunc(p)
        BY <2>2 DEF Next
    <3>2. \/ F!Fork(p)
          \/ \E s \in ExitStatus : F!Terminate(p, s)
          \/ F!Block(p)
          \/ F!Collect(p)
        BY <2>1, <3>1, RefineFork, RefineExit, RefineWait
    <3> QED
        BY <3>1, <3>2 DEF F!Next, F!Runnable
  <2>3. CASE UNCHANGED vars
    <3>1. Live' = Live /\ AbsRecords' = AbsRecords
        BY <2>3 DEF vars, exitVars, Live, AbsRecords, Exited
    <3> QED
        BY <2>3, <3>1 DEF vars, F!vars, AbsRecords
  <2> QED
      BY <2>2, <2>3
<1> QED
    BY <1>1, <1>2, ExitInvariant, PTL DEF Spec, FamilyListsSpec, F!Spec
===============================================================================
