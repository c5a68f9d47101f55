----------------------------- MODULE Lists_proofs -----------------------------
(***************************************************************************)
(* Proofs about Lists.tla, for any number of processes and of items.       *)
(***************************************************************************)
EXTENDS Lists, Counting, SequenceTheorems

-----------------------------------------------------------------------------
(* Chains: the elements of a list in their order.                           *)

IsChain(link, h, n, s) ==
    /\ n \in Nat /\ s \in [1 .. n -> Item]
    /\ n > 0 => s[1] = h
    /\ \A k \in 2 .. n : s[k] = link[s[k - 1]]

\* What Walk finds is the chain, if there is one.
LEMMA WalkChain ==
    ASSUME NEW link, NEW h, NEW n, NEW s, IsChain(link, h, n, s)
    PROVE  Walk(link, h, n) = s
<1> DEFINE E(f) == f = [k \in 1 .. n |-> IF k = 1 THEN h ELSE link[f[k - 1]]]
           item == CHOOSE f : E(f)
<1>0. n \in Nat /\ s \in [1 .. n -> Item]
    BY DEF IsChain
<1>1. E(s)
  <2>1. ASSUME NEW k \in 1 .. n
        PROVE  s[k] = IF k = 1 THEN h ELSE link[s[k - 1]]
      BY <1>0, <2>1 DEF IsChain
  <2> QED
      BY <1>0, <2>1
<1>2. E(item)
    BY <1>1
<1> HIDE DEF item
<1>3. \A k \in 1 .. n : item[k] = IF k = 1 THEN h ELSE link[item[k - 1]]
    BY <1>2
<1>4. \A k \in 1 .. n : item[k] = s[k]
  <2> DEFINE T == {k \in 1 .. n : item[k] # s[k]}
  <2> SUFFICES ASSUME T # {}
               PROVE  FALSE
      OBVIOUS
  <2>1. T \in SUBSET Nat
      BY <1>0
  <2> HIDE DEF T
  <2>2. PICK k \in T : \A m \in T : k <= m
      BY <2>1, LeastNumber
  <2>3. k \in 1 .. n /\ item[k] # s[k]
      BY <2>2 DEF T
  <2>4. k # 1
      BY <1>0, <1>3, <2>3 DEF IsChain
  <2>5. k - 1 \in 1 .. n /\ ~(k <= k - 1)
      BY <1>0, <2>3, <2>4
  <2>6. k - 1 \notin T
      BY <2>2, <2>5
  <2>7. item[k - 1] = s[k - 1]
      BY <2>5, <2>6 DEF T
  <2>8. s[k] = link[s[k - 1]]
      BY <1>0, <2>3, <2>4 DEF IsChain
  <2> QED
      BY <1>3, <2>3, <2>4, <2>7, <2>8
<1>5. Walk(link, h, n) = [k \in 1 .. n |-> item[k]]
    BY DEF Walk, item
<1> QED
    BY <1>0, <1>4, <1>5

-----------------------------------------------------------------------------
(* Lists with a tail, and what the operations do to them.                   *)

IsList(link, h, t, n, s) ==
    /\ IsChain(link, h, n, s)
    /\ n > 0 => t = s[n]
    /\ \A i, j \in 1 .. n : s[i] = s[j] => i = j

Pushed(s, n, new) == [k \in 1 .. n + 1 |-> IF k <= n THEN s[k] ELSE new]
Dropped(s, n, m) == [k \in 1 .. n - m |-> s[k + m]]
Without(s, n, x) == [k \in 1 .. n - 1 |-> IF k < x THEN s[k] ELSE s[k + 1]]

\* The links of a list may change where it does not go.
LEMMA ListFrame ==
    ASSUME NEW link, NEW h, NEW t, NEW n, NEW s, IsList(link, h, t, n, s),
           NEW link2, \A k \in 1 .. n - 1 : link2[s[k]] = link[s[k]]
    PROVE  IsList(link2, h, t, n, s)
<1>1. n \in Nat
    BY DEF IsList, IsChain
<1>2. \A k \in 2 .. n : k - 1 \in 1 .. n - 1
    BY <1>1
<1>3. \A k \in 2 .. n : s[k] = link2[s[k - 1]]
    BY <1>2 DEF IsList, IsChain
<1> QED
    BY <1>3 DEF IsList, IsChain

\* A list gets the item new at its tail.
Pushes(link, h, t, n, s, link2, h2, new) ==
    /\ IsList(link, h, t, n, s)
    /\ \A k \in 1 .. n - 1 : link2[s[k]] = link[s[k]]
    /\ new \in Item /\ \A k \in 1 .. n : s[k] # new
    /\ n > 0 => link2[t] = new
    /\ h2 = IF n = 0 THEN new ELSE h

LEMMA ListPush ==
    ASSUME NEW link, NEW h, NEW t, NEW n, NEW s, NEW link2, NEW h2, NEW new,
           Pushes(link, h, t, n, s, link2, h2, new)
    PROVE  IsList(link2, h2, new, n + 1, Pushed(s, n, new))
<1> USE DEF Pushes
<1> DEFINE z == Pushed(s, n, new)
<1>1. n \in Nat /\ s \in [1 .. n -> Item]
    BY DEF IsList, IsChain
<1>2. /\ z \in [1 .. n + 1 -> Item] /\ z[n + 1] = new
      /\ \A k \in 1 .. n : z[k] = s[k]
    BY <1>1 DEF Pushed
<1> HIDE DEF z
<1>3. z[1] = h2
    BY <1>1, <1>2 DEF IsList, IsChain
<1>4. ASSUME NEW k \in 2 .. n + 1
      PROVE  z[k] = link2[z[k - 1]]
  <2>1. CASE k = n + 1
    <3>1. k - 1 = n /\ n > 0 /\ n \in 1 .. n
        BY <1>1, <2>1
    <3> QED
        BY <1>2, <2>1, <3>1 DEF IsList
  <2>2. CASE k # n + 1
    <3>1. k \in 2 .. n /\ k - 1 \in 1 .. n - 1 /\ k - 1 \in 1 .. n /\ k \in 1 .. n
        BY <1>1, <2>2
    <3> QED
        BY <1>2, <3>1 DEF IsList, IsChain
  <2> QED
      BY <2>1, <2>2
<1>5. ASSUME NEW i \in 1 .. n + 1, NEW j \in 1 .. n + 1, z[i] = z[j]
      PROVE  i = j
  <2>1. (i \in 1 .. n \/ i = n + 1) /\ (j \in 1 .. n \/ j = n + 1)
      BY <1>1
  <2> QED
      BY <1>2, <1>5, <2>1 DEF IsList
<1>6. n + 1 \in Nat
    BY <1>1
<1> QED
    BY <1>2, <1>3, <1>4, <1>5, <1>6 DEF IsList, IsChain, z

LEMMA ListDrop ==
    ASSUME NEW link, NEW h, NEW t, NEW n, NEW s, IsList(link, h, t, n, s),
           NEW m \in 0 .. n
    PROVE  IsList(link, IF m = n THEN NULL ELSE s[m + 1],
                  IF m = n THEN NULL ELSE t, n - m, Dropped(s, n, m))
<1> DEFINE z == Dropped(s, n, m)
<1>1. n \in Nat /\ s \in [1 .. n -> Item] /\ m \in Nat /\ m <= n /\ n - m \in Nat
    BY DEF IsList, IsChain
<1>2. /\ z \in [1 .. n - m -> Item]
      /\ \A k \in 1 .. n - m : z[k] = s[k + m] /\ k + m \in 1 .. n
    BY <1>1 DEF Dropped
<1> HIDE DEF z
<1>3. n - m > 0 => m # n /\ z[1] = s[m + 1] /\ t = z[n - m]
  <2> SUFFICES ASSUME n - m > 0
               PROVE  m # n /\ z[1] = s[m + 1] /\ t = z[n - m]
      OBVIOUS
  <2>1. m # n /\ n > 0 /\ 1 \in 1 .. n - m /\ n - m \in 1 .. n - m
        /\ 1 + m = m + 1 /\ (n - m) + m = n
      BY <1>1
  <2>2. z[1] = s[m + 1] /\ z[n - m] = s[n]
      BY <1>2, <2>1
  <2> QED
      BY <2>1, <2>2 DEF IsList
<1>4. ASSUME NEW k \in 2 .. n - m
      PROVE  z[k] = link[z[k - 1]]
  <2>1. /\ k \in 1 .. n - m /\ k - 1 \in 1 .. n - m /\ k + m \in 2 .. n
        /\ (k - 1) + m = (k + m) - 1
      BY <1>1
  <2>2. s[k + m] = link[s[(k + m) - 1]]
      BY <2>1 DEF IsList, IsChain
  <2>3. z[k] = s[k + m] /\ z[k - 1] = s[(k + m) - 1]
      BY <1>2, <2>1
  <2> QED
      BY <2>2, <2>3
<1>5. ASSUME NEW i \in 1 .. n - m, NEW j \in 1 .. n - m, z[i] = z[j]
      PROVE  i = j
  <2>1. i + m = j + m
      BY <1>2, <1>5 DEF IsList
  <2> QED
      BY <1>1, <2>1
<1>6. n - m > 0 => /\ z[1] = IF m = n THEN NULL ELSE s[m + 1]
                   /\ (IF m = n THEN NULL ELSE t) = z[n - m]
    BY <1>3
<1> QED
    BY <1>1, <1>2, <1>4, <1>5, <1>6 DEF IsList, IsChain, z

\* A list loses its item number x.
Removes(link, h, t, n, s, x, link2, h2, t2) ==
    /\ IsList(link, h, t, n, s) /\ x \in 1 .. n
    /\ \A k \in 1 .. n - 1 : k # x - 1 /\ k # x => link2[s[k]] = link[s[k]]
    /\ 1 < x /\ x < n => link2[s[x - 1]] = s[x + 1]
    /\ n > 1 => h2 = IF x = 1 THEN s[2] ELSE h
    /\ n > 1 => t2 = IF x = n THEN s[n - 1] ELSE t

LEMMA ListWithout ==
    ASSUME NEW link, NEW h, NEW t, NEW n, NEW s, NEW x, NEW link2, NEW h2,
           NEW t2, Removes(link, h, t, n, s, x, link2, h2, t2)
    PROVE  IsList(link2, h2, t2, n - 1, Without(s, n, x))
<1> USE DEF Removes
<1> DEFINE z == Without(s, n, x)
<1>1. n \in Nat /\ s \in [1 .. n -> Item] /\ x \in Nat /\ 1 <= x /\ x <= n
      /\ n - 1 \in Nat
    BY DEF IsList, IsChain
<1>2. /\ z \in [1 .. n - 1 -> Item]
      /\ \A k \in 1 .. n - 1 : z[k] = IF k < x THEN s[k] ELSE s[k + 1]
    BY <1>1 DEF Without
<1> HIDE DEF z
<1>3. n > 1 => z[1] = h2 /\ t2 = z[n - 1]
  <2> SUFFICES ASSUME n > 1
               PROVE  z[1] = h2 /\ t2 = z[n - 1]
      OBVIOUS
  <2>1. 1 \in 1 .. n - 1 /\ n - 1 \in 1 .. n - 1 /\ (n - 1) + 1 = n /\ 1 + 1 = 2
        /\ n > 0 /\ (x = n <=> n - 1 < x) /\ (x = 1 <=> ~(1 < x))
      BY <1>1
  <2>2. /\ z[1] = IF x = 1 THEN s[2] ELSE s[1]
        /\ z[n - 1] = IF x = n THEN s[n - 1] ELSE s[n]
      BY <1>2, <2>1
  <2> QED
      BY <2>1, <2>2 DEF IsList, IsChain
<1>4. ASSUME NEW k \in 2 .. n - 1
      PROVE  z[k] = link2[z[k - 1]]
  <2>1. k \in 1 .. n - 1 /\ k - 1 \in 1 .. n - 1 /\ (k - 1) + 1 = k
        /\ k \in 2 .. n /\ k + 1 \in 2 .. n /\ (k + 1) - 1 = k
      BY <1>1
  <2>2. s[k] = link[s[k - 1]] /\ s[k + 1] = link[s[k]]
      BY <2>1 DEF IsList, IsChain
  <2>3. CASE k < x
    <3>1. k - 1 < x /\ k - 1 # x - 1 /\ k - 1 # x
        BY <1>1, <2>1, <2>3
    <3> QED
        BY <1>2, <2>1, <2>2, <2>3, <3>1
  <2>4. CASE k = x
    <3>1. k - 1 < x /\ 1 < x /\ x < n
        BY <1>1, <2>1, <2>4
    <3> QED
        BY <1>2, <2>1, <2>4, <3>1
  <2>5. CASE k > x
    <3>1. ~(k < x) /\ ~(k - 1 < x) /\ k # x - 1 /\ k # x
        BY <1>1, <2>1, <2>5
    <3>2. z[k] = s[k + 1] /\ z[k - 1] = s[k]
        BY <1>2, <2>1, <3>1
    <3> QED
        BY <2>1, <2>2, <3>1, <3>2
  <2> QED
      BY <1>1, <2>1, <2>3, <2>4, <2>5
<1>5. ASSUME NEW i \in 1 .. n - 1, NEW j \in 1 .. n - 1, z[i] = z[j]
      PROVE  i = j
  <2>1. /\ i \in 1 .. n /\ i + 1 \in 1 .. n /\ j \in 1 .. n /\ j + 1 \in 1 .. n
      BY <1>1
  <2>2. \A a, b \in 1 .. n : s[a] = s[b] => a = b
      BY DEF IsList
  <2>3. (IF i < x THEN i ELSE i + 1) = (IF j < x THEN j ELSE j + 1)
      BY <1>2, <1>5, <2>1, <2>2
  <2> QED
      BY <1>1, <2>3
<1>6. n - 1 > 0 => n > 1
    BY <1>1
<1> QED
    BY <1>1, <1>2, <1>3, <1>4, <1>5, <1>6 DEF IsList, IsChain, z

-----------------------------------------------------------------------------
(* The inductive invariant: two lists of allocated items that have no item  *)
(* in common.                                                               *)

TwoLists(nx, pv, hp, rh, rt, rn, r, wh, wt, wn, w) ==
    /\ IsList(nx, rh, rt, rn, r)
    /\ IsList(nx, wh, wt, wn, w)
    /\ \A i \in 1 .. rn : r[i] \in hp
    /\ \A j \in 1 .. wn : w[j] \in hp
    /\ \A i \in 1 .. rn, j \in 1 .. wn : r[i] # w[j]
    /\ \A k \in 2 .. wn : pv[w[k]] = w[k - 1]
    /\ wn > 0 => nx[wt] = NULL

FieldsOK ==
    /\ heap \subseteq Item
    /\ prev \in [Item -> Item \cup {NULL}]
    /\ next \in [Item -> Item \cup {NULL}]
    /\ proc \in [Item -> Proc \cup {NULL}]

LInv ==
    /\ FieldsOK
    /\ TwoLists(next, prev, heap, queue_head, queue_tail, queue_size, Ready,
                waiting_queue_head, waiting_queue_tail, waiting_queue_size,
                Waiting)

\* The lists after a step are the chains that are there.
LEMMA NewLists ==
    ASSUME NEW r, NEW w, FieldsOK',
           TwoLists(next', prev', heap', queue_head', queue_tail', queue_size',
                    r, waiting_queue_head', waiting_queue_tail',
                    waiting_queue_size', w)
    PROVE  LInv' /\ Ready' = r /\ Waiting' = w
<1>1. /\ IsChain(next', queue_head', queue_size', r)
      /\ IsChain(next', waiting_queue_head', waiting_queue_size', w)
    BY DEF TwoLists, IsList
<1>2. Ready' = Walk(next', queue_head', queue_size')
    BY DEF Ready
<1>3. Waiting' = Walk(next', waiting_queue_head', waiting_queue_size')
    BY DEF Waiting
<1>4. Ready' = r /\ Waiting' = w
    BY <1>1, <1>2, <1>3, WalkChain
<1> QED
    BY <1>4 DEF LInv

LEMMA LInvParts ==
    ASSUME LInv
    PROVE  /\ FieldsOK
           /\ IsList(next, queue_head, queue_tail, queue_size, Ready)
           /\ IsList(next, waiting_queue_head, waiting_queue_tail,
                     waiting_queue_size, Waiting)
           /\ queue_size \in Nat /\ Ready \in [1 .. queue_size -> Item]
           /\ waiting_queue_size \in Nat
           /\ Waiting \in [1 .. waiting_queue_size -> Item]
           /\ queue_size > 0 => /\ queue_head = Ready[1]
                                /\ queue_tail = Ready[queue_size]
           /\ waiting_queue_size > 0 =>
                  /\ waiting_queue_head = Waiting[1]
                  /\ waiting_queue_tail = Waiting[waiting_queue_size]
           /\ \A i, j \in 1 .. queue_size : Ready[i] = Ready[j] => i = j
           /\ \A i, j \in 1 .. waiting_queue_size :
                  Waiting[i] = Waiting[j] => i = j
           /\ \A i \in 1 .. queue_size : Ready[i] \in heap
           /\ \A j \in 1 .. waiting_queue_size : Waiting[j] \in heap
           /\ \A i \in 1 .. queue_size, j \in 1 .. waiting_queue_size :
                  Ready[i] # Waiting[j]
           /\ \A k \in 2 .. queue_size : Ready[k] = next[Ready[k - 1]]
           /\ \A k \in 2 .. waiting_queue_size :
                  /\ Waiting[k] = next[Waiting[k - 1]]
                  /\ prev[Waiting[k]] = Waiting[k - 1]
           /\ waiting_queue_size > 0 => next[waiting_queue_tail] = NULL
<1>1. TwoLists(next, prev, heap, queue_head, queue_tail, queue_size, Ready,
               waiting_queue_head, waiting_queue_tail, waiting_queue_size,
               Waiting) /\ FieldsOK
    BY DEF LInv
<1>2. /\ IsList(next, queue_head, queue_tail, queue_size, Ready)
      /\ IsList(next, waiting_queue_head, waiting_queue_tail,
                waiting_queue_size, Waiting)
    BY <1>1 DEF TwoLists
<1>3. /\ queue_size \in Nat /\ Ready \in [1 .. queue_size -> Item]
      /\ queue_size > 0 => /\ queue_head = Ready[1]
                           /\ queue_tail = Ready[queue_size]
      /\ \A i, j \in 1 .. queue_size : Ready[i] = Ready[j] => i = j
      /\ \A k \in 2 .. queue_size : Ready[k] = next[Ready[k - 1]]
    BY <1>2 DEF IsList, IsChain
<1>4. /\ waiting_queue_size \in Nat
      /\ Waiting \in [1 .. waiting_queue_size -> Item]
      /\ waiting_queue_size > 0 =>
             /\ waiting_queue_head = Waiting[1]
             /\ waiting_queue_tail = Waiting[waiting_queue_size]
      /\ \A i, j \in 1 .. waiting_queue_size : Waiting[i] = Waiting[j] => i = j
      /\ \A k \in 2 .. waiting_queue_size : Waiting[k] = next[Waiting[k - 1]]
    BY <1>2 DEF IsList, IsChain
<1> QED
    BY <1>1, <1>2, <1>3, <1>4 DEF TwoLists

\* The ready queue gets an item at its tail.
LEMMA PushReady ==
    ASSUME LInv, NEW new \in Item \ heap,
           NEW nx, nx = IF queue_size = 0 THEN next
                        ELSE [next EXCEPT ![queue_tail] = new]
    PROVE  TwoLists(nx, prev, heap \cup {new},
                    IF queue_size = 0 THEN new ELSE queue_head, new,
                    queue_size + 1, Pushed(Ready, queue_size, new),
                    waiting_queue_head, waiting_queue_tail, waiting_queue_size,
                    Waiting)
<1> DEFINE n == queue_size
           m == waiting_queue_size
           z == Pushed(Ready, n, new)
<1>1. /\ n \in Nat /\ m \in Nat /\ Ready \in [1 .. n -> Item]
      /\ Waiting \in [1 .. m -> Item] /\ next \in [Item -> Item \cup {NULL}]
      /\ n > 0 => queue_tail = Ready[n] /\ n \in 1 .. n
      /\ m > 0 => waiting_queue_tail = Waiting[m] /\ m \in 1 .. m
    BY LInvParts DEF FieldsOK
<1>2. \A i \in Item : nx[i] = IF n > 0 /\ i = queue_tail THEN new ELSE next[i]
    BY <1>1
<1>3. ASSUME NEW k \in 1 .. n - 1
      PROVE  nx[Ready[k]] = next[Ready[k]]
  <2>1. n > 0 /\ k \in 1 .. n /\ k # n /\ n \in 1 .. n
      BY <1>1
  <2>2. Ready[k] # Ready[n] /\ Ready[k] \in Item
      BY <1>1, <2>1, LInvParts
  <2> QED
      BY <1>1, <1>2, <2>1, <2>2
<1>4. ASSUME NEW j \in 1 .. m
      PROVE  nx[Waiting[j]] = next[Waiting[j]]
  <2>1. n > 0 => Waiting[j] # queue_tail
      BY <1>1, LInvParts
  <2> QED
      BY <1>1, <1>2, <2>1
<1>5. \A k \in 1 .. n : Ready[k] # new
    BY LInvParts
<1>6. n > 0 => nx[queue_tail] = new
    BY <1>1, <1>2
<1> HIDE DEF n, m
<1> DEFINE h2 == IF n = 0 THEN new ELSE queue_head
<1> HIDE DEF h2
<1>7. IsList(nx, h2, new, n + 1, z)
  <2>0. h2 = IF n = 0 THEN new ELSE queue_head
      BY DEF h2
  <2>1. IsList(next, queue_head, queue_tail, n, Ready) /\ new \in Item
      BY LInvParts DEF n
  <2>2. Pushes(next, queue_head, queue_tail, n, Ready, nx, h2, new)
      BY <1>3, <1>5, <1>6, <2>0, <2>1 DEF Pushes
  <2> QED
      BY <2>2, ListPush
<1>8. \A j \in 1 .. m - 1 : j \in 1 .. m
    BY <1>1
<1>9. IsList(nx, waiting_queue_head, waiting_queue_tail, m, Waiting)
  <2>1. IsList(next, waiting_queue_head, waiting_queue_tail, m, Waiting)
      BY LInvParts DEF m
  <2>2. \A j \in 1 .. m - 1 : nx[Waiting[j]] = next[Waiting[j]]
      BY <1>4, <1>8
  <2> QED
      BY <2>1, <2>2, ListFrame
<1> USE DEF n, m
<1>10. \A i \in 1 .. n + 1 : z[i] = new \/ \E k \in 1 .. n : z[i] = Ready[k]
    BY <1>1 DEF Pushed
<1>11. \A j \in 1 .. m : Waiting[j] # new
    BY LInvParts
<1> HIDE DEF z
<1>12. /\ \A i \in 1 .. n + 1 : z[i] \in heap \cup {new}
       /\ \A j \in 1 .. m : Waiting[j] \in heap \cup {new}
       /\ \A i \in 1 .. n + 1, j \in 1 .. m : z[i] # Waiting[j]
    BY <1>10, <1>11, LInvParts
<1>13. m > 0 => nx[waiting_queue_tail] = NULL
    BY <1>1, <1>4, LInvParts
<1> QED
    BY <1>7, <1>9, <1>12, <1>13, LInvParts DEF TwoLists, z, h2

\* The ready queue loses the first d items; their fields other than next, and
\* what else is allocated, may change.
LEMMA DropReady ==
    ASSUME NEW nx, NEW pv, NEW hp, NEW rh, NEW rt, NEW rn, NEW r,
           NEW wh, NEW wt, NEW wn, NEW w,
           TwoLists(nx, pv, hp, rh, rt, rn, r, wh, wt, wn, w),
           NEW d \in 0 .. rn, NEW pv2, NEW hp2,
           \A j \in 1 .. wn : pv2[w[j]] = pv[w[j]],
           \A i \in 1 .. rn : i > d => r[i] \in hp2,
           \A j \in 1 .. wn : w[j] \in hp2
    PROVE  TwoLists(nx, pv2, hp2, IF d = rn THEN NULL ELSE r[d + 1],
                    IF d = rn THEN NULL ELSE rt, rn - d, Dropped(r, rn, d),
                    wh, wt, wn, w)
<1> DEFINE z == Dropped(r, rn, d)
<1>1. rn \in Nat /\ wn \in Nat /\ d \in Nat
    BY DEF TwoLists, IsList, IsChain
<1>2. IsList(nx, IF d = rn THEN NULL ELSE r[d + 1],
             IF d = rn THEN NULL ELSE rt, rn - d, z)
    BY ListDrop DEF TwoLists
<1>3. \A i \in 1 .. rn - d : z[i] = r[i + d] /\ i + d \in 1 .. rn /\ i + d > d
    BY <1>1 DEF Dropped
<1> HIDE DEF z
<1>4. /\ \A i \in 1 .. rn - d : z[i] \in hp2
      /\ \A i \in 1 .. rn - d, j \in 1 .. wn : z[i] # w[j]
    BY <1>3 DEF TwoLists
<1>5. \A k \in 2 .. wn : pv2[w[k]] = w[k - 1]
  <2>1. \A k \in 2 .. wn : k \in 1 .. wn
      BY <1>1
  <2> QED
      BY <2>1 DEF TwoLists
<1> QED
    BY <1>2, <1>4, <1>5 DEF TwoLists, z

-----------------------------------------------------------------------------
(* The operations on the ready queue.                                       *)

LEMMA Allocated ==
    ASSUME FieldsOK, NEW new \in Item, NEW p \in Proc, malloc(new, p)
    PROVE  /\ new \in Item \ heap /\ heap' = heap \cup {new}
           /\ heap' \subseteq Item
           /\ proc' \in [Item -> Proc \cup {NULL}]
           /\ proc'[new] = p /\ \A i \in Item \ {new} : proc'[i] = proc[i]
  BY DEF FieldsOK, malloc

\* The links with item new behind the tail of the ready queue.
LEMMA LinksType ==
    ASSUME LInv, NEW new \in Item, queue_size > 0
    PROVE  [next EXCEPT ![queue_tail] = new] \in [Item -> Item \cup {NULL}]
  BY LInvParts DEF FieldsOK

LEMMA PushStep ==
    ASSUME LInv, NEW p \in Proc, PushProcToQueue(p)
    PROVE  /\ LInv' /\ Waiting' = Waiting
           /\ \E new \in Item \ heap :
                 /\ Ready' = Pushed(Ready, queue_size, new)
                 /\ proc'[new] = p
                 /\ \A i \in Item \ {new} : proc'[i] = proc[i]
<1>1. PICK new \in Item :
        /\ malloc(new, p)
        /\ next' = IF queue_size = 0 THEN next
                   ELSE [next EXCEPT ![queue_tail] = new]
        /\ queue_head' = IF queue_size = 0 THEN new ELSE queue_head
        /\ queue_tail' = new
        /\ queue_size' = queue_size + 1
        /\ UNCHANGED <<prev, waitingVars, curr_proc_item>>
    BY DEF PushProcToQueue
<1>2. /\ new \in Item \ heap /\ heap' = heap \cup {new}
      /\ heap' \subseteq Item
      /\ proc' \in [Item -> Proc \cup {NULL}]
      /\ proc'[new] = p /\ \A i \in Item \ {new} : proc'[i] = proc[i]
    BY <1>1, Allocated, LInvParts
<1>3. FieldsOK'
    BY <1>1, <1>2, LinksType, LInvParts DEF FieldsOK
<1>4. TwoLists(next', prev', heap', queue_head', queue_tail', queue_size',
               Pushed(Ready, queue_size, new), waiting_queue_head',
               waiting_queue_tail', waiting_queue_size', Waiting)
  <2>1. TwoLists(next', prev, heap \cup {new},
                 IF queue_size = 0 THEN new ELSE queue_head, new,
                 queue_size + 1, Pushed(Ready, queue_size, new),
                 waiting_queue_head, waiting_queue_tail, waiting_queue_size,
                 Waiting)
      BY <1>1, <1>2, PushReady
  <2> QED
      BY <1>1, <1>2, <2>1 DEF waitingVars
<1>5. LInv' /\ Ready' = Pushed(Ready, queue_size, new) /\ Waiting' = Waiting
    BY <1>3, <1>4, NewLists
<1> QED
    BY <1>2, <1>5

LEMMA HeadsStep ==
    ASSUME LInv, NEW d \in 1 .. queue_size, RemoveHeads(d)
    PROVE  /\ LInv' /\ Waiting' = Waiting
           /\ Ready' = Dropped(Ready, queue_size, d)
<1> DEFINE taken == {Ready[k] : k \in 1 .. d}
           heads == {Ready[k] : k \in (2 .. d + 1) \cap (1 .. queue_size)}
<1>0. queue_size \in Nat /\ d \in 0 .. queue_size
    BY LInvParts
<1>1. /\ heap' = heap \ taken
      /\ queue_size' = queue_size - d
      /\ queue_head' = IF d = queue_size THEN NULL ELSE Ready[d + 1]
      /\ queue_tail' = IF d = queue_size THEN NULL ELSE queue_tail
      /\ prev' = [i \in Item |-> IF i \in heads THEN NULL ELSE prev[i]]
      /\ UNCHANGED <<proc, next, waitingVars, curr_proc_item>>
    BY DEF RemoveHeads
<1>2. FieldsOK'
    BY <1>1, LInvParts DEF FieldsOK
<1>3. \A j \in 1 .. waiting_queue_size :
          Waiting[j] \notin taken /\ Waiting[j] \notin heads /\ Waiting[j] \in Item
    BY <1>0, LInvParts
<1>4. ASSUME NEW i \in 1 .. queue_size, i > d
      PROVE  Ready[i] \notin taken
    BY <1>0, <1>4, LInvParts
<1> HIDE DEF taken, heads
<1>5. /\ \A j \in 1 .. waiting_queue_size : prev'[Waiting[j]] = prev[Waiting[j]]
      /\ \A j \in 1 .. waiting_queue_size : Waiting[j] \in heap'
      /\ \A i \in 1 .. queue_size : i > d => Ready[i] \in heap'
    BY <1>1, <1>3, <1>4, LInvParts
<1>6. TwoLists(next, prev', heap', IF d = queue_size THEN NULL ELSE Ready[d + 1],
               IF d = queue_size THEN NULL ELSE queue_tail, queue_size - d,
               Dropped(Ready, queue_size, d),
               waiting_queue_head, waiting_queue_tail, waiting_queue_size,
               Waiting)
    BY <1>0, <1>5, DropReady DEF LInv
<1>7. TwoLists(next', prev', heap', queue_head', queue_tail', queue_size',
               Dropped(Ready, queue_size, d), waiting_queue_head',
               waiting_queue_tail', waiting_queue_size', Waiting)
    BY <1>1, <1>6 DEF waitingVars
<1> QED
    BY <1>2, <1>7, NewLists

LEMMA RotateStep ==
    ASSUME LInv, NEW p \in Proc, SetNextProc(p)
    PROVE  /\ LInv' /\ Waiting' = Waiting
           /\ \E new \in Item \ heap :
                 /\ Ready' = Dropped(Pushed(Ready, queue_size, new),
                                     queue_size + 1, 1)
                 /\ proc'[new] = p
                 /\ \A i \in Item \ {new} : proc'[i] = proc[i]
<1>1. PICK new \in Item :
        /\ malloc(new, p)
        /\ next' = [next EXCEPT ![queue_tail] = new]
        /\ queue_tail' = new
        /\ queue_head' = next'[queue_head]
        /\ queue_size > 0
        /\ UNCHANGED <<prev, queue_size, waitingVars, curr_proc_item>>
    BY DEF SetNextProc
<1>2. /\ new \in Item \ heap /\ heap' = heap \cup {new}
      /\ heap' \subseteq Item
      /\ proc' \in [Item -> Proc \cup {NULL}]
      /\ proc'[new] = p /\ \A i \in Item \ {new} : proc'[i] = proc[i]
    BY <1>1, Allocated, LInvParts
<1>3. FieldsOK'
    BY <1>1, <1>2, LinksType, LInvParts DEF FieldsOK
<1> DEFINE n == queue_size
           z == Pushed(Ready, n, new)
<1>4. n \in Nat /\ n > 0 /\ n # 0
    BY <1>1, LInvParts
<1>5. TwoLists(next', prev, heap', queue_head, new, n + 1, z,
               waiting_queue_head, waiting_queue_tail, waiting_queue_size,
               Waiting)
  <2>1. TwoLists(next', prev, heap \cup {new},
                 IF n = 0 THEN new ELSE queue_head, new, n + 1, z,
                 waiting_queue_head, waiting_queue_tail, waiting_queue_size,
                 Waiting)
      BY <1>1, <1>2, <1>4, PushReady
  <2> QED
      BY <1>2, <1>4, <2>1
<1> HIDE DEF z, n
<1>6. next'[queue_head] = z[2]
  <2>1. /\ n + 1 \in Nat /\ n + 1 > 0 /\ 2 \in 2 .. n + 1 /\ 2 - 1 = 1
      BY <1>4
  <2> QED
      BY <1>5, <2>1 DEF TwoLists, IsList, IsChain
<1>7. 1 \in 0 .. n + 1 /\ 1 # n + 1 /\ (n + 1) - 1 = n /\ 1 + 1 = 2
    BY <1>4
<1>8. TwoLists(next', prev, heap', IF 1 = n + 1 THEN NULL ELSE z[1 + 1],
               IF 1 = n + 1 THEN NULL ELSE new, (n + 1) - 1,
               Dropped(z, n + 1, 1),
               waiting_queue_head, waiting_queue_tail, waiting_queue_size,
               Waiting)
  <2>1. /\ \A i \in 1 .. n + 1 : i > 1 => z[i] \in heap'
        /\ \A j \in 1 .. waiting_queue_size : Waiting[j] \in heap'
      BY <1>5 DEF TwoLists
  <2> QED
      BY <1>5, <1>7, <2>1, DropReady
<1>9. TwoLists(next', prev', heap', queue_head', queue_tail', queue_size',
               Dropped(z, n + 1, 1), waiting_queue_head', waiting_queue_tail',
               waiting_queue_size', Waiting)
    BY <1>1, <1>6, <1>7, <1>8 DEF waitingVars, n
<1>10. LInv' /\ Ready' = Dropped(z, n + 1, 1) /\ Waiting' = Waiting
    BY <1>3, <1>9, NewLists
<1> QED
    BY <1>2, <1>10 DEF z, n

-----------------------------------------------------------------------------
(* The operations on the waiting queue.                                     *)

LEMMA DelayStep ==
    ASSUME LInv, NEW p \in Proc, PushItemToWaitingQueue(p)
    PROVE  /\ LInv' /\ Ready' = Ready
           /\ \E new \in Item \ heap :
                 /\ Waiting' = Pushed(Waiting, waiting_queue_size, new)
                 /\ proc'[new] = p
                 /\ \A i \in Item \ {new} : proc'[i] = proc[i]
<1> DEFINE n == queue_size
           m == waiting_queue_size
           wt == waiting_queue_tail
<1>1. PICK new \in Item :
        /\ malloc(new, p)
        /\ next' = NextWith(new)
        /\ prev' = PrevWith(new)
        /\ waiting_queue_head' = IF m = 0 THEN new ELSE waiting_queue_head
        /\ waiting_queue_tail' = new
        /\ waiting_queue_size' = m + 1
        /\ UNCHANGED <<readyVars, curr_proc_item>>
    BY DEF PushItemToWaitingQueue
<1>2. /\ new \in Item \ heap /\ heap' = heap \cup {new}
      /\ heap' \subseteq Item
      /\ proc' \in [Item -> Proc \cup {NULL}]
      /\ proc'[new] = p /\ \A i \in Item \ {new} : proc'[i] = proc[i]
    BY <1>1, Allocated, LInvParts
<1> DEFINE z == Pushed(Waiting, m, new)
<1>3. /\ n \in Nat /\ m \in Nat /\ Ready \in [1 .. n -> Item]
      /\ Waiting \in [1 .. m -> Item]
      /\ next \in [Item -> Item \cup {NULL}]
      /\ prev \in [Item -> Item \cup {NULL}]
      /\ m > 0 => wt = Waiting[m] /\ m \in 1 .. m /\ wt \in heap /\ wt \in Item
    BY LInvParts DEF FieldsOK
<1>4. /\ next' \in [Item -> Item \cup {NULL}]
      /\ \A i \in Item : next'[i] = IF m > 0 /\ i = wt THEN new
                                    ELSE IF i = new THEN NULL ELSE next[i]
    BY <1>1, <1>2, <1>3 DEF NextWith
<1>5. /\ prev' \in [Item -> Item \cup {NULL}]
      /\ \A i \in Item : prev'[i] = IF m > 0 /\ i = new THEN wt ELSE prev[i]
    BY <1>1, <1>2, <1>3 DEF PrevWith
<1>6. FieldsOK'
    BY <1>2, <1>4, <1>5 DEF FieldsOK
<1>7. /\ \A k \in 1 .. n : Ready[k] # new
      /\ \A j \in 1 .. m : Waiting[j] # new
    BY <1>2, LInvParts
<1>8. IsList(next', queue_head, queue_tail, n, Ready)
  <2>1. ASSUME NEW k \in 1 .. n - 1
        PROVE  next'[Ready[k]] = next[Ready[k]]
    <3>1. k \in 1 .. n
        BY <1>3
    <3>2. m > 0 => Ready[k] # wt
        BY <1>3, <3>1, LInvParts
    <3> QED
        BY <1>3, <1>4, <1>7, <3>1, <3>2
  <2>2. IsList(next, queue_head, queue_tail, n, Ready)
      BY LInvParts
  <2> QED
      BY <2>1, <2>2, ListFrame
<1>9. IsList(next', waiting_queue_head', new, m + 1, z)
  <2>1. ASSUME NEW k \in 1 .. m - 1
        PROVE  next'[Waiting[k]] = next[Waiting[k]]
    <3>1. k \in 1 .. m /\ k # m /\ m > 0
        BY <1>3
    <3>2. Waiting[k] # wt
        BY <1>3, <3>1, LInvParts
    <3> QED
        BY <1>3, <1>4, <1>7, <3>1, <3>2
  <2>2. m > 0 => next'[wt] = new
      BY <1>3, <1>4
  <2>3. IsList(next, waiting_queue_head, wt, m, Waiting)
      BY LInvParts
  <2>4. Pushes(next, waiting_queue_head, wt, m, Waiting, next',
               waiting_queue_head', new)
      BY <1>1, <1>7, <2>1, <2>2, <2>3 DEF Pushes
  <2> QED
      BY <2>4, ListPush
<1>10. /\ z[m + 1] = new /\ \A j \in 1 .. m : z[j] = Waiting[j]
       /\ \A j \in 1 .. m + 1 : j = m + 1 \/ j \in 1 .. m
    BY <1>3 DEF Pushed
<1> HIDE DEF z
<1>11. /\ \A i \in 1 .. n : Ready[i] \in heap'
       /\ \A j \in 1 .. m + 1 : z[j] \in heap'
       /\ \A i \in 1 .. n, j \in 1 .. m + 1 : Ready[i] # z[j]
  <2>1. /\ \A i \in 1 .. n : Ready[i] \in heap
        /\ \A j \in 1 .. m : Waiting[j] \in heap
        /\ \A i \in 1 .. n, j \in 1 .. m : Ready[i] # Waiting[j]
      BY LInvParts
  <2> HIDE DEF n, m
  <2>2. \A j \in 1 .. m + 1 : z[j] = new \/ \E k \in 1 .. m : z[j] = Waiting[k]
      BY <1>10
  <2> QED
      BY <1>2, <1>7, <2>1, <2>2
<1>12. ASSUME NEW k \in 2 .. m + 1
       PROVE  prev'[z[k]] = z[k - 1]
  <2>1. CASE k = m + 1
    <3>1. m > 0 /\ k - 1 = m
        BY <1>3, <2>1
    <3> QED
        BY <1>3, <1>5, <1>10, <2>1, <3>1
  <2>2. CASE k # m + 1
    <3>1. k \in 2 .. m /\ k \in 1 .. m /\ k - 1 \in 1 .. m
        BY <1>3, <2>2
    <3>2. prev[Waiting[k]] = Waiting[k - 1]
        BY <3>1, LInvParts
    <3> QED
        BY <1>3, <1>5, <1>7, <1>10, <3>1, <3>2
  <2> QED
      BY <2>1, <2>2
<1>13. next'[new] = NULL
    BY <1>2, <1>3, <1>4
<1>14. TwoLists(next', prev', heap', queue_head', queue_tail', queue_size', Ready,
                waiting_queue_head', waiting_queue_tail', waiting_queue_size', z)
    BY <1>1, <1>8, <1>9, <1>11, <1>12, <1>13 DEF TwoLists, readyVars
<1>15. LInv' /\ Ready' = Ready /\ Waiting' = z
    BY <1>6, <1>14, NewLists
<1> QED
    BY <1>2, <1>15 DEF z

\* The links after the item number x of the waiting queue has been unlinked.
LEMMA UnlinkedLinks ==
    ASSUME LInv, NEW x \in 1 .. waiting_queue_size,
           NEW u, u = Unlinked(Waiting[x])
    PROVE  LET m == waiting_queue_size
           IN  /\ u.next \in [Item -> Item \cup {NULL}]
               /\ u.prev \in [Item -> Item \cup {NULL}]
               /\ \A i \in Item : i \notin Cells(Waiting) => u.next[i] = next[i]
               /\ \A j \in 1 .. m :
                     /\ u.next[Waiting[j]] =
                          IF j = x - 1
                          THEN IF x = m THEN NULL ELSE Waiting[x + 1]
                          ELSE next[Waiting[j]]
                     /\ u.prev[Waiting[j]] =
                          IF j = x + 1
                          THEN IF x = 1 THEN NULL ELSE Waiting[x - 1]
                          ELSE prev[Waiting[j]]
               /\ m > 1 => u.head = IF x = 1 THEN Waiting[2]
                                    ELSE waiting_queue_head
               /\ m > 1 => u.tail = IF x = m THEN Waiting[m - 1]
                                    ELSE waiting_queue_tail
<1> DEFINE m == waiting_queue_size
           w == Waiting
<1>1. /\ m \in Nat /\ w \in [1 .. m -> Item] /\ m > 0
      /\ next \in [Item -> Item \cup {NULL}]
      /\ prev \in [Item -> Item \cup {NULL}]
      /\ waiting_queue_head = w[1] /\ waiting_queue_tail = w[m]
      /\ \A i, j \in 1 .. m : w[i] = w[j] => i = j
      /\ \A k \in 2 .. m : w[k] = next[w[k - 1]] /\ prev[w[k]] = w[k - 1]
      /\ x \in Nat /\ 1 \in 1 .. m /\ m \in 1 .. m
    BY LInvParts DEF FieldsOK
<1>2. /\ waiting_queue_head = w[x] <=> x = 1
      /\ waiting_queue_tail = w[x] <=> x = m
    BY <1>1
<1>3. x > 1 => x - 1 \in 1 .. m /\ prev[w[x]] = w[x - 1] /\ w[x - 1] \in Item
    BY <1>1
<1>4. x < m => x + 1 \in 1 .. m /\ next[w[x]] = w[x + 1] /\ w[x + 1] \in Item
  <2> SUFFICES ASSUME x < m
               PROVE  x + 1 \in 1 .. m /\ next[w[x]] = w[x + 1] /\ w[x + 1] \in Item
      OBVIOUS
  <2>1. x + 1 \in 2 .. m /\ (x + 1) - 1 = x /\ x + 1 \in 1 .. m
      BY <1>1
  <2> QED
      BY <1>1, <2>1
<1>5. \A j \in 1 .. m : w[j] \in Cells(Waiting)
  <2>1. Len(Waiting) = m
      BY <1>1
  <2> QED
      BY <2>1 DEF Cells
<1>6. CASE x = 1 /\ x = m
  <2>1. u.next = next /\ u.prev = prev
      BY <1>2, <1>6 DEF Unlinked
  <2> QED
      BY <1>1, <1>6, <2>1
<1>7. CASE x = 1 /\ x # m
  <2>1. /\ u.next = next /\ u.prev = [prev EXCEPT ![next[w[x]]] = NULL]
        /\ u.head = next[w[x]] /\ u.tail = waiting_queue_tail
      BY <1>2, <1>7 DEF Unlinked
  <2>2. x < m /\ next[w[x]] = w[x + 1] /\ x + 1 = 2 /\ x + 1 \in 1 .. m
      BY <1>1, <1>4, <1>7
  <2>3. \A j \in 1 .. m : u.prev[w[j]] = IF j = x + 1 THEN NULL ELSE prev[w[j]]
      BY <1>1, <2>1, <2>2
  <2>4. \A j \in 1 .. m : j # x - 1
      BY <1>7
  <2>5. /\ u.next \in [Item -> Item \cup {NULL}]
        /\ u.prev \in [Item -> Item \cup {NULL}]
      BY <1>1, <2>1
  <2> QED
      BY <1>7, <2>1, <2>2, <2>3, <2>4, <2>5
<1>8. CASE x # 1 /\ x = m
  <2>1. /\ u.prev = prev /\ u.next = [next EXCEPT ![prev[w[x]]] = NULL]
        /\ u.head = waiting_queue_head /\ u.tail = prev[w[x]]
      BY <1>2, <1>8 DEF Unlinked
  <2>2. x > 1 /\ prev[w[x]] = w[x - 1] /\ x - 1 \in 1 .. m
      BY <1>1, <1>3, <1>8
  <2>3. \A j \in 1 .. m : u.next[w[j]] = IF j = x - 1 THEN NULL ELSE next[w[j]]
      BY <1>1, <2>1, <2>2
  <2>4. \A i \in Item : i \notin Cells(Waiting) => u.next[i] = next[i]
      BY <1>1, <1>5, <2>1, <2>2
  <2>5. \A j \in 1 .. m : j # x + 1
      BY <1>1, <1>8
  <2>6. /\ u.next \in [Item -> Item \cup {NULL}]
        /\ u.prev \in [Item -> Item \cup {NULL}]
      BY <1>1, <2>1
  <2> QED
      BY <1>8, <2>1, <2>2, <2>3, <2>4, <2>5, <2>6
<1>9. CASE x # 1 /\ x # m
  <2>1. /\ u.next = [next EXCEPT ![prev[w[x]]] = next[w[x]]]
        /\ u.prev = [prev EXCEPT ![next[w[x]]] = prev[w[x]]]
        /\ u.head = waiting_queue_head /\ u.tail = waiting_queue_tail
      BY <1>2, <1>9 DEF Unlinked
  <2>2. /\ prev[w[x]] = w[x - 1] /\ x - 1 \in 1 .. m
        /\ next[w[x]] = w[x + 1] /\ x + 1 \in 1 .. m
      BY <1>1, <1>3, <1>4, <1>9
  <2>3. \A j \in 1 .. m :
            u.next[w[j]] = IF j = x - 1 THEN w[x + 1] ELSE next[w[j]]
      BY <1>1, <2>1, <2>2
  <2>4. \A j \in 1 .. m :
            u.prev[w[j]] = IF j = x + 1 THEN w[x - 1] ELSE prev[w[j]]
      BY <1>1, <2>1, <2>2
  <2>5. \A i \in Item : i \notin Cells(Waiting) => u.next[i] = next[i]
      BY <1>1, <1>5, <2>1, <2>2
  <2>6. /\ u.next \in [Item -> Item \cup {NULL}]
        /\ u.prev \in [Item -> Item \cup {NULL}]
      BY <1>1, <2>1, <2>2
  <2> QED
      BY <1>9, <2>1, <2>3, <2>4, <2>5, <2>6
<1> QED
    BY <1>6, <1>7, <1>8, <1>9

LEMMA RemoveStep ==
    ASSUME LInv, NEW x \in 1 .. waiting_queue_size,
           RemoveItemFromWaitingQueue(Waiting[x])
    PROVE  /\ LInv' /\ Ready' = Ready
           /\ Waiting' = Without(Waiting, waiting_queue_size, x)
<1> DEFINE n == queue_size
           m == waiting_queue_size
           w == Waiting
           u == Unlinked(w[x])
           z == Without(w, m, x)
<1>1. /\ heap' = heap \ {w[x]} /\ next' = u.next /\ prev' = u.prev
      /\ waiting_queue_head' = u.head /\ waiting_queue_tail' = u.tail
      /\ waiting_queue_size' = m - 1 /\ UNCHANGED <<proc, readyVars>>
    BY DEF RemoveItemFromWaitingQueue
<1>2. /\ n \in Nat /\ m \in Nat /\ x \in Nat /\ Ready \in [1 .. n -> Item]
      /\ w \in [1 .. m -> Item] /\ Len(w) = m
      /\ \A i, j \in 1 .. m : w[i] = w[j] => i = j
      /\ waiting_queue_tail = w[m] /\ next[w[m]] = NULL
      /\ \A k \in 2 .. m : prev[w[k]] = w[k - 1]
    BY LInvParts
<1>3. /\ next' \in [Item -> Item \cup {NULL}]
      /\ prev' \in [Item -> Item \cup {NULL}]
      /\ \A i \in Item : i \notin Cells(w) => next'[i] = next[i]
      /\ \A j \in 1 .. m :
            /\ next'[w[j]] = IF j = x - 1
                             THEN IF x = m THEN NULL ELSE w[x + 1]
                             ELSE next[w[j]]
            /\ prev'[w[j]] = IF j = x + 1
                             THEN IF x = 1 THEN NULL ELSE w[x - 1]
                             ELSE prev[w[j]]
      /\ m > 1 => waiting_queue_head' = IF x = 1 THEN w[2]
                                        ELSE waiting_queue_head
      /\ m > 1 => waiting_queue_tail' = IF x = m THEN w[m - 1] ELSE w[m]
  <2>1. PICK v : v = u
      OBVIOUS
  <2>2. /\ v.next \in [Item -> Item \cup {NULL}]
        /\ v.prev \in [Item -> Item \cup {NULL}]
        /\ \A i \in Item : i \notin Cells(Waiting) => v.next[i] = next[i]
        /\ \A j \in 1 .. m :
              /\ v.next[Waiting[j]] = IF j = x - 1
                                     THEN IF x = m THEN NULL ELSE Waiting[x + 1]
                                     ELSE next[Waiting[j]]
              /\ v.prev[Waiting[j]] = IF j = x + 1
                                     THEN IF x = 1 THEN NULL ELSE Waiting[x - 1]
                                     ELSE prev[Waiting[j]]
        /\ m > 1 => v.head = IF x = 1 THEN Waiting[2] ELSE waiting_queue_head
        /\ m > 1 => v.tail = IF x = m THEN Waiting[m - 1] ELSE waiting_queue_tail
      BY <2>1, UnlinkedLinks
  <2> HIDE DEF u
  <2> QED
      BY <1>1, <1>2, <2>1, <2>2
<1>4. FieldsOK'
    BY <1>1, <1>3, LInvParts DEF FieldsOK
<1>5. IsList(next', queue_head, queue_tail, n, Ready)
  <2>1. ASSUME NEW k \in 1 .. n - 1
        PROVE  next'[Ready[k]] = next[Ready[k]]
    <3>1. k \in 1 .. n /\ Ready[k] \in Item
        BY <1>2
    <3>2. Ready[k] \notin Cells(w)
        BY <1>2, <3>1, LInvParts DEF Cells
    <3> QED
        BY <1>3, <3>1, <3>2
  <2>2. IsList(next, queue_head, queue_tail, n, Ready)
      BY LInvParts
  <2> QED
      BY <2>1, <2>2, ListFrame
<1>6. IsList(next', waiting_queue_head', waiting_queue_tail', m - 1, z)
  <2>1. IsList(next, waiting_queue_head, w[m], m, w)
      BY <1>2, LInvParts
  <2>2. \A k \in 1 .. m - 1 : k # x - 1 /\ k # x => next'[w[k]] = next[w[k]]
    <3>1. \A k \in 1 .. m - 1 : k \in 1 .. m
        BY <1>2
    <3> QED
        BY <1>3, <3>1
  <2>3. 1 < x /\ x < m => next'[w[x - 1]] = w[x + 1]
    <3>1. 1 < x => x - 1 \in 1 .. m
        BY <1>2
    <3> QED
        BY <1>2, <1>3, <3>1
  <2>4. Removes(next, waiting_queue_head, w[m], m, w, x, next',
                waiting_queue_head', waiting_queue_tail')
      BY <1>3, <2>1, <2>2, <2>3 DEF Removes
  <2> QED
      BY <2>4, ListWithout
<1>7. \A k \in 1 .. m - 1 :
          z[k] = w[IF k < x THEN k ELSE k + 1]
    BY <1>2 DEF Without
<1> HIDE DEF z, u
<1>8. ASSUME NEW k \in 1 .. m - 1
      PROVE  /\ z[k] \in heap'
             /\ \A i \in 1 .. n : Ready[i] # z[k]
  <2>1. PICK j \in 1 .. m : z[k] = w[j] /\ j # x
    <3>1. CASE k < x
        BY <1>2, <1>7, <3>1
    <3>2. CASE ~(k < x)
        BY <1>2, <1>7, <3>2
    <3> QED
        BY <3>1, <3>2
  <2> QED
      BY <1>1, <1>2, <2>1, LInvParts
<1>9. \A i \in 1 .. n : Ready[i] \in heap'
    BY <1>1, LInvParts
<1>10. ASSUME NEW k \in 2 .. m - 1
       PROVE  prev'[z[k]] = z[k - 1]
  <2>1. k \in 1 .. m - 1 /\ k - 1 \in 1 .. m - 1 /\ (k - 1) + 1 = k
        /\ k \in 1 .. m /\ k + 1 \in 2 .. m /\ k + 1 \in 1 .. m
        /\ (k + 1) - 1 = k /\ k \in 2 .. m
      BY <1>2
  <2>2. CASE k < x
    <3>1. k - 1 < x /\ k # x + 1
        BY <1>2, <2>1, <2>2
    <3>2. z[k] = w[k] /\ z[k - 1] = w[k - 1]
        BY <1>7, <2>1, <2>2, <3>1
    <3> QED
        BY <1>2, <1>3, <2>1, <3>1, <3>2
  <2>3. CASE k = x
    <3>1. ~(k < x) /\ k - 1 < x /\ x # 1 /\ k + 1 = x + 1
        BY <1>2, <2>1, <2>3
    <3>2. z[k] = w[x + 1] /\ z[k - 1] = w[x - 1]
        BY <1>7, <2>1, <2>3, <3>1
    <3> QED
        BY <1>3, <2>1, <3>1, <3>2
  <2>4. CASE k > x
    <3>1. ~(k < x) /\ ~(k - 1 < x) /\ k + 1 # x + 1
        BY <1>2, <2>1, <2>4
    <3>2. z[k] = w[k + 1] /\ z[k - 1] = w[k]
        BY <1>7, <2>1, <3>1
    <3>3. prev[w[k + 1]] = w[k]
        BY <1>2, <2>1
    <3> QED
        BY <1>3, <2>1, <3>1, <3>2, <3>3
  <2> QED
      BY <1>2, <2>1, <2>2, <2>3, <2>4
<1>11. m - 1 > 0 => next'[waiting_queue_tail'] = NULL
  <2> SUFFICES ASSUME m - 1 > 0
               PROVE  next'[waiting_queue_tail'] = NULL
      OBVIOUS
  <2>1. m > 1 /\ m \in 1 .. m /\ m - 1 \in 1 .. m
      BY <1>2
  <2>2. CASE x = m
      BY <1>3, <2>1, <2>2
  <2>3. CASE x # m
    <3>1. m # x - 1
        BY <1>2
    <3> QED
        BY <1>2, <1>3, <2>1, <2>3, <3>1
  <2> QED
      BY <2>2, <2>3
<1>12. TwoLists(next', prev', heap', queue_head', queue_tail', queue_size', Ready,
                waiting_queue_head', waiting_queue_tail', waiting_queue_size', z)
  <2>1. TwoLists(next', prev', heap', queue_head, queue_tail, n, Ready,
                 waiting_queue_head', waiting_queue_tail', m - 1, z)
      BY <1>5, <1>6, <1>8, <1>9, <1>10, <1>11 DEF TwoLists
  <2> QED
      BY <1>1, <2>1 DEF readyVars
<1>13. LInv' /\ Ready' = Ready /\ Waiting' = z
    BY <1>4, <1>12, NewLists
<1> QED
    BY <1>13 DEF z

-----------------------------------------------------------------------------
(* The theorems.                                                            *)

LEMMA LInvInit == Init => LInv
<1> SUFFICES ASSUME Init
             PROVE  LInv
    OBVIOUS
<1>1. FieldsOK
    BY DEF Init, FieldsOK
<1> DEFINE e == [k \in 1 .. 0 |-> NULL]
<1>2. e \in [1 .. 0 -> Item] /\ 0 \in Nat
    OBVIOUS
<1> HIDE DEF e
<1>3. IsChain(next, NULL, 0, e) /\ IsList(next, NULL, NULL, 0, e)
    BY <1>2 DEF IsChain, IsList
<1>4. Ready = e /\ Waiting = e
    BY <1>3, WalkChain DEF Init, Ready, Waiting
<1>5. TwoLists(next, prev, heap, NULL, NULL, 0, e, NULL, NULL, 0, e)
    BY <1>3 DEF TwoLists
<1> QED
    BY <1>1, <1>4, <1>5 DEF Init, LInv

LEMMA LInvStep ==
    ASSUME LInv, [Next]_vars
    PROVE  LInv'
<1>1. ASSUME NEW p \in Proc, RemoveProcFromReadyQueue(p)
      PROVE  LInv'
    BY <1>1, HeadsStep DEF RemoveProcFromReadyQueue
<1>2. CASE FindReadyPcb
  <2>1. 1 \in 1 .. queue_size
      BY <1>2, LInvParts DEF FindReadyPcb
  <2> QED
      BY <1>2, <2>1, HeadsStep DEF FindReadyPcb
<1>3. CASE ResumeScan \/ UNCHANGED vars
    BY <1>3 DEF ResumeScan, vars, readyVars, waitingVars, LInv, FieldsOK, Ready,
                Waiting
<1> QED
    BY <1>1, <1>2, <1>3, PushStep, RotateStep, DelayStep, RemoveStep DEF Next

LEMMA LInvCorrect == Spec => []LInv
  BY LInvInit, LInvStep, PTL DEF Spec

LEMMA CellsCount ==
    ASSUME NEW link, NEW h, NEW t, NEW n, NEW s, IsList(link, h, t, n, s)
    PROVE  IsFiniteSet(Cells(s)) /\ Cardinality(Cells(s)) = n
<1>1. n \in Nat /\ s \in [1 .. n -> Item] /\ Len(s) = n
    BY DEF IsList, IsChain
<1>2. Cells(s) = {s[k] : k \in 1 .. n}
    BY <1>1 DEF Cells
<1> DEFINE B == Cells(s)
<1>3. s \in Bijection(1 .. n, B)
  <2>1. s \in [1 .. n -> B]
      BY <1>1, <1>2
  <2>2. \A i, j \in 1 .. n : s[i] = s[j] => i = j
      BY DEF IsList
  <2> QED
      BY <1>2, <2>1, <2>2 DEF Bijection, Injection, Surjection, IsInjective
<1>4. IsFiniteSet(1 .. n) /\ Cardinality(1 .. n) = n
  <2>1. 1 \in Int /\ n \in Int
      BY <1>1
  <2> QED
      BY <1>1, <2>1, FS_Interval
<1>5. ExistsBijection(1 .. n, B)
    BY <1>3 DEF ExistsBijection
<1> QED
    BY <1>4, <1>5, FS_Bijection

\* However many items and processes there are, and whatever the order of pushes,
\* removals and reuses of freed items: the two queues are made of different
\* allocated items, their tails are their last items, and the prev fields lead
\* back along the waiting queue.
THEOREM ListsSoundCorrect == Spec => []ListsSound
<1>1. ASSUME LInv
      PROVE  ListsSound
  <2>1. /\ Len(Ready) = queue_size /\ Len(Waiting) = waiting_queue_size
        /\ Cells(Ready) \subseteq heap /\ Cells(Waiting) \subseteq heap
        /\ Cells(Ready) \cap Cells(Waiting) = {}
    <3>1. Len(Ready) = queue_size /\ Len(Waiting) = waiting_queue_size
        BY <1>1, LInvParts
    <3> QED
        BY <1>1, <3>1, LInvParts DEF Cells
  <2>2. /\ IsFiniteSet(Cells(Ready)) /\ Cardinality(Cells(Ready)) = queue_size
        /\ IsFiniteSet(Cells(Waiting))
        /\ Cardinality(Cells(Waiting)) = waiting_queue_size
      BY <1>1, LInvParts, CellsCount
  <2>3. Cardinality(Cells(Ready) \cup Cells(Waiting))
            = queue_size + waiting_queue_size
    <3>1. Cardinality(Cells(Ready) \cap Cells(Waiting)) = 0
        BY <2>1, FS_EmptySet
    <3>2. Cardinality(Cells(Ready) \cup Cells(Waiting))
              = Cardinality(Cells(Ready)) + Cardinality(Cells(Waiting))
                - Cardinality(Cells(Ready) \cap Cells(Waiting))
        BY <2>2, FS_Union
    <3>3. queue_size \in Nat /\ waiting_queue_size \in Nat
        BY <1>1, LInvParts
    <3> QED
        BY <2>2, <3>1, <3>2, <3>3
  <2> QED
      BY <1>1, <2>1, <2>3, LInvParts DEF ListsSound
<1> QED
    BY <1>1, LInvCorrect, PTL

\* The last item of the waiting queue always leads to NULL: the loop of
\* TrapClockHandler over a queue that nobody changes comes to an end.
THEOREM ScanEndsCorrect == Spec => []ScanEnds
<1>1. LInv => ScanEnds
    BY LInvParts DEF ScanEnds
<1> QED
    BY <1>1, LInvCorrect, PTL

-----------------------------------------------------------------------------
(* The linked lists implement the queues.                                   *)

\* The processes of the first n items of s.
ProcsOf(pr, s, n) == [k \in 1 .. n |-> pr[s[k]]]

\* A list and the processes of its items.
Held(pr, s, n) ==
    /\ n \in Nat /\ s \in [1 .. n -> Item]
    /\ pr \in [Item -> Proc \cup {NULL}]

LEMMA ProcsType ==
    ASSUME NEW pr, NEW s, NEW n, Held(pr, s, n)
    PROVE  /\ ProcsOf(pr, s, n) \in Seq(Proc \cup {NULL})
           /\ Len(ProcsOf(pr, s, n)) = n
           /\ \A k \in 1 .. n : ProcsOf(pr, s, n)[k] = pr[s[k]]
<1>1. /\ n \in Nat /\ \A k \in 1 .. n : pr[s[k]] \in Proc \cup {NULL}
    BY DEF Held
<1>2. ProcsOf(pr, s, n) \in [1 .. n -> Proc \cup {NULL}]
    BY <1>1 DEF ProcsOf
<1>3. ProcsOf(pr, s, n) \in Seq(Proc \cup {NULL})
    BY <1>1, <1>2
<1> QED
    BY <1>1, <1>2, <1>3 DEF ProcsOf

\* An item of process p at the end of a list.
LEMMA ProcsPushed ==
    ASSUME NEW pr, NEW s, NEW n, Held(pr, s, n),
           NEW new \in Item, \A k \in 1 .. n : s[k] # new,
           NEW p \in Proc, NEW pr2, pr2[new] = p,
           \A i \in Item \ {new} : pr2[i] = pr[i]
    PROVE  ProcsOf(pr2, Pushed(s, n, new), n + 1) = Append(ProcsOf(pr, s, n), p)
<1> DEFINE a == ProcsOf(pr, s, n)
<1>1. n \in Nat /\ s \in [1 .. n -> Item]
    BY DEF Held
<1>2. a \in Seq(Proc \cup {NULL}) /\ Len(a) = n /\ \A k \in 1 .. n : a[k] = pr[s[k]]
    BY ProcsType
<1> HIDE DEF a
<1>3. Append(a, p) = [k \in 1 .. n + 1 |-> IF k <= n THEN a[k] ELSE p]
  <2>1. /\ Append(a, p) \in Seq(Proc \cup {NULL}) /\ Len(Append(a, p)) = n + 1
        /\ \A k \in 1 .. n : Append(a, p)[k] = a[k]
        /\ Append(a, p)[n + 1] = p
      BY <1>1, <1>2, AppendProperties
  <2>2. Append(a, p) \in [1 .. n + 1 -> Proc \cup {NULL}]
      BY <2>1, LenProperties
  <2>3. \A k \in 1 .. n + 1 : Append(a, p)[k] = IF k <= n THEN a[k] ELSE p
      BY <1>1, <2>1
  <2> QED
      BY <2>2, <2>3
<1>4. \A k \in 1 .. n + 1 : pr2[Pushed(s, n, new)[k]] = IF k <= n THEN a[k] ELSE p
    BY <1>1, <1>2 DEF Pushed
<1> QED
    BY <1>3, <1>4 DEF ProcsOf, a

\* The first item of a list goes.
LEMMA ProcsTail ==
    ASSUME NEW pr, NEW s, NEW n, Held(pr, s, n), n > 0
    PROVE  /\ ProcsOf(pr, Dropped(s, n, 1), n - 1) = Tail(ProcsOf(pr, s, n))
           /\ ProcsOf(pr, s, n) # <<>>
<1> DEFINE a == ProcsOf(pr, s, n)
<1>1. n \in Nat /\ s \in [1 .. n -> Item]
    BY DEF Held
<1>2. a \in Seq(Proc \cup {NULL}) /\ Len(a) = n /\ \A k \in 1 .. n : a[k] = pr[s[k]]
    BY ProcsType
<1> HIDE DEF a
<1>3. a # <<>>
    BY <1>2
<1>4. Tail(a) = [k \in 1 .. n - 1 |-> a[k + 1]]
  <2>1. /\ Tail(a) \in Seq(Proc \cup {NULL}) /\ Len(Tail(a)) = n - 1
        /\ \A k \in 1 .. n - 1 : Tail(a)[k] = a[k + 1]
      BY <1>1, <1>2, <1>3, HeadTailProperties
  <2>2. Tail(a) \in [1 .. n - 1 -> Proc \cup {NULL}]
      BY <2>1, LenProperties
  <2> QED
      BY <2>1, <2>2
<1>5. \A k \in 1 .. n - 1 : pr[Dropped(s, n, 1)[k]] = a[k + 1]
    BY <1>1, <1>2 DEF Dropped
<1> QED
    BY <1>3, <1>4, <1>5 DEF ProcsOf, a

\* The item number x of a list goes.
LEMMA ProcsWithout ==
    ASSUME NEW pr, NEW s, NEW n, Held(pr, s, n), NEW x \in 1 .. n
    PROVE  ProcsOf(pr, Without(s, n, x), n - 1)
               = Q!RemoveAt(ProcsOf(pr, s, n), x)
<1> DEFINE a == ProcsOf(pr, s, n)
           S == Proc \cup {NULL}
           b == SubSeq(a, 1, x - 1)
           c == SubSeq(a, x + 1, n)
<1>1. n \in Nat /\ s \in [1 .. n -> Item] /\ x \in Nat
    BY DEF Held
<1>2. a \in Seq(S) /\ Len(a) = n /\ \A k \in 1 .. n : a[k] = pr[s[k]]
    BY ProcsType
<1>3. \A k \in 1 .. n : a[k] \in S
    BY <1>2, ElementOfSeq
<1> HIDE DEF a, S
<1>4. /\ b \in Seq(S) /\ Len(b) = x - 1
      /\ \A i \in 1 .. x - 1 : b[i] = a[i]
  <2>1. 1 \in Int /\ x - 1 \in Int /\ (\A i \in 1 .. x - 1 : a[i] \in S)
      BY <1>1, <1>3
  <2>2. /\ b \in Seq(S) /\ Len(b) = IF 1 <= x - 1 THEN (x - 1) - 1 + 1 ELSE 0
        /\ \A i \in 1 .. (x - 1) - 1 + 1 : b[i] = a[1 + i - 1]
      BY <2>1, SubSeqProperties
  <2> HIDE DEF b
  <2> QED
      BY <1>1, <2>2
<1>5. /\ c \in Seq(S) /\ Len(c) = n - x
      /\ \A i \in 1 .. n - x : c[i] = a[x + i]
  <2>1. x + 1 \in Int /\ n \in Int /\ (\A i \in x + 1 .. n : a[i] \in S)
      BY <1>1, <1>3
  <2>2. /\ c \in Seq(S) /\ Len(c) = IF x + 1 <= n THEN n - (x + 1) + 1 ELSE 0
        /\ \A i \in 1 .. n - (x + 1) + 1 : c[i] = a[(x + 1) + i - 1]
      BY <2>1, SubSeqProperties
  <2> HIDE DEF c
  <2> QED
      BY <1>1, <2>2
<1> HIDE DEF b, c
<1>6. /\ b \o c \in Seq(S) /\ Len(b \o c) = n - 1
      /\ \A i \in 1 .. n - 1 :
            (b \o c)[i] = IF i <= x - 1 THEN b[i] ELSE c[i - (x - 1)]
  <2>1. (x - 1) + (n - x) = n - 1
      BY <1>1
  <2>2. /\ b \o c \in Seq(S) /\ Len(b \o c) = Len(b) + Len(c)
        /\ \A i \in 1 .. Len(b) + Len(c) :
              (b \o c)[i] = IF i <= Len(b) THEN b[i] ELSE c[i - Len(b)]
      BY <1>4, <1>5, ConcatProperties
  <2>3. Len(b) + Len(c) = n - 1
      BY <1>4, <1>5, <2>1
  <2> QED
      BY <1>4, <2>2, <2>3
<1>7. b \o c \in [1 .. n - 1 -> S]
    BY <1>6, LenProperties
<1>8. ASSUME NEW i \in 1 .. n - 1
      PROVE  pr[Without(s, n, x)[i]] = (b \o c)[i]
  <2>1. CASE i < x
    <3>1. i \in 1 .. x - 1 /\ i \in 1 .. n /\ i <= x - 1
        BY <1>1, <2>1
    <3> QED
        BY <1>2, <1>4, <1>6, <2>1, <3>1 DEF Without
  <2>2. CASE ~(i < x)
    <3>1. /\ i - (x - 1) \in 1 .. n - x /\ i + 1 \in 1 .. n /\ ~(i <= x - 1)
          /\ x + (i - (x - 1)) = i + 1
        BY <1>1, <2>2
    <3> QED
        BY <1>2, <1>5, <1>6, <2>2, <3>1 DEF Without
  <2> QED
      BY <2>1, <2>2
<1>9. ProcsOf(pr, Without(s, n, x), n - 1) = b \o c
    BY <1>7, <1>8 DEF ProcsOf
<1> QED
    BY <1>2, <1>9 DEF Q!RemoveAt, a, b, c

\* Sequence b is a without p, as in Queues.tla.
Withdrawn(a, b, p) ==
    LET kept == {i \in 1 .. Len(a) : a[i] # p}
    IN  /\ Len(b) = Cardinality(kept)
        /\ \A i \in kept : b[Cardinality({j \in kept : j <= i})] = a[i]

\* The first d items, those of process p, go.
LEMMA ProcsDropped ==
    ASSUME NEW pr, NEW s, NEW n, Held(pr, s, n), NEW p, NEW d \in 1 .. n,
           \A k \in 1 .. n : pr[s[k]] = p <=> k <= d,
           NEW a, a = ProcsOf(pr, s, n),
           NEW b, b = ProcsOf(pr, Dropped(s, n, d), n - d)
    PROVE  Withdrawn(a, b, p)
<1> DEFINE kept == {i \in 1 .. Len(a) : a[i] # p}
<1>1. n \in Nat /\ d \in Nat /\ s \in [1 .. n -> Item]
    BY DEF Held
<1>2. Len(a) = n /\ \A k \in 1 .. n : a[k] = pr[s[k]]
    BY ProcsType
<1>3. kept = d + 1 .. n
    BY <1>1, <1>2
<1>4. Len(b) = n - d /\ \A k \in 1 .. n - d : b[k] = pr[s[k + d]]
  <2>1. \A k \in 1 .. n - d : Dropped(s, n, d)[k] = s[k + d] /\ k + d \in 1 .. n
      BY <1>1 DEF Dropped
  <2>2. n - d \in Nat /\ Held(pr, Dropped(s, n, d), n - d)
      BY <1>1, <2>1 DEF Held, Dropped
  <2>3. Len(b) = n - d /\ \A k \in 1 .. n - d : b[k] = pr[Dropped(s, n, d)[k]]
      BY <2>2, ProcsType
  <2> QED
      BY <2>1, <2>3
<1>5. \A i \in d .. n : Cardinality(d + 1 .. i) = i - d
  <2> SUFFICES ASSUME NEW i \in d .. n
               PROVE  Cardinality(d + 1 .. i) = i - d
      OBVIOUS
  <2>1. d + 1 \in Int /\ i \in Int
      BY <1>1
  <2>2. Cardinality(d + 1 .. i) = IF d + 1 > i THEN 0 ELSE i - (d + 1) + 1
      BY <2>1, FS_Interval
  <2> QED
      BY <1>1, <2>2
<1>6. Len(b) = Cardinality(kept)
  <2>1. n \in d .. n
      BY <1>1
  <2> QED
      BY <1>3, <1>4, <1>5, <2>1
<1>7. ASSUME NEW i \in kept
      PROVE  b[Cardinality({j \in kept : j <= i})] = a[i]
  <2>1. {j \in kept : j <= i} = d + 1 .. i
      BY <1>1, <1>3
  <2>2. i \in d .. n /\ i - d \in 1 .. n - d /\ (i - d) + d = i /\ i \in 1 .. n
      BY <1>1, <1>3
  <2> HIDE DEF kept
  <2>3. Cardinality({j \in kept : j <= i}) = i - d
      BY <1>5, <2>1, <2>2
  <2> QED
      BY <1>2, <1>4, <2>2, <2>3
<1> QED
    BY <1>6, <1>7 DEF Withdrawn

LEMMA QueueProcs ==
    /\ ReadyProcs = ProcsOf(proc, Ready, queue_size)
    /\ WaitingProcs = ProcsOf(proc, Waiting, waiting_queue_size)
    /\ ReadyProcs' = ProcsOf(proc', Ready', queue_size')
    /\ WaitingProcs' = ProcsOf(proc', Waiting', waiting_queue_size')
  BY DEF ReadyProcs, WaitingProcs, ProcsOf

LEMMA QueuesHeld ==
    ASSUME LInv
    PROVE  /\ Held(proc, Ready, queue_size)
           /\ Held(proc, Waiting, waiting_queue_size)
  BY LInvParts DEF Held, FieldsOK

\* A new item that is on neither list, and what it does to the other list.
LEMMA ProcsKept ==
    ASSUME NEW pr, NEW s, NEW n, Held(pr, s, n), NEW new \in Item,
           \A k \in 1 .. n : s[k] # new,
           NEW pr2, \A i \in Item \ {new} : pr2[i] = pr[i]
    PROVE  ProcsOf(pr2, s, n) = ProcsOf(pr, s, n)
<1>1. \A k \in 1 .. n : pr2[s[k]] = pr[s[k]]
    BY DEF Held
<1> QED
    BY <1>1 DEF ProcsOf

LEMMA CardinalitySame == \A S : Q!Cardinality(S) = Cardinality(S)
  BY Zenon DEF Q!Cardinality, Cardinality

\* For any processes, items and order of calls: the linked lists hold the same
\* processes in the same order as the two queues of Queues.tla, and each list
\* operation does to them what its counterpart there does.  So what is said of
\* the sequences of Processes.tla is true of the lists of sharedvar.c.
THEOREM QueuesRefinement == Spec => QueuesSpec
<1>1. ASSUME Init
      PROVE  Q!Init
  <2>1. queue_size = 0 /\ waiting_queue_size = 0
      BY <1>1 DEF Init
  <2> QED
      BY <2>1 DEF Q!Init, ReadyProcs, WaitingProcs
<1>2. ASSUME LInv, NEW p \in Proc, PushProcToQueue(p)
      PROVE  Q!Push(p)
  <2>1. PICK new \in Item \ heap :
           /\ Waiting' = Waiting /\ Ready' = Pushed(Ready, queue_size, new)
           /\ proc'[new] = p /\ \A i \in Item \ {new} : proc'[i] = proc[i]
      BY <1>2, PushStep
  <2>2. /\ queue_size' = queue_size + 1
        /\ waiting_queue_size' = waiting_queue_size
      BY <1>2 DEF PushProcToQueue, waitingVars
  <2>3. /\ \A k \in 1 .. queue_size : Ready[k] # new
        /\ \A k \in 1 .. waiting_queue_size : Waiting[k] # new
      BY <1>2, LInvParts
  <2>4. ReadyProcs' = Append(ReadyProcs, p)
      BY <1>2, <2>1, <2>2, <2>3, QueueProcs, QueuesHeld, ProcsPushed
  <2>5. WaitingProcs' = WaitingProcs
      BY <1>2, <2>1, <2>2, <2>3, QueueProcs, QueuesHeld, ProcsKept
  <2> QED
      BY <2>4, <2>5 DEF Q!Push
<1>3. ASSUME LInv, NEW p \in Proc, SetNextProc(p)
      PROVE  Q!Rotate(p)
  <2> DEFINE n == queue_size
  <2>1. PICK new \in Item \ heap :
           /\ Waiting' = Waiting
           /\ Ready' = Dropped(Pushed(Ready, n, new), n + 1, 1)
           /\ proc'[new] = p /\ \A i \in Item \ {new} : proc'[i] = proc[i]
      BY <1>3, RotateStep
  <2>2. n' = n /\ n > 0 /\ waiting_queue_size' = waiting_queue_size
      BY <1>3 DEF SetNextProc, waitingVars
  <2>3. /\ \A k \in 1 .. n : Ready[k] # new
        /\ \A k \in 1 .. waiting_queue_size : Waiting[k] # new
      BY <1>3, LInvParts
  <2>4. Held(proc, Ready, n) /\ n \in Nat /\ Ready \in [1 .. n -> Item]
      BY <1>3, QueuesHeld, LInvParts
  <2>5. WaitingProcs' = WaitingProcs
      BY <1>3, <2>1, <2>2, <2>3, QueueProcs, QueuesHeld, ProcsKept
  <2> DEFINE z == Pushed(Ready, n, new)
             a == ProcsOf(proc, Ready, n)
  <2>6. Held(proc', z, n + 1) /\ n + 1 > 0
    <3>1. proc' \in [Item -> Proc \cup {NULL}]
        BY <1>3, RotateStep, LInvParts DEF LInv, FieldsOK
    <3>2. z \in [1 .. n + 1 -> Item]
        BY <2>4 DEF Pushed
    <3> QED
        BY <2>4, <3>1, <3>2 DEF Held
  <2>7. ProcsOf(proc', z, n + 1) = Append(a, p)
      BY <2>1, <2>3, <2>4, ProcsPushed
  <2>8. ReadyProcs' = Tail(Append(a, p))
    <3>1. (n + 1) - 1 = n
        BY <2>4
    <3>2. ProcsOf(proc', Dropped(z, n + 1, 1), (n + 1) - 1) = Tail(Append(a, p))
        BY <2>6, <2>7, ProcsTail
    <3> QED
        BY <2>1, <2>2, <3>1, <3>2, QueueProcs
  <2>9. Tail(Append(a, p)) = Append(Tail(a), p) /\ a # <<>>
    <3>1. a \in Seq(Proc \cup {NULL}) /\ a # <<>> /\ p \in Proc \cup {NULL}
        BY <2>2, <2>4, ProcsType, ProcsTail
    <3> HIDE DEF a
    <3> QED
        BY <3>1
  <2> QED
      BY <2>5, <2>8, <2>9, QueueProcs DEF Q!Rotate
<1>4. ASSUME LInv, NEW p \in Proc, RemoveProcFromReadyQueue(p)
      PROVE  Q!Withdraw(p)
  <2>1. PICK d \in 1 .. queue_size :
           /\ \A k \in 1 .. queue_size : proc[Ready[k]] = p <=> k <= d
           /\ RemoveHeads(d)
      BY <1>4 DEF RemoveProcFromReadyQueue
  <2>2. Waiting' = Waiting /\ Ready' = Dropped(Ready, queue_size, d)
      BY <1>4, <2>1, HeadsStep
  <2>3. /\ queue_size' = queue_size - d /\ proc' = proc
        /\ waiting_queue_size' = waiting_queue_size
      BY <2>1 DEF RemoveHeads, waitingVars
  <2>4. WaitingProcs' = WaitingProcs
      BY <2>2, <2>3, QueueProcs
  <2>5. PICK a, b : a = ReadyProcs /\ b = ReadyProcs'
      OBVIOUS
  <2>6. /\ a = ProcsOf(proc, Ready, queue_size)
        /\ b = ProcsOf(proc, Dropped(Ready, queue_size, d), queue_size - d)
      BY <2>2, <2>3, <2>5, QueueProcs
  <2>7. Withdrawn(a, b, p)
    <3>1. Held(proc, Ready, queue_size)
        BY <1>4, QueuesHeld
    <3> QED
        BY <2>1, <2>6, <3>1, ProcsDropped
  <2> DEFINE kept == {i \in 1 .. Len(a) : a[i] # p}
  <2>8. /\ Len(b) = Q!Cardinality(kept)
        /\ \A i \in kept : b[Q!Cardinality({j \in kept : j <= i})] = a[i]
      BY <2>7, CardinalitySame DEF Withdrawn
  <2> QED
      BY <2>4, <2>5, <2>8 DEF Q!Withdraw
<1>5. ASSUME LInv, NEW p \in Proc, PushItemToWaitingQueue(p)
      PROVE  Q!Delay(p)
  <2>1. PICK new \in Item \ heap :
           /\ Ready' = Ready /\ Waiting' = Pushed(Waiting, waiting_queue_size, new)
           /\ proc'[new] = p /\ \A i \in Item \ {new} : proc'[i] = proc[i]
      BY <1>5, DelayStep
  <2>2. /\ waiting_queue_size' = waiting_queue_size + 1
        /\ queue_size' = queue_size
      BY <1>5 DEF PushItemToWaitingQueue, readyVars
  <2>3. /\ \A k \in 1 .. queue_size : Ready[k] # new
        /\ \A k \in 1 .. waiting_queue_size : Waiting[k] # new
      BY <1>5, LInvParts
  <2>4. WaitingProcs' = Append(WaitingProcs, p)
      BY <1>5, <2>1, <2>2, <2>3, QueueProcs, QueuesHeld, ProcsPushed
  <2>5. ReadyProcs' = ReadyProcs
      BY <1>5, <2>1, <2>2, <2>3, QueueProcs, QueuesHeld, ProcsKept
  <2> QED
      BY <2>4, <2>5 DEF Q!Delay
<1>6. ASSUME LInv, FindReadyPcb
      PROVE  Q!Pop
  <2>1. queue_size > 0 /\ RemoveHeads(1)
      BY <1>6 DEF FindReadyPcb
  <2>2. 1 \in 1 .. queue_size
      BY <1>6, <2>1, LInvParts
  <2>3. Waiting' = Waiting /\ Ready' = Dropped(Ready, queue_size, 1)
      BY <1>6, <2>1, <2>2, HeadsStep
  <2>4. /\ queue_size' = queue_size - 1 /\ proc' = proc
        /\ waiting_queue_size' = waiting_queue_size
      BY <2>1 DEF RemoveHeads, waitingVars
  <2>5. WaitingProcs' = WaitingProcs
      BY <2>3, <2>4, QueueProcs
  <2>6. ReadyProcs' = Tail(ReadyProcs) /\ ReadyProcs # <<>>
      BY <1>6, <2>1, <2>3, <2>4, QueueProcs, QueuesHeld, ProcsTail
  <2> QED
      BY <2>5, <2>6 DEF Q!Pop
<1>7. ASSUME LInv, NEW k \in 1 .. waiting_queue_size,
             RemoveItemFromWaitingQueue(Waiting[k])
      PROVE  Q!Wake(k)
  <2>1. /\ Ready' = Ready
        /\ Waiting' = Without(Waiting, waiting_queue_size, k)
      BY <1>7, RemoveStep
  <2>2. /\ queue_size' = queue_size /\ proc' = proc
        /\ waiting_queue_size' = waiting_queue_size - 1
      BY <1>7 DEF RemoveItemFromWaitingQueue, readyVars
  <2>3. ReadyProcs' = ReadyProcs
      BY <2>1, <2>2, QueueProcs
  <2>4. WaitingProcs' = Q!RemoveAt(WaitingProcs, k)
      BY <1>7, <2>1, <2>2, QueueProcs, QueuesHeld, ProcsWithout
  <2> QED
      BY <2>3, <2>4 DEF Q!Wake
<1>8. ASSUME ResumeScan
      PROVE  UNCHANGED <<ReadyProcs, WaitingProcs>>
    BY <1>8 DEF ResumeScan, readyVars, waitingVars, ReadyProcs, WaitingProcs,
                Ready, Waiting
<1> DEFINE Step ==
        /\ \A p \in Proc : /\ PushProcToQueue(p) => Q!Push(p)
                           /\ SetNextProc(p) => Q!Rotate(p)
                           /\ RemoveProcFromReadyQueue(p) => Q!Withdraw(p)
                           /\ PushItemToWaitingQueue(p) => Q!Delay(p)
        /\ FindReadyPcb => Q!Pop
        /\ \A k \in 1 .. waiting_queue_size :
              RemoveItemFromWaitingQueue(Waiting[k]) => Q!Wake(k)
        /\ ResumeScan => UNCHANGED <<ReadyProcs, WaitingProcs>>
<1>9. LInv => Step
    BY <1>2, <1>3, <1>4, <1>5, <1>6, <1>7, <1>8
<1>10. QueuesSpec <=> Q!Init /\ [][Step]_vars
    BY DEF QueuesSpec
<1> HIDE DEF Step
<1> QED
    BY <1>1, <1>9, <1>10, LInvCorrect, PTL DEF Spec
=============================================================================
